---------------------------- MODULE UnicodeTables ----------------------------
(***************************************************************************)
(* The character tables of WCsubst.c, row for row and in the order of the  *)
(* file.  A row <<start, length, rule>> of allchars, convchars or          *)
(* spacechars says that the rule holds from start on for length            *)
(* characters.  A row <<n, category, updist, lowdist, titledist>> of the   *)
(* rules is rule n; its two columns GENCAT_x and NUMCAT_x name the same    *)
(* category x throughout, and the column "possible" is read by nobody.     *)
(* The long tables are cut into pieces of at most 150 rows.                *)
(***************************************************************************)
EXTENDS Integers, Sequences

----------------------------------------------------------------------------
(* The conversion rules. *)
RuleRows1 == <<
  <<183, "LU", 0, -35332, 0>>, <<171, "SO", -26, 0, -26>>, <<182, "LL", -7264, 0, -7264>>,
  <<188, "LU", 0, -42315, 0>>, <<143, "LL", 8, 0, 8>>, <<127, "LU", 0, 38864, 0>>,
  <<90, "LL", 42258, 0, 42258>>, <<20, "LL", 0, 0, 0>>, <<76, "LL", 10743, 0, 10743>>,
  <<61, "LL", 10783, 0, 10783>>, <<132, "LL", -6242, 0, -6242>>, <<37, "LU", 0, 211, 0>>,
  <<197, "LL", -928, 0, -928>>, <<80, "LL", -214, 0, -214>>, <<75, "LL", -211, 0, -211>>,
  <<123, "LL", -48, 0, -48>>, <<52, "LU", 0, -56, 0>>, <<149, "LL", 112, 0, 112>>, <<71, "LL", -207, 0, -207>>,
  <<125, "LU", 0, 7264, 0>>, <<166, "LU", 0, 28, 0>>, <<173, "LU", 0, -3814, 0>>, <<45, "LU", 0, 219, 0>>,
  <<7, "PD", 0, 0, 0>>, <<202, "LL", -40, 0, -40>>, <<99, "LL", -38, 0, -38>>, <<97, "LU", 0, 64, 0>>,
  <<1, "ZS", 0, 0, 0>>, <<89, "LL", 42261, 0, 42261>>, <<29, "LU", 0, 210, 0>>, <<35, "LU", 0, 207, 0>>,
  <<168, "NL", 0, 16, 0>>, <<13, "SO", 0, 0, 0>>, <<163, "LU", 0, -7517, 0>>, <<142, "LU", 0, -7615, 0>>,
  <<137, "LU", 0, -3008, 0>>, <<100, "LL", -37, 0, -37>>, <<2, "PO", 0, 0, 0>>, <<69, "LL", 42319, 0, 42319>>,
  <<56, "LU", 0, 10792, 0>>, <<25, "LL", -232, 0, -232>>, <<43, "LU", 0, 218, 0>>, <<179, "LU", 0, -10783, 0>>,
  <<147, "LL", 100, 0, 100>>, <<98, "LU", 0, 63, 0>>, <<92, "MN", 0, 0, 0>>, <<12, "LL", -32, 0, -32>>,
  <<95, "LU", 0, 38, 0>>, <<140, "LL", 35384, 0, 35384>>, <<101, "LL", -31, 0, -31>>,
  <<204, "LL", -34, 0, -34>>, <<107, "LU", 0, 0, 0>>, <<11, "PC", 0, 0, 0>>, <<192, "LU", 0, -42261, 0>>,
  <<190, "LU", 0, -42258, 0>>, <<158, "LU", 0, -112, 0>>, <<15, "PI", 0, 0, 0>>, <<146, "LL", 86, 0, 86>>,
  <<124, "MC", 0, 0, 0>>, <<139, "LL", 3814, 0, 3814>>, <<44, "LU", 0, 217, 0>>, <<167, "LL", -28, 0, -28>>,
  <<200, "CO", 0, 0, 0>>, <<196, "LU", 0, -35384, 0>>, <<116, "LL", -96, 0, -96>>, <<185, "LL", 48, 0, 48>>,
  <<51, "LU", 0, -97, 0>>, <<39, "LL", 163, 0, 163>>, <<201, "LU", 0, 40, 0>>, <<128, "NL", 0, 0, 0>>,
  <<126, "LL", 3008, 0, 0>>, <<96, "LU", 0, 37, 0>>, <<82, "LL", -218, 0, -218>>, <<120, "LU", 0, 15, 0>>,
  <<67, "LL", -202, 0, -202>>, <<66, "LL", -205, 0, -205>>, <<47, "LU", 0, 2, 1>>,
  <<136, "LL", 35266, 0, 35266>>, <<83, "LL", 42307, 0, 42307>>, <<30, "LU", 0, 206, 0>>,
  <<111, "LL", -86, 0, -86>>, <<4, "PS", 0, 0, 0>>, <<3, "SC", 0, 0, 0>>, <<164, "LU", 0, -8383, 0>>,
  <<122, "LU", 0, 48, 0>>, <<14, "LO", 0, 0, 0>>, <<18, "LL", 743, 0, 743>>, <<161, "ZL", 0, 0, 0>>,
  <<156, "LU", 0, -86, 0>>, <<186, "LU", 0, -42308, 0>>, <<176, "LL", -10792, 0, -10792>>,
  <<180, "LU", 0, -10782, 0>>, <<198, "LL", -38864, 0, -38864>>, <<153, "LU", 0, -74, 0>>,
  <<24, "LU", 0, -199, 0>>, <<157, "LU", 0, -100, 0>>, <<138, "LL", 35332, 0, 35332>>,
  <<155, "LL", -7205, 0, -7205>>, <<152, "LL", 9, 0, 9>>, <<27, "LL", -300, 0, -300>>,
  <<187, "LU", 0, -42319, 0>>, <<31, "LU", 0, 205, 0>>, <<59, "LU", 0, 69, 0>>, <<6, "SM", 0, 0, 0>>,
  <<121, "LL", -15, 0, -15>>, <<112, "LL", -80, 0, -80>>, <<191, "LU", 0, -42282, 0>>,
  <<133, "LL", -6243, 0, -6243>>, <<130, "LL", -6253, 0, -6253>>, <<165, "LU", 0, -8262, 0>>,
  <<144, "LU", 0, -8, 0>>, <<26, "LU", 0, -121, 0>>, <<0, "CC", 0, 0, 0>>, <<113, "LL", 7, 0, 7>>,
  <<93, "MN", 84, 0, 84>>, <<78, "LL", 10749, 0, 10749>>, <<77, "LL", 42305, 0, 42305>>,
  <<70, "LL", 42315, 0, 42315>>, <<50, "LL", -79, 0, -79>>, <<60, "LU", 0, 71, 0>>, <<22, "LU", 0, 1, 0>>,
  <<49, "LL", -2, 0, -1>>, <<94, "LU", 0, 116, 0>>, <<84, "LL", 42282, 0, 42282>>, <<169, "NL", -16, 0, -16>>,
  <<104, "LU", 0, 8, 0>>, <<23, "LL", -1, 0, -1>>, <<88, "LL", -219, 0, -219>>, <<79, "LL", -213, 0, -213>>,
  <<64, "LL", -210, 0, -210>>, <<177, "LU", 0, -10780, 0>>, <<87, "LL", -71, 0, -71>>,
  <<85, "LL", -69, 0, -69>>, <<32, "LU", 0, 79, 0>>, <<195, "LU", 0, -42307, 0>>, <<117, "LU", 0, -7, 0>>,
  <<74, "LL", -209, 0, -209>>, <<199, "CS", 0, 0, 0>>, <<154, "LT", 0, -9, 0>>, <<57, "LL", 10815, 0, 10815>>,
  <<72, "LL", 42280, 0, 42280>>, <<34, "LU", 0, 203, 0>>, <<194, "LU", 0, -48, 0>>,
  <<63, "LL", 10782, 0, 10782>>, <<184, "LU", 0, -42280, 0>>, <<159, "LU", 0, -128, 0>>,
  <<102, "LL", -64, 0, -64>>, <<17, "NO", 0, 0, 0>>, <<91, "LM", 0, 0, 0>>, <<46, "LL", 56, 0, 56>>
>>

RuleRows2 == <<
  <<145, "LL", 74, 0, 74>>, <<42, "LU", 0, 214, 0>>, <<162, "ZP", 0, 0, 0>>, <<103, "LL", -63, 0, -63>>,
  <<36, "LL", 97, 0, 97>>, <<151, "LT", 0, -8, 0>>, <<148, "LL", 128, 0, 128>>, <<81, "LL", 10727, 0, 10727>>,
  <<62, "LL", 10780, 0, 10780>>, <<41, "LL", 130, 0, 130>>, <<203, "LU", 0, 34, 0>>,
  <<134, "LL", -6236, 0, -6236>>, <<68, "LL", -203, 0, -203>>, <<65, "LL", -206, 0, -206>>,
  <<48, "LT", -1, 1, 0>>, <<19, "PF", 0, 0, 0>>, <<33, "LU", 0, 202, 0>>, <<105, "LL", -62, 0, -62>>,
  <<8, "ND", 0, 0, 0>>, <<193, "LU", 0, 928, 0>>, <<53, "LU", 0, -130, 0>>, <<28, "LL", 195, 0, 195>>,
  <<172, "LU", 0, -10743, 0>>, <<141, "LL", -59, 0, -59>>, <<115, "LU", 0, -60, 0>>, <<110, "LL", -8, 0, -8>>,
  <<73, "LL", 42308, 0, 42308>>, <<40, "LU", 0, 213, 0>>, <<150, "LL", 126, 0, 126>>,
  <<131, "LL", -6244, 0, -6244>>, <<129, "LL", -6254, 0, -6254>>, <<118, "LU", 0, 80, 0>>,
  <<55, "LU", 0, -163, 0>>, <<189, "LU", 0, -42305, 0>>, <<175, "LL", -10795, 0, -10795>>,
  <<58, "LU", 0, -195, 0>>, <<54, "LU", 0, 10795, 0>>, <<135, "LL", -6181, 0, -6181>>,
  <<109, "LL", -54, 0, -54>>, <<160, "LU", 0, -126, 0>>, <<106, "LL", -57, 0, -57>>, <<21, "LL", 121, 0, 121>>,
  <<170, "SO", 0, 26, 0>>, <<86, "LL", -217, 0, -217>>, <<16, "CF", 0, 0, 0>>, <<114, "LL", -116, 0, -116>>,
  <<38, "LU", 0, 209, 0>>, <<10, "SK", 0, 0, 0>>, <<181, "LU", 0, -10815, 0>>, <<5, "PE", 0, 0, 0>>,
  <<178, "LU", 0, -10749, 0>>, <<119, "ME", 0, 0, 0>>, <<108, "LL", -47, 0, -47>>, <<174, "LU", 0, -10727, 0>>,
  <<9, "LU", 0, 32, 0>>
>>

ruleRows == RuleRows1 \o RuleRows2

----------------------------------------------------------------------------
(* The table allchars. *)
AllChars1 == <<
  <<0, 32, 0>>, <<32, 1, 1>>, <<33, 3, 2>>, <<36, 1, 3>>, <<37, 3, 2>>, <<40, 1, 4>>, <<41, 1, 5>>,
  <<42, 1, 2>>, <<43, 1, 6>>, <<44, 1, 2>>, <<45, 1, 7>>, <<46, 2, 2>>, <<48, 10, 8>>, <<58, 2, 2>>,
  <<60, 3, 6>>, <<63, 2, 2>>, <<65, 26, 9>>, <<91, 1, 4>>, <<92, 1, 2>>, <<93, 1, 5>>, <<94, 1, 10>>,
  <<95, 1, 11>>, <<96, 1, 10>>, <<97, 26, 12>>, <<123, 1, 4>>, <<124, 1, 6>>, <<125, 1, 5>>, <<126, 1, 6>>,
  <<127, 33, 0>>, <<160, 1, 1>>, <<161, 1, 2>>, <<162, 4, 3>>, <<166, 1, 13>>, <<167, 1, 2>>, <<168, 1, 10>>,
  <<169, 1, 13>>, <<170, 1, 14>>, <<171, 1, 15>>, <<172, 1, 6>>, <<173, 1, 16>>, <<174, 1, 13>>, <<175, 1, 10>>,
  <<176, 1, 13>>, <<177, 1, 6>>, <<178, 2, 17>>, <<180, 1, 10>>, <<181, 1, 18>>, <<182, 2, 2>>, <<184, 1, 10>>,
  <<185, 1, 17>>, <<186, 1, 14>>, <<187, 1, 19>>, <<188, 3, 17>>, <<191, 1, 2>>, <<192, 23, 9>>, <<215, 1, 6>>,
  <<216, 7, 9>>, <<223, 1, 20>>, <<224, 23, 12>>, <<247, 1, 6>>, <<248, 7, 12>>, <<255, 1, 21>>, <<256, 1, 22>>,
  <<257, 1, 23>>, <<258, 1, 22>>, <<259, 1, 23>>, <<260, 1, 22>>, <<261, 1, 23>>, <<262, 1, 22>>,
  <<263, 1, 23>>, <<264, 1, 22>>, <<265, 1, 23>>, <<266, 1, 22>>, <<267, 1, 23>>, <<268, 1, 22>>,
  <<269, 1, 23>>, <<270, 1, 22>>, <<271, 1, 23>>, <<272, 1, 22>>, <<273, 1, 23>>, <<274, 1, 22>>,
  <<275, 1, 23>>, <<276, 1, 22>>, <<277, 1, 23>>, <<278, 1, 22>>, <<279, 1, 23>>, <<280, 1, 22>>,
  <<281, 1, 23>>, <<282, 1, 22>>, <<283, 1, 23>>, <<284, 1, 22>>, <<285, 1, 23>>, <<286, 1, 22>>,
  <<287, 1, 23>>, <<288, 1, 22>>, <<289, 1, 23>>, <<290, 1, 22>>, <<291, 1, 23>>, <<292, 1, 22>>,
  <<293, 1, 23>>, <<294, 1, 22>>, <<295, 1, 23>>, <<296, 1, 22>>, <<297, 1, 23>>, <<298, 1, 22>>,
  <<299, 1, 23>>, <<300, 1, 22>>, <<301, 1, 23>>, <<302, 1, 22>>, <<303, 1, 23>>, <<304, 1, 24>>,
  <<305, 1, 25>>, <<306, 1, 22>>, <<307, 1, 23>>, <<308, 1, 22>>, <<309, 1, 23>>, <<310, 1, 22>>,
  <<311, 1, 23>>, <<312, 1, 20>>, <<313, 1, 22>>, <<314, 1, 23>>, <<315, 1, 22>>, <<316, 1, 23>>,
  <<317, 1, 22>>, <<318, 1, 23>>, <<319, 1, 22>>, <<320, 1, 23>>, <<321, 1, 22>>, <<322, 1, 23>>,
  <<323, 1, 22>>, <<324, 1, 23>>, <<325, 1, 22>>, <<326, 1, 23>>, <<327, 1, 22>>, <<328, 1, 23>>,
  <<329, 1, 20>>, <<330, 1, 22>>, <<331, 1, 23>>, <<332, 1, 22>>, <<333, 1, 23>>, <<334, 1, 22>>,
  <<335, 1, 23>>, <<336, 1, 22>>, <<337, 1, 23>>, <<338, 1, 22>>, <<339, 1, 23>>, <<340, 1, 22>>,
  <<341, 1, 23>>, <<342, 1, 22>>, <<343, 1, 23>>
>>

AllChars2 == <<
  <<344, 1, 22>>, <<345, 1, 23>>, <<346, 1, 22>>, <<347, 1, 23>>, <<348, 1, 22>>, <<349, 1, 23>>,
  <<350, 1, 22>>, <<351, 1, 23>>, <<352, 1, 22>>, <<353, 1, 23>>, <<354, 1, 22>>, <<355, 1, 23>>,
  <<356, 1, 22>>, <<357, 1, 23>>, <<358, 1, 22>>, <<359, 1, 23>>, <<360, 1, 22>>, <<361, 1, 23>>,
  <<362, 1, 22>>, <<363, 1, 23>>, <<364, 1, 22>>, <<365, 1, 23>>, <<366, 1, 22>>, <<367, 1, 23>>,
  <<368, 1, 22>>, <<369, 1, 23>>, <<370, 1, 22>>, <<371, 1, 23>>, <<372, 1, 22>>, <<373, 1, 23>>,
  <<374, 1, 22>>, <<375, 1, 23>>, <<376, 1, 26>>, <<377, 1, 22>>, <<378, 1, 23>>, <<379, 1, 22>>,
  <<380, 1, 23>>, <<381, 1, 22>>, <<382, 1, 23>>, <<383, 1, 27>>, <<384, 1, 28>>, <<385, 1, 29>>,
  <<386, 1, 22>>, <<387, 1, 23>>, <<388, 1, 22>>, <<389, 1, 23>>, <<390, 1, 30>>, <<391, 1, 22>>,
  <<392, 1, 23>>, <<393, 2, 31>>, <<395, 1, 22>>, <<396, 1, 23>>, <<397, 1, 20>>, <<398, 1, 32>>,
  <<399, 1, 33>>, <<400, 1, 34>>, <<401, 1, 22>>, <<402, 1, 23>>, <<403, 1, 31>>, <<404, 1, 35>>,
  <<405, 1, 36>>, <<406, 1, 37>>, <<407, 1, 38>>, <<408, 1, 22>>, <<409, 1, 23>>, <<410, 1, 39>>,
  <<411, 1, 20>>, <<412, 1, 37>>, <<413, 1, 40>>, <<414, 1, 41>>, <<415, 1, 42>>, <<416, 1, 22>>,
  <<417, 1, 23>>, <<418, 1, 22>>, <<419, 1, 23>>, <<420, 1, 22>>, <<421, 1, 23>>, <<422, 1, 43>>,
  <<423, 1, 22>>, <<424, 1, 23>>, <<425, 1, 43>>, <<426, 2, 20>>, <<428, 1, 22>>, <<429, 1, 23>>,
  <<430, 1, 43>>, <<431, 1, 22>>, <<432, 1, 23>>, <<433, 2, 44>>, <<435, 1, 22>>, <<436, 1, 23>>,
  <<437, 1, 22>>, <<438, 1, 23>>, <<439, 1, 45>>, <<440, 1, 22>>, <<441, 1, 23>>, <<442, 1, 20>>,
  <<443, 1, 14>>, <<444, 1, 22>>, <<445, 1, 23>>, <<446, 1, 20>>, <<447, 1, 46>>, <<448, 4, 14>>,
  <<452, 1, 47>>, <<453, 1, 48>>, <<454, 1, 49>>, <<455, 1, 47>>, <<456, 1, 48>>, <<457, 1, 49>>,
  <<458, 1, 47>>, <<459, 1, 48>>, <<460, 1, 49>>, <<461, 1, 22>>, <<462, 1, 23>>, <<463, 1, 22>>,
  <<464, 1, 23>>, <<465, 1, 22>>, <<466, 1, 23>>, <<467, 1, 22>>, <<468, 1, 23>>, <<469, 1, 22>>,
  <<470, 1, 23>>, <<471, 1, 22>>, <<472, 1, 23>>, <<473, 1, 22>>, <<474, 1, 23>>, <<475, 1, 22>>,
  <<476, 1, 23>>, <<477, 1, 50>>, <<478, 1, 22>>, <<479, 1, 23>>, <<480, 1, 22>>, <<481, 1, 23>>,
  <<482, 1, 22>>, <<483, 1, 23>>, <<484, 1, 22>>, <<485, 1, 23>>, <<486, 1, 22>>, <<487, 1, 23>>,
  <<488, 1, 22>>, <<489, 1, 23>>, <<490, 1, 22>>, <<491, 1, 23>>, <<492, 1, 22>>, <<493, 1, 23>>,
  <<494, 1, 22>>, <<495, 1, 23>>, <<496, 1, 20>>, <<497, 1, 47>>, <<498, 1, 48>>, <<499, 1, 49>>
>>

AllChars3 == <<
  <<500, 1, 22>>, <<501, 1, 23>>, <<502, 1, 51>>, <<503, 1, 52>>, <<504, 1, 22>>, <<505, 1, 23>>,
  <<506, 1, 22>>, <<507, 1, 23>>, <<508, 1, 22>>, <<509, 1, 23>>, <<510, 1, 22>>, <<511, 1, 23>>,
  <<512, 1, 22>>, <<513, 1, 23>>, <<514, 1, 22>>, <<515, 1, 23>>, <<516, 1, 22>>, <<517, 1, 23>>,
  <<518, 1, 22>>, <<519, 1, 23>>, <<520, 1, 22>>, <<521, 1, 23>>, <<522, 1, 22>>, <<523, 1, 23>>,
  <<524, 1, 22>>, <<525, 1, 23>>, <<526, 1, 22>>, <<527, 1, 23>>, <<528, 1, 22>>, <<529, 1, 23>>,
  <<530, 1, 22>>, <<531, 1, 23>>, <<532, 1, 22>>, <<533, 1, 23>>, <<534, 1, 22>>, <<535, 1, 23>>,
  <<536, 1, 22>>, <<537, 1, 23>>, <<538, 1, 22>>, <<539, 1, 23>>, <<540, 1, 22>>, <<541, 1, 23>>,
  <<542, 1, 22>>, <<543, 1, 23>>, <<544, 1, 53>>, <<545, 1, 20>>, <<546, 1, 22>>, <<547, 1, 23>>,
  <<548, 1, 22>>, <<549, 1, 23>>, <<550, 1, 22>>, <<551, 1, 23>>, <<552, 1, 22>>, <<553, 1, 23>>,
  <<554, 1, 22>>, <<555, 1, 23>>, <<556, 1, 22>>, <<557, 1, 23>>, <<558, 1, 22>>, <<559, 1, 23>>,
  <<560, 1, 22>>, <<561, 1, 23>>, <<562, 1, 22>>, <<563, 1, 23>>, <<564, 6, 20>>, <<570, 1, 54>>,
  <<571, 1, 22>>, <<572, 1, 23>>, <<573, 1, 55>>, <<574, 1, 56>>, <<575, 2, 57>>, <<577, 1, 22>>,
  <<578, 1, 23>>, <<579, 1, 58>>, <<580, 1, 59>>, <<581, 1, 60>>, <<582, 1, 22>>, <<583, 1, 23>>,
  <<584, 1, 22>>, <<585, 1, 23>>, <<586, 1, 22>>, <<587, 1, 23>>, <<588, 1, 22>>, <<589, 1, 23>>,
  <<590, 1, 22>>, <<591, 1, 23>>, <<592, 1, 61>>, <<593, 1, 62>>, <<594, 1, 63>>, <<595, 1, 64>>,
  <<596, 1, 65>>, <<597, 1, 20>>, <<598, 2, 66>>, <<600, 1, 20>>, <<601, 1, 67>>, <<602, 1, 20>>,
  <<603, 1, 68>>, <<604, 1, 69>>, <<605, 3, 20>>, <<608, 1, 66>>, <<609, 1, 70>>, <<610, 1, 20>>,
  <<611, 1, 71>>, <<612, 1, 20>>, <<613, 1, 72>>, <<614, 1, 73>>, <<615, 1, 20>>, <<616, 1, 74>>,
  <<617, 1, 75>>, <<618, 1, 73>>, <<619, 1, 76>>, <<620, 1, 77>>, <<621, 2, 20>>, <<623, 1, 75>>,
  <<624, 1, 20>>, <<625, 1, 78>>, <<626, 1, 79>>, <<627, 2, 20>>, <<629, 1, 80>>, <<630, 7, 20>>,
  <<637, 1, 81>>, <<638, 2, 20>>, <<640, 1, 82>>, <<641, 1, 20>>, <<642, 1, 83>>, <<643, 1, 82>>,
  <<644, 3, 20>>, <<647, 1, 84>>, <<648, 1, 82>>, <<649, 1, 85>>, <<650, 2, 86>>, <<652, 1, 87>>,
  <<653, 5, 20>>, <<658, 1, 88>>, <<659, 1, 20>>, <<660, 1, 14>>, <<661, 8, 20>>, <<669, 1, 89>>,
  <<670, 1, 90>>, <<671, 17, 20>>, <<688, 18, 91>>, <<706, 4, 10>>, <<710, 12, 91>>, <<722, 14, 10>>,
  <<736, 5, 91>>, <<741, 7, 10>>, <<748, 1, 91>>, <<749, 1, 10>>, <<750, 1, 91>>, <<751, 17, 10>>
>>

AllChars4 == <<
  <<768, 69, 92>>, <<837, 1, 93>>, <<838, 42, 92>>, <<880, 1, 22>>, <<881, 1, 23>>, <<882, 1, 22>>,
  <<883, 1, 23>>, <<884, 1, 91>>, <<885, 1, 10>>, <<886, 1, 22>>, <<887, 1, 23>>, <<890, 1, 91>>,
  <<891, 3, 41>>, <<894, 1, 2>>, <<895, 1, 94>>, <<900, 2, 10>>, <<902, 1, 95>>, <<903, 1, 2>>, <<904, 3, 96>>,
  <<908, 1, 97>>, <<910, 2, 98>>, <<912, 1, 20>>, <<913, 17, 9>>, <<931, 9, 9>>, <<940, 1, 99>>,
  <<941, 3, 100>>, <<944, 1, 20>>, <<945, 17, 12>>, <<962, 1, 101>>, <<963, 9, 12>>, <<972, 1, 102>>,
  <<973, 2, 103>>, <<975, 1, 104>>, <<976, 1, 105>>, <<977, 1, 106>>, <<978, 3, 107>>, <<981, 1, 108>>,
  <<982, 1, 109>>, <<983, 1, 110>>, <<984, 1, 22>>, <<985, 1, 23>>, <<986, 1, 22>>, <<987, 1, 23>>,
  <<988, 1, 22>>, <<989, 1, 23>>, <<990, 1, 22>>, <<991, 1, 23>>, <<992, 1, 22>>, <<993, 1, 23>>,
  <<994, 1, 22>>, <<995, 1, 23>>, <<996, 1, 22>>, <<997, 1, 23>>, <<998, 1, 22>>, <<999, 1, 23>>,
  <<1000, 1, 22>>, <<1001, 1, 23>>, <<1002, 1, 22>>, <<1003, 1, 23>>, <<1004, 1, 22>>, <<1005, 1, 23>>,
  <<1006, 1, 22>>, <<1007, 1, 23>>, <<1008, 1, 111>>, <<1009, 1, 112>>, <<1010, 1, 113>>, <<1011, 1, 114>>,
  <<1012, 1, 115>>, <<1013, 1, 116>>, <<1014, 1, 6>>, <<1015, 1, 22>>, <<1016, 1, 23>>, <<1017, 1, 117>>,
  <<1018, 1, 22>>, <<1019, 1, 23>>, <<1020, 1, 20>>, <<1021, 3, 53>>, <<1024, 16, 118>>, <<1040, 32, 9>>,
  <<1072, 32, 12>>, <<1104, 16, 112>>, <<1120, 1, 22>>, <<1121, 1, 23>>, <<1122, 1, 22>>, <<1123, 1, 23>>,
  <<1124, 1, 22>>, <<1125, 1, 23>>, <<1126, 1, 22>>, <<1127, 1, 23>>, <<1128, 1, 22>>, <<1129, 1, 23>>,
  <<1130, 1, 22>>, <<1131, 1, 23>>, <<1132, 1, 22>>, <<1133, 1, 23>>, <<1134, 1, 22>>, <<1135, 1, 23>>,
  <<1136, 1, 22>>, <<1137, 1, 23>>, <<1138, 1, 22>>, <<1139, 1, 23>>, <<1140, 1, 22>>, <<1141, 1, 23>>,
  <<1142, 1, 22>>, <<1143, 1, 23>>, <<1144, 1, 22>>, <<1145, 1, 23>>, <<1146, 1, 22>>, <<1147, 1, 23>>,
  <<1148, 1, 22>>, <<1149, 1, 23>>, <<1150, 1, 22>>, <<1151, 1, 23>>, <<1152, 1, 22>>, <<1153, 1, 23>>,
  <<1154, 1, 13>>, <<1155, 5, 92>>, <<1160, 2, 119>>, <<1162, 1, 22>>, <<1163, 1, 23>>, <<1164, 1, 22>>,
  <<1165, 1, 23>>, <<1166, 1, 22>>, <<1167, 1, 23>>, <<1168, 1, 22>>, <<1169, 1, 23>>, <<1170, 1, 22>>,
  <<1171, 1, 23>>, <<1172, 1, 22>>, <<1173, 1, 23>>, <<1174, 1, 22>>, <<1175, 1, 23>>, <<1176, 1, 22>>,
  <<1177, 1, 23>>, <<1178, 1, 22>>, <<1179, 1, 23>>, <<1180, 1, 22>>, <<1181, 1, 23>>, <<1182, 1, 22>>,
  <<1183, 1, 23>>, <<1184, 1, 22>>, <<1185, 1, 23>>, <<1186, 1, 22>>, <<1187, 1, 23>>, <<1188, 1, 22>>,
  <<1189, 1, 23>>, <<1190, 1, 22>>, <<1191, 1, 23>>, <<1192, 1, 22>>, <<1193, 1, 23>>
>>

AllChars5 == <<
  <<1194, 1, 22>>, <<1195, 1, 23>>, <<1196, 1, 22>>, <<1197, 1, 23>>, <<1198, 1, 22>>, <<1199, 1, 23>>,
  <<1200, 1, 22>>, <<1201, 1, 23>>, <<1202, 1, 22>>, <<1203, 1, 23>>, <<1204, 1, 22>>, <<1205, 1, 23>>,
  <<1206, 1, 22>>, <<1207, 1, 23>>, <<1208, 1, 22>>, <<1209, 1, 23>>, <<1210, 1, 22>>, <<1211, 1, 23>>,
  <<1212, 1, 22>>, <<1213, 1, 23>>, <<1214, 1, 22>>, <<1215, 1, 23>>, <<1216, 1, 120>>, <<1217, 1, 22>>,
  <<1218, 1, 23>>, <<1219, 1, 22>>, <<1220, 1, 23>>, <<1221, 1, 22>>, <<1222, 1, 23>>, <<1223, 1, 22>>,
  <<1224, 1, 23>>, <<1225, 1, 22>>, <<1226, 1, 23>>, <<1227, 1, 22>>, <<1228, 1, 23>>, <<1229, 1, 22>>,
  <<1230, 1, 23>>, <<1231, 1, 121>>, <<1232, 1, 22>>, <<1233, 1, 23>>, <<1234, 1, 22>>, <<1235, 1, 23>>,
  <<1236, 1, 22>>, <<1237, 1, 23>>, <<1238, 1, 22>>, <<1239, 1, 23>>, <<1240, 1, 22>>, <<1241, 1, 23>>,
  <<1242, 1, 22>>, <<1243, 1, 23>>, <<1244, 1, 22>>, <<1245, 1, 23>>, <<1246, 1, 22>>, <<1247, 1, 23>>,
  <<1248, 1, 22>>, <<1249, 1, 23>>, <<1250, 1, 22>>, <<1251, 1, 23>>, <<1252, 1, 22>>, <<1253, 1, 23>>,
  <<1254, 1, 22>>, <<1255, 1, 23>>, <<1256, 1, 22>>, <<1257, 1, 23>>, <<1258, 1, 22>>, <<1259, 1, 23>>,
  <<1260, 1, 22>>, <<1261, 1, 23>>, <<1262, 1, 22>>, <<1263, 1, 23>>, <<1264, 1, 22>>, <<1265, 1, 23>>,
  <<1266, 1, 22>>, <<1267, 1, 23>>, <<1268, 1, 22>>, <<1269, 1, 23>>, <<1270, 1, 22>>, <<1271, 1, 23>>,
  <<1272, 1, 22>>, <<1273, 1, 23>>, <<1274, 1, 22>>, <<1275, 1, 23>>, <<1276, 1, 22>>, <<1277, 1, 23>>,
  <<1278, 1, 22>>, <<1279, 1, 23>>, <<1280, 1, 22>>, <<1281, 1, 23>>, <<1282, 1, 22>>, <<1283, 1, 23>>,
  <<1284, 1, 22>>, <<1285, 1, 23>>, <<1286, 1, 22>>, <<1287, 1, 23>>, <<1288, 1, 22>>, <<1289, 1, 23>>,
  <<1290, 1, 22>>, <<1291, 1, 23>>, <<1292, 1, 22>>, <<1293, 1, 23>>, <<1294, 1, 22>>, <<1295, 1, 23>>,
  <<1296, 1, 22>>, <<1297, 1, 23>>, <<1298, 1, 22>>, <<1299, 1, 23>>, <<1300, 1, 22>>, <<1301, 1, 23>>,
  <<1302, 1, 22>>, <<1303, 1, 23>>, <<1304, 1, 22>>, <<1305, 1, 23>>, <<1306, 1, 22>>, <<1307, 1, 23>>,
  <<1308, 1, 22>>, <<1309, 1, 23>>, <<1310, 1, 22>>, <<1311, 1, 23>>, <<1312, 1, 22>>, <<1313, 1, 23>>,
  <<1314, 1, 22>>, <<1315, 1, 23>>, <<1316, 1, 22>>, <<1317, 1, 23>>, <<1318, 1, 22>>, <<1319, 1, 23>>,
  <<1320, 1, 22>>, <<1321, 1, 23>>, <<1322, 1, 22>>, <<1323, 1, 23>>, <<1324, 1, 22>>, <<1325, 1, 23>>,
  <<1326, 1, 22>>, <<1327, 1, 23>>, <<1329, 38, 122>>, <<1369, 1, 91>>, <<1370, 6, 2>>, <<1376, 1, 20>>,
  <<1377, 38, 123>>, <<1415, 2, 20>>, <<1417, 1, 2>>, <<1418, 1, 7>>, <<1421, 2, 13>>, <<1423, 1, 3>>,
  <<1425, 45, 92>>, <<1470, 1, 7>>, <<1471, 1, 92>>, <<1472, 1, 2>>, <<1473, 2, 92>>, <<1475, 1, 2>>
>>

AllChars6 == <<
  <<1476, 2, 92>>, <<1478, 1, 2>>, <<1479, 1, 92>>, <<1488, 27, 14>>, <<1519, 4, 14>>, <<1523, 2, 2>>,
  <<1536, 6, 16>>, <<1542, 3, 6>>, <<1545, 2, 2>>, <<1547, 1, 3>>, <<1548, 2, 2>>, <<1550, 2, 13>>,
  <<1552, 11, 92>>, <<1563, 1, 2>>, <<1564, 1, 16>>, <<1566, 2, 2>>, <<1568, 32, 14>>, <<1600, 1, 91>>,
  <<1601, 10, 14>>, <<1611, 21, 92>>, <<1632, 10, 8>>, <<1642, 4, 2>>, <<1646, 2, 14>>, <<1648, 1, 92>>,
  <<1649, 99, 14>>, <<1748, 1, 2>>, <<1749, 1, 14>>, <<1750, 7, 92>>, <<1757, 1, 16>>, <<1758, 1, 13>>,
  <<1759, 6, 92>>, <<1765, 2, 91>>, <<1767, 2, 92>>, <<1769, 1, 13>>, <<1770, 4, 92>>, <<1774, 2, 14>>,
  <<1776, 10, 8>>, <<1786, 3, 14>>, <<1789, 2, 13>>, <<1791, 1, 14>>, <<1792, 14, 2>>, <<1807, 1, 16>>,
  <<1808, 1, 14>>, <<1809, 1, 92>>, <<1810, 30, 14>>, <<1840, 27, 92>>, <<1869, 89, 14>>, <<1958, 11, 92>>,
  <<1969, 1, 14>>, <<1984, 10, 8>>, <<1994, 33, 14>>, <<2027, 9, 92>>, <<2036, 2, 91>>, <<2038, 1, 13>>,
  <<2039, 3, 2>>, <<2042, 1, 91>>, <<2045, 1, 92>>, <<2046, 2, 3>>, <<2048, 22, 14>>, <<2070, 4, 92>>,
  <<2074, 1, 91>>, <<2075, 9, 92>>, <<2084, 1, 91>>, <<2085, 3, 92>>, <<2088, 1, 91>>, <<2089, 5, 92>>,
  <<2096, 15, 2>>, <<2112, 25, 14>>, <<2137, 3, 92>>, <<2142, 1, 2>>, <<2144, 11, 14>>, <<2208, 21, 14>>,
  <<2230, 8, 14>>, <<2259, 15, 92>>, <<2274, 1, 16>>, <<2275, 32, 92>>, <<2307, 1, 124>>, <<2308, 54, 14>>,
  <<2362, 1, 92>>, <<2363, 1, 124>>, <<2364, 1, 92>>, <<2365, 1, 14>>, <<2366, 3, 124>>, <<2369, 8, 92>>,
  <<2377, 4, 124>>, <<2381, 1, 92>>, <<2382, 2, 124>>, <<2384, 1, 14>>, <<2385, 7, 92>>, <<2392, 10, 14>>,
  <<2402, 2, 92>>, <<2404, 2, 2>>, <<2406, 10, 8>>, <<2416, 1, 2>>, <<2417, 1, 91>>, <<2418, 15, 14>>,
  <<2433, 1, 92>>, <<2434, 2, 124>>, <<2437, 8, 14>>, <<2447, 2, 14>>, <<2451, 22, 14>>, <<2474, 7, 14>>,
  <<2482, 1, 14>>, <<2486, 4, 14>>, <<2492, 1, 92>>, <<2493, 1, 14>>, <<2494, 3, 124>>, <<2497, 4, 92>>,
  <<2503, 2, 124>>, <<2507, 2, 124>>, <<2509, 1, 92>>, <<2510, 1, 14>>, <<2519, 1, 124>>, <<2524, 2, 14>>,
  <<2527, 3, 14>>, <<2530, 2, 92>>, <<2534, 10, 8>>, <<2544, 2, 14>>, <<2546, 2, 3>>, <<2548, 6, 17>>,
  <<2554, 1, 13>>, <<2555, 1, 3>>, <<2556, 1, 14>>, <<2557, 1, 2>>, <<2558, 1, 92>>, <<2561, 2, 92>>,
  <<2563, 1, 124>>, <<2565, 6, 14>>, <<2575, 2, 14>>, <<2579, 22, 14>>, <<2602, 7, 14>>, <<2610, 2, 14>>,
  <<2613, 2, 14>>, <<2616, 2, 14>>, <<2620, 1, 92>>, <<2622, 3, 124>>, <<2625, 2, 92>>, <<2631, 2, 92>>,
  <<2635, 3, 92>>, <<2641, 1, 92>>, <<2649, 4, 14>>, <<2654, 1, 14>>, <<2662, 10, 8>>, <<2672, 2, 92>>,
  <<2674, 3, 14>>, <<2677, 1, 92>>, <<2678, 1, 2>>, <<2689, 2, 92>>, <<2691, 1, 124>>, <<2693, 9, 14>>
>>

AllChars7 == <<
  <<2703, 3, 14>>, <<2707, 22, 14>>, <<2730, 7, 14>>, <<2738, 2, 14>>, <<2741, 5, 14>>, <<2748, 1, 92>>,
  <<2749, 1, 14>>, <<2750, 3, 124>>, <<2753, 5, 92>>, <<2759, 2, 92>>, <<2761, 1, 124>>, <<2763, 2, 124>>,
  <<2765, 1, 92>>, <<2768, 1, 14>>, <<2784, 2, 14>>, <<2786, 2, 92>>, <<2790, 10, 8>>, <<2800, 1, 2>>,
  <<2801, 1, 3>>, <<2809, 1, 14>>, <<2810, 6, 92>>, <<2817, 1, 92>>, <<2818, 2, 124>>, <<2821, 8, 14>>,
  <<2831, 2, 14>>, <<2835, 22, 14>>, <<2858, 7, 14>>, <<2866, 2, 14>>, <<2869, 5, 14>>, <<2876, 1, 92>>,
  <<2877, 1, 14>>, <<2878, 1, 124>>, <<2879, 1, 92>>, <<2880, 1, 124>>, <<2881, 4, 92>>, <<2887, 2, 124>>,
  <<2891, 2, 124>>, <<2893, 1, 92>>, <<2902, 1, 92>>, <<2903, 1, 124>>, <<2908, 2, 14>>, <<2911, 3, 14>>,
  <<2914, 2, 92>>, <<2918, 10, 8>>, <<2928, 1, 13>>, <<2929, 1, 14>>, <<2930, 6, 17>>, <<2946, 1, 92>>,
  <<2947, 1, 14>>, <<2949, 6, 14>>, <<2958, 3, 14>>, <<2962, 4, 14>>, <<2969, 2, 14>>, <<2972, 1, 14>>,
  <<2974, 2, 14>>, <<2979, 2, 14>>, <<2984, 3, 14>>, <<2990, 12, 14>>, <<3006, 2, 124>>, <<3008, 1, 92>>,
  <<3009, 2, 124>>, <<3014, 3, 124>>, <<3018, 3, 124>>, <<3021, 1, 92>>, <<3024, 1, 14>>, <<3031, 1, 124>>,
  <<3046, 10, 8>>, <<3056, 3, 17>>, <<3059, 6, 13>>, <<3065, 1, 3>>, <<3066, 1, 13>>, <<3072, 1, 92>>,
  <<3073, 3, 124>>, <<3076, 1, 92>>, <<3077, 8, 14>>, <<3086, 3, 14>>, <<3090, 23, 14>>, <<3114, 16, 14>>,
  <<3133, 1, 14>>, <<3134, 3, 92>>, <<3137, 4, 124>>, <<3142, 3, 92>>, <<3146, 4, 92>>, <<3157, 2, 92>>,
  <<3160, 3, 14>>, <<3168, 2, 14>>, <<3170, 2, 92>>, <<3174, 10, 8>>, <<3191, 1, 2>>, <<3192, 7, 17>>,
  <<3199, 1, 13>>, <<3200, 1, 14>>, <<3201, 1, 92>>, <<3202, 2, 124>>, <<3204, 1, 2>>, <<3205, 8, 14>>,
  <<3214, 3, 14>>, <<3218, 23, 14>>, <<3242, 10, 14>>, <<3253, 5, 14>>, <<3260, 1, 92>>, <<3261, 1, 14>>,
  <<3262, 1, 124>>, <<3263, 1, 92>>, <<3264, 5, 124>>, <<3270, 1, 92>>, <<3271, 2, 124>>, <<3274, 2, 124>>,
  <<3276, 2, 92>>, <<3285, 2, 124>>, <<3294, 1, 14>>, <<3296, 2, 14>>, <<3298, 2, 92>>, <<3302, 10, 8>>,
  <<3313, 2, 14>>, <<3328, 2, 92>>, <<3330, 2, 124>>, <<3333, 8, 14>>, <<3342, 3, 14>>, <<3346, 41, 14>>,
  <<3387, 2, 92>>, <<3389, 1, 14>>, <<3390, 3, 124>>, <<3393, 4, 92>>, <<3398, 3, 124>>, <<3402, 3, 124>>,
  <<3405, 1, 92>>, <<3406, 1, 14>>, <<3407, 1, 13>>, <<3412, 3, 14>>, <<3415, 1, 124>>, <<3416, 7, 17>>,
  <<3423, 3, 14>>, <<3426, 2, 92>>, <<3430, 10, 8>>, <<3440, 9, 17>>, <<3449, 1, 13>>, <<3450, 6, 14>>,
  <<3458, 2, 124>>, <<3461, 18, 14>>, <<3482, 24, 14>>, <<3507, 9, 14>>, <<3517, 1, 14>>, <<3520, 7, 14>>,
  <<3530, 1, 92>>, <<3535, 3, 124>>, <<3538, 3, 92>>, <<3542, 1, 92>>, <<3544, 8, 124>>, <<3558, 10, 8>>
>>

AllChars8 == <<
  <<3570, 2, 124>>, <<3572, 1, 2>>, <<3585, 48, 14>>, <<3633, 1, 92>>, <<3634, 2, 14>>, <<3636, 7, 92>>,
  <<3647, 1, 3>>, <<3648, 6, 14>>, <<3654, 1, 91>>, <<3655, 8, 92>>, <<3663, 1, 2>>, <<3664, 10, 8>>,
  <<3674, 2, 2>>, <<3713, 2, 14>>, <<3716, 1, 14>>, <<3718, 5, 14>>, <<3724, 24, 14>>, <<3749, 1, 14>>,
  <<3751, 10, 14>>, <<3761, 1, 92>>, <<3762, 2, 14>>, <<3764, 9, 92>>, <<3773, 1, 14>>, <<3776, 5, 14>>,
  <<3782, 1, 91>>, <<3784, 6, 92>>, <<3792, 10, 8>>, <<3804, 4, 14>>, <<3840, 1, 14>>, <<3841, 3, 13>>,
  <<3844, 15, 2>>, <<3859, 1, 13>>, <<3860, 1, 2>>, <<3861, 3, 13>>, <<3864, 2, 92>>, <<3866, 6, 13>>,
  <<3872, 10, 8>>, <<3882, 10, 17>>, <<3892, 1, 13>>, <<3893, 1, 92>>, <<3894, 1, 13>>, <<3895, 1, 92>>,
  <<3896, 1, 13>>, <<3897, 1, 92>>, <<3898, 1, 4>>, <<3899, 1, 5>>, <<3900, 1, 4>>, <<3901, 1, 5>>,
  <<3902, 2, 124>>, <<3904, 8, 14>>, <<3913, 36, 14>>, <<3953, 14, 92>>, <<3967, 1, 124>>, <<3968, 5, 92>>,
  <<3973, 1, 2>>, <<3974, 2, 92>>, <<3976, 5, 14>>, <<3981, 11, 92>>, <<3993, 36, 92>>, <<4030, 8, 13>>,
  <<4038, 1, 92>>, <<4039, 6, 13>>, <<4046, 2, 13>>, <<4048, 5, 2>>, <<4053, 4, 13>>, <<4057, 2, 2>>,
  <<4096, 43, 14>>, <<4139, 2, 124>>, <<4141, 4, 92>>, <<4145, 1, 124>>, <<4146, 6, 92>>, <<4152, 1, 124>>,
  <<4153, 2, 92>>, <<4155, 2, 124>>, <<4157, 2, 92>>, <<4159, 1, 14>>, <<4160, 10, 8>>, <<4170, 6, 2>>,
  <<4176, 6, 14>>, <<4182, 2, 124>>, <<4184, 2, 92>>, <<4186, 4, 14>>, <<4190, 3, 92>>, <<4193, 1, 14>>,
  <<4194, 3, 124>>, <<4197, 2, 14>>, <<4199, 7, 124>>, <<4206, 3, 14>>, <<4209, 4, 92>>, <<4213, 13, 14>>,
  <<4226, 1, 92>>, <<4227, 2, 124>>, <<4229, 2, 92>>, <<4231, 6, 124>>, <<4237, 1, 92>>, <<4238, 1, 14>>,
  <<4239, 1, 124>>, <<4240, 10, 8>>, <<4250, 3, 124>>, <<4253, 1, 92>>, <<4254, 2, 13>>, <<4256, 38, 125>>,
  <<4295, 1, 125>>, <<4301, 1, 125>>, <<4304, 43, 126>>, <<4347, 1, 2>>, <<4348, 1, 91>>, <<4349, 3, 126>>,
  <<4352, 329, 14>>, <<4682, 4, 14>>, <<4688, 7, 14>>, <<4696, 1, 14>>, <<4698, 4, 14>>, <<4704, 41, 14>>,
  <<4746, 4, 14>>, <<4752, 33, 14>>, <<4786, 4, 14>>, <<4792, 7, 14>>, <<4800, 1, 14>>, <<4802, 4, 14>>,
  <<4808, 15, 14>>, <<4824, 57, 14>>, <<4882, 4, 14>>, <<4888, 67, 14>>, <<4957, 3, 92>>, <<4960, 9, 2>>,
  <<4969, 20, 17>>, <<4992, 16, 14>>, <<5008, 10, 13>>, <<5024, 80, 127>>, <<5104, 6, 104>>, <<5112, 6, 110>>,
  <<5120, 1, 7>>, <<5121, 620, 14>>, <<5741, 2, 2>>, <<5743, 17, 14>>, <<5760, 1, 1>>, <<5761, 26, 14>>,
  <<5787, 1, 4>>, <<5788, 1, 5>>, <<5792, 75, 14>>, <<5867, 3, 2>>, <<5870, 3, 128>>, <<5873, 8, 14>>,
  <<5888, 13, 14>>, <<5902, 4, 14>>, <<5906, 3, 92>>, <<5920, 18, 14>>, <<5938, 3, 92>>, <<5941, 2, 2>>
>>

AllChars9 == <<
  <<5952, 18, 14>>, <<5970, 2, 92>>, <<5984, 13, 14>>, <<5998, 3, 14>>, <<6002, 2, 92>>, <<6016, 52, 14>>,
  <<6068, 2, 92>>, <<6070, 1, 124>>, <<6071, 7, 92>>, <<6078, 8, 124>>, <<6086, 1, 92>>, <<6087, 2, 124>>,
  <<6089, 11, 92>>, <<6100, 3, 2>>, <<6103, 1, 91>>, <<6104, 3, 2>>, <<6107, 1, 3>>, <<6108, 1, 14>>,
  <<6109, 1, 92>>, <<6112, 10, 8>>, <<6128, 10, 17>>, <<6144, 6, 2>>, <<6150, 1, 7>>, <<6151, 4, 2>>,
  <<6155, 3, 92>>, <<6158, 1, 16>>, <<6160, 10, 8>>, <<6176, 35, 14>>, <<6211, 1, 91>>, <<6212, 53, 14>>,
  <<6272, 5, 14>>, <<6277, 2, 92>>, <<6279, 34, 14>>, <<6313, 1, 92>>, <<6314, 1, 14>>, <<6320, 70, 14>>,
  <<6400, 31, 14>>, <<6432, 3, 92>>, <<6435, 4, 124>>, <<6439, 2, 92>>, <<6441, 3, 124>>, <<6448, 2, 124>>,
  <<6450, 1, 92>>, <<6451, 6, 124>>, <<6457, 3, 92>>, <<6464, 1, 13>>, <<6468, 2, 2>>, <<6470, 10, 8>>,
  <<6480, 30, 14>>, <<6512, 5, 14>>, <<6528, 44, 14>>, <<6576, 26, 14>>, <<6608, 10, 8>>, <<6618, 1, 17>>,
  <<6622, 34, 13>>, <<6656, 23, 14>>, <<6679, 2, 92>>, <<6681, 2, 124>>, <<6683, 1, 92>>, <<6686, 2, 2>>,
  <<6688, 53, 14>>, <<6741, 1, 124>>, <<6742, 1, 92>>, <<6743, 1, 124>>, <<6744, 7, 92>>, <<6752, 1, 92>>,
  <<6753, 1, 124>>, <<6754, 1, 92>>, <<6755, 2, 124>>, <<6757, 8, 92>>, <<6765, 6, 124>>, <<6771, 10, 92>>,
  <<6783, 1, 92>>, <<6784, 10, 8>>, <<6800, 10, 8>>, <<6816, 7, 2>>, <<6823, 1, 91>>, <<6824, 6, 2>>,
  <<6832, 14, 92>>, <<6846, 1, 119>>, <<6912, 4, 92>>, <<6916, 1, 124>>, <<6917, 47, 14>>, <<6964, 1, 92>>,
  <<6965, 1, 124>>, <<6966, 5, 92>>, <<6971, 1, 124>>, <<6972, 1, 92>>, <<6973, 5, 124>>, <<6978, 1, 92>>,
  <<6979, 2, 124>>, <<6981, 7, 14>>, <<6992, 10, 8>>, <<7002, 7, 2>>, <<7009, 10, 13>>, <<7019, 9, 92>>,
  <<7028, 9, 13>>, <<7040, 2, 92>>, <<7042, 1, 124>>, <<7043, 30, 14>>, <<7073, 1, 124>>, <<7074, 4, 92>>,
  <<7078, 2, 124>>, <<7080, 2, 92>>, <<7082, 1, 124>>, <<7083, 3, 92>>, <<7086, 2, 14>>, <<7088, 10, 8>>,
  <<7098, 44, 14>>, <<7142, 1, 92>>, <<7143, 1, 124>>, <<7144, 2, 92>>, <<7146, 3, 124>>, <<7149, 1, 92>>,
  <<7150, 1, 124>>, <<7151, 3, 92>>, <<7154, 2, 124>>, <<7164, 4, 2>>, <<7168, 36, 14>>, <<7204, 8, 124>>,
  <<7212, 8, 92>>, <<7220, 2, 124>>, <<7222, 2, 92>>, <<7227, 5, 2>>, <<7232, 10, 8>>, <<7245, 3, 14>>,
  <<7248, 10, 8>>, <<7258, 30, 14>>, <<7288, 6, 91>>, <<7294, 2, 2>>, <<7296, 1, 129>>, <<7297, 1, 130>>,
  <<7298, 1, 131>>, <<7299, 2, 132>>, <<7301, 1, 133>>, <<7302, 1, 134>>, <<7303, 1, 135>>, <<7304, 1, 136>>,
  <<7312, 43, 137>>, <<7357, 3, 137>>, <<7360, 8, 2>>, <<7376, 3, 92>>, <<7379, 1, 2>>, <<7380, 13, 92>>,
  <<7393, 1, 124>>, <<7394, 7, 92>>, <<7401, 4, 14>>, <<7405, 1, 92>>, <<7406, 6, 14>>, <<7412, 1, 92>>
>>

AllChars10 == <<
  <<7413, 2, 14>>, <<7415, 1, 124>>, <<7416, 2, 92>>, <<7418, 1, 14>>, <<7424, 44, 20>>, <<7468, 63, 91>>,
  <<7531, 13, 20>>, <<7544, 1, 91>>, <<7545, 1, 138>>, <<7546, 3, 20>>, <<7549, 1, 139>>, <<7550, 16, 20>>,
  <<7566, 1, 140>>, <<7567, 12, 20>>, <<7579, 37, 91>>, <<7616, 58, 92>>, <<7675, 5, 92>>, <<7680, 1, 22>>,
  <<7681, 1, 23>>, <<7682, 1, 22>>, <<7683, 1, 23>>, <<7684, 1, 22>>, <<7685, 1, 23>>, <<7686, 1, 22>>,
  <<7687, 1, 23>>, <<7688, 1, 22>>, <<7689, 1, 23>>, <<7690, 1, 22>>, <<7691, 1, 23>>, <<7692, 1, 22>>,
  <<7693, 1, 23>>, <<7694, 1, 22>>, <<7695, 1, 23>>, <<7696, 1, 22>>, <<7697, 1, 23>>, <<7698, 1, 22>>,
  <<7699, 1, 23>>, <<7700, 1, 22>>, <<7701, 1, 23>>, <<7702, 1, 22>>, <<7703, 1, 23>>, <<7704, 1, 22>>,
  <<7705, 1, 23>>, <<7706, 1, 22>>, <<7707, 1, 23>>, <<7708, 1, 22>>, <<7709, 1, 23>>, <<7710, 1, 22>>,
  <<7711, 1, 23>>, <<7712, 1, 22>>, <<7713, 1, 23>>, <<7714, 1, 22>>, <<7715, 1, 23>>, <<7716, 1, 22>>,
  <<7717, 1, 23>>, <<7718, 1, 22>>, <<7719, 1, 23>>, <<7720, 1, 22>>, <<7721, 1, 23>>, <<7722, 1, 22>>,
  <<7723, 1, 23>>, <<7724, 1, 22>>, <<7725, 1, 23>>, <<7726, 1, 22>>, <<7727, 1, 23>>, <<7728, 1, 22>>,
  <<7729, 1, 23>>, <<7730, 1, 22>>, <<7731, 1, 23>>, <<7732, 1, 22>>, <<7733, 1, 23>>, <<7734, 1, 22>>,
  <<7735, 1, 23>>, <<7736, 1, 22>>, <<7737, 1, 23>>, <<7738, 1, 22>>, <<7739, 1, 23>>, <<7740, 1, 22>>,
  <<7741, 1, 23>>, <<7742, 1, 22>>, <<7743, 1, 23>>, <<7744, 1, 22>>, <<7745, 1, 23>>, <<7746, 1, 22>>,
  <<7747, 1, 23>>, <<7748, 1, 22>>, <<7749, 1, 23>>, <<7750, 1, 22>>, <<7751, 1, 23>>, <<7752, 1, 22>>,
  <<7753, 1, 23>>, <<7754, 1, 22>>, <<7755, 1, 23>>, <<7756, 1, 22>>, <<7757, 1, 23>>, <<7758, 1, 22>>,
  <<7759, 1, 23>>, <<7760, 1, 22>>, <<7761, 1, 23>>, <<7762, 1, 22>>, <<7763, 1, 23>>, <<7764, 1, 22>>,
  <<7765, 1, 23>>, <<7766, 1, 22>>, <<7767, 1, 23>>, <<7768, 1, 22>>, <<7769, 1, 23>>, <<7770, 1, 22>>,
  <<7771, 1, 23>>, <<7772, 1, 22>>, <<7773, 1, 23>>, <<7774, 1, 22>>, <<7775, 1, 23>>, <<7776, 1, 22>>,
  <<7777, 1, 23>>, <<7778, 1, 22>>, <<7779, 1, 23>>, <<7780, 1, 22>>, <<7781, 1, 23>>, <<7782, 1, 22>>,
  <<7783, 1, 23>>, <<7784, 1, 22>>, <<7785, 1, 23>>, <<7786, 1, 22>>, <<7787, 1, 23>>, <<7788, 1, 22>>,
  <<7789, 1, 23>>, <<7790, 1, 22>>, <<7791, 1, 23>>, <<7792, 1, 22>>, <<7793, 1, 23>>, <<7794, 1, 22>>,
  <<7795, 1, 23>>, <<7796, 1, 22>>, <<7797, 1, 23>>, <<7798, 1, 22>>, <<7799, 1, 23>>, <<7800, 1, 22>>,
  <<7801, 1, 23>>, <<7802, 1, 22>>, <<7803, 1, 23>>, <<7804, 1, 22>>, <<7805, 1, 23>>, <<7806, 1, 22>>,
  <<7807, 1, 23>>, <<7808, 1, 22>>, <<7809, 1, 23>>, <<7810, 1, 22>>, <<7811, 1, 23>>, <<7812, 1, 22>>
>>

AllChars11 == <<
  <<7813, 1, 23>>, <<7814, 1, 22>>, <<7815, 1, 23>>, <<7816, 1, 22>>, <<7817, 1, 23>>, <<7818, 1, 22>>,
  <<7819, 1, 23>>, <<7820, 1, 22>>, <<7821, 1, 23>>, <<7822, 1, 22>>, <<7823, 1, 23>>, <<7824, 1, 22>>,
  <<7825, 1, 23>>, <<7826, 1, 22>>, <<7827, 1, 23>>, <<7828, 1, 22>>, <<7829, 1, 23>>, <<7830, 5, 20>>,
  <<7835, 1, 141>>, <<7836, 2, 20>>, <<7838, 1, 142>>, <<7839, 1, 20>>, <<7840, 1, 22>>, <<7841, 1, 23>>,
  <<7842, 1, 22>>, <<7843, 1, 23>>, <<7844, 1, 22>>, <<7845, 1, 23>>, <<7846, 1, 22>>, <<7847, 1, 23>>,
  <<7848, 1, 22>>, <<7849, 1, 23>>, <<7850, 1, 22>>, <<7851, 1, 23>>, <<7852, 1, 22>>, <<7853, 1, 23>>,
  <<7854, 1, 22>>, <<7855, 1, 23>>, <<7856, 1, 22>>, <<7857, 1, 23>>, <<7858, 1, 22>>, <<7859, 1, 23>>,
  <<7860, 1, 22>>, <<7861, 1, 23>>, <<7862, 1, 22>>, <<7863, 1, 23>>, <<7864, 1, 22>>, <<7865, 1, 23>>,
  <<7866, 1, 22>>, <<7867, 1, 23>>, <<7868, 1, 22>>, <<7869, 1, 23>>, <<7870, 1, 22>>, <<7871, 1, 23>>,
  <<7872, 1, 22>>, <<7873, 1, 23>>, <<7874, 1, 22>>, <<7875, 1, 23>>, <<7876, 1, 22>>, <<7877, 1, 23>>,
  <<7878, 1, 22>>, <<7879, 1, 23>>, <<7880, 1, 22>>, <<7881, 1, 23>>, <<7882, 1, 22>>, <<7883, 1, 23>>,
  <<7884, 1, 22>>, <<7885, 1, 23>>, <<7886, 1, 22>>, <<7887, 1, 23>>, <<7888, 1, 22>>, <<7889, 1, 23>>,
  <<7890, 1, 22>>, <<7891, 1, 23>>, <<7892, 1, 22>>, <<7893, 1, 23>>, <<7894, 1, 22>>, <<7895, 1, 23>>,
  <<7896, 1, 22>>, <<7897, 1, 23>>, <<7898, 1, 22>>, <<7899, 1, 23>>, <<7900, 1, 22>>, <<7901, 1, 23>>,
  <<7902, 1, 22>>, <<7903, 1, 23>>, <<7904, 1, 22>>, <<7905, 1, 23>>, <<7906, 1, 22>>, <<7907, 1, 23>>,
  <<7908, 1, 22>>, <<7909, 1, 23>>, <<7910, 1, 22>>, <<7911, 1, 23>>, <<7912, 1, 22>>, <<7913, 1, 23>>,
  <<7914, 1, 22>>, <<7915, 1, 23>>, <<7916, 1, 22>>, <<7917, 1, 23>>, <<7918, 1, 22>>, <<7919, 1, 23>>,
  <<7920, 1, 22>>, <<7921, 1, 23>>, <<7922, 1, 22>>, <<7923, 1, 23>>, <<7924, 1, 22>>, <<7925, 1, 23>>,
  <<7926, 1, 22>>, <<7927, 1, 23>>, <<7928, 1, 22>>, <<7929, 1, 23>>, <<7930, 1, 22>>, <<7931, 1, 23>>,
  <<7932, 1, 22>>, <<7933, 1, 23>>, <<7934, 1, 22>>, <<7935, 1, 23>>, <<7936, 8, 143>>, <<7944, 8, 144>>,
  <<7952, 6, 143>>, <<7960, 6, 144>>, <<7968, 8, 143>>, <<7976, 8, 144>>, <<7984, 8, 143>>, <<7992, 8, 144>>,
  <<8000, 6, 143>>, <<8008, 6, 144>>, <<8016, 1, 20>>, <<8017, 1, 143>>, <<8018, 1, 20>>, <<8019, 1, 143>>,
  <<8020, 1, 20>>, <<8021, 1, 143>>, <<8022, 1, 20>>, <<8023, 1, 143>>, <<8025, 1, 144>>, <<8027, 1, 144>>,
  <<8029, 1, 144>>, <<8031, 1, 144>>, <<8032, 8, 143>>, <<8040, 8, 144>>, <<8048, 2, 145>>, <<8050, 4, 146>>,
  <<8054, 2, 147>>, <<8056, 2, 148>>, <<8058, 2, 149>>, <<8060, 2, 150>>, <<8064, 8, 143>>, <<8072, 8, 151>>
>>

AllChars12 == <<
  <<8080, 8, 143>>, <<8088, 8, 151>>, <<8096, 8, 143>>, <<8104, 8, 151>>, <<8112, 2, 143>>, <<8114, 1, 20>>,
  <<8115, 1, 152>>, <<8116, 1, 20>>, <<8118, 2, 20>>, <<8120, 2, 144>>, <<8122, 2, 153>>, <<8124, 1, 154>>,
  <<8125, 1, 10>>, <<8126, 1, 155>>, <<8127, 3, 10>>, <<8130, 1, 20>>, <<8131, 1, 152>>, <<8132, 1, 20>>,
  <<8134, 2, 20>>, <<8136, 4, 156>>, <<8140, 1, 154>>, <<8141, 3, 10>>, <<8144, 2, 143>>, <<8146, 2, 20>>,
  <<8150, 2, 20>>, <<8152, 2, 144>>, <<8154, 2, 157>>, <<8157, 3, 10>>, <<8160, 2, 143>>, <<8162, 3, 20>>,
  <<8165, 1, 113>>, <<8166, 2, 20>>, <<8168, 2, 144>>, <<8170, 2, 158>>, <<8172, 1, 117>>, <<8173, 3, 10>>,
  <<8178, 1, 20>>, <<8179, 1, 152>>, <<8180, 1, 20>>, <<8182, 2, 20>>, <<8184, 2, 159>>, <<8186, 2, 160>>,
  <<8188, 1, 154>>, <<8189, 2, 10>>, <<8192, 11, 1>>, <<8203, 5, 16>>, <<8208, 6, 7>>, <<8214, 2, 2>>,
  <<8216, 1, 15>>, <<8217, 1, 19>>, <<8218, 1, 4>>, <<8219, 2, 15>>, <<8221, 1, 19>>, <<8222, 1, 4>>,
  <<8223, 1, 15>>, <<8224, 8, 2>>, <<8232, 1, 161>>, <<8233, 1, 162>>, <<8234, 5, 16>>, <<8239, 1, 1>>,
  <<8240, 9, 2>>, <<8249, 1, 15>>, <<8250, 1, 19>>, <<8251, 4, 2>>, <<8255, 2, 11>>, <<8257, 3, 2>>,
  <<8260, 1, 6>>, <<8261, 1, 4>>, <<8262, 1, 5>>, <<8263, 11, 2>>, <<8274, 1, 6>>, <<8275, 1, 2>>,
  <<8276, 1, 11>>, <<8277, 10, 2>>, <<8287, 1, 1>>, <<8288, 5, 16>>, <<8294, 10, 16>>, <<8304, 1, 17>>,
  <<8305, 1, 91>>, <<8308, 6, 17>>, <<8314, 3, 6>>, <<8317, 1, 4>>, <<8318, 1, 5>>, <<8319, 1, 91>>,
  <<8320, 10, 17>>, <<8330, 3, 6>>, <<8333, 1, 4>>, <<8334, 1, 5>>, <<8336, 13, 91>>, <<8352, 32, 3>>,
  <<8400, 13, 92>>, <<8413, 4, 119>>, <<8417, 1, 92>>, <<8418, 3, 119>>, <<8421, 12, 92>>, <<8448, 2, 13>>,
  <<8450, 1, 107>>, <<8451, 4, 13>>, <<8455, 1, 107>>, <<8456, 2, 13>>, <<8458, 1, 20>>, <<8459, 3, 107>>,
  <<8462, 2, 20>>, <<8464, 3, 107>>, <<8467, 1, 20>>, <<8468, 1, 13>>, <<8469, 1, 107>>, <<8470, 2, 13>>,
  <<8472, 1, 6>>, <<8473, 5, 107>>, <<8478, 6, 13>>, <<8484, 1, 107>>, <<8485, 1, 13>>, <<8486, 1, 163>>,
  <<8487, 1, 13>>, <<8488, 1, 107>>, <<8489, 1, 13>>, <<8490, 1, 164>>, <<8491, 1, 165>>, <<8492, 2, 107>>,
  <<8494, 1, 13>>, <<8495, 1, 20>>, <<8496, 2, 107>>, <<8498, 1, 166>>, <<8499, 1, 107>>, <<8500, 1, 20>>,
  <<8501, 4, 14>>, <<8505, 1, 20>>, <<8506, 2, 13>>, <<8508, 2, 20>>, <<8510, 2, 107>>, <<8512, 5, 6>>,
  <<8517, 1, 107>>, <<8518, 4, 20>>, <<8522, 1, 13>>, <<8523, 1, 6>>, <<8524, 2, 13>>, <<8526, 1, 167>>,
  <<8527, 1, 13>>, <<8528, 16, 17>>, <<8544, 16, 168>>, <<8560, 16, 169>>, <<8576, 3, 128>>, <<8579, 1, 22>>,
  <<8580, 1, 23>>, <<8581, 4, 128>>, <<8585, 1, 17>>, <<8586, 2, 13>>, <<8592, 5, 6>>, <<8597, 5, 13>>
>>

AllChars13 == <<
  <<8602, 2, 6>>, <<8604, 4, 13>>, <<8608, 1, 6>>, <<8609, 2, 13>>, <<8611, 1, 6>>, <<8612, 2, 13>>,
  <<8614, 1, 6>>, <<8615, 7, 13>>, <<8622, 1, 6>>, <<8623, 31, 13>>, <<8654, 2, 6>>, <<8656, 2, 13>>,
  <<8658, 1, 6>>, <<8659, 1, 13>>, <<8660, 1, 6>>, <<8661, 31, 13>>, <<8692, 268, 6>>, <<8960, 8, 13>>,
  <<8968, 1, 4>>, <<8969, 1, 5>>, <<8970, 1, 4>>, <<8971, 1, 5>>, <<8972, 20, 13>>, <<8992, 2, 6>>,
  <<8994, 7, 13>>, <<9001, 1, 4>>, <<9002, 1, 5>>, <<9003, 81, 13>>, <<9084, 1, 6>>, <<9085, 30, 13>>,
  <<9115, 25, 6>>, <<9140, 40, 13>>, <<9180, 6, 6>>, <<9186, 69, 13>>, <<9280, 11, 13>>, <<9312, 60, 17>>,
  <<9372, 26, 13>>, <<9398, 26, 170>>, <<9424, 26, 171>>, <<9450, 22, 17>>, <<9472, 183, 13>>, <<9655, 1, 6>>,
  <<9656, 9, 13>>, <<9665, 1, 6>>, <<9666, 54, 13>>, <<9720, 8, 6>>, <<9728, 111, 13>>, <<9839, 1, 6>>,
  <<9840, 248, 13>>, <<10088, 1, 4>>, <<10089, 1, 5>>, <<10090, 1, 4>>, <<10091, 1, 5>>, <<10092, 1, 4>>,
  <<10093, 1, 5>>, <<10094, 1, 4>>, <<10095, 1, 5>>, <<10096, 1, 4>>, <<10097, 1, 5>>, <<10098, 1, 4>>,
  <<10099, 1, 5>>, <<10100, 1, 4>>, <<10101, 1, 5>>, <<10102, 30, 17>>, <<10132, 44, 13>>, <<10176, 5, 6>>,
  <<10181, 1, 4>>, <<10182, 1, 5>>, <<10183, 31, 6>>, <<10214, 1, 4>>, <<10215, 1, 5>>, <<10216, 1, 4>>,
  <<10217, 1, 5>>, <<10218, 1, 4>>, <<10219, 1, 5>>, <<10220, 1, 4>>, <<10221, 1, 5>>, <<10222, 1, 4>>,
  <<10223, 1, 5>>, <<10224, 16, 6>>, <<10240, 256, 13>>, <<10496, 131, 6>>, <<10627, 1, 4>>, <<10628, 1, 5>>,
  <<10629, 1, 4>>, <<10630, 1, 5>>, <<10631, 1, 4>>, <<10632, 1, 5>>, <<10633, 1, 4>>, <<10634, 1, 5>>,
  <<10635, 1, 4>>, <<10636, 1, 5>>, <<10637, 1, 4>>, <<10638, 1, 5>>, <<10639, 1, 4>>, <<10640, 1, 5>>,
  <<10641, 1, 4>>, <<10642, 1, 5>>, <<10643, 1, 4>>, <<10644, 1, 5>>, <<10645, 1, 4>>, <<10646, 1, 5>>,
  <<10647, 1, 4>>, <<10648, 1, 5>>, <<10649, 63, 6>>, <<10712, 1, 4>>, <<10713, 1, 5>>, <<10714, 1, 4>>,
  <<10715, 1, 5>>, <<10716, 32, 6>>, <<10748, 1, 4>>, <<10749, 1, 5>>, <<10750, 258, 6>>, <<11008, 48, 13>>,
  <<11056, 21, 6>>, <<11077, 2, 13>>, <<11079, 6, 6>>, <<11085, 39, 13>>, <<11126, 32, 13>>, <<11160, 104, 13>>,
  <<11264, 47, 122>>, <<11312, 47, 123>>, <<11360, 1, 22>>, <<11361, 1, 23>>, <<11362, 1, 172>>,
  <<11363, 1, 173>>, <<11364, 1, 174>>, <<11365, 1, 175>>, <<11366, 1, 176>>, <<11367, 1, 22>>,
  <<11368, 1, 23>>, <<11369, 1, 22>>, <<11370, 1, 23>>, <<11371, 1, 22>>, <<11372, 1, 23>>, <<11373, 1, 177>>,
  <<11374, 1, 178>>, <<11375, 1, 179>>, <<11376, 1, 180>>, <<11377, 1, 20>>, <<11378, 1, 22>>, <<11379, 1, 23>>,
  <<11380, 1, 20>>, <<11381, 1, 22>>, <<11382, 1, 23>>, <<11383, 5, 20>>, <<11388, 2, 91>>, <<11390, 2, 181>>,
  <<11392, 1, 22>>, <<11393, 1, 23>>
>>

AllChars14 == <<
  <<11394, 1, 22>>, <<11395, 1, 23>>, <<11396, 1, 22>>, <<11397, 1, 23>>, <<11398, 1, 22>>, <<11399, 1, 23>>,
  <<11400, 1, 22>>, <<11401, 1, 23>>, <<11402, 1, 22>>, <<11403, 1, 23>>, <<11404, 1, 22>>, <<11405, 1, 23>>,
  <<11406, 1, 22>>, <<11407, 1, 23>>, <<11408, 1, 22>>, <<11409, 1, 23>>, <<11410, 1, 22>>, <<11411, 1, 23>>,
  <<11412, 1, 22>>, <<11413, 1, 23>>, <<11414, 1, 22>>, <<11415, 1, 23>>, <<11416, 1, 22>>, <<11417, 1, 23>>,
  <<11418, 1, 22>>, <<11419, 1, 23>>, <<11420, 1, 22>>, <<11421, 1, 23>>, <<11422, 1, 22>>, <<11423, 1, 23>>,
  <<11424, 1, 22>>, <<11425, 1, 23>>, <<11426, 1, 22>>, <<11427, 1, 23>>, <<11428, 1, 22>>, <<11429, 1, 23>>,
  <<11430, 1, 22>>, <<11431, 1, 23>>, <<11432, 1, 22>>, <<11433, 1, 23>>, <<11434, 1, 22>>, <<11435, 1, 23>>,
  <<11436, 1, 22>>, <<11437, 1, 23>>, <<11438, 1, 22>>, <<11439, 1, 23>>, <<11440, 1, 22>>, <<11441, 1, 23>>,
  <<11442, 1, 22>>, <<11443, 1, 23>>, <<11444, 1, 22>>, <<11445, 1, 23>>, <<11446, 1, 22>>, <<11447, 1, 23>>,
  <<11448, 1, 22>>, <<11449, 1, 23>>, <<11450, 1, 22>>, <<11451, 1, 23>>, <<11452, 1, 22>>, <<11453, 1, 23>>,
  <<11454, 1, 22>>, <<11455, 1, 23>>, <<11456, 1, 22>>, <<11457, 1, 23>>, <<11458, 1, 22>>, <<11459, 1, 23>>,
  <<11460, 1, 22>>, <<11461, 1, 23>>, <<11462, 1, 22>>, <<11463, 1, 23>>, <<11464, 1, 22>>, <<11465, 1, 23>>,
  <<11466, 1, 22>>, <<11467, 1, 23>>, <<11468, 1, 22>>, <<11469, 1, 23>>, <<11470, 1, 22>>, <<11471, 1, 23>>,
  <<11472, 1, 22>>, <<11473, 1, 23>>, <<11474, 1, 22>>, <<11475, 1, 23>>, <<11476, 1, 22>>, <<11477, 1, 23>>,
  <<11478, 1, 22>>, <<11479, 1, 23>>, <<11480, 1, 22>>, <<11481, 1, 23>>, <<11482, 1, 22>>, <<11483, 1, 23>>,
  <<11484, 1, 22>>, <<11485, 1, 23>>, <<11486, 1, 22>>, <<11487, 1, 23>>, <<11488, 1, 22>>, <<11489, 1, 23>>,
  <<11490, 1, 22>>, <<11491, 1, 23>>, <<11492, 1, 20>>, <<11493, 6, 13>>, <<11499, 1, 22>>, <<11500, 1, 23>>,
  <<11501, 1, 22>>, <<11502, 1, 23>>, <<11503, 3, 92>>, <<11506, 1, 22>>, <<11507, 1, 23>>, <<11513, 4, 2>>,
  <<11517, 1, 17>>, <<11518, 2, 2>>, <<11520, 38, 182>>, <<11559, 1, 182>>, <<11565, 1, 182>>,
  <<11568, 56, 14>>, <<11631, 1, 91>>, <<11632, 1, 2>>, <<11647, 1, 92>>, <<11648, 23, 14>>, <<11680, 7, 14>>,
  <<11688, 7, 14>>, <<11696, 7, 14>>, <<11704, 7, 14>>, <<11712, 7, 14>>, <<11720, 7, 14>>, <<11728, 7, 14>>,
  <<11736, 7, 14>>, <<11744, 32, 92>>, <<11776, 2, 2>>, <<11778, 1, 15>>, <<11779, 1, 19>>, <<11780, 1, 15>>,
  <<11781, 1, 19>>, <<11782, 3, 2>>, <<11785, 1, 15>>, <<11786, 1, 19>>, <<11787, 1, 2>>, <<11788, 1, 15>>,
  <<11789, 1, 19>>, <<11790, 9, 2>>, <<11799, 1, 7>>, <<11800, 2, 2>>, <<11802, 1, 7>>, <<11803, 1, 2>>,
  <<11804, 1, 15>>, <<11805, 1, 19>>, <<11806, 2, 2>>, <<11808, 1, 15>>, <<11809, 1, 19>>, <<11810, 1, 4>>,
  <<11811, 1, 5>>
>>

AllChars15 == <<
  <<11812, 1, 4>>, <<11813, 1, 5>>, <<11814, 1, 4>>, <<11815, 1, 5>>, <<11816, 1, 4>>, <<11817, 1, 5>>,
  <<11818, 5, 2>>, <<11823, 1, 91>>, <<11824, 10, 2>>, <<11834, 2, 7>>, <<11836, 4, 2>>, <<11840, 1, 7>>,
  <<11841, 1, 2>>, <<11842, 1, 4>>, <<11843, 13, 2>>, <<11904, 26, 13>>, <<11931, 89, 13>>, <<12032, 214, 13>>,
  <<12272, 12, 13>>, <<12288, 1, 1>>, <<12289, 3, 2>>, <<12292, 1, 13>>, <<12293, 1, 91>>, <<12294, 1, 14>>,
  <<12295, 1, 128>>, <<12296, 1, 4>>, <<12297, 1, 5>>, <<12298, 1, 4>>, <<12299, 1, 5>>, <<12300, 1, 4>>,
  <<12301, 1, 5>>, <<12302, 1, 4>>, <<12303, 1, 5>>, <<12304, 1, 4>>, <<12305, 1, 5>>, <<12306, 2, 13>>,
  <<12308, 1, 4>>, <<12309, 1, 5>>, <<12310, 1, 4>>, <<12311, 1, 5>>, <<12312, 1, 4>>, <<12313, 1, 5>>,
  <<12314, 1, 4>>, <<12315, 1, 5>>, <<12316, 1, 7>>, <<12317, 1, 4>>, <<12318, 2, 5>>, <<12320, 1, 13>>,
  <<12321, 9, 128>>, <<12330, 4, 92>>, <<12334, 2, 124>>, <<12336, 1, 7>>, <<12337, 5, 91>>, <<12342, 2, 13>>,
  <<12344, 3, 128>>, <<12347, 1, 91>>, <<12348, 1, 14>>, <<12349, 1, 2>>, <<12350, 2, 13>>, <<12353, 86, 14>>,
  <<12441, 2, 92>>, <<12443, 2, 10>>, <<12445, 2, 91>>, <<12447, 1, 14>>, <<12448, 1, 7>>, <<12449, 90, 14>>,
  <<12539, 1, 2>>, <<12540, 3, 91>>, <<12543, 1, 14>>, <<12549, 43, 14>>, <<12593, 94, 14>>, <<12688, 2, 13>>,
  <<12690, 4, 17>>, <<12694, 10, 13>>, <<12704, 27, 14>>, <<12736, 36, 13>>, <<12784, 16, 14>>,
  <<12800, 31, 13>>, <<12832, 10, 17>>, <<12842, 30, 13>>, <<12872, 8, 17>>, <<12880, 1, 13>>,
  <<12881, 15, 17>>, <<12896, 32, 13>>, <<12928, 10, 17>>, <<12938, 39, 13>>, <<12977, 15, 17>>,
  <<12992, 63, 13>>, <<13056, 256, 13>>, <<13312, 6582, 14>>, <<19904, 64, 13>>, <<19968, 20976, 14>>,
  <<40960, 21, 14>>, <<40981, 1, 91>>, <<40982, 1143, 14>>, <<42128, 55, 13>>, <<42192, 40, 14>>,
  <<42232, 6, 91>>, <<42238, 2, 2>>, <<42240, 268, 14>>, <<42508, 1, 91>>, <<42509, 3, 2>>, <<42512, 16, 14>>,
  <<42528, 10, 8>>, <<42538, 2, 14>>, <<42560, 1, 22>>, <<42561, 1, 23>>, <<42562, 1, 22>>, <<42563, 1, 23>>,
  <<42564, 1, 22>>, <<42565, 1, 23>>, <<42566, 1, 22>>, <<42567, 1, 23>>, <<42568, 1, 22>>, <<42569, 1, 23>>,
  <<42570, 1, 22>>, <<42571, 1, 23>>, <<42572, 1, 22>>, <<42573, 1, 23>>, <<42574, 1, 22>>, <<42575, 1, 23>>,
  <<42576, 1, 22>>, <<42577, 1, 23>>, <<42578, 1, 22>>, <<42579, 1, 23>>, <<42580, 1, 22>>, <<42581, 1, 23>>,
  <<42582, 1, 22>>, <<42583, 1, 23>>, <<42584, 1, 22>>, <<42585, 1, 23>>, <<42586, 1, 22>>, <<42587, 1, 23>>,
  <<42588, 1, 22>>, <<42589, 1, 23>>, <<42590, 1, 22>>, <<42591, 1, 23>>, <<42592, 1, 22>>, <<42593, 1, 23>>,
  <<42594, 1, 22>>, <<42595, 1, 23>>, <<42596, 1, 22>>, <<42597, 1, 23>>, <<42598, 1, 22>>, <<42599, 1, 23>>,
  <<42600, 1, 22>>, <<42601, 1, 23>>, <<42602, 1, 22>>, <<42603, 1, 23>>, <<42604, 1, 22>>
>>

AllChars16 == <<
  <<42605, 1, 23>>, <<42606, 1, 14>>, <<42607, 1, 92>>, <<42608, 3, 119>>, <<42611, 1, 2>>, <<42612, 10, 92>>,
  <<42622, 1, 2>>, <<42623, 1, 91>>, <<42624, 1, 22>>, <<42625, 1, 23>>, <<42626, 1, 22>>, <<42627, 1, 23>>,
  <<42628, 1, 22>>, <<42629, 1, 23>>, <<42630, 1, 22>>, <<42631, 1, 23>>, <<42632, 1, 22>>, <<42633, 1, 23>>,
  <<42634, 1, 22>>, <<42635, 1, 23>>, <<42636, 1, 22>>, <<42637, 1, 23>>, <<42638, 1, 22>>, <<42639, 1, 23>>,
  <<42640, 1, 22>>, <<42641, 1, 23>>, <<42642, 1, 22>>, <<42643, 1, 23>>, <<42644, 1, 22>>, <<42645, 1, 23>>,
  <<42646, 1, 22>>, <<42647, 1, 23>>, <<42648, 1, 22>>, <<42649, 1, 23>>, <<42650, 1, 22>>, <<42651, 1, 23>>,
  <<42652, 2, 91>>, <<42654, 2, 92>>, <<42656, 70, 14>>, <<42726, 10, 128>>, <<42736, 2, 92>>, <<42738, 6, 2>>,
  <<42752, 23, 10>>, <<42775, 9, 91>>, <<42784, 2, 10>>, <<42786, 1, 22>>, <<42787, 1, 23>>, <<42788, 1, 22>>,
  <<42789, 1, 23>>, <<42790, 1, 22>>, <<42791, 1, 23>>, <<42792, 1, 22>>, <<42793, 1, 23>>, <<42794, 1, 22>>,
  <<42795, 1, 23>>, <<42796, 1, 22>>, <<42797, 1, 23>>, <<42798, 1, 22>>, <<42799, 1, 23>>, <<42800, 2, 20>>,
  <<42802, 1, 22>>, <<42803, 1, 23>>, <<42804, 1, 22>>, <<42805, 1, 23>>, <<42806, 1, 22>>, <<42807, 1, 23>>,
  <<42808, 1, 22>>, <<42809, 1, 23>>, <<42810, 1, 22>>, <<42811, 1, 23>>, <<42812, 1, 22>>, <<42813, 1, 23>>,
  <<42814, 1, 22>>, <<42815, 1, 23>>, <<42816, 1, 22>>, <<42817, 1, 23>>, <<42818, 1, 22>>, <<42819, 1, 23>>,
  <<42820, 1, 22>>, <<42821, 1, 23>>, <<42822, 1, 22>>, <<42823, 1, 23>>, <<42824, 1, 22>>, <<42825, 1, 23>>,
  <<42826, 1, 22>>, <<42827, 1, 23>>, <<42828, 1, 22>>, <<42829, 1, 23>>, <<42830, 1, 22>>, <<42831, 1, 23>>,
  <<42832, 1, 22>>, <<42833, 1, 23>>, <<42834, 1, 22>>, <<42835, 1, 23>>, <<42836, 1, 22>>, <<42837, 1, 23>>,
  <<42838, 1, 22>>, <<42839, 1, 23>>, <<42840, 1, 22>>, <<42841, 1, 23>>, <<42842, 1, 22>>, <<42843, 1, 23>>,
  <<42844, 1, 22>>, <<42845, 1, 23>>, <<42846, 1, 22>>, <<42847, 1, 23>>, <<42848, 1, 22>>, <<42849, 1, 23>>,
  <<42850, 1, 22>>, <<42851, 1, 23>>, <<42852, 1, 22>>, <<42853, 1, 23>>, <<42854, 1, 22>>, <<42855, 1, 23>>,
  <<42856, 1, 22>>, <<42857, 1, 23>>, <<42858, 1, 22>>, <<42859, 1, 23>>, <<42860, 1, 22>>, <<42861, 1, 23>>,
  <<42862, 1, 22>>, <<42863, 1, 23>>, <<42864, 1, 91>>, <<42865, 8, 20>>, <<42873, 1, 22>>, <<42874, 1, 23>>,
  <<42875, 1, 22>>, <<42876, 1, 23>>, <<42877, 1, 183>>, <<42878, 1, 22>>, <<42879, 1, 23>>, <<42880, 1, 22>>,
  <<42881, 1, 23>>, <<42882, 1, 22>>, <<42883, 1, 23>>, <<42884, 1, 22>>, <<42885, 1, 23>>, <<42886, 1, 22>>,
  <<42887, 1, 23>>, <<42888, 1, 91>>, <<42889, 2, 10>>, <<42891, 1, 22>>, <<42892, 1, 23>>, <<42893, 1, 184>>,
  <<42894, 1, 20>>, <<42895, 1, 14>>, <<42896, 1, 22>>, <<42897, 1, 23>>, <<42898, 1, 22>>, <<42899, 1, 23>>
>>

AllChars17 == <<
  <<42900, 1, 185>>, <<42901, 1, 20>>, <<42902, 1, 22>>, <<42903, 1, 23>>, <<42904, 1, 22>>, <<42905, 1, 23>>,
  <<42906, 1, 22>>, <<42907, 1, 23>>, <<42908, 1, 22>>, <<42909, 1, 23>>, <<42910, 1, 22>>, <<42911, 1, 23>>,
  <<42912, 1, 22>>, <<42913, 1, 23>>, <<42914, 1, 22>>, <<42915, 1, 23>>, <<42916, 1, 22>>, <<42917, 1, 23>>,
  <<42918, 1, 22>>, <<42919, 1, 23>>, <<42920, 1, 22>>, <<42921, 1, 23>>, <<42922, 1, 186>>, <<42923, 1, 187>>,
  <<42924, 1, 188>>, <<42925, 1, 189>>, <<42926, 1, 186>>, <<42927, 1, 20>>, <<42928, 1, 190>>,
  <<42929, 1, 191>>, <<42930, 1, 192>>, <<42931, 1, 193>>, <<42932, 1, 22>>, <<42933, 1, 23>>, <<42934, 1, 22>>,
  <<42935, 1, 23>>, <<42936, 1, 22>>, <<42937, 1, 23>>, <<42938, 1, 22>>, <<42939, 1, 23>>, <<42940, 1, 22>>,
  <<42941, 1, 23>>, <<42942, 1, 22>>, <<42943, 1, 23>>, <<42946, 1, 22>>, <<42947, 1, 23>>, <<42948, 1, 194>>,
  <<42949, 1, 195>>, <<42950, 1, 196>>, <<42999, 1, 14>>, <<43000, 2, 91>>, <<43002, 1, 20>>, <<43003, 7, 14>>,
  <<43010, 1, 92>>, <<43011, 3, 14>>, <<43014, 1, 92>>, <<43015, 4, 14>>, <<43019, 1, 92>>, <<43020, 23, 14>>,
  <<43043, 2, 124>>, <<43045, 2, 92>>, <<43047, 1, 124>>, <<43048, 4, 13>>, <<43056, 6, 17>>, <<43062, 2, 13>>,
  <<43064, 1, 3>>, <<43065, 1, 13>>, <<43072, 52, 14>>, <<43124, 4, 2>>, <<43136, 2, 124>>, <<43138, 50, 14>>,
  <<43188, 16, 124>>, <<43204, 2, 92>>, <<43214, 2, 2>>, <<43216, 10, 8>>, <<43232, 18, 92>>, <<43250, 6, 14>>,
  <<43256, 3, 2>>, <<43259, 1, 14>>, <<43260, 1, 2>>, <<43261, 2, 14>>, <<43263, 1, 92>>, <<43264, 10, 8>>,
  <<43274, 28, 14>>, <<43302, 8, 92>>, <<43310, 2, 2>>, <<43312, 23, 14>>, <<43335, 11, 92>>, <<43346, 2, 124>>,
  <<43359, 1, 2>>, <<43360, 29, 14>>, <<43392, 3, 92>>, <<43395, 1, 124>>, <<43396, 47, 14>>, <<43443, 1, 92>>,
  <<43444, 2, 124>>, <<43446, 4, 92>>, <<43450, 2, 124>>, <<43452, 1, 92>>, <<43453, 4, 124>>, <<43457, 13, 2>>,
  <<43471, 1, 91>>, <<43472, 10, 8>>, <<43486, 2, 2>>, <<43488, 5, 14>>, <<43493, 1, 92>>, <<43494, 1, 91>>,
  <<43495, 9, 14>>, <<43504, 10, 8>>, <<43514, 5, 14>>, <<43520, 41, 14>>, <<43561, 6, 92>>, <<43567, 2, 124>>,
  <<43569, 2, 92>>, <<43571, 2, 124>>, <<43573, 2, 92>>, <<43584, 3, 14>>, <<43587, 1, 92>>, <<43588, 8, 14>>,
  <<43596, 1, 92>>, <<43597, 1, 124>>, <<43600, 10, 8>>, <<43612, 4, 2>>, <<43616, 16, 14>>, <<43632, 1, 91>>,
  <<43633, 6, 14>>, <<43639, 3, 13>>, <<43642, 1, 14>>, <<43643, 1, 124>>, <<43644, 1, 92>>, <<43645, 1, 124>>,
  <<43646, 50, 14>>, <<43696, 1, 92>>, <<43697, 1, 14>>, <<43698, 3, 92>>, <<43701, 2, 14>>, <<43703, 2, 92>>,
  <<43705, 5, 14>>, <<43710, 2, 92>>, <<43712, 1, 14>>, <<43713, 1, 92>>, <<43714, 1, 14>>, <<43739, 2, 14>>,
  <<43741, 1, 91>>, <<43742, 2, 2>>, <<43744, 11, 14>>, <<43755, 1, 124>>, <<43756, 2, 92>>, <<43758, 2, 124>>,
  <<43760, 2, 2>>
>>

AllChars18 == <<
  <<43762, 1, 14>>, <<43763, 2, 91>>, <<43765, 1, 124>>, <<43766, 1, 92>>, <<43777, 6, 14>>, <<43785, 6, 14>>,
  <<43793, 6, 14>>, <<43808, 7, 14>>, <<43816, 7, 14>>, <<43824, 35, 20>>, <<43859, 1, 197>>, <<43860, 7, 20>>,
  <<43867, 1, 10>>, <<43868, 4, 91>>, <<43872, 8, 20>>, <<43888, 80, 198>>, <<43968, 35, 14>>,
  <<44003, 2, 124>>, <<44005, 1, 92>>, <<44006, 2, 124>>, <<44008, 1, 92>>, <<44009, 2, 124>>, <<44011, 1, 2>>,
  <<44012, 1, 124>>, <<44013, 1, 92>>, <<44016, 10, 8>>, <<44032, 11172, 14>>, <<55216, 23, 14>>,
  <<55243, 49, 14>>, <<55296, 896, 199>>, <<56192, 128, 199>>, <<56320, 1024, 199>>, <<57344, 6400, 200>>,
  <<63744, 366, 14>>, <<64112, 106, 14>>, <<64256, 7, 20>>, <<64275, 5, 20>>, <<64285, 1, 14>>,
  <<64286, 1, 92>>, <<64287, 10, 14>>, <<64297, 1, 6>>, <<64298, 13, 14>>, <<64312, 5, 14>>, <<64318, 1, 14>>,
  <<64320, 2, 14>>, <<64323, 2, 14>>, <<64326, 108, 14>>, <<64434, 16, 10>>, <<64467, 363, 14>>,
  <<64830, 1, 5>>, <<64831, 1, 4>>, <<64848, 64, 14>>, <<64914, 54, 14>>, <<65008, 12, 14>>, <<65020, 1, 3>>,
  <<65021, 1, 13>>, <<65024, 16, 92>>, <<65040, 7, 2>>, <<65047, 1, 4>>, <<65048, 1, 5>>, <<65049, 1, 2>>,
  <<65056, 16, 92>>, <<65072, 1, 2>>, <<65073, 2, 7>>, <<65075, 2, 11>>, <<65077, 1, 4>>, <<65078, 1, 5>>,
  <<65079, 1, 4>>, <<65080, 1, 5>>, <<65081, 1, 4>>, <<65082, 1, 5>>, <<65083, 1, 4>>, <<65084, 1, 5>>,
  <<65085, 1, 4>>, <<65086, 1, 5>>, <<65087, 1, 4>>, <<65088, 1, 5>>, <<65089, 1, 4>>, <<65090, 1, 5>>,
  <<65091, 1, 4>>, <<65092, 1, 5>>, <<65093, 2, 2>>, <<65095, 1, 4>>, <<65096, 1, 5>>, <<65097, 4, 2>>,
  <<65101, 3, 11>>, <<65104, 3, 2>>, <<65108, 4, 2>>, <<65112, 1, 7>>, <<65113, 1, 4>>, <<65114, 1, 5>>,
  <<65115, 1, 4>>, <<65116, 1, 5>>, <<65117, 1, 4>>, <<65118, 1, 5>>, <<65119, 3, 2>>, <<65122, 1, 6>>,
  <<65123, 1, 7>>, <<65124, 3, 6>>, <<65128, 1, 2>>, <<65129, 1, 3>>, <<65130, 2, 2>>, <<65136, 5, 14>>,
  <<65142, 135, 14>>, <<65279, 1, 16>>, <<65281, 3, 2>>, <<65284, 1, 3>>, <<65285, 3, 2>>, <<65288, 1, 4>>,
  <<65289, 1, 5>>, <<65290, 1, 2>>, <<65291, 1, 6>>, <<65292, 1, 2>>, <<65293, 1, 7>>, <<65294, 2, 2>>,
  <<65296, 10, 8>>, <<65306, 2, 2>>, <<65308, 3, 6>>, <<65311, 2, 2>>, <<65313, 26, 9>>, <<65339, 1, 4>>,
  <<65340, 1, 2>>, <<65341, 1, 5>>, <<65342, 1, 10>>, <<65343, 1, 11>>, <<65344, 1, 10>>, <<65345, 26, 12>>,
  <<65371, 1, 4>>, <<65372, 1, 6>>, <<65373, 1, 5>>, <<65374, 1, 6>>, <<65375, 1, 4>>, <<65376, 1, 5>>,
  <<65377, 1, 2>>, <<65378, 1, 4>>, <<65379, 1, 5>>, <<65380, 2, 2>>, <<65382, 10, 14>>, <<65392, 1, 91>>,
  <<65393, 45, 14>>, <<65438, 2, 91>>, <<65440, 31, 14>>, <<65474, 6, 14>>, <<65482, 6, 14>>, <<65490, 6, 14>>,
  <<65498, 3, 14>>, <<65504, 2, 3>>, <<65506, 1, 6>>, <<65507, 1, 10>>, <<65508, 1, 13>>
>>

AllChars19 == <<
  <<65509, 2, 3>>, <<65512, 1, 13>>, <<65513, 4, 6>>, <<65517, 2, 13>>, <<65529, 3, 16>>, <<65532, 2, 13>>,
  <<65536, 12, 14>>, <<65549, 26, 14>>, <<65576, 19, 14>>, <<65596, 2, 14>>, <<65599, 15, 14>>,
  <<65616, 14, 14>>, <<65664, 123, 14>>, <<65792, 3, 2>>, <<65799, 45, 17>>, <<65847, 9, 13>>,
  <<65856, 53, 128>>, <<65909, 4, 17>>, <<65913, 17, 13>>, <<65930, 2, 17>>, <<65932, 3, 13>>,
  <<65936, 12, 13>>, <<65952, 1, 13>>, <<66000, 45, 13>>, <<66045, 1, 92>>, <<66176, 29, 14>>,
  <<66208, 49, 14>>, <<66272, 1, 92>>, <<66273, 27, 17>>, <<66304, 32, 14>>, <<66336, 4, 17>>,
  <<66349, 20, 14>>, <<66369, 1, 128>>, <<66370, 8, 14>>, <<66378, 1, 128>>, <<66384, 38, 14>>,
  <<66422, 5, 92>>, <<66432, 30, 14>>, <<66463, 1, 2>>, <<66464, 36, 14>>, <<66504, 8, 14>>, <<66512, 1, 2>>,
  <<66513, 5, 128>>, <<66560, 40, 201>>, <<66600, 40, 202>>, <<66640, 78, 14>>, <<66720, 10, 8>>,
  <<66736, 36, 201>>, <<66776, 36, 202>>, <<66816, 40, 14>>, <<66864, 52, 14>>, <<66927, 1, 2>>,
  <<67072, 311, 14>>, <<67392, 22, 14>>, <<67424, 8, 14>>, <<67584, 6, 14>>, <<67592, 1, 14>>,
  <<67594, 44, 14>>, <<67639, 2, 14>>, <<67644, 1, 14>>, <<67647, 23, 14>>, <<67671, 1, 2>>, <<67672, 8, 17>>,
  <<67680, 23, 14>>, <<67703, 2, 13>>, <<67705, 7, 17>>, <<67712, 31, 14>>, <<67751, 9, 17>>, <<67808, 19, 14>>,
  <<67828, 2, 14>>, <<67835, 5, 17>>, <<67840, 22, 14>>, <<67862, 6, 17>>, <<67871, 1, 2>>, <<67872, 26, 14>>,
  <<67903, 1, 2>>, <<67968, 56, 14>>, <<68028, 2, 17>>, <<68030, 2, 14>>, <<68032, 16, 17>>, <<68050, 46, 17>>,
  <<68096, 1, 14>>, <<68097, 3, 92>>, <<68101, 2, 92>>, <<68108, 4, 92>>, <<68112, 4, 14>>, <<68117, 3, 14>>,
  <<68121, 29, 14>>, <<68152, 3, 92>>, <<68159, 1, 92>>, <<68160, 9, 17>>, <<68176, 9, 2>>, <<68192, 29, 14>>,
  <<68221, 2, 17>>, <<68223, 1, 2>>, <<68224, 29, 14>>, <<68253, 3, 17>>, <<68288, 8, 14>>, <<68296, 1, 13>>,
  <<68297, 28, 14>>, <<68325, 2, 92>>, <<68331, 5, 17>>, <<68336, 7, 2>>, <<68352, 54, 14>>, <<68409, 7, 2>>,
  <<68416, 22, 14>>, <<68440, 8, 17>>, <<68448, 19, 14>>, <<68472, 8, 17>>, <<68480, 18, 14>>, <<68505, 4, 2>>,
  <<68521, 7, 17>>, <<68608, 73, 14>>, <<68736, 51, 97>>, <<68800, 51, 102>>, <<68858, 6, 17>>,
  <<68864, 36, 14>>, <<68900, 4, 92>>, <<68912, 10, 8>>, <<69216, 31, 17>>, <<69376, 29, 14>>,
  <<69405, 10, 17>>, <<69415, 1, 14>>, <<69424, 22, 14>>, <<69446, 11, 92>>, <<69457, 4, 17>>, <<69461, 5, 2>>,
  <<69600, 23, 14>>, <<69632, 1, 124>>, <<69633, 1, 92>>, <<69634, 1, 124>>, <<69635, 53, 14>>,
  <<69688, 15, 92>>, <<69703, 7, 2>>, <<69714, 20, 17>>, <<69734, 10, 8>>, <<69759, 3, 92>>, <<69762, 1, 124>>,
  <<69763, 45, 14>>, <<69808, 3, 124>>, <<69811, 4, 92>>, <<69815, 2, 124>>, <<69817, 2, 92>>, <<69819, 2, 2>>,
  <<69821, 1, 16>>, <<69822, 4, 2>>, <<69837, 1, 16>>, <<69840, 25, 14>>, <<69872, 10, 8>>, <<69888, 3, 92>>
>>

AllChars20 == <<
  <<69891, 36, 14>>, <<69927, 5, 92>>, <<69932, 1, 124>>, <<69933, 8, 92>>, <<69942, 10, 8>>, <<69952, 4, 2>>,
  <<69956, 1, 14>>, <<69957, 2, 124>>, <<69968, 35, 14>>, <<70003, 1, 92>>, <<70004, 2, 2>>, <<70006, 1, 14>>,
  <<70016, 2, 92>>, <<70018, 1, 124>>, <<70019, 48, 14>>, <<70067, 3, 124>>, <<70070, 9, 92>>,
  <<70079, 2, 124>>, <<70081, 4, 14>>, <<70085, 4, 2>>, <<70089, 4, 92>>, <<70093, 1, 2>>, <<70096, 10, 8>>,
  <<70106, 1, 14>>, <<70107, 1, 2>>, <<70108, 1, 14>>, <<70109, 3, 2>>, <<70113, 20, 17>>, <<70144, 18, 14>>,
  <<70163, 25, 14>>, <<70188, 3, 124>>, <<70191, 3, 92>>, <<70194, 2, 124>>, <<70196, 1, 92>>,
  <<70197, 1, 124>>, <<70198, 2, 92>>, <<70200, 6, 2>>, <<70206, 1, 92>>, <<70272, 7, 14>>, <<70280, 1, 14>>,
  <<70282, 4, 14>>, <<70287, 15, 14>>, <<70303, 10, 14>>, <<70313, 1, 2>>, <<70320, 47, 14>>, <<70367, 1, 92>>,
  <<70368, 3, 124>>, <<70371, 8, 92>>, <<70384, 10, 8>>, <<70400, 2, 92>>, <<70402, 2, 124>>, <<70405, 8, 14>>,
  <<70415, 2, 14>>, <<70419, 22, 14>>, <<70442, 7, 14>>, <<70450, 2, 14>>, <<70453, 5, 14>>, <<70459, 2, 92>>,
  <<70461, 1, 14>>, <<70462, 2, 124>>, <<70464, 1, 92>>, <<70465, 4, 124>>, <<70471, 2, 124>>,
  <<70475, 3, 124>>, <<70480, 1, 14>>, <<70487, 1, 124>>, <<70493, 5, 14>>, <<70498, 2, 124>>, <<70502, 7, 92>>,
  <<70512, 5, 92>>, <<70656, 53, 14>>, <<70709, 3, 124>>, <<70712, 8, 92>>, <<70720, 2, 124>>, <<70722, 3, 92>>,
  <<70725, 1, 124>>, <<70726, 1, 92>>, <<70727, 4, 14>>, <<70731, 5, 2>>, <<70736, 10, 8>>, <<70747, 1, 2>>,
  <<70749, 1, 2>>, <<70750, 1, 92>>, <<70751, 1, 14>>, <<70784, 48, 14>>, <<70832, 3, 124>>, <<70835, 6, 92>>,
  <<70841, 1, 124>>, <<70842, 1, 92>>, <<70843, 4, 124>>, <<70847, 2, 92>>, <<70849, 1, 124>>, <<70850, 2, 92>>,
  <<70852, 2, 14>>, <<70854, 1, 2>>, <<70855, 1, 14>>, <<70864, 10, 8>>, <<71040, 47, 14>>, <<71087, 3, 124>>,
  <<71090, 4, 92>>, <<71096, 4, 124>>, <<71100, 2, 92>>, <<71102, 1, 124>>, <<71103, 2, 92>>, <<71105, 23, 2>>,
  <<71128, 4, 14>>, <<71132, 2, 92>>, <<71168, 48, 14>>, <<71216, 3, 124>>, <<71219, 8, 92>>, <<71227, 2, 124>>,
  <<71229, 1, 92>>, <<71230, 1, 124>>, <<71231, 2, 92>>, <<71233, 3, 2>>, <<71236, 1, 14>>, <<71248, 10, 8>>,
  <<71264, 13, 2>>, <<71296, 43, 14>>, <<71339, 1, 92>>, <<71340, 1, 124>>, <<71341, 1, 92>>, <<71342, 2, 124>>,
  <<71344, 6, 92>>, <<71350, 1, 124>>, <<71351, 1, 92>>, <<71352, 1, 14>>, <<71360, 10, 8>>, <<71424, 27, 14>>,
  <<71453, 3, 92>>, <<71456, 2, 124>>, <<71458, 4, 92>>, <<71462, 1, 124>>, <<71463, 5, 92>>, <<71472, 10, 8>>,
  <<71482, 2, 17>>, <<71484, 3, 2>>, <<71487, 1, 13>>, <<71680, 44, 14>>, <<71724, 3, 124>>, <<71727, 9, 92>>,
  <<71736, 1, 124>>, <<71737, 2, 92>>, <<71739, 1, 2>>, <<71840, 32, 9>>, <<71872, 32, 12>>, <<71904, 10, 8>>,
  <<71914, 9, 17>>, <<71935, 1, 14>>, <<72096, 8, 14>>
>>

AllChars21 == <<
  <<72106, 39, 14>>, <<72145, 1, 124>>, <<72146, 1, 92>>, <<72147, 1, 124>>, <<72148, 4, 92>>, <<72154, 2, 92>>,
  <<72156, 4, 124>>, <<72160, 1, 92>>, <<72161, 3, 14>>, <<72164, 1, 124>>, <<72192, 1, 14>>, <<72193, 10, 92>>,
  <<72203, 40, 14>>, <<72243, 6, 92>>, <<72249, 1, 124>>, <<72250, 1, 14>>, <<72251, 4, 92>>, <<72255, 8, 2>>,
  <<72263, 1, 92>>, <<72272, 1, 14>>, <<72273, 6, 92>>, <<72279, 2, 124>>, <<72281, 3, 92>>, <<72284, 46, 14>>,
  <<72330, 13, 92>>, <<72343, 1, 124>>, <<72344, 2, 92>>, <<72346, 3, 2>>, <<72349, 1, 14>>, <<72350, 5, 2>>,
  <<72384, 57, 14>>, <<72704, 9, 14>>, <<72714, 37, 14>>, <<72751, 1, 124>>, <<72752, 7, 92>>, <<72760, 6, 92>>,
  <<72766, 1, 124>>, <<72767, 1, 92>>, <<72768, 1, 14>>, <<72769, 5, 2>>, <<72784, 10, 8>>, <<72794, 19, 17>>,
  <<72816, 2, 2>>, <<72818, 30, 14>>, <<72850, 22, 92>>, <<72873, 1, 124>>, <<72874, 7, 92>>, <<72881, 1, 124>>,
  <<72882, 2, 92>>, <<72884, 1, 124>>, <<72885, 2, 92>>, <<72960, 7, 14>>, <<72968, 2, 14>>, <<72971, 38, 14>>,
  <<73009, 6, 92>>, <<73018, 1, 92>>, <<73020, 2, 92>>, <<73023, 7, 92>>, <<73030, 1, 14>>, <<73031, 1, 92>>,
  <<73040, 10, 8>>, <<73056, 6, 14>>, <<73063, 2, 14>>, <<73066, 32, 14>>, <<73098, 5, 124>>, <<73104, 2, 92>>,
  <<73107, 2, 124>>, <<73109, 1, 92>>, <<73110, 1, 124>>, <<73111, 1, 92>>, <<73112, 1, 14>>, <<73120, 10, 8>>,
  <<73440, 19, 14>>, <<73459, 2, 92>>, <<73461, 2, 124>>, <<73463, 2, 2>>, <<73664, 21, 17>>, <<73685, 8, 13>>,
  <<73693, 4, 3>>, <<73697, 17, 13>>, <<73727, 1, 2>>, <<73728, 922, 14>>, <<74752, 111, 128>>, <<74864, 5, 2>>,
  <<74880, 196, 14>>, <<77824, 1071, 14>>, <<78896, 9, 16>>, <<82944, 583, 14>>, <<92160, 569, 14>>,
  <<92736, 31, 14>>, <<92768, 10, 8>>, <<92782, 2, 2>>, <<92880, 30, 14>>, <<92912, 5, 92>>, <<92917, 1, 2>>,
  <<92928, 48, 14>>, <<92976, 7, 92>>, <<92983, 5, 2>>, <<92988, 4, 13>>, <<92992, 4, 91>>, <<92996, 1, 2>>,
  <<92997, 1, 13>>, <<93008, 10, 8>>, <<93019, 7, 17>>, <<93027, 21, 14>>, <<93053, 19, 14>>, <<93760, 32, 9>>,
  <<93792, 32, 12>>, <<93824, 23, 17>>, <<93847, 4, 2>>, <<93952, 75, 14>>, <<94031, 1, 92>>, <<94032, 1, 14>>,
  <<94033, 55, 124>>, <<94095, 4, 92>>, <<94099, 13, 91>>, <<94176, 2, 91>>, <<94178, 1, 2>>, <<94179, 1, 91>>,
  <<94208, 6136, 14>>, <<100352, 755, 14>>, <<110592, 287, 14>>, <<110928, 3, 14>>, <<110948, 4, 14>>,
  <<110960, 396, 14>>, <<113664, 107, 14>>, <<113776, 13, 14>>, <<113792, 9, 14>>, <<113808, 10, 14>>,
  <<113820, 1, 13>>, <<113821, 2, 92>>, <<113823, 1, 2>>, <<113824, 4, 16>>, <<118784, 246, 13>>,
  <<119040, 39, 13>>, <<119081, 60, 13>>, <<119141, 2, 124>>, <<119143, 3, 92>>, <<119146, 3, 13>>,
  <<119149, 6, 124>>, <<119155, 8, 16>>, <<119163, 8, 92>>, <<119171, 2, 13>>, <<119173, 7, 92>>,
  <<119180, 30, 13>>, <<119210, 4, 92>>, <<119214, 59, 13>>, <<119296, 66, 13>>, <<119362, 3, 92>>,
  <<119365, 1, 13>>
>>

AllChars22 == <<
  <<119520, 20, 17>>, <<119552, 87, 13>>, <<119648, 25, 17>>, <<119808, 26, 107>>, <<119834, 26, 20>>,
  <<119860, 26, 107>>, <<119886, 7, 20>>, <<119894, 18, 20>>, <<119912, 26, 107>>, <<119938, 26, 20>>,
  <<119964, 1, 107>>, <<119966, 2, 107>>, <<119970, 1, 107>>, <<119973, 2, 107>>, <<119977, 4, 107>>,
  <<119982, 8, 107>>, <<119990, 4, 20>>, <<119995, 1, 20>>, <<119997, 7, 20>>, <<120005, 11, 20>>,
  <<120016, 26, 107>>, <<120042, 26, 20>>, <<120068, 2, 107>>, <<120071, 4, 107>>, <<120077, 8, 107>>,
  <<120086, 7, 107>>, <<120094, 26, 20>>, <<120120, 2, 107>>, <<120123, 4, 107>>, <<120128, 5, 107>>,
  <<120134, 1, 107>>, <<120138, 7, 107>>, <<120146, 26, 20>>, <<120172, 26, 107>>, <<120198, 26, 20>>,
  <<120224, 26, 107>>, <<120250, 26, 20>>, <<120276, 26, 107>>, <<120302, 26, 20>>, <<120328, 26, 107>>,
  <<120354, 26, 20>>, <<120380, 26, 107>>, <<120406, 26, 20>>, <<120432, 26, 107>>, <<120458, 28, 20>>,
  <<120488, 25, 107>>, <<120513, 1, 6>>, <<120514, 25, 20>>, <<120539, 1, 6>>, <<120540, 6, 20>>,
  <<120546, 25, 107>>, <<120571, 1, 6>>, <<120572, 25, 20>>, <<120597, 1, 6>>, <<120598, 6, 20>>,
  <<120604, 25, 107>>, <<120629, 1, 6>>, <<120630, 25, 20>>, <<120655, 1, 6>>, <<120656, 6, 20>>,
  <<120662, 25, 107>>, <<120687, 1, 6>>, <<120688, 25, 20>>, <<120713, 1, 6>>, <<120714, 6, 20>>,
  <<120720, 25, 107>>, <<120745, 1, 6>>, <<120746, 25, 20>>, <<120771, 1, 6>>, <<120772, 6, 20>>,
  <<120778, 1, 107>>, <<120779, 1, 20>>, <<120782, 50, 8>>, <<120832, 512, 13>>, <<121344, 55, 92>>,
  <<121399, 4, 13>>, <<121403, 50, 92>>, <<121453, 8, 13>>, <<121461, 1, 92>>, <<121462, 14, 13>>,
  <<121476, 1, 92>>, <<121477, 2, 13>>, <<121479, 5, 2>>, <<121499, 5, 92>>, <<121505, 15, 92>>,
  <<122880, 7, 92>>, <<122888, 17, 92>>, <<122907, 7, 92>>, <<122915, 2, 92>>, <<122918, 5, 92>>,
  <<123136, 45, 14>>, <<123184, 7, 92>>, <<123191, 7, 91>>, <<123200, 10, 8>>, <<123214, 2, 14>>,
  <<123584, 44, 14>>, <<123628, 4, 92>>, <<123632, 10, 8>>, <<123647, 1, 3>>, <<124928, 197, 14>>,
  <<125127, 9, 17>>, <<125136, 7, 92>>, <<125184, 34, 203>>, <<125218, 34, 204>>, <<125252, 7, 92>>,
  <<125264, 10, 8>>, <<125278, 2, 2>>, <<126065, 59, 17>>, <<126124, 1, 13>>, <<126125, 3, 17>>,
  <<126128, 1, 3>>, <<126129, 4, 17>>, <<126209, 45, 17>>, <<126254, 1, 13>>, <<126255, 15, 17>>,
  <<126464, 4, 14>>, <<126469, 27, 14>>, <<126497, 2, 14>>, <<126500, 1, 14>>, <<126503, 1, 14>>,
  <<126505, 10, 14>>, <<126516, 4, 14>>, <<126521, 1, 14>>, <<126523, 1, 14>>, <<126530, 1, 14>>,
  <<126535, 1, 14>>, <<126537, 1, 14>>, <<126539, 1, 14>>, <<126541, 3, 14>>, <<126545, 2, 14>>,
  <<126548, 1, 14>>, <<126551, 1, 14>>, <<126553, 1, 14>>, <<126555, 1, 14>>, <<126557, 1, 14>>,
  <<126559, 1, 14>>, <<126561, 2, 14>>, <<126564, 1, 14>>, <<126567, 4, 14>>, <<126572, 7, 14>>,
  <<126580, 4, 14>>, <<126585, 4, 14>>, <<126590, 1, 14>>, <<126592, 10, 14>>, <<126603, 17, 14>>,
  <<126625, 3, 14>>, <<126629, 5, 14>>, <<126635, 17, 14>>, <<126704, 2, 6>>, <<126976, 44, 13>>
>>

AllChars23 == <<
  <<127024, 100, 13>>, <<127136, 15, 13>>, <<127153, 15, 13>>, <<127169, 15, 13>>, <<127185, 37, 13>>,
  <<127232, 13, 17>>, <<127248, 93, 13>>, <<127344, 61, 13>>, <<127462, 29, 13>>, <<127504, 44, 13>>,
  <<127552, 9, 13>>, <<127568, 2, 13>>, <<127584, 6, 13>>, <<127744, 251, 13>>, <<127995, 5, 10>>,
  <<128000, 726, 13>>, <<128736, 13, 13>>, <<128752, 11, 13>>, <<128768, 116, 13>>, <<128896, 89, 13>>,
  <<128992, 12, 13>>, <<129024, 12, 13>>, <<129040, 56, 13>>, <<129104, 10, 13>>, <<129120, 40, 13>>,
  <<129168, 30, 13>>, <<129280, 12, 13>>, <<129293, 101, 13>>, <<129395, 4, 13>>, <<129402, 41, 13>>,
  <<129445, 6, 13>>, <<129454, 29, 13>>, <<129485, 135, 13>>, <<129632, 14, 13>>, <<129648, 4, 13>>,
  <<129656, 3, 13>>, <<129664, 3, 13>>, <<129680, 6, 13>>, <<131072, 42711, 14>>, <<173824, 4149, 14>>,
  <<177984, 222, 14>>, <<178208, 5762, 14>>, <<183984, 7473, 14>>, <<194560, 542, 14>>, <<917505, 1, 16>>,
  <<917536, 96, 16>>, <<917760, 240, 92>>, <<983040, 65534, 200>>, <<1048576, 65534, 200>>
>>

allchars ==
  AllChars1 \o AllChars2 \o AllChars3 \o AllChars4 \o AllChars5 \o AllChars6
   \o AllChars7 \o AllChars8 \o AllChars9 \o AllChars10 \o AllChars11
   \o AllChars12 \o AllChars13 \o AllChars14 \o AllChars15 \o AllChars16
   \o AllChars17 \o AllChars18 \o AllChars19 \o AllChars20 \o AllChars21
   \o AllChars22 \o AllChars23

----------------------------------------------------------------------------
(* The table convchars. *)
ConvChars1 == <<
  <<65, 26, 9>>, <<97, 26, 12>>, <<181, 1, 18>>, <<192, 23, 9>>, <<216, 7, 9>>, <<224, 23, 12>>, <<248, 7, 12>>,
  <<255, 1, 21>>, <<256, 1, 22>>, <<257, 1, 23>>, <<258, 1, 22>>, <<259, 1, 23>>, <<260, 1, 22>>,
  <<261, 1, 23>>, <<262, 1, 22>>, <<263, 1, 23>>, <<264, 1, 22>>, <<265, 1, 23>>, <<266, 1, 22>>,
  <<267, 1, 23>>, <<268, 1, 22>>, <<269, 1, 23>>, <<270, 1, 22>>, <<271, 1, 23>>, <<272, 1, 22>>,
  <<273, 1, 23>>, <<274, 1, 22>>, <<275, 1, 23>>, <<276, 1, 22>>, <<277, 1, 23>>, <<278, 1, 22>>,
  <<279, 1, 23>>, <<280, 1, 22>>, <<281, 1, 23>>, <<282, 1, 22>>, <<283, 1, 23>>, <<284, 1, 22>>,
  <<285, 1, 23>>, <<286, 1, 22>>, <<287, 1, 23>>, <<288, 1, 22>>, <<289, 1, 23>>, <<290, 1, 22>>,
  <<291, 1, 23>>, <<292, 1, 22>>, <<293, 1, 23>>, <<294, 1, 22>>, <<295, 1, 23>>, <<296, 1, 22>>,
  <<297, 1, 23>>, <<298, 1, 22>>, <<299, 1, 23>>, <<300, 1, 22>>, <<301, 1, 23>>, <<302, 1, 22>>,
  <<303, 1, 23>>, <<304, 1, 24>>, <<305, 1, 25>>, <<306, 1, 22>>, <<307, 1, 23>>, <<308, 1, 22>>,
  <<309, 1, 23>>, <<310, 1, 22>>, <<311, 1, 23>>, <<313, 1, 22>>, <<314, 1, 23>>, <<315, 1, 22>>,
  <<316, 1, 23>>, <<317, 1, 22>>, <<318, 1, 23>>, <<319, 1, 22>>, <<320, 1, 23>>, <<321, 1, 22>>,
  <<322, 1, 23>>, <<323, 1, 22>>, <<324, 1, 23>>, <<325, 1, 22>>, <<326, 1, 23>>, <<327, 1, 22>>,
  <<328, 1, 23>>, <<330, 1, 22>>, <<331, 1, 23>>, <<332, 1, 22>>, <<333, 1, 23>>, <<334, 1, 22>>,
  <<335, 1, 23>>, <<336, 1, 22>>, <<337, 1, 23>>, <<338, 1, 22>>, <<339, 1, 23>>, <<340, 1, 22>>,
  <<341, 1, 23>>, <<342, 1, 22>>, <<343, 1, 23>>, <<344, 1, 22>>, <<345, 1, 23>>, <<346, 1, 22>>,
  <<347, 1, 23>>, <<348, 1, 22>>, <<349, 1, 23>>, <<350, 1, 22>>, <<351, 1, 23>>, <<352, 1, 22>>,
  <<353, 1, 23>>, <<354, 1, 22>>, <<355, 1, 23>>, <<356, 1, 22>>, <<357, 1, 23>>, <<358, 1, 22>>,
  <<359, 1, 23>>, <<360, 1, 22>>, <<361, 1, 23>>, <<362, 1, 22>>, <<363, 1, 23>>, <<364, 1, 22>>,
  <<365, 1, 23>>, <<366, 1, 22>>, <<367, 1, 23>>, <<368, 1, 22>>, <<369, 1, 23>>, <<370, 1, 22>>,
  <<371, 1, 23>>, <<372, 1, 22>>, <<373, 1, 23>>, <<374, 1, 22>>, <<375, 1, 23>>, <<376, 1, 26>>,
  <<377, 1, 22>>, <<378, 1, 23>>, <<379, 1, 22>>, <<380, 1, 23>>, <<381, 1, 22>>, <<382, 1, 23>>,
  <<383, 1, 27>>, <<384, 1, 28>>, <<385, 1, 29>>, <<386, 1, 22>>, <<387, 1, 23>>, <<388, 1, 22>>,
  <<389, 1, 23>>, <<390, 1, 30>>, <<391, 1, 22>>, <<392, 1, 23>>, <<393, 2, 31>>, <<395, 1, 22>>,
  <<396, 1, 23>>, <<398, 1, 32>>, <<399, 1, 33>>, <<400, 1, 34>>, <<401, 1, 22>>
>>

ConvChars2 == <<
  <<402, 1, 23>>, <<403, 1, 31>>, <<404, 1, 35>>, <<405, 1, 36>>, <<406, 1, 37>>, <<407, 1, 38>>,
  <<408, 1, 22>>, <<409, 1, 23>>, <<410, 1, 39>>, <<412, 1, 37>>, <<413, 1, 40>>, <<414, 1, 41>>,
  <<415, 1, 42>>, <<416, 1, 22>>, <<417, 1, 23>>, <<418, 1, 22>>, <<419, 1, 23>>, <<420, 1, 22>>,
  <<421, 1, 23>>, <<422, 1, 43>>, <<423, 1, 22>>, <<424, 1, 23>>, <<425, 1, 43>>, <<428, 1, 22>>,
  <<429, 1, 23>>, <<430, 1, 43>>, <<431, 1, 22>>, <<432, 1, 23>>, <<433, 2, 44>>, <<435, 1, 22>>,
  <<436, 1, 23>>, <<437, 1, 22>>, <<438, 1, 23>>, <<439, 1, 45>>, <<440, 1, 22>>, <<441, 1, 23>>,
  <<444, 1, 22>>, <<445, 1, 23>>, <<447, 1, 46>>, <<452, 1, 47>>, <<453, 1, 48>>, <<454, 1, 49>>,
  <<455, 1, 47>>, <<456, 1, 48>>, <<457, 1, 49>>, <<458, 1, 47>>, <<459, 1, 48>>, <<460, 1, 49>>,
  <<461, 1, 22>>, <<462, 1, 23>>, <<463, 1, 22>>, <<464, 1, 23>>, <<465, 1, 22>>, <<466, 1, 23>>,
  <<467, 1, 22>>, <<468, 1, 23>>, <<469, 1, 22>>, <<470, 1, 23>>, <<471, 1, 22>>, <<472, 1, 23>>,
  <<473, 1, 22>>, <<474, 1, 23>>, <<475, 1, 22>>, <<476, 1, 23>>, <<477, 1, 50>>, <<478, 1, 22>>,
  <<479, 1, 23>>, <<480, 1, 22>>, <<481, 1, 23>>, <<482, 1, 22>>, <<483, 1, 23>>, <<484, 1, 22>>,
  <<485, 1, 23>>, <<486, 1, 22>>, <<487, 1, 23>>, <<488, 1, 22>>, <<489, 1, 23>>, <<490, 1, 22>>,
  <<491, 1, 23>>, <<492, 1, 22>>, <<493, 1, 23>>, <<494, 1, 22>>, <<495, 1, 23>>, <<497, 1, 47>>,
  <<498, 1, 48>>, <<499, 1, 49>>, <<500, 1, 22>>, <<501, 1, 23>>, <<502, 1, 51>>, <<503, 1, 52>>,
  <<504, 1, 22>>, <<505, 1, 23>>, <<506, 1, 22>>, <<507, 1, 23>>, <<508, 1, 22>>, <<509, 1, 23>>,
  <<510, 1, 22>>, <<511, 1, 23>>, <<512, 1, 22>>, <<513, 1, 23>>, <<514, 1, 22>>, <<515, 1, 23>>,
  <<516, 1, 22>>, <<517, 1, 23>>, <<518, 1, 22>>, <<519, 1, 23>>, <<520, 1, 22>>, <<521, 1, 23>>,
  <<522, 1, 22>>, <<523, 1, 23>>, <<524, 1, 22>>, <<525, 1, 23>>, <<526, 1, 22>>, <<527, 1, 23>>,
  <<528, 1, 22>>, <<529, 1, 23>>, <<530, 1, 22>>, <<531, 1, 23>>, <<532, 1, 22>>, <<533, 1, 23>>,
  <<534, 1, 22>>, <<535, 1, 23>>, <<536, 1, 22>>, <<537, 1, 23>>, <<538, 1, 22>>, <<539, 1, 23>>,
  <<540, 1, 22>>, <<541, 1, 23>>, <<542, 1, 22>>, <<543, 1, 23>>, <<544, 1, 53>>, <<546, 1, 22>>,
  <<547, 1, 23>>, <<548, 1, 22>>, <<549, 1, 23>>, <<550, 1, 22>>, <<551, 1, 23>>, <<552, 1, 22>>,
  <<553, 1, 23>>, <<554, 1, 22>>, <<555, 1, 23>>, <<556, 1, 22>>, <<557, 1, 23>>, <<558, 1, 22>>,
  <<559, 1, 23>>, <<560, 1, 22>>, <<561, 1, 23>>, <<562, 1, 22>>, <<563, 1, 23>>, <<570, 1, 54>>
>>

ConvChars3 == <<
  <<571, 1, 22>>, <<572, 1, 23>>, <<573, 1, 55>>, <<574, 1, 56>>, <<575, 2, 57>>, <<577, 1, 22>>,
  <<578, 1, 23>>, <<579, 1, 58>>, <<580, 1, 59>>, <<581, 1, 60>>, <<582, 1, 22>>, <<583, 1, 23>>,
  <<584, 1, 22>>, <<585, 1, 23>>, <<586, 1, 22>>, <<587, 1, 23>>, <<588, 1, 22>>, <<589, 1, 23>>,
  <<590, 1, 22>>, <<591, 1, 23>>, <<592, 1, 61>>, <<593, 1, 62>>, <<594, 1, 63>>, <<595, 1, 64>>,
  <<596, 1, 65>>, <<598, 2, 66>>, <<601, 1, 67>>, <<603, 1, 68>>, <<604, 1, 69>>, <<608, 1, 66>>,
  <<609, 1, 70>>, <<611, 1, 71>>, <<613, 1, 72>>, <<614, 1, 73>>, <<616, 1, 74>>, <<617, 1, 75>>,
  <<618, 1, 73>>, <<619, 1, 76>>, <<620, 1, 77>>, <<623, 1, 75>>, <<625, 1, 78>>, <<626, 1, 79>>,
  <<629, 1, 80>>, <<637, 1, 81>>, <<640, 1, 82>>, <<642, 1, 83>>, <<643, 1, 82>>, <<647, 1, 84>>,
  <<648, 1, 82>>, <<649, 1, 85>>, <<650, 2, 86>>, <<652, 1, 87>>, <<658, 1, 88>>, <<669, 1, 89>>,
  <<670, 1, 90>>, <<837, 1, 93>>, <<880, 1, 22>>, <<881, 1, 23>>, <<882, 1, 22>>, <<883, 1, 23>>,
  <<886, 1, 22>>, <<887, 1, 23>>, <<891, 3, 41>>, <<895, 1, 94>>, <<902, 1, 95>>, <<904, 3, 96>>,
  <<908, 1, 97>>, <<910, 2, 98>>, <<913, 17, 9>>, <<931, 9, 9>>, <<940, 1, 99>>, <<941, 3, 100>>,
  <<945, 17, 12>>, <<962, 1, 101>>, <<963, 9, 12>>, <<972, 1, 102>>, <<973, 2, 103>>, <<975, 1, 104>>,
  <<976, 1, 105>>, <<977, 1, 106>>, <<981, 1, 108>>, <<982, 1, 109>>, <<983, 1, 110>>, <<984, 1, 22>>,
  <<985, 1, 23>>, <<986, 1, 22>>, <<987, 1, 23>>, <<988, 1, 22>>, <<989, 1, 23>>, <<990, 1, 22>>,
  <<991, 1, 23>>, <<992, 1, 22>>, <<993, 1, 23>>, <<994, 1, 22>>, <<995, 1, 23>>, <<996, 1, 22>>,
  <<997, 1, 23>>, <<998, 1, 22>>, <<999, 1, 23>>, <<1000, 1, 22>>, <<1001, 1, 23>>, <<1002, 1, 22>>,
  <<1003, 1, 23>>, <<1004, 1, 22>>, <<1005, 1, 23>>, <<1006, 1, 22>>, <<1007, 1, 23>>, <<1008, 1, 111>>,
  <<1009, 1, 112>>, <<1010, 1, 113>>, <<1011, 1, 114>>, <<1012, 1, 115>>, <<1013, 1, 116>>, <<1015, 1, 22>>,
  <<1016, 1, 23>>, <<1017, 1, 117>>, <<1018, 1, 22>>, <<1019, 1, 23>>, <<1021, 3, 53>>, <<1024, 16, 118>>,
  <<1040, 32, 9>>, <<1072, 32, 12>>, <<1104, 16, 112>>, <<1120, 1, 22>>, <<1121, 1, 23>>, <<1122, 1, 22>>,
  <<1123, 1, 23>>, <<1124, 1, 22>>, <<1125, 1, 23>>, <<1126, 1, 22>>, <<1127, 1, 23>>, <<1128, 1, 22>>,
  <<1129, 1, 23>>, <<1130, 1, 22>>, <<1131, 1, 23>>, <<1132, 1, 22>>, <<1133, 1, 23>>, <<1134, 1, 22>>,
  <<1135, 1, 23>>, <<1136, 1, 22>>, <<1137, 1, 23>>, <<1138, 1, 22>>, <<1139, 1, 23>>, <<1140, 1, 22>>,
  <<1141, 1, 23>>, <<1142, 1, 22>>, <<1143, 1, 23>>, <<1144, 1, 22>>, <<1145, 1, 23>>, <<1146, 1, 22>>
>>

ConvChars4 == <<
  <<1147, 1, 23>>, <<1148, 1, 22>>, <<1149, 1, 23>>, <<1150, 1, 22>>, <<1151, 1, 23>>, <<1152, 1, 22>>,
  <<1153, 1, 23>>, <<1162, 1, 22>>, <<1163, 1, 23>>, <<1164, 1, 22>>, <<1165, 1, 23>>, <<1166, 1, 22>>,
  <<1167, 1, 23>>, <<1168, 1, 22>>, <<1169, 1, 23>>, <<1170, 1, 22>>, <<1171, 1, 23>>, <<1172, 1, 22>>,
  <<1173, 1, 23>>, <<1174, 1, 22>>, <<1175, 1, 23>>, <<1176, 1, 22>>, <<1177, 1, 23>>, <<1178, 1, 22>>,
  <<1179, 1, 23>>, <<1180, 1, 22>>, <<1181, 1, 23>>, <<1182, 1, 22>>, <<1183, 1, 23>>, <<1184, 1, 22>>,
  <<1185, 1, 23>>, <<1186, 1, 22>>, <<1187, 1, 23>>, <<1188, 1, 22>>, <<1189, 1, 23>>, <<1190, 1, 22>>,
  <<1191, 1, 23>>, <<1192, 1, 22>>, <<1193, 1, 23>>, <<1194, 1, 22>>, <<1195, 1, 23>>, <<1196, 1, 22>>,
  <<1197, 1, 23>>, <<1198, 1, 22>>, <<1199, 1, 23>>, <<1200, 1, 22>>, <<1201, 1, 23>>, <<1202, 1, 22>>,
  <<1203, 1, 23>>, <<1204, 1, 22>>, <<1205, 1, 23>>, <<1206, 1, 22>>, <<1207, 1, 23>>, <<1208, 1, 22>>,
  <<1209, 1, 23>>, <<1210, 1, 22>>, <<1211, 1, 23>>, <<1212, 1, 22>>, <<1213, 1, 23>>, <<1214, 1, 22>>,
  <<1215, 1, 23>>, <<1216, 1, 120>>, <<1217, 1, 22>>, <<1218, 1, 23>>, <<1219, 1, 22>>, <<1220, 1, 23>>,
  <<1221, 1, 22>>, <<1222, 1, 23>>, <<1223, 1, 22>>, <<1224, 1, 23>>, <<1225, 1, 22>>, <<1226, 1, 23>>,
  <<1227, 1, 22>>, <<1228, 1, 23>>, <<1229, 1, 22>>, <<1230, 1, 23>>, <<1231, 1, 121>>, <<1232, 1, 22>>,
  <<1233, 1, 23>>, <<1234, 1, 22>>, <<1235, 1, 23>>, <<1236, 1, 22>>, <<1237, 1, 23>>, <<1238, 1, 22>>,
  <<1239, 1, 23>>, <<1240, 1, 22>>, <<1241, 1, 23>>, <<1242, 1, 22>>, <<1243, 1, 23>>, <<1244, 1, 22>>,
  <<1245, 1, 23>>, <<1246, 1, 22>>, <<1247, 1, 23>>, <<1248, 1, 22>>, <<1249, 1, 23>>, <<1250, 1, 22>>,
  <<1251, 1, 23>>, <<1252, 1, 22>>, <<1253, 1, 23>>, <<1254, 1, 22>>, <<1255, 1, 23>>, <<1256, 1, 22>>,
  <<1257, 1, 23>>, <<1258, 1, 22>>, <<1259, 1, 23>>, <<1260, 1, 22>>, <<1261, 1, 23>>, <<1262, 1, 22>>,
  <<1263, 1, 23>>, <<1264, 1, 22>>, <<1265, 1, 23>>, <<1266, 1, 22>>, <<1267, 1, 23>>, <<1268, 1, 22>>,
  <<1269, 1, 23>>, <<1270, 1, 22>>, <<1271, 1, 23>>, <<1272, 1, 22>>, <<1273, 1, 23>>, <<1274, 1, 22>>,
  <<1275, 1, 23>>, <<1276, 1, 22>>, <<1277, 1, 23>>, <<1278, 1, 22>>, <<1279, 1, 23>>, <<1280, 1, 22>>,
  <<1281, 1, 23>>, <<1282, 1, 22>>, <<1283, 1, 23>>, <<1284, 1, 22>>, <<1285, 1, 23>>, <<1286, 1, 22>>,
  <<1287, 1, 23>>, <<1288, 1, 22>>, <<1289, 1, 23>>, <<1290, 1, 22>>, <<1291, 1, 23>>, <<1292, 1, 22>>,
  <<1293, 1, 23>>, <<1294, 1, 22>>, <<1295, 1, 23>>, <<1296, 1, 22>>, <<1297, 1, 23>>, <<1298, 1, 22>>,
  <<1299, 1, 23>>, <<1300, 1, 22>>, <<1301, 1, 23>>, <<1302, 1, 22>>, <<1303, 1, 23>>, <<1304, 1, 22>>
>>

ConvChars5 == <<
  <<1305, 1, 23>>, <<1306, 1, 22>>, <<1307, 1, 23>>, <<1308, 1, 22>>, <<1309, 1, 23>>, <<1310, 1, 22>>,
  <<1311, 1, 23>>, <<1312, 1, 22>>, <<1313, 1, 23>>, <<1314, 1, 22>>, <<1315, 1, 23>>, <<1316, 1, 22>>,
  <<1317, 1, 23>>, <<1318, 1, 22>>, <<1319, 1, 23>>, <<1320, 1, 22>>, <<1321, 1, 23>>, <<1322, 1, 22>>,
  <<1323, 1, 23>>, <<1324, 1, 22>>, <<1325, 1, 23>>, <<1326, 1, 22>>, <<1327, 1, 23>>, <<1329, 38, 122>>,
  <<1377, 38, 123>>, <<4256, 38, 125>>, <<4295, 1, 125>>, <<4301, 1, 125>>, <<4304, 43, 126>>, <<4349, 3, 126>>,
  <<5024, 80, 127>>, <<5104, 6, 104>>, <<5112, 6, 110>>, <<7296, 1, 129>>, <<7297, 1, 130>>, <<7298, 1, 131>>,
  <<7299, 2, 132>>, <<7301, 1, 133>>, <<7302, 1, 134>>, <<7303, 1, 135>>, <<7304, 1, 136>>, <<7312, 43, 137>>,
  <<7357, 3, 137>>, <<7545, 1, 138>>, <<7549, 1, 139>>, <<7566, 1, 140>>, <<7680, 1, 22>>, <<7681, 1, 23>>,
  <<7682, 1, 22>>, <<7683, 1, 23>>, <<7684, 1, 22>>, <<7685, 1, 23>>, <<7686, 1, 22>>, <<7687, 1, 23>>,
  <<7688, 1, 22>>, <<7689, 1, 23>>, <<7690, 1, 22>>, <<7691, 1, 23>>, <<7692, 1, 22>>, <<7693, 1, 23>>,
  <<7694, 1, 22>>, <<7695, 1, 23>>, <<7696, 1, 22>>, <<7697, 1, 23>>, <<7698, 1, 22>>, <<7699, 1, 23>>,
  <<7700, 1, 22>>, <<7701, 1, 23>>, <<7702, 1, 22>>, <<7703, 1, 23>>, <<7704, 1, 22>>, <<7705, 1, 23>>,
  <<7706, 1, 22>>, <<7707, 1, 23>>, <<7708, 1, 22>>, <<7709, 1, 23>>, <<7710, 1, 22>>, <<7711, 1, 23>>,
  <<7712, 1, 22>>, <<7713, 1, 23>>, <<7714, 1, 22>>, <<7715, 1, 23>>, <<7716, 1, 22>>, <<7717, 1, 23>>,
  <<7718, 1, 22>>, <<7719, 1, 23>>, <<7720, 1, 22>>, <<7721, 1, 23>>, <<7722, 1, 22>>, <<7723, 1, 23>>,
  <<7724, 1, 22>>, <<7725, 1, 23>>, <<7726, 1, 22>>, <<7727, 1, 23>>, <<7728, 1, 22>>, <<7729, 1, 23>>,
  <<7730, 1, 22>>, <<7731, 1, 23>>, <<7732, 1, 22>>, <<7733, 1, 23>>, <<7734, 1, 22>>, <<7735, 1, 23>>,
  <<7736, 1, 22>>, <<7737, 1, 23>>, <<7738, 1, 22>>, <<7739, 1, 23>>, <<7740, 1, 22>>, <<7741, 1, 23>>,
  <<7742, 1, 22>>, <<7743, 1, 23>>, <<7744, 1, 22>>, <<7745, 1, 23>>, <<7746, 1, 22>>, <<7747, 1, 23>>,
  <<7748, 1, 22>>, <<7749, 1, 23>>, <<7750, 1, 22>>, <<7751, 1, 23>>, <<7752, 1, 22>>, <<7753, 1, 23>>,
  <<7754, 1, 22>>, <<7755, 1, 23>>, <<7756, 1, 22>>, <<7757, 1, 23>>, <<7758, 1, 22>>, <<7759, 1, 23>>,
  <<7760, 1, 22>>, <<7761, 1, 23>>, <<7762, 1, 22>>, <<7763, 1, 23>>, <<7764, 1, 22>>, <<7765, 1, 23>>,
  <<7766, 1, 22>>, <<7767, 1, 23>>, <<7768, 1, 22>>, <<7769, 1, 23>>, <<7770, 1, 22>>, <<7771, 1, 23>>,
  <<7772, 1, 22>>, <<7773, 1, 23>>, <<7774, 1, 22>>, <<7775, 1, 23>>, <<7776, 1, 22>>, <<7777, 1, 23>>,
  <<7778, 1, 22>>, <<7779, 1, 23>>, <<7780, 1, 22>>, <<7781, 1, 23>>, <<7782, 1, 22>>, <<7783, 1, 23>>
>>

ConvChars6 == <<
  <<7784, 1, 22>>, <<7785, 1, 23>>, <<7786, 1, 22>>, <<7787, 1, 23>>, <<7788, 1, 22>>, <<7789, 1, 23>>,
  <<7790, 1, 22>>, <<7791, 1, 23>>, <<7792, 1, 22>>, <<7793, 1, 23>>, <<7794, 1, 22>>, <<7795, 1, 23>>,
  <<7796, 1, 22>>, <<7797, 1, 23>>, <<7798, 1, 22>>, <<7799, 1, 23>>, <<7800, 1, 22>>, <<7801, 1, 23>>,
  <<7802, 1, 22>>, <<7803, 1, 23>>, <<7804, 1, 22>>, <<7805, 1, 23>>, <<7806, 1, 22>>, <<7807, 1, 23>>,
  <<7808, 1, 22>>, <<7809, 1, 23>>, <<7810, 1, 22>>, <<7811, 1, 23>>, <<7812, 1, 22>>, <<7813, 1, 23>>,
  <<7814, 1, 22>>, <<7815, 1, 23>>, <<7816, 1, 22>>, <<7817, 1, 23>>, <<7818, 1, 22>>, <<7819, 1, 23>>,
  <<7820, 1, 22>>, <<7821, 1, 23>>, <<7822, 1, 22>>, <<7823, 1, 23>>, <<7824, 1, 22>>, <<7825, 1, 23>>,
  <<7826, 1, 22>>, <<7827, 1, 23>>, <<7828, 1, 22>>, <<7829, 1, 23>>, <<7835, 1, 141>>, <<7838, 1, 142>>,
  <<7840, 1, 22>>, <<7841, 1, 23>>, <<7842, 1, 22>>, <<7843, 1, 23>>, <<7844, 1, 22>>, <<7845, 1, 23>>,
  <<7846, 1, 22>>, <<7847, 1, 23>>, <<7848, 1, 22>>, <<7849, 1, 23>>, <<7850, 1, 22>>, <<7851, 1, 23>>,
  <<7852, 1, 22>>, <<7853, 1, 23>>, <<7854, 1, 22>>, <<7855, 1, 23>>, <<7856, 1, 22>>, <<7857, 1, 23>>,
  <<7858, 1, 22>>, <<7859, 1, 23>>, <<7860, 1, 22>>, <<7861, 1, 23>>, <<7862, 1, 22>>, <<7863, 1, 23>>,
  <<7864, 1, 22>>, <<7865, 1, 23>>, <<7866, 1, 22>>, <<7867, 1, 23>>, <<7868, 1, 22>>, <<7869, 1, 23>>,
  <<7870, 1, 22>>, <<7871, 1, 23>>, <<7872, 1, 22>>, <<7873, 1, 23>>, <<7874, 1, 22>>, <<7875, 1, 23>>,
  <<7876, 1, 22>>, <<7877, 1, 23>>, <<7878, 1, 22>>, <<7879, 1, 23>>, <<7880, 1, 22>>, <<7881, 1, 23>>,
  <<7882, 1, 22>>, <<7883, 1, 23>>, <<7884, 1, 22>>, <<7885, 1, 23>>, <<7886, 1, 22>>, <<7887, 1, 23>>,
  <<7888, 1, 22>>, <<7889, 1, 23>>, <<7890, 1, 22>>, <<7891, 1, 23>>, <<7892, 1, 22>>, <<7893, 1, 23>>,
  <<7894, 1, 22>>, <<7895, 1, 23>>, <<7896, 1, 22>>, <<7897, 1, 23>>, <<7898, 1, 22>>, <<7899, 1, 23>>,
  <<7900, 1, 22>>, <<7901, 1, 23>>, <<7902, 1, 22>>, <<7903, 1, 23>>, <<7904, 1, 22>>, <<7905, 1, 23>>,
  <<7906, 1, 22>>, <<7907, 1, 23>>, <<7908, 1, 22>>, <<7909, 1, 23>>, <<7910, 1, 22>>, <<7911, 1, 23>>,
  <<7912, 1, 22>>, <<7913, 1, 23>>, <<7914, 1, 22>>, <<7915, 1, 23>>, <<7916, 1, 22>>, <<7917, 1, 23>>,
  <<7918, 1, 22>>, <<7919, 1, 23>>, <<7920, 1, 22>>, <<7921, 1, 23>>, <<7922, 1, 22>>, <<7923, 1, 23>>,
  <<7924, 1, 22>>, <<7925, 1, 23>>, <<7926, 1, 22>>, <<7927, 1, 23>>, <<7928, 1, 22>>, <<7929, 1, 23>>,
  <<7930, 1, 22>>, <<7931, 1, 23>>, <<7932, 1, 22>>, <<7933, 1, 23>>, <<7934, 1, 22>>, <<7935, 1, 23>>,
  <<7936, 8, 143>>, <<7944, 8, 144>>, <<7952, 6, 143>>, <<7960, 6, 144>>, <<7968, 8, 143>>, <<7976, 8, 144>>
>>

ConvChars7 == <<
  <<7984, 8, 143>>, <<7992, 8, 144>>, <<8000, 6, 143>>, <<8008, 6, 144>>, <<8017, 1, 143>>, <<8019, 1, 143>>,
  <<8021, 1, 143>>, <<8023, 1, 143>>, <<8025, 1, 144>>, <<8027, 1, 144>>, <<8029, 1, 144>>, <<8031, 1, 144>>,
  <<8032, 8, 143>>, <<8040, 8, 144>>, <<8048, 2, 145>>, <<8050, 4, 146>>, <<8054, 2, 147>>, <<8056, 2, 148>>,
  <<8058, 2, 149>>, <<8060, 2, 150>>, <<8064, 8, 143>>, <<8072, 8, 151>>, <<8080, 8, 143>>, <<8088, 8, 151>>,
  <<8096, 8, 143>>, <<8104, 8, 151>>, <<8112, 2, 143>>, <<8115, 1, 152>>, <<8120, 2, 144>>, <<8122, 2, 153>>,
  <<8124, 1, 154>>, <<8126, 1, 155>>, <<8131, 1, 152>>, <<8136, 4, 156>>, <<8140, 1, 154>>, <<8144, 2, 143>>,
  <<8152, 2, 144>>, <<8154, 2, 157>>, <<8160, 2, 143>>, <<8165, 1, 113>>, <<8168, 2, 144>>, <<8170, 2, 158>>,
  <<8172, 1, 117>>, <<8179, 1, 152>>, <<8184, 2, 159>>, <<8186, 2, 160>>, <<8188, 1, 154>>, <<8486, 1, 163>>,
  <<8490, 1, 164>>, <<8491, 1, 165>>, <<8498, 1, 166>>, <<8526, 1, 167>>, <<8544, 16, 168>>, <<8560, 16, 169>>,
  <<8579, 1, 22>>, <<8580, 1, 23>>, <<9398, 26, 170>>, <<9424, 26, 171>>, <<11264, 47, 122>>,
  <<11312, 47, 123>>, <<11360, 1, 22>>, <<11361, 1, 23>>, <<11362, 1, 172>>, <<11363, 1, 173>>,
  <<11364, 1, 174>>, <<11365, 1, 175>>, <<11366, 1, 176>>, <<11367, 1, 22>>, <<11368, 1, 23>>, <<11369, 1, 22>>,
  <<11370, 1, 23>>, <<11371, 1, 22>>, <<11372, 1, 23>>, <<11373, 1, 177>>, <<11374, 1, 178>>, <<11375, 1, 179>>,
  <<11376, 1, 180>>, <<11378, 1, 22>>, <<11379, 1, 23>>, <<11381, 1, 22>>, <<11382, 1, 23>>, <<11390, 2, 181>>,
  <<11392, 1, 22>>, <<11393, 1, 23>>, <<11394, 1, 22>>, <<11395, 1, 23>>, <<11396, 1, 22>>, <<11397, 1, 23>>,
  <<11398, 1, 22>>, <<11399, 1, 23>>, <<11400, 1, 22>>, <<11401, 1, 23>>, <<11402, 1, 22>>, <<11403, 1, 23>>,
  <<11404, 1, 22>>, <<11405, 1, 23>>, <<11406, 1, 22>>, <<11407, 1, 23>>, <<11408, 1, 22>>, <<11409, 1, 23>>,
  <<11410, 1, 22>>, <<11411, 1, 23>>, <<11412, 1, 22>>, <<11413, 1, 23>>, <<11414, 1, 22>>, <<11415, 1, 23>>,
  <<11416, 1, 22>>, <<11417, 1, 23>>, <<11418, 1, 22>>, <<11419, 1, 23>>, <<11420, 1, 22>>, <<11421, 1, 23>>,
  <<11422, 1, 22>>, <<11423, 1, 23>>, <<11424, 1, 22>>, <<11425, 1, 23>>, <<11426, 1, 22>>, <<11427, 1, 23>>,
  <<11428, 1, 22>>, <<11429, 1, 23>>, <<11430, 1, 22>>, <<11431, 1, 23>>, <<11432, 1, 22>>, <<11433, 1, 23>>,
  <<11434, 1, 22>>, <<11435, 1, 23>>, <<11436, 1, 22>>, <<11437, 1, 23>>, <<11438, 1, 22>>, <<11439, 1, 23>>,
  <<11440, 1, 22>>, <<11441, 1, 23>>, <<11442, 1, 22>>, <<11443, 1, 23>>, <<11444, 1, 22>>, <<11445, 1, 23>>,
  <<11446, 1, 22>>, <<11447, 1, 23>>, <<11448, 1, 22>>, <<11449, 1, 23>>, <<11450, 1, 22>>, <<11451, 1, 23>>,
  <<11452, 1, 22>>, <<11453, 1, 23>>, <<11454, 1, 22>>, <<11455, 1, 23>>, <<11456, 1, 22>>, <<11457, 1, 23>>,
  <<11458, 1, 22>>, <<11459, 1, 23>>
>>

ConvChars8 == <<
  <<11460, 1, 22>>, <<11461, 1, 23>>, <<11462, 1, 22>>, <<11463, 1, 23>>, <<11464, 1, 22>>, <<11465, 1, 23>>,
  <<11466, 1, 22>>, <<11467, 1, 23>>, <<11468, 1, 22>>, <<11469, 1, 23>>, <<11470, 1, 22>>, <<11471, 1, 23>>,
  <<11472, 1, 22>>, <<11473, 1, 23>>, <<11474, 1, 22>>, <<11475, 1, 23>>, <<11476, 1, 22>>, <<11477, 1, 23>>,
  <<11478, 1, 22>>, <<11479, 1, 23>>, <<11480, 1, 22>>, <<11481, 1, 23>>, <<11482, 1, 22>>, <<11483, 1, 23>>,
  <<11484, 1, 22>>, <<11485, 1, 23>>, <<11486, 1, 22>>, <<11487, 1, 23>>, <<11488, 1, 22>>, <<11489, 1, 23>>,
  <<11490, 1, 22>>, <<11491, 1, 23>>, <<11499, 1, 22>>, <<11500, 1, 23>>, <<11501, 1, 22>>, <<11502, 1, 23>>,
  <<11506, 1, 22>>, <<11507, 1, 23>>, <<11520, 38, 182>>, <<11559, 1, 182>>, <<11565, 1, 182>>,
  <<42560, 1, 22>>, <<42561, 1, 23>>, <<42562, 1, 22>>, <<42563, 1, 23>>, <<42564, 1, 22>>, <<42565, 1, 23>>,
  <<42566, 1, 22>>, <<42567, 1, 23>>, <<42568, 1, 22>>, <<42569, 1, 23>>, <<42570, 1, 22>>, <<42571, 1, 23>>,
  <<42572, 1, 22>>, <<42573, 1, 23>>, <<42574, 1, 22>>, <<42575, 1, 23>>, <<42576, 1, 22>>, <<42577, 1, 23>>,
  <<42578, 1, 22>>, <<42579, 1, 23>>, <<42580, 1, 22>>, <<42581, 1, 23>>, <<42582, 1, 22>>, <<42583, 1, 23>>,
  <<42584, 1, 22>>, <<42585, 1, 23>>, <<42586, 1, 22>>, <<42587, 1, 23>>, <<42588, 1, 22>>, <<42589, 1, 23>>,
  <<42590, 1, 22>>, <<42591, 1, 23>>, <<42592, 1, 22>>, <<42593, 1, 23>>, <<42594, 1, 22>>, <<42595, 1, 23>>,
  <<42596, 1, 22>>, <<42597, 1, 23>>, <<42598, 1, 22>>, <<42599, 1, 23>>, <<42600, 1, 22>>, <<42601, 1, 23>>,
  <<42602, 1, 22>>, <<42603, 1, 23>>, <<42604, 1, 22>>, <<42605, 1, 23>>, <<42624, 1, 22>>, <<42625, 1, 23>>,
  <<42626, 1, 22>>, <<42627, 1, 23>>, <<42628, 1, 22>>, <<42629, 1, 23>>, <<42630, 1, 22>>, <<42631, 1, 23>>,
  <<42632, 1, 22>>, <<42633, 1, 23>>, <<42634, 1, 22>>, <<42635, 1, 23>>, <<42636, 1, 22>>, <<42637, 1, 23>>,
  <<42638, 1, 22>>, <<42639, 1, 23>>, <<42640, 1, 22>>, <<42641, 1, 23>>, <<42642, 1, 22>>, <<42643, 1, 23>>,
  <<42644, 1, 22>>, <<42645, 1, 23>>, <<42646, 1, 22>>, <<42647, 1, 23>>, <<42648, 1, 22>>, <<42649, 1, 23>>,
  <<42650, 1, 22>>, <<42651, 1, 23>>, <<42786, 1, 22>>, <<42787, 1, 23>>, <<42788, 1, 22>>, <<42789, 1, 23>>,
  <<42790, 1, 22>>, <<42791, 1, 23>>, <<42792, 1, 22>>, <<42793, 1, 23>>, <<42794, 1, 22>>, <<42795, 1, 23>>,
  <<42796, 1, 22>>, <<42797, 1, 23>>, <<42798, 1, 22>>, <<42799, 1, 23>>, <<42802, 1, 22>>, <<42803, 1, 23>>,
  <<42804, 1, 22>>, <<42805, 1, 23>>, <<42806, 1, 22>>, <<42807, 1, 23>>, <<42808, 1, 22>>, <<42809, 1, 23>>,
  <<42810, 1, 22>>, <<42811, 1, 23>>, <<42812, 1, 22>>, <<42813, 1, 23>>, <<42814, 1, 22>>, <<42815, 1, 23>>,
  <<42816, 1, 22>>, <<42817, 1, 23>>, <<42818, 1, 22>>, <<42819, 1, 23>>, <<42820, 1, 22>>, <<42821, 1, 23>>,
  <<42822, 1, 22>>
>>

ConvChars9 == <<
  <<42823, 1, 23>>, <<42824, 1, 22>>, <<42825, 1, 23>>, <<42826, 1, 22>>, <<42827, 1, 23>>, <<42828, 1, 22>>,
  <<42829, 1, 23>>, <<42830, 1, 22>>, <<42831, 1, 23>>, <<42832, 1, 22>>, <<42833, 1, 23>>, <<42834, 1, 22>>,
  <<42835, 1, 23>>, <<42836, 1, 22>>, <<42837, 1, 23>>, <<42838, 1, 22>>, <<42839, 1, 23>>, <<42840, 1, 22>>,
  <<42841, 1, 23>>, <<42842, 1, 22>>, <<42843, 1, 23>>, <<42844, 1, 22>>, <<42845, 1, 23>>, <<42846, 1, 22>>,
  <<42847, 1, 23>>, <<42848, 1, 22>>, <<42849, 1, 23>>, <<42850, 1, 22>>, <<42851, 1, 23>>, <<42852, 1, 22>>,
  <<42853, 1, 23>>, <<42854, 1, 22>>, <<42855, 1, 23>>, <<42856, 1, 22>>, <<42857, 1, 23>>, <<42858, 1, 22>>,
  <<42859, 1, 23>>, <<42860, 1, 22>>, <<42861, 1, 23>>, <<42862, 1, 22>>, <<42863, 1, 23>>, <<42873, 1, 22>>,
  <<42874, 1, 23>>, <<42875, 1, 22>>, <<42876, 1, 23>>, <<42877, 1, 183>>, <<42878, 1, 22>>, <<42879, 1, 23>>,
  <<42880, 1, 22>>, <<42881, 1, 23>>, <<42882, 1, 22>>, <<42883, 1, 23>>, <<42884, 1, 22>>, <<42885, 1, 23>>,
  <<42886, 1, 22>>, <<42887, 1, 23>>, <<42891, 1, 22>>, <<42892, 1, 23>>, <<42893, 1, 184>>, <<42896, 1, 22>>,
  <<42897, 1, 23>>, <<42898, 1, 22>>, <<42899, 1, 23>>, <<42900, 1, 185>>, <<42902, 1, 22>>, <<42903, 1, 23>>,
  <<42904, 1, 22>>, <<42905, 1, 23>>, <<42906, 1, 22>>, <<42907, 1, 23>>, <<42908, 1, 22>>, <<42909, 1, 23>>,
  <<42910, 1, 22>>, <<42911, 1, 23>>, <<42912, 1, 22>>, <<42913, 1, 23>>, <<42914, 1, 22>>, <<42915, 1, 23>>,
  <<42916, 1, 22>>, <<42917, 1, 23>>, <<42918, 1, 22>>, <<42919, 1, 23>>, <<42920, 1, 22>>, <<42921, 1, 23>>,
  <<42922, 1, 186>>, <<42923, 1, 187>>, <<42924, 1, 188>>, <<42925, 1, 189>>, <<42926, 1, 186>>,
  <<42928, 1, 190>>, <<42929, 1, 191>>, <<42930, 1, 192>>, <<42931, 1, 193>>, <<42932, 1, 22>>,
  <<42933, 1, 23>>, <<42934, 1, 22>>, <<42935, 1, 23>>, <<42936, 1, 22>>, <<42937, 1, 23>>, <<42938, 1, 22>>,
  <<42939, 1, 23>>, <<42940, 1, 22>>, <<42941, 1, 23>>, <<42942, 1, 22>>, <<42943, 1, 23>>, <<42946, 1, 22>>,
  <<42947, 1, 23>>, <<42948, 1, 194>>, <<42949, 1, 195>>, <<42950, 1, 196>>, <<43859, 1, 197>>,
  <<43888, 80, 198>>, <<65313, 26, 9>>, <<65345, 26, 12>>, <<66560, 40, 201>>, <<66600, 40, 202>>,
  <<66736, 36, 201>>, <<66776, 36, 202>>, <<68736, 51, 97>>, <<68800, 51, 102>>, <<71840, 32, 9>>,
  <<71872, 32, 12>>, <<93760, 32, 9>>, <<93792, 32, 12>>, <<125184, 34, 203>>, <<125218, 34, 204>>
>>

convchars ==
  ConvChars1 \o ConvChars2 \o ConvChars3 \o ConvChars4 \o ConvChars5
   \o ConvChars6 \o ConvChars7 \o ConvChars8 \o ConvChars9

----------------------------------------------------------------------------
(* The table spacechars. *)
spacechars == <<
  <<32, 1, 1>>, <<160, 1, 1>>, <<5760, 1, 1>>, <<8192, 11, 1>>, <<8239, 1, 1>>, <<8287, 1, 1>>, <<12288, 1, 1>>
>>

=============================================================================
