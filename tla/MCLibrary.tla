------------------------------ MODULE MCLibrary ------------------------------
(***************************************************************************)
(* The C and JavaScript helpers below the runtime and the libraries, side  *)
(* by side: the thread queues of the scheduler's header, atomic operations *)
(* on byte arrays, barriers and locks, character tables, the wait for a    *)
(* descriptor, decoders, the filter for literate scripts, the printing and *)
(* rounding of numbers, and the macros of block sizes.  None of them calls *)
(* another.  A behaviour is one of one part, chosen in the beginning; the  *)
(* variables of the others stay as they are.                               *)
(***************************************************************************)
EXTENDS RunQueue, AtomicBytes, BlockSearch, Unicode, FdReady, TextDecode, JsonString, Unlit

VARIABLES
  part,
  platform, scenario, barMem, performed, reg,                            \* Barriers
  fltKind, x, y, rounded,                                                \* PrimFloat
  printer, number, rest, buffer, buf, ptr, next_free, printing,          \* Decimal
  bigEndian, ctx, given,                                                 \* Md5
  op, args, word, mask, bit, offset, result64, bitsPc                    \* Bits

barrierVars == <<platform, scenario, barMem, performed, reg>>
floatVars   == <<fltKind, x, y, rounded>>
decimalVars == <<printer, number, rest, buffer, buf, ptr, next_free, printing>>
md5Vars     == <<bigEndian, ctx, given>>
bitsVars    == <<op, args, word, mask, bit, offset, result64, bitsPc>>

libraryVars ==
  <<part, queuesVars, vars, searchVars, charVars, barrierVars, fdVars, textVars, jsonVars,
    unlitVars, floatVars, decimalVars, md5Vars, bitsVars>>

Parts == {"queues", "atomics", "search", "characters", "barriers", "wait", "text", "json",
          "unlit", "float", "decimal", "md5", "bits", "deposit", "layout"}
----------------------------------------------------------------------------
\* Without the pieces of code in which a comment's promise is broken.
MCCases ==
  ({"x86", "sparc", "powerpc", "nonthreaded"} \X {"update", "closure_lock", "spin_lock", "store_load"})
    \cup ({"arm"} \X {"update", "store_load"})

\* Calls on words of one and two bytes, which overlap.
MCCalls ==
  [f : {"nand", "write"}, size : {1, 2}, x : {0}, val : {3}]
    \cup [f : {"add"}, size : {2}, x : {0}, val : {3}]
    \cup [f : {"sub", "read"}, size : {1}, x : {1}, val : {1}]
    \cup [f : {"cmpxchg"}, size : {1}, x : {0}, val : {2}, expected : {5}]

S  == INSTANCE Barriers WITH Cases <- MCCases, mem <- barMem, done <- performed
F  == INSTANCE PrimFloat WITH
        ExpBits <- 4, FltBits <- 4, High <- 2, Low <- 4, Kinds <- {"float", "double"}, kind <- fltKind
D  == INSTANCE Decimal WITH
        IntBits <- 8, LongBits <- 10, Pad9 <- 2, Pad18 <- 3, PadBits <- 7,
        x <- rest, mem <- buffer, pc <- printing
M  == INSTANCE Md5 WITH WordBytes <- 2, ByteBits <- 3, BlockWords <- 4, MaxMessage <- 75
\* Functions of one word, on bytes of eight bits, and of two, on bytes of one.
B  == INSTANCE Bits WITH
        ByteBits <- 8, src <- word, result <- result64, pc <- bitsPc,
        Ops <- {"bswap16", "bswap32", "bswap64", "clz8", "clz16", "clz32", "clz64",
                "ctz8", "ctz16", "ctz32", "ctz64", "ctz64_halves",
                "popcnt8", "popcnt16", "popcnt32", "popcnt64", "popcnt"}
P  == INSTANCE Bits WITH
        ByteBits <- 1, src <- word, result <- result64, pc <- bitsPc,
        Ops <- {"pdep64", "pext16"}

L  == INSTANCE BlockLayout WITH
        BLOCK_SHIFT <- 4, MBLOCK_SHIFT <- 6, BDESCR_SHIFT <- 1, W <- 2, MaxWord <- 1024

ASSUME LibraryAssumption ==
  /\ F!WidthsAssumption /\ D!WidthsAssumption /\ M!SizesAssumption
  /\ B!BitsAssumption /\ P!BitsAssumption /\ L!ShiftsAssumption
----------------------------------------------------------------------------
None == "none"

LibraryInit ==
  /\ part \in Parts
  /\ QueuesInit
  /\ IF part = "atomics" THEN TRUE ELSE mem = [i \in 0 .. NumBytes - 1 |-> 0]
  /\ Init
  /\ IF part = "search" THEN TRUE ELSE _first = [i \in Blocks |-> i] /\ _last = _first /\ key = 0
  /\ SearchInit
  /\ IF part = "characters" THEN TRUE ELSE row = 1
  /\ CharInit
  /\ IF part = "barriers" THEN S!Init
     ELSE platform = None /\ scenario = None /\ barMem = None /\ performed = None /\ reg = None
  /\ IF part = "wait" THEN TRUE ELSE fdKind = "poll" /\ msecs = 0
  /\ FdInit
  /\ IF part = "text" THEN TRUE ELSE host = "other"
  /\ TextInit /\ JsonInit
  /\ IF part = "unlit" THEN TRUE ELSE noisy = FALSE /\ crunchnl = FALSE /\ ignore_shebang = FALSE /\ pragma = FALSE
  /\ UnlitInit
  /\ IF part = "float" THEN F!Init ELSE fltKind = None /\ x = F!Zero /\ y = F!Zero /\ rounded = FALSE
  /\ IF part = "decimal" THEN D!Init
     ELSE /\ printer = None /\ number = 0 /\ rest = 0 /\ buffer = None /\ buf = 0 /\ ptr = 0
          /\ next_free = 0 /\ printing = None
  /\ IF part = "md5" THEN TRUE ELSE bigEndian = FALSE
  /\ M!Init
  /\ CASE part = "bits" -> B!Init
       [] part = "deposit" -> P!Init
       [] OTHER -> /\ op = None /\ args = None /\ word = {} /\ mask = {} /\ bit = 0 /\ offset = 0
                   /\ result64 = {} /\ bitsPc = None

\* The variables of every part but p stay as they are.
Others(p) ==
  /\ UNCHANGED part
  /\ IF p = "queues" THEN TRUE ELSE UNCHANGED queuesVars
  /\ IF p = "atomics" THEN TRUE ELSE UNCHANGED vars
  /\ IF p = "search" THEN TRUE ELSE UNCHANGED searchVars
  /\ IF p = "characters" THEN TRUE ELSE UNCHANGED charVars
  /\ IF p = "barriers" THEN TRUE ELSE UNCHANGED barrierVars
  /\ IF p = "wait" THEN TRUE ELSE UNCHANGED fdVars
  /\ IF p = "text" THEN TRUE ELSE UNCHANGED textVars
  /\ IF p = "json" THEN TRUE ELSE UNCHANGED jsonVars
  /\ IF p = "unlit" THEN TRUE ELSE UNCHANGED unlitVars
  /\ IF p = "float" THEN TRUE ELSE UNCHANGED floatVars
  /\ IF p = "decimal" THEN TRUE ELSE UNCHANGED decimalVars
  /\ IF p = "md5" THEN TRUE ELSE UNCHANGED md5Vars
  /\ IF p \in {"bits", "deposit", "layout"} THEN TRUE ELSE UNCHANGED bitsVars

LibraryNext ==
  \/ part = "queues" /\ QueuesNext /\ Others("queues")
  \/ part = "atomics" /\ Next /\ Others("atomics")
  \/ part = "search" /\ _bbsearch /\ Others("search")
  \/ part = "characters" /\ CharNext /\ Others("characters")
  \/ part = "barriers" /\ S!Next /\ Others("barriers")
  \/ part = "wait" /\ FdNext /\ Others("wait")
  \/ part = "text" /\ TextNext /\ Others("text")
  \/ part = "json" /\ _js_decode_string /\ Others("json")
  \/ part = "unlit" /\ unlit /\ Others("unlit")
  \/ part = "float" /\ F!rint /\ Others("float")
  \/ part = "decimal" /\ D!Next /\ Others("decimal")
  \/ part = "md5" /\ M!Next /\ Others("md5")
  \/ part = "bits" /\ B!Next /\ Others("bits")
  \/ part = "deposit" /\ P!Next /\ Others("deposit")

LibrarySpec == LibraryInit /\ [][LibraryNext]_libraryVars
----------------------------------------------------------------------------
(* The search finds exactly the row a character is in, the predicates and  *)
(* conversions, which go through other tables, answer what that row says,  *)
(* converting twice is converting once, and the masks of the JavaScript    *)
(* code mean the categories of the C code (WCsubst.c:5006-5091,            *)
(* rts.unicode.mjs:44-74).                                                 *)
UnicodeSound ==
  part = "characters" =>
    /\ SearchFindsTheRow /\ PredicatesFollowCategory /\ ConversionsFollowRule
    /\ ConversionsSettle /\ MasksAgreeWithNumbers

(* Whatever a core reorders: who finds a black hole finds a complete value *)
(* behind it, one thread at a time is inside a lock and sees what earlier  *)
(* holders wrote, of two threads with a store_load_barrier one sees the    *)
(* other, and nobody is stuck (SMP.h, SMPClosureOps.h, SpinLock.h,         *)
(* Updates.h).                                                             *)
BarriersSound ==
  part = "barriers" =>
    S!ObserversSafe /\ S!OneInside /\ S!SectionsIsolated /\ S!StoreLoadSeparates /\ S!NobodyIsStuck

(* However a stream of UTF-8 is cut, what has been decoded encodes to what *)
(* was read, and the decoder stops where well-formed text ends; and JSON   *)
(* strings are decoded to what they mean by the grammar or refused         *)
(* (text_cbits.c, unescape_string.c).                                      *)
TextSound ==
  /\ part = "text" =>
       /\ TextTypeOK /\ RoundTrip /\ PairsOnly /\ StopsAtFirstIllFormed
       /\ ReturnsEndOfCharacters /\ CuttingDoesNotMatter
  /\ part = "json" => JsonTypeOK /\ AcceptedIsMeant /\ RefusedIsMeaningless /\ JsonPairsOnly /\ InStep

(* Rounding on the fields of the representation is rounding to the nearest *)
(* integer, ties to even; printed digits stand for the number and stay in  *)
(* the buffer; a digest is that of the padded message however it is cut;   *)
(* bit functions do within their width what they say of sets of bits; and  *)
(* blocks, descriptors and groups have the sizes and places that macros    *)
(* say (primFloat.c, itoa.c, md5.c, bswap.c, clz.c, ctz.c, popcnt.c,       *)
(* pdep.c, pext.c, Block.h).                                               *)
NumbersSound ==
  /\ part = "float" => F!TypeOK /\ F!PredicatesFit /\ F!NearestEven /\ F!OtherFormatsAgree
  /\ part = "decimal" => D!TypeOK /\ D!StaysInBuffer /\ D!PrintsTheNumber
  /\ part = "md5" => M!TypeOK /\ M!CuttingDoesNotMatter /\ M!DigestOfPadded
  /\ part = "bits" => B!BytesReversed /\ B!ZerosCounted /\ B!OnesCounted
  /\ part = "deposit" => P!Deposited /\ P!Extracted /\ P!InStep
  /\ part = "layout" => L!LayoutSound
=============================================================================
