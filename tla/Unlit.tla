------------------------------- MODULE Unlit -------------------------------
(***************************************************************************)
(* The filter for literate scripts, asterius/app/unlit.c: lines that begin *)
(* with > and the lines between \begin{code} and \end{code} are copied,    *)
(* preprocessor lines too, and every other line is replaced by an empty    *)
(* one so that the numbers of the lines stay the same.                     *)
(*                                                                         *)
(* A line is represented by its kind; the input is chosen line by line.    *)
(***************************************************************************)
EXTENDS Integers, Sequences, FiniteSets

CONSTANT MaxLines   \* bound: the lines of the input

ASSUME UnlitAssumption == MaxLines \in Nat

(***************************************************************************)
(* blank, text, defn (begins with >), begin and end as such; bareHash is a *)
(* line that consists of #, hash a longer one that begins with it, shebang *)
(* begins with #!.  endMore is \end{code} with something behind it, and    *)
(* indentedEnd one with spaces in front.  long is a line of more than 999  *)
(* characters, and longEnd one whose 1000th begins \end{code}.             *)
(***************************************************************************)
LineKinds ==
  { "blank", "text", "defn", "begin", "end", "bareHash", "hash", "shebang",
    "endMore", "indentedEnd", "long", "longEnd" }

VARIABLES
  noisy, crunchnl, ignore_shebang, pragma, \* the options
  input,       \* the kinds of the lines that have been read
  output,      \* the lines that have been written: the number of an input line,
               \* 0 for an empty line, -1 for the #line pragma
  complaints,  \* the numbers and kinds of the complaints
  this, last, linesread, defnsread,
  mode, status

options == <<noisy, crunchnl, ignore_shebang, pragma>>
unlitVars == <<options, input, output, complaints, this, last, linesread, defnsread, mode, status>>

NoStatus == 2
Empty == 0

complain(lin, what) == IF noisy THEN {<<lin, what>>} ELSE {}
----------------------------------------------------------------------------
(* main up to the call of unlit, with files that can be opened.            *)
UnlitInit ==
  /\ noisy \in BOOLEAN /\ crunchnl \in BOOLEAN /\ ignore_shebang \in BOOLEAN /\ pragma \in BOOLEAN
  /\ input = <<>> /\ output = IF pragma THEN <<-1>> ELSE <<>>
  /\ complaints = {}
  /\ this = "START" /\ last = "START" /\ linesread = 0 /\ defnsread = 0
  /\ mode = "unlit" /\ status = NoStatus

ReadLine(k) == Len(input) < MaxLines /\ input' = Append(input, k)
LineNumber  == Len(input) + 1

(* A whole line of the input as readline classifies and copies it.         *)
CopiedLine(k)   == k = "defn" \/ k = "hash" \/ (k = "shebang" /\ ~ignore_shebang)
                          \/ (k = "bareHash" /\ ~ignore_shebang)
IgnoredShebang(k) == k = "shebang" /\ ignore_shebang

LineOf(k) ==
  CASE k = "defn"  -> "DEFN"
    [] k = "blank" -> "BLANK"
    [] k = "begin" -> "BEGIN"
    [] k \in {"end", "indentedEnd"} -> "END"
    [] IgnoredShebang(k) -> "SHEBANG"
    [] CopiedLine(k) /\ k # "defn" -> "HASH"
    [] OTHER -> "TEXT"

Written(k) ==
  CASE CopiedLine(k) -> <<LineNumber>>
    [] IgnoredShebang(k) -> <<Empty>>
    [] ~CopiedLine(k) /\ ~IgnoredShebang(k) -> IF crunchnl THEN <<>> ELSE <<Empty>>

\* A bug: the complaint names the line of the text, not that of the code before.
wrongNumber(prev, l, n) ==
  (IF prev = "DEFN" /\ l = "TEXT" THEN complain(n, "MISSINGBLANK") ELSE {})
    \cup (IF prev = "TEXT" /\ l = "DEFN" THEN complain(n, "MISSINGBLANK") ELSE {})
    \cup (IF l = "END" THEN complain(n, "SPURIOUSENDCODE") ELSE {})

\* What unlit complains about after a line.
Checks(prev, l, n) ==
  (IF prev = "DEFN" /\ l = "TEXT" THEN complain(n - 1, "MISSINGBLANK") ELSE {})
    \cup (IF prev = "TEXT" /\ l = "DEFN" THEN complain(n, "MISSINGBLANK") ELSE {})
    \cup (IF l = "END" THEN complain(n, "SPURIOUSENDCODE") ELSE {})

readline(k) ==
  /\ mode = "unlit" /\ ReadLine(k)
  /\ ~(k = "bareHash" /\ ignore_shebang)
  /\ last' = this /\ this' = LineOf(k)
  /\ linesread' = linesread + 1
  /\ output' = output \o Written(k)
  /\ complaints' = complaints \cup Checks(this, LineOf(k), linesread + 1)
  /\ defnsread' = defnsread + IF LineOf(k) = "DEFN" THEN 1 ELSE 0
  /\ mode' = IF LineOf(k) = "BEGIN" THEN "block" ELSE "unlit"
  /\ UNCHANGED <<options, status>>

\* The character behind # has been read to see whether it is !: when it ends the
\* line, the rest of the loop copies the line behind, whatever it is.
readBareHash(k) ==
  /\ mode = "unlit" /\ ignore_shebang
  /\ Len(input) + 1 < MaxLines /\ input' = input \o <<"bareHash", k>>
  /\ last' = this /\ this' = "HASH"
  /\ linesread' = linesread + 1
  /\ output' = output \o <<LineNumber, LineNumber + 1>>
  /\ UNCHANGED <<options, complaints, defnsread, mode, status>>

\* The same as the last line: its newline is copied and the end of the input writes
\* another one, which ends an empty line.  Without a newline a byte 255 follows the #.
readLastBareHash(newline) ==
  /\ mode = "unlit" /\ ignore_shebang /\ ReadLine("bareHash")
  /\ last' = this /\ this' = "HASH"
  /\ linesread' = linesread + 1
  /\ output' = output \o IF newline THEN <<LineNumber, Empty>> ELSE <<LineNumber>>
  /\ mode' = "eof"
  /\ UNCHANGED <<options, complaints, defnsread, status>>

(* The lines behind \begin{code}, read by fgets.                           *)

EndsBlock(k) == k \in {"end", "endMore"}

block(k) ==
  /\ mode = "block" /\ ReadLine(k)
  /\ IF EndsBlock(k)
     THEN /\ output' = Append(output, Empty)
          /\ defnsread' = defnsread + 1 /\ mode' = "unlit"
          /\ linesread' = linesread + 1
     ELSE /\ output' = Append(output, LineNumber)
          /\ linesread' = linesread + IF k \in {"long", "longEnd"} THEN 2 ELSE 1
          /\ mode' = IF k = "longEnd" THEN "unlit" ELSE "block"
          /\ defnsread' = defnsread + IF k = "longEnd" THEN 1 ELSE 0
  /\ UNCHANGED <<options, complaints, this, last, status>>

(* The end of the input.                                                   *)

endOfBlock ==
  /\ mode = "block"
  /\ complaints' = complaints \cup complain(linesread, "MISSINGENDCODE")
  /\ mode' = "done" /\ status' = 1
  /\ UNCHANGED <<options, input, output, this, last, linesread, defnsread>>

nothingRead == defnsread = 0

endOfFile ==
  /\ mode \in {"unlit", "eof"}
  /\ last' = this /\ this' = "ENDFILE"
  /\ linesread' = linesread + 1
  /\ complaints' = complaints \cup IF nothingRead THEN complain(linesread + 1, "EMPTYSCRIPT") ELSE {}
  /\ mode' = "done" /\ status' = IF complaints' = {} THEN 0 ELSE 1
  /\ UNCHANGED <<options, input, output, defnsread>>

writeerror ==
  /\ mode \in {"unlit", "block", "eof"}
  /\ mode' = "failed" /\ status' = 1
  /\ UNCHANGED <<options, input, output, complaints, this, last, linesread, defnsread>>

unlit ==
  \/ \E k \in LineKinds : readline(k) \/ readBareHash(k) \/ block(k)
  \/ \E newline \in BOOLEAN : readLastBareHash(newline)
  \/ endOfBlock \/ endOfFile \/ writeerror

UnlitSpec == UnlitInit /\ [][unlit]_unlitVars
----------------------------------------------------------------------------
(* The input as its author means it.                                       *)

\* A line that stands behind the first n lines is behind a \begin{code} that has not been ended.
Open(n) == \E j \in 1..n : input[j] = "begin" /\ \A k \in j + 1 .. n : input[k] \notin {"end", "endMore"}

Inside(i) == Open(i - 1)

IsCode(i) ==
  \/ Inside(i) /\ input[i] \notin {"end", "endMore"}
  \/ ~Inside(i) /\ (input[i] \in {"defn", "hash", "bareHash"} \/ (input[i] = "shebang" /\ ~ignore_shebang))

\* Two lines that stand side by side outside the blocks.
Beside(i, ks, ls) == ~Inside(i) /\ ~Inside(i + 1) /\ input[i] \in ks /\ input[i + 1] \in ls

Texts == {"text", "long", "longEnd", "endMore"}

\* The places where the reading of the script differs from what it looks like:
\* the line behind a # that stands alone, and a block that ends inside a line.
Mistaken == \E i \in 1..Len(input) :
  \/ input[i] = "bareHash" /\ ~Inside(i) /\ ignore_shebang
  \/ input[i] = "longEnd" /\ Inside(i)

\* A line that fgets reads in two pieces counts twice.
Miscounted == \E i \in 1..Len(input) : input[i] = "long" /\ Inside(i)

Offset == IF pragma THEN 1 ELSE 0
----------------------------------------------------------------------------
\* The counters stay within the input and the result is that of a process.
UnlitTypeOK ==
  /\ linesread <= 2 * MaxLines + 1 /\ defnsread <= Len(input)
  /\ status \in {0, 1, NoStatus} /\ (status = NoStatus <=> mode \in {"unlit", "block", "eof"})

\* The script has been read to its end, and the last line is a # that stands alone.
EndsInBareHash ==
  ignore_shebang /\ mode \notin {"unlit", "block"} /\ input # <<>> /\ input[Len(input)] = "bareHash"

\* Unless newlines are crunched, every line that is copied keeps its number, and there
\* are as many lines as before; only a # that stands alone in the last line may leave
\* an empty line behind it.
LineNumbersKept ==
  ~crunchnl => /\ Len(output) - Len(input) - Offset \in IF EndsInBareHash THEN {0, 1} ELSE {0}
               /\ \A p \in 1..Len(output) : output[p] > 0 => output[p] = p - Offset

\* All the code of the script is copied and, when nothing is mistaken, nothing else is.
CodeCopied ==
  ~Mistaken =>
    { output[p] : p \in 1..Len(output) } \ {Empty, -1} = { i \in 1..Len(input) : IsCode(i) }

\* Code never stands immediately beside text without a complaint that names the
\* line with the >, and complaints of this kind and those about an \end{code} without
\* its beginning are made nowhere else.
ComplaintsFit ==
  noisy /\ mode # "failed" /\ ~Mistaken /\ ~Miscounted =>
    /\ { c[1] : c \in { d \in complaints : d[2] = "MISSINGBLANK" } } =
         { i \in 1..Len(input) : \/ i < Len(input) /\ Beside(i, {"defn"}, Texts)
                                 \/ i > 1 /\ Beside(i - 1, Texts, {"defn"}) }
    /\ { c[1] : c \in { d \in complaints : d[2] = "SPURIOUSENDCODE" } } =
         { i \in 1..Len(input) : ~Inside(i) /\ input[i] \in {"end", "indentedEnd"} }

\* The process succeeds only for a script whose blocks are closed, and only for a
\* quiet one or one with code in it and without a complaint.
SuccessIsDeserved ==
  status = 0 /\ ~Mistaken =>
    /\ Len(input) > 0 => (Inside(Len(input)) => input[Len(input)] \in {"end", "endMore"})
                          /\ (~Inside(Len(input)) => input[Len(input)] # "begin")
    /\ noisy => \E i \in 1..Len(input) : input[i] = "defn" \/ input[i] \in {"end", "endMore"}

(* The lines of a literate script keep their numbers, all code is copied,  *)
(* code beside text is complained about, and success is deserved (unlit.c).*)
UnlitSound == UnlitTypeOK /\ LineNumbersKept /\ CodeCopied /\ ComplaintsFit /\ SuccessIsDeserved

\* "so that error messages refering to line numbers in the output file can also be used
\* to locate the corresponding line in the input stream": no line is added.
NoLineAdded == ~crunchnl => Len(output) = Len(input) + Offset

\* "BLANK and TEXT lines are replaced by empty (i.e. blank lines) in the output stream".
TextIsReplaced ==
  \A p \in 1..Len(output) :
    output[p] > 0 /\ ~Inside(output[p]) => input[output[p]] \notin Texts \cup {"blank"}

\* "don't print \n for removed lines"
RemovedLinesCrunched == crunchnl => \A p \in 1..Len(output) : output[p] # Empty
============================================================================
