------------------------------ MODULE FdReady ------------------------------
(***************************************************************************)
(* fdReady of base/cbits/inputReady.c: wait until a descriptor can be read *)
(* or until the time is over.  There is one loop for each kind of          *)
(* descriptor (poll on POSIX; select, the console, pipes and everything    *)
(* else on Windows); all of them cut a long wait into system calls that    *)
(* can express it and read the clock between two calls.                    *)
(*                                                                         *)
(* Time is counted in ticks.  The environment lets time pass, delivers     *)
(* input, interrupts a call or makes it fail.  The number of a socket is   *)
(* within FD_SETSIZE: another one aborts the program.                      *)
(***************************************************************************)
EXTENDS Integers, Sequences

CONSTANTS
  Kinds,      \* the kinds of descriptors that are asked about
  MaxMsecs,   \* bound: the longest wait, in milliseconds; -1 is the endless one
  US, MS,     \* the ticks of a microsecond and of a millisecond
  SecMs,      \* the milliseconds of a second
  IntMax,     \* INT_MAX, which is LONG_MAX on Windows too
  INFINITE,   \* INFINITE, the wait of WaitForSingleObject that never ends
  Horizon,    \* bound: when the clock stops
  MaxInput    \* bound: how many events arrive

ASSUME UnitsAssumption ==
  /\ Kinds \subseteq {"poll", "select", "console", "default", "pipe", "disk"}
  /\ US \in Nat \ {0} /\ MS \in Nat \ {0} /\ MS % US = 0 /\ SecMs \in Nat \ {0}
  /\ IntMax \in Nat \ {0} /\ INFINITE \in Nat \ {0, 1}
  /\ MaxMsecs \in Nat /\ Horizon \in Nat \ {0} /\ MaxInput \in Nat

VARIABLES
  fdKind, msecs,  \* the arguments
  endTime, remaining, endTimeReached,
  watched,      \* is the descriptor still in the set given to select?
  fdPc, fdRet,
  wake,         \* when the call that is under way times out
  now,          \* the clock
  polled,       \* when the last call that looks at the descriptor answered
  fdInput, keys,  \* the events that can be read; how many keys have arrived
  broken        \* has a call said that the handle cannot be asked?

fdArgs == <<fdKind, msecs>>
fdOutside == <<now, fdInput, keys>>
fdLocal == <<endTime, remaining, endTimeReached, watched, wake>>
fdVars == <<fdArgs, fdOutside, fdLocal, fdPc, fdRet, polled, broken>>

Never == Horizon + 1 + MS * (INFINITE + 1)
NoResult == 2
infinite == msecs < 0
MSToTime(ms) == ms * MS
TimeToMS(t)  == t \div MS
TimeToUS(t)  == t \div US

RoundUpMS(t) == TimeToMS(t) + IF t # MSToTime(TimeToMS(t)) THEN 1 ELSE 0

compute_poll_timeout(inf, t) ==
  CASE inf                   -> -1
    [] ~inf /\ t < 0         -> 0
    [] ~inf /\ t > MSToTime(IntMax) -> IntMax
    [] OTHER                 -> RoundUpMS(t)

\* A timeval, as ticks.
compute_windows_select_timeout(inf, t) ==
  CASE inf                   -> Never
    [] ~inf /\ t < 0         -> 0
    [] ~inf /\ t > MSToTime(IntMax) -> IntMax * SecMs * MS + IntMax * US
    [] OTHER -> (TimeToMS(t) \div SecMs) * SecMs * MS
                + (TimeToUS(t) % ((SecMs * MS) \div US)) * US

compute_WaitForSingleObject_timeout(inf, t) ==
  CASE inf                   -> INFINITE
    [] ~inf /\ t < 0         -> 0
    [] ~inf /\ t >= MSToTime(INFINITE) -> INFINITE - 1
    [] OTHER                 -> RoundUpMS(t)

\* The ticks the system call sleeps unless something happens.
Sleeps ==
  CASE fdKind = "poll" -> LET ms == compute_poll_timeout(infinite, remaining)
                        IN  IF ms < 0 THEN Never ELSE MSToTime(ms)
    [] fdKind = "select" -> compute_windows_select_timeout(infinite, remaining)
    [] OTHER -> LET ms == compute_WaitForSingleObject_timeout(infinite, remaining)
                IN  IF ms = INFINITE THEN Never ELSE MSToTime(ms)
----------------------------------------------------------------------------
FdInit ==
  /\ fdKind \in Kinds /\ msecs \in -1..MaxMsecs
  /\ endTime = 0 /\ remaining = 0 /\ endTimeReached = FALSE /\ watched = TRUE /\ wake = 0
  /\ fdPc = "enter" /\ fdRet = NoResult /\ polled = 0 /\ broken = FALSE
  /\ now = 1 /\ fdInput = <<>> /\ keys = 0

(* The environment: time passes once the call has begun, and events arrive. *)
Tick ==
  /\ now < Horizon /\ fdPc \notin {"enter", "done"}
  /\ now' = now + 1
  /\ UNCHANGED <<fdArgs, fdInput, keys, fdLocal, fdPc, fdRet, polled, broken>>

Arrive(e) ==
  /\ fdPc # "done" /\ Len(fdInput) < MaxInput /\ keys < MaxInput
  /\ e = "other" => fdKind = "console"
  /\ fdInput' = Append(fdInput, e)
  /\ keys' = keys + IF e = "key" THEN 1 ELSE 0
  /\ UNCHANGED <<fdArgs, now, fdLocal, fdPc, fdRet, polled, broken>>

(* A call that looks at the descriptor answers.                            *)
FdAnswer(r) == fdPc' = "done" /\ fdRet' = r /\ polled' = now /\ UNCHANGED <<fdArgs, fdOutside, fdLocal>>
FdAgain(l)  == fdPc' = l /\ polled' = now /\ UNCHANGED <<fdArgs, now, keys, fdRet>>

enter ==
  /\ fdPc = "enter"
  /\ endTime' = IF msecs > 0 THEN now + MSToTime(msecs) ELSE 0
  /\ remaining' = MSToTime(msecs)
  /\ fdPc' = CASE fdKind = "disk" -> "disk" [] fdKind = "pipe" -> "pipe" [] OTHER -> "call"
  /\ UNCHANGED <<fdArgs, fdOutside, endTimeReached, watched, wake, fdRet, polled, broken>>

systemCall ==
  /\ fdPc = "call"
  /\ wake' = now + Sleeps
  /\ fdPc' = "asleep"
  /\ UNCHANGED <<fdArgs, fdOutside, endTime, remaining, endTimeReached, watched, fdRet, polled, broken>>

\* A bug: the difference of the two times is taken the other way round.
clockSwapped ==
  /\ fdPc = "clock"
  /\ remaining' = now - endTime
  /\ fdPc' = "call"
  /\ UNCHANGED <<fdArgs, fdOutside, endTime, endTimeReached, watched, wake, fdRet, polled, broken>>

\* A read of the clock between two calls.
clock ==
  /\ fdPc = "clock"
  /\ remaining' = IF infinite /\ fdKind # "console" THEN remaining ELSE endTime - now
  /\ fdPc' = "call"
  /\ UNCHANGED <<fdArgs, fdOutside, endTime, endTimeReached, watched, wake, fdRet, polled, broken>>

Asleep(ks) == fdPc = "asleep" /\ fdKind \in ks

(* poll and select *)
pollFailed == Asleep({"poll", "select"}) /\ FdAnswer(-1) /\ UNCHANGED broken

pollInterrupted ==
  Asleep({"poll", "select"}) /\ FdAgain("clock") /\ UNCHANGED <<fdInput, fdLocal, broken>>

pollReady ==
  Asleep({"poll", "select"}) /\ fdInput # <<>> /\ watched /\ FdAnswer(1) /\ UNCHANGED broken

waitedInFull == ~infinite /\ remaining <= MSToTime(IntMax)

pollTimedOut ==
  /\ Asleep({"poll", "select"}) /\ now >= wake
  /\ watched => fdInput = <<>>
  /\ \/ waitedInFull /\ FdAnswer(0)
     \/ /\ ~waitedInFull /\ FdAgain("clock")
        /\ watched' = (fdKind = "poll")  \* select has emptied the sets
        /\ UNCHANGED <<fdInput, endTime, remaining, endTimeReached, wake>>
  /\ UNCHANGED broken

(* WaitForSingleObject: the console and the kinds without a case of their own *)
waitFailed == Asleep({"console", "default"}) /\ FdAnswer(-1) /\ UNCHANGED broken

waitTimedOut ==
  /\ Asleep({"console", "default"}) /\ fdInput = <<>> /\ now >= wake
  /\ IF ~infinite /\ remaining < MSToTime(INFINITE)
     THEN FdAnswer(0)
     ELSE FdAgain("clock") /\ UNCHANGED <<fdInput, fdLocal>>
  /\ UNCHANGED broken

defaultSignalled == Asleep({"default"}) /\ fdInput # <<>> /\ FdAnswer(1) /\ UNCHANGED broken

consoleSignalled ==
  Asleep({"console"}) /\ fdInput # <<>> /\ FdAgain("peek") /\ UNCHANGED <<fdInput, fdLocal, broken>>

\* A console call that fails: some failures count as ready.
consoleFailed ==
  /\ fdPc \in {"peek", "discard"}
  /\ \/ FdAnswer(1) /\ broken' = TRUE
     \/ FdAnswer(-1) /\ UNCHANGED broken

ProperKey(e) == e = "key"

consolePeek ==
  /\ fdPc = "peek"
  /\ \/ fdInput = <<>> /\ FdAgain("clock") /\ UNCHANGED <<fdInput, fdLocal>>
     \/ fdInput # <<>> /\ ProperKey(Head(fdInput)) /\ FdAnswer(1)
     \/ fdInput # <<>> /\ ~ProperKey(Head(fdInput)) /\ FdAgain("discard") /\ UNCHANGED <<fdInput, fdLocal>>
  /\ UNCHANGED broken

consoleDiscard ==
  /\ fdPc = "discard"
  /\ fdInput' = Tail(fdInput)
  /\ FdAgain("peek") /\ UNCHANGED <<fdLocal, broken>>

disk == fdPc = "disk" /\ FdAnswer(1) /\ UNCHANGED broken

(* Pipes: PeekNamedPipe does not wait, so the loop naps.                   *)
pipePeek ==
  /\ fdPc = "pipe"
  /\ \/ fdInput # <<>> /\ FdAnswer(1)
     \/ fdInput = <<>> /\ ~infinite /\ (msecs = 0 \/ endTimeReached) /\ FdAnswer(0)
     \/ fdInput = <<>> /\ infinite /\ FdAgain("nap") /\ wake' = now + MSToTime(1)
        /\ UNCHANGED <<fdInput, endTime, remaining, endTimeReached, watched>>
     \/ /\ fdInput = <<>> /\ msecs > 0 /\ ~endTimeReached
        /\ FdAgain("pipeClock") /\ UNCHANGED <<fdInput, fdLocal>>
  /\ UNCHANGED broken

pipeFailed ==
  /\ fdPc = "pipe"
  /\ \/ FdAnswer(1)                                                  \* ERROR_BROKEN_PIPE
     \/ FdAnswer(-1)
     \/ FdAgain("pipe") /\ UNCHANGED <<fdInput, fdLocal>>  \* ERROR_INVALID_HANDLE, _FUNCTION
  /\ broken' = TRUE

pipeClock ==
  /\ fdPc = "pipeClock"
  /\ endTimeReached' = (now >= endTime)
  /\ wake' = now + MSToTime(1)
  /\ fdPc' = "nap"
  /\ UNCHANGED <<fdArgs, fdOutside, endTime, remaining, watched, fdRet, polled, broken>>

pipeNap ==
  /\ fdPc = "nap" /\ now >= wake
  /\ fdPc' = "pipe"
  /\ UNCHANGED <<fdArgs, fdOutside, fdLocal, fdRet, polled, broken>>

Returns ==
  pollReady \/ pollTimedOut \/ waitTimedOut \/ defaultSignalled \/ consoleSignalled

fdReady ==
  \/ enter \/ systemCall \/ clock \/ Returns
  \/ pollFailed \/ pollInterrupted \/ waitFailed
  \/ consoleFailed \/ consolePeek \/ consoleDiscard
  \/ disk \/ pipePeek \/ pipeFailed \/ pipeClock \/ pipeNap

FdNext == Tick \/ (\E e \in {"key", "other"} : Arrive(e)) \/ fdReady

FdSpec == FdInit /\ [][FdNext]_fdVars
----------------------------------------------------------------------------
\* The arguments stay in their sets, the clock within its bound, and a result is one of three.
FdTypeOK ==
  /\ fdKind \in Kinds /\ msecs \in -1..MaxMsecs /\ now \in 1..Horizon /\ polled \in 0..now
  /\ fdRet \in {-1, 0, 1, NoResult} /\ (fdRet = NoResult <=> fdPc # "done")
  /\ keys \in 0..MaxInput /\ Len(fdInput) <= MaxInput
  /\ remaining <= MSToTime(msecs) \/ infinite

\* select is given whole microseconds, so it may answer less than one early.
Slack == IF fdKind = "select" THEN US - 1 ELSE 0

\* The answer "not ready" is never given before a call that looked at the
\* descriptor returned with the whole time over, and never for an infinite wait
\* (Note [Guaranteed syscall time spent]).
FullWait == fdRet = 0 => ~infinite /\ (msecs > 0 => polled + Slack >= endTime)

\* A wait that select can only make in pieces: the first one that times out has
\* emptied the sets, and the later ones look at nothing.
InPieces == fdKind = "select" /\ msecs > IntMax

\* "Not ready" means that no key had arrived when the last call answered: none was
\* thrown away with the console events that are discarded, and none was overlooked
\* but by a select that waits in pieces.
NothingMissed ==
  /\ fdRet = 0 /\ watched => keys = 0
  /\ ~watched => InPieces

\* "Ready" means that the next read returns at once: a key is next, or the
\* descriptor is a disk file or one the system calls refuse.
ReadyMeansReady ==
  fdRet = 1 => fdKind = "disk" \/ broken \/ (fdInput # <<>> /\ Head(fdInput) = "key")

(* "Not ready" is answered only when the whole time is over and no key has *)
(* been missed but by a select past INT_MAX, "ready" only when a read      *)
(* returns at once (inputReady.c).                                         *)
FdSound == FdTypeOK /\ FullWait /\ NothingMissed /\ ReadyMeansReady

\* Note [Guaranteed syscall time spent], without the slack of select.
SyscallSpansEndTime == fdRet = 0 /\ msecs > 0 => polled >= endTime

\* A finite wait never becomes the wait without an end of WaitForSingleObject.
NeverWaitsForever == fdPc = "asleep" /\ ~infinite => wake < Never

\* A pipe that cannot be peeked at is waited for as the other kinds are.
PeekFailureFallsThrough == [][fdPc = "pipe" /\ fdPc' = "pipe" => broken' = broken]_fdVars

\* As long as the call waits it looks at the descriptor.
WatchesWhileItWaits == fdPc = "asleep" => watched

\* "FD has no new data and [we waited the full msecs]"
NoNewData == fdRet = 0 => keys = 0
============================================================================
