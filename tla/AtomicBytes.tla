----------------------------- MODULE AtomicBytes ------------------------------
(***************************************************************************)
(* The atomic operations on byte arrays of ghc-prim's atomic.c.  Each of   *)
(* its functions exists for four word sizes; here the size is an argument, *)
(* a number of bytes, and a byte has ByteBits bits.  A call casts its      *)
(* argument to the size.  Most functions are one compiler builtin; nand    *)
(* and write are loops around a compare-and-swap where the compiler has no *)
(* such builtin, and other threads run between their read and their swap.  *)
(***************************************************************************)
EXTENDS Integers, FiniteSetsExt

CONSTANTS Threads,
          NumBytes,   \* of the array
          ByteBits,
          Calls,      \* the calls threads make
          Budget,     \* bound: how many calls a thread makes
          USE_SYNC_FETCH_AND_NAND,   \* nand is a builtin
          HAVE_C11_ATOMICS           \* write is a builtin

ASSUME BudgetAssumption == Budget \in Nat
ASSUME FlagsAssumption == USE_SYNC_FETCH_AND_NAND \in BOOLEAN /\ HAVE_C11_ATOMICS \in BOOLEAN

VARIABLES mem,     \* the byte array
          pc,      \* "idle", "called", "swap" (the loop has read tmp) or "done"
          call,    \* the thread's call
          tmp,     \* the word the loop has read
          res,     \* what the call returns
          budget   \* the calls a thread may still make

vars == <<mem, pc, call, tmp, res, budget>>

----------------------------------------------------------------------------
(* Words of n bytes, little end first. *)
Base(n) == 2 ^ (ByteBits * n)

Cast(val, n) == val % Base(n)

BitsOf(w, n) == {i \in 0 .. ByteBits * n - 1 : (w \div 2^i) % 2 = 1}

Word(bits) == FoldSet(LAMBDA i, w : w + 2^i, 0, bits)

\* The bytes of the word that a call c is about.
BytesOf(c) == c.x .. c.x + c.size - 1

Load(c, m) == FoldSet(LAMBDA a, w : w + m[a] * Base(a - c.x), 0, BytesOf(c))

Store(c, m, w) ==
  [a \in DOMAIN m |-> IF a \in BytesOf(c) THEN (w \div Base(a - c.x)) % Base(1) ELSE m[a]]

(* What each function puts in the place of the word old. *)
add(old, val, n)  == Cast(old + val, n)
sub(old, val, n)  == Cast(old - val, n)
and(old, val, n)  == Word(BitsOf(old, n) \cap BitsOf(val, n))
nand(old, val, n) == Word((0 .. ByteBits * n - 1) \ (BitsOf(old, n) \cap BitsOf(val, n)))
or(old, val, n)   == Word(BitsOf(old, n) \cup BitsOf(val, n))
xor(old, val, n)  == Word((BitsOf(old, n) \cup BitsOf(val, n)) \ (BitsOf(old, n) \cap BitsOf(val, n)))
cmpxchg(old, expected, new) == IF old = expected THEN new ELSE old
atomicread(old)   == old
atomicwrite(val)  == val

NewWord(c, old) ==
  LET val == Cast(c.val, c.size)
  IN  CASE c.f = "add"     -> add(old, val, c.size)
        [] c.f = "sub"     -> sub(old, val, c.size)
        [] c.f = "and"     -> and(old, val, c.size)
        [] c.f = "nand"    -> nand(old, val, c.size)
        [] c.f = "or"      -> or(old, val, c.size)
        [] c.f = "xor"     -> xor(old, val, c.size)
        [] c.f = "cmpxchg" -> cmpxchg(old, Cast(c.expected, c.size), val)
        [] c.f = "read"    -> atomicread(old)
        [] OTHER           -> atomicwrite(val)

NewMem(c, m) == Store(c, m, NewWord(c, Load(c, m)))

\* The write functions return nothing.
Result(c, old) == IF c.f = "write" THEN 0 ELSE old

Answer(c, m) == Result(c, Load(c, m))

\* CAS_NAND and the fallback of the write functions.
IsLoop(f) == (f = "nand" /\ ~USE_SYNC_FETCH_AND_NAND) \/ (f = "write" /\ ~HAVE_C11_ATOMICS)

----------------------------------------------------------------------------
Memories == [0 .. NumBytes - 1 -> 0 .. Base(1) - 1]

Init ==
  /\ mem \in Memories
  /\ pc = [t \in Threads |-> "idle"]
  /\ call = [t \in Threads |-> CHOOSE c \in Calls : TRUE]
  /\ tmp = [t \in Threads |-> 0]
  /\ res = [t \in Threads |-> 0]
  /\ budget = [t \in Threads |-> Budget]

Call(t, c) ==
  /\ pc[t] = "idle" /\ budget[t] > 0
  /\ pc' = [pc EXCEPT ![t] = "called"]
  /\ call' = [call EXCEPT ![t] = c]
  /\ budget' = [budget EXCEPT ![t] = @ - 1]
  /\ UNCHANGED <<mem, tmp, res>>

Builtin(t) ==
  /\ pc[t] = "called" /\ ~IsLoop(call[t].f)
  /\ mem' = NewMem(call[t], mem)
  /\ res' = [res EXCEPT ![t] = Answer(call[t], mem)]
  /\ pc' = [pc EXCEPT ![t] = "done"]
  /\ UNCHANGED <<call, tmp, budget>>

(* The loop reads the word. *)
ReadTmp(t) ==
  /\ pc[t] = "called" /\ IsLoop(call[t].f)
  /\ tmp' = [tmp EXCEPT ![t] = Load(call[t], mem)]
  /\ pc' = [pc EXCEPT ![t] = "swap"]
  /\ UNCHANGED <<mem, call, res, budget>>

\* A bug: the new word is stored without comparing.
SwapBlindly(t) ==
  /\ pc[t] = "swap"
  /\ mem' = Store(call[t], mem, NewWord(call[t], tmp[t]))
  /\ res' = [res EXCEPT ![t] = Result(call[t], tmp[t])]
  /\ pc' = [pc EXCEPT ![t] = "done"]
  /\ UNCHANGED <<call, tmp, budget>>

(* Compare and swap with the word that was read, found unchanged. *)
Swap(t) ==
  /\ pc[t] = "swap" /\ Load(call[t], mem) = tmp[t]
  /\ mem' = Store(call[t], mem, NewWord(call[t], tmp[t]))
  /\ res' = [res EXCEPT ![t] = Result(call[t], tmp[t])]
  /\ pc' = [pc EXCEPT ![t] = "done"]
  /\ UNCHANGED <<call, tmp, budget>>

(* Compare and swap fails: the loop reads again. *)
SwapFails(t) ==
  /\ pc[t] = "swap" /\ Load(call[t], mem) # tmp[t]
  /\ pc' = [pc EXCEPT ![t] = "called"]
  /\ UNCHANGED <<mem, call, tmp, res, budget>>

Return(t) ==
  /\ pc[t] = "done"
  /\ pc' = [pc EXCEPT ![t] = "idle"]
  /\ UNCHANGED <<mem, call, tmp, res, budget>>

Step(t) == Builtin(t) \/ ReadTmp(t) \/ Swap(t) \/ SwapFails(t) \/ Return(t)

Next == \E t \in Threads : Step(t) \/ \E c \in Calls : Call(t, c)

Spec == Init /\ [][Next]_vars

----------------------------------------------------------------------------
(* A call whose loop is about to swap has not been performed yet. *)
stage == [t \in Threads |-> IF pc[t] = "swap" THEN "called" ELSE pc[t]]

Atomic == INSTANCE AtomicObject

(* Every function is atomic, the loops around compare-and-swap included:   *)
(* a call takes effect in one step and returns the word it replaced        *)
(* (atomic.c:149-156, 374-422).                                            *)
ImplementsAtomicObject == Atomic!Spec

(* A call changes no byte but those of its word, whatever its argument     *)
(* (atomic.c:15-422: the casts of the address and of the argument).        *)
NeighboursKept ==
  [][\A a \in DOMAIN mem : mem'[a] # mem[a] =>
       \E t \in Threads : pc[t] # "done" /\ pc'[t] = "done" /\ a \in BytesOf(call[t])]_vars
=============================================================================
