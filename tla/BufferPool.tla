------------------------------ MODULE BufferPool -------------------------------
(***************************************************************************)
(* BufferPool (src/src/pigzpp/pool.h): a limited number of buffers shared  *)
(* by threads that get them, pass them on and let go of them. A buffer is  *)
(* made on demand, outside the lock, and returns to the pool when the last *)
(* reference to it goes, in whatever thread that is.                       *)
(***************************************************************************)
EXTENDS Integers, Sequences, FiniteSets, SequencesExt

CONSTANTS
  Threads,    \* the threads that use the pool
  Limits,     \* limits the pool may be given, -1 for none
  MaxHeld,    \* how many buffers a thread holds at most (bounds the model)
  Faults      \* {"alloc"} if there may be no memory for a buffer

ASSUME ThreadsAssumption == IsFiniteSet(Threads)
ASSUME LimitsAssumption ==
  Limits \subseteq Nat \cup {-1} /\ MaxHeld \in Nat /\ Faults \subseteq {"alloc"}

VARIABLES
  given,      \* the limit the pool was given
  limit,      \* limit_, how many more may be made
  free,       \* free_, the buffers in the pool
  held,       \* the buffers each thread has
  pc          \* each thread: "idle", "making" a buffer, "asleep" or "woken" in get()

vars == <<given, limit, free, held, pc>>

Init ==
  /\ given \in Limits /\ limit = given
  /\ free = <<>>
  /\ held = [t \in Threads |-> {}]
  /\ pc = [t \in Threads |-> "idle"]

-------------------------------------------------------------------------------
(* get(). *)

\* The buffer put back last is taken.
TakeFree(t) ==
  /\ free # <<>>
  /\ held' = [held EXCEPT ![t] = @ \cup {Last(free)}]
  /\ free' = Front(free)
  /\ pc' = [pc EXCEPT ![t] = "idle"]
  /\ UNCHANGED <<given, limit>>

Sleep(t) ==
  /\ limit = 0 /\ free = <<>>
  /\ pc' = [pc EXCEPT ![t] = "asleep"]
  /\ UNCHANGED <<given, limit, free, held>>

\* Mutants of Reserve: the limit is not lowered, or lowered even if there is none.
ReserveNone(t) ==
  /\ limit # 0 /\ free = <<>>
  /\ pc' = [pc EXCEPT ![t] = "making"]
  /\ UNCHANGED <<given, limit, free, held>>
ReserveAlways(t) ==
  /\ limit # 0 /\ free = <<>>
  /\ limit' = limit - 1
  /\ pc' = [pc EXCEPT ![t] = "making"]
  /\ UNCHANGED <<given, free, held>>

\* Room for one more is taken before the lock is let go of.
Reserve(t) ==
  /\ limit # 0 /\ free = <<>>
  /\ limit' = IF limit > 0 THEN limit - 1 ELSE limit
  /\ pc' = [pc EXCEPT ![t] = "making"]
  /\ UNCHANGED <<given, free, held>>

Get(t) ==
  /\ pc[t] = "idle" /\ Cardinality(held[t]) < MaxHeld
  /\ TakeFree(t) \/ Sleep(t) \/ Reserve(t)

\* The memory for a buffer, one that nobody uses.
Live == (UNION {held[t] : t \in Threads}) \cup {free[i] : i \in 1 .. Len(free)}

Make(t) ==
  /\ pc[t] = "making"
  /\ \E b \in 1 .. MaxHeld * Cardinality(Threads) :
       /\ b \notin Live /\ \A c \in 1 .. b - 1 : c \in Live
       /\ held' = [held EXCEPT ![t] = @ \cup {b}]
  /\ pc' = [pc EXCEPT ![t] = "idle"]
  /\ UNCHANGED <<given, limit, free>>

\* The exception leaves get() with the limit lowered for good.
MakeFails(t) ==
  /\ "alloc" \in Faults
  /\ pc[t] = "making"
  /\ pc' = [pc EXCEPT ![t] = "idle"]
  /\ UNCHANGED <<given, limit, free, held>>

\* The condition is tested again; a condition variable may also wake a thread
\* for no reason.
Woken(t) ==
  /\ pc[t] = "woken"
  /\ \/ TakeFree(t)
     \/ /\ free = <<>>
        /\ pc' = [pc EXCEPT ![t] = "asleep"]
        /\ UNCHANGED <<given, limit, free, held>>

Spurious(t) ==
  /\ pc[t] = "asleep"
  /\ pc' = [pc EXCEPT ![t] = "woken"]
  /\ UNCHANGED <<given, limit, free, held>>

-------------------------------------------------------------------------------
(* put_raw(), called by the last reference. *)

\* Mutant of Notify: no thread is notified unless the pool was empty.
NotifyFirst ==
  \/ free = <<>> /\ \E s \in Threads : pc[s] = "asleep" /\ pc' = [pc EXCEPT ![s] = "woken"]
  \/ (free # <<>> \/ \A s \in Threads : pc[s] # "asleep") /\ UNCHANGED pc

\* notify_one(): one of the threads that sleep, if any does.
Notify ==
  \/ \E s \in Threads : pc[s] = "asleep" /\ pc' = [pc EXCEPT ![s] = "woken"]
  \/ (\A s \in Threads : pc[s] # "asleep") /\ UNCHANGED pc

\* Mutant of LetGo: the buffer also stays where it was.
LetGoCopy(t, b) ==
  /\ free' = Append(free, b)
  /\ UNCHANGED held

LetGo(t, b) ==
  /\ free' = Append(free, b)
  /\ held' = [held EXCEPT ![t] = @ \ {b}]

Put(t) ==
  /\ pc[t] = "idle"
  /\ \E b \in held[t] : LetGo(t, b)
  /\ Notify
  /\ UNCHANGED <<given, limit>>

\* A reference is moved to another thread, as jobs are.
Pass(t, u) ==
  /\ pc[t] = "idle" /\ pc[u] = "idle" /\ u # t /\ Cardinality(held[u]) < MaxHeld
  /\ \E b \in held[t] : held' = [held EXCEPT ![t] = @ \ {b}, ![u] = @ \cup {b}]
  /\ UNCHANGED <<given, limit, free, pc>>

-------------------------------------------------------------------------------

Next ==
  \E t \in Threads :
    \/ Get(t) \/ Make(t) \/ MakeFails(t) \/ Woken(t) \/ Spurious(t) \/ Put(t)
    \/ \E u \in Threads : Pass(t, u)

Spec == Init /\ [][Next]_vars

-------------------------------------------------------------------------------

\* Every variable has the type its declaration gives it; the limit only goes
\* down, and not below zero.
TypeOK ==
  /\ given \in Limits
  /\ limit \in IF given = -1 THEN {-1} ELSE 0 .. given
  /\ free \in Seq(Nat) /\ held \in [Threads -> SUBSET Nat]
  /\ pc \in [Threads -> {"idle", "making", "asleep", "woken"}]

\* A buffer is in one place only: once in the pool or with one thread.
Exclusive ==
  /\ IsInjective(free)
  /\ \A t \in Threads : held[t] \cap ToSet(free) = {}
  /\ \A t, u \in Threads : t # u => held[t] \cap held[u] = {}

\* There are never more buffers than the pool was limited to, those counted
\* that a thread is about to make without the lock (pool.h:78-82).
WithinLimit ==
  LET making == {t \in Threads : pc[t] = "making"}
  IN given # -1 => Cardinality(Live) + Cardinality(making) <= given

\* All threads that wait in get() sleep only if there is nothing to be had: no
\* buffer is free and none may be made (pool.h:67-68, 99-100). No notification
\* is lost, whichever thread takes the buffer it stands for.
SleepsOnlyWhenOut ==
  (\E t \in Threads : pc[t] = "asleep") /\ (\A t \in Threads : pc[t] # "woken") =>
    free = <<>> /\ limit = 0
===============================================================================
