---------------------------- MODULE BufferPoolProofs ----------------------------
(***************************************************************************)
(* That the pool hands a buffer to one thread at a time, keeps its limit   *)
(* and loses no notification, for any number of threads and any limit.     *)
(*                                                                         *)
(* For the limit the invariant counts together the buffers there are,      *)
(* those being made without the lock and those that may still be made. For *)
(* the notifications it counts: while a thread sleeps, there are at least  *)
(* as many threads woken as there are buffers, so that with the last one   *)
(* of them the last buffer has been taken.                                 *)
(***************************************************************************)
EXTENDS BufferPool, FiniteSetTheorems, TLAPS

WithThreads(state) == {t \in Threads : pc[t] = state}

\* The buffers, those being made and those that may be made do not exceed the limit.
Counted ==
  /\ IsFiniteSet(Live)
  /\ given # -1 => Cardinality(Live) + Cardinality(WithThreads("making")) + limit <= given

\* Threads wait only when the limit is used up, and while one sleeps every buffer
\* in the pool has a thread that was woken for it.
Waiting ==
  /\ (\E t \in Threads : pc[t] \in {"asleep", "woken"}) => limit = 0
  /\ (\E t \in Threads : pc[t] = "asleep") => Len(free) <= Cardinality(WithThreads("woken"))

PoolInv == TypeOK /\ Exclusive /\ Counted /\ Waiting

-------------------------------------------------------------------------------
(* Sequences. *)

\* What is left when the last buffer of the free list is taken (pool.h:72-75).
LEMMA FrontOfFree ==
  ASSUME NEW s \in Seq(Nat), s # <<>>, IsInjective(s)
  PROVE  /\ Front(s) \in Seq(Nat) /\ Last(s) \in Nat /\ Len(Front(s)) = Len(s) - 1
         /\ IsInjective(Front(s))
         /\ ToSet(s) = ToSet(Front(s)) \cup {Last(s)} /\ Last(s) \notin ToSet(Front(s))
  <1>1. Len(s) \in Nat /\ Len(s) > 0 /\ DOMAIN s = 1 .. Len(s)
    OBVIOUS
  <1>2. Front(s) \in Seq(Nat) /\ Len(Front(s)) = Len(s) - 1
        /\ \A i \in 1 .. Len(s) - 1 : Front(s)[i] = s[i]
    BY <1>1 DEF Front
  <1>3. DOMAIN Front(s) = 1 .. Len(s) - 1
    BY <1>1, <1>2
  <1>4. Last(s) \in Nat
    BY <1>1 DEF Last
  <1>5. IsInjective(Front(s))
    <2> SUFFICES ASSUME NEW i \in 1 .. Len(s) - 1, NEW j \in 1 .. Len(s) - 1, s[i] = s[j]
                 PROVE  i = j
      BY <1>2, <1>3 DEF IsInjective
    <2> QED BY SMTT(30), <1>1 DEF IsInjective
  <1>6. ToSet(s) = ToSet(Front(s)) \cup {Last(s)}
    <2>1. 1 .. Len(s) = (1 .. Len(s) - 1) \cup {Len(s)}
      BY <1>1
    <2> QED BY <1>1, <1>2, <1>3, <2>1 DEF ToSet, Last
  <1>7. Last(s) \notin ToSet(Front(s))
    BY SMTT(30), <1>1, <1>2, <1>3 DEF ToSet, Last, IsInjective
  <1> QED BY <1>2, <1>4, <1>5, <1>6, <1>7

\* What a buffer does to the free list that is put there (pool.h:99).
LEMMA AppendToFree ==
  ASSUME NEW s \in Seq(Nat), NEW b \in Nat, b \notin ToSet(s), IsInjective(s)
  PROVE  /\ Append(s, b) \in Seq(Nat) /\ Len(Append(s, b)) = Len(s) + 1
         /\ IsInjective(Append(s, b)) /\ ToSet(Append(s, b)) = ToSet(s) \cup {b}
  <1>1. Len(s) \in Nat /\ DOMAIN s = 1 .. Len(s) /\ DOMAIN Append(s, b) = 1 .. Len(s) + 1
    OBVIOUS
  <1>2. (\A i \in 1 .. Len(s) : Append(s, b)[i] = s[i]) /\ Append(s, b)[Len(s) + 1] = b
    OBVIOUS
  <1>3. \A i \in 1 .. Len(s) : s[i] # b
    BY <1>1 DEF ToSet
  <1>4. IsInjective(Append(s, b))
    BY <1>1, <1>2, <1>3 DEF IsInjective
  <1>5. 1 .. Len(s) + 1 = (1 .. Len(s)) \cup {Len(s) + 1}
    BY <1>1
  <1>6. ToSet(Append(s, b)) = ToSet(s) \cup {b}
    BY <1>1, <1>2, <1>5 DEF ToSet
  <1> QED BY <1>1, <1>4, <1>6

\* The buffers there are: those of the threads and those in the pool.
LEMMA WhereBuffersAre ==
  ASSUME TypeOK
  PROVE  \A b : b \in Live <=> (\E t \in Threads : b \in held[t]) \/ b \in ToSet(free)
  <1>1. DOMAIN free = 1 .. Len(free)
    BY DEF TypeOK
  <1> QED BY <1>1 DEF Live, ToSet

LEMMA WhereBuffersWillBe ==
  ASSUME TypeOK'
  PROVE  \A b : b \in Live' <=> (\E t \in Threads : b \in held'[t]) \/ b \in ToSet(free')
  <1>1. DOMAIN free' = 1 .. Len(free')
    BY DEF TypeOK
  <1> QED BY <1>1 DEF Live, ToSet

-------------------------------------------------------------------------------
(* What the threads are doing. *)

\* There are finitely many of them, and none is counted twice.
LEMMA ThreadsCount ==
  ASSUME NEW state
  PROVE  IsFiniteSet(WithThreads(state)) /\ Cardinality(WithThreads(state)) \in Nat
  <1>1. WithThreads(state) \in SUBSET Threads
    BY DEF WithThreads
  <1>2. IsFiniteSet(WithThreads(state))
    BY <1>1, ThreadsAssumption, FS_Subset
  <1> QED BY <1>2, FS_CardinalityType

\* A thread that goes on from one state to another leaves one count and joins the other.
LEMMA ThreadMoves ==
  ASSUME TypeOK, NEW t \in Threads, NEW to, pc' = [pc EXCEPT ![t] = to], NEW state
  PROVE  /\ state = to =>
              WithThreads(state)' = WithThreads(state) \cup {t}
         /\ state # to =>
              WithThreads(state)' = WithThreads(state) \ {t}
  BY DEF WithThreads, TypeOK

-------------------------------------------------------------------------------
(* One step. *)

\* A step is one of get(), Make, put_raw() and so on, by one thread.
LEMMA Steps ==
  ASSUME [Next]_vars
  PROVE  \/ \E t \in Threads :
              \/ TakeFree(t) /\ pc[t] \in {"idle", "woken"}
              \/ Sleep(t) /\ pc[t] = "idle"
              \/ Reserve(t) /\ pc[t] = "idle"
              \/ Make(t) \/ MakeFails(t)
              \/ Woken(t) /\ ~TakeFree(t)
              \/ Spurious(t) \/ Put(t)
              \/ \E u \in Threads : Pass(t, u)
         \/ UNCHANGED vars
  BY DEF Next, Get, Woken

LEMMA TypeStep ==
  ASSUME TypeOK, Exclusive, [Next]_vars
  PROVE  TypeOK'
  <1>0. /\ given \in Nat \cup {-1} /\ given \in Limits
        /\ limit \in IF given = -1 THEN {-1} ELSE 0 .. given
        /\ free \in Seq(Nat) /\ held \in [Threads -> SUBSET Nat]
        /\ pc \in [Threads -> {"idle", "making", "asleep", "woken"}]
    BY LimitsAssumption DEF TypeOK
  <1>1. ASSUME NEW t \in Threads, TakeFree(t)
        PROVE  TypeOK'
    <2>1. Front(free) \in Seq(Nat) /\ Last(free) \in Nat
      BY <1>0, <1>1, FrontOfFree DEF TakeFree, Exclusive
    <2> QED BY <1>0, <1>1, <2>1 DEF TakeFree, TypeOK
  <1>2. ASSUME NEW t \in Threads, Sleep(t)
        PROVE  TypeOK'
    BY <1>0, <1>2 DEF Sleep, TypeOK
  <1>3. ASSUME NEW t \in Threads, Reserve(t)
        PROVE  TypeOK'
    <2>1. limit' \in IF given = -1 THEN {-1} ELSE 0 .. given
      BY <1>0, <1>3 DEF Reserve
    <2> QED BY <1>0, <1>3, <2>1 DEF Reserve, TypeOK
  <1>4. ASSUME NEW t \in Threads, Make(t)
        PROVE  TypeOK'
    <2>1. MaxHeld * Cardinality(Threads) \in Nat
      BY ThreadsAssumption, LimitsAssumption, FS_CardinalityType
    <2>2. PICK b \in 1 .. MaxHeld * Cardinality(Threads) :
            held' = [held EXCEPT ![t] = @ \cup {b}]
      BY <1>4 DEF Make
    <2>3. held' \in [Threads -> SUBSET Nat]
      BY <1>0, <2>1, <2>2
    <2> QED BY <1>0, <1>4, <2>3 DEF Make, TypeOK
  <1>5. ASSUME NEW t \in Threads, MakeFails(t) \/ Spurious(t)
        PROVE  TypeOK'
    BY <1>0, <1>5 DEF MakeFails, Spurious, TypeOK
  <1>6. ASSUME NEW t \in Threads, Woken(t), ~TakeFree(t)
        PROVE  TypeOK'
    BY <1>0, <1>6 DEF Woken, TypeOK
  <1>7. ASSUME NEW t \in Threads, Put(t)
        PROVE  TypeOK'
    <2>1. PICK b \in held[t] : LetGo(t, b)
      BY <1>7 DEF Put
    <2>2. free' \in Seq(Nat) /\ held' \in [Threads -> SUBSET Nat]
      BY <1>0, <2>1 DEF LetGo
    <2>3. pc' \in [Threads -> {"idle", "making", "asleep", "woken"}]
      BY <1>0, <1>7 DEF Put, Notify
    <2> QED BY <1>0, <1>7, <2>2, <2>3 DEF Put, TypeOK
  <1>8. ASSUME NEW t \in Threads, NEW u \in Threads, Pass(t, u)
        PROVE  TypeOK'
    <2>1. PICK b \in held[t] : held' = [held EXCEPT ![t] = @ \ {b}, ![u] = @ \cup {b}]
      BY <1>8 DEF Pass
    <2>2. held' \in [Threads -> SUBSET Nat]
      BY <1>0, <2>1
    <2> QED BY <1>0, <1>8, <2>2 DEF Pass, TypeOK
  <1>9. CASE UNCHANGED vars
    BY <1>0, <1>9 DEF vars, TypeOK
  <1> QED BY <1>1, <1>2, <1>3, <1>4, <1>5, <1>6, <1>7, <1>8, <1>9, Steps

\* A buffer goes from one place to another and is nowhere in between, and a new
\* one is one that is nowhere yet.
LEMMA ExclusiveStep ==
  ASSUME TypeOK, Exclusive, [Next]_vars
  PROVE  Exclusive'
  <1>0. /\ free \in Seq(Nat) /\ held \in [Threads -> SUBSET Nat] /\ IsInjective(free)
        /\ \A t \in Threads : held[t] \cap ToSet(free) = {}
        /\ \A t, u \in Threads : t # u => held[t] \cap held[u] = {}
    BY DEF TypeOK, Exclusive
  <1>1. ASSUME NEW t \in Threads, TakeFree(t)
        PROVE  Exclusive'
    <2>1. /\ IsInjective(free') /\ ToSet(free) = ToSet(free') \cup {Last(free)}
          /\ Last(free) \notin ToSet(free')
          /\ held' = [held EXCEPT ![t] = @ \cup {Last(free)}]
      BY <1>0, <1>1, FrontOfFree DEF TakeFree
    <2>2. \A u \in Threads : held'[u] = IF u = t THEN held[u] \cup {Last(free)} ELSE held[u]
      BY <1>0, <2>1
    <2>3. \A u \in Threads : Last(free) \notin held[u]
      BY <1>0, <2>1
    <2> QED BY <1>0, <2>1, <2>2, <2>3 DEF Exclusive
  <1>2. ASSUME NEW t \in Threads, Make(t)
        PROVE  Exclusive'
    <2>1. PICK b : b \notin Live /\ held' = [held EXCEPT ![t] = @ \cup {b}]
      BY <1>2 DEF Make
    <2>2. (\A u \in Threads : b \notin held[u]) /\ b \notin ToSet(free)
      BY <2>1, WhereBuffersAre
    <2>3. \A u \in Threads : held'[u] = IF u = t THEN held[u] \cup {b} ELSE held[u]
      BY <1>0, <2>1
    <2>4. free' = free
      BY <1>2 DEF Make
    <2> QED BY ZenonT(60), <1>0, <2>2, <2>3, <2>4 DEF Exclusive
  <1>3. ASSUME NEW t \in Threads, Put(t)
        PROVE  Exclusive'
    <2>1. PICK b \in held[t] : free' = Append(free, b) /\ held' = [held EXCEPT ![t] = @ \ {b}]
      BY <1>3 DEF Put, LetGo
    <2>2. b \in Nat /\ b \notin ToSet(free)
      BY <1>0, <2>1
    <2>3. IsInjective(free') /\ ToSet(free') = ToSet(free) \cup {b}
      BY <1>0, <2>1, <2>2, AppendToFree
    <2>4. \A u \in Threads : held'[u] = IF u = t THEN held[u] \ {b} ELSE held[u]
      BY <1>0, <2>1
    <2> QED BY <1>0, <2>1, <2>3, <2>4 DEF Exclusive
  <1>4. ASSUME NEW t \in Threads, NEW u \in Threads, Pass(t, u)
        PROVE  Exclusive'
    <2>1. PICK b \in held[t] : held' = [held EXCEPT ![t] = @ \ {b}, ![u] = @ \cup {b}]
      BY <1>4 DEF Pass
    <2>2. t # u /\ free' = free
      BY <1>4 DEF Pass
    <2>3. \A x \in Threads : held'[x] = IF x = t THEN held[x] \ {b}
                                     ELSE IF x = u THEN held[x] \cup {b} ELSE held[x]
      BY <1>0, <2>1, <2>2
    <2> QED BY <1>0, <2>1, <2>2, <2>3 DEF Exclusive
  <1>5. CASE free' = free /\ held' = held
    BY <1>0, <1>5 DEF Exclusive
  <1>6. ASSUME NEW t \in Threads,
               Sleep(t) \/ Reserve(t) \/ MakeFails(t) \/ Spurious(t) \/ (Woken(t) /\ ~TakeFree(t))
        PROVE  free' = free /\ held' = held
    BY <1>6 DEF Sleep, Reserve, MakeFails, Spurious, Woken
  <1>7. UNCHANGED vars => free' = free /\ held' = held
    BY DEF vars
  <1> QED BY <1>1, <1>2, <1>3, <1>4, <1>5, <1>6, <1>7, Steps

\* Buffers and those being made stay within the limit: a step either moves a buffer,
\* or takes one from one of the three counts and adds at most one to another.
LEMMA CountedStep ==
  ASSUME TypeOK, TypeOK', Exclusive, Counted, [Next]_vars
  PROVE  Counted'
  <1> DEFINE making == WithThreads("making")
             live == Cardinality(Live)
             count == Cardinality(making)
  <1>0. /\ given \in Nat \cup {-1} /\ limit \in IF given = -1 THEN {-1} ELSE 0 .. given
        /\ free \in Seq(Nat) /\ held \in [Threads -> SUBSET Nat] /\ IsInjective(free)
        /\ pc \in [Threads -> {"idle", "making", "asleep", "woken"}]
        /\ IsFiniteSet(Live) /\ live \in Nat /\ IsFiniteSet(making) /\ count \in Nat
        /\ given # -1 => live + count + limit <= given
    BY LimitsAssumption, ThreadsCount, FS_CardinalityType DEF TypeOK, Exclusive, Counted
  <1>a. \A b : b \in Live <=> (\E u \in Threads : b \in held[u]) \/ b \in ToSet(free)
    BY WhereBuffersAre
  <1>b. \A b : b \in Live' <=> (\E u \in Threads : b \in held'[u]) \/ b \in ToSet(free')
    BY WhereBuffersWillBe
  <1>1. CASE Live' = Live /\ limit' = limit /\ given' = given /\ making' = making
    BY <1>0, <1>1 DEF Counted
  <1>2. ASSUME NEW t \in Threads, TakeFree(t), pc[t] \in {"idle", "woken"}
        PROVE  Counted'
    <2>1. held' = [held EXCEPT ![t] = @ \cup {Last(free)}] /\ ToSet(free) = ToSet(free') \cup {Last(free)}
      BY <1>0, <1>2, FrontOfFree DEF TakeFree
    <2>2. \A u \in Threads : held'[u] = IF u = t THEN held[u] \cup {Last(free)} ELSE held[u]
      BY <1>0, <2>1
    <2>3. Live' = Live
      <3>1. \A b : b \in Live' <=> b \in Live
        BY <1>a, <1>b, <1>2, <2>1, <2>2
      <3> QED BY <3>1
    <2>4. making' = making
      BY <1>0, <1>2 DEF TakeFree, WithThreads
    <2> QED BY <1>1, <1>2, <2>3, <2>4 DEF TakeFree
  <1>3. ASSUME NEW t \in Threads, Reserve(t), pc[t] = "idle"
        PROVE  Counted'
    <2>1. Live' = Live /\ given' = given
      BY <1>3 DEF Reserve, Live
    <2>2. making' = making \cup {t}
      BY <1>0, <1>3 DEF Reserve, WithThreads
    <2>3. IsFiniteSet(making') /\ Cardinality(making') <= count + 1 /\ Cardinality(making') \in Nat
      <3>1. /\ IsFiniteSet(making \cup {t})
            /\ Cardinality(making \cup {t}) = IF t \in making THEN count ELSE count + 1
        BY <1>0, FS_AddElement
      <3> HIDE DEF making, count
      <3> QED BY <1>0, <2>2, <3>1
    <2>4. given # -1 => limit' = limit - 1
      BY <1>0, <1>3 DEF Reserve
    <2>5. given # -1 => live + Cardinality(making') + limit' <= given
      <3> HIDE DEF making, live
      <3> QED BY <1>0, <2>3, <2>4
    <2> QED BY <1>0, <2>1, <2>5 DEF Counted
  <1>4. ASSUME NEW t \in Threads, Make(t) \/ MakeFails(t)
        PROVE  Counted'
    <2>1. pc[t] = "making" /\ limit' = limit /\ given' = given /\ making' = making \ {t} /\ t \in making
      BY <1>0, <1>4 DEF Make, MakeFails, WithThreads
    <2>2. IsFiniteSet(making') /\ Cardinality(making') = count - 1
      BY <1>0, <2>1, FS_RemoveElement
    <2>3. IsFiniteSet(Live') /\ Cardinality(Live') <= live + 1 /\ Cardinality(Live') \in Nat
      <3>1. CASE MakeFails(t)
        <4>1. Live' = Live
          BY <3>1 DEF MakeFails, Live
        <4> QED BY <1>0, <4>1
      <3>2. CASE Make(t)
        <4>1. PICK b : held' = [held EXCEPT ![t] = @ \cup {b}]
          BY <3>2 DEF Make
        <4>2. \A u \in Threads : held'[u] = IF u = t THEN held[u] \cup {b} ELSE held[u]
          BY <1>0, <4>1
        <4>3. Live' = Live \cup {b}
          BY <1>a, <1>b, <3>2, <4>2 DEF Make
        <4>4. /\ IsFiniteSet(Live \cup {b})
              /\ Cardinality(Live \cup {b}) = IF b \in Live THEN live ELSE live + 1
          BY <1>0, FS_AddElement
        <4> HIDE DEF live
        <4> QED BY <1>0, <4>3, <4>4
      <3> QED BY <1>4, <3>1, <3>2
    <2>4. given # -1 => Cardinality(Live') + Cardinality(making') + limit' <= given
      <3> HIDE DEF making, live
      <3> QED BY <1>0, <2>1, <2>2, <2>3
    <2> QED BY <2>1, <2>3, <2>4 DEF Counted
  <1>5. ASSUME NEW t \in Threads, Put(t)
        PROVE  Counted'
    <2>1. PICK b \in held[t] : free' = Append(free, b) /\ held' = [held EXCEPT ![t] = @ \ {b}]
      BY <1>5 DEF Put, LetGo
    <2>2. ToSet(free') = ToSet(free) \cup {b}
      <3>1. b \in Nat /\ b \notin ToSet(free)
        BY <1>0, <2>1 DEF Exclusive
      <3> QED BY <1>0, <2>1, <3>1, AppendToFree
    <2>3. \A u \in Threads : held'[u] = IF u = t THEN held[u] \ {b} ELSE held[u]
      BY <1>0, <2>1
    <2>4. Live' = Live
      <3>1. \A x : x \in Live' <=> x \in Live
        BY <1>a, <1>b, <1>0, <2>1, <2>2, <2>3
      <3> QED BY <3>1
    <2>5. making' = making
      BY <1>0, <1>5 DEF Put, Notify, WithThreads
    <2> QED BY <1>1, <1>5, <2>4, <2>5 DEF Put
  <1>6. ASSUME NEW t \in Threads, NEW u \in Threads, Pass(t, u)
        PROVE  Counted'
    <2>1. PICK b \in held[t] : held' = [held EXCEPT ![t] = @ \ {b}, ![u] = @ \cup {b}]
      BY <1>6 DEF Pass
    <2>2. t # u /\ free' = free /\ pc' = pc /\ limit' = limit /\ given' = given
      BY <1>6 DEF Pass
    <2>3. \A x \in Threads : held'[x] = IF x = t THEN held[x] \ {b}
                                     ELSE IF x = u THEN held[x] \cup {b} ELSE held[x]
      BY <1>0, <2>1, <2>2
    <2>4. Live' = Live
      <3>1. \A x : x \in Live' <=> x \in Live
        BY <1>a, <1>b, <1>0, <2>1, <2>2, <2>3
      <3> QED BY <3>1
    <2> QED BY <1>1, <2>2, <2>4 DEF WithThreads
  <1>7. ASSUME NEW t \in Threads,
               (Sleep(t) /\ pc[t] = "idle") \/ Spurious(t) \/ (Woken(t) /\ ~TakeFree(t))
        PROVE  Counted'
    <2>1. Live' = Live /\ limit' = limit /\ given' = given
      BY <1>7 DEF Sleep, Spurious, Woken, Live
    <2>2. making' = making
      BY <1>0, <1>7 DEF Sleep, Spurious, Woken, WithThreads
    <2> QED BY <1>1, <2>1, <2>2
  <1>8. CASE UNCHANGED vars
    BY <1>1, <1>8 DEF vars, Live, WithThreads
  <1> QED BY <1>2, <1>3, <1>4, <1>5, <1>6, <1>7, <1>8, Steps

\* While a thread sleeps, a buffer that is put back comes with a thread that is
\* woken, and a woken thread that goes back to sleep has left no buffer in the pool.
LEMMA WaitingStep ==
  ASSUME TypeOK, TypeOK', Exclusive, Waiting, [Next]_vars
  PROVE  Waiting'
  <1> DEFINE woken == WithThreads("woken")
             sleeping == \E t \in Threads : pc[t] = "asleep"
             waiting == \E t \in Threads : pc[t] \in {"asleep", "woken"}
  <1>0. /\ limit \in Int /\ free \in Seq(Nat) /\ IsInjective(free)
        /\ pc \in [Threads -> {"idle", "making", "asleep", "woken"}]
        /\ (waiting => limit = 0) /\ (sleeping => waiting)
        /\ (sleeping => Len(free) <= Cardinality(woken))
        /\ Len(free) \in Nat /\ IsFiniteSet(woken) /\ Cardinality(woken) \in Nat
    BY LimitsAssumption, ThreadsCount DEF TypeOK, Exclusive, Waiting
  <1>1. CASE limit' = limit /\ free' = free /\ woken' = woken /\ waiting' = waiting /\ sleeping' = sleeping
    BY <1>0, <1>1 DEF Waiting
  <1>2. ASSUME NEW t \in Threads, TakeFree(t), pc[t] = "idle"
        PROVE  Waiting'
    <2>1. limit' = limit /\ woken' = woken /\ waiting' = waiting /\ sleeping' = sleeping
      BY <1>0, <1>2 DEF TakeFree, WithThreads
    <2>2. Len(free') = Len(free) - 1
      BY <1>0, <1>2, FrontOfFree DEF TakeFree
    <2>3. sleeping' => Len(free') <= Cardinality(woken')
      <3> HIDE DEF woken, sleeping
      <3> QED BY <1>0, <2>1, <2>2
    <2> QED BY <1>0, <2>1, <2>3 DEF Waiting
  <1>3. ASSUME NEW t \in Threads, TakeFree(t), pc[t] = "woken"
        PROVE  Waiting'
    <2>1. limit' = limit /\ (waiting' => waiting) /\ (sleeping' => sleeping)
      BY <1>0, <1>3 DEF TakeFree
    <2>2. woken' = woken \ {t} /\ t \in woken
      BY <1>0, <1>3 DEF TakeFree, WithThreads
    <2>3. Len(free') = Len(free) - 1
      BY <1>0, <1>3, FrontOfFree DEF TakeFree
    <2>4. Cardinality(woken \ {t}) = Cardinality(woken) - 1
      BY <1>0, <2>2, FS_RemoveElement
    <2>5. sleeping' => Len(free') <= Cardinality(woken')
      <3> HIDE DEF woken, sleeping
      <3> QED BY <1>0, <2>1, <2>2, <2>3, <2>4
    <2> QED BY <1>0, <2>1, <2>5 DEF Waiting
  <1>4. ASSUME NEW t \in Threads, (Sleep(t) /\ pc[t] = "idle") \/ (Woken(t) /\ ~TakeFree(t))
        PROVE  Waiting'
    <2>1. limit' = 0 /\ Len(free') = 0
      <3>1. CASE Sleep(t)
        BY <3>1 DEF Sleep
      <3>2. CASE Woken(t) /\ ~TakeFree(t)
        BY <1>0, <3>2 DEF Woken
      <3> QED BY <1>4, <3>1, <3>2
    <2>2. Cardinality(woken') \in Nat
      <3>1. IsFiniteSet(woken')
        <4>1. woken' \in SUBSET Threads
          BY DEF WithThreads
        <4> QED BY <4>1, ThreadsAssumption, FS_Subset
      <3> QED BY <3>1, FS_CardinalityType
    <2> QED BY <2>1, <2>2 DEF Waiting
  <1>5. ASSUME NEW t \in Threads, Reserve(t), pc[t] = "idle"
        PROVE  Waiting'
    <2>1. ~waiting
      BY <1>0, <1>5 DEF Reserve
    <2>2. ~waiting' /\ ~sleeping'
      BY <1>0, <1>5, <2>1 DEF Reserve
    <2> QED BY <2>2 DEF Waiting
  <1>6. ASSUME NEW t \in Threads, Make(t) \/ MakeFails(t)
        PROVE  Waiting'
    <2>1. limit' = limit /\ free' = free /\ pc[t] = "making" /\ pc' = [pc EXCEPT ![t] = "idle"]
      BY <1>6 DEF Make, MakeFails
    <2>2. woken' = woken /\ waiting' = waiting /\ sleeping' = sleeping
      BY <1>0, <2>1 DEF WithThreads
    <2> QED BY <1>1, <2>1, <2>2
  <1>7. ASSUME NEW t \in Threads, Spurious(t)
        PROVE  Waiting'
    <2>1. limit' = limit /\ free' = free /\ waiting /\ sleeping /\ woken' = woken \cup {t}
      BY <1>0, <1>7 DEF Spurious, WithThreads
    <2>2. Cardinality(woken \cup {t}) \in {Cardinality(woken), Cardinality(woken) + 1}
      BY <1>0, FS_AddElement
    <2>3. Len(free') <= Cardinality(woken')
      <3> HIDE DEF woken, sleeping
      <3> QED BY <1>0, <2>1, <2>2
    <2> QED BY <1>0, <2>1, <2>3 DEF Waiting
  <1>8. ASSUME NEW t \in Threads, Put(t)
        PROVE  Waiting'
    <2>1. limit' = limit
      BY <1>8 DEF Put
    <2>2. PICK b \in held[t] : free' = Append(free, b)
      BY <1>8 DEF Put, LetGo
    <2>3. Len(free') = Len(free) + 1
      BY <1>0, <2>2
    <2>4. CASE ~sleeping
      <3>1. pc' = pc
        BY <1>8, <2>4 DEF Put, Notify
      <3>2. waiting' = waiting /\ ~sleeping'
        BY <2>4, <3>1
      <3> QED BY <1>0, <2>1, <3>2 DEF Waiting
    <2>5. CASE sleeping
      <3>1. PICK s \in Threads : pc[s] = "asleep" /\ pc' = [pc EXCEPT ![s] = "woken"]
        BY <1>8, <2>5 DEF Put, Notify
      <3>2. woken' = woken \cup {s} /\ s \notin woken
        BY <1>0, <3>1 DEF WithThreads
      <3>3. Cardinality(woken \cup {s}) = Cardinality(woken) + 1
        BY <1>0, <3>2, FS_AddElement
      <3>4. Len(free') <= Cardinality(woken')
        <4> HIDE DEF woken, sleeping
        <4> QED BY <1>0, <2>3, <2>5, <3>2, <3>3
      <3> QED BY <1>0, <2>1, <2>5, <3>4 DEF Waiting
    <2> QED BY <2>4, <2>5
  <1>9. ASSUME NEW t \in Threads, NEW u \in Threads, Pass(t, u)
        PROVE  Waiting'
    BY <1>1, <1>9 DEF Pass, WithThreads
  <1>10. CASE UNCHANGED vars
    BY <1>1, <1>10 DEF vars, WithThreads
  <1> QED BY <1>2, <1>3, <1>4, <1>5, <1>6, <1>7, <1>8, <1>9, <1>10, Steps

-------------------------------------------------------------------------------
(* The theorems. *)

LEMMA PoolStarts ==
  ASSUME Init
  PROVE  PoolInv
  <1>0. given \in Nat \cup {-1} /\ given \in Limits /\ limit = given /\ free = <<>>
        /\ held = [t \in Threads |-> {}] /\ pc = [t \in Threads |-> "idle"]
    BY LimitsAssumption DEF Init
  <1>1. TypeOK
    <2>1. limit \in IF given = -1 THEN {-1} ELSE 0 .. given
      BY <1>0
    <2> QED BY <1>0, <2>1 DEF TypeOK
  <1>2. ToSet(free) = {} /\ IsInjective(free)
    BY <1>0 DEF ToSet, IsInjective
  <1>3. Exclusive
    BY <1>0, <1>2 DEF Exclusive
  <1>4. Live = {}
    BY <1>0, <1>1, <1>2, WhereBuffersAre
  <1>5. WithThreads("making") = {}
    BY <1>0 DEF WithThreads
  <1>6. Counted
    <2>1. IsFiniteSet(Live) /\ Cardinality(Live) = 0 /\ Cardinality(WithThreads("making")) = 0
      BY <1>4, <1>5, FS_EmptySet
    <2>2. given # -1 => 0 + 0 + limit <= given
      BY <1>0
    <2> QED BY <2>1, <2>2 DEF Counted
  <1>7. Waiting
    BY <1>0 DEF Waiting
  <1> QED BY <1>1, <1>3, <1>6, <1>7 DEF PoolInv

LEMMA PoolInductive == Spec => []PoolInv
  <1>1. Init => PoolInv
    BY PoolStarts
  <1>2. PoolInv /\ [Next]_vars => PoolInv'
    <2> SUFFICES ASSUME PoolInv, [Next]_vars
                 PROVE  PoolInv'
      OBVIOUS
    <2>1. TypeOK'
      BY TypeStep DEF PoolInv
    <2>2. Exclusive'
      BY ExclusiveStep DEF PoolInv
    <2>3. Counted'
      BY <2>1, CountedStep DEF PoolInv
    <2>4. Waiting'
      BY <2>1, WaitingStep DEF PoolInv
    <2> QED BY <2>1, <2>2, <2>3, <2>4 DEF PoolInv
  <1> QED BY <1>1, <1>2, PTL DEF Spec

\* Every variable of the pool keeps its type, and limit_ never falls below zero
\* nor below -1 in a pool without a limit (pool.h:50-84).
THEOREM PoolTypeCorrect == Spec => []TypeOK
  <1>1. PoolInv => TypeOK
    BY DEF PoolInv
  <1> QED BY <1>1, PoolInductive, PTL

\* No two threads are handed the same buffer, and none that is in the pool
\* (pool.h:63-107).
THEOREM OneOwner == Spec => []Exclusive
  <1>1. PoolInv => Exclusive
    BY DEF PoolInv
  <1> QED BY <1>1, PoolInductive, PTL

\* With those being made while the lock is not held there are never more buffers
\* than the limit (pool.h:76-84).
THEOREM KeepsLimit == Spec => []WithinLimit
  <1>1. PoolInv => WithinLimit
    <2> SUFFICES ASSUME PoolInv, given # -1
                 PROVE  Cardinality(Live) + Cardinality(WithThreads("making")) <= given
      BY DEF WithinLimit, WithThreads
    <2>1. /\ Cardinality(Live) + Cardinality(WithThreads("making")) + limit <= given
          /\ Cardinality(Live) \in Nat
      BY FS_CardinalityType DEF PoolInv, Counted
    <2>2. given \in Nat /\ limit \in Nat /\ Cardinality(WithThreads("making")) \in Nat
      BY LimitsAssumption, ThreadsCount DEF PoolInv, TypeOK
    <2> QED BY <2>1, <2>2
  <1> QED BY <1>1, PoolInductive, PTL

\* No notification of put_raw() is lost: once every thread that was woken has run,
\* a thread still sleeps only if there is no buffer to be had (pool.h:67-68, 100).
THEOREM NoNotificationLost == Spec => []SleepsOnlyWhenOut
  <1>1. PoolInv => SleepsOnlyWhenOut
    <2> SUFFICES ASSUME PoolInv, \E t \in Threads : pc[t] = "asleep", \A t \in Threads : pc[t] # "woken"
                 PROVE  free = <<>> /\ limit = 0
      BY DEF SleepsOnlyWhenOut
    <2>1. WithThreads("woken") = {}
      BY DEF WithThreads
    <2>2. Cardinality(WithThreads("woken")) = 0
      BY <2>1, FS_EmptySet
    <2>3. limit = 0 /\ Len(free) <= 0 /\ free \in Seq(Nat)
      BY <2>2 DEF PoolInv, Waiting, TypeOK
    <2> QED BY <2>3
  <1> QED BY <1>1, PoolInductive, PTL
===============================================================================
