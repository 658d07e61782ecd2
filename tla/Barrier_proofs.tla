--------------------------- MODULE Barrier_proofs ---------------------------
(***************************************************************************)
(* The barrier is correct for any finite, non-empty set of threads, any    *)
(* width of the generation counter and any number of rounds.               *)
(***************************************************************************)
EXTENDS Barrier, FiniteSetTheorems, TLAPS

\* The threads that the current round still waits for: those outside wait()
\* and those that have not yet woken up from the previous round.
Missing == {t \in Threads : ~(pc[t] = "waiting" /\ gen[t] = generation)}

\* r rounds are complete; every thread has completed r calls, except those
\* still waking up from round r.
InRound(r) ==
  \A t \in Threads :
    IF pc[t] = "waiting" /\ gen[t] # generation
    THEN Succ(gen[t]) = generation /\ done[t] + 1 = r
    ELSE done[t] = r

\* NoEarlyExit is not inductive: it says nothing of numLeft, which decides
\* when a round closes, nor of gen, which decides who may leave.
IInv ==
  /\ TypeOK
  /\ numLeft = Cardinality(Missing)
  /\ \E r \in Nat : InRound(r)
  /\ ReleasedAreAwake
  /\ blocked \subseteq {t \in Threads : pc[t] = "waiting"}

\* Two successive generations differ, also across the wrap-around.
LEMMA SuccDiffers ==
  \A g \in 0 .. MaxUnsigned : Succ(g) \in 0 .. MaxUnsigned /\ Succ(g) # g
  BY MaxUnsignedAssumption DEF Succ

\* The threads that have yet to arrive can be counted.
LEMMA MissingFinite == IsFiniteSet(Missing) /\ Cardinality(Missing) \in Nat
  BY ThreadsAssumption, FS_Subset, FS_CardinalityType DEF Missing

\* A barrier is made for at least one thread.
LEMMA NumWaitingPositive == numWaiting \in Nat /\ numWaiting >= 1
  BY ThreadsAssumption, FS_CardinalityType, FS_EmptySet DEF numWaiting

\* The constructor establishes the invariant.
LEMMA InitIInv == Init => IInv
<1> SUFFICES ASSUME Init PROVE IInv
  OBVIOUS
<1>1. TypeOK
  BY NumWaitingPositive, MaxUnsignedAssumption DEF Init, TypeOK
<1>2. Missing = Threads
  BY DEF Init, Missing
<1>3. InRound(0)
  BY DEF Init, InRound
<1> QED
  BY <1>1, <1>2, <1>3 DEF Init, IInv, ReleasedAreAwake, numWaiting

\* The last thread to call wait() preserves it.
LEMMA ArriveLastIInv ==
  ASSUME IInv, NEW t \in Threads, ArriveLast(t)
  PROVE  IInv'
<1> USE DEF IInv, TypeOK
<1>1. Missing = {t}
  <2>1. t \in Missing
    BY DEF ArriveLast, Missing
  <2>2. IsFiniteSet(Missing) /\ Cardinality(Missing) = 1
    BY MissingFinite DEF ArriveLast
  <2> QED
    BY <2>1, <2>2, FS_Singleton
<1>2. \A u \in Threads \ {t} : pc[u] = "waiting" /\ gen[u] = generation
  BY <1>1 DEF Missing
<1>3. Succ(generation) \in 0 .. MaxUnsigned /\ Succ(generation) # generation
  BY SuccDiffers
<1>4. TypeOK'
  BY <1>3, NumWaitingPositive DEF ArriveLast
<1>5. Missing' = Threads
  BY <1>2, <1>3 DEF ArriveLast, Missing
<1>6. ASSUME NEW r \in Nat, InRound(r)
      PROVE  InRound(r + 1)'
  BY <1>2, <1>3, <1>6 DEF ArriveLast, InRound
<1>7. ReleasedAreAwake'
  BY DEF ArriveLast, ReleasedAreAwake
<1>8. blocked' \subseteq {u \in Threads : pc[u] = "waiting"}'
  BY DEF ArriveLast
<1>9. \E r \in Nat : InRound(r)'
  <2>1. PICK r \in Nat : InRound(r)
    OBVIOUS
  <2>2. r + 1 \in Nat /\ InRound(r + 1)'
    BY <1>6, <2>1
  <2> QED
    BY <2>2
<1> QED
  BY <1>4, <1>5, <1>7, <1>8, <1>9 DEF ArriveLast, numWaiting

\* A thread that blocks in wait() preserves it.
LEMMA ArriveAndWaitIInv ==
  ASSUME IInv, NEW t \in Threads, ArriveAndWait(t)
  PROVE  IInv'
<1> USE DEF IInv, TypeOK
<1>1. t \in Missing /\ Missing' = Missing \ {t}
  BY DEF ArriveAndWait, Missing
<1>2. Cardinality(Missing') = Cardinality(Missing) - 1
  BY <1>1, MissingFinite, FS_RemoveElement
<1>3. TypeOK'
  BY NumWaitingPositive DEF ArriveAndWait
<1>4. ASSUME NEW r \in Nat, InRound(r)
      PROVE  InRound(r)'
  BY <1>4 DEF ArriveAndWait, InRound
<1>5. ReleasedAreAwake' /\ blocked' \subseteq {u \in Threads : pc[u] = "waiting"}'
  BY DEF ArriveAndWait, ReleasedAreAwake
<1> QED
  BY <1>2, <1>3, <1>4, <1>5 DEF ArriveAndWait

\* A thread that returns from wait() preserves it.
LEMMA LeaveIInv ==
  ASSUME IInv, NEW t \in Threads, Leave(t)
  PROVE  IInv'
<1> USE DEF IInv, TypeOK
<1>1. Missing' = Missing
  BY DEF Leave, Missing
<1>2. TypeOK'
  BY DEF Leave
<1>3. ASSUME NEW r \in Nat, InRound(r)
      PROVE  InRound(r)'
  BY <1>3 DEF Leave, InRound
<1>4. ReleasedAreAwake' /\ blocked' \subseteq {u \in Threads : pc[u] = "waiting"}'
  BY DEF Leave, ReleasedAreAwake
<1> QED
  BY <1>1, <1>2, <1>3, <1>4 DEF Leave

\* Falling asleep again and waking up for no reason move only `blocked`.
LEMMA SleepIInv ==
  ASSUME IInv, NEW t \in Threads, SpuriousWakeup(t) \/ WaitAgain(t)
  PROVE  IInv'
<1> USE DEF IInv, TypeOK
<1>1. UNCHANGED <<numLeft, generation, pc, gen, done>>
  BY DEF SpuriousWakeup, WaitAgain
<1>2. Missing' = Missing
  BY <1>1 DEF Missing
<1>3. TypeOK'
  BY <1>1 DEF SpuriousWakeup, WaitAgain
<1>4. ASSUME NEW r \in Nat, InRound(r)
      PROVE  InRound(r)'
  BY <1>1, <1>4 DEF InRound
<1>5. ReleasedAreAwake' /\ blocked' \subseteq {u \in Threads : pc[u] = "waiting"}'
  BY <1>1 DEF SpuriousWakeup, WaitAgain, ReleasedAreAwake
<1> QED
  BY <1>1, <1>2, <1>3, <1>4, <1>5

\* Every step preserves it.
LEMMA NextIInv == IInv /\ [Next]_vars => IInv'
<1> SUFFICES ASSUME IInv, [Next]_vars PROVE IInv'
  OBVIOUS
<1>1. CASE UNCHANGED vars
  BY <1>1 DEF vars, IInv, TypeOK, Missing, InRound, ReleasedAreAwake
<1>2. CASE Next
  BY <1>2, ArriveLastIInv, ArriveAndWaitIInv, LeaveIInv, SleepIInv
  DEF Next, Arrive
<1> QED
  BY <1>1, <1>2

\* The invariant always holds.
LEMMA Inductive == Spec => []IInv
  BY InitIInv, NextIInv, PTL DEF Spec

\* numLeft stays between 1 and numWaiting: `--numLeft` never wraps below 0.
THEOREM TypeCorrect == Spec => []TypeOK
<1>1. IInv => TypeOK
  BY DEF IInv
<1> QED
  BY <1>1, Inductive, PTL

\* No thread's k-th wait() returns before every thread's k-th wait() began.
THEOREM BarrierSafety == Spec => []NoEarlyExit
<1>1. IInv => NoEarlyExit
  <2> SUFFICES ASSUME IInv, NEW t \in Threads, NEW u \in Threads
               PROVE  done[t] <= Begun(u)
    BY DEF NoEarlyExit
  <2>1. PICK r \in Nat : InRound(r)
    BY DEF IInv
  <2>2. done[t] <= r
    BY <2>1 DEF InRound, IInv, TypeOK
  <2>3. r <= Begun(u)
    BY <2>1 DEF InRound, Begun, IInv, TypeOK
  <2> QED
    BY <2>1, <2>2, <2>3 DEF Begun, IInv, TypeOK
<1> QED
  BY <1>1, Inductive, PTL

\* A waiting thread is never a whole turn of the unsigned counter behind.
THEOREM WrapIsHarmless == Spec => []NeverLapped
<1>1. IInv => NeverLapped
  BY DEF IInv, InRound, NeverLapped
<1> QED
  BY <1>1, Inductive, PTL

\* Nobody sleeps in the condition variable once its round is over.
THEOREM NobodyForgotten == Spec => []ReleasedAreAwake
<1>1. IInv => ReleasedAreAwake
  BY DEF IInv
<1> QED
  BY <1>1, Inductive, PTL
=============================================================================
