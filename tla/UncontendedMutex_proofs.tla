----------------------- MODULE UncontendedMutex_proofs -----------------------
(***************************************************************************)
(* Mutual exclusion and the absence of lost wake-ups for UncontendedMutex, *)
(* for any set of threads.                                                 *)
(***************************************************************************)
EXTENDS UncontendedMutex, TLAPS

\* m is held exactly by the thread between its acquisition and its release.
MutexOwner == \A t \in Threads : (m = t) <=> pc[t] \in {"count", "clear"}

\* Only a thread inside cv.wait() is blocked on the condition variable.
BlockedWait == \A t \in cv : pc[t] = "wait"

\* Mutual exclusion is inductive only together with the meaning of flag;
\* the wake-up argument also needs to know who can be blocked.
IInv ==
  /\ TypeOK
  /\ MutualExclusion
  /\ FlagTracksOwner
  /\ MutexOwner
  /\ BlockedWait
  /\ NoLostWakeup

\* An unlocked mutex satisfies the invariant.
LEMMA InitIInv == Init => IInv
  BY ThreadsAssumption
  DEF Init, IInv, TypeOK, MutualExclusion, FlagTracksOwner, MutexOwner,
      BlockedWait, NoLostWakeup, Owns, Label

\* Every step preserves the types.
LEMMA TypeStep == TypeOK /\ [Next]_vars => TypeOK'
<1> SUFFICES ASSUME TypeOK, [Next]_vars PROVE TypeOK'
  OBVIOUS
<1> USE DEF TypeOK, Label, Goto
<1>1. CASE UNCHANGED vars
  BY <1>1 DEF vars
<1>2. ASSUME NEW t \in Threads, Lock(t) \/ Unlock(t) \/ SpuriousWakeup(t)
      PROVE  TypeOK'
  BY <1>2 DEF Lock, Unlock, SpuriousWakeup
<1>3. ASSUME NEW t \in Threads, Step(t)
      PROVE  TypeOK'
  <2>1. CASE LockTestAndSet(t) \/ LockMutex(t) \/ LockCount(t) \/ LockWake(t)
    BY <2>1 DEF LockTestAndSet, LockMutex, LockCount, LockWake
  <2>2. CASE UnlockTestAndSet(t) \/ UnlockMutex(t) \/ UnlockClear(t)
             \/ UnlockNotify(t)
    BY <2>2 DEF UnlockTestAndSet, UnlockMutex, UnlockClear, UnlockNotify
  <2> QED
    BY <1>3, <2>1, <2>2 DEF Step
<1> QED
  BY <1>1, <1>2, <1>3 DEF Next

\* Every step of lock() and unlock() preserves the invariant.
LEMMA NextIInv == IInv /\ [Next]_vars => IInv'
<1> SUFFICES ASSUME IInv, [Next]_vars PROVE IInv'
  OBVIOUS
<1>t. TypeOK'
  BY TypeStep DEF IInv
<1> USE <1>t, ThreadsAssumption
    DEF IInv, TypeOK, MutualExclusion, FlagTracksOwner, MutexOwner,
        BlockedWait, NoLostWakeup, Owns, Label, Goto
<1>0. CASE UNCHANGED vars
  BY <1>0 DEF vars
<1>1. ASSUME NEW t \in Threads, Lock(t) PROVE IInv'
  BY <1>1 DEF Lock
<1>2. ASSUME NEW t \in Threads, LockTestAndSet(t) PROVE IInv'
  <2>1. CASE flag = 0
    BY <1>2, <2>1 DEF LockTestAndSet
  <2>2. CASE flag # 0
    BY <1>2, <2>2 DEF LockTestAndSet
  <2> QED
    BY <2>1, <2>2
<1>3. ASSUME NEW t \in Threads, LockMutex(t) PROVE IInv'
  BY <1>3 DEF LockMutex
<1>4. ASSUME NEW t \in Threads, LockCount(t) PROVE IInv'
  <2>1. CASE flag = 0
    BY <1>4, <2>1 DEF LockCount
  <2>2. CASE flag # 0
    BY <1>4, <2>2 DEF LockCount
  <2> QED
    BY <2>1, <2>2
<1>5. ASSUME NEW t \in Threads, SpuriousWakeup(t) PROVE IInv'
  BY <1>5 DEF SpuriousWakeup
<1>6. ASSUME NEW t \in Threads, LockWake(t) PROVE IInv'
  BY <1>6 DEF LockWake
<1>7. ASSUME NEW t \in Threads, Unlock(t) PROVE IInv'
  BY <1>7 DEF Unlock
<1>8. ASSUME NEW t \in Threads, UnlockTestAndSet(t) PROVE IInv'
  <2>1. CASE flag = 1
    BY <1>8, <2>1 DEF UnlockTestAndSet
  <2>2. CASE flag # 1
    BY <1>8, <2>2 DEF UnlockTestAndSet
  <2> QED
    BY <2>1, <2>2
<1>9. ASSUME NEW t \in Threads, UnlockMutex(t) PROVE IInv'
  BY <1>9 DEF UnlockMutex
<1>10. ASSUME NEW t \in Threads, UnlockClear(t) PROVE IInv'
  BY <1>10 DEF UnlockClear
<1>11. ASSUME NEW t \in Threads, UnlockNotify(t) PROVE IInv'
  BY <1>11 DEF UnlockNotify
<1> QED
  BY <1>0, <1>1, <1>2, <1>3, <1>4, <1>5, <1>6, <1>7, <1>8, <1>9, <1>10, <1>11
  DEF Next, Step

\* The invariant always holds.
LEMMA Inductive == Spec => []IInv
  BY InitIInv, NextIInv, PTL DEF Spec

\* lock() and unlock() keep every variable in its type, flag never negative.
THEOREM TypeCorrect == Spec => []TypeOK
<1>1. IInv => TypeOK
  BY DEF IInv
<1> QED
  BY <1>1, Inductive, PTL

\* At most one thread is between lock() and unlock(), however many compete.
THEOREM Exclusion == Spec => []MutualExclusion
<1>1. IInv => MutualExclusion
  BY DEF IInv
<1> QED
  BY <1>1, Inductive, PTL

\* flag is 0 exactly while no thread owns the lock.
THEOREM FlagMeaning == Spec => []FlagTracksOwner
<1>1. IInv => FlagTracksOwner
  BY DEF IInv
<1> QED
  BY <1>1, Inductive, PTL

\* Whenever a thread is blocked in lock(), a notify_all() is still to come.
THEOREM WakeupPending == Spec => []NoLostWakeup
<1>1. IInv => NoLostWakeup
  BY DEF IInv
<1> QED
  BY <1>1, Inductive, PTL
=============================================================================
