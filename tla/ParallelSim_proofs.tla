---------------------- MODULE ParallelSim_proofs -----------------------
(***************************************************************************)
(* The inductive invariant of a parallel simulation and its proof, for any *)
(* number of queues: the types of the queues, the barriers of the global   *)
(* events and the locks of the queues.                                     *)
(***************************************************************************)
EXTENDS ParallelSim, SequenceTheorems, TLAPS

\* What a thread that is inside schedule() is scheduling, and for whom.
CallOK(t) ==
  /\ pc[t] = "gschedule" => call[t] \in Call /\ call[t].ev \in Global
  /\ pc[t] = "flag" => call[t] \in Call /\ call[t].ev \in Local
  /\ pc[t] = "signalled" \/ (pc[t] = "gschedule" /\ call[t].ret = "signalled") => t = 0

\* Thread t is between the first and the second barrier of a global event.
Inside(t) == pc[t] \in {"passed1", "barrier2"} \/ Processing(t)

\* The labels at which a thread holds the lock of the queue it is on, and
\* those at which it may be on the queue of another thread.
Holds(t) ==
  pc[t] \in {"handler", "flag", "process", "processed", "signalled", "gschedule"}

Away(t) ==
  \/ pc[t] \in {"handler", "flag", "lock"}
  \/ pc[t] = "gschedule" /\ call[t].ret = "handler"

LockOK(t) == (Holds(t) => owner[cur[t]] = t) /\ (~Away(t) => cur[t] = t)

CallInv == \A t \in Queue : CallOK(t)

\* The threads pass the first barrier together, and one of them processes.
BarrierInv ==
  \A t, u \in Queue :
    Inside(t) => /\ Inside(u) /\ at[u] = at[t]
                 /\ t # u /\ Processing(t) => ~Processing(u)

LockInv == \A t \in Queue : LockOK(t)

\* ProcessAlone is not inductive: that the threads were at the same barrier
\* must be kept while they leave it one by one. OwnerActs is not either: a
\* thread unlocks a queue that it must be known to have locked.
IInv == TypeOK /\ CallInv /\ BarrierInv /\ LockInv

\* The queues are numbered from 0, and none is None.
LEMMA QueueFacts == 0 \in Queue /\ None \notin Queue /\ Queue \subseteq Int /\ N \in Int
  BY NAssumption, EventAssumption DEF Queue

\* Which kinds of events there are.
LEMMA EventFacts ==
  /\ Local \subseteq Event /\ Global \subseteq Event /\ User \subseteq Global
  /\ Sync \in Global /\ Limit \in Global
  /\ FromHandler \subseteq Global /\ FromSignal \subseteq Global /\ FromPython \subseteq Global
  /\ None \notin Global
  BY Zenon, EventAssumption DEF Event, Global

\* User events are put into the present or the future.
LEMMA DelayNat == \A g \in FromHandler \cup FromSignal \cup FromPython : Delay[g] \in Nat
  BY EventAssumption, TimeAssumption

\* A periodic event repeats at a time that is a natural number.
LEMMA RepeatType ==
  ASSUME TypeOK, NEW t \in Queue, NEW g \in User
  PROVE  g \in Global /\ Again(t, g) \in Nat
<1>1. curTick[t] \in Nat /\ Repeat[g] \in Nat /\ Delay[g] \in Nat
  BY EventAssumption, TimeAssumption DEF TypeOK
<1> QED
  BY <1>1, EventFacts DEF Again

\* The initial state satisfies the invariant.
LEMMA InitIInv == Init => IInv
<1> SUFFICES ASSUME Init PROVE IInv
  OBVIOUS
<1>1. TypeOK
  <2>1. /\ pend \in [Queue -> SUBSET Item] /\ order \in [Queue -> SUBSET (Item \X Item)]
        /\ \A q \in Queue : order[q] \subseteq pend[q] \X pend[q]
        /\ async \in [Queue -> Seq(Item)]
    BY Zenon, EmptySeq DEF Init
  <2>2. pc \in [Queue -> Label] /\ cur \in [Queue -> Queue]
    BY Zenon DEF Init, Label
  <2>3. /\ at \in [Queue -> Global \cup {None}] /\ call \in [Queue -> {None} \cup Call]
        /\ owner \in [Queue -> Queue \cup {None}] /\ gmutex \in Queue \cup {None}
    BY Zenon DEF Init
  <2>4. /\ flags \subseteq Local \cup (Global \X Queue) /\ curTick \in [Queue -> Nat]
        /\ uses \in [Local -> 0 .. MaxUses]
    BY BoundAssumption DEF Init
  <2> QED
    BY Zenon, <2>1, <2>2, <2>3, <2>4 DEF TypeOK
<1>2. \A t \in Queue : pc[t] \in {"outside", "stopped"} /\ cur[t] = t
  BY Zenon DEF Init
<1> QED
  BY Zenon, <1>1, <1>2 DEF IInv, CallInv, CallOK, BarrierInv, LockInv, LockOK, Inside, Processing, Holds, Away

(***************************************************************************)
(* Types.                                                                  *)
(***************************************************************************)
ListType ==
  /\ pend \in [Queue -> SUBSET Item]
  /\ order \in [Queue -> SUBSET (Item \X Item)]
  /\ \A q \in Queue : order[q] \subseteq pend[q] \X pend[q]
  /\ async \in [Queue -> Seq(Item)]

\* handleAsyncInsertions() preserves the types of the lists.
LEMMA HandleType ==
  ASSUME ListType, NEW q \in Queue, HandleAsyncInsertions(q)
  PROVE  ListType'
<1> USE DEF ListType
<1>1. Arrived(q) \subseteq Item
  <2>1. async[q] \in Seq(Item)
    OBVIOUS
  <2>2. \A i \in DOMAIN async[q] : async[q][i] \in Item
    BY Zenon, <2>1, ElementOfSeq, LenProperties
  <2> QED
    BY Zenon, <2>2 DEF Arrived
<1>2. Merged(q) \subseteq (pend[q] \cup Arrived(q)) \X (pend[q] \cup Arrived(q))
  BY Zenon DEF Merged
<1>3. pend[q] \cup Arrived(q) \subseteq Item
  BY Zenon, <1>1
<1>4. pend' = [pend EXCEPT ![q] = @ \cup Arrived(q)] /\ pend' \in [Queue -> SUBSET Item]
  BY Zenon, <1>3 DEF HandleAsyncInsertions
<1>5. Merged(q) \in SUBSET (Item \X Item)
  BY Zenon, <1>2, <1>3
<1>6. order' = [order EXCEPT ![q] = Merged(q)] /\ order' \in [Queue -> SUBSET (Item \X Item)]
  BY Zenon, <1>5 DEF HandleAsyncInsertions
<1>7. \A r \in Queue : order'[r] \subseteq pend'[r] \X pend'[r]
  BY Zenon, <1>2, <1>4, <1>6
<1>8. async' \in [Queue -> Seq(Item)]
  BY Zenon, EmptySeq DEF HandleAsyncInsertions
<1> QED
  BY <1>4, <1>6, <1>7, <1>8, Zenon

\* insert() preserves them.
LEMMA InsertType ==
  ASSUME ListType, NEW q \in Queue, NEW x \in Item, Insert(q, x)
  PROVE  ListType'
<1> USE DEF ListType
<1>1. pend' = [pend EXCEPT ![q] = @ \cup {x}] /\ pend' \in [Queue -> SUBSET Item]
  BY Zenon DEF Insert
<1>2. Inserted(q, x) \subseteq (pend[q] \cup {x}) \X (pend[q] \cup {x})
  BY Zenon DEF Inserted
<1>3. Inserted(q, x) \in SUBSET (Item \X Item)
  BY Zenon, <1>2
<1>4. order' = [order EXCEPT ![q] = Inserted(q, x)] /\ order' \in [Queue -> SUBSET (Item \X Item)]
  BY Zenon, <1>3 DEF Insert
<1>5. \A r \in Queue : order'[r] \subseteq pend'[r] \X pend'[r]
  BY Zenon, <1>1, <1>2, <1>4
<1> QED
  BY Zenon, <1>1, <1>4, <1>5 DEF Insert

\* asyncInsert() preserves them.
LEMMA AsyncInsertType ==
  ASSUME ListType, NEW q \in Queue, NEW x \in Item, AsyncInsert(q, x)
  PROVE  ListType'
<1> USE DEF ListType
<1>1. Append(async[q], x) \in Seq(Item)
  BY Zenon, AppendProperties
<1> QED
  BY Zenon, <1>1 DEF AsyncInsert

\* So does scheduling a global event on all queues at once.
LEMMA EverywhereType ==
  ASSUME ListType, NEW new \in SUBSET (Global \X Nat), InsertEverywhere(new)
  PROVE  ListType' /\ flags' \subseteq flags \cup (Global \X Queue)
<1> USE DEF ListType
<1>1. new \subseteq Item
  BY Zenon, EventFacts DEF Item
<1>2. \A q \in Queue : pend'[q] = pend[q] \cup new
  BY Zenon DEF InsertEverywhere
<1>3. pend' \in [Queue -> SUBSET Item]
  BY Zenon, <1>1 DEF InsertEverywhere
<1>4. \A q \in Queue : order'[q] \subseteq pend'[q] \X pend'[q]
  BY <1>2 DEF InsertEverywhere
<1>5. order' \in [Queue -> SUBSET (Item \X Item)]
  <2>1. \A q \in Queue : order'[q] \subseteq Item \X Item
    BY Zenon, <1>3, <1>4
  <2>2. order' = [q \in Queue |-> order'[q]]
    BY Zenon DEF InsertEverywhere
  <2> QED
    BY Zenon, <2>1, <2>2
<1>6. flags' \subseteq flags \cup (Global \X Queue)
  BY DEF InsertEverywhere
<1> QED
  BY Zenon, <1>3, <1>4, <1>5, <1>6 DEF InsertEverywhere

\* So does taking the first event in serviceOne().
LEMMA PopType ==
  ASSUME TypeOK, NEW t \in Queue, NEW x \in pend[t], Pop(t, x)
  PROVE  /\ ListType' /\ flags' \subseteq flags /\ curTick' \in [Queue -> Nat]
         /\ pc[t] = "loop" /\ UNCHANGED <<cur, call, gmutex, uses>>
<1> USE DEF TypeOK, ListType
<1>1. x[2] \in Nat
  BY DEF Item
<1>2. Without(t, {x}) \subseteq (pend[t] \ {x}) \X (pend[t] \ {x})
  <2>1. order[t] \subseteq pend[t] \X pend[t]
    OBVIOUS
  <2> QED
    BY Zenon, <2>1 DEF Without
<1>3. pend' = [pend EXCEPT ![t] = @ \ {x}] /\ pend' \in [Queue -> SUBSET Item]
  BY Zenon DEF Pop
<1>4. order' = [order EXCEPT ![t] = Without(t, {x})] /\ order' \in [Queue -> SUBSET (Item \X Item)]
  <2>1. Without(t, {x}) \in SUBSET (Item \X Item)
    BY Zenon DEF Without
  <2> QED
    BY <2>1, Zenon DEF Pop
<1>5. \A r \in Queue : order'[r] \subseteq pend'[r] \X pend'[r]
  BY <1>2, <1>3, <1>4, Zenon
<1> QED
  BY <1>1, <1>3, <1>4, <1>5, Zenon DEF Pop

\* Every step preserves the types.
LEMMA TypeStep ==
  ASSUME IInv, Next
  PROVE  TypeOK'
<1> USE DEF IInv
<1>a. ListType
  BY Zenon DEF TypeOK, ListType
<1>b. ASSUME ListType', UNCHANGED <<flags, curTick, cur, at, call, gmutex, owner, uses>>,
             pc' \in [Queue -> Label]
      PROVE  TypeOK'
  BY Zenon, <1>b DEF TypeOK, ListType
<1>c. ASSUME UNCHANGED <<pend, order, async>> PROVE ListType'
  BY Zenon, <1>a, <1>c DEF ListType
<1>d. \A t \in Queue, l \in Label : Goto(t, l) => pc' \in [Queue -> Label]
  BY DEF TypeOK, Goto
<1>e. \A t \in Queue, q \in Queue : Lock(q, t) => owner' \in [Queue -> Queue \cup {None}]
  BY Zenon DEF TypeOK, Lock
<1>f. \A q \in Queue : Unlock(q) => owner' \in [Queue -> Queue \cup {None}]
  BY Zenon DEF TypeOK, Unlock
<1>1. ASSUME NEW e \in Local, NEW q \in Queue, NEW w \in Tick, StartupSchedule(e, q, w)
      PROVE  TypeOK'
  <2>1. <<e, w>> \in Item
    BY EventFacts, TimeAssumption DEF Item, Tick
  <2>2. ListType'
    BY Zenon, <1>a, <1>1, <2>1, InsertType DEF StartupSchedule
  <2>3. uses' \in [Local -> 0 .. MaxUses]
    BY <1>1, BoundAssumption DEF StartupSchedule, TypeOK
  <2> QED
    BY <1>1, <2>2, <2>3, Zenon DEF StartupSchedule, TypeOK, ListType, lockVars
<1>2. ASSUME NEW g \in FromPython, NEW w \in Tick, PythonSchedule(g, w) PROVE TypeOK'
  <2>1. {<<g, w>>} \in SUBSET (Global \X Nat)
    BY EventFacts, TimeAssumption DEF Tick
  <2>2. ListType' /\ flags' \subseteq flags \cup (Global \X Queue)
    BY Zenon, <1>a, <1>2, <2>1, EverywhereType DEF PythonSchedule
  <2> QED
    BY Zenon, <1>2, <2>2 DEF PythonSchedule, TypeOK, ListType, lockVars
<1>3. CASE Simulate
  <2>1. PICK new \in SUBSET (Global \X Nat) : InsertEverywhere(new)
    <3>1. curTick[0] + Quantum \in Nat
      BY QueueFacts, TimeAssumption DEF TypeOK
    <3> QED
      BY <1>3, <3>1, EventFacts, TimeAssumption DEF Simulate
  <2>2. ListType' /\ flags' \subseteq flags \cup (Global \X Queue)
    BY Zenon, <1>a, <2>1, EverywhereType
  <2>3. pc' \in [Queue -> Label]
    BY Zenon, <1>3, <1>d, QueueFacts DEF Simulate, Label
  <2> QED
    BY Zenon, <1>3, <2>2, <2>3 DEF Simulate, TypeOK, ListType, lockVars
<1>4. CASE StartThreads
  BY Zenon, <1>4, <1>b, <1>c DEF StartThreads, Label, queueVars, lockVars
<1>5. CASE SignalDone
  <2>1. pc' \in [Queue -> Label]
    BY Zenon, <1>5, <1>d, QueueFacts DEF SignalDone, Label
  <2> QED
    BY <1>5, <1>f, <2>1, QueueFacts, SMTT(20) DEF SignalDone, TypeOK, queueVars
<1>6. CASE Finished
  BY Zenon, <1>6, <1>b, <1>c DEF Finished, vars, queueVars, lockVars, TypeOK
<1>7. ASSUME NEW t \in Queue, NEW g \in Global, NEW w \in Nat,
             NEW r \in {"handler", "processed", "signalled"}, BeginGlobal(t, g, w, r)
      PROVE  pc' \in [Queue -> Label] /\ call' \in [Queue -> {None} \cup Call]
  <2>1. pc' \in [Queue -> Label]
    BY Zenon, <1>7, <1>d DEF BeginGlobal, Label
  <2>2. [ev |-> g, when |-> w, next |-> 0, ret |-> r] \in Call
    BY Zenon, EventFacts, QueueFacts DEF Call
  <2> QED
    BY <1>7, <2>1, <2>2, Zenon DEF BeginGlobal, TypeOK
<1>8. ASSUME NEW g \in FromSignal, Signal(g) PROVE TypeOK'
  <2>1. g \in Global /\ curTick[0] + Delay[g] \in Nat
    BY EventFacts, DelayNat, QueueFacts DEF TypeOK
  <2>2. pc' \in [Queue -> Label] /\ call' \in [Queue -> {None} \cup Call]
    BY Zenon, <1>7, <1>8, <2>1, QueueFacts DEF Signal
  <2> QED
    BY Zenon, <1>8, <1>e, <2>2, QueueFacts DEF Signal, TypeOK, queueVars
<1>9. ASSUME NEW t \in Queue, NEW g \in FromHandler, UserSchedule(t, g) PROVE TypeOK'
  <2>1. g \in Global /\ curTick[cur[t]] + Delay[g] \in Nat
    BY EventFacts, DelayNat DEF TypeOK
  <2>2. pc' \in [Queue -> Label] /\ call' \in [Queue -> {None} \cup Call]
    BY Zenon, <1>7, <1>9, <2>1 DEF UserSchedule
  <2> QED
    BY <1>9, <2>2, SMTT(20) DEF UserSchedule, TypeOK, queueVars, lockVars
<1>10. ASSUME NEW t \in Queue, NEW e \in Local, NEW w \in Tick, ScheduleHere(t, e, w)
       PROVE  TypeOK'
  <2>1. <<e, w>> \in Item /\ cur[t] \in Queue
    BY EventFacts, TimeAssumption DEF Item, Tick, TypeOK
  <2>2. ListType'
    BY Zenon, <1>a, <1>10, <2>1, InsertType DEF ScheduleHere
  <2>3. uses' \in [Local -> 0 .. MaxUses]
    BY <1>10, BoundAssumption, SMTT(20) DEF ScheduleHere, Idle, TypeOK
  <2> QED
    BY <1>10, <2>2, <2>3, SMTT(20) DEF ScheduleHere, TypeOK, ListType, lockVars
<1>11. ASSUME NEW t \in Queue, NEW e \in Local, NEW q \in Queue, NEW w \in Tick,
              ScheduleThere(t, e, q, w)
       PROVE  TypeOK'
  <2>1. <<e, w>> \in Item /\ w \in Nat
    BY EventFacts, TimeAssumption DEF Item, Tick
  <2>2. ListType'
    BY Zenon, <1>a, <1>11, <2>1, AsyncInsertType DEF ScheduleThere
  <2>3. uses' \in [Local -> 0 .. MaxUses]
    BY <1>11, BoundAssumption, SMTT(20) DEF ScheduleThere, Idle, TypeOK
  <2>4. [ev |-> e, when |-> w, next |-> q, ret |-> "handler"] \in Call
    BY Zenon, <2>1, EventFacts DEF Call
  <2>5. call' \in [Queue -> {None} \cup Call]
    BY Zenon, <1>11, <2>4 DEF ScheduleThere, TypeOK
  <2>6. pc' \in [Queue -> Label]
    BY Zenon, <1>11, <1>d DEF ScheduleThere, Label
  <2> QED
    BY <1>11, <2>2, <2>3, <2>5, <2>6, Zenon DEF ScheduleThere, TypeOK, ListType, lockVars
<1>12. ASSUME NEW t \in Queue, NEW q \in Queue, Migrate(t, q) PROVE TypeOK'
  <2>1. pc' \in [Queue -> Label]
    BY Zenon, <1>12, <1>d DEF Migrate, Label
  <2>2. owner' \in [Queue -> Queue \cup {None}]
    BY Zenon, <1>12, <1>f DEF Migrate, TypeOK
  <2> QED
    BY <1>12, <2>1, <2>2, Zenon DEF Migrate, TypeOK, queueVars
<1>13. ASSUME NEW t \in Queue, Enter(t) PROVE TypeOK'
  <2>1. ListType' /\ flags' = flags
    BY <1>a, <1>13, HandleType, Zenon DEF Enter, HandleAsyncInsertions
  <2>2. pc' \in [Queue -> Label]
    BY Zenon, <1>13, <1>d DEF Enter, Label
  <2> QED
    BY Zenon, <1>13, <1>b, <2>1, <2>2 DEF Enter, lockVars
<1>14. ASSUME NEW t \in Queue, NEW x \in pend[t], ServiceLocal(t, x) PROVE TypeOK'
  <2>1. pc' \in [Queue -> Label]
    BY Zenon, <1>14, <1>d DEF ServiceLocal, Label
  <2>2. owner' \in [Queue -> Queue \cup {None}]
    BY Zenon, <1>14, <1>e DEF ServiceLocal
  <2> QED
    BY <1>14, <2>1, <2>2, PopType, Zenon DEF ServiceLocal, TypeOK, ListType
<1>15. ASSUME NEW t \in Queue, NEW x \in pend[t], ServiceGlobal(t, x) PROVE TypeOK'
  <2>1. pc' \in [Queue -> Label] /\ owner' \in [Queue -> Queue \cup {None}]
    <3>1. CASE Waiting(x[1], "barrier1") = Queue \ {t}
      <4>1. /\ pc' = [u \in Queue |-> IF u = t THEN "process" ELSE "passed1"]
            /\ owner' = [owner EXCEPT ![t] = t]
        BY Zenon, <1>15, <3>1 DEF ServiceGlobal
      <4>2. owner' \in [Queue -> Queue \cup {None}]
        BY Zenon, <4>1 DEF TypeOK
      <4>3. pc' \in [Queue -> Label]
        BY Zenon, <4>1 DEF Label
      <4> QED
        BY Zenon, <4>2, <4>3
    <3>2. CASE Waiting(x[1], "barrier1") # Queue \ {t}
      BY <1>15, <1>d, <3>2, SMTT(20) DEF ServiceGlobal, Label, TypeOK
    <3> QED
      BY Zenon, <3>1, <3>2
  <2>2. at' \in [Queue -> Global \cup {None}]
    BY Zenon, <1>15 DEF ServiceGlobal, TypeOK
  <2>3. Pop(t, x)
    BY Zenon, <1>15 DEF ServiceGlobal
  <2>4. /\ ListType' /\ flags' \subseteq flags /\ curTick' \in [Queue -> Nat]
        /\ UNCHANGED <<cur, call, gmutex, uses>>
    BY Zenon, <2>3, PopType
  <2> QED
    BY Zenon, <2>1, <2>2, <2>4 DEF TypeOK, ListType
<1>16. ASSUME NEW t \in Queue, Barrier2(t) PROVE pc' \in [Queue -> Label]
  <2>1. CASE Waiting(at[t], "barrier2") = Queue \ {t}
    BY Zenon, <1>16, <2>1 DEF Barrier2, Label
  <2>2. CASE Waiting(at[t], "barrier2") # Queue \ {t}
    BY Zenon, <1>16, <1>d, <2>2 DEF Barrier2, Label
  <2> QED
    BY Zenon, <2>1, <2>2
<1>17. ASSUME NEW t \in Queue, Passed1(t) PROVE TypeOK'
  BY Zenon, <1>16, <1>17, <1>b, <1>c DEF Passed1, Barrier2, queueVars
<1>18. ASSUME NEW t \in Queue, Processed(t) PROVE TypeOK'
  BY <1>16, <1>18, <1>c, <1>f, Zenon DEF Processed, Barrier2, queueVars, TypeOK
<1>19. ASSUME NEW t \in Queue, ProcessSync(t) PROVE TypeOK'
  <2>1. Sync \in Global /\ curTick[t] + Quantum \in Nat
    BY EventFacts, TimeAssumption DEF TypeOK
  <2>2. pc' \in [Queue -> Label] /\ call' \in [Queue -> {None} \cup Call]
    BY Zenon, <1>7, <1>19, <2>1 DEF ProcessSync
  <2> QED
    BY Zenon, <1>19, <2>2 DEF ProcessSync, TypeOK, queueVars, lockVars
<1>19a. ASSUME NEW t \in Queue, ProcessRepeat(t) PROVE TypeOK'
  <2>1. at[t] \in Global /\ Again(t, at[t]) \in Nat
    BY Zenon, <1>19a, RepeatType DEF ProcessRepeat, Repeats
  <2>2. pc' \in [Queue -> Label] /\ call' \in [Queue -> {None} \cup Call]
    BY Zenon, <1>7, <1>19a, <2>1 DEF ProcessRepeat
  <2> QED
    BY Zenon, <1>19a, <2>2 DEF ProcessRepeat, TypeOK, queueVars, lockVars
<1>20. ASSUME NEW t \in Queue, ProcessOther(t) PROVE TypeOK'
  <2>1. pc' \in [Queue -> Label]
    BY Zenon, <1>20, <1>d DEF ProcessOther, Label
  <2> QED
    BY Zenon, <1>20, <1>b, <1>c, <2>1 DEF ProcessOther, queueVars, lockVars
<1>21. ASSUME NEW t \in Queue, PassedSync(t) PROVE TypeOK'
  <2>1. ListType' /\ flags' = flags
    BY <1>a, <1>21, HandleType, Zenon DEF PassedSync, HandleAsyncInsertions
  <2>2. pc' \in [Queue -> Label] /\ at' \in [Queue -> Global \cup {None}]
    BY Zenon, <1>21, <1>d DEF PassedSync, Label, TypeOK
  <2> QED
    BY Zenon, <1>21, <2>1, <2>2 DEF PassedSync, lockVars, TypeOK, ListType
<1>22. ASSUME NEW t \in Queue, PassedGlobal(t) PROVE TypeOK'
  <2>1. pc' \in [Queue -> Label] /\ at' \in [Queue -> Global \cup {None}]
    BY Zenon, <1>22, <1>d DEF PassedGlobal, Label, TypeOK
  <2> QED
    BY Zenon, <1>22, <2>1 DEF PassedGlobal, queueVars, lockVars, TypeOK
<1>23. ASSUME NEW t \in Queue, PassedExit(t) PROVE TypeOK'
  <2>1. at' \in [Queue -> Global \cup {None}]
    BY <1>23, SMTT(20) DEF PassedExit, TypeOK
  <2>2. CASE t # 0
    <3>1. pc' \in [Queue -> Label]
      BY <1>23, <1>d, <2>2, Zenon DEF PassedExit, Label
    <3> QED
      BY <1>23, <2>1, <2>2, <3>1 DEF PassedExit, TypeOK, lockVars
  <2>3. CASE t = 0
    <3> DEFINE quanta(q) == {x \in pend[q] : x[1] = Sync}
    <3>1. /\ pend' = [q \in Queue |-> pend[q] \ quanta(q)]
          /\ order' = [q \in Queue |-> Without(q, quanta(q))]
          /\ flags' \subseteq flags
          /\ pc' = [pc EXCEPT ![0] = "outside"] \/ pc' = [pc EXCEPT ![0] = "panic"]
      BY Zenon, <1>23, <2>3 DEF PassedExit
    <3>2. pc' \in [Queue -> Label]
      <4>1. "outside" \in Label /\ "panic" \in Label
        BY Zenon DEF Label
      <4>2. pc \in [Queue -> Label]
        BY Zenon DEF TypeOK
      <4> QED
        BY Zenon, <3>1, <4>1, <4>2
    <3>3. \A q \in Queue : Without(q, quanta(q)) \subseteq (pend[q] \ quanta(q)) \X (pend[q] \ quanta(q))
      <4> TAKE q \in Queue
      <4>1. order[q] \subseteq pend[q] \X pend[q]
        BY Zenon DEF TypeOK
      <4> QED
        BY Zenon, <4>1 DEF Without
    <3>4. \A q \in Queue : Without(q, quanta(q)) \in SUBSET (Item \X Item)
      BY Zenon DEF Without, TypeOK
    <3>5. pend' \in [Queue -> SUBSET Item] /\ order' \in [Queue -> SUBSET (Item \X Item)]
      BY Zenon, <3>1, <3>4 DEF TypeOK
    <3>6. \A q \in Queue : order'[q] \subseteq pend'[q] \X pend'[q]
      BY Zenon, <3>1, <3>3
    <3> HIDE DEF quanta
    <3> QED
      BY <1>23, <2>1, <3>1, <3>2, <3>5, <3>6, SMTT(20) DEF PassedExit, TypeOK, lockVars
  <2> QED
    BY Zenon, <2>2, <2>3
<1>24. ASSUME NEW t \in Queue, GlobalInsert(t) PROVE TypeOK'
  <2> DEFINE c == call[t]
  <2>1. c \in Call /\ c.ev \in Global
    BY Zenon, <1>24 DEF GlobalInsert, CallInv, CallOK
  <2>2. <<c.ev, c.when>> \in Item /\ c.next \in Queue /\ c.ret \in Label
    BY Zenon, <2>1, EventFacts DEF Call, Item, Label
  <2>3. ListType'
    BY Zenon, <1>a, <1>24, <2>2, AsyncInsertType DEF GlobalInsert
  <2>4. pc' \in [Queue -> Label]
    BY Zenon, <1>24, <1>d, <2>2 DEF GlobalInsert, TypeOK
  <2>5. call' \in [Queue -> {None} \cup Call]
    <3>1. CASE c.next = N - 1
      BY <1>24, <3>1, Zenon DEF GlobalInsert, TypeOK
    <3>2. CASE c.next # N - 1
      <4>1. c.next + 1 \in Queue
        BY <2>2, <3>2, NAssumption DEF Queue
      <4>2. [c EXCEPT !.next = c.next + 1] \in Call
        BY Zenon, <2>1, <4>1 DEF Call
      <4>3. call' = [call EXCEPT ![t] = [c EXCEPT !.next = c.next + 1]]
        BY Zenon, <1>24, <3>2 DEF GlobalInsert
      <4> QED
        BY Zenon, <4>2, <4>3 DEF TypeOK
    <3> QED
      BY Zenon, <3>1, <3>2
  <2>6. flags' \subseteq Local \cup (Global \X Queue) /\ gmutex' \in Queue \cup {None}
    BY <1>24, <2>1, <2>2 DEF GlobalInsert, TypeOK
  <2> QED
    BY <1>24, <2>3, <2>4, <2>5, <2>6, SMTT(20) DEF GlobalInsert, TypeOK, ListType
<1>25. ASSUME NEW t \in Queue, SetFlag(t) PROVE TypeOK'
  <2>1. call[t].ev \in Local
    BY Zenon, <1>25 DEF SetFlag, CallInv, CallOK
  <2>2. pc' \in [Queue -> Label]
    BY Zenon, <1>25, <1>d DEF SetFlag, Label
  <2> QED
    BY <1>25, <2>1, <2>2, Zenon DEF SetFlag, TypeOK, lockVars
<1>26. ASSUME NEW t \in Queue, MigrateLock(t) PROVE TypeOK'
  <2>1. pc' \in [Queue -> Label]
    BY Zenon, <1>26, <1>d DEF MigrateLock, Label
  <2>2. owner' \in [Queue -> Queue \cup {None}]
    BY Zenon, <1>26, <1>e DEF MigrateLock, TypeOK
  <2> QED
    BY <1>26, <2>1, <2>2, SMTT(20) DEF MigrateLock, TypeOK, queueVars
<1>27. ASSUME NEW t \in Queue, EndHandler(t) PROVE TypeOK'
  <2>1. pc' \in [Queue -> Label]
    BY Zenon, <1>27, <1>d DEF EndHandler, Label
  <2> QED
    BY Zenon, <1>27, <1>f, <2>1 DEF EndHandler, TypeOK, queueVars
<1>28. CASE Client
  BY Zenon, <1>28, <1>1, <1>2, <1>8, <1>9, <1>10, <1>11, <1>12 DEF Client
<1>29. ASSUME NEW t \in Queue, Thread(t) PROVE TypeOK'
  BY <1>29, <1>13, <1>14, <1>15, <1>17, <1>18, <1>19, <1>19a, <1>20, <1>21, <1>22, <1>23, <1>24, Zenon,
     <1>25, <1>26, <1>27 DEF Thread
<1> QED
  BY Zenon, <1>3, <1>4, <1>5, <1>6, <1>28, <1>29 DEF Next

(***************************************************************************)
(* Most steps change the state of one thread only.                         *)
(***************************************************************************)
Others(t) ==
  \A u \in Queue \ {t} : /\ pc'[u] = pc[u] /\ call'[u] = call[u]
                         /\ at'[u] = at[u] /\ cur'[u] = cur[u]

\* A step of one thread leaves the calls of the others alone.
LEMMA CallLocal ==
  ASSUME CallInv, NEW t \in Queue, Others(t), CallOK(t)'
  PROVE  CallInv'
  BY Zenon DEF CallInv, CallOK, Others

\* A thread that is not between the barriers does not disturb those that are.
LEMMA OutsideLocal ==
  ASSUME BarrierInv, NEW t \in Queue, Others(t), ~Inside(t), ~Inside(t)'
  PROVE  BarrierInv'
<1>1. \A u \in Queue : ~Inside(u)
  BY Zenon DEF BarrierInv
<1>2. \A u \in Queue : ~Inside(u)'
  BY Zenon, <1>1 DEF Others, Inside, Processing
<1> QED
  BY Zenon, <1>2 DEF BarrierInv

\* A thread may move on between the barriers.
LEMMA InsideLocal ==
  ASSUME BarrierInv, NEW t \in Queue, Others(t), Inside(t), Inside(t)',
         at'[t] = at[t], Processing(t)' => Processing(t)
  PROVE  BarrierInv'
<1>1. \A u \in Queue : Inside(u) /\ at[u] = at[t]
  BY Zenon DEF BarrierInv
<1>2. \A u \in Queue : Inside(u)' /\ at'[u] = at[t] /\ (Processing(u)' => Processing(u))
  BY <1>1 DEF Others, Inside, Processing
<1> QED
  BY Zenon, <1>1, <1>2 DEF BarrierInv

\* A thread that takes or gives only its own locks leaves the others theirs.
LEMMA LockLocal ==
  ASSUME LockInv, NEW t \in Queue, Others(t), LockOK(t)', cur \in [Queue -> Queue],
         \A q \in Queue : owner'[q] = owner[q] \/ owner[q] \in {None, t}
  PROVE  LockInv'
<1> SUFFICES ASSUME NEW u \in Queue, u # t PROVE LockOK(u)'
  BY Zenon DEF LockInv
<1>1. LockOK(u) /\ u # None /\ cur[u] \in Queue
  BY Zenon, QueueFacts DEF LockInv
<1>2. pc'[u] = pc[u] /\ call'[u] = call[u] /\ cur'[u] = cur[u]
  BY Zenon DEF Others
<1>3. Holds(u) => owner'[cur[u]] = u
  BY Zenon, <1>1 DEF LockOK
<1> QED
  BY Zenon, <1>1, <1>2, <1>3 DEF LockOK, Holds, Away

\* A step of thread t outside the barriers.
LEMMA OutsideStep ==
  ASSUME IInv, NEW t \in Queue, Others(t), CallOK(t)', ~Inside(t), ~Inside(t)', LockOK(t)',
         \A q \in Queue : owner'[q] = owner[q] \/ owner[q] \in {None, t}
  PROVE  CallInv' /\ BarrierInv' /\ LockInv'
  BY CallLocal, OutsideLocal, LockLocal, Zenon DEF IInv, TypeOK

\* A step of thread t between the barriers.
LEMMA InsideStep ==
  ASSUME IInv, NEW t \in Queue, Others(t), CallOK(t)', Inside(t), Inside(t)', LockOK(t)',
         at'[t] = at[t], Processing(t)' => Processing(t),
         \A q \in Queue : owner'[q] = owner[q] \/ owner[q] \in {None, t}
  PROVE  CallInv' /\ BarrierInv' /\ LockInv'
  BY CallLocal, InsideLocal, LockLocal, Zenon DEF IInv, TypeOK

\* A step that leaves the control of all threads alone.
LEMMA QuietStep ==
  ASSUME IInv, UNCHANGED <<pc, call, at, cur, owner>>
  PROVE  CallInv' /\ BarrierInv' /\ LockInv'
  BY DEF IInv, CallInv, CallOK, BarrierInv, LockInv, LockOK, Inside, Processing, Holds, Away

\* Every step preserves the invariants of calls, barriers and locks.
LEMMA ControlStep ==
  ASSUME IInv, Next
  PROVE  CallInv' /\ BarrierInv' /\ LockInv'
<1> DEFINE Goal == CallInv' /\ BarrierInv' /\ LockInv'
<1> USE DEF IInv
<1>a. /\ pc \in [Queue -> Label] /\ call \in [Queue -> {None} \cup Call]
      /\ at \in [Queue -> Global \cup {None}] /\ cur \in [Queue -> Queue]
      /\ owner \in [Queue -> Queue \cup {None}]
  BY Zenon DEF TypeOK
<1>b. \A t \in Queue : CallOK(t) /\ LockOK(t)
  BY Zenon DEF CallInv, LockInv
<1>1. CASE Finished \/ \E e \in Local, q \in Queue, w \in Tick : StartupSchedule(e, q, w)
  BY <1>1, QuietStep, Zenon DEF Finished, StartupSchedule, vars, lockVars
<1>2. CASE \E g \in FromPython, w \in Tick : PythonSchedule(g, w)
  BY Zenon, <1>2, QuietStep DEF PythonSchedule, lockVars
<1>3. CASE \E t \in Queue, e \in Local, w \in Tick : ScheduleHere(t, e, w)
  BY Zenon, <1>3, QuietStep DEF ScheduleHere, lockVars
<1>4. CASE Simulate
  <2>1. /\ pc[0] = "outside" /\ pc' = [pc EXCEPT ![0] = "starting"]
        /\ UNCHANGED <<call, at, cur, owner>>
    BY Zenon, <1>4 DEF Simulate, Goto, lockVars
  <2>2. 0 \in Queue
    BY Zenon, QueueFacts
  <2>3. Others(0) /\ pc'[0] = "starting"
    BY Zenon, <1>a, <2>1, <2>2 DEF Others
  <2>4. CallOK(0)' /\ ~Inside(0) /\ ~Inside(0)' /\ LockOK(0)'
    BY Zenon, <1>b, <2>1, <2>2, <2>3 DEF CallOK, Inside, Processing, LockOK, Holds, Away
  <2> QED
    BY Zenon, <2>1, <2>2, <2>3, <2>4, OutsideStep
<1>5. CASE StartThreads
  <2>1. /\ pc[0] = "starting" /\ \A t \in Queue \ {0} : pc[t] = "stopped"
        /\ pc' = [t \in Queue |-> "enter"] /\ UNCHANGED <<call, at, cur, owner>>
    BY Zenon, <1>5 DEF StartThreads, lockVars
  <2>2. \A t \in Queue : pc'[t] = "enter" /\ cur'[t] = t
    BY Zenon, <1>b, <2>1 DEF LockOK, Away
  <2> QED
    BY Zenon, <2>2 DEF CallInv, CallOK, BarrierInv, Inside, Processing, LockInv, LockOK, Holds, Away
<1>6. CASE SignalDone
  <2>1. /\ pc[0] = "signalled" /\ pc' = [pc EXCEPT ![0] = "loop"]
        /\ owner' = [owner EXCEPT ![0] = None] /\ UNCHANGED <<call, at, cur>>
    BY Zenon, <1>6 DEF SignalDone, Goto, Unlock
  <2>2. 0 \in Queue
    BY QueueFacts
  <2>3. Others(0) /\ pc'[0] = "loop" /\ cur[0] = 0 /\ owner[0] = 0
    BY Zenon, <1>a, <1>b, <2>1, <2>2 DEF Others, LockOK, Holds, Away
  <2>4. CallOK(0)' /\ ~Inside(0) /\ ~Inside(0)' /\ LockOK(0)'
    BY Zenon, <2>1, <2>2, <2>3 DEF CallOK, Inside, Processing, LockOK, Holds, Away
  <2>5. \A q \in Queue : owner'[q] = owner[q] \/ owner[q] \in {None, 0}
    BY Zenon, <1>a, <2>1, <2>3
  <2> QED
    BY Zenon, <2>2, <2>3, <2>4, <2>5, OutsideStep
<1>7. ASSUME NEW g \in FromSignal, Signal(g) PROVE Goal
  <2>1. /\ pc[0] = "loop" /\ pc' = [pc EXCEPT ![0] = "gschedule"]
        /\ call' = [call EXCEPT ![0] = [ev |-> g, when |-> curTick[0] + Delay[g],
                                        next |-> 0, ret |-> "signalled"]]
        /\ owner[0] = None /\ owner' = [owner EXCEPT ![0] = 0] /\ UNCHANGED <<at, cur>>
    BY Zenon, <1>7 DEF Signal, BeginGlobal, Goto, Lock
  <2>2. 0 \in Queue /\ g \in Global /\ g \in Event /\ curTick[0] + Delay[g] \in Nat
    BY QueueFacts, EventFacts, DelayNat DEF TypeOK
  <2>3. /\ Others(0) /\ pc'[0] = "gschedule" /\ cur'[0] = 0 /\ owner'[0] = 0
        /\ call'[0] = [ev |-> g, when |-> curTick[0] + Delay[g], next |-> 0, ret |-> "signalled"]
    BY Zenon, <1>a, <1>b, <2>1, <2>2 DEF Others, LockOK, Away
  <2>a. call'[0] \in Call /\ call'[0].ev = g /\ call'[0].ret = "signalled"
    <3> DEFINE c == [ev |-> g, when |-> curTick[0] + Delay[g], next |-> 0, ret |-> "signalled"]
    <3>1. c \in Call /\ c.ev = g /\ c.ret = "signalled"
      BY Zenon, <2>2 DEF Call
    <3>2. call'[0] = c
      BY Zenon, <2>3
    <3> HIDE DEF c
    <3> QED
      BY Zenon, <3>1, <3>2
  <2>4. CallOK(0)' /\ call'[0].ret = "signalled"
    BY Zenon, <2>a, <2>2, <2>3 DEF CallOK
  <2>5. ~Inside(0) /\ ~Inside(0)' /\ LockOK(0)'
    BY Zenon, <2>1, <2>3, <2>4 DEF Inside, Processing, LockOK, Holds, Away
  <2>6. \A q \in Queue : owner'[q] = owner[q] \/ owner[q] \in {None, 0}
    BY Zenon, <1>a, <2>1
  <2> QED
    BY Zenon, <2>2, <2>3, <2>4, <2>5, <2>6, OutsideStep
<1>8. ASSUME NEW t \in Queue, NEW g \in FromHandler, UserSchedule(t, g) PROVE Goal
  <2> DEFINE w == curTick[cur[t]] + Delay[g]
  <2>1. /\ pc[t] = "handler" /\ pc' = [pc EXCEPT ![t] = "gschedule"]
        /\ call' = [call EXCEPT ![t] = [ev |-> g, when |-> w, next |-> 0, ret |-> "handler"]]
        /\ UNCHANGED <<at, cur, owner>>
    BY Zenon, <1>8 DEF UserSchedule, BeginGlobal, Goto, lockVars
  <2>2. g \in Global /\ g \in Event /\ w \in Nat /\ 0 \in Queue
    BY EventFacts, DelayNat, QueueFacts, SMTT(20) DEF TypeOK
  <2> HIDE DEF w
  <2>3. /\ Others(t) /\ pc'[t] = "gschedule"
        /\ call'[t] = [ev |-> g, when |-> w, next |-> 0, ret |-> "handler"]
    BY Zenon, <1>a, <2>1 DEF Others
  <2>a. call'[t] \in Call /\ call'[t].ev = g /\ call'[t].ret = "handler"
    <3> DEFINE c == [ev |-> g, when |-> w, next |-> 0, ret |-> "handler"]
    <3>1. c \in Call /\ c.ev = g /\ c.ret = "handler"
      BY Zenon, <2>2 DEF Call
    <3>2. call'[t] = c
      BY Zenon, <2>3
    <3> HIDE DEF c
    <3> QED
      BY Zenon, <3>1, <3>2
  <2>4. CallOK(t)' /\ call'[t].ret = "handler"
    BY Zenon, <2>a, <2>2, <2>3 DEF CallOK
  <2>5. ~Inside(t) /\ ~Inside(t)' /\ LockOK(t)'
    BY Zenon, <1>b, <2>1, <2>3, <2>4 DEF Inside, Processing, LockOK, Holds, Away
  <2> QED
    BY Zenon, <2>1, <2>3, <2>4, <2>5, OutsideStep
<1>9. ASSUME NEW t \in Queue, NEW e \in Local, NEW q \in Queue, NEW w \in Tick,
             ScheduleThere(t, e, q, w)
      PROVE  Goal
  <2>1. /\ pc[t] = "handler" /\ pc' = [pc EXCEPT ![t] = "flag"]
        /\ call' = [call EXCEPT ![t] = [ev |-> e, when |-> w, next |-> q, ret |-> "handler"]]
        /\ UNCHANGED <<at, cur, owner>>
    BY <1>9, Zenon DEF ScheduleThere, Goto, lockVars
  <2>2. e \in Event /\ w \in Nat
    BY EventFacts, TimeAssumption DEF Tick
  <2>3. /\ Others(t) /\ pc'[t] = "flag"
        /\ call'[t] = [ev |-> e, when |-> w, next |-> q, ret |-> "handler"]
    BY Zenon, <1>a, <2>1 DEF Others
  <2>a. call'[t] \in Call /\ call'[t].ev = e
    <3> DEFINE c == [ev |-> e, when |-> w, next |-> q, ret |-> "handler"]
    <3>1. c \in Call /\ c.ev = e
      BY Zenon, <2>2 DEF Call
    <3>2. call'[t] = c
      BY <2>3, Zenon
    <3> HIDE DEF c
    <3> QED
      BY Zenon, <3>1, <3>2
  <2>4. CallOK(t)'
    BY Zenon, <2>a, <2>3 DEF CallOK
  <2>5. ~Inside(t) /\ ~Inside(t)' /\ LockOK(t)'
    BY Zenon, <1>b, <2>1, <2>3 DEF Inside, Processing, LockOK, Holds, Away
  <2> QED
    BY <2>1, <2>3, <2>4, <2>5, OutsideStep, Zenon
<1>10. ASSUME NEW t \in Queue, NEW q \in Queue, Migrate(t, q) PROVE Goal
  <2>1. /\ pc[t] = "handler" /\ pc' = [pc EXCEPT ![t] = "lock"]
        /\ cur' = [cur EXCEPT ![t] = q] /\ owner' = [owner EXCEPT ![cur[t]] = None]
        /\ UNCHANGED <<at, call>>
    BY Zenon, <1>10 DEF Migrate, Goto, Unlock
  <2>2. Others(t) /\ pc'[t] = "lock" /\ owner[cur[t]] = t
    BY Zenon, <1>a, <1>b, <2>1 DEF Others, LockOK, Holds
  <2>3. CallOK(t)' /\ ~Inside(t) /\ ~Inside(t)' /\ LockOK(t)'
    BY Zenon, <2>1, <2>2 DEF CallOK, Inside, Processing, LockOK, Holds, Away
  <2>4. \A r \in Queue : owner'[r] = owner[r] \/ owner[r] \in {None, t}
    BY Zenon, <1>a, <2>1, <2>2
  <2> QED
    BY <2>2, <2>3, <2>4, OutsideStep, Zenon
<1>11. ASSUME NEW t \in Queue, Enter(t) PROVE Goal
  <2>1. /\ pc[t] = "enter" /\ pc' = [pc EXCEPT ![t] = "loop"]
        /\ owner' = owner
        /\ at' = at /\ UNCHANGED <<call, cur>>
    BY Zenon, <1>11 DEF Enter, Goto, lockVars
  <2>2. Others(t) /\ pc'[t] = "loop"
    BY Zenon, <1>a, <1>b, <2>1 DEF Others, LockOK, Holds
  <2>3. CallOK(t)' /\ ~Inside(t) /\ ~Inside(t)' /\ LockOK(t)'
    BY Zenon, <1>a, <1>b, <2>1, <2>2 DEF CallOK, Inside, Processing, LockOK, Holds, Away
  <2>4. \A r \in Queue : owner'[r] = owner[r] \/ owner[r] \in {None, t}
    BY Zenon, <1>a, <1>b, <2>1, <2>2 DEF LockOK, Away
  <2> QED
    BY Zenon, <2>2, <2>3, <2>4, OutsideStep
<1>12. ASSUME NEW t \in Queue, NEW x \in pend[t], ServiceLocal(t, x) PROVE Goal
  <2>1. /\ pc[t] = "loop" /\ pc' = [pc EXCEPT ![t] = "handler"]
        /\ owner[t] = None /\ owner' = [owner EXCEPT ![t] = t]
        /\ at' = at /\ UNCHANGED <<call, cur>>
    BY Zenon, <1>12 DEF ServiceLocal, Pop, Goto, Lock
  <2>2. Others(t) /\ pc'[t] = "handler"
    BY Zenon, <1>a, <1>b, <2>1 DEF Others, LockOK, Holds
  <2>3. CallOK(t)' /\ ~Inside(t) /\ ~Inside(t)' /\ LockOK(t)'
    BY Zenon, <1>a, <1>b, <2>1, <2>2 DEF CallOK, Inside, Processing, LockOK, Holds, Away
  <2>4. \A r \in Queue : owner'[r] = owner[r] \/ owner[r] \in {None, t}
    BY Zenon, <1>a, <1>b, <2>1, <2>2 DEF LockOK, Away
  <2> QED
    BY Zenon, <2>2, <2>3, <2>4, OutsideStep
<1>13. ASSUME NEW t \in Queue, PassedSync(t) PROVE Goal
  <2>1. /\ pc[t] = "passed2" /\ pc' = [pc EXCEPT ![t] = "loop"]
        /\ owner' = owner
        /\ \E g : at' = [at EXCEPT ![t] = g] /\ UNCHANGED <<call, cur>>
    BY <1>13, Zenon DEF PassedSync, Goto, lockVars
  <2>2. Others(t) /\ pc'[t] = "loop"
    BY <1>a, <1>b, <2>1 DEF Others, LockOK, Holds
  <2>3. CallOK(t)' /\ ~Inside(t) /\ ~Inside(t)' /\ LockOK(t)'
    BY Zenon, <1>a, <1>b, <2>1, <2>2 DEF CallOK, Inside, Processing, LockOK, Holds, Away
  <2>4. \A r \in Queue : owner'[r] = owner[r] \/ owner[r] \in {None, t}
    BY Zenon, <1>a, <1>b, <2>1, <2>2 DEF LockOK, Away
  <2> QED
    BY <2>2, <2>3, <2>4, OutsideStep, Zenon
<1>14. ASSUME NEW t \in Queue, PassedGlobal(t) PROVE Goal
  <2>1. /\ pc[t] = "passed2" /\ pc' = [pc EXCEPT ![t] = "loop"]
        /\ owner' = owner
        /\ \E g : at' = [at EXCEPT ![t] = g] /\ UNCHANGED <<call, cur>>
    BY <1>14, Zenon DEF PassedGlobal, Goto, lockVars
  <2>2. Others(t) /\ pc'[t] = "loop"
    BY <1>a, <1>b, <2>1 DEF Others, LockOK, Holds
  <2>3. CallOK(t)' /\ ~Inside(t) /\ ~Inside(t)' /\ LockOK(t)'
    BY <1>a, <1>b, <2>1, <2>2 DEF CallOK, Inside, Processing, LockOK, Holds, Away
  <2>4. \A r \in Queue : owner'[r] = owner[r] \/ owner[r] \in {None, t}
    BY <1>a, <1>b, <2>1, <2>2 DEF LockOK, Away
  <2> QED
    BY <2>2, <2>3, <2>4, OutsideStep
<1>15. ASSUME NEW t \in Queue, MigrateLock(t) PROVE Goal
  <2>1. /\ pc[t] = "lock" /\ pc' = [pc EXCEPT ![t] = "handler"]
        /\ owner[cur[t]] = None /\ owner' = [owner EXCEPT ![cur[t]] = t]
        /\ at' = at /\ UNCHANGED <<call, cur>>
    BY Zenon, <1>15 DEF MigrateLock, Goto, Lock
  <2>2. Others(t) /\ pc'[t] = "handler"
    BY Zenon, <1>a, <1>b, <2>1 DEF Others, LockOK, Holds
  <2>3. CallOK(t)' /\ ~Inside(t) /\ ~Inside(t)' /\ LockOK(t)'
    BY Zenon, <1>a, <1>b, <2>1, <2>2 DEF CallOK, Inside, Processing, LockOK, Holds, Away
  <2>4. \A r \in Queue : owner'[r] = owner[r] \/ owner[r] \in {None, t}
    BY Zenon, <1>a, <1>b, <2>1, <2>2 DEF LockOK, Away
  <2> QED
    BY Zenon, <2>2, <2>3, <2>4, OutsideStep
<1>16. ASSUME NEW t \in Queue, EndHandler(t) PROVE Goal
  <2>1. /\ pc[t] = "handler" /\ pc' = [pc EXCEPT ![t] = "loop"] /\ cur[t] = t
        /\ owner' = [owner EXCEPT ![t] = None] /\ UNCHANGED <<call, at, cur>>
    BY Zenon, <1>16 DEF EndHandler, Goto, Unlock
  <2>2. Others(t) /\ pc'[t] = "loop" /\ owner[t] = t
    BY Zenon, <1>a, <1>b, <2>1 DEF Others, LockOK, Holds
  <2>3. CallOK(t)' /\ ~Inside(t) /\ ~Inside(t)' /\ LockOK(t)'
    BY Zenon, <2>1, <2>2 DEF CallOK, Inside, Processing, LockOK, Holds, Away
  <2>4. \A r \in Queue : owner'[r] = owner[r] \/ owner[r] \in {None, t}
    BY Zenon, <1>a, <2>1, <2>2
  <2> QED
    BY Zenon, <2>2, <2>3, <2>4, OutsideStep
<1>17. ASSUME NEW t \in Queue, PassedExit(t) PROVE Goal
  <2>1. /\ pc[t] = "passed2" /\ at' = [at EXCEPT ![t] = None] /\ UNCHANGED <<call, cur, owner>>
        /\ \E l \in {"stopped", "outside", "panic"} : pc' = [pc EXCEPT ![t] = l]
    BY Zenon, <1>17 DEF PassedExit, Goto, lockVars
  <2>2. Others(t) /\ pc'[t] \in {"stopped", "outside", "panic"}
    BY <1>a, <2>1 DEF Others
  <2>3. CallOK(t)' /\ ~Inside(t) /\ ~Inside(t)' /\ LockOK(t)'
    BY Zenon, <1>b, <2>1, <2>2 DEF CallOK, Inside, Processing, LockOK, Holds, Away
  <2> QED
    BY Zenon, <2>1, <2>2, <2>3, OutsideStep
<1>18. ASSUME NEW t \in Queue, SetFlag(t) PROVE Goal
  <2>1. /\ pc[t] = "flag" /\ pc' = [pc EXCEPT ![t] = "handler"]
        /\ call' = [call EXCEPT ![t] = None] /\ UNCHANGED <<at, cur, owner>>
    BY Zenon, <1>18 DEF SetFlag, Goto, lockVars
  <2>2. Others(t) /\ pc'[t] = "handler"
    BY Zenon, <1>a, <2>1 DEF Others
  <2>3. CallOK(t)' /\ ~Inside(t) /\ ~Inside(t)' /\ LockOK(t)'
    BY Zenon, <1>b, <2>1, <2>2 DEF CallOK, Inside, Processing, LockOK, Holds, Away
  <2> QED
    BY <2>1, <2>2, <2>3, OutsideStep, Zenon
<1>19. ASSUME NEW t \in Queue, ProcessSync(t) PROVE Goal
  <2> DEFINE c == [ev |-> Sync, when |-> curTick[t] + Quantum, next |-> 0, ret |-> "processed"]
  <2>1. /\ pc[t] = "process" /\ pc' = [pc EXCEPT ![t] = "gschedule"]
        /\ call' = [call EXCEPT ![t] = c] /\ UNCHANGED <<at, cur, owner>>
    BY Zenon, <1>19 DEF ProcessSync, BeginGlobal, Goto, lockVars
  <2>2. c \in Call /\ c.ev \in Global /\ c.ret = "processed"
    BY EventFacts, QueueFacts, TimeAssumption, SMTT(20) DEF Call, TypeOK
  <2> HIDE DEF c
  <2>3. Others(t) /\ pc'[t] = "gschedule" /\ call'[t] = c
    BY Zenon, <1>a, <2>1 DEF Others
  <2>4. CallOK(t)' /\ Inside(t) /\ Inside(t)' /\ Processing(t) /\ LockOK(t)'
    BY Zenon, <1>b, <2>1, <2>2, <2>3 DEF CallOK, Inside, Processing, LockOK, Holds, Away
  <2> QED
    BY <2>1, <2>3, <2>4, InsideStep, Zenon
<1>19a. ASSUME NEW t \in Queue, ProcessRepeat(t) PROVE Goal
  <2> DEFINE c == [ev |-> at[t], when |-> Again(t, at[t]), next |-> 0, ret |-> "processed"]
  <2>1. /\ pc[t] = "process" /\ pc' = [pc EXCEPT ![t] = "gschedule"]
        /\ call' = [call EXCEPT ![t] = c] /\ UNCHANGED <<at, cur, owner>>
        /\ at[t] \in User
    BY Zenon, <1>19a DEF ProcessRepeat, Repeats, BeginGlobal, Goto, lockVars
  <2>2. at[t] \in Global /\ Again(t, at[t]) \in Nat
    BY Zenon, <2>1, RepeatType
  <2>3. c \in Call /\ c.ev \in Global /\ c.ret = "processed"
    BY Zenon, <2>2, EventFacts, QueueFacts DEF Call
  <2> HIDE DEF c
  <2>4. Others(t) /\ pc'[t] = "gschedule" /\ call'[t] = c
    BY Zenon, <1>a, <2>1 DEF Others
  <2>5. CallOK(t)' /\ Inside(t) /\ Inside(t)' /\ Processing(t) /\ LockOK(t)'
    BY Zenon, <1>b, <2>1, <2>3, <2>4 DEF CallOK, Inside, Processing, LockOK, Holds, Away
  <2> QED
    BY <2>1, <2>4, <2>5, InsideStep, Zenon
<1>20. ASSUME NEW t \in Queue, ProcessOther(t) PROVE Goal
  <2>1. /\ pc[t] = "process" /\ pc' = [pc EXCEPT ![t] = "processed"]
        /\ UNCHANGED <<call, at, cur, owner>>
    BY Zenon, <1>20 DEF ProcessOther, Goto, lockVars
  <2>2. Others(t) /\ pc'[t] = "processed"
    BY Zenon, <1>a, <2>1 DEF Others
  <2>3. CallOK(t)' /\ Inside(t) /\ Inside(t)' /\ Processing(t) /\ LockOK(t)'
    BY Zenon, <1>b, <2>1, <2>2 DEF CallOK, Inside, Processing, LockOK, Holds, Away
  <2> QED
    BY <2>1, <2>2, <2>3, InsideStep, Zenon
<1>21. ASSUME NEW t \in Queue, GlobalInsert(t) PROVE Goal
  <2>1. /\ pc[t] = "gschedule" /\ UNCHANGED <<at, cur, owner>>
        /\ call[t] \in Call /\ call[t].ev \in Global
        /\ call[t].ret = "signalled" => t = 0
    BY Zenon, <1>21, <1>b DEF GlobalInsert, CallOK
  <2>2. call[t].ret \in {"handler", "processed", "signalled"}
    BY Zenon, <2>1 DEF Call
  <2>3. CASE call[t].next = N - 1
    <3>1. /\ pc' = [pc EXCEPT ![t] = call[t].ret] /\ call' = [call EXCEPT ![t] = None]
      BY Zenon, <1>21, <2>3 DEF GlobalInsert, Goto
    <3>2. Others(t) /\ pc'[t] = call[t].ret
      BY Zenon, <1>a, <2>1, <3>1 DEF Others
    <3>3. CallOK(t)' /\ LockOK(t)'
      BY Zenon, <1>b, <2>1, <2>2, <3>2 DEF CallOK, LockOK, Holds, Away
    <3>4. CASE call[t].ret = "processed"
      <4>1. Inside(t) /\ Inside(t)' /\ Processing(t)
        BY Zenon, <2>1, <3>2, <3>4 DEF Inside, Processing
      <4> QED
        BY <2>1, <3>2, <3>3, <4>1, InsideStep, Zenon
    <3>5. CASE call[t].ret # "processed"
      <4>1. ~Inside(t) /\ ~Inside(t)'
        BY Zenon, <2>1, <2>2, <3>2, <3>5 DEF Inside, Processing
      <4> QED
        BY Zenon, <2>1, <3>2, <3>3, <4>1, OutsideStep
    <3> QED
      BY Zenon, <3>4, <3>5
  <2>4. CASE call[t].next # N - 1
    <3>1. pc' = pc /\ call' = [call EXCEPT ![t] = [call[t] EXCEPT !.next = call[t].next + 1]]
      BY Zenon, <1>21, <2>4 DEF GlobalInsert
    <3>2. call[t].next + 1 \in Queue
      <4>1. call[t].next \in Queue
        BY Zenon, <2>1 DEF Call
      <4> QED
        BY <2>4, <4>1, NAssumption DEF Queue
    <3>3. /\ Others(t) /\ pc'[t] = "gschedule" /\ call'[t] \in Call
          /\ call'[t].ev = call[t].ev /\ call'[t].ret = call[t].ret
      BY Zenon, <1>a, <2>1, <3>1, <3>2 DEF Others, Call
    <3>4. CallOK(t)' /\ LockOK(t)'
      BY Zenon, <1>b, <2>1, <3>3 DEF CallOK, LockOK, Holds, Away
    <3>5. CASE call[t].ret = "processed"
      <4>1. Inside(t) /\ Inside(t)' /\ Processing(t)
        BY Zenon, <2>1, <3>3, <3>5 DEF Inside, Processing
      <4> QED
        BY <2>1, <3>3, <3>4, <4>1, InsideStep, Zenon
    <3>6. CASE call[t].ret # "processed"
      <4>1. ~Inside(t) /\ ~Inside(t)'
        BY Zenon, <2>1, <3>3, <3>6 DEF Inside, Processing
      <4> QED
        BY Zenon, <2>1, <3>3, <3>4, <4>1, OutsideStep
    <3> QED
      BY <3>5, <3>6
  <2> QED
    BY Zenon, <2>3, <2>4
<1>22. ASSUME NEW t \in Queue, NEW x \in pend[t], ServiceGlobal(t, x) PROVE Goal
  <2>1. /\ pc[t] = "loop" /\ at' = [at EXCEPT ![t] = x[1]] /\ UNCHANGED <<call, cur>>
        /\ owner[t] = None
    BY Zenon, <1>22 DEF ServiceGlobal, Pop
  <2>2. CASE Waiting(x[1], "barrier1") = Queue \ {t}
    <3>1. /\ pc' = [u \in Queue |-> IF u = t THEN "process" ELSE "passed1"]
          /\ owner' = [owner EXCEPT ![t] = t]
      BY <1>22, <2>2 DEF ServiceGlobal
    <3>2. \A u \in Queue \ {t} : at[u] = x[1] /\ pc[u] = "barrier1"
      BY Zenon, <2>2 DEF Waiting
    <3>3. \A u \in Queue : at'[u] = x[1] /\ cur'[u] = u
      BY Zenon, <1>a, <1>b, <2>1, <3>2 DEF LockOK, Away
    <3>4. \A u \in Queue : Inside(u)' /\ (Processing(u)' <=> u = t)
      BY Zenon, <3>1 DEF Inside, Processing
    <3>5. BarrierInv'
      BY Zenon, <3>3, <3>4 DEF BarrierInv
    <3>6. owner'[t] = t
      BY Zenon, <1>a, <3>1
    <3>7. CallInv' /\ LockInv'
      BY Zenon, <3>1, <3>3, <3>6 DEF CallInv, CallOK, LockInv, LockOK, Holds, Away
    <3> QED
      BY Zenon, <3>5, <3>7
  <2>3. CASE Waiting(x[1], "barrier1") # Queue \ {t}
    <3>1. pc' = [pc EXCEPT ![t] = "barrier1"] /\ owner' = owner
      BY Zenon, <1>22, <2>3 DEF ServiceGlobal, Goto
    <3>2. Others(t) /\ pc'[t] = "barrier1"
      BY Zenon, <1>a, <2>1, <3>1 DEF Others
    <3>3. CallOK(t)' /\ ~Inside(t) /\ ~Inside(t)' /\ LockOK(t)'
      BY <1>b, <2>1, <3>1, <3>2, Zenon DEF CallOK, Inside, Processing, LockOK, Holds, Away
    <3> QED
      BY Zenon, <3>1, <3>2, <3>3, OutsideStep
  <2> QED
    BY Zenon, <2>2, <2>3
<1>23. ASSUME NEW t \in Queue, Barrier2(t), pc[t] \in {"passed1", "processed"},
              \A q \in Queue : owner'[q] = owner[q] \/ owner[q] \in {None, t}
       PROVE  Goal
  <2>1. Inside(t) /\ cur[t] = t /\ UNCHANGED <<call, cur, at>>
    BY Zenon, <1>23, <1>b DEF Inside, Processing, LockOK, Away, Barrier2
  <2>2. CASE Waiting(at[t], "barrier2") = Queue \ {t}
    <3>1. pc' = [u \in Queue |-> "passed2"]
      BY Zenon, <1>23, <2>2 DEF Barrier2
    <3>2. \A u \in Queue \ {t} : pc[u] = "barrier2"
      BY Zenon, <2>2 DEF Waiting
    <3>3. \A u \in Queue : cur'[u] = u
      BY Zenon, <1>b, <2>1, <3>2 DEF LockOK, Away
    <3> QED
      BY <3>1, <3>3, Zenon DEF CallInv, CallOK, BarrierInv, Inside, Processing, LockInv, LockOK,
                        Holds, Away
  <2>3. CASE Waiting(at[t], "barrier2") # Queue \ {t}
    <3>1. pc' = [pc EXCEPT ![t] = "barrier2"]
      BY Zenon, <1>23, <2>3 DEF Barrier2, Goto
    <3>2. Others(t) /\ pc'[t] = "barrier2"
      BY Zenon, <1>a, <2>1, <3>1 DEF Others
    <3>3. CallOK(t)' /\ Inside(t)' /\ ~Processing(t)' /\ LockOK(t)'
      BY Zenon, <2>1, <3>2 DEF CallOK, Inside, Processing, LockOK, Holds, Away
    <3> QED
      BY <1>23, <2>1, <3>2, <3>3, InsideStep, Zenon
  <2> QED
    BY Zenon, <2>2, <2>3
<1>24. ASSUME NEW t \in Queue, Passed1(t) PROVE Goal
  BY Zenon, <1>24, <1>23 DEF Passed1
<1>25. ASSUME NEW t \in Queue, Processed(t) PROVE Goal
  <2>1. pc[t] = "processed" /\ Barrier2(t) /\ owner' = [owner EXCEPT ![t] = None]
    BY Zenon, <1>25 DEF Processed, Unlock
  <2>2. owner[t] = t
    BY Zenon, <1>b, <2>1 DEF LockOK, Holds, Away
  <2>3. \A q \in Queue : owner'[q] = owner[q] \/ owner[q] \in {None, t}
    BY Zenon, <1>a, <2>1, <2>2
  <2> QED
    BY Zenon, <1>23, <2>1, <2>3
<1>26. CASE Client
  BY Zenon, <1>26, <1>1, <1>2, <1>3, <1>7, <1>8, <1>9, <1>10 DEF Client
<1>27. ASSUME NEW t \in Queue, Thread(t) PROVE Goal
  BY <1>27, <1>11, <1>12, <1>13, <1>14, <1>15, <1>16, <1>17, <1>18, <1>19, <1>19a, <1>20, <1>21, Zenon,
     <1>22, <1>24, <1>25 DEF Thread
<1> QED
  BY Zenon, <1>1, <1>4, <1>5, <1>6, <1>26, <1>27 DEF Next

\* The invariant always holds.
LEMMA Inductive == Spec => []IInv
<1>1. IInv /\ Next => IInv'
  BY Zenon, TypeStep, ControlStep DEF IInv
<1>2. IInv /\ UNCHANGED vars => IInv'
  <2> SUFFICES ASSUME IInv, UNCHANGED vars PROVE IInv'
    OBVIOUS
  <2>1. CallInv' /\ BarrierInv' /\ LockInv'
    BY Zenon, QuietStep DEF vars, lockVars
  <2>2. TypeOK'
    BY Zenon DEF IInv, TypeOK, vars, queueVars, lockVars
  <2> QED
    BY Zenon, <2>1, <2>2 DEF IInv
<1> QED
  BY InitIInv, <1>1, <1>2, PTL DEF Spec

(***************************************************************************)
(* The quantum event is found by simulate().                               *)
(***************************************************************************)
\* The quantum event is in the lists of queue q, or in its async_queue.
Listed(q) == \E x \in pend[q] : x[1] = Sync
Arriving(q) == \E i \in DOMAIN async[q] : async[q][i][1] = Sync

\* Where its barrier event has the Scheduled flag, it is in one of the two.
FlagInv == \A q \in Queue : <<Sync, q>> \in flags => Listed(q) \/ Arriving(q)

\* It is in async_queue only from the process() that puts it there until the
\* thread of the queue, behind the second barrier, has merged it.
QuantumOK(t) ==
  /\ Arriving(t) => at[t] = Sync /\ (Inside(t) \/ pc[t] = "passed2")
  /\ pc[t] = "gschedule" /\ call[t].ev = Sync => call[t].ret = "processed" /\ at[t] = Sync
  /\ pc[t] # "panic"

\* The threads behind the second barrier were at the same event.
PassedInv ==
  \A t, u \in Queue : pc[t] = "passed2" /\ pc[u] = "passed2" => at[t] = at[u]

QuantumInv == FlagInv /\ (\A t \in Queue : QuantumOK(t)) /\ PassedInv

\* What a step must keep that does not put the quantum event into async_queue.
Kept == FlagInv' /\ \A q \in Queue : Arriving(q)' => Arriving(q)
NoNewQuantum == \A q \in Queue : <<Sync, q>> \in flags' => <<Sync, q>> \in flags

\* The flag of a local event is not that of a barrier event.
LEMMA LocalFlags ==
  ASSUME NEW e \in Local, flags' = flags \cup {e}
  PROVE  NoNewQuantum
<1>1. Sync \in Global /\ e \notin Global \X Queue
  BY Zenon, EventAssumption, EventFacts
<1>2. ASSUME NEW q \in Queue PROVE <<Sync, q>> # e
  <2>1. <<Sync, q>> \in Global \X Queue
    BY Zenon, <1>1
  <2> QED
    BY Zenon, <1>1, <2>1
<1> QED
  BY Zenon, <1>2 DEF NoNewQuantum

\* A step that leaves the queues alone keeps the quantum event.
LEMMA KeptQuiet ==
  ASSUME FlagInv, UNCHANGED <<pend, async>>, NoNewQuantum
  PROVE  Kept
  BY Zenon DEF Kept, FlagInv, NoNewQuantum, Listed, Arriving

\* So does insert().
LEMMA KeptInsert ==
  ASSUME TypeOK, FlagInv, NEW q \in Queue, NEW x, Insert(q, x), NoNewQuantum
  PROVE  Kept
<1>1. async' = async /\ \A r \in Queue : pend[r] \subseteq pend'[r]
  BY Zenon DEF Insert, TypeOK
<1> QED
  BY Zenon, <1>1 DEF Kept, FlagInv, NoNewQuantum, Listed, Arriving

\* So does asyncInsert() of another event: what was in the queue stays.
LEMMA KeptAsync ==
  ASSUME TypeOK, FlagInv, NEW q \in Queue, NEW x \in Item, x[1] # Sync,
         AsyncInsert(q, x), NoNewQuantum
  PROVE  Kept
<1>1. /\ pend' = pend /\ async' = [async EXCEPT ![q] = Append(async[q], x)]
      /\ async[q] \in Seq(Item) /\ async \in [Queue -> Seq(Item)]
  BY Zenon DEF AsyncInsert, TypeOK
<1>2. /\ async'[q] = Append(async[q], x)
      /\ \A r \in Queue \ {q} : async'[r] = async[r]
  BY Zenon, <1>1
<1>3. \A i \in DOMAIN async[q] : i \in DOMAIN async'[q] /\ async'[q][i] = async[q][i]
  BY <1>1, <1>2
<1>4. \A i \in DOMAIN async'[q] : i \in DOMAIN async[q] \/ async'[q][i] = x
  BY <1>1, <1>2
<1>5. \A r \in Queue : Arriving(r)' <=> Arriving(r)
  BY Zenon, <1>2, <1>3, <1>4 DEF Arriving
<1> QED
  BY Zenon, <1>1, <1>5 DEF Kept, FlagInv, NoNewQuantum, Listed

\* handleAsyncInsertions() brings what arrives into the lists.
LEMMA KeptMerge ==
  ASSUME TypeOK, FlagInv, NEW t \in Queue, HandleAsyncInsertions(t)
  PROVE  Kept /\ ~Arriving(t)'
<1>1. /\ flags' = flags /\ pend' = [pend EXCEPT ![t] = pend[t] \cup Arrived(t)]
      /\ async' = [async EXCEPT ![t] = <<>>]
  BY Zenon DEF HandleAsyncInsertions
<1>2. /\ pend'[t] = pend[t] \cup Arrived(t) /\ async'[t] = <<>>
      /\ \A r \in Queue \ {t} : pend'[r] = pend[r] /\ async'[r] = async[r]
  BY Zenon, <1>1 DEF TypeOK
<1>3. ~Arriving(t)'
  <2>1. DOMAIN async'[t] = {}
    BY <1>2
  <2> QED
    BY Zenon, <2>1 DEF Arriving
<1>4. Listed(t) \/ Arriving(t) => Listed(t)'
  BY Zenon, <1>2 DEF Listed, Arriving, Arrived
<1>5. \A r \in Queue \ {t} : (Listed(r)' <=> Listed(r)) /\ (Arriving(r)' <=> Arriving(r))
  BY Zenon, <1>2 DEF Listed, Arriving
<1>6. \A q \in Queue : Arriving(q)' => Arriving(q)
  BY Zenon, <1>3, <1>5
<1>7. ASSUME NEW q \in Queue, <<Sync, q>> \in flags' PROVE Listed(q)' \/ Arriving(q)'
  <2>1. Listed(q) \/ Arriving(q)
    BY Zenon, <1>1, <1>7 DEF FlagInv
  <2> QED
    BY Zenon, <1>4, <1>5, <2>1
<1> QED
  BY Zenon, <1>3, <1>6, <1>7 DEF Kept, FlagInv

\* serviceOne() clears the flag of the event it takes from the list.
LEMMA KeptPop ==
  ASSUME TypeOK, FlagInv, NEW t \in Queue, NEW x \in pend[t], Pop(t, x)
  PROVE  Kept
<1>1. /\ async' = async /\ flags' = flags \ {Object(x[1], t)}
      /\ pend' = [pend EXCEPT ![t] = pend[t] \ {x}]
  BY Zenon DEF Pop
<1>2. /\ pend'[t] = pend[t] \ {x}
      /\ \A r \in Queue \ {t} : pend'[r] = pend[r]
  BY Zenon, <1>1 DEF TypeOK
<1>3. Sync \notin Local
  BY Zenon, EventAssumption, EventFacts
<1>4. x[1] = Sync => <<Sync, t>> \notin flags'
  BY Zenon, <1>1, <1>3 DEF Object
<1>5. x[1] # Sync /\ Listed(t) => Listed(t)'
  BY Zenon, <1>2 DEF Listed
<1>6. \A r \in Queue \ {t} : Listed(r)' <=> Listed(r)
  BY Zenon, <1>2 DEF Listed
<1>7. \A q \in Queue : Arriving(q)' <=> Arriving(q)
  BY Zenon, <1>1 DEF Arriving
<1>8. ASSUME NEW q \in Queue, <<Sync, q>> \in flags' PROVE Listed(q)' \/ Arriving(q)'
  <2>1. Listed(q) \/ Arriving(q)
    BY Zenon, <1>1, <1>8 DEF FlagInv
  <2> QED
    BY Zenon, <1>4, <1>5, <1>6, <1>7, <1>8, <2>1
<1> QED
  BY Zenon, <1>7, <1>8 DEF Kept, FlagInv

\* simulate() and Python put the barrier events into the lists themselves.
LEMMA KeptEverywhere ==
  ASSUME FlagInv, NEW new \in SUBSET (Global \X Nat), InsertEverywhere(new)
  PROVE  Kept
<1>1. /\ async' = async /\ \A q \in Queue : pend'[q] = pend[q] \cup new
      /\ flags' = flags \cup {<<x[1], q>> : x \in new, q \in Queue}
  BY DEF InsertEverywhere
<1>2. ASSUME NEW q \in Queue, <<Sync, q>> \in flags' PROVE Listed(q)' \/ Arriving(q)'
  <2>1. CASE <<Sync, q>> \in flags
    BY Zenon, <1>1, <2>1 DEF FlagInv, Listed, Arriving
  <2>2. CASE <<Sync, q>> \notin flags
    <3>1. PICK x \in new, r \in Queue : <<Sync, q>> = <<x[1], r>>
      BY <1>1, <1>2, <2>2
    <3>2. x[1] = Sync
      BY Zenon, <3>1
    <3> QED
      BY Zenon, <1>1, <3>2 DEF Listed
  <2> QED
    BY Zenon, <2>1, <2>2
<1> QED
  BY Zenon, <1>1, <1>2 DEF Kept, FlagInv, Arriving

\* A step that leaves the control of all threads alone.
LEMMA QuantumQuiet ==
  ASSUME QuantumInv, Kept, UNCHANGED <<pc, call, at>>
  PROVE  QuantumInv'
<1>1. \A t \in Queue : QuantumOK(t)'
  BY Zenon DEF QuantumInv, QuantumOK, Kept, Inside, Processing
<1>2. PassedInv'
  BY Zenon DEF QuantumInv, PassedInv
<1> QED
  BY Zenon, <1>1, <1>2 DEF QuantumInv, Kept

\* A step of one thread.
LEMMA QuantumLocal ==
  ASSUME QuantumInv, Kept, NEW t \in Queue, Others(t), QuantumOK(t)', pc'[t] # "passed2"
  PROVE  QuantumInv'
<1>1. ASSUME NEW u \in Queue, u # t PROVE QuantumOK(u)'
  <2>1. /\ QuantumOK(u) /\ (Arriving(u)' => Arriving(u))
        /\ pc'[u] = pc[u] /\ call'[u] = call[u] /\ at'[u] = at[u]
    BY Zenon, <1>1 DEF QuantumInv, Kept, Others
  <2> QED
    BY Zenon, <2>1 DEF QuantumOK, Inside, Processing
<1>2. PassedInv'
  <2> SUFFICES ASSUME NEW u \in Queue, NEW v \in Queue, pc'[u] = "passed2", pc'[v] = "passed2"
               PROVE  at'[u] = at'[v]
    BY Zenon DEF PassedInv
  <2>1. u # t /\ v # t
    BY Zenon
  <2>2. pc[u] = "passed2" /\ pc[v] = "passed2" /\ at'[u] = at[u] /\ at'[v] = at[v]
    BY Zenon, <2>1 DEF Others
  <2> QED
    BY Zenon, <2>2 DEF QuantumInv, PassedInv
<1> QED
  BY Zenon, <1>1, <1>2 DEF QuantumInv, Kept

\* A step of a thread that is not at a global event.
LEMMA QuantumOutside ==
  ASSUME QuantumInv, Kept, NEW t \in Queue, Others(t), ~Inside(t), pc[t] # "passed2",
         pc'[t] \notin {"passed2", "panic"}, pc'[t] = "gschedule" => call'[t].ev # Sync
  PROVE  QuantumInv'
<1>1. ~Arriving(t)'
  BY Zenon DEF QuantumInv, QuantumOK, Kept
<1>2. QuantumOK(t)'
  BY Zenon, <1>1 DEF QuantumOK
<1> QED
  BY Zenon, <1>2, QuantumLocal

\* A thread that puts the quantum event into async_queue does so between the
\* barriers, with all other threads there too.
LEMMA QuantumScheduled ==
  ASSUME IInv, QuantumInv, NEW t \in Queue, GlobalInsert(t), call[t].ev = Sync
  PROVE  QuantumInv'
<1> DEFINE c == call[t]
<1>a. /\ pc \in [Queue -> Label] /\ call \in [Queue -> {None} \cup Call]
      /\ async \in [Queue -> Seq(Item)]
  BY Zenon DEF IInv, TypeOK
<1>1. /\ pc[t] = "gschedule" /\ c \in Call /\ c.ret = "processed" /\ at[t] = Sync
  BY Zenon DEF GlobalInsert, IInv, CallInv, CallOK, QuantumInv, QuantumOK
<1>2. \A u \in Queue : Inside(u) /\ at[u] = Sync
  BY Zenon, <1>1 DEF IInv, BarrierInv, Inside, Processing
<1>3. /\ Others(t) /\ at' = at /\ pend' = pend
      /\ \/ pc'[t] = "processed"
         \/ pc'[t] = "gschedule" /\ call'[t].ret = "processed"
  <2>1. CASE c.next = N - 1
    BY Zenon, <1>a, <1>1, <2>1 DEF GlobalInsert, Goto, AsyncInsert, Others
  <2>2. CASE c.next # N - 1
    <3>1. pc' = pc /\ call' = [call EXCEPT ![t] = [c EXCEPT !.next = c.next + 1]]
      BY Zenon, <2>2 DEF GlobalInsert
    <3>2. call'[t] = [c EXCEPT !.next = c.next + 1]
      BY Zenon, <1>a, <3>1
    <3>3. call'[t].ret = "processed"
      BY Zenon, <1>1, <3>2 DEF Call
    <3> QED
      BY Zenon, <1>a, <1>1, <3>1, <3>3 DEF GlobalInsert, AsyncInsert, Others
  <2> QED
    BY Zenon, <2>1, <2>2
<1>4. \A u \in Queue : Inside(u)' /\ at'[u] = Sync
  BY Zenon, <1>2, <1>3 DEF Others, Inside, Processing
<1>5. \A u \in Queue : pc'[u] \notin {"passed2", "panic"}
  BY Zenon, <1>4 DEF Inside, Processing
<1>6. \A u \in Queue : QuantumOK(u)'
  BY Zenon, <1>4, <1>5 DEF QuantumOK, Inside, Processing
<1>7. PassedInv'
  BY Zenon, <1>5 DEF PassedInv
<1>8. FlagInv'
  <2> DEFINE x == <<c.ev, c.when>>
  <2>0. PICK n \in Queue : n = c.next
    BY Zenon, <1>1 DEF Call
  <2>1. /\ x \in Item /\ x[1] = Sync
        /\ async' = [async EXCEPT ![n] = Append(async[n], x)]
        /\ flags' = flags \cup {<<Sync, n>>}
    BY Zenon, <1>1, <2>0 DEF GlobalInsert, AsyncInsert, Call, Item
  <2> HIDE DEF x
  <2>2. /\ async'[n] = Append(async[n], x) /\ async[n] \in Seq(Item)
        /\ \A q \in Queue \ {n} : async'[q] = async[q]
    BY Zenon, <1>a, <2>1
  <2>3. \E i \in DOMAIN async'[n] : async'[n][i] = x
    <3> DEFINE s == async[n]
    <3>1. s \in Seq(Item) /\ async'[n] = Append(s, x)
      BY Zenon, <2>2
    <3> HIDE DEF s
    <3>2. Len(s) + 1 \in DOMAIN Append(s, x) /\ Append(s, x)[Len(s) + 1] = x
      BY <3>1, <2>1
    <3> QED
      BY Zenon, <3>1, <3>2
  <2>4. Arriving(n)'
    BY Zenon, <2>1, <2>3 DEF Arriving
  <2>5. ASSUME NEW q \in Queue, q # n, <<Sync, q>> \in flags'
        PROVE  Listed(q)' \/ Arriving(q)'
    <3>1. <<Sync, q>> \in flags
      BY Zenon, <2>1, <2>5
    <3> QED
      <4>1. Listed(q) \/ Arriving(q)
        BY Zenon, <3>1 DEF QuantumInv, FlagInv
      <4>2. pend'[q] = pend[q] /\ async'[q] = async[q]
        BY Zenon, <1>3, <2>2, <2>5
      <4> QED
        BY Zenon, <4>1, <4>2 DEF Listed, Arriving
  <2> QED
    BY Zenon, <2>4, <2>5 DEF FlagInv
<1> QED
  BY Zenon, <1>6, <1>7, <1>8 DEF QuantumInv

\* When the main thread comes out of the barrier of an exit event, no quantum
\* event is on its way: it would have to wait at the barrier of that.
LEMMA NothingArrives ==
  ASSUME IInv, QuantumInv, NEW t \in Queue, pc[t] = "passed2", at[t] \in Exit
  PROVE  \A q \in Queue : ~Arriving(q)
<1> SUFFICES ASSUME NEW q \in Queue, Arriving(q) PROVE FALSE
  OBVIOUS
<1>1. at[q] = Sync /\ (Inside(q) \/ pc[q] = "passed2")
  BY Zenon DEF QuantumInv, QuantumOK
<1>2. ~Inside(t)
  BY Zenon DEF Inside, Processing
<1>3. pc[q] = "passed2"
  BY Zenon, <1>1, <1>2 DEF IInv, BarrierInv
<1>4. at[t] = Sync
  BY Zenon, <1>1, <1>3 DEF QuantumInv, PassedInv
<1> QED
  BY Zenon, <1>4, EventAssumption

\* Every step of a thread preserves the invariant of the quantum event.
LEMMA QuantumThread ==
  ASSUME IInv, QuantumInv, NEW t \in Queue, Thread(t)
  PROVE  QuantumInv'
<1>a. TypeOK /\ FlagInv /\ QuantumOK(t)
  BY Zenon DEF IInv, QuantumInv
<1>b. /\ pc \in [Queue -> Label] /\ call \in [Queue -> {None} \cup Call]
      /\ at \in [Queue -> Global \cup {None}]
  BY Zenon, <1>a DEF TypeOK
<1>c. ASSUME UNCHANGED <<pend, async, flags>> PROVE Kept
  BY Zenon, <1>a, <1>c, KeptQuiet DEF NoNewQuantum
<1>1. CASE Enter(t)
  <2>1. Kept
    BY Zenon, <1>a, <1>1, KeptMerge DEF Enter
  <2>2. pc[t] = "enter" /\ pc'[t] = "loop" /\ Others(t)
    BY Zenon, <1>b, <1>1 DEF Enter, Goto, Others
  <2>3. ~Inside(t)
    BY Zenon, <2>2 DEF Inside, Processing
  <2> QED
    BY Zenon, <2>1, <2>2, <2>3, QuantumOutside
<1>2. ASSUME NEW x \in pend[t], ServiceLocal(t, x) PROVE QuantumInv'
  <2>1. Kept
    BY Zenon, <1>a, <1>2, KeptPop DEF ServiceLocal
  <2>2. pc[t] = "loop" /\ pc'[t] = "handler" /\ Others(t)
    BY Zenon, <1>b, <1>2 DEF ServiceLocal, Pop, Goto, Others
  <2>3. ~Inside(t)
    BY Zenon, <2>2 DEF Inside, Processing
  <2> QED
    BY Zenon, <2>1, <2>2, <2>3, QuantumOutside
<1>3. ASSUME NEW x \in pend[t], ServiceGlobal(t, x) PROVE QuantumInv'
  <2>1. Kept /\ pc[t] = "loop" /\ call' = call
    BY Zenon, <1>a, <1>3, KeptPop DEF ServiceGlobal, Pop
  <2>2. CASE Waiting(x[1], "barrier1") = Queue \ {t}
    <3>1. pc' = [u \in Queue |-> IF u = t THEN "process" ELSE "passed1"]
      BY Zenon, <1>3, <2>2 DEF ServiceGlobal
    <3>2. \A u \in Queue : pc[u] \in {"barrier1", "loop"}
      BY Zenon, <2>1, <2>2 DEF Waiting
    <3>3. \A u \in Queue : pc'[u] \in {"process", "passed1"}
      BY Zenon, <3>1
    <3>4. \A u \in Queue : ~Arriving(u)'
      BY Zenon, <2>1, <3>2 DEF Kept, QuantumInv, QuantumOK, Inside, Processing
    <3>5. \A u \in Queue : QuantumOK(u)'
      BY Zenon, <3>3, <3>4 DEF QuantumOK
    <3>6. PassedInv'
      BY Zenon, <3>3 DEF PassedInv
    <3> QED
      BY Zenon, <2>1, <3>5, <3>6 DEF QuantumInv, Kept
  <2>3. CASE Waiting(x[1], "barrier1") # Queue \ {t}
    <3>1. pc'[t] = "barrier1" /\ Others(t)
      BY Zenon, <1>b, <1>3, <2>1, <2>3 DEF ServiceGlobal, Pop, Goto, Others
    <3>2. ~Inside(t)
      BY Zenon, <2>1 DEF Inside, Processing
    <3> QED
      BY Zenon, <2>1, <3>1, <3>2, QuantumOutside
  <2> QED
    BY Zenon, <2>2, <2>3
<1>4. CASE Passed1(t) \/ Processed(t)
  <2>1. Barrier2(t) /\ pc[t] \in {"passed1", "processed"}
    BY Zenon, <1>4 DEF Passed1, Processed
  <2>2. Kept /\ call' = call /\ at' = at /\ Inside(t)
    BY Zenon, <1>c, <2>1 DEF Barrier2, queueVars, Inside, Processing
  <2>3. CASE Waiting(at[t], "barrier2") = Queue \ {t}
    <3>1. \A u \in Queue : pc'[u] = "passed2"
      BY Zenon, <2>1, <2>3 DEF Barrier2
    <3>2. \A u \in Queue : at'[u] = at[t]
      BY Zenon, <2>2 DEF IInv, BarrierInv
    <3>3. \A u \in Queue : QuantumOK(u)'
      BY Zenon, <2>2, <3>1 DEF QuantumInv, QuantumOK, Kept
    <3>4. PassedInv'
      BY Zenon, <3>2 DEF PassedInv
    <3> QED
      BY Zenon, <2>2, <3>3, <3>4 DEF QuantumInv, Kept
  <2>4. CASE Waiting(at[t], "barrier2") # Queue \ {t}
    <3>1. pc'[t] = "barrier2" /\ Others(t)
      BY Zenon, <1>b, <2>1, <2>2, <2>4 DEF Barrier2, Goto, Others
    <3>2. QuantumOK(t)'
      BY Zenon, <1>a, <2>2, <3>1 DEF QuantumOK, Kept, Inside
    <3> QED
      BY Zenon, <2>2, <3>1, <3>2, QuantumLocal
  <2> QED
    BY Zenon, <2>3, <2>4
<1>5. CASE ProcessSync(t) \/ ProcessRepeat(t)
  <2>1. PICK w : BeginGlobal(t, at[t], w, "processed")
    BY Zenon, <1>5 DEF ProcessSync, ProcessRepeat
  <2>2. Kept /\ pc[t] = "process" /\ UNCHANGED <<at, cur>>
    BY Zenon, <1>5, <1>c DEF ProcessSync, ProcessRepeat, queueVars
  <2> DEFINE c == [ev |-> at[t], when |-> w, next |-> 0, ret |-> "processed"]
  <2>3. c.ev = at[t] /\ c.ret = "processed"
    BY Zenon
  <2>4. call' = [call EXCEPT ![t] = c] /\ pc' = [pc EXCEPT ![t] = "gschedule"]
    BY Zenon, <2>1 DEF BeginGlobal, Goto
  <2> HIDE DEF c
  <2>5. call'[t] = c /\ pc'[t] = "gschedule" /\ at'[t] = at[t] /\ Others(t)
    BY Zenon, <1>b, <2>2, <2>4 DEF Others
  <2>6. QuantumOK(t)'
    BY Zenon, <1>a, <2>2, <2>3, <2>5 DEF QuantumOK, Kept, Inside, Processing
  <2> QED
    BY Zenon, <2>2, <2>5, <2>6, QuantumLocal
<1>6. CASE ProcessOther(t)
  <2>1. Kept
    BY Zenon, <1>6, <1>c DEF ProcessOther, queueVars
  <2>2. /\ pc[t] = "process" /\ pc'[t] = "processed" /\ at'[t] = at[t] /\ Others(t)
    BY Zenon, <1>b, <1>6 DEF ProcessOther, Goto, Others
  <2>3. QuantumOK(t)'
    BY Zenon, <1>a, <2>1, <2>2 DEF QuantumOK, Kept, Inside, Processing
  <2> QED
    BY Zenon, <2>1, <2>2, <2>3, QuantumLocal
<1>7. CASE PassedSync(t)
  <2>1. Kept /\ ~Arriving(t)'
    BY Zenon, <1>a, <1>7, KeptMerge DEF PassedSync
  <2>2. pc'[t] = "loop" /\ Others(t)
    BY Zenon, <1>b, <1>7 DEF PassedSync, Goto, Others
  <2>3. QuantumOK(t)'
    BY Zenon, <2>1, <2>2 DEF QuantumOK
  <2> QED
    BY Zenon, <2>1, <2>2, <2>3, QuantumLocal
<1>8. CASE PassedGlobal(t)
  <2>1. Kept /\ at[t] # Sync
    BY Zenon, <1>8, <1>c DEF PassedGlobal, queueVars
  <2>2. pc'[t] = "loop" /\ Others(t)
    BY Zenon, <1>b, <1>8 DEF PassedGlobal, Goto, Others
  <2>3. ~Arriving(t)'
    BY Zenon, <1>a, <2>1 DEF QuantumOK, Kept
  <2>4. QuantumOK(t)'
    BY Zenon, <2>2, <2>3 DEF QuantumOK
  <2> QED
    BY Zenon, <2>1, <2>2, <2>4, QuantumLocal
<1>9. CASE PassedExit(t)
  <2>1. \A q \in Queue : ~Arriving(q)
    BY Zenon, <1>9, NothingArrives DEF PassedExit
  <2>2. async' = async /\ \A q \in Queue : ~Arriving(q)'
    BY Zenon, <1>9, <2>1 DEF PassedExit, Arriving
  <2>3. CASE t # 0
    <3>1. Kept
      BY Zenon, <1>9, <1>c, <2>2, <2>3 DEF PassedExit
    <3>2. pc'[t] = "stopped" /\ Others(t)
      BY Zenon, <1>b, <1>9, <2>3 DEF PassedExit, Goto, Others
    <3>3. QuantumOK(t)'
      BY Zenon, <2>2, <3>2 DEF QuantumOK
    <3> QED
      BY Zenon, <3>1, <3>2, <3>3, QuantumLocal
  <2>4. CASE t = 0
    <3>1. \A q \in Queue : <<Sync, q>> \in flags => {x \in pend[q] : x[1] = Sync} # {}
      BY Zenon, <1>a, <2>1 DEF FlagInv, Listed
    <3>2. /\ pc' = [pc EXCEPT ![0] = "outside"] /\ at' = [at EXCEPT ![0] = None]
          /\ flags' = flags \ ({Sync} \X Queue) /\ UNCHANGED <<cur, call>>
      BY Zenon, <1>9, <2>4, <3>1 DEF PassedExit
    <3>3. pc'[t] = "outside" /\ Others(t)
      BY Zenon, <1>b, <2>4, <3>2 DEF Others
    <3>4. \A q \in Queue : <<Sync, q>> \notin flags'
      BY Zenon, <3>2
    <3>5. Kept
      BY Zenon, <2>2, <3>4 DEF Kept, FlagInv
    <3>6. QuantumOK(t)'
      BY Zenon, <2>2, <3>3 DEF QuantumOK
    <3> QED
      BY Zenon, <3>3, <3>5, <3>6, QuantumLocal
  <2> QED
    BY Zenon, <2>3, <2>4
<1>10. CASE GlobalInsert(t)
  <2>1. CASE call[t].ev = Sync
    BY Zenon, <1>10, <2>1, QuantumScheduled
  <2>2. CASE call[t].ev # Sync
    <3> DEFINE c == call[t]
               x == <<c.ev, c.when>>
    <3>1. pc[t] = "gschedule" /\ c \in Call
      BY Zenon, <1>10 DEF GlobalInsert, IInv, CallInv, CallOK
    <3>2. /\ c.next \in Queue /\ x \in Item /\ x[1] # Sync
          /\ c.ret \in {"handler", "processed", "signalled"}
      BY Zenon, <2>2, <3>1 DEF Call, Item
    <3>3. AsyncInsert(c.next, x) /\ flags' = flags \cup {<<c.ev, c.next>>} /\ UNCHANGED <<at, cur>>
      BY Zenon, <1>10 DEF GlobalInsert
    <3>4. NoNewQuantum
      BY Zenon, <2>2, <3>3 DEF NoNewQuantum
    <3>5. Kept
      BY Zenon, <1>a, <3>2, <3>3, <3>4, KeptAsync
    <3>6. /\ Others(t)
          /\ \/ pc'[t] = c.ret
             \/ /\ pc'[t] = "gschedule"
                /\ call'[t].ev = c.ev /\ call'[t].ret = c.ret
      <4>1. CASE c.next = N - 1
        BY Zenon, <1>b, <1>10, <3>3, <4>1 DEF GlobalInsert, Goto, Others
      <4>2. CASE c.next # N - 1
        <5>1. pc' = pc /\ call' = [call EXCEPT ![t] = [c EXCEPT !.next = c.next + 1]]
          BY Zenon, <1>10, <4>2 DEF GlobalInsert
        <5>2. call'[t] = [c EXCEPT !.next = c.next + 1]
          BY Zenon, <1>b, <5>1
        <5>3. call'[t].ev = c.ev /\ call'[t].ret = c.ret
          BY Zenon, <3>1, <5>2 DEF Call
        <5> QED
          BY Zenon, <1>b, <3>1, <3>3, <5>1, <5>3 DEF Others
      <4> QED
        BY Zenon, <4>1, <4>2
    <3>7. Inside(t) => Inside(t)'
      BY Zenon, <3>1, <3>6 DEF Inside, Processing
    <3>8. QuantumOK(t)'
      BY Zenon, <1>a, <2>2, <3>1, <3>2, <3>3, <3>5, <3>6, <3>7 DEF QuantumOK, Kept
    <3>9. pc'[t] # "passed2"
      BY Zenon, <3>2, <3>6
    <3> QED
      BY Zenon, <3>5, <3>6, <3>8, <3>9, QuantumLocal
  <2> QED
    BY Zenon, <2>1, <2>2
<1>11. CASE SetFlag(t)
  <2>1. call[t].ev \in Local /\ flags' = flags \cup {call[t].ev} /\ UNCHANGED <<pend, async>>
    BY Zenon, <1>11 DEF SetFlag, IInv, CallInv, CallOK
  <2>2. Kept
    BY Zenon, <1>a, <2>1, LocalFlags, KeptQuiet
  <2>3. pc[t] = "flag" /\ pc'[t] = "handler" /\ Others(t)
    BY Zenon, <1>b, <1>11 DEF SetFlag, Goto, Others
  <2>4. ~Inside(t)
    BY Zenon, <2>3 DEF Inside, Processing
  <2> QED
    BY Zenon, <2>2, <2>3, <2>4, QuantumOutside
<1>12. CASE MigrateLock(t) \/ EndHandler(t)
  <2>1. Kept
    BY Zenon, <1>12, <1>c DEF MigrateLock, EndHandler, queueVars
  <2>2. pc[t] \in {"lock", "handler"} /\ pc'[t] \in {"handler", "loop"} /\ Others(t)
    BY Zenon, <1>b, <1>12 DEF MigrateLock, EndHandler, Goto, Others
  <2>3. ~Inside(t)
    BY Zenon, <2>2 DEF Inside, Processing
  <2> QED
    BY Zenon, <2>1, <2>2, <2>3, QuantumOutside
<1> QED
  BY Zenon, <1>1, <1>2, <1>3, <1>4, <1>5, <1>6, <1>7, <1>8, <1>9, <1>10, <1>11, <1>12 DEF Thread

\* So does what handlers, the main loop and Python do.
LEMMA QuantumClient ==
  ASSUME IInv, QuantumInv, Client
  PROVE  QuantumInv'
<1>a. TypeOK /\ FlagInv
  BY Zenon DEF IInv, QuantumInv
<1>b. /\ pc \in [Queue -> Label] /\ call \in [Queue -> {None} \cup Call]
      /\ at \in [Queue -> Global \cup {None}] /\ cur \in [Queue -> Queue]
  BY Zenon, <1>a DEF TypeOK
<1>c. ASSUME UNCHANGED <<pend, async, flags>> PROVE Kept
  BY Zenon, <1>a, <1>c, KeptQuiet DEF NoNewQuantum
<1>1. ASSUME NEW e \in Local, NEW q \in Queue, NEW w \in Tick, StartupSchedule(e, q, w)
      PROVE  QuantumInv'
  <2>1. Insert(q, <<e, w>>) /\ NoNewQuantum /\ UNCHANGED <<pc, call, at>>
    BY Zenon, <1>1, LocalFlags DEF StartupSchedule
  <2> QED
    BY Zenon, <1>a, <2>1, KeptInsert, QuantumQuiet
<1>2. ASSUME NEW g \in FromPython, NEW w \in Tick, PythonSchedule(g, w) PROVE QuantumInv'
  <2>1. {<<g, w>>} \in SUBSET (Global \X Nat)
    BY EventFacts, TimeAssumption DEF Tick
  <2>2. InsertEverywhere({<<g, w>>}) /\ UNCHANGED <<pc, call, at>>
    BY Zenon, <1>2 DEF PythonSchedule
  <2> QED
    BY Zenon, <1>a, <2>1, <2>2, KeptEverywhere, QuantumQuiet
<1>3. ASSUME NEW t \in Queue, NEW g \in FromHandler \cup FromSignal, NEW w,
             NEW r, BeginGlobal(t, g, w, r), UNCHANGED <<pend, async, flags, at, cur>>,
             pc[t] \in {"handler", "loop"}
      PROVE  QuantumInv'
  <2> DEFINE c == [ev |-> g, when |-> w, next |-> 0, ret |-> r]
  <2>1. c.ev = g /\ g # Sync
    BY Zenon, EventAssumption
  <2>2. call' = [call EXCEPT ![t] = c] /\ pc' = [pc EXCEPT ![t] = "gschedule"]
    BY Zenon, <1>3 DEF BeginGlobal, Goto
  <2> HIDE DEF c
  <2>3. call'[t] = c /\ pc'[t] = "gschedule" /\ Others(t)
    BY Zenon, <1>b, <1>3, <2>2 DEF Others
  <2>4. ~Inside(t) /\ Kept
    BY Zenon, <1>3, <1>c DEF Inside, Processing
  <2> QED
    BY Zenon, <1>3, <2>1, <2>3, <2>4, QuantumOutside
<1>4. ASSUME NEW g \in FromSignal, Signal(g) PROVE QuantumInv'
  BY Zenon, <1>3, <1>4, QueueFacts DEF Signal, queueVars
<1>5. ASSUME NEW t \in Queue, NEW g \in FromHandler, UserSchedule(t, g) PROVE QuantumInv'
  BY Zenon, <1>3, <1>5 DEF UserSchedule, queueVars
<1>6. ASSUME NEW t \in Queue, NEW e \in Local, NEW w \in Tick, ScheduleHere(t, e, w)
      PROVE  QuantumInv'
  <2>1. /\ Insert(cur[t], <<e, w>>) /\ NoNewQuantum /\ UNCHANGED <<pc, call, at>>
        /\ cur[t] \in Queue
    BY Zenon, <1>b, <1>6, LocalFlags DEF ScheduleHere
  <2> QED
    BY Zenon, <1>a, <2>1, KeptInsert, QuantumQuiet
<1>7. ASSUME NEW t \in Queue, NEW e \in Local, NEW q \in Queue, NEW w \in Tick,
             ScheduleThere(t, e, q, w)
      PROVE  QuantumInv'
  <2>1. w \in Nat
    BY TimeAssumption DEF Tick
  <2> DEFINE x == <<e, w>>
  <2>2. x \in Item /\ x[1] # Sync /\ AsyncInsert(q, x) /\ NoNewQuantum
    BY Zenon, <1>7, <2>1, EventAssumption, EventFacts DEF ScheduleThere, Item, NoNewQuantum
  <2> HIDE DEF x
  <2>3. Kept
    BY Zenon, <1>a, <2>2, KeptAsync
  <2>4. pc[t] = "handler" /\ pc'[t] = "flag" /\ Others(t)
    BY Zenon, <1>b, <1>7 DEF ScheduleThere, Goto, Others
  <2>5. ~Inside(t)
    BY Zenon, <2>4 DEF Inside, Processing
  <2> QED
    BY Zenon, <2>3, <2>4, <2>5, QuantumOutside
<1>8. ASSUME NEW t \in Queue, NEW q \in Queue, Migrate(t, q) PROVE QuantumInv'
  <2>1. Kept
    BY Zenon, <1>8, <1>c DEF Migrate, queueVars
  <2>2. pc[t] = "handler" /\ pc'[t] = "lock" /\ Others(t)
    BY Zenon, <1>b, <1>8 DEF Migrate, Goto, Others
  <2>3. ~Inside(t)
    BY Zenon, <2>2 DEF Inside, Processing
  <2> QED
    BY Zenon, <2>1, <2>2, <2>3, QuantumOutside
<1> QED
  BY Zenon, <1>1, <1>2, <1>4, <1>5, <1>6, <1>7, <1>8 DEF Client

\* Every step preserves the invariant of the quantum event.
LEMMA QuantumStep ==
  ASSUME IInv, QuantumInv, Next
  PROVE  QuantumInv'
<1>a. TypeOK /\ FlagInv /\ 0 \in Queue
  BY Zenon, QueueFacts DEF IInv, QuantumInv
<1>b. pc \in [Queue -> Label]
  BY Zenon, <1>a DEF TypeOK
<1>c. ASSUME UNCHANGED <<pend, async, flags>> PROVE Kept
  BY Zenon, <1>a, <1>c, KeptQuiet DEF NoNewQuantum
<1>1. CASE Simulate
  <2>1. PICK new \in SUBSET (Global \X Nat) : InsertEverywhere(new)
    <3>1. curTick[0] + Quantum \in Nat
      BY <1>a, TimeAssumption DEF TypeOK
    <3> QED
      BY <1>1, <3>1, EventFacts, TimeAssumption DEF Simulate
  <2>2. Kept
    BY Zenon, <1>a, <2>1, KeptEverywhere
  <2>3. pc[0] = "outside" /\ pc'[0] = "starting" /\ Others(0)
    BY Zenon, <1>a, <1>b, <1>1 DEF Simulate, Goto, Others
  <2>4. ~Inside(0)
    BY Zenon, <2>3 DEF Inside, Processing
  <2> QED
    BY Zenon, <1>a, <2>2, <2>3, <2>4, QuantumOutside
<1>2. CASE StartThreads
  <2>1. /\ \A t \in Queue : pc[t] \in {"starting", "stopped"} /\ pc'[t] = "enter"
        /\ Kept
    BY Zenon, <1>2, <1>c DEF StartThreads, queueVars
  <2>2. \A t \in Queue : ~Arriving(t)'
    BY Zenon, <2>1 DEF Kept, QuantumInv, QuantumOK, Inside, Processing
  <2>3. (\A t \in Queue : QuantumOK(t)') /\ PassedInv'
    BY Zenon, <2>1, <2>2 DEF QuantumOK, PassedInv
  <2> QED
    BY Zenon, <2>1, <2>3 DEF QuantumInv, Kept
<1>3. CASE SignalDone
  <2>1. Kept
    BY Zenon, <1>3, <1>c DEF SignalDone, queueVars
  <2>2. pc[0] = "signalled" /\ pc'[0] = "loop" /\ Others(0)
    BY Zenon, <1>a, <1>b, <1>3 DEF SignalDone, Goto, Others
  <2>3. ~Inside(0)
    BY Zenon, <2>2 DEF Inside, Processing
  <2> QED
    BY Zenon, <1>a, <2>1, <2>2, <2>3, QuantumOutside
<1>4. CASE Finished
  BY Zenon, <1>4, <1>c, QuantumQuiet DEF Finished, vars, queueVars
<1> QED
  BY Zenon, <1>1, <1>2, <1>3, <1>4, QuantumClient, QuantumThread DEF Next

\* The invariant of the quantum event always holds.
LEMMA QuantumInductive == Spec => []QuantumInv
<1>1. Init => QuantumInv
  <2> SUFFICES ASSUME Init PROVE QuantumInv
    OBVIOUS
  <2>1. FlagInv
    BY Zenon DEF Init, FlagInv
  <2>2. \A t \in Queue : ~Arriving(t) /\ pc[t] \in {"outside", "stopped"}
    <3>1. \A t \in Queue : async[t] = <<>> /\ DOMAIN async[t] = {}
      BY DEF Init
    <3> QED
      BY Zenon, <3>1 DEF Init, Arriving
  <2> QED
    BY Zenon, <2>1, <2>2 DEF QuantumInv, QuantumOK, PassedInv
<1>2. IInv /\ QuantumInv /\ [Next]_vars => QuantumInv'
  <2> SUFFICES ASSUME IInv, QuantumInv, [Next]_vars PROVE QuantumInv'
    OBVIOUS
  <2>1. CASE Next
    BY Zenon, <2>1, QuantumStep
  <2>2. CASE UNCHANGED vars
    <3>1. Kept
      BY Zenon, <2>2, KeptQuiet DEF vars, queueVars, QuantumInv, NoNewQuantum
    <3> QED
      BY Zenon, <2>2, <3>1, QuantumQuiet DEF vars
  <2> QED
    BY Zenon, <2>1, <2>2
<1> QED
  BY Inductive, <1>1, <1>2, PTL DEF Spec

(* The variables keep their types; the loop of BaseGlobalEvent::schedule()  *)
(* never leaves the queues.                                                 *)
THEOREM TypeCorrect == Spec => []TypeOK
  BY Inductive, PTL DEF IInv

(* While a thread runs the process() of a global event, every other thread  *)
(* waits at a barrier of that event, for any number of threads.             *)
THEOREM GlobalEventsAlone == Spec => []ProcessAlone
<1>1. IInv => ProcessAlone
  BY Zenon DEF IInv, BarrierInv, Inside, ProcessAlone
<1> QED
  BY Inductive, <1>1, PTL

(* Who executes a handler on a queue, its own or one it migrated to, holds  *)
(* the service_mutex of that queue.                                         *)
THEOREM HandlersLocked == Spec => []OwnerActs
<1>1. IInv => OwnerActs
  BY Zenon DEF IInv, LockInv, LockOK, Holds, OwnerActs
<1> QED
  BY Inductive, <1>1, PTL

(* When simulate() returns it finds the quantum event in the lists of every *)
(* queue that has it scheduled: deschedule() never panics.                  *)
THEOREM QuantumAlwaysFound == Spec => []QuantumEventFound
<1>1. QuantumInv => QuantumEventFound
  BY Zenon DEF QuantumInv, QuantumOK, QuantumEventFound
<1> QED
  BY QuantumInductive, <1>1, PTL
=============================================================================
