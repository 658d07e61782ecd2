------------------------- MODULE DrainManager_proofs -------------------------
(***************************************************************************)
(* The drain protocol is safe for any set of objects, as long as devices   *)
(* start no chain of DMAs while the system is draining.                    *)
(***************************************************************************)
EXTENDS DrainManager, FiniteSetTheorems, TLAPS

\* No device allocates a DmaCallback while the system is draining.
QuietDevices == CallbackIn \subseteq {"Running"}

\* Where the script is in each state of the manager.
Control ==
  /\ state = "Running" => pc \in {"instantiate", "script", "simulate", "drain"}
  /\ state = "Drained" => pc = "script"
  /\ state = "Draining" => pc \in {"simulate", "drain"}
  /\ state = "Resuming" => pc = "resume"
  /\ pc = "instantiate" => work = {}
  /\ pc # "resume" => todo = {}

\* The states that the objects may be in, for each state of the manager.
Objects ==
  /\ state = "Running" => \A o \in all : drainState[o] = "Running"
  /\ state = "Drained" => \A o \in all : drainState[o] = "Drained"
  /\ state = "Draining" =>
       \A o \in all : /\ drainState[o] \in {"Draining", "Drained"}
                      /\ drainState[o] = "Draining" /\ o \notin Process => o \in work
  /\ state = "Resuming" => \A o \in all : drainState[o] # "Draining"
  /\ state \in {"Drained", "Resuming"} => work = {}

\* The counter, and the exit event that is scheduled when it reaches zero.
Counter ==
  /\ state # "Draining" => count = 0 /\ exits = 0
  /\ state = "Draining" => count = Cardinality(Pending)
  /\ state = "Draining" /\ pc = "drain" => count = 0 /\ exits = 0
  /\ state = "Draining" /\ pc = "simulate" => exits = IF count = 0 THEN 1 ELSE 0

\* The properties are not inductive one by one: that no assertion fails rests
\* on the meaning of the counter, which rests on the states of the objects.
IInv == TypeOK /\ panic = FALSE /\ Control /\ Objects /\ Counter

\* Any set of objects can be counted.
LEMMA ObjectsFinite ==
  ASSUME NEW S \in SUBSET Object
  PROVE  /\ IsFiniteSet(S)
         /\ Cardinality(S) \in 0 .. Cardinality(Object)
         /\ Cardinality(S) = 0 <=> S = {}
<1>1. IsFiniteSet(S) /\ Cardinality(S) <= Cardinality(Object)
  BY KindsAssumption, FS_Subset
<1>2. Cardinality(S) \in Nat /\ Cardinality(Object) \in Nat
  BY <1>1, KindsAssumption, FS_CardinalityType
<1>3. Cardinality(S) = 0 <=> S = {}
  BY <1>1, FS_EmptySet
<1> QED
  BY <1>1, <1>2, <1>3

\* Their number is a natural number.
LEMMA ObjectCount == Cardinality(Object) \in Nat
  BY KindsAssumption, FS_CardinalityType

\* Those that still have to signal are objects.
LEMMA PendingObjects == TypeOK => Pending \in SUBSET Object
  BY DEF TypeOK, Pending

\* The initial state satisfies the invariant.
LEMMA InitIInv == Init => IInv
<1> SUFFICES ASSUME Init PROVE IInv
  OBVIOUS
<1>1. 0 \in 0 .. Cardinality(Object)
  BY ObjectCount
<1>2. Static \subseteq Object
  BY DEF Object
<1>3. TypeOK
  <2>1. stale \in BOOLEAN /\ panic \in BOOLEAN
    BY Zenon DEF Init
  <2>2. drainState \in [Object -> DrainState] /\ state \in DrainState
    BY DEF Init, DrainState
  <2>3. count \in 0 .. Cardinality(Object) /\ exits \in Nat /\ disturbed \in 0 .. MaxDisturb
    BY <1>1, BoundAssumption DEF Init
  <2> QED
    BY <1>2, <2>1, <2>2, <2>3, BoundAssumption DEF Init, TypeOK
<1> QED
  BY <1>3 DEF Init, IInv, Control, Objects, Counter, Object

\* Every step preserves the types.
LEMMA TypeStep ==
  ASSUME TypeOK, panic = FALSE, Control, Next
  PROVE  TypeOK'
<1> USE DEF TypeOK
<1>1. 0 \in 0 .. Cardinality(Object) /\ Cardinality(Object) \in Nat
  BY ObjectCount
<1>2. ASSUME NEW o PROVE PushBack(o) => capacity' \in Nat \ {0}
  BY DEF PushBack
<1>3. ASSUME NEW o \in Object PROVE
        SignalDrainDone(o) => /\ count' \in 0 .. Cardinality(Object)
                              /\ exits' \in Nat /\ panic' \in BOOLEAN
                              /\ drainState' \in [Object -> DrainState]
  <2> SUFFICES ASSUME SignalDrainDone(o)
               PROVE  /\ count' \in 0 .. Cardinality(Object)
                      /\ exits' \in Nat /\ panic' \in BOOLEAN
                      /\ drainState' \in [Object -> DrainState]
    OBVIOUS
  <2>1. panic' \in BOOLEAN
    BY Zenon DEF SignalDrainDone
  <2>2. count' \in 0 .. Cardinality(Object) /\ exits' \in Nat
    BY <1>1 DEF SignalDrainDone
  <2>3. drainState' \in [Object -> DrainState]
    BY DEF SignalDrainDone, DrainState
  <2> QED
    BY <2>1, <2>2, <2>3
<1>4. Static \subseteq Object /\ Callback \subseteq Object /\ Process \subseteq Object
  BY DEF Object
<1>5. CASE Instantiate
  BY <1>5 DEF Instantiate, DrainState
<1>6. CASE Simulate
  BY <1>6 DEF Simulate
<1>7. CASE Drain
  BY <1>7 DEF Drain
<1>8. CASE TryDrain
  <2>1. CASE state = "Drained" \/ count # 0
    BY <1>8, <2>1, Zenon DEF TryDrain
  <2>2. CASE ~(state = "Drained" \/ count # 0)
    <3>1. DrainAll(all \cap work) /\ panic' = panic
      BY <1>8, <2>2 DEF TryDrain
    <3>2. Cardinality(all \cap work) \in 0 .. Cardinality(Object)
      BY ObjectsFinite
    <3>3. /\ count' \in 0 .. Cardinality(Object)
          /\ drainState' \in [Object -> DrainState]
          /\ state' \in DrainState /\ pc' \in {"script", "simulate"}
      BY <3>1, <3>2 DEF DrainAll, DrainState
    <3> QED
      BY <1>8, <3>1, <3>3 DEF TryDrain
  <2> QED
    BY <2>1, <2>2
<1>9. CASE ResumeBegin
  BY <1>9, Zenon DEF ResumeBegin, DrainState
<1>10. CASE ResumePassDone
  BY <1>10 DEF ResumePassDone, DrainState
<1>11. CASE ExitFinished
  BY <1>11 DEF ExitFinished, Simulating
<1>12. CASE ExitOther
  BY <1>12 DEF ExitOther, Simulating
<1>13. ASSUME NEW o \in Object, ResumeOne(o) PROVE TypeOK'
  <2>1. drainState' \in [Object -> DrainState]
    BY <1>4, <1>13 DEF ResumeOne, DrainState
  <2>2. all' \subseteq Object /\ all \subseteq all' /\ capacity' \in Nat \ {0}
    BY <1>2, <1>4, <1>13 DEF ResumeOne, PushBack
  <2>3. panic' \in BOOLEAN /\ stale' \in BOOLEAN
    BY <1>13, Zenon DEF ResumeOne
  <2> QED
    BY <1>13, <2>1, <2>2, <2>3 DEF ResumeOne
<1>14. ASSUME NEW o \in Static, Disturb(o) PROVE TypeOK'
  BY <1>4, <1>14, KindsAssumption, BoundAssumption DEF Disturb, Stirs, Simulating
<1>15. ASSUME NEW o \in Static, Finish(o) PROVE TypeOK'
  BY <1>3, <1>4, <1>15 DEF Finish, Simulating
<1>16. ASSUME NEW c \in Callback, StartDma(c) PROVE TypeOK'
  <2>1. /\ drainState' \in [Object -> DrainState] /\ capacity' \in Nat \ {0}
        /\ all' = all \cup {c}
    BY <1>2, <1>4, <1>16 DEF StartDma, Register, PushBack
  <2> QED
    BY <1>4, <1>16, <2>1, KindsAssumption, BoundAssumption DEF StartDma, Stirs, Simulating
<1>17. ASSUME NEW c \in Callback, ChunkComplete(c) PROVE TypeOK'
  <2>1. todo' = {}
    BY <1>17 DEF ChunkComplete, Simulating, Control
  <2> QED
    BY <1>3, <1>4, <1>17, <2>1, KindsAssumption DEF ChunkComplete, Simulating
<1>18. ASSUME NEW p \in Process, Clone(p) PROVE TypeOK'
  <2>1. /\ drainState' \in [Object -> DrainState] /\ capacity' \in Nat \ {0}
        /\ all' = all \cup {p}
    BY <1>2, <1>4, <1>18 DEF Clone, Register, PushBack
  <2> QED
    BY <1>4, <1>18, <2>1 DEF Clone, Simulating
<1> QED
  BY <1>5, <1>6, <1>7, <1>8, <1>9, <1>10, <1>11, <1>12, <1>13, <1>14, <1>15, <1>16,
     <1>17, <1>18 DEF Next

\* Every step preserves the relation of the manager to the script.
LEMMA ControlStep ==
  ASSUME IInv, Next
  PROVE  Control'
<1> USE DEF IInv, Control
<1>1. CASE Instantiate
  BY <1>1 DEF Instantiate
<1>2. CASE Simulate \/ Drain
  BY <1>2 DEF Simulate, Drain, TypeOK, DrainState, Objects
<1>3. CASE TryDrain
  BY <1>3 DEF TryDrain, DrainAll, TypeOK, Counter
<1>4. CASE ResumeBegin
  BY <1>4 DEF ResumeBegin, Counter
<1>5. CASE ResumePassDone
  BY <1>5 DEF ResumePassDone, TypeOK
<1>6. CASE ExitFinished \/ ExitOther
  BY <1>6 DEF ExitFinished, ExitOther, Simulating, TypeOK, DrainState
<1>7. ASSUME NEW o \in Object, ResumeOne(o) PROVE Control'
  BY <1>7 DEF ResumeOne
<1>8. ASSUME NEW o \in Static, Disturb(o) \/ Finish(o) PROVE Control'
  BY <1>8 DEF Disturb, Finish, Stirs, Simulating
<1>9. ASSUME NEW c \in Callback, StartDma(c) \/ ChunkComplete(c) PROVE Control'
  BY <1>9 DEF StartDma, ChunkComplete, Stirs, Simulating
<1>10. ASSUME NEW p \in Process, Clone(p) PROVE Control'
  BY <1>10 DEF Clone, Simulating
<1> QED
  BY <1>1, <1>2, <1>3, <1>4, <1>5, <1>6, <1>7, <1>8, <1>9, <1>10 DEF Next

\* No step fails an assertion.
LEMMA NoPanicStep ==
  ASSUME IInv, Next
  PROVE  panic' = FALSE
<1> USE DEF IInv
<1>1. CASE Instantiate \/ Simulate \/ Drain \/ ExitFinished \/ ExitOther \/ ResumePassDone
  BY <1>1 DEF Instantiate, Simulate, Drain, ExitFinished, ExitOther, ResumePassDone
<1>2. CASE TryDrain
  BY <1>2 DEF TryDrain, Control, Counter, TypeOK, DrainState
<1>3. CASE ResumeBegin
  BY <1>3 DEF ResumeBegin, Counter
<1>4. ASSUME NEW o \in Object, ResumeOne(o) PROVE panic' = FALSE
  <2>1. state = "Resuming" /\ o \in all
    BY <1>4 DEF ResumeOne, Control, TypeOK, DrainState
  <2>2. drainState[o] # "Draining"
    BY <2>1 DEF Objects
  <2> QED
    BY <1>4, <2>2, Zenon DEF ResumeOne
<1>5. ASSUME NEW o \in work, SignalDrainDone(o) PROVE panic' = FALSE
  <2>1. CASE drainState[o] = "Draining"
    <3>1. o \in Pending /\ state = "Draining"
      BY <2>1 DEF Pending, TypeOK, Objects, DrainState
    <3>2. count # 0
      BY <3>1, ObjectsFinite, PendingObjects DEF Counter
    <3> QED
      BY <1>5, <2>1, <3>2, Zenon DEF SignalDrainDone
  <2>2. CASE drainState[o] # "Draining"
    BY <1>5, <2>2 DEF SignalDrainDone
  <2> QED
    BY <2>1, <2>2, Zenon
<1>6. ASSUME NEW o \in Static, Disturb(o) \/ Finish(o) PROVE panic' = FALSE
  BY <1>5, <1>6, Zenon DEF Disturb, Finish
<1>7. ASSUME NEW c \in Callback, StartDma(c) \/ ChunkComplete(c) PROVE panic' = FALSE
  BY <1>5, <1>7, Zenon DEF StartDma, ChunkComplete
<1>8. ASSUME NEW p \in Process, Clone(p) PROVE panic' = FALSE
  BY <1>8 DEF Clone
<1> QED
  BY <1>1, <1>2, <1>3, <1>4, <1>6, <1>7, <1>8, Zenon DEF Next

\* Every step keeps the objects in states that fit the manager.
LEMMA ObjectsStep ==
  ASSUME QuietDevices, IInv, Next
  PROVE  Objects'
<1> USE DEF IInv
<1>1. CASE Instantiate
  BY <1>1 DEF Instantiate, Control, Objects, TypeOK
<1>2. CASE Simulate \/ Drain \/ ExitFinished \/ ExitOther
  BY <1>2 DEF Simulate, Drain, ExitFinished, ExitOther, Objects
<1>3. CASE TryDrain
  <2>1. DrainAll(all \cap work) /\ UNCHANGED <<all, work>>
    BY <1>3 DEF TryDrain, Control, Counter, TypeOK, DrainState
  <2>2. CASE work = {}
    BY <2>1, <2>2 DEF DrainAll, Objects, TypeOK
  <2>3. CASE work # {}
    <3>1. all \cap work = work
      BY DEF TypeOK
    <3> QED
      BY <2>1, <2>3, <3>1 DEF DrainAll, Objects, TypeOK
  <2> QED
    BY <2>2, <2>3
<1>4. CASE ResumeBegin
  BY <1>4 DEF ResumeBegin, Counter, Objects
<1>5. CASE ResumePassDone
  BY <1>5 DEF ResumePassDone, Objects, Control
<1>6. ASSUME NEW o \in Object, ResumeOne(o) PROVE Objects'
  <2>1. state = "Resuming" /\ UNCHANGED <<state, work>>
    BY <1>6 DEF ResumeOne, Control, TypeOK, DrainState
  <2>2. \A x \in all' : drainState'[x] # "Draining"
    BY <1>6, <2>1 DEF ResumeOne, PushBack, Objects, TypeOK, Object
  <2> QED
    BY <2>1, <2>2 DEF Objects
<1>7. ASSUME NEW o \in Static, Disturb(o) PROVE Objects'
  BY <1>7 DEF Disturb, Stirs, Simulating, Objects, Control
<1>8. ASSUME NEW o \in work, SignalDrainDone(o), UNCHANGED state, work' = work \ {o},
             all' = all \/ all' = all \ {o}, pc = "simulate"
      PROVE  Objects'
  <2>1. CASE drainState[o] = "Draining"
    <3>1. state = "Draining"
      BY <2>1 DEF TypeOK, Objects, DrainState
    <3>2. drainState' = [drainState EXCEPT ![o] = "Drained"]
      BY <1>8, <2>1 DEF SignalDrainDone
    <3>3. \A x \in all' : /\ drainState'[x] \in {"Draining", "Drained"}
                          /\ drainState'[x] = "Draining" /\ x \notin Process => x \in work'
      BY <1>8, <3>1, <3>2 DEF Objects, TypeOK
    <3> QED
      BY <1>8, <3>1, <3>3 DEF Objects
  <2>2. CASE drainState[o] # "Draining"
    <3>1. drainState' = drainState
      BY <1>8, <2>2 DEF SignalDrainDone
    <3> QED
      BY <1>8, <2>2, <3>1 DEF Objects
  <2> QED
    BY <2>1, <2>2
<1>9. ASSUME NEW o \in Static, Finish(o) PROVE Objects'
  BY <1>8, <1>9 DEF Finish, Simulating
<1>10. ASSUME NEW c \in Callback, ChunkComplete(c) PROVE Objects'
  BY <1>8, <1>10 DEF ChunkComplete, Simulating
<1>11. ASSUME NEW c \in Callback, StartDma(c) PROVE Objects'
  BY <1>11 DEF StartDma, Register, PushBack, QuietDevices, Objects, TypeOK, Object
<1>12. ASSUME NEW p \in Process, Clone(p) PROVE Objects'
  <2>1. state \in {"Running", "Draining"}
    BY <1>12 DEF Clone, Simulating, Control, TypeOK, DrainState
  <2> QED
    BY <1>12, <2>1 DEF Clone, Register, PushBack, Objects, TypeOK, Object
<1> QED
  BY <1>1, <1>2, <1>3, <1>4, <1>5, <1>6, <1>7, <1>9, <1>10, <1>11, <1>12 DEF Next

\* Every step preserves the meaning of _count.
LEMMA CounterStep ==
  ASSUME QuietDevices, IInv, Next
  PROVE  Counter'
<1> USE DEF IInv
<1>1. CASE Instantiate
  BY <1>1 DEF Instantiate, Counter, Control
<1>2. CASE Simulate \/ Drain
  BY <1>2 DEF Simulate, Drain, Counter, Control
<1>3. CASE TryDrain
  <2>1. /\ DrainAll(all \cap work) /\ UNCHANGED <<all, work, exits>>
        /\ count = 0 /\ exits = 0
    BY <1>3 DEF TryDrain, Control, Counter, TypeOK, DrainState
  <2>2. Pending' = all \cap work
    BY <2>1 DEF DrainAll, Pending, TypeOK
  <2>3. all \cap work \in SUBSET Object
    BY DEF TypeOK
  <2>4. Cardinality(all \cap work) = 0 <=> all \cap work = {}
    BY <2>3, ObjectsFinite
  <2> QED
    BY <2>1, <2>2, <2>4 DEF DrainAll, Counter
<1>4. CASE ResumeBegin \/ ResumePassDone
  BY <1>4 DEF ResumeBegin, ResumePassDone, Counter, Control
<1>5. CASE ExitFinished
  <2>1. state = "Draining" /\ exits = 1 /\ count = 0 /\ pc = "simulate"
    BY <1>5 DEF ExitFinished, Simulating, Counter, TypeOK
  <2>2. Pending' = Pending
    BY <1>5 DEF ExitFinished, Pending
  <2> QED
    BY <1>5, <2>1, <2>2 DEF ExitFinished, Counter
<1>6. CASE ExitOther
  <2>1. Pending' = Pending
    BY <1>6 DEF ExitOther, Pending
  <2> QED
    BY <1>6, <2>1 DEF ExitOther, Simulating, Counter
<1>7. ASSUME NEW o \in Object, ResumeOne(o) PROVE Counter'
  BY <1>7 DEF ResumeOne, Control, Counter
<1>8. ASSUME NEW o \in Static, Disturb(o) PROVE Counter'
  <2>1. state = "Draining" => Pending' = Pending
    BY <1>8, KindsAssumption DEF Disturb, Pending, Objects
  <2> QED
    BY <1>8, <2>1 DEF Disturb, Counter
<1>9. ASSUME NEW o \in work, SignalDrainDone(o), UNCHANGED <<state, pc>>, work' = work \ {o},
             all' = all \/ all' = all \ {o}, pc = "simulate"
      PROVE  Counter'
  <2>1. CASE drainState[o] = "Draining"
    <3>1. state = "Draining" /\ o \in Pending
      BY <2>1 DEF TypeOK, Objects, DrainState, Pending
    <3>2. /\ drainState' = [drainState EXCEPT ![o] = "Drained"]
          /\ count' = IF count = 0 THEN 0 ELSE count - 1
          /\ exits' = IF count = 1 THEN exits + 1 ELSE exits
      BY <1>9, <2>1 DEF SignalDrainDone
    <3>3. Pending' = Pending \ {o}
      BY <1>9, <3>2 DEF Pending, TypeOK
    <3>4. Cardinality(Pending) \in Nat /\ Cardinality(Pending \ {o}) = Cardinality(Pending) - 1
          /\ Cardinality(Pending) # 0
      BY <3>1, PendingObjects, ObjectsFinite, FS_RemoveElement, ObjectCount
    <3> QED
      BY <1>9, <3>1, <3>2, <3>3, <3>4 DEF Counter
  <2>2. CASE drainState[o] # "Draining"
    <3>1. UNCHANGED <<drainState, count, exits>>
      BY <1>9, <2>2 DEF SignalDrainDone
    <3>2. Pending' = Pending
      BY <1>9, <2>2, <3>1 DEF Pending
    <3> QED
      BY <1>9, <3>1, <3>2 DEF Counter
  <2> QED
    BY <2>1, <2>2
<1>10. ASSUME NEW o \in Static, Finish(o) PROVE Counter'
  BY <1>9, <1>10 DEF Finish, Simulating
<1>11. ASSUME NEW c \in Callback, ChunkComplete(c) PROVE Counter'
  BY <1>9, <1>11 DEF ChunkComplete, Simulating
<1>12. ASSUME NEW c \in Callback, StartDma(c) PROVE Counter'
  BY <1>12 DEF StartDma, QuietDevices, Counter
<1>13. ASSUME NEW p \in Process, Clone(p) PROVE Counter'
  <2>1. p \notin work /\ work' = work
    BY <1>13 DEF Clone, TypeOK
  <2>2. Pending' = Pending
    BY <1>13, <2>1 DEF Clone, Register, PushBack, Pending, TypeOK
  <2> QED
    BY <1>13, <2>2 DEF Clone, Counter
<1> QED
  BY <1>1, <1>2, <1>3, <1>4, <1>5, <1>6, <1>7, <1>8, <1>10, <1>11, <1>12, <1>13 DEF Next

\* The invariant always holds.
LEMMA Inductive ==
  ASSUME QuietDevices
  PROVE  Spec => []IInv
<1>1. IInv /\ Next => IInv'
  BY TypeStep, NoPanicStep, ControlStep, ObjectsStep, CounterStep, Zenon DEF IInv
<1>2. IInv /\ UNCHANGED vars => IInv'
  BY DEF IInv, TypeOK, Control, Objects, Counter, Pending, vars
<1> QED
  BY InitIInv, <1>1, <1>2, PTL DEF Spec

(* The variables of the drain protocol keep their types.                   *)
THEOREM TypeCorrect ==
  ASSUME QuietDevices
  PROVE  Spec => []TypeOK
  BY Inductive, PTL DEF IInv

(* No assertion or panic of drain.cc is reached, for any set of objects and *)
(* however they disturb one another, if no DMA starts during a drain.      *)
THEOREM NoAssertionFails ==
  ASSUME QuietDevices
  PROVE  Spec => []NoPanic
<1>1. IInv => NoPanic
  BY DEF IInv, NoPanic
<1> QED
  BY Inductive, <1>1, PTL

(* _count is the number of objects that are still to signal.               *)
THEOREM CounterMeaning ==
  ASSUME QuietDevices
  PROVE  Spec => []CountIsPending
<1>1. IInv => CountIsPending
  BY DEF IInv, Counter, CountIsPending
<1> QED
  BY Inductive, <1>1, PTL

(* Nothing is in flight in a system that tryDrain() declared drained.      *)
THEOREM Quiescence ==
  ASSUME QuietDevices
  PROVE  Spec => []DrainedIsIdle
<1>1. IInv => DrainedIsIdle
  BY DEF IInv, Objects, DrainedIsIdle
<1> QED
  BY Inductive, <1>1, PTL

(* "Finished drain" is scheduled once per cycle and never too early.       *)
THEOREM FinishOnce ==
  ASSUME QuietDevices
  PROVE  Spec => []OneFinish
<1>1. IInv => OneFinish
  BY PendingObjects, ObjectsFinite DEF IInv, TypeOK, Control, Counter, OneFinish
<1> QED
  BY Inductive, <1>1, PTL

(* After resume() every object is Running, late-comers included.           *)
THEOREM EverybodyResumed ==
  ASSUME QuietDevices
  PROVE  Spec => []ResumedAll
<1>1. IInv => ResumedAll
  BY DEF IInv, Objects, ResumedAll
<1> QED
  BY Inductive, <1>1, PTL
=============================================================================
