--------------------------- MODULE DrainManager ---------------------------
(***************************************************************************)
(* Draining and resuming the simulator: the DrainManager and the Drainable *)
(* objects of sim/drain.{hh,cc}, the loop of m5.drain(), m5.simulate() and *)
(* m5.instantiate() in python/m5/simulate.py that drives them, and the     *)
(* DmaCallback of dev/dma_device.hh, a Drainable that is created and       *)
(* deleted while the simulation runs.                                      *)
(*                                                                         *)
(* What an object does is reduced to whether it has work in flight:        *)
(* drain() answers Draining when it has and Drained when it has not, and   *)
(* the object calls signalDrainDone() when the work is finished. The       *)
(* vector _allDrainable is the set of its elements; the one thing its      *)
(* order decides, which objects a pass of resume() still reaches, is kept  *)
(* as the set todo.                                                        *)
(***************************************************************************)
EXTENDS Naturals, FiniteSets

CONSTANTS
    Static,       \* the Drainables of the configuration
    Callback,     \* DmaCallbacks a device may allocate
    Process,      \* the processes that system calls, or drainResume(), may create
    CallbackIn,   \* the drain states in which devices start a chain of DMAs
    Capacity,     \* capacity() of the vector _allDrainable at the start
    MaxDisturb    \* bound: disturbances of idle objects and DMAs started

Object == Static \cup Callback \cup Process
DrainState == {"Running", "Draining", "Drained", "Resuming"}

ASSUME KindsAssumption ==
    /\ Static \cap Callback = {} /\ Static \cap Process = {} /\ Callback \cap Process = {}
    /\ IsFiniteSet(Object)
    /\ CallbackIn \subseteq {"Running", "Draining"}
ASSUME BoundAssumption == Capacity \in Nat \ {0} /\ MaxDisturb \in Nat

VARIABLES
    state,       \* DrainManager::_state
    count,       \* DrainManager::_count
    all,         \* DrainManager::_allDrainable
    capacity,    \* the capacity of that vector
    drainState,  \* Drainable::_drainState of every object
    work,        \* the objects with work in flight
    exits,       \* "Finished drain" exit events in the event queues
    pc,          \* what the Python script is doing
    todo,        \* the objects ahead of the iterator in resume()
    stale,       \* a push_back() invalidated that iterator
    panic,       \* an assertion or a panic_if() failed
    disturbed    \* disturbances so far

vars == <<state, count, all, capacity, drainState, work, exits, pc, todo, stale, panic,
          disturbed>>

Pending == {o \in all : drainState[o] = "Draining" /\ o \in work}
Simulating == pc = "simulate" /\ ~panic

Init ==
    /\ state = "Running" /\ count = 0
    /\ all = Static /\ capacity = Capacity
    /\ drainState = [o \in Object |-> "Running"]
    /\ work = {} /\ exits = 0 /\ pc = "instantiate"
    /\ todo = {} /\ stale = FALSE /\ panic = FALSE /\ disturbed = 0

-----------------------------------------------------------------------------
(* Drainable::Drainable() and DrainManager::registerDrainable(): a new       *)
(* object inherits the state of the manager and is appended to the vector,   *)
(* which moves when it is full.                                              *)

PushBack(o) ==
    /\ all' = all \cup {o}
    /\ capacity' = IF Cardinality(all) = capacity THEN 2 * capacity ELSE capacity

Register(o) ==
    /\ drainState' = [drainState EXCEPT ![o] = state]
    /\ PushBack(o)

(* Slip: an object that has drained before signals again.                    *)
SignalAlways(o) ==
    /\ panic' = (panic \/ count = 0)
    /\ count' = IF count = 0 THEN 0 ELSE count - 1
    /\ exits' = IF count = 1 THEN exits + 1 ELSE exits
    /\ drainState' = [drainState EXCEPT ![o] = "Drained"]

(* Slip: the exit is scheduled by the last object but one as well.           *)
SignalEarly(o) ==
    IF drainState[o] = "Draining"
    THEN /\ panic' = (panic \/ count = 0)
         /\ count' = IF count = 0 THEN 0 ELSE count - 1
         /\ exits' = IF count <= 2 THEN exits + 1 ELSE exits
         /\ drainState' = [drainState EXCEPT ![o] = "Drained"]
    ELSE UNCHANGED <<panic, count, exits, drainState>>

(* Drainable::signalDrainDone() of o, with DrainManager::signalDrainDone().  *)
SignalDrainDone(o) ==
    IF drainState[o] = "Draining"
    THEN /\ panic' = (panic \/ count = 0)
         /\ count' = IF count = 0 THEN 0 ELSE count - 1
         /\ exits' = IF count = 1 THEN exits + 1 ELSE exits
         /\ drainState' = [drainState EXCEPT ![o] = "Drained"]
    ELSE UNCHANGED <<panic, count, exits, drainState>>

-----------------------------------------------------------------------------
(* m5.instantiate(), with or without a checkpoint to restore; the former     *)
(* calls preCheckpointRestore().                                             *)

Instantiate ==
    /\ pc = "instantiate" /\ pc' = "script"
    /\ \/ UNCHANGED <<state, drainState>>
       \/ /\ state' = "Drained"
          /\ drainState' = [o \in Object |-> IF o \in all THEN "Drained" ELSE drainState[o]]
    /\ UNCHANGED <<count, all, capacity, work, exits, todo, stale, panic, disturbed>>

(* m5.simulate() of a system that is not drained.                            *)

Simulate ==
    /\ pc = "script" /\ ~panic /\ state # "Drained"
    /\ pc' = "simulate"
    /\ UNCHANGED <<state, count, all, capacity, drainState, work, exits, todo, stale,
                   panic, disturbed>>

(* m5.simulate() of a drained system begins with DrainManager::resume().     *)

ResumeBegin ==
    /\ pc = "script" /\ ~panic /\ state = "Drained"
    /\ IF count # 0
       THEN panic' = TRUE /\ UNCHANGED <<state, pc, todo>>
       ELSE state' = "Resuming" /\ pc' = "resume" /\ todo' = all /\ UNCHANGED panic
    /\ UNCHANGED <<count, all, capacity, drainState, work, exits, stale, disturbed>>

(* One turn of the loop over _allDrainable in resume(). The object is put    *)
(* into Running before its drainResume(), which may create a new object:     *)
(* that lies behind the end iterator of this pass, and when the vector has   *)
(* to move both iterators dangle.                                            *)

ResumeOne(o) ==
    /\ pc = "resume" /\ ~panic /\ ~stale /\ o \in todo
    /\ todo' = todo \ {o}
    /\ panic' = (drainState[o] = "Draining")
    /\ \/ /\ drainState[o] \in {"Running", "Draining"}
          /\ UNCHANGED <<drainState, all, capacity, stale>>
       \/ /\ drainState[o] \in {"Drained", "Resuming"}
          /\ drainState' = [drainState EXCEPT ![o] = "Running"]
          /\ UNCHANGED <<all, capacity, stale>>
       \/ /\ drainState[o] \in {"Drained", "Resuming"}
          /\ \E n \in Process \ all :
                /\ drainState' = [drainState EXCEPT ![o] = "Running", ![n] = state]
                /\ PushBack(n)
          /\ stale' = (Cardinality(all) = capacity)
    /\ UNCHANGED <<state, count, work, exits, pc, disturbed>>

(* Slip: one pass over the objects is taken to be enough.                    *)
ResumeSinglePass ==
    /\ pc = "resume" /\ ~panic /\ ~stale /\ todo = {}
    /\ state' = "Running" /\ pc' = "simulate"
    /\ UNCHANGED <<count, all, capacity, drainState, work, exits, todo, stale, panic, disturbed>>

(* The end of a pass: another one while some object is not Running.          *)
ResumePassDone ==
    /\ pc = "resume" /\ ~panic /\ ~stale /\ todo = {}
    /\ IF \A o \in all : drainState[o] = "Running"
       THEN state' = "Running" /\ pc' = "simulate" /\ UNCHANGED todo
       ELSE todo' = all /\ UNCHANGED <<state, pc>>
    /\ UNCHANGED <<count, all, capacity, drainState, work, exits, stale, panic, disturbed>>

-----------------------------------------------------------------------------
(* m5.drain() does nothing when the system is already drained.               *)

Drain ==
    /\ pc = "script" /\ ~panic /\ state # "Drained"
    /\ pc' = "drain"
    /\ UNCHANGED <<state, count, all, capacity, drainState, work, exits, todo, stale,
                   panic, disturbed>>

(* dmDrain() of all the objects, busy being those that need more simulation. *)

DrainAll(busy) ==
    /\ drainState' = [o \in Object |-> IF o \notin all THEN drainState[o]
                                       ELSE IF o \in busy THEN "Draining" ELSE "Drained"]
    /\ count' = Cardinality(busy)
    /\ IF busy = {} THEN state' = "Drained" /\ pc' = "script"
                    ELSE state' = "Draining" /\ pc' = "simulate"

(* Slip: an object that has drained once is not asked again.                 *)
TryDrainTrusting ==
    /\ pc = "drain" /\ ~panic
    /\ DrainAll({o \in all \cap work : drainState[o] # "Drained"})
    /\ UNCHANGED <<all, capacity, work, exits, todo, stale, panic, disturbed>>

(* m5.drain() calls tryDrain() until it returns true. No simulation thread   *)
(* runs during a call, so that it is one step.                               *)
TryDrain ==
    /\ pc = "drain" /\ ~panic
    /\ IF state = "Drained" \/ count # 0
       THEN panic' = TRUE /\ UNCHANGED <<state, count, drainState, pc>>
       ELSE DrainAll(all \cap work) /\ UNCHANGED panic
    /\ UNCHANGED <<all, capacity, work, exits, todo, stale, disturbed>>

(* The simulation loop returns because of "Finished drain".                  *)

ExitFinished ==
    /\ Simulating /\ exits > 0
    /\ exits' = exits - 1
    /\ pc' = IF state = "Draining" THEN "drain" ELSE "script"
    /\ UNCHANGED <<state, count, all, capacity, drainState, work, todo, stale, panic, disturbed>>

(* Slip: m5.drain() takes any return of the simulation loop for the end.     *)
ExitOtherTaken ==
    /\ Simulating
    /\ pc' = IF state = "Draining" THEN "drain" ELSE "script"
    /\ UNCHANGED <<state, count, all, capacity, drainState, work, exits, todo, stale,
                   panic, disturbed>>

(* It returns for another cause. m5.drain() then just simulates on.          *)
ExitOther ==
    /\ Simulating
    /\ pc' = IF state = "Draining" THEN "simulate" ELSE "script"
    /\ UNCHANGED <<state, count, all, capacity, drainState, work, exits, todo, stale,
                   panic, disturbed>>

-----------------------------------------------------------------------------
(* What the objects do while the simulation runs. In a system that is        *)
(* draining, work only comes from objects that still have some.              *)

Stirs ==
    /\ Simulating /\ (state = "Draining" => work # {})
    /\ disturbed < MaxDisturb /\ disturbed' = disturbed + 1

Disturb(o) ==
    /\ Stirs /\ o \in Static \ work
    /\ work' = work \cup {o}
    /\ UNCHANGED <<state, count, all, capacity, drainState, exits, pc, todo, stale, panic>>

Finish(o) ==
    /\ Simulating /\ o \in Static \cap work
    /\ work' = work \ {o}
    /\ SignalDrainDone(o)
    /\ UNCHANGED <<state, all, capacity, pc, todo, stale, disturbed>>

(* A device allocates a callback and asks it for its chunk events.           *)

StartDma(c) ==
    /\ Stirs /\ state \in CallbackIn /\ c \in Callback \ all
    /\ Register(c)
    /\ work' = work \cup {c}
    /\ UNCHANGED <<state, count, exits, pc, todo, stale, panic>>

(* Slip: the callback is deleted without a word to the manager.              *)
ChunkCompleteSilently(c) ==
    /\ Simulating /\ c \in Callback \cap work
    /\ work' = work \ {c} /\ all' = all \ {c}
    /\ UNCHANGED <<state, count, capacity, drainState, exits, pc, todo, stale, panic, disturbed>>

(* DmaCallback::chunkComplete() of the last chunk: the signal, then the      *)
(* deletion, which unregisters the object. A DMA started by process(), which *)
(* the callback calls first, is a StartDma just before this step.            *)
ChunkComplete(c) ==
    /\ Simulating /\ c \in Callback \cap work
    /\ work' = work \ {c} /\ all' = all \ {c}
    /\ SignalDrainDone(c)
    /\ UNCHANGED <<state, capacity, pc, todo, stale, disturbed>>

(* A system call creates a Process, in whatever state the manager is. A      *)
(* Process is always ready to be drained and never signals.                  *)

Clone(p) ==
    /\ Simulating /\ p \in Process \ all
    /\ Register(p)
    /\ UNCHANGED <<state, count, work, exits, pc, todo, stale, panic, disturbed>>

Next ==
    \/ Instantiate \/ Simulate \/ Drain \/ TryDrain
    \/ ResumeBegin \/ ResumePassDone \/ ExitFinished \/ ExitOther
    \/ \E o \in Object : ResumeOne(o)
    \/ \E o \in Static : Disturb(o) \/ Finish(o)
    \/ \E c \in Callback : StartDma(c) \/ ChunkComplete(c)
    \/ \E p \in Process : Clone(p)

Spec == Init /\ [][Next]_vars

(* Thread 0 goes on with what the script asked for, the event queues service *)
(* the exit event, and an object that has answered Draining gets its work    *)
(* done: that is what its drain() promises.                                  *)

FairSpec ==
    /\ Spec
    /\ WF_vars(TryDrain) /\ WF_vars(ExitFinished)
    /\ \A o \in Static : WF_vars(Finish(o))
    /\ \A c \in Callback : WF_vars(ChunkComplete(c))

-----------------------------------------------------------------------------
(* The variables have their types; in particular no object that is gone has  *)
(* work in flight, such as a chunk event that would call it.                 *)
TypeOK ==
    /\ state \in DrainState /\ count \in 0 .. Cardinality(Object)
    /\ all \subseteq Object /\ Static \subseteq all
    /\ capacity \in Nat \ {0}
    /\ drainState \in [Object -> DrainState]
    /\ work \subseteq all \ Process
    /\ exits \in Nat
    /\ pc \in {"instantiate", "script", "simulate", "resume", "drain"}
    /\ todo \subseteq all /\ stale \in BOOLEAN /\ panic \in BOOLEAN
    /\ disturbed \in 0 .. MaxDisturb

(* While the system drains, _count is the number of objects that have        *)
(* answered Draining and have not signalled yet (drain.hh: "Number of        *)
(* objects still draining").                                                 *)
CountIsPending == pc = "simulate" /\ state = "Draining" => count = Cardinality(Pending)

(* A drained system is quiescent, whoever disturbed whom on the way: when    *)
(* tryDrain() has returned true, and until resume(), nothing is in flight.   *)
DrainedIsIdle == state = "Drained" => work = {}

(* None of the assertions and panics of drain.cc is ever reached: _count > 0 *)
(* when an object signals, _count = 0 at the start of a drain cycle and in   *)
(* resume(), and resume() never meets an object that is still draining.      *)
NoPanic == ~panic

(* "Finished drain" is scheduled once per drain cycle, not before every      *)
(* object has drained, and none is left to interrupt the simulation after    *)
(* the drain.                                                                *)
OneFinish == exits > 0 => exits = 1 /\ state = "Draining" /\ Pending = {}

(* Once resume() is done every object is Running, the ones created by some   *)
(* object's drainResume() and the ones created while draining included.      *)
ResumedAll == state = "Running" => \A o \in all : drainState[o] = "Running"

(* Once m5.drain() is called the system is drained in the end.               *)
DrainCompletes == pc = "drain" ~> state = "Drained"
=============================================================================
