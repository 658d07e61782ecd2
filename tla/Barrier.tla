------------------------------ MODULE Barrier ------------------------------
(***************************************************************************)
(* The reusable thread barrier of base/barrier.hh, on which the threads of *)
(* a parallel simulation meet at every global event.  wait() takes the     *)
(* mutex, counts itself in, and either closes the round (the last thread)  *)
(* or blocks until `generation` has moved on.                              *)
(*                                                                         *)
(* The mutex is held from the start of wait() to its end except while the  *)
(* thread is blocked in the condition variable, so one call is two atomic  *)
(* steps: Arrive, and, for every thread but the last, Leave.               *)
(***************************************************************************)
EXTENDS Integers, FiniteSets

CONSTANTS
  Threads,     \* the threads that meet; numWaiting is their number
  MaxUnsigned, \* `unsigned generation` wraps around after this value
  MaxRounds    \* bound: how often each thread calls wait()

ASSUME ThreadsAssumption == IsFiniteSet(Threads) /\ Threads # {}
ASSUME MaxUnsignedAssumption == MaxUnsigned \in Nat \ {0}
ASSUME MaxRoundsAssumption == MaxRounds \in Nat

VARIABLES
  numLeft,     \* number of threads the current round still waits for
  generation,  \* number of the current round, modulo 2^32
  pc,          \* "out" of wait(), or "waiting" in cv.wait()
  gen,         \* the local copy of generation taken on entry
  blocked,     \* the threads asleep in the condition variable
  done         \* history: number of calls of wait() each thread completed

vars == <<numLeft, generation, pc, gen, blocked, done>>

numWaiting == Cardinality(Threads)

\* unsigned arithmetic of `generation++`
Succ(g) == IF g = MaxUnsigned THEN 0 ELSE g + 1

Init ==
  /\ numLeft = numWaiting
  /\ generation = 0
  /\ pc = [t \in Threads |-> "out"]
  /\ gen = [t \in Threads |-> 0]
  /\ blocked = {}
  /\ done = [t \in Threads |-> 0]

\* Slip: the closing thread counts itself into the next round.
ArriveLastMiscount(t) ==
  /\ pc[t] = "out"
  /\ done[t] < MaxRounds
  /\ numLeft = 1
  /\ generation' = Succ(generation)
  /\ numLeft' = numWaiting - 1
  /\ blocked' = {}
  /\ done' = [done EXCEPT ![t] = @ + 1]
  /\ UNCHANGED <<pc, gen>>

\* Slip: one waiting thread is notified instead of all.
ArriveLastNotifyOne(t) ==
  /\ pc[t] = "out"
  /\ done[t] < MaxRounds
  /\ numLeft = 1
  /\ generation' = Succ(generation)
  /\ numLeft' = numWaiting
  /\ \/ blocked = {} /\ UNCHANGED blocked
     \/ \E u \in blocked : blocked' = blocked \ {u}
  /\ done' = [done EXCEPT ![t] = @ + 1]
  /\ UNCHANGED <<pc, gen>>

\* The last thread to arrive opens the barrier and wakes the others.
ArriveLast(t) ==
  /\ pc[t] = "out"
  /\ done[t] < MaxRounds
  /\ numLeft = 1
  /\ generation' = Succ(generation)
  /\ numLeft' = numWaiting
  /\ blocked' = {}
  /\ done' = [done EXCEPT ![t] = @ + 1]
  /\ UNCHANGED <<pc, gen>>

\* Any other thread remembers the generation and blocks.
ArriveAndWait(t) ==
  /\ pc[t] = "out"
  /\ done[t] < MaxRounds
  /\ numLeft # 1
  /\ numLeft' = numLeft - 1
  /\ gen' = [gen EXCEPT ![t] = generation]
  /\ pc' = [pc EXCEPT ![t] = "waiting"]
  /\ blocked' = blocked \cup {t}
  /\ UNCHANGED <<generation, done>>

\* cv.wait() may return without a notification.
SpuriousWakeup(t) ==
  /\ t \in blocked
  /\ blocked' = blocked \ {t}
  /\ UNCHANGED <<numLeft, generation, pc, gen, done>>

\* while (gen == generation) cv.wait(lock): asleep again.
WaitAgain(t) ==
  /\ pc[t] = "waiting"
  /\ t \notin blocked
  /\ gen[t] = generation
  /\ blocked' = blocked \cup {t}
  /\ UNCHANGED <<numLeft, generation, pc, gen, done>>

\* Slip: `if` instead of `while` around cv.wait().
LeaveOnAnyWakeup(t) ==
  /\ pc[t] = "waiting"
  /\ t \notin blocked
  /\ pc' = [pc EXCEPT ![t] = "out"]
  /\ done' = [done EXCEPT ![t] = @ + 1]
  /\ UNCHANGED <<numLeft, generation, gen, blocked>>

\* The loop ends and wait() returns.
Leave(t) ==
  /\ pc[t] = "waiting"
  /\ t \notin blocked
  /\ gen[t] # generation
  /\ pc' = [pc EXCEPT ![t] = "out"]
  /\ done' = [done EXCEPT ![t] = @ + 1]
  /\ UNCHANGED <<numLeft, generation, gen, blocked>>

Arrive(t) == ArriveLast(t) \/ ArriveAndWait(t)

Next ==
  \E t \in Threads :
    Arrive(t) \/ SpuriousWakeup(t) \/ WaitAgain(t) \/ Leave(t)

Spec == Init /\ [][Next]_vars

\* Every thread keeps coming to the barrier and the host runs every thread
\* that can run.  Spurious wake-ups are not promised.
Fairness ==
  \A t \in Threads : WF_vars(Arrive(t)) /\ WF_vars(WaitAgain(t) \/ Leave(t))

FairSpec == Spec /\ Fairness

-----------------------------------------------------------------------------
TypeOK ==
  /\ numLeft \in 1 .. numWaiting
  /\ generation \in 0 .. MaxUnsigned
  /\ pc \in [Threads -> {"out", "waiting"}]
  /\ gen \in [Threads -> 0 .. MaxUnsigned]
  /\ blocked \subseteq Threads
  /\ done \in [Threads -> Nat]

\* Calls of wait() thread t has begun.
Begun(t) == done[t] + (IF pc[t] = "waiting" THEN 1 ELSE 0)

\* The promise of a barrier: nobody's k-th wait() returns before everybody's
\* k-th wait() has begun, even though a fast thread may enter the next round
\* while slow ones have not woken up from the previous one.
NoEarlyExit == \A t, u \in Threads : done[t] <= Begun(u)

\* `gen == generation` can not be confused by the wrap-around of the
\* unsigned counter: a waiting thread is in the current round or exactly one
\* behind, however long it sleeps.
NeverLapped ==
  \A t \in Threads :
    pc[t] = "waiting" => generation \in {gen[t], Succ(gen[t])}

\* A thread whose round is over is never left asleep: notify_all() has
\* removed it from the condition variable before anyone can sleep again.
ReleasedAreAwake ==
  \A t \in Threads : pc[t] = "waiting" /\ gen[t] # generation => t \notin blocked

\* Every call of wait() returns.
EveryWaitReturns == \A t \in Threads : pc[t] = "waiting" ~> pc[t] = "out"
=============================================================================
