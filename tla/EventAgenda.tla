---------------------------- MODULE EventAgenda ----------------------------
(***************************************************************************)
(* What an event queue promises: pending events are serviced in the order  *)
(* of their times, then of their priorities, and the most recently         *)
(* inserted first among those that agree on both.                          *)
(*                                                                         *)
(* The order is kept as a relation: <<a, b>> \in order when a will be      *)
(* serviced before b.                                                      *)
(***************************************************************************)
EXTENDS EventBase

VARIABLE order

vars == <<baseVars, order>>

\* Slip: the comparison forgets the priorities.
InsertByTime(ord, sched, w, e) ==
  LET ahead == {x \in sched \ {e} : w[x] < w[e]}
      after == {x \in sched \ {e} : w[x] >= w[e]}
  IN  ord \cup (ahead \X {e}) \cup ({e} \X after)

\* The order once e, with the times w, is inserted in front of its bin.
Insert(ord, sched, w, e) ==
  LET ahead == {x \in sched \ {e} : Before(w, x, e)}
      after == {x \in sched \ {e} : ~Before(w, x, e)}
  IN  ord \cup (ahead \X {e}) \cup ({e} \X after)

Remove(ord, e) == {p \in ord : p[1] # e /\ p[2] # e}

\* Slip: the list is serviced from its end.
IsLast(e) == e \in scheduled /\ \A x \in scheduled \ {e} : <<x, e>> \in order

\* e is serviced next.
IsFirst(e) == e \in scheduled /\ \A x \in scheduled \ {e} : <<e, x>> \in order

Init == BaseInit /\ order = {}

Create(e) == CreateBase(e) /\ UNCHANGED order

Schedule(e, w) ==
  ScheduleBase(e, w) /\ order' = Insert(order, scheduled, when', e)

Deschedule(e) == DescheduleBase(e) /\ order' = Remove(order, e)

Reschedule(e, w) ==
  RescheduleBase(e, w) /\ order' = Insert(Remove(order, e), scheduled, when', e)

Squash(e) == SquashBase(e) /\ UNCHANGED order

Simulate(n) ==
  /\ SimulateBase(n)
  /\ order' = IF MovesLimit(n)
              THEN Insert(Remove(order, LimitEvent), scheduled, when', LimitEvent)
              ELSE order

ServiceEvents(w) == ServiceEventsBase(w) /\ UNCHANGED order

ServiceOne(e) == IsFirst(e) /\ ServiceOneBase(e) /\ order' = Remove(order, e)

Return == ReturnBase /\ UNCHANGED order

Abort == scheduled = {} /\ AbortBase /\ UNCHANGED order

\* Slip: the loop stops although an event is due.
EndServiceEventsEarly == EndServiceEventsBase /\ UNCHANGED order

EndServiceEvents ==
  /\ \A e \in scheduled : when[e] > limit
  /\ EndServiceEventsBase
  /\ UNCHANGED order

EventStep(e) ==
  \/ Create(e) \/ Deschedule(e) \/ Squash(e) \/ ServiceOne(e)
  \/ \E w \in Tick : Schedule(e, w) \/ Reschedule(e, w)

LoopStep ==
  \/ \E n \in {-1} \cup Tick : Simulate(n)
  \/ \E w \in Tick : ServiceEvents(w)
  \/ Return \/ Abort \/ EndServiceEvents

Next == LoopStep \/ \E e \in Event : EventStep(e)

Spec == Init /\ [][Next]_vars

-----------------------------------------------------------------------------
\* The variables keep their types, and the order relates pending events only:
\* insert() and remove() leave no trace of an event that is not in the queue.
TypeOK == BaseTypeOK /\ order \subseteq scheduled \X scheduled

\* The order of service is a strict total order on the pending events, and
\* it never contradicts their times and priorities: no sequence of
\* schedule(), reschedule() and deschedule() calls makes an event overtake
\* one that must precede it.
ServiceOrder ==
  /\ \A a, b \in scheduled : a # b => (<<a, b>> \in order <=> <<b, a>> \notin order)
  /\ \A a \in scheduled : <<a, a>> \notin order
  /\ \A a, b, c \in scheduled :
       <<a, b>> \in order /\ <<b, c>> \in order => <<a, c>> \in order
  /\ \A a, b \in scheduled : Before(when, a, b) => <<a, b>> \in order

\* What doSimLoop() asserts before every serviceOne(): no pending event lies
\* in the past, squashed events included.
NothingInThePast == \A e \in scheduled : when[e] >= curTick

\* Time never runs backwards.
TimeIsMonotone == [][curTick' >= curTick]_vars

\* An event object is deleted only when nothing refers to it: a pending
\* event, and the event whose process() is on the stack, exist.
NoDanglingEvent == scheduled \subseteq alive /\ running \in alive \cup {Null}
=============================================================================
