------------------------- MODULE EventAgenda_proofs -------------------------
(***************************************************************************)
(* The order of service, and that nothing pending is ever in the past, for *)
(* any set of events, any priorities and any number of ticks.              *)
(***************************************************************************)
EXTENDS EventAgenda, TLAPS

\* An event is running exactly in a handler, and serviceEvents() never
\* passes its limit.
ControlOK ==
  /\ pc = "handler" <=> running # Null
  /\ loop = "serviceEvents" /\ pc \in {"loop", "handler"} => curTick <= limit

\* NothingInThePast is inductive only with the order of service: the event
\* that sets the time is one that no pending event must precede.
IInv ==
  /\ TypeOK
  /\ ServiceOrder
  /\ NothingInThePast
  /\ NoDanglingEvent
  /\ ControlOK

USE EventAssumption, MaxTickAssumption

\* Taking an event out of a total order leaves a total order on the rest.
LEMMA RemoveOrder ==
  ASSUME TypeOK, ServiceOrder, NEW e \in Event
  PROVE  LET r == Remove(order, e)
             s == scheduled \ {e}
         IN  /\ r \subseteq s \X s
             /\ \A x, y \in s : <<x, y>> \in r <=> <<x, y>> \in order
  BY DEF TypeOK, Remove

\* Putting an event in front of its bin gives a total order that respects
\* the times and priorities, whatever total order it is put into.
LEMMA InsertOrder ==
  ASSUME NEW e \in Event, NEW s \in SUBSET (Event \ {e}),
         NEW w \in [Event -> Tick], NEW ord, ord \subseteq s \X s,
         \A a, b \in s : a # b => (<<a, b>> \in ord <=> <<b, a>> \notin ord),
         \A a \in s : <<a, a>> \notin ord,
         \A a, b, c \in s : <<a, b>> \in ord /\ <<b, c>> \in ord => <<a, c>> \in ord,
         \A a, b \in s : Before(w, a, b) => <<a, b>> \in ord,
         NEW sched, sched \ {e} = s
  PROVE  LET o == Insert(ord, sched, w, e)
             t == s \cup {e}
         IN  /\ o \subseteq t \X t
             /\ \A a, b \in t : a # b => (<<a, b>> \in o <=> <<b, a>> \notin o)
             /\ \A a \in t : <<a, a>> \notin o
             /\ \A a, b, c \in t :
                  <<a, b>> \in o /\ <<b, c>> \in o => <<a, c>> \in o
             /\ \A a, b \in t : Before(w, a, b) => <<a, b>> \in o
<1> DEFINE o == Insert(ord, sched, w, e)
           t == s \cup {e}
<1>1. \A x \in s : (<<x, e>> \in o <=> Before(w, x, e)) /\ (<<e, x>> \in o <=> ~Before(w, x, e))
  BY DEF Insert
<1>2. \A x, y \in s : <<x, y>> \in o <=> <<x, y>> \in ord
  BY Zenon DEF Insert
<1>3. <<e, e>> \notin o
  BY DEF Insert
<1>4. o \subseteq t \X t
  BY DEF Insert
<1>5. \A x, y \in s : Before(w, x, e) /\ ~Before(w, y, e) => Before(w, x, y)
  BY DEF Before, Tick
<1>6. \A x, y \in s : <<x, y>> \in ord => ~Before(w, y, x)
  BY Zenon
<1> HIDE DEF o
<1>7. \A a, b \in t : a # b => (<<a, b>> \in o <=> <<b, a>> \notin o)
  BY <1>1, <1>2, Zenon
<1>8. \A a \in t : <<a, a>> \notin o
  BY <1>2, <1>3, Zenon
<1>9. ASSUME NEW a \in t, NEW b \in t, NEW c \in t,
             <<a, b>> \in o, <<b, c>> \in o
      PROVE  <<a, c>> \in o
  <2>1. CASE a = e
    <3>1. b \in s /\ ~Before(w, b, e)
      BY <1>1, <1>3, <1>9, <2>1, Zenon
    <3>2. c \in s /\ <<b, c>> \in ord
      BY <1>1, <1>2, <1>9, <3>1, Zenon
    <3>3. ~Before(w, c, b)
      BY <1>6, <3>1, <3>2
    <3>4. ~Before(w, c, e)
      BY <1>5, <3>1, <3>2, <3>3
    <3> QED
      BY <1>1, <2>1, <3>2, <3>4, Zenon
  <2>2. CASE b = e
    <3>1. a \in s /\ Before(w, a, e)
      BY <1>1, <1>3, <1>9, <2>2, Zenon
    <3>2. c \in s /\ ~Before(w, c, e)
      BY <1>1, <1>3, <1>9, <2>2, Zenon
    <3> QED
      BY <1>2, <1>5, <3>1, <3>2
  <2>3. CASE c = e /\ a # e /\ b # e
    <3>1. a \in s /\ b \in s /\ <<a, b>> \in ord /\ Before(w, b, e)
      BY <1>1, <1>2, <1>9, <2>3, Zenon
    <3>2. ~Before(w, b, a)
      BY <1>6, <3>1
    <3>3. Before(w, a, e)
      BY <3>1, <3>2 DEF Before, Tick
    <3> QED
      BY <1>1, <2>3, <3>1, <3>3, Zenon
  <2>4. CASE a # e /\ b # e /\ c # e
    <3>1. a \in s /\ b \in s /\ c \in s
      BY <2>4
    <3>2. <<a, b>> \in ord /\ <<b, c>> \in ord
      BY <1>2, <1>9, <3>1
    <3> QED
      BY <1>2, <3>1, <3>2
  <2> QED
    BY <2>1, <2>2, <2>3, <2>4
<1>10. ASSUME NEW a \in t, NEW b \in t, Before(w, a, b)
       PROVE  <<a, b>> \in o
  <2>1. CASE a = e
    <3>1. b \in s /\ ~Before(w, b, e)
      BY <1>10, <2>1 DEF Before, Tick
    <3> QED
      BY <1>1, <2>1, <3>1, Zenon
  <2>2. CASE a # e /\ b = e
    BY <1>1, <1>10, <2>2, Zenon
  <2>3. CASE a # e /\ b # e
    BY <1>2, <1>10, <2>3
  <2> QED
    BY <2>1, <2>2, <2>3
<1> QED
  BY <1>4, <1>7, <1>8, <1>9, <1>10 DEF o
-----------------------------------------------------------------------------
\* Inserting e, which is pending or not, into what remains when it is taken
\* out, with its time changed to that of w.
LEMMA MoveOrder ==
  ASSUME TypeOK, ServiceOrder, NEW e \in Event, NEW w \in [Event -> Tick],
         \A x \in Event \ {e} : w[x] = when[x],
         when' = w, scheduled' = scheduled \cup {e},
         order' = Insert(Remove(order, e), scheduled, w, e)
  PROVE  ServiceOrder' /\ order' \subseteq scheduled' \X scheduled'
<1> DEFINE s == scheduled \ {e}
           r == Remove(order, e)
<1>1. /\ r \subseteq s \X s
      /\ \A x, y \in s : <<x, y>> \in r <=> <<x, y>> \in order
  BY RemoveOrder
<1>2. \A x, y \in s : Before(w, x, y) <=> Before(when, x, y)
  BY DEF Before, TypeOK, BaseTypeOK
<1>3. s \in SUBSET (Event \ {e}) /\ scheduled' = s \cup {e}
  BY DEF TypeOK, BaseTypeOK
<1>4. /\ \A a, b \in s : a # b => (<<a, b>> \in r <=> <<b, a>> \notin r)
      /\ \A a \in s : <<a, a>> \notin r
      /\ \A a, b, c \in s : <<a, b>> \in r /\ <<b, c>> \in r => <<a, c>> \in r
      /\ \A a, b \in s : Before(w, a, b) => <<a, b>> \in r
  BY <1>1, <1>2 DEF ServiceOrder
<1> HIDE DEF r
<1>5. LET o == Insert(r, scheduled, w, e)
          t == s \cup {e}
      IN  /\ o \subseteq t \X t
          /\ \A a, b \in t : a # b => (<<a, b>> \in o <=> <<b, a>> \notin o)
          /\ \A a \in t : <<a, a>> \notin o
          /\ \A a, b, c \in t :
               <<a, b>> \in o /\ <<b, c>> \in o => <<a, c>> \in o
          /\ \A a, b \in t : Before(w, a, b) => <<a, b>> \in o
  BY <1>1, <1>3, <1>4, InsertOrder, Zenon
<1>6. order' = Insert(r, scheduled, w, e)
  BY DEF r
<1> QED
  BY <1>3, <1>5, <1>6 DEF ServiceOrder, Before

\* Removing an event leaves the others in order.
LEMMA DropOrder ==
  ASSUME TypeOK, ServiceOrder, NEW e \in Event,
         when' = when, scheduled' = scheduled \ {e}, order' = Remove(order, e)
  PROVE  ServiceOrder' /\ order' \subseteq scheduled' \X scheduled'
<1>1. /\ order' \subseteq scheduled' \X scheduled'
      /\ \A x, y \in scheduled' : <<x, y>> \in order' <=> <<x, y>> \in order
  BY RemoveOrder
<1>2. scheduled' \subseteq scheduled
  OBVIOUS
<1> QED
  BY <1>1, <1>2 DEF ServiceOrder, Before

\* Where neither the order nor the times of the pending events change.
LEMMA SameOrder ==
  ASSUME TypeOK, ServiceOrder, UNCHANGED <<scheduled, order>>,
         \A x \in scheduled : when'[x] = when[x]
  PROVE  ServiceOrder' /\ order' \subseteq scheduled' \X scheduled'
  BY DEF TypeOK, ServiceOrder, Before

\* An empty queue satisfies the invariant.
LEMMA InitIInv == Init => IInv
  BY DEF Init, BaseInit, IInv, TypeOK, BaseTypeOK, ServiceOrder,
         NothingInThePast, NoDanglingEvent, ControlOK, Tick

-----------------------------------------------------------------------------
\* The constructor of an event preserves it.
LEMMA CreateIInv ==
  ASSUME IInv, NEW e \in Event, Create(e) PROVE IInv'
<1> USE DEF IInv
<1>1. e \notin scheduled
  BY DEF Create, CreateBase, NoDanglingEvent
<1>2. BaseTypeOK'
  BY DEF Create, CreateBase, TypeOK, BaseTypeOK, Tick
<1>3. \A x \in scheduled : when'[x] = when[x]
  BY <1>1 DEF Create, CreateBase, TypeOK, BaseTypeOK
<1>4. ServiceOrder' /\ order' \subseteq scheduled' \X scheduled'
  BY <1>3, SameOrder DEF Create, CreateBase
<1>5. NothingInThePast' /\ NoDanglingEvent' /\ ControlOK'
  BY <1>3 DEF Create, CreateBase, NothingInThePast, NoDanglingEvent, ControlOK
<1> QED
  BY <1>2, <1>4, <1>5 DEF TypeOK

\* A pending event that is not in the order: Remove changes nothing.
LEMMA RemoveAbsent ==
  ASSUME TypeOK, NEW e, e \notin scheduled
  PROVE  Remove(order, e) = order
  BY DEF TypeOK, Remove

\* schedule() preserves it.
LEMMA ScheduleIInv ==
  ASSUME IInv, NEW e \in Event, NEW w \in Tick, Schedule(e, w) PROVE IInv'
<1> USE DEF IInv
<1>1. BaseTypeOK' /\ when' \in [Event -> Tick]
  BY DEF Schedule, ScheduleBase, TypeOK, BaseTypeOK, Tick
<1>2. \A x \in Event \ {e} : when'[x] = when[x]
  BY DEF Schedule, ScheduleBase, TypeOK, BaseTypeOK
<1>3. order' = Insert(Remove(order, e), scheduled, when', e)
  BY RemoveAbsent DEF Schedule, ScheduleBase
<1>4. ServiceOrder' /\ order' \subseteq scheduled' \X scheduled'
  BY <1>1, <1>2, <1>3, MoveOrder, Zenon DEF Schedule, ScheduleBase
<1>5. NothingInThePast' /\ NoDanglingEvent' /\ ControlOK'
  BY DEF Schedule, ScheduleBase, TypeOK, BaseTypeOK, Tick, NothingInThePast,
         NoDanglingEvent, ControlOK
<1> QED
  BY <1>1, <1>4, <1>5 DEF TypeOK

\* deschedule() preserves it.
LEMMA DescheduleIInv ==
  ASSUME IInv, NEW e \in Event, Deschedule(e) PROVE IInv'
<1> USE DEF IInv
<1>1. BaseTypeOK'
  BY DEF Deschedule, DescheduleBase, Release, TypeOK, BaseTypeOK
<1>2. ServiceOrder' /\ order' \subseteq scheduled' \X scheduled'
  BY DropOrder DEF Deschedule, DescheduleBase
<1>3. NothingInThePast' /\ NoDanglingEvent' /\ ControlOK'
  BY DEF Deschedule, DescheduleBase, Release, NothingInThePast,
         NoDanglingEvent, ControlOK
<1> QED
  BY <1>1, <1>2, <1>3 DEF TypeOK

\* reschedule() preserves it.
LEMMA RescheduleIInv ==
  ASSUME IInv, NEW e \in Event, NEW w \in Tick, Reschedule(e, w) PROVE IInv'
<1> USE DEF IInv
<1>1. BaseTypeOK' /\ when' \in [Event -> Tick]
  BY DEF Reschedule, RescheduleBase, TypeOK, BaseTypeOK, Tick
<1>2. \A x \in Event \ {e} : when'[x] = when[x]
  BY DEF Reschedule, RescheduleBase, TypeOK, BaseTypeOK
<1>3. ServiceOrder' /\ order' \subseteq scheduled' \X scheduled'
  BY <1>1, <1>2, MoveOrder, Zenon DEF Reschedule, RescheduleBase
<1>4. NothingInThePast' /\ NoDanglingEvent' /\ ControlOK'
  BY DEF Reschedule, RescheduleBase, TypeOK, BaseTypeOK, Tick,
         NothingInThePast, NoDanglingEvent, ControlOK
<1> QED
  BY <1>1, <1>3, <1>4 DEF TypeOK

\* squash() preserves it.
LEMMA SquashIInv ==
  ASSUME IInv, NEW e \in Event, Squash(e) PROVE IInv'
<1> USE DEF IInv
<1>1. BaseTypeOK'
  BY DEF Squash, SquashBase, TypeOK, BaseTypeOK
<1>2. ServiceOrder' /\ order' \subseteq scheduled' \X scheduled'
  BY SameOrder DEF Squash, SquashBase
<1>3. NothingInThePast' /\ NoDanglingEvent' /\ ControlOK'
  BY DEF Squash, SquashBase, NothingInThePast, NoDanglingEvent, ControlOK
<1> QED
  BY <1>1, <1>2, <1>3 DEF TypeOK

\* simulate(), which may move the limit event, preserves it.
LEMMA SimulateIInv ==
  ASSUME IInv, NEW n \in {-1} \cup Tick, Simulate(n) PROVE IInv'
<1> USE DEF IInv
<1>1. CASE MovesLimit(n)
  <2>1. LimitTick(n) \in curTick .. MaxTick
    BY DEF LimitTick, TypeOK, BaseTypeOK, Tick
  <2>2. /\ when' = [when EXCEPT ![LimitEvent] = LimitTick(n)]
        /\ scheduled' = scheduled \cup {LimitEvent}
        /\ order' = Insert(Remove(order, LimitEvent), scheduled, when', LimitEvent)
    BY <1>1 DEF Simulate, SimulateBase
  <2>3. BaseTypeOK' /\ when' \in [Event -> Tick]
    BY <1>1, <2>1, <2>2 DEF Simulate, SimulateBase, TypeOK, BaseTypeOK, Tick
  <2>4. \A x \in Event \ {LimitEvent} : when'[x] = when[x]
    BY <2>2 DEF TypeOK, BaseTypeOK
  <2>5. ServiceOrder' /\ order' \subseteq scheduled' \X scheduled'
    BY <2>2, <2>3, <2>4, MoveOrder, Zenon
  <2>6. NothingInThePast'
    BY <2>1, <2>2 DEF Simulate, SimulateBase, NothingInThePast, TypeOK,
                      BaseTypeOK, Tick
  <2>7. NoDanglingEvent' /\ ControlOK'
    BY <2>2 DEF Simulate, SimulateBase, NoDanglingEvent, ControlOK
  <2> QED
    BY <2>3, <2>5, <2>6, <2>7 DEF TypeOK
<1>2. CASE ~MovesLimit(n)
  <2>1. UNCHANGED <<when, scheduled, squashed, order>>
    BY <1>2 DEF Simulate, SimulateBase
  <2>2. ServiceOrder' /\ order' \subseteq scheduled' \X scheduled'
    BY <2>1, SameOrder
  <2>3. BaseTypeOK' /\ NothingInThePast' /\ NoDanglingEvent' /\ ControlOK'
    BY <2>1 DEF Simulate, SimulateBase, TypeOK, BaseTypeOK, NothingInThePast,
                NoDanglingEvent, ControlOK
  <2> QED
    BY <2>2, <2>3 DEF TypeOK
<1> QED
  BY <1>1, <1>2

\* Nothing pending is earlier than the event that is serviced next.
LEMMA FirstIsEarliest ==
  ASSUME TypeOK, ServiceOrder, NEW e \in Event, IsFirst(e), NEW x \in scheduled
  PROVE  when[x] >= when[e]
<1>1. CASE x # e
  <2>1. <<e, x>> \in order /\ e \in scheduled
    BY <1>1 DEF IsFirst
  <2>2. <<x, e>> \notin order
    BY <1>1, <2>1 DEF ServiceOrder
  <2>3. ~Before(when, x, e)
    BY <2>1, <2>2 DEF ServiceOrder
  <2>4. x \in Event /\ when[x] \in Int /\ when[e] \in Int
    BY DEF TypeOK, BaseTypeOK, Tick
  <2> QED
    BY <2>3, <2>4 DEF Before
<1>2. CASE x = e
  BY <1>2 DEF TypeOK, BaseTypeOK, Tick
<1> QED
  BY <1>1, <1>2

\* serviceOne(), up to the handler, preserves it.
LEMMA ServiceOneIInv ==
  ASSUME IInv, NEW e \in Event, ServiceOne(e) PROVE IInv'
<1> USE DEF IInv
<1>1. ServiceOrder' /\ order' \subseteq scheduled' \X scheduled'
  BY DropOrder DEF ServiceOne, ServiceOneBase
<1>2. CASE e \in squashed
  BY <1>1, <1>2 DEF ServiceOne, ServiceOneBase, Release, TypeOK, BaseTypeOK,
                    NothingInThePast, NoDanglingEvent, ControlOK
<1>3. CASE e \notin squashed
  <2>1. BaseTypeOK'
    BY <1>3 DEF ServiceOne, ServiceOneBase, TypeOK, BaseTypeOK
  <2>2. NothingInThePast'
    BY <1>3, FirstIsEarliest DEF ServiceOne, ServiceOneBase, NothingInThePast
  <2>3. NoDanglingEvent' /\ ControlOK'
    BY <1>3 DEF ServiceOne, ServiceOneBase, IsFirst, NoDanglingEvent, ControlOK
  <2> QED
    BY <1>1, <2>1, <2>2, <2>3 DEF TypeOK
<1> QED
  BY <1>2, <1>3

\* The remaining steps of the loops leave the order and the times alone.
LEMMA LoopIInv ==
  ASSUME IInv,
         \/ \E w \in Tick : ServiceEvents(w)
         \/ Return \/ Abort \/ EndServiceEvents
  PROVE  IInv'
<1> USE DEF IInv
<1>1. UNCHANGED <<when, scheduled, order>>
  BY DEF ServiceEvents, ServiceEventsBase, Return, ReturnBase, Abort,
         AbortBase, EndServiceEvents, EndServiceEventsBase
<1>2. ServiceOrder' /\ order' \subseteq scheduled' \X scheduled'
  BY <1>1, SameOrder
<1>3. CASE \E w \in Tick : ServiceEvents(w)
  BY <1>2, <1>3 DEF ServiceEvents, ServiceEventsBase, TypeOK, BaseTypeOK, Tick,
                    NothingInThePast, NoDanglingEvent, ControlOK
<1>4. CASE Return
  BY <1>2, <1>4 DEF Return, ReturnBase, Release, TypeOK, BaseTypeOK, Tick,
                    NothingInThePast, NoDanglingEvent, ControlOK
<1>5. CASE Abort
  BY <1>2, <1>5 DEF Abort, AbortBase, TypeOK, BaseTypeOK,
                    NothingInThePast, NoDanglingEvent, ControlOK
<1>6. CASE EndServiceEvents
  BY <1>2, <1>6 DEF EndServiceEvents, EndServiceEventsBase, TypeOK, BaseTypeOK,
                    Tick, NothingInThePast, NoDanglingEvent, ControlOK
<1> QED
  BY <1>3, <1>4, <1>5, <1>6

\* Every step preserves it.
LEMMA NextIInv == IInv /\ [Next]_vars => IInv'
<1> SUFFICES ASSUME IInv, [Next]_vars PROVE IInv'
  OBVIOUS
<1>1. CASE UNCHANGED vars
  BY <1>1 DEF vars, baseVars, IInv, TypeOK, BaseTypeOK, ServiceOrder, Before,
              NothingInThePast, NoDanglingEvent, ControlOK
<1>2. CASE LoopStep
  BY <1>2, SimulateIInv, LoopIInv DEF LoopStep
<1>3. ASSUME NEW e \in Event, EventStep(e) PROVE IInv'
  BY <1>3, CreateIInv, DescheduleIInv, SquashIInv, ServiceOneIInv,
     ScheduleIInv, RescheduleIInv
  DEF EventStep
<1> QED
  BY <1>1, <1>2, <1>3 DEF Next

\* The invariant always holds.
LEMMA Inductive == Spec => []IInv
  BY InitIInv, NextIInv, PTL DEF Spec

\* Every operation keeps the flags, times and order within their types.
THEOREM TypeCorrect == Spec => []TypeOK
<1>1. IInv => TypeOK
  BY DEF IInv
<1> QED
  BY <1>1, Inductive, PTL

\* Whatever is scheduled, moved and removed, the pending events are totally
\* ordered and the order respects times and priorities.
THEOREM OrderOfService == Spec => []ServiceOrder
<1>1. IInv => ServiceOrder
  BY DEF IInv
<1> QED
  BY <1>1, Inductive, PTL

\* The assertion of doSimLoop() that no event is scheduled in the past.
THEOREM PresentOrFuture == Spec => []NothingInThePast
<1>1. IInv => NothingInThePast
  BY DEF IInv
<1> QED
  BY <1>1, Inductive, PTL

\* release() never deletes an event that is pending or running.
THEOREM NoUseAfterDelete == Spec => []NoDanglingEvent
<1>1. IInv => NoDanglingEvent
  BY DEF IInv
<1> QED
  BY <1>1, Inductive, PTL

\* setCurTick() is never called with an earlier time.
THEOREM MonotoneTime == Spec => TimeIsMonotone
<1>1. IInv /\ [Next]_vars => [curTick' >= curTick]_vars
  <2> SUFFICES ASSUME IInv, Next PROVE curTick' >= curTick
    BY DEF IInv, TypeOK, BaseTypeOK, Tick
  <2> USE DEF IInv, TypeOK, BaseTypeOK, Tick
  <2>1. CASE LoopStep
    BY <2>1 DEF LoopStep, Simulate, SimulateBase, ServiceEvents,
      ServiceEventsBase, Return, ReturnBase, Abort, AbortBase,
      EndServiceEvents, EndServiceEventsBase, ControlOK
  <2>2. ASSUME NEW e \in Event, EventStep(e) PROVE curTick' >= curTick
    <3>1. CASE ServiceOne(e)
      BY <3>1 DEF ServiceOne, ServiceOneBase, IsFirst, NothingInThePast
    <3>2. CASE ~ServiceOne(e)
      BY <2>2, <3>2 DEF EventStep, Create, CreateBase, Deschedule,
        DescheduleBase, Squash, SquashBase, Schedule, ScheduleBase,
        Reschedule, RescheduleBase
    <3> QED
      BY <3>1, <3>2
  <2> QED
    BY <2>1, <2>2 DEF Next
<1> QED
  BY <1>1, Inductive, PTL DEF Spec, TimeIsMonotone
=============================================================================
