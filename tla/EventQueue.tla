----------------------------- MODULE EventQueue -----------------------------
(***************************************************************************)
(* The event queue of sim/eventq.cc: a list of bins linked by nextBin,     *)
(* sorted by time and priority, and in every bin a stack of events linked  *)
(* by nextInBin.  Only the nextBin of the top of a stack is meaningful;    *)
(* the others go stale, and are kept stale here as in the code.            *)
(*                                                                         *)
(* `list` holds the three pointers; every operation of the code on the     *)
(* lists is an operator from a list to a list.                             *)
(***************************************************************************)
EXTENDS EventBase, Sequences

VARIABLE list   \* [head, nextBin, nextInBin]

vars == <<baseVars, list>>

(***************************************************************************)
(* List operations.  w gives the times of the events, as _when does.       *)
(***************************************************************************)
\* Event::insertBefore(e, curr): e becomes the top of curr's bin or a bin of
\* its own in front of it.
InsertBefore(l, w, e, curr) ==
  IF curr = Null \/ Before(w, e, curr)
  THEN [l EXCEPT !.nextBin[e] = curr, !.nextInBin[e] = Null]
  ELSE [l EXCEPT !.nextBin[e] = l.nextBin[curr], !.nextInBin[e] = curr]

\* The walk `while (curr && *curr < *event)` along the bins: the last bin
\* that comes before e's and the one that follows it.
FindBin(l, w, e) ==
  LET walk[p \in Event, c \in Event \cup {Null}] ==
        IF c # Null /\ Before(w, c, e) THEN walk[c, l.nextBin[c]] ELSE <<p, c>>
  IN  walk[l.head, l.nextBin[l.head]]

\* Slip: `<` instead of `<=` in the test for the head.
InsertListHeadLess(l, w, e) ==
  IF l.head = Null \/ Before(w, e, l.head)
  THEN [InsertBefore(l, w, e, l.head) EXCEPT !.head = e]
  ELSE LET at == FindBin(l, w, e)
       IN  [InsertBefore(l, w, e, at[2]) EXCEPT !.nextBin[at[1]] = e]

\* EventQueue::insert
InsertList(l, w, e) ==
  IF l.head = Null \/ ~Before(w, l.head, e)
  THEN [InsertBefore(l, w, e, l.head) EXCEPT !.head = e]
  ELSE LET at == FindBin(l, w, e)
       IN  [InsertBefore(l, w, e, at[2]) EXCEPT !.nextBin[at[1]] = e]

\* Event::removeItem(e, top): the new list and the new top of the bin.
RemoveItem(l, e, top) ==
  LET pred[c \in Event] ==
        IF l.nextInBin[c] = e THEN c ELSE pred[l.nextInBin[c]]
      next == l.nextInBin[top]
  IN  CASE e = top /\ next = Null -> [list |-> l, top |-> l.nextBin[top]]
        [] e = top /\ next # Null ->
             [list |-> [l EXCEPT !.nextBin[next] = l.nextBin[top]], top |-> next]
        [] OTHER ->
             [list |-> [l EXCEPT !.nextInBin[pred[top]] = l.nextInBin[e]],
              top  |-> top]

\* EventQueue::remove, for an event that is in the queue
RemoveList(l, w, e) ==
  IF SameBin(w, l.head, e)
  THEN LET r == RemoveItem(l, e, l.head) IN [r.list EXCEPT !.head = r.top]
  ELSE LET at == FindBin(l, w, e)
           r  == RemoveItem(l, e, at[2])
       IN  [r.list EXCEPT !.nextBin[at[1]] = r.top]

\* The pointer part of serviceOne(): the head leaves its stack, and the next
\* event of the stack inherits its nextBin.
PopList(l) ==
  LET next == l.nextInBin[l.head]
  IN  IF next # Null
      THEN [l EXCEPT !.nextBin[next] = l.nextBin[l.head], !.head = next]
      ELSE [l EXCEPT !.head = l.nextBin[l.head]]

(***************************************************************************)
(* The operations of EventBase on the lists.                               *)
(***************************************************************************)
Init ==
  /\ BaseInit
  /\ list = [head |-> Null, nextBin |-> [e \in Event |-> Null],
             nextInBin |-> [e \in Event |-> Null]]

Create(e) ==
  /\ CreateBase(e)
  /\ list' = [list EXCEPT !.nextBin[e] = Null, !.nextInBin[e] = Null]

Schedule(e, w) == ScheduleBase(e, w) /\ list' = InsertList(list, when', e)

Deschedule(e) == DescheduleBase(e) /\ list' = RemoveList(list, when, e)

\* Slip: reschedule() changes the time of a scheduled event in place.
MoveListInPlace(e) ==
  IF e \in scheduled THEN list ELSE InsertList(list, when', e)

\* The list once e is moved to its new time, or put in if it was not there.
MoveList(e) ==
  InsertList(IF e \in scheduled THEN RemoveList(list, when, e) ELSE list, when', e)

Reschedule(e, w) == RescheduleBase(e, w) /\ list' = MoveList(e)

Squash(e) == SquashBase(e) /\ UNCHANGED list

Simulate(n) ==
  /\ SimulateBase(n)
  /\ list' = IF MovesLimit(n) THEN MoveList(LimitEvent) ELSE list

ServiceEvents(w) == ServiceEventsBase(w) /\ UNCHANGED list

ServiceOne ==
  /\ list.head # Null
  /\ ServiceOneBase(list.head)
  /\ list' = PopList(list)

Return == ReturnBase /\ UNCHANGED list

Abort == list.head = Null /\ AbortBase /\ UNCHANGED list

EndServiceEvents ==
  /\ list.head # Null => when[list.head] > limit
  /\ EndServiceEventsBase
  /\ UNCHANGED list

EventStep(e) ==
  \/ Create(e) \/ Deschedule(e) \/ Squash(e)
  \/ \E w \in Tick : Schedule(e, w) \/ Reschedule(e, w)

LoopStep ==
  \/ \E n \in {-1} \cup Tick : Simulate(n)
  \/ \E w \in Tick : ServiceEvents(w)
  \/ ServiceOne \/ Return \/ Abort \/ EndServiceEvents

Next == LoopStep \/ \E e \in Event : EventStep(e)

Spec == Init /\ [][Next]_vars

-----------------------------------------------------------------------------
\* The events of the bin with top e, and of the queue, in service order.
Bin(l) ==
  LET stack[e \in Event \cup {Null}] ==
        IF e = Null THEN <<>> ELSE <<e>> \o stack[l.nextInBin[e]]
  IN  stack

Contents(l) ==
  LET bins[e \in Event \cup {Null}] ==
        IF e = Null THEN <<>> ELSE Bin(l)[e] \o bins[l.nextBin[e]]
  IN  bins[l.head]

Pointer == [Event -> Event \cup {Null}]

\* The variables keep their types; in particular no event, the limit event of
\* simulate() included, is ever given a time beyond MaxTick.
TypeOK ==
  /\ BaseTypeOK
  /\ list \in [head : Event \cup {Null}, nextBin : Pointer, nextInBin : Pointer]

\* EventQueue::debugVerify: along the lists times never decrease, and at
\* equal times priorities never decrease.
DebugVerify ==
  LET c == Contents(list)
  IN  \A i \in 1 .. Len(c) - 1 : ~Before(when, c[i + 1], c[i])

\* No pointer that the queue will follow leads to a deleted event, and the
\* event whose process() is on the stack still exists.
NoDanglingPointer ==
  LET c == Contents(list)
  IN  /\ {c[i] : i \in 1 .. Len(c)} \subseteq alive
      /\ running \in alive \cup {Null}

Agenda ==
  INSTANCE EventAgenda WITH
    order <- LET c == Contents(list)
             IN  {<<c[i], c[j]>> : <<i, j>> \in {p \in (1 .. Len(c)) \X (1 .. Len(c)) : p[1] < p[2]}}

\* Every operation on the lists is the corresponding operation on the
\* abstract agenda: same service order, same last-in first-out among equals.
ImplementsAgenda == Agenda!Spec
=============================================================================
