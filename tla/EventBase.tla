----------------------------- MODULE EventBase -----------------------------
(***************************************************************************)
(* Events and the loop that services them: everything about an event queue *)
(* except the list that orders its pending events.  EventAgenda adds an    *)
(* abstract order, EventQueue the linked lists of the code; both use the   *)
(* operators below for the flags, the times and the control flow.          *)
(*                                                                         *)
(* One queue, one thread.  loop = "doSimLoop" is the main queue of a       *)
(* sequential simulation, loop = "serviceEvents" an instruction-count      *)
(* queue serviced up to a given count.  What client code may do is what    *)
(* the assertions of schedule(), deschedule() and reschedule() allow, in   *)
(* event handlers and between two calls of the loop.                       *)
(***************************************************************************)
EXTENDS Integers, FiniteSets

CONSTANTS
  Event,       \* event objects
  priority,    \* priority[e]: fixed when the object is constructed
  Managed,     \* events with the Managed (AutoDelete) flag
  Exit,        \* events with the IsExitEvent flag
  LimitEvent,  \* simulate_limit_event
  Null,        \* no event
  MaxTick      \* bound on time; also the MaxTick of the code

ASSUME EventAssumption ==
  /\ Null \notin Event
  /\ priority \in [Event -> Int]
  /\ Managed \subseteq Event
  /\ Exit \subseteq Event
  /\ LimitEvent \in Exit \ Managed
ASSUME MaxTickAssumption == MaxTick \in Nat

VARIABLES
  when,       \* _when of each event
  scheduled,  \* events with the Scheduled flag
  squashed,   \* events with the Squashed flag
  alive,      \* constructed and not deleted
  curTick,    \* _curTick of the queue
  running,    \* the event whose process() is being executed, or Null
  pc,         \* "outside" the loop, at the "loop" head, in a "handler", "aborted"
  limit,      \* argument of serviceEvents() in progress
  loop        \* which loop services the queue; it never changes

baseVars == <<when, scheduled, squashed, alive, curTick, running, pc, limit, loop>>

Tick == 0 .. MaxTick

\* operator< and operator== on events, for the times w
Before(w, a, b) == w[a] < w[b] \/ (w[a] = w[b] /\ priority[a] < priority[b])

SameBin(w, a, b) == w[a] = w[b] /\ priority[a] = priority[b]

BaseInit ==
  /\ when = [e \in Event |-> 0]
  /\ scheduled = {}
  /\ squashed = {}
  /\ alive = Event \ (Managed \cup {LimitEvent})
  /\ curTick = 0
  /\ running = Null
  /\ pc = "outside"
  /\ limit = 0
  /\ loop \in {"doSimLoop", "serviceEvents"}

\* Client code runs in handlers and between two calls of the loop.
ClientCode == pc \in {"outside", "handler"}

(***************************************************************************)
(* Operations on events.                                                   *)
(***************************************************************************)
\* new Event: a managed event is constructed when it is needed.
CreateBase(e) ==
  /\ ClientCode
  /\ e \in Managed \ alive
  /\ alive' = alive \cup {e}
  /\ when' = [when EXCEPT ![e] = 0]
  /\ squashed' = squashed \ {e}
  /\ UNCHANGED <<scheduled, curTick, running, pc, limit, loop>>

ScheduleBase(e, w) ==
  /\ ClientCode
  /\ e \in alive \ (scheduled \cup {LimitEvent})
  /\ w \in curTick .. MaxTick
  /\ when' = [when EXCEPT ![e] = w]
  /\ scheduled' = scheduled \cup {e}
  /\ UNCHANGED <<squashed, alive, curTick, running, pc, limit, loop>>

\* Slip: release() deletes an event that was scheduled again.
ReleaseAlways(e, sched) == alive' = alive \ ({e} \cap Managed)

\* release(): a managed event that is not scheduled deletes itself.
Release(e, sched) == alive' = alive \ ({e} \cap (Managed \ sched))

\* The caller must not deschedule a managed event inside its own process():
\* serviceOne() still uses the object when process() returns.
DescheduleBase(e) ==
  /\ ClientCode
  /\ e \in scheduled \ {LimitEvent}
  /\ ~(e = running /\ e \in Managed)
  /\ scheduled' = scheduled \ {e}
  /\ squashed' = squashed \ {e}
  /\ Release(e, scheduled')
  /\ UNCHANGED <<when, curTick, running, pc, limit, loop>>

\* reschedule(e, w, true): the caller may pass always = true, which also
\* admits an event that is not scheduled.
RescheduleBase(e, w) ==
  /\ ClientCode
  /\ e \in alive \ {LimitEvent}
  /\ w \in curTick .. MaxTick
  /\ when' = [when EXCEPT ![e] = w]
  /\ scheduled' = scheduled \cup {e}
  /\ squashed' = squashed \ {e}
  /\ UNCHANGED <<alive, curTick, running, pc, limit, loop>>

\* squash() asks nothing about the state of the event.
SquashBase(e) ==
  /\ ClientCode
  /\ e \in alive \ {LimitEvent}
  /\ squashed' = squashed \cup {e}
  /\ UNCHANGED <<when, scheduled, alive, curTick, running, pc, limit, loop>>

(***************************************************************************)
(* The loops.                                                              *)
(***************************************************************************)
\* simulate(n), n = -1 standing for the default argument, up to its loop.
\* The limit event is created on the first call and moved by every call that
\* names a number of ticks; creating it schedules it now and moves it at
\* once, which leaves the same queue as scheduling it at its final time.
MovesLimit(n) == n # -1 \/ LimitEvent \notin alive

\* Slip: curTick() + num_cycles may exceed MaxTick.
LimitTickUnclamped(n) == IF n # -1 THEN curTick + n ELSE MaxTick

LimitTick(n) ==
  IF n # -1 /\ n < MaxTick - curTick THEN curTick + n ELSE MaxTick

SimulateBase(n) ==
  /\ loop = "doSimLoop"
  /\ pc = "outside"
  /\ pc' = "loop"
  /\ alive' = alive \cup {LimitEvent}
  /\ IF MovesLimit(n)
     THEN /\ when' = [when EXCEPT ![LimitEvent] = LimitTick(n)]
          /\ scheduled' = scheduled \cup {LimitEvent}
          /\ squashed' = squashed \ {LimitEvent}
     ELSE UNCHANGED <<when, scheduled, squashed>>
  /\ UNCHANGED <<curTick, running, limit, loop>>

\* serviceEvents(w): the instruction count never decreases.
ServiceEventsBase(w) ==
  /\ loop = "serviceEvents"
  /\ pc = "outside"
  /\ w \in curTick .. MaxTick
  /\ limit' = w
  /\ pc' = "loop"
  /\ UNCHANGED <<when, scheduled, squashed, alive, curTick, running, loop>>

\* serviceOne() up to the call of process(), for the head e of the queue.
ServiceOneBase(e) ==
  /\ pc = "loop"
  /\ loop = "serviceEvents" => when[e] <= limit
  /\ scheduled' = scheduled \ {e}
  /\ IF e \in squashed
     THEN /\ squashed' = squashed \ {e}
          /\ Release(e, scheduled')
          /\ UNCHANGED <<curTick, running, pc>>
     ELSE /\ curTick' = when[e]
          /\ running' = e
          /\ pc' = "handler"
          /\ UNCHANGED <<squashed, alive>>
  /\ UNCHANGED <<when, limit, loop>>

\* process() returns.  An exit event ends doSimLoop() and is not released;
\* serviceEvents() ignores what serviceOne() returns.
ReturnBase ==
  /\ pc = "handler"
  /\ running' = Null
  /\ IF running \in Exit
     THEN /\ pc' = IF loop = "doSimLoop" THEN "outside" ELSE "loop"
          /\ UNCHANGED alive
     ELSE /\ pc' = "loop"
          /\ Release(running, scheduled)
  /\ UNCHANGED <<when, scheduled, squashed, curTick, limit, loop>>

\* assert(!eventq->empty()) fails at the head of doSimLoop().
AbortBase ==
  /\ loop = "doSimLoop"
  /\ pc = "loop"
  /\ pc' = "aborted"
  /\ UNCHANGED <<when, scheduled, squashed, alive, curTick, running, limit, loop>>

\* serviceEvents() has nothing left to service up to its limit.
EndServiceEventsBase ==
  /\ loop = "serviceEvents"
  /\ pc = "loop"
  /\ curTick' = limit
  /\ pc' = "outside"
  /\ UNCHANGED <<when, scheduled, squashed, alive, running, limit, loop>>

-----------------------------------------------------------------------------
BaseTypeOK ==
  /\ when \in [Event -> Tick]
  /\ scheduled \subseteq Event
  /\ squashed \subseteq Event
  /\ alive \subseteq Event
  /\ curTick \in Tick
  /\ running \in Event \cup {Null}
  /\ pc \in {"outside", "loop", "handler", "aborted"}
  /\ limit \in Tick
  /\ loop \in {"doSimLoop", "serviceEvents"}
=============================================================================
