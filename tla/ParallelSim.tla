---------------------------- MODULE ParallelSim ----------------------------
(***************************************************************************)
(* A parallel simulation: N event queues, each serviced by a thread of its *)
(* own (thread 0 is the main thread, which runs Python between two calls   *)
(* of simulate()).  The threads meet at global events: a global event is   *)
(* one barrier event on every queue, and exactly one thread processes it   *)
(* between two barriers.  Every Quantum ticks a GlobalSyncEvent makes the  *)
(* threads merge what was put into their asynchronous queues.              *)
(*                                                                         *)
(* A queue is kept as in EventAgenda, by the order of service of its       *)
(* items; an item is an event with the time it is scheduled for.  Barriers *)
(* are atomic here (module Barrier shows why they may be), and so are the  *)
(* locks of the queues (module UncontendedMutex).                          *)
(***************************************************************************)
EXTENDS Integers, Sequences, FiniteSets

CONSTANTS
  N,          \* numMainEventQueues
  Quantum,    \* simQuantum
  MaxTick,    \* time of the limit event; bound on the time of local events
  Local,      \* ordinary events
  Sync,       \* the GlobalSyncEvent simulate() creates
  Limit,      \* simulate_limit_event
  User,       \* the other global events, by who schedules them:
  FromHandler,  \* a handler of a local event,
  FromSignal,   \* the main loop, when a signal has arrived,
  FromPython,   \* Python between two calls of simulate()
  Exit,       \* the global events that end the loop
  priority,   \* priority[e]
  Delay,      \* Delay[g]: how far ahead of curTick() user event g is put
  Repeat,     \* Repeat[g]: the period of user event g, 0 if it does not repeat
  Migration,  \* whether handlers migrate to other queues (ScopedMigration)
  MaxUses,    \* bound: how often each local event is scheduled
  None        \* no event, no thread

Queue == 0 .. N - 1
Global == User \cup {Sync, Limit}
Event == Local \cup Global
Tick == 0 .. MaxTick + Quantum
Item == Event \X Nat

ASSUME NAssumption == N \in Nat /\ N > 1
ASSUME TimeAssumption == Quantum \in Nat \ {0} /\ MaxTick \in Nat
\* The objects behind the events (see Object) are all different.
ASSUME EventAssumption ==
  /\ None \notin Event \cup Queue
  /\ Local \cap Global = {} /\ Local \cap (Global \X Queue) = {}
  /\ Sync # Limit /\ Sync \notin User /\ Limit \notin User
  /\ Exit \subseteq Global /\ Limit \in Exit /\ Sync \notin Exit
  /\ priority \in [Event -> Int]
  /\ priority[Sync] < priority[Limit]
  /\ FromHandler \cup FromSignal \cup FromPython \subseteq User
  /\ Delay \in [User -> 0 .. Quantum]
  /\ Repeat \in [User -> Nat]
ASSUME BoundAssumption == Migration \in BOOLEAN /\ MaxUses \in Nat

VARIABLES
  pend,      \* pend[q]: items in the sorted lists of queue q
  order,     \* order[q]: <<x, y>> when x is serviced before y
  async,     \* async[q]: async_queue, in the order of insertion
  flags,     \* event objects with the Scheduled flag
  curTick,   \* _curTick of each queue
  pc,        \* what each thread does next
  cur,       \* curEventQueue() of each thread
  at,        \* the global event a thread is processing, or None
  call,      \* the schedule() call a thread is in, or None
  gmutex,    \* the thread that holds globalQMutex, or None
  owner,     \* owner[q]: the thread that holds service_mutex of q, or None
  uses       \* uses[e]: how often local event e was scheduled

queueVars == <<pend, order, async, flags>>
lockVars == <<gmutex, owner>>
vars == <<queueVars, curTick, pc, cur, at, call, lockVars, uses>>

\* The event object behind e on queue q: a global event has one per queue.
Object(e, q) == IF e \in Local THEN e ELSE <<e, q>>

(***************************************************************************)
(* The lists of one queue.                                                 *)
(***************************************************************************)
Less(x, y) ==
  x[2] < y[2] \/ (x[2] = y[2] /\ priority[x[1]] < priority[y[1]])

\* EventQueue::insert: in front of the items that are not less.
Inserted(q, x) ==
  order[q] \cup ({y \in pend[q] : Less(y, x)} \X {x})
           \cup ({x} \X {y \in pend[q] : ~Less(y, x)})

Without(q, X) == {p \in order[q] : p[1] \notin X /\ p[2] \notin X}

IsFirst(q, x) == x \in pend[q] /\ \A y \in pend[q] \ {x} : <<x, y>> \in order[q]

\* handleAsyncInsertions: the asynchronous items are inserted one after the
\* other, so among equal items the later insertion is serviced first.
Arrived(q) == {async[q][i] : i \in DOMAIN async[q]}

Newer(q, x, y) ==
  \/ x \in pend[q] /\ y \in pend[q] /\ <<x, y>> \in order[q]
  \/ x \in Arrived(q) /\ y \in pend[q]
  \/ \E i, j \in DOMAIN async[q] : i > j /\ async[q][i] = x /\ async[q][j] = y

Merged(q) ==
  LET all == pend[q] \cup Arrived(q)
  IN  {p \in all \X all :
         Less(p[1], p[2]) \/ (~Less(p[2], p[1]) /\ Newer(q, p[1], p[2]))}

\* What the thread of queue q has to do with its own queue.
HandleAsyncInsertions(q) ==
  /\ pend' = [pend EXCEPT ![q] = @ \cup Arrived(q)]
  /\ order' = [order EXCEPT ![q] = Merged(q)]
  /\ async' = [async EXCEPT ![q] = <<>>]
  /\ UNCHANGED flags

Insert(q, x) ==
  /\ pend' = [pend EXCEPT ![q] = @ \cup {x}]
  /\ order' = [order EXCEPT ![q] = Inserted(q, x)]
  /\ UNCHANGED async

AsyncInsert(q, x) ==
  /\ async' = [async EXCEPT ![q] = Append(@, x)]
  /\ UNCHANGED <<pend, order>>

Init ==
  /\ pend = [q \in Queue |-> {}]
  /\ order = [q \in Queue |-> {}]
  /\ async = [q \in Queue |-> <<>>]
  /\ flags = {}
  /\ curTick = [q \in Queue |-> 0]
  /\ pc = [t \in Queue |-> IF t = 0 THEN "outside" ELSE "stopped"]
  /\ cur = [t \in Queue |-> t]
  /\ at = [t \in Queue |-> None]
  /\ call = [t \in Queue |-> None]
  /\ gmutex = None
  /\ owner = [q \in Queue |-> None]
  /\ uses = [e \in Local |-> 0]

Goto(t, l) == pc' = [pc EXCEPT ![t] = l]
Lock(q, t) == owner[q] = None /\ owner' = [owner EXCEPT ![q] = t]
Unlock(q) == owner' = [owner EXCEPT ![q] = None]

(***************************************************************************)
(* Python and simulate(), in the main thread.                              *)
(***************************************************************************)
\* inParallelMode is set exactly while the main thread is inside simulate();
\* outside, schedule() inserts directly.
StartupSchedule(e, q, w) ==
  /\ pc[0] = "outside"
  /\ e \notin flags /\ uses[e] < MaxUses
  /\ w \in curTick[q] .. MaxTick
  /\ Insert(q, <<e, w>>)
  /\ flags' = flags \cup {e}
  /\ uses' = [uses EXCEPT ![e] = @ + 1]
  /\ UNCHANGED <<curTick, pc, cur, at, call, lockVars>>

\* The lists once the items of new, which agree on no time and priority,
\* are inserted in every queue.
InsertEverywhere(new) ==
  /\ pend' = [q \in Queue |-> pend[q] \cup new]
  /\ order' = [q \in Queue |->
       order[q] \cup
       {p \in (pend[q] \cup new) \X (pend[q] \cup new) :
          \/ p[1] \in new /\ p[1] # p[2] /\ ~Less(p[2], p[1])
          \/ p[2] \in new /\ Less(p[1], p[2])}]
  /\ flags' = flags \cup {<<x[1], q>> : x \in new, q \in Queue}
  /\ UNCHANGED async

\* A user event is a new object each time: its slot is free again once no
\* thread schedules, holds or processes the previous one.
Free(g) ==
  /\ flags \cap ({g} \X Queue) = {}
  /\ \A t \in Queue : at[t] # g /\ (call[t] # None => call[t].ev # g)

\* schedStatEvent(when) called from Python, between two runs
PythonSchedule(g, w) ==
  /\ pc[0] = "outside"
  /\ Free(g)
  /\ w \in curTick[0] + Delay[g] .. MaxTick
  /\ InsertEverywhere({<<g, w>>})
  /\ UNCHANGED <<curTick, pc, cur, at, call, lockVars, uses>>

\* simulate() without argument, up to the barrier that starts the threads:
\* the limit event is scheduled by the first call, the quantum event by every
\* call.  Bound: no run starts at MaxTick or later.
Simulate ==
  LET new == {<<Sync, curTick[0] + Quantum>>}
             \cup (IF <<Limit, 0>> \in flags THEN {} ELSE {<<Limit, MaxTick>>})
  IN  /\ pc[0] = "outside"
      /\ curTick[0] < MaxTick
      /\ InsertEverywhere(new)
      /\ Goto(0, "starting")
      /\ UNCHANGED <<curTick, cur, at, call, lockVars, uses>>

\* runUntilLocalExit() and thread_main(): all threads meet and start.
StartThreads ==
  /\ pc[0] = "starting"
  /\ \A t \in Queue \ {0} : pc[t] = "stopped"
  /\ pc' = [t \in Queue |-> "enter"]
  /\ UNCHANGED <<queueVars, curTick, cur, at, call, lockVars, uses>>

(***************************************************************************)
(* doSimLoop() in thread t, which services queue t.                        *)
(***************************************************************************)
\* The first statement of doSimLoop(); it does not take service_mutex.
Enter(t) ==
  /\ pc[t] = "enter"
  /\ HandleAsyncInsertions(t)
  /\ Goto(t, "loop")
  /\ UNCHANGED <<curTick, cur, at, call, lockVars, uses>>

\* serviceOne() takes the lock and pops item x.
Pop(t, x) ==
  /\ pc[t] = "loop"
  /\ IsFirst(t, x)
  /\ pend' = [pend EXCEPT ![t] = @ \ {x}]
  /\ order' = [order EXCEPT ![t] = Without(t, {x})]
  /\ flags' = flags \ {Object(x[1], t)}
  /\ curTick' = [curTick EXCEPT ![t] = x[2]]
  /\ UNCHANGED <<async, cur, call, gmutex, uses>>

ServiceLocal(t, x) ==
  /\ x[1] \in Local
  /\ Pop(t, x)
  /\ Lock(t, t)
  /\ Goto(t, "handler")
  /\ UNCHANGED at

\* The threads waiting at a barrier of global event g.
Waiting(g, l) == {t \in Queue : at[t] = g /\ pc[t] = l}

\* A barrier event: globalBarrier() releases the lock and waits.  The last
\* thread to arrive goes on to process the global event, with the lock.
ServiceGlobal(t, x) ==
  /\ x[1] \in Global
  /\ Pop(t, x)
  /\ owner[t] = None
  /\ at' = [at EXCEPT ![t] = x[1]]
  /\ IF Waiting(x[1], "barrier1") = Queue \ {t}
     THEN /\ pc' = [u \in Queue |-> IF u = t THEN "process" ELSE "passed1"]
          /\ owner' = [owner EXCEPT ![t] = t]
     ELSE Goto(t, "barrier1") /\ UNCHANGED owner

\* Slip: there is no second barrier.
Barrier2Missing(t) ==
  /\ Goto(t, "passed2")
  /\ UNCHANGED <<queueVars, curTick, cur, at, call, gmutex, uses>>

\* The other threads come out of the first barrier and go to the second.
Barrier2(t) ==
  /\ IF Waiting(at[t], "barrier2") = Queue \ {t}
     THEN pc' = [u \in Queue |-> "passed2"]
     ELSE Goto(t, "barrier2")
  /\ UNCHANGED <<queueVars, curTick, cur, at, call, gmutex, uses>>

Passed1(t) ==
  /\ pc[t] = "passed1"
  /\ owner[t] = None
  /\ Barrier2(t)
  /\ UNCHANGED owner

\* Slip: the thread waits at the barrier with its queue locked.
ProcessedLocked(t) ==
  /\ pc[t] = "processed"
  /\ Barrier2(t)
  /\ UNCHANGED owner

\* _globalEvent->process() returns; the lock is released for the barrier.
Processed(t) ==
  /\ pc[t] = "processed"
  /\ Barrier2(t)
  /\ Unlock(t)

\* Slip: the asynchronous queue is not merged at the end of the quantum.
PassedSyncNoMerge(t) ==
  /\ pc[t] = "passed2" /\ at[t] = Sync
  /\ owner[t] = None
  /\ Goto(t, "loop")
  /\ at' = [at EXCEPT ![t] = None]
  /\ UNCHANGED <<queueVars, curTick, cur, call, lockVars, uses>>

\* Behind the second barrier of a GlobalSyncEvent the thread, holding its
\* lock again, merges its asynchronous queue.
PassedSync(t) ==
  /\ pc[t] = "passed2" /\ at[t] = Sync
  /\ owner[t] = None
  /\ HandleAsyncInsertions(t)
  /\ Goto(t, "loop")
  /\ at' = [at EXCEPT ![t] = None]
  /\ UNCHANGED <<curTick, cur, call, lockVars, uses>>

PassedGlobal(t) ==
  /\ pc[t] = "passed2" /\ at[t] \notin Exit \cup {Sync}
  /\ owner[t] = None
  /\ Goto(t, "loop")
  /\ at' = [at EXCEPT ![t] = None]
  /\ UNCHANGED <<queueVars, curTick, cur, call, lockVars, uses>>

\* An exit event ends the loop.  Subordinate threads wait to be started
\* again; the main thread deschedules and deletes the quantum event, which
\* must be found in the list of every queue, and returns to Python.
PassedExit(t) ==
  /\ pc[t] = "passed2" /\ at[t] \in Exit
  /\ owner[t] = None
  /\ at' = [at EXCEPT ![t] = None]
  /\ IF t # 0
     THEN Goto(t, "stopped") /\ UNCHANGED <<pend, order, flags>>
     ELSE LET quanta(q) == {x \in pend[q] : x[1] = Sync}
          IN  /\ pc' = [pc EXCEPT ![0] =
                   IF \A q \in Queue : <<Sync, q>> \in flags => quanta(q) # {}
                   THEN "outside" ELSE "panic"]
              /\ pend' = [q \in Queue |-> pend[q] \ quanta(q)]
              /\ order' = [q \in Queue |-> Without(q, quanta(q))]
              /\ flags' = flags \ ({Sync} \X Queue)
  /\ UNCHANGED <<async, curTick, cur, call, lockVars, uses>>

(***************************************************************************)
(* Scheduling global events.  BaseGlobalEvent::schedule() holds            *)
(* globalQMutex while it puts one barrier event into the asynchronous      *)
(* queue of each queue in turn; the other threads run in between.          *)
(***************************************************************************)
BeginGlobal(t, g, w, ret) ==
  /\ call' = [call EXCEPT ![t] = [ev |-> g, when |-> w, next |-> 0, ret |-> ret]]
  /\ Goto(t, "gschedule")

GlobalInsert(t) ==
  LET c == call[t]
      last == c.next = N - 1
  IN  /\ pc[t] = "gschedule"
      /\ gmutex = IF c.next = 0 THEN None ELSE t
      /\ AsyncInsert(c.next, <<c.ev, c.when>>)
      /\ flags' = flags \cup {<<c.ev, c.next>>}
      /\ gmutex' = IF last THEN None ELSE t
      /\ IF last
         THEN Goto(t, c.ret) /\ call' = [call EXCEPT ![t] = None]
         ELSE call' = [call EXCEPT ![t].next = @ + 1] /\ UNCHANGED pc
      /\ UNCHANGED <<curTick, cur, at, owner, uses>>

\* GlobalSyncEvent::process() schedules the next one.
ProcessSync(t) ==
  /\ pc[t] = "process" /\ at[t] = Sync
  /\ BeginGlobal(t, Sync, curTick[t] + Quantum, "processed")
  /\ UNCHANGED <<queueVars, curTick, cur, at, lockVars, uses>>

\* The next time of a periodic user event: the process() of an exit event
\* schedules it one period ahead, that of a StatEvent by schedStatEvent().
Again(t, g) == curTick[t] + Repeat[g] + (IF g \in Exit THEN 0 ELSE Delay[g])

\* Bound: nothing is repeated after the time of the limit event.
Repeats(t) == at[t] \in User /\ Repeat[at[t]] > 0 /\ Again(t, at[t]) <= MaxTick

ProcessRepeat(t) ==
  /\ pc[t] = "process" /\ Repeats(t)
  /\ BeginGlobal(t, at[t], Again(t, at[t]), "processed")
  /\ UNCHANGED <<queueVars, curTick, cur, at, lockVars, uses>>

\* Any other process() does nothing to the queues.
ProcessOther(t) ==
  /\ pc[t] = "process" /\ at[t] # Sync /\ ~Repeats(t)
  /\ Goto(t, "processed")
  /\ UNCHANGED <<queueVars, curTick, cur, at, call, lockVars, uses>>

\* Slip: the event lands one tick before the quantum is over.
UserScheduleEarly(t, g) ==
  /\ pc[t] = "handler"
  /\ Free(g)
  /\ BeginGlobal(t, g, curTick[cur[t]] + Delay[g] - 1, "handler")
  /\ UNCHANGED <<queueVars, curTick, cur, at, lockVars, uses>>

\* A handler calls exitSimLoop() or schedStatEvent().
UserSchedule(t, g) ==
  /\ pc[t] = "handler"
  /\ Free(g)
  /\ BeginGlobal(t, g, curTick[cur[t]] + Delay[g], "handler")
  /\ UNCHANGED <<queueVars, curTick, cur, at, lockVars, uses>>

\* The main loop sees async_event and does the same, holding its own lock.
Signal(g) ==
  /\ pc[0] = "loop"
  /\ Free(g)
  /\ Lock(0, 0)
  /\ BeginGlobal(0, g, curTick[0] + Delay[g], "signalled")
  /\ UNCHANGED <<queueVars, curTick, cur, at, gmutex, uses>>

SignalDone ==
  /\ pc[0] = "signalled"
  /\ Unlock(0)
  /\ Goto(0, "loop")
  /\ UNCHANGED <<queueVars, curTick, cur, at, call, gmutex, uses>>

(***************************************************************************)
(* What a handler of a local event does.                                   *)
(***************************************************************************)
\* Nobody has scheduled e or is doing so: the client's obligation.
Idle(e) ==
  /\ e \notin flags /\ uses[e] < MaxUses
  /\ \A t \in Queue : call[t] # None => call[t].ev # e

\* schedule() on the queue the thread is on
ScheduleHere(t, e, w) ==
  /\ pc[t] = "handler"
  /\ Idle(e)
  /\ w \in curTick[cur[t]] .. MaxTick
  /\ Insert(cur[t], <<e, w>>)
  /\ flags' = flags \cup {e}
  /\ uses' = [uses EXCEPT ![e] = @ + 1]
  /\ UNCHANGED <<curTick, pc, cur, at, call, lockVars>>

\* schedule() on another queue goes through its asynchronous queue, and has
\* to lie at least one quantum ahead.  The Scheduled flag is set afterwards.
ScheduleThere(t, e, q, w) ==
  /\ pc[t] = "handler"
  /\ q # cur[t]
  /\ Idle(e)
  /\ w \in curTick[cur[t]] + Quantum .. MaxTick
  /\ AsyncInsert(q, <<e, w>>)
  /\ call' = [call EXCEPT ![t] = [ev |-> e, when |-> w, next |-> q, ret |-> "handler"]]
  /\ Goto(t, "flag")
  /\ uses' = [uses EXCEPT ![e] = @ + 1]
  /\ UNCHANGED <<flags, curTick, cur, at, lockVars>>

SetFlag(t) ==
  /\ pc[t] = "flag"
  /\ flags' = flags \cup {call[t].ev}
  /\ call' = [call EXCEPT ![t] = None]
  /\ Goto(t, "handler")
  /\ UNCHANGED <<pend, order, async, curTick, cur, at, lockVars, uses>>

\* ScopedMigration: leave the own queue and go to q, or come back.  The
\* thread never holds two locks.
Migrate(t, q) ==
  /\ Migration
  /\ pc[t] = "handler"
  /\ q # cur[t] /\ t \in {q, cur[t]}
  /\ Unlock(cur[t])
  /\ cur' = [cur EXCEPT ![t] = q]
  /\ Goto(t, "lock")
  /\ UNCHANGED <<queueVars, curTick, at, call, gmutex, uses>>

\* Slip: the new queue is entered without its lock.
MigrateLockMissing(t) ==
  /\ pc[t] = "lock"
  /\ Goto(t, "handler")
  /\ UNCHANGED <<queueVars, curTick, cur, at, call, lockVars, uses>>

MigrateLock(t) ==
  /\ pc[t] = "lock"
  /\ Lock(cur[t], t)
  /\ Goto(t, "handler")
  /\ UNCHANGED <<queueVars, curTick, cur, at, call, gmutex, uses>>

\* process() returns and serviceOne() releases the lock.
EndHandler(t) ==
  /\ pc[t] = "handler" /\ cur[t] = t
  /\ Unlock(t)
  /\ Goto(t, "loop")
  /\ UNCHANGED <<queueVars, curTick, cur, at, call, gmutex, uses>>

-----------------------------------------------------------------------------
\* Client code, which may or may not do these things.
Client ==
  \/ \E e \in Local, q \in Queue, w \in Tick : StartupSchedule(e, q, w)
  \/ \E g \in FromPython, w \in Tick : PythonSchedule(g, w)
  \/ \E g \in FromSignal : Signal(g)
  \/ \E t \in Queue :
       \/ \E g \in FromHandler : UserSchedule(t, g)
       \/ \E e \in Local, w \in Tick : ScheduleHere(t, e, w)
       \/ \E e \in Local, q \in Queue, w \in Tick : ScheduleThere(t, e, q, w)
       \/ \E q \in Queue : Migrate(t, q)

\* The simulator's own steps in thread t.
Thread(t) ==
  \/ Enter(t)
  \/ \E x \in pend[t] : ServiceLocal(t, x) \/ ServiceGlobal(t, x)
  \/ Passed1(t) \/ ProcessSync(t) \/ ProcessRepeat(t) \/ ProcessOther(t)
  \/ Processed(t)
  \/ PassedSync(t) \/ PassedGlobal(t) \/ PassedExit(t)
  \/ GlobalInsert(t) \/ SetFlag(t) \/ MigrateLock(t) \/ EndHandler(t)

\* Python need not call simulate() again.
Finished ==
  /\ pc[0] = "outside"
  /\ \A t \in Queue \ {0} : pc[t] = "stopped"
  /\ UNCHANGED vars

Next ==
  \/ Simulate \/ StartThreads \/ SignalDone \/ Finished
  \/ Client
  \/ \E t \in Queue : Thread(t)

Spec == Init /\ [][Next]_vars

\* Every thread is run by the host, and every handler returns: the destructor
\* of its ScopedMigration brings it back, and it does not migrate to and fro
\* for ever.
Fairness ==
  /\ WF_vars(StartThreads)
  /\ WF_vars(SignalDone)
  /\ \A t \in Queue :
       WF_vars(Thread(t)) /\ WF_vars(Migrate(t, t)) /\ SF_vars(EndHandler(t))

FairSpec == Spec /\ Fairness

-----------------------------------------------------------------------------
Label == {"outside", "starting", "stopped", "enter", "loop", "handler",
          "lock", "flag", "gschedule", "signalled", "barrier1", "passed1",
          "process", "processed", "barrier2", "passed2", "panic"}

\* A schedule() call in progress: the event, its time, the queue that is next
\* (of a global event) or to be put on (of a local one), and what follows.
Call == [ev : Event, when : Nat, next : Queue, ret : {"handler", "processed", "signalled"}]

\* The variables have their types; in particular the loop of
\* BaseGlobalEvent::schedule() stays within the queues.
TypeOK ==
  /\ pend \in [Queue -> SUBSET Item]
  /\ order \in [Queue -> SUBSET (Item \X Item)]
  /\ \A q \in Queue : order[q] \subseteq pend[q] \X pend[q]
  /\ async \in [Queue -> Seq(Item)]
  /\ flags \subseteq Local \cup (Global \X Queue)
  /\ curTick \in [Queue -> Nat]
  /\ pc \in [Queue -> Label]
  /\ cur \in [Queue -> Queue]
  /\ at \in [Queue -> Global \cup {None}]
  /\ call \in [Queue -> {None} \cup Call]
  /\ gmutex \in Queue \cup {None}
  /\ owner \in [Queue -> Queue \cup {None}]
  /\ uses \in [Local -> 0 .. MaxUses]

\* Thread t executes the process() of a global event, or what it calls.
Processing(t) ==
  \/ pc[t] \in {"process", "processed"}
  \/ pc[t] = "gschedule" /\ call[t].ret = "processed"

\* The point of the two barriers: while one thread processes a global event
\* every other thread is inside a barrier of the same event, so process()
\* may touch the whole simulation (the class comment of GlobalEvent).
ProcessAlone ==
  \A t, u \in Queue :
    t # u /\ Processing(t) => at[u] = at[t] /\ pc[u] \in {"passed1", "barrier2"}

\* The deadlock the comment in BaseGlobalEvent::schedule() speaks of: two
\* threads waiting for different global events.
SameBarrier ==
  \A t, u \in Queue :
    pc[t] = "barrier1" /\ pc[u] = "barrier1" => at[t] = at[u]

\* Whatever is in an asynchronous queue can still be merged: its time has
\* not passed for the thread that will merge it.
AsyncInTime ==
  \A q \in Queue : \A i \in DOMAIN async[q] : async[q][i][2] >= curTick[q]

\* simulate() finds the quantum event in the list of every queue when it
\* deschedules it after an exit event ("event not found!" otherwise).
QuantumEventFound == \A t \in Queue : pc[t] # "panic"

\* One thread at a time acts on a queue: who acts on it holds its lock, so
\* a migrated thread and the thread of the queue exclude each other.
OwnerActs ==
  \A t \in Queue : pc[t] \in {"handler", "flag"} => owner[cur[t]] = t

\* A run started by simulate() always comes back to Python.
RunReturns == pc[0] = "starting" ~> pc[0] = "outside"
=============================================================================
