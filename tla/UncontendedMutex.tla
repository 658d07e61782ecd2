-------------------------- MODULE UncontendedMutex --------------------------
(***************************************************************************)
(* The lock behind every event queue (EventQueue::service_mutex and        *)
(* EventQueue::async_queue_mutex): an atomic counter `flag` that is enough *)
(* when nobody competes for the lock, and a std::mutex `m` with a          *)
(* condition variable `cv` for the threads that have to wait.              *)
(*                                                                         *)
(* flag = 0: free; 1: held; more than 1: held, and some thread waits.      *)
(*                                                                         *)
(* Every step of a thread is one atomic access of the code: a              *)
(* compare-and-swap, an acquisition of m, the fetch-and-add on flag        *)
(* together with the atomic wait, a store, or a notify.                    *)
(***************************************************************************)
EXTENDS Integers

CONSTANTS
  Threads,    \* the threads that use the lock
  NoThread,   \* not a thread: m is not locked
  MaxFlag     \* bound: no spurious wake-up once flag has reached MaxFlag

ASSUME ThreadsAssumption == NoThread \notin Threads
ASSUME MaxFlagAssumption == MaxFlag \in Nat

VARIABLES
  flag,     \* std::atomic<int> flag
  m,        \* the thread that holds the std::mutex, or NoThread
  cv,       \* the threads blocked in cv.wait()
  pc        \* what each thread does next

vars == <<flag, m, cv, pc>>

\* lock(): try (the CAS), acquire m, count (flag++), wait, and leave m.
\* unlock(): the CAS, acquire m, clear flag, notify.
Label == {"idle", "try", "acquire", "count", "wait", "held",
          "release", "reacquire", "clear", "notify"}

Goto(t, l) == pc' = [pc EXCEPT ![t] = l]

Init ==
  /\ flag = 0
  /\ m = NoThread
  /\ cv = {}
  /\ pc = [t \in Threads |-> "idle"]

(***************************************************************************)
(* lock()                                                                  *)
(***************************************************************************)
Lock(t) ==
  /\ pc[t] = "idle"
  /\ Goto(t, "try")
  /\ UNCHANGED <<flag, m, cv>>

\* while (!testAndSet(0, 1)): the lock is ours when the swap succeeds.
LockTestAndSet(t) ==
  /\ pc[t] = "try"
  /\ \/ flag = 0 /\ flag' = 1 /\ Goto(t, "held")
     \/ flag # 0 /\ Goto(t, "acquire") /\ UNCHANGED flag
  /\ UNCHANGED <<m, cv>>

\* std::unique_lock<std::mutex> ul(m)
LockMutex(t) ==
  /\ pc[t] = "acquire"
  /\ m = NoThread
  /\ m' = t
  /\ Goto(t, "count")
  /\ UNCHANGED <<flag, cv>>

\* Slip: `flag++ <= 1` takes a lock that is held.
LockCountOffByOne(t) ==
  /\ pc[t] = "count"
  /\ flag' = flag + 1
  /\ m' = NoThread
  /\ \/ flag <= 1 /\ Goto(t, "held") /\ UNCHANGED cv
     \/ flag > 1 /\ Goto(t, "wait") /\ cv' = cv \cup {t}

\* Slip: a waiter does not raise flag, so unlock() takes its fast path.
LockCountNoRaise(t) ==
  /\ pc[t] = "count"
  /\ m' = NoThread
  /\ \/ flag = 0 /\ flag' = 1 /\ Goto(t, "held") /\ UNCHANGED cv
     \/ flag # 0 /\ Goto(t, "wait") /\ cv' = cv \cup {t} /\ UNCHANGED flag

\* if (flag++ == 0) break; cv.wait(ul).  Waiting releases m and blocks in
\* one step; leaving the loop releases m when ul goes out of scope.
LockCount(t) ==
  /\ pc[t] = "count"
  /\ flag' = flag + 1
  /\ m' = NoThread
  /\ \/ flag = 0 /\ Goto(t, "held") /\ UNCHANGED cv
     \/ flag # 0 /\ Goto(t, "wait") /\ cv' = cv \cup {t}

\* cv.wait() may return without a notification.
SpuriousWakeup(t) ==
  /\ flag < MaxFlag
  /\ t \in cv
  /\ cv' = cv \ {t}
  /\ UNCHANGED <<flag, m, pc>>

\* cv.wait() returns: it takes m again, and the end of the loop body drops
\* it before the next testAndSet.
LockWake(t) ==
  /\ pc[t] = "wait"
  /\ t \notin cv
  /\ m = NoThread
  /\ Goto(t, "try")
  /\ UNCHANGED <<flag, m, cv>>

(***************************************************************************)
(* unlock()                                                                *)
(***************************************************************************)
Unlock(t) ==
  /\ pc[t] = "held"
  /\ Goto(t, "release")
  /\ UNCHANGED <<flag, m, cv>>

\* if (testAndSet(1, 0)) return
UnlockTestAndSet(t) ==
  /\ pc[t] = "release"
  /\ \/ flag = 1 /\ flag' = 0 /\ Goto(t, "idle")
     \/ flag # 1 /\ Goto(t, "reacquire") /\ UNCHANGED flag
  /\ UNCHANGED <<m, cv>>

\* std::lock_guard<std::mutex> g(m)
UnlockMutex(t) ==
  /\ pc[t] = "reacquire"
  /\ m = NoThread
  /\ m' = t
  /\ Goto(t, "clear")
  /\ UNCHANGED <<flag, cv>>

\* flag = 0, and the guard goes out of scope
UnlockClear(t) ==
  /\ pc[t] = "clear"
  /\ flag' = 0
  /\ m' = NoThread
  /\ Goto(t, "notify")
  /\ UNCHANGED cv

\* Slip: notify_one() wakes one of the blocked threads.
UnlockNotifyOne(t) ==
  /\ pc[t] = "notify"
  /\ \/ cv = {} /\ UNCHANGED cv
     \/ \E u \in cv : cv' = cv \ {u}
  /\ Goto(t, "idle")
  /\ UNCHANGED <<flag, m>>

\* cv.notify_all()
UnlockNotify(t) ==
  /\ pc[t] = "notify"
  /\ cv' = {}
  /\ Goto(t, "idle")
  /\ UNCHANGED <<flag, m>>

-----------------------------------------------------------------------------
\* The steps a thread takes by itself once it has called lock() or unlock().
Step(t) ==
  \/ LockTestAndSet(t) \/ LockMutex(t) \/ LockCount(t) \/ LockWake(t)
  \/ UnlockTestAndSet(t) \/ UnlockMutex(t) \/ UnlockClear(t)
  \/ UnlockNotify(t)

Next == \E t \in Threads : Lock(t) \/ Unlock(t) \/ SpuriousWakeup(t) \/ Step(t)

\* A thread inside lock() or unlock() is scheduled by the host, and every
\* holder unlocks (lock_guard and the Scoped helpers release on scope exit).
\* Nobody is obliged to call lock().
Fairness == \A t \in Threads : WF_vars(Step(t)) /\ WF_vars(Unlock(t))

Spec == Init /\ [][Next]_vars

FairSpec == Spec /\ Fairness

-----------------------------------------------------------------------------
TypeOK ==
  /\ flag \in Nat
  /\ m \in Threads \cup {NoThread}
  /\ cv \subseteq Threads
  /\ pc \in [Threads -> Label]

\* A thread owns the lock from the step that raised flag from 0 until the
\* step that puts flag back to 0.
Owns(t) == pc[t] \in {"held", "release", "reacquire", "clear"}

\* Two threads never own the lock: `flag++ == 0` under m and the
\* compare-and-swap without m can not both win (lock(), lines 80-91).
MutualExclusion == \A t, u \in Threads : Owns(t) /\ Owns(u) => t = u

\* A blocked thread is always going to be notified: either the owner finds
\* flag above 1 in unlock() and takes the notify path, or a former owner is
\* about to call notify_all().  Without it a thread sleeps for ever on a
\* lock that is free (the case the comment in lock() argues about).
NoLostWakeup ==
  cv # {} =>
    \/ \E t \in Threads : pc[t] = "notify"
    \/ \E t \in Threads : pc[t] \in {"held", "release"} /\ flag > 1
    \/ \E t \in Threads : pc[t] \in {"reacquire", "clear"}

\* unlock() never clears a flag that belongs to somebody else, and flag is 0
\* exactly when the lock is free.
FlagTracksOwner == (flag = 0) <=> \A t \in Threads : ~Owns(t)

\* As long as some thread is inside lock(), somebody eventually gets the
\* lock (threads may overtake one another, so it need not be the same one).
LockIsGranted ==
  (\E t \in Threads : pc[t] \in {"try", "acquire", "count", "wait"})
    ~> (\E t \in Threads : pc[t] = "held")
=============================================================================
