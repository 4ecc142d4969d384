------------------------------- MODULE Recoco -------------------------------
(***************************************************************************)
(* pox/lib/recoco/recoco.py with its select hub in a thread of its own, as *)
(* core.py starts it: the scheduler's thread, the hub's thread, and other  *)
(* threads that use callLater, synchronized and schedule.  An action is    *)
(* what one thread does up to the next operation other threads can see.    *)
(***************************************************************************)
EXTENDS Integers, FiniteSets, Sequences, SequencesExt

CONSTANTS
  Sleepers,      \* tasks that yield sleep times, or Select on descriptors
  Idlers,        \* tasks that yield False: somebody has to schedule() them
  Ways,          \* how they are woken: "time", "io" or either
  Threads,       \* threads outside
  Quitters,      \* those whose callLater is core.quit's
  CallLaterTask, \* the one CallLaterTask
  None,
  MaxOps         \* bound on the operations of a thread

\* Every synchronized() makes a SyncTask of its own: the n-th thing th does.
SyncTasks == Threads \X (1 .. MaxOps)

ASSUME RecocoAssumption ==
  /\ IsFiniteSet(Sleepers) /\ Sleepers \cap Idlers = {}
  /\ (Sleepers \cup Idlers) \cap SyncTasks = {}
  /\ CallLaterTask \notin Sleepers \cup Idlers \cup SyncTasks
  /\ \A kind \in {"task", "schedule"}, t \in Sleepers \cup Idlers \cup SyncTasks \cup {CallLaterTask} :
       None # <<kind, t>>
  /\ Ways \subseteq {"time", "io"} /\ Quitters \subseteq Threads /\ MaxOps \in Nat

VARIABLES
  ready,      \* Scheduler._ready: <<"task", t>>, or <<"schedule", t>> for a ScheduleTask of t
  event,      \* SelectHub._event
  sched,      \* where the scheduler's thread is
  task,       \* the task it executes
  hasQuit,
  hub,        \* where the hub's thread is
  waking,     \* the tasks it is about to return
  incoming,   \* SelectHub._incoming
  selecting,  \* SelectHub._tasks
  ping,       \* the hub's pinger is readable
  due,        \* <<t, "time">> if sleeper t's time has come, <<t, "io">> if it can read
  thread,     \* where every other thread is
  ops,        \* how many operations it has begun
  lock,       \* who holds Scheduler._lock
  created,    \* Scheduler._callLaterTask is not None
  blocked,    \* the tasks whose CallBlocking is under way in a worker thread
  started,    \* CallLaterTask has reached its first Select
  calls,      \* CallLaterTask._calls
  callPing,   \* its pinger is readable
  given,      \* the SyncTasks that have given away their first slice
  inlock,     \* the SyncTasks whose inlock is held
  outlock     \* and whose outlock is

schedVars  == <<sched, task, hasQuit, given, started>>
hubVars    == <<hub, waking, selecting>>
threadVars == <<thread, ops, lock, created>>
vars == <<ready, event, ping, incoming, calls, callPing, due, blocked, inlock, outlock,
          schedVars, hubVars, threadVars>>
-----------------------------------------------------------------------------
(* The scheduler's thread.                                                 *)

SchedUnchanged == UNCHANGED <<due, outlock, hubVars, threadVars>>

\* cycle takes the first task, if there is one.
TakeFirst ==
  IF ready = <<>> THEN sched' = "check" /\ UNCHANGED <<ready, task>>
  ELSE ready' = Tail(ready) /\ task' = Head(ready) /\ sched' = "run"

\* run: the head of the loop.  Nobody else takes a task from the queue, so one
\* that is there is taken at once.
Check_mut ==                  \* looks at hasQuit when there is nothing to do
  /\ sched = "check"
  /\ IF ready # <<>> THEN TakeFirst
     ELSE sched' = (IF hasQuit THEN "finish" ELSE "idle") /\ UNCHANGED <<ready, task>>
  /\ UNCHANGED <<event, ping, incoming, calls, callPing, inlock, hasQuit, given, started, blocked>>
  /\ SchedUnchanged
Check ==
  /\ sched = "check"
  /\ IF hasQuit THEN sched' = "finish" /\ UNCHANGED <<ready, task>>
     ELSE IF ready = <<>> THEN sched' = "idle" /\ UNCHANGED <<ready, task>>
     ELSE TakeFirst
  /\ UNCHANGED <<event, ping, incoming, calls, callPing, inlock, hasQuit, given, started, blocked>>
  /\ SchedUnchanged

\* SelectHub.idle: _event.wait and _event.clear.  The wait's own timeout,
\* CYCLE_MAXIMUM, is left out: nothing may depend on it.  Only a task quits, so
\* that run's second look at _hasQuit finds what the first did.
Idle_mut ==                   \* cleared before the wait
  \/ /\ sched = "idle"
     /\ sched' = "clear" /\ event' = FALSE
     /\ UNCHANGED <<ready, ping, incoming, calls, callPing, inlock, task, hasQuit, given, started, blocked>>
     /\ SchedUnchanged
  \/ /\ sched = "clear" /\ event
     /\ sched' = "cycle"
     /\ UNCHANGED <<ready, event, ping, incoming, calls, callPing, inlock, task, hasQuit, given, started, blocked>>
     /\ SchedUnchanged
Idle ==
  \/ /\ sched = "idle" /\ event
     /\ sched' = "clear"
     /\ UNCHANGED <<ready, event, ping, incoming, calls, callPing, inlock, task, hasQuit, given, started, blocked>>
     /\ SchedUnchanged
  \/ /\ sched = "clear"
     /\ event' = FALSE
     /\ sched' = "cycle"
     /\ UNCHANGED <<ready, ping, incoming, calls, callPing, inlock, task, hasQuit, given, started, blocked>>
     /\ SchedUnchanged

\* cycle after idle, which may have returned for nothing
Cycle ==
  /\ sched = "cycle"
  /\ TakeFirst
  /\ UNCHANGED <<event, ping, incoming, calls, callPing, inlock, hasQuit, given, started, blocked>>
  /\ SchedUnchanged

\* The slice is over and the task unscheduled.
Unschedule == sched' = "check" /\ task' = None

\* It is put in the hub's queue; the hub is pinged next.
Register(t) == incoming' = Append(incoming, t) /\ sched' = "ping" /\ task' = None

\* A slice of a sleeper: it sleeps or selects, yields 0, yields CallBlocking,
\* or ends.  It may wake an idler
\* with schedule(), which does not queue it twice.
RunSleeper(t) ==
  /\ sched = "run" /\ task = <<"task", t>>
  /\ \/ Register(t) /\ UNCHANGED <<ready, event, blocked>>
     \/ ready' = Append(ready, <<"task", t>>) /\ Unschedule /\ UNCHANGED <<event, incoming, blocked>>
     \/ blocked' = blocked \cup {t} /\ Unschedule /\ UNCHANGED <<ready, event, incoming>>
     \/ Unschedule /\ UNCHANGED <<ready, event, incoming, blocked>>
     \/ \E i \in Idlers :
          /\ <<"task", i>> \notin ToSet(ready)
          /\ ready' = Append(ready, <<"task", i>>) /\ event' = TRUE
          /\ UNCHANGED <<incoming, sched, task, blocked>>
  /\ UNCHANGED <<ping, calls, callPing, inlock, hasQuit, given, started>>
  /\ SchedUnchanged

RunIdler(t) ==
  /\ sched = "run" /\ task = <<"task", t>>
  /\ Unschedule
  /\ UNCHANGED <<ready, event, ping, incoming, calls, callPing, inlock, hasQuit, given, started, blocked>>
  /\ SchedUnchanged

\* CallLaterTask: the first slice only selects; later ones empty the pinger
\* first and then the queue.
RunCallLater ==
  /\ sched = "run" /\ task = <<"task", CallLaterTask>>
  /\ started' = TRUE
  /\ IF ~started THEN Register(CallLaterTask) /\ UNCHANGED callPing
     ELSE sched' = "calls" /\ callPing' = FALSE /\ UNCHANGED <<incoming, task>>
  /\ UNCHANGED <<ready, event, ping, calls, inlock, hasQuit, given, blocked>>
  /\ SchedUnchanged

Call ==
  /\ sched = "calls"
  /\ IF calls = <<>> THEN Register(CallLaterTask) /\ UNCHANGED <<calls, hasQuit>>
     ELSE /\ calls' = Tail(calls)
          /\ hasQuit' = (hasQuit \/ Head(calls)[1] \in Quitters)
          /\ UNCHANGED <<incoming, sched, task>>
  /\ UNCHANGED <<ready, event, ping, callPing, inlock, given, started, blocked>>
  /\ SchedUnchanged

\* SyncTask: gives away the first slice, then lets its thread in and blocks.
RunSync_mut(t) ==             \* does not wait for the thread to leave
  /\ sched = "run" /\ task = <<"task", t>>
  /\ IF t \notin given
     THEN given' = given \cup {t} /\ ready' = Append(ready, task) /\ Unschedule /\ UNCHANGED inlock
     ELSE inlock' = inlock \ {t} /\ given' = given \ {t} /\ Unschedule /\ UNCHANGED ready
  /\ UNCHANGED <<event, ping, incoming, calls, callPing, hasQuit, started, blocked>>
  /\ SchedUnchanged
RunSync(t) ==
  /\ sched = "run" /\ task = <<"task", t>>
  /\ IF t \notin given
     THEN given' = given \cup {t} /\ ready' = Append(ready, task) /\ Unschedule /\ UNCHANGED inlock
     ELSE inlock' = inlock \ {t} /\ given' = given \ {t} /\ sched' = "held" /\ UNCHANGED <<ready, task>>
  /\ UNCHANGED <<event, ping, incoming, calls, callPing, hasQuit, started, blocked>>
  /\ SchedUnchanged

\* outlock.acquire returns.
Resume ==
  /\ sched = "held" /\ task[2] \notin outlock
  /\ Unschedule
  /\ UNCHANGED <<ready, event, ping, incoming, calls, callPing, inlock, hasQuit, given, started, blocked>>
  /\ SchedUnchanged

\* ScheduleTask: the task runs next, unless it is ready already.
RunSchedule_mut(t) ==         \* without looking whether it is ready
  /\ sched = "run" /\ task = <<"schedule", t>>
  /\ ready' = <<<<"task", t>>>> \o ready /\ event' = TRUE
  /\ Unschedule
  /\ UNCHANGED <<ping, incoming, calls, callPing, inlock, hasQuit, given, started, blocked>>
  /\ SchedUnchanged
RunSchedule(t) ==
  /\ sched = "run" /\ task = <<"schedule", t>>
  /\ IF <<"task", t>> \in ToSet(ready) THEN UNCHANGED <<ready, event>>
     ELSE ready' = <<<<"task", t>>>> \o ready /\ event' = TRUE
  /\ Unschedule
  /\ UNCHANGED <<ping, incoming, calls, callPing, inlock, hasQuit, given, started, blocked>>
  /\ SchedUnchanged

\* registerSelect's _cycle
Ping ==
  /\ sched = "ping"
  /\ ping' = TRUE /\ sched' = "check"
  /\ UNCHANGED <<ready, event, incoming, calls, callPing, inlock, task, hasQuit, given, started, blocked>>
  /\ SchedUnchanged

\* run's finally clause
Finish ==
  /\ sched = "finish"
  /\ ping' = TRUE /\ sched' = "stopped"
  /\ UNCHANGED <<ready, event, incoming, calls, callPing, inlock, task, hasQuit, given, started, blocked>>
  /\ SchedUnchanged

Scheduler ==
  \/ Check \/ Idle \/ Cycle \/ RunCallLater \/ Call \/ Resume \/ Ping \/ Finish
  \/ \E t \in Sleepers : RunSleeper(t)
  \/ \E t \in Idlers : RunIdler(t)
  \/ \E t \in SyncTasks : RunSync(t)
  \/ \E t \in SyncTasks \cup Idlers \cup {CallLaterTask} : RunSchedule(t)
-----------------------------------------------------------------------------
(* The hub's thread.                                                       *)

HubUnchanged == UNCHANGED <<blocked, calls, callPing, inlock, outlock, schedVars, threadVars>>

Expired == {t \in selecting : <<t, "time">> \in due}

\* The tasks that have expired before the select
Scan ==
  /\ hub = "scan"
  /\ hub' = IF hasQuit THEN "stopped" ELSE "expire"
  /\ waking' = IF hasQuit THEN {} ELSE Expired
  /\ UNCHANGED <<ready, event, ping, incoming, due, selecting>>
  /\ HubUnchanged

\* _return, for one of the tasks.  That the event is set after the queue has
\* grown matters to nobody who takes from the queue without waiting, so that
\* both are one step here; Schedule and Set keep them apart.
Return ==
  \E t \in waking :
    /\ waking' = waking \ {t} /\ selecting' = selecting \ {t}
    /\ due' = due \ ({t} \X Ways)
    /\ ready' = Append(ready, <<"task", t>>) /\ event' = TRUE
    /\ UNCHANGED <<ping, incoming, hub>>
    /\ HubUnchanged

Expire ==
  /\ hub = "expire"
  /\ IF waking # {} THEN Return
     ELSE /\ hub' = "select"
          /\ UNCHANGED <<ready, event, ping, incoming, due, waking, selecting>>
          /\ HubUnchanged

\* The descriptors that are readable, the hub's own apart
Readable ==
  {t \in selecting : <<t, "io">> \in due} \cup (IF callPing THEN selecting \cap {CallLaterTask} ELSE {})

\* select returns: with descriptors, or because the next timer expired.
Select ==
  /\ hub = "select"
  /\ \/ /\ ping \/ Readable # {}
        /\ waking' = Readable
        /\ ping' = FALSE
        /\ hub' = IF ping THEN "drain" ELSE "return"
     \/ /\ ~ping /\ Readable = {}
        /\ \E t \in Expired : waking' = {t}
        /\ hub' = "return" /\ UNCHANGED ping
  /\ UNCHANGED <<ready, event, incoming, due, selecting>>
  /\ HubUnchanged

\* The pinger was read: the queue is emptied.
Drain ==
  /\ hub = "drain"
  /\ IF incoming = <<>> THEN hub' = "return" /\ UNCHANGED <<incoming, selecting>>
     ELSE /\ incoming' = Tail(incoming)
          /\ selecting' = selecting \cup {Head(incoming)}
          /\ UNCHANGED hub
  /\ UNCHANGED <<ready, event, ping, due, waking>>
  /\ HubUnchanged

Dispatch ==
  /\ hub = "return"
  /\ IF waking # {} THEN Return
     ELSE /\ hub' = "scan"
          /\ UNCHANGED <<ready, event, ping, incoming, due, waking, selecting>>
          /\ HubUnchanged

Hub == Scan \/ Expire \/ Select \/ Drain \/ Dispatch
-----------------------------------------------------------------------------
(* Other threads.                                                          *)

ThreadUnchanged == UNCHANGED <<blocked, ping, incoming, due, schedVars, hubVars>>

\* What th is doing
Op(th) == <<th, ops[th]>>

Go(th, from, to) == thread[th] = from /\ thread' = [thread EXCEPT ![th] = to]
Begin(th, to) ==
  /\ Go(th, "free", to)
  /\ ops[th] < MaxOps /\ ops' = [ops EXCEPT ![th] = @ + 1]

\* schedule(t) from another thread: a ScheduleTask is queued, then the event set.
ScheduleTask(t) == ready' = Append(ready, <<"schedule", t>>)

Schedule(th, t) ==
  /\ Begin(th, "set")
  /\ ScheduleTask(t)
  /\ UNCHANGED <<event, calls, callPing, inlock, outlock, lock, created>>
  /\ ThreadUnchanged

Set(th) ==
  /\ Go(th, "set", "free") /\ event' = TRUE
  /\ UNCHANGED <<ready, calls, callPing, inlock, outlock, ops, lock, created>>
  /\ ThreadUnchanged

\* callLater: the first one starts the CallLaterTask, under the lock.
CallLater(th) ==
  /\ lock = None
  /\ IF created THEN Begin(th, "append") /\ UNCHANGED <<ready, lock, created>>
     ELSE /\ Begin(th, "create")
          /\ ScheduleTask(CallLaterTask)
          /\ lock' = th /\ created' = TRUE
  /\ UNCHANGED <<event, calls, callPing, inlock, outlock>>
  /\ ThreadUnchanged

Created(th) ==
  /\ Go(th, "create", "append") /\ event' = TRUE /\ lock' = None
  /\ UNCHANGED <<ready, calls, callPing, inlock, outlock, ops, created>>
  /\ ThreadUnchanged

AppendCall(th) ==
  /\ Go(th, "append", "ping")
  /\ calls' = Append(calls, Op(th))
  /\ UNCHANGED <<ready, event, callPing, inlock, outlock, ops, lock, created>>
  /\ ThreadUnchanged

PingCalls(th) ==
  /\ Go(th, "ping", "free") /\ callPing' = TRUE
  /\ UNCHANGED <<ready, event, calls, inlock, outlock, ops, lock, created>>
  /\ ThreadUnchanged

\* synchronized().__enter__: a SyncTask with both locks held is scheduled.
Synchronize(th) ==
  /\ Begin(th, "syncset")
  /\ ScheduleTask(<<th, ops'[th]>>)
  /\ inlock' = inlock \cup {<<th, ops'[th]>>} /\ outlock' = outlock \cup {<<th, ops'[th]>>}
  /\ UNCHANGED <<event, calls, callPing, lock, created>>
  /\ ThreadUnchanged

SyncSet(th) ==
  /\ Go(th, "syncset", "waiting") /\ event' = TRUE
  /\ UNCHANGED <<ready, calls, callPing, inlock, outlock, ops, lock, created>>
  /\ ThreadUnchanged

Enter(th) ==
  /\ Go(th, "waiting", "critical") /\ Op(th) \notin inlock
  /\ UNCHANGED <<ready, event, calls, callPing, inlock, outlock, ops, lock, created>>
  /\ ThreadUnchanged

\* __exit__
Leave(th) ==
  /\ Go(th, "critical", "free") /\ outlock' = outlock \ {Op(th)}
  /\ UNCHANGED <<ready, event, calls, callPing, inlock, ops, lock, created>>
  /\ ThreadUnchanged

Finishes(th) ==
  Set(th) \/ Created(th) \/ AppendCall(th) \/ PingCalls(th) \/ SyncSet(th) \/ Enter(th) \/ Leave(th)

\* A registered sleeper's time comes, or its descriptor becomes ready.
Due(t) ==
  /\ t \in selecting \cup ToSet(incoming)
  /\ \A how \in Ways : <<t, how>> \notin due
  /\ \E how \in Ways : due' = due \cup {<<t, how>>}
  /\ UNCHANGED <<ready, event, ping, incoming, calls, callPing, blocked, inlock, outlock, schedVars, hubVars, threadVars>>

\* CallBlocking._proc: the worker wakes its task with fast_schedule.
Proc(t) ==
  /\ t \in blocked
  /\ blocked' = blocked \ {t}
  /\ ready' = Append(ready, <<"task", t>>) /\ event' = TRUE
  /\ UNCHANGED <<ping, incoming, due, calls, callPing, inlock, outlock, schedVars, hubVars, threadVars>>
-----------------------------------------------------------------------------
\* The sleepers have been started.
Init ==
  /\ ready \in {s \in [1 .. Cardinality(Sleepers) -> {<<"task", t>> : t \in Sleepers}] : IsInjective(s)}
  /\ sched = "check" /\ task = None /\ hasQuit = FALSE /\ given = {} /\ started = FALSE /\ blocked = {}
  /\ hub = "scan" /\ waking = {} /\ selecting = {}
  /\ thread = [th \in Threads |-> "free"] /\ ops = [th \in Threads |-> 0]
  /\ lock = None /\ created = FALSE
  /\ event = FALSE /\ ping = FALSE /\ incoming = <<>> /\ due = {}
  /\ calls = <<>> /\ callPing = FALSE /\ inlock = {} /\ outlock = {}

Next ==
  \/ Scheduler \/ Hub
  \/ \E t \in Sleepers : Due(t) \/ Proc(t)
  \/ \E th \in Threads :
       \/ CallLater(th) \/ Synchronize(th) \/ Finishes(th)
       \/ \E t \in Idlers : Schedule(th, t)

Spec == Init /\ [][Next]_vars
=============================================================================
