----------------------------- MODULE RecocoProps -----------------------------
(***************************************************************************)
(* What the rest of POX relies on: handlers run one at a time, no wake-up  *)
(* is lost, and a task is never in two places.                             *)
(***************************************************************************)
EXTENDS Recoco

Kept == Sleepers \cup Idlers \cup SyncTasks \cup {CallLaterTask}

InReady(t) == <<"task", t>> \in ToSet(ready)
Queued(t)  == t \in ToSet(incoming)
Once(s, x) == \A i, j \in DOMAIN s : s[i] = x /\ s[j] = x => i = j

\* A task is in one place at most, and there once: ready, running, with a worker
\* thread, in the hub's queue or among its tasks.  Neither assertion of
\* fast_schedule and _select ever fails, though three kinds of threads move tasks
\* about without a lock and others wake them.
OnePlace ==
  \A t \in Kept :
    /\ Once(ready, <<"task", t>>) /\ Once(incoming, t)
    /\ task = <<"task", t>> => ~InReady(t) /\ ~Queued(t) /\ t \notin selecting /\ t \notin blocked
    /\ InReady(t) => ~Queued(t) /\ t \notin selecting /\ t \notin blocked
    /\ Queued(t) => t \notin selecting /\ t \notin blocked
    /\ t \in selecting => t \notin blocked

\* Inside synchronized() a thread is alone: the scheduler executes its SyncTask,
\* waiting, so no task runs and no other thread is inside.
Exclusive ==
  \A th \in Threads :
    thread[th] = "critical" => sched = "held" /\ task = <<"task", Op(th)>>

\* The scheduler and the hub go on, a thread returns from what it has begun and
\* leaves its critical section; descriptors and times become due on their own.
Fairness ==
  /\ WF_vars(Scheduler) /\ WF_vars(Hub)
  /\ \A th \in Threads : WF_vars(Finishes(th))
FairSpec == Spec /\ Fairness

\* No wake-up is lost, whatever the scheduler and the hub were doing when it came
\* and without the cycle's maximum wait: a sleeper whose time has come runs, a
\* task that was scheduled runs, what is given to callLater is called, and whoever
\* asks for synchronized() gets in.
EverybodyRuns ==
  /\ \A t \in Sleepers : (\E d \in due : d[1] = t) ~> task = <<"task", t>> \/ hasQuit
  /\ \A t \in Idlers :
       (\E i \in DOMAIN ready : ready[i][2] = t) ~> task = <<"task", t>> \/ hasQuit
  /\ \A o \in SyncTasks :
       (\E i \in DOMAIN calls : calls[i] = o) ~> (\A i \in DOMAIN calls : calls[i] # o) \/ hasQuit
  /\ \A th \in Threads : thread[th] = "waiting" ~> thread[th] = "critical" \/ hasQuit

\* quit ends both threads, the hub's too, whatever it is waiting for.
QuitStops == hasQuit ~> sched = "stopped" /\ hub = "stopped"
=============================================================================
