---------------------------- MODULE RecocoProofs ----------------------------
(***************************************************************************)
(* Exclusive and OnePlace for any number of tasks and threads, and what    *)
(* can be said without fairness of wake-ups and of the end.                *)
(***************************************************************************)
EXTENDS RecocoProps, FiniteSetTheorems, TLAPS

\* A thread inside synchronized() holds the outer lock of its SyncTask; once the
\* inner one is free the scheduler is at the outer one.  The thread's own locks
\* carry the argument: what the scheduler does does not depend on other threads'.
Inside(th) == thread[th] \in {"syncset", "waiting", "critical"}

Handshake ==
  /\ DOMAIN thread = Threads /\ DOMAIN ops = Threads
  /\ \A th \in Threads :
       /\ Inside(th) => Op(th) \in outlock
       /\ Inside(th) /\ Op(th) \notin inlock => sched = "held" /\ task = <<"task", Op(th)>>
       /\ thread[th] = "critical" => Op(th) \notin inlock

LEMMA HandshakeInit == Init => Handshake
BY DEF Init, Handshake, Inside

\* The scheduler's steps other than a SyncTask's leave the inner locks alone and
\* are not taken while it is held.
LEMMA OtherTasksKeepHandshake ==
  ASSUME Handshake, sched # "held", inlock' = inlock, SchedUnchanged
  PROVE  Handshake'
BY DEF Handshake, Inside, Op, SchedUnchanged, threadVars

LEMMA SchedulerKeepsHandshake ==
  ASSUME Handshake, Scheduler
  PROVE  Handshake'
<1>1. CASE Check \/ Idle \/ Cycle \/ RunCallLater \/ Call \/ Ping \/ Finish
  BY <1>1, OtherTasksKeepHandshake DEF Check, Idle, Cycle, RunCallLater, Call, Ping, Finish
<1>2. CASE Resume
  <2>1. ASSUME NEW th \in Threads, Inside(th) PROVE Op(th) \in inlock
    BY <1>2, <2>1 DEF Resume, Handshake
  <2> QED
    BY <1>2, <2>1 DEF Resume, Handshake, Inside, Op, SchedUnchanged, threadVars
<1>3. ASSUME NEW t \in Sleepers, RunSleeper(t) PROVE Handshake'
  BY <1>3, OtherTasksKeepHandshake DEF RunSleeper
<1>4. ASSUME NEW t \in Idlers, RunIdler(t) PROVE Handshake'
  BY <1>4, OtherTasksKeepHandshake DEF RunIdler
<1>5. ASSUME NEW t \in SyncTasks, RunSync(t) PROVE Handshake'
  <2>1. ASSUME NEW th \in Threads, Inside(th) PROVE Op(th) \in inlock
    BY <1>5, <2>1 DEF RunSync, Handshake
  <2> QED
    BY <1>5, <2>1 DEF RunSync, Handshake, Inside, Op, SchedUnchanged, threadVars
<1>6. ASSUME NEW t \in SyncTasks \cup Idlers \cup {CallLaterTask}, RunSchedule(t)
      PROVE  Handshake'
  BY <1>6, OtherTasksKeepHandshake DEF RunSchedule
<1> QED
  BY <1>1, <1>2, <1>3, <1>4, <1>5, <1>6 DEF Scheduler

LEMMA ThreadKeepsHandshake ==
  ASSUME Handshake, NEW th \in Threads,
         CallLater(th) \/ Synchronize(th) \/ Finishes(th) \/ \E t \in Idlers : Schedule(th, t)
  PROVE  Handshake'
<1> USE DEF Handshake, Inside, Op, ThreadUnchanged, schedVars
<1>1. CASE CallLater(th)
  BY <1>1 DEF CallLater, Begin, Go
<1>2. CASE Synchronize(th)
  BY <1>2 DEF Synchronize, Begin, Go
<1>3. CASE \E t \in Idlers : Schedule(th, t)
  BY <1>3 DEF Schedule, Begin, Go
<1>4. CASE Set(th) \/ Created(th) \/ AppendCall(th) \/ PingCalls(th)
  BY <1>4 DEF Set, Created, AppendCall, PingCalls, Go
<1>5. CASE SyncSet(th) \/ Enter(th)
  BY <1>5 DEF SyncSet, Enter, Go
<1>6. CASE Leave(th)
  BY <1>6 DEF Leave, Go
<1> QED
  BY <1>1, <1>2, <1>3, <1>4, <1>5, <1>6 DEF Finishes

LEMMA HandshakeStep ==
  ASSUME Handshake, [Next]_vars
  PROVE  Handshake'
<1>1. CASE Scheduler
  BY <1>1, SchedulerKeepsHandshake
<1>2. CASE Hub \/ \E t \in Sleepers : Due(t) \/ Proc(t)
  <2>1. UNCHANGED <<inlock, outlock, schedVars, threadVars>>
    BY <1>2 DEF Hub, Scan, Expire, Select, Drain, Dispatch, Return, HubUnchanged, Due, Proc
  <2> QED
    BY <2>1 DEF Handshake, Inside, Op, schedVars, threadVars
<1>3. CASE UNCHANGED vars
  BY <1>3 DEF vars, Handshake, Inside, Op, schedVars, threadVars
<1> QED
  BY <1>1, <1>2, <1>3, ThreadKeepsHandshake DEF Next

\* Whatever the tasks and the other threads do, a thread inside synchronized()
\* runs alone.
THEOREM SynchronizedAlone == Spec => []Exclusive
<1>1. Handshake => Exclusive
  BY DEF Handshake, Exclusive, Inside
<1> QED
  BY <1>1, HandshakeInit, HandshakeStep, PTL DEF Spec
-----------------------------------------------------------------------------
(* Queues in which an element occurs once.                                 *)

LEMMA AppendOnce ==
  ASSUME NEW S, NEW s \in Seq(S), NEW e \in S
  PROVE  /\ Append(s, e) \in Seq(S)
         /\ ToSet(Append(s, e)) = ToSet(s) \cup {e}
         /\ \A x : Once(s, x) /\ (x # e \/ x \notin ToSet(s)) => Once(Append(s, e), x)
<1> DEFINE a == Append(s, e)
<1>1. /\ a \in Seq(S) /\ Len(a) = Len(s) + 1 /\ a[Len(s) + 1] = e
      /\ \A i \in 1 .. Len(s) : a[i] = s[i]
  OBVIOUS
<1>2. DOMAIN a = 1 .. Len(s) + 1 /\ DOMAIN s = 1 .. Len(s) /\ Len(s) \in Nat
  BY <1>1
<1> HIDE DEF a
<1>3. ToSet(a) = ToSet(s) \cup {e}
  <2>1. \A i \in DOMAIN a : (i \in DOMAIN s /\ a[i] = s[i]) \/ a[i] = e
    BY <1>1, <1>2
  <2>2. (\A i \in DOMAIN s : i \in DOMAIN a /\ a[i] = s[i]) /\ \E i \in DOMAIN a : a[i] = e
    BY <1>1, <1>2
  <2> QED BY <2>1, <2>2 DEF ToSet
<1>4. ASSUME NEW x, Once(s, x), x # e \/ x \notin ToSet(s) PROVE Once(a, x)
  <2>1. CASE x = e
    BY <1>1, <1>2, <1>4, <2>1 DEF Once, ToSet
  <2>2. CASE x # e
    BY <1>1, <1>2, <1>4, <2>2 DEF Once
  <2> QED BY <2>1, <2>2
<1> QED BY <1>1, <1>3, <1>4 DEF a

LEMMA PrependOnce ==
  ASSUME NEW S, NEW s \in Seq(S), NEW e \in S
  PROVE  /\ <<e>> \o s \in Seq(S)
         /\ ToSet(<<e>> \o s) = ToSet(s) \cup {e}
         /\ \A x : Once(s, x) /\ (x # e \/ x \notin ToSet(s)) => Once(<<e>> \o s, x)
<1> DEFINE a == <<e>> \o s
<1>1. /\ a \in Seq(S) /\ Len(a) = Len(s) + 1 /\ a[1] = e
      /\ \A i \in 2 .. Len(s) + 1 : a[i] = s[i - 1]
  OBVIOUS
<1>2. DOMAIN a = 1 .. Len(s) + 1 /\ DOMAIN s = 1 .. Len(s) /\ Len(s) \in Nat
  BY <1>1
<1> HIDE DEF a
<1>3. ToSet(a) = ToSet(s) \cup {e}
  <2>1. \A i \in DOMAIN a : (i - 1 \in DOMAIN s /\ a[i] = s[i - 1]) \/ a[i] = e
    BY <1>1, <1>2
  <2>2. (\A i \in DOMAIN s : i + 1 \in DOMAIN a /\ a[i + 1] = s[i]) /\ \E i \in DOMAIN a : a[i] = e
    BY <1>1, <1>2
  <2> QED BY <2>1, <2>2 DEF ToSet
<1>4. ASSUME NEW x, Once(s, x), x # e \/ x \notin ToSet(s) PROVE Once(a, x)
  <2>1. \A i \in DOMAIN a : (i = 1 /\ a[i] = e) \/ (i - 1 \in DOMAIN s /\ a[i] = s[i - 1])
    BY <1>1, <1>2
  <2>2. \A i \in DOMAIN a : i \in Int
    BY <1>2
  <2>3. CASE x = e
    BY <1>4, <2>1, <2>3 DEF Once, ToSet
  <2>4. CASE x # e
    BY <1>4, <2>1, <2>2, <2>4 DEF Once
  <2> QED BY <2>3, <2>4
<1> QED BY <1>1, <1>3, <1>4 DEF a

LEMMA TailOnce ==
  ASSUME NEW S, NEW s \in Seq(S), s # <<>>
  PROVE  /\ Tail(s) \in Seq(S) /\ Head(s) \in S
         /\ Head(s) \in ToSet(s) /\ ToSet(Tail(s)) \subseteq ToSet(s)
         /\ \A x : Once(s, x) => Once(Tail(s), x)
         /\ Once(s, Head(s)) => Head(s) \notin ToSet(Tail(s))
<1> DEFINE a == Tail(s)
<1>1. /\ a \in Seq(S) /\ Len(a) = Len(s) - 1 /\ Head(s) = s[1] /\ Head(s) \in S
      /\ \A i \in 1 .. Len(s) - 1 : a[i] = s[i + 1]
  OBVIOUS
<1>2. DOMAIN a = 1 .. Len(s) - 1 /\ DOMAIN s = 1 .. Len(s) /\ Len(s) \in Nat /\ Len(s) > 0
  BY <1>1
<1> HIDE DEF a
<1>3. \A i \in DOMAIN a : i \in Int /\ i > 0 /\ i + 1 \in DOMAIN s /\ a[i] = s[i + 1]
  BY <1>1, <1>2
<1>4. 1 \in DOMAIN s
  BY <1>2
<1>5. Head(s) \in ToSet(s) /\ ToSet(a) \subseteq ToSet(s)
  BY <1>1, <1>3, <1>4 DEF ToSet
<1>6. ASSUME NEW x, Once(s, x) PROVE Once(a, x)
  BY <1>3, <1>6 DEF Once
<1>7. ASSUME Once(s, Head(s)) PROVE Head(s) \notin ToSet(a)
  <2> SUFFICES ASSUME NEW i \in DOMAIN a, a[i] = Head(s) PROVE FALSE
    BY DEF ToSet
  <2>1. i + 1 = 1
    BY <1>1, <1>3, <1>4, <1>7 DEF Once
  <2> QED BY <1>3, <2>1
<1> QED BY <1>1, <1>5, <1>6, <1>7 DEF a
-----------------------------------------------------------------------------
(* Where the tasks are.                                                    *)

HubTasks == Sleepers \cup {CallLaterTask}
Entries  == {"task", "schedule"} \X Kept

\* Tasks are made by somebody who schedules them once.
Made == SyncTasks \cup {CallLaterTask}

At(t)        == task = <<"task", t>> \/ InReady(t) \/ Queued(t) \/ t \in selecting \/ t \in blocked
Scheduled(t) == task = <<"schedule", t>> \/ <<"schedule", t>> \in ToSet(ready)

\* not yet
Unmade(t) ==
  \/ t = CallLaterTask /\ ~created
  \/ \E th \in Threads : \E n \in 1 .. MaxOps : t = <<th, n>> /\ n > ops[th]

Places ==
  /\ ready \in Seq(Entries) /\ incoming \in Seq(HubTasks)
  /\ blocked \subseteq Sleepers /\ selecting \subseteq HubTasks /\ waking \subseteq selecting
  /\ ops \in [Threads -> Nat]
  /\ sched = "calls" => task = <<"task", CallLaterTask>>

\* A task that is being scheduled for the first time is nowhere yet.
FirstTime ==
  \A t \in Made :
    /\ Once(ready, <<"schedule", t>>)
    /\ task = <<"schedule", t>> => <<"schedule", t>> \notin ToSet(ready)
    /\ Scheduled(t) => ~At(t)
    /\ Unmade(t) => ~Scheduled(t) /\ ~At(t)

PInv == Places /\ OnePlace /\ FirstTime

LEMMA KindsDiffer ==
  /\ Sleepers \cap Idlers = {} /\ Sleepers \cap Made = {} /\ Idlers \cap Made = {}
  /\ Idlers \cap HubTasks = {} /\ HubTasks \subseteq Kept /\ Idlers \subseteq Kept /\ Made \subseteq Kept
  /\ \A t \in Kept : <<"task", t>> \in Entries /\ <<"schedule", t>> \in Entries
  /\ None \notin Entries
BY RecocoAssumption DEF Made, HubTasks, Kept, Entries

\* The hub never has an idler.
LEMMA IdlersOutside ==
  ASSUME Places, NEW i \in Idlers
  PROVE  ~Queued(i) /\ i \notin selecting /\ i \notin blocked
<1>1. incoming \in Seq(HubTasks) /\ selecting \subseteq HubTasks /\ i \notin HubTasks
      /\ i \notin blocked
  BY KindsDiffer DEF Places, HubTasks
<1>2. \A k \in DOMAIN incoming : incoming[k] \in HubTasks
  BY <1>1
<1> QED BY <1>1, <1>2 DEF Queued, ToSet

\* A task that ran is moved to the end of a queue, or to none.
LEMMA Rescheduled ==
  ASSUME PInv, NEW t \in Kept, task = <<"task", t>>, task' = None,
         ready' = ready \/ ready' = Append(ready, <<"task", t>>),
         ready' # ready => incoming' = incoming,
         incoming' = incoming \/ (t \in HubTasks /\ incoming' = Append(incoming, t)),
         sched' # "calls",
         UNCHANGED <<selecting, blocked, waking, ops, created>>
  PROVE  PInv'
<1> USE KindsDiffer
<1>1. CASE ready' = ready /\ incoming' = incoming
  BY <1>1 DEF PInv, Places, OnePlace, FirstTime, InReady, Queued, At, Scheduled, Unmade
<1>2. CASE ready' = Append(ready, <<"task", t>>) /\ incoming' = incoming
  <2> <<"task", t>> \in Entries
    OBVIOUS
  <2>1. /\ ready' \in Seq(Entries) /\ ToSet(ready') = ToSet(ready) \cup {<<"task", t>>}
        /\ \A x : Once(ready, x) /\ (x # <<"task", t>> \/ x \notin ToSet(ready)) => Once(ready', x)
    <3> ready \in Seq(Entries)
      BY DEF PInv, Places
    <3> QED BY <1>2, AppendOnce
  <2>2. Places'
    BY <1>2, <2>1 DEF PInv, Places
  <2>3. OnePlace'
    BY <1>2, <2>1 DEF PInv, OnePlace, InReady, Queued
  <2>4. FirstTime'
    BY <1>2, <2>1 DEF PInv, FirstTime, InReady, Queued, At, Scheduled, Unmade
  <2> QED BY <2>2, <2>3, <2>4 DEF PInv
<1>3. CASE ready' = ready /\ t \in HubTasks /\ incoming' = Append(incoming, t)
  <2>1. /\ incoming' \in Seq(HubTasks) /\ ToSet(incoming') = ToSet(incoming) \cup {t}
        /\ \A x : Once(incoming, x) /\ (x # t \/ x \notin ToSet(incoming)) => Once(incoming', x)
    BY <1>3, AppendOnce DEF PInv, Places
  <2>2. Places'
    BY <1>3, <2>1 DEF PInv, Places
  <2>3. OnePlace'
    BY <1>3, <2>1 DEF PInv, OnePlace, InReady, Queued
  <2>4. FirstTime'
    BY <1>3, <2>1 DEF PInv, FirstTime, InReady, Queued, At, Scheduled, Unmade
  <2> QED BY <2>2, <2>3, <2>4 DEF PInv
<1> QED BY <1>1, <1>2, <1>3
LEMMA NothingMoves ==
  ASSUME PInv, task' \in {task, None}, sched' = "calls" => task' = <<"task", CallLaterTask>>,
         waking' \subseteq selecting,
         UNCHANGED <<ready, incoming, selecting, blocked, ops, created>>
  PROVE  PInv'
BY KindsDiffer DEF PInv, Places, OnePlace, FirstTime, InReady, Queued, At, Scheduled, Unmade

\* A task in no queue is made ready.
LEMMA MadeReady ==
  ASSUME PInv, NEW t \in Kept, ~At(t), task' \in {task, None},
         t \in Made => task = <<"schedule", t>> /\ task' = None,
         ready' = Append(ready, <<"task", t>>) \/ ready' = <<<<"task", t>>>> \o ready,
         sched' # "calls",
         UNCHANGED <<incoming, selecting, blocked, waking, ops, created>>
  PROVE  PInv'
<1> USE KindsDiffer
<1> <<"task", t>> \in Entries
  OBVIOUS
<1>1. /\ ready' \in Seq(Entries) /\ ToSet(ready') = ToSet(ready) \cup {<<"task", t>>}
      /\ \A x : Once(ready, x) /\ (x # <<"task", t>> \/ x \notin ToSet(ready)) => Once(ready', x)
  <2>1. ready \in Seq(Entries)
    BY DEF PInv, Places
  <2>2. CASE ready' = Append(ready, <<"task", t>>)
    BY <2>1, <2>2, AppendOnce
  <2>3. CASE ready' = <<<<"task", t>>>> \o ready
    BY <2>1, <2>3, PrependOnce
  <2> QED BY <2>2, <2>3
<1>2. Places'
  BY <1>1 DEF PInv, Places
<1>3. OnePlace'
  BY <1>1 DEF PInv, OnePlace, At, InReady, Queued
<1>4. FirstTime'
  BY <1>1 DEF PInv, FirstTime, InReady, Queued, At, Scheduled, Unmade
<1> QED BY <1>2, <1>3, <1>4 DEF PInv

LEMMA Taken ==
  ASSUME PInv, TakeFirst, UNCHANGED <<incoming, selecting, blocked, waking, ops, created>>
  PROVE  PInv'
<1> USE KindsDiffer
<1>1. CASE ready = <<>>
  BY <1>1, NothingMoves DEF TakeFirst, PInv, Places
<1>2. CASE ready # <<>>
  <2>1. /\ ready' \in Seq(Entries) /\ task' \in Entries /\ task' \in ToSet(ready)
        /\ ToSet(ready') \subseteq ToSet(ready)
        /\ \A x : Once(ready, x) => Once(ready', x)
        /\ Once(ready, task') => task' \notin ToSet(ready')
    <3>1. ready \in Seq(Entries) /\ ready' = Tail(ready) /\ task' = Head(ready)
      BY <1>2 DEF PInv, Places, TakeFirst
    <3> QED BY <1>2, <3>1, TailOnce
  <2>2. Places'
    BY <1>2, <2>1 DEF PInv, Places, TakeFirst
  <2>3. OnePlace'
    BY <2>1 DEF PInv, OnePlace, InReady, Queued
  <2>4. FirstTime'
    BY <2>1 DEF PInv, OnePlace, FirstTime, InReady, Queued, At, Scheduled, Unmade
  <2> QED BY <2>2, <2>3, <2>4 DEF PInv
<1> QED BY <1>1, <1>2

LEMMA SchedulerKeepsPlaces ==
  ASSUME PInv, Scheduler
  PROVE  PInv'
<1> USE DEF SchedUnchanged, hubVars, threadVars, Unschedule, Register
<1>1. CASE Check
  BY <1>1, Taken, NothingMoves DEF Check, PInv, Places
<1>2. CASE Cycle
  BY <1>2, Taken DEF Cycle
<1>3. CASE Idle \/ Ping \/ Finish \/ Resume
  BY <1>3, NothingMoves DEF Idle, Ping, Finish, Resume, PInv, Places
<1>4. CASE RunCallLater
  <2>1. CASE started
    BY <1>4, <2>1, NothingMoves DEF RunCallLater, PInv, Places
  <2>2. CASE ~started
    BY <1>4, <2>2, Rescheduled, KindsDiffer DEF RunCallLater, HubTasks
  <2> QED BY <2>1, <2>2
<1>5. CASE Call
  <2>1. CASE calls = <<>>
    BY <1>5, <2>1, Rescheduled, KindsDiffer DEF Call, HubTasks, PInv, Places
  <2>2. CASE calls # <<>>
    BY <1>5, <2>2, NothingMoves DEF Call, PInv, Places
  <2> QED BY <2>1, <2>2
<1>6. ASSUME NEW t \in Sleepers, RunSleeper(t) PROVE PInv'
  <2> t \in Kept /\ t \in HubTasks
    BY DEF Kept, HubTasks
  <2>a. CASE blocked' = blocked \cup {t}
    <3>0. t \notin blocked
      BY <1>6 DEF RunSleeper, PInv, OnePlace
    <3>1. /\ task = <<"task", t>> /\ task' = None /\ sched' # "calls"
          /\ UNCHANGED <<ready, incoming, selecting, waking, ops, created>>
      BY <1>6, <2>a, <3>0 DEF RunSleeper
    <3>2. Places'
      BY <2>a, <3>1 DEF PInv, Places
    <3>3. OnePlace'
      BY <2>a, <3>1, KindsDiffer DEF PInv, OnePlace, InReady, Queued
    <3>4. FirstTime'
      BY <2>a, <3>1, KindsDiffer DEF PInv, FirstTime, InReady, Queued, At, Scheduled, Unmade
    <3> QED BY <3>2, <3>3, <3>4 DEF PInv
  <2>1. CASE task' = None /\ blocked' = blocked
    <3>1. task = <<"task", t>> /\ task # None /\ UNCHANGED <<selecting, blocked, waking, ops, created>>
      BY <1>6, <2>1, KindsDiffer DEF RunSleeper
    <3>2. /\ ready' = ready \/ ready' = Append(ready, <<"task", t>>)
          /\ ready' # ready => incoming' = incoming
          /\ incoming' = incoming \/ incoming' = Append(incoming, t)
          /\ sched' # "calls"
      BY <1>6, <2>1, <3>1 DEF RunSleeper
    <3> QED BY <2>1, <3>1, <3>2, Rescheduled
  <2>2. CASE task' # None /\ blocked' = blocked
    <3>1. PICK i \in Idlers : <<"task", i>> \notin ToSet(ready) /\ ready' = Append(ready, <<"task", i>>)
      BY <1>6, <2>2 DEF RunSleeper
    <3>2. task = <<"task", t>> /\ task' = task /\ sched' = "run" /\ incoming' = incoming
      BY <1>6, <2>2 DEF RunSleeper
    <3>3. i \in Kept /\ i \notin Made /\ i # t
      BY KindsDiffer
    <3>4. ~At(i)
      BY <3>1, <3>2, <3>3, IdlersOutside DEF PInv, At, InReady
    <3>5. UNCHANGED <<selecting, blocked, waking, ops, created>>
      BY <1>6, <2>2 DEF RunSleeper
    <3> QED BY <3>1, <3>2, <3>3, <3>4, <3>5, MadeReady
  <2>b. blocked' = blocked \/ (blocked' = blocked \cup {t} /\ task' = None)
    BY <1>6 DEF RunSleeper
  <2> QED BY <2>a, <2>b, <2>1, <2>2
<1>7. ASSUME NEW t \in Idlers, RunIdler(t) PROVE PInv'
  BY <1>7, NothingMoves DEF RunIdler, PInv, Places
<1>8. ASSUME NEW t \in SyncTasks, RunSync(t) PROVE PInv'
  BY <1>8, NothingMoves, Rescheduled DEF RunSync, Kept, PInv, Places
<1>9. ASSUME NEW t \in SyncTasks \cup Idlers \cup {CallLaterTask}, RunSchedule(t) PROVE PInv'
  <2>1. /\ t \in Kept /\ task = <<"schedule", t>> /\ task' = None /\ task # <<"task", t>>
        /\ sched' # "calls" /\ UNCHANGED <<incoming, selecting, blocked, waking, ops, created>>
    BY <1>9, KindsDiffer DEF RunSchedule, Made
  <2>2. CASE ready' = ready
    BY <2>1, <2>2, NothingMoves DEF PInv, Places
  <2>3. CASE ready' # ready
    <3>1. ready' = <<<<"task", t>>>> \o ready /\ ~InReady(t)
      BY <1>9, <2>3 DEF RunSchedule, InReady
    <3>2. ~At(t)
      <4>1. CASE t \in Idlers
        BY <2>1, <3>1, <4>1, IdlersOutside DEF PInv, At
      <4>2. CASE t \in Made
        BY <2>1, <4>2 DEF PInv, FirstTime, Scheduled
      <4> QED BY <4>1, <4>2 DEF Made
    <3> QED BY <2>1, <3>1, <3>2, MadeReady
  <2> QED BY <2>2, <2>3
<1> QED
  BY <1>1, <1>2, <1>3, <1>4, <1>5, <1>6, <1>7, <1>8, <1>9 DEF Scheduler
\* A task the hub or a worker has is given back.
LEMMA GivenBack ==
  ASSUME PInv, NEW t \in selecting \cup blocked,
         selecting' = selecting \ {t}, blocked' = blocked \ {t}, waking' \subseteq waking \ {t},
         ready' = Append(ready, <<"task", t>>), UNCHANGED <<incoming, sched, task, ops, created>>
  PROVE  PInv'
<1> USE KindsDiffer
<1>1. t \in Kept /\ <<"task", t>> \in Entries /\ t \in HubTasks
  BY DEF PInv, Places, HubTasks
<1>2. /\ ready' \in Seq(Entries) /\ ToSet(ready') = ToSet(ready) \cup {<<"task", t>>}
      /\ \A x : Once(ready, x) /\ (x # <<"task", t>> \/ x \notin ToSet(ready)) => Once(ready', x)
  <2> ready \in Seq(Entries)
    BY DEF PInv, Places
  <2> QED BY <1>1, AppendOnce
<1>3. Places'
  BY <1>2 DEF PInv, Places
<1>4. OnePlace'
  BY <1>1, <1>2 DEF PInv, OnePlace, InReady, Queued
<1>5. FirstTime'
  BY <1>1, <1>2 DEF PInv, FirstTime, InReady, Queued, At, Scheduled, Unmade
<1> QED BY <1>3, <1>4, <1>5 DEF PInv

LEMMA ReturnKeepsPlaces ==
  ASSUME PInv, Return
  PROVE  PInv'
<1>1. PICK t \in waking : /\ waking' = waking \ {t} /\ selecting' = selecting \ {t}
                          /\ ready' = Append(ready, <<"task", t>>)
                          /\ UNCHANGED <<incoming, sched, task, blocked, ops, created>>
  BY DEF Return, HubUnchanged, schedVars, threadVars
<1>2. t \in selecting /\ t \in Kept
  BY KindsDiffer DEF PInv, Places
<1>3. t \notin blocked
  BY <1>2 DEF PInv, OnePlace
<1> QED BY <1>1, <1>2, <1>3, GivenBack

LEMMA ProcKeepsPlaces ==
  ASSUME PInv, NEW t \in Sleepers, Proc(t)
  PROVE  PInv'
<1>1. t \in blocked /\ t \in Kept
  BY DEF Proc, Kept
<1>2. t \notin selecting /\ t \notin waking
  BY <1>1 DEF PInv, OnePlace, Places
<1>3. UNCHANGED <<incoming, sched, task, selecting, waking, ops, created>>
  BY DEF Proc, schedVars, hubVars, threadVars
<1> QED BY <1>1, <1>2, <1>3, GivenBack DEF Proc

LEMMA HubKeepsPlaces ==
  ASSUME PInv, Hub
  PROVE  PInv'
<1> USE DEF HubUnchanged, schedVars, threadVars
<1>1. CASE Scan
  BY <1>1, NothingMoves DEF Scan, Expired, PInv, Places
<1>2. CASE Expire
  BY <1>2, NothingMoves, ReturnKeepsPlaces DEF Expire, PInv, Places
<1>3. CASE Select
  BY <1>3, NothingMoves DEF Select, Readable, Expired, PInv, Places
<1>4. CASE Drain
  <2>1. CASE incoming = <<>>
    BY <1>4, <2>1, NothingMoves DEF Drain, PInv, Places
  <2>2. CASE incoming # <<>>
    <3>1. /\ incoming' = Tail(incoming) /\ selecting' = selecting \cup {Head(incoming)}
          /\ incoming \in Seq(HubTasks)
          /\ UNCHANGED <<ready, waking, sched, task, blocked, ops, created>>
      BY <1>4, <2>2 DEF Drain, PInv, Places
    <3>2. /\ incoming' \in Seq(HubTasks) /\ Head(incoming) \in HubTasks
          /\ Head(incoming) \in ToSet(incoming) /\ ToSet(incoming') \subseteq ToSet(incoming)
          /\ \A x : Once(incoming, x) => Once(incoming', x)
          /\ Once(incoming, Head(incoming)) => Head(incoming) \notin ToSet(incoming')
      BY <2>2, <3>1, TailOnce
    <3>3. Places'
      BY <3>1, <3>2 DEF PInv, Places
    <3>4. OnePlace'
      BY <3>1, <3>2, KindsDiffer DEF PInv, OnePlace, InReady, Queued
    <3>5. FirstTime'
      BY <3>1, <3>2, KindsDiffer DEF PInv, FirstTime, InReady, Queued, At, Scheduled, Unmade
    <3> QED BY <3>3, <3>4, <3>5 DEF PInv
  <2> QED BY <2>1, <2>2
<1>5. CASE Dispatch
  BY <1>5, NothingMoves, ReturnKeepsPlaces DEF Dispatch, PInv, Places
<1> QED BY <1>1, <1>2, <1>3, <1>4, <1>5 DEF Hub

\* A ScheduleTask is queued, of a task that is being made or of an idler.
LEMMA ScheduledLater ==
  ASSUME PInv, NEW t \in Made \cup Idlers, ScheduleTask(t),
         t \in Made => Unmade(t) /\ ~Unmade(t)',
         \A u : Unmade(u)' => Unmade(u), ops' \in [Threads -> Nat],
         UNCHANGED <<incoming, selecting, blocked, waking, sched, task>>
  PROVE  PInv'
<1> USE KindsDiffer
<1> <<"schedule", t>> \in Entries
  OBVIOUS
<1>1. /\ ready' \in Seq(Entries) /\ ToSet(ready') = ToSet(ready) \cup {<<"schedule", t>>}
      /\ \A x : Once(ready, x) /\ (x # <<"schedule", t>> \/ x \notin ToSet(ready)) => Once(ready', x)
  BY AppendOnce DEF ScheduleTask, PInv, Places
<1>2. Places'
  BY <1>1 DEF PInv, Places
<1>3. OnePlace'
  BY <1>1 DEF PInv, OnePlace, InReady, Queued
<1>4. FirstTime'
  <2> SUFFICES ASSUME NEW u \in Made
               PROVE  /\ Once(ready', <<"schedule", u>>)
                      /\ task' = <<"schedule", u>> => <<"schedule", u>> \notin ToSet(ready')
                      /\ Scheduled(u)' => ~At(u)'
                      /\ Unmade(u)' => ~Scheduled(u)' /\ ~At(u)'
    BY DEF FirstTime
  <2>1. CASE u = t
    BY <1>1, <2>1 DEF PInv, FirstTime, InReady, Queued, At, Scheduled
  <2>2. CASE u # t
    BY <1>1, <2>2 DEF PInv, FirstTime, InReady, Queued, At, Scheduled
  <2> QED BY <2>1, <2>2
<1> QED BY <1>2, <1>3, <1>4 DEF PInv

LEMMA ThreadKeepsPlaces ==
  ASSUME PInv, NEW th \in Threads,
         CallLater(th) \/ Synchronize(th) \/ Finishes(th) \/ \E t \in Idlers : Schedule(th, t)
  PROVE  PInv'
<1> USE DEF ThreadUnchanged, schedVars, hubVars
<1> ops \in [Threads -> Nat]
  BY DEF PInv, Places
<1>1. ASSUME NEW to, Begin(th, to)
      PROVE  /\ ops' \in [Threads -> Nat] /\ ops'[th] = ops[th] + 1 /\ ops[th] < MaxOps
             /\ \A t \in Threads : ops[t] <= ops'[t]
  BY <1>1 DEF Begin
<1>2. ASSUME ops' \in [Threads -> Nat], \A t \in Threads : ops[t] <= ops'[t],
             created => created', NEW u, Unmade(u)'
      PROVE  Unmade(u)
  BY <1>2 DEF Unmade
<1>3. ASSUME UNCHANGED ready, ops' \in [Threads -> Nat], \A t \in Threads : ops[t] <= ops'[t],
             created => created', UNCHANGED <<incoming, selecting, blocked, waking, sched, task>>
      PROVE  PInv'
  <2>1. Places' /\ OnePlace'
    BY <1>3 DEF PInv, Places, OnePlace, InReady, Queued
  <2>2. \A u : Unmade(u)' => Unmade(u)
    BY <1>2, <1>3
  <2>3. FirstTime'
    BY <1>3, <2>2 DEF PInv, FirstTime, InReady, Queued, At, Scheduled
  <2> QED BY <2>1, <2>3 DEF PInv
<1>4. ASSUME NEW t \in Idlers, Schedule(th, t) PROVE PInv'
  <2>1. /\ Begin(th, "set") /\ ScheduleTask(t) /\ UNCHANGED created
        /\ UNCHANGED <<incoming, selecting, blocked, waking, sched, task>>
    BY <1>4 DEF Schedule
  <2>2. \A u : Unmade(u)' => Unmade(u)
    BY <1>1, <1>2, <2>1
  <2> QED BY <1>1, <2>1, <2>2, ScheduledLater, KindsDiffer
<1>5. CASE CallLater(th)
  <2>1. UNCHANGED <<incoming, selecting, blocked, waking, sched, task>>
    BY <1>5 DEF CallLater
  <2>2. CASE created
    BY <1>1, <1>3, <1>5, <2>1, <2>2 DEF CallLater
  <2>3. CASE ~created
    <3>1. Begin(th, "create") /\ ScheduleTask(CallLaterTask) /\ created'
      BY <1>5, <2>3 DEF CallLater
    <3>2. \A u : Unmade(u)' => Unmade(u)
      BY <1>1, <1>2, <3>1
    <3>3. Unmade(CallLaterTask) /\ ~Unmade(CallLaterTask)'
      <4>1. \A t \in Threads, n \in 1 .. MaxOps : CallLaterTask # <<t, n>>
        BY RecocoAssumption DEF SyncTasks
      <4> QED BY <2>3, <3>1, <4>1 DEF Unmade
    <3> QED BY <1>1, <2>1, <3>1, <3>2, <3>3, ScheduledLater DEF Made
  <2> QED BY <2>2, <2>3
<1>6. CASE Synchronize(th)
  <2>n. PICK n \in Int : n = ops'[th]
    BY <1>1, <1>6, RecocoAssumption DEF Synchronize
  <2> DEFINE t == <<th, n>>
  <2>1. /\ Begin(th, "syncset") /\ ScheduleTask(t) /\ UNCHANGED created
        /\ UNCHANGED <<incoming, selecting, blocked, waking, sched, task>>
    BY <1>6, <2>n DEF Synchronize
  <2>2. \A u : Unmade(u)' => Unmade(u)
    BY <1>1, <1>2, <2>1
  <2>3. n \in 1 .. MaxOps /\ n > ops[th] /\ ~(n > ops'[th])
    BY <1>1, <2>1, <2>n, RecocoAssumption
  <2>4. t \in SyncTasks /\ t # CallLaterTask
    BY <2>3, RecocoAssumption DEF SyncTasks
  <2>5. Unmade(t)
    BY <2>3 DEF Unmade
  <2>6. ~Unmade(t)'
    <3>1. \A u \in Threads, k \in 1 .. MaxOps : t = <<u, k>> => u = th /\ k = n
      OBVIOUS
    <3> QED BY <2>3, <2>4, <3>1 DEF Unmade
  <2> HIDE DEF t
  <2> QED BY <1>1, <2>1, <2>2, <2>4, <2>5, <2>6, ScheduledLater DEF Made
<1>7. CASE Finishes(th)
  <2>1. UNCHANGED <<ready, ops>>
    BY <1>7 DEF Finishes, Set, Created, AppendCall, PingCalls, SyncSet, Enter, Leave
  <2>2. UNCHANGED created /\ UNCHANGED <<incoming, selecting, blocked, waking, sched, task>>
    BY <1>7 DEF Finishes, Set, Created, AppendCall, PingCalls, SyncSet, Enter, Leave
  <2>3. \A t \in Threads : ops[t] <= ops'[t]
    BY <2>1
  <2> QED BY <1>3, <2>1, <2>2, <2>3
<1> QED BY <1>4, <1>5, <1>6, <1>7

LEMMA PlacesInit == Init => PInv
<1> SUFFICES ASSUME Init PROVE PInv
  OBVIOUS
<1> USE KindsDiffer
<1> DEFINE n == Cardinality(Sleepers)
<1>1. /\ ready \in [1 .. n -> {<<"task", t>> : t \in Sleepers}]
      /\ \A i, j \in DOMAIN ready : ready[i] = ready[j] => i = j
  BY DEF Init, IsInjective
<1>2. n \in Nat
  BY RecocoAssumption, FS_CardinalityType
<1> HIDE DEF n
<1>3. {<<"task", t>> : t \in Sleepers} \subseteq Entries
  BY DEF HubTasks
<1>4. ready \in Seq(Entries)
  BY <1>1, <1>2, <1>3
<1>5. Places
  BY <1>4 DEF Init, Places
<1>6. \A e \in ToSet(ready) : \E t \in Sleepers : e = <<"task", t>>
  BY <1>1 DEF ToSet
<1>7. ToSet(incoming) = {} /\ \A x : Once(incoming, x) /\ Once(ready, x)
  BY <1>1 DEF Init, ToSet, Once
<1>8. OnePlace
  BY <1>6, <1>7 DEF Init, OnePlace, InReady, Queued
<1>9. FirstTime
  BY <1>6, <1>7 DEF Init, FirstTime, InReady, Queued, At, Scheduled
<1> QED BY <1>5, <1>8, <1>9 DEF PInv

LEMMA PlacesStep ==
  ASSUME PInv, [Next]_vars
  PROVE  PInv'
<1>1. CASE (\E t \in Sleepers : Due(t)) \/ UNCHANGED vars
  <2>1. UNCHANGED <<ready, incoming, selecting, blocked, ops, created>>
    BY <1>1 DEF Due, vars, hubVars, threadVars
  <2>2. UNCHANGED <<task, sched, waking>>
    BY <1>1 DEF Due, vars, schedVars, hubVars
  <2> QED BY <2>1, <2>2, NothingMoves DEF PInv, Places
<1>2. CASE \E t \in Sleepers : Proc(t)
  BY <1>2, ProcKeepsPlaces
<1> QED
  BY <1>1, <1>2, SchedulerKeepsPlaces, HubKeepsPlaces, ThreadKeepsPlaces DEF Next

\* No task is ever in two places, whoever schedules it when.
THEOREM TasksOnePlace == Spec => []OnePlace
<1>1. PInv => OnePlace
  BY DEF PInv
<1> QED
  BY <1>1, PlacesInit, PlacesStep, PTL DEF Spec
-----------------------------------------------------------------------------
(* Wake-ups.                                                               *)

\* A queue that has grown has been announced, or whoever let it grow is about to
\* announce it: to the scheduler that waits for the event, to the hub in its select,
\* and to the CallLaterTask.
Alarmed ==
  sched = "idle" /\ ready # <<>> =>
    event \/ \E th \in Threads : thread[th] \in {"set", "create", "syncset"}
Pinged == incoming # <<>> => ping \/ sched = "ping" \/ hub = "drain"
CallsPinged ==
  calls # <<>> => callPing \/ sched = "calls" \/ \E th \in Threads : thread[th] = "ping"
Announced == Alarmed /\ Pinged /\ CallsPinged

LEMMA AnnouncedInit == Init => Announced
<1>1. Init => sched = "check" /\ incoming = <<>> /\ calls = <<>>
  BY DEF Init
<1> QED BY <1>1 DEF Announced, Alarmed, Pinged, CallsPinged

LEMMA SchedulerAnnounces ==
  ASSUME Announced, Scheduler
  PROVE  Announced'
<1> USE DEF SchedUnchanged, hubVars, threadVars, Unschedule, Register
<1>1. Alarmed'
  <2>1. CASE Check
    BY <2>1 DEF Check, TakeFirst, Alarmed
  <2>2. CASE ~ Check
    <3>1. sched' # "idle"
      BY <2>2 DEF Scheduler, Idle, Cycle, TakeFirst, RunCallLater, Call, Resume, Ping, Finish,
                  RunSleeper, RunIdler, RunSync, RunSchedule
    <3> QED BY <3>1 DEF Alarmed
  <2> QED BY <2>1, <2>2
<1>2. Pinged'
  <2>1. \/ sched' = "ping"
        \/ incoming' = incoming /\ hub' = hub /\ (ping => ping') /\ (sched = "ping" => ping')
    BY DEF Scheduler, Check, Idle, Cycle, TakeFirst, RunCallLater, Call, Resume, Ping, Finish,
           RunSleeper, RunIdler, RunSync, RunSchedule
  <2> QED BY <2>1 DEF Announced, Pinged
<1>3. CallsPinged'
  <2>1. \/ sched' = "calls"
        \/ calls' = <<>>
        \/ calls' = calls /\ callPing' = callPing /\ thread' = thread /\ sched # "calls"
    BY DEF Scheduler, Check, Idle, Cycle, TakeFirst, RunCallLater, Call, Resume, Ping, Finish,
           RunSleeper, RunIdler, RunSync, RunSchedule
  <2> QED BY <2>1 DEF Announced, CallsPinged
<1> QED BY <1>1, <1>2, <1>3 DEF Announced

LEMMA HubAnnounces ==
  ASSUME Announced, Hub \/ \E t \in Sleepers : Due(t) \/ Proc(t)
  PROVE  Announced'
<1> USE DEF HubUnchanged, schedVars, hubVars, threadVars
<1>1. UNCHANGED <<sched, thread, calls, callPing>>
  BY DEF Hub, Scan, Expire, Return, Select, Drain, Dispatch, Due, Proc
<1>2. event' \/ (event' = event /\ ready' = ready)
  BY DEF Hub, Scan, Expire, Return, Select, Drain, Dispatch, Due, Proc
<1>3. \/ hub' = "drain" \/ incoming' = <<>>
      \/ incoming' = incoming /\ ping' = ping /\ hub # "drain"
      \/ incoming' = incoming /\ ~ping /\ ~ping' /\ hub # "drain"
      \/ incoming' = incoming /\ ping' = ping /\ hub' = hub
  BY DEF Hub, Scan, Expire, Return, Select, Drain, Dispatch, Due, Proc
<1> QED BY <1>1, <1>2, <1>3 DEF Announced, Alarmed, Pinged, CallsPinged

LEMMA ThreadAnnounces ==
  ASSUME Announced, DOMAIN thread = Threads, NEW th \in Threads,
         CallLater(th) \/ Synchronize(th) \/ Finishes(th) \/ \E t \in Idlers : Schedule(th, t)
  PROVE  Announced'
<1> USE DEF ThreadUnchanged, schedVars, hubVars
<1>1. PICK from, to : Go(th, from, to)
  BY DEF CallLater, Synchronize, Finishes, Schedule, Begin, Set, Created, AppendCall, PingCalls,
         SyncSet, Enter, Leave
<1>2. /\ thread[th] = from /\ thread'[th] = to
      /\ \A x \in Threads : x # th => thread'[x] = thread[x]
  BY <1>1 DEF Go
<1>3. UNCHANGED <<sched, hub, ping, incoming>>
  BY DEF CallLater, Synchronize, Finishes, Schedule, Begin, Set, Created, AppendCall, PingCalls,
         SyncSet, Enter, Leave
<1>4. Alarmed'
  <2>1. \/ event' \/ thread'[th] \in {"set", "create", "syncset"}
        \/ ready' = ready /\ event' = event /\ thread[th] \notin {"set", "create", "syncset"}
    BY <1>2 DEF CallLater, Synchronize, Finishes, Schedule, Begin, Go, Set, Created, AppendCall,
                PingCalls, SyncSet, Enter, Leave
  <2> QED BY <1>2, <1>3, <2>1 DEF Announced, Alarmed
<1>5. CallsPinged'
  <2>1. \/ callPing' \/ thread'[th] = "ping"
        \/ calls' = calls /\ callPing' = callPing /\ thread[th] # "ping"
    BY <1>2 DEF CallLater, Synchronize, Finishes, Schedule, Begin, Go, Set, Created, AppendCall,
                PingCalls, SyncSet, Enter, Leave
  <2> QED BY <1>2, <1>3, <2>1 DEF Announced, CallsPinged
<1>6. Pinged'
  BY <1>3 DEF Announced, Pinged
<1> QED BY <1>4, <1>5, <1>6 DEF Announced

LEMMA AnnouncedStep ==
  ASSUME Announced, Handshake, [Next]_vars
  PROVE  Announced'
<1>1. CASE UNCHANGED vars
  BY <1>1 DEF vars, schedVars, hubVars, threadVars, Announced, Alarmed, Pinged, CallsPinged
<1>2. DOMAIN thread = Threads
  BY DEF Handshake
<1> QED BY <1>1, <1>2, SchedulerAnnounces, HubAnnounces, ThreadAnnounces DEF Next

Present(t) == Scheduled(t) \/ At(t)

\* What the scheduler's thread has in hand: nothing between two tasks, and a SyncTask
\* while it waits for a thread to leave.
InHand ==
  /\ sched \in {"check", "idle", "clear", "cycle", "ping", "finish", "stopped"} => task = None
  /\ sched = "held" => \E t \in SyncTasks : task = <<"task", t>>

LEMMA InHandInit == Init => InHand
BY DEF Init, InHand

LEMMA InHandStep ==
  ASSUME InHand, [Next]_vars
  PROVE  InHand'
<1>1. CASE Scheduler
  <2> USE <1>1 DEF Unschedule, Register, TakeFirst, InHand
  <2>1. CASE \E t \in SyncTasks : RunSync(t)
    BY <2>1 DEF RunSync
  <2>2. CASE ~ \E t \in SyncTasks : RunSync(t)
    BY <2>2 DEF Scheduler, Check, Idle, Cycle, RunCallLater, Call, Resume, Ping, Finish,
                RunSleeper, RunIdler, RunSchedule
  <2> QED BY <2>1, <2>2
<1>2. CASE ~ Scheduler
  <2>1. UNCHANGED <<sched, task>>
    BY <1>2 DEF Next, vars, Hub, Scan, Expire, Return, Select, Drain, Dispatch, HubUnchanged, Due, Proc,
                CallLater, Synchronize, Finishes, Schedule, Set, Created, AppendCall, PingCalls,
                SyncSet, Enter, Leave, ThreadUnchanged, schedVars
  <2> QED BY <2>1 DEF InHand
<1> QED BY <1>1, <1>2

LEMMA HeadOrTail ==
  ASSUME NEW S, NEW s \in Seq(S), s # <<>>
  PROVE  ToSet(s) \subseteq {Head(s)} \cup ToSet(Tail(s))
<1> SUFFICES ASSUME NEW i \in DOMAIN s, i # 1 PROVE s[i] \in ToSet(Tail(s))
  BY DEF ToSet
<1>1. i - 1 \in DOMAIN Tail(s) /\ Tail(s)[i - 1] = s[i]
  OBVIOUS
<1> QED BY <1>1 DEF ToSet

\* A task somebody makes stays until it has run, and a SyncTask until its thread has
\* left.
LEMMA SchedulerKeepsPresent ==
  ASSUME PInv, InHand, Scheduler, NEW t \in Made, Present(t), Resume => task # <<"task", t>>
  PROVE  Present(t)'
<1> USE KindsDiffer DEF SchedUnchanged, hubVars, threadVars, Unschedule, Register
<1>0. ready \in Seq(Entries) /\ incoming \in Seq(HubTasks)
  BY DEF PInv, Places
<1>1. ASSUME TakeFirst, task = None, UNCHANGED <<incoming, selecting, blocked>> PROVE Present(t)'
  <2>1. CASE ready = <<>>
    BY <1>1, <2>1 DEF TakeFirst, Present, Scheduled, At, InReady, Queued
  <2>2. CASE ready # <<>>
    <3>1. /\ ready' = Tail(ready) /\ task' = Head(ready)
          /\ ToSet(ready) \subseteq {Head(ready)} \cup ToSet(Tail(ready))
      BY <1>0, <1>1, <2>2, HeadOrTail DEF TakeFirst
    <3>2. task # <<"task", t>> /\ task # <<"schedule", t>>
      BY <1>1
    <3> QED BY <1>1, <3>1, <3>2 DEF Present, Scheduled, At, InReady, Queued
  <2> QED BY <2>1, <2>2
<1>2. ASSUME \/ task' = task
             \/ task # <<"task", t>> /\ task # <<"schedule", t>>
             \/ Queued(t)' \/ InReady(t)',
             ToSet(ready) \subseteq ToSet(ready'), ToSet(incoming) \subseteq ToSet(incoming'),
             blocked \subseteq blocked', selecting' = selecting
      PROVE  Present(t)'
  BY <1>2 DEF Present, Scheduled, At, InReady, Queued
<1>3. ASSUME NEW e \in Entries, ready' = Append(ready, e)
      PROVE  ToSet(ready') = ToSet(ready) \cup {e}
  BY <1>0, <1>3, AppendOnce
<1>4. ASSUME NEW u \in HubTasks, incoming' = Append(incoming, u)
      PROVE  ToSet(incoming') = ToSet(incoming) \cup {u}
  BY <1>0, <1>4, AppendOnce
<1>5. CASE Check
  <2>1. task = None
    BY <1>5 DEF Check, InHand
  <2> QED BY <1>1, <1>2, <1>5, <2>1 DEF Check
<1>6. CASE Cycle
  BY <1>1, <1>6 DEF Cycle, InHand
<1>7. CASE Idle \/ Ping \/ Finish
  BY <1>2, <1>7 DEF Idle, Ping, Finish
<1>8. CASE Resume
  <2>1. PICK u \in SyncTasks : task = <<"task", u>>
    BY <1>8 DEF Resume, InHand
  <2>2. task # <<"task", t>> /\ task # <<"schedule", t>>
    BY <1>8, <2>1
  <2> QED BY <1>2, <1>8, <2>2 DEF Resume
<1>9. CASE RunCallLater
  <2>1. CASE started
    BY <1>2, <1>9, <2>1 DEF RunCallLater
  <2>2. CASE ~started
    <3>1. /\ task = <<"task", CallLaterTask>> /\ incoming' = Append(incoming, CallLaterTask)
          /\ UNCHANGED <<ready, selecting, blocked>>
      BY <1>9, <2>2 DEF RunCallLater
    <3>2. ToSet(incoming') = ToSet(incoming) \cup {CallLaterTask}
      BY <1>4, <3>1 DEF HubTasks
    <3> QED BY <1>2, <3>1, <3>2 DEF Queued
  <2> QED BY <2>1, <2>2
<1>10. CASE Call
  <2>1. CASE calls # <<>>
    BY <1>2, <1>10, <2>1 DEF Call
  <2>2. CASE calls = <<>>
    <3>1. /\ task = <<"task", CallLaterTask>> /\ incoming' = Append(incoming, CallLaterTask)
          /\ UNCHANGED <<ready, selecting, blocked>>
      BY <1>10, <2>2 DEF Call, PInv, Places
    <3>2. ToSet(incoming') = ToSet(incoming) \cup {CallLaterTask}
      BY <1>4, <3>1 DEF HubTasks
    <3> QED BY <1>2, <3>1, <3>2 DEF Queued
  <2> QED BY <2>1, <2>2
<1>11. ASSUME NEW u \in Sleepers, RunSleeper(u) PROVE Present(t)'
  <2>1. task = <<"task", u>> /\ u # t /\ u \in HubTasks /\ task # <<"schedule", t>>
    BY <1>11 DEF RunSleeper, HubTasks
  <2>2. /\ ready' = ready \/ \E e \in Entries : ready' = Append(ready, e)
        /\ incoming' = incoming \/ incoming' = Append(incoming, u)
        /\ blocked \subseteq blocked' /\ selecting' = selecting
    BY <1>11, <2>1 DEF RunSleeper
  <2>3. ToSet(ready) \subseteq ToSet(ready') /\ ToSet(incoming) \subseteq ToSet(incoming')
    BY <1>3, <1>4, <2>1, <2>2
  <2> QED BY <1>2, <2>1, <2>2, <2>3
<1>12. ASSUME NEW u \in Idlers, RunIdler(u) PROVE Present(t)'
  BY <1>2, <1>12 DEF RunIdler
<1>13. ASSUME NEW u \in SyncTasks, RunSync(u) PROVE Present(t)'
  <2>1. CASE task' = task /\ ready' = ready
    BY <1>2, <1>13, <2>1 DEF RunSync
  <2>2. CASE ~ (task' = task /\ ready' = ready)
    <3>1. /\ task = <<"task", u>> /\ ready' = Append(ready, <<"task", u>>) /\ u \in Made
          /\ UNCHANGED <<incoming, selecting, blocked>>
      BY <1>13, <2>2 DEF RunSync, Made
    <3>2. <<"task", u>> \in Entries
      BY <3>1
    <3>3. ToSet(ready') = ToSet(ready) \cup {<<"task", u>>}
      BY <1>3, <3>1, <3>2
    <3> QED BY <1>2, <3>1, <3>3 DEF InReady
  <2> QED BY <2>1, <2>2
<1>14. ASSUME NEW u \in SyncTasks \cup Idlers \cup {CallLaterTask}, RunSchedule(u)
       PROVE  Present(t)'
  <2>1. /\ task = <<"schedule", u>> /\ u \in Kept /\ <<"task", u>> \in Entries
        /\ UNCHANGED <<incoming, selecting, blocked>>
    BY <1>14 DEF RunSchedule, Made
  <2>2. InReady(u)' /\ ToSet(ready) \subseteq ToSet(ready')
    <3>1. CASE ready' = <<<<"task", u>>>> \o ready
      <4>1. ToSet(ready') = ToSet(ready) \cup {<<"task", u>>}
        BY <1>0, <2>1, <3>1, PrependOnce
      <4> QED BY <4>1 DEF InReady
    <3>2. CASE ready' = ready /\ <<"task", u>> \in ToSet(ready)
      BY <3>2 DEF InReady
    <3> QED BY <1>14, <3>1, <3>2 DEF RunSchedule
  <2> QED BY <1>2, <2>1, <2>2
<1> QED BY <1>5, <1>6, <1>7, <1>8, <1>9, <1>10, <1>11, <1>12, <1>13, <1>14 DEF Scheduler

LEMMA OthersKeepPresent ==
  ASSUME PInv, [Next]_vars, ~ Scheduler, NEW t \in Made, Present(t)
  PROVE  Present(t)'
<1> USE KindsDiffer
<1>0. /\ ready \in Seq(Entries) /\ incoming \in Seq(HubTasks) /\ waking \subseteq selecting
      /\ blocked \subseteq Sleepers /\ selecting \subseteq HubTasks
  BY DEF PInv, Places
<1>1. t \notin blocked /\ <<"task", t>> \in Entries
  BY <1>0
<1>2. ASSUME task' = task, ToSet(ready) \subseteq ToSet(ready'),
             Queued(t) => Queued(t)' \/ t \in selecting',
             t \in selecting => t \in selecting' \/ InReady(t)'
      PROVE  Present(t)'
  BY <1>1, <1>2 DEF Present, Scheduled, At, InReady
<1>3. ASSUME NEW e \in Entries, ready' = Append(ready, e)
      PROVE  ToSet(ready') = ToSet(ready) \cup {e}
  BY <1>0, <1>3, AppendOnce
<1>4. CASE Return
  <2>1. PICK u \in waking : /\ selecting' = selecting \ {u} /\ ready' = Append(ready, <<"task", u>>)
                            /\ UNCHANGED <<incoming, task>>
    BY <1>4 DEF Return, HubUnchanged, schedVars
  <2>2. <<"task", u>> \in Entries
    BY <1>0
  <2>3. ToSet(ready') = ToSet(ready) \cup {<<"task", u>>}
    BY <1>3, <2>1, <2>2
  <2> QED BY <1>2, <2>1, <2>3 DEF InReady, Queued
<1>5. CASE Drain
  <2>1. UNCHANGED <<ready, task>>
    BY <1>5 DEF Drain, HubUnchanged, schedVars
  <2>2. CASE incoming = <<>>
    BY <1>2, <1>5, <2>1, <2>2 DEF Drain, Queued
  <2>3. CASE incoming # <<>>
    <3>1. /\ incoming' = Tail(incoming) /\ selecting' = selecting \cup {Head(incoming)}
          /\ ToSet(incoming) \subseteq {Head(incoming)} \cup ToSet(Tail(incoming))
      BY <1>0, <1>5, <2>3, HeadOrTail DEF Drain
    <3> QED BY <1>2, <2>1, <3>1 DEF Queued
  <2> QED BY <2>2, <2>3
<1>6. ASSUME Hub, ~ Return, ~ Drain PROVE Present(t)'
  <2>1. UNCHANGED <<ready, incoming, selecting, task>>
    BY <1>6 DEF Hub, Scan, Expire, Select, Dispatch, HubUnchanged, schedVars
  <2> QED BY <1>2, <2>1 DEF Queued
<1>7. ASSUME NEW u \in Sleepers, Due(u) \/ Proc(u) PROVE Present(t)'
  <2>1. <<"task", u>> \in Entries
    BY DEF HubTasks
  <2>2. UNCHANGED <<incoming, selecting, task>>
    BY <1>7 DEF Due, Proc, schedVars, hubVars
  <2>3. ready' = ready \/ ready' = Append(ready, <<"task", u>>)
    BY <1>7 DEF Due, Proc
  <2>4. ToSet(ready) \subseteq ToSet(ready')
    BY <1>3, <2>1, <2>3
  <2> QED BY <1>2, <2>2, <2>4 DEF Queued
<1>8. ASSUME NEW th \in Threads,
             CallLater(th) \/ Synchronize(th) \/ Finishes(th) \/ \E i \in Idlers : Schedule(th, i)
      PROVE  Present(t)'
  <2>1. UNCHANGED <<incoming, selecting, task>>
    BY <1>8 DEF CallLater, Synchronize, Finishes, Schedule, Set, Created, AppendCall, PingCalls,
                SyncSet, Enter, Leave, ThreadUnchanged, schedVars, hubVars
  <2>2. ready' = ready \/ \E u \in Kept : ready' = Append(ready, <<"schedule", u>>)
    <3>1. CASE Synchronize(th)
      <4>1. PICK n : n = ops'[th]
        OBVIOUS
      <4>2. ready' = Append(ready, <<"schedule", <<th, n>>>>) /\ Begin(th, "syncset")
        BY <3>1, <4>1 DEF Synchronize, ScheduleTask
      <4>3. ops \in [Threads -> Nat] /\ ops' = [ops EXCEPT ![th] = @ + 1] /\ ops[th] < MaxOps
        BY <4>2 DEF Begin, PInv, Places
      <4>4. n \in 1 .. MaxOps
        BY <4>1, <4>3, RecocoAssumption
      <4> QED BY <4>2, <4>4 DEF SyncTasks, Kept
    <3>2. CASE CallLater(th)
      BY <3>2 DEF CallLater, ScheduleTask, Kept
    <3>3. CASE Finishes(th)
      BY <3>3 DEF Finishes, Set, Created, AppendCall, PingCalls, SyncSet, Enter, Leave
    <3>4. CASE \E i \in Idlers : Schedule(th, i)
      BY <3>4 DEF Schedule, ScheduleTask, Kept
    <3> QED BY <1>8, <3>1, <3>2, <3>3, <3>4
  <2>3. ToSet(ready) \subseteq ToSet(ready')
    BY <1>3, <2>2
  <2> QED BY <1>2, <2>1, <2>3 DEF Queued
<1>9. CASE UNCHANGED vars
  BY <1>2, <1>9 DEF vars, schedVars, hubVars, Queued
<1> QED BY <1>4, <1>5, <1>6, <1>7, <1>8, <1>9 DEF Next

\* Nobody waits for a task that is nowhere: the CallLaterTask stays once it has been
\* made, and the SyncTask of a thread that waits for it until it lets the thread in.
Held ==
  /\ created => Present(CallLaterTask)
  /\ \A th \in Threads :
       thread[th] \in {"syncset", "waiting"} =>
         Op(th) \in SyncTasks /\ (Op(th) \in inlock => Present(Op(th)))

\* A sleeper whose time has come is where the hub will find it.
DueFound ==
  \A t \in Sleepers : \A how \in Ways : <<t, how>> \in due => Queued(t) \/ t \in selecting

NoLostWakeup == Announced /\ Held /\ DueFound

LEMMA HeldInit == Init => Held
BY DEF Init, Held

LEMMA HeldStep ==
  ASSUME Held, Handshake, PInv, InHand, [Next]_vars
  PROVE  Held'
<1> ops \in [Threads -> Nat] /\ DOMAIN thread = Threads
  BY DEF PInv, Places, Handshake
<1>1. ASSUME Present(CallLaterTask) PROVE Present(CallLaterTask)'
  <2>1. Resume => task # <<"task", CallLaterTask>>
    BY RecocoAssumption DEF Resume, InHand
  <2> QED BY <1>1, <2>1, SchedulerKeepsPresent, OthersKeepPresent DEF Made
<1>2. ASSUME NEW th \in Threads, Inside(th), NEW o \in SyncTasks, o = Op(th), Present(o)
      PROVE  Present(o)'
  <2>1. Resume => task # <<"task", o>>
    BY <1>2 DEF Resume, Handshake
  <2> QED BY <1>2, <2>1, SchedulerKeepsPresent, OthersKeepPresent DEF Made
<1>3. created /\ created' => Present(CallLaterTask)'
  BY <1>1 DEF Held
<1>4. ASSUME created' # created PROVE Present(CallLaterTask)'
  <2>1. PICK th \in Threads : CallLater(th)
    BY <1>4 DEF Next, vars, Scheduler, Check, Idle, Cycle, RunCallLater, Call, Resume, Ping, Finish,
                RunSleeper, RunIdler, RunSync, RunSchedule, SchedUnchanged, Hub, Scan, Expire, Return,
                Select, Drain, Dispatch, HubUnchanged, Due, Proc, Synchronize, Finishes, Schedule, Set,
                Created, AppendCall, PingCalls, SyncSet, Enter, Leave, threadVars
  <2>2. ready' = Append(ready, <<"schedule", CallLaterTask>>)
    BY <1>4, <2>1 DEF CallLater, ScheduleTask
  <2>3. ready \in Seq(Entries) /\ <<"schedule", CallLaterTask>> \in Entries
    BY KindsDiffer DEF PInv, Places, Made
  <2>4. <<"schedule", CallLaterTask>> \in ToSet(ready')
    BY <2>2, <2>3, AppendOnce
  <2> QED BY <2>4 DEF Present, Scheduled
<1>5. ASSUME NEW th \in Threads, thread'[th] \in {"syncset", "waiting"}, NEW n, n = ops'[th]
      PROVE  <<th, n>> \in SyncTasks /\ (<<th, n>> \in inlock' => Present(<<th, n>>)')
  <2> DEFINE o == <<th, n>>
  <2>1. CASE Synchronize(th)
    <3>1. /\ ready' = Append(ready, <<"schedule", o>>) /\ ops[th] < MaxOps
          /\ ops' = [ops EXCEPT ![th] = @ + 1]
      BY <1>5, <2>1 DEF Synchronize, ScheduleTask, Begin
    <3>2. n \in 1 .. MaxOps
      BY <1>5, <3>1, RecocoAssumption
    <3>3. o \in SyncTasks /\ <<"schedule", o>> \in Entries
      BY <3>2, KindsDiffer DEF SyncTasks, Made
    <3> HIDE DEF o
    <3>4. <<"schedule", o>> \in ToSet(ready')
      BY <3>1, <3>3, AppendOnce DEF PInv, Places
    <3> QED BY <3>3, <3>4 DEF Present, Scheduled, o
  <2>2. CASE ~ Synchronize(th)
    <3>1. /\ thread[th] \in {"syncset", "waiting"} /\ ops'[th] = ops[th]
          /\ o \in inlock' => o \in inlock
      <4>1. CASE Scheduler \/ Hub \/ (\E t \in Sleepers : Due(t) \/ Proc(t)) \/ UNCHANGED vars
        <5>1. UNCHANGED <<thread, ops>> /\ inlock' \subseteq inlock
          BY <4>1 DEF vars, Scheduler, Check, Idle, Cycle, RunCallLater, Call, Resume, Ping, Finish,
                      RunSleeper, RunIdler, RunSync, RunSchedule, SchedUnchanged, Hub, Scan, Expire,
                      Return, Select, Drain, Dispatch, HubUnchanged, Due, Proc, threadVars
        <5> QED BY <1>5, <5>1
      <4>2. ASSUME NEW x \in Threads, CallLater(x) \/ Finishes(x) \/ \E t \in Idlers : Schedule(x, t)
            PROVE  /\ thread[th] \in {"syncset", "waiting"} /\ ops'[th] = ops[th]
                   /\ o \in inlock' => o \in inlock
        <5>1. inlock' = inlock
          BY <4>2 DEF CallLater, Finishes, Schedule, Set, Created, AppendCall, PingCalls, SyncSet,
                      Enter, Leave
        <5>2. thread[th] \in {"syncset", "waiting"} /\ ops'[th] = ops[th]
          BY <1>5, <4>2 DEF CallLater, Finishes, Schedule, Begin, Go, Set, Created, AppendCall, PingCalls,
                            SyncSet, Enter, Leave
        <5> QED BY <5>1, <5>2
      <4>3. ASSUME NEW x \in Threads, Synchronize(x)
            PROVE  /\ thread[th] \in {"syncset", "waiting"} /\ ops'[th] = ops[th]
                   /\ o \in inlock' => o \in inlock
        <5>1. x # th /\ inlock' = inlock \cup {<<x, ops'[x]>>} /\ o # <<x, ops'[x]>>
          BY <2>2, <4>3 DEF Synchronize
        <5>2. thread[th] \in {"syncset", "waiting"} /\ ops'[th] = ops[th]
          BY <1>5, <4>3, <5>1 DEF Synchronize, Begin, Go
        <5> QED BY <5>1, <5>2
      <4> QED BY <4>1, <4>2, <4>3 DEF Next
    <3>2. o = Op(th) /\ Inside(th)
      BY <1>5, <3>1 DEF Op, Inside
    <3>3. o \in SyncTasks /\ (o \in inlock => Present(o))
      <4>1. Op(th) \in SyncTasks /\ (Op(th) \in inlock => Present(Op(th)))
        BY <3>1 DEF Held
      <4>2. PICK q : q = Op(th)
        OBVIOUS
      <4>3. q \in SyncTasks /\ (q \in inlock => Present(q))
        BY <4>1, <4>2
      <4>4. q = o
        BY <3>2, <4>2
      <4> QED BY <4>3, <4>4
    <3> HIDE DEF o
    <3>4. o \in inlock => Present(o)'
      BY <1>2, <3>2, <3>3
    <3> QED BY <3>1, <3>3, <3>4 DEF o
  <2> QED BY <2>1, <2>2
<1>6. ASSUME NEW th \in Threads, thread'[th] \in {"syncset", "waiting"}
      PROVE  Op(th)' \in SyncTasks /\ (Op(th)' \in inlock' => Present(Op(th))')
  <2>1. PICK n : n = ops'[th]
    OBVIOUS
  <2>2. <<th, n>> \in SyncTasks /\ (<<th, n>> \in inlock' => Present(<<th, n>>)')
    BY <1>5, <1>6, <2>1
  <2> QED BY <2>1, <2>2 DEF Op
<1> QED BY <1>3, <1>4, <1>6 DEF Held

LEMMA DueFoundInit == Init => DueFound
BY DEF Init, DueFound

LEMMA DueFoundStep ==
  ASSUME DueFound, PInv, [Next]_vars
  PROVE  DueFound'
<1>0. incoming \in Seq(HubTasks)
  BY DEF PInv, Places
<1>1. ASSUME due' \subseteq due, ToSet(incoming) \subseteq ToSet(incoming') \cup selecting',
             selecting \subseteq selecting'
      PROVE  DueFound'
  BY <1>1 DEF DueFound, Queued
<1>2. CASE Scheduler
  <2>1. UNCHANGED <<due, selecting>>
    BY <1>2 DEF Scheduler, Check, Idle, Cycle, RunCallLater, Call, Resume, Ping, Finish, RunSleeper,
                RunIdler, RunSync, RunSchedule, SchedUnchanged, hubVars
  <2>2. incoming' = incoming \/ \E t \in HubTasks : incoming' = Append(incoming, t)
    BY <1>2 DEF Scheduler, Check, Idle, Cycle, RunCallLater, Call, Resume, Ping, Finish, RunSleeper,
                RunIdler, RunSync, RunSchedule, Register, HubTasks
  <2>3. ASSUME NEW t \in HubTasks, incoming' = Append(incoming, t)
        PROVE  ToSet(incoming') = ToSet(incoming) \cup {t}
    BY <1>0, <2>3, AppendOnce
  <2>4. ToSet(incoming) \subseteq ToSet(incoming')
    BY <2>2, <2>3
  <2> QED BY <1>1, <2>1, <2>4
<1>3. CASE Return
  <2>1. PICK t \in waking : /\ selecting' = selecting \ {t} /\ due' = due \ ({t} \X Ways)
                            /\ incoming' = incoming
    BY <1>3 DEF Return
  <2> QED BY <2>1 DEF DueFound, Queued
<1>4. CASE Drain
  <2>1. due' = due
    BY <1>4 DEF Drain
  <2>2. CASE incoming = <<>>
    BY <1>1, <1>4, <2>1, <2>2 DEF Drain
  <2>3. CASE incoming # <<>>
    <3>1. /\ incoming' = Tail(incoming) /\ selecting' = selecting \cup {Head(incoming)}
          /\ ToSet(incoming) \subseteq {Head(incoming)} \cup ToSet(Tail(incoming))
      BY <1>0, <1>4, <2>3, HeadOrTail DEF Drain
    <3> QED BY <1>1, <2>1, <3>1
  <2> QED BY <2>2, <2>3
<1>5. ASSUME Hub, ~ Return, ~ Drain PROVE DueFound'
  <2>1. UNCHANGED <<due, incoming, selecting>>
    BY <1>5 DEF Hub, Scan, Expire, Select, Dispatch
  <2> QED BY <1>1, <2>1
<1>6. ASSUME NEW t \in Sleepers, Due(t) PROVE DueFound'
  <2>1. /\ Queued(t) \/ t \in selecting
        /\ \E how \in Ways : due' = due \cup {<<t, how>>}
    BY <1>6 DEF Due, Queued
  <2>2. UNCHANGED <<incoming, selecting>>
    BY <1>6 DEF Due, hubVars
  <2> QED BY <2>1, <2>2 DEF DueFound, Queued
<1>7. CASE UNCHANGED <<due, incoming, selecting>>
  BY <1>1, <1>7
<1>8. ASSUME NEW th \in Threads,
             CallLater(th) \/ Synchronize(th) \/ Finishes(th) \/ \E i \in Idlers : Schedule(th, i)
      PROVE  UNCHANGED <<due, incoming, selecting>>
  BY <1>8 DEF CallLater, Synchronize, Finishes, Schedule, Set, Created, AppendCall, PingCalls,
              SyncSet, Enter, Leave, ThreadUnchanged, hubVars
<1>9. ASSUME UNCHANGED vars \/ \E t \in Sleepers : Proc(t) PROVE UNCHANGED <<due, incoming, selecting>>
  BY <1>9 DEF vars, Proc, hubVars
<1> QED BY <1>2, <1>3, <1>4, <1>5, <1>6, <1>7, <1>8, <1>9 DEF Next

\* No wake-up is lost: whoever waits for a queue has been told of what is in it, or is
\* about to be, the task a thread counts on is still somewhere it will run from, and a
\* sleeper whose time has come where the hub looks.
\* It is what EverybodyRuns rests on, whatever the order of the threads' steps.
THEOREM WakeupsKept == Spec => []NoLostWakeup
<1> DEFINE All == Announced /\ Held /\ DueFound /\ Handshake /\ PInv /\ InHand
<1>1. Init => All
  BY AnnouncedInit, HeldInit, DueFoundInit, HandshakeInit, PlacesInit, InHandInit
<1>2. All /\ [Next]_vars => All'
  BY AnnouncedStep, HeldStep, DueFoundStep, HandshakeStep, PlacesStep, InHandStep
<1>3. All => NoLostWakeup
  BY DEF NoLostWakeup
<1> QED BY <1>1, <1>2, <1>3, PTL DEF Spec
-----------------------------------------------------------------------------
(* The end.                                                                *)

\* Once the CallLaterTask has executed quit it only finishes what it was doing: no
\* other task gets a slice.  The threads end after quit and not before it, the hub
\* because it is pinged or finds out by itself.
QuitEnds ==
  /\ hasQuit => sched \in {"calls", "ping", "check", "finish", "stopped"}
  /\ sched \in {"finish", "stopped"} => hasQuit
  /\ sched = "stopped" /\ hub \in {"expire", "select"} => ping
  /\ hub = "stopped" => hasQuit

LEMMA QuitEndsStep ==
  ASSUME QuitEnds, [Next]_vars
  PROVE  QuitEnds'
<1>1. CASE Scheduler
  <2> USE <1>1 DEF QuitEnds, SchedUnchanged, hubVars, Unschedule, Register, TakeFirst
  <2>1. CASE Call
    BY <2>1 DEF Call
  <2>2. CASE Check
    BY <2>2 DEF Check
  <2>3. CASE Finish
    BY <2>3 DEF Finish
  <2>4. CASE Idle \/ Cycle \/ RunCallLater \/ Resume \/ Ping
    BY <2>4 DEF Idle, Cycle, RunCallLater, Resume, Ping
  <2>5. ASSUME NEW t, RunSleeper(t) \/ RunIdler(t) \/ RunSync(t) \/ RunSchedule(t)
        PROVE  QuitEnds'
    <3>1. sched = "run" /\ UNCHANGED <<hasQuit, hub>> /\ sched' \in {"run", "check", "ping", "held"}
      BY <2>5 DEF RunSleeper, RunIdler, RunSync, RunSchedule
    <3> QED BY <3>1
  <2> QED BY <2>1, <2>2, <2>3, <2>4, <2>5 DEF Scheduler
<1>2. CASE Hub
  BY <1>2 DEF QuitEnds, Hub, Scan, Expire, Return, Select, Drain, Dispatch, HubUnchanged, schedVars
<1>3. CASE ~ Scheduler /\ ~ Hub
  <2>1. UNCHANGED <<sched, hasQuit, hub, ping>>
    BY <1>3 DEF Next, vars, Due, Proc, CallLater, Synchronize, Finishes, Schedule, Set, Created,
                AppendCall, PingCalls, SyncSet, Enter, Leave, ThreadUnchanged, schedVars, hubVars
  <2> QED BY <2>1 DEF QuitEnds
<1> QED BY <1>1, <1>2, <1>3

\* quit ends the threads, and nothing else does; the last thing the scheduler does is
\* to wake the hub.
THEOREM QuitIsTheEnd == Spec => []QuitEnds
<1>1. Init => QuitEnds
  BY DEF Init, QuitEnds
<1> QED BY <1>1, QuitEndsStep, PTL DEF Spec
=============================================================================
