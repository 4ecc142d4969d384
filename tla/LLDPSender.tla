----------------------------- MODULE LLDPSender -----------------------------
(***************************************************************************)
(* LLDPSender (pox/openflow/discovery.py): the packets that let Discovery  *)
(* see the links, one per port, sent in turn so that each goes out once in *)
(* a send cycle, which is half a link's timeout.  The timer is the         *)
(* scheduler's recurring Timer: it runs when it is due and starts over     *)
(* whenever the set of ports changes.                                      *)
(***************************************************************************)
EXTENDS Integers, FiniteSets, Sequences, SequencesExt

CONSTANTS Known,       \* the physical ports, <<dpid, port_num>>: the others have no effect
          Cycle,       \* _send_cycle_time, in units of time
          MinInterval, \* 1 / _sends_per_sec
          MaxChanges   \* bound on the events that restart the timer

ASSUME KnownAssumption == Known \subseteq Nat \X Nat /\ IsFiniteSet(Known)
ASSUME TimeAssumption == Cycle \in Nat /\ MinInterval \in 1 .. Cycle

VARIABLES this,      \* _this_cycle
          next,      \* _next_cycle
          chunkOf,   \* number of packets _set_timer found, 0: no _timer
          clock,     \* time until the timer is due
          connected, \* switches with a session
          older,     \* those with an earlier session whose end was not noticed yet
          hidden,    \* those whose earlier session's end came after the new session
          ports,     \* the ports the switches have announced
          waited,    \* history: time since a port's packet was sent
          quiet,     \* history: time since the timer was set
          changes    \* history: events that set the timer

lists == <<this, next>>
network == <<connected, older, hidden, ports>>
vars == <<lists, chunkOf, clock, network, waited, quiet, changes>>

Switches == {p[1] : p \in Known}
PortsOf(s) == {p \in Known : p[1] = s}
LinkTimeout == 2 * Cycle

Without(list, S) ==
  LET kept[n \in 0 .. Len(list)] ==
        IF n = 0 THEN <<>>
        ELSE IF list[n] \in S THEN kept[n - 1] ELSE Append(kept[n - 1], list[n])
  IN  kept[Len(list)]

\* _set_timer: few packets go one at a time, many in batches at the highest rate
Batch(n) == n * MinInterval > Cycle
Interval(n) == IF Batch(n) THEN MinInterval ELSE Cycle \div n

\* _timer_handler rounds a broken chunk at random
Chunks(n) ==
  IF ~Batch(n) THEN {1}
  ELSE {k \in 1 .. n : k * Cycle - n * MinInterval \in 1 - Cycle .. Cycle - 1}

SetTimer ==
  LET n == Len(this') + Len(next')
  IN  /\ chunkOf' = n
      /\ clock' = IF n = 0 THEN 0 ELSE Interval(n)
      /\ quiet' = 0
      /\ changes < MaxChanges /\ changes' = changes + 1

Sent(S) == waited' = [p \in Known |-> IF p \in S THEN 0 ELSE waited[p]]

Init ==
  /\ this = <<>> /\ next = <<>>
  /\ chunkOf = 0 /\ clock = 0
  /\ connected = {} /\ older = {} /\ hidden = {} /\ ports = {}
  /\ waited = [p \in Known |-> 0]
  /\ quiet = 0 /\ changes = 0

DelSwitch(s) ==
  /\ this' = Without(this, PortsOf(s))
  /\ next' = Without(next, PortsOf(s))

\* A features reply names the ports in any order; each goes to the front of the
\* next cycle and is sent at once.  The session may replace one that is not down.
ConnectionUp(s, order) ==
  /\ this' = Without(this, PortsOf(s))
  /\ next' = order \o Without(next, PortsOf(s))
  /\ SetTimer
  /\ Sent(ToSet(order))
  /\ ports' = (ports \ PortsOf(s)) \cup ToSet(order)
  /\ older' = older \cup ({s} \cap connected)
  /\ connected' = connected \cup {s}
  /\ hidden' = hidden \ {s}

ConnectionDown(s) ==
  /\ s \in connected
  /\ DelSwitch(s)
  /\ SetTimer
  /\ connected' = connected \ {s}
  /\ hidden' = hidden \ {s}
  /\ ports' = ports \ PortsOf(s)
  /\ UNCHANGED <<older, waited>>

\* The end of the earlier session is a ConnectionDown like any other: the ports of
\* the new one go, and so does the dpid from the nexus (Connection).
OlderDown(s) ==
  /\ s \in older
  /\ DelSwitch(s)
  /\ SetTimer
  /\ older' = older \ {s}
  /\ hidden' = hidden \cup ({s} \cap connected)
  /\ UNCHANGED <<connected, ports, waited>>

\* PortStatus, added.
PortAdded(p) ==
  /\ p[1] \in connected /\ p \in Known \ ports
  /\ this' = Without(this, {p})
  /\ next' = <<p>> \o Without(next, {p})
  /\ SetTimer
  /\ Sent({p})
  /\ ports' = ports \cup {p}
  /\ UNCHANGED <<connected, older, hidden>>

PortDeleted_mut(p) ==                            \* looks at the number only
  /\ p[1] \in connected /\ p \in ports
  /\ this' = Without(this, {q \in Known : q[2] = p[2]})
  /\ next' = Without(next, {q \in Known : q[2] = p[2]})
  /\ SetTimer
  /\ ports' = ports \ {p}
  /\ UNCHANGED <<connected, older, hidden, waited>>

PortDeleted(p) ==
  /\ p[1] \in connected /\ p \in ports
  /\ this' = Without(this, {p})
  /\ next' = Without(next, {p})
  /\ SetTimer
  /\ ports' = ports \ {p}
  /\ UNCHANGED <<connected, older, hidden, waited>>

\* PortStatus, modified, of a port that is not configured down: sent at once and put
\* first again, but the timer stays what it is.
PortModified_mut(p) ==                           \* into the running cycle
  /\ p[1] \in connected /\ p \in ports
  /\ this' = <<p>> \o Without(this, {p})
  /\ next' = Without(next, {p})
  /\ Sent({p})
  /\ UNCHANGED <<chunkOf, clock, network, quiet, changes>>

PortModified(p) ==
  /\ p[1] \in connected /\ p \in ports
  /\ this' = Without(this, {p})
  /\ next' = <<p>> \o Without(next, {p})
  /\ Sent({p})
  /\ UNCHANGED <<chunkOf, clock, network, quiet, changes>>

\* One packet: when this cycle is over the next one begins.
SendOne(c) ==
  LET cycle == IF c.this = <<>> THEN c.next ELSE c.this
      rest  == IF c.this = <<>> THEN <<>> ELSE c.next
  IN  [this |-> Tail(cycle), next |-> Append(rest, Head(cycle)),
       sent |-> c.sent \cup {Head(cycle)}]

Sends(c, k) ==
  LET after[i \in 0 .. k] == IF i = 0 THEN c ELSE SendOne(after[i - 1])
  IN  after[k]

TimerHandler ==
  /\ chunkOf > 0 /\ clock = 0
  /\ \E k \in Chunks(chunkOf) :
       LET after == Sends([this |-> this, next |-> next, sent |-> {}], k)
       IN  this' = after.this /\ next' = after.next /\ Sent(after.sent)
  /\ clock' = Interval(chunkOf)
  /\ UNCHANGED <<chunkOf, network, quiet, changes>>

\* Time passes, but not beyond a timer that is due.  LinkTimeout + 1 bounds the
\* two histories.
Later(t) == IF t > LinkTimeout THEN t ELSE t + 1

Elapse ==
  /\ chunkOf > 0 => clock > 0
  /\ clock' = IF chunkOf > 0 THEN clock - 1 ELSE clock
  /\ waited' = [p \in Known |-> IF p \in ports THEN Later(waited[p]) ELSE 0]
  /\ quiet' = Later(quiet)
  /\ UNCHANGED <<lists, chunkOf, network, changes>>

Time == TimerHandler \/ Elapse

Next ==
  \/ \E s \in Switches, P \in SUBSET Known :
       /\ P \subseteq PortsOf(s)
       /\ \E order \in SetToSeqs(P) : ConnectionUp(s, order)
  \/ \E s \in Switches : ConnectionDown(s) \/ OlderDown(s)
  \/ \E p \in Known : PortAdded(p) \/ PortDeleted(p) \/ PortModified(p)
  \/ Time

\* Time passes and the scheduler runs what is due.
Spec == Init /\ [][Next]_vars /\ WF_vars(Time)
-----------------------------------------------------------------------------
\* The ports the sender has to reach: those of a session the nexus can send to.
Probed == {p \in ports : p[1] \in connected \ hidden}

Whole(n) == ~Batch(n) \/ (n * MinInterval) % Cycle = 0

\* A hidden switch's port that is modified joins the lists, though the timer was set
\* without it, and takes the others' turns.
NoStray == \A p \in ToSet(this) \cup ToSet(next) : p[1] \notin hidden

\* Discovery forgets a link it has not seen for LinkTimeout.  As long as no port or
\* switch comes or goes none waits that long for its packet, however often
\* PortModified puts others first; random rounding and strays aside.
WithinTimeout ==
  NoStray /\ Whole(chunkOf) =>
    \A p \in Probed : waited[p] <= LinkTimeout \/ quiet <= LinkTimeout

\* Every port of a connected switch is probed for ever: it is in one of the lists,
\* the lists come round, and the timer runs.
EveryPortProbed == \A p \in Known : []<>(p \in Probed => waited[p] = 0)
=============================================================================
