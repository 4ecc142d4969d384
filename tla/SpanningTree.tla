---------------------------- MODULE SpanningTree ----------------------------
(***************************************************************************)
(* pox/openflow/discovery.py and spanning_tree.py: link discovery by LLDP, *)
(* the events it raises, and the spanning tree recomputed from them, which *)
(* turns flooding on and off port by port.  Port numbers are abstracted: a *)
(* port is named by what it is cabled to, a switch or a host.              *)
(***************************************************************************)
EXTENDS Integers, FiniteSets, Sequences, SequencesExt

CONSTANTS
  Switches,   \* dpids
  Cables,     \* the sets {d, e} of neighbouring switches, one cable each
  HostPorts,  \* HostPorts[d]: the names of d's ports to hosts
  Fragile,    \* the cables that may fail
  NoFlood,    \* --no-flood
  HoldDown,   \* --hold-down
  MaxTimers,  \* bound on the hold-down timers pending per switch
  Leaving,    \* the switches whose sessions end
  Flaky,      \* the switches whose sessions may overlap, or fail in a send
  MaxOlder,   \* bound on the sessions of one that are older than its latest
  None        \* nothing known of a port

ASSUME SpanningTreeAssumption ==
  /\ Switches \subseteq Nat /\ IsFiniteSet(Switches)
  /\ Cables \subseteq {{d, e} : d, e \in Switches} /\ \A c \in Cables : Cardinality(c) = 2
  /\ \A d \in Switches : HostPorts[d] \cap Switches = {}
  /\ Fragile \subseteq Cables /\ MaxTimers \in Nat /\ None \notin BOOLEAN
  /\ Flaky \subseteq Leaving /\ Leaving \subseteq Switches /\ MaxOlder \in Nat
  /\ {NoFlood, HoldDown} \subseteq BOOLEAN

VARIABLES
  up,          \* the cables that carry packets
  connected,   \* core.openflow.connections
  latest,      \* latest[d]: d's latest session, "up", "failed" in a send, or "none"
  older,       \* older[d]: how many before it are not closed yet
  timers,      \* timers[d]: the hold-down timers of d that are pending
  adjacency,   \* Discovery.adjacency: pairs <<d, e>>, an LLDP of d seen at e
  prev,        \* _prev: the flooding last ordered, None where not known
  config       \* whether a switch floods through a port (no OFPPC_NO_FLOOD)

vars == <<up, connected, latest, older, timers, adjacency, prev, config>>
sessions == <<latest, older>>

\* A switch with any session that is not closed yet: what it sends is read.
Heard(d) == latest[d] # "none" \/ older[d] > 0

PortsOf(d) == {e \in Switches : {d, e} \in Cables} \cup HostPorts[d]

\* connect_time > enable_time: every connection starts a timer of the length
\* of a discovery cycle, so the last one pending is the present connection's.
Young(d) == timers[d] > 0
-----------------------------------------------------------------------------
(* _calc_spanning_tree                                                     *)

\* after the culling: links seen in both directions
Good(adj, d) == {e \in Switches : <<d, e>> \in adj /\ <<e, d>> \in adj}
Known(adj) == UNION {{l[1], l[2]} : l \in adj}

Sorted(S) == [i \in 1 .. Cardinality(S) |-> CHOOSE x \in S : Cardinality({y \in S : y < x}) = i - 1]

\* One round of the loop over q: the switches just reached come first, in order.
Round(adj, c) ==
  IF c.q = <<>> THEN c
  ELSE IF Head(c.q) \in c.done THEN [c EXCEPT !.q = Tail(@)]
  ELSE LET v    == Head(c.q)
           more == {w \in Good(adj, v) : w \notin UNION c.tree}
       IN  [q |-> Sorted(more) \o Tail(c.q), done |-> c.done \cup {v},
            tree |-> c.tree \cup {{v, w} : w \in more}]

\* A switch is in q at first and when it is reached: so many rounds empty it.
\* after[n] has the one state the loop is in after n rounds.
CalcSpanningTree(adj) ==
  LET rounds == 2 * Cardinality(Switches)
      after[n \in 0 .. rounds] ==
        IF n = 0 THEN {[q |-> Sorted(Known(adj)), done |-> {}, tree |-> {}]}
        ELSE {Round(adj, c) : c \in after[n - 1]}
  IN  UNION {c.tree : c \in after[rounds]}

IsEdgePort(adj, d, p) == <<d, p>> \notin adj /\ <<p, d>> \notin adj
-----------------------------------------------------------------------------
(* _update_tree                                                            *)

\* The switches whose ports it looks at; force is a set of at most one dpid.
Updated_mut(adj, cons, force) == (UNION CalcSpanningTree(adj)) \cap cons   \* no hold-down
Updated(adj, cons, force) ==
  {d \in (UNION CalcSpanningTree(adj)) \cap cons : HoldDown => ~Young(d) \/ d \in force}

\* Where _prev already says so no port_mod is sent.
UpdateTree(adj, cons, force) ==
  LET updated == Updated(adj, cons, force)
      tree    == CalcSpanningTree(adj)
      flood(d, p) == {d, p} \in tree \/ IsEdgePort(adj, d, p)
  IN  /\ prev' = [d \in Switches |-> IF d \notin updated THEN prev[d]
                   ELSE [p \in PortsOf(d) |-> flood(d, p)]]
      /\ config' = [d \in Switches |-> IF d \notin updated THEN config[d]
                   ELSE [p \in PortsOf(d) |->
                     IF prev[d][p] # flood(d, p) THEN flood(d, p) ELSE config[d][p]]]

\* _handle_LinkEvent: a link disabled at both ends changes nothing
Ignored(l) == prev[l[1]][l[2]] = FALSE /\ prev[l[2]][l[1]] = FALSE

\* One event for each of links, all while adjacency is adj; a second update
\* from the same adjacency would repeat the first.
HandleLinkEvents(links, adj, cons) ==
  IF \A l \in links : Ignored(l) THEN UNCHANGED <<prev, config>>
  ELSE UpdateTree(adj, cons, {})

\* _delete_links: the events are raised first, then the links are popped.
DeleteLinks(links, cons) ==
  /\ HandleLinkEvents(links, adjacency, cons)
  /\ adjacency' = adjacency \ links
-----------------------------------------------------------------------------
Forget_mut(d) == IF NoFlood THEN [prev EXCEPT ![d] = [p \in PortsOf(d) |-> FALSE]]
                 ELSE prev                     \* old port states remembered
Forget(d) == [prev EXCEPT ![d] = [p \in PortsOf(d) |-> IF NoFlood THEN FALSE ELSE None]]

\* A switch comes with the configuration it had, or floods everywhere after a
\* restart; --no-flood then turns all its ports off.  Its session before this
\* one may still be there, which nobody asks.
ConnectionUp(d) ==
  /\ timers[d] < MaxTimers
  /\ latest[d] # "none" => d \in Flaky /\ older[d] < MaxOlder
  /\ connected' = connected \cup {d}
  /\ latest' = [latest EXCEPT ![d] = "up"]
  /\ older' = [older EXCEPT ![d] = IF latest[d] = "none" THEN @ ELSE @ + 1]
  /\ prev' = Forget(d)
  /\ \E ports \in {config[d], [p \in PortsOf(d) |-> TRUE]} :
       config' = [config EXCEPT ![d] = IF NoFlood THEN [p \in PortsOf(d) |-> FALSE] ELSE ports]
  /\ timers' = IF HoldDown THEN [timers EXCEPT ![d] = @ + 1] ELSE timers
  /\ UNCHANGED <<up, adjacency>>

\* A session of d is closed, its latest or one before.  Connection.disconnect
\* unregisters the dpid in either case, and then raises the event, at which
\* discovery deletes its links.
ConnectionDown(d) ==
  /\ d \in Leaving
  /\ \/ latest[d] # "none" /\ latest' = [latest EXCEPT ![d] = "none"] /\ UNCHANGED older
     \/ older[d] > 0 /\ older' = [older EXCEPT ![d] = @ - 1] /\ UNCHANGED latest
  /\ connected' = connected \ {d}
  /\ DeleteLinks({l \in adjacency : d \in {l[1], l[2]}}, connected')
  /\ UNCHANGED <<up, timers>>

\* A send on a session of d fails: it is unregistered, its event comes later.
SendFails(d) ==
  /\ d \in Flaky
  /\ \/ latest[d] = "up" /\ latest' = [latest EXCEPT ![d] = "failed"]
     \/ older[d] > 0 /\ UNCHANGED latest
  /\ connected' = connected \ {d}
  /\ UNCHANGED <<up, older, timers, adjacency, prev, config>>

\* An LLDP packet sent through d's port to e arrives; a known link is only
\* stamped anew.
LLDPArrives_mut(d, e) ==       \* from a switch that is not connected, too
  /\ {d, e} \in up /\ Heard(e)
  /\ <<d, e>> \notin adjacency
  /\ adjacency' = adjacency \cup {<<d, e>>}
  /\ HandleLinkEvents({<<d, e>>}, adjacency', connected)
  /\ UNCHANGED <<up, connected, sessions, timers>>
LLDPArrives(d, e) ==
  /\ {d, e} \in up /\ d \in connected /\ Heard(e)
  /\ <<d, e>> \notin adjacency
  /\ adjacency' = adjacency \cup {<<d, e>>}
  /\ HandleLinkEvents({<<d, e>>}, adjacency', connected)
  /\ UNCHANGED <<up, connected, sessions, timers>>

\* _expire_links; LLDP packets are not lost, so only dead links are stale.
ExpireLinks(links) ==
  /\ links # {} /\ \A l \in links : {l[1], l[2]} \notin up
  /\ DeleteLinks(links, connected)
  /\ UNCHANGED <<up, connected, sessions, timers>>

\* The hold-down timer of d, or with d away or connected anew that of an
\* earlier connection.
HoldDownOver_mut(d) ==        \* force_dpid not passed
  /\ Young(d)
  /\ timers' = [timers EXCEPT ![d] = @ - 1]
  /\ UpdateTree(adjacency, connected, {})
  /\ UNCHANGED <<up, connected, sessions, adjacency>>
HoldDownOver(d) ==
  /\ Young(d)
  /\ timers' = [timers EXCEPT ![d] = @ - 1]
  /\ UpdateTree(adjacency, connected, {d})
  /\ UNCHANGED <<up, connected, sessions, adjacency>>

CableFails(c) ==
  /\ c \in Fragile \cap up
  /\ up' = up \ {c}
  /\ UNCHANGED <<connected, sessions, timers, adjacency, prev, config>>

CableReturns(c) ==
  /\ c \in Fragile \ up
  /\ up' = up \cup {c}
  /\ UNCHANGED <<connected, sessions, timers, adjacency, prev, config>>
-----------------------------------------------------------------------------
Init ==
  /\ up = Cables /\ connected = {} /\ adjacency = {}
  /\ latest = [d \in Switches |-> "none"] /\ older = [d \in Switches |-> 0]
  /\ timers = [d \in Switches |-> 0]
  /\ prev = [d \in Switches |-> [p \in PortsOf(d) |-> None]]
  /\ config = [d \in Switches |-> [p \in PortsOf(d) |-> TRUE]]

Next ==
  \/ \E d \in Switches : ConnectionUp(d) \/ ConnectionDown(d) \/ SendFails(d)
  \/ \E d \in Switches : HoldDownOver(d)
  \/ \E d, e \in Switches : LLDPArrives(d, e)
  \/ \E links \in SUBSET adjacency : ExpireLinks(links)
  \/ \E c \in Cables : CableFails(c) \/ CableReturns(c)

Spec == Init /\ [][Next]_vars
-----------------------------------------------------------------------------
(* A start in which nothing is lost: every switch connects once, and when  *)
(* its hold-down ends, a discovery cycle and a second later, each of its   *)
(* links to a switch that is as old has been seen, one way at least:       *)
(* add_port sends a probe at once through every port, and the one of the   *)
(* two that connected later was heard.  The other way may come later: the  *)
(* first of its probes was lost for want of a session, and the timer that  *)
(* sends the next is set anew with every port or switch that comes.        *)

Probed(d) ==
  \A e \in connected : {d, e} \in up /\ ~Young(e) => <<d, e>> \in adjacency \/ <<e, d>> \in adjacency

FirstConnection(d) == d \notin connected /\ ConnectionUp(d)
HoldDownInTime(d)  == Probed(d) /\ HoldDownOver(d)

Startup ==
  \/ \E d \in Switches : FirstConnection(d) \/ HoldDownInTime(d)
  \/ \E d, e \in Switches : LLDPArrives(d, e)

\* The switches connect, LLDP packets arrive, timers fire.
StartupSpec ==
  /\ Init /\ [][Startup]_vars
  /\ \A d \in Switches : WF_vars(FirstConnection(d)) /\ WF_vars(HoldDownInTime(d))
  /\ \A d, e \in Switches : WF_vars(LLDPArrives(d, e))
=============================================================================
