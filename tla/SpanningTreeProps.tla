-------------------------- MODULE SpanningTreeProps --------------------------
(***************************************************************************)
(* What the spanning tree promises about flooding.                         *)
(***************************************************************************)
EXTENDS SpanningTree

\* Types; and discovery knows a link only while the switch that sent the probe
\* has the session it came up with and the one that reported it has any, however
\* LLDP packets, expiries, failing sends and overlapping sessions interleave,
\* though only the sender is looked up when a probe arrives.
TypeOK ==
  /\ up \subseteq Cables /\ connected \subseteq {d \in Switches : latest[d] = "up"}
  /\ latest \in [Switches -> {"none", "up", "failed"}]
  /\ older \in [Switches -> 0 .. MaxOlder]
  /\ adjacency \subseteq {l \in Switches \X Switches : {l[1], l[2]} \in Cables}
  /\ \A l \in adjacency : latest[l[1]] # "none" /\ Heard(l[2])
  /\ timers \in [Switches -> 0 .. MaxTimers]
  /\ \A d \in Switches :
       /\ prev[d] \in [PortsOf(d) -> {TRUE, FALSE, None}]
       /\ config[d] \in [PortsOf(d) -> BOOLEAN]

\* A packet the controller has d flood (l2_learning does, packet by packet, so
\* a switch without a connection floods nothing) passes to e.
Floods(d, e) == d \in connected /\ {d, e} \in up /\ config[d][e]

Steps == {s \in Switches \X Switches : s[1] # s[2] /\ Floods(s[1], s[2])}

\* "The result is that topologies with loops no longer turn your network into
\* useless hot packet soup": there is no set of floodings that keeps itself
\* going, each following another and none going back the way it came, while
\* switches connect and links are discovered in any order and ports are brought
\* from off to on and back one update at a time.
NoFloodLoop ==
  \A soup \in SUBSET Steps :
    (\A s \in soup : \E r \in soup : r[2] = s[1] /\ r[1] # s[2]) => soup = {}

\* What _prev says of a connected switch's port is what the switch does, though
\* it is kept without asking: port_mods are skipped on its word.
CacheFaithful ==
  \A d \in connected : \A p \in PortsOf(d) : prev[d][p] # None => prev[d][p] = config[d][p]

\* The flooding ports join all switches: none is cut off by ports left closed.
Spans ==
  \A part \in (SUBSET Switches) \ {{}, Switches} :
    \E d \in part, e \in Switches \ part : Floods(d, e) /\ Floods(e, d)

\* A link seen one way only when the hold-downs of both its ends are over: it is
\* closed at both, and the event of the other way will be ignored.
HalfSeen ==
  \E l \in adjacency :
    <<l[2], l[1]>> \notin adjacency /\ ~Young(l[1]) /\ ~Young(l[2])

\* Unless that happens, flooding reaches every switch in the end, in whatever
\* order they connect and are discovered: what the updates skip while a switch
\* is held down, and the link events that are ignored meanwhile, is all made up
\* for by its timer.
EventuallySpans == []~HalfSeen => <>[]Spans
=============================================================================
