---------------------------- MODULE L2MultiProps ----------------------------
(***************************************************************************)
(* What l2_multi knows is what discovery knows.                            *)
(***************************************************************************)
EXTENDS L2Multi, SpanningTreeProps

\* Between two events l2_multi takes for links exactly those that discovery has
\* seen both ways, although removals are announced one direction at a time and
\* while discovery still lists all of them.
LinksFollow == links = {l \in adjacency : Flip(l) \in adjacency}

Further(adj, within) == within \cup {l[2] : l \in {x \in adj : x[1] \in within}}

Reach(adj, d) ==
  LET within[k \in 0 .. Far] == IF k = 0 THEN {d} ELSE Further(adj, within[k - 1]) IN within

\* The switches whose Switch object has a connection: packets come through it
Attached == {d \in Switches : latest[d] # "none"}

\* The paths computed, in whatever order the dictionary lists the switches, are
\* shortest walks along links, there is one wherever one exists, and every
\* switch on it still has its connection, so that install_path never stops half
\* way, although sessions overlap, fail and end in any order.
RightPaths ==
  LET maps == Maps(links) IN
    \A src \in Attached :
      LET reach == Reach(links, src) IN
        \A dst \in known :
          LET paths == Paths(maps, src, dst) IN
            /\ dst \in reach[Far] <=> paths # {}
            /\ \A p \in paths :
                 /\ p \in Seq(Attached) /\ p[1] = src /\ p[Len(p)] = dst
                 /\ \A i \in 1 .. Len(p) - 1 : <<p[i], p[i + 1]>> \in links
                 /\ \A k \in 0 .. Far : dst \in reach[k] => Len(p) - 1 <= k

\* No flow of a switch that can be sent to leads over a link that is no more,
\* however paths were installed between the events, even where the end of an
\* older session has taken the switch out of core.openflow.connections.
FlowsFollow == \A d \in Switches : latest[d] = "up" => \A e \in flows[d] : <<d, e>> \in links
=============================================================================
