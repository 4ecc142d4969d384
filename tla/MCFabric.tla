------------------------------ MODULE MCFabric ------------------------------
(***************************************************************************)
(* Small instances of Fabric.                                              *)
(***************************************************************************)
EXTENDS FabricProps

\* Every choice of servers for two active clients, one of each side
BothSides == {[c \in Clients |-> IF c \in {5, 6} THEN x ELSE y] : x, y \in Servers}
OneSide   == {[c \in Clients |-> x] : x \in Servers}

\* The tree of _calc_spanning_tree once all links are known, and the ports to hosts
MCTree == {{1, 2}, {1, 3}, {1, 4}, {2, 5}, {4, 6}}
MCFloodPorts ==
  [d \in Switches |->
     {p \in DOMAIN Peer[d] : Peer[d][p][1] = "host" \/ {d, Peer[d][p][2]} \in MCTree}]

Cold == [d \in Switches |-> [x \in Hosts |-> Unknown]]

TreeDistance(d, e) ==
  LET reach[k \in 0 .. 5] ==
        IF k = 0 THEN {d}
        ELSE reach[k - 1] \cup {y \in Switches : \E x \in reach[k - 1] : {x, y} \in MCTree}
  IN  CHOOSE k \in 0 .. 5 : e \in reach[k] /\ \A j \in 0 .. k - 1 : e \notin reach[j]

\* d's port towards host x on the tree
TreePort(d, x) ==
  IF HomeOf(x) = d THEN PortTo(d, h(x))
  ELSE PortTo(d, s(CHOOSE y \in Switches :
                     {d, y} \in MCTree /\ TreeDistance(y, HomeOf(x)) < TreeDistance(d, HomeOf(x))))

Between(d, x, y) ==
  TreeDistance(HomeOf(x), d) + TreeDistance(d, HomeOf(y)) = TreeDistance(HomeOf(x), HomeOf(y))

\* The active clients have asked for the virtual host's MAC: the requests went
\* everywhere, the answers back along the tree.  The servers have sent nothing.
MCWarm ==
  [d \in Switches |->
     [x \in Hosts |->
        IF x \in Active \/ (x = VIP /\ \E c \in Active : Between(d, VIP, c))
        THEN TreePort(d, x) ELSE Unknown]]
=============================================================================
