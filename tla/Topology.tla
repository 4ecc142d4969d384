------------------------------ MODULE Topology ------------------------------
(***************************************************************************)
(* The network of topology.py: nine hosts, six switches and the links in   *)
(* the order addLink is called.  Mininet numbers a node's ports in that    *)
(* order, from 1 on a switch; new_lb.py hard-codes the numbers.            *)
(***************************************************************************)
EXTENDS Integers, Sequences, FiniteSets

\* Hosts are numbered as their addresses are: host n is 10.0.0.n with MAC n.
Hosts    == 1 .. 9
Switches == 1 .. 6
Servers  == 1 .. 4
Clients  == 5 .. 8
VIP      == 9          \* the virtual host

h(n) == <<"host", n>>
s(n) == <<"switch", n>>

Links ==
  << <<h(1), s(1)>>, <<h(2), s(1)>>, <<h(3), s(3)>>, <<h(4), s(3)>>,
     <<h(5), s(5)>>, <<h(6), s(5)>>, <<h(7), s(6)>>, <<h(8), s(6)>>,
     <<s(1), s(2)>>, <<s(1), s(3)>>, <<s(2), s(4)>>, <<s(3), s(4)>>,
     <<s(2), s(5)>>, <<s(4), s(6)>>, <<s(1), s(4)>>, <<s(2), s(3)>>,
     <<s(2), h(9)>> >>

OtherEnd(l, n) == IF l[1] = n THEN l[2] ELSE l[1]

\* The links of a node, by their place in Links, and the number each takes at it
Attached(n) == {i \in DOMAIN Links : n \in {Links[i][1], Links[i][2]}}
Number(n, i) == Cardinality({j \in Attached(n) : j <= i})

\* Peer[d][p]: what port p of switch d is connected to
Peer == [d \in Switches |->
           [p \in 1 .. Cardinality(Attached(s(d))) |->
              OtherEnd(Links[CHOOSE i \in Attached(s(d)) : Number(s(d), i) = p], s(d))]]

Ports == UNION {DOMAIN Peer[d] : d \in Switches}

PortTo(d, n) == CHOOSE p \in DOMAIN Peer[d] : Peer[d][p] = n

Neighbours(d) ==
  {e \in Switches : \E i \in DOMAIN Links : Links[i] \in {<<s(d), s(e)>>, <<s(e), s(d)>>}}
HomeOf(n) ==
  CHOOSE d \in Switches :
    \E i \in DOMAIN Links : Links[i] \in {<<h(n), s(d)>>, <<s(d), h(n)>>}

\* w leads from d to e over k links
Leads(w, k, d, e) == w[0] = d /\ w[k] = e /\ \A j \in 1 .. k : w[j] \in Neighbours(w[j - 1])

\* The number of links between two switches, at least
Distance(d, e) ==
  CHOOSE k \in 0 .. 5 :
    /\ \E w \in [0 .. k -> Switches] : Leads(w, k, d, e)
    /\ \A j \in 0 .. k - 1 : \A w \in [0 .. j -> Switches] : ~Leads(w, j, d, e)
=============================================================================
