----------------------------- MODULE FabricProps -----------------------------
(***************************************************************************)
(* What the load balancer promises, over the whole network.                *)
(***************************************************************************)
EXTENDS Fabric

\* A request that reaches a server reaches the one its client hashes to,
\* whatever the order in which the flow_mods, the expiries, the floods and the
\* retransmissions happened on the switches: one client is never split.
RightServer ==
  \A a \in accepted :
    a.host \in Servers /\ a.packet.dport = iperf => a.host = hash[a.packet.src]

\* new_lb.py's rules take the predefined paths, and these are shortest in the
\* topology: the port numbers it hard-codes are the ones topology.py makes.
ShortestPath ==
  \A a \in accepted :
    a.host \in Servers => a.hops = 1 + Distance(HomeOf(a.origin), HomeOf(a.host))

\* What a client takes for an answer of the virtual address comes from its own
\* server or from the virtual host itself, never from another server.
AnswersFromOwnServer ==
  \A a \in accepted :
    a.host \in Clients /\ a.packet.src = VIP => a.origin \in {hash[a.host], VIP}

\* Installed at d, or on its way there
InstalledOrSent(d, rule) ==
  \/ rule \in rules[d]
  \/ \E k \in DOMAIN down[d] : rule \in down[d][k].install

\* The flow of hop x behind the redirect r of a client's switch
HopRule(x, r) == Redirect(x.in, [r.packet EXCEPT !.dst = r.setDst], r.setDst, x.out)

Redirects(c) == {r \in rules[Ingress(c)] : r.packet.src = c /\ r.setDst \in Servers}

\* README: "On the switches located on the path leading to this server (paths
\* are predefined) flows are installed."  Once the client's switch redirects,
\* the whole path has been ordered, and a hop that is not there is one that a
\* switch without connection was passed over for, or lost with its connection:
\* no other step, rule, answer, expiry or retransmission takes one away.
PathInstalled ==
  \A c \in Active : \A r \in Redirects(c) :
    \A x \in Path(c, r.setDst) :
      InstalledOrSent(x.dpid, HopRule(x, r)) \/ Mod(x.dpid, HopRule(x, r)) \in lost

\* TCP retransmits, links and switches forward, a lost switch reconnects, POX
\* reads its sockets in turn.
Fairness ==
  /\ \A c \in Active, port \in Ephemeral : WF_vars(Send(c, port))
  /\ \A n \in Active \cup Answering :
       WF_vars(\E i \in wire : i.origin = n /\ (SwitchForward(i) \/ SwitchMiss(i)))
  /\ \A d \in Switches :
       WF_vars(SwitchMessage(d)) /\ WF_vars(ControllerPacketIn(d))
  /\ \A d \in Late : WF_vars(Connect(d))

FairSpec == Spec /\ Fairness

\* The packets of c go on to a switch that has no flow for them: it is not a
\* client's switch, so new_lb.py ignores the miss and never orders the hop again.
Stranded(c) ==
  \E r \in Redirects(c) :
    \E x \in Path(c, r.setDst) : ~InstalledOrSent(x.dpid, HopRule(x, r))

\* If connections are lost only finitely often, the requests of a client that
\* keeps trying reach its server, though new_lb.py never releases the packet
\* that made it install the path; unless a switch of the path was passed over
\* while the client's own was not, and then they are lost for ever.
ReachesServerOnceStable ==
  <>[](connected = Switches) =>
    \A c \in Active :
      \/ <>(\E a \in accepted : a.packet.src = c /\ a.host = hash[c])
      \/ <>[]Stranded(c)
=============================================================================
