------------------------------- MODULE Fabric -------------------------------
(***************************************************************************)
(* The running system: hosts and switches of topology.py, and a controller *)
(* running new_lb.py, with forwarding.l2_learning beside it if L2Learning. *)
(* Every switch has a connection to the controller, a FIFO channel each    *)
(* way; messages to different switches overtake one another.  The links'   *)
(* flooding is limited to FloodPorts, as openflow.spanning_tree leaves it. *)
(***************************************************************************)
EXTENDS LoadBalancer, FiniteSets

CONSTANTS
  Hashes,       \* the functions _hash may be, from clients to servers
  Active,       \* the clients that send
  Answering,    \* the hosts that answer requests
  L2Learning,   \* forwarding.l2_learning is loaded
  FloodPorts,   \* FloodPorts[d]: the ports of d without OFPPC_NO_FLOOD
  Warm,         \* what the learning switches know at first (ARP came before)
  Late,         \* the switches connected only later
  MaxUp,        \* bound on the packet_ins in flight per switch
  MaxDown       \* and on the messages to each: the controller waits

ASSUME FabricAssumption ==
  /\ Hashes \subseteq [Clients -> Servers] /\ Active \subseteq Clients
  /\ Answering \subseteq Hosts
  /\ L2Learning \in BOOLEAN /\ Late \subseteq Switches /\ MaxUp \in Nat \ {0}
  /\ MaxDown \in Nat \ {0}
  /\ FloodPorts \in [Switches -> SUBSET Ports]
  /\ Warm \in [Switches -> [Hosts -> Ports \cup {0}]]

VARIABLES
  hash,        \* LoadBalancer._hash of a client's address and the VIP
  connected,   \* core.openflow.connections
  rules,       \* rules[d]: the flow table of switch d
  macToPort,   \* macToPort[d]: LearningSwitch.macToPort, Unknown where absent
  up,          \* up[d]: packet_ins from d to the controller
  down,        \* down[d]: flow_mods and packet_outs from the controller to d
  wire,        \* the packets that are about to arrive at a switch
  accepted,    \* the packets hosts have accepted
  lost         \* a history: new_lb.py's flow_mods a switch never got, or forgot

vars == <<hash, connected, rules, macToPort, up, down, wire, accepted, lost>>

Unknown == 0
FLOOD   == 65531        \* OFPP_FLOOD

\* A packet at port "port" of switch "at", sent by host "origin"; trail is the
\* set of the places where it has been before.
Item(at, port, p, origin, trail) ==
  [at |-> at, port |-> port, packet |-> p, origin |-> origin, trail |-> trail]

Inject(host, p) == Item(HomeOf(host), PortTo(HomeOf(host), h(host)), p, host, {})
-----------------------------------------------------------------------------
(* Switches.                                                               *)

Covers(r, i) == r.packet = i.packet /\ r.inPort \in {AnyPort, i.port}
SameMatch(r, q) == r.packet = q.packet /\ r.inPort = q.inPort /\ r.exact = q.exact

Hits(i) == {r \in rules[i.at] : Covers(r, i)}
Best(i) == {r \in Hits(i) : \A q \in Hits(i) : q.exact => r.exact}

Rewrite(p, r) ==
  [p EXCEPT !.src = IF r.setSrc = NoHost THEN @ ELSE r.setSrc,
            !.dst = IF r.setDst = NoHost THEN @ ELSE r.setDst]

\* The packet i, now with header p, leaves its switch through the ports of out,
\* never through the one it came in by.
OutPorts(i, out) ==
  ((IF FLOOD \in out THEN FloodPorts[i.at] ELSE out) \cap DOMAIN Peer[i.at]) \ {i.port}

ToSwitches(i, p, out) ==
  {Item(e, PortTo(e, s(i.at)), p, i.origin, i.trail \cup {<<i.at, i.port>>}) :
     e \in {n \in Switches : \E o \in OutPorts(i, out) : Peer[i.at][o] = s(n)}}

\* A host takes what is addressed to it.
ToHosts(i, p, out) ==
  {[host |-> p.dst, packet |-> p, origin |-> i.origin, hops |-> Cardinality(i.trail) + 1] :
     o \in {x \in OutPorts(i, out) : Peer[i.at][x] = h(p.dst)}}

\* Adds to the packets w that stay on the wire.
Emit(w, i, p, out) ==
  /\ wire' = w \cup ToSwitches(i, p, out)
  /\ accepted' = accepted \cup ToHosts(i, p, out)

\* A rule applies.
SwitchForward(i) ==
  /\ \E r \in Best(i) : Emit(wire \ {i}, i, Rewrite(i.packet, r), r.out)
  /\ UNCHANGED <<hash, connected, rules, macToPort, up, down, lost>>

\* None does: the controller is asked, if there is one.
SwitchMiss(i) ==
  /\ Hits(i) = {}
  /\ IF i.at \in connected
     THEN Len(up[i.at]) < MaxUp /\ up' = [up EXCEPT ![i.at] = Append(@, i)]
     ELSE UNCHANGED up
  /\ wire' = wire \ {i}
  /\ UNCHANGED <<hash, connected, rules, macToPort, down, accepted, lost>>

\* A message from the controller: its rule, if any, replaces one with the same
\* match, and the packet it carries or names, if any, leaves by its actions.
SwitchMessage(d) ==
  /\ down[d] # <<>>
  /\ LET m == Head(down[d]) IN
     /\ rules' = [rules EXCEPT ![d] =
                    {q \in @ : \A r \in m.install : ~SameMatch(q, r)} \cup m.install]
     /\ IF m.release = {} THEN UNCHANGED <<wire, accepted>>
        ELSE \E i \in m.release : Emit(wire, i, i.packet, m.out)
  /\ down' = [down EXCEPT ![d] = Tail(@)]
  /\ UNCHANGED <<hash, connected, macToPort, up, lost>>

\* l2_learning's rules have idle and hard timeouts, new_lb.py's have none.
Permanent(r) == r.setSrc # NoHost \/ r.setDst # NoHost

Expire(d, r) ==
  /\ ~Permanent(r)
  /\ rules' = [rules EXCEPT ![d] = @ \ {r}]
  /\ UNCHANGED <<hash, connected, macToPort, up, down, wire, accepted, lost>>
-----------------------------------------------------------------------------
(* The controller.                                                         *)

\* Messages: at most one rule to install, at most one packet to release
FlowMod(rule)       == [install |-> {rule}, release |-> {}, out |-> {}]
FlowModFor(rule, i) == [install |-> {rule}, release |-> {i}, out |-> rule.out]
PacketOut(i, out)   == [install |-> {}, release |-> {i}, out |-> out]

\* What new_lb.py sends on the connection of switch d for the packet_in i; a
\* switch that is not connected is passed over, and nobody is told.
Handled(i) == HandlePacketIn(i.at, i.port, i.packet, hash)

BalancerSends(d, i) ==
  LET mods == {m \in Handled(i) : m.dpid = d}
  IN  IF mods = {} \/ d \notin connected THEN <<>>
      ELSE <<FlowMod((CHOOSE m \in mods : TRUE).rule)>>

Learned(i) == [macToPort[i.at] EXCEPT ![i.packet.src] = i.port]
LearnedPort(i) == Learned(i)[i.packet.dst]

\* from_packet without a port leaves in_port out: the rule is not exact
L2Drop(p) ==
  [inPort |-> AnyPort, packet |-> p, exact |-> FALSE,
   setSrc |-> NoHost, setDst |-> NoHost, out |-> {}]
L2Forward(i, port) ==
  [inPort |-> i.port, packet |-> i.packet, exact |-> TRUE,
   setSrc |-> NoHost, setDst |-> NoHost, out |-> {port}]

\* What the LearningSwitch of i's switch sends
LearningSends(i) ==
  IF LearnedPort(i) = Unknown THEN PacketOut(i, {FLOOD})
  ELSE IF LearnedPort(i) = i.port THEN FlowModFor(L2Drop(i.packet), i)
  ELSE FlowModFor(L2Forward(i, LearnedPort(i)), i)

\* handle_PACKET_IN: the event on the nexus, where new_lb.py listens, then a
\* fresh one on the connection, where the LearningSwitch does.
ControllerPacketIn(d) ==
  /\ up[d] # <<>>
  /\ \A e \in Switches : Len(down[e]) < MaxDown
  /\ LET i == Head(up[d]) IN
     /\ down' = [e \in Switches |->
                   down[e] \o BalancerSends(e, i)
                           \o (IF L2Learning /\ e = d THEN <<LearningSends(i)>> ELSE <<>>)]
     /\ macToPort' = IF L2Learning THEN [macToPort EXCEPT ![d] = Learned(i)]
                     ELSE macToPort
     /\ lost' = (lost \ Handled(i)) \cup {m \in Handled(i) : m.dpid \notin connected}
  /\ up' = [up EXCEPT ![d] = Tail(@)]
  /\ UNCHANGED <<hash, connected, rules, wire, accepted>>

\* ConnectionUp after a handshake that cleared the table (clear_flows_on_connect)
Connect(d) ==
  /\ d \notin connected
  /\ connected' = connected \cup {d}
  /\ rules' = [rules EXCEPT ![d] = {}]
  /\ macToPort' = [macToPort EXCEPT ![d] = [x \in Hosts |-> Unknown]]
  /\ lost' = lost \cup {Mod(d, r) : r \in rules[d]}
  /\ UNCHANGED <<hash, up, down, wire, accepted>>

\* The connection is lost: what was in flight on it is, too; rules stay.
Disconnect(d) ==
  /\ d \in connected /\ d \in Late
  /\ connected' = connected \ {d}
  /\ up' = [up EXCEPT ![d] = <<>>]
  /\ down' = [down EXCEPT ![d] = <<>>]
  /\ lost' = lost \cup UNION {{Mod(d, r) : r \in down[d][k].install} : k \in DOMAIN down[d]}
  /\ UNCHANGED <<hash, rules, macToPort, wire, accepted>>
-----------------------------------------------------------------------------
(* The hosts.                                                              *)

\* a packet of host for the same connection (ports are never rewritten)
IsCopy(i, host, p) ==
  i.origin = host /\ i.packet.sport = p.sport /\ i.packet.dport = p.dport

InFlight(host, p) ==
  \/ \E i \in wire : IsCopy(i, host, p)
  \/ \E d \in Switches :
       \/ \E k \in DOMAIN up[d] : IsCopy(up[d][k], host, p)
       \/ \E k \in DOMAIN down[d] : \E i \in down[d][k].release : IsCopy(i, host, p)

\* A host sends, or sends again, when what it sent before has left the network
\* (the retransmission timer outlasts a traversal).
HostSends(host, p) ==
  /\ ~InFlight(host, p)
  /\ wire' = wire \cup {Inject(host, p)}
  /\ UNCHANGED <<hash, connected, rules, macToPort, up, down, accepted, lost>>

Request(c, port) == [src |-> c, dst |-> VIP, sport |-> port, dport |-> iperf]
Answer(p) == [src |-> p.dst, dst |-> p.src, sport |-> p.dport, dport |-> p.sport]

\* iperf -c 10.0.0.9, from a fresh port each time
Send(c, port) == c \in Active /\ HostSends(c, Request(c, port))

\* the iperf server's answer, or the virtual host's refusal
Reply(a) ==
  /\ a.host \in Answering /\ a.packet.dport = iperf
  /\ HostSends(a.host, Answer(a.packet))
-----------------------------------------------------------------------------
Init ==
  /\ hash \in Hashes
  /\ connected = Switches \ Late
  /\ rules = [d \in Switches |-> {}]
  /\ macToPort = Warm
  /\ up = [d \in Switches |-> <<>>]
  /\ down = [d \in Switches |-> <<>>]
  /\ wire = {} /\ accepted = {} /\ lost = {}

Next ==
  \/ \E c \in Clients, port \in Ephemeral : Send(c, port)
  \/ \E a \in accepted : Reply(a)
  \/ \E i \in wire : SwitchForward(i) \/ SwitchMiss(i)
  \/ \E d \in Switches : SwitchMessage(d) \/ ControllerPacketIn(d)
  \/ \E d \in Switches : Connect(d) \/ Disconnect(d)
  \/ \E d \in Switches : \E r \in rules[d] : Expire(d, r)

Spec == Init /\ [][Next]_vars
=============================================================================
