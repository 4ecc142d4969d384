---------------------------- MODULE FabricProofs ----------------------------
(***************************************************************************)
(* RightServer and AnswersFromOwnServer for every _hash, every set of      *)
(* active and answering hosts, every spanning tree, and all bounds;        *)
(* PathInstalled whichever switches come and go; and ShortestPath when     *)
(* l2_learning is not loaded.                                              *)
(***************************************************************************)
EXTENDS FabricProps, SequenceTheorems, FiniteSetTheorems, TLAPS

\* The port numbers there can be, without evaluating the topology: only the last
\* theorem depends on where the cables are.
PortVal == Ports \cup 0 .. 5 \cup {FLOOD}
           \cup {PortTo(e, s(d)) : e, d \in Switches} \cup {PortTo(HomeOf(x), h(x)) : x \in Hosts}

AnyItem == [at : Switches, port : PortVal, packet : Packet, origin : Hosts,
            trail : SUBSET (Switches \X PortVal)]
AnyRule == [inPort : PortVal, packet : Packet, exact : BOOLEAN,
            setSrc : Hosts \cup {NoHost}, setDst : Hosts \cup {NoHost}, out : SUBSET PortVal]
AnyMessage == [install : SUBSET AnyRule, release : SUBSET AnyItem, out : SUBSET PortVal]

Shape ==
  /\ hash \in [Clients -> Servers]
  /\ rules \in [Switches -> SUBSET AnyRule]
  /\ macToPort \in [Switches -> [Hosts -> PortVal]]
  /\ up \in [Switches -> Seq(AnyItem)]
  /\ down \in [Switches -> Seq(AnyMessage)]
  /\ wire \subseteq AnyItem
  /\ \A a \in accepted : a.packet \in Packet /\ a.host \in Hosts

\* A packet towards an iperf server comes from a client, and is on its way to
\* the virtual host or to the client's own server; any other is for a client.
Good(p) ==
  IF p.dport = iperf
  THEN p.src \in Clients /\ p.sport # iperf /\ p.dst \in {VIP, hash[p.src]}
  ELSE p.dst \in Clients

\* Packet p sent by host n: what is for a client was sent by the virtual host or
\* by the client's own server.
GoodFrom(p, n) == Good(p) /\ (p.dport # iperf => n \in {VIP, hash[p.dst]})

\* A rule for packets towards a server rewrites to the client's own server or
\* not at all; one for others never to another client.
GoodRule(r) ==
  IF r.packet.dport = iperf
  THEN r.setSrc = NoHost /\ r.setDst \in {NoHost, hash[r.packet.src]}
  ELSE r.setDst = NoHost

GoodMessage(m) ==
  (\A r \in m.install : GoodRule(r)) /\ (\A i \in m.release : GoodFrom(i.packet, i.origin))

Consistent ==
  /\ \A d \in Switches : \A r \in rules[d] : GoodRule(r)
  /\ \A d \in Switches : \A k \in DOMAIN up[d] : GoodFrom(up[d][k].packet, up[d][k].origin)
  /\ \A d \in Switches : \A k \in DOMAIN down[d] : GoodMessage(down[d][k])
  /\ \A i \in wire : GoodFrom(i.packet, i.origin)
  /\ \A a \in accepted : GoodFrom(a.packet, a.origin) /\ a.host = a.packet.dst

IInv == Shape /\ Consistent
-----------------------------------------------------------------------------
\* iperf is not an ephemeral port, and hosts are numbers.
LEMMA Numbers ==
  /\ Ephemeral \subseteq Nat /\ iperf \notin Ephemeral /\ iperf \in Nat
  /\ Clients \subseteq Hosts /\ Servers \subseteq Hosts /\ VIP \in Hosts
  /\ VIP \notin Servers /\ VIP \notin Clients /\ Clients \cap Servers = {}
  /\ NoHost \notin Hosts
BY EphemeralAssumption DEF iperf, Clients, Servers, Hosts, VIP, NoHost

\* Every host is attached to a switch.
LEMMA HasHome ==
  ASSUME NEW n \in Hosts
  PROVE  /\ HomeOf(n) \in Switches
         /\ \E i \in DOMAIN Links : Links[i] \in {<<h(n), s(HomeOf(n))>>, <<s(HomeOf(n)), h(n)>>}
<1> DEFINE At(d) == \E i \in DOMAIN Links : Links[i] \in {<<h(n), s(d)>>, <<s(d), h(n)>>}
<1>1. \E d \in Switches : At(d)
  <2>1. n \in {1, 2} \/ n \in {3, 4} \/ n \in {5, 6} \/ n \in {7, 8} \/ n = 9
    BY DEF Hosts
  <2>2. /\ Links[1] = <<h(1), s(1)>> /\ Links[2] = <<h(2), s(1)>> /\ Links[3] = <<h(3), s(3)>>
        /\ Links[4] = <<h(4), s(3)>> /\ Links[5] = <<h(5), s(5)>> /\ Links[6] = <<h(6), s(5)>>
        /\ Links[7] = <<h(7), s(6)>> /\ Links[8] = <<h(8), s(6)>> /\ Links[17] = <<s(2), h(9)>>
        /\ DOMAIN Links = 1 .. 17
    BY DEF Links
  <2> QED BY <2>1, <2>2 DEF Switches
<1> HIDE DEF At
<1>2. HomeOf(n) = CHOOSE d \in Switches : At(d)
  BY DEF HomeOf, At
<1> QED BY <1>1, <1>2 DEF At

\* What a switch makes of a packet under a rule for it stays good.
LEMMA RewriteGood ==
  ASSUME NEW p \in Packet, NEW n, NEW r \in AnyRule, GoodFrom(p, n), GoodRule(r), r.packet = p
  PROVE  Rewrite(p, r) \in Packet /\ GoodFrom(Rewrite(p, r), n)
<1> DEFINE q == Rewrite(p, r)
<1>1. /\ q \in Packet /\ q.sport = p.sport /\ q.dport = p.dport
      /\ q.src = IF r.setSrc = NoHost THEN p.src ELSE r.setSrc
      /\ q.dst = IF r.setDst = NoHost THEN p.dst ELSE r.setDst
  BY DEF Rewrite, Packet, AnyRule
<1> HIDE DEF q
<1>2. GoodFrom(q, n)
  BY <1>1 DEF Good, GoodFrom, GoodRule
<1> QED
  BY <1>1, <1>2 DEF q

\* Packets that leave a switch, to other switches and to hosts.
LEMMA Emitted ==
  ASSUME NEW i \in AnyItem, NEW p \in Packet, NEW out, GoodFrom(p, i.origin)
  PROVE  /\ \A j \in ToSwitches(i, p, out) : j \in AnyItem /\ GoodFrom(j.packet, j.origin)
         /\ \A a \in ToHosts(i, p, out) : /\ a.packet \in Packet /\ GoodFrom(a.packet, a.origin)
                                          /\ a.host = a.packet.dst /\ a.host \in Hosts
<1>1. ASSUME NEW e \in Switches
      PROVE  LET j == Item(e, PortTo(e, s(i.at)), p, i.origin, i.trail \cup {<<i.at, i.port>>})
             IN  j \in AnyItem /\ j.packet = p /\ j.origin = i.origin
  <2>1. i.at \in Switches /\ i.port \in PortVal
    BY DEF AnyItem
  <2>2. PortTo(e, s(i.at)) \in PortVal
    BY <2>1 DEF PortVal
  <2>3. i.trail \cup {<<i.at, i.port>>} \in SUBSET (Switches \X PortVal)
    BY <2>1 DEF AnyItem
  <2> QED
    BY <2>1, <2>2, <2>3 DEF Item, AnyItem
<1>2. \A j \in ToSwitches(i, p, out) : j \in AnyItem /\ GoodFrom(j.packet, j.origin)
  BY <1>1 DEF ToSwitches
<1>3. \A a \in ToHosts(i, p, out) : a.packet = p /\ a.host = p.dst /\ a.origin = i.origin
  BY DEF ToHosts
<1> QED
  BY <1>2, <1>3 DEF Packet
-----------------------------------------------------------------------------
\* new_lb.py's handler: its rules are well formed and rewrite to hash[src] only.
LEMMA PathHops ==
  ASSUME NEW c, NEW server \in Servers, NEW x \in Path(c, server)
  PROVE  x.in \in 0 .. 5 /\ x.out \in 0 .. 5
<1>1. server = 1 \/ server = 2 \/ server = 3 \/ server = 4
  BY DEF Servers
<1> QED
  BY <1>1 DEF Path, FromS5, FromS6, Hop

LEMMA ToVipGood ==
  ASSUME hash \in [Clients -> Servers], NEW p \in Packet, Good(p), p.dst = VIP, NEW inPort \in PortVal,
         NEW m \in HandleToVip(p, inPort, hash[p.src])
  PROVE  m.rule \in AnyRule /\ GoodRule(m.rule)
<1>1. p.src \in Clients /\ p.dport = iperf
  BY Numbers DEF HandleToVip, Good
<1> DEFINE server == hash[p.src]
<1>2. server \in Servers /\ server \in Hosts
  BY <1>1, Numbers
<1>3. \A n \in 0 .. 5 : n \in PortVal
  BY DEF PortVal
<1>4. ASSUME NEW q \in Packet, q.src = p.src, q.dport = iperf, NEW in \in PortVal, NEW out \in 0 .. 5
      PROVE  Redirect(in, q, server, out) \in AnyRule /\ GoodRule(Redirect(in, q, server, out))
  BY <1>2, <1>3, <1>4 DEF Redirect, AnyRule, GoodRule
<1>5. [p EXCEPT !.dst = server] \in Packet /\ [p EXCEPT !.dst = server].src = p.src
      /\ [p EXCEPT !.dst = server].dport = iperf
  BY <1>1, <1>2 DEF Packet
<1>6. CASE m = Mod(Ingress(p.src), Redirect(inPort, p, server, 3))
  BY <1>1, <1>4, <1>6 DEF Mod
<1>7. CASE \E x \in Path(p.src, server) :
             m = Mod(x.dpid, Redirect(x.in, [p EXCEPT !.dst = server], server, x.out))
  <2>1. PICK x \in Path(p.src, server) :
               m = Mod(x.dpid, Redirect(x.in, [p EXCEPT !.dst = server], server, x.out))
    BY <1>7
  <2>2. x.in \in PortVal /\ x.out \in 0 .. 5
    BY <1>2, <1>3, PathHops
  <2> QED
    BY <1>4, <1>5, <2>1, <2>2 DEF Mod
<1> QED
  BY <1>1, <1>6, <1>7 DEF HandleToVip

LEMMA FromServerGood ==
  ASSUME NEW p \in Packet, Good(p), p.src \in Servers, NEW inPort \in PortVal, NEW d,
         NEW m \in HandleFromServer(p, inPort, d)
  PROVE  m.rule \in AnyRule /\ GoodRule(m.rule)
<1>1. p.dport # iperf
  BY Numbers DEF Good
<1>2. PICK out \in {{1}, {2}, {}} : m = Mod(d, Restore(inPort, p, out))
  BY DEF HandleFromServer
<1>3. out \subseteq PortVal
  BY DEF PortVal
<1> QED
  BY <1>1, <1>2, <1>3, Numbers DEF Mod, Restore, AnyRule, GoodRule

LEMMA BalancerGood ==
  ASSUME hash \in [Clients -> Servers], NEW i \in AnyItem, GoodFrom(i.packet, i.origin), NEW d
  PROVE  BalancerSends(d, i) \in Seq(AnyMessage)
         /\ \A k \in DOMAIN BalancerSends(d, i) : GoodMessage(BalancerSends(d, i)[k])
<1> DEFINE sent == HandlePacketIn(i.at, i.port, i.packet, hash)
           mods == {m \in sent : m.dpid = d}
<1>1. i.packet \in Packet /\ i.port \in PortVal /\ Good(i.packet)
  BY DEF AnyItem, GoodFrom
<1>2. ASSUME NEW m \in sent PROVE m.rule \in AnyRule /\ GoodRule(m.rule)
  <2>1. CASE i.packet.dst = VIP /\ m \in HandleToVip(i.packet, i.port, hash[i.packet.src])
    BY <1>1, <2>1, ToVipGood
  <2>2. CASE i.packet.src \in Servers /\ m \in HandleFromServer(i.packet, i.port, i.at)
    BY <1>1, <2>2, FromServerGood
  <2> QED
    BY <2>1, <2>2 DEF HandlePacketIn
<1>3. CASE BalancerSends(d, i) = <<>>
  BY <1>3
<1>4. CASE mods # {} /\ BalancerSends(d, i) = <<FlowMod((CHOOSE m \in mods : TRUE).rule)>>
  <2>1. PICK r \in AnyRule : GoodRule(r) /\ BalancerSends(d, i) = <<FlowMod(r)>>
    BY <1>2, <1>4
  <2>2. FlowMod(r) \in AnyMessage /\ GoodMessage(FlowMod(r))
    BY <2>1 DEF FlowMod, AnyMessage, GoodMessage
  <2> QED
    BY <2>1, <2>2
<1> QED
  BY <1>3, <1>4 DEF BalancerSends, Handled

\* l2_learning's rules do not rewrite.
LEMMA LearningGood ==
  ASSUME Shape, NEW i \in AnyItem, GoodFrom(i.packet, i.origin)
  PROVE  /\ LearningSends(i) \in AnyMessage /\ GoodMessage(LearningSends(i))
         /\ Learned(i) \in [Hosts -> PortVal]
<1>1. i.packet \in Packet /\ i.port \in PortVal /\ i.packet.dst \in Hosts
  BY DEF AnyItem, Packet
<1>2. Learned(i) \in [Hosts -> PortVal]
  BY <1>1 DEF Learned, Shape, AnyItem
<1>3. LearnedPort(i) \in PortVal /\ FLOOD \in PortVal /\ AnyPort \in PortVal
  BY <1>1, <1>2 DEF LearnedPort, PortVal, AnyPort
<1>4. ASSUME NEW out \in SUBSET PortVal, NEW inPort \in PortVal, NEW exact \in BOOLEAN,
             NEW r, r = [inPort |-> inPort, packet |-> i.packet, exact |-> exact,
                         setSrc |-> NoHost, setDst |-> NoHost, out |-> out]
      PROVE  FlowModFor(r, i) \in AnyMessage /\ GoodMessage(FlowModFor(r, i))
  <2>1. r \in AnyRule /\ GoodRule(r) /\ r.out \in SUBSET PortVal
    BY <1>1, <1>4 DEF AnyRule, GoodRule
  <2> QED
    BY <2>1 DEF FlowModFor, AnyMessage, GoodMessage
<1>5. LearningSends(i) \in AnyMessage /\ GoodMessage(LearningSends(i))
  <2>1. CASE LearningSends(i) = PacketOut(i, {FLOOD})
    BY <1>3, <2>1 DEF PacketOut, AnyMessage, GoodMessage
  <2>2. CASE LearningSends(i) = FlowModFor(L2Drop(i.packet), i)
    BY <1>3, <1>4, <2>2 DEF L2Drop
  <2>3. CASE LearningSends(i) = FlowModFor(L2Forward(i, LearnedPort(i)), i)
    <3>1. {LearnedPort(i)} \in SUBSET PortVal
      BY <1>3
    <3> QED
      BY <1>1, <1>4, <2>3, <3>1 DEF L2Forward
  <2> QED
    BY <2>1, <2>2, <2>3 DEF LearningSends
<1> QED
  BY <1>2, <1>5
-----------------------------------------------------------------------------
\* The hosts: a request is for the virtual host, an answer for no iperf server.
LEMMA RequestGood ==
  ASSUME NEW c \in Clients, NEW port \in Ephemeral
  PROVE  Request(c, port) \in Packet /\ GoodFrom(Request(c, port), c)
BY Numbers DEF Request, Packet, Good, GoodFrom

LEMMA AnswerGood ==
  ASSUME NEW p \in Packet, Good(p), p.dport = iperf
  PROVE  Answer(p) \in Packet /\ GoodFrom(Answer(p), p.dst)
BY DEF Answer, Packet, Good, GoodFrom

LEMMA InjectGood ==
  ASSUME NEW n \in Hosts, NEW p \in Packet
  PROVE  Inject(n, p) \in AnyItem /\ Inject(n, p).packet = p /\ Inject(n, p).origin = n
<1>1. HomeOf(n) \in Switches /\ PortTo(HomeOf(n), h(n)) \in PortVal
  BY HasHome DEF PortVal
<1> QED
  BY <1>1 DEF Inject, Item, AnyItem
-----------------------------------------------------------------------------
\* The goodness of what is new can be judged in the old state: _hash does not
\* change.
LEMMA Preserved ==
  ASSUME IInv, hash' = hash, Shape',
         \A d \in Switches : \A r \in rules'[d] : GoodRule(r),
         \A d \in Switches : \A k \in DOMAIN up'[d] : GoodFrom(up'[d][k].packet, up'[d][k].origin),
         \A d \in Switches : \A k \in DOMAIN down'[d] : GoodMessage(down'[d][k]),
         \A i \in wire' : GoodFrom(i.packet, i.origin),
         \A a \in accepted' : GoodFrom(a.packet, a.origin) /\ a.host = a.packet.dst
  PROVE  IInv'
BY DEF IInv, Consistent, Good, GoodFrom, GoodRule, GoodMessage

LEMMA EmitGood ==
  ASSUME IInv, NEW w, w \subseteq wire, NEW i \in AnyItem, NEW p \in Packet,
         GoodFrom(p, i.origin), NEW out, Emit(w, i, p, out)
  PROVE  /\ wire' \subseteq AnyItem /\ \A j \in wire' : GoodFrom(j.packet, j.origin)
         /\ \A a \in accepted' : a.packet \in Packet /\ a.host \in Hosts
         /\ \A a \in accepted' : GoodFrom(a.packet, a.origin) /\ a.host = a.packet.dst
<1>1. wire' = w \cup ToSwitches(i, p, out) /\ accepted' = accepted \cup ToHosts(i, p, out)
  BY DEF Emit
<1> QED
  BY <1>1, Emitted DEF IInv, Shape, Consistent

LEMMA InitGood == Init => IInv
<1> SUFFICES ASSUME Init PROVE IInv
  OBVIOUS
<1>1. macToPort \in [Switches -> [Hosts -> PortVal]]
  BY FabricAssumption DEF Init, PortVal
<1>2. Shape
  BY <1>1, FabricAssumption DEF Init, Shape
<1> QED
  BY <1>2 DEF Init, IInv, Consistent

LEMMA HostSendsGood ==
  ASSUME IInv, NEW n \in Hosts, NEW p \in Packet, GoodFrom(p, n), HostSends(n, p)
  PROVE  IInv'
<1>1. wire' = wire \cup {Inject(n, p)}
  BY DEF HostSends
<1>2. UNCHANGED <<hash, rules, macToPort, up, down, accepted>>
  BY DEF HostSends
<1>3. Inject(n, p) \in AnyItem /\ GoodFrom(Inject(n, p).packet, Inject(n, p).origin)
  BY InjectGood
<1>4. Shape'
  BY <1>1, <1>2, <1>3 DEF IInv, Shape
<1> QED
  BY <1>1, <1>2, <1>3, <1>4, Preserved DEF IInv, Consistent

LEMMA ForwardGood ==
  ASSUME IInv, NEW i \in wire, SwitchForward(i)
  PROVE  IInv'
<1>1. PICK r \in Best(i) : Emit(wire \ {i}, i, Rewrite(i.packet, r), r.out)
  BY DEF SwitchForward
<1>2. /\ i \in AnyItem /\ i.at \in Switches
      /\ i.packet \in Packet /\ GoodFrom(i.packet, i.origin)
  BY DEF IInv, Shape, Consistent, AnyItem
<1>3. r \in AnyRule /\ GoodRule(r) /\ r.packet = i.packet
  BY <1>2 DEF Best, Hits, Covers, IInv, Shape, Consistent
<1>4. Rewrite(i.packet, r) \in Packet /\ GoodFrom(Rewrite(i.packet, r), i.origin)
  BY <1>2, <1>3, RewriteGood
<1>5. /\ wire' \subseteq AnyItem /\ \A j \in wire' : GoodFrom(j.packet, j.origin)
      /\ \A a \in accepted' : a.packet \in Packet /\ a.host \in Hosts
      /\ \A a \in accepted' : GoodFrom(a.packet, a.origin) /\ a.host = a.packet.dst
  BY <1>1, <1>2, <1>4, EmitGood
<1>6. UNCHANGED <<hash, rules, macToPort, up, down>>
  BY DEF SwitchForward
<1>7. Shape'
  BY <1>5, <1>6 DEF IInv, Shape
<1> QED
  BY <1>5, <1>6, <1>7, Preserved DEF IInv, Consistent

LEMMA MissGood ==
  ASSUME IInv, NEW i \in wire, SwitchMiss(i)
  PROVE  IInv'
<1>1. i \in AnyItem /\ i.at \in Switches /\ GoodFrom(i.packet, i.origin)
  BY DEF IInv, Shape, Consistent, AnyItem
<1>2. UNCHANGED <<hash, rules, macToPort, down, accepted>> /\ wire' \subseteq wire
  BY DEF SwitchMiss
<1>3. /\ up' \in [Switches -> Seq(AnyItem)]
      /\ \A d \in Switches : \A k \in DOMAIN up'[d] : GoodFrom(up'[d][k].packet, up'[d][k].origin)
  <2>1. CASE UNCHANGED up
    BY <2>1 DEF IInv, Shape, Consistent
  <2>2. CASE up' = [up EXCEPT ![i.at] = Append(@, i)]
    <3>1. up[i.at] \in Seq(AnyItem)
      BY <1>1 DEF IInv, Shape
    <3>2. /\ Append(up[i.at], i) \in Seq(AnyItem)
          /\ \A k \in DOMAIN Append(up[i.at], i) : 
               GoodFrom(Append(up[i.at], i)[k].packet, Append(up[i.at], i)[k].origin)
      BY <1>1, <3>1, AppendProperties DEF IInv, Consistent
    <3> QED
      BY <1>1, <2>2, <3>2 DEF IInv, Shape, Consistent
  <2> QED
    BY <2>1, <2>2 DEF SwitchMiss
<1>4. Shape'
  BY <1>2, <1>3 DEF IInv, Shape
<1> QED
  BY <1>2, <1>3, <1>4, Preserved DEF IInv, Consistent

\* The first element and the rest of a queue.
LEMMA QueueTail ==
  ASSUME NEW S, NEW q \in Seq(S), q # <<>>
  PROVE  /\ Head(q) \in S /\ 1 \in DOMAIN q /\ Head(q) = q[1]
         /\ Tail(q) \in Seq(S)
         /\ \A k \in DOMAIN Tail(q) : k + 1 \in DOMAIN q /\ Tail(q)[k] = q[k + 1]
BY HeadTailProperties, EmptySeq

LEMMA MessageGood ==
  ASSUME IInv, NEW d \in Switches, SwitchMessage(d)
  PROVE  IInv'
<1> DEFINE m == Head(down[d])
<1>1. down[d] \in Seq(AnyMessage) /\ down[d] # <<>>
  BY DEF IInv, Shape, SwitchMessage
<1>2. m \in AnyMessage /\ GoodMessage(m)
  BY <1>1, QueueTail DEF IInv, Consistent
<1>3. /\ Tail(down[d]) \in Seq(AnyMessage)
      /\ \A k \in DOMAIN Tail(down[d]) : GoodMessage(Tail(down[d])[k])
  BY <1>1, QueueTail DEF IInv, Consistent
<1>4. UNCHANGED <<hash, macToPort, up>> /\ down' = [down EXCEPT ![d] = Tail(@)]
  BY DEF SwitchMessage
<1>5. /\ down' \in [Switches -> Seq(AnyMessage)]
      /\ \A e \in Switches : \A k \in DOMAIN down'[e] : GoodMessage(down'[e][k])
  BY <1>3, <1>4 DEF IInv, Shape, Consistent
<1>6. /\ rules' \in [Switches -> SUBSET AnyRule]
      /\ \A e \in Switches : \A r \in rules'[e] : GoodRule(r)
  <2>1. rules' = [rules EXCEPT ![d] = {q \in @ : \A r \in m.install : ~SameMatch(q, r)} \cup m.install]
    BY DEF SwitchMessage
  <2>2. m.install \subseteq AnyRule /\ \A r \in m.install : GoodRule(r)
    BY <1>2 DEF AnyMessage, GoodMessage
  <2> QED
    BY <2>1, <2>2 DEF IInv, Shape, Consistent
<1>7. /\ wire' \subseteq AnyItem /\ \A j \in wire' : GoodFrom(j.packet, j.origin)
      /\ \A a \in accepted' : a.packet \in Packet /\ a.host \in Hosts
      /\ \A a \in accepted' : GoodFrom(a.packet, a.origin) /\ a.host = a.packet.dst
  <2>1. CASE UNCHANGED <<wire, accepted>>
    BY <2>1 DEF IInv, Shape, Consistent
  <2>2. CASE \E i \in m.release : Emit(wire, i, i.packet, m.out)
    <3>1. PICK i \in m.release : Emit(wire, i, i.packet, m.out)
      BY <2>2
    <3>2. i \in AnyItem /\ i.packet \in Packet /\ GoodFrom(i.packet, i.origin)
      BY <1>2, <3>1 DEF AnyMessage, GoodMessage, AnyItem
    <3> QED
      BY <3>1, <3>2, EmitGood
  <2> QED
    BY <2>1, <2>2 DEF SwitchMessage
<1>8. Shape'
  BY <1>4, <1>5, <1>6, <1>7 DEF IInv, Shape
<1> QED
  BY <1>4, <1>5, <1>6, <1>7, <1>8, Preserved DEF IInv, Consistent

LEMMA ControllerGood ==
  ASSUME IInv, NEW d \in Switches, ControllerPacketIn(d)
  PROVE  IInv'
<1> DEFINE i == Head(up[d])
           learned(e) == IF L2Learning /\ e = d THEN <<LearningSends(i)>> ELSE <<>>
<1>1. up[d] \in Seq(AnyItem) /\ up[d] # <<>>
  BY DEF IInv, Shape, ControllerPacketIn
<1>2. i \in AnyItem /\ GoodFrom(i.packet, i.origin)
  BY <1>1, QueueTail DEF IInv, Consistent
<1>3. /\ Tail(up[d]) \in Seq(AnyItem)
      /\ \A k \in DOMAIN Tail(up[d]) : GoodFrom(Tail(up[d])[k].packet, Tail(up[d])[k].origin)
  BY <1>1, QueueTail DEF IInv, Consistent
<1>4. UNCHANGED <<hash, rules, wire, accepted>> /\ up' = [up EXCEPT ![d] = Tail(@)]
  BY DEF ControllerPacketIn
<1>5. /\ up' \in [Switches -> Seq(AnyItem)]
      /\ \A e \in Switches : \A k \in DOMAIN up'[e] : GoodFrom(up'[e][k].packet, up'[e][k].origin)
  BY <1>3, <1>4 DEF IInv, Shape, Consistent
<1>6. /\ LearningSends(i) \in AnyMessage /\ GoodMessage(LearningSends(i))
      /\ Learned(i) \in [Hosts -> PortVal]
  BY <1>2, LearningGood DEF IInv
<1>7. macToPort' \in [Switches -> [Hosts -> PortVal]]
  BY <1>6 DEF ControllerPacketIn, IInv, Shape
<1>8. ASSUME NEW e \in Switches
      PROVE  /\ down[e] \o BalancerSends(e, i) \o learned(e) \in Seq(AnyMessage)
             /\ \A k \in DOMAIN (down[e] \o BalancerSends(e, i) \o learned(e)) :
                  GoodMessage((down[e] \o BalancerSends(e, i) \o learned(e))[k])
  <2> DEFINE GoodQueue(q) == q \in Seq(AnyMessage) /\ \A k \in DOMAIN q : GoodMessage(q[k])
  <2>1. GoodQueue(down[e])
    BY DEF IInv, Shape, Consistent
  <2>2. GoodQueue(BalancerSends(e, i))
    BY <1>2, BalancerGood DEF IInv, Shape
  <2>3. GoodQueue(learned(e))
    BY <1>6
  <2>4. ASSUME NEW q, NEW r, GoodQueue(q), GoodQueue(r) PROVE GoodQueue(q \o r)
    BY <2>4, ConcatProperties
  <2> HIDE DEF GoodQueue
  <2>5. GoodQueue(down[e] \o BalancerSends(e, i) \o learned(e))
    BY <2>1, <2>2, <2>3, <2>4
  <2> QED
    BY <2>5 DEF GoodQueue
<1>9. down' = [e \in Switches |-> down[e] \o BalancerSends(e, i) \o learned(e)]
  BY DEF ControllerPacketIn
<1>10. /\ down' \in [Switches -> Seq(AnyMessage)]
       /\ \A e \in Switches : \A k \in DOMAIN down'[e] : GoodMessage(down'[e][k])
  <2> HIDE DEF i, learned
  <2> QED BY <1>8, <1>9
<1>11. Shape'
  BY <1>4, <1>5, <1>7, <1>10 DEF IInv, Shape
<1> QED
  BY <1>4, <1>5, <1>10, <1>11, Preserved DEF IInv, Consistent

\* Connections come and go, learned rules expire: nothing new is carried.
LEMMA ConnectionsGood ==
  ASSUME IInv, NEW d \in Switches,
         Connect(d) \/ Disconnect(d) \/ \E r \in rules[d] : Expire(d, r)
  PROVE  IInv'
<1>1. CASE Connect(d)
  <2>1. 0 \in PortVal
    BY DEF PortVal
  <2>2. Shape'
    BY <1>1, <2>1 DEF IInv, Shape, Connect, Unknown
  <2> QED
    BY <1>1, <2>2, Preserved DEF IInv, Shape, Consistent, Connect
<1>2. CASE Disconnect(d)
  <2>1. Shape'
    BY <1>2 DEF IInv, Shape, Disconnect
  <2> QED
    BY <1>2, <2>1, Preserved DEF IInv, Shape, Consistent, Disconnect
<1>3. ASSUME NEW r \in rules[d], Expire(d, r) PROVE IInv'
  <2>1. Shape'
    BY <1>3 DEF IInv, Shape, Expire
  <2> QED
    BY <1>3, <2>1, Preserved DEF IInv, Shape, Consistent, Expire
<1> QED
  BY <1>1, <1>2, <1>3

\* Every step keeps packets and rules good.
LEMMA StepGood == IInv /\ [Next]_vars => IInv'
<1> SUFFICES ASSUME IInv, [Next]_vars PROVE IInv'
  OBVIOUS
<1>1. ASSUME NEW c \in Clients, NEW port \in Ephemeral, Send(c, port) PROVE IInv'
  BY <1>1, Numbers, RequestGood, HostSendsGood DEF Send
<1>2. ASSUME NEW a \in accepted, Reply(a) PROVE IInv'
  <2>1. /\ a.packet \in Packet /\ a.host \in Hosts /\ a.host = a.packet.dst
        /\ Good(a.packet) /\ a.packet.dport = iperf
    BY <1>2 DEF IInv, Shape, Consistent, GoodFrom, Reply
  <2>2. Answer(a.packet) \in Packet /\ GoodFrom(Answer(a.packet), a.host)
    BY <2>1, AnswerGood
  <2> QED
    BY <1>2, <2>1, <2>2, HostSendsGood DEF Reply
<1>3. ASSUME NEW i \in wire, SwitchForward(i) \/ SwitchMiss(i) PROVE IInv'
  BY <1>3, ForwardGood, MissGood
<1>4. ASSUME NEW d \in Switches, SwitchMessage(d) \/ ControllerPacketIn(d) PROVE IInv'
  BY <1>4, MessageGood, ControllerGood
<1>5. ASSUME NEW d \in Switches,
             Connect(d) \/ Disconnect(d) \/ \E r \in rules[d] : Expire(d, r)
      PROVE  IInv'
  BY <1>5, ConnectionsGood
<1>6. CASE UNCHANGED vars
  BY <1>6 DEF vars, IInv, Shape, Consistent, Good, GoodFrom, GoodRule, GoodMessage
<1> QED
  BY <1>1, <1>2, <1>3, <1>4, <1>5, <1>6 DEF Next
-----------------------------------------------------------------------------
\* new_lb.py never splits a client: under every choice of servers, beside the
\* learning switches or alone, with any flooding, loss of connections, expiry
\* and retransmission, a request is accepted by no server but the client's own.
THEOREM ClientsOwnServer == Spec => []RightServer
<1>1. IInv => RightServer
  BY Numbers DEF IInv, Consistent, Good, GoodFrom, RightServer
<1> QED
  BY <1>1, InitGood, StepGood, PTL DEF Spec

\* What a client takes for an answer of the virtual address is an answer of its
\* own server or of the virtual host, under the same circumstances.
THEOREM OwnServerAnswers == Spec => []AnswersFromOwnServer
<1>1. IInv => AnswersFromOwnServer
  BY Numbers DEF IInv, Consistent, Good, GoodFrom, AnswersFromOwnServer
<1> QED
  BY <1>1, InitGood, StepGood, PTL DEF Spec
-----------------------------------------------------------------------------
(* PathInstalled.  The rules of a path stay where they are because nothing *)
(* else with their match is ever sent to a switch behind the clients'.     *)

\* r is a hop of the path to the server its client hashes to.
OnPath(d, r) ==
  /\ r.setDst \in Servers /\ r.setDst = hash[r.packet.src]
  /\ \E x \in Path(r.packet.src, r.setDst) :
       x.dpid = d /\ r = Redirect(x.in, r.packet, r.setDst, x.out)

\* The flow is there or on its way, or is known to be lost.
Kept(d, r) == InstalledOrSent(d, r) \/ Mod(d, r) \in lost

Complete(r) ==
  r.setDst \in Servers =>
    \A x \in Path(r.packet.src, r.setDst) : Kept(x.dpid, HopRule(x, r))

PathInv ==
  /\ \A d \in 1 .. 4 : \A r : InstalledOrSent(d, r) => r.exact \/ r.inPort = AnyPort \/ OnPath(d, r)
  /\ \A d \in {5, 6} : \A r : InstalledOrSent(d, r) => Complete(r)

LEMMA Hops ==
  ASSUME NEW c, NEW server \in Servers
  PROVE  /\ \A x \in Path(c, server) : x.dpid \in 1 .. 4 /\ x.in # AnyPort
         /\ \A x, y \in Path(c, server) : x.dpid = y.dpid => x = y
<1>1. server = 1 \/ server = 2 \/ server = 3 \/ server = 4
  BY DEF Servers
<1> QED
  BY <1>1 DEF Path, FromS5, FromS6, Hop, AnyPort

\* A rule that is installed or under way is well formed and good.
LEMMA SentGood ==
  ASSUME IInv, NEW d \in Switches, NEW r, InstalledOrSent(d, r)
  PROVE  r \in AnyRule /\ GoodRule(r)
<1>1. CASE r \in rules[d]
  BY <1>1 DEF IInv, Shape, Consistent
<1>2. ASSUME NEW k \in DOMAIN down[d], r \in down[d][k].install PROVE r \in AnyRule /\ GoodRule(r)
  <2>1. down[d][k] \in AnyMessage
    BY ElementOfSeq, LenProperties DEF IInv, Shape
  <2> QED BY <1>2, <2>1 DEF AnyMessage, IInv, Consistent, GoodMessage
<1> QED BY <1>1, <1>2 DEF InstalledOrSent

LEMMA HopOnPath ==
  ASSUME NEW r \in AnyRule, GoodRule(r), r.setDst \in Servers,
         NEW x \in Path(r.packet.src, r.setDst)
  PROVE  OnPath(x.dpid, HopRule(x, r))
<1> DEFINE q == [r.packet EXCEPT !.dst = r.setDst]
<1>1. r.packet \in Packet /\ q.src = r.packet.src
  BY DEF AnyRule, Packet
<1>2. r.setDst = hash[r.packet.src]
  BY Numbers DEF GoodRule
<1>3. HopRule(x, r) = Redirect(x.in, q, r.setDst, x.out)
  BY DEF HopRule
<1> HIDE DEF q
<1>4. HopRule(x, r).packet = q /\ HopRule(x, r).setDst = r.setDst
  BY <1>3 DEF Redirect
<1> QED BY <1>1, <1>2, <1>3, <1>4 DEF OnPath

\* Only itself has the match of a hop.
LEMMA HopAlone ==
  ASSUME PathInv, NEW d \in 1 .. 4, NEW r, OnPath(d, r), NEW q, InstalledOrSent(d, q), SameMatch(r, q)
  PROVE  q = r
<1>1. PICK x \in Path(r.packet.src, r.setDst) :
        x.dpid = d /\ r = Redirect(x.in, r.packet, r.setDst, x.out)
  BY DEF OnPath
<1>2. r.setDst \in Servers /\ r.setDst = hash[r.packet.src]
  BY DEF OnPath
<1>3. r.exact = FALSE /\ r.inPort = x.in /\ x.in # AnyPort
  BY <1>1, <1>2, Hops DEF Redirect
<1>4. q.packet = r.packet /\ q.exact = FALSE /\ q.inPort = x.in
  BY <1>3 DEF SameMatch
<1>5. OnPath(d, q)
  BY <1>3, <1>4 DEF PathInv
<1>6. q.setDst = r.setDst
  BY <1>2, <1>4, <1>5 DEF OnPath
<1>7. PICK y \in Path(r.packet.src, r.setDst) :
        y.dpid = d /\ q = Redirect(y.in, r.packet, r.setDst, y.out)
  BY <1>4, <1>5, <1>6 DEF OnPath
<1>8. x = y
  BY <1>1, <1>2, <1>7, Hops
<1> QED BY <1>1, <1>7, <1>8

\* A message that is applied: nothing new is installed or sent, and a rule that
\* no other has the match of stays.
LEMMA MessageSent ==
  ASSUME IInv, NEW d \in Switches, SwitchMessage(d), NEW e \in Switches, NEW r
  PROVE  /\ InstalledOrSent(e, r)' => InstalledOrSent(e, r)
         /\ InstalledOrSent(e, r)
            /\ (\A q : InstalledOrSent(e, q) /\ SameMatch(r, q) => q = r)
              => InstalledOrSent(e, r)'
<1> DEFINE m == Head(down[d])
<1>1. down[d] \in Seq(AnyMessage) /\ down[d] # <<>>
  BY DEF IInv, Shape, SwitchMessage
<1>2. /\ rules' = [rules EXCEPT ![d] = {q \in @ : \A t \in m.install : ~SameMatch(q, t)} \cup m.install]
      /\ down' = [down EXCEPT ![d] = Tail(@)]
      /\ DOMAIN rules = Switches /\ DOMAIN down = Switches
  BY DEF SwitchMessage, IInv, Shape
<1>3. CASE e # d
  BY <1>2, <1>3 DEF InstalledOrSent
<1>4. CASE e = d
  <2>1. /\ 1 \in DOMAIN down[d] /\ m = down[d][1]
        /\ \A k \in DOMAIN Tail(down[d]) : k + 1 \in DOMAIN down[d] /\ Tail(down[d])[k] = down[d][k + 1]
    BY <1>1, QueueTail
  <2>2. \A k \in DOMAIN down[d] : k = 1 \/ (k - 1 \in DOMAIN Tail(down[d]) /\ Tail(down[d])[k - 1] = down[d][k])
    BY <1>1, HeadTailProperties, LenProperties
  <2> HIDE DEF m
  <2>3. /\ rules'[d] = {q \in rules[d] : \A t \in m.install : ~SameMatch(q, t)} \cup m.install
        /\ down'[d] = Tail(down[d])
    BY <1>2
  <2>4. ASSUME InstalledOrSent(d, r)' PROVE InstalledOrSent(d, r)
    BY <2>1, <2>3, <2>4 DEF InstalledOrSent
  <2>5. ASSUME InstalledOrSent(d, r), \A q : InstalledOrSent(d, q) /\ SameMatch(r, q) => q = r
        PROVE  InstalledOrSent(d, r)'
    <3>1. \A t \in m.install : SameMatch(r, t) => t = r
      BY <2>1, <2>5 DEF InstalledOrSent
    <3>2. r \in rules[d] => r \in rules'[d]
      BY <2>3, <3>1
    <3>3. ASSUME NEW k \in DOMAIN down[d], r \in down[d][k].install
          PROVE  InstalledOrSent(d, r)'
      BY <2>1, <2>2, <2>3, <3>3 DEF InstalledOrSent
    <3> QED BY <2>5, <3>2, <3>3 DEF InstalledOrSent
  <2> QED BY <1>4, <2>4, <2>5
<1> QED BY <1>3, <1>4

\* What new_lb.py sends on the connection of d is a flow_mod of its handler for d.
LEMMA BalancerSent ==
  ASSUME NEW d, NEW i, NEW k \in DOMAIN BalancerSends(d, i), NEW r \in BalancerSends(d, i)[k].install
  PROVE  \E m \in Handled(i) : m.dpid = d /\ r = m.rule
<1> DEFINE mods == {m \in Handled(i) : m.dpid = d}
<1>1. mods # {} /\ BalancerSends(d, i) = <<FlowMod((CHOOSE m \in mods : TRUE).rule)>>
  BY DEF BalancerSends, Handled
<1>2. (CHOOSE m \in mods : TRUE) \in mods
  BY <1>1
<1> HIDE DEF mods
<1>3. r = (CHOOSE m \in mods : TRUE).rule
  BY <1>1 DEF FlowMod
<1> QED BY <1>2, <1>3 DEF mods

\* What new_lb.py orders: a rule that restores the virtual address, or the
\* redirect of the client's switch and the hops behind it.
LEMMA HandledRules ==
  ASSUME hash \in [Clients -> Servers], NEW i \in AnyItem
  PROVE  \/ \E r : r.setDst = NoHost /\ Handled(i) \subseteq {Mod(d, r) : d \in {5, 6}}
         \/ LET p == i.packet  server == hash[i.packet.src]  IN
            /\ server \in Servers /\ p.src \in Clients
            /\ Handled(i) = {Mod(Ingress(p.src), Redirect(i.port, p, server, 3))} \cup
                 {Mod(x.dpid, Redirect(x.in, [p EXCEPT !.dst = server], server, x.out)) :
                    x \in Path(p.src, server)}
<1> DEFINE p == i.packet
           server == hash[p.src]
<1>1. CASE Handled(i) = {}
  <2>1. [setDst |-> NoHost].setDst = NoHost
    OBVIOUS
  <2> QED BY <1>1, <2>1
<1>2. CASE Handled(i) = HandleFromServer(p, i.port, i.at) /\ i.at \in {5, 6}
  <2>1. PICK out : HandleFromServer(p, i.port, i.at) = {Mod(i.at, Restore(i.port, p, out))}
    BY DEF HandleFromServer
  <2>2. Restore(i.port, p, out).setDst = NoHost
    BY DEF Restore
  <2> QED BY <1>2, <2>1, <2>2
<1>3. CASE p.src \in Clients /\ Handled(i) = HandleToVip(p, i.port, server)
  <2>1. server \in Servers
    BY <1>3
  <2> QED BY <1>3, <2>1 DEF HandleToVip
<1> QED
  BY <1>1, <1>2, <1>3 DEF Handled, HandlePacketIn, HandleToVip

\* At most one flow_mod for a switch, which is sent if the switch is connected.
LEMMA HandledSent ==
  ASSUME hash \in [Clients -> Servers], NEW i \in AnyItem, NEW m \in Handled(i), m.dpid \in connected
  PROVE  BalancerSends(m.dpid, i) = <<FlowMod(m.rule)>>
<1> DEFINE p == i.packet
           server == hash[p.src]
           mods == {n \in Handled(i) : n.dpid = m.dpid}
           first == Mod(Ingress(p.src), Redirect(i.port, p, server, 3))
           hop(x) == Mod(x.dpid, Redirect(x.in, [p EXCEPT !.dst = server], server, x.out))
<1>1. ASSUME NEW n \in Handled(i), n.dpid = m.dpid PROVE n = m
  <2>1. CASE \E r : Handled(i) \subseteq {Mod(d, r) : d \in {5, 6}}
    BY <1>1, <2>1 DEF Mod
  <2>2. CASE server \in Servers /\ Handled(i) = {first} \cup {hop(x) : x \in Path(p.src, server)}
    <3>1. first.dpid \in {5, 6} /\ \A x : hop(x).dpid = x.dpid
      BY DEF Mod, Ingress
    <3>2. \A x \in Path(p.src, server) : x.dpid \notin {5, 6}
      BY <2>2, Hops
    <3>3. \A x, y \in Path(p.src, server) : x.dpid = y.dpid => x = y
      BY <2>2, Hops
    <3> HIDE DEF first, hop
    <3> QED BY <1>1, <2>2, <3>1, <3>2, <3>3
  <2> QED BY <2>1, <2>2, HandledRules
<1>2. mods = {m}
  BY <1>1
<1> HIDE DEF mods
<1>3. (CHOOSE n \in mods : TRUE) = m /\ mods # {}
  BY <1>2
<1> QED BY <1>3 DEF BalancerSends, Handled, mods

\* What new_lb.py sends behind the clients' switches are hops; what it sends to
\* those it orders together with the hops behind them.
LEMMA BalancerPaths ==
  ASSUME hash \in [Clients -> Servers], NEW i \in AnyItem, NEW m \in Handled(i)
  PROVE  /\ m.dpid \in 1 .. 4 => OnPath(m.dpid, m.rule)
         /\ m.dpid \in {5, 6} /\ m.rule.setDst \in Servers =>
              \A x \in Path(m.rule.packet.src, m.rule.setDst) : Mod(x.dpid, HopRule(x, m.rule)) \in Handled(i)
<1> DEFINE p == i.packet
           server == hash[p.src]
           Hop1(x) == Redirect(x.in, [p EXCEPT !.dst = server], server, x.out)
<1>0. p \in Packet
  BY DEF AnyItem
<1>1. CASE \E r : r.setDst = NoHost /\ Handled(i) \subseteq {Mod(d, r) : d \in {5, 6}}
  <2>1. m.dpid \in {5, 6} /\ m.rule.setDst = NoHost
    BY <1>1 DEF Mod
  <2> QED BY <2>1, Numbers
<1>2. CASE /\ server \in Servers /\ p.src \in Clients
           /\ Handled(i) = {Mod(Ingress(p.src), Redirect(i.port, p, server, 3))} \cup
                             {Mod(x.dpid, Hop1(x)) : x \in Path(p.src, server)}
  <2>1. CASE m = Mod(Ingress(p.src), Redirect(i.port, p, server, 3))
    <3>1. m.dpid \in {5, 6} /\ m.rule = Redirect(i.port, p, server, 3)
      BY <2>1 DEF Mod, Ingress
    <3>2. m.rule.packet = p /\ m.rule.setDst = server
      BY <3>1 DEF Redirect
    <3>3. \A x : HopRule(x, m.rule) = Hop1(x)
      BY <3>2 DEF HopRule
    <3>4. m.dpid \notin 1 .. 4
      BY <3>1
    <3> QED BY <1>2, <3>2, <3>3, <3>4
  <2>2. ASSUME NEW x \in Path(p.src, server), m = Mod(x.dpid, Hop1(x))
        PROVE  m.dpid \in 1 .. 4 /\ OnPath(m.dpid, m.rule)
    <3>1. m.dpid = x.dpid /\ m.rule = Hop1(x) /\ x.dpid \in 1 .. 4
      BY <1>2, <2>2, Hops DEF Mod
    <3>2. [p EXCEPT !.dst = server].src = p.src
      BY <1>0 DEF Packet
    <3>3. m.rule.packet = [p EXCEPT !.dst = server] /\ m.rule.setDst = server
      BY <3>1 DEF Redirect
    <3>5. m.rule.packet.src = p.src
      BY <3>2, <3>3
    <3>4. m.rule = Redirect(x.in, m.rule.packet, m.rule.setDst, x.out)
      BY <3>1, <3>3
    <3> QED BY <1>2, <3>1, <3>3, <3>4, <3>5 DEF OnPath
  <2>3. m.dpid \in 1 .. 4 => m.dpid \notin {5, 6}
    OBVIOUS
  <2> QED BY <1>2, <2>1, <2>2, <2>3
<1> QED BY <1>1, <1>2, HandledRules

\* l2_learning's rules are exact or drop whatever the port, and redirect nothing.
LEMMA LearningPaths ==
  ASSUME NEW i, NEW r \in LearningSends(i).install
  PROVE  (r.exact \/ r.inPort = AnyPort) /\ r.setDst \notin Servers
BY Numbers DEF LearningSends, PacketOut, FlowModFor, L2Drop, L2Forward

\* A packet_in that is handled: what was installed or sent still is, what is new
\* was sent by new_lb.py or l2_learning.
LEMMA ControllerSent ==
  ASSUME IInv, NEW d \in Switches, ControllerPacketIn(d)
  PROVE  /\ Head(up[d]) \in AnyItem /\ Good(Head(up[d]).packet)
         /\ \A e \in Switches : \A r :
              InstalledOrSent(e, r)' <=>
                \/ InstalledOrSent(e, r)
                \/ \E k \in DOMAIN BalancerSends(e, Head(up[d])) :
                      r \in BalancerSends(e, Head(up[d]))[k].install
                \/ L2Learning /\ e = d /\ r \in LearningSends(Head(up[d])).install
<1> DEFINE i == Head(up[d])
           learned(e) == IF L2Learning /\ e = d THEN <<LearningSends(i)>> ELSE <<>>
<1>1. up[d] \in Seq(AnyItem) /\ up[d] # <<>>
  BY DEF IInv, Shape, ControllerPacketIn
<1>2. i \in AnyItem /\ GoodFrom(i.packet, i.origin)
  BY <1>1, QueueTail DEF IInv, Consistent
<1>3. Good(i.packet)
  BY <1>2 DEF GoodFrom
<1>4. rules' = rules /\ down' = [e \in Switches |-> down[e] \o BalancerSends(e, i) \o learned(e)]
  BY DEF ControllerPacketIn
<1>5. LearningSends(i) \in AnyMessage
  BY <1>2, LearningGood DEF IInv
<1> HIDE DEF i
<1>6. ASSUME NEW e \in Switches, NEW r
      PROVE  InstalledOrSent(e, r)' <=>
               \/ InstalledOrSent(e, r)
               \/ \E k \in DOMAIN BalancerSends(e, i) : r \in BalancerSends(e, i)[k].install
               \/ L2Learning /\ e = d /\ r \in LearningSends(i).install
  <2> DEFINE In(q) == \E k \in DOMAIN q : r \in q[k].install
  <2>1. ASSUME NEW q \in Seq(AnyMessage), NEW u \in Seq(AnyMessage) PROVE In(q \o u) <=> In(q) \/ In(u)
    <3>1. /\ DOMAIN q = 1 .. Len(q) /\ DOMAIN u = 1 .. Len(u) /\ DOMAIN (q \o u) = 1 .. Len(q) + Len(u)
          /\ Len(q) \in Nat /\ Len(u) \in Nat
          /\ \A k \in 1 .. Len(q) + Len(u) : (q \o u)[k] = IF k <= Len(q) THEN q[k] ELSE u[k - Len(q)]
      BY ConcatProperties, LenProperties
    <3> HIDE DEF In
    <3>2. ASSUME In(q \o u) PROVE In(q) \/ In(u)
      <4>1. PICK k \in 1 .. Len(q) + Len(u) : r \in (q \o u)[k].install
        BY <3>1, <3>2 DEF In
      <4>2. CASE k <= Len(q)
        BY <3>1, <4>1, <4>2 DEF In
      <4>3. CASE ~(k <= Len(q))
        <5>1. k - Len(q) \in 1 .. Len(u)
          BY <3>1, <4>3
        <5> QED BY <3>1, <4>1, <4>3, <5>1 DEF In
      <4> QED BY <4>2, <4>3
    <3>3. ASSUME In(q) PROVE In(q \o u)
      <4>1. PICK k \in 1 .. Len(q) : r \in q[k].install
        BY <3>1, <3>3 DEF In
      <4>2. k \in 1 .. Len(q) + Len(u) /\ k <= Len(q)
        BY <3>1
      <4> QED BY <3>1, <4>1, <4>2 DEF In
    <3>4. ASSUME In(u) PROVE In(q \o u)
      <4>1. PICK k \in 1 .. Len(u) : r \in u[k].install
        BY <3>1, <3>4 DEF In
      <4>2. k + Len(q) \in 1 .. Len(q) + Len(u) /\ ~(k + Len(q) <= Len(q)) /\ (k + Len(q)) - Len(q) = k
        BY <3>1
      <4> QED BY <3>1, <4>1, <4>2 DEF In
    <3> QED BY <3>2, <3>3, <3>4
  <2>2. down[e] \in Seq(AnyMessage)
    BY DEF IInv, Shape
  <2>3. BalancerSends(e, i) \in Seq(AnyMessage)
    BY <1>2, BalancerGood DEF IInv, Shape
  <2>4. learned(e) \in Seq(AnyMessage)
    BY <1>5
  <2>5. down[e] \o BalancerSends(e, i) \in Seq(AnyMessage)
    BY <2>2, <2>3, ConcatProperties
  <2>6. down'[e] = down[e] \o BalancerSends(e, i) \o learned(e)
    BY <1>4
  <2>7. In(learned(e)) <=> L2Learning /\ e = d /\ r \in LearningSends(i).install
    OBVIOUS
  <2> HIDE DEF In, learned
  <2>8. In(down[e] \o BalancerSends(e, i) \o learned(e))
          <=> In(down[e]) \/ In(BalancerSends(e, i)) \/ In(learned(e))
    BY <2>1, <2>2, <2>3, <2>4, <2>5
  <2>9. InstalledOrSent(e, r)' <=> r \in rules[e] \/ In(down[e] \o BalancerSends(e, i) \o learned(e))
    BY <1>4, <2>6 DEF In, InstalledOrSent
  <2>10. InstalledOrSent(e, r) <=> r \in rules[e] \/ In(down[e])
    BY DEF In, InstalledOrSent
  <2>11. In(BalancerSends(e, i)) <=>
           \E k \in DOMAIN BalancerSends(e, i) : r \in BalancerSends(e, i)[k].install
    BY DEF In
  <2> QED BY <2>7, <2>8, <2>9, <2>10, <2>11
<1> QED BY <1>2, <1>3, <1>6 DEF i

\* What a step has to keep: hops stay or are known to be lost, and what is new is
\* a hop or complete.
LEMMA PathsKept ==
  ASSUME IInv, PathInv, hash' = hash,
         \A d \in 1 .. 4 : \A r : InstalledOrSent(d, r)' =>
           InstalledOrSent(d, r) \/ r.exact \/ r.inPort = AnyPort \/ OnPath(d, r),
         \A d \in 1 .. 4 : \A r : Kept(d, r) /\ OnPath(d, r) => Kept(d, r)',
         \A d \in {5, 6} : \A r : InstalledOrSent(d, r)' => InstalledOrSent(d, r) \/ Complete(r)'
  PROVE  PathInv'
<1>1. \A d, r : OnPath(d, r)' <=> OnPath(d, r)
  BY DEF OnPath
<1>2. ASSUME NEW d \in {5, 6}, NEW r, InstalledOrSent(d, r) PROVE Complete(r)'
  <2> SUFFICES ASSUME r.setDst \in Servers, NEW x \in Path(r.packet.src, r.setDst)
               PROVE  Kept(x.dpid, HopRule(x, r))'
    BY DEF Complete, HopRule
  <2>1. d \in Switches
    BY DEF Switches
  <2>2. r \in AnyRule /\ GoodRule(r)
    BY <1>2, <2>1, SentGood
  <2>3. Kept(x.dpid, HopRule(x, r))
    BY <1>2 DEF PathInv, Complete
  <2>4. x.dpid \in 1 .. 4 /\ OnPath(x.dpid, HopRule(x, r))
    BY <2>2, Hops, HopOnPath
  <2> QED BY <2>3, <2>4
<1> QED BY <1>1, <1>2 DEF PathInv

LEMMA MessagePaths ==
  ASSUME IInv, PathInv, NEW d \in Switches, SwitchMessage(d)
  PROVE  PathInv'
<1>1. UNCHANGED <<hash, lost>>
  BY DEF SwitchMessage
<1>2. ASSUME NEW e \in Switches, NEW r, InstalledOrSent(e, r)' PROVE InstalledOrSent(e, r)
  BY <1>2, MessageSent
<1>3. ASSUME NEW e \in 1 .. 4, NEW r, Kept(e, r), OnPath(e, r)
      PROVE  Kept(e, r)'
  <2>1. \A q : InstalledOrSent(e, q) /\ SameMatch(r, q) => q = r
    BY <1>3, HopAlone
  <2>2. e \in Switches
    BY DEF Switches
  <2> QED BY <1>1, <1>3, <2>1, <2>2, MessageSent DEF Kept
<1>4. 1 .. 4 \subseteq Switches /\ {5, 6} \subseteq Switches
  BY DEF Switches
<1> QED BY <1>1, <1>2, <1>3, <1>4, PathsKept

LEMMA ControllerPaths ==
  ASSUME IInv, PathInv, NEW d \in Switches, ControllerPacketIn(d)
  PROVE  PathInv'
<1> DEFINE i == Head(up[d])
           New(e, r) == \E k \in DOMAIN BalancerSends(e, i) : r \in BalancerSends(e, i)[k].install
<1>1. /\ UNCHANGED <<hash, connected>>
      /\ lost' = (lost \ Handled(i)) \cup {m \in Handled(i) : m.dpid \notin connected}
  BY DEF ControllerPacketIn
<1>2. /\ i \in AnyItem
      /\ \A e \in Switches : \A r :
           InstalledOrSent(e, r)' <=> \/ InstalledOrSent(e, r) \/ New(e, r)
                                      \/ L2Learning /\ e = d /\ r \in LearningSends(i).install
  BY ControllerSent
<1>3. hash \in [Clients -> Servers]
  BY DEF IInv, Shape
<1>4. 1 .. 4 \subseteq Switches /\ {5, 6} \subseteq Switches
  BY DEF Switches
<1> HIDE DEF i
<1>5. ASSUME NEW e, NEW r, New(e, r)
      PROVE  /\ e \in 1 .. 4 => OnPath(e, r)
             /\ e \in {5, 6} /\ r.setDst \in Servers =>
                  \A x \in Path(r.packet.src, r.setDst) : Mod(x.dpid, HopRule(x, r)) \in Handled(i)
  <2>1. PICK m \in Handled(i) : m.dpid = e /\ r = m.rule
    BY <1>5, BalancerSent
  <2> QED BY <1>2, <1>3, <2>1, BalancerPaths
\* What is ordered is sent, or lost.
<1>6. ASSUME NEW e \in Switches, NEW r, Mod(e, r) \in Handled(i) PROVE Kept(e, r)'
  <2>1. Mod(e, r).dpid = e /\ Mod(e, r).rule = r
    BY DEF Mod
  <2>2. CASE e \notin connected
    BY <1>1, <1>6, <2>1, <2>2 DEF Kept
  <2>3. CASE e \in connected
    <3>1. BalancerSends(e, i) = <<FlowMod(r)>>
      BY <1>2, <1>3, <1>6, <2>1, <2>3, HandledSent
    <3>2. 1 \in DOMAIN BalancerSends(e, i) /\ BalancerSends(e, i)[1] = FlowMod(r) /\ r \in FlowMod(r).install
      BY <3>1 DEF FlowMod
    <3>3. New(e, r)
      BY <3>2
    <3> HIDE DEF New
    <3> QED BY <1>2, <3>3 DEF Kept
  <2> QED BY <2>2, <2>3
<1>7. ASSUME NEW e \in {5, 6}, NEW r, New(e, r) PROVE Complete(r)'
  <2> SUFFICES ASSUME r.setDst \in Servers, NEW x \in Path(r.packet.src, r.setDst)
               PROVE  Kept(x.dpid, HopRule(x, r))'
    BY DEF Complete, HopRule
  <2>1. Mod(x.dpid, HopRule(x, r)) \in Handled(i) /\ x.dpid \in Switches
    BY <1>4, <1>5, <1>7, Hops
  <2> QED BY <1>6, <2>1
<1>8. ASSUME NEW e \in 1 .. 4, NEW r, Kept(e, r) PROVE Kept(e, r)'
  BY <1>1, <1>2, <1>4, <1>6, <1>8 DEF Kept
<1>9. ASSUME NEW r, r \in LearningSends(i).install
      PROVE  (r.exact \/ r.inPort = AnyPort) /\ Complete(r)'
  BY <1>9, LearningPaths DEF Complete
<1> HIDE DEF New
<1> QED BY <1>1, <1>2, <1>4, <1>5, <1>7, <1>8, <1>9, PathsKept

\* A switch that comes back has forgotten its flows, one that goes loses what was
\* on its way; l2_learning's rules alone expire.
LEMMA ConnectionPaths ==
  ASSUME IInv, PathInv, NEW d \in Switches,
         Connect(d) \/ Disconnect(d) \/ \E r \in rules[d] : Expire(d, r)
  PROVE  PathInv'
<1>0. DOMAIN rules = Switches /\ DOMAIN down = Switches
  BY DEF IInv, Shape
<1>1. 1 .. 4 \subseteq Switches /\ {5, 6} \subseteq Switches
  BY DEF Switches
<1>2. ASSUME UNCHANGED hash,
             \A e \in Switches : \A r : InstalledOrSent(e, r)' => InstalledOrSent(e, r),
             \A e \in 1 .. 4 : \A r : Kept(e, r) /\ OnPath(e, r) => Kept(e, r)'
      PROVE  PathInv'
  BY <1>1, <1>2, PathsKept
<1>3. CASE Connect(d)
  <2>1. /\ UNCHANGED <<hash, down>> /\ rules' = [rules EXCEPT ![d] = {}]
        /\ lost' = lost \cup {Mod(d, r) : r \in rules[d]}
    BY <1>3 DEF Connect
  <2>2. \A e, r : InstalledOrSent(e, r)' => InstalledOrSent(e, r)
    BY <1>0, <2>1 DEF InstalledOrSent
  <2>3. ASSUME NEW e \in 1 .. 4, NEW r, Kept(e, r) PROVE Kept(e, r)'
    BY <1>0, <2>1, <2>3 DEF Kept, InstalledOrSent
  <2> QED BY <1>2, <2>1, <2>2, <2>3
<1>4. CASE Disconnect(d)
  <2>1. /\ UNCHANGED <<hash, rules>> /\ down' = [down EXCEPT ![d] = <<>>]
        /\ lost' = lost \cup UNION {{Mod(d, r) : r \in down[d][k].install} : k \in DOMAIN down[d]}
    BY <1>4 DEF Disconnect
  <2>2. \A e \in Switches : \A r : InstalledOrSent(e, r)' => InstalledOrSent(e, r)
    BY <1>0, <2>1 DEF InstalledOrSent
  <2>3. ASSUME NEW e \in 1 .. 4, NEW r, Kept(e, r) PROVE Kept(e, r)'
    <3>1. CASE e = d /\ \E k \in DOMAIN down[d] : r \in down[d][k].install
      <4>1. Mod(e, r) \in lost'
        BY <2>1, <3>1
      <4> QED BY <4>1 DEF Kept
    <3> QED BY <1>0, <1>1, <2>1, <2>3, <3>1 DEF Kept, InstalledOrSent
  <2> QED BY <1>2, <2>1, <2>2, <2>3
<1>5. ASSUME NEW t \in rules[d], Expire(d, t) PROVE PathInv'
  <2>1. /\ UNCHANGED <<hash, down, lost>> /\ ~Permanent(t)
        /\ rules' = [rules EXCEPT ![d] = @ \ {t}]
    BY <1>5 DEF Expire
  <2>2. \A e, r : InstalledOrSent(e, r)' => InstalledOrSent(e, r)
    BY <1>0, <2>1 DEF InstalledOrSent
  <2>3. ASSUME NEW e \in 1 .. 4, NEW r, Kept(e, r), OnPath(e, r)
        PROVE  Kept(e, r)'
    <3>1. r # t
      BY <2>1, <2>3, Numbers DEF OnPath, Permanent
    <3> QED BY <1>0, <2>1, <2>3, <3>1 DEF Kept, InstalledOrSent
  <2> QED BY <1>2, <2>1, <2>2, <2>3
<1> QED BY <1>3, <1>4, <1>5

LEMMA StepPaths == IInv /\ PathInv /\ [Next]_vars => PathInv'
<1> SUFFICES ASSUME IInv, PathInv, [Next]_vars PROVE PathInv'
  OBVIOUS
<1>1. ASSUME UNCHANGED <<hash, rules, down, lost>> PROVE PathInv'
  BY <1>1 DEF PathInv, InstalledOrSent, Kept, Complete, OnPath
<1>2. ASSUME NEW c \in Clients, NEW port \in Ephemeral, Send(c, port) PROVE PathInv'
  BY <1>1, <1>2 DEF Send, HostSends
<1>3. ASSUME NEW a \in accepted, Reply(a) PROVE PathInv'
  BY <1>1, <1>3 DEF Reply, HostSends
<1>4. ASSUME NEW i \in wire, SwitchForward(i) \/ SwitchMiss(i) PROVE PathInv'
  BY <1>1, <1>4 DEF SwitchForward, SwitchMiss
<1>5. CASE UNCHANGED vars
  BY <1>1, <1>5 DEF vars
<1> QED
  BY <1>2, <1>3, <1>4, <1>5, MessagePaths, ControllerPaths, ConnectionPaths DEF Next

\* Once a client's switch redirects to a server, every flow behind it has been
\* ordered, and is installed or on its way but for those that went to a switch
\* without connection or were lost with one: whoever sends what beside new_lb.py,
\* whatever expires, whichever switches come and go.
THEOREM PathFollowsRedirect == Spec => []PathInstalled
<1>1. Init => PathInv
  <2> SUFFICES ASSUME Init PROVE PathInv
    OBVIOUS
  <2>1. \A d \in Switches : \A r : ~InstalledOrSent(d, r)
    BY DEF Init, InstalledOrSent
  <2>2. 1 .. 4 \subseteq Switches /\ {5, 6} \subseteq Switches
    BY DEF Switches
  <2> QED BY <2>1, <2>2 DEF PathInv
<1>2. IInv /\ PathInv => PathInstalled
  <2> SUFFICES ASSUME PathInv, NEW c \in Active, NEW r \in rules[Ingress(c)], r.packet.src = c,
                      r.setDst \in Servers, NEW x \in Path(c, r.setDst)
               PROVE  Kept(x.dpid, HopRule(x, r))
    BY DEF PathInstalled, Redirects, Kept
  <2>1. Ingress(c) \in {5, 6} /\ InstalledOrSent(Ingress(c), r)
    BY DEF Ingress, InstalledOrSent
  <2> QED BY <2>1 DEF PathInv, Complete
<1>3. IInv /\ PathInv /\ [Next]_vars => PathInv'
  BY StepPaths
<1> QED
  BY <1>1, <1>2, <1>3, InitGood, StepGood, PTL DEF Spec
-----------------------------------------------------------------------------
(* The topology: where the ports of the predefined paths lead, and how far *)
(* the servers are from the clients.                                       *)

\* Numbers are counted link by link.
LEMMA Counted ==
  ASSUME NEW n, NEW i \in Attached(n)
  PROVE  IsFiniteSet({k \in Attached(n) : k <= i}) /\ Number(n, i) \in Nat /\ i \in Int
<1>1. Attached(n) \subseteq 1 .. 17
  BY DEF Attached, Links
<1>2. IsFiniteSet(1 .. 17)
  <2>1. 1 \in Int /\ 17 \in Int
    OBVIOUS
  <2> QED BY ONLY <2>1, FS_Interval
<1>3. {k \in Attached(n) : k <= i} \subseteq 1 .. 17
  BY <1>1
<1>4. IsFiniteSet({k \in Attached(n) : k <= i})
  BY <1>2, <1>3, FS_Subset
<1> QED BY <1>1, <1>4, FS_CardinalityType DEF Number

LEMMA NumberFirst ==
  ASSUME NEW n, NEW i \in Attached(n), \A k \in Attached(n) : k >= i
  PROVE  Number(n, i) = 1
<1>1. Attached(n) \subseteq Int
  BY Counted
<1>2. {k \in Attached(n) : k <= i} = {i}
  BY <1>1
<1> QED BY <1>2, FS_Singleton DEF Number

LEMMA NumberNext ==
  ASSUME NEW n, NEW j \in Attached(n), NEW i \in Attached(n), j < i,
         \A k \in Attached(n) : k <= j \/ k >= i
  PROVE  Number(n, i) = Number(n, j) + 1
<1> DEFINE A == {k \in Attached(n) : k <= j}
<1>1. Attached(n) \subseteq Int
  BY Counted
<1>2. {k \in Attached(n) : k <= i} = A \cup {i} /\ i \notin A
  BY <1>1
<1>3. IsFiniteSet(A)
  BY Counted
<1> HIDE DEF A
<1>4. Cardinality(A \cup {i}) = Cardinality(A) + 1
  BY <1>2, <1>3, FS_AddElement
<1> QED BY <1>2, <1>4 DEF Number, A

LEMMA NumberGrows ==
  ASSUME NEW n, NEW i \in Attached(n), NEW j \in Attached(n), i < j
  PROVE  Number(n, i) # Number(n, j)
<1> DEFINE A == {k \in Attached(n) : k <= i}
           B == {k \in Attached(n) : k <= j}
<1>1. Attached(n) \subseteq Int
  BY Counted
<1>2. A \subseteq B /\ j \in B /\ j \notin A
  BY <1>1
<1>3. IsFiniteSet(B)
  BY Counted
<1> HIDE DEF A, B
<1>4. Cardinality(A) # Cardinality(B)
  BY <1>2, <1>3, FS_Subset
<1> QED BY <1>4 DEF Number, A, B

\* The port that link i takes at switch d leads to its other end.
LEMMA PeerOfLink ==
  ASSUME NEW d \in Switches, NEW i \in Attached(s(d)), NEW p \in DOMAIN Peer[d], Number(s(d), i) = p
  PROVE  Peer[d][p] = OtherEnd(Links[i], s(d))
<1> DEFINE j == CHOOSE x \in Attached(s(d)) : Number(s(d), x) = p
<1>1. j \in Attached(s(d)) /\ Number(s(d), j) = p
  OBVIOUS
<1>2. Peer[d][p] = OtherEnd(Links[j], s(d))
  BY DEF Peer
<1> HIDE DEF j
<1>3. j = i
  <2>1. i \in Int /\ j \in Int
    BY <1>1, Counted
  <2>2. ~(i < j)
    BY <1>1, NumberGrows
  <2>3. ~(j < i)
    BY <1>1, NumberGrows
  <2> QED BY <2>1, <2>2, <2>3
<1> QED BY <1>2, <1>3

LEMMA AttachedTo ==
  /\ Attached(s(1)) = {1, 2, 9, 10, 15}
  /\ Attached(s(2)) = {9, 11, 13, 16, 17}
  /\ Attached(s(3)) = {3, 4, 10, 12, 16}
  /\ Attached(s(4)) = {11, 12, 14, 15}
  /\ Attached(s(5)) = {5, 6, 13}
  /\ Attached(s(6)) = {7, 8, 14}
BY DEF Attached, Links, s, h

\* The numbers of the links that new_lb.py's ports are at
LEMMA PortNumbers ==
  /\ Number(s(1), 1) = 1 /\ Number(s(1), 2) = 2
  /\ Number(s(2), 9) = 1 /\ Number(s(2), 11) = 2 /\ Number(s(2), 13) = 3 /\ Number(s(2), 16) = 4
  /\ Number(s(3), 3) = 1 /\ Number(s(3), 4) = 2
  /\ Number(s(4), 11) = 1 /\ Number(s(4), 12) = 2 /\ Number(s(4), 14) = 3 /\ Number(s(4), 15) = 4
  /\ Number(s(5), 5) = 1 /\ Number(s(5), 6) = 2 /\ Number(s(5), 13) = 3
  /\ Number(s(6), 7) = 1 /\ Number(s(6), 8) = 2 /\ Number(s(6), 14) = 3
<1>1. Number(s(1), 1) = 1 /\ Number(s(1), 2) = 2
  <2>1. Number(s(1), 1) = 1
    BY AttachedTo, NumberFirst
  <2>2. Number(s(1), 2) = Number(s(1), 1) + 1
    BY AttachedTo, NumberNext
  <2> QED BY <2>1, <2>2
<1>2. Number(s(2), 9) = 1 /\ Number(s(2), 11) = 2 /\ Number(s(2), 13) = 3 /\ Number(s(2), 16) = 4
  <2>1. Number(s(2), 9) = 1
    BY AttachedTo, NumberFirst
  <2>2. Number(s(2), 11) = Number(s(2), 9) + 1
    BY AttachedTo, NumberNext
  <2>3. Number(s(2), 13) = Number(s(2), 11) + 1
    BY AttachedTo, NumberNext
  <2>4. Number(s(2), 16) = Number(s(2), 13) + 1
    BY AttachedTo, NumberNext
  <2> QED BY <2>1, <2>2, <2>3, <2>4
<1>3. Number(s(3), 3) = 1 /\ Number(s(3), 4) = 2
  <2>1. Number(s(3), 3) = 1
    BY AttachedTo, NumberFirst
  <2>2. Number(s(3), 4) = Number(s(3), 3) + 1
    BY AttachedTo, NumberNext
  <2> QED BY <2>1, <2>2
<1>4. Number(s(4), 11) = 1 /\ Number(s(4), 12) = 2 /\ Number(s(4), 14) = 3 /\ Number(s(4), 15) = 4
  <2>1. Number(s(4), 11) = 1
    BY AttachedTo, NumberFirst
  <2>2. Number(s(4), 12) = Number(s(4), 11) + 1
    BY AttachedTo, NumberNext
  <2>3. Number(s(4), 14) = Number(s(4), 12) + 1
    BY AttachedTo, NumberNext
  <2>4. Number(s(4), 15) = Number(s(4), 14) + 1
    BY AttachedTo, NumberNext
  <2> QED BY <2>1, <2>2, <2>3, <2>4
<1>5. Number(s(5), 5) = 1 /\ Number(s(5), 6) = 2 /\ Number(s(5), 13) = 3
  <2>1. Number(s(5), 5) = 1
    BY AttachedTo, NumberFirst
  <2>2. Number(s(5), 6) = Number(s(5), 5) + 1
    BY AttachedTo, NumberNext
  <2>3. Number(s(5), 13) = Number(s(5), 6) + 1
    BY AttachedTo, NumberNext
  <2> QED BY <2>1, <2>2, <2>3
<1>6. Number(s(6), 7) = 1 /\ Number(s(6), 8) = 2 /\ Number(s(6), 14) = 3
  <2>1. Number(s(6), 7) = 1
    BY AttachedTo, NumberFirst
  <2>2. Number(s(6), 8) = Number(s(6), 7) + 1
    BY AttachedTo, NumberNext
  <2>3. Number(s(6), 14) = Number(s(6), 8) + 1
    BY AttachedTo, NumberNext
  <2> QED BY <2>1, <2>2, <2>3
<1> QED BY <1>1, <1>2, <1>3, <1>4, <1>5, <1>6

\* Where the ports that new_lb.py hard-codes lead
LEMMA PortLeads ==
  ASSUME NEW d \in Switches, NEW p \in DOMAIN Peer[d]
  PROVE  /\ d = 5 /\ p = 3 => Peer[d][p] = s(2)
         /\ d = 6 /\ p = 3 => Peer[d][p] = s(4)
         /\ d = 2 /\ p = 1 => Peer[d][p] = s(1)
         /\ d = 2 /\ p = 4 => Peer[d][p] = s(3)
         /\ d = 4 /\ p = 4 => Peer[d][p] = s(1)
         /\ d = 4 /\ p = 2 => Peer[d][p] = s(3)
         /\ d = 1 /\ p \in {1, 2} => Peer[d][p] = h(p)
         /\ d = 3 /\ p \in {1, 2} => Peer[d][p] = h(p + 2)
<1>1. CASE d = 5 /\ p = 3
  <2>1. OtherEnd(Links[13], s(5)) = s(2)
    BY DEF OtherEnd, Links, s, h
  <2> QED BY <1>1, <2>1, AttachedTo, PortNumbers, PeerOfLink
<1>2. CASE d = 6 /\ p = 3
  <2>1. OtherEnd(Links[14], s(6)) = s(4)
    BY DEF OtherEnd, Links, s, h
  <2> QED BY <1>2, <2>1, AttachedTo, PortNumbers, PeerOfLink
<1>3. CASE d = 2 /\ p = 1
  <2>1. OtherEnd(Links[9], s(2)) = s(1)
    BY DEF OtherEnd, Links, s, h
  <2> QED BY <1>3, <2>1, AttachedTo, PortNumbers, PeerOfLink
<1>4. CASE d = 2 /\ p = 4
  <2>1. OtherEnd(Links[16], s(2)) = s(3)
    BY DEF OtherEnd, Links, s, h
  <2> QED BY <1>4, <2>1, AttachedTo, PortNumbers, PeerOfLink
<1>5. CASE d = 4 /\ p = 4
  <2>1. OtherEnd(Links[15], s(4)) = s(1)
    BY DEF OtherEnd, Links, s, h
  <2> QED BY <1>5, <2>1, AttachedTo, PortNumbers, PeerOfLink
<1>6. CASE d = 4 /\ p = 2
  <2>1. OtherEnd(Links[12], s(4)) = s(3)
    BY DEF OtherEnd, Links, s, h
  <2> QED BY <1>6, <2>1, AttachedTo, PortNumbers, PeerOfLink
<1>7. CASE d = 1 /\ p = 1
  <2>1. OtherEnd(Links[1], s(1)) = h(1)
    BY DEF OtherEnd, Links, s, h
  <2> QED BY <1>7, <2>1, AttachedTo, PortNumbers, PeerOfLink
<1>8. CASE d = 1 /\ p = 2
  <2>1. OtherEnd(Links[2], s(1)) = h(2)
    BY DEF OtherEnd, Links, s, h
  <2> QED BY <1>8, <2>1, AttachedTo, PortNumbers, PeerOfLink
<1>9. CASE d = 3 /\ p = 1
  <2>1. OtherEnd(Links[3], s(3)) = h(3)
    BY DEF OtherEnd, Links, s, h
  <2> QED BY <1>9, <2>1, AttachedTo, PortNumbers, PeerOfLink
<1>10. CASE d = 3 /\ p = 2
  <2>1. OtherEnd(Links[4], s(3)) = h(4)
    BY DEF OtherEnd, Links, s, h
  <2> QED BY <1>10, <2>1, AttachedTo, PortNumbers, PeerOfLink
<1> QED BY <1>1, <1>2, <1>3, <1>4, <1>5, <1>6, <1>7, <1>8, <1>9, <1>10

\* Where the clients and the servers are attached
LEMMA Homes ==
  ASSUME NEW n \in Hosts
  PROVE  /\ n \in Clients => HomeOf(n) = Ingress(n)
         /\ n \in Servers => HomeOf(n) = IF n \in {1, 2} THEN 1 ELSE 3
<1> DEFINE At(d) == \E i \in DOMAIN Links : Links[i] \in {<<h(n), s(d)>>, <<s(d), h(n)>>}
<1>1. \A d \in Switches : At(d) /\ n # VIP =>
        d = IF n \in {1, 2} THEN 1 ELSE IF n \in {3, 4} THEN 3 ELSE IF n \in {5, 6} THEN 5 ELSE 6
  <2> SUFFICES ASSUME NEW d \in Switches, n # VIP, NEW i \in DOMAIN Links,
                      Links[i] \in {<<h(n), s(d)>>, <<s(d), h(n)>>}
               PROVE  d = IF n \in {1, 2} THEN 1 ELSE IF n \in {3, 4} THEN 3
                          ELSE IF n \in {5, 6} THEN 5 ELSE 6
    OBVIOUS
  <2>1. DOMAIN Links = 1 .. 17
    BY DEF Links
  <2>2. CASE i \in 1 .. 8
    BY <2>2 DEF Links, h, s, VIP
  <2>3. CASE i \in 9 .. 17
    BY <2>3 DEF Links, h, s, VIP
  <2> QED BY <2>1, <2>2, <2>3
<1>2. HomeOf(n) \in Switches /\ At(HomeOf(n))
  BY HasHome
<1> HIDE DEF At
<1> QED BY <1>1, <1>2 DEF Clients, Servers, VIP, Ingress

\* The links of the predefined paths
LEMMA Cables ==
  /\ \A e \in Switches : e \in Neighbours(5) <=> e = 2
  /\ \A e \in Switches : e \in Neighbours(6) <=> e = 4
  /\ {1, 3} \subseteq Neighbours(2) /\ {1, 3} \subseteq Neighbours(4)
<1>1. \A e \in Switches : (\E i \in DOMAIN Links : Links[i] \in {<<s(5), s(e)>>, <<s(e), s(5)>>}) <=> e = 2
  BY DEF Links, h, s
<1>2. \A e \in Switches : (\E i \in DOMAIN Links : Links[i] \in {<<s(6), s(e)>>, <<s(e), s(6)>>}) <=> e = 4
  BY DEF Links, h, s
<1>3. /\ Links[9] = <<s(1), s(2)>> /\ Links[16] = <<s(2), s(3)>>
      /\ Links[15] = <<s(1), s(4)>> /\ Links[12] = <<s(3), s(4)>> /\ DOMAIN Links = 1 .. 17
  BY DEF Links
<1>4. 1 \in Switches /\ 3 \in Switches
  BY DEF Switches
<1> QED BY <1>1, <1>2, <1>3, <1>4 DEF Neighbours

\* From a client's switch to a server's it takes two links.
LEMMA TwoLinks ==
  ASSUME NEW d \in {5, 6}, NEW e \in {1, 3}
  PROVE  Distance(d, e) = 2
<1> DEFINE mid == IF d = 5 THEN 2 ELSE 4
           Shortest(k) == /\ \E w \in [0 .. k -> Switches] : Leads(w, k, d, e)
                          /\ \A j \in 0 .. k - 1 : \A w \in [0 .. j -> Switches] : ~Leads(w, j, d, e)
<1>1. ASSUME NEW w \in [0 .. 0 -> Switches] PROVE ~Leads(w, 0, d, e)
  BY DEF Leads
<1>2. ASSUME NEW w \in [0 .. 1 -> Switches] PROVE ~Leads(w, 1, d, e)
  <2>1. e \notin Neighbours(d) /\ 1 \in 1 .. 1
    BY Cables DEF Switches
  <2> QED BY <2>1 DEF Leads
<1>3. \E w \in [0 .. 2 -> Switches] : Leads(w, 2, d, e)
  <2> DEFINE w == [j \in 0 .. 2 |-> IF j = 0 THEN d ELSE IF j = 1 THEN mid ELSE e]
  <2>1. mid \in Switches /\ d \in Switches /\ e \in Switches
    BY DEF Switches
  <2>2. mid \in Neighbours(d) /\ e \in Neighbours(mid)
    BY <2>1, Cables
  <2>3. w \in [0 .. 2 -> Switches] /\ w[0] = d /\ w[1] = mid /\ w[2] = e
    BY <2>1
  <2> HIDE DEF w, mid
  <2>4. \A j \in 1 .. 2 : w[j] \in Neighbours(w[j - 1])
    <3>1. w[1] \in Neighbours(w[1 - 1]) /\ w[2] \in Neighbours(w[2 - 1])
      BY <2>2, <2>3
    <3>2. \A j \in 1 .. 2 : j = 1 \/ j = 2
      OBVIOUS
    <3> HIDE DEF w
    <3> QED BY <3>1, <3>2
  <2> QED BY <2>3, <2>4 DEF Leads
<1> HIDE DEF mid
<1>4. \A j \in 0 .. 1 : \A w \in [0 .. j -> Switches] : ~Leads(w, j, d, e)
  <2>1. \A j \in 0 .. 1 : j = 0 \/ j = 1
    OBVIOUS
  <2> QED BY <1>1, <1>2, <2>1
<1>5. Shortest(2)
  <2>1. 2 - 1 = 1
    OBVIOUS
  <2> QED BY <1>3, <1>4, <2>1
<1>6. \A k \in 0 .. 5 : Shortest(k) => k = 2
  <2> SUFFICES ASSUME NEW k \in 0 .. 5, Shortest(k) PROVE k = 2
    OBVIOUS
  <2>1. k \notin 0 .. 1
    BY <1>4
  <2>2. 2 \notin 0 .. k - 1
    BY <1>3
  <2> QED BY <2>1, <2>2
<1>7. Distance(d, e) = CHOOSE k \in 0 .. 5 : Shortest(k)
  BY DEF Distance
<1> HIDE DEF Shortest
<1> QED BY <1>5, <1>6, <1>7
-----------------------------------------------------------------------------
(* ShortestPath, for new_lb.py alone.                                      *)

\* The switches after the client's: behind it, and the server's own
Second(c) == IF c \in {5, 6} THEN 2 ELSE 4
Last(server) == IF server \in {1, 2} THEN 1 ELSE 3

\* A rule for packets towards a server is the redirection at the client's switch
\* or a hop of the path.
RuleOnRoute(d, r) ==
  \/ d = Ingress(r.packet.src) /\ r.packet.dst = VIP /\ r.setDst \in Servers /\ r.out = {3}
  \/ OnPath(d, r) /\ r.packet.dst = r.setDst

\* Such a packet is where it entered and not redirected yet, or redirected and
\* as far along the path as its trail says.
OnRoute(i) ==
  /\ i.origin \in Clients /\ i.packet.src = i.origin
  /\ \/ i.packet.dst = VIP /\ i.at = Ingress(i.origin) /\ i.trail = {}
     \/ /\ i.packet.dst \in Servers /\ i.at = Second(i.origin)
        /\ \E p : i.trail = {<<Ingress(i.origin), p>>}
     \/ /\ i.packet.dst \in Servers /\ i.at = Last(i.packet.dst)
        /\ \E p, q : i.trail = {<<Ingress(i.origin), p>>, <<Second(i.origin), q>>}

Arrived(a) == a.host \in Servers => a.origin \in Clients /\ a.hops = 3

RouteInv ==
  /\ \A d \in Switches : \A k \in DOMAIN down[d] : down[d][k].release = {}
  /\ \A d \in Switches : \A r : InstalledOrSent(d, r) /\ r.packet.dport = iperf => RuleOnRoute(d, r)
  /\ \A i \in wire : i.packet.dport = iperf => OnRoute(i)
  /\ \A a \in accepted : Arrived(a)

\* The hops of a path lead along it.
LEMMA HopLeads ==
  ASSUME NEW c \in Clients, NEW server \in Servers, NEW x \in Path(c, server),
         x.out \in DOMAIN Peer[x.dpid]
  PROVE  \/ x.dpid = Second(c) /\ Peer[x.dpid][x.out] = s(Last(server))
         \/ x.dpid = Last(server) /\ Peer[x.dpid][x.out] = h(server)
<1>1. x.dpid \in Switches
  BY Hops DEF Switches
<1>2. \/ x.dpid = 2 /\ Second(c) = 2 /\ ((x.out = 1 /\ Last(server) = 1) \/ (x.out = 4 /\ Last(server) = 3))
      \/ x.dpid = 4 /\ Second(c) = 4 /\ ((x.out = 4 /\ Last(server) = 1) \/ (x.out = 2 /\ Last(server) = 3))
      \/ x.dpid = 1 /\ Last(server) = 1 /\ x.out \in {1, 2} /\ server = x.out
      \/ x.dpid = 3 /\ Last(server) = 3 /\ x.out \in {1, 2} /\ server = x.out + 2
  <2>1. server = 1 \/ server = 2 \/ server = 3 \/ server = 4
    BY DEF Servers
  <2> QED BY <2>1 DEF Path, FromS5, FromS6, Hop, Second, Last
<1> QED BY <1>1, <1>2, PortLeads

\* Where a packet on its route goes under a rule for it.
LEMMA Forwarded ==
  ASSUME NEW i \in AnyItem, i.packet.dport = iperf, OnRoute(i),
         NEW r \in AnyRule, RuleOnRoute(i.at, r), r.packet = i.packet, GoodRule(r),
         NEW p, p = Rewrite(i.packet, r)
  PROVE  /\ \A j \in ToSwitches(i, p, r.out) : OnRoute(j)
         /\ \A a \in ToHosts(i, p, r.out) : Arrived(a)
<1> DEFINE c == i.origin
<1>1. /\ p.src = c /\ p.dst = r.setDst /\ r.setDst \in Servers
      /\ c \in Clients /\ i.packet.src = c /\ i.at \in Switches
  <2>1. r.setDst \in Servers
    BY DEF RuleOnRoute, OnPath
  <2>2. r.setSrc = NoHost /\ r.setDst # NoHost
    BY <2>1, Numbers DEF GoodRule
  <2> QED BY <2>1, <2>2 DEF OnRoute, Rewrite, AnyItem, AnyRule, Packet
<1>2. \A o \in OutPorts(i, {3}) : o = 3 /\ o \in DOMAIN Peer[i.at]
  BY DEF OutPorts, FLOOD
<1>3. \A n, m : s(n) # h(m) /\ (s(n) = s(m) => n = m) /\ (h(n) = h(m) => n = m)
  BY DEF s, h
<1>4. \A j \in ToSwitches(i, p, r.out) :
        /\ j.origin = c /\ j.packet = p /\ j.trail = i.trail \cup {<<i.at, i.port>>}
        /\ j.at \in Switches /\ \E o \in OutPorts(i, r.out) : Peer[i.at][o] = s(j.at)
  BY DEF ToSwitches, Item
<1>5. \A a \in ToHosts(i, p, r.out) :
        /\ a.origin = c /\ a.host = p.dst /\ a.hops = Cardinality(i.trail) + 1
        /\ \E o \in OutPorts(i, r.out) : Peer[i.at][o] = h(p.dst)
  BY DEF ToHosts
<1>6. CASE i.at = Ingress(c) /\ i.packet.dst = VIP /\ i.trail = {} /\ r.out = {3}
  <2>1. \A o \in OutPorts(i, r.out) : Peer[i.at][o] = s(Second(c))
    BY <1>1, <1>2, <1>6, PortLeads DEF Ingress, Second
  <2>2. i.trail \cup {<<i.at, i.port>>} = {<<Ingress(c), i.port>>}
    BY <1>6
  <2>3. \A j \in ToSwitches(i, p, r.out) : OnRoute(j)
    BY <1>1, <1>3, <1>4, <2>1, <2>2 DEF OnRoute
  <2>4. ToHosts(i, p, r.out) = {}
    BY <1>3, <1>5, <2>1
  <2> QED BY <2>3, <2>4
<1>7. ASSUME OnPath(i.at, r), i.packet.dst = r.setDst
      PROVE  /\ \A j \in ToSwitches(i, p, r.out) : OnRoute(j)
             /\ \A a \in ToHosts(i, p, r.out) : Arrived(a)
  <2>1. PICK x \in Path(c, r.setDst) : x.dpid = i.at /\ r.out = {x.out}
    BY <1>1, <1>7 DEF OnPath, Redirect
  <2>2. \A o \in OutPorts(i, r.out) : o = x.out /\ o \in DOMAIN Peer[i.at]
    <3>1. x.out # FLOOD
      BY <1>1, PathHops DEF FLOOD
    <3> QED BY <2>1, <3>1 DEF OutPorts
  <2>3. Second(c) \in {2, 4} /\ Last(r.setDst) \in {1, 3} /\ Ingress(c) \in {5, 6} /\ VIP \notin Servers
    BY Numbers DEF Second, Last, Ingress
  <2>4. CASE i.at = Second(c)
    <3>0. i.packet.dst # VIP /\ i.at # Last(i.packet.dst)
      BY <1>1, <1>7, <2>3, <2>4
    <3>1. PICK q : i.trail = {<<Ingress(c), q>>}
      BY <3>0 DEF OnRoute
    <3>2. \A o \in OutPorts(i, r.out) : Peer[i.at][o] = s(Last(r.setDst))
      BY <1>1, <2>1, <2>2, <2>3, <2>4, HopLeads
    <3>3. i.trail \cup {<<i.at, i.port>>} = {<<Ingress(c), q>>, <<Second(c), i.port>>}
      BY <2>4, <3>1
    <3>4. \A j \in ToSwitches(i, p, r.out) : OnRoute(j)
      <4> SUFFICES ASSUME NEW j \in ToSwitches(i, p, r.out) PROVE OnRoute(j)
        OBVIOUS
      <4>1. j.origin = c /\ j.packet = p /\ j.trail = {<<Ingress(c), q>>, <<Second(c), i.port>>}
        BY <1>4, <3>3
      <4>2. j.at = Last(r.setDst)
        BY <1>3, <1>4, <3>2
      <4> QED BY <1>1, <4>1, <4>2 DEF OnRoute
    <3>5. ToHosts(i, p, r.out) = {}
      BY <1>3, <1>5, <3>2
    <3> QED BY <3>4, <3>5
  <2>5. CASE i.at # Second(c)
    <3>1. i.at = Last(r.setDst)
      BY <1>1, <1>7, <2>3, <2>5 DEF OnRoute
    <3>2. PICK q, t : i.trail = {<<Ingress(c), q>>, <<Second(c), t>>}
      BY <1>1, <1>7, <2>3, <2>5 DEF OnRoute
    <3>3. Cardinality(i.trail) = 2
      <4> DEFINE one == <<Ingress(c), q>>
                 two == <<Second(c), t>>
      <4>1. one # two
        BY <2>3
      <4>2. i.trail = {one} \cup {two}
        BY <3>2
      <4> HIDE DEF one, two
      <4>3. IsFiniteSet({one}) /\ Cardinality({one}) = 1 /\ two \notin {one}
        BY <4>1, FS_Singleton
      <4>4. Cardinality({one} \cup {two}) = Cardinality({one}) + 1
        BY <4>3, FS_AddElement
      <4> QED BY <4>2, <4>3, <4>4
    <3>4. \A o \in OutPorts(i, r.out) : Peer[i.at][o] = h(r.setDst)
      BY <1>1, <2>1, <2>2, <2>5, HopLeads
    <3>5. ToSwitches(i, p, r.out) = {}
      BY <1>3, <1>4, <3>4
    <3>6. \A a \in ToHosts(i, p, r.out) : Arrived(a)
      BY <1>1, <1>5, <3>3 DEF Arrived
    <3> QED BY <3>5, <3>6
  <2> QED BY <2>4, <2>5
<1> QED
  BY <1>1, <1>6, <1>7, Numbers DEF OnRoute, RuleOnRoute

\* What new_lb.py sends for a packet towards a server lies on the route.
LEMMA BalancerOnRoute ==
  ASSUME hash \in [Clients -> Servers], NEW i \in AnyItem, Good(i.packet), NEW d,
         NEW k \in DOMAIN BalancerSends(d, i), NEW r \in BalancerSends(d, i)[k].install,
         r.packet.dport = iperf
  PROVE  RuleOnRoute(d, r)
<1> DEFINE p == i.packet
           server == hash[p.src]
           sent == HandlePacketIn(i.at, i.port, p, hash)
<1>0. p \in Packet
  BY DEF AnyItem
<1>1. PICK m \in sent : m.dpid = d /\ r = m.rule
  BY BalancerSent DEF Handled
<1>2. CASE m \in HandleFromServer(p, i.port, i.at) /\ p.src \in Servers
  <2>1. r.packet = p
    BY <1>1, <1>2 DEF HandleFromServer, Mod, Restore
  <2> QED BY <1>2, <2>1, Numbers DEF Good
<1>3. CASE p.dst = VIP /\ m \in HandleToVip(p, i.port, server) /\ p.src \in Clients
  <2>1. server \in Servers
    BY <1>3
  <2>2. CASE m = Mod(Ingress(p.src), Redirect(i.port, p, server, 3))
    BY <1>1, <1>3, <2>1, <2>2 DEF Mod, Redirect, RuleOnRoute
  <2>3. ASSUME NEW x \in Path(p.src, server),
               m = Mod(x.dpid, Redirect(x.in, [p EXCEPT !.dst = server], server, x.out))
        PROVE  RuleOnRoute(d, r)
    <3>1. [p EXCEPT !.dst = server].src = p.src /\ [p EXCEPT !.dst = server].dst = server
      BY <1>0 DEF Packet
    <3>2. d = x.dpid /\ r = Redirect(x.in, [p EXCEPT !.dst = server], server, x.out)
      BY <1>1, <2>3 DEF Mod
    <3>3. r.packet = [p EXCEPT !.dst = server] /\ r.setDst = server
      BY <3>2 DEF Redirect
    <3>4. r = Redirect(x.in, r.packet, r.setDst, x.out)
      BY <3>2, <3>3
    <3> QED BY <2>1, <3>1, <3>2, <3>3, <3>4 DEF OnPath, RuleOnRoute
  <2> QED BY <1>3, <2>2, <2>3 DEF HandleToVip
<1> QED BY <1>2, <1>3 DEF HandlePacketIn, HandleToVip

\* What a step has to keep.
LEMMA RouteKept ==
  ASSUME RouteInv, hash' = hash,
         \A d \in Switches : \A k \in DOMAIN down'[d] : down'[d][k].release = {},
         \A d \in Switches : \A r :
           InstalledOrSent(d, r)' /\ r.packet.dport = iperf => InstalledOrSent(d, r) \/ RuleOnRoute(d, r),
         \A i \in wire' : i \in wire \/ (i.packet.dport = iperf => OnRoute(i)),
         \A a \in accepted' : a \in accepted \/ Arrived(a)
  PROVE  RouteInv'
<1>1. \A d, r : RuleOnRoute(d, r)' <=> RuleOnRoute(d, r)
  BY DEF RuleOnRoute, OnPath
<1>2. \A i : OnRoute(i)' <=> OnRoute(i)
  BY DEF OnRoute
<1>3. \A a : Arrived(a)' <=> Arrived(a)
  BY DEF Arrived
<1> QED BY <1>1, <1>2, <1>3 DEF RouteInv

LEMMA HostSendsOnRoute ==
  ASSUME RouteInv, NEW n, NEW p, HostSends(n, p), p.dport = iperf => OnRoute(Inject(n, p))
  PROVE  RouteInv'
<1>1. /\ wire' = wire \cup {Inject(n, p)}
      /\ UNCHANGED <<hash, rules, down, accepted>>
  BY DEF HostSends
<1>2. Inject(n, p).packet = p
  BY DEF Inject, Item
<1>3. \A d, r : InstalledOrSent(d, r)' <=> InstalledOrSent(d, r)
  BY <1>1 DEF InstalledOrSent
<1> QED BY <1>1, <1>2, <1>3, RouteKept DEF RouteInv

LEMMA ForwardOnRoute ==
  ASSUME IInv, RouteInv, NEW i \in wire, SwitchForward(i)
  PROVE  RouteInv'
<1>1. PICK r \in Best(i) : Emit(wire \ {i}, i, Rewrite(i.packet, r), r.out)
  BY DEF SwitchForward
<1> DEFINE p == Rewrite(i.packet, r)
<1>2. i \in AnyItem /\ i.at \in Switches /\ i.packet \in Packet /\ Good(i.packet)
  BY DEF IInv, Shape, Consistent, AnyItem, GoodFrom
<1>3. r \in AnyRule /\ GoodRule(r) /\ r.packet = i.packet /\ InstalledOrSent(i.at, r)
  BY <1>2 DEF Best, Hits, Covers, IInv, Shape, Consistent, InstalledOrSent
<1>4. /\ wire' = (wire \ {i}) \cup ToSwitches(i, p, r.out)
      /\ accepted' = accepted \cup ToHosts(i, p, r.out)
      /\ UNCHANGED <<hash, rules, down>>
  BY <1>1 DEF Emit, SwitchForward
<1>5. \A d, q : InstalledOrSent(d, q)' <=> InstalledOrSent(d, q)
  BY <1>4 DEF InstalledOrSent
<1>6. CASE i.packet.dport = iperf
  <2>1. OnRoute(i) /\ RuleOnRoute(i.at, r)
    BY <1>2, <1>3, <1>6 DEF RouteInv
  <2>2. /\ \A j \in ToSwitches(i, p, r.out) : OnRoute(j)
        /\ \A a \in ToHosts(i, p, r.out) : Arrived(a)
    BY <1>2, <1>3, <1>6, <2>1, Forwarded
  <2> HIDE DEF p
  <2> QED BY <1>4, <1>5, <2>2, RouteKept DEF RouteInv
<1>7. CASE i.packet.dport # iperf
  <2>1. p.dport = i.packet.dport /\ p.dst = i.packet.dst
    BY <1>2, <1>3, <1>7 DEF Rewrite, Packet, GoodRule
  <2>2. p.dst \notin Servers
    BY <1>2, <1>7, <2>1, Numbers DEF Good
  <2> HIDE DEF p
  <2>3. \A j \in ToSwitches(i, p, r.out) : j.packet = p
    BY DEF ToSwitches, Item
  <2>4. \A a \in ToHosts(i, p, r.out) : Arrived(a)
    BY <2>2 DEF ToHosts, Arrived
  <2> QED BY <1>4, <1>5, <1>7, <2>1, <2>3, <2>4, RouteKept DEF RouteInv
<1> QED BY <1>6, <1>7

LEMMA MessageOnRoute ==
  ASSUME IInv, RouteInv, NEW d \in Switches, SwitchMessage(d)
  PROVE  RouteInv'
<1>1. down[d] \in Seq(AnyMessage) /\ down[d] # <<>> /\ DOMAIN down = Switches
  BY DEF IInv, Shape, SwitchMessage
<1>2. Head(down[d]).release = {}
  BY <1>1, QueueTail DEF RouteInv
<1>3. down' = [down EXCEPT ![d] = Tail(@)] /\ UNCHANGED <<hash, wire, accepted>>
  BY <1>2 DEF SwitchMessage
<1>4. \A k \in DOMAIN Tail(down[d]) : k + 1 \in DOMAIN down[d] /\ Tail(down[d])[k] = down[d][k + 1]
  BY <1>1, QueueTail
<1>5. \A e \in Switches : \A k \in DOMAIN down'[e] : down'[e][k].release = {}
  BY <1>1, <1>3, <1>4 DEF RouteInv
<1>6. \A e \in Switches : \A r : InstalledOrSent(e, r)' => InstalledOrSent(e, r)
  BY MessageSent
<1> QED BY <1>3, <1>5, <1>6, RouteKept

LEMMA ControllerOnRoute ==
  ASSUME ~L2Learning, IInv, RouteInv, NEW d \in Switches, ControllerPacketIn(d)
  PROVE  RouteInv'
<1> DEFINE i == Head(up[d])
<1>1. i \in AnyItem /\ Good(i.packet)
  BY ControllerSent
<1>2. UNCHANGED <<hash, wire, accepted>> /\ hash \in [Clients -> Servers]
  BY DEF ControllerPacketIn, IInv, Shape
<1>3. ASSUME NEW e \in Switches, NEW r, InstalledOrSent(e, r)', r.packet.dport = iperf
      PROVE  InstalledOrSent(e, r) \/ RuleOnRoute(e, r)
  <2>1. \/ InstalledOrSent(e, r)
        \/ \E k \in DOMAIN BalancerSends(e, i) : r \in BalancerSends(e, i)[k].install
    BY <1>3, ControllerSent
  <2> HIDE DEF i
  <2> QED BY <1>1, <1>2, <1>3, <2>1, BalancerOnRoute
<1>4. ASSUME NEW e \in Switches, NEW k \in DOMAIN down'[e] PROVE down'[e][k].release = {}
  <2>1. down'[e] = down[e] \o BalancerSends(e, i) \o <<>>
    BY DEF ControllerPacketIn
  <2>2. /\ down[e] \in Seq(AnyMessage) /\ <<>> \in Seq(AnyMessage)
        /\ \A x \in DOMAIN down[e] : down[e][x].release = {}
    BY DEF IInv, Shape, RouteInv
  <2>3. GoodFrom(i.packet, i.origin)
    <3>1. up[d] \in Seq(AnyItem) /\ up[d] # <<>>
      BY DEF IInv, Shape, ControllerPacketIn
    <3> QED BY <3>1, QueueTail DEF IInv, Consistent
  <2> HIDE DEF i
  <2>4. BalancerSends(e, i) \in Seq(AnyMessage)
    BY <1>1, <1>2, <2>3, BalancerGood
  <2>5. \A x \in DOMAIN BalancerSends(e, i) : BalancerSends(e, i)[x].release = {}
    BY DEF BalancerSends, Handled, FlowMod
  <2> QED BY <1>4, <2>1, <2>2, <2>4, <2>5, ConcatProperties
<1> HIDE DEF i
<1> QED BY <1>2, <1>3, <1>4, RouteKept

LEMMA ConnectionOnRoute ==
  ASSUME IInv, RouteInv, NEW d \in Switches,
         Connect(d) \/ Disconnect(d) \/ \E r \in rules[d] : Expire(d, r)
  PROVE  RouteInv'
<1>1. DOMAIN rules = Switches /\ DOMAIN down = Switches
  BY DEF IInv, Shape
<1>2. UNCHANGED <<hash, wire, accepted>>
  BY DEF Connect, Disconnect, Expire
<1>3. \A e \in Switches : rules'[e] \subseteq rules[e] /\ (down'[e] = down[e] \/ down'[e] = <<>>)
  BY <1>1 DEF Connect, Disconnect, Expire
<1>4. \A e \in Switches : \A r : InstalledOrSent(e, r)' => InstalledOrSent(e, r)
  BY <1>3 DEF InstalledOrSent
<1>5. \A e \in Switches : \A k \in DOMAIN down'[e] : down'[e][k].release = {}
  BY <1>3 DEF RouteInv
<1> QED BY <1>2, <1>4, <1>5, RouteKept

LEMMA StepOnRoute == ~L2Learning /\ IInv /\ RouteInv /\ [Next]_vars => RouteInv'
<1> SUFFICES ASSUME ~L2Learning, IInv, RouteInv, [Next]_vars PROVE RouteInv'
  OBVIOUS
<1>1. ASSUME NEW c \in Clients, NEW port \in Ephemeral, Send(c, port) PROVE RouteInv'
  <2>1. OnRoute(Inject(c, Request(c, port)))
    BY Homes, Numbers DEF OnRoute, Inject, Item, Request
  <2> QED BY <1>1, <2>1, HostSendsOnRoute DEF Send
<1>2. ASSUME NEW a \in accepted, Reply(a) PROVE RouteInv'
  <2>1. Answer(a.packet).dport # iperf
    BY <1>2 DEF Answer, Reply, IInv, Consistent, GoodFrom, Good
  <2> QED BY <1>2, <2>1, HostSendsOnRoute DEF Reply
<1>3. ASSUME NEW i \in wire, SwitchMiss(i) PROVE RouteInv'
  <2>1. UNCHANGED <<hash, rules, down, accepted>> /\ wire' \subseteq wire
    BY <1>3 DEF SwitchMiss
  <2>2. \A d, r : InstalledOrSent(d, r)' <=> InstalledOrSent(d, r)
    BY <2>1 DEF InstalledOrSent
  <2> QED BY <2>1, <2>2, RouteKept DEF RouteInv
<1>4. CASE UNCHANGED vars
  <2>1. \A d, r : InstalledOrSent(d, r)' <=> InstalledOrSent(d, r)
    BY <1>4 DEF vars, InstalledOrSent
  <2> QED BY <1>4, <2>1, RouteKept DEF vars, RouteInv
<1> QED
  BY <1>1, <1>2, <1>3, <1>4, ForwardOnRoute, MessageOnRoute, ControllerOnRoute, ConnectionOnRoute
     DEF Next

\* Under new_lb.py alone every request a server accepts has come the shortest way
\* from its client, whatever is lost, reconnected, or delivered late: the port
\* numbers the predefined paths are made of are those topology.py's links get.
THEOREM PredefinedPathsShortest == ~L2Learning => (Spec => []ShortestPath)
<1> SUFFICES ASSUME ~L2Learning PROVE Spec => []ShortestPath
  OBVIOUS
<1>1. Init => RouteInv
  BY DEF Init, RouteInv, InstalledOrSent
<1>2. IInv /\ RouteInv => ShortestPath
  <2> SUFFICES ASSUME IInv, RouteInv, NEW a \in accepted, a.host \in Servers
               PROVE  a.hops = 1 + Distance(HomeOf(a.origin), HomeOf(a.host))
    BY DEF ShortestPath
  <2>1. a.origin \in Clients /\ a.hops = 3
    BY DEF RouteInv, Arrived
  <2>2. HomeOf(a.origin) \in {5, 6} /\ HomeOf(a.host) \in {1, 3}
    BY <2>1, Homes, Numbers DEF Ingress
  <2> QED BY <2>1, <2>2, TwoLinks
<1> QED
  BY <1>1, <1>2, InitGood, StepGood, StepOnRoute, PTL DEF Spec
=============================================================================
