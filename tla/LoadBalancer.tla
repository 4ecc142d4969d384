---------------------------- MODULE LoadBalancer ----------------------------
(***************************************************************************)
(* The PacketIn handler of new_lb.py, as the flow_mods it sends.  A packet *)
(* names hosts by number, for the IP and the MAC address alike: every test *)
(* and every rewrite of new_lb.py treats the two together.                 *)
(***************************************************************************)
EXTENDS Topology

CONSTANT Ephemeral          \* the ports clients send from
iperf == 5001
ASSUME EphemeralAssumption == Ephemeral \subseteq Nat \ {iperf}

NoHost == 0                 \* no rewrite
AnyPort == 0                \* wildcarded in_port

Packet == [src : Hosts, dst : Hosts, sport : Nat, dport : Nat]

\* Every rule here fixes the whole header.  A match that leaves no field out
\* (from_packet with a port) is exact and outranks all the others.
Rule == [inPort : Ports \cup {AnyPort}, packet : Packet, exact : BOOLEAN,
         setSrc : Hosts \cup {NoHost}, setDst : Hosts \cup {NoHost}, out : SUBSET Ports]

\* msg of install_flow
Redirect(inPort, p, server, out) ==
  [inPort |-> inPort, packet |-> p, exact |-> FALSE,
   setSrc |-> NoHost, setDst |-> server, out |-> {out}]

\* msg of _handle_from_server; a destination that is not a client of the
\* switch gets no output action, so its packets are dropped
Restore(inPort, p, out) ==
  [inPort |-> inPort, packet |-> p, exact |-> FALSE,
   setSrc |-> VIP, setDst |-> NoHost, out |-> out]

Hop(d, in, out) == [dpid |-> d, in |-> in, out |-> out]

\* The predefined paths behind the clients' switch, for servers 1 to 4
FromS5_mut ==    \* server 2 behind server 1's port
  << {Hop(2, 3, 1), Hop(1, 3, 1)}, {Hop(2, 3, 1), Hop(1, 3, 1)},
     {Hop(2, 3, 4), Hop(3, 5, 1)}, {Hop(2, 3, 4), Hop(3, 5, 2)} >>
FromS5_detour == \* server 1 by way of s3
  << {Hop(2, 3, 4), Hop(3, 5, 3), Hop(1, 4, 1)}, {Hop(2, 3, 1), Hop(1, 3, 2)},
     {Hop(2, 3, 4), Hop(3, 5, 1)}, {Hop(2, 3, 4), Hop(3, 5, 2)} >>
FromS5 == << {Hop(2, 3, 1), Hop(1, 3, 1)}, {Hop(2, 3, 1), Hop(1, 3, 2)},
             {Hop(2, 3, 4), Hop(3, 5, 1)}, {Hop(2, 3, 4), Hop(3, 5, 2)} >>
FromS6 == << {Hop(4, 3, 4), Hop(1, 5, 1)}, {Hop(4, 3, 4), Hop(1, 5, 2)},
             {Hop(4, 3, 2), Hop(3, 4, 1)}, {Hop(4, 3, 2), Hop(3, 4, 2)} >>

Ingress(c)       == IF c \in {5, 6} THEN 5 ELSE 6
Path(c, server)  == IF c \in {5, 6} THEN FromS5[server] ELSE FromS6[server]
Mod(d, rule)     == [dpid |-> d, rule |-> rule]

\* _handle_to_vip: the first switch is fixed by the client, not by the event
HandleToVip_mut(p, inPort, server) ==      \* rules rewrite to the next server
  LET next == (server % 4) + 1 IN
  IF p.src \notin Clients THEN {}
  ELSE {Mod(Ingress(p.src), Redirect(inPort, p, next, 3))} \cup
       {Mod(x.dpid, Redirect(x.in, [p EXCEPT !.dst = next], next, x.out)) :
          x \in Path(p.src, next)}
HandleToVip_short(p, inPort, server) ==    \* the server's own switch forgotten
  IF p.src \notin Clients THEN {}
  ELSE {Mod(Ingress(p.src), Redirect(inPort, p, server, 3))} \cup
       {Mod(x.dpid, Redirect(x.in, [p EXCEPT !.dst = server], server, x.out)) :
          x \in {y \in Path(p.src, server) : y.dpid \in {2, 4}}}
HandleToVip(p, inPort, server) ==
  IF p.src \notin Clients THEN {}
  ELSE {Mod(Ingress(p.src), Redirect(inPort, p, server, 3))} \cup
       {Mod(x.dpid, Redirect(x.in, [p EXCEPT !.dst = server], server, x.out)) :
          x \in Path(p.src, server)}

HandleFromServer(p, inPort, dpid) ==
  LET out == CASE dpid = 5 /\ p.dst = 5 -> {1}
               [] dpid = 5 /\ p.dst = 6 -> {2}
               [] dpid = 6 /\ p.dst = 7 -> {1}
               [] dpid = 6 /\ p.dst = 8 -> {2}
               [] OTHER -> {}
  IN  {Mod(dpid, Restore(inPort, p, out))}

\* _handle_PacketIn, for an IPv4 packet over TCP or UDP; hash is _hash(src, VIP)
HandlePacketIn(dpid, inPort, p, hash) ==
  IF iperf \notin {p.sport, p.dport} \/ dpid \notin {5, 6} THEN {}
  ELSE IF p.dst = VIP THEN HandleToVip(p, inPort, hash[p.src])
  ELSE IF p.src \in Servers THEN HandleFromServer(p, inPort, dpid)
  ELSE {}
=============================================================================
