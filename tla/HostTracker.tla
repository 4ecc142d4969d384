---------------------------- MODULE HostTracker ----------------------------
(***************************************************************************)
(* pox/host_tracker/host_tracker.py: an entry for every MAC address seen   *)
(* and, in it, one for every IP address it used; entries that were silent  *)
(* are pinged and, without an answer, dropped.  Time is counted in rounds  *)
(* of the timer, timerInterval.                                            *)
(***************************************************************************)
EXTENDS Integers, FiniteSets

CONSTANTS
  Hosts,        \* a host is its MAC address
  Ips,          \* a host's addresses
  Switches, Ports,
  MaxPackets,   \* bound on a host's packets under way
  ArpAware, ArpSilent,   \* rounds of silence before an entry expires
  PingLim,      \* PingCtrl.pingLim
  None

ASSUME HostTrackerAssumption ==
  /\ ArpAware \in Nat /\ ArpSilent \in Nat /\ ArpAware <= ArpSilent
  /\ PingLim \in Nat /\ MaxPackets \in Nat

Places == [dpid : Switches, port : Ports]    \* edge ports

MacEntry == [dpid : Switches, port : Ports, age : Nat]
IpEntry  == [age : Nat, hasARP : BOOLEAN, pending : Nat]

ASSUME NoneAssumption == None \notin Ips \cup Places \cup MacEntry \cup IpEntry

VARIABLES
  entry,    \* entryByMAC: where and how long ago the host was last seen
  ips,      \* ipAddrs, of all hosts
  prompt,   \* the hosts that answer pings, within a round, and stay connected
  movers,   \* the hosts that move
  place,    \* where the host is, or None
  up,       \* the connected switches
  pings,    \* ARP requests under way to a place
  packets   \* the hosts' packets under way to the controller

tables  == <<entry, ips>>
network == <<prompt, movers, place, up>>
vars == <<tables, network, pings, packets>>

NoIps == [ip \in Ips |-> None]
-----------------------------------------------------------------------------
(* _handle_openflow_PacketIn                                               *)

\* The entry of p's host; dpid follows a move, port does not (inport is set).
Located_mut(p) ==             \* without refresh
  IF entry[p.host] = None THEN [dpid |-> p.at.dpid, port |-> p.at.port, age |-> 0]
  ELSE [entry[p.host] EXCEPT !.dpid = p.at.dpid]
Located(p) ==
  [dpid |-> p.at.dpid, age |-> 0,
   port |-> IF entry[p.host] = None THEN p.at.port ELSE entry[p.host].port]

\* updateIPInfo.  An address first seen in an IP packet stays arpSilent.
UpdateIPInfo_mut(old, hasARP) ==   \* without pings.received
  IF old = None THEN [age |-> 0, hasARP |-> hasARP, pending |-> 0]
  ELSE [old EXCEPT !.age = 0]
UpdateIPInfo(old, hasARP) ==
  IF old = None THEN [age |-> 0, hasARP |-> hasARP, pending |-> 0]
  ELSE [old EXCEPT !.age = 0, !.pending = IF hasARP THEN 0 ELSE @]

PacketIn(p) ==
  /\ packets' = packets \ {p}
  /\ p.at.dpid \in up
  /\ entry' = [entry EXCEPT ![p.host] = Located(p)]
  /\ ips' = IF p.ip = None THEN ips
            ELSE [ips EXCEPT ![p.host][p.ip] = UpdateIPInfo(@, p.hasARP)]
  /\ UNCHANGED <<network, pings>>
-----------------------------------------------------------------------------
(* _check_timeouts, after a round                                          *)

\* An age counts until it is past the interval.
Older(e, interval) == [e EXCEPT !.age = IF @ > interval THEN @ ELSE @ + 1]

Interval(i) == IF i.hasARP THEN ArpAware ELSE ArpSilent
OlderIp(h, ip) == Older(ips[h][ip], Interval(ips[h][ip]))
Expired(h) == {ip \in Ips : ips[h][ip] # None /\ OlderIp(h, ip).age > Interval(ips[h][ip])}
Failed(h)  == {ip \in Expired(h) : ips[h][ip].pending > PingLim}
Pinged(h)  == Expired(h) \ Failed(h)

Silent(h) == entry[h] # None /\ Older(entry[h], ArpAware).age > ArpAware

\* sendToDPID succeeds; otherwise the address pinged is dropped.
Reachable(h) == entry[h].dpid \in up

Leaves_mut(h) == Silent(h)    \* pinged or not
Leaves(h) == Silent(h) /\ Pinged(h) = {}

\* sendPing counts a ping and its caller counts it again.
Counted_mut(i) == i           \* not at all
Counted(i) == [i EXCEPT !.pending = @ + 2]

CheckedIp(h, ip) ==
  CASE ips[h][ip] = None \/ ip \in Failed(h) \/ Leaves(h) -> None
    [] ip \in Pinged(h) /\ Reachable(h) -> Counted(OlderIp(h, ip))
    [] ip \in Pinged(h) /\ ~Reachable(h) -> None
    [] OTHER -> OlderIp(h, ip)

SendPings(h) ==
  {[host |-> h, ip |-> ip, at |-> [dpid |-> entry[h].dpid, port |-> entry[h].port]] :
     ip \in {i \in Pinged(h) : Reachable(h)}}

CheckTimeouts ==
  /\ entry' = [h \in Hosts |-> IF entry[h] = None \/ Leaves(h) THEN None ELSE Older(entry[h], ArpAware)]
  /\ ips' = [h \in Hosts |-> [ip \in Ips |-> CheckedIp(h, ip)]]
  /\ pings' = pings \cup UNION {SendPings(h) : h \in Hosts}

\* A ping does not take a round to arrive; the packets of prompt hosts neither.
Tick ==
  /\ pings = {} /\ \A p \in packets : p.host \notin prompt
  /\ CheckTimeouts
  /\ UNCHANGED <<network, packets>>
-----------------------------------------------------------------------------
(* The network, which is not ours.                                         *)

\* A host that is there sends a packet, with one of its addresses or without.
Emit(h) ==
  /\ place[h] # None
  /\ Cardinality({p \in packets : p.host = h}) < MaxPackets
  /\ \E ip \in Ips \cup {None}, hasARP \in BOOLEAN :
       /\ ip = None => ~hasARP
       /\ packets' = packets \cup {[host |-> h, ip |-> ip, hasARP |-> hasARP, at |-> place[h]]}
  /\ UNCHANGED <<tables, network, pings>>

\* A ping reaches its host, if that is where it was sent, and is answered; the
\* answers of a host that is not prompt are bounded like its other packets.
Answers(q) ==
  /\ place[q.host] = q.at
  /\ q.host \in prompt \/ Cardinality({p \in packets : p.host = q.host}) <= MaxPackets
Answer(q) ==
  /\ pings' = pings \ {q}
  /\ packets' = IF Answers(q)
                THEN packets \cup {[host |-> q.host, ip |-> q.ip, hasARP |-> TRUE, at |-> q.at]}
                ELSE packets
  /\ UNCHANGED <<tables, network>>

\* Pings to other hosts, and their packets, may be lost.
Lose(h) ==
  /\ h \notin prompt
  /\ \/ \E q \in pings : q.host = h /\ pings' = pings \ {q} /\ UNCHANGED packets
     \/ \E p \in packets : p.host = h /\ packets' = packets \ {p} /\ UNCHANGED pings
  /\ UNCHANGED <<tables, network>>

\* A host moves or disappears for good.
Move(h, to) ==
  /\ place[h] \notin {None, to}
  /\ to # None => h \in movers /\ (h \in prompt => to.dpid \in up)
  /\ to = None => h \notin prompt
  /\ place' = [place EXCEPT ![h] = to]
  /\ UNCHANGED <<tables, up, prompt, movers, pings, packets>>

\* A switch is lost or comes back.
Flap(s) ==
  /\ \A h \in prompt : place[h] # None => place[h].dpid # s
  /\ up' = IF s \in up THEN up \ {s} ELSE up \cup {s}
  /\ UNCHANGED <<tables, place, prompt, movers, pings, packets>>
-----------------------------------------------------------------------------
Init ==
  /\ entry = [h \in Hosts |-> None] /\ ips = [h \in Hosts |-> NoIps]
  /\ prompt \in SUBSET Hosts /\ movers \in SUBSET Hosts /\ place \in [Hosts -> Places]
  /\ up = Switches /\ pings = {} /\ packets = {}

\* What is under way from or to h arrives or is lost.
Deliver(h) ==
  \/ \E p \in packets : p.host = h /\ PacketIn(p)
  \/ \E q \in pings : q.host = h /\ Answer(q)
  \/ Lose(h)

Next ==
  \/ Tick
  \/ \E h \in Hosts :
       \/ Deliver(h) \/ Emit(h)
       \/ \E to \in Places \cup {None} : Move(h, to)
  \/ \E s \in Switches : Flap(s)

Spec == Init /\ [][Next]_vars
=============================================================================
