-------------------------- MODULE HostTrackerProofs --------------------------
(***************************************************************************)
(* What HostTracker knows of its hosts, for any number of hosts, addresses *)
(* and switches, any timeouts and any PingCtrl.pingLim.                    *)
(***************************************************************************)
EXTENDS HostTrackerProps, TLAPS

PingType == [host : Hosts, ip : Ips, at : Places]
PacketType == [host : Hosts, ip : Ips \cup {None}, hasARP : BOOLEAN, at : Places]

TypeInv ==
  /\ entry \in [Hosts -> MacEntry \cup {None}]
  /\ ips \in [Hosts -> [Ips -> IpEntry \cup {None}]]
  /\ place \in [Hosts -> Places \cup {None}]
  /\ pings \subseteq PingType /\ packets \subseteq PacketType

\* A host that stays and answers: all it sends comes from where it is entered,
\* and an address has pings to answer only as long as one of them, or its
\* answer, is under way.  A round later it has none: it never fails.
UnderWay(h, ip) ==
  \/ \E q \in pings : q.host = h /\ q.ip = ip /\ q.at = place[h]
  \/ \E p \in packets : p.host = h /\ p.ip = ip /\ p.hasARP

Staying(h) ==
  /\ place[h] \in Places /\ place[h].dpid \in up
  /\ \A p \in packets : p.host = h => p.at = place[h]
  /\ entry[h] # None => entry[h].dpid = place[h].dpid /\ entry[h].port = place[h].port
  /\ \A ip \in Ips : ips[h][ip] # None /\ ips[h][ip].pending > 0 => UnderWay(h, ip)

AnsweringOK == \A h \in prompt \ movers : Staying(h)

IInv == TypeInv /\ Freshest /\ prompt \subseteq Hosts /\ AnsweringOK

LEMMA NoneProperties ==
  /\ None \notin Ips /\ None \notin Places /\ None \notin MacEntry /\ None \notin IpEntry
BY NoneAssumption

LEMMA EntryProperties ==
  ASSUME IInv, NEW h \in Hosts
  PROVE  /\ entry[h] \in MacEntry \cup {None} /\ ips[h] \in [Ips -> IpEntry \cup {None}]
         /\ \A ip \in Ips : ips[h][ip] \in IpEntry \cup {None}
         /\ entry[h] # None =>
              entry[h] \in MacEntry /\ entry[h].age \in Nat /\ entry[h].dpid \in Switches
              /\ entry[h].port \in Ports
         /\ \A ip \in Ips : ips[h][ip] # None =>
              /\ ips[h][ip] \in IpEntry /\ ips[h][ip].age \in Nat
              /\ ips[h][ip].pending \in Nat /\ ips[h][ip].hasARP \in BOOLEAN
              /\ entry[h] # None /\ entry[h].age <= ips[h][ip].age
BY DEF IInv, TypeInv, Freshest, MacEntry, IpEntry

LEMMA InitIInv == Init => IInv
<1> SUFFICES ASSUME Init PROVE IInv
  OBVIOUS
<1>1. TypeInv
  BY DEF Init, TypeInv, NoIps
<1>2. Freshest
  BY DEF Init, Freshest, NoIps
<1>3. ASSUME NEW h \in Hosts PROVE Staying(h)
  BY NoneProperties DEF Init, Staying, NoIps, Places
<1> QED BY <1>1, <1>2, <1>3 DEF IInv, AnsweringOK, Init

(***************************************************************************)
(* A packet: its host is entered where the packet came in, and the address *)
(* it carries is fresh.                                                    *)
(***************************************************************************)
LEMMA PacketInEffect ==
  ASSUME IInv, NEW p \in packets, PacketIn(p)
  PROVE  /\ p.host \in Hosts /\ p.at \in Places /\ p.ip \in Ips \cup {None}
         /\ entry' \in [Hosts -> MacEntry \cup {None}]
         /\ ips' \in [Hosts -> [Ips -> IpEntry \cup {None}]]
         /\ \A h \in Hosts \ {p.host} : entry'[h] = entry[h] /\ ips'[h] = ips[h]
         /\ entry'[p.host] = Located(p) /\ Located(p) \in MacEntry /\ Located(p).age = 0
         /\ \A ip \in Ips \ {p.ip} : ips'[p.host][ip] = ips[p.host][ip]
         /\ p.ip # None => /\ ips'[p.host][p.ip] = UpdateIPInfo(ips[p.host][p.ip], p.hasARP)
                           /\ ips'[p.host][p.ip] \in IpEntry
<1>1. /\ p.host \in Hosts /\ p.at \in Places /\ p.ip \in Ips \cup {None} /\ p.hasARP \in BOOLEAN
      /\ p.at.dpid \in Switches /\ p.at.port \in Ports
  BY DEF IInv, TypeInv, PacketType, Places
<1>2. Located(p) \in MacEntry /\ Located(p).age = 0
  BY <1>1, EntryProperties DEF Located, MacEntry
<1>3. entry' = [entry EXCEPT ![p.host] = Located(p)]
  BY DEF PacketIn
<1>4. /\ entry' \in [Hosts -> MacEntry \cup {None}] /\ entry'[p.host] = Located(p)
      /\ \A h \in Hosts \ {p.host} : entry'[h] = entry[h]
  BY <1>1, <1>2, <1>3 DEF IInv, TypeInv
<1>5. CASE p.ip = None
  BY <1>1, <1>2, <1>4, <1>5, NoneProperties DEF PacketIn, IInv, TypeInv
<1>6. CASE p.ip # None
  <2> DEFINE h == p.host
             ip == p.ip
             old == ips[h][ip]
             new == UpdateIPInfo(old, p.hasARP)
  <2>1. ip \in Ips
    BY <1>1, <1>6
  <2>2. new \in IpEntry
    <3>1. CASE old = None
      BY <1>1, <3>1 DEF UpdateIPInfo, IpEntry
    <3>2. CASE old # None
      <4>1. old \in IpEntry
        BY <1>1, <2>1, <3>2, EntryProperties
      <4> QED BY <3>2, <4>1 DEF UpdateIPInfo, IpEntry
    <3> QED BY <3>1, <3>2
  <2>3. ips' = [ips EXCEPT ![h] = [ips[h] EXCEPT ![ip] = new]]
    BY <1>6 DEF PacketIn
  <2> HIDE DEF new, h, ip
  <2>4. h \in Hosts /\ ips \in [Hosts -> [Ips -> IpEntry \cup {None}]]
    BY <1>1 DEF IInv, TypeInv, h
  <2>5. [ips[h] EXCEPT ![ip] = new] \in [Ips -> IpEntry \cup {None}]
    BY <2>1, <2>2, <2>4
  <2>6. /\ ips' \in [Hosts -> [Ips -> IpEntry \cup {None}]]
        /\ \A g \in Hosts \ {h} : ips'[g] = ips[g]
        /\ ips'[h] = [ips[h] EXCEPT ![ip] = new]
    BY <2>3, <2>4, <2>5
  <2>7. ips'[h][ip] = new /\ \A k \in Ips \ {ip} : ips'[h][k] = ips[h][k]
    BY <2>1, <2>4, <2>6
  <2> QED BY <1>1, <1>2, <1>4, <2>2, <2>6, <2>7 DEF new, h, ip
<1> QED BY <1>5, <1>6

LEMMA PacketInOK ==
  ASSUME IInv, NEW p \in packets, PacketIn(p)
  PROVE  IInv'
<1> DEFINE h == p.host
<1>0. /\ packets' = packets \ {p} /\ pings' = pings /\ place' = place /\ up' = up
      /\ prompt' = prompt /\ movers' = movers /\ p.at.dpid \in up
  BY DEF PacketIn, network
<1>1. TypeInv'
  BY <1>0, PacketInEffect DEF IInv, TypeInv
<1>2. Freshest'
  <2> SUFFICES ASSUME NEW g \in Hosts, NEW ip \in Ips, ips'[g][ip] # None
               PROVE  entry'[g] # None /\ entry'[g].age <= ips'[g][ip].age
    BY DEF Freshest
  <2>1. CASE g # h
    BY <2>1, PacketInEffect, EntryProperties
  <2>2. CASE g = h
    <3>1. entry'[g] # None /\ entry'[g].age = 0
      BY <2>2, PacketInEffect, NoneProperties
    <3>2. ips'[g][ip].age \in Nat
      <4>1. ips'[g][ip] \in IpEntry
        BY <1>1 DEF TypeInv
      <4> QED BY <4>1 DEF IpEntry
    <3> QED BY <3>1, <3>2
  <2> QED BY <2>1, <2>2
<1>3. ASSUME NEW g \in prompt \ movers PROVE Staying(g)'
  <2>0. g \in Hosts /\ Staying(g)
    BY <1>3 DEF IInv, AnsweringOK
  <2>1. CASE g # h
    <3>1. entry'[g] = entry[g] /\ ips'[g] = ips[g]
      BY <2>0, <2>1, PacketInEffect
    <3>2. ASSUME NEW ip \in Ips, UnderWay(g, ip) PROVE UnderWay(g, ip)'
      BY <1>0, <2>1, <3>2 DEF UnderWay
    <3> QED BY <1>0, <2>0, <3>1, <3>2 DEF Staying
  <2>2. CASE g = h
    <3>1. p.at = place[g]
      BY <2>0, <2>2 DEF Staying
    <3>2. entry'[g] = Located(p)
      BY <2>2, PacketInEffect
    <3>3. entry'[g].dpid = place[g].dpid /\ entry'[g].port = place[g].port
      BY <2>0, <2>2, <3>1, <3>2 DEF Located, Staying
    <3>4. ASSUME NEW ip \in Ips, ips'[g][ip] # None, ips'[g][ip].pending > 0
          PROVE  UnderWay(g, ip)'
      <4>1. ips[g][ip] # None /\ ips[g][ip].pending > 0 /\ ~(p.ip = ip /\ p.hasARP)
        <5>1. CASE ip # p.ip
          BY <2>2, <3>4, <5>1, PacketInEffect
        <5>2. CASE ip = p.ip
          <6>1. p.ip # None /\ ips'[g][ip] = UpdateIPInfo(ips[g][ip], p.hasARP)
            BY <2>2, <3>4, <5>2, PacketInEffect, NoneProperties
          <6>2. CASE ips[g][ip] = None
            BY <3>4, <6>1, <6>2 DEF UpdateIPInfo
          <6>3. CASE ips[g][ip] # None
            <7>1. ips[g][ip] \in IpEntry
              BY <2>0, <6>3, EntryProperties
            <7>2. ips'[g][ip].pending = IF p.hasARP THEN 0 ELSE ips[g][ip].pending
              BY <6>1, <6>3, <7>1 DEF UpdateIPInfo, IpEntry
            <7> QED BY <3>4, <6>3, <7>2
          <6> QED BY <6>2, <6>3
        <5> QED BY <5>1, <5>2
      <4>2. UnderWay(g, ip)
        BY <2>0, <4>1 DEF Staying
      <4> QED BY <1>0, <4>1, <4>2 DEF UnderWay
    <3> QED BY <1>0, <2>0, <3>3, <3>4 DEF Staying
  <2> QED BY <2>1, <2>2
<1> QED BY <1>0, <1>1, <1>2, <1>3 DEF IInv, AnsweringOK

(***************************************************************************)
(* A round.                                                                *)
(***************************************************************************)
\* An address that expires later than its host's entry is as old or older.
LEMMA OlderProperties ==
  ASSUME NEW e \in MacEntry \cup IpEntry, NEW n \in Nat
  PROVE  /\ e \in MacEntry => Older(e, n) \in MacEntry /\ Older(e, n).dpid = e.dpid
                               /\ Older(e, n).port = e.port
         /\ e \in IpEntry => Older(e, n) \in IpEntry /\ Older(e, n).pending = e.pending
                              /\ Older(e, n).hasARP = e.hasARP
         /\ e.age \in Nat
         /\ Older(e, n).age = IF e.age > n THEN e.age ELSE e.age + 1
BY DEF Older, MacEntry, IpEntry

LEMMA IntervalProperties ==
  ASSUME NEW i \in IpEntry
  PROVE  /\ Interval(i) \in Nat /\ ArpAware \in Nat /\ ArpAware <= Interval(i)
         /\ i.hasARP => Interval(i) = ArpAware
BY HostTrackerAssumption DEF Interval, IpEntry

\* When the entry of a host is silent, so is each of its ARP-aware addresses.
LEMMA SilentExpires ==
  ASSUME IInv, NEW h \in Hosts, Silent(h), NEW ip \in Aware(h)
  PROVE  ip \in Expired(h)
<1>1. ip \in Ips /\ ips[h][ip] # None /\ ips[h][ip].hasARP
  BY DEF Aware
<1>2. /\ ips[h][ip] \in IpEntry /\ entry[h] \in MacEntry /\ entry[h].age <= ips[h][ip].age
  BY <1>1, EntryProperties
<1>3. Interval(ips[h][ip]) = ArpAware /\ ArpAware \in Nat
  BY <1>1, <1>2, IntervalProperties
<1>4. /\ entry[h].age \in Nat
      /\ Older(entry[h], ArpAware).age = IF entry[h].age > ArpAware THEN entry[h].age
                                         ELSE entry[h].age + 1
  BY <1>2, <1>3, OlderProperties
<1>5. /\ ips[h][ip].age \in Nat
      /\ OlderIp(h, ip).age = IF ips[h][ip].age > ArpAware THEN ips[h][ip].age
                              ELSE ips[h][ip].age + 1
  BY <1>2, <1>3, OlderProperties DEF OlderIp
<1>6. OlderIp(h, ip).age > ArpAware
  BY <1>2, <1>3, <1>4, <1>5 DEF Silent
<1> QED BY <1>1, <1>3, <1>6 DEF Expired

\* What a check of the timeouts leaves of an address.
LEMMA CheckedProperties ==
  ASSUME IInv, NEW h \in Hosts, NEW ip \in Ips
  PROVE  /\ CheckedIp(h, ip) \in IpEntry \cup {None}
         /\ CheckedIp(h, ip) # None =>
              /\ ips[h][ip] # None /\ ~Leaves(h)
              /\ CheckedIp(h, ip).age = OlderIp(h, ip).age
              /\ CheckedIp(h, ip).pending > ips[h][ip].pending
                   => ip \in Pinged(h) /\ Reachable(h)
         /\ ips[h][ip] # None /\ ip \notin Failed(h) /\ ~Leaves(h) /\ Reachable(h)
              => CheckedIp(h, ip) # None
<1>1. CASE ips[h][ip] = None \/ ip \in Failed(h) \/ Leaves(h)
  <2>1. CheckedIp(h, ip) = None
    BY <1>1 DEF CheckedIp, Leaves, Pinged, Expired
  <2> QED BY <1>1, <2>1
<1>2. CASE ~(ips[h][ip] = None \/ ip \in Failed(h) \/ Leaves(h))
  <2>1. ips[h][ip] \in IpEntry /\ Interval(ips[h][ip]) \in Nat
    BY <1>2, EntryProperties, IntervalProperties
  <2>2. OlderIp(h, ip) \in IpEntry /\ OlderIp(h, ip).pending = ips[h][ip].pending
    BY <2>1, OlderProperties DEF OlderIp
  <2>3. /\ Counted(OlderIp(h, ip)) \in IpEntry
        /\ Counted(OlderIp(h, ip)).age = OlderIp(h, ip).age
    BY <2>2 DEF Counted, IpEntry
  <2>4. CASE ip \in Pinged(h) /\ Reachable(h)
    <3>1. CheckedIp(h, ip) = Counted(OlderIp(h, ip))
      BY <1>2, <2>4 DEF CheckedIp
    <3> QED BY <1>2, <2>3, <2>4, <3>1, NoneProperties
  <2>5. CASE ip \in Pinged(h) /\ ~Reachable(h)
    <3>1. CheckedIp(h, ip) = None
      BY <1>2, <2>5 DEF CheckedIp
    <3> QED BY <2>5, <3>1
  <2>6. CASE ip \notin Pinged(h)
    <3>1. CheckedIp(h, ip) = OlderIp(h, ip)
      BY <1>2, <2>6 DEF CheckedIp
    <3>2. ips[h][ip].pending \in Nat
      BY <2>1 DEF IpEntry
    <3> QED BY <1>2, <2>2, <3>1, <3>2, NoneProperties
  <2> QED BY <2>4, <2>5, <2>6
<1> QED BY <1>1, <1>2

\* At the end of a round nothing is under way to or from a host that stays and
\* answers, so none of its addresses fails.
LEMMA NoneFails ==
  ASSUME IInv, Tick, NEW h \in prompt \ movers
  PROVE  /\ h \in Hosts /\ Failed(h) = {}
         /\ \A ip \in Ips : ips[h][ip] # None => ips[h][ip].pending = 0
         /\ entry[h] # None => Reachable(h)
<1>1. h \in Hosts /\ Staying(h) /\ \A ip \in Ips : ~UnderWay(h, ip)
  BY DEF IInv, AnsweringOK, Tick, UnderWay
<1>2. ASSUME NEW ip \in Ips, ips[h][ip] # None PROVE ips[h][ip].pending = 0
  <2>1. ips[h][ip].pending \in Nat
    BY <1>1, <1>2, EntryProperties
  <2> QED BY <1>1, <1>2, <2>1 DEF Staying
<1>3. Failed(h) = {}
  BY <1>2, HostTrackerAssumption DEF Failed, Expired
<1> QED BY <1>1, <1>2, <1>3 DEF Staying, Reachable

LEMMA TickEffect ==
  ASSUME IInv, Tick
  PROVE  /\ \A h \in Hosts : entry'[h] = IF entry[h] = None \/ Leaves(h) THEN None
                                         ELSE Older(entry[h], ArpAware)
         /\ \A h \in Hosts, ip \in Ips : ips'[h][ip] = CheckedIp(h, ip)
         /\ \A h \in Hosts : \A ip \in Pinged(h) : Reachable(h) =>
              [host |-> h, ip |-> ip, at |-> [dpid |-> entry[h].dpid, port |-> entry[h].port]]
                \in pings'
         /\ packets' = packets /\ place' = place /\ up' = up
         /\ prompt' = prompt /\ movers' = movers
         /\ TypeInv'
<1>1. /\ entry' = [h \in Hosts |-> IF entry[h] = None \/ Leaves(h) THEN None
                                   ELSE Older(entry[h], ArpAware)]
      /\ ips' = [h \in Hosts |-> [ip \in Ips |-> CheckedIp(h, ip)]]
      /\ pings' = pings \cup UNION {SendPings(h) : h \in Hosts}
      /\ packets' = packets /\ place' = place /\ up' = up
      /\ prompt' = prompt /\ movers' = movers
  BY DEF Tick, CheckTimeouts, network
<1>2. ASSUME NEW h \in Hosts, NEW ip \in Pinged(h), Reachable(h)
      PROVE  [host |-> h, ip |-> ip, at |-> [dpid |-> entry[h].dpid, port |-> entry[h].port]]
               \in pings'
  <2>1. [host |-> h, ip |-> ip, at |-> [dpid |-> entry[h].dpid, port |-> entry[h].port]]
          \in SendPings(h)
    BY <1>2 DEF SendPings
  <2> QED BY <1>1, <2>1
<1>3. entry' \in [Hosts -> MacEntry \cup {None}]
  <2>1. ASSUME NEW h \in Hosts, entry[h] # None PROVE Older(entry[h], ArpAware) \in MacEntry
    BY <2>1, EntryProperties, OlderProperties, HostTrackerAssumption
  <2> QED BY <1>1, <2>1
<1>4. ips' \in [Hosts -> [Ips -> IpEntry \cup {None}]]
  BY <1>1, CheckedProperties
<1>5. pings' \subseteq PingType
  <2>1. ASSUME NEW h \in Hosts, NEW ip \in Ips, ip \in Pinged(h)
        PROVE  [host |-> h, ip |-> ip, at |-> [dpid |-> entry[h].dpid, port |-> entry[h].port]]
                 \in PingType
    <3>1. ips[h][ip] # None
      BY <2>1 DEF Pinged, Expired
    <3>2. entry[h].dpid \in Switches /\ entry[h].port \in Ports
      BY <3>1, EntryProperties
    <3> QED BY <3>2 DEF PingType, Places
  <2>2. ASSUME NEW h \in Hosts PROVE SendPings(h) \subseteq PingType
    BY <2>1 DEF SendPings, Pinged, Expired
  <2> QED BY <1>1, <2>2 DEF IInv, TypeInv
<1>6. TypeInv'
  BY <1>1, <1>3, <1>4, <1>5 DEF TypeInv, IInv
<1>7. /\ \A h \in Hosts : entry'[h] = IF entry[h] = None \/ Leaves(h) THEN None
                                      ELSE Older(entry[h], ArpAware)
      /\ \A h \in Hosts, ip \in Ips : ips'[h][ip] = CheckedIp(h, ip)
  BY <1>1
<1> QED BY <1>1, <1>2, <1>6, <1>7

LEMMA TickOK == ASSUME IInv, Tick PROVE IInv'
<1>1. Freshest'
  <2> SUFFICES ASSUME NEW h \in Hosts, NEW ip \in Ips, ips'[h][ip] # None
               PROVE  entry'[h] # None /\ entry'[h].age <= ips'[h][ip].age
    BY DEF Freshest
  <2>1. ips'[h][ip] = CheckedIp(h, ip)
    BY TickEffect
  <2>2. ips[h][ip] # None /\ ~Leaves(h) /\ ips'[h][ip].age = OlderIp(h, ip).age
    BY <2>1, CheckedProperties
  <2>3. /\ ips[h][ip] \in IpEntry /\ entry[h] \in MacEntry /\ entry[h] # None
        /\ entry[h].age <= ips[h][ip].age
    BY <2>2, EntryProperties
  <2>4. /\ Interval(ips[h][ip]) \in Nat /\ ArpAware \in Nat /\ ArpAware <= Interval(ips[h][ip])
    BY <2>3, IntervalProperties
  <2>5. entry'[h] = Older(entry[h], ArpAware)
    BY <2>2, <2>3, TickEffect
  <2>6. /\ entry[h].age \in Nat /\ entry'[h] \in MacEntry
        /\ entry'[h].age = IF entry[h].age > ArpAware THEN entry[h].age ELSE entry[h].age + 1
    BY <2>3, <2>4, <2>5, OlderProperties
  <2>7. /\ ips[h][ip].age \in Nat
        /\ OlderIp(h, ip).age = IF ips[h][ip].age > Interval(ips[h][ip]) THEN ips[h][ip].age
                                ELSE ips[h][ip].age + 1
    BY <2>3, <2>4, OlderProperties DEF OlderIp
  <2>8. entry'[h].age <= ips'[h][ip].age
    BY <2>2, <2>3, <2>4, <2>6, <2>7
  <2> QED BY <2>6, <2>8, NoneProperties
<1>2. ASSUME NEW h \in prompt \ movers PROVE Staying(h)'
  <2>1. h \in Hosts /\ Staying(h)
    BY NoneFails DEF IInv, AnsweringOK
  <2>2. entry'[h] # None => entry'[h].dpid = place[h].dpid /\ entry'[h].port = place[h].port
    <3> SUFFICES ASSUME entry'[h] # None
                 PROVE  entry'[h].dpid = place[h].dpid /\ entry'[h].port = place[h].port
      OBVIOUS
    <3>1. entry[h] # None /\ entry'[h] = Older(entry[h], ArpAware)
      BY <2>1, TickEffect
    <3>2. entry'[h].dpid = entry[h].dpid /\ entry'[h].port = entry[h].port
      BY <2>1, <3>1, EntryProperties, OlderProperties, HostTrackerAssumption
    <3> QED BY <2>1, <3>1, <3>2 DEF Staying
  <2>3. ASSUME NEW ip \in Ips, ips'[h][ip] # None, ips'[h][ip].pending > 0
        PROVE  UnderWay(h, ip)'
    <3>1. ips'[h][ip] = CheckedIp(h, ip) /\ ips[h][ip] # None
      BY <2>1, <2>3, TickEffect, CheckedProperties
    <3>2. ip \in Pinged(h) /\ Reachable(h)
      BY <2>1, <2>3, <3>1, NoneFails, CheckedProperties
    <3> DEFINE q == [host |-> h, ip |-> ip,
                     at |-> [dpid |-> entry[h].dpid, port |-> entry[h].port]]
    <3>3. q \in pings'
      BY <2>1, <3>2, TickEffect
    <3>4. q.at = place[h]
      BY <2>1, <3>1, EntryProperties DEF Staying, Places
    <3> QED BY <3>3, <3>4, TickEffect DEF UnderWay
  <2> QED BY <2>1, <2>2, <2>3, TickEffect DEF Staying
<1> QED BY <1>1, <1>2, TickEffect DEF IInv, AnsweringOK

(***************************************************************************)
(* The network.                                                            *)
(***************************************************************************)
LEMMA NetworkOK ==
  ASSUME IInv, NEW h \in Hosts,
         \/ Emit(h) \/ Lose(h) \/ \E to \in Places \cup {None} : Move(h, to)
         \/ \E q \in pings : q.host = h /\ Answer(q)
  PROVE  IInv'
<1>0. /\ entry' = entry /\ ips' = ips /\ up' = up /\ prompt' = prompt /\ movers' = movers
  BY DEF Emit, Lose, Move, Answer, tables, network
<1>1. TypeInv'
  <2>1. CASE Emit(h)
    BY <1>0, <2>1 DEF Emit, IInv, TypeInv, PacketType, network
  <2>2. CASE Lose(h)
    BY <1>0, <2>2 DEF Lose, IInv, TypeInv, network
  <2>3. ASSUME NEW to \in Places \cup {None}, Move(h, to) PROVE TypeInv'
    BY <1>0, <2>3 DEF Move, IInv, TypeInv
  <2>4. ASSUME NEW q \in pings, q.host = h, Answer(q) PROVE TypeInv'
    <3>1. [host |-> q.host, ip |-> q.ip, hasARP |-> TRUE, at |-> q.at] \in PacketType
      BY DEF IInv, TypeInv, PingType, PacketType
    <3>2. pings' \subseteq PingType /\ packets' \subseteq PacketType /\ place' = place
      BY <2>4, <3>1 DEF Answer, IInv, TypeInv, network
    <3> QED BY <1>0, <3>2 DEF IInv, TypeInv
  <2> QED BY <2>1, <2>2, <2>3, <2>4
<1>2. Freshest'
  BY <1>0 DEF IInv, Freshest
<1>3. ASSUME NEW g \in prompt \ movers PROVE Staying(g)'
  <2>0. g \in Hosts /\ Staying(g)
    BY <1>3 DEF IInv, AnsweringOK
  <2>1. CASE Emit(h)
    <3>1. /\ place' = place /\ pings' = pings /\ packets \subseteq packets'
          /\ \A p \in packets' : p.host = g => p.at = place[g]
      BY <2>0, <2>1 DEF Emit, network, Staying
    <3> QED BY <1>0, <2>0, <3>1 DEF Staying, UnderWay
  <2>2. CASE Lose(h)
    <3>1. g # h /\ place' = place
      BY <1>3, <2>2 DEF Lose, network
    <3>2. /\ packets' \subseteq packets
          /\ \A p \in packets : p.host = g => p \in packets'
          /\ \A q \in pings : q.host = g => q \in pings'
      BY <2>2, <3>1 DEF Lose
    <3> QED BY <1>0, <2>0, <3>1, <3>2 DEF Staying, UnderWay
  <2>3. ASSUME NEW to \in Places \cup {None}, Move(h, to) PROVE Staying(g)'
    <3>1. g # h
      BY <1>3, <2>3 DEF Move
    <3>2. place'[g] = place[g] /\ pings' = pings /\ packets' = packets
      BY <2>0, <2>3, <3>1 DEF Move, IInv, TypeInv
    <3> QED BY <1>0, <2>0, <3>2 DEF Staying, UnderWay
  <2>4. ASSUME NEW q \in pings, q.host = h, Answer(q) PROVE Staying(g)'
    <3> DEFINE a == [host |-> q.host, ip |-> q.ip, hasARP |-> TRUE, at |-> q.at]
    <3>1. /\ place' = place /\ pings' = pings \ {q} /\ packets \subseteq packets'
          /\ packets' = IF Answers(q) THEN packets \cup {a} ELSE packets
      BY <2>4 DEF Answer, network
    <3>2. \A p \in packets' : p.host = g => p.at = place[g]
      BY <2>0, <3>1 DEF Staying, Answers
    <3>3. ASSUME NEW ip \in Ips, UnderWay(g, ip) PROVE UnderWay(g, ip)'
      <4>1. CASE q.host = g /\ q.ip = ip /\ q.at = place[g]
        <5>1. a \in packets' /\ a.host = g /\ a.ip = ip /\ a.hasARP
          BY <1>3, <3>1, <4>1 DEF Answers
        <5> QED BY <5>1 DEF UnderWay
      <4>2. CASE ~(q.host = g /\ q.ip = ip /\ q.at = place[g])
        BY <3>1, <3>3, <4>2 DEF UnderWay
      <4> QED BY <4>1, <4>2
    <3> QED BY <1>0, <2>0, <3>1, <3>2, <3>3 DEF Staying
  <2> QED BY <2>1, <2>2, <2>3, <2>4
<1> QED BY <1>0, <1>1, <1>2, <1>3 DEF IInv, AnsweringOK

LEMMA FlapOK == ASSUME IInv, NEW s \in Switches, Flap(s) PROVE IInv'
<1>1. /\ UNCHANGED <<entry, ips, place, prompt, movers, pings, packets>>
      /\ \A h \in prompt : place[h] # None => place[h].dpid # s
      /\ \A t \in up : t # s => t \in up'
  BY DEF Flap, tables
<1>2. ASSUME NEW g \in prompt \ movers PROVE Staying(g)'
  <2>1. Staying(g)
    BY <1>2 DEF IInv, AnsweringOK
  <2>2. place[g].dpid \in up'
    BY <1>1, <1>2, <2>1, NoneProperties DEF Staying
  <2> QED BY <1>1, <2>1, <2>2 DEF Staying, UnderWay
<1> QED BY <1>1, <1>2 DEF IInv, TypeInv, Freshest, AnsweringOK

LEMMA StepIInv == IInv /\ [Next]_vars => IInv'
<1> SUFFICES ASSUME IInv, [Next]_vars PROVE IInv'
  OBVIOUS
<1>1. CASE Tick
  BY <1>1, TickOK
<1>2. ASSUME NEW h \in Hosts, Deliver(h) \/ Emit(h) \/ \E to \in Places \cup {None} : Move(h, to)
      PROVE  IInv'
  BY <1>2, PacketInOK, NetworkOK DEF Deliver
<1>3. ASSUME NEW s \in Switches, Flap(s) PROVE IInv'
  BY <1>3, FlapOK
<1>4. CASE UNCHANGED vars
  BY <1>4 DEF vars, tables, network, IInv, TypeInv, Freshest, AnsweringOK, Staying, UnderWay
<1> QED BY <1>1, <1>2, <1>3, <1>4 DEF Next

LEMMA Invariance == Spec => []IInv
BY InitIInv, StepIInv, PTL DEF Spec

(***************************************************************************)
(* Addresses are kept only in an entry, which is as fresh as they are.     *)
(***************************************************************************)
THEOREM TrackerFreshest == Spec => []Freshest
<1>1. IInv => Freshest
  BY DEF IInv
<1> QED BY <1>1, Invariance, PTL

-----------------------------------------------------------------------------
(* What a step does to the entry of a host, if it is not a round.          *)

LEMMA OtherSteps ==
  ASSUME IInv, Next, ~Tick, NEW h \in Hosts
  PROVE  /\ entry[h] # None => entry'[h] # None
         /\ \A ip \in Ips : ips[h][ip] # None => ips'[h][ip] # None
<1>1. ASSUME NEW p \in packets, PacketIn(p)
      PROVE  /\ entry[h] # None => entry'[h] # None
             /\ \A ip \in Ips : ips[h][ip] # None => ips'[h][ip] # None
  <2>1. CASE p.host # h
    BY <1>1, <2>1, PacketInEffect
  <2>2. CASE p.host = h
    <3>1. entry'[h] # None
      BY <1>1, <2>2, PacketInEffect, NoneProperties
    <3>2. ASSUME NEW ip \in Ips, ips[h][ip] # None PROVE ips'[h][ip] # None
      BY <1>1, <2>2, <3>2, PacketInEffect, NoneProperties
    <3> QED BY <3>1, <3>2
  <2> QED BY <2>1, <2>2
<1>2. ASSUME ~ \E p \in packets : PacketIn(p) PROVE entry' = entry /\ ips' = ips
  BY <1>2 DEF Next, Deliver, Emit, Lose, Move, Answer, Flap, tables
<1> QED BY <1>1, <1>2

LEMMA StepOnlySilentLeft ==
  ASSUME IInv, Next, NEW h \in Hosts, entry[h] # None, entry'[h] = None,
         NEW ip \in Ips, ips[h][ip] # None, ip \notin Failed(h)
  PROVE  ~ips[h][ip].hasARP /\ ip \notin Expired(h)
<1>1. Tick
  BY OtherSteps
<1>2. Leaves(h)
  <2>1. ASSUME ~Leaves(h) PROVE FALSE
    <3>1. entry'[h] = Older(entry[h], ArpAware)
      BY <1>1, <2>1, TickEffect
    <3>2. entry'[h] \in MacEntry
      BY <3>1, EntryProperties, OlderProperties, HostTrackerAssumption
    <3> QED BY <3>2, NoneProperties
  <2> QED BY <2>1
<1>3. ip \notin Expired(h)
  BY <1>2 DEF Leaves, Pinged
<1>4. ip \notin Aware(h)
  BY <1>2, <1>3, SilentExpires DEF Leaves
<1> QED BY <1>3, <1>4 DEF Aware

(***************************************************************************)
(* The addresses dropped with a host's entry, other than those that failed *)
(* their pings, were never seen using ARP and are within the longer time   *)
(* such addresses have.                                                    *)
(***************************************************************************)
THEOREM TrackerOnlySilentLeft == Spec => OnlySilentLeft
<1>1. IInv /\ [Next]_vars =>
        [\A h \in Hosts : entry[h] # None /\ entry'[h] = None =>
           \A ip \in Ips : ips[h][ip] # None /\ ip \notin Failed(h) =>
             ~ips[h][ip].hasARP /\ ip \notin Expired(h)]_vars
  BY StepOnlySilentLeft
<1> QED BY <1>1, Invariance, PTL DEF Spec, OnlySilentLeft

LEMMA StepAnsweringStays ==
  ASSUME IInv, Next, NEW h \in prompt \ movers, Aware(h) # {}
  PROVE  entry'[h] # None /\ Aware(h) \subseteq {ip \in Ips : ips'[h][ip] # None}
<1>1. h \in Hosts /\ \A ip \in Aware(h) : ip \in Ips /\ ips[h][ip] # None
  BY DEF IInv, Aware
<1>2. entry[h] # None
  BY <1>1, EntryProperties
<1>3. CASE ~Tick
  BY <1>1, <1>2, <1>3, OtherSteps
<1>4. CASE Tick
  <2>1. Failed(h) = {} /\ Reachable(h)
    BY <1>2, <1>4, NoneFails
  <2>2. ~Leaves(h)
    <3> SUFFICES ASSUME Silent(h), Pinged(h) = {} PROVE FALSE
      BY DEF Leaves
    <3>1. PICK ip \in Aware(h) : ip \in Expired(h)
      BY <1>1, SilentExpires
    <3> QED BY <2>1, <3>1 DEF Pinged
  <2>3. entry'[h] # None
    <3>1. entry'[h] = Older(entry[h], ArpAware)
      BY <1>1, <1>2, <1>4, <2>2, TickEffect
    <3>2. entry'[h] \in MacEntry
      BY <1>1, <1>2, <3>1, EntryProperties, OlderProperties, HostTrackerAssumption
    <3> QED BY <3>2, NoneProperties
  <2>4. ASSUME NEW ip \in Aware(h) PROVE ip \in Ips /\ ips'[h][ip] # None
    BY <1>1, <1>4, <2>1, <2>2, TickEffect, CheckedProperties
  <2> QED BY <2>3, <2>4
<1> QED BY <1>3, <1>4

(***************************************************************************)
(* A host that answers its pings and does not move is not forgotten, nor   *)
(* any address it was seen to use with ARP.                                *)
(***************************************************************************)
THEOREM TrackerAnsweringStays == Spec => AnsweringStays
<1>1. IInv /\ [Next]_vars =>
        [\A h \in prompt \ movers : Aware(h) # {} =>
           entry'[h] # None /\ Aware(h) \subseteq {ip \in Ips : ips'[h][ip] # None}]_vars
  BY StepAnsweringStays
<1> QED BY <1>1, Invariance, PTL DEF Spec, AnsweringStays
=============================================================================
