----------------------------- MODULE DHCPProofs -----------------------------
(***************************************************************************)
(* The invariants of DHCP for any number of clients and addresses.         *)
(***************************************************************************)
EXTENDS DHCPProps, TLAPS, FiniteSetTheorems

Addressed == Addresses \cup {Elsewhere}
States == {"NEW", "INIT", "SELECTING", "REQUESTING", "BOUND", "IDLE", "ERROR", "gone"}
Timers == {"total", "discover", "offer", "request"}
Answers == [ours : BOOLEAN, type : {"offer", "ack", "nak"}, client : Clients,
            xid : Nat, addr : Addressed \cup {None}]

\* No message in the network carries an xid its client has not used yet, and
\* each carries the address its type calls for.
MessagesOK ==
  /\ sent \in [Clients -> Nat] /\ answered \in [Clients -> Nat]
  /\ offerXid \in [Clients -> Nat] /\ requestXid \in [Clients -> Nat]
  /\ \A c \in Clients : offerXid[c] <= sent[c] /\ requestXid[c] <= sent[c]
  /\ \A m \in toServer : /\ m.xid <= sent[m.client]
                         /\ m.type # "discover" => m.addr # None
  /\ toClient \subseteq Answers
  /\ \A k \in toClient : /\ k.xid <= sent[k.client]
                         /\ k.type = "offer" => k.addr # None

\* An address out of the pool is with somebody, and with no more clients than the
\* lapses account for.  A client that has a lease has no offer of another address,
\* so that it gives up or keeps one address in a step.
PoolOK ==
  /\ \A x \in removed : \E c \in Clients : x \in Held(c)
  /\ \A c \in Clients : leases[c] # None => offers[c] \in {None, leases[c]}
  /\ \A x \in Addresses : Cardinality(Holders(x)) <= Shares(x)

Heard(c) == \A m \in toServer : m.client # c

\* Each timer runs in its own state only, so that none runs in BOUND.
TimersOf(c) ==
  /\ "discover" \in timers[c] => state[c] = "INIT"
  /\ "offer" \in timers[c] => state[c] = "SELECTING"
  /\ "request" \in timers[c] => state[c] = "REQUESTING"
  /\ "total" \in timers[c] => state[c] \in {"INIT", "SELECTING", "REQUESTING", "IDLE"}

\* A client waits for the answer to the last message it sent.  Once the server
\* has granted it, nothing the client sent is under way that could change the
\* lease before the client knows of it, nor while it is bound.
BindingOf(c) ==
  /\ state[c] = "BOUND" =>
       bound[c] # None /\ (bound[c] # Elsewhere => leases[c] = bound[c] /\ Heard(c))
  /\ state[c] = "REQUESTING" =>
       /\ requestXid[c] = sent[c]
       /\ \A m \in toServer : m.client = c /\ m.xid = sent[c] =>
            m.type = "request" /\ m.addr = requested[c]
       /\ \A k \in toClient : k.client = c /\ k.xid = sent[c] /\ k.type = "ack" =>
            IF k.ours THEN leases[c] = requested[c] /\ Heard(c)
            ELSE requested[c] = Elsewhere

ClientsOK == \A c \in Clients : TimersOf(c) /\ BindingOf(c)

IInv == TypeOK /\ MessagesOK /\ PoolOK /\ ClientsOK

LEMMA InitIInv == Init => IInv
<1> SUFFICES ASSUME Init PROVE IInv
  OBVIOUS
<1> USE DEF Init
<1>1. TypeOK
  BY DHCPAssumption DEF TypeOK
<1>2. MessagesOK
  BY DEF MessagesOK
<1>3. PoolOK
  <2>1. \A x \in Addresses : Holders(x) = {}
    BY DHCPAssumption DEF Holders, Held
  <2>2. \A x \in Addresses : Cardinality(Holders(x)) = 0
    BY <2>1, FS_EmptySet
  <2>3. \A x \in Addresses : Shares(x) = 0
    BY DEF Shares
  <2> QED BY <2>2, <2>3 DEF PoolOK, Held
<1>4. ClientsOK
  BY DEF ClientsOK, TimersOf, BindingOf
<1> QED BY <1>1, <1>2, <1>3, <1>4 DEF IInv

(***************************************************************************)
(* The server.                                                             *)
(***************************************************************************)
LEMMA MessageProperties ==
  ASSUME IInv, NEW m \in toServer
  PROVE  /\ m.client \in Clients /\ m.xid \in Nat
         /\ m.type \in {"discover", "request", "release"}
         /\ m.addr \in Addressed \cup {None}
         /\ m.type # "discover" => m.addr \in Addressed
         /\ sent[m.client] \in Nat /\ m.xid <= sent[m.client]
BY DEF IInv, TypeOK, MessagesOK, Messages, Addressed

\* What a client is told agrees with what the server remembers for it.
LEMMA ServerKeepsClients ==
  ASSUME IInv, NEW m \in toServer, NEW replies \in SUBSET Answers, Take(m, replies),
         \A d \in Clients : d # m.client => leases'[d] = leases[d],
         \A k \in replies :
           /\ k.ours /\ k.client = m.client /\ k.xid = m.xid
           /\ k.type = "offer" => k.addr # None
           /\ k.type = "ack" => m.type = "request" /\ leases'[m.client] = m.addr
  PROVE  MessagesOK' /\ ClientsOK'
<1>1. /\ toServer' = {k \in toServer : k.client = m.client => k.xid > m.xid}
      /\ toClient' = toClient \cup replies
      /\ state' = state /\ timers' = timers /\ received' = received /\ bound' = bound
      /\ requested' = requested /\ requestXid' = requestXid /\ offerXid' = offerXid
      /\ sent' = sent /\ answered' = answered
  BY DEF Take, clientVars, requestVars
<1>2. /\ m.client \in Clients /\ m.xid \in Nat /\ m.xid <= sent[m.client]
      /\ sent[m.client] \in Nat
  BY MessageProperties
<1>3. MessagesOK'
  BY <1>1, <1>2 DEF IInv, MessagesOK
<1>4. ASSUME NEW c \in Clients PROVE TimersOf(c)'
  BY <1>1 DEF IInv, ClientsOK, TimersOf
<1>5. ASSUME NEW c \in Clients, c # m.client PROVE BindingOf(c)'
  <2>1. \A k \in toClient' : k.client = c => k \in toClient
    BY <1>1, <1>5
  <2>2. toServer' \subseteq toServer /\ leases'[c] = leases[c]
    BY <1>1, <1>5
  <2> QED BY <1>1, <2>1, <2>2 DEF IInv, ClientsOK, BindingOf, Heard
<1>6. BindingOf(m.client)'
  <2> DEFINE c == m.client
  <2>1. BindingOf(c) /\ ~Heard(c)
    BY <1>2 DEF IInv, ClientsOK, Heard
  <2>2. ASSUME m.xid = sent[c] PROVE Heard(c)'
    <3> SUFFICES ASSUME NEW k \in toServer, k.client = c, k.xid > m.xid PROVE FALSE
      BY <1>1 DEF Heard
    <3> QED BY <1>2, <2>2, MessageProperties
  <2>3. ASSUME state[c] = "REQUESTING", NEW k \in toClient', k.client = c, k.xid = sent[c],
               k.type = "ack"
        PROVE  IF k.ours THEN leases'[c] = requested[c] /\ Heard(c)' ELSE requested[c] = Elsewhere
    <3>1. CASE k \in toClient
      BY <2>1, <2>3, <3>1 DEF BindingOf
    <3>2. CASE k \in replies
      <4>1. m.xid = sent[c] /\ m.type = "request" /\ leases'[c] = m.addr /\ k.ours
        BY <2>3, <3>2
      <4>2. m.addr = requested[c]
        BY <2>1, <2>3, <4>1 DEF BindingOf
      <4> QED BY <2>2, <4>1, <4>2
    <3> QED BY <1>1, <2>3, <3>1, <3>2
  <2>4. toServer' \subseteq toServer
    BY <1>1
  <2> QED BY <1>1, <2>1, <2>3, <2>4 DEF BindingOf
<1> QED BY <1>3, <1>4, <1>5, <1>6 DEF ClientsOK

\* The client's and the network's part of TypeOK.
LEMMA ServerKeepsTypes ==
  ASSUME IInv, NEW m \in toServer, NEW replies, Take(m, replies),
         removed' \subseteq Addresses, lapses' \in [Addresses -> Nat],
         offers' \in [Clients -> Addresses \cup {None}],
         leases' \in [Clients -> Addresses \cup {None}]
  PROVE  TypeOK'
BY DEF IInv, TypeOK, Take, clientVars, requestVars

LEMMA ReplyProperties ==
  ASSUME IInv, NEW m \in toServer, NEW type \in {"offer", "ack", "nak"},
         NEW a \in Addressed \cup {None}
  PROVE  /\ Reply(m, type, a) \in SUBSET Answers
         /\ \A k \in Reply(m, type, a) : /\ k.ours /\ k.client = m.client /\ k.xid = m.xid
                                         /\ k.type = type /\ k.addr = a
BY MessageProperties DEF Reply, Answers

\* How many hold x after a step about client c, which leaves it with H.
LEMMA HoldersStep ==
  ASSUME NEW c \in Clients, NEW H, Held(c)' = H,
         \A d \in Clients \ {c} : offers'[d] = offers[d] /\ leases'[d] = leases[d],
         NEW x
  PROVE  /\ Cardinality(Holders(x)) \in Nat
         /\ x \in Held(c) /\ x \notin H => Cardinality(Holders(x)') = Cardinality(Holders(x)) - 1
         /\ x \notin Held(c) /\ x \in H => Cardinality(Holders(x)') = Cardinality(Holders(x)) + 1
         /\ (x \in Held(c) <=> x \in H) => Cardinality(Holders(x)') = Cardinality(Holders(x))
<1>1. \A d \in Clients \ {c} : Held(d)' = Held(d)
  BY DEF Held
<1>2. IsFiniteSet(Holders(x))
  <2>1. Holders(x) \subseteq Clients
    BY DEF Holders
  <2> QED BY <2>1, DHCPAssumption, FS_Subset
<1>3. Cardinality(Holders(x)) \in Nat
  BY <1>2, FS_CardinalityType
<1>4. ASSUME x \in Held(c), x \notin H
      PROVE  Cardinality(Holders(x)') = Cardinality(Holders(x)) - 1
  <2>1. Holders(x)' = Holders(x) \ {c} /\ c \in Holders(x)
    BY <1>1, <1>4 DEF Holders
  <2> QED BY <1>2, <2>1, FS_RemoveElement
<1>5. ASSUME x \notin Held(c), x \in H
      PROVE  Cardinality(Holders(x)') = Cardinality(Holders(x)) + 1
  <2>1. Holders(x)' = Holders(x) \cup {c} /\ c \notin Holders(x)
    BY <1>1, <1>5 DEF Holders
  <2> QED BY <1>2, <2>1, FS_AddElement
<1>6. ASSUME x \in Held(c) <=> x \in H
      PROVE  Cardinality(Holders(x)') = Cardinality(Holders(x))
  <2>1. Holders(x)' = Holders(x)
    BY <1>1, <1>6 DEF Holders
  <2> QED BY <2>1
<1> QED BY <1>3, <1>4, <1>5, <1>6

\* The server's state in a step about client c, reduced to what c holds before
\* and after: an address c gives up goes back to the pool, one it gets comes from
\* the pool, and one it keeps stays out of it or has lapsed.
LEMMA PoolStep ==
  ASSUME IInv, NEW c \in Clients, NEW H,
         \A d \in Clients \ {c} : offers'[d] = offers[d] /\ leases'[d] = leases[d],
         Held(c)' = H,
         leases'[c] # None => offers'[c] \in {None, leases'[c]},
         lapses' \in [Addresses -> Nat],
         \A x \in removed' : x \in H \/ (x \in removed /\ x \notin Held(c)),
         \A x \in Addresses :
           /\ x \in H /\ x \notin Held(c) => Shares(x)' >= Shares(x) + 1
           /\ (x \in H <=> x \in Held(c)) => Shares(x)' >= Shares(x)
           /\ x \notin H /\ x \in Held(c) => Shares(x)' >= Shares(x) - 1
  PROVE  PoolOK'
<1>0. PoolOK
  BY DEF IInv
<1>1. \A d \in Clients \ {c} : Held(d)' = Held(d)
  BY DEF Held
<1>2. ASSUME NEW x \in removed' PROVE \E d \in Clients : x \in Held(d)'
  <2>1. CASE x \in H
    BY <2>1
  <2>2. CASE x \in removed /\ x \notin Held(c)
    <3>1. PICK d \in Clients : x \in Held(d)
      BY <1>0, <2>2 DEF PoolOK
    <3> QED BY <1>1, <2>2, <3>1
  <2> QED BY <2>1, <2>2
<1>3. ASSUME NEW d \in Clients, leases'[d] # None PROVE offers'[d] \in {None, leases'[d]}
  BY <1>0, <1>3 DEF PoolOK
<1>4. ASSUME NEW x \in Addresses PROVE Cardinality(Holders(x)') <= Shares(x)'
  <2>1. Cardinality(Holders(x)) <= Shares(x) /\ Shares(x) \in Nat /\ Shares(x)' \in Nat
    BY <1>0 DEF PoolOK, IInv, TypeOK, Shares
  <2>2. /\ Cardinality(Holders(x)) \in Nat
        /\ x \in Held(c) /\ x \notin H => Cardinality(Holders(x)') = Cardinality(Holders(x)) - 1
        /\ x \notin Held(c) /\ x \in H => Cardinality(Holders(x)') = Cardinality(Holders(x)) + 1
        /\ (x \in Held(c) <=> x \in H) => Cardinality(Holders(x)') = Cardinality(Holders(x))
    BY HoldersStep
  <2> QED BY <2>1, <2>2
<1> QED BY <1>2, <1>3, <1>4 DEF PoolOK

\* An address that nothing happens to keeps its shares; one put back or taken out of
\* the pool changes them by at most one, and a lapse makes up for it.
LEMMA SharesStep ==
  ASSUME IInv, NEW x \in Addresses, lapses' \in [Addresses -> Nat],
         lapses'[x] >= lapses[x]
  PROVE  /\ Shares(x) \in Nat /\ Shares(x)' \in Nat /\ Shares(x)' >= Shares(x) - 1
         /\ x \in removed' \/ x \notin removed \/ lapses'[x] > lapses[x] => Shares(x)' >= Shares(x)
         /\ x \in removed' /\ x \notin removed => Shares(x)' >= Shares(x) + 1
BY DEF IInv, TypeOK, Shares

LEMMA LapseProperties ==
  ASSUME IInv, NEW S, Lapse(S)
  PROVE  /\ lapses' \in [Addresses -> Nat]
         /\ \A x \in Addresses : /\ lapses'[x] >= lapses[x]
                                 /\ x \in S => lapses'[x] > lapses[x]
BY DEF Lapse, IInv, TypeOK

\* The types of the server's tables, and what a client can hold.
LEMMA ServerTypes ==
  ASSUME IInv, NEW c \in Clients
  PROVE  /\ removed \subseteq Addresses /\ lapses \in [Addresses -> Nat]
         /\ offers \in [Clients -> Addresses \cup {None}]
         /\ leases \in [Clients -> Addresses \cup {None}]
         /\ leases[c] \in Addresses \cup {None} /\ offers[c] \in Addresses \cup {None}
         /\ leases[c] # None => offers[c] \in {None, leases[c]}
         /\ None \notin Addresses /\ Elsewhere \notin Addresses
BY DHCPAssumption DEF IInv, TypeOK, PoolOK

LEMMA DiscoverOK ==
  ASSUME IInv, NEW m \in toServer, ExecDiscover(m)
  PROVE  IInv'
<1> DEFINE c == m.client
           known == {IF leases[c] # None THEN leases[c] ELSE offers[c]} \ {None}
<1>1. c \in Clients /\ m.type = "discover"
  BY MessageProperties DEF ExecDiscover
<1> HIDE DEF c
<1>2. known = Held(c)
  BY <1>1, ServerTypes DEF Held
<1>3. CASE Take(m, Reply(m, "nak", None)) /\ UNCHANGED serverVars
  <2>1. MessagesOK' /\ ClientsOK'
    BY <1>3, ReplyProperties, ServerKeepsClients DEF serverVars
  <2>2. TypeOK'
    BY <1>1, <1>3, ServerTypes, ServerKeepsTypes DEF serverVars
  <2>3. PoolOK'
    BY <1>3 DEF IInv, PoolOK, Held, Holders, Shares, serverVars
  <2> QED BY <2>1, <2>2, <2>3 DEF IInv
<1>4. ASSUME NEW a \in IF known # {} THEN known ELSE Addresses \ removed,
             leases' = [leases EXCEPT ![c] = None], offers' = [offers EXCEPT ![c] = a],
             removed' = IF known = {} THEN removed \cup {a} ELSE removed,
             lapses' = lapses, Take(m, Reply(m, "offer", a))
      PROVE  IInv'
  <2>1. a \in Addresses
    BY <1>1, <1>4, ServerTypes
  <2>2. /\ \A d \in Clients \ {c} : offers'[d] = offers[d] /\ leases'[d] = leases[d]
        /\ offers'[c] = a /\ leases'[c] = None
        /\ offers' \in [Clients -> Addresses \cup {None}]
        /\ leases' \in [Clients -> Addresses \cup {None}]
    BY <1>1, <1>4, <2>1, ServerTypes
  <2>3. Held(c)' = {a}
    BY <2>1, <2>2, <1>1, ServerTypes DEF Held
  <2>4. known # {} => known = {a}
    BY <1>4
  <2>5. MessagesOK' /\ ClientsOK'
    <3>1. a \in Addressed \cup {None} /\ a # None
      BY <1>1, <2>1, ServerTypes DEF Addressed
    <3>2. /\ Reply(m, "offer", a) \in SUBSET Answers
          /\ \A k \in Reply(m, "offer", a) : /\ k.ours /\ k.client = m.client /\ k.xid = m.xid
                                             /\ k.type = "offer" /\ k.addr = a
      BY <3>1, ReplyProperties
    <3> QED BY <1>4, <2>2, <3>1, <3>2, ServerKeepsClients DEF c
  <2>6. TypeOK'
    BY <1>1, <1>4, <2>1, <2>2, ServerTypes, ServerKeepsTypes
  <2>8. /\ lapses' \in [Addresses -> Nat]
        /\ \A x \in Addresses :
             /\ x \in removed' \/ x \notin removed => Shares(x)' >= Shares(x)
             /\ x \in removed' /\ x \notin removed => Shares(x)' >= Shares(x) + 1
    <3>1. lapses' \in [Addresses -> Nat] /\ \A x \in Addresses : lapses'[x] >= lapses[x]
      BY <1>1, <1>4, ServerTypes
    <3> QED BY <3>1, SharesStep
  <2>7. PoolOK'
    <3> HIDE DEF known
    <3>1. CASE known = {}
      <4>1. a \in removed' /\ a \notin removed /\ removed' = removed \cup {a}
        BY <1>4, <3>1
      <4>2. \A x \in {a} : x \notin Held(c) => Shares(x)' >= Shares(x) + 1
        BY <2>1, <2>8, <4>1
      <4>3. \A x \in Addresses : Shares(x)' >= Shares(x)
        BY <2>8, <4>1
      <4> QED BY <1>1, <1>2, <2>2, <2>3, <2>8, <3>1, <4>1, <4>2, <4>3, PoolStep
    <3>2. CASE known # {}
      BY <1>1, <1>2, <1>4, <2>2, <2>3, <2>4, <2>8, <3>2, PoolStep
    <3> QED BY <3>1, <3>2
  <2> QED BY <2>5, <2>6, <2>7 DEF IInv
<1> QED BY <1>3, <1>4, Zenon DEF ExecDiscover, serverVars, c

LEMMA ReleaseOK ==
  ASSUME IInv, NEW m \in toServer, ExecRelease(m)
  PROVE  IInv'
<1> DEFINE c == m.client
<1>1. c \in Clients /\ m.addr # None /\ Take(m, {}) /\ offers' = offers
  BY MessageProperties, DHCPAssumption DEF ExecRelease, Addressed
<1>2. CASE leases[c] # m.addr /\ UNCHANGED <<leases, removed, lapses>>
  <2>1. MessagesOK' /\ ClientsOK'
    BY <1>1, <1>2, ServerKeepsClients
  <2>2. TypeOK'
    BY <1>1, <1>2, ServerTypes, ServerKeepsTypes
  <2>3. PoolOK'
    BY <1>1, <1>2 DEF IInv, PoolOK, Held, Holders, Shares
  <2> QED BY <2>1, <2>2, <2>3 DEF IInv
<1>3. CASE /\ leases[c] = m.addr
           /\ leases' = [leases EXCEPT ![c] = None] /\ removed' = removed \ {m.addr}
           /\ Lapse({offers[c]} \cap removed \cap {m.addr})
  <2>1. /\ \A d \in Clients \ {c} : offers'[d] = offers[d] /\ leases'[d] = leases[d]
        /\ offers'[c] = offers[c] /\ leases'[c] = None
        /\ leases' \in [Clients -> Addresses \cup {None}]
        /\ m.addr \in Addresses
    BY <1>1, <1>3, ServerTypes
  <2>2. MessagesOK' /\ ClientsOK'
    BY <1>1, <2>1, ServerKeepsClients
  <2>3. TypeOK'
    BY <1>1, <1>3, <2>1, ServerTypes, ServerKeepsTypes, LapseProperties
  <2> DEFINE H == {offers[c]} \ {None}
  <2>4. Held(c)' = H /\ Held(c) = {m.addr} /\ H = {offers[c]} \cap {m.addr}
    <3>1. m.addr # None /\ offers[c] \in {None, m.addr} /\ leases[c] = m.addr
      BY <1>1, <1>3, ServerTypes
    <3>2. Held(c)' = H
      BY <2>1 DEF Held
    <3> QED BY <3>1, <3>2 DEF Held
  <2> HIDE DEF H
  <2>6. /\ lapses' \in [Addresses -> Nat]
        /\ \A x \in Addresses :
             /\ Shares(x)' >= Shares(x) - 1
             /\ x # m.addr \/ x \in H => Shares(x)' >= Shares(x)
    <3>1. /\ lapses' \in [Addresses -> Nat]
          /\ \A x \in Addresses : /\ lapses'[x] >= lapses[x]
                                  /\ x \in H /\ x \in removed => lapses'[x] > lapses[x]
      BY <1>3, <2>4, LapseProperties
    <3>2. \A x \in Addresses : x # m.addr => (x \in removed' <=> x \in removed)
      BY <1>3
    <3> QED BY <3>1, <3>2, SharesStep
  <2>5. PoolOK'
    BY <1>1, <1>3, <2>1, <2>4, <2>6, PoolStep
  <2> QED BY <2>2, <2>3, <2>5 DEF IInv
<1> QED BY <1>2, <1>3 DEF ExecRelease

LEMMA RequestOK ==
  ASSUME IInv, NEW m \in toServer, ExecRequest(m)
  PROVE  IInv'
<1> DEFINE c == m.client
           rest == removed \ (OldLease(m) \cup OldOffer(m))
<1>1. c \in Clients /\ m.type = "request" /\ m.addr \in Addressed
  BY MessageProperties DEF ExecRequest
<1>2. m.addr # None /\ OldLease(m) \subseteq Held(c) /\ OldOffer(m) \subseteq Held(c)
      /\ m.addr \notin OldLease(m) /\ m.addr \notin OldOffer(m)
  BY <1>1, DHCPAssumption DEF OldLease, OldOffer, Held, Addressed
<1>3. CASE Take(m, {}) /\ UNCHANGED serverVars
  <2>1. MessagesOK' /\ ClientsOK'
    BY <1>3, ServerKeepsClients DEF serverVars
  <2>2. TypeOK'
    BY <1>1, <1>3, ServerTypes, ServerKeepsTypes DEF serverVars
  <2>3. PoolOK'
    BY <1>3 DEF IInv, PoolOK, Held, Holders, Shares, serverVars
  <2> QED BY <2>1, <2>2, <2>3 DEF IInv
\* The lease is put back, then the offer of it a second time, which raises.
<1>4. CASE /\ OldLease(m) \subseteq removed /\ ~(OldOffer(m) \subseteq removed \ OldLease(m))
           /\ removed' = removed \ OldLease(m) /\ leases' = Without(leases, c, OldLease(m))
           /\ Lapse(OldLease(m) \cap OldOffer(m))
           /\ Take(m, {}) /\ offers' = offers
  <2>1. /\ leases' \in [Clients -> Addresses \cup {None}]
        /\ \A d \in Clients \ {c} : offers'[d] = offers[d] /\ leases'[d] = leases[d]
        /\ leases'[c] = IF leases[c] \in OldLease(m) THEN None ELSE leases[c]
    BY <1>1, <1>4, ServerTypes DEF Without
  <2>2. leases[c] # m.addr /\ OldOffer(m) = {offers[c]} \ {None, m.addr}
    BY <1>4 DEF OldOffer
  <2>3. leases'[c] = None /\ OldOffer(m) \subseteq Addresses
    BY <1>1, <2>1, <2>2, ServerTypes DEF OldLease
  <2>4. MessagesOK' /\ ClientsOK'
    BY <1>4, <2>1, ServerKeepsClients
  <2>5. TypeOK'
    BY <1>1, <1>4, <2>1, <2>3, ServerTypes, ServerKeepsTypes, LapseProperties
  <2> DEFINE H == {offers[c]} \ {None}
  <2>6. Held(c)' = H /\ H \subseteq Held(c)
    BY <1>4, <2>3 DEF Held
  <2>7. ASSUME NEW x \in removed' PROVE x \in H \/ (x \in removed /\ x \notin Held(c))
    BY <1>1, <1>4, <2>2, <2>7, ServerTypes DEF Held, OldLease
\* What comes back, if anything, is the address of both.
  <2>8. /\ lapses' \in [Addresses -> Nat]
        /\ \A x \in Addresses : Shares(x)' >= Shares(x)
    <3>1. /\ lapses' \in [Addresses -> Nat]
          /\ \A x \in Addresses :
               /\ lapses'[x] >= lapses[x]
               /\ x \in OldLease(m) /\ x \in OldOffer(m) => lapses'[x] > lapses[x]
      BY <1>4, LapseProperties
    <3>2. OldLease(m) \subseteq OldOffer(m)
      BY <1>1, <1>4, <2>2, ServerTypes DEF OldLease
    <3> QED BY <1>4, <3>1, <3>2, SharesStep
  <2>10. H = Held(c)
    BY <1>1, <1>4, <2>2, ServerTypes DEF Held, OldLease
  <2> HIDE DEF H
  <2>9. PoolOK'
    BY <1>1, <2>1, <2>3, <2>6, <2>7, <2>8, <2>10, PoolStep
  <2> QED BY <2>4, <2>5, <2>9 DEF IInv
\* Granted: the client's own address, or one of the pool.
<1>5. CASE /\ OldLease(m) \subseteq removed /\ OldOffer(m) \subseteq removed \ OldLease(m)
           /\ offers' = Without(offers, c, OldOffer(m)) /\ lapses' = lapses
           /\ m.addr \in {leases[c], offers[c]} \/ m.addr \in Addresses \ rest
           /\ removed' = IF m.addr \in {leases[c], offers[c]} THEN rest ELSE rest \cup {m.addr}
           /\ leases' = [leases EXCEPT ![c] = m.addr]
           /\ Grant(m)
  <2>1. m.addr \in Addresses
    BY <1>1, <1>2, <1>5, ServerTypes
  <2>2. /\ leases' \in [Clients -> Addresses \cup {None}] /\ leases'[c] = m.addr
        /\ offers' \in [Clients -> Addresses \cup {None}]
        /\ \A d \in Clients \ {c} : offers'[d] = offers[d] /\ leases'[d] = leases[d]
        /\ offers'[c] = IF offers[c] \in OldOffer(m) THEN None ELSE offers[c]
    BY <1>1, <1>5, <2>1, ServerTypes DEF Without
  <2>3. offers'[c] \in {None, m.addr}
    <3>1. CASE leases[c] = m.addr
      BY <1>1, <1>2, <2>2, <3>1, ServerTypes
    <3>2. CASE leases[c] # m.addr
      BY <2>2, <3>2 DEF OldOffer
    <3> QED BY <3>1, <3>2
  <2>4. PICK type \in {"ack", "nak"} : Take(m, Reply(m, type, m.addr))
    BY <1>5 DEF Grant
  <2>5. MessagesOK' /\ ClientsOK'
    <3>1. /\ Reply(m, type, m.addr) \in SUBSET Answers
          /\ \A k \in Reply(m, type, m.addr) : /\ k.ours /\ k.client = m.client
                                               /\ k.xid = m.xid /\ k.type = type
      BY <1>1, ReplyProperties
    <3> QED BY <1>1, <2>2, <2>4, <3>1, ServerKeepsClients
  <2>6. TypeOK'
    BY <1>1, <1>5, <2>1, <2>2, <2>4, ServerTypes, ServerKeepsTypes
  <2>7. Held(c)' = {m.addr}
    BY <1>2, <2>2, <2>3 DEF Held
  <2>8. ASSUME NEW x \in removed' PROVE x \in {m.addr} \/ (x \in removed /\ x \notin Held(c))
    <3>1. CASE x = m.addr
      BY <3>1
    <3>2. CASE x \in rest /\ x # m.addr
      <4>1. x # leases[c] \/ x = None
        BY <3>2 DEF OldLease
      <4>2. x # None
        BY <1>1, <3>2, ServerTypes
      <4>3. x # offers[c]
        BY <1>1, <1>2, <3>2, <4>2, ServerTypes DEF OldOffer
      <4> QED BY <3>2, <4>1, <4>2, <4>3 DEF Held
    <3> QED BY <1>5, <2>8, <3>1, <3>2
  <2>9. m.addr \notin Held(c) => m.addr \in removed' /\ m.addr \notin removed
    BY <1>2, <1>5, <2>1, ServerTypes DEF Held
  <2>10. /\ lapses' \in [Addresses -> Nat]
         /\ \A x \in Addresses :
              /\ Shares(x)' >= Shares(x) - 1
              /\ x \notin Held(c) \/ x = m.addr => Shares(x)' >= Shares(x)
         /\ m.addr \notin Held(c) => Shares(m.addr)' >= Shares(m.addr) + 1
    <3>1. lapses' \in [Addresses -> Nat] /\ \A x \in Addresses : lapses'[x] >= lapses[x]
      BY <1>1, <1>5, ServerTypes
    <3>2. \A x \in removed \ removed' : x \in Held(c) /\ x # m.addr
      BY <1>2, <1>5
    <3> QED BY <2>1, <2>9, <3>1, <3>2, SharesStep
  <2>11. PoolOK'
    BY <1>1, <2>2, <2>3, <2>7, <2>8, <2>10, PoolStep
  <2> QED BY <2>5, <2>6, <2>11 DEF IInv
\* Refused: whatever the client held is put back.
<1>6. CASE /\ OldLease(m) \subseteq removed /\ OldOffer(m) \subseteq removed \ OldLease(m)
           /\ offers' = Without(offers, c, OldOffer(m)) /\ lapses' = lapses
           /\ m.addr \notin {leases[c], offers[c]}
           /\ removed' = rest /\ leases' = Without(leases, c, OldLease(m))
           /\ Take(m, Reply(m, "nak", None))
  <2>1. OldLease(m) = {leases[c]} \ {None} /\ OldOffer(m) = {offers[c]} \ {None}
    BY <1>6 DEF OldLease, OldOffer
  <2>2. /\ leases' \in [Clients -> Addresses \cup {None}] /\ leases'[c] = None
        /\ offers' \in [Clients -> Addresses \cup {None}] /\ offers'[c] = None
        /\ \A d \in Clients \ {c} : offers'[d] = offers[d] /\ leases'[d] = leases[d]
    BY <1>1, <1>6, <2>1, ServerTypes DEF Without
  <2>3. MessagesOK' /\ ClientsOK'
    <3>1. /\ Reply(m, "nak", None) \in SUBSET Answers
          /\ \A k \in Reply(m, "nak", None) : /\ k.ours /\ k.client = m.client
                                              /\ k.xid = m.xid /\ k.type = "nak"
      BY ReplyProperties
    <3> QED BY <1>6, <2>2, <3>1, ServerKeepsClients
  <2>4. TypeOK'
    BY <1>1, <1>6, <2>2, ServerTypes, ServerKeepsTypes
  <2>5. Held(c)' = {} /\ Held(c) = OldLease(m) \cup OldOffer(m)
    BY <2>1, <2>2 DEF Held
  <2>7. /\ lapses' \in [Addresses -> Nat]
        /\ \A x \in Addresses :
             /\ Shares(x)' >= Shares(x) - 1
             /\ x \notin Held(c) => Shares(x)' >= Shares(x)
    <3>1. lapses' \in [Addresses -> Nat] /\ \A x \in Addresses : lapses'[x] >= lapses[x]
      BY <1>1, <1>6, ServerTypes
    <3>2. \A x \in removed \ removed' : x \in Held(c)
      BY <1>6, <2>5
    <3> QED BY <3>1, <3>2, SharesStep
  <2>6. PoolOK'
    BY <1>1, <1>6, <2>2, <2>5, <2>7, PoolStep
  <2> QED BY <2>3, <2>4, <2>6 DEF IInv
<1> QED
  BY <1>3, <1>4, <1>5, <1>6, Zenon DEF ExecRequest, serverVars

(***************************************************************************)
(* The clients.  Their steps leave the server alone, and what one of them  *)
(* does concerns no other.                                                 *)
(***************************************************************************)
LEMMA ClientTypes ==
  ASSUME IInv
  PROVE  /\ state \in [Clients -> States] /\ timers \in [Clients -> SUBSET Timers]
         /\ received \in [Clients -> Seq(Addressed)]
         /\ bound \in [Clients -> Addressed \cup {None}]
         /\ requested \in [Clients -> Addressed \cup {None}]
         /\ sent \in [Clients -> Nat] /\ answered \in [Clients -> Nat]
         /\ offerXid \in [Clients -> Nat] /\ requestXid \in [Clients -> Nat]
         /\ \A c \in Clients : offerXid[c] <= sent[c] /\ requestXid[c] <= sent[c]
         /\ \A c \in Clients : requested[c] # None <=> state[c] = "REQUESTING"
         /\ None \notin Addressed
BY DHCPAssumption DEF IInv, TypeOK, MessagesOK, States, Timers, Addressed

\* What a step of client c has to keep.
LEMMA ClientStep ==
  ASSUME IInv, NEW c \in Clients, UNCHANGED serverVars,
         state' \in [Clients -> States], timers' \in [Clients -> SUBSET Timers],
         received' \in [Clients -> Seq(Addressed)],
         bound' \in [Clients -> Addressed \cup {None}],
         requested' \in [Clients -> Addressed \cup {None}],
         sent' \in [Clients -> Nat], answered' \in [Clients -> Nat],
         offerXid' \in [Clients -> Nat], requestXid' \in [Clients -> Nat],
         \A d \in Clients \ {c} :
           /\ state'[d] = state[d] /\ timers'[d] = timers[d] /\ bound'[d] = bound[d]
           /\ requested'[d] = requested[d] /\ sent'[d] = sent[d]
           /\ offerXid'[d] = offerXid[d] /\ requestXid'[d] = requestXid[d],
         sent[c] <= sent'[c], offerXid'[c] <= sent'[c], requestXid'[c] <= sent'[c],
         requested'[c] # None <=> state'[c] = "REQUESTING",
         \A m \in toServer' : m \in toServer \/
           /\ m \in Messages({"discover", "request", "release"})
           /\ m.client = c /\ m.xid <= sent'[c] /\ (m.type # "discover" => m.addr # None),
         \A k \in toClient' : k \in toClient \/
           /\ k \in Answers /\ k.client = c /\ k.xid <= sent'[c]
           /\ k.type = "offer" => k.addr # None,
         TimersOf(c)', BindingOf(c)'
  PROVE  IInv'
<1>1. TypeOK'
  <2>1. \A d \in Clients : requested'[d] # None <=> state'[d] = "REQUESTING"
    BY ClientTypes
  <2>2. toServer' \subseteq Messages({"discover", "request", "release"})
    BY DEF IInv, TypeOK
  <2>3. /\ removed' \subseteq Addresses /\ lapses' \in [Addresses -> Nat]
        /\ offers' \in [Clients -> Addresses \cup {None}]
        /\ leases' \in [Clients -> Addresses \cup {None}]
    BY DEF IInv, TypeOK, serverVars
  <2> QED BY <2>1, <2>2, <2>3 DEF TypeOK, States, Timers, Addressed
<1>2. MessagesOK'
  <2>0. ASSUME NEW d \in Clients
        PROVE  sent[d] <= sent'[d] /\ sent[d] \in Nat /\ sent'[d] \in Nat
    <3>1. sent[d] \in Nat /\ sent'[d] \in Nat
      BY ClientTypes
    <3>2. CASE d = c
      BY <3>1, <3>2
    <3>3. CASE d # c
      BY <3>1, <3>3
    <3> QED BY <3>2, <3>3, <3>1
  <2>1. \A d \in Clients : offerXid'[d] <= sent'[d] /\ requestXid'[d] <= sent'[d]
    BY ClientTypes
  <2>2. ASSUME NEW m \in toServer' PROVE m.xid <= sent'[m.client] /\ (m.type # "discover" => m.addr # None)
    <3>1. CASE m \in toServer
      <4>1. m.client \in Clients /\ m.xid \in Nat /\ m.xid <= sent[m.client]
        BY <3>1, MessageProperties
      <4>2. sent[m.client] <= sent'[m.client] /\ sent[m.client] \in Nat /\ sent'[m.client] \in Nat
        BY <2>0, <4>1
      <4>3. m.type # "discover" => m.addr # None
        BY <3>1 DEF IInv, MessagesOK
      <4> QED BY <4>1, <4>2, <4>3
    <3>2. CASE m \notin toServer
      BY <2>2, <3>2
    <3> QED BY <3>1, <3>2
  <2>3. ASSUME NEW k \in toClient'
        PROVE  k \in Answers /\ k.xid <= sent'[k.client] /\ (k.type = "offer" => k.addr # None)
    <3>1. CASE k \in toClient
      <4>1. k \in Answers /\ k.xid <= sent[k.client] /\ (k.type = "offer" => k.addr # None)
        BY <3>1 DEF IInv, MessagesOK
      <4>2. k.client \in Clients /\ k.xid \in Nat
        BY <4>1 DEF Answers
      <4>3. sent[k.client] <= sent'[k.client] /\ sent[k.client] \in Nat /\ sent'[k.client] \in Nat
        BY <2>0, <4>2
      <4> QED BY <4>1, <4>2, <4>3
    <3>2. CASE k \notin toClient
      BY <2>3, <3>2
    <3> QED BY <3>1, <3>2
  <2> QED BY <2>1, <2>2, <2>3 DEF MessagesOK
<1>3. PoolOK'
  BY DEF IInv, PoolOK, Held, Holders, Shares, serverVars
<1>4. ASSUME NEW d \in Clients \ {c} PROVE TimersOf(d)' /\ BindingOf(d)'
  <2>1. TimersOf(d) /\ BindingOf(d)
    BY DEF IInv, ClientsOK
  <2>2. TimersOf(d)'
    BY <2>1 DEF TimersOf
  <2>3. /\ \A m \in toServer' : m.client = d => m \in toServer
        /\ \A k \in toClient' : k.client = d => k \in toClient
    OBVIOUS
  <2>4. leases' = leases
    BY DEF serverVars
  <2>5. BindingOf(d)'
    BY <2>1, <2>3, <2>4 DEF BindingOf, Heard
  <2> QED BY <2>2, <2>5
<1> QED BY <1>1, <1>2, <1>3, <1>4 DEF IInv, ClientsOK

LEMMA SendProperties ==
  ASSUME IInv, NEW c \in Clients, NEW type \in {"discover", "request", "release"},
         NEW a \in Addressed \cup {None}, type # "discover" => a # None, Send(c, type, a)
  PROVE  /\ sent' \in [Clients -> Nat] /\ sent'[c] = sent[c] + 1
         /\ \A d \in Clients \ {c} : sent'[d] = sent[d]
         /\ \A m \in toServer' : m \in toServer \/
              /\ m \in Messages({"discover", "request", "release"})
              /\ m.client = c /\ m.xid <= sent'[c] /\ (m.type # "discover" => m.addr # None)
              /\ m.type = type /\ m.addr = a
         /\ \A m \in toServer : m.client = c => m.xid < sent'[c]
         /\ \A k \in toClient : k.client = c => k.xid < sent'[c]
<1>1. sent \in [Clients -> Nat] /\ sent' = [sent EXCEPT ![c] = sent[c] + 1]
  BY ClientTypes DEF Send
<1>2. /\ sent' \in [Clients -> Nat] /\ sent'[c] = sent[c] + 1 /\ sent[c] \in Nat
      /\ \A d \in Clients \ {c} : sent'[d] = sent[d]
  BY <1>1
<1> DEFINE new == [type |-> type, client |-> c, xid |-> sent'[c], addr |-> a]
<1>3. toServer' = toServer \cup {new}
  BY DEF Send
<1>4. /\ new \in Messages({"discover", "request", "release"})
      /\ new.client = c /\ new.xid <= sent'[c] /\ (new.type # "discover" => new.addr # None)
      /\ new.type = type /\ new.addr = a
  BY <1>2 DEF Messages, Addressed
<1>5. ASSUME NEW m \in toServer, m.client = c PROVE m.xid < sent'[c]
  BY <1>2, <1>5, MessageProperties
<1>6. ASSUME NEW k \in toClient, k.client = c PROVE k.xid < sent'[c]
  <2>1. k \in Answers /\ k.xid <= sent[c]
    BY <1>6 DEF IInv, MessagesOK
  <2> QED BY <1>2, <2>1 DEF Answers
<1> HIDE DEF new
<1> QED BY <1>2, <1>3, <1>4, <1>5, <1>6

LEMMA EnterProperties ==
  ASSUME IInv, NEW c \in Clients, NEW s \in States, NEW killed, NEW begun \in SUBSET Timers,
         Enter(c, s, killed, begun)
  PROVE  /\ state' \in [Clients -> States] /\ timers' \in [Clients -> SUBSET Timers]
         /\ state'[c] = s /\ timers'[c] = (timers[c] \ killed) \cup begun
         /\ \A d \in Clients \ {c} : state'[d] = state[d] /\ timers'[d] = timers[d]
<1>1. /\ state \in [Clients -> States] /\ timers \in [Clients -> SUBSET Timers]
      /\ (timers[c] \ killed) \cup begun \in SUBSET Timers
  BY ClientTypes
<1> QED BY <1>1 DEF Enter

LEMMA StartOK ==
  ASSUME IInv, NEW c \in Clients, Start(c)
  PROVE  IInv'
<1>1. /\ state[c] = "NEW" /\ Enter(c, "INIT", {}, {"total", "discover"})
      /\ Send(c, "discover", None) /\ offerXid' = [offerXid EXCEPT ![c] = sent'[c]]
      /\ UNCHANGED serverVars /\ received' = received /\ requested' = requested
      /\ requestXid' = requestXid /\ bound' = bound /\ answered' = answered
      /\ toClient' = toClient
  BY DEF Start, requestVars
<1>2. /\ state' \in [Clients -> States] /\ timers' \in [Clients -> SUBSET Timers]
      /\ state'[c] = "INIT" /\ timers'[c] = (timers[c] \ {}) \cup {"total", "discover"}
      /\ \A d \in Clients \ {c} : state'[d] = state[d] /\ timers'[d] = timers[d]
  BY <1>1, EnterProperties DEF States, Timers
<1>3. /\ sent' \in [Clients -> Nat] /\ sent'[c] = sent[c] + 1
      /\ \A d \in Clients \ {c} : sent'[d] = sent[d]
      /\ \A m \in toServer' : m \in toServer \/
           /\ m \in Messages({"discover", "request", "release"})
           /\ m.client = c /\ m.xid <= sent'[c] /\ (m.type # "discover" => m.addr # None)
  BY <1>1, SendProperties
<1>4. TimersOf(c)'
  BY <1>1, <1>2 DEF IInv, ClientsOK, TimersOf
<1>5. BindingOf(c)'
  BY <1>2 DEF BindingOf
<1>6. /\ offerXid' \in [Clients -> Nat] /\ offerXid'[c] = sent'[c]
      /\ \A d \in Clients \ {c} : offerXid'[d] = offerXid[d]
  BY <1>1, <1>3, ClientTypes
<1>7. sent[c] <= sent'[c] /\ offerXid'[c] <= sent'[c] /\ requestXid'[c] <= sent'[c]
  BY <1>1, <1>3, <1>6, ClientTypes
<1> QED BY <1>1, <1>2, <1>3, <1>4, <1>5, <1>6, <1>7, ClientTypes, ClientStep

LEMMA DiscoverTimeoutOK ==
  ASSUME IInv, NEW c \in Clients, DiscoverTimeout(c)
  PROVE  IInv'
<1>1. /\ "discover" \in timers[c] /\ state' = state /\ timers' = timers
      /\ Send(c, "discover", None) /\ offerXid' = [offerXid EXCEPT ![c] = sent'[c]]
      /\ UNCHANGED serverVars /\ received' = [received EXCEPT ![c] = <<>>]
      /\ requested' = requested
      /\ requestXid' = requestXid /\ bound' = bound /\ answered' = answered
      /\ toClient' = toClient
  BY DEF DiscoverTimeout, requestVars
<1>2. state[c] = "INIT"
  BY <1>1 DEF IInv, ClientsOK, TimersOf
<1>3. /\ sent' \in [Clients -> Nat] /\ sent'[c] = sent[c] + 1
      /\ \A d \in Clients \ {c} : sent'[d] = sent[d]
      /\ \A m \in toServer' : m \in toServer \/
           /\ m \in Messages({"discover", "request", "release"})
           /\ m.client = c /\ m.xid <= sent'[c] /\ (m.type # "discover" => m.addr # None)
  BY <1>1, SendProperties
<1>4. TimersOf(c)'
  BY <1>1 DEF IInv, ClientsOK, TimersOf
<1>5. BindingOf(c)'
  BY <1>1, <1>2 DEF BindingOf
<1>6. /\ offerXid' \in [Clients -> Nat] /\ offerXid'[c] = sent'[c]
      /\ \A d \in Clients \ {c} : offerXid'[d] = offerXid[d]
  BY <1>1, <1>3, ClientTypes
<1>7. sent[c] <= sent'[c] /\ offerXid'[c] <= sent'[c] /\ requestXid'[c] <= sent'[c]
  BY <1>1, <1>3, <1>6, ClientTypes
<1>8. received' \in [Clients -> Seq(Addressed)]
  BY <1>1, ClientTypes
<1> QED BY <1>1, <1>2, <1>3, <1>4, <1>5, <1>6, <1>7, <1>8, ClientTypes, ClientStep

\* An offer is accepted: the request that follows has an xid of its own, so
\* neither messages nor answers of before can be taken for it.
LEMMA AcceptOK ==
  ASSUME IInv, NEW c \in Clients, NEW offered \in Seq(Addressed), NEW killed,
         Accept(c, offered, killed), timers[c] \ killed \subseteq {"total"},
         state[c] \in {"INIT", "SELECTING"},
         received' \in [Clients -> Seq(Addressed)],
         UNCHANGED <<serverVars, bound, offerXid, answered>>, toClient' \subseteq toClient
  PROVE  IInv'
<1>1. /\ UNCHANGED serverVars /\ bound' = bound /\ offerXid' = offerXid
      /\ answered' = answered
  OBVIOUS
<1>2. ASSUME NEW i \in DOMAIN offered,
             requested' = [requested EXCEPT ![c] = offered[i]],
             Enter(c, "REQUESTING", killed, {"request"}),
             Send(c, "request", offered[i]),
             requestXid' = [requestXid EXCEPT ![c] = sent'[c]]
      PROVE  IInv'
  <2>1. offered[i] \in Addressed /\ offered[i] # None
    BY ClientTypes
  <2>2. /\ state' \in [Clients -> States] /\ timers' \in [Clients -> SUBSET Timers]
        /\ state'[c] = "REQUESTING" /\ timers'[c] = (timers[c] \ killed) \cup {"request"}
        /\ \A d \in Clients \ {c} : state'[d] = state[d] /\ timers'[d] = timers[d]
    BY <1>2, EnterProperties DEF States, Timers
  <2>3. /\ sent' \in [Clients -> Nat] /\ sent'[c] = sent[c] + 1
        /\ \A d \in Clients \ {c} : sent'[d] = sent[d]
        /\ \A m \in toServer' : m \in toServer \/
             /\ m \in Messages({"discover", "request", "release"})
             /\ m.client = c /\ m.xid <= sent'[c] /\ (m.type # "discover" => m.addr # None)
             /\ m.type = "request" /\ m.addr = offered[i]
        /\ \A m \in toServer : m.client = c => m.xid < sent'[c]
        /\ \A k \in toClient : k.client = c => k.xid < sent'[c]
    BY <1>2, <2>1, SendProperties
  <2>4. /\ requested' \in [Clients -> Addressed \cup {None}] /\ requested'[c] = offered[i]
        /\ requestXid' \in [Clients -> Nat] /\ requestXid'[c] = sent'[c]
        /\ \A d \in Clients \ {c} : requested'[d] = requested[d] /\ requestXid'[d] = requestXid[d]
    BY <1>2, <2>1, <2>3, ClientTypes
  <2>5. TimersOf(c)'
    BY <2>2 DEF TimersOf
  <2>6. BindingOf(c)'
    <3>1. sent'[c] \in Nat
      BY <2>3
    <3>2. \A m \in toServer' : m.client = c /\ m.xid = sent'[c] =>
            m.type = "request" /\ m.addr = requested'[c]
      BY <2>3, <2>4, <3>1
    <3>3. \A k \in toClient' : ~(k.client = c /\ k.xid = sent'[c])
      BY <2>3, <3>1
    <3> QED BY <2>2, <2>4, <3>2, <3>3 DEF BindingOf
  <2>7. sent[c] <= sent'[c] /\ offerXid'[c] <= sent'[c] /\ requestXid'[c] <= sent'[c]
    BY <1>1, <2>3, <2>4, ClientTypes
  <2> QED BY <1>1, <2>1, <2>2, <2>3, <2>4, <2>5, <2>6, <2>7, ClientTypes, ClientStep
<1>3. ASSUME Enter(c, "IDLE", killed, {}), UNCHANGED <<requestVars, sent, toServer>>
      PROVE  IInv'
  <2>1. /\ state' \in [Clients -> States] /\ timers' \in [Clients -> SUBSET Timers]
        /\ state'[c] = "IDLE" /\ timers'[c] = (timers[c] \ killed) \cup {}
        /\ \A d \in Clients \ {c} : state'[d] = state[d] /\ timers'[d] = timers[d]
    BY <1>3, EnterProperties DEF States, Timers
  <2>2. TimersOf(c)' /\ BindingOf(c)'
    BY <2>1 DEF TimersOf, BindingOf
  <2>3. requested' = requested /\ requestXid' = requestXid /\ sent' = sent /\ toServer' = toServer
    BY <1>3 DEF requestVars
  <2>4. sent[c] <= sent'[c] /\ offerXid'[c] <= sent'[c] /\ requestXid'[c] <= sent'[c]
    BY <1>1, <2>3, ClientTypes
  <2>5. requested'[c] # None <=> state'[c] = "REQUESTING"
    BY <2>1, <2>3, ClientTypes
  <2> QED BY <1>1, <2>1, <2>2, <2>3, <2>4, <2>5, ClientTypes, ClientStep
<1> QED BY <1>2, <1>3, Zenon DEF Accept

LEMMA OfferTimeoutOK ==
  ASSUME IInv, NEW c \in Clients, OfferTimeout(c)
  PROVE  IInv'
<1>1. /\ "offer" \in timers[c] /\ Accept(c, received[c], {"offer"})
      /\ UNCHANGED <<serverVars, bound, offerXid, answered>> /\ received' = received
      /\ toClient' \subseteq toClient
  BY DEF OfferTimeout
<1>2. TimersOf(c) /\ timers[c] \subseteq Timers
  BY ClientTypes DEF IInv, ClientsOK
<1>3. state[c] = "SELECTING"
  BY <1>1, <1>2 DEF TimersOf
<1>4. timers[c] \ {"offer"} \subseteq {"total"}
  BY <1>2, <1>3 DEF TimersOf, Timers
<1>5. received[c] \in Seq(Addressed) /\ received' \in [Clients -> Seq(Addressed)]
  BY <1>1, ClientTypes
<1> QED BY <1>1, <1>3, <1>4, <1>5, AcceptOK

LEMMA ReceiveProperties ==
  ASSUME IInv, NEW c \in Clients, NEW m \in toClient, Receive(c, m)
  PROVE  /\ m.client = c /\ m \in Answers /\ toClient' \subseteq toClient
         /\ UNCHANGED <<serverVars, offerXid, answered>>
         /\ m.type = "offer" => m.addr \in Addressed
BY DEF Receive, IInv, MessagesOK, Answers

\* An offer only counts in INIT or SELECTING, where no request is under way.
LEMMA ReceiveOfferOK ==
  ASSUME IInv, NEW c \in Clients, NEW m \in toClient, ReceiveOffer(c, m)
  PROVE  IInv'
<1>1. /\ Receive(c, m) /\ m.type = "offer" /\ state[c] \in {"INIT", "SELECTING"}
      /\ bound' = bound
  BY DEF ReceiveOffer
<1>2. /\ toClient' \subseteq toClient /\ UNCHANGED <<serverVars, offerXid, answered>>
      /\ m.addr \in Addressed
  BY <1>1, ReceiveProperties
<1>3. TimersOf(c) /\ timers[c] \subseteq Timers
  BY ClientTypes DEF IInv, ClientsOK
<1>4. timers[c] \ {"discover", "offer"} \subseteq {"total"}
  BY <1>1, <1>3 DEF TimersOf, Timers
<1>5. timers[c] \ {"discover"} \subseteq {"total", "offer"}
  BY <1>4
\* SELECTING, with or without the offer
<1>6. ASSUME Enter(c, "SELECTING", {"discover"}, {"offer"}),
             UNCHANGED <<requestVars, sent, toServer>>,
             received' \in [Clients -> Seq(Addressed)]
      PROVE  IInv'
  <2>1. /\ state' \in [Clients -> States] /\ timers' \in [Clients -> SUBSET Timers]
        /\ state'[c] = "SELECTING" /\ timers'[c] = (timers[c] \ {"discover"}) \cup {"offer"}
        /\ \A d \in Clients \ {c} : state'[d] = state[d] /\ timers'[d] = timers[d]
    BY <1>6, EnterProperties DEF States, Timers
  <2>2. TimersOf(c)' /\ BindingOf(c)'
    BY <1>5, <2>1 DEF TimersOf, BindingOf
  <2>3. requested' = requested /\ requestXid' = requestXid /\ sent' = sent /\ toServer' = toServer
    BY <1>6 DEF requestVars
  <2>4. sent[c] <= sent'[c] /\ offerXid'[c] <= sent'[c] /\ requestXid'[c] <= sent'[c]
    BY <1>2, <2>3, ClientTypes
  <2>5. requested'[c] # None <=> state'[c] = "REQUESTING"
    BY <1>1, <2>1, <2>3, ClientTypes
  <2> QED BY <1>1, <1>2, <1>6, <2>1, <2>2, <2>3, <2>4, <2>5, ClientTypes, ClientStep
<1>7. CASE received' = [received EXCEPT ![c] = Append(received[c], m.addr)]
  <2>1. /\ received' \in [Clients -> Seq(Addressed)]
        /\ received'[c] = Append(received[c], m.addr) /\ received'[c] \in Seq(Addressed)
    BY <1>2, <1>7, ClientTypes
  <2>2. CASE Accept(c, received'[c], {"discover", "offer"})
    BY <1>1, <1>2, <1>4, <2>1, <2>2, AcceptOK
  <2>3. CASE /\ Enter(c, "SELECTING", {"discover"}, {"offer"})
             /\ UNCHANGED <<requestVars, sent, toServer>>
    BY <1>6, <2>1, <2>3
  <2> QED BY <1>7, <2>2, <2>3 DEF ReceiveOffer
<1>8. CASE /\ Enter(c, "SELECTING", {"discover"}, {"offer"})
           /\ UNCHANGED <<received, requestVars, sent, toServer>>
  BY <1>6, <1>8, ClientTypes
<1> QED BY <1>7, <1>8 DEF ReceiveOffer

\* The ACK of our server for the last request: the lease is the one requested.
LEMMA ReceiveAckOK ==
  ASSUME IInv, NEW c \in Clients, NEW m \in toClient, ReceiveAck(c, m)
  PROVE  IInv'
<1>1. /\ Receive(c, m) /\ m.type = "ack" /\ m.xid = requestXid[c]
      /\ state[c] = "REQUESTING"
      /\ bound' = [bound EXCEPT ![c] = requested[c]]
      /\ requested' = [requested EXCEPT ![c] = None]
      /\ Enter(c, "BOUND", {"total", "request"}, {})
      /\ UNCHANGED <<received, requestXid, sent, toServer>>
  BY DEF ReceiveAck
<1>2. /\ toClient' \subseteq toClient /\ UNCHANGED <<serverVars, offerXid, answered>>
      /\ m.client = c
  BY <1>1, ReceiveProperties
<1>3. TimersOf(c) /\ BindingOf(c) /\ timers[c] \subseteq Timers
  BY ClientTypes DEF IInv, ClientsOK
<1>4. IF m.ours THEN leases[c] = requested[c] /\ Heard(c) ELSE requested[c] = Elsewhere
  BY <1>1, <1>2, <1>3 DEF BindingOf
<1>5. /\ state' \in [Clients -> States] /\ timers' \in [Clients -> SUBSET Timers]
      /\ state'[c] = "BOUND" /\ timers'[c] = (timers[c] \ {"total", "request"}) \cup {}
      /\ \A d \in Clients \ {c} : state'[d] = state[d] /\ timers'[d] = timers[d]
  BY <1>1, EnterProperties DEF States, Timers
<1>6. TimersOf(c)'
  BY <1>1, <1>3, <1>5 DEF TimersOf, Timers
<1>7. /\ bound' \in [Clients -> Addressed \cup {None}] /\ bound'[c] = requested[c]
      /\ requested' \in [Clients -> Addressed \cup {None}] /\ requested'[c] = None
      /\ \A d \in Clients \ {c} : bound'[d] = bound[d] /\ requested'[d] = requested[d]
  BY <1>1, ClientTypes
<1>8. BindingOf(c)'
  <2>1. requested[c] # None
    BY <1>1, ClientTypes
  <2>2. leases' = leases /\ toServer' = toServer
    BY <1>1, <1>2 DEF serverVars
  <2> QED BY <1>4, <1>5, <1>7, <2>1, <2>2 DEF BindingOf, Heard
<1>9. sent[c] <= sent'[c] /\ offerXid'[c] <= sent'[c] /\ requestXid'[c] <= sent'[c]
  BY <1>1, <1>2, ClientTypes
<1> QED BY <1>1, <1>2, <1>5, <1>6, <1>7, <1>8, <1>9, ClientTypes, ClientStep

LEMMA IgnoreOK ==
  ASSUME IInv, NEW c \in Clients, NEW m \in toClient, Ignore(c, m)
  PROVE  IInv'
<1>1. /\ Receive(c, m) /\ UNCHANGED <<state, timers, received, requestVars, bound, sent, toServer>>
  BY DEF Ignore
<1>2. /\ toClient' \subseteq toClient /\ UNCHANGED <<serverVars, offerXid, answered>>
  BY <1>1, ReceiveProperties
<1>3. requested' = requested /\ requestXid' = requestXid /\ leases' = leases
  BY <1>1, <1>2 DEF requestVars, serverVars
<1>4. TimersOf(c) /\ BindingOf(c)
  BY DEF IInv, ClientsOK
<1>5. TimersOf(c)'
  BY <1>1, <1>4 DEF TimersOf
<1>6. BindingOf(c)'
  BY <1>1, <1>2, <1>3, <1>4 DEF BindingOf, Heard
<1>7. sent[c] <= sent'[c] /\ offerXid'[c] <= sent'[c] /\ requestXid'[c] <= sent'[c]
  BY <1>1, <1>2, <1>3, ClientTypes
<1> QED BY <1>1, <1>2, <1>3, <1>5, <1>6, <1>7, ClientTypes, ClientStep

LEMMA TimeoutOK ==
  ASSUME IInv, NEW c \in Clients, RequestTimeout(c) \/ TotalTimeout(c)
  PROVE  IInv'
<1>1. /\ requested' = [requested EXCEPT ![c] = None]
      /\ UNCHANGED <<serverVars, received, requestXid, bound, offerXid, sent, answered, toServer, toClient>>
  BY DEF RequestTimeout, TotalTimeout
<1>2. requested' \in [Clients -> Addressed \cup {None}] /\ requested'[c] = None
      /\ \A d \in Clients \ {c} : requested'[d] = requested[d]
  BY <1>1, ClientTypes
<1>3. TimersOf(c) /\ timers[c] \subseteq Timers
  BY ClientTypes DEF IInv, ClientsOK
<1>4. sent[c] <= sent'[c] /\ offerXid'[c] <= sent'[c] /\ requestXid'[c] <= sent'[c]
  BY <1>1, ClientTypes
<1>5. CASE RequestTimeout(c)
  <2>1. Enter(c, "INIT", {"request"}, {}) /\ "request" \in timers[c]
    BY <1>5 DEF RequestTimeout
  <2>2. /\ state' \in [Clients -> States] /\ timers' \in [Clients -> SUBSET Timers]
        /\ state'[c] = "INIT" /\ timers'[c] = (timers[c] \ {"request"}) \cup {}
        /\ \A d \in Clients \ {c} : state'[d] = state[d] /\ timers'[d] = timers[d]
    BY <2>1, EnterProperties DEF States, Timers
  <2>3. TimersOf(c)' /\ BindingOf(c)'
    BY <1>3, <2>1, <2>2 DEF TimersOf, BindingOf
  <2> QED BY <1>1, <1>2, <1>4, <2>2, <2>3, ClientTypes, ClientStep
<1>6. CASE TotalTimeout(c)
  <2>1. Enter(c, "ERROR", timers[c], {})
    BY <1>6 DEF TotalTimeout
  <2>2. /\ state' \in [Clients -> States] /\ timers' \in [Clients -> SUBSET Timers]
        /\ state'[c] = "ERROR" /\ timers'[c] = (timers[c] \ timers[c]) \cup {}
        /\ \A d \in Clients \ {c} : state'[d] = state[d] /\ timers'[d] = timers[d]
    BY <2>1, EnterProperties DEF States, Timers
  <2>3. TimersOf(c)' /\ BindingOf(c)'
    BY <2>2 DEF TimersOf, BindingOf
  <2> QED BY <1>1, <1>2, <1>4, <2>2, <2>3, ClientTypes, ClientStep
<1> QED BY <1>5, <1>6

LEMMA LeaveOK ==
  ASSUME IInv, NEW c \in Clients, Leave(c)
  PROVE  IInv'
<1>1. /\ state[c] = "BOUND" /\ state' = [state EXCEPT ![c] = "gone"]
      /\ Send(c, "release", bound[c]) \/ UNCHANGED <<sent, toServer>>
      /\ UNCHANGED <<serverVars, timers, received, requestVars, bound, offerXid, answered, toClient>>
  BY DEF Leave
<1>2. TimersOf(c) /\ BindingOf(c) /\ timers[c] \subseteq Timers
  BY ClientTypes DEF IInv, ClientsOK
<1>3. timers[c] = {} /\ bound[c] # None /\ bound[c] \in Addressed \cup {None}
  BY <1>1, <1>2, ClientTypes DEF TimersOf, BindingOf, Timers
<1>4. /\ state' \in [Clients -> States] /\ state'[c] = "gone"
      /\ \A d \in Clients \ {c} : state'[d] = state[d]
  BY <1>1, ClientTypes DEF States
<1>5. /\ sent' \in [Clients -> Nat] /\ sent[c] <= sent'[c]
      /\ \A d \in Clients \ {c} : sent'[d] = sent[d]
      /\ \A m \in toServer' : m \in toServer \/
           /\ m \in Messages({"discover", "request", "release"})
           /\ m.client = c /\ m.xid <= sent'[c] /\ (m.type # "discover" => m.addr # None)
  <2>1. CASE Send(c, "release", bound[c])
    <3>1. /\ sent' \in [Clients -> Nat] /\ sent'[c] = sent[c] + 1
          /\ \A d \in Clients \ {c} : sent'[d] = sent[d]
          /\ \A m \in toServer' : m \in toServer \/
               /\ m \in Messages({"discover", "request", "release"})
               /\ m.client = c /\ m.xid <= sent'[c] /\ (m.type # "discover" => m.addr # None)
      BY <1>3, <2>1, SendProperties
    <3>2. sent[c] <= sent'[c]
      BY <3>1, ClientTypes
    <3> QED BY <3>1, <3>2
  <2>2. CASE UNCHANGED <<sent, toServer>>
    BY <2>2, ClientTypes
  <2> QED BY <1>1, <2>1, <2>2
<1>6. requested' = requested /\ requestXid' = requestXid
  BY <1>1 DEF requestVars
<1>7. TimersOf(c)' /\ BindingOf(c)'
  BY <1>1, <1>3, <1>4 DEF TimersOf, BindingOf
<1>8. offerXid'[c] <= sent'[c] /\ requestXid'[c] <= sent'[c]
  BY <1>1, <1>5, <1>6, ClientTypes
<1>9. requested'[c] # None <=> state'[c] = "REQUESTING"
  BY <1>1, <1>4, <1>6, ClientTypes
<1> QED BY <1>1, <1>4, <1>5, <1>6, <1>7, <1>8, <1>9, ClientTypes, ClientStep

LEMMA ReturnOK ==
  ASSUME IInv, NEW c \in Clients, Return(c)
  PROVE  IInv'
<1>1. /\ state[c] = "gone" /\ state' = [state EXCEPT ![c] = "NEW"]
      /\ received' = [received EXCEPT ![c] = <<>>] /\ bound' = [bound EXCEPT ![c] = None]
      /\ offerXid' = [offerXid EXCEPT ![c] = 0] /\ requestXid' = [requestXid EXCEPT ![c] = 0]
      /\ UNCHANGED <<serverVars, timers, requested, sent, answered, toServer, toClient>>
  BY DEF Return
<1>2. TimersOf(c) /\ timers[c] \subseteq Timers
  BY ClientTypes DEF IInv, ClientsOK
<1>3. /\ state' \in [Clients -> States] /\ state'[c] = "NEW"
      /\ received' \in [Clients -> Seq(Addressed)]
      /\ bound' \in [Clients -> Addressed \cup {None}]
      /\ \A d \in Clients \ {c} : state'[d] = state[d] /\ bound'[d] = bound[d]
  BY <1>1, ClientTypes DEF States
<1>4. /\ offerXid' \in [Clients -> Nat] /\ requestXid' \in [Clients -> Nat]
      /\ offerXid'[c] <= sent'[c] /\ requestXid'[c] <= sent'[c] /\ sent[c] <= sent'[c]
      /\ \A d \in Clients \ {c} : offerXid'[d] = offerXid[d] /\ requestXid'[d] = requestXid[d]
  BY <1>1, ClientTypes
<1>5. TimersOf(c)' /\ BindingOf(c)'
  BY <1>1, <1>2, <1>3 DEF TimersOf, BindingOf, Timers
<1>6. requested'[c] # None <=> state'[c] = "REQUESTING"
  BY <1>1, <1>3, ClientTypes
<1> QED BY <1>1, <1>3, <1>4, <1>5, <1>6, ClientTypes, ClientStep

\* The other server acknowledges only requests for its own address.
LEMMA OtherAnswersOK ==
  ASSUME IInv, NEW c \in Clients, OtherAnswers(c)
  PROVE  IInv'
<1>1. PICK type \in {"offer", "ack"} :
        LET xid == IF type = "offer" THEN offerXid[c] ELSE requestXid[c] IN
          /\ type = "ack" => requested[c] = Elsewhere
          /\ answered' = [answered EXCEPT ![c] = xid]
          /\ toClient' = toClient \cup
               {[ours |-> FALSE, type |-> type, client |-> c, xid |-> xid, addr |-> Elsewhere]}
  BY DEF OtherAnswers
<1> DEFINE xid == IF type = "offer" THEN offerXid[c] ELSE requestXid[c]
           new == [ours |-> FALSE, type |-> type, client |-> c, xid |-> xid, addr |-> Elsewhere]
<1>2. UNCHANGED <<serverVars, toServer>> /\ state' = state /\ timers' = timers
      /\ received' = received /\ requested' = requested /\ requestXid' = requestXid
      /\ bound' = bound /\ offerXid' = offerXid /\ sent' = sent
  BY DEF OtherAnswers, clientVars, requestVars
<1>3. xid \in Nat /\ xid <= sent[c] /\ answered' \in [Clients -> Nat]
  BY <1>1, ClientTypes
<1>4. /\ new \in Answers /\ new.client = c /\ new.xid <= sent[c] /\ new.addr # None
      /\ ~new.ours /\ new.type = type
  BY <1>3, DHCPAssumption DEF Answers, Addressed
<1>5. toClient' = toClient \cup {new}
  BY <1>1
<1> HIDE DEF new, xid
<1>6. TimersOf(c) /\ BindingOf(c)
  BY DEF IInv, ClientsOK
<1>7. TimersOf(c)'
  BY <1>2, <1>6 DEF TimersOf
<1>8. BindingOf(c)'
  <2>1. leases' = leases /\ toServer' = toServer
    BY <1>2 DEF serverVars
  <2>2. ASSUME state[c] = "REQUESTING", NEW k \in toClient', k.client = c, k.xid = sent[c],
               k.type = "ack"
        PROVE  IF k.ours THEN leases[c] = requested[c] /\ Heard(c) ELSE requested[c] = Elsewhere
    <3>1. CASE k \in toClient
      BY <1>6, <2>2, <3>1 DEF BindingOf
    <3>2. CASE k = new
      BY <1>1, <1>4, <2>2, <3>2
    <3> QED BY <1>5, <3>1, <3>2
  <2> QED BY <1>2, <1>6, <2>1, <2>2 DEF BindingOf, Heard
<1>9. sent[c] <= sent'[c] /\ offerXid'[c] <= sent'[c] /\ requestXid'[c] <= sent'[c]
  BY <1>2, ClientTypes
<1> QED BY <1>2, <1>3, <1>4, <1>5, <1>7, <1>8, <1>9, ClientTypes, ClientStep

LEMMA StepIInv == IInv /\ [Next]_vars => IInv'
<1> SUFFICES ASSUME IInv, [Next]_vars PROVE IInv'
  OBVIOUS
<1>1. ASSUME NEW m \in toServer, ExecDiscover(m) \/ ExecRequest(m) \/ ExecRelease(m) PROVE IInv'
  BY <1>1, DiscoverOK, RequestOK, ReleaseOK
<1>2. ASSUME NEW c \in Clients,
             Start(c) \/ DiscoverTimeout(c) \/ OfferTimeout(c) \/ RequestTimeout(c)
               \/ TotalTimeout(c) \/ Leave(c) \/ Return(c) \/ OtherAnswers(c)
      PROVE  IInv'
  BY <1>2, StartOK, DiscoverTimeoutOK, OfferTimeoutOK, TimeoutOK, LeaveOK, ReturnOK,
     OtherAnswersOK
<1>3. ASSUME NEW c \in Clients, NEW m \in toClient,
             ReceiveOffer(c, m) \/ ReceiveAck(c, m) \/ Ignore(c, m)
      PROVE  IInv'
  BY <1>3, ReceiveOfferOK, ReceiveAckOK, IgnoreOK
<1>4. CASE UNCHANGED vars
  BY <1>4 DEF vars, serverVars, clientVars, requestVars, IInv, TypeOK, MessagesOK, PoolOK, Held, Holders, Shares,
     ClientsOK, TimersOf, BindingOf, Heard
<1> QED BY <1>1, <1>2, <1>3, <1>4 DEF Next, Server

LEMMA Invariance == Spec => []IInv
BY InitIInv, StepIInv, PTL DEF Spec

LEMMA IInvImplies == IInv => TypeOK /\ NoConflict /\ NoLeak
<1> SUFFICES ASSUME IInv PROVE NoConflict /\ NoLeak
  BY DEF IInv
<1>1. NoConflict
  <2>1. \A x \in Addresses : Cardinality(Holders(x)) <= Shares(x)
    BY DEF IInv, PoolOK
  <2>2. ASSUME NEW c \in Clients, state[c] = "BOUND", bound[c] # Elsewhere
        PROVE  leases[c] = bound[c]
    BY <2>2 DEF IInv, ClientsOK, BindingOf
  <2> QED BY <2>1, <2>2 DEF NoConflict
<1>2. NoLeak
  BY DEF IInv, PoolOK, NoLeak
<1> QED BY <1>1, <1>2

(***************************************************************************)
(* The server's tables, the clients' variables and the requests have their *)
(* types; a client has something requested in REQUESTING and only there.   *)
(***************************************************************************)
THEOREM DHCPTypeOK == Spec => []TypeOK
BY Invariance, IInvImplies, PTL

(***************************************************************************)
(* An address has one holder while it is out of the pool, none while it is *)
(* in it, and one more for every lapse that put it back and left its offer *)
(* behind; what a client is bound to is its own lease, whatever a network  *)
(* that keeps the order of a client's messages loses or delays, and        *)
(* whichever server answers first.                                         *)
(***************************************************************************)
THEOREM DHCPNoConflict == Spec => []NoConflict
BY Invariance, IInvImplies, PTL

(***************************************************************************)
(* No address is lost: what is not in the pool is offered or leased.       *)
(***************************************************************************)
THEOREM DHCPNoLeak == Spec => []NoLeak
BY Invariance, IInvImplies, PTL

LEMMA StepKeepsBinding ==
  ASSUME IInv, Next, NEW c \in Clients, state[c] = "BOUND"
  PROVE  state'[c] \in {"BOUND", "gone"} /\ bound'[c] = bound[c]
<1>1. timers[c] = {}
  <2>1. TimersOf(c) /\ timers[c] \subseteq Timers
    BY ClientTypes DEF IInv, ClientsOK
  <2> QED BY <2>1 DEF TimersOf, Timers
<1>2. state \in [Clients -> States] /\ bound \in [Clients -> Addressed \cup {None}]
  BY ClientTypes
<1>3. CASE Server
  BY <1>3 DEF Server, ExecDiscover, ExecRequest, ExecRelease, Grant, Take, clientVars
\* A step of another client.
<1>4. ASSUME NEW d \in Clients, d # c,
             \/ Start(d) \/ DiscoverTimeout(d) \/ OfferTimeout(d) \/ RequestTimeout(d)
             \/ TotalTimeout(d) \/ Leave(d) \/ Return(d) \/ OtherAnswers(d)
             \/ \E m \in toClient : ReceiveOffer(d, m) \/ ReceiveAck(d, m) \/ Ignore(d, m)
      PROVE  state'[c] = state[c] /\ bound'[c] = bound[c]
  BY <1>2, <1>4 DEF Start, DiscoverTimeout, OfferTimeout, RequestTimeout, TotalTimeout, Leave,
     Return, OtherAnswers, clientVars, ReceiveOffer, ReceiveAck, Ignore, Accept, Enter
\* Its own: no timer runs, and only an offer or an ACK it waits for counts.
<1>5. ASSUME \/ Start(c) \/ DiscoverTimeout(c) \/ OfferTimeout(c) \/ RequestTimeout(c)
             \/ TotalTimeout(c) \/ Leave(c) \/ Return(c) \/ OtherAnswers(c)
             \/ \E m \in toClient : ReceiveOffer(c, m) \/ ReceiveAck(c, m) \/ Ignore(c, m)
      PROVE  state'[c] \in {"BOUND", "gone"} /\ bound'[c] = bound[c]
  BY <1>1, <1>2, <1>5 DEF Start, DiscoverTimeout, OfferTimeout, RequestTimeout, TotalTimeout,
     Leave, Return, OtherAnswers, clientVars, ReceiveOffer, ReceiveAck, Ignore
<1> QED BY <1>3, <1>4, <1>5 DEF Next

(***************************************************************************)
(* A binding lasts until its host leaves: no timer and no late message of  *)
(* either server undoes it.                                                *)
(***************************************************************************)
THEOREM DHCPBindingStays == Spec => BindingStays
<1>1. IInv /\ [Next]_vars =>
        [\A c \in Clients : state[c] = "BOUND" =>
           state'[c] \in {"BOUND", "gone"} /\ bound'[c] = bound[c]]_vars
  BY StepKeepsBinding
<1> QED BY <1>1, Invariance, PTL DEF Spec, BindingStays
=============================================================================
