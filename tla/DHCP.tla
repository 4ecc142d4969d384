-------------------------------- MODULE DHCP --------------------------------
(***************************************************************************)
(* The DHCP server of pox/proto/dhcpd.py with its SimpleAddressPool, and   *)
(* clients that are DHCPClientBase of pox/proto/dhcp_client.py, over a     *)
(* network that loses packets and keeps the order of the others.  Another  *)
(* server, not ours, may answer the clients' broadcasts too.  An exception *)
(* ends a handler where it is raised; what was assigned before stays.      *)
(***************************************************************************)
EXTENDS Integers, FiniteSets, Sequences, SequencesExt

CONSTANTS
  Clients,
  Leavers,      \* clients that leave with their address, or release it, and return
  Roamers,      \* clients another server reaches too
  Addresses,    \* the pool's
  Elsewhere,    \* an address of the other server, not in the pool
  Eager,        \* clients with auto_accept
  None,
  MaxSent       \* MaxSent[c]: bound on the messages of a client

ASSUME DHCPAssumption ==
  /\ IsFiniteSet(Clients) /\ Leavers \subseteq Clients /\ Roamers \subseteq Clients
  /\ IsFiniteSet(Addresses) /\ Eager \subseteq Clients /\ MaxSent \in [Clients -> Nat]
  /\ None \notin Addresses /\ Elsewhere \notin Addresses /\ None # Elsewhere

VARIABLES
  removed,     \* SimpleAddressPool.removed
  offers,      \* DHCPD.offers
  leases,      \* DHCPD.leases
  lapses,      \* history: how often an address came back to the pool while its offer stayed
  state,       \* DHCPClientBase._state, or "gone"
  timers,      \* the client's timers that run
  received,    \* its offers, those a listener rejected left out
  requested,
  bound,
  offerXid, requestXid,
  sent,        \* how many messages it sent: the last one's xid
  answered,    \* the last of its messages that the other server answered
  toServer, toClient   \* messages in the network

serverVars  == <<removed, offers, leases, lapses>>
requestVars == <<requested, requestXid>>
clientVars  == <<state, timers, received, requestVars, bound, offerXid, sent>>
vars == <<serverVars, clientVars, answered, toServer, toClient>>
-----------------------------------------------------------------------------
(* The server.                                                             *)

\* The server takes m, and those before it are lost; it answers or not.
Take(m, replies) ==
  /\ toServer' = {k \in toServer : k.client = m.client => k.xid > m.xid}
  /\ toClient' = toClient \cup replies
  /\ UNCHANGED <<clientVars, answered>>

Reply(m, type, a) ==
  {[ours |-> TRUE, type |-> type, client |-> m.client, xid |-> m.xid, addr |-> a]}

\* The addresses of S come back to the pool, and the offers of them stay.
Lapse(S) == lapses' = [a \in Addresses |-> IF a \in S THEN lapses[a] + 1 ELSE lapses[a]]

\* The offer is what the client has leased, else what it was offered before, else
\* an address of the pool: its first, or the one the client would like.
ExecDiscover_mut(m) ==        \* the address offered stays in the pool
  /\ m.type = "discover"
  /\ LET c == m.client
         known == {IF leases[c] # None THEN leases[c] ELSE offers[c]} \ {None}
     IN \/ /\ known = {} /\ Addresses \subseteq removed
           /\ Take(m, Reply(m, "nak", None)) /\ UNCHANGED serverVars
        \/ \E a \in IF known # {} THEN known ELSE Addresses \ removed :
             /\ leases' = [leases EXCEPT ![c] = None] /\ offers' = [offers EXCEPT ![c] = a]
             /\ UNCHANGED <<removed, lapses>>
             /\ Take(m, Reply(m, "offer", a))
ExecDiscover(m) ==
  /\ m.type = "discover"
  /\ LET c == m.client
         known == {IF leases[c] # None THEN leases[c] ELSE offers[c]} \ {None}
     IN \/ /\ known = {} /\ Addresses \subseteq removed
           /\ Take(m, Reply(m, "nak", None)) /\ UNCHANGED serverVars
        \/ \E a \in IF known # {} THEN known ELSE Addresses \ removed :
             /\ leases' = [leases EXCEPT ![c] = None] /\ offers' = [offers EXCEPT ![c] = a]
             /\ removed' = IF known = {} THEN removed \cup {a} ELSE removed
             /\ UNCHANGED lapses
             /\ Take(m, Reply(m, "offer", a))

\* The addresses exec_request appends to the pool because m asks for another:
\* its lease, then its offer.  append raises if the address is in the pool.
OldLease(m) == {leases[m.client]} \ {None, m.addr}
OldOffer(m) == IF leases[m.client] = m.addr THEN {} ELSE {offers[m.client]} \ {None, m.addr}

Without(table, c, olds) == IF table[c] \in olds THEN [table EXCEPT ![c] = None] ELSE table

\* A listener of DHCPLease may refuse the lease, which stays.
Grant(m) == \E type \in {"ack", "nak"} : Take(m, Reply(m, type, m.addr))

ExecRequest(m) ==
  /\ m.type = "request"
  /\ LET c == m.client
         rest == removed \ (OldLease(m) \cup OldOffer(m))
     IN \/ /\ ~(OldLease(m) \subseteq removed)
           /\ Take(m, {}) /\ UNCHANGED serverVars
        \/ /\ OldLease(m) \subseteq removed /\ ~(OldOffer(m) \subseteq removed \ OldLease(m))
           /\ removed' = removed \ OldLease(m) /\ leases' = Without(leases, c, OldLease(m))
           /\ Lapse(OldLease(m) \cap OldOffer(m))
           /\ Take(m, {}) /\ UNCHANGED offers
        \/ /\ OldLease(m) \subseteq removed /\ OldOffer(m) \subseteq removed \ OldLease(m)
           /\ offers' = Without(offers, c, OldOffer(m)) /\ UNCHANGED lapses
           /\ IF m.addr \in {leases[c], offers[c]} \/ m.addr \in Addresses \ rest
              THEN /\ removed' = IF m.addr \in {leases[c], offers[c]} THEN rest ELSE rest \cup {m.addr}
                   /\ leases' = [leases EXCEPT ![c] = m.addr]
                   /\ Grant(m)
              ELSE /\ removed' = rest /\ leases' = Without(leases, c, OldLease(m))
                   /\ Take(m, Reply(m, "nak", None))

\* The offer, which is of the same address, stays.
ExecRelease_mut(m) ==         \* forgets the client but for the pool
  /\ m.type = "release"
  /\ leases' = [leases EXCEPT ![m.client] = None] /\ offers' = [offers EXCEPT ![m.client] = None]
  /\ Take(m, {}) /\ UNCHANGED <<removed, lapses>>
ExecRelease(m) ==
  /\ m.type = "release"
  /\ \/ /\ leases[m.client] = m.addr
        /\ leases' = [leases EXCEPT ![m.client] = None] /\ removed' = removed \ {m.addr}
        /\ Lapse({offers[m.client]} \cap removed \cap {m.addr})
     \/ leases[m.client] # m.addr /\ UNCHANGED <<leases, removed, lapses>>
  /\ Take(m, {}) /\ UNCHANGED offers

Server == \E m \in toServer : ExecDiscover(m) \/ ExecRequest(m) \/ ExecRelease(m)
-----------------------------------------------------------------------------
(* The clients.                                                            *)

Send(c, type, a) ==
  /\ sent[c] < MaxSent[c]
  /\ sent' = [sent EXCEPT ![c] = @ + 1]
  /\ toServer' = toServer \cup {[type |-> type, client |-> c, xid |-> sent'[c], addr |-> a]}

\* c leaves a state, whose timer is killed, and starts another's.
Enter(c, s, killed, begun) ==
  /\ state' = [state EXCEPT ![c] = s]
  /\ timers' = [timers EXCEPT ![c] = (@ \ killed) \cup begun]

\* The consumer sets INIT.
Start(c) ==
  /\ state[c] = "NEW"
  /\ Enter(c, "INIT", {}, {"total", "discover"})
  /\ Send(c, "discover", None)
  /\ offerXid' = [offerXid EXCEPT ![c] = sent'[c]]
  /\ UNCHANGED <<serverVars, received, requestVars, bound, answered, toClient>>

\* INIT again: a new DISCOVER, without the offers so far.
DiscoverTimeout(c) ==
  /\ "discover" \in timers[c]
  /\ Send(c, "discover", None)
  /\ offerXid' = [offerXid EXCEPT ![c] = sent'[c]]
  /\ received' = [received EXCEPT ![c] = <<>>]
  /\ UNCHANGED <<serverVars, state, timers, requestVars, bound, answered, toClient>>

\* _do_accept, of an offer a listener chose or the first that is left
Accept_mut(c, offered, killed) ==   \* without an offer, everything is stopped
  \/ \E i \in DOMAIN offered :
       /\ requested' = [requested EXCEPT ![c] = offered[i]]
       /\ Enter(c, "REQUESTING", killed, {"request"})
       /\ Send(c, "request", offered[i])
       /\ requestXid' = [requestXid EXCEPT ![c] = sent'[c]]
  \/ /\ offered = <<>>
     /\ Enter(c, "IDLE", timers[c], {})
     /\ UNCHANGED <<requestVars, sent, toServer>>
Accept(c, offered, killed) ==
  \/ \E i \in DOMAIN offered :
       /\ requested' = [requested EXCEPT ![c] = offered[i]]
       /\ Enter(c, "REQUESTING", killed, {"request"})
       /\ Send(c, "request", offered[i])
       /\ requestXid' = [requestXid EXCEPT ![c] = sent'[c]]
  \/ /\ offered = <<>>
     /\ Enter(c, "IDLE", killed, {})
     /\ UNCHANGED <<requestVars, sent, toServer>>

OfferTimeout(c) ==
  /\ "offer" \in timers[c]
  /\ Accept(c, received[c], {"offer"})
  /\ UNCHANGED <<serverVars, received, bound, offerXid, answered, toClient>>

\* c receives m, and what our server sent it before is lost.
Receive(c, m) ==
  /\ m.client = c
  /\ toClient' = {k \in toClient :
       k # m /\ (m.ours /\ k.ours /\ k.client = c => k.xid > m.xid)}
  /\ UNCHANGED <<serverVars, offerXid, answered>>

\* The first offer begins SELECTING; a listener may reject one.
ReceiveOffer(c, m) ==
  /\ Receive(c, m)
  /\ m.type = "offer" /\ m.xid = offerXid[c] /\ state[c] \in {"INIT", "SELECTING"}
  /\ \/ /\ received' = [received EXCEPT ![c] = Append(@, m.addr)]
        /\ IF c \in Eager THEN Accept(c, received'[c], {"discover", "offer"})
           ELSE Enter(c, "SELECTING", {"discover"}, {"offer"}) /\ UNCHANGED <<requestVars, sent, toServer>>
     \/ /\ Enter(c, "SELECTING", {"discover"}, {"offer"})
        /\ UNCHANGED <<received, requestVars, sent, toServer>>
  /\ UNCHANGED bound

ReceiveAck_mut(c, m) ==       \* keeps the total timer
  /\ Receive(c, m)
  /\ m.type = "ack" /\ m.xid = requestXid[c] /\ state[c] = "REQUESTING"
  /\ bound' = [bound EXCEPT ![c] = requested[c]]
  /\ requested' = [requested EXCEPT ![c] = None]
  /\ Enter(c, "BOUND", {"request"}, {})
  /\ UNCHANGED <<received, requestXid, sent, toServer>>
ReceiveAck(c, m) ==
  /\ Receive(c, m)
  /\ m.type = "ack" /\ m.xid = requestXid[c] /\ state[c] = "REQUESTING"
  /\ bound' = [bound EXCEPT ![c] = requested[c]]
  /\ requested' = [requested EXCEPT ![c] = None]
  /\ Enter(c, "BOUND", {"total", "request"}, {})
  /\ UNCHANGED <<received, requestXid, sent, toServer>>

\* What does not fit the state is ignored; a NAK that fits raises NameError.
Ignore(c, m) ==
  /\ Receive(c, m)
  /\ \/ m.type = "nak"
     \/ m.type = "offer" /\ ~(m.xid = offerXid[c] /\ state[c] \in {"INIT", "SELECTING"})
     \/ m.type = "ack" /\ ~(m.xid = requestXid[c] /\ state[c] = "REQUESTING")
  /\ UNCHANGED <<state, timers, received, requestVars, bound, sent, toServer>>

\* INIT is set and the assertion about the old state fails.
RequestTimeout_mut(c) ==      \* what was requested is kept
  /\ "request" \in timers[c]
  /\ Enter(c, "INIT", {"request"}, {})
  /\ UNCHANGED <<serverVars, received, requestVars, bound, offerXid, sent, answered, toServer, toClient>>
RequestTimeout(c) ==
  /\ "request" \in timers[c]
  /\ Enter(c, "INIT", {"request"}, {})
  /\ requested' = [requested EXCEPT ![c] = None]
  /\ UNCHANGED <<serverVars, received, requestXid, bound, offerXid, sent, answered, toServer, toClient>>

\* From REQUESTING, what was requested is forgotten.
TotalTimeout(c) ==
  /\ "total" \in timers[c]
  /\ Enter(c, "ERROR", timers[c], {})
  /\ requested' = [requested EXCEPT ![c] = None]
  /\ UNCHANGED <<serverVars, received, requestXid, bound, offerXid, sent, answered, toServer, toClient>>
-----------------------------------------------------------------------------
(* What is not ours.                                                       *)

\* A host leaves, and gives its address back or not.
Leave(c) ==
  /\ c \in Leavers /\ state[c] = "BOUND"
  /\ state' = [state EXCEPT ![c] = "gone"]
  /\ Send(c, "release", bound[c]) \/ UNCHANGED <<sent, toServer>>
  /\ UNCHANGED <<serverVars, timers, received, requestVars, bound, offerXid, answered, toClient>>

\* It comes back, with a client that knows nothing.
Return(c) ==
  /\ state[c] = "gone"
  /\ state' = [state EXCEPT ![c] = "NEW"] /\ received' = [received EXCEPT ![c] = <<>>]
  /\ bound' = [bound EXCEPT ![c] = None]
  /\ offerXid' = [offerXid EXCEPT ![c] = 0] /\ requestXid' = [requestXid EXCEPT ![c] = 0]
  /\ UNCHANGED <<serverVars, timers, requested, sent, answered, toServer, toClient>>

\* The other server answers a broadcast once, at any time later.
OtherAnswers(c) ==
  /\ c \in Roamers
  /\ \E type \in {"offer", "ack"} :
       LET xid == IF type = "offer" THEN offerXid[c] ELSE requestXid[c] IN
         /\ type = "ack" => requested[c] = Elsewhere
         /\ answered[c] < xid
         /\ answered' = [answered EXCEPT ![c] = xid]
         /\ toClient' = toClient \cup
              {[ours |-> FALSE, type |-> type, client |-> c, xid |-> xid, addr |-> Elsewhere]}
  /\ UNCHANGED <<serverVars, clientVars, toServer>>

Init ==
  /\ removed = {} /\ lapses = [a \in Addresses |-> 0]
  /\ offers = [c \in Clients |-> None] /\ leases = [c \in Clients |-> None]
  /\ state = [c \in Clients |-> "NEW"] /\ timers = [c \in Clients |-> {}]
  /\ received = [c \in Clients |-> <<>>]
  /\ requested = [c \in Clients |-> None] /\ bound = [c \in Clients |-> None]
  /\ offerXid = [c \in Clients |-> 0] /\ requestXid = [c \in Clients |-> 0]
  /\ sent = [c \in Clients |-> 0]
  /\ answered = [c \in Clients |-> 0]
  /\ toServer = {} /\ toClient = {}

Next ==
  \/ Server
  \/ \E c \in Clients :
       \/ Start(c) \/ DiscoverTimeout(c) \/ OfferTimeout(c) \/ RequestTimeout(c) \/ TotalTimeout(c)
       \/ Leave(c) \/ Return(c) \/ OtherAnswers(c)
       \/ \E m \in toClient : ReceiveOffer(c, m) \/ ReceiveAck(c, m) \/ Ignore(c, m)

Spec == Init /\ [][Next]_vars
=============================================================================
