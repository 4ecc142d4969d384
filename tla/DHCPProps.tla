------------------------------ MODULE DHCPProps ------------------------------
(***************************************************************************)
(* An address is one client's, and none is lost to the pool.               *)
(***************************************************************************)
EXTENDS DHCP

Messages(types) == [type : types, client : Clients, xid : Nat, addr : Addresses \cup {Elsewhere, None}]

TypeOK ==
  /\ removed \subseteq Addresses /\ lapses \in [Addresses -> Nat]
  /\ offers \in [Clients -> Addresses \cup {None}] /\ leases \in [Clients -> Addresses \cup {None}]
  /\ state \in [Clients -> {"NEW", "INIT", "SELECTING", "REQUESTING", "BOUND", "IDLE", "ERROR", "gone"}]
  /\ timers \in [Clients -> SUBSET {"total", "discover", "offer", "request"}]
  /\ received \in [Clients -> Seq(Addresses \cup {Elsewhere})]
  /\ bound \in [Clients -> Addresses \cup {Elsewhere, None}]
  /\ requested \in [Clients -> Addresses \cup {Elsewhere, None}]
  /\ \A c \in Clients : requested[c] # None <=> state[c] = "REQUESTING"
  /\ toServer \subseteq Messages({"discover", "request", "release"})

\* What the server remembers for c.  A grant leaves the offer where it is.
Held(c) == {offers[c], leases[c]} \ {None}

\* Who holds x, and how many may: one while it is out of the pool, and one more for
\* every time it came back to the pool while the offer of it stayed.
Holders(x) == {c \in Clients : x \in Held(c)}
Shares(x) == (IF x \in removed THEN 1 ELSE 0) + lapses[x]

\* Every owner of an address beyond the first is owed to a lapse of its own: a
\* RELEASE, or a REQUEST that raised half-way, that put the address back and left
\* the offer of it.  Nothing else gives an address in the pool to anybody, or one
\* that is out of it to a second client, although offers do not expire, several
\* DISCOVERs of a client may be under way, answers get lost, clients vanish with a
\* lease and come back, and a second server's offers may be preferred.  And what a
\* client is bound to is its own lease.
NoConflict ==
  /\ \A x \in Addresses : Cardinality(Holders(x)) <= Shares(x)
  /\ \A c \in Clients : state[c] = "BOUND" /\ bound[c] # Elsewhere => leases[c] = bound[c]

\* Every address that is out of the pool is some client's offer or lease: one the
\* client did not want after all came back.
NoLeak == removed \subseteq UNION {Held(c) : c \in Clients}

\* No timer undoes a binding: the ACK that came in time has stopped them all.
BindingStays ==
  [][\A c \in Clients : state[c] = "BOUND" => state'[c] \in {"BOUND", "gone"} /\ bound'[c] = bound[c]]_vars

\* Time passes until the total timer expires.
FairSpec == Spec /\ \A c \in Clients : WF_vars(TotalTimeout(c))

\* A client that has started ends bound or tells its consumer that it failed, even
\* from the states the request timeout and a NAK leave it in.
Ends == \A c \in Clients : state[c] = "INIT" ~> state[c] \in {"BOUND", "ERROR"}
=============================================================================
