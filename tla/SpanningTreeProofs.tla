------------------------- MODULE SpanningTreeProofs -------------------------
(***************************************************************************)
(* TypeOK and CacheFaithful for every network, both flags, and any number  *)
(* of reconnections, failing cables and pending timers; the same with      *)
(* l2_multi beside them; what l2_multi makes of the link events, the paths *)
(* it computes, and the flows it installs along them; and that a network   *)
(* whose cables hold starts up without a flooding loop.                    *)
(***************************************************************************)
EXTENDS L2MultiProps, FiniteSetTheorems, SequenceTheorems, WellFoundedInduction, TLAPS

Stores ==
  /\ DOMAIN prev = Switches /\ DOMAIN config = Switches
  /\ \A d \in Switches : /\ prev[d] \in [PortsOf(d) -> {TRUE, FALSE, None}]
                         /\ config[d] \in [PortsOf(d) -> BOOLEAN]

Sessions ==
  /\ latest \in [Switches -> {"none", "up", "failed"}]
  /\ older \in [Switches -> 0 .. MaxOlder]
  /\ connected \subseteq {d \in Switches : latest[d] = "up"}

\* What discovery may know: a link from a switch with a session to one that is heard
Cabled(adj) == \A l \in adj : l \in Switches \X Switches /\ {l[1], l[2]} \in Cables
Live(adj) == \A l \in adj : latest[l[1]] # "none" /\ Heard(l[2])

FaithfulAt(d) == \A p \in PortsOf(d) : prev[d][p] # None => prev[d][p] = config[d][p]

IInv ==
  /\ Stores /\ Sessions /\ up \subseteq Cables
  /\ timers \in [Switches -> 0 .. MaxTimers]
  /\ Cabled(adjacency) /\ Live(adjacency)
  /\ \A d \in connected : FaithfulAt(d)
-----------------------------------------------------------------------------
\* An update of the tree orders and remembers the same, and where it orders
\* nothing because _prev agrees, the switch agreed as well.
LEMMA UpdateFaithful ==
  ASSUME Stores, NEW adj, NEW cons, NEW force, UpdateTree(adj, cons, force)
  PROVE  Stores' /\ \A d \in Switches : FaithfulAt(d) => FaithfulAt(d)'
<1> DEFINE updated == Updated(adj, cons, force)
           tree    == CalcSpanningTree(adj)
           flood(d, p) == {d, p} \in tree \/ IsEdgePort(adj, d, p)
<1>1. /\ prev' = [d \in Switches |-> IF d \notin updated THEN prev[d]
                    ELSE [p \in PortsOf(d) |-> flood(d, p)]]
      /\ config' = [d \in Switches |-> IF d \notin updated THEN config[d]
                    ELSE [p \in PortsOf(d) |->
                      IF prev[d][p] # flood(d, p) THEN flood(d, p) ELSE config[d][p]]]
  BY DEF UpdateTree
<1>2. \A d, p : flood(d, p) \in BOOLEAN
  OBVIOUS
<1> HIDE DEF updated, flood
<1>3. Stores'
  BY <1>1, <1>2 DEF Stores
<1>4. ASSUME NEW d \in Switches, FaithfulAt(d), NEW p \in PortsOf(d), (prev[d][p] # None)'
      PROVE  (prev[d][p] = config[d][p])'
  <2>1. CASE d \notin updated
    BY <1>1, <1>4, <2>1 DEF FaithfulAt
  <2>2. CASE d \in updated
    <3>1. prev'[d][p] = flood(d, p)
      BY <1>1, <2>2
    <3>2. config'[d][p] = IF prev[d][p] # flood(d, p) THEN flood(d, p) ELSE config[d][p]
      BY <1>1, <2>2
    <3>3. flood(d, p) # None
      BY <1>2, SpanningTreeAssumption
    <3> QED
      BY <1>4, <3>1, <3>2, <3>3 DEF FaithfulAt
  <2> QED
    BY <2>1, <2>2
<1> QED
  BY <1>3, <1>4 DEF FaithfulAt

LEMMA EventsFaithful ==
  ASSUME Stores, NEW gone, NEW adj, NEW cons, HandleLinkEvents(gone, adj, cons)
  PROVE  Stores' /\ \A d \in Switches : FaithfulAt(d) => FaithfulAt(d)'
<1>1. CASE UNCHANGED <<prev, config>>
  BY <1>1 DEF Stores, FaithfulAt
<1>2. CASE UpdateTree(adj, cons, {})
  BY <1>2, UpdateFaithful
<1> QED
  BY <1>1, <1>2 DEF HandleLinkEvents

LEMMA InitFaithful == Init => IInv
<1> SUFFICES ASSUME Init PROVE IInv
  OBVIOUS
<1>1. Stores
  BY DEF Init, Stores
<1>2. timers \in [Switches -> 0 .. MaxTimers] /\ Sessions
  BY SpanningTreeAssumption DEF Init, Sessions
<1> QED
  BY <1>1, <1>2 DEF Init, IInv, Cabled, Live

LEMMA ConnectionUpFaithful ==
  ASSUME IInv, NEW d \in Switches, ConnectionUp(d)
  PROVE  IInv'
<1>1. PICK ports \in {config[d], [p \in PortsOf(d) |-> TRUE]} :
        config' = [config EXCEPT ![d] = IF NoFlood THEN [p \in PortsOf(d) |-> FALSE] ELSE ports]
  BY DEF ConnectionUp
<1>2. prev' = [prev EXCEPT ![d] = [p \in PortsOf(d) |-> IF NoFlood THEN FALSE ELSE None]]
  BY DEF ConnectionUp, Forget
<1>3. Stores'
  BY <1>1, <1>2, SpanningTreeAssumption DEF IInv, Stores
<1>4. FaithfulAt(d)'
  <2>1. CASE NoFlood
    BY <1>1, <1>2, <2>1 DEF IInv, Stores, FaithfulAt
  <2>2. CASE ~NoFlood
    BY <1>2, <2>2 DEF IInv, Stores, FaithfulAt
  <2> QED BY <2>1, <2>2
<1>5. ASSUME NEW e \in connected, e # d PROVE FaithfulAt(e)'
  BY <1>1, <1>2, <1>5 DEF IInv, Sessions, Stores, FaithfulAt
<1>6. timers' \in [Switches -> 0 .. MaxTimers]
  BY SpanningTreeAssumption DEF IInv, ConnectionUp
<1>7. Sessions' /\ \A e \in Switches :
        (latest[e] # "none" => latest'[e] # "none") /\ (Heard(e) => Heard(e)')
  BY SpanningTreeAssumption DEF IInv, Sessions, ConnectionUp, Heard
<1>8. Live(adjacency)' /\ Cabled(adjacency)'
  BY <1>7 DEF IInv, Cabled, Live, ConnectionUp
<1> QED
  BY <1>3, <1>4, <1>5, <1>6, <1>7, <1>8 DEF IInv, ConnectionUp

LEMMA ConnectionDownFaithful ==
  ASSUME IInv, NEW d \in Switches, ConnectionDown(d)
  PROVE  IInv'
<1>1. Stores' /\ \A x \in Switches : FaithfulAt(x) => FaithfulAt(x)'
  BY EventsFaithful DEF IInv, ConnectionDown, DeleteLinks
<1>2. Sessions' /\ \A e \in Switches \ {d} : latest'[e] = latest[e] /\ Heard(e)' = Heard(e)
  <2>1. CASE latest[d] # "none" /\ latest' = [latest EXCEPT ![d] = "none"] /\ UNCHANGED older
    BY <2>1 DEF IInv, Sessions, ConnectionDown, Heard
  <2>2. CASE older[d] > 0 /\ older' = [older EXCEPT ![d] = @ - 1] /\ UNCHANGED latest
    <3>1. older[d] - 1 \in 0 .. MaxOlder /\ DOMAIN older = Switches
      BY <2>2, SpanningTreeAssumption DEF IInv, Sessions
    <3> QED
      BY <2>2, <3>1 DEF IInv, Sessions, ConnectionDown, Heard
  <2> QED
    BY <2>1, <2>2 DEF ConnectionDown
<1>3. adjacency' = adjacency \ {l \in adjacency : d \in {l[1], l[2]}}
  BY DEF ConnectionDown, DeleteLinks
<1>4. Live(adjacency)' /\ Cabled(adjacency)'
  <2>1. ASSUME NEW l \in adjacency'
        PROVE  /\ l \in adjacency /\ l[1] \in Switches \ {d} /\ l[2] \in Switches \ {d}
    BY <1>3 DEF IInv, Cabled
  <2> QED
    BY <1>2, <2>1 DEF IInv, Cabled, Live
<1> QED
  BY <1>1, <1>2, <1>4 DEF IInv, ConnectionDown, Sessions

LEMMA SendFailsFaithful ==
  ASSUME IInv, NEW d \in Switches, SendFails(d)
  PROVE  IInv'
<1>1. Sessions' /\ \A e \in Switches : (latest[e] # "none" => latest'[e] # "none") /\ (Heard(e) => Heard(e)')
  BY DEF IInv, Sessions, SendFails, Heard
<1>2. Live(adjacency)' /\ Cabled(adjacency)'
  BY <1>1 DEF IInv, Cabled, Live, SendFails
<1> QED
  BY <1>1, <1>2 DEF IInv, SendFails, Stores, FaithfulAt

LEMMA LLDPFaithful ==
  ASSUME IInv, NEW d \in Switches, NEW e \in Switches, LLDPArrives(d, e)
  PROVE  IInv'
<1>1. Stores' /\ \A x \in Switches : FaithfulAt(x) => FaithfulAt(x)'
  BY EventsFaithful DEF IInv, LLDPArrives
<1>2. /\ adjacency' = adjacency \cup {<<d, e>>} /\ UNCHANGED <<up, connected, latest, older, timers>>
      /\ latest[d] # "none" /\ Heard(e) /\ {d, e} \in Cables
  BY DEF LLDPArrives, IInv, Sessions, sessions
<1>3. Live(adjacency)' /\ Cabled(adjacency)'
  <2>1. ASSUME NEW l \in adjacency'
        PROVE  /\ l \in Switches \X Switches /\ {l[1], l[2]} \in Cables
               /\ latest[l[1]] # "none" /\ Heard(l[2])
    <3>1. CASE l \in adjacency
      BY <3>1 DEF IInv, Cabled, Live
    <3>2. CASE l = <<d, e>>
      <4>1. l[1] = d /\ l[2] = e
        BY <3>2
      <4> QED
        BY <1>2, <3>2, <4>1
    <3> QED
      BY <1>2, <3>1, <3>2
  <2> QED
    BY <1>2, <2>1 DEF Cabled, Live, Heard
<1> QED
  BY <1>1, <1>2, <1>3 DEF IInv, Sessions

LEMMA ExpireFaithful ==
  ASSUME IInv, NEW gone \in SUBSET adjacency, ExpireLinks(gone)
  PROVE  IInv'
<1>1. Stores' /\ \A x \in Switches : FaithfulAt(x) => FaithfulAt(x)'
  BY EventsFaithful DEF IInv, ExpireLinks, DeleteLinks
<1> QED
  BY <1>1 DEF IInv, Sessions, Cabled, Live, Heard, ExpireLinks, DeleteLinks, sessions

LEMMA HoldDownFaithful ==
  ASSUME IInv, NEW d \in Switches, HoldDownOver(d)
  PROVE  IInv'
<1>1. Stores' /\ \A x \in Switches : FaithfulAt(x) => FaithfulAt(x)'
  BY UpdateFaithful DEF IInv, HoldDownOver
<1>2. timers' \in [Switches -> 0 .. MaxTimers]
  BY SpanningTreeAssumption DEF IInv, HoldDownOver, Young
<1> QED
  BY <1>1, <1>2 DEF IInv, Sessions, Cabled, Live, Heard, HoldDownOver, sessions

LEMMA StepFaithful == IInv /\ [Next]_vars => IInv'
<1> SUFFICES ASSUME IInv, [Next]_vars PROVE IInv'
  OBVIOUS
<1>1. ASSUME NEW d \in Switches, ConnectionUp(d) PROVE IInv'
  BY <1>1, ConnectionUpFaithful
<1>2. ASSUME NEW d \in Switches, ConnectionDown(d) PROVE IInv'
  BY <1>2, ConnectionDownFaithful
<1>3. ASSUME NEW d \in Switches, SendFails(d) PROVE IInv'
  BY <1>3, SendFailsFaithful
<1>4. ASSUME NEW d \in Switches, HoldDownOver(d) PROVE IInv'
  BY <1>4, HoldDownFaithful
<1>5. ASSUME NEW d \in Switches, NEW e \in Switches, LLDPArrives(d, e) PROVE IInv'
  BY <1>5, LLDPFaithful
<1>6. ASSUME NEW gone \in SUBSET adjacency, ExpireLinks(gone) PROVE IInv'
  BY <1>6, ExpireFaithful
<1>7. ASSUME NEW c \in Cables, CableFails(c) \/ CableReturns(c) PROVE IInv'
  BY <1>7 DEF CableFails, CableReturns, IInv, Stores, Sessions, FaithfulAt, Cabled, Live, Heard, sessions
<1>8. CASE UNCHANGED vars
  BY <1>8 DEF vars, IInv, Stores, Sessions, FaithfulAt, Cabled, Live, Heard
<1> QED
  BY <1>1, <1>2, <1>3, <1>4, <1>5, <1>6, <1>7, <1>8 DEF Next
-----------------------------------------------------------------------------
\* All stores stay well formed, and discovery never knows a link that a switch
\* without a session sends into, or that one nobody hears reports, though it
\* looks up the sender only, and sessions overlap, fail and end in any order.
THEOREM TreeTypeOK == Spec => []TypeOK
<1>1. IInv => TypeOK
  BY DEF IInv, Stores, Sessions, Cabled, Live, TypeOK
<1> QED
  BY <1>1, InitFaithful, StepFaithful, PTL DEF Spec

\* _prev never disagrees with a connected switch, so no needed port_mod is ever
\* skipped on its word.
THEOREM TreeCacheFaithful == Spec => []CacheFaithful
<1>1. IInv => CacheFaithful
  BY DEF IInv, FaithfulAt, CacheFaithful
<1> QED
  BY <1>1, InitFaithful, StepFaithful, PTL DEF Spec
-----------------------------------------------------------------------------
(* _calc_paths, _get_raw_path and _get_path: every path they give is a     *)
(* shortest walk along the links.                                          *)

\* Induction up to a number.
LEMMA UpTo ==
  ASSUME NEW N \in Nat, NEW S, 0 \in S, \A n \in 0 .. N : n \in S /\ n < N => n + 1 \in S
  PROVE  \A n \in 0 .. N : n \in S
<1> DEFINE T == {n \in 0 .. N : n \notin S}
<1> SUFFICES ASSUME T # {} PROVE FALSE
  OBVIOUS
<1>0. \A n \in 0 .. N : n \in Nat
  OBVIOUS
<1>1. PICK x \in T : \A y \in T : ~ (<<y, x>> \in OpToRel(<, Nat))
  <2>1. T \subseteq Nat
    BY <1>0
  <2> QED BY <2>1, NatLessThanWellFounded, WFMin
<1>2. x \in 0 .. N /\ x # 0 /\ x - 1 \in 0 .. N /\ x - 1 < x /\ x - 1 \in Nat /\ x \in Nat
  OBVIOUS
<1>3. <<x - 1, x>> \in OpToRel(<, Nat)
  BY <1>2 DEF OpToRel
<1>4. x - 1 \in S
  BY <1>1, <1>2, <1>3
<1> QED BY <1>2, <1>4

LEMMA FarIsNat == Far \in Nat
BY FS_CardinalityType, SpanningTreeAssumption DEF Far

\* What path_map says of the switches S, at every point of the loop: distances
\* that bound a walk by way of the switch remembered.
Plausible(map, adj, S) ==
  /\ map \in [S \X S -> [dist : 0 .. Far, via : S \cup {None}]]
  /\ \A i, j \in S :
       /\ i = j => map[i, j].dist = 0 /\ map[i, j].via = None
       /\ i # j => map[i, j].dist >= 1
       /\ <<i, j>> \in adj => map[i, j].dist <= 1
       /\ i # j /\ map[i, j].via = None /\ map[i, j].dist < Far => <<i, j>> \in adj
       /\ map[i, j].via # None =>
            /\ map[i, j].via # i /\ map[i, j].via # j /\ map[i, j].dist < Far
            /\ map[i, map[i, j].via].dist + map[map[i, j].via, j].dist <= map[i, j].dist

\* No way through a switch of K is shorter.
Settled(map, S, K) ==
  \A i, j \in S, k \in K : map[i, j].dist <= map[i, k].dist + map[k, j].dist

LEMMA EntryOK ==
  ASSUME NEW adj, NEW S, NEW map, Plausible(map, adj, S), NEW i \in S, NEW j \in S
  PROVE  /\ map[i, j].dist \in Nat /\ map[i, j].dist <= Far /\ map[i, j].via \in S \cup {None}
         /\ map[i, j] \in [dist : 0 .. Far, via : S \cup {None}]
<1>1. map[i, j] \in [dist : 0 .. Far, via : S \cup {None}]
  BY DEF Plausible
<1>2. map[i, j].dist \in 0 .. Far /\ map[i, j].via \in S \cup {None}
  BY <1>1
<1> DEFINE x == map[i, j].dist
<1>3. x \in 0 .. Far
  BY <1>2
<1> HIDE DEF x
<1>4. x \in Nat /\ x <= Far
  BY <1>3, FarIsNat
<1> QED BY <1>1, <1>2, <1>4 DEF x

LEMMA RelaxEntry ==
  ASSUME NEW adj, NEW S, NEW map, Plausible(map, adj, S),
         NEW k \in S, NEW i \in S, NEW j \in S
  PROVE  /\ Relax(map, k)[i, j].dist =
              IF map[i, k].dist + map[k, j].dist < map[i, j].dist
              THEN map[i, k].dist + map[k, j].dist ELSE map[i, j].dist
         /\ Relax(map, k)[i, j].via =
              IF map[i, k].dist + map[k, j].dist < map[i, j].dist THEN k ELSE map[i, j].via
         /\ Relax(map, k)[i, j] \in [dist : 0 .. Far, via : S \cup {None}]
<1> DEFINE through == map[i, k].dist + map[k, j].dist
<1>1. /\ map[i, k].dist \in Nat /\ map[k, j].dist \in Nat /\ map[i, j].dist \in Nat
      /\ map[i, j].dist <= Far
      /\ map[i, j] \in [dist : 0 .. Far, via : S \cup {None}]
  BY EntryOK
<1>2. Relax(map, k)[i, j] =
        IF through < map[i, j].dist THEN [dist |-> through, via |-> k] ELSE map[i, j]
  BY DEF Relax, Plausible
<1> DEFINE e == map[i, j]
           new == Relax(map, k)[i, j]
           a == map[i, k].dist
           b == map[k, j].dist
           d == e.dist
<1>3. /\ a \in Nat /\ b \in Nat /\ d \in Nat /\ d <= Far /\ through = a + b
      /\ new = IF through < d THEN [dist |-> through, via |-> k] ELSE e
      /\ e \in [dist : 0 .. Far, via : S \cup {None}]
  BY <1>1, <1>2
<1> HIDE DEF through, e, new, a, b, d
<1>4. through \in Nat /\ (through < d => through \in 0 .. Far)
  BY <1>3, FarIsNat
<1>5. CASE through < d
  <2>1. new = [dist |-> through, via |-> k]
    BY <1>3, <1>5
  <2>2. /\ new.dist = through /\ new.via = k /\ new \in [dist : 0 .. Far, via : S \cup {None}]
    BY <1>4, <1>5, <2>1
  <2> QED BY <1>5, <2>2 DEF through, e, new, d
<1>6. CASE ~(through < d)
  <2>1. new = e
    BY <1>3, <1>6
  <2> QED BY <1>3, <1>6, <2>1 DEF through, e, new, d
<1> QED BY <1>5, <1>6

LEMMA RelaxPlausible ==
  ASSUME NEW adj, NEW S, None \notin S, NEW map, Plausible(map, adj, S), NEW k \in S
  PROVE  Plausible(Relax(map, k), adj, S)
<1> DEFINE new == Relax(map, k)
           D(i, j) == map[i, j].dist
           V(i, j) == map[i, j].via
           ND(i, j) == new[i, j].dist
           NV(i, j) == new[i, j].via
           t(i, j) == D(i, k) + D(k, j)
<1>1. ASSUME NEW i \in S, NEW j \in S
      PROVE  /\ D(i, j) \in Nat /\ D(i, j) <= Far /\ V(i, j) \in S \cup {None}
             /\ ND(i, j) = IF t(i, j) < D(i, j) THEN t(i, j) ELSE D(i, j)
             /\ NV(i, j) = IF t(i, j) < D(i, j) THEN k ELSE V(i, j)
             /\ new[i, j] \in [dist : 0 .. Far, via : S \cup {None}]
  <2>1. /\ map[i, j].dist \in Nat /\ map[i, j].dist <= Far /\ map[i, j].via \in S \cup {None}
    BY EntryOK
  <2>2. /\ ND(i, j) = IF t(i, j) < D(i, j) THEN t(i, j) ELSE D(i, j)
        /\ NV(i, j) = IF t(i, j) < D(i, j) THEN k ELSE V(i, j)
        /\ new[i, j] \in [dist : 0 .. Far, via : S \cup {None}]
    BY RelaxEntry, Zenon
  <2> QED BY <2>1, <2>2
<1>2. \A i, j \in S :
        /\ i = j => D(i, j) = 0 /\ V(i, j) = None
        /\ i # j => D(i, j) >= 1
        /\ <<i, j>> \in adj => D(i, j) <= 1
        /\ i # j /\ V(i, j) = None /\ D(i, j) < Far => <<i, j>> \in adj
        /\ V(i, j) # None =>
             /\ V(i, j) # i /\ V(i, j) # j /\ D(i, j) < Far
             /\ D(i, V(i, j)) + D(V(i, j), j) <= D(i, j)
  BY DEF Plausible
<1>3. new \in [S \X S -> [dist : 0 .. Far, via : S \cup {None}]]
  <2>1. DOMAIN map = S \X S
    BY DEF Plausible
  <2>2. new = [p \in S \X S |-> new[p]]
    BY <2>1 DEF Relax
  <2> HIDE DEF new
  <2>3. ASSUME NEW p \in S \X S PROVE new[p] \in [dist : 0 .. Far, via : S \cup {None}]
    <3>1. PICK i \in S, j \in S : p = <<i, j>>
      OBVIOUS
    <3> QED BY <1>1, <3>1
  <2> QED BY <2>2, <2>3
<1> HIDE DEF new, D, V, ND, NV
<1>4. Far \in Nat
  BY FarIsNat
<1>5. ASSUME NEW i \in S, NEW j \in S
      PROVE  /\ i = j => ND(i, j) = 0 /\ NV(i, j) = None
             /\ i # j => ND(i, j) >= 1
             /\ <<i, j>> \in adj => ND(i, j) <= 1
             /\ i # j /\ NV(i, j) = None /\ ND(i, j) < Far => <<i, j>> \in adj
             /\ NV(i, j) # None =>
                  /\ NV(i, j) # i /\ NV(i, j) # j /\ ND(i, j) < Far
                  /\ ND(i, NV(i, j)) + ND(NV(i, j), j) <= ND(i, j)
  <2>1. /\ D(i, j) \in Nat /\ D(i, k) \in Nat /\ D(k, j) \in Nat /\ D(k, k) = 0
        /\ D(i, j) <= Far
    BY <1>1, <1>2, <1>4
  <2>2. ND(i, k) = D(i, k) /\ ND(k, j) = D(k, j)
    <3>1. t(i, k) = D(i, k) /\ t(k, j) = D(k, j)
      BY <2>1
    <3> QED BY <1>1, <2>1, <3>1
  <2>3. CASE t(i, j) < D(i, j)
    <3>1. ND(i, j) = t(i, j) /\ NV(i, j) = k /\ k # None
      BY <1>1, <2>3
    <3>2. i # k
      <4>1. i = k => t(i, j) = D(i, j)
        BY <2>1
      <4> QED BY <2>1, <2>3, <4>1
    <3>3. j # k
      <4>1. j = k => t(i, j) = D(i, j)
        BY <2>1
      <4> QED BY <2>1, <2>3, <4>1
    <3>4. i # j
      <4>1. i = j => D(i, j) = 0
        BY <1>2
      <4> QED BY <2>1, <2>3, <4>1
    <3>5. D(i, k) >= 1 /\ D(k, j) >= 1
      BY <1>2, <3>2, <3>3
    <3> QED BY <1>2, <1>4, <2>1, <2>2, <2>3, <3>1, <3>2, <3>3, <3>4, <3>5
  <2>4. CASE ~(t(i, j) < D(i, j))
    <3>1. ND(i, j) = D(i, j) /\ NV(i, j) = V(i, j)
      BY <1>1, <2>4
    <3>2. ASSUME V(i, j) # None
          PROVE  ND(i, V(i, j)) + ND(V(i, j), j) <= D(i, j)
      <4> DEFINE v == V(i, j)
      <4>1. v \in S
        BY <1>1, <3>2
      <4> HIDE DEF v
      <4>2. /\ D(i, v) \in Nat /\ D(v, j) \in Nat /\ D(v, k) \in Nat
            /\ ND(i, v) = (IF t(i, v) < D(i, v) THEN t(i, v) ELSE D(i, v))
            /\ ND(v, j) = (IF t(v, j) < D(v, j) THEN t(v, j) ELSE D(v, j))
        BY <1>1, <1>4, <4>1
      <4>3. D(k, v) \in Nat
        BY <1>1, <1>4, <4>1
      <4>4. ND(i, v) \in Nat /\ ND(v, j) \in Nat /\ ND(i, v) <= D(i, v) /\ ND(v, j) <= D(v, j)
        BY <2>1, <4>2, <4>3
      <4>5. D(i, v) + D(v, j) <= D(i, j)
        BY <1>2, <3>2 DEF v
      <4>6. ND(i, v) + ND(v, j) <= D(i, j)
        BY <2>1, <4>2, <4>4, <4>5
      <4> QED BY <4>6 DEF v
    <3> QED BY <1>2, <3>1, <3>2
  <2> QED BY <2>3, <2>4
<1> QED BY <1>3, <1>5 DEF Plausible, new, ND, NV

LEMMA RelaxSettles ==
  ASSUME NEW adj, NEW S, None \notin S, NEW map, Plausible(map, adj, S), NEW k \in S,
         NEW K \in SUBSET S, Settled(map, S, K)
  PROVE  Settled(Relax(map, k), S, K \cup {k})
<1> DEFINE new == Relax(map, k)
           D(i, j) == map[i, j].dist
           ND(i, j) == new[i, j].dist
           t(i, j) == D(i, k) + D(k, j)
<1>1. ASSUME NEW i \in S, NEW j \in S
      PROVE  D(i, j) \in Nat /\ ND(i, j) = IF t(i, j) < D(i, j) THEN t(i, j) ELSE D(i, j)
  <2>1. map[i, j].dist \in Nat
    BY EntryOK
  <2>2. /\ ND(i, j) = IF t(i, j) < D(i, j) THEN t(i, j) ELSE D(i, j)
        /\ new[i, j].via = IF t(i, j) < D(i, j) THEN k ELSE map[i, j].via
        /\ new[i, j] \in [dist : 0 .. Far, via : S \cup {None}]
    BY RelaxEntry, Zenon
  <2> QED BY <2>1, <2>2
<1>2. D(k, k) = 0
  BY DEF Plausible
<1>3. \A i, j \in S, m \in K : D(i, j) <= D(i, m) + D(m, j)
  BY DEF Settled
<1> HIDE DEF new, D, ND
<1>4. ASSUME NEW i \in S, NEW j \in S, NEW m \in K \cup {k}
      PROVE  ND(i, j) <= ND(i, m) + ND(m, j)
  <2>1. m \in S
    OBVIOUS
  <2>2. /\ D(i, j) \in Nat /\ D(i, k) \in Nat /\ D(k, j) \in Nat
        /\ D(i, m) \in Nat /\ D(m, j) \in Nat /\ D(k, m) \in Nat /\ D(m, k) \in Nat
    BY <1>1, <2>1
  <2>3. ND(i, j) \in Nat /\ ND(i, j) <= D(i, j) /\ ND(i, j) <= D(i, k) + D(k, j)
    BY <1>1, <2>2
  <2>4. CASE m = k
    <3>1. ND(i, m) = D(i, k) /\ ND(m, j) = D(k, j)
      BY <1>1, <1>2, <2>2, <2>4
    <3> QED BY <2>3, <3>1
  <2>5. CASE m \in K
    <3>1. /\ D(i, j) <= D(i, m) + D(m, j) /\ D(i, k) <= D(i, m) + D(m, k)
          /\ D(k, j) <= D(k, m) + D(m, j)
      BY <1>3, <2>5
    <3>2. ND(i, m) = D(i, m) \/ ND(i, m) = D(i, k) + D(k, m)
      BY <1>1, <2>1
    <3>3. ND(m, j) = D(m, j) \/ ND(m, j) = D(m, k) + D(k, j)
      BY <1>1, <2>1
    <3> QED BY <2>2, <2>3, <3>1, <3>2, <3>3
  <2> QED BY <2>4, <2>5
<1> QED BY <1>4 DEF Settled, new, ND

\* A dictionary of switches, in the order it lists them.
LEMMA OrderLists ==
  ASSUME NEW S, IsFiniteSet(S), NEW order \in Orders(S)
  PROVE  /\ Len(order) = Cardinality(S) /\ Len(order) \in Nat /\ ToSet(order) = S
         /\ \A n \in 1 .. Len(order) : order[n] \in S
         /\ \A x \in S : \E n \in 1 .. Len(order) : order[n] = x
<1> DEFINE N == Cardinality(S)
<1>1. N \in Nat
  BY FS_CardinalityType
<1>2. order \in [1 .. N -> S] /\ \A a, b \in 1 .. N : order[a] = order[b] => a = b
  BY DEF Orders, IsInjective
<1>3. order \in Seq(S) /\ Len(order) = N
  BY <1>1, <1>2
<1>4. order \in Injection(1 .. N, S)
  BY <1>2 DEF Injection, IsInjective
<1>5. Cardinality(1 .. N) = N
  BY <1>1, FS_Interval
<1>6. order \in Surjection(1 .. N, S)
  BY <1>4, <1>5, FS_Injection
<1>7. \A x \in S : \E n \in 1 .. N : order[n] = x
  BY <1>6 DEF Surjection
<1>8. ToSet(order) = S
  BY <1>2, <1>7 DEF ToSet
<1> QED BY <1>1, <1>2, <1>3, <1>7, <1>8

LEMMA OrderExists ==
  ASSUME NEW S, IsFiniteSet(S)
  PROVE  Orders(S) # {}
<1>1. PICK f : f \in Bijection(1 .. Cardinality(S), S)
  BY FS_CardinalityType DEF ExistsBijection
<1>2. f \in Orders(S)
  BY <1>1 DEF Bijection, Injection, Orders, IsInjective
<1> QED BY <1>2

\* path_map when every switch had its turn.
LEMMA CalcPathsOK ==
  ASSUME NEW S, S \subseteq Switches, NEW adj, NEW order \in Orders(S)
  PROVE  LET map == CalcPaths(adj, order) IN Plausible(map, adj, S) /\ Settled(map, S, S)
<1> DEFINE N == Len(order)
           start == [p \in S \X S |->
                [dist |-> IF p[1] = p[2] THEN 0 ELSE IF p \in adj THEN 1 ELSE Far, via |-> None]]
           Is(f, k) == f = [n \in 0 .. k |-> IF n = 0 THEN start ELSE Relax(f[n - 1], order[n])]
           f == CHOOSE g : Is(g, N)
<1>1. IsFiniteSet(S)
  <2>1. S \in SUBSET Switches /\ IsFiniteSet(Switches)
    BY SpanningTreeAssumption
  <2> QED BY <2>1, FS_Subset
<1>2. /\ N \in Nat /\ ToSet(order) = S /\ \A n \in 1 .. N : order[n] \in S
      /\ \A x \in S : \E n \in 1 .. N : order[n] = x
  BY <1>1, OrderLists
<1>3. CalcPaths(adj, order) = f[N]
  BY <1>2 DEF CalcPaths
<1> HIDE DEF start, N
<1>4. Is(f, N)
  <2> DEFINE R == {k \in 0 .. N : \E g : Is(g, k)}
  <2>1. 0 \in R
    <3> DEFINE e == [n \in 0 .. 0 |-> start]
    <3>1. Is(e, 0)
      OBVIOUS
    <3> HIDE DEF Is, e
    <3>2. \E g : Is(g, 0)
      BY <3>1
    <3> QED BY <1>2, <3>2
  <2>2. ASSUME NEW k \in 0 .. N, k \in R, k < N PROVE k + 1 \in R
    <3>1. PICK g : Is(g, k)
      BY <2>2
    <3> DEFINE e == [n \in 0 .. k + 1 |-> IF n = k + 1 THEN Relax(g[k], order[k + 1]) ELSE g[n]]
    <3>2. \A n \in 0 .. k : e[n] = g[n]
      BY <1>2
    <3>3. ASSUME NEW n \in 0 .. k + 1
          PROVE  e[n] = IF n = 0 THEN start ELSE Relax(e[n - 1], order[n])
      <4>1. CASE n = k + 1
        <5>1. n # 0 /\ n - 1 = k /\ k \in 0 .. k
          BY <1>2, <4>1
        <5> QED BY <3>2, <4>1, <5>1
      <4>2. CASE n # k + 1
        <5>1. n \in 0 .. k /\ (n # 0 => n - 1 \in 0 .. k)
          BY <1>2, <4>2
        <5>2. g[n] = IF n = 0 THEN start ELSE Relax(g[n - 1], order[n])
          BY <3>1, <5>1
        <5> QED BY <3>2, <5>1, <5>2
      <4> QED BY <4>1, <4>2
    <3>4. e = [n \in 0 .. k + 1 |-> e[n]]
      OBVIOUS
    <3> HIDE DEF e
    <3>5. Is(e, k + 1)
      BY <3>3, <3>4
    <3> HIDE DEF Is
    <3>6. \E u : Is(u, k + 1)
      BY <3>5
    <3>7. k + 1 \in 0 .. N
      BY <1>2, <2>2
    <3> QED BY <3>6, <3>7
  <2> HIDE DEF Is
  <2>3. N \in R
    <3> HIDE DEF R
    <3> QED BY <1>2, <2>1, <2>2, UpTo
  <2> QED BY <2>3
<1> HIDE DEF f
<1>5. f[0] = start /\ \A n \in 1 .. N : f[n] = Relax(f[n - 1], order[n])
  BY <1>2, <1>4
<1>6. Plausible(start, adj, S)
  <2>1. ASSUME S # {} PROVE Far \in Nat \ {0}
    <3>1. IsFiniteSet(Switches)
      BY SpanningTreeAssumption
    <3>2. Cardinality(Switches) # 0
      BY <2>1, <3>1, FS_EmptySet
    <3> QED BY <3>2, FarIsNat DEF Far
  <2>2. ASSUME NEW i \in S, NEW j \in S
        PROVE  /\ start[i, j].via = None
               /\ i = j => start[i, j].dist = 0
               /\ i # j /\ <<i, j>> \in adj => start[i, j].dist = 1
               /\ i # j /\ <<i, j>> \notin adj => start[i, j].dist = Far
    BY DEF start
  <2>3. ASSUME NEW p \in S \X S PROVE start[p] \in [dist : 0 .. Far, via : S \cup {None}]
    <3>1. 0 \in 0 .. Far /\ 1 \in 0 .. Far /\ Far \in 0 .. Far
      BY <2>1
    <3> QED BY <3>1 DEF start
  <2>4. start \in [S \X S -> [dist : 0 .. Far, via : S \cup {None}]]
    BY <2>3 DEF start
  <2>5. S # {} => Far >= 1
    BY <2>1
  <2> HIDE DEF start
  <2>6. ASSUME NEW i \in S, NEW j \in S
        PROVE  /\ i = j => start[i, j].dist = 0
               /\ i # j => start[i, j].dist >= 1
               /\ <<i, j>> \in adj => start[i, j].dist <= 1
               /\ i # j /\ start[i, j].dist < Far => <<i, j>> \in adj
    <3> DEFINE d == start[i, j].dist
    <3>1. /\ i = j => d = 0
          /\ i # j /\ <<i, j>> \in adj => d = 1
          /\ i # j /\ <<i, j>> \notin adj => d = Far
      BY <2>2
    <3>2. Far \in Nat /\ Far >= 1
      BY <2>5, FarIsNat
    <3> HIDE DEF d
    <3>3. /\ i = j => d = 0
          /\ i # j => d >= 1
          /\ i = j \/ <<i, j>> \in adj => d <= 1
          /\ i # j /\ d < Far => <<i, j>> \in adj
      BY <3>1, <3>2
    <3> QED BY <3>3 DEF d
  <2> QED BY <2>2, <2>4, <2>6 DEF Plausible
<1> DEFINE K(n) == {order[m] : m \in 1 .. n}
           R == {n \in 0 .. N : Plausible(f[n], adj, S) /\ Settled(f[n], S, K(n))}
<1>7. 0 \in R
  <2>1. K(0) = {} /\ 0 \in 0 .. N
    BY <1>2
  <2> QED BY <2>1, <1>5, <1>6 DEF Settled
<1>8. ASSUME NEW n \in 0 .. N, n \in R, n < N PROVE n + 1 \in R
  <2>1. n + 1 \in 1 .. N /\ n + 1 \in 0 .. N /\ (n + 1) - 1 = n
    BY <1>2, <1>8
  <2>2. f[n + 1] = Relax(f[n], order[n + 1]) /\ order[n + 1] \in S
    BY <1>2, <1>5, <2>1
  <2>3. K(n + 1) = K(n) \cup {order[n + 1]}
    <3>1. 1 .. n + 1 = (1 .. n) \cup {n + 1}
      BY <1>2
    <3> QED BY <3>1
  <2>4. K(n) \in SUBSET S
    BY <1>2
  <2>5. None \notin S
    BY L2MultiAssumption
  <2> HIDE DEF K
  <2>6. Plausible(f[n + 1], adj, S)
    BY <1>8, <2>2, <2>5, RelaxPlausible
  <2>7. Settled(f[n + 1], S, K(n + 1))
    BY <1>8, <2>2, <2>3, <2>4, <2>5, RelaxSettles
  <2> QED BY <2>1, <2>6, <2>7
<1>9. N \in R
  <2> HIDE DEF R
  <2> QED BY <1>2, <1>7, <1>8, UpTo
<1>10. K(N) = S
  BY <1>2
<1> QED BY <1>3, <1>9, <1>10

\* What _get_raw_path recurses on is nearer, on both sides of the switch remembered.
LEMMA Nearer ==
  ASSUME NEW adj, NEW S, NEW map, Plausible(map, adj, S), NEW i \in S, NEW j \in S,
         map[i, j].via # None
  PROVE  LET v == map[i, j].via IN
         /\ v \in S /\ i # j
         /\ map[i, j].dist \in Nat /\ map[i, v].dist \in Nat /\ map[v, j].dist \in Nat
         /\ map[i, v].dist >= 1 /\ map[v, j].dist >= 1 /\ map[i, j].dist < Far
         /\ map[i, v].dist + map[v, j].dist <= map[i, j].dist
         /\ v # i /\ v # j
<1> DEFINE v == map[i, j].via
<1>0. map[i, j].dist \in Nat /\ map[i, j].via \in S \cup {None}
  BY EntryOK
<1>1. v \in S
  BY <1>0
<1>2. map[i, v].dist \in Nat /\ map[v, j].dist \in Nat
  BY <1>1, EntryOK
<1>3. v # i /\ v # j /\ map[i, j].dist < Far /\ map[i, v].dist + map[v, j].dist <= map[i, j].dist
  BY DEF Plausible
<1>4. i # j
  BY DEF Plausible
<1>5. map[i, v].dist >= 1 /\ map[v, j].dist >= 1
  BY <1>1, <1>3 DEF Plausible
<1> QED BY <1>0, <1>1, <1>2, <1>3, <1>4, <1>5

RawStep(map, raw, p) ==
  IF map[p].via = None THEN <<>>
  ELSE raw[<<p[1], map[p].via>>] \o <<map[p].via>> \o raw[<<map[p].via, p[2]>>]

\* The recursion ends, because the distances shrink.
LEMMA RawPathUnfolds ==
  ASSUME NEW adj, NEW S, NEW map, Plausible(map, adj, S)
  PROVE  \E raw : /\ \A p \in S \X S : raw[p] = RawStep(map, raw, p)
                  /\ \A i, j \in S : RawPath(map, i, j) = raw[<<i, j>>]
<1> DEFINE Is(g) == g = [p \in DOMAIN map |-> RawStep(map, g, p)]
           raw == CHOOSE g : Is(g)
           Ends(g, n) == \A p \in S \X S : map[p].dist <= n => g[p] = RawStep(map, g, p)
           R == {n \in 0 .. Far : \E g : Ends(g, n)}
<1>1. DOMAIN map = S \X S
  BY DEF Plausible
<1>2. ASSUME NEW p \in S \X S
      PROVE  /\ map[p].dist \in Nat /\ map[p].dist <= Far
             /\ map[p].dist <= 0 => map[p].via = None
             /\ map[p].via # None =>
                  \A n \in Nat : map[p].dist <= n + 1 =>
                    /\ <<p[1], map[p].via>> \in S \X S /\ map[<<p[1], map[p].via>>].dist <= n
                    /\ <<map[p].via, p[2]>> \in S \X S /\ map[<<map[p].via, p[2]>>].dist <= n
  <2>1. PICK i \in S, j \in S : p = <<i, j>>
    OBVIOUS
  <2>2. map[i, j].dist \in Nat /\ map[i, j].dist <= Far
    BY EntryOK
  <2> DEFINE v == map[i, j].via
             a == map[i, v].dist
             b == map[v, j].dist
             d == map[i, j].dist
  <2>3. ASSUME v # None
        PROVE  /\ v \in S /\ d \in Nat /\ a \in Nat /\ b \in Nat /\ a >= 1 /\ b >= 1 /\ a + b <= d
    BY <2>3, Nearer
  <2> HIDE DEF a, b, d, v
  <2>4. d <= 0 => v = None
    BY <2>3
  <2>5. ASSUME v # None, NEW n \in Nat, d <= n + 1 PROVE a <= n /\ b <= n
    BY <2>3, <2>5
  <2> QED BY <2>1, <2>2, <2>3, <2>4, <2>5 DEF a, b, d, v
<1>3. 0 \in R
  <2> DEFINE g == [p \in S \X S |-> <<>>]
  <2>1. \A p \in S \X S : map[p].dist <= 0 => g[p] = RawStep(map, g, p)
    BY <1>2 DEF RawStep
  <2>2. 0 \in 0 .. Far
    BY FarIsNat
  <2> QED BY <2>1, <2>2
<1>4. ASSUME NEW n \in 0 .. Far, n \in R, n < Far PROVE n + 1 \in R
  <2>1. PICK g : Ends(g, n)
    BY <1>4
  <2> DEFINE e == [p \in S \X S |-> RawStep(map, g, p)]
  <2>2. n \in Nat /\ n + 1 \in 0 .. Far
    BY <1>4, FarIsNat
  <2>3. \A p \in S \X S : map[p].dist <= n => e[p] = g[p]
    BY <2>1
  <2>4. \A p \in S \X S : e[p] = RawStep(map, g, p)
    OBVIOUS
  <2> HIDE DEF e
  <2>5. ASSUME NEW p \in S \X S, map[p].dist <= n + 1 PROVE e[p] = RawStep(map, e, p)
    <3>1. CASE map[p].via = None
      BY <2>4, <3>1 DEF RawStep
    <3>2. CASE map[p].via # None
      <4>1. /\ <<p[1], map[p].via>> \in S \X S /\ map[<<p[1], map[p].via>>].dist <= n
            /\ <<map[p].via, p[2]>> \in S \X S /\ map[<<map[p].via, p[2]>>].dist <= n
        BY <1>2, <2>2, <2>5, <3>2
      <4>2. /\ e[<<p[1], map[p].via>>] = g[<<p[1], map[p].via>>]
            /\ e[<<map[p].via, p[2]>>] = g[<<map[p].via, p[2]>>]
        BY <2>3, <4>1
      <4> QED BY <2>4, <4>2 DEF RawStep
    <3> QED BY <3>1, <3>2
  <2> QED BY <2>2, <2>5
<1>5. Far \in R
  <2> HIDE DEF R
  <2> QED BY <1>3, <1>4, FarIsNat, UpTo
<1>6. PICK g : Ends(g, Far)
  BY <1>5
<1>7. Is([p \in S \X S |-> g[p]])
  <2> DEFINE h == [p \in S \X S |-> g[p]]
  <2>1. ASSUME NEW p \in S \X S PROVE h[p] = RawStep(map, h, p)
    <3>1. g[p] = RawStep(map, g, p)
      BY <1>2, <1>6
    <3>2. CASE map[p].via = None
      BY <3>1, <3>2 DEF RawStep
    <3>3. CASE map[p].via # None
      <4>1. map[p].dist \in Nat /\ map[p].dist <= Far
        BY <1>2
      <4>2. Far \in Nat /\ map[p].dist <= Far + 1
        BY <4>1, FarIsNat
      <4>3. <<p[1], map[p].via>> \in S \X S /\ <<map[p].via, p[2]>> \in S \X S
        BY <1>2, <3>3, <4>2
      <4> QED BY <3>1, <4>3 DEF RawStep
    <3> QED BY <3>2, <3>3
  <2>2. h = [p \in S \X S |-> h[p]]
    OBVIOUS
  <2> HIDE DEF h
  <2>3. h = [p \in DOMAIN map |-> RawStep(map, h, p)]
    BY <1>1, <2>1, <2>2
  <2> QED BY <2>3 DEF h
<1>8. Is(raw)
  <2> HIDE DEF Is
  <2> QED BY <1>7
<1>9. ASSUME NEW i \in S, NEW j \in S PROVE RawPath(map, i, j) = raw[<<i, j>>]
  BY DEF RawPath, RawStep
<1>10. \A p \in S \X S : raw[p] = RawStep(map, raw, p)
  <2> HIDE DEF raw
  <2> QED BY <1>1, <1>8
<1> HIDE DEF raw
<1> QED BY <1>9, <1>10

\* The n-th switch of the walk from i by w to j, and that it is a walk.
At(i, w, j, n) == IF n = 0 THEN i ELSE IF n = Len(w) + 1 THEN j ELSE w[n]
Walk(i, w, j, adj) == \A n \in 0 .. Len(w) : <<At(i, w, j, n), At(i, w, j, n + 1)>> \in adj

LEMMA WalksJoin ==
  ASSUME NEW S, NEW adj, NEW i \in S, NEW v \in S, NEW j \in S, NEW w1 \in Seq(S), NEW w2 \in Seq(S),
         Walk(i, w1, v, adj), Walk(v, w2, j, adj)
  PROVE  LET w == w1 \o <<v>> \o w2 IN
         w \in Seq(S) /\ Len(w) = Len(w1) + Len(w2) + 1 /\ Walk(i, w, j, adj)
<1> DEFINE u == w1 \o <<v>>
           w == u \o w2
           L1 == Len(w1)
           L2 == Len(w2)
<1>1. L1 \in Nat /\ L2 \in Nat
  BY LenProperties
<1>2. /\ u \in Seq(S) /\ Len(u) = L1 + 1 /\ \A n \in 1 .. L1 : u[n] = w1[n]
      /\ u[L1 + 1] = v
  <2>1. <<v>> \in Seq(S) /\ Len(<<v>>) = 1 /\ <<v>>[1] = v
    OBVIOUS
  <2>2. /\ u \in Seq(S) /\ Len(u) = L1 + 1
        /\ \A n \in 1 .. L1 + 1 : u[n] = IF n <= L1 THEN w1[n] ELSE <<v>>[n - L1]
    BY <2>1, ConcatProperties
  <2>3. L1 + 1 \in 1 .. L1 + 1 /\ ~(L1 + 1 <= L1) /\ (L1 + 1) - L1 = 1
    BY <1>1
  <2>4. \A n \in 1 .. L1 : n \in 1 .. L1 + 1 /\ n <= L1
    BY <1>1
  <2> QED BY <2>1, <2>2, <2>3, <2>4
<1> HIDE DEF u
<1>3. /\ w \in Seq(S) /\ Len(w) = L1 + 1 + L2
      /\ \A n \in 1 .. L1 + 1 + L2 : w[n] = IF n <= L1 + 1 THEN u[n] ELSE w2[n - (L1 + 1)]
  <2>1. /\ u \o w2 \in Seq(S) /\ Len(u \o w2) = Len(u) + Len(w2)
        /\ \A n \in 1 .. Len(u) + Len(w2) : (u \o w2)[n] =
             IF n <= Len(u) THEN u[n] ELSE w2[n - Len(u)]
    BY <1>2, ConcatProperties, Zenon
  <2> QED BY <1>2, <2>1
<1> HIDE DEF w
<1>4. ASSUME NEW n \in 0 .. L1 + 1 PROVE At(i, w, j, n) = At(i, w1, v, n)
  <2>1. CASE n = 0
    BY <2>1 DEF At
  <2>2. CASE n = L1 + 1
    <3>1. n # 0 /\ n \in 1 .. L1 + 1 + L2 /\ n <= L1 + 1 /\ n # L1 + 1 + L2 + 1
      BY <1>1, <2>2
    <3> QED BY <1>2, <1>3, <2>2, <3>1 DEF At
  <2>3. CASE n \in 1 .. L1
    <3>1. n # 0 /\ n \in 1 .. L1 + 1 + L2 /\ n <= L1 + 1 /\ n # L1 + 1 + L2 + 1 /\ n # L1 + 1
      BY <1>1, <2>3
    <3> QED BY <1>2, <1>3, <2>3, <3>1 DEF At
  <2>4. n = 0 \/ n = L1 + 1 \/ n \in 1 .. L1
    BY <1>1
  <2> QED BY <2>1, <2>2, <2>3, <2>4
<1>5. ASSUME NEW n \in 0 .. L2 + 1 PROVE At(i, w, j, L1 + 1 + n) = At(v, w2, j, n)
  <2>1. CASE n = 0
    <3>1. /\ L1 + 1 + n = L1 + 1 /\ L1 + 1 # 0 /\ L1 + 1 # L1 + 1 + L2 + 1
          /\ L1 + 1 \in 1 .. L1 + 1 + L2 /\ L1 + 1 <= L1 + 1
      BY <1>1, <2>1
    <3> QED BY <1>2, <1>3, <2>1, <3>1 DEF At
  <2>2. CASE n = L2 + 1
    <3>1. L1 + 1 + n = L1 + 1 + L2 + 1 /\ L1 + 1 + n # 0 /\ n # 0
      BY <1>1, <2>2
    <3> QED BY <1>3, <2>2, <3>1 DEF At
  <2>3. CASE n \in 1 .. L2
    <3>1. /\ L1 + 1 + n # 0 /\ L1 + 1 + n # L1 + 1 + L2 + 1 /\ n # 0 /\ n # L2 + 1
          /\ L1 + 1 + n \in 1 .. L1 + 1 + L2 /\ ~(L1 + 1 + n <= L1 + 1)
          /\ (L1 + 1 + n) - (L1 + 1) = n
      BY <1>1, <2>3
    <3> QED BY <1>3, <3>1 DEF At
  <2>4. n = 0 \/ n = L2 + 1 \/ n \in 1 .. L2
    BY <1>1
  <2> QED BY <2>1, <2>2, <2>3, <2>4
<1>6. ASSUME NEW n \in 0 .. L1 + 1 + L2 PROVE <<At(i, w, j, n), At(i, w, j, n + 1)>> \in adj
  <2>1. CASE n <= L1
    <3>1. n \in 0 .. L1 + 1 /\ n + 1 \in 0 .. L1 + 1 /\ n \in 0 .. L1
      BY <1>1, <2>1
    <3>2. At(i, w, j, n) = At(i, w1, v, n) /\ At(i, w, j, n + 1) = At(i, w1, v, n + 1)
      BY <1>4, <3>1
    <3> QED BY <3>1, <3>2 DEF Walk
  <2>2. CASE ~(n <= L1)
    <3> DEFINE m == n - (L1 + 1)
    <3>1. /\ m \in 0 .. L2 /\ m \in 0 .. L2 + 1 /\ m + 1 \in 0 .. L2 + 1
          /\ n = L1 + 1 + m /\ n + 1 = L1 + 1 + (m + 1)
      BY <1>1, <2>2
    <3> HIDE DEF m
    <3>2. /\ At(i, w, j, L1 + 1 + m) = At(v, w2, j, m)
          /\ At(i, w, j, L1 + 1 + (m + 1)) = At(v, w2, j, m + 1)
      BY <1>5, <3>1
    <3>3. <<At(v, w2, j, m), At(v, w2, j, m + 1)>> \in adj
      BY <3>1 DEF Walk
    <3> QED BY <3>1, <3>2, <3>3
  <2> QED BY <2>1, <2>2
<1>7. Walk(i, w, j, adj)
  BY <1>3, <1>6 DEF Walk
<1>8. Len(w) = L1 + L2 + 1
  BY <1>1, <1>3
<1> QED BY <1>3, <1>7, <1>8 DEF w, u

LEMMA NoSwitchBetween ==
  ASSUME NEW S, NEW i, NEW j, NEW adj, <<i, j>> \in adj
  PROVE  <<>> \in Seq(S) /\ Len(<<>>) = 0 /\ Walk(i, <<>>, j, adj)
<1>1. Len(<<>>) = 0 /\ <<>> \in Seq(S)
  OBVIOUS
<1>2. \A n \in 0 .. 0 : n = 0 /\ n + 1 = 1 /\ 1 # 0 /\ 1 = 0 + 1
  OBVIOUS
<1> QED BY <1>1, <1>2 DEF Walk, At

\* What _get_raw_path puts together is a walk no longer than the distance.
LEMMA RawPathOK ==
  ASSUME NEW adj, NEW S, NEW map, Plausible(map, adj, S)
  PROVE  \A src, dst \in S : src # dst /\ map[src, dst].dist < Far =>
           LET w == RawPath(map, src, dst) IN
           w \in Seq(S) /\ Len(w) + 1 <= map[src, dst].dist /\ Walk(src, w, dst, adj)
<1>1. PICK raw : /\ \A p \in S \X S : raw[p] = RawStep(map, raw, p)
                 /\ \A i, j \in S : RawPath(map, i, j) = raw[<<i, j>>]
  BY RawPathUnfolds
<1> DEFINE D(i, j) == map[i, j].dist
           Fine(i, j) == /\ raw[<<i, j>>] \in Seq(S)
                         /\ Len(raw[<<i, j>>]) + 1 <= D(i, j)
                         /\ Walk(i, raw[<<i, j>>], j, adj)
           R == {n \in 0 .. Far : \A i, j \in S :
                   i # j /\ D(i, j) < Far /\ D(i, j) <= n => Fine(i, j)}
<1>2. ASSUME NEW i \in S, NEW j \in S
      PROVE  /\ D(i, j) \in Nat /\ D(i, j) <= Far /\ (i # j => D(i, j) >= 1)
             /\ LET v == map[i, j].via IN v # None =>
                  /\ v \in S /\ v # i /\ v # j
                  /\ D(i, v) \in Nat /\ D(v, j) \in Nat /\ D(i, v) >= 1 /\ D(v, j) >= 1
                  /\ D(i, v) + D(v, j) <= D(i, j)
             /\ i # j /\ map[i, j].via = None /\ D(i, j) < Far => <<i, j>> \in adj
  <2>1. /\ map[i, j].dist \in Nat /\ map[i, j].dist <= Far
    BY EntryOK
  <2>2. /\ i # j => map[i, j].dist >= 1
        /\ i # j /\ map[i, j].via = None /\ map[i, j].dist < Far => <<i, j>> \in adj
    BY DEF Plausible
  <2>3. ASSUME map[i, j].via # None
        PROVE  LET v == map[i, j].via IN
               /\ v \in S /\ v # i /\ v # j
               /\ D(i, v) \in Nat /\ D(v, j) \in Nat /\ D(i, v) >= 1 /\ D(v, j) >= 1
               /\ D(i, v) + D(v, j) <= D(i, j)
    <3>1. LET v == map[i, j].via IN
          /\ v \in S /\ i # j
          /\ D(i, j) \in Nat /\ D(i, v) \in Nat /\ D(v, j) \in Nat
          /\ D(i, v) >= 1 /\ D(v, j) >= 1 /\ D(i, j) < Far
          /\ D(i, v) + D(v, j) <= D(i, j)
          /\ v # i /\ v # j
      BY <2>3, Nearer, Zenon
    <3> HIDE DEF D
    <3> QED BY <3>1
  <2> QED BY <2>1, <2>2, <2>3
<1> HIDE DEF D
<1>3. 0 \in R
  <2>1. ASSUME NEW i \in S, NEW j \in S, i # j, D(i, j) <= 0 PROVE FALSE
    <3>1. D(i, j) \in Nat /\ D(i, j) >= 1
      BY <1>2, <2>1
    <3> QED BY <2>1, <3>1
  <2>2. 0 \in 0 .. Far
    BY FarIsNat
  <2> QED BY <2>1, <2>2
<1>4. ASSUME NEW n \in 0 .. Far, n \in R, n < Far PROVE n + 1 \in R
  <2>1. n \in Nat /\ n + 1 \in 0 .. Far
    BY <1>4, FarIsNat
  <2>2. ASSUME NEW i \in S, NEW j \in S, i # j, D(i, j) < Far, D(i, j) <= n + 1
        PROVE  Fine(i, j)
    <3>1. raw[<<i, j>>] = RawStep(map, raw, <<i, j>>)
      BY <1>1
    <3>2. CASE map[i, j].via = None
      <4>1. raw[<<i, j>>] = <<>>
        BY <3>1, <3>2 DEF RawStep
      <4>2. <<i, j>> \in adj /\ D(i, j) >= 1 /\ D(i, j) \in Nat
        BY <1>2, <2>2, <3>2
      <4>3. <<>> \in Seq(S) /\ Len(<<>>) = 0 /\ Walk(i, <<>>, j, adj)
        BY <4>2, NoSwitchBetween
      <4> QED BY <4>1, <4>2, <4>3
    <3>3. CASE map[i, j].via # None
      <4> DEFINE v == map[i, j].via
                 w1 == raw[<<i, v>>]
                 w2 == raw[<<v, j>>]
                 w == raw[<<i, j>>]
      <4>1. /\ v \in S /\ v # i /\ v # j /\ D(i, j) \in Nat
            /\ D(i, v) \in Nat /\ D(v, j) \in Nat /\ D(i, v) >= 1 /\ D(v, j) >= 1
            /\ D(i, v) + D(v, j) <= D(i, j)
        BY <1>2, <3>3
      <4>2. w = w1 \o <<v>> \o w2
        BY <3>1, <3>3 DEF RawStep
      <4> HIDE DEF v
      <4>3. D(i, v) < Far /\ D(v, j) < Far /\ D(i, v) <= n /\ D(v, j) <= n
        BY <2>1, <2>2, <4>1, FarIsNat
      <4>4. Fine(i, v) /\ Fine(v, j)
        BY <1>4, <4>1, <4>3
      <4>5. w \in Seq(S) /\ Len(w) = Len(w1) + Len(w2) + 1 /\ Walk(i, w, j, adj)
        <5>1. w1 \in Seq(S) /\ w2 \in Seq(S) /\ Walk(i, w1, v, adj) /\ Walk(v, w2, j, adj)
          BY <4>4
        <5> HIDE DEF w1, w2, w
        <5> QED BY <4>1, <4>2, <5>1, WalksJoin
      <4>6. Len(w1) \in Nat /\ Len(w2) \in Nat /\ Len(w1) + 1 <= D(i, v) /\ Len(w2) + 1 <= D(v, j)
        BY <4>4, LenProperties
      <4>7. Len(w) + 1 <= D(i, j)
        <5> HIDE DEF w1, w2, w
        <5> QED BY <4>1, <4>5, <4>6
      <4> QED BY <4>5, <4>7
    <3> QED BY <3>2, <3>3
  <2> QED BY <2>1, <2>2
<1>5. Far \in R
  <2> HIDE DEF R
  <2> QED BY <1>3, <1>4, FarIsNat, UpTo
<1>6. ASSUME NEW i \in S, NEW j \in S, i # j, D(i, j) < Far PROVE Fine(i, j)
  BY <1>2, <1>5, <1>6
<1> QED BY <1>1, <1>6 DEF D

LEMMA ReachUnfolds ==
  ASSUME NEW adj, NEW d
  PROVE  /\ Reach(adj, d)[0] = {d}
         /\ \A k \in 1 .. Far : Reach(adj, d)[k] = Further(adj, Reach(adj, d)[k - 1])
<1> DEFINE Is(f, k) == f = [n \in 0 .. k |-> IF n = 0 THEN {d} ELSE Further(adj, f[n - 1])]
           f == CHOOSE g : Is(g, Far)
           R == {k \in 0 .. Far : \E g : Is(g, k)}
<1>1. Reach(adj, d) = f
  BY DEF Reach, Further
<1>2. 0 \in R
  <2> DEFINE e == [n \in 0 .. 0 |-> {d}]
  <2>1. Is(e, 0)
    OBVIOUS
  <2> HIDE DEF Is, e
  <2>2. \E g : Is(g, 0)
    BY <2>1
  <2> QED BY <2>2, FarIsNat
<1>3. ASSUME NEW k \in 0 .. Far, k \in R, k < Far PROVE k + 1 \in R
  <2>0. k \in Nat /\ k + 1 \in 0 .. Far
    BY <1>3, FarIsNat
  <2>1. PICK g : Is(g, k)
    BY <1>3
  <2> DEFINE e == [n \in 0 .. k + 1 |-> IF n = k + 1 THEN Further(adj, g[k]) ELSE g[n]]
  <2>2. \A n \in 0 .. k : e[n] = g[n]
    BY <2>0
  <2>3. ASSUME NEW n \in 0 .. k + 1
        PROVE  e[n] = IF n = 0 THEN {d} ELSE Further(adj, e[n - 1])
    <3>1. CASE n = k + 1
      <4>1. n # 0 /\ n - 1 = k /\ k \in 0 .. k
        BY <2>0, <3>1
      <4> QED BY <2>2, <3>1, <4>1
    <3>2. CASE n # k + 1
      <4>1. n \in 0 .. k /\ (n # 0 => n - 1 \in 0 .. k)
        BY <2>0, <3>2
      <4>2. g[n] = IF n = 0 THEN {d} ELSE Further(adj, g[n - 1])
        BY <2>1, <4>1
      <4> QED BY <2>2, <3>2, <4>1, <4>2
    <3> QED BY <3>1, <3>2
  <2>4. e = [n \in 0 .. k + 1 |-> e[n]]
    OBVIOUS
  <2> HIDE DEF e
  <2>5. Is(e, k + 1)
    BY <2>3, <2>4
  <2> HIDE DEF Is
  <2>6. \E u : Is(u, k + 1)
    BY <2>5
  <2> QED BY <2>0, <2>6
<1>4. Far \in R
  <2> HIDE DEF R
  <2> QED BY <1>2, <1>3, FarIsNat, UpTo
<1>5. Is(f, Far)
  <2> HIDE DEF Is
  <2> QED BY <1>4
<1> HIDE DEF f
<1>6. 0 \in 0 .. Far /\ \A k \in 1 .. Far : k \in 0 .. Far /\ k # 0
  BY FarIsNat
<1>7. \A n \in 0 .. Far : f[n] = IF n = 0 THEN {d} ELSE Further(adj, f[n - 1])
  BY <1>5
<1> QED BY <1>1, <1>6, <1>7

\* Reach grows, stays among the switches, and after Far - 1 links no longer
\* grows: each link before reached a switch more.
LEMMA ReachGrows ==
  ASSUME NEW S \in SUBSET Switches, NEW adj \in SUBSET (S \X S), NEW d \in S
  PROVE  LET within == Reach(adj, d) IN
         /\ \A n \in 0 .. Far : within[n] \subseteq S /\ \A m \in 0 .. n : within[m] \subseteq within[n]
         /\ Far >= 1 /\ within[Far] = within[Far - 1]
<1> DEFINE within == Reach(adj, d)
<1>1. within[0] = {d} /\ \A k \in 1 .. Far : within[k] = Further(adj, within[k - 1])
  BY ReachUnfolds
<1> HIDE DEF within
<1>2. IsFiniteSet(Switches)
  BY SpanningTreeAssumption
<1>3. Far \in Nat /\ Far >= 1
  <2>1. Switches # {}
    OBVIOUS
  <2>2. Cardinality(Switches) # 0
    BY <1>2, <2>1, FS_EmptySet
  <2> QED BY <2>2, FarIsNat DEF Far
<1> DEFINE Grows(n) == within[n] \subseteq S /\ \A m \in 0 .. n : within[m] \subseteq within[n]
           G == {n \in 0 .. Far : Grows(n)}
<1>4. \A n \in 0 .. Far : n \in G
  <2>1. 0 \in G
    BY <1>1, <1>3
  <2>2. ASSUME NEW n \in 0 .. Far, n \in G, n < Far PROVE n + 1 \in G
    <3>1. /\ n \in Nat /\ n + 1 \in 1 .. Far /\ n + 1 \in 0 .. Far /\ (n + 1) - 1 = n
          /\ \A m \in 0 .. n + 1 : m = n + 1 \/ m \in 0 .. n
      BY <1>3, <2>2
    <3>2. within[n + 1] = Further(adj, within[n])
      BY <1>1, <3>1
    <3>3. within[n] \subseteq within[n + 1] /\ within[n + 1] \subseteq S
      BY <2>2, <3>2 DEF Further
    <3>4. Grows(n + 1)
      BY <2>2, <3>1, <3>3
    <3> QED BY <3>1, <3>4
  <2> HIDE DEF G
  <2> QED BY <1>3, <2>1, <2>2, UpTo
<1>5. \A n \in 0 .. Far : IsFiniteSet(within[n]) /\ Cardinality(within[n]) \in Nat
  <2>1. ASSUME NEW n \in 0 .. Far PROVE IsFiniteSet(within[n])
    <3>1. within[n] \in SUBSET Switches
      BY <1>4
    <3> QED BY <1>2, <3>1, FS_Subset
  <2> QED BY <2>1, FS_CardinalityType
<1> DEFINE Q(k) == within[k + 1] = within[k] \/ Cardinality(within[k]) >= k + 1
           M == Far - 1
           R == {k \in 0 .. M : Q(k)}
<1>6. M \in Nat /\ M + 1 = Far /\ M \in 0 .. Far
  BY <1>3
<1> HIDE DEF M
<1>7. M \in R
  <2>1. 0 \in R
    <3>1. Cardinality(within[0]) = 1
      BY <1>1, FS_Singleton
    <3> QED BY <1>6, <3>1
  <2>2. ASSUME NEW k \in 0 .. M, k \in R, k < M PROVE k + 1 \in R
    <3>1. /\ k \in Nat /\ k \in 0 .. Far /\ k + 1 \in 0 .. Far /\ k + 1 \in 0 .. M
          /\ k + 1 \in 1 .. Far /\ (k + 1) - 1 = k /\ k + 2 \in 1 .. Far /\ (k + 2) - 1 = k + 1
          /\ (k + 1) + 1 = k + 2 /\ k \in 0 .. k + 1
      BY <1>6, <2>2
    <3>2. within[k + 1] = Further(adj, within[k]) /\ within[k + 2] = Further(adj, within[k + 1])
      BY <1>1, <3>1
    <3>3. CASE within[k + 1] = within[k]
      BY <3>1, <3>2, <3>3
    <3>4. CASE within[k + 1] # within[k]
      <4> DEFINE a == Cardinality(within[k])
                 b == Cardinality(within[k + 1])
      <4>1. within[k] \in SUBSET within[k + 1]
        BY <1>4, <3>1
      <4>2. a <= b /\ a # b
        BY <1>5, <3>1, <3>4, <4>1, FS_Subset
      <4>3. a \in Nat /\ b \in Nat /\ a >= k + 1
        BY <1>5, <2>2, <3>1, <3>4
      <4> HIDE DEF a, b
      <4>4. b >= (k + 1) + 1
        BY <3>1, <4>2, <4>3
      <4> QED BY <3>1, <4>4 DEF b
    <3> QED BY <3>3, <3>4
  <2> HIDE DEF R
  <2> QED BY <1>6, <2>1, <2>2, UpTo
<1>8. within[Far] = within[M]
  <2>1. CASE within[M + 1] = within[M]
    BY <1>6, <2>1
  <2>2. CASE Cardinality(within[M]) >= M + 1
    <3>1. within[M] \in SUBSET Switches /\ within[Far] \subseteq Switches /\ within[M] \subseteq within[Far]
      <4>1. Far \in 0 .. Far /\ M \in 0 .. Far
        BY <1>3, <1>6
      <4> QED BY <1>4, <4>1
    <3>2. Cardinality(within[M]) <= Cardinality(Switches) /\ Cardinality(within[M]) >= Far
      BY <1>2, <1>6, <2>2, <3>1, FS_Subset
    <3>3. Cardinality(Switches) = Cardinality(within[M])
      BY <1>5, <1>6, <3>2, FarIsNat DEF Far
    <3>4. Switches = within[M]
      BY <1>2, <3>1, <3>3, FS_Subset
    <3> QED BY <3>1, <3>4
  <2> QED BY <1>7, <2>1, <2>2
<1> QED BY <1>3, <1>4, <1>8 DEF within, M

\* path_map's distances are the fewest links, and Far where no walk leads.
LEMMA DistancesRight ==
  ASSUME NEW S \in SUBSET Switches, NEW adj \in SUBSET (S \X S),
         NEW map, Plausible(map, adj, S), Settled(map, S, S), NEW src \in S
  PROVE  LET within == Reach(adj, src) IN
         \A dst \in S :
           /\ \A k \in 0 .. Far : dst \in within[k] => map[src, dst].dist <= k
           /\ dst \in within[Far] <=> map[src, dst].dist < Far
<1> DEFINE within == Reach(adj, src)
           D(i, j) == map[i, j].dist
<1>1. within[0] = {src} /\ \A k \in 1 .. Far : within[k] = Further(adj, within[k - 1])
  BY ReachUnfolds
<1>2. /\ \A n \in 0 .. Far : within[n] \subseteq S /\ \A m \in 0 .. n : within[m] \subseteq within[n]
      /\ Far >= 1 /\ within[Far] = within[Far - 1]
  BY ReachGrows
<1>3. ASSUME NEW i \in S, NEW j \in S PROVE D(i, j) \in Nat
  BY EntryOK
<1>4. /\ \A i, j, k \in S : D(i, j) <= D(i, k) + D(k, j)
      /\ \A i, j \in S : <<i, j>> \in adj => D(i, j) <= 1
      /\ D(src, src) = 0
  BY DEF Plausible, Settled
<1>5. ASSUME NEW dst \in S, src # dst, D(src, dst) < Far
      PROVE  LET w == RawPath(map, src, dst) IN
             w \in Seq(S) /\ Len(w) + 1 <= D(src, dst) /\ Walk(src, w, dst, adj)
  BY <1>5, RawPathOK
<1> HIDE DEF within, D
\* no walk is shorter
<1> DEFINE R == {k \in 0 .. Far : \A e \in within[k] : D(src, e) <= k}
<1>6. 0 \in R
  BY <1>1, <1>4, FarIsNat
<1>7. ASSUME NEW k \in 0 .. Far, k \in R, k < Far PROVE k + 1 \in R
  <2>1. k \in Nat /\ k + 1 \in 1 .. Far /\ k + 1 \in 0 .. Far /\ (k + 1) - 1 = k
    BY <1>7, FarIsNat
  <2>2. ASSUME NEW e \in within[k + 1] PROVE D(src, e) <= k + 1
    <3>1. e \in Further(adj, within[k])
      BY <1>1, <2>1, <2>2
    <3>2. CASE e \in within[k]
      <4>1. e \in S
        BY <1>2, <3>2
      <4>2. D(src, e) <= k /\ D(src, e) \in Nat
        BY <1>3, <1>7, <3>2, <4>1
      <4> QED BY <2>1, <4>2
    <3>3. ASSUME NEW x \in within[k], <<x, e>> \in adj PROVE D(src, e) <= k + 1
      <4>1. x \in S /\ e \in S
        BY <3>3
      <4>2. D(src, e) <= D(src, x) + D(x, e) /\ D(x, e) <= 1 /\ D(src, x) <= k
        BY <1>4, <1>7, <3>3, <4>1
      <4>3. D(src, e) \in Nat /\ D(src, x) \in Nat /\ D(x, e) \in Nat
        BY <1>3, <4>1
      <4> QED BY <2>1, <4>2, <4>3
    <3> QED BY <3>1, <3>2, <3>3 DEF Further
  <2> QED BY <2>1, <2>2
<1>8. \A k \in 0 .. Far : k \in R
  <2> HIDE DEF R
  <2> QED BY <1>6, <1>7, FarIsNat, UpTo
\* and the path is one, so its end is reached
<1>9. ASSUME NEW dst \in S, D(src, dst) < Far PROVE dst \in within[Far]
  <2>1. Far \in Nat /\ 0 \in 0 .. Far /\ Far \in 0 .. Far
    BY FarIsNat
  <2>2. CASE src = dst
    BY <1>1, <1>2, <2>1, <2>2
  <2>3. CASE src # dst
    <3> DEFINE w == RawPath(map, src, dst)
               N == Len(w) + 1
               T == {n \in 0 .. N : At(src, w, dst, n) \in within[n]}
    <3>1. w \in Seq(S) /\ N <= D(src, dst) /\ Walk(src, w, dst, adj)
      BY <1>5, <1>9, <2>3
    <3>2. Len(w) \in Nat
      BY <3>1, LenProperties
    <3> HIDE DEF w
    <3>3. N \in Nat /\ N \in 0 .. Far
      BY <1>3, <1>9, <2>1, <3>1, <3>2
    <3>4. 0 \in T
      BY <1>1, <3>3 DEF At
    <3>5. ASSUME NEW n \in 0 .. N, n \in T, n < N PROVE n + 1 \in T
      <4>1. /\ n \in 0 .. Len(w) /\ n + 1 \in 0 .. N /\ n + 1 \in 1 .. Far /\ (n + 1) - 1 = n
        BY <2>1, <3>2, <3>3, <3>5
      <4>2. <<At(src, w, dst, n), At(src, w, dst, n + 1)>> \in adj
        BY <3>1, <4>1 DEF Walk
      <4>3. within[n + 1] = Further(adj, within[n])
        BY <1>1, <4>1
      <4> QED BY <3>5, <4>1, <4>2, <4>3 DEF Further
    <3>6. N \in T
      <4> HIDE DEF T, N
      <4> QED BY <3>3, <3>4, <3>5, UpTo
    <3>7. At(src, w, dst, N) = dst
      BY <3>2 DEF At
    <3> QED BY <1>2, <2>1, <3>3, <3>6, <3>7
  <2> QED BY <2>2, <2>3
<1>10. ASSUME NEW dst \in S, dst \in within[Far] PROVE D(src, dst) < Far
  <2>1. Far - 1 \in 0 .. Far /\ Far \in Nat
    BY <1>2, FarIsNat
  <2>2. D(src, dst) <= Far - 1
    BY <1>2, <1>8, <1>10, <2>1
  <2> QED BY <1>3, <2>1, <2>2
<1> QED BY <1>8, <1>9, <1>10 DEF within, D

LEMMA PathListed ==
  ASSUME NEW S, NEW i \in S, NEW j \in S, NEW w \in Seq(S)
  PROVE  LET p == <<i>> \o w \o <<j>> IN
         /\ p \in Seq(S) /\ Len(p) = Len(w) + 2 /\ Len(w) \in Nat
         /\ \A x \in 1 .. Len(w) + 2 : p[x] = At(i, w, j, x - 1)
<1> DEFINE u == <<i>> \o w
           p == u \o <<j>>
           L == Len(w)
<1>0. L \in Nat
  BY LenProperties
<1>1. \A x \in S : <<x>> \in Seq(S) /\ Len(<<x>>) = 1 /\ <<x>>[1] = x
  OBVIOUS
<1>2. /\ u \in Seq(S) /\ Len(u) = 1 + L
      /\ \A x \in 1 .. 1 + L : u[x] = IF x <= 1 THEN <<i>>[x] ELSE w[x - 1]
  <2>1. <<i>> \in Seq(S) /\ Len(<<i>>) = 1
    BY <1>1
  <2>2. /\ u \in Seq(S) /\ Len(u) = Len(<<i>>) + Len(w)
        /\ \A x \in 1 .. Len(<<i>>) + Len(w) : u[x] =
             IF x <= Len(<<i>>) THEN <<i>>[x] ELSE w[x - Len(<<i>>)]
    BY <2>1, ConcatProperties, Zenon
  <2> QED BY <2>1, <2>2
<1> HIDE DEF u
<1>3. /\ p \in Seq(S) /\ Len(p) = 1 + L + 1
      /\ \A x \in 1 .. 1 + L + 1 : p[x] = IF x <= 1 + L THEN u[x] ELSE <<j>>[x - (1 + L)]
  <2>1. <<j>> \in Seq(S) /\ Len(<<j>>) = 1
    BY <1>1
  <2>2. /\ p \in Seq(S) /\ Len(p) = Len(u) + Len(<<j>>)
        /\ \A x \in 1 .. Len(u) + Len(<<j>>) : p[x] =
             IF x <= Len(u) THEN u[x] ELSE <<j>>[x - Len(u)]
    BY <1>2, <2>1, ConcatProperties, Zenon
  <2> QED BY <1>2, <2>1, <2>2
<1> HIDE DEF p
<1>4. ASSUME NEW x \in 1 .. L + 2 PROVE p[x] = At(i, w, j, x - 1)
  <2>1. CASE x = 1
    <3>1. x \in 1 .. 1 + L + 1 /\ x <= 1 + L /\ x <= 1 /\ x \in 1 .. 1 + L /\ x - 1 = 0
      BY <1>0, <2>1
    <3> QED BY <1>1, <1>2, <1>3, <2>1, <3>1 DEF At
  <2>2. CASE x = L + 2
    <3>1. /\ x \in 1 .. 1 + L + 1 /\ ~(x <= 1 + L) /\ x - (1 + L) = 1
          /\ x - 1 = L + 1 /\ x - 1 # 0
      BY <1>0, <2>2
    <3> QED BY <1>1, <1>3, <3>1 DEF At
  <2>3. CASE x \in 2 .. L + 1
    <3>1. /\ x \in 1 .. 1 + L + 1 /\ x <= 1 + L /\ x \in 1 .. 1 + L /\ ~(x <= 1)
          /\ x - 1 # L + 1 /\ x - 1 # 0
      BY <1>0, <2>3
    <3> QED BY <1>2, <1>3, <3>1 DEF At
  <2>4. x = 1 \/ x = L + 2 \/ x \in 2 .. L + 1
    BY <1>0
  <2> QED BY <2>1, <2>2, <2>3, <2>4
<1>5. Len(p) = L + 2
  BY <1>0, <1>3
<1> QED BY <1>0, <1>3, <1>4, <1>5 DEF p, u

\* With links among the connected switches, every path there is is right.
LEMMA PathsAreRight ==
  ASSUME Attached \subseteq known, known \in SUBSET Switches,
         links \subseteq Attached \X Attached
  PROVE  RightPaths
<1> DEFINE maps == Maps(links)
<1>1. links \in SUBSET (known \X known) /\ IsFiniteSet(known)
  <2>1. IsFiniteSet(Switches)
    BY SpanningTreeAssumption
  <2> QED BY <2>1, FS_Subset
<1>2. maps # {} /\ \A m \in maps : Plausible(m, links, known) /\ Settled(m, known, known)
  <2>1. Orders(known) # {}
    BY <1>1, OrderExists
  <2>2. ASSUME NEW o \in Orders(known)
        PROVE  Plausible(CalcPaths(links, o), links, known) /\ Settled(CalcPaths(links, o), known, known)
    BY CalcPathsOK
  <2> QED BY <2>1, <2>2 DEF Maps
<1> HIDE DEF maps
<1> SUFFICES ASSUME NEW src \in Attached, NEW dst \in known
             PROVE  LET reach == Reach(links, src) IN
                    /\ dst \in reach[Far] <=> Paths(maps, src, dst) # {}
                    /\ \A p \in Paths(maps, src, dst) :
                         /\ p \in Seq(Attached) /\ p[1] = src /\ p[Len(p)] = dst
                         /\ \A i \in 1 .. Len(p) - 1 : <<p[i], p[i + 1]>> \in links
                         /\ \A k \in 0 .. Far : dst \in reach[k] => Len(p) - 1 <= k
  BY DEF RightPaths, maps
<1> DEFINE reach == Reach(links, src)
<1>3. ASSUME NEW m \in maps
      PROVE  /\ \A k \in 0 .. Far : dst \in reach[k] => m[src, dst].dist <= k
             /\ dst \in reach[Far] <=> m[src, dst].dist < Far
  <2>1. Plausible(m, links, known) /\ Settled(m, known, known) /\ src \in known
    BY <1>2
  <2> QED BY <1>1, <2>1, DistancesRight
<1> HIDE DEF reach
<1>4. dst \in reach[Far] <=> Paths(maps, src, dst) # {}
  BY <1>2, <1>3 DEF Paths
<1>5. ASSUME NEW p \in Paths(maps, src, dst)
      PROVE  /\ p \in Seq(Attached) /\ p[1] = src /\ p[Len(p)] = dst
             /\ \A i \in 1 .. Len(p) - 1 : <<p[i], p[i + 1]>> \in links
             /\ \A k \in 0 .. Far : dst \in reach[k] => Len(p) - 1 <= k
  <2>1. PICK m \in maps : /\ m[src, dst].dist < Far
                          /\ p = IF src = dst THEN <<src>>
                                 ELSE <<src>> \o RawPath(m, src, dst) \o <<dst>>
    BY DEF Paths
  <2>2. CASE src = dst
    <3>0. p = <<src>>
      BY <2>1, <2>2
    <3>1. p \in Seq(Attached) /\ Len(p) = 1 /\ p[1] = src
      BY <3>0
    <3>2. 1 .. Len(p) - 1 = {} /\ \A k \in 0 .. Far : Len(p) - 1 <= k
      BY <3>1, FarIsNat
    <3> QED BY <2>2, <3>1, <3>2
  <2>3. CASE src # dst
    <3> DEFINE w == RawPath(m, src, dst)
               L == Len(w)
               d == m[src, dst].dist
    <3>1. p = <<src>> \o w \o <<dst>>
      BY <2>1, <2>3
    <3>2. w \in Seq(known) /\ L + 1 <= d /\ Walk(src, w, dst, links)
      <4>1. Plausible(m, links, known) /\ src \in known
        BY <1>2
      <4> QED BY <2>1, <2>3, <4>1, RawPathOK
    <3>3. d \in Nat /\ \A k \in 0 .. Far : dst \in reach[k] => d <= k
      <4>1. Plausible(m, links, known) /\ src \in known
        BY <1>2
      <4>2. m[src, dst].dist \in Nat
        BY <4>1, EntryOK
      <4> QED BY <1>3, <4>2
    <3> HIDE DEF w, d
    <3>4. /\ p \in Seq(known) /\ Len(p) = L + 2 /\ L \in Nat
          /\ \A x \in 1 .. L + 2 : p[x] = At(src, w, dst, x - 1)
      <4>1. src \in known
        OBVIOUS
      <4> QED BY <3>1, <3>2, <4>1, PathListed
    <3> HIDE DEF L
    <3>5. \A n \in 0 .. L : <<At(src, w, dst, n), At(src, w, dst, n + 1)>> \in links
      BY <3>2 DEF Walk, L
    <3>6. ASSUME NEW i \in 1 .. Len(p) - 1 PROVE <<p[i], p[i + 1]>> \in links
      <4>1. i - 1 \in 0 .. L /\ (i - 1) + 1 = i /\ i \in 1 .. L + 2 /\ i + 1 \in 1 .. L + 2
            /\ (i + 1) - 1 = i
        BY <3>4
      <4>2. p[i] = At(src, w, dst, i - 1) /\ p[i + 1] = At(src, w, dst, i)
        BY <3>4, <4>1
      <4> QED BY <3>5, <4>1, <4>2
    <3>7. p[1] = src /\ p[Len(p)] = dst
      <4>1. 1 \in 1 .. L + 2 /\ L + 2 \in 1 .. L + 2 /\ 1 - 1 = 0 /\ (L + 2) - 1 = L + 1 /\ L + 1 # 0
        BY <3>4
      <4> QED BY <3>4, <4>1 DEF At, L
    <3>8. ASSUME NEW x \in 1 .. Len(p) PROVE p[x] \in Attached
      <4>1. CASE x = Len(p)
        <5>1. x - 1 \in 1 .. Len(p) - 1 /\ (x - 1) + 1 = x
          BY <3>4, <4>1
        <5>2. <<p[x - 1], p[x]>> \in links
          BY <3>6, <5>1
        <5> QED BY <5>2
      <4>2. CASE x # Len(p)
        <5>1. x \in 1 .. Len(p) - 1
          BY <3>4, <4>2
        <5>2. <<p[x], p[x + 1]>> \in links
          BY <3>6, <5>1
        <5> QED BY <5>2
      <4> QED BY <4>1, <4>2
    <3>9. p \in Seq(Attached)
      <4>1. Len(p) \in Nat /\ p \in [1 .. Len(p) -> known]
        BY <3>4, LenProperties
      <4> QED BY <3>8, <4>1
    <3>10. ASSUME NEW k \in 0 .. Far, dst \in reach[k] PROVE Len(p) - 1 <= k
      BY <3>2, <3>3, <3>4, <3>10, FarIsNat DEF L
    <3> QED BY <3>6, <3>7, <3>9, <3>10
  <2> QED BY <2>2, <2>3
<1> QED BY <1>4, <1>5 DEF reach

-----------------------------------------------------------------------------
(* l2_multi on the same discovery.                                         *)

Both(adj) == {l \in adj : Flip(l) \in adj}

\* The links of l2_multi are discovery's, its paths were computed from them, and
\* it has met every switch that has a session.
L2Links == /\ LinksFollow /\ pathsOf \in {None, links} /\ DOMAIN flows = Switches
           /\ Attached \subseteq known /\ known \subseteq Switches

L2Inv == IInv /\ L2Links

LEMMA FlipProperties ==
  ASSUME NEW S, NEW l \in S \X S
  PROVE  Flip(l) \in S \X S /\ Flip(Flip(l)) = l /\ l = <<l[1], l[2]>>
BY DEF Flip

\* Each end of a link seen both ways sent one of the probes.
LEMMA LinksOfAttached ==
  ASSUME L2Inv
  PROVE  /\ Attached \subseteq known /\ known \in SUBSET Switches
         /\ links \subseteq Attached \X Attached
<1>1. ASSUME NEW l \in links PROVE l \in Attached \X Attached
  <2>1. l \in adjacency /\ Flip(l) \in adjacency
    BY DEF L2Inv, L2Links, LinksFollow
  <2>2. l \in Switches \X Switches /\ latest[l[1]] # "none"
    BY <2>1 DEF L2Inv, IInv, Cabled, Live
  <2>3. latest[Flip(l)[1]] # "none" /\ Flip(l)[1] = l[2]
    BY <2>1 DEF L2Inv, IInv, Live, Flip
  <2> QED BY <2>2, <2>3 DEF Attached
<1> QED BY <1>1 DEF L2Inv, L2Links

\* l2_multi adds nothing to what discovery and the spanning tree do.
LEMMA L2Step == [L2Next]_<<vars, l2vars>> => [Next]_vars
BY DEF L2Next, Next

\* So everything shown of discovery and the spanning tree holds beside it.
THEOREM L2KeepsTree == L2Spec => Spec
BY L2Step, PTL DEF L2Spec, L2Init, Spec

LEMMA L2InitOK == L2Init => L2Inv /\ FlowsFollow
BY InitFaithful DEF L2Init, L2Inv, L2Links, LinksFollow, FlowsFollow, Init, Attached

\* Removal: with a direction gone the link is no longer one of l2_multi's.
LEMMA RemovedOK ==
  ASSUME L2Inv, NEW gone \in SUBSET adjacency, adjacency' = adjacency \ gone,
         Attached' \subseteq Attached, \A d \in Switches : latest'[d] = "up" => latest[d] = "up",
         Removed(gone)
  PROVE  L2Links' /\ (FlowsFollow => FlowsFollow')
<1>1. CASE gone = {}
  BY <1>1 DEF Removed, L2Inv, L2Links, LinksFollow, FlowsFollow, l2vars
<1>2. CASE gone # {}
  <2>1. /\ links' = links \ (gone \cup {Flip(l) : l \in gone}) /\ pathsOf' = None
        /\ flows' = [d \in Switches |-> IF latest'[d] = "up" THEN {} ELSE flows[d]]
    BY <1>2 DEF Removed, Clear
  <2>2. \A l \in adjacency : Flip(Flip(l)) = l
    BY FlipProperties DEF L2Inv, IInv, Cabled
  <2>3. links' = Both(adjacency')
    <3>1. ASSUME NEW l \in Both(adjacency')
          PROVE  l \in links /\ l \notin gone \cup {Flip(x) : x \in gone}
      BY <2>2 DEF Both, L2Inv, L2Links, LinksFollow
    <3>2. ASSUME NEW l \in links, l \notin gone \cup {Flip(x) : x \in gone}
          PROVE  l \in Both(adjacency')
      BY <2>2, <3>2 DEF Both, L2Inv, L2Links, LinksFollow
    <3> QED BY <2>1, <3>1, <3>2
  <2>4. Attached' \subseteq known' /\ known' \subseteq Switches
    BY <1>2 DEF Removed, L2Inv, L2Links
  <2> QED BY <2>1, <2>3, <2>4 DEF L2Links, LinksFollow, FlowsFollow, Both
<1> QED BY <1>1, <1>2

\* A new direction makes a link when the other one is known.
LEMMA AddedOK ==
  ASSUME L2Inv, NEW d \in Switches, NEW e \in Switches,
         adjacency' = adjacency \cup {<<d, e>>}, latest' = latest, Added(<<d, e>>)
  PROVE  L2Links' /\ FlowsFollow'
<1> DEFINE new == <<d, e>>
<1>1. /\ links' = IF new \notin links /\ Flip(new) \in adjacency' THEN links \cup {new, Flip(new)}
                  ELSE links
      /\ pathsOf' = None
      /\ flows' = [x \in Switches |-> IF latest'[x] = "up" THEN {} ELSE flows[x]]
  BY DEF Added, Clear
<1>2. Flip(new) = <<e, d>> /\ Flip(Flip(new)) = new
  BY DEF Flip
<1>3. \A l \in adjacency : Flip(Flip(l)) = l
  BY FlipProperties DEF L2Inv, IInv, Cabled
<1>4. \A l \in adjacency : Flip(l) = new <=> l = Flip(new)
  BY <1>2, <1>3
<1> HIDE DEF new
<1>5. adjacency' = adjacency \cup {new} /\ links = Both(adjacency)
  BY DEF new, Both, L2Inv, L2Links, LinksFollow
<1>6. links' = Both(adjacency')
  <2>1. CASE Flip(new) \in adjacency'
    BY <1>1, <1>2, <1>4, <1>5, <2>1 DEF Both
  <2>2. CASE Flip(new) \notin adjacency'
    BY <1>1, <1>2, <1>4, <1>5, <2>2 DEF Both
  <2> QED BY <2>1, <2>2
<1>7. Attached' \subseteq known' /\ known' \subseteq Switches
  BY DEF Added, L2Inv, L2Links, Attached
<1> QED BY <1>1, <1>6, <1>7 DEF L2Links, LinksFollow, FlowsFollow, Both

LEMMA InstallPathLinks ==
  ASSUME L2Inv, NEW src, NEW dst, InstallPath(src, dst), UNCHANGED vars
  PROVE  L2Links'
<1>1. /\ links' = links /\ adjacency' = adjacency /\ DOMAIN flows' = Switches
      /\ known' = known /\ Attached' = Attached
  BY DEF InstallPath, vars, Attached
<1>2. pathsOf' \in {None, links'}
  BY <1>1 DEF InstallPath, L2Inv, L2Links
<1> QED BY <1>1, <1>2 DEF L2Inv, L2Links, LinksFollow

\* A path is installed along links, there and back.
LEMMA InstallPathFlows ==
  ASSUME L2Inv, RightPaths, FlowsFollow,
         NEW src \in Switches, NEW dst, InstallPath(src, dst), UNCHANGED vars
  PROVE  FlowsFollow'
<1>1. /\ src \in Attached /\ dst \in known
      /\ links' = links /\ latest' = latest
  BY DEF InstallPath, vars, Attached
<1> DEFINE adj == IF pathsOf = None THEN links ELSE pathsOf
<1>2. adj = links
  BY DEF L2Inv, L2Links
<1>3. PICK p \in Paths(Maps(adj), src, dst) :
        LET gone  == {i \in DOMAIN p : latest[p[i]] = "none"}
            there == {i \in DOMAIN p : latest[p[i]] = "up" /\ \A j \in gone : i < j}
        IN  flows' = [d \in Switches |-> flows[d] \cup
              {p[i + 1] : i \in {j \in there \ {Len(p)} : p[j] = d}} \cup
              {p[i - 1] : i \in {j \in there \ {1} : p[j] = d /\ gone = {}}}]
  BY DEF InstallPath
<1>4. DOMAIN p = 1 .. Len(p) /\ Len(p) \in Nat
  <2>1. p \in Seq(Attached)
    BY <1>1, <1>2, <1>3 DEF RightPaths
  <2> QED BY <2>1
<1>5. \A i \in 1 .. Len(p) - 1 : <<p[i], p[i + 1]>> \in links
  BY <1>1, <1>2, <1>3 DEF RightPaths
<1>6. \A a, b : <<a, b>> \in links => <<b, a>> \in links
  BY DEF L2Inv, L2Links, LinksFollow, Flip
<1>7. ASSUME NEW d \in Switches, latest[d] = "up", NEW e \in flows'[d] PROVE <<d, e>> \in links
  <2>2. \/ e \in flows[d]
        \/ \E i \in 1 .. Len(p) \ {Len(p)} : p[i] = d /\ e = p[i + 1]
        \/ \E i \in 1 .. Len(p) \ {1} : p[i] = d /\ e = p[i - 1]
    BY <1>3, <1>4, <1>7
  <2>3. CASE e \in flows[d]
    BY <1>7, <2>3 DEF FlowsFollow
  <2>4. ASSUME NEW i \in 1 .. Len(p) \ {Len(p)}, p[i] = d /\ e = p[i + 1] PROVE <<d, e>> \in links
    <3>1. i \in 1 .. Len(p) /\ i # Len(p) /\ Len(p) \in Nat
      BY <1>4, <2>4
    <3>2. i \in 1 .. Len(p) - 1
      BY <3>1
    <3> QED BY <1>5, <2>4, <3>2
  <2>5. ASSUME NEW i \in 1 .. Len(p) \ {1}, p[i] = d /\ e = p[i - 1] PROVE <<d, e>> \in links
    <3>1. i - 1 \in 1 .. Len(p) - 1 /\ (i - 1) + 1 = i
      BY <1>4
    <3> QED BY <1>5, <1>6, <2>5, <3>1
  <2> QED BY <2>2, <2>3, <2>4, <2>5
<1> QED BY <1>1, <1>7 DEF FlowsFollow

LEMMA L2StepOK ==
  L2Inv /\ [L2Next]_<<vars, l2vars>> => L2Inv' /\ (RightPaths /\ FlowsFollow => FlowsFollow')
<1> DEFINE Kept == L2Links' /\ (RightPaths /\ FlowsFollow => FlowsFollow')
<1> SUFFICES ASSUME L2Inv, [L2Next]_<<vars, l2vars>> PROVE IInv' /\ Kept
  BY DEF L2Inv
<1>0. IInv'
  BY L2Step, StepFaithful DEF L2Inv
<1>1. ASSUME NEW d \in Switches, ConnectionUp(d), Connected(d) PROVE Kept
  <2>1. /\ UNCHANGED <<adjacency, links, pathsOf>> /\ latest' = [latest EXCEPT ![d] = "up"]
        /\ known' = known \cup {d}
    BY <1>1 DEF ConnectionUp, Connected
  <2>2. PICK rest \in IF latest[d] = "up" THEN SUBSET flows[d] ELSE {{}} :
          flows' = [flows EXCEPT ![d] = rest]
    BY <1>1 DEF Connected
  <2>3. DOMAIN latest = Switches /\ DOMAIN flows = Switches
    BY DEF L2Inv, IInv, Sessions, L2Links
  <2>4. ASSUME FlowsFollow, NEW x \in Switches, latest'[x] = "up", NEW e \in flows'[x]
        PROVE  <<x, e>> \in links'
    <3>1. latest[x] = "up" /\ e \in flows[x]
      BY <2>1, <2>2, <2>3, <2>4
    <3> QED BY <2>1, <2>4, <3>1 DEF FlowsFollow
  <2>5. Attached' \subseteq known' /\ known' \subseteq Switches /\ DOMAIN flows' = Switches
    BY <2>1, <2>2, <2>3 DEF L2Inv, L2Links, Attached
  <2> QED BY <2>1, <2>4, <2>5 DEF L2Inv, L2Links, LinksFollow, FlowsFollow
<1>2. ASSUME NEW d \in Switches, ConnectionDown(d),
             Removed({l \in adjacency : d \in {l[1], l[2]}}) PROVE Kept
  <2>1. /\ adjacency' = adjacency \ {l \in adjacency : d \in {l[1], l[2]}}
        /\ \A x \in Switches : latest'[x] # "none" => latest'[x] = latest[x]
    BY <1>2 DEF ConnectionDown, DeleteLinks, L2Inv, IInv, Sessions
  <2>2. Attached' \subseteq Attached /\ \A x \in Switches : latest'[x] = "up" => latest[x] = "up"
    BY <2>1 DEF Attached
  <2> QED BY <1>2, <2>1, <2>2, RemovedOK
<1>3. ASSUME NEW gone \in SUBSET adjacency, ExpireLinks(gone), Removed(gone) PROVE Kept
  <2>1. latest' = latest /\ Attached' = Attached /\ adjacency' = adjacency \ gone
    BY <1>3 DEF ExpireLinks, DeleteLinks, sessions, Attached
  <2> QED BY <1>3, <2>1, RemovedOK
<1>4. ASSUME NEW d \in Switches, NEW e \in Switches, LLDPArrives(d, e), Added(<<d, e>>) PROVE Kept
  BY <1>4, AddedOK DEF LLDPArrives, sessions
<1>5. ASSUME NEW a \in Asked, InstallPath(a[1], a[2]), UNCHANGED vars PROVE Kept
  <2>1. a[1] \in Switches
    BY L2MultiAssumption
  <2> QED BY <1>5, <2>1, InstallPathLinks, InstallPathFlows
<1>6. ASSUME NEW d \in Switches, Expires(d), UNCHANGED vars PROVE Kept
  BY <1>6 DEF Expires, vars, L2Inv, L2Links, LinksFollow, FlowsFollow, Attached
<1>7. ASSUME NEW d \in Switches, SendFails(d), UNCHANGED l2vars PROVE Kept
  <2>1. /\ adjacency' = adjacency
        /\ \A x \in Switches : /\ latest'[x] = "up" => latest[x] = "up"
                               /\ latest'[x] # "none" => latest[x] # "none"
    BY <1>7 DEF SendFails, L2Inv, IInv, Sessions
  <2>2. Attached' \subseteq Attached
    BY <2>1 DEF Attached
  <2> QED BY <1>7, <2>1, <2>2 DEF l2vars, L2Inv, L2Links, LinksFollow, FlowsFollow
<1>8. ASSUME UNCHANGED <<adjacency, latest>>, UNCHANGED l2vars PROVE Kept
  BY <1>8 DEF l2vars, L2Inv, L2Links, LinksFollow, FlowsFollow, Attached
<1> HIDE DEF Kept
<1> QED
  BY <1>0, <1>1, <1>2, <1>3, <1>4, <1>5, <1>6, <1>7, <1>8
  DEF L2Next, HoldDownOver, CableFails, CableReturns, vars, sessions

\* l2_multi's links are those discovery has seen both ways, in every network and
\* in whatever order events, expiries and disconnections come.
THEOREM L2LinksFollow == L2Spec => []LinksFollow
<1>1. L2Inv => LinksFollow
  BY DEF L2Inv, L2Links
<1> QED BY <1>1, L2InitOK, L2StepOK, PTL DEF L2Spec

\* Every path computed is a shortest walk over switches that have a session, and
\* there is one wherever a walk leads, in whatever order the dictionary lists them.
THEOREM L2RightPaths == L2Spec => []RightPaths
<1>1. L2Inv => RightPaths
  BY LinksOfAttached, PathsAreRight
<1> QED BY <1>1, L2InitOK, L2StepOK, PTL DEF L2Spec

\* No flow outlives its link.
THEOREM L2FlowsFollow == L2Spec => []FlowsFollow
<1>1. L2Inv => RightPaths
  BY LinksOfAttached, PathsAreRight
<1> QED BY <1>1, L2InitOK, L2StepOK, PTL DEF L2Spec
-----------------------------------------------------------------------------
(* _calc_spanning_tree: no loop among the ports of the tree, every switch   *)
(* with a link seen both ways is in it, and what that means while a network *)
(* starts up.                                                               *)

\* A set of port numbers in ascending order: all of them, none twice.
LEMMA SortedLists ==
  ASSUME NEW S, IsFiniteSet(S), S \subseteq Nat
  PROVE  /\ Sorted(S) \in Seq(S) /\ Len(Sorted(S)) = Cardinality(S) /\ Cardinality(S) \in Nat
         /\ \A x \in S : \E i \in 1 .. Len(Sorted(S)) : Sorted(S)[i] = x
<1> DEFINE N == Cardinality(S)
           Below(x) == {y \in S : y < x}
           rank == [x \in S |-> Cardinality(Below(x)) + 1]
<1>1. N \in Nat
  BY FS_CardinalityType
<1>2. ASSUME NEW x \in S
      PROVE  /\ IsFiniteSet(Below(x)) /\ Cardinality(Below(x)) \in Nat
             /\ Cardinality(Below(x)) + 1 <= N
  <2>1. IsFiniteSet(Below(x)) /\ IsFiniteSet(Below(x) \cup {x})
    <3>1. Below(x) \in SUBSET S /\ Below(x) \cup {x} \in SUBSET S
      OBVIOUS
    <3> QED BY <3>1, FS_Subset
  <2>2. Cardinality(Below(x)) \in Nat
    BY <2>1, FS_CardinalityType
  <2>3. x \notin Below(x)
    <3>1. x \in Nat
      OBVIOUS
    <3> QED BY <3>1
  <2>4. Cardinality(Below(x) \cup {x}) = Cardinality(Below(x)) + 1
    BY <2>1, <2>3, FS_AddElement
  <2>5. Cardinality(Below(x) \cup {x}) <= N
    <3>1. Below(x) \cup {x} \in SUBSET S
      OBVIOUS
    <3> QED BY <3>1, FS_Subset
  <2> QED BY <2>1, <2>2, <2>4, <2>5
<1>3. ASSUME NEW x \in S, NEW z \in S, x < z PROVE Cardinality(Below(x)) < Cardinality(Below(z))
  <2>1. x \in Nat /\ z \in Nat
    OBVIOUS
  <2>2. x \notin Below(x) /\ Below(x) \cup {x} \in SUBSET Below(z)
    <3>1. \A y \in S : y \in Nat
      OBVIOUS
    <3>2. \A y \in S : y < x => y < z
      BY <1>3, <2>1, <3>1
    <3>3. ~(x < x)
      BY <2>1
    <3> QED BY <1>3, <3>2, <3>3
  <2>3. Cardinality(Below(x) \cup {x}) = Cardinality(Below(x)) + 1
    BY <1>2, <2>2, FS_AddElement
  <2>4. Cardinality(Below(x) \cup {x}) <= Cardinality(Below(z))
    BY <1>2, <2>2, FS_Subset
  <2> QED BY <1>2, <2>3, <2>4
<1>4. rank \in Injection(S, 1 .. N)
  <2>1. rank \in [S -> 1 .. N]
    <3>1. ASSUME NEW x \in S PROVE Cardinality(Below(x)) + 1 \in 1 .. N
      BY <1>1, <1>2
    <3> QED BY <3>1
  <2>2. ASSUME NEW x \in S, NEW z \in S, rank[x] = rank[z] PROVE x = z
    <3>1. x \in Nat /\ z \in Nat
      OBVIOUS
    <3>2. Cardinality(Below(x)) = Cardinality(Below(z))
      BY <1>2, <2>2
    <3>3. ~(x < z) /\ ~(z < x)
      BY <1>2, <1>3, <3>2
    <3> QED BY <3>1, <3>3
  <2> HIDE DEF rank
  <2>3. IsInjective(rank)
    BY <2>1, <2>2 DEF IsInjective
  <2> QED BY <2>1, <2>3 DEF Injection
<1>5. rank \in Surjection(S, 1 .. N)
  <2>1. IsFiniteSet(1 .. N) /\ Cardinality(1 .. N) = N
    BY <1>1, FS_Interval
  <2> HIDE DEF rank
  <2> QED BY <1>4, <2>1, FS_Injection
<1>6. ASSUME NEW i \in 1 .. N
      PROVE  Sorted(S)[i] \in S /\ Cardinality(Below(Sorted(S)[i])) = i - 1
  <2>1. PICK x \in S : rank[x] = i
    BY <1>5 DEF Surjection
  <2>2. Cardinality(Below(x)) = i - 1
    BY <1>2, <2>1
  <2>3. Sorted(S)[i] = CHOOSE y \in S : Cardinality(Below(y)) = i - 1
    BY DEF Sorted
  <2> HIDE DEF Below
  <2> QED BY <2>2, <2>3
<1>7. Sorted(S) = [i \in 1 .. N |-> Sorted(S)[i]]
  BY DEF Sorted
<1>8. Sorted(S) \in Seq(S) /\ Len(Sorted(S)) = N
  <2>1. Sorted(S) \in [1 .. N -> S]
    BY <1>6, <1>7
  <2> QED BY <1>1, <2>1
<1>9. ASSUME NEW x \in S PROVE \E i \in 1 .. N : Sorted(S)[i] = x
  <2>1. rank[x] \in 1 .. N /\ rank[x] - 1 = Cardinality(Below(x))
    <3> DEFINE k == Cardinality(Below(x))
    <3>1. rank[x] = k + 1 /\ k \in Nat /\ k + 1 <= N
      BY <1>2
    <3> HIDE DEF k, rank, N
    <3>2. rank[x] \in 1 .. N /\ rank[x] - 1 = k
      BY <1>1, <3>1
    <3> QED BY <3>2 DEF k
  <2> DEFINE y == Sorted(S)[rank[x]]
  <2>2. y \in S /\ Cardinality(Below(y)) = Cardinality(Below(x))
    BY <1>6, <2>1
  <2>3. x \in Nat /\ y \in Nat
    BY <2>2
  <2> HIDE DEF y, Below
  <2>4. ~(x < y) /\ ~(y < x)
    BY <1>2, <1>3, <2>2
  <2>5. x = y
    BY <2>3, <2>4
  <2> QED BY <2>1, <2>5 DEF y
<1> QED BY <1>1, <1>8, <1>9

\* Directions to pass along the edges of T, and what keeps itself going on them.
Ways(T) == {s \in Switches \X Switches : s[1] # s[2] /\ {s[1], s[2]} \in T}
Sustained(soup) == \A s \in soup : \E r \in soup : r[2] = s[1] /\ r[1] # s[2]
NoLoop(W) == \A soup \in SUBSET W : Sustained(soup) => soup = {}
Forest(T) == NoLoop(Ways(T))

\* Leaves hung on one switch make no loop.
LEMMA LeavesMakeNoLoop ==
  ASSUME NEW T, Forest(T), NEW v \in Switches, NEW M, v \notin M, M \cap UNION T = {}
  PROVE  Forest(T \cup {{v, w} : w \in M})
<1> DEFINE new == T \cup {{v, w} : w \in M}
<1> SUFFICES ASSUME NEW soup \in SUBSET Ways(new), Sustained(soup) PROVE soup = {}
  BY DEF Forest, NoLoop
<1>1. \A s \in soup : /\ s[1] # s[2] /\ {s[1], s[2]} \in new /\ s \in Switches \X Switches
                      /\ s = <<s[1], s[2]>>
  BY DEF Ways
<1>2. ASSUME NEW s \in soup, {s[1], s[2]} \notin T
      PROVE  (s[1] = v /\ s[2] \in M) \/ (s[2] = v /\ s[1] \in M)
  <2>1. PICK w \in M : {s[1], s[2]} = {v, w}
    BY <1>1, <1>2
  <2> QED BY <1>1, <2>1
\* nothing comes back from a leaf
<1>3. ASSUME NEW s \in soup PROVE s[1] \notin M
  <2>1. SUFFICES ASSUME s[1] \in M PROVE FALSE
    OBVIOUS
  <2>2. PICK r \in soup : r[2] = s[1] /\ r[1] # s[2]
    BY DEF Sustained
  <2>3. \A x \in soup : x[1] \in M \/ x[2] \in M => {x[1], x[2]} \notin T
    OBVIOUS
  <2>4. s[2] = v
    BY <1>2, <2>1, <2>3
  <2>5. r[1] = v
    BY <1>2, <2>1, <2>2, <2>3
  <2> QED BY <2>2, <2>4, <2>5
<1> DEFINE old == {s \in soup : {s[1], s[2]} \in T}
<1>4. old = {}
  <2>1. old \in SUBSET Ways(T)
    BY <1>1 DEF Ways
  <2>2. ASSUME NEW s \in old PROVE \E r \in old : r[2] = s[1] /\ r[1] # s[2]
    <3>1. PICK r \in soup : r[2] = s[1] /\ r[1] # s[2]
      BY DEF Sustained
    <3>2. s[1] \in UNION T
      OBVIOUS
    <3>3. r[2] \notin M /\ r[1] \notin M
      BY <1>3, <3>1, <3>2
    <3>4. {r[1], r[2]} \in T
      BY <1>2, <3>3
    <3> QED BY <3>1, <3>4
  <2> QED BY <2>1, <2>2 DEF Forest, NoLoop, Sustained
<1>5. ASSUME NEW s \in soup PROVE FALSE
  <2>1. PICK r \in soup : r[2] = s[1]
    BY DEF Sustained
  <2>2. {s[1], s[2]} \notin T /\ {r[1], r[2]} \notin T
    BY <1>4
  <2>3. s[1] = v /\ r[2] \in M
    BY <1>2, <1>3, <2>2
  <2> QED BY <2>1, <2>3
<1> QED BY <1>5

LEMMA MembersJoin ==
  ASSUME NEW S, NEW s \in Seq(S), NEW t \in Seq(S)
  PROVE  ToSet(s) \cup ToSet(t) \subseteq ToSet(s \o t)
<1>1. /\ Len(s) \in Nat /\ Len(t) \in Nat /\ DOMAIN s = 1 .. Len(s) /\ DOMAIN t = 1 .. Len(t)
  BY LenProperties
<1>2. /\ s \o t \in Seq(S) /\ Len(s \o t) = Len(s) + Len(t)
      /\ \A i \in 1 .. Len(s) + Len(t) : (s \o t)[i] =
           IF i <= Len(s) THEN s[i] ELSE t[i - Len(s)]
  BY ConcatProperties
<1>3. DOMAIN (s \o t) = 1 .. Len(s) + Len(t)
  BY <1>2, LenProperties
<1> DEFINE u == s \o t
           a == Len(s)
           b == Len(t)
<1> HIDE DEF u, a, b
<1>4. ASSUME NEW i \in 1 .. a PROVE s[i] \in ToSet(u)
  <2>1. i \in 1 .. a + b /\ i <= a
    BY <1>1 DEF a, b
  <2>2. u[i] = s[i] /\ i \in DOMAIN u
    BY <1>2, <1>3, <2>1 DEF u, a, b
  <2> QED BY <2>2 DEF ToSet
<1>5. ASSUME NEW i \in 1 .. b PROVE t[i] \in ToSet(u)
  <2>1. a + i \in 1 .. a + b /\ ~(a + i <= a) /\ (a + i) - a = i
    BY <1>1 DEF a, b
  <2>2. u[a + i] = t[i] /\ a + i \in DOMAIN u
    BY <1>2, <1>3, <2>1 DEF u, a, b
  <2> QED BY <2>2 DEF ToSet
<1> QED BY <1>1, <1>4, <1>5 DEF ToSet, u, a, b

LEMMA MembersOfTail ==
  ASSUME NEW S, NEW s \in Seq(S), s # <<>>
  PROVE  /\ Head(s) \in S /\ Tail(s) \in Seq(S) /\ Len(s) \in Nat /\ Len(Tail(s)) + 1 = Len(s)
         /\ ToSet(s) \subseteq {Head(s)} \cup ToSet(Tail(s))
<1>1. /\ Len(s) \in Nat \ {0} /\ DOMAIN s = 1 .. Len(s)
  BY EmptySeq, LenProperties
<1>2. /\ Head(s) \in S /\ Tail(s) \in Seq(S) /\ Len(Tail(s)) = Len(s) - 1
      /\ \A i \in 1 .. Len(Tail(s)) : Tail(s)[i] = s[i + 1]
  BY HeadTailProperties
<1>3. DOMAIN Tail(s) = 1 .. Len(s) - 1
  BY <1>2, LenProperties
<1>4. ASSUME NEW i \in 1 .. Len(s) PROVE s[i] \in {Head(s)} \cup ToSet(Tail(s))
  <2>1. CASE i = 1
    <3>1. s[i] = Head(s)
      BY <2>1
    <3> QED BY <3>1
  <2>2. CASE i # 1
    <3>1. i - 1 \in 1 .. Len(s) - 1 /\ (i - 1) + 1 = i
      BY <1>1, <2>2
    <3>2. Tail(s)[i - 1] = s[i] /\ i - 1 \in DOMAIN Tail(s)
      BY <1>2, <1>3, <3>1
    <3> QED BY <3>2 DEF ToSet
  <2> QED BY <2>1, <2>2
<1> QED BY <1>1, <1>2, <1>4 DEF ToSet

\* What discovery has: links between different switches.
Plain(adj) == \A l \in adj : l \in Switches \X Switches /\ l[1] # l[2]

\* The loop over q: no loop in the tree so far; who was passed has all its
\* neighbours in it, who is known was passed or is still in q, and who is in the
\* tree has a link seen both ways.
Sound(adj, c) ==
  /\ c \in [q : Seq(Switches), done : SUBSET Switches, tree : SUBSET SUBSET Switches]
  /\ Forest(c.tree)
  /\ Known(adj) \subseteq c.done \cup ToSet(c.q)
  /\ \A v \in c.done : Good(adj, v) \subseteq UNION c.tree
  /\ \A v \in UNION c.tree : Good(adj, v) # {}

Left(c) == Len(c.q) + Cardinality(Switches \ UNION c.tree)

LEMMA RoundOK ==
  ASSUME NEW adj, Plain(adj), NEW c, Sound(adj, c)
  PROVE  /\ Sound(adj, Round(adj, c))
         /\ IF c.q = <<>> THEN Round(adj, c) = c
            ELSE Left(c) \in Nat /\ Left(Round(adj, c)) \in Nat /\ Left(Round(adj, c)) < Left(c)
<1> DEFINE new == Round(adj, c)
           rest == Tail(c.q)
           v == Head(c.q)
           more == {w \in Good(adj, v) : w \notin UNION c.tree}
           U == Switches \ UNION c.tree
<1>1. /\ c.q \in Seq(Switches) /\ c.done \in SUBSET Switches /\ c.tree \in SUBSET SUBSET Switches
      /\ c = [q |-> c.q, done |-> c.done, tree |-> c.tree]
  BY DEF Sound
<1>2. IsFiniteSet(Switches) /\ Switches \subseteq Nat
  BY SpanningTreeAssumption
<1>3. IsFiniteSet(U) /\ Cardinality(U) \in Nat
  <2>1. IsFiniteSet(U)
    BY <1>2, FS_Subset
  <2> QED BY <2>1, FS_CardinalityType
<1>4. CASE c.q = <<>>
  <2>1. new = c
    BY <1>4 DEF Round
  <2> QED BY <1>4, <2>1
<1>5. ASSUME c.q # <<>>
      PROVE  /\ v \in Switches /\ rest \in Seq(Switches) /\ Len(c.q) \in Nat /\ Len(rest) + 1 = Len(c.q)
             /\ Len(rest) \in Nat /\ ToSet(c.q) \subseteq {v} \cup ToSet(rest)
  <2>1. /\ v \in Switches /\ rest \in Seq(Switches) /\ Len(c.q) \in Nat /\ Len(rest) + 1 = Len(c.q)
        /\ ToSet(c.q) \subseteq {v} \cup ToSet(rest)
    BY <1>1, <1>5, MembersOfTail
  <2>2. Len(rest) \in Nat
    BY <2>1, LenProperties
  <2> QED BY <2>1, <2>2
<1>6. CASE c.q # <<>> /\ v \in c.done
  <2>1. new.q = rest /\ new.done = c.done /\ new.tree = c.tree /\ new = [q |-> rest, done |-> c.done, tree |-> c.tree]
    <3>1. new = [c EXCEPT !.q = rest]
      BY <1>6 DEF Round
    <3> QED BY <1>1, <3>1
  <2> HIDE DEF rest, v, new
  <2>2. Sound(adj, new)
    BY <1>1, <1>5, <1>6, <2>1 DEF Sound
  <2>3. Left(c) \in Nat /\ Left(new) \in Nat /\ Left(new) < Left(c)
    <3>1. Left(c) = Len(c.q) + Cardinality(U) /\ Left(new) = Len(rest) + Cardinality(U)
      BY <2>1 DEF Left
    <3> HIDE DEF U
    <3> QED BY <1>3, <1>5, <1>6, <3>1
  <2> QED BY <1>6, <2>2, <2>3 DEF new
<1>7. CASE c.q # <<>> /\ v \notin c.done
  <2> DEFINE tree == c.tree \cup {{v, w} : w \in more}
             first == Sorted(more)
  <2>1. new = [q |-> first \o rest, done |-> c.done \cup {v}, tree |-> tree]
    BY <1>7 DEF Round
  <2>2. more \in SUBSET Switches /\ v \notin more /\ more \cap UNION c.tree = {}
    BY DEF Good, Plain
  <2>3. IsFiniteSet(more) /\ more \subseteq Nat
    BY <1>2, <2>2, FS_Subset
  <2> HIDE DEF more
  <2>4. /\ first \in Seq(more) /\ Len(first) = Cardinality(more) /\ Cardinality(more) \in Nat
        /\ \A x \in more : \E i \in 1 .. Len(first) : first[i] = x
    BY <2>3, SortedLists
  <2>5. first \in Seq(Switches)
    BY <2>2, <2>4, SeqMonotonic
  <2> HIDE DEF first, rest, v
  <2>6. first \o rest \in Seq(Switches) /\ Len(first \o rest) = Cardinality(more) + Len(rest)
    BY <1>5, <1>7, <2>4, <2>5, ConcatProperties
  <2>7. ToSet(rest) \subseteq ToSet(first \o rest)
    BY <1>5, <1>7, <2>5, MembersJoin
  <2>8. Forest(tree)
    <3>1. Forest(c.tree) /\ v \in Switches /\ v \notin more /\ more \cap UNION c.tree = {}
      BY <1>5, <1>7, <2>2 DEF Sound
    <3> DEFINE t == c.tree
    <3> HIDE DEF t
    <3>2. Forest(t \cup {{v, w} : w \in more})
      BY <3>1, LeavesMakeNoLoop DEF t
    <3> QED BY <3>2 DEF t
  <2>9. UNION c.tree \subseteq UNION tree /\ more \subseteq UNION tree
    <3>1. \A w \in more : {v, w} \in tree /\ w \in {v, w}
      OBVIOUS
    <3>2. c.tree \subseteq tree
      OBVIOUS
    <3> HIDE DEF tree
    <3> QED BY <3>1, <3>2
  <2>10. tree \in SUBSET SUBSET Switches
    BY <1>1, <1>5, <1>7, <2>2
  <2>11. Good(adj, v) \subseteq UNION tree /\ \A x \in c.done : Good(adj, x) \subseteq UNION tree
    BY <2>9 DEF Sound, more
  <2>14. ASSUME NEW x \in UNION tree PROVE Good(adj, x) # {}
    <3>1. CASE x \in UNION c.tree
      BY <3>1 DEF Sound
    <3>2. CASE x \notin UNION c.tree
      <4>1. PICK w \in more : x \in {v, w}
        BY <2>14, <3>2
      <4>2. w \in Good(adj, v) /\ v \in Switches
        BY <1>5, <1>7 DEF more
      <4>3. w \in Good(adj, v) /\ v \in Good(adj, w)
        BY <4>2 DEF Good
      <4> QED BY <4>1, <4>3
    <3> QED BY <3>1, <3>2
  <2>12. Sound(adj, new)
    <3>1. new.q = first \o rest /\ new.done = c.done \cup {v} /\ new.tree = tree
      BY <2>1
    <3>2. new \in [q : Seq(Switches), done : SUBSET Switches, tree : SUBSET SUBSET Switches]
      <4>1. c.done \cup {v} \in SUBSET Switches
        BY <1>1, <1>5, <1>7
      <4> HIDE DEF new, tree
      <4> QED BY <2>1, <2>6, <2>10, <4>1
    <3>3. Known(adj) \subseteq new.done \cup ToSet(new.q)
      BY <1>5, <1>7, <2>7, <3>1 DEF Sound
    <3> HIDE DEF new, tree
    <3>4. \A x \in c.done \cup {v} : Good(adj, x) \subseteq UNION tree
      BY <2>11
    <3> QED BY <2>8, <2>14, <3>1, <3>2, <3>3, <3>4 DEF Sound
  <2>13. Left(c) \in Nat /\ Left(new) \in Nat /\ Left(new) < Left(c)
    <3> DEFINE Un == Switches \ UNION tree
    <3>1. Un \in SUBSET U /\ Un \in SUBSET (U \ more) /\ more \in SUBSET U
      BY <2>2, <2>9
    <3>2. Cardinality(U \ more) = Cardinality(U) - Cardinality(more)
      <4>1. U \cap more = more
        BY <3>1
      <4> QED BY <1>3, <4>1, FS_Difference
    <3>3. IsFiniteSet(U \ more) /\ IsFiniteSet(Un)
      <4>1. U \ more \in SUBSET U
        OBVIOUS
      <4> QED BY <1>3, <3>1, <4>1, FS_Subset
    <3>4. Cardinality(Un) <= Cardinality(U \ more) /\ Cardinality(Un) \in Nat
      BY <3>1, <3>3, FS_Subset, FS_CardinalityType
    <3>5. Left(c) = Len(c.q) + Cardinality(U) /\ Left(new) = Cardinality(more) + Len(rest) + Cardinality(Un)
      BY <2>1, <2>6 DEF Left
    <3> HIDE DEF U, Un, new
    <3> QED BY <1>3, <1>5, <1>7, <2>4, <3>2, <3>4, <3>5
  <2> QED BY <1>7, <2>12, <2>13
<1> QED BY <1>4, <1>6, <1>7

\* The tree has no loop, and who has a link seen both ways is in it, nobody else.
LEMMA TreeOK ==
  ASSUME NEW adj, Plain(adj)
  PROVE  /\ Forest(CalcSpanningTree(adj))
         /\ \A d \in Switches : d \in UNION CalcSpanningTree(adj) <=> Good(adj, d) # {}
<1> DEFINE N == 2 * Cardinality(Switches)
           start == [q |-> Sorted(Known(adj)), done |-> {}, tree |-> {}]
           OneRound(S) == {Round(adj, c) : c \in S}
           Is(f, k) == f = [n \in 0 .. k |-> IF n = 0 THEN {start} ELSE OneRound(f[n - 1])]
           after == CHOOSE g : Is(g, N)
           R == {k \in 0 .. N : \E g : Is(g, k)}
<1>1. IsFiniteSet(Switches) /\ Switches \subseteq Nat
  BY SpanningTreeAssumption
<1>2. Cardinality(Switches) \in Nat /\ N \in Nat
  BY <1>1, FS_CardinalityType
<1>3. CalcSpanningTree(adj) = UNION {c.tree : c \in after[N]}
  BY DEF CalcSpanningTree
<1> HIDE DEF start, N, OneRound
<1>4. Is(after, N)
  <2>1. 0 \in R
    <3> DEFINE e == [n \in 0 .. 0 |-> {start}]
    <3>1. Is(e, 0)
      OBVIOUS
    <3> HIDE DEF Is, e
    <3>2. \E g : Is(g, 0)
      BY <3>1
    <3> QED BY <1>2, <3>2
  <2>2. ASSUME NEW k \in 0 .. N, k \in R, k < N PROVE k + 1 \in R
    <3>0. k \in Nat /\ k + 1 \in 0 .. N
      BY <1>2, <2>2
    <3>1. PICK g : Is(g, k)
      BY <2>2
    <3> DEFINE e == [n \in 0 .. k + 1 |-> IF n = k + 1 THEN OneRound(g[k]) ELSE g[n]]
    <3>2. \A n \in 0 .. k : e[n] = g[n]
      BY <3>0
    <3>3. ASSUME NEW n \in 0 .. k + 1
          PROVE  e[n] = IF n = 0 THEN {start} ELSE OneRound(e[n - 1])
      <4>1. CASE n = k + 1
        <5>1. n # 0 /\ n - 1 = k /\ k \in 0 .. k
          BY <3>0, <4>1
        <5> QED BY <3>2, <4>1, <5>1
      <4>2. CASE n # k + 1
        <5>1. n \in 0 .. k /\ (n # 0 => n - 1 \in 0 .. k)
          BY <3>0, <4>2
        <5>2. g[n] = IF n = 0 THEN {start} ELSE OneRound(g[n - 1])
          BY <3>1, <5>1
        <5> QED BY <3>2, <4>2, <5>1, <5>2
      <4> QED BY <4>1, <4>2
    <3>4. e = [n \in 0 .. k + 1 |-> e[n]]
      OBVIOUS
    <3> HIDE DEF e
    <3>5. Is(e, k + 1)
      BY <3>3, <3>4
    <3> HIDE DEF Is
    <3>6. \E u : Is(u, k + 1)
      BY <3>5
    <3> QED BY <3>0, <3>6
  <2>3. N \in R
    <3> HIDE DEF R
    <3> QED BY <1>2, <2>1, <2>2, UpTo
  <2> HIDE DEF Is
  <2> QED BY <2>3
<1> HIDE DEF after
<1>5. after[0] = {start} /\ \A n \in 1 .. N : after[n] = OneRound(after[n - 1])
  <2>1. \A n \in 0 .. N : after[n] = IF n = 0 THEN {start} ELSE OneRound(after[n - 1])
    BY <1>4
  <2>2. 0 \in 0 .. N /\ \A n \in 1 .. N : n \in 0 .. N /\ n # 0
    BY <1>2
  <2> QED BY <2>1, <2>2
<1> DEFINE One == {n \in 0 .. N : \E c : after[n] = {c}}
           f == [n \in 0 .. N |-> CHOOSE c : after[n] = {c}]
<1>6. ASSUME NEW n \in 0 .. N PROVE n \in One
  <2>1. 0 \in One
    BY <1>2, <1>5
  <2>2. ASSUME NEW k \in 0 .. N, k \in One, k < N PROVE k + 1 \in One
    <3>1. k + 1 \in 1 .. N /\ k + 1 \in 0 .. N /\ (k + 1) - 1 = k
      BY <1>2, <2>2
    <3>2. PICK c : after[k] = {c}
      BY <2>2
    <3>3. after[k + 1] = {Round(adj, c)}
      BY <1>5, <3>1, <3>2 DEF OneRound
    <3> QED BY <3>1, <3>3
  <2> HIDE DEF One
  <2> QED BY <1>2, <2>1, <2>2, UpTo
<1>7. \A n \in 0 .. N : after[n] = {f[n]}
  BY <1>6
<1> HIDE DEF f, One
<1>8. f[0] = start /\ \A n \in 1 .. N : f[n] = Round(adj, f[n - 1])
  <2>1. f[0] = start
    <3>1. 0 \in 0 .. N
      BY <1>2
    <3> QED BY <1>5, <1>7, <3>1
  <2>2. ASSUME NEW n \in 1 .. N PROVE f[n] = Round(adj, f[n - 1])
    <3>1. n \in 0 .. N /\ n - 1 \in 0 .. N
      BY <1>2
    <3>2. {f[n]} = OneRound({f[n - 1]})
      BY <1>5, <1>7, <3>1
    <3> QED BY <3>2 DEF OneRound
  <2> QED BY <2>1, <2>2
<1>9. Sound(adj, start) /\ Left(start) \in Nat /\ Left(start) <= N
  <2> DEFINE K == Known(adj)
             s == Sorted(K)
  <2>1. K \in SUBSET Switches /\ IsFiniteSet(K) /\ K \subseteq Nat
    <3>1. K \in SUBSET Switches
      BY DEF Plain, Known
    <3> QED BY <1>1, <3>1, FS_Subset
  <2>2. /\ s \in Seq(K) /\ Len(s) = Cardinality(K) /\ Cardinality(K) \in Nat
        /\ \A x \in K : \E i \in 1 .. Len(s) : s[i] = x
    BY <2>1, SortedLists
  <2>3. K \subseteq ToSet(s)
    <3>1. DOMAIN s = 1 .. Len(s)
      BY <2>2, LenProperties
    <3> QED BY <2>2, <3>1 DEF ToSet
  <2>4. s \in Seq(Switches)
    BY <2>1, <2>2, SeqMonotonic
  <2>5. Forest({})
    BY DEF Forest, NoLoop, Ways
  <2>6. Cardinality(K) <= Cardinality(Switches)
    BY <1>1, <2>1, FS_Subset
  <2> HIDE DEF K, s
  <2>7. start = [q |-> s, done |-> {}, tree |-> {}]
    BY DEF start, s, K
  <2>8. Sound(adj, start)
    <3>1. start.q = s /\ start.done = {} /\ start.tree = {}
      BY <2>7
    <3>2. start \in [q : Seq(Switches), done : SUBSET Switches, tree : SUBSET SUBSET Switches]
      BY <2>4, <2>7
    <3> QED BY <2>3, <2>5, <3>1, <3>2 DEF Sound, K
  <2>9. Left(start) = Cardinality(K) + Cardinality(Switches)
    <3>1. start.q = s /\ Switches \ UNION start.tree = Switches
      BY <2>7
    <3> QED BY <2>2, <3>1 DEF Left
  <2> QED BY <1>2, <2>2, <2>6, <2>8, <2>9 DEF N
<1> DEFINE Q == {n \in 0 .. N : /\ Sound(adj, f[n])
                                /\ f[n].q = <<>> \/ (Left(f[n]) \in Nat /\ Left(f[n]) <= N - n)}
<1>10. 0 \in Q
  BY <1>2, <1>8, <1>9
<1>11. ASSUME NEW n \in 0 .. N, n \in Q, n < N PROVE n + 1 \in Q
  <2>1. n \in Nat /\ n + 1 \in 1 .. N /\ n + 1 \in 0 .. N /\ (n + 1) - 1 = n
    BY <1>2, <1>11
  <2> DEFINE c == f[n]
             next == f[n + 1]
  <2>2. next = Round(adj, c) /\ Sound(adj, c)
    BY <1>8, <1>11, <2>1
  <2> HIDE DEF c, next
  <2>3. /\ Sound(adj, next)
        /\ IF c.q = <<>> THEN next = c
           ELSE Left(c) \in Nat /\ Left(next) \in Nat /\ Left(next) < Left(c)
    BY <2>2, RoundOK
  <2>4. c.q # <<>> => Left(c) <= N - n
    BY <1>11 DEF c
  <2>5. next.q = <<>> \/ (Left(next) \in Nat /\ Left(next) <= N - (n + 1))
    <3>1. CASE c.q = <<>>
      BY <2>3, <3>1
    <3>2. CASE c.q # <<>>
      BY <1>2, <2>1, <2>3, <2>4, <3>2
    <3> QED BY <3>1, <3>2
  <2> QED BY <2>1, <2>3, <2>5 DEF next
<1>12. N \in Q
  <2> HIDE DEF Q
  <2> QED BY <1>2, <1>10, <1>11, UpTo
<1> DEFINE c == f[N]
<1>13. Sound(adj, c) /\ (c.q = <<>> \/ (Left(c) \in Nat /\ Left(c) <= 0))
  BY <1>2, <1>12
<1> HIDE DEF c, Q
<1>14. c.q = <<>>
  <2>1. SUFFICES ASSUME c.q # <<>> PROVE FALSE
    OBVIOUS
  <2>2. Left(Round(adj, c)) \in Nat /\ Left(Round(adj, c)) < Left(c)
    BY <1>13, <2>1, RoundOK
  <2> QED BY <1>13, <2>1, <2>2
<1>15. Known(adj) \subseteq c.done
  BY <1>13, <1>14 DEF Sound, ToSet
<1>16. ASSUME NEW d \in Switches, NEW e \in Switches, <<d, e>> \in adj, <<e, d>> \in adj
       PROVE  d \in UNION c.tree
  <2>1. e \in Known(adj)
    BY <1>16 DEF Known
  <2>2. d \in Good(adj, e)
    BY <1>16 DEF Good
  <2> QED BY <1>13, <1>15, <2>1, <2>2 DEF Sound
<1>17. CalcSpanningTree(adj) = c.tree
  <2>1. after[N] = {c}
    BY <1>2, <1>7 DEF c
  <2> QED BY <1>3, <2>1
<1>18. ASSUME NEW d \in Switches, Good(adj, d) # {} PROVE d \in UNION c.tree
  BY <1>16, <1>18 DEF Good
<1> QED BY <1>13, <1>17, <1>18 DEF Sound

\* The switches whose hold-down is over, and the ways among them that flood.
Old == {d \in connected : ~Young(d)}
OldWays == {s \in Old \X Old : s[1] # s[2] /\ {s[1], s[2]} \in Cables /\ config[s[1]][s[2]]}

\* Each link among the switches O has been seen, one way at least.
SeenAmong(adj, O) == \A d, e \in O : {d, e} \in Cables => <<d, e>> \in adj \/ <<e, d>> \in adj

\* Of the switches O, those without a link seen both ways flood nothing.
LoneAreSilent(adj, O) ==
  \A d \in O : Good(adj, d) = {} => \A p \in PortsOf(d) : config[d][p] = FALSE

\* While a network starts up with --no-flood and --hold-down: young switches, and
\* those without a link seen both ways, flood nothing, each link among the others
\* has been seen one way at least, and what these flood makes no loop.
StartupInv ==
  /\ IInv /\ up = Cables
  /\ \A d \in Switches : Young(d) => timers[d] = 1 /\ d \in connected
  /\ \A d \in connected :
       Young(d) \/ Good(adjacency, d) = {} => \A p \in PortsOf(d) : config[d][p] = FALSE
  /\ \A d, e \in Old : {d, e} \in Cables => <<d, e>> \in adjacency \/ <<e, d>> \in adjacency
  /\ NoLoop(OldWays)

\* An update orders what the tree says, of the switches it looks at.
LEMMA UpdateFloods ==
  ASSUME IInv, NEW adj, NEW force, UpdateTree(adj, connected, force), NEW d \in connected
  PROVE  LET updated == Updated(adj, connected, force) IN
         /\ d \notin updated => config'[d] = config[d]
         /\ d \in updated => \A p \in PortsOf(d) :
              config'[d][p] = ({d, p} \in CalcSpanningTree(adj) \/ IsEdgePort(adj, d, p))
<1> DEFINE flood(p) == {d, p} \in CalcSpanningTree(adj) \/ IsEdgePort(adj, d, p)
<1>1. d \in Switches /\ FaithfulAt(d)
  BY DEF IInv, Sessions
<1>2. config'[d] = IF d \notin Updated(adj, connected, force) THEN config[d]
                   ELSE [p \in PortsOf(d) |->
                           IF prev[d][p] # flood(p) THEN flood(p) ELSE config[d][p]]
  BY <1>1 DEF UpdateTree
<1>3. ASSUME NEW p \in PortsOf(d)
      PROVE  (IF prev[d][p] # flood(p) THEN flood(p) ELSE config[d][p]) = flood(p)
  <2>1. CASE prev[d][p] = flood(p)
    <3>1. prev[d][p] # None
      <4>1. flood(p) \in BOOLEAN
        OBVIOUS
      <4> HIDE DEF flood
      <4>2. None \notin BOOLEAN
        BY SpanningTreeAssumption
      <4> QED BY <2>1, <4>1, <4>2
    <3> HIDE DEF flood
    <3> QED BY <1>1, <2>1, <3>1 DEF FaithfulAt
  <2>2. CASE prev[d][p] # flood(p)
    <3> HIDE DEF flood
    <3> QED BY <2>2
  <2> QED BY <2>1, <2>2
<1> HIDE DEF flood
<1>4. d \in Updated(adj, connected, force) => \A p \in PortsOf(d) : config'[d][p] = flood(p)
  BY <1>2, <1>3
<1> QED BY <1>2, <1>4 DEF flood

LEMMA EndsDiffer ==
  ASSUME NEW adj, Cabled(adj)
  PROVE  Plain(adj)
<1>1. ASSUME NEW l \in adj PROVE l[1] # l[2]
  <2> DEFINE a == l[1]
             b == l[2]
  <2>1. {a, b} \in Cables
    BY DEF Cabled
  <2> HIDE DEF a, b
  <2>2. \A x \in Cables : Cardinality(x) = 2
    BY SpanningTreeAssumption
  <2>3. Cardinality({a}) = 1
    BY FS_Singleton
  <2>4. ASSUME a = b PROVE FALSE
    <3>1. {a} \in Cables
      BY <2>1, <2>4
    <3> DEFINE x == {a}
    <3> HIDE DEF x
    <3>2. x \in Cables /\ Cardinality(x) = 1
      BY <2>3, <3>1 DEF x
    <3> QED BY <2>2, <3>2
  <2> QED BY <2>4 DEF a, b
<1> QED BY <1>1 DEF Plain, Cabled

LEMMA UpdateNoLoop ==
  ASSUME IInv, HoldDown, NEW adj, Cabled(adj), NEW force,
         UpdateTree(adj, connected, force), NEW O,
         O = {d \in connected : ~Young(d) \/ d \in force},
         SeenAmong(adj, O), LoneAreSilent(adj, O),
         NEW W, W = {s \in O \X O : s[1] # s[2] /\ {s[1], s[2]} \in Cables /\ config'[s[1]][s[2]]}
  PROVE  NoLoop(W)
<1> DEFINE tree == CalcSpanningTree(adj)
<1>1. Plain(adj)
  BY EndsDiffer
<1>2. /\ Forest(tree)
      /\ \A d \in Switches : d \in UNION tree <=> Good(adj, d) # {}
  BY <1>1, TreeOK
<1>3. O \subseteq connected /\ connected \subseteq Switches
  BY DEF IInv, Sessions
<1> HIDE DEF tree
<1>4. ASSUME NEW s \in W PROVE s \in Ways(tree)
  <2>1. PICK d \in O, e \in O : s = <<d, e>> /\ d # e /\ {d, e} \in Cables /\ config'[d][e]
    <3>1. s \in O \X O /\ s[1] # s[2] /\ {s[1], s[2]} \in Cables /\ config'[s[1]][s[2]]
      OBVIOUS
    <3>2. s[1] \in O /\ s[2] \in O /\ s = <<s[1], s[2]>>
      BY <3>1
    <3> QED BY <3>1, <3>2
  <2>2. <<d, e>> \in adj \/ <<e, d>> \in adj
    BY <2>1 DEF SeenAmong
  <2>5. e \in PortsOf(d)
    BY <1>3, <2>1 DEF PortsOf
  <2>3. d \in UNION tree
    <3> SUFFICES ASSUME d \notin UNION tree PROVE FALSE
      OBVIOUS
    <3>1. Good(adj, d) = {}
      BY <1>2, <1>3
    <3>2. config[d][e] = FALSE
      BY <2>5, <3>1 DEF LoneAreSilent
    <3>3. d \notin Updated(adj, connected, force)
      BY DEF Updated, tree
    <3>4. config'[d] = config[d]
      BY <1>3, <3>3, UpdateFloods
    <3> QED BY <2>1, <3>2, <3>4
  <2>4. d \in Updated(adj, connected, force)
    <3>1. d \in connected /\ (~Young(d) \/ d \in force)
      OBVIOUS
    <3> QED BY <2>3, <3>1 DEF Updated, tree
  <2>6. config'[d][e] = ({d, e} \in tree \/ IsEdgePort(adj, d, e))
    BY <1>3, <2>4, <2>5, UpdateFloods DEF tree
  <2>7. ~IsEdgePort(adj, d, e)
    BY <2>2 DEF IsEdgePort
  <2> QED BY <1>3, <2>1, <2>6, <2>7 DEF Ways
<1>5. NoLoop(W)
  BY <1>2, <1>4 DEF Forest, NoLoop
<1> QED BY <1>5

LEMMA StartupFirst == Init /\ NoFlood /\ HoldDown => StartupInv
<1> SUFFICES ASSUME Init, NoFlood, HoldDown PROVE StartupInv
  OBVIOUS
<1>1. up = Cables /\ connected = {} /\ \A d \in Switches : timers[d] = 0
  BY DEF Init
<1>2. Old = {} /\ OldWays = {}
  BY <1>1 DEF Old, OldWays
<1> QED BY <1>1, <1>2, InitFaithful DEF StartupInv, NoLoop, Young

\* A switch that connects is young, and --no-flood turned its ports off.
LEMMA StartupUp ==
  ASSUME StartupInv, IInv', NoFlood, HoldDown, NEW d \in Switches, FirstConnection(d)
  PROVE  StartupInv'
<1>1. /\ d \notin connected /\ connected' = connected \cup {d}
      /\ timers' = [timers EXCEPT ![d] = @ + 1] /\ up' = up /\ adjacency' = adjacency
      /\ config' = [config EXCEPT ![d] = [p \in PortsOf(d) |-> FALSE]]
  BY DEF FirstConnection, ConnectionUp
<1>2. timers[d] = 0 /\ DOMAIN timers = Switches /\ connected \subseteq Switches
      /\ DOMAIN config = Switches
  <2>1. timers[d] \in Nat /\ DOMAIN timers = Switches /\ connected \subseteq Switches /\ DOMAIN config = Switches
    BY SpanningTreeAssumption DEF StartupInv, IInv, Stores, Sessions
  <2>2. ~Young(d)
    BY <1>1 DEF StartupInv
  <2> QED BY <2>1, <2>2 DEF Young
<1>3. /\ timers'[d] = 1 /\ Young(d)'
      /\ \A e \in Switches : e # d => timers'[e] = timers[e] /\ config'[e] = config[e] /\ (Young(e)' <=> Young(e))
  BY <1>1, <1>2 DEF Young
<1>4. Old' = Old
  BY <1>1, <1>2, <1>3 DEF Old
<1>5. OldWays' = OldWays
  <2>1. \A e \in Old : config'[e] = config[e]
    BY <1>1, <1>2, <1>3 DEF Old
  <2>2. ASSUME NEW s \in Old \X Old PROVE config'[s[1]][s[2]] = config[s[1]][s[2]]
    BY <2>1
  <2> QED BY <1>4, <2>2 DEF OldWays
<1>6. ASSUME NEW x \in connected', Young(x)' \/ Good(adjacency', x) = {}, NEW p \in PortsOf(x)
      PROVE  config'[x][p] = FALSE
  BY <1>1, <1>2, <1>3, <1>6 DEF StartupInv
<1>7. \A x \in Switches : Young(x)' => timers'[x] = 1 /\ x \in connected'
  BY <1>1, <1>2, <1>3 DEF StartupInv
<1> QED BY <1>1, <1>4, <1>5, <1>6, <1>7 DEF StartupInv

\* What an update leaves: who is young afterwards was not looked at.
LEMMA StartupUpdate ==
  ASSUME StartupInv, IInv', HoldDown, NEW force, UpdateTree(adjacency', connected, force),
         adjacency \subseteq adjacency',
         connected' = connected, up' = up,
         Old' = {x \in connected : ~Young(x) \/ x \in force},
         \A x \in Switches : Young(x)' => Young(x) /\ timers'[x] = timers[x],
         \A x, y \in Old' : {x, y} \in Cables => <<x, y>> \in adjacency' \/ <<y, x>> \in adjacency'
  PROVE  StartupInv'
<1>0. ASSUME NEW x PROVE Good(adjacency', x) = {} => Good(adjacency, x) = {}
  BY DEF Good
<1>1. NoLoop({s \in Old' \X Old' : s[1] # s[2] /\ {s[1], s[2]} \in Cables /\ config'[s[1]][s[2]]})
  <2> DEFINE O == Old'
             adj == adjacency'
             W == {s \in O \X O : s[1] # s[2] /\ {s[1], s[2]} \in Cables /\ config'[s[1]][s[2]]}
  <2>1. O = {x \in connected : ~Young(x) \/ x \in force}
    OBVIOUS
  <2>2. SeenAmong(adj, O)
    BY DEF SeenAmong
  <2>3. IInv /\ Cabled(adj) /\ UpdateTree(adj, connected, force)
    BY DEF StartupInv, IInv, Cabled
  <2>5. LoneAreSilent(adj, O)
    BY <1>0, <2>1 DEF StartupInv, LoneAreSilent
  <2>6. W = {s \in O \X O : s[1] # s[2] /\ {s[1], s[2]} \in Cables /\ config'[s[1]][s[2]]}
    OBVIOUS
  <2> HIDE DEF O, adj, W
  <2>4. NoLoop(W)
    BY <2>1, <2>2, <2>3, <2>5, <2>6, UpdateNoLoop
  <2> QED BY <2>4 DEF O, W
<1>2. ASSUME NEW x \in connected', Young(x)' \/ Good(adjacency', x) = {}
      PROVE  \A p \in PortsOf(x) : config'[x][p] = FALSE
  <2>1. x \in connected /\ x \in Switches
    BY DEF StartupInv, IInv, Sessions
  <2>2. x \notin Updated(adjacency', connected, force) /\ (Young(x) \/ Good(adjacency, x) = {})
    <3>1. CASE Young(x)'
      <4>1. x \notin Old' /\ Young(x)
        BY <2>1, <3>1 DEF Old
      <4> QED BY <2>1, <4>1 DEF Updated
    <3>2. CASE Good(adjacency', x) = {}
      <4>1. Plain(adjacency')
        BY EndsDiffer DEF IInv
      <4>2. x \notin UNION CalcSpanningTree(adjacency')
        BY <2>1, <3>2, <4>1, TreeOK
      <4> QED BY <1>0, <3>2, <4>2 DEF Updated
    <3> QED BY <1>2, <3>1, <3>2
  <2>4. config'[x] = config[x]
    <3>1. IInv
      BY DEF StartupInv
    <3> QED BY <2>1, <2>2, <3>1, UpdateFloods
  <2> QED BY <2>1, <2>2, <2>4 DEF StartupInv
<1>3. \A x \in Switches : Young(x)' => timers'[x] = 1 /\ x \in connected'
  BY DEF StartupInv
<1>4. up' = Cables
  BY DEF StartupInv
<1> QED BY <1>1, <1>2, <1>3, <1>4 DEF StartupInv, OldWays

LEMMA StartupLLDP ==
  ASSUME StartupInv, IInv', HoldDown, NEW d \in Switches, NEW e \in Switches, LLDPArrives(d, e)
  PROVE  StartupInv'
<1>1. /\ adjacency' = adjacency \cup {<<d, e>>} /\ UNCHANGED <<up, connected, timers>>
      /\ HandleLinkEvents({<<d, e>>}, adjacency', connected)
  BY DEF LLDPArrives
<1>0. \A x : Good(adjacency', x) = {} => Good(adjacency, x) = {}
  BY <1>1 DEF Good
<1>2. (\A x : Young(x)' <=> Young(x)) /\ Old' = Old
  BY <1>1 DEF Young, Old
<1>3. \A x, y \in Old' : {x, y} \in Cables => <<x, y>> \in adjacency' \/ <<y, x>> \in adjacency'
  BY <1>1, <1>2 DEF StartupInv
<1>4. CASE UNCHANGED <<prev, config>>
  <2>1. OldWays' = OldWays
    BY <1>2, <1>4 DEF OldWays
  <2> QED BY <1>0, <1>1, <1>2, <1>3, <1>4, <2>1 DEF StartupInv
<1>5. CASE UpdateTree(adjacency', connected, {})
  <2>2. Old' = {x \in connected : ~Young(x) \/ x \in {}}
    BY <1>2 DEF Old
  <2> QED BY <1>1, <1>2, <1>3, <1>5, <2>2, StartupUpdate
<1> QED BY <1>1, <1>4, <1>5 DEF HandleLinkEvents

\* The end of a hold-down, when a probe has found each link of d, one way or other.
LEMMA StartupHoldDown ==
  ASSUME StartupInv, IInv', HoldDown, NEW d \in Switches, HoldDownInTime(d)
  PROVE  StartupInv'
<1>1. /\ Young(d) /\ Probed(d)
      /\ timers' = [timers EXCEPT ![d] = @ - 1] /\ UNCHANGED <<up, connected, adjacency>>
      /\ UpdateTree(adjacency, connected, {d})
  BY DEF HoldDownInTime, HoldDownOver
<1>2. d \in connected /\ timers[d] = 1 /\ connected \subseteq Switches
  BY <1>1 DEF StartupInv, IInv, Sessions
<1>3. DOMAIN timers = Switches
  BY DEF StartupInv, IInv
<1>4. /\ ~Young(d)' /\ \A x \in Switches : x # d => timers'[x] = timers[x] /\ (Young(x)' <=> Young(x))
  BY <1>1, <1>2, <1>3 DEF Young
<1>5. Old' = {x \in connected : ~Young(x) \/ x \in {d}}
  BY <1>1, <1>2, <1>4 DEF Old
<1>6. ASSUME NEW x \in Old', NEW y \in Old', {x, y} \in Cables
      PROVE  <<x, y>> \in adjacency' \/ <<y, x>> \in adjacency'
  <2>1. CASE x # d /\ y # d
    BY <1>1, <1>5, <1>6, <2>1 DEF StartupInv, Old
  <2>2. x # y
    <3> SUFFICES ASSUME x = y PROVE FALSE
      OBVIOUS
    <3>1. {x} \in Cables
      BY <1>6
    <3> DEFINE c == {x}
    <3>2. Cardinality(c) = 1
      BY FS_Singleton
    <3> HIDE DEF c
    <3>3. \A z \in Cables : Cardinality(z) = 2
      BY SpanningTreeAssumption
    <3> QED BY <3>1, <3>2, <3>3 DEF c
  <2>3. CASE x = d
    <3>1. y \in connected /\ ~Young(y) /\ {d, y} \in up
      BY <1>5, <1>6, <2>2, <2>3 DEF StartupInv
    <3> QED BY <1>1, <2>3, <3>1 DEF Probed
  <2>4. CASE y = d
    <3>1. x \in connected /\ ~Young(x) /\ {d, x} \in up
      <4>1. {x, d} = {d, x}
        OBVIOUS
      <4> QED BY <1>5, <1>6, <2>2, <2>4, <4>1 DEF StartupInv
    <3> QED BY <1>1, <2>4, <3>1 DEF Probed
  <2> QED BY <2>1, <2>3, <2>4
<1>8. \A x \in Switches : Young(x)' => Young(x) /\ timers'[x] = timers[x]
  BY <1>4
<1> QED BY <1>1, <1>5, <1>6, <1>8, StartupUpdate

LEMMA StartupStep == NoFlood /\ HoldDown /\ StartupInv /\ [Startup]_vars => StartupInv'
<1> SUFFICES ASSUME NoFlood, HoldDown, StartupInv, [Startup]_vars PROVE StartupInv'
  OBVIOUS
<1>1. IInv'
  <2>1. IInv /\ [Next]_vars
    BY DEF Startup, FirstConnection, HoldDownInTime, Next, StartupInv
  <2> QED BY <2>1, StepFaithful
<1>2. CASE UNCHANGED vars
  <2>1. UNCHANGED <<Old, OldWays>> /\ (\A x : Young(x)' <=> Young(x))
    BY <1>2 DEF vars, Old, OldWays, Young
  <2> QED BY <1>1, <1>2, <2>1 DEF vars, StartupInv
<1> QED BY <1>1, <1>2, StartupUp, StartupLLDP, StartupHoldDown DEF Startup

\* Switches that are young flood nothing, so what keeps itself going would do so
\* among the others.
LEMMA NoLoopAtAll == StartupInv => NoFloodLoop
<1> SUFFICES ASSUME StartupInv, NEW soup \in SUBSET Steps,
                    \A s \in soup : \E r \in soup : r[2] = s[1] /\ r[1] # s[2]
             PROVE  soup = {}
  BY DEF NoFloodLoop
<1>1. ASSUME NEW s \in soup PROVE s[1] \in Old /\ s \in Switches \X Switches
  <2>1. s \in Switches \X Switches /\ Floods(s[1], s[2])
    BY DEF Steps
  <2>2. s[2] \in PortsOf(s[1]) /\ s[1] \in connected
    BY <2>1 DEF Floods, PortsOf, StartupInv
  <2> QED BY <2>1, <2>2 DEF Floods, StartupInv, Old
<1> DEFINE inner == {s \in soup : s[2] \in Old}
<1>2. inner \in SUBSET OldWays
  <2>1. ASSUME NEW s \in inner
        PROVE  s \in Old \X Old /\ s[1] # s[2] /\ {s[1], s[2]} \in Cables /\ config[s[1]][s[2]]
    <3>1. s[1] \in Old /\ s[2] \in Old /\ s \in Switches \X Switches
      BY <1>1
    <3> QED BY <3>1 DEF Steps, Floods, StartupInv
  <2> QED BY <2>1 DEF OldWays
<1>3. \A s \in soup : \E r \in inner : r[2] = s[1] /\ r[1] # s[2]
  BY <1>1
<1>4. inner = {}
  BY <1>2, <1>3 DEF StartupInv, NoLoop, Sustained
<1> QED BY <1>3, <1>4

\* In every network whose cables hold, started with --no-flood and --hold-down,
\* no flooding goes round: not while switches connect, hold-downs end one by one
\* and links are discovered in any order.
THEOREM StartupNoFloodLoop == NoFlood /\ HoldDown => (StartupSpec => []NoFloodLoop)
<1> SUFFICES ASSUME NoFlood, HoldDown PROVE StartupSpec => []NoFloodLoop
  OBVIOUS
<1>1. Init => StartupInv
  BY StartupFirst
<1>2. StartupInv /\ [Startup]_vars => StartupInv'
  BY StartupStep
<1> QED BY <1>1, <1>2, NoLoopAtAll, PTL DEF StartupSpec
=============================================================================
