------------------------------ MODULE L2Multi ------------------------------
(***************************************************************************)
(* pox/forwarding/l2_multi.py beside the spanning tree, on the same        *)
(* discovery: its own map of the links, shortest paths computed from it    *)
(* when a packet asks for one and thrown away with every LinkEvent, and    *)
(* the flows it installs along them.  What packets and hosts there are is  *)
(* left open: a packet comes to one switch for a host behind another.      *)
(***************************************************************************)
EXTENDS SpanningTree

CONSTANT Asked    \* <<d, e>> if a packet may come to d for a host behind e

ASSUME L2MultiAssumption == Asked \subseteq Switches \X Switches /\ None \notin Switches

VARIABLES
  known,     \* switches: those that ever connected
  links,     \* adjacency: pairs <<d, e>> it considers connected
  pathsOf,   \* the links path_map was computed from; None when it is empty
  flows      \* flows[d]: the switches d forwards packets to

l2vars == <<known, links, pathsOf, flows>>

Flip(l) == <<l[2], l[1]>>
-----------------------------------------------------------------------------
(* _calc_paths and _get_raw_path                                           *)

Far == Cardinality(Switches)     \* (None, None): no path has as many links

\* One k of the loop: what passes through k does not change meanwhile.
Relax(map, k) ==
  [p \in DOMAIN map |->
     LET through == map[p[1], k].dist + map[k, p[2]].dist
     IN  IF through < map[p].dist THEN [dist |-> through, via |-> k] ELSE map[p]]

\* map[n]: after n times the loop over k; order: that of the dictionary of switches
CalcPaths(adj, order) ==
  LET S == ToSet(order)
      map[n \in 0 .. Len(order)] ==
        IF n = 0
        THEN [p \in S \X S |->
                [dist |-> IF p[1] = p[2] THEN 0 ELSE IF p \in adj THEN 1 ELSE Far, via |-> None]]
        ELSE Relax(map[n - 1], order[n])
  IN  map[Len(order)]

\* The switches between src and dst
RawPath_mut(map, src, dst) ==          \* the intermediate switch itself left out
  LET raw[p \in DOMAIN map] ==
        IF map[p].via = None THEN <<>>
        ELSE raw[<<p[1], map[p].via>>] \o raw[<<map[p].via, p[2]>>]
  IN  raw[<<src, dst>>]
RawPath(map, src, dst) ==
  LET raw[p \in DOMAIN map] ==
        IF map[p].via = None THEN <<>>
        ELSE raw[<<p[1], map[p].via>>] \o <<map[p].via>> \o raw[<<map[p].via, p[2]>>]
  IN  raw[<<src, dst>>]

Orders(S) == {s \in [1 .. Cardinality(S) -> S] : IsInjective(s)}

\* path_map, for every order
Maps(adj) == {CalcPaths(adj, o) : o \in Orders(known)}

\* _get_path, of switches only
Paths(maps, src, dst) ==
  {IF src = dst THEN <<src>> ELSE <<src>> \o RawPath(map, src, dst) \o <<dst>> :
     map \in {m \in maps : m[src, dst].dist < Far}}
-----------------------------------------------------------------------------
(* The handlers.                                                           *)

\* Switch.connection is the latest session until that one is closed; what is
\* sent on it after a send has failed goes nowhere.
Clear_mut == UNCHANGED flows       \* no flow_mod that deletes
Clear == flows' = [d \in Switches |-> IF latest'[d] = "up" THEN {} ELSE flows[d]]

\* LinkEvents of removed links.  With one cable between two switches there is no
\* "another way to connect these".
Removed(gone) ==
  IF gone = {} THEN UNCHANGED l2vars
  ELSE /\ links' = links \ (gone \cup {Flip(l) : l \in gone})
       /\ pathsOf' = None
       /\ Clear /\ UNCHANGED known

\* The LinkEvent of a new link, which counts when it goes both ways
Added_mut(l) ==               \* one way is enough
  /\ links' = links \cup {l, Flip(l)}
  /\ pathsOf' = None
  /\ Clear /\ UNCHANGED known
Added(l) ==
  /\ links' = IF l \notin links /\ Flip(l) \in adjacency' THEN links \cup {l, Flip(l)} ELSE links
  /\ pathsOf' = None
  /\ Clear /\ UNCHANGED known

\* A connection begins with an empty table (of_01 clears it), but for what was
\* installed through an earlier session during the handshake of this one.
Connected(d) ==
  /\ known' = known \cup {d}
  /\ \E rest \in IF latest[d] = "up" THEN SUBSET flows[d] ELSE {{}} :
       flows' = [flows EXCEPT ![d] = rest]
  /\ UNCHANGED <<links, pathsOf>>

\* install_path, of a packet that came to src, there and back.  A switch
\* without a connection ends it with an exception, after those before it; one
\* whose session failed is sent nothing.
InstallPath(src, dst) ==
  /\ latest[src] # "none" /\ dst \in known
  /\ LET adj == IF pathsOf = None THEN links ELSE pathsOf IN
       /\ pathsOf' = IF src = dst THEN pathsOf ELSE adj
       /\ \E p \in Paths(Maps(adj), src, dst) :
            LET gone  == {i \in DOMAIN p : latest[p[i]] = "none"}
                there == {i \in DOMAIN p : latest[p[i]] = "up" /\ \A j \in gone : i < j}
            IN  flows' = [d \in Switches |-> flows[d] \cup
                  {p[i + 1] : i \in {j \in there \ {Len(p)} : p[j] = d}} \cup
                  {p[i - 1] : i \in {j \in there \ {1} : p[j] = d /\ gone = {}}}]
  /\ UNCHANGED <<known, links>>

Expires(d) ==                 \* idle_timeout, hard_timeout
  /\ flows[d] # {}
  /\ flows' = [flows EXCEPT ![d] = {}] /\ UNCHANGED <<known, links, pathsOf>>

L2Init ==
  /\ Init
  /\ known = {} /\ links = {} /\ pathsOf = None
  /\ flows = [d \in Switches |-> {}]

L2Next ==
  \/ \E d \in Switches :
       \/ ConnectionUp(d) /\ Connected(d)
       \/ ConnectionDown(d) /\ Removed({l \in adjacency : d \in {l[1], l[2]}})
       \/ (SendFails(d) \/ HoldDownOver(d)) /\ UNCHANGED l2vars
  \/ \E d, e \in Switches : LLDPArrives(d, e) /\ Added(<<d, e>>)
  \/ \E gone \in SUBSET adjacency : ExpireLinks(gone) /\ Removed(gone)
  \/ \E c \in Cables : (CableFails(c) \/ CableReturns(c)) /\ UNCHANGED l2vars
  \/ \E a \in Asked : InstallPath(a[1], a[2]) /\ UNCHANGED vars
  \/ \E d \in Switches : Expires(d) /\ UNCHANGED vars

L2Spec == L2Init /\ [][L2Next]_<<vars, l2vars>>
=============================================================================
