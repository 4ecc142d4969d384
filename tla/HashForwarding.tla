--------------------------- MODULE HashForwarding ---------------------------
(***************************************************************************)
(* hash_lb.py, the controller that may be run instead of new_lb.py: on     *)
(* every switch a packet is forwarded through one of the ports to other    *)
(* switches, chosen by a hash of its source.  Which ports those are is     *)
(* learned from the packets: discovery's LLDP packets come from switches.  *)
(***************************************************************************)
EXTENDS Topology, FiniteSets

CONSTANT Reconnects      \* bound on the connections of each switch

VARIABLES
  sessions,     \* sessions[d]: the connections of switch d so far
  hostPorts,    \* HashLoadBalancer.host_ports of its present connection
  switchPorts,  \* and switch_ports
  lldpPorts,    \* the ports of d an LLDP packet has come from meanwhile
  rules,        \* rules[d]: the flow table, triples <<source, port, output>>
  handled       \* the output of the last packet_in, None for none

vars == <<sessions, hostPorts, switchPorts, lldpPorts, rules, handled>>

None == 0
Kinds == {"ipv4", "lldp", "other"}

\* _classify_port
ClassifyPort(d, port, kind) ==
  IF port \in hostPorts[d] \cup switchPorts[d] THEN UNCHANGED <<hostPorts, switchPorts>>
  ELSE IF kind = "lldp"
  THEN /\ switchPorts' = [switchPorts EXCEPT ![d] = @ \cup {port}] /\ UNCHANGED hostPorts
  ELSE /\ hostPorts' = [hostPorts EXCEPT ![d] = @ \cup {port}] /\ UNCHANGED switchPorts

\* A new connection has a HashLoadBalancer of its own, and an empty table.
ConnectionUp(d) ==
  /\ sessions[d] <= Reconnects
  /\ sessions' = [sessions EXCEPT ![d] = @ + 1]
  /\ hostPorts' = [hostPorts EXCEPT ![d] = {}]
  /\ switchPorts' = [switchPorts EXCEPT ![d] = {}]
  /\ lldpPorts' = [lldpPorts EXCEPT ![d] = {}]
  /\ rules' = [rules EXCEPT ![d] = {}]
  /\ handled' = None

\* The flow_mod and the packet_out; the hash may select any available port.
Forward(d, src, port) ==
  LET available == switchPorts'[d] \ {port} IN
    IF available = {} THEN handled' = None /\ UNCHANGED rules
    ELSE \E out \in available :
           /\ rules' = [rules EXCEPT ![d] = {r \in @ : r[1] # src \/ r[2] # port}
                                             \cup {<<src, port, out>>}]
           /\ handled' = out

\* A packet of host src that matches no rule, or discovery's LLDP packet (if
\* discovery has not halted the event already)
PacketIn(d, src, port, kind) ==
  /\ sessions[d] > 0
  /\ \A r \in rules[d] : r[1] = src => r[2] # port
  /\ IF kind = "ipv4"                     \* else: "ignoring"
     THEN ClassifyPort(d, port, kind) /\ Forward(d, src, port)
     ELSE handled' = None /\ UNCHANGED <<hostPorts, switchPorts, rules>>
  /\ lldpPorts' = IF kind = "lldp" THEN [lldpPorts EXCEPT ![d] = @ \cup {port}] ELSE lldpPorts
  /\ UNCHANGED sessions

Init ==
  /\ sessions = [d \in Switches |-> 0]
  /\ hostPorts = [d \in Switches |-> {}] /\ switchPorts = [d \in Switches |-> {}]
  /\ lldpPorts = [d \in Switches |-> {}]
  /\ rules = [d \in Switches |-> {}]
  /\ handled = None

\* LLDP packets come over the links between switches.
Next ==
  \E d \in Switches :
    \/ ConnectionUp(d)
    \/ \E p \in DOMAIN Peer[d], x \in Hosts, kind \in Kinds :
         /\ kind = "lldp" => Peer[d][p][1] = "switch"
         /\ PacketIn(d, x, p, kind)

Spec == Init /\ [][Next]_vars
-----------------------------------------------------------------------------
\* "Port prowadzi do switcha, jesli odbieramy LLDP": a port from which an LLDP
\* packet was received is one that leads to a switch, whatever came before.
LLDPMarksSwitchPorts == \A d \in Switches : lldpPorts[d] \subseteq switchPorts[d]
=============================================================================
