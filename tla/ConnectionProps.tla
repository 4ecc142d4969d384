--------------------------- MODULE ConnectionProps ---------------------------
(***************************************************************************)
(* What of_01.py and the nexus promise the rest of the controller.         *)
(***************************************************************************)
EXTENDS Connection

Message == [type : {"hello", "echo", "barrier", "features", "port_status", "port_delete"},
            ports : SUBSET Port]

\* Every variable has its type; in particular a session the nexus holds is
\* established, and of that switch, whatever was lost or refused meanwhile.
TypeOK ==
  /\ peer \in [Sessions -> Dpids \cup {None}]
  /\ {open, watched, disconnected, downRaised} \subseteq SUBSET Sessions
  /\ toController \in [Sessions -> Seq(Message)]
  /\ toSwitch \in [Sessions -> Seq({"features", "barrier"})]
  /\ actual \in [Dpids -> SUBSET Port]
  /\ \A k \in Sessions :
       /\ stage[k] \in {Stages[i] : i \in DOMAIN Stages}
       /\ deferred[k] = None \/ deferred[k] \in Seq(Message)
       /\ ports[k] \in [original : SUBSET Port, delta : SUBSET Port, masks : SUBSET PortNos]
  /\ registry \in [Dpids -> Sessions \cup {None}]
  /\ \A d \in Dpids : registry[d] # None =>
       Established(registry[d]) /\ peer[registry[d]] = d

\* Connection.ports is what the switch has once everything it sent has been
\* read, however port changes fall before, into or after the handshake or a
\* refresh, and whatever a port did before.
PortsFaithful ==
  \A k \in open \ disconnected :
    Established(k) /\ toController[k] = <<>> => Values(ports[k]) = actual[peer[k]]

\* A session that has been closed is not in core.openflow.connections, though a
\* features reply can register one that is already disconnected.
ClosedForgotten ==
  \A d \in Dpids : registry[d] # None => registry[d] \in watched

\* ConnectionDown is the last event of a session: no ConnectionUp, no port
\* change of a session whose end was announced, although messages of a
\* disconnected session are still read and handled.
DownIsLast ==
  [][\A k \in downRaised :
       stage'[k] = stage[k] /\ ports'[k] = ports[k] /\ toController'[k] = toController[k]]_vars

\* Every session that was up and was lost, at the far end or by a failing send,
\* is announced as down in the end.
DownFollowsLoss ==
  \A k \in Sessions :
    (Established(k) /\ (k \notin open \/ k \in disconnected)) ~> (k \in downRaised)

\* A switch whose session has come up, and is neither lost nor disconnected, is
\* hidden from core.openflow.connections by nothing but an earlier session of
\* its own: one that has ended meanwhile or answered a refresh late.  Port
\* changes, refreshes, failing sends and the handshake's own end hide no session.
HiddenByOverlapOnly ==
  \A k \in open \ disconnected :
    Established(k) =>
      \/ registry[peer[k]] = k
      \/ \E j \in Sessions :
           /\ j < k /\ peer[j] = peer[k] /\ Dpid(j) # None
           /\ j \in disconnected \/ registry[peer[k]] = j
=============================================================================
