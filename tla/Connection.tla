----------------------------- MODULE Connection -----------------------------
(***************************************************************************)
(* pox/openflow/of_01.py: the sessions switches open to the controller,    *)
(* their handshake, the registry of the nexus (core.openflow.connections), *)
(* the ports a Connection believes its switch has, and how a session ends. *)
(* A switch has one session at a time; when it opens a new one, what is    *)
(* left of the old may still be in the controller's socket.                *)
(***************************************************************************)
EXTENDS Integers, Sequences, FiniteSets

CONSTANTS
  Dpids,        \* the switches
  Sessions,     \* 1 .. n: Connection.ID of the sessions there may be
  PortNos,      \* the ports a switch may have
  States,       \* what a port may be like
  None,         \* no dpid, no session, nothing deferred
  MaxChanges,   \* bound on the port changes of a switch
  MaxEchos,     \* bound on the echo requests
  MaxRefreshes  \* and on the features requests after the handshake

ASSUME ConnectionAssumption ==
  /\ Sessions \subseteq Nat \ {0} /\ IsFiniteSet(Sessions)
  /\ None \notin Sessions \cup Dpids
  /\ {MaxChanges, MaxEchos, MaxRefreshes} \subseteq Nat

VARIABLES
  peer,          \* peer[k]: the switch at the other end, None before accept
  open,          \* the sessions their switch has not lost or left
  toController,  \* toController[k]: what waits in the controller's socket
  toSwitch,      \* toSwitch[k]: the requests the switch has still to answer
  actual,        \* actual[d]: the ports of switch d, pairs <<number, state>>
  watched,       \* the sessions in OpenFlow_01_Task's sockets
  stage,         \* how far the handlers are: see Stages
  deferred,      \* Connection._deferred_port_status
  ports,         \* Connection.ports with its chain, original_ports
  disconnected,  \* the sessions with Connection.disconnected set
  downRaised,    \* those with Connection.disconnection_raised set
  registry,      \* OpenFlowNexus._connections
  budget         \* what is left of the bounds

switchSide == <<open, actual>>
vars == <<peer, open, toController, toSwitch, actual, watched, stage, deferred,
          ports, disconnected, downRaised, registry, budget>>

\* _features_request_sent is set, then _barrier and dpid, then the handlers are
\* those of an established connection and ConnectionUp has been raised.
Stages == <<"hello", "features", "barrier", "up">>

Port == PortNos \X States
Msg(type)          == [type |-> type, ports |-> {}]
FeaturesReply(d)   == [type |-> "features", ports |-> actual[d]]
Added(p)           == [type |-> "port_status", ports |-> {p}]
Deleted(n)         == [type |-> "port_delete", ports |-> {n} \X States]

\* What is told of ports, and may be deferred
PortMessages == {Added(p) : p \in Port} \cup {Deleted(n) : n \in PortNos}
ASSUME DeferredAssumption == None \notin Seq(PortMessages)

Established(k) == stage[k] = "up"
Dpid(k) == IF stage[k] \in {"barrier", "up"} THEN peer[k] ELSE None
-----------------------------------------------------------------------------
(* PortCollection: the deltas and masks of a child over the original ports. *)

Numbers(ps) == {p[1] : p \in ps}
NoPorts     == [original |-> {}, delta |-> {}, masks |-> {}]
Reset(ps)   == [original |-> ps, delta |-> {}, masks |-> {}]

Forget(c, n) ==
  [c EXCEPT !.masks = @ \cup {n}, !.delta = {q \in @ : q[1] # n}]
Update(c, p) ==
  [c EXCEPT !.masks = @ \ {p[1]}, !.delta = {q \in @ : q[1] # p[1]} \cup {p}]

Values(c) ==
  {p \in c.original : p[1] \notin c.masks \cup Numbers(c.delta)} \cup c.delta

\* handle_PORT_STATUS of the established connection
PortStatus(c, m) ==
  IF m.type = "port_delete" THEN Forget(c, CHOOSE n \in Numbers(m.ports) : TRUE)
  ELSE Update(c, CHOOSE p \in m.ports : TRUE)

\* the same for a list of messages, in order
Replay(c, ms) ==
  LET f[n \in 0 .. Len(ms)] == IF n = 0 THEN c ELSE PortStatus(f[n - 1], ms[n])
  IN  f[Len(ms)]
-----------------------------------------------------------------------------
(* Connection.disconnect and send.                                         *)

\* OpenFlowNexus._disconnect: whichever session is registered is forgotten.
Unregister(r, d) == IF d = None THEN r ELSE [r EXCEPT ![d] = None]

\* disconnect(): closed for good, so the event is raised unless it was before.
Close_mut(k, d) ==           \* "already disconnected" taken as a reason to return
  IF k \in disconnected THEN UNCHANGED <<disconnected, registry, downRaised>>
  ELSE /\ disconnected' = disconnected \cup {k}
       /\ registry' = Unregister(registry, d)
       /\ downRaised' = IF d = None THEN downRaised ELSE downRaised \cup {k}
Close(k, d) ==
  /\ disconnected' = disconnected \cup {k}
  /\ registry' = Unregister(registry, d)
  /\ downRaised' = IF d = None THEN downRaised ELSE downRaised \cup {k}

\* send(), while the nexus is at r: nothing happens on a disconnected
\* connection; a failing socket disconnects it but leaves the event to the main
\* loop (defer_event), which finds the socket shut down.
Send_mut(k, d, requests, r) ==            \* defer_event not passed
  \/ /\ toSwitch' = IF k \in open \ disconnected
                    THEN [toSwitch EXCEPT ![k] = @ \o requests] ELSE toSwitch
     /\ registry' = r
     /\ UNCHANGED <<disconnected, downRaised>>
  \/ /\ k \notin open \cup disconnected
     /\ disconnected' = disconnected \cup {k}
     /\ registry' = Unregister(r, d)
     /\ downRaised' = IF d = None THEN downRaised ELSE downRaised \cup {k}
     /\ UNCHANGED toSwitch
Send(k, d, requests, r) ==
  \/ /\ toSwitch' = IF k \in open \ disconnected
                    THEN [toSwitch EXCEPT ![k] = @ \o requests] ELSE toSwitch
     /\ registry' = r
     /\ UNCHANGED <<disconnected, downRaised>>
  \/ /\ k \notin open \cup disconnected
     /\ disconnected' = disconnected \cup {k}
     /\ registry' = Unregister(r, d)
     /\ UNCHANGED <<toSwitch, downRaised>>
-----------------------------------------------------------------------------
(* The switch.                                                             *)

\* accept(): a Connection is made, hellos cross, the new socket is watched.
Accept(k, d) ==
  /\ peer[k] = None /\ \A j \in Sessions : j < k => peer[j] # None
  /\ \A j \in open : peer[j] # d
  /\ peer' = [peer EXCEPT ![k] = d]
  /\ open' = open \cup {k}
  /\ watched' = watched \cup {k}
  /\ toController' = [toController EXCEPT ![k] = <<Msg("hello")>>]
  /\ UNCHANGED <<toSwitch, actual, stage, deferred, ports, disconnected,
                 downRaised, registry, budget>>

\* The switch answers the controller's next request.
Answer(k) ==
  /\ k \in open /\ toSwitch[k] # <<>>
  /\ toController' = [toController EXCEPT ![k] =
       Append(@, IF Head(toSwitch[k]) = "features" THEN FeaturesReply(peer[k])
                 ELSE Msg("barrier"))]
  /\ toSwitch' = [toSwitch EXCEPT ![k] = Tail(@)]
  /\ UNCHANGED <<peer, open, actual, watched, stage, deferred, ports, disconnected,
                 downRaised, registry, budget>>

\* A port comes, goes or changes, and the switch tells its controller.
PortChange(d, n, new) ==
  /\ budget.changes[d] > 0
  /\ new \in {{}} \cup {{p} : p \in {n} \X States}
  /\ new # {p \in actual[d] : p[1] = n}
  /\ actual' = [actual EXCEPT ![d] = {p \in @ : p[1] # n} \cup new]
  /\ toController' = [k \in Sessions |->
       IF k \in open /\ peer[k] = d
       THEN Append(toController[k], IF new = {} THEN Deleted(n)
                                    ELSE Added(CHOOSE p \in new : TRUE))
       ELSE toController[k]]
  /\ budget' = [budget EXCEPT !.changes[d] = @ - 1]
  /\ UNCHANGED <<peer, open, toSwitch, watched, stage, deferred, ports, disconnected,
                 downRaised, registry>>

EchoRequest(k) ==
  /\ k \in open /\ budget.echos > 0
  /\ toController' = [toController EXCEPT ![k] = Append(@, Msg("echo"))]
  /\ budget' = [budget EXCEPT !.echos = @ - 1]
  /\ UNCHANGED <<peer, open, toSwitch, actual, watched, stage, deferred, ports,
                 disconnected, downRaised, registry>>

\* The switch restarts, resets or leaves the session; the controller may still
\* get the first part of what was sent, and learns of the loss by reading on or
\* when a send fails.
Lose(k) ==
  /\ k \in open
  /\ open' = open \ {k}
  /\ \E n \in 0 .. Len(toController[k]) :
       toController' = [toController EXCEPT ![k] = SubSeq(@, 1, n)]
  /\ toSwitch' = [toSwitch EXCEPT ![k] = <<>>]
  /\ UNCHANGED <<peer, actual, watched, stage, deferred, ports, disconnected,
                 downRaised, registry, budget>>
-----------------------------------------------------------------------------
(* The controller: OpenFlow_01_Task reads its sockets in any order.        *)

\* read() takes the next message off the socket and gives it to its handler.
Receive(k, types) ==
  /\ k \in watched /\ toController[k] # <<>> /\ Head(toController[k]).type \in types
  /\ toController' = [toController EXCEPT ![k] = Tail(@)]
  /\ UNCHANGED <<peer, watched, switchSide, budget>>

\* A switch says hello once.
HandleHello(k) ==
  /\ stage[k] = "hello"
  /\ Receive(k, {"hello"})
  /\ stage' = [stage EXCEPT ![k] = "features"]
  /\ Send(k, None, <<"features">>, registry)
  /\ UNCHANGED <<deferred, ports>>

HandleEcho(k) ==
  /\ Receive(k, {"echo"})
  /\ Send(k, Dpid(k), <<>>, registry)
  /\ UNCHANGED <<stage, deferred, ports>>

\* In the handshake: take the ports, start deferring, clear flows, barrier.
HandshakeFeatures_mut(k) ==    \* registered before the connection is up
  /\ stage[k] = "features"
  /\ Receive(k, {"features"})
  /\ stage' = [stage EXCEPT ![k] = "barrier"]
  /\ ports' = [ports EXCEPT ![k] = Reset(Head(toController[k]).ports)]
  /\ deferred' = [deferred EXCEPT ![k] = <<>>]
  /\ Send(k, peer[k], <<"barrier">>, [registry EXCEPT ![peer[k]] = k])
HandshakeFeatures(k) ==
  /\ stage[k] = "features"
  /\ Receive(k, {"features"})
  /\ stage' = [stage EXCEPT ![k] = "barrier"]
  /\ ports' = [ports EXCEPT ![k] = Reset(Head(toController[k]).ports)]
  /\ deferred' = [deferred EXCEPT ![k] = <<>>]
  /\ Send(k, peer[k], <<"barrier">>, registry)

\* After it: an answer to _check_ports.  The connection is registered again.
EstablishedFeatures(k) ==
  /\ Established(k)
  /\ Receive(k, {"features"})
  /\ ports' = [ports EXCEPT ![k] = Reset(Head(toController[k]).ports)]
  /\ registry' = [registry EXCEPT ![peer[k]] = k]
  /\ UNCHANGED <<toSwitch, stage, deferred, disconnected, downRaised>>

\* _finish_connecting, on the barrier's reply or its refusal by a switch that
\* knows no barriers: the connection is registered, listeners to ConnectionUp
\* send, and the port status messages that came too early are handled.
FinishConnecting_mut(k) ==     \* registered by the next features reply only
  /\ stage[k] = "barrier"
  /\ Receive(k, {"barrier"})
  /\ stage' = [stage EXCEPT ![k] = "up"]
  /\ ports' = [ports EXCEPT ![k] = Replay(@, deferred[k])]
  /\ deferred' = [deferred EXCEPT ![k] = IF @ = <<>> THEN @ ELSE None]
  /\ Send(k, peer[k], <<>>, registry)
FinishConnecting(k) ==
  /\ stage[k] = "barrier"
  /\ Receive(k, {"barrier"})
  /\ stage' = [stage EXCEPT ![k] = "up"]
  /\ ports' = [ports EXCEPT ![k] = Replay(@, deferred[k])]
  /\ deferred' = [deferred EXCEPT ![k] = IF @ = <<>> THEN @ ELSE None]
  /\ Send(k, peer[k], <<>>, [registry EXCEPT ![peer[k]] = k])

EstablishedBarrier(k) ==
  /\ Established(k)
  /\ Receive(k, {"barrier"})
  /\ UNCHANGED <<toSwitch, stage, deferred, ports, disconnected, downRaised, registry>>

HandlePortStatus_mut(k) ==     \* too early: dropped
  /\ Receive(k, {"port_status", "port_delete"})
  /\ LET m == Head(toController[k]) IN
     IF Established(k)
     THEN ports' = [ports EXCEPT ![k] = PortStatus(@, m)] /\ UNCHANGED deferred
     ELSE UNCHANGED <<ports, deferred>>
  /\ UNCHANGED <<toSwitch, stage, disconnected, downRaised, registry>>
HandlePortStatus(k) ==
  /\ Receive(k, {"port_status", "port_delete"})
  /\ LET m == Head(toController[k]) IN
     IF Established(k)
     THEN ports' = [ports EXCEPT ![k] = PortStatus(@, m)] /\ UNCHANGED deferred
     ELSE IF deferred[k] = None THEN UNCHANGED <<ports, deferred>>
     ELSE deferred' = [deferred EXCEPT ![k] = Append(@, m)] /\ UNCHANGED ports
  /\ UNCHANGED <<toSwitch, stage, disconnected, downRaised, registry>>

\* The socket is at its end, failed or shut down: close() and stop watching.
ReadEnds(k) ==
  /\ k \in watched /\ toController[k] = <<>>
  /\ k \notin open \/ k \in disconnected
  /\ Close(k, Dpid(k))
  /\ watched' = watched \ {k}
  /\ open' = open \ {k}
  /\ UNCHANGED <<peer, toController, toSwitch, actual, stage, deferred, ports, budget>>

\* spanning_tree's _check_ports timer, for a connection it finds registered
CheckPorts(d) ==
  /\ registry[d] # None /\ budget.refreshes > 0
  /\ Send(registry[d], d, <<"barrier", "features">>, registry)
  /\ budget' = [budget EXCEPT !.refreshes = @ - 1]
  /\ UNCHANGED <<peer, open, toController, actual, watched, stage, deferred, ports>>
-----------------------------------------------------------------------------
Init ==
  /\ peer = [k \in Sessions |-> None]
  /\ open = {} /\ watched = {} /\ disconnected = {} /\ downRaised = {}
  /\ toController = [k \in Sessions |-> <<>>]
  /\ toSwitch = [k \in Sessions |-> <<>>]
  /\ actual \in [Dpids -> {{}} \cup {{p} : p \in Port}]
  /\ stage = [k \in Sessions |-> "hello"]
  /\ deferred = [k \in Sessions |-> None]
  /\ ports = [k \in Sessions |-> NoPorts]
  /\ registry = [d \in Dpids |-> None]
  /\ budget = [changes |-> [d \in Dpids |-> MaxChanges],
               echos |-> MaxEchos, refreshes |-> MaxRefreshes]

Handle(k) ==
  \/ HandleHello(k) \/ HandleEcho(k) \/ HandshakeFeatures(k) \/ EstablishedFeatures(k)
  \/ FinishConnecting(k) \/ EstablishedBarrier(k) \/ HandlePortStatus(k)

Next ==
  \/ \E k \in Sessions, d \in Dpids : Accept(k, d)
  \/ \E k \in Sessions : Answer(k) \/ EchoRequest(k) \/ Lose(k)
  \/ \E d \in Dpids, n \in PortNos : \E new \in SUBSET ({n} \X States) : PortChange(d, n, new)
  \/ \E k \in Sessions : Handle(k) \/ ReadEnds(k)
  \/ \E d \in Dpids : CheckPorts(d)

Spec == Init /\ [][Next]_vars

\* The task's select loop serves every readable socket.
FairSpec == Spec /\ \A k \in Sessions : WF_vars(Handle(k)) /\ WF_vars(ReadEnds(k))
=============================================================================
