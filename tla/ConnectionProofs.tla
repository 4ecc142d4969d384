-------------------------- MODULE ConnectionProofs --------------------------
(***************************************************************************)
(* All safety properties of ConnectionProps, for any number of switches,   *)
(* sessions and ports.                                                     *)
(***************************************************************************)
EXTENDS ConnectionProps, SequenceTheorems, WellFoundedInduction, TLAPS

Shape ==
  /\ DOMAIN peer = Sessions /\ DOMAIN stage = Sessions /\ DOMAIN ports = Sessions
  /\ DOMAIN toController = Sessions /\ DOMAIN registry = Dpids
  /\ watched \subseteq Sessions /\ open \subseteq watched
  /\ \A k \in watched : peer[k] \in Dpids

\* What the nexus holds is watched and established, and of the right switch:
\* only then does closing a session reach its entry.
RegistrySound ==
  \A d \in Dpids : registry[d] # None =>
    /\ registry[d] \in watched /\ peer[registry[d]] = d
    /\ stage[registry[d]] = "up"

\* A session announced as down is not watched and nothing of it is left to read.
DownFinal ==
  \A k \in downRaised : k \in Sessions /\ k \notin watched /\ peer[k] # None

IInv == Shape /\ RegistrySound /\ DownFinal
-----------------------------------------------------------------------------
\* send() removes from the registry at most the session of dpid d, and does not
\* touch the watched sessions or the announcements.
LEMMA SendSound ==
  ASSUME NEW k, NEW d \in Dpids \cup {None}, NEW requests, NEW r, DOMAIN r = Dpids,
         Send(k, d, requests, r)
  PROVE  /\ DOMAIN registry' = Dpids /\ downRaised' = downRaised
         /\ \A e \in Dpids : registry'[e] = r[e] \/ registry'[e] = None
<1>1. CASE registry' = r /\ downRaised' = downRaised
  BY <1>1
<1>2. CASE registry' = Unregister(r, d) /\ downRaised' = downRaised
  BY <1>2 DEF Unregister
<1> QED
  BY <1>1, <1>2 DEF Send

LEMMA DpidKnown ==
  ASSUME IInv, NEW k \in watched
  PROVE  Dpid(k) \in Dpids \cup {None} /\ k \in Sessions /\ peer[k] \in Dpids /\ k # None
BY ConnectionAssumption DEF IInv, Shape, Dpid

\* Reading a message changes what one watched session has left to read.
LEMMA ReceiveSound ==
  ASSUME IInv, NEW k, NEW types, Receive(k, types)
  PROVE  /\ k \in watched /\ k \in Sessions /\ k \notin downRaised
         /\ DOMAIN toController' = Sessions
         /\ \A j \in Sessions : j # k => toController'[j] = toController[j]
         /\ UNCHANGED <<peer, watched, open>>
BY DEF IInv, Shape, DownFinal, Receive, switchSide

\* What a handler of session k may do and still be sound: it leaves the other
\* sessions' handlers alone, and registers k only when it is up.
LEMMA HandlerSound ==
  ASSUME IInv, NEW k, NEW types, Receive(k, types), downRaised' = downRaised,
         DOMAIN stage' = Sessions, DOMAIN ports' = Sessions, DOMAIN registry' = Dpids,
         stage[k] = "up" => stage'[k] = "up",
         \A j \in Sessions : j # k => stage'[j] = stage[j] /\ ports'[j] = ports[j],
         \A e \in Dpids : \/ registry'[e] = registry[e] \/ registry'[e] = None
                          \/ registry'[e] = k /\ e = peer[k] /\ stage'[k] = "up"
  PROVE  IInv' /\ \A j \in downRaised : /\ stage'[j] = stage[j] /\ ports'[j] = ports[j]
                                        /\ toController'[j] = toController[j]
<1>1. /\ k \in watched /\ k \in Sessions /\ k \notin downRaised
      /\ DOMAIN toController' = Sessions
      /\ \A j \in Sessions : j # k => toController'[j] = toController[j]
      /\ UNCHANGED <<peer, watched, open>>
  BY ReceiveSound
<1>2. Shape' /\ DownFinal'
  BY <1>1 DEF IInv, Shape, DownFinal
<1>3. RegistrySound'
  BY <1>1 DEF IInv, Shape, RegistrySound
<1>4. ASSUME NEW j \in downRaised
      PROVE  stage'[j] = stage[j] /\ ports'[j] = ports[j] /\ toController'[j] = toController[j]
  BY <1>1 DEF IInv, DownFinal
<1> QED
  BY <1>2, <1>3, <1>4 DEF IInv
-----------------------------------------------------------------------------
\* What DownIsLast says of one step.
Final ==
  \A j \in downRaised : stage'[j] = stage[j] /\ ports'[j] = ports[j]
                         /\ toController'[j] = toController[j]

LEMMA HandleSound ==
  ASSUME IInv, NEW k \in Sessions, Handle(k)
  PROVE  IInv' /\ Final
<1>1. DOMAIN stage = Sessions /\ DOMAIN ports = Sessions /\ DOMAIN registry = Dpids
  BY DEF IInv, Shape
<1>2. ASSUME NEW types, Receive(k, types)
      PROVE  Dpid(k) \in Dpids \cup {None} /\ peer[k] \in Dpids
  BY <1>2, DpidKnown, ReceiveSound
<1>3. CASE HandleHello(k)
  <2>1. /\ Receive(k, {"hello"}) /\ stage[k] = "hello"
        /\ stage' = [stage EXCEPT ![k] = "features"] /\ UNCHANGED ports
        /\ Send(k, None, <<"features">>, registry)
    BY <1>3 DEF HandleHello
  <2> QED
    BY <1>1, <2>1, SendSound, HandlerSound DEF Final
<1>4. CASE HandleEcho(k)
  <2>1. /\ Receive(k, {"echo"}) /\ UNCHANGED <<stage, ports>>
        /\ Send(k, Dpid(k), <<>>, registry)
    BY <1>4 DEF HandleEcho
  <2> QED
    <3>1. /\ DOMAIN registry' = Dpids /\ downRaised' = downRaised
          /\ \A e \in Dpids : registry'[e] = registry[e] \/ registry'[e] = None
      BY <1>1, <1>2, <2>1, SendSound
    <3> QED
      BY <1>1, <2>1, <3>1, HandlerSound DEF Final
<1>5. CASE HandshakeFeatures(k)
  <2>1. /\ Receive(k, {"features"}) /\ stage[k] = "features"
        /\ stage' = [stage EXCEPT ![k] = "barrier"]
        /\ ports' = [ports EXCEPT ![k] = Reset(Head(toController[k]).ports)]
        /\ Send(k, peer[k], <<"barrier">>, registry)
    BY <1>5 DEF HandshakeFeatures
  <2> QED
    <3>1. /\ DOMAIN registry' = Dpids /\ downRaised' = downRaised
          /\ \A e \in Dpids : registry'[e] = registry[e] \/ registry'[e] = None
      BY <1>1, <1>2, <2>1, SendSound
    <3> QED
      BY <1>1, <2>1, <3>1, HandlerSound DEF Final
<1>6. CASE EstablishedFeatures(k)
  <2>1. /\ Receive(k, {"features"}) /\ UNCHANGED <<stage, downRaised>> /\ stage[k] = "up"
        /\ ports' = [ports EXCEPT ![k] = Reset(Head(toController[k]).ports)]
        /\ registry' = [registry EXCEPT ![peer[k]] = k]
    BY <1>6 DEF EstablishedFeatures, Established
  <2> QED
    BY <1>1, <2>1, HandlerSound DEF Final
<1>7. CASE FinishConnecting(k)
  <2> DEFINE r == [registry EXCEPT ![peer[k]] = k]
  <2>1. /\ Receive(k, {"barrier"})
        /\ stage' = [stage EXCEPT ![k] = "up"]
        /\ ports' = [ports EXCEPT ![k] = Replay(@, deferred[k])]
        /\ Send(k, peer[k], <<>>, r)
    BY <1>7 DEF FinishConnecting
  <2>2. DOMAIN r = Dpids /\ \A e \in Dpids : r[e] = registry[e] \/ (r[e] = k /\ e = peer[k])
    BY <1>1
  <2>3. stage'[k] = "up"
    BY <1>1, <2>1
  <2> HIDE DEF r
  <2>4. /\ DOMAIN registry' = Dpids /\ downRaised' = downRaised
        /\ \A e \in Dpids : registry'[e] = r[e] \/ registry'[e] = None
    BY <1>2, <2>1, <2>2, SendSound
  <2> QED
    BY <1>1, <2>1, <2>2, <2>3, <2>4, HandlerSound DEF Final
<1>8. CASE EstablishedBarrier(k)
  <2>1. Receive(k, {"barrier"}) /\ UNCHANGED <<stage, ports, downRaised, registry>>
    BY <1>8 DEF EstablishedBarrier
  <2> QED
    BY <1>1, <2>1, HandlerSound DEF Final
<1>9. CASE HandlePortStatus(k)
  <2>1. /\ Receive(k, {"port_status", "port_delete"})
        /\ UNCHANGED <<stage, downRaised, registry>>
        /\ \/ UNCHANGED ports
           \/ ports' = [ports EXCEPT ![k] = PortStatus(@, Head(toController[k]))]
    BY <1>9 DEF HandlePortStatus
  <2> QED
    BY <1>1, <2>1, HandlerSound DEF Final
<1> QED
  BY <1>3, <1>4, <1>5, <1>6, <1>7, <1>8, <1>9 DEF Handle
-----------------------------------------------------------------------------
LEMMA InitSound == Init => IInv
<1> SUFFICES ASSUME Init PROVE IInv
  OBVIOUS
<1> QED
  BY DEF Init, IInv, Shape, RegistrySound, DownFinal

LEMMA SwitchStepsSound ==
  ASSUME IInv, NEW k \in Sessions,
         \/ \E d \in Dpids : Accept(k, d)
         \/ Answer(k) \/ EchoRequest(k) \/ Lose(k)
  PROVE  IInv' /\ Final
<1>1. ASSUME NEW d \in Dpids, Accept(k, d) PROVE IInv' /\ Final
  <2>1. Shape'
    BY <1>1, ConnectionAssumption DEF IInv, Shape, Accept
  <2>2. RegistrySound' /\ DownFinal' /\ Final
    BY <1>1, ConnectionAssumption DEF IInv, Shape, RegistrySound, DownFinal, Final, Accept
  <2> QED
    BY <2>1, <2>2 DEF IInv
<1>2. CASE Answer(k)
  BY <1>2 DEF IInv, Shape, RegistrySound, DownFinal, Final, Answer
<1>3. CASE EchoRequest(k)
  BY <1>3 DEF IInv, Shape, RegistrySound, DownFinal, Final, EchoRequest
<1>4. CASE Lose(k)
  BY <1>4 DEF IInv, Shape, RegistrySound, DownFinal, Final, Lose
<1> QED
  BY <1>1, <1>2, <1>3, <1>4

LEMMA PortChangeSound ==
  ASSUME IInv, NEW d, NEW n, NEW new, PortChange(d, n, new)
  PROVE  IInv' /\ Final
BY DEF IInv, Shape, RegistrySound, DownFinal, Final, PortChange

LEMMA ReadEndsSound ==
  ASSUME IInv, NEW k \in Sessions, ReadEnds(k)
  PROVE  IInv' /\ Final
<1>1. /\ k \in watched /\ watched' = watched \ {k} /\ open' = open \ {k}
      /\ UNCHANGED <<peer, toController, stage, ports>>
      /\ registry' = Unregister(registry, Dpid(k))
      /\ downRaised' \subseteq downRaised \cup {k}
  BY DEF ReadEnds, Close
<1>2. Shape'
  BY <1>1 DEF IInv, Shape, Unregister
<1>3. DownFinal' /\ Final
  BY <1>1, ConnectionAssumption DEF IInv, Shape, DownFinal, Final
<1>4. RegistrySound'
  <2>1. Dpid(k) \in Dpids \cup {None}
    BY <1>1, DpidKnown
  <2>2. \A e \in Dpids : registry'[e] = registry[e] \/ registry'[e] = None
    BY <1>1, <2>1 DEF IInv, Shape, Unregister
  <2>3. ASSUME NEW e \in Dpids, registry[e] = k PROVE registry'[e] = None
    <3>1. k # None /\ stage[k] = "up" /\ peer[k] = e
      BY <1>1, <2>3, DpidKnown DEF IInv, RegistrySound
    <3>2. Dpid(k) = e
      BY <3>1 DEF Dpid
    <3> QED
      BY <1>1, <3>2, ConnectionAssumption DEF IInv, Shape, Unregister
  <2> QED
    BY <1>1, <2>2, <2>3 DEF IInv, RegistrySound
<1> QED
  BY <1>2, <1>3, <1>4 DEF IInv

LEMMA CheckPortsSound ==
  ASSUME IInv, NEW d \in Dpids, CheckPorts(d)
  PROVE  IInv' /\ Final
<1>1. /\ DOMAIN registry' = Dpids /\ downRaised' = downRaised
      /\ \A e \in Dpids : registry'[e] = registry[e] \/ registry'[e] = None
  BY SendSound DEF IInv, Shape, CheckPorts
<1>2. UNCHANGED <<peer, open, watched, toController, stage, ports>>
  BY DEF CheckPorts
<1> QED
  BY <1>1, <1>2 DEF IInv, Shape, RegistrySound, DownFinal, Final

LEMMA StepSound == IInv /\ [Next]_vars => IInv' /\ Final
<1> SUFFICES ASSUME IInv, [Next]_vars PROVE IInv' /\ Final
  OBVIOUS
<1>1. CASE Next
  BY <1>1, SwitchStepsSound, PortChangeSound, HandleSound, ReadEndsSound, CheckPortsSound DEF Next
<1>2. CASE UNCHANGED vars
  BY <1>2 DEF vars, switchSide, IInv, Shape, RegistrySound, DownFinal, Final
<1> QED
  BY <1>1, <1>2
-----------------------------------------------------------------------------
\* core.openflow.connections holds no session that has been closed, for any
\* number of switches and sessions, though closing one removes whatever is
\* registered for its dpid.
THEOREM ClosedSessionForgotten == Spec => []ClosedForgotten
<1>1. IInv => ClosedForgotten
  BY DEF IInv, RegistrySound, ClosedForgotten
<1> QED
  BY <1>1, InitSound, StepSound, PTL DEF Spec

\* Nothing follows a session's ConnectionDown: deferring the event of a failing
\* send to the main loop is what makes it so.
THEOREM DownEndsSession == Spec => DownIsLast
<1>1. IInv /\ [Next]_vars =>
        [\A k \in downRaised : stage'[k] = stage[k] /\ ports'[k] = ports[k]
                                /\ toController'[k] = toController[k]]_vars
  BY StepSound DEF Final
<1> QED
  BY <1>1, InitSound, StepSound, PTL DEF Spec, DownIsLast
-----------------------------------------------------------------------------
(* HiddenByOverlapOnly: a session is accepted when its switch has no other *)
(* one open, so that an open session is the newest of its switch.          *)

Newest  == \A k \in open, j \in Sessions : peer[j] = peer[k] /\ j # k => j < k
Ordered == \A j, k \in Sessions : peer[k] # None /\ j < k => peer[j] # None
Fresh   == \A k \in Sessions : peer[k] = None => stage[k] = "hello"
Young   == Newest /\ Ordered /\ Fresh

Named(k)  == stage[k] \in {"barrier", "up"}      \* its dpid is known

HInv == IInv /\ Young /\ HiddenByOverlapOnly

\* A failing send unregisters the dpid it was told, for a session it disconnects.
LEMMA SendHides ==
  ASSUME NEW k, NEW d \in Dpids \cup {None}, NEW requests, NEW r, DOMAIN r = Dpids,
         Send(k, d, requests, r)
  PROVE  /\ \A j \in disconnected : j \in disconnected'
         /\ DOMAIN registry' = Dpids
         /\ \A e \in Dpids :
              registry'[e] = r[e] \/ (e = d /\ d # None /\ k \in disconnected')
<1>1. CASE registry' = r /\ UNCHANGED disconnected
  BY <1>1
<1>2. CASE registry' = Unregister(r, d) /\ disconnected' = disconnected \cup {k}
  BY <1>2 DEF Unregister
<1> QED
  BY <1>1, <1>2 DEF Send

\* A step of session k that changes the registry for k's switch only, to k
\* itself or disconnecting k, hides a session k' > k at most; and k comes up
\* registered or disconnected.
LEMMA StepHides ==
  ASSUME HInv, NEW k \in watched, peer' = peer, open' \subseteq open,
         disconnected \subseteq disconnected', DOMAIN stage' = Sessions,
         \A j \in Sessions : j # k => stage'[j] = stage[j],
         Named(k) => Named(k)',
         stage'[k] = "up" =>
           stage[k] = "up" \/ registry'[peer[k]] = k \/ k \in disconnected',
         \A e \in Dpids :
           \/ registry'[e] = registry[e]
           \/ e = peer[k] /\ Named(k)' /\ (registry'[e] = k \/ k \in disconnected')
  PROVE  Young' /\ HiddenByOverlapOnly'
<1>1. k \in Sessions /\ peer[k] \in Dpids /\ None \notin Dpids
  BY ConnectionAssumption DEF HInv, IInv, Shape
<1>2. Young'
  BY <1>1 DEF HInv, Young, Newest, Ordered, Fresh
<1>3. ASSUME NEW m \in open \ disconnected', stage'[m] = "up",
             registry'[peer[m]] # m
      PROVE  \E j \in Sessions :
               /\ j < m /\ peer[j] = peer[m] /\ Named(j)'
               /\ j \in disconnected' \/ registry'[peer[m]] = j
  <2>1. m \in Sessions /\ peer[m] \in Dpids /\ m \notin disconnected
    BY <1>3 DEF HInv, IInv, Shape
  <2>2. CASE registry'[peer[m]] # registry[peer[m]]
    <3>1. /\ peer[m] = peer[k] /\ Named(k)'
          /\ registry'[peer[m]] = k \/ k \in disconnected'
      BY <2>1, <2>2
    <3>2. k < m
      BY <1>1, <1>3, <2>1, <3>1 DEF HInv, Young, Newest
    <3> QED
      BY <1>1, <3>1, <3>2
  <2>3. CASE registry'[peer[m]] = registry[peer[m]]
    <3>1. stage[m] = "up"
      BY <1>3, <2>1, <2>3
    <3>2. PICK j \in Sessions : /\ j < m /\ peer[j] = peer[m] /\ Dpid(j) # None
                                /\ j \in disconnected \/ registry[peer[m]] = j
      BY <1>3, <2>1, <2>3, <3>1 DEF HInv, HiddenByOverlapOnly, Established
    <3>3. Named(j)
      BY <3>2 DEF Dpid, Named
    <3>4. Named(j)'
      <4>1. CASE j = k
        BY <3>3, <4>1
      <4>2. CASE j # k
        BY <3>2, <3>3, <4>2 DEF Named
      <4> QED
        BY <4>1, <4>2
    <3>5. j \in disconnected' \/ registry'[peer[m]] = j
      BY <2>3, <3>2
    <3> QED
      BY <3>2, <3>4, <3>5
  <2> QED
    BY <2>2, <2>3
<1>4. ASSUME NEW j \in Sessions, Named(j)', NEW m \in open, peer[j] = peer[m]
      PROVE  Dpid(j)' # None
  BY <1>1, <1>4 DEF Named, Dpid, HInv, IInv, Shape
<1>5. ASSUME NEW m \in open \ disconnected', stage'[m] = "up", registry'[peer[m]] # m
      PROVE  \E j \in Sessions : /\ j < m /\ peer[j] = peer[m] /\ Dpid(j)' # None
                                 /\ j \in disconnected' \/ registry'[peer[m]] = j
  BY <1>3, <1>4, <1>5
<1> QED
  BY <1>2, <1>5 DEF HiddenByOverlapOnly, Established

LEMMA InitHides == Init => HInv
<1> SUFFICES ASSUME Init PROVE HInv
  OBVIOUS
<1> QED
  BY InitSound DEF HInv, Init, Young, Newest, Ordered, Fresh, HiddenByOverlapOnly

\* A handler of k that sends, and leaves the registry at r before it does.
LEMMA HandlerHides ==
  ASSUME HInv, NEW k, NEW types, Receive(k, types), NEW d \in {None, peer[k]},
         NEW requests, NEW r, DOMAIN r = Dpids, Send(k, d, requests, r),
         DOMAIN stage' = Sessions,
         \A j \in Sessions : j # k => stage'[j] = stage[j],
         Named(k) => Named(k)', d # None => Named(k)',
         \A e \in Dpids : r[e] = registry[e] \/ (r[e] = k /\ e = peer[k] /\ Named(k)'),
         stage'[k] = "up" => stage[k] = "up" \/ (r[peer[k]] = k /\ d = peer[k])
  PROVE  Young' /\ HiddenByOverlapOnly'
<1>1. k \in watched /\ k \in Sessions /\ peer' = peer /\ open' = open
  BY ReceiveSound DEF HInv
<1>2. peer[k] \in Dpids /\ d \in Dpids \cup {None}
  BY <1>1 DEF HInv, IInv, Shape
<1>3. /\ disconnected \subseteq disconnected' /\ DOMAIN registry' = Dpids
      /\ \A e \in Dpids : registry'[e] = r[e] \/ (e = d /\ d # None /\ k \in disconnected')
  BY <1>2, SendHides
<1>4. \A e \in Dpids :
        \/ registry'[e] = registry[e]
        \/ e = peer[k] /\ Named(k)' /\ (registry'[e] = k \/ k \in disconnected')
  BY <1>3
<1>5. stage'[k] = "up" => stage[k] = "up" \/ registry'[peer[k]] = k \/ k \in disconnected'
  BY <1>2, <1>3
<1> QED
  BY <1>1, <1>3, <1>4, <1>5, StepHides

LEMMA HandleHides ==
  ASSUME HInv, NEW k \in Sessions, Handle(k)
  PROVE  Young' /\ HiddenByOverlapOnly'
<1>1. DOMAIN stage = Sessions /\ DOMAIN registry = Dpids
  BY DEF HInv, IInv, Shape
<1>2. CASE HandleHello(k)
  <2>1. /\ Receive(k, {"hello"}) /\ stage[k] = "hello"
        /\ stage' = [stage EXCEPT ![k] = "features"]
        /\ Send(k, None, <<"features">>, registry)
    BY <1>2 DEF HandleHello
  <2> QED
    BY <1>1, <2>1, HandlerHides DEF Named
<1>3. CASE HandleEcho(k)
  <2>1. /\ Receive(k, {"echo"}) /\ UNCHANGED stage
        /\ Send(k, Dpid(k), <<>>, registry)
    BY <1>3 DEF HandleEcho
  <2>2. Dpid(k) \in {None, peer[k]} /\ (Dpid(k) # None => Named(k))
    BY DEF Dpid, Named
  <2> QED
    BY <1>1, <2>1, <2>2, HandlerHides DEF Named
<1>4. CASE HandshakeFeatures(k)
  <2>1. /\ Receive(k, {"features"}) /\ stage[k] = "features"
        /\ stage' = [stage EXCEPT ![k] = "barrier"]
        /\ Send(k, peer[k], <<"barrier">>, registry)
    BY <1>4 DEF HandshakeFeatures
  <2> QED
    BY <1>1, <2>1, HandlerHides DEF Named
<1>5. CASE EstablishedFeatures(k)
  <2>1. /\ Receive(k, {"features"}) /\ UNCHANGED <<stage, disconnected>> /\ stage[k] = "up"
        /\ registry' = [registry EXCEPT ![peer[k]] = k]
    BY <1>5 DEF EstablishedFeatures, Established
  <2>2. k \in watched /\ peer' = peer /\ open' = open
    BY <2>1, ReceiveSound DEF HInv
  <2> QED
    BY <1>1, <2>1, <2>2, StepHides DEF Named
<1>6. CASE FinishConnecting(k)
  <2> DEFINE r == [registry EXCEPT ![peer[k]] = k]
  <2>1. /\ Receive(k, {"barrier"}) /\ stage' = [stage EXCEPT ![k] = "up"]
        /\ Send(k, peer[k], <<>>, r)
    BY <1>6 DEF FinishConnecting
  <2>2. peer[k] \in Dpids
    BY <2>1, DpidKnown, ReceiveSound DEF HInv
  <2>3. /\ DOMAIN r = Dpids /\ r[peer[k]] = k
        /\ \A e \in Dpids : r[e] = registry[e] \/ (r[e] = k /\ e = peer[k])
    BY <1>1, <2>2
  <2>4. Named(k)' /\ DOMAIN stage' = Sessions
        /\ \A j \in Sessions : j # k => stage'[j] = stage[j]
    BY <1>1, <2>1 DEF Named
  <2> HIDE DEF r
  <2> QED
    BY <2>1, <2>3, <2>4, HandlerHides
<1>7. CASE EstablishedBarrier(k) \/ HandlePortStatus(k)
  <2>1. PICK types : Receive(k, types)
    BY <1>7 DEF EstablishedBarrier, HandlePortStatus
  <2>2. UNCHANGED <<stage, disconnected, registry>>
    BY <1>7 DEF EstablishedBarrier, HandlePortStatus
  <2>3. k \in watched /\ peer' = peer /\ open' = open
    BY <2>1, ReceiveSound DEF HInv
  <2> QED
    BY <1>1, <2>2, <2>3, StepHides DEF Named
<1> QED
  BY <1>2, <1>3, <1>4, <1>5, <1>6, <1>7 DEF Handle

LEMMA AcceptHides ==
  ASSUME HInv, NEW k \in Sessions, NEW d \in Dpids, Accept(k, d)
  PROVE  Young' /\ HiddenByOverlapOnly'
<1>1. /\ peer[k] = None /\ peer' = [peer EXCEPT ![k] = d] /\ open' = open \cup {k}
      /\ \A j \in Sessions : j < k => peer[j] # None
      /\ \A j \in open : peer[j] # d
      /\ DOMAIN peer = Sessions /\ d # None /\ k \in Nat
      /\ \A j \in Sessions : j \in Nat
      /\ UNCHANGED <<stage, disconnected, registry>>
  BY ConnectionAssumption DEF Accept, HInv, IInv, Shape
<1>2. \A j \in open : j \in Sessions /\ j # k /\ peer[j] \in Dpids /\ peer[j] # None
  BY <1>1, ConnectionAssumption DEF HInv, IInv, Shape
<1>3. \A j \in Sessions : k < j => peer[j] = None
  BY <1>1 DEF HInv, Young, Ordered
<1>4. Newest'
  BY <1>1, <1>2, <1>3 DEF HInv, Young, Newest
<1>5. Ordered' /\ Fresh'
  BY <1>1, <1>3 DEF HInv, Young, Ordered, Fresh
<1>6. ASSUME NEW m \in open' \ disconnected', stage'[m] = "up", registry'[peer'[m]] # m
      PROVE  \E j \in Sessions : /\ j < m /\ peer'[j] = peer'[m] /\ Dpid(j)' # None
                                 /\ j \in disconnected' \/ registry'[peer'[m]] = j
  <2>1. m # k /\ m \in open \ disconnected /\ peer'[m] = peer[m]
    BY <1>1, <1>2, <1>6 DEF HInv, Young, Fresh
  <2>2. PICK j \in Sessions : /\ j < m /\ peer[j] = peer[m] /\ Dpid(j) # None
                              /\ j \in disconnected \/ registry[peer[m]] = j
    BY <1>1, <1>6, <2>1 DEF HInv, HiddenByOverlapOnly, Established
  <2>3. j # k /\ peer'[j] = peer[j]
    BY <1>1, <1>2, <2>1, <2>2
  <2>4. Dpid(j)' # None
    BY <1>1, <2>2, <2>3 DEF Dpid
  <2> QED
    BY <1>1, <2>1, <2>2, <2>3, <2>4
<1> QED
  BY <1>4, <1>5, <1>6 DEF Young, HiddenByOverlapOnly, Established

LEMMA QuietHides ==
  ASSUME HInv, open' \subseteq open, UNCHANGED <<peer, stage, disconnected, registry>>
  PROVE  Young' /\ HiddenByOverlapOnly'
BY DEF HInv, Young, Newest, Ordered, Fresh, HiddenByOverlapOnly, Established, Dpid

LEMMA ReadEndsHides ==
  ASSUME HInv, NEW k \in Sessions, ReadEnds(k)
  PROVE  Young' /\ HiddenByOverlapOnly'
<1>1. /\ k \in watched /\ open' \subseteq open /\ UNCHANGED <<peer, stage>>
      /\ disconnected' = disconnected \cup {k}
      /\ registry' = Unregister(registry, Dpid(k))
      /\ DOMAIN stage = Sessions /\ DOMAIN registry = Dpids
  BY DEF ReadEnds, Close, HInv, IInv, Shape
<1>2. Dpid(k) = None \/ (Dpid(k) = peer[k] /\ Named(k)')
  BY <1>1 DEF Dpid, Named
<1>3. \A e \in Dpids : registry'[e] = registry[e] \/ (e = peer[k] /\ Named(k)')
  BY <1>1, <1>2 DEF Unregister
<1> QED
  BY <1>1, <1>3, StepHides DEF Named

LEMMA CheckPortsHides ==
  ASSUME HInv, NEW d \in Dpids, CheckPorts(d)
  PROVE  Young' /\ HiddenByOverlapOnly'
<1>0. PICK k, requests : k = registry[d] /\ Send(k, d, requests, registry)
  BY DEF CheckPorts
<1>1. k # None /\ UNCHANGED <<peer, open, stage>> /\ DOMAIN stage = Sessions
  BY <1>0 DEF CheckPorts, HInv, IInv, Shape
<1>2. k \in watched /\ peer[k] = d /\ stage[k] = "up"
  BY <1>0, <1>1 DEF HInv, IInv, RegistrySound
<1>3. /\ disconnected \subseteq disconnected'
      /\ \A e \in Dpids : registry'[e] = registry[e] \/ (e = d /\ k \in disconnected')
  <2>1. CASE UNCHANGED <<registry, disconnected>>
    BY <2>1
  <2>2. CASE /\ registry' = Unregister(registry, d)
             /\ disconnected' = disconnected \cup {k}
    BY <2>2 DEF Unregister, HInv, IInv, Shape
  <2> QED
    BY <1>0, <2>1, <2>2 DEF Send
<1>4. Named(k)'
  BY <1>1, <1>2 DEF Named
<1> QED
  BY <1>1, <1>2, <1>3, <1>4, StepHides

LEMMA NextHides == HInv /\ [Next]_vars => HInv'
<1> SUFFICES ASSUME HInv, [Next]_vars PROVE Young' /\ HiddenByOverlapOnly'
  BY StepSound DEF HInv
<1>1. ASSUME NEW k \in Sessions, Answer(k) \/ EchoRequest(k) \/ Lose(k)
      PROVE  Young' /\ HiddenByOverlapOnly'
  BY <1>1, QuietHides DEF Answer, EchoRequest, Lose
<1>2. ASSUME NEW d, NEW n, NEW new, PortChange(d, n, new)
      PROVE  Young' /\ HiddenByOverlapOnly'
  BY <1>2, QuietHides DEF PortChange
<1>3. CASE UNCHANGED vars
  BY <1>3, QuietHides DEF vars, switchSide
<1> QED
  BY <1>1, <1>2, <1>3, AcceptHides, HandleHides, ReadEndsHides, CheckPortsHides DEF Next

\* Whatever happens to ports, refreshes and sends, a switch's open session that
\* is up is missing from core.openflow.connections only because an earlier
\* session of that switch unregistered or replaced it.
THEOREM SessionHiddenByOverlapOnly == Spec => []HiddenByOverlapOnly
<1>1. HInv => HiddenByOverlapOnly
  BY DEF HInv
<1> QED
  BY <1>1, InitHides, NextHides, PTL DEF Spec
-----------------------------------------------------------------------------
(* Ports.  What a message says of port number n is a set of at most one    *)
(* port; the last message about n decides.                                 *)

\* Nothing is said of ports that have no states to be in.
Told == {m \in PortMessages : m.ports # {}}
Messages == Told \cup {Msg(t) : t \in {"hello", "echo", "barrier"}}
            \cup {[type |-> "features", ports |-> ps] : ps \in SUBSET Port}
Collection == [original : SUBSET Port, delta : SUBSET Port, masks : SUBSET PortNos]

Of(ps, n)    == {p \in ps : p[1] = n}
About(m, n)  == m.type = "features" \/ \E p \in m.ports : p[1] = n
Tells(m, n)  == IF m.type = "port_delete" THEN {} ELSE Of(m.ports, n)

LastSays(q, n, now) ==
  \A i \in DOMAIN q :
    About(q[i], n) /\ (\A j \in DOMAIN q : i < j => ~About(q[j], n)) => Tells(q[i], n) = now
Silent(q, n) == \A i \in DOMAIN q : ~About(q[i], n)

\* Who knows before of n and reads q knows now of n.
Leads(before, q, n, now) == LastSays(q, n, now) /\ (Silent(q, n) => before = now)

LEMMA MessageTypes ==
  /\ Told \subseteq Messages /\ Messages \subseteq Message
  /\ \A m \in Messages : m.ports \subseteq Port
  /\ \A m \in Told :
       \/ m.type = "port_status" /\ \E p \in Port : m.ports = {p}
       \/ m.type = "port_delete" /\ \E n \in PortNos : m.ports = {n} \X States /\ States # {}
  /\ \A m \in Messages : m.type \in {"port_status", "port_delete"} => m \in Told
  /\ \A m \in Messages, n \in PortNos : m.type \in {"hello", "echo", "barrier"} => ~About(m, n)
<1>1. ASSUME NEW p \in Port
      PROVE  /\ Added(p).type = "port_status" /\ Added(p).ports = {p}
             /\ Added(p) \in Message
  BY DEF Added, Message
<1>2. ASSUME NEW n \in PortNos
      PROVE  /\ Deleted(n).type = "port_delete" /\ Deleted(n).ports = {n} \X States
             /\ {n} \X States \subseteq Port /\ Deleted(n) \in Message
  BY DEF Deleted, Message, Port
<1>3. ASSUME NEW t \in {"hello", "echo", "barrier"}
      PROVE  Msg(t).type = t /\ Msg(t).ports = {} /\ Msg(t) \in Message
  BY DEF Msg, Message
<1>4. ASSUME NEW ps \in SUBSET Port, NEW m, m = [type |-> "features", ports |-> ps]
      PROVE  m.type = "features" /\ m.ports = ps /\ m \in Message
  BY <1>4 DEF Message
<1>5. Messages \subseteq Message
  BY <1>1, <1>2, <1>3, <1>4 DEF Messages, Told, PortMessages
<1>6. \A m \in Told :
       \/ m.type = "port_status" /\ \E p \in Port : m.ports = {p}
       \/ m.type = "port_delete" /\ \E n \in PortNos : m.ports = {n} \X States /\ States # {}
  BY <1>1, <1>2 DEF Told, PortMessages
<1>7. ASSUME NEW m \in Messages, m.type \in {"port_status", "port_delete"}
      PROVE  m \in Told
  BY <1>3, <1>4, <1>7 DEF Messages
<1>8. ASSUME NEW m \in Messages, m.type \in {"hello", "echo", "barrier"} PROVE m.ports = {}
  BY <1>3, <1>4, <1>6, <1>8 DEF Messages
<1>9. \A m \in Messages, n \in PortNos : m.type \in {"hello", "echo", "barrier"} => ~About(m, n)
  BY <1>8 DEF About
<1>10. \A m \in Messages : m.ports \subseteq Port
  BY <1>5 DEF Message
<1>11. Told \subseteq Messages
  BY DEF Messages
<1> QED BY <1>5, <1>6, <1>7, <1>9, <1>10, <1>11

\* A message at the end of a queue.
LEMMA AppendSays ==
  ASSUME NEW S, NEW q \in Seq(S), NEW m \in S, NEW n
  PROVE  /\ About(m, n) => /\ ~Silent(Append(q, m), n)
                           /\ LastSays(Append(q, m), n, Tells(m, n))
         /\ ~About(m, n) => /\ Silent(Append(q, m), n) <=> Silent(q, n)
                            /\ \A now : LastSays(q, n, now) => LastSays(Append(q, m), n, now)
<1> DEFINE u == Append(q, m)
<1>1. /\ Len(q) \in Nat /\ DOMAIN q = 1 .. Len(q) /\ DOMAIN u = 1 .. Len(q) + 1
      /\ \A i \in 1 .. Len(q) : u[i] = q[i]
      /\ u[Len(q) + 1] = m
  BY AppendProperties, LenProperties
<1> HIDE DEF u
<1>2. ASSUME About(m, n) PROVE ~Silent(u, n) /\ LastSays(u, n, Tells(m, n))
  <2>1. Len(q) + 1 \in DOMAIN u /\ About(u[Len(q) + 1], n)
    BY <1>1, <1>2
  <2>2. \A i \in DOMAIN u : i = Len(q) + 1 \/ i < Len(q) + 1
    BY <1>1
  <2> QED BY <1>1, <2>1, <2>2 DEF Silent, LastSays
<1>3. ASSUME ~About(m, n) PROVE Silent(u, n) <=> Silent(q, n)
  <2>1. \A i \in DOMAIN u : i \in DOMAIN q \/ i = Len(q) + 1
    BY <1>1
  <2>2. \A i \in DOMAIN q : i \in DOMAIN u
    BY <1>1
  <2> QED BY <1>1, <1>3, <2>1, <2>2 DEF Silent
<1>4. ASSUME ~About(m, n), NEW now, LastSays(q, n, now) PROVE LastSays(u, n, now)
  <2> SUFFICES ASSUME NEW i \in DOMAIN u, About(u[i], n),
                      \A j \in DOMAIN u : i < j => ~About(u[j], n)
               PROVE  Tells(u[i], n) = now
    BY DEF LastSays
  <2>1. i \in DOMAIN q
    BY <1>1, <1>4
  <2>2. \A j \in DOMAIN q : j \in DOMAIN u /\ u[j] = q[j]
    BY <1>1
  <2> QED BY <1>4, <2>1, <2>2 DEF LastSays
<1> QED BY <1>2, <1>3, <1>4 DEF u

\* A message taken off a queue.
LEMMA TailSays ==
  ASSUME NEW S, NEW q \in Seq(S), q # <<>>, NEW n, NEW now, LastSays(q, n, now)
  PROVE  /\ Head(q) \in S /\ Tail(q) \in Seq(S)
         /\ LastSays(Tail(q), n, now)
         /\ Silent(Tail(q), n) => IF About(Head(q), n) THEN Tells(Head(q), n) = now
                                  ELSE Silent(q, n)
<1> DEFINE u == Tail(q)
<1>1. /\ Len(q) \in Nat \ {0} /\ DOMAIN q = 1 .. Len(q) /\ DOMAIN u = 1 .. Len(q) - 1
      /\ \A i \in 1 .. Len(q) - 1 : u[i] = q[i + 1]
      /\ Head(q) = q[1] /\ Head(q) \in S /\ u \in Seq(S)
  BY HeadTailProperties, LenProperties, EmptySeq
<1> HIDE DEF u
<1>2. \A j \in DOMAIN q : j = 1 \/ (j > 1 /\ j - 1 \in DOMAIN u /\ u[j - 1] = q[j])
  BY <1>1
<1>3. LastSays(u, n, now)
  <2> SUFFICES ASSUME NEW i \in DOMAIN u, About(u[i], n),
                      \A j \in DOMAIN u : i < j => ~About(u[j], n)
               PROVE  Tells(u[i], n) = now
    BY DEF LastSays
  <2>1. i + 1 \in DOMAIN q /\ q[i + 1] = u[i] /\ i \in Nat /\ i >= 1
    BY <1>1
  <2>2. ASSUME NEW j \in DOMAIN q, i + 1 < j PROVE ~About(q[j], n)
    <3>1. j - 1 \in DOMAIN u /\ u[j - 1] = q[j] /\ i < j - 1
      BY <1>1, <1>2, <2>1, <2>2
    <3> QED BY <3>1
  <2> QED BY <2>1, <2>2 DEF LastSays
<1>4. ASSUME Silent(u, n) PROVE \A j \in DOMAIN q : 1 < j => ~About(q[j], n)
  BY <1>1, <1>2, <1>4 DEF Silent
<1>5. 1 \in DOMAIN q /\ \A j \in DOMAIN q : j = 1 \/ 1 < j
  BY <1>1
<1> QED BY <1>1, <1>3, <1>4, <1>5 DEF LastSays, Silent, u

\* So a handler that makes of before what the message says, if it says anything,
\* is led where the queue led.
LEMMA ReadLeads ==
  ASSUME NEW S, NEW q \in Seq(S), q # <<>>, NEW n, NEW now, NEW before, NEW after,
         Leads(before, q, n, now),
         after = IF About(Head(q), n) THEN Tells(Head(q), n) ELSE before
  PROVE  Leads(after, Tail(q), n, now)
BY TailSays DEF Leads

\* PortCollection: a port status message, of the port it is about and others.
LEMMA PortStatusSays ==
  ASSUME NEW c \in Collection, NEW m \in Told
  PROVE  /\ PortStatus(c, m) \in Collection
         /\ \A n \in PortNos : Of(Values(PortStatus(c, m)), n) =
              IF About(m, n) THEN Tells(m, n) ELSE Of(Values(c), n)
<1>1. CASE m.type = "port_status" /\ \E p \in Port : m.ports = {p}
  <2>1. PICK p \in Port : m.ports = {p}
    BY <1>1
  <2>2. PortStatus(c, m) = Update(c, p)
    BY <1>1, <2>1 DEF PortStatus
  <2>3. p[1] \in PortNos
    BY DEF Port
  <2>4. /\ Update(c, p).original = c.original /\ Update(c, p).masks = c.masks \ {p[1]}
        /\ Update(c, p).delta = {q \in c.delta : q[1] # p[1]} \cup {p}
    BY DEF Update, Collection
  <2>5. Update(c, p) \in Collection
    BY DEF Update, Collection
  <2>6. \A n \in PortNos : About(m, n) <=> p[1] = n
    BY <1>1, <2>1 DEF About
  <2>7. \A n \in PortNos : Of(Values(Update(c, p)), n) = IF p[1] = n THEN {p} ELSE Of(Values(c), n)
    BY <2>4 DEF Of, Values, Numbers
  <2>8. Tells(m, p[1]) = {p}
    BY <1>1, <2>1 DEF Tells, Of
  <2> QED BY <2>2, <2>5, <2>6, <2>7, <2>8
<1>2. CASE m.type = "port_delete" /\ \E n \in PortNos : m.ports = {n} \X States /\ States # {}
  <2>1. PICK k \in PortNos : m.ports = {k} \X States /\ States # {}
    BY <1>2
  <2>2. Numbers(m.ports) = {k}
    <3>1. PICK x \in States : TRUE
      BY <2>1
    <3>2. <<k, x>> \in m.ports /\ <<k, x>>[1] = k
      BY <2>1
    <3> QED BY <2>1, <3>2 DEF Numbers
  <2>3. PortStatus(c, m) = Forget(c, k)
    BY <1>2, <2>2 DEF PortStatus
  <2>4. /\ Forget(c, k).original = c.original /\ Forget(c, k).masks = c.masks \cup {k}
        /\ Forget(c, k).delta = {q \in c.delta : q[1] # k}
    BY DEF Forget, Collection
  <2>5. Forget(c, k) \in Collection
    BY DEF Forget, Collection
  <2>6. \A n \in PortNos : About(m, n) <=> k = n
    BY <1>2, <2>2 DEF About, Numbers
  <2>7. \A n \in PortNos : Of(Values(Forget(c, k)), n) = IF k = n THEN {} ELSE Of(Values(c), n)
    BY <2>4 DEF Of, Values, Numbers
  <2>8. Tells(m, k) = {}
    BY <1>2 DEF Tells
  <2> QED BY <2>3, <2>5, <2>6, <2>7, <2>8
<1> QED BY <1>1, <1>2, MessageTypes

LEMMA ResetSays ==
  ASSUME NEW ps \in SUBSET Port
  PROVE  Reset(ps) \in Collection /\ Values(Reset(ps)) = ps
BY DEF Reset, Collection, Values, Numbers

\* Induction up to a number.
LEMMA UpTo ==
  ASSUME NEW N \in Nat, NEW S, 0 \in S, \A n \in 0 .. N : n \in S /\ n < N => n + 1 \in S
  PROVE  \A n \in 0 .. N : n \in S
<1> DEFINE T == {n \in 0 .. N : n \notin S}
<1> SUFFICES ASSUME T # {} PROVE FALSE
  OBVIOUS
<1>0. \A n \in 0 .. N : n \in Nat
  OBVIOUS
<1>1. PICK x \in T : \A y \in T : ~ (<<y, x>> \in OpToRel(<, Nat))
  <2>1. T \subseteq Nat
    BY <1>0
  <2> QED BY <2>1, NatLessThanWellFounded, WFMin
<1>2. x \in 0 .. N /\ x # 0 /\ x - 1 \in 0 .. N /\ x - 1 < x /\ x - 1 \in Nat /\ x \in Nat
  OBVIOUS
<1>3. <<x - 1, x>> \in OpToRel(<, Nat)
  BY <1>2 DEF OpToRel
<1>4. x - 1 \in S
  BY <1>1, <1>2, <1>3
<1> QED BY <1>2, <1>4

\* _finish_connecting: the deferred messages, in order, lead where they lead
\* one by one.
LEMMA ReplaySays ==
  ASSUME NEW c \in Collection, NEW ms \in Seq(Told)
  PROVE  /\ Replay(c, ms) \in Collection
         /\ \A n \in PortNos : \A now :
              Leads(Of(Values(c), n), ms, n, now) => Of(Values(Replay(c, ms)), n) = now
<1> DEFINE N == Len(ms)
           Is(f, k) == f = [n \in 0 .. k |-> IF n = 0 THEN c ELSE PortStatus(f[n - 1], ms[n])]
           f == CHOOSE g : Is(g, N)
<1>1. N \in Nat /\ \A n \in 1 .. N : ms[n] \in Told /\ n \in DOMAIN ms
  BY ElementOfSeq, LenProperties
<1>2. Is(f, N)
  <2> DEFINE S == {k \in 0 .. N : \E g : Is(g, k)}
  <2>1. 0 \in S
    <3> DEFINE e == [n \in 0 .. 0 |-> c]
    <3>1. Is(e, 0)
      OBVIOUS
    <3> HIDE DEF Is, e
    <3>2. \E g : Is(g, 0)
      BY <3>1
    <3> QED BY <1>1, <3>2
  <2>2. ASSUME NEW k \in 0 .. N, k \in S, k < N PROVE k + 1 \in S
    <3>1. PICK g : Is(g, k)
      BY <2>2
    <3> DEFINE e == [n \in 0 .. k + 1 |-> IF n = k + 1 THEN PortStatus(g[k], ms[k + 1]) ELSE g[n]]
    <3>2. \A n \in 0 .. k : e[n] = g[n]
      BY <1>1
    <3>3. ASSUME NEW n \in 0 .. k + 1
          PROVE  e[n] = IF n = 0 THEN c ELSE PortStatus(e[n - 1], ms[n])
      <4>1. CASE n = k + 1
        <5>1. n # 0 /\ n - 1 = k /\ k \in 0 .. k
          BY <1>1, <4>1
        <5> QED BY <3>2, <4>1, <5>1
      <4>2. CASE n # k + 1
        <5>1. n \in 0 .. k /\ (n # 0 => n - 1 \in 0 .. k)
          BY <1>1, <4>2
        <5>2. g[n] = IF n = 0 THEN c ELSE PortStatus(g[n - 1], ms[n])
          BY <3>1, <5>1
        <5> QED BY <3>2, <5>1, <5>2
      <4> QED BY <4>1, <4>2
    <3>4. e = [n \in 0 .. k + 1 |-> e[n]]
      OBVIOUS
    <3> HIDE DEF e
    <3>5. Is(e, k + 1)
      BY <3>3, <3>4
    <3> HIDE DEF Is
    <3>6. \E u : Is(u, k + 1)
      BY <3>5
    <3>7. k + 1 \in 0 .. N
      BY <1>1, <2>2
    <3> QED BY <3>6, <3>7
  <2> HIDE DEF Is
  <2>3. N \in S
    <3> HIDE DEF S
    <3> QED BY <1>1, <2>1, <2>2, UpTo
  <2> QED BY <2>3
<1>3. Replay(c, ms) = f[N]
  BY DEF Replay
<1> HIDE DEF f
<1>4. f[0] = c /\ \A n \in 1 .. N : f[n] = PortStatus(f[n - 1], ms[n])
  BY <1>1, <1>2
\* What is known of n after k messages: what was, or what message i says.
<1> DEFINE Old(k, n) == /\ \A j \in 1 .. k : ~About(ms[j], n)
                        /\ Of(Values(f[k]), n) = Of(Values(c), n)
           From(i, k, n) == /\ About(ms[i], n)
                            /\ \A j \in 1 .. k : i < j => ~About(ms[j], n)
                            /\ Of(Values(f[k]), n) = Tells(ms[i], n)
           Seen(k, n) == Old(k, n) \/ \E i \in 1 .. k : From(i, k, n)
           R == {k \in 0 .. N : f[k] \in Collection /\ \A n \in PortNos : Seen(k, n)}
<1>5. 0 \in R
  BY <1>1, <1>4
<1>6. ASSUME NEW k \in 0 .. N, k \in R, k < N PROVE k + 1 \in R
  <2>1. /\ k + 1 \in 1 .. N /\ (k + 1) - 1 = k /\ k \in Nat
        /\ \A j \in 1 .. k + 1 : j = k + 1 \/ (j \in 1 .. k /\ j < k + 1)
        /\ \A j \in 1 .. k : j \in 1 .. k + 1
    BY <1>1, <1>6
  <2>2. f[k + 1] = PortStatus(f[k], ms[k + 1]) /\ ms[k + 1] \in Told /\ f[k] \in Collection
    BY <1>1, <1>4, <1>6, <2>1
  <2>3. /\ f[k + 1] \in Collection
        /\ \A n \in PortNos : Of(Values(f[k + 1]), n) =
             IF About(ms[k + 1], n) THEN Tells(ms[k + 1], n) ELSE Of(Values(f[k]), n)
    BY <2>2, PortStatusSays
  <2>4. ASSUME NEW n \in PortNos PROVE Seen(k + 1, n)
    <3>1. CASE About(ms[k + 1], n)
      <4>1. \A j \in 1 .. k + 1 : ~(k + 1 < j)
        BY <2>1
      <4> QED BY <2>1, <2>3, <3>1, <4>1
    <3>2. CASE ~About(ms[k + 1], n)
      <4>1. Seen(k, n) /\ Of(Values(f[k + 1]), n) = Of(Values(f[k]), n)
        BY <1>6, <2>3, <3>2
      <4>2. CASE Old(k, n)
        <5>1. \A j \in 1 .. k + 1 : ~About(ms[j], n)
          BY <2>1, <3>2, <4>2
        <5> QED BY <4>1, <4>2, <5>1
      <4>3. ASSUME NEW i \in 1 .. k, From(i, k, n) PROVE Seen(k + 1, n)
        <5>1. \A j \in 1 .. k + 1 : i < j => ~About(ms[j], n)
          BY <2>1, <3>2, <4>3
        <5>2. i \in 1 .. k + 1
          BY <2>1
        <5>3. From(i, k + 1, n)
          BY <4>1, <4>3, <5>1
        <5> HIDE DEF From
        <5> QED BY <5>2, <5>3
      <4> HIDE DEF Old, From
      <4> QED BY <4>1, <4>2, <4>3
    <3> QED BY <3>1, <3>2
  <2>5. k + 1 \in 0 .. N
    BY <1>1, <2>1
  <2> QED BY <2>3, <2>4, <2>5
<1>7. N \in R
  <2> HIDE DEF R
  <2> QED BY <1>1, <1>5, <1>6, UpTo
<1>8. ASSUME NEW n \in PortNos, NEW now, Leads(Of(Values(c), n), ms, n, now)
      PROVE  Of(Values(f[N]), n) = now
  <2>1. Seen(N, n)
    BY <1>7
  <2>2. DOMAIN ms = 1 .. N
    BY LenProperties
  <2>3. CASE Old(N, n)
    <3>1. Silent(ms, n)
      BY <2>2, <2>3 DEF Silent
    <3> QED BY <1>8, <2>3, <3>1 DEF Leads
  <2>4. ASSUME NEW i \in 1 .. N, From(i, N, n)
        PROVE  Of(Values(f[N]), n) = now
    <3>1. LastSays(ms, n, now)
      BY <1>8 DEF Leads
    <3>2. Tells(ms[i], n) = now
      BY <2>2, <2>4, <3>1 DEF LastSays
    <3> QED BY <2>4, <3>2
  <2> HIDE DEF Old, From
  <2> QED BY <2>1, <2>3, <2>4
<1> QED BY <1>3, <1>7, <1>8
-----------------------------------------------------------------------------
Typed ==
  /\ peer \in [Sessions -> Dpids \cup {None}]
  /\ disconnected \subseteq Sessions
  /\ toController \in [Sessions -> Seq(Messages)]
  /\ toSwitch \in [Sessions -> Seq({"features", "barrier"})]
  /\ actual \in [Dpids -> SUBSET Port]
  /\ stage \in [Sessions -> {"hello", "features", "barrier", "up"}]
  /\ deferred \in [Sessions -> Seq(Told) \cup {None}]
  /\ \A k \in Sessions : stage[k] = "barrier" => deferred[k] # None
  /\ ports \in [Sessions -> Collection]
  /\ registry \in [Dpids -> Sessions \cup {None}]

\* What a session in stage st, with ports c and deferred messages ms, knows of n
Knows(st, c, ms, n, now) ==
  /\ st = "up" => Of(Values(c), n) = now
  /\ st = "barrier" => Leads(Of(Values(c), n), ms, n, now)

\* What has still to be read of an open session, or its last part about n, says
\* what n is now; if nothing in it does, the session knows already.
View(k) ==
  k \in open =>
    \A n \in PortNos :
      /\ LastSays(toController[k], n, Of(actual[peer[k]], n))
      /\ Silent(toController[k], n) =>
           Knows(stage[k], ports[k], deferred[k], n, Of(actual[peer[k]], n))

PInv == HInv /\ Typed /\ \A k \in Sessions : View(k)

LEMMA DeferredNone == None \notin Seq(Told) /\ <<>> \in Seq(Told) /\ <<>> # None
<1>1. Told \subseteq PortMessages
  BY DEF Told
<1> HIDE DEF Told, PortMessages
<1>2. \A q \in Seq(Told) : q \in Seq(PortMessages)
  BY <1>1
<1>3. <<>> \in Seq(Told)
  OBVIOUS
<1> QED BY <1>2, <1>3, DeferredAssumption

LEMMA InitPorts == Init => PInv
<1> SUFFICES ASSUME Init PROVE PInv
  OBVIOUS
<1>1. Typed
  <2>1. actual \in [Dpids -> SUBSET Port]
    BY DEF Init
  <2>2. NoPorts \in Collection
    BY DEF NoPorts, Collection
  <2> QED BY <2>1, <2>2 DEF Init, Typed
<1> QED BY <1>1, InitHides DEF Init, PInv, View

LEMMA SendTyped ==
  ASSUME Typed, NEW k \in Sessions, NEW d, NEW requests \in Seq({"features", "barrier"}),
         NEW r \in [Dpids -> Sessions \cup {None}], Send(k, d, requests, r)
  PROVE  /\ toSwitch' \in [Sessions -> Seq({"features", "barrier"})]
         /\ disconnected' \subseteq Sessions
         /\ registry' \in [Dpids -> Sessions \cup {None}]
<1>1. CASE /\ toSwitch' = IF k \in open \ disconnected
                           THEN [toSwitch EXCEPT ![k] = @ \o requests] ELSE toSwitch
           /\ registry' = r /\ UNCHANGED disconnected
  <2>1. toSwitch[k] \o requests \in Seq({"features", "barrier"})
    BY ConcatProperties DEF Typed
  <2> QED BY <1>1, <2>1 DEF Typed
<1>2. CASE /\ disconnected' = disconnected \cup {k} /\ UNCHANGED toSwitch
           /\ registry' = Unregister(r, d)
  BY <1>2 DEF Typed, Unregister
<1> QED BY <1>1, <1>2 DEF Send

\* A queue that grows: what is appended says what is so from now on.
LEMMA AppendedView ==
  ASSUME Typed, NEW k \in Sessions, View(k), NEW m \in Messages,
         open' = open, stage' = stage, ports' = ports, deferred' = deferred, peer' = peer,
         toController'[k] = Append(toController[k], m),
         \A n \in PortNos :
           IF About(m, n) THEN Tells(m, n) = Of(actual'[peer[k]], n)
           ELSE Of(actual'[peer[k]], n) = Of(actual[peer[k]], n)
  PROVE  View(k)'
<1> SUFFICES ASSUME k \in open, NEW n \in PortNos
             PROVE  /\ LastSays(toController'[k], n, Of(actual'[peer[k]], n))
                    /\ Silent(toController'[k], n) =>
                         Knows(stage[k], ports[k], deferred[k], n, Of(actual'[peer[k]], n))
  BY DEF View
<1>1. toController[k] \in Seq(Messages)
  BY DEF Typed
<1>2. CASE About(m, n)
  BY <1>1, <1>2, AppendSays
<1>3. CASE ~About(m, n)
  BY <1>1, <1>3, AppendSays DEF View
<1> QED BY <1>2, <1>3

\* A session that is not concerned.
LEMMA SameView ==
  ASSUME NEW k, View(k), k \in open' => k \in open,
         k \in open => /\ stage'[k] = stage[k] /\ ports'[k] = ports[k] /\ deferred'[k] = deferred[k]
                       /\ toController'[k] = toController[k]
                       /\ actual'[peer'[k]] = actual[peer[k]]
  PROVE  View(k)'
BY DEF View

\* A queue that is read.
LEMMA ReadView ==
  ASSUME PInv, NEW k \in Sessions, NEW types, Receive(k, types), open' = open,
         \A j \in Sessions \ {k} :
           stage'[j] = stage[j] /\ ports'[j] = ports[j] /\ deferred'[j] = deferred[j],
         \A n \in PortNos : \A now :
           (IF About(Head(toController[k]), n) THEN Tells(Head(toController[k]), n) = now
            ELSE Knows(stage[k], ports[k], deferred[k], n, now))
             => Knows(stage'[k], ports'[k], deferred'[k], n, now)
  PROVE  \A j \in Sessions : View(j)'
<1>1. /\ toController[k] \in Seq(Messages) /\ toController[k] # <<>>
      /\ toController' = [toController EXCEPT ![k] = Tail(@)]
      /\ actual' = actual /\ peer' = peer /\ \A j \in Sessions : View(j)
  BY DEF PInv, Typed, Receive, switchSide
<1>2. ASSUME NEW j \in Sessions \ {k} PROVE View(j)'
  BY <1>1, <1>2, SameView DEF PInv, Typed
<1>3. View(k)'
  <2> DEFINE q == toController[k]
  <2> SUFFICES ASSUME k \in open, NEW n \in PortNos, NEW now, now = Of(actual[peer[k]], n)
               PROVE  /\ LastSays(Tail(q), n, now)
                      /\ Silent(Tail(q), n) =>
                           Knows(stage'[k], ports'[k], deferred'[k], n, now)
    BY <1>1 DEF View, PInv, Typed
  <2>1. LastSays(q, n, now) /\ (Silent(q, n) => Knows(stage[k], ports[k], deferred[k], n, now))
    BY <1>1 DEF View
  <2> HIDE DEF q
  <2>2. /\ LastSays(Tail(q), n, now)
        /\ Silent(Tail(q), n) => IF About(Head(q), n) THEN Tells(Head(q), n) = now
                                 ELSE Silent(q, n)
    BY <1>1, <2>1, TailSays DEF q
  <2> QED BY <2>1, <2>2 DEF q
<1> QED BY <1>2, <1>3
-----------------------------------------------------------------------------
LEMMA AcceptPorts ==
  ASSUME PInv, NEW k \in Sessions, NEW d \in Dpids, Accept(k, d)
  PROVE  Typed' /\ \A j \in Sessions : View(j)'
<1> DEFINE q == <<Msg("hello")>>
<1>1. /\ peer[k] = None /\ stage[k] = "hello" /\ peer' = [peer EXCEPT ![k] = d]
      /\ open' = open \cup {k} /\ toController' = [toController EXCEPT ![k] = q]
      /\ UNCHANGED <<toSwitch, actual, stage, deferred, ports, disconnected, registry>>
      /\ Typed
  BY DEF Accept, PInv, HInv, Young, Fresh
<1>2. q \in Seq(Messages) /\ \A n \in PortNos : \A i \in DOMAIN q : ~About(q[i], n)
  <2>1. Msg("hello") \in Messages /\ Msg("hello").type = "hello"
    BY DEF Messages, Msg
  <2>2. \A n \in PortNos : ~About(Msg("hello"), n)
    BY <2>1, MessageTypes
  <2>3. DOMAIN q = {1} /\ q[1] = Msg("hello")
    OBVIOUS
  <2> HIDE DEF q
  <2>4. q \in Seq(Messages)
    BY <2>1 DEF q
  <2> QED BY <2>2, <2>3, <2>4
<1> HIDE DEF q
<1>3. Typed'
  BY <1>1, <1>2 DEF Typed
<1>4. View(k)'
  BY <1>1, <1>2 DEF Typed, View, LastSays, Knows
<1>5. ASSUME NEW j \in Sessions, j # k PROVE View(j)'
  BY <1>1, <1>5, SameView DEF PInv, Typed
<1> QED BY <1>3, <1>4, <1>5

LEMMA AnswerPorts ==
  ASSUME PInv, NEW k \in Sessions, Answer(k)
  PROVE  Typed' /\ \A j \in Sessions : View(j)'
<1> DEFINE m == IF Head(toSwitch[k]) = "features" THEN FeaturesReply(peer[k])
                ELSE Msg("barrier")
<1>1. /\ k \in open /\ toSwitch[k] # <<>> /\ toSwitch[k] \in Seq({"features", "barrier"})
      /\ toController' = [toController EXCEPT ![k] = Append(@, m)]
      /\ toSwitch' = [toSwitch EXCEPT ![k] = Tail(@)]
      /\ UNCHANGED <<peer, open, actual, stage, deferred, ports, disconnected, registry>>
      /\ Typed /\ \A j \in Sessions : View(j)
  BY DEF Answer, PInv, Typed
<1>2. peer[k] \in Dpids
  BY <1>1 DEF PInv, HInv, IInv, Shape
<1>3. /\ m \in Messages
      /\ \A n \in PortNos : About(m, n) => Tells(m, n) = Of(actual[peer[k]], n)
  <2>1. CASE Head(toSwitch[k]) = "features"
    <3>1. m = [type |-> "features", ports |-> actual[peer[k]]] /\ actual[peer[k]] \in SUBSET Port
      BY <1>1, <1>2, <2>1 DEF FeaturesReply, Typed
    <3>2. m.type = "features" /\ m.ports = actual[peer[k]]
      BY <3>1
    <3> HIDE DEF m
    <3>3. m \in Messages
      BY <3>1 DEF Messages
    <3> QED BY <3>2, <3>3 DEF Tells
  <2>2. CASE Head(toSwitch[k]) # "features"
    <3>1. m = Msg("barrier") /\ m.type = "barrier"
      BY <2>2 DEF Msg
    <3> HIDE DEF m
    <3>2. m \in Messages
      BY <3>1 DEF Messages
    <3> QED BY <3>1, <3>2, MessageTypes
  <2> QED BY <2>1, <2>2
<1> HIDE DEF m
<1>4. Typed'
  <2>1. Append(toController[k], m) \in Seq(Messages)
    BY <1>1, <1>3, AppendProperties DEF Typed
  <2>2. Tail(toSwitch[k]) \in Seq({"features", "barrier"})
    BY <1>1, HeadTailProperties
  <2> QED BY <1>1, <2>1, <2>2 DEF Typed
<1>5. View(k)'
  <2>1. toController'[k] = Append(toController[k], m)
    BY <1>1 DEF Typed
  <2> QED BY <1>1, <1>3, <2>1, AppendedView
<1>6. ASSUME NEW j \in Sessions, j # k PROVE View(j)'
  BY <1>1, <1>6, SameView DEF Typed
<1> QED BY <1>4, <1>5, <1>6

LEMMA EchoRequestPorts ==
  ASSUME PInv, NEW k \in Sessions, EchoRequest(k)
  PROVE  Typed' /\ \A j \in Sessions : View(j)'
<1>1. /\ toController' = [toController EXCEPT ![k] = Append(@, Msg("echo"))]
      /\ UNCHANGED <<peer, open, toSwitch, actual, stage, deferred, ports, disconnected, registry>>
      /\ Typed /\ \A j \in Sessions : View(j)
  BY DEF EchoRequest, PInv
<1>2. Msg("echo") \in Messages /\ \A n \in PortNos : ~About(Msg("echo"), n)
  <2>1. Msg("echo") \in Messages /\ Msg("echo").type = "echo"
    BY DEF Messages, Msg
  <2> QED BY <2>1, MessageTypes
<1>3. Typed'
  <2>1. Append(toController[k], Msg("echo")) \in Seq(Messages)
    BY <1>1, <1>2, AppendProperties DEF Typed
  <2> QED BY <1>1, <2>1 DEF Typed
<1>4. View(k)'
  <2>1. toController'[k] = Append(toController[k], Msg("echo"))
    BY <1>1 DEF Typed
  <2> QED BY <1>1, <1>2, <2>1, AppendedView
<1>5. ASSUME NEW j \in Sessions, j # k PROVE View(j)'
  BY <1>1, <1>5, SameView DEF Typed
<1> QED BY <1>3, <1>4, <1>5

LEMMA PortChangePorts ==
  ASSUME PInv, NEW d \in Dpids, NEW n \in PortNos, NEW new, PortChange(d, n, new)
  PROVE  Typed' /\ \A j \in Sessions : View(j)'
<1> DEFINE m == IF new = {} THEN Deleted(n) ELSE Added(CHOOSE p \in new : TRUE)
           old == actual[d]
           now == {p \in old : p[1] # n} \cup new
<1>1. /\ new = {} \/ \E p \in {n} \X States : new = {p}
      /\ new # {p \in old : p[1] = n}
      /\ actual' = [actual EXCEPT ![d] = now]
      /\ toController' = [k \in Sessions |-> IF k \in open /\ peer[k] = d
                                             THEN Append(toController[k], m) ELSE toController[k]]
      /\ UNCHANGED <<peer, open, toSwitch, stage, deferred, ports, disconnected, registry>>
      /\ Typed /\ \A j \in Sessions : View(j)
  BY DEF PortChange, PInv
<1>2. old \subseteq Port /\ new \subseteq Port /\ \A p \in new : p[1] = n
  BY <1>1 DEF Typed, Port
<1>3. m \in Messages /\ \A i \in PortNos : IF About(m, i) THEN Tells(m, i) = Of(now, i)
                                          ELSE Of(now, i) = Of(old, i)
  <2>1. CASE new = {}
    <3>1. m = [type |-> "port_delete", ports |-> {n} \X States]
      BY <2>1 DEF Deleted
    <3>2. Deleted(n) = m
      BY <2>1
    <3> HIDE DEF m
    <3>3. PICK p \in old : p[1] = n
      BY <1>1, <2>1
    <3>4. PICK x \in States : TRUE
      BY <1>2, <3>3 DEF Port
    <3>5. <<n, x>> \in {n} \X States
      BY <3>4
    <3>6. m.type = "port_delete" /\ m.ports = {n} \X States
      BY <3>1
    <3>7. m \in PortMessages
      BY <3>2 DEF PortMessages
    <3>8. m \in Messages
      BY <3>5, <3>6, <3>7 DEF Messages, Told
    <3>9. \A i \in PortNos : About(m, i) <=> i = n
      BY <3>5, <3>6 DEF About
    <3>10. Tells(m, n) = {}
      BY <3>6 DEF Tells
    <3>11. Of(now, n) = {} /\ \A i \in PortNos : i # n => Of(now, i) = Of(old, i)
      BY <2>1 DEF Of
    <3> QED BY <3>8, <3>9, <3>10, <3>11
  <2>2. ASSUME NEW p \in {n} \X States, new = {p}
        PROVE  m \in Messages /\ \A i \in PortNos : IF About(m, i) THEN Tells(m, i) = Of(now, i)
                                                  ELSE Of(now, i) = Of(old, i)
    <3>1. (CHOOSE q \in new : TRUE) = p
      BY <2>2
    <3>2. m = Added(p)
      BY <2>2, <3>1
    <3>3. m.type = "port_status" /\ m.ports = {p} /\ p \in Port /\ p[1] = n
      BY <3>2 DEF Added, Port
    <3> HIDE DEF m
    <3>4. m \in Messages
      BY <3>2, <3>3 DEF Messages, Told, PortMessages
    <3>5. \A i \in PortNos : About(m, i) <=> i = n
      BY <3>3 DEF About
    <3>6. Tells(m, n) = {p}
      BY <3>3 DEF Tells, Of
    <3>7. Of(now, n) = {p} /\ \A i \in PortNos : i # n => Of(now, i) = Of(old, i)
      BY <2>2, <3>3 DEF Of
    <3> QED BY <3>4, <3>5, <3>6, <3>7
  <2> QED BY <1>1, <2>1, <2>2
<1>4. now \subseteq Port
  BY <1>2
<1> HIDE DEF m, now
<1>5. Typed'
  <2>1. \A k \in Sessions : Append(toController[k], m) \in Seq(Messages)
    BY <1>1, <1>3, AppendProperties DEF Typed
  <2> QED BY <1>1, <1>4, <2>1 DEF Typed
<1>6. ASSUME NEW k \in Sessions PROVE View(k)'
  <2>1. CASE k \in open /\ peer[k] = d
    <3>1. toController'[k] = Append(toController[k], m) /\ actual'[peer[k]] = now
      BY <1>1, <2>1 DEF Typed
    <3> QED BY <1>1, <1>3, <2>1, <3>1, AppendedView
  <2>2. CASE k \in open /\ peer[k] # d
    <3>1. toController'[k] = toController[k] /\ actual'[peer[k]] = actual[peer[k]]
      BY <1>1, <2>2 DEF Typed
    <3> QED BY <1>1, <3>1, SameView
  <2>3. CASE k \notin open
    BY <1>1, <2>3 DEF View
  <2> QED BY <2>1, <2>2, <2>3
<1> QED BY <1>5, <1>6

LEMMA LosePorts ==
  ASSUME PInv, NEW k \in Sessions, Lose(k)
  PROVE  Typed' /\ \A j \in Sessions : View(j)'
<1>1. PICK n \in 0 .. Len(toController[k]) :
        toController' = [toController EXCEPT ![k] = SubSeq(@, 1, n)]
  BY DEF Lose
<1>2. /\ open' = open \ {k} /\ toSwitch' = [toSwitch EXCEPT ![k] = <<>>]
      /\ UNCHANGED <<peer, actual, stage, deferred, ports, disconnected, registry>>
      /\ Typed /\ \A j \in Sessions : View(j)
  BY DEF Lose, PInv
<1>3. Typed'
  <2>1. SubSeq(toController[k], 1, n) \in Seq(Messages)
    BY <1>2, SubSeqProperties, LenProperties DEF Typed
  <2> QED BY <1>1, <1>2, <2>1 DEF Typed
<1>4. ASSUME NEW j \in Sessions PROVE View(j)'
  <2>1. CASE j = k
    BY <1>2, <2>1 DEF View
  <2>2. CASE j # k
    BY <1>1, <1>2, <2>2, SameView DEF Typed
  <2> QED BY <2>1, <2>2
<1> QED BY <1>3, <1>4

LEMMA ReadEndsPorts ==
  ASSUME PInv, NEW k \in Sessions, ReadEnds(k)
  PROVE  Typed' /\ \A j \in Sessions : View(j)'
<1>1. /\ open' = open \ {k} /\ disconnected' = disconnected \cup {k}
      /\ registry' = Unregister(registry, Dpid(k))
      /\ UNCHANGED <<peer, toController, toSwitch, actual, stage, deferred, ports>>
      /\ Typed /\ \A j \in Sessions : View(j)
  BY DEF ReadEnds, Close, PInv
<1>2. Typed'
  BY <1>1 DEF Typed, Unregister
<1>3. ASSUME NEW j \in Sessions PROVE View(j)'
  BY <1>1, SameView
<1> QED BY <1>2, <1>3

LEMMA CheckPortsPorts ==
  ASSUME PInv, NEW d \in Dpids, CheckPorts(d)
  PROVE  Typed' /\ \A j \in Sessions : View(j)'
<1>1. /\ registry[d] \in Sessions /\ Typed /\ \A j \in Sessions : View(j)
      /\ Send(registry[d], d, <<"barrier", "features">>, registry)
      /\ UNCHANGED <<peer, open, toController, actual, stage, deferred, ports>>
  BY DEF CheckPorts, PInv, Typed
<1>2. <<"barrier", "features">> \in Seq({"features", "barrier"})
  OBVIOUS
<1>3. registry \in [Dpids -> Sessions \cup {None}]
  BY <1>1 DEF Typed
<1>4. Typed'
  <2>1. /\ toSwitch' \in [Sessions -> Seq({"features", "barrier"})]
        /\ disconnected' \subseteq Sessions
        /\ registry' \in [Dpids -> Sessions \cup {None}]
    BY <1>1, <1>2, <1>3, SendTyped
  <2> QED BY <1>1, <2>1 DEF Typed
<1>5. ASSUME NEW j \in Sessions PROVE View(j)'
  BY <1>1, SameView
<1> QED BY <1>4, <1>5

\* What reading a message leaves of the types, and what it reads.
LEMMA ReadTyped ==
  ASSUME PInv, NEW k \in Sessions, NEW types, Receive(k, types)
  PROVE  /\ Head(toController[k]) \in Messages /\ Head(toController[k]).type \in types
         /\ peer' = peer /\ actual' = actual /\ open' = open
         /\ toController' \in [Sessions -> Seq(Messages)]
         /\ k \in watched /\ peer[k] \in Dpids /\ Typed
<1>1. /\ toController[k] \in Seq(Messages) /\ toController[k] # <<>>
      /\ toController' = [toController EXCEPT ![k] = Tail(@)]
      /\ peer' = peer /\ actual' = actual /\ open' = open
      /\ Head(toController[k]).type \in types /\ k \in watched /\ Typed
  BY DEF PInv, Typed, Receive, switchSide
<1>2. Head(toController[k]) \in Messages /\ Tail(toController[k]) \in Seq(Messages)
  BY <1>1, HeadTailProperties
<1>3. peer[k] \in Dpids
  BY <1>1 DEF PInv, HInv, IInv, Shape
<1> QED BY <1>1, <1>2, <1>3 DEF Typed

\* A message that says nothing of ports, and after which the session knows what
\* it knew.
LEMMA SilentRead ==
  ASSUME PInv, NEW k \in Sessions, NEW types \in SUBSET {"hello", "echo", "barrier"},
         Receive(k, types), UNCHANGED <<ports, deferred>>,
         stage' \in [Sessions -> {"hello", "features", "barrier", "up"}],
         \A j \in Sessions : stage'[j] = stage[j] \/ (j = k /\ stage'[j] \in {"hello", "features"})
  PROVE  \A j \in Sessions : View(j)'
<1>1. Head(toController[k]) \in Messages /\ Head(toController[k]).type \in types /\ open' = open
  BY ReadTyped
<1>2. \A n \in PortNos : ~About(Head(toController[k]), n)
  BY <1>1, MessageTypes
<1>3. ASSUME NEW n \in PortNos, NEW now, Knows(stage[k], ports[k], deferred[k], n, now)
      PROVE  Knows(stage'[k], ports'[k], deferred'[k], n, now)
  BY <1>3 DEF Knows
<1>4. \A j \in Sessions \ {k} :
        stage'[j] = stage[j] /\ ports'[j] = ports[j] /\ deferred'[j] = deferred[j]
  OBVIOUS
<1> QED BY <1>1, <1>2, <1>3, <1>4, ReadView

LEMMA SilentHandlersPorts ==
  ASSUME PInv, NEW k \in Sessions, HandleHello(k) \/ HandleEcho(k) \/ EstablishedBarrier(k)
  PROVE  Typed' /\ \A j \in Sessions : View(j)'
<1>0. Typed /\ registry \in [Dpids -> Sessions \cup {None}]
  BY DEF PInv, Typed
<1>1. CASE HandleHello(k)
  <2>1. /\ Receive(k, {"hello"}) /\ stage[k] = "hello"
        /\ stage' = [stage EXCEPT ![k] = "features"] /\ UNCHANGED <<deferred, ports>>
        /\ Send(k, None, <<"features">>, registry)
    BY <1>1 DEF HandleHello
  <2>2. <<"features">> \in Seq({"features", "barrier"})
    OBVIOUS
  <2>3. /\ toSwitch' \in [Sessions -> Seq({"features", "barrier"})]
        /\ disconnected' \subseteq Sessions
        /\ registry' \in [Dpids -> Sessions \cup {None}]
    BY <1>0, <2>1, <2>2, SendTyped
  <2>4. Typed'
    BY <1>0, <2>1, <2>3, ReadTyped DEF Typed
  <2>5. \A j \in Sessions : View(j)'
    BY <1>0, <2>1, <2>4, SilentRead DEF Typed
  <2> QED BY <2>4, <2>5
<1>2. CASE HandleEcho(k)
  <2>1. /\ Receive(k, {"echo"}) /\ UNCHANGED <<stage, deferred, ports>>
        /\ Send(k, Dpid(k), <<>>, registry)
    BY <1>2 DEF HandleEcho
  <2>2. <<>> \in Seq({"features", "barrier"})
    OBVIOUS
  <2>3. /\ toSwitch' \in [Sessions -> Seq({"features", "barrier"})]
        /\ disconnected' \subseteq Sessions
        /\ registry' \in [Dpids -> Sessions \cup {None}]
    BY <1>0, <2>1, <2>2, SendTyped
  <2>4. Typed'
    BY <1>0, <2>1, <2>3, ReadTyped DEF Typed
  <2>5. \A j \in Sessions : View(j)'
    BY <1>0, <2>1, <2>4, SilentRead DEF Typed
  <2> QED BY <2>4, <2>5
<1>3. CASE EstablishedBarrier(k)
  <2>1. Receive(k, {"barrier"})
        /\ UNCHANGED <<toSwitch, stage, deferred, ports, disconnected, registry>>
    BY <1>3 DEF EstablishedBarrier
  <2>2. Typed'
    BY <1>0, <2>1, ReadTyped DEF Typed
  <2>3. \A j \in Sessions : View(j)'
    BY <1>0, <2>1, <2>2, SilentRead DEF Typed
  <2> QED BY <2>2, <2>3
<1> QED BY <1>1, <1>2, <1>3

\* A features reply says what every port is.
LEMMA FeaturesPorts ==
  ASSUME PInv, NEW k \in Sessions, HandshakeFeatures(k) \/ EstablishedFeatures(k)
  PROVE  Typed' /\ \A j \in Sessions : View(j)'
<1> DEFINE m == Head(toController[k])
<1>1. /\ Receive(k, {"features"}) /\ ports' = [ports EXCEPT ![k] = Reset(m.ports)]
      /\ Typed /\ registry \in [Dpids -> Sessions \cup {None}]
  BY DEF HandshakeFeatures, EstablishedFeatures, PInv, Typed
<1>2. /\ m \in Messages /\ m.type = "features" /\ open' = open
      /\ peer' = peer /\ actual' = actual /\ peer[k] \in Dpids
      /\ toController' \in [Sessions -> Seq(Messages)]
  BY <1>1, ReadTyped
<1> HIDE DEF m
<1>3. m.ports \in SUBSET Port /\ \A n \in PortNos : About(m, n) /\ Tells(m, n) = Of(m.ports, n)
  BY <1>2, MessageTypes DEF About, Tells
<1>4. Reset(m.ports) \in Collection /\ Values(Reset(m.ports)) = m.ports
  BY <1>3, ResetSays
<1>5. ports' \in [Sessions -> Collection]
  BY <1>1, <1>4 DEF Typed
<1>6. CASE HandshakeFeatures(k)
  <2>1. /\ stage' = [stage EXCEPT ![k] = "barrier"] /\ deferred' = [deferred EXCEPT ![k] = <<>>]
        /\ Send(k, peer[k], <<"barrier">>, registry)
    BY <1>6 DEF HandshakeFeatures
  <2>2. <<"barrier">> \in Seq({"features", "barrier"})
    OBVIOUS
  <2>3. /\ toSwitch' \in [Sessions -> Seq({"features", "barrier"})]
        /\ disconnected' \subseteq Sessions
        /\ registry' \in [Dpids -> Sessions \cup {None}]
    BY <1>1, <2>1, <2>2, SendTyped
  <2>4. Typed'
    <3>1. deferred' \in [Sessions -> Seq(Told) \cup {None}]
      BY <1>1, <2>1, DeferredNone DEF Typed
    <3>2. \A j \in Sessions : stage'[j] = "barrier" => deferred'[j] # None
      BY <1>1, <2>1, DeferredNone DEF Typed
    <3>3. stage' \in [Sessions -> {"hello", "features", "barrier", "up"}]
      BY <1>1, <2>1 DEF Typed
    <3> QED BY <1>1, <1>2, <1>5, <2>3, <3>1, <3>2, <3>3 DEF Typed
  <2>5. ASSUME NEW n \in PortNos, NEW now, Tells(m, n) = now
        PROVE  Knows(stage'[k], ports'[k], deferred'[k], n, now)
    <3>1. stage'[k] = "barrier" /\ ports'[k] = Reset(m.ports) /\ deferred'[k] = <<>>
      BY <1>1, <2>1 DEF Typed
    <3>2. Leads(now, <<>>, n, now)
      BY DEF Leads, LastSays, Silent
    <3> QED BY <1>3, <1>4, <2>5, <3>1, <3>2 DEF Knows
  <2>6. \A j \in Sessions \ {k} :
          stage'[j] = stage[j] /\ ports'[j] = ports[j] /\ deferred'[j] = deferred[j]
    BY <1>1, <2>1 DEF Typed
  <2>7. \A j \in Sessions : View(j)'
    BY <1>1, <1>2, <1>3, <2>5, <2>6, ReadView DEF m
  <2> QED BY <2>4, <2>7
<1>7. CASE EstablishedFeatures(k)
  <2>1. /\ stage[k] = "up" /\ UNCHANGED <<toSwitch, stage, deferred, disconnected>>
        /\ registry' = [registry EXCEPT ![peer[k]] = k]
    BY <1>7 DEF EstablishedFeatures, Established
  <2>2. Typed'
    BY <1>1, <1>2, <1>5, <2>1 DEF Typed
  <2>3. ASSUME NEW n \in PortNos, NEW now, Tells(m, n) = now
        PROVE  Knows(stage'[k], ports'[k], deferred'[k], n, now)
    <3>1. stage'[k] = "up" /\ ports'[k] = Reset(m.ports)
      BY <1>1, <2>1 DEF Typed
    <3> QED BY <1>3, <1>4, <2>3, <3>1 DEF Knows
  <2>4. \A j \in Sessions \ {k} :
          stage'[j] = stage[j] /\ ports'[j] = ports[j] /\ deferred'[j] = deferred[j]
    BY <1>1, <2>1 DEF Typed
  <2>5. \A j \in Sessions : View(j)'
    BY <1>1, <1>2, <1>3, <2>3, <2>4, ReadView DEF m
  <2> QED BY <2>2, <2>5
<1> QED BY <1>6, <1>7

LEMMA FinishPorts ==
  ASSUME PInv, NEW k \in Sessions, FinishConnecting(k)
  PROVE  Typed' /\ \A j \in Sessions : View(j)'
<1> DEFINE m == Head(toController[k])
           c == ports[k]
           ms == deferred[k]
           r == [registry EXCEPT ![peer[k]] = k]
<1>1. /\ Receive(k, {"barrier"}) /\ stage[k] = "barrier"
      /\ stage' = [stage EXCEPT ![k] = "up"]
      /\ ports' = [ports EXCEPT ![k] = Replay(c, ms)]
      /\ deferred' = [deferred EXCEPT ![k] = IF ms = <<>> THEN ms ELSE None]
      /\ Send(k, peer[k], <<>>, r)
      /\ Typed
  BY DEF FinishConnecting, PInv, Typed
<1>2. c \in Collection /\ ms \in Seq(Told)
  BY <1>1 DEF Typed
<1>3. /\ m \in Messages /\ m.type = "barrier" /\ open' = open
      /\ peer' = peer /\ actual' = actual /\ peer[k] \in Dpids
      /\ toController' \in [Sessions -> Seq(Messages)]
  BY <1>1, ReadTyped
<1>4. r \in [Dpids -> Sessions \cup {None}]
  BY <1>1, <1>3 DEF Typed
<1>5. /\ Replay(c, ms) \in Collection
      /\ \A n \in PortNos : \A now :
           Leads(Of(Values(c), n), ms, n, now) => Of(Values(Replay(c, ms)), n) = now
  BY <1>2, ReplaySays
<1> HIDE DEF r, m
<1>6. Typed'
  <2>1. <<>> \in Seq({"features", "barrier"})
    OBVIOUS
  <2>2. /\ toSwitch' \in [Sessions -> Seq({"features", "barrier"})]
        /\ disconnected' \subseteq Sessions
        /\ registry' \in [Dpids -> Sessions \cup {None}]
    BY <1>1, <1>4, <2>1, SendTyped
  <2>3. ports' \in [Sessions -> Collection]
    BY <1>1, <1>5 DEF Typed
  <2>4. deferred' \in [Sessions -> Seq(Told) \cup {None}]
    BY <1>1, <1>2 DEF Typed
  <2>5. /\ stage' \in [Sessions -> {"hello", "features", "barrier", "up"}]
        /\ \A j \in Sessions : stage'[j] = "barrier" => deferred'[j] # None
    BY <1>1 DEF Typed
  <2> QED BY <1>1, <1>3, <2>2, <2>3, <2>4, <2>5 DEF Typed
<1>7. ASSUME NEW n \in PortNos, NEW now, Knows(stage[k], c, ms, n, now)
      PROVE  Knows(stage'[k], ports'[k], deferred'[k], n, now)
  <2>1. stage'[k] = "up" /\ ports'[k] = Replay(c, ms)
    BY <1>1 DEF Typed
  <2>2. Leads(Of(Values(c), n), ms, n, now)
    BY <1>1, <1>7 DEF Knows
  <2> QED BY <1>5, <2>1, <2>2 DEF Knows
<1>8. \A n \in PortNos : ~About(m, n)
  BY <1>3, MessageTypes
<1>9. \A j \in Sessions \ {k} :
        stage'[j] = stage[j] /\ ports'[j] = ports[j] /\ deferred'[j] = deferred[j]
  BY <1>1 DEF Typed
<1>10. \A j \in Sessions : View(j)'
  BY <1>1, <1>3, <1>7, <1>8, <1>9, ReadView DEF m
<1> QED BY <1>6, <1>10

LEMMA PortStatusPorts ==
  ASSUME PInv, NEW k \in Sessions, HandlePortStatus(k)
  PROVE  Typed' /\ \A j \in Sessions : View(j)'
<1> DEFINE m == Head(toController[k])
           c == ports[k]
           ms == deferred[k]
<1>1. /\ Receive(k, {"port_status", "port_delete"})
      /\ UNCHANGED <<toSwitch, stage, disconnected, registry>>
      /\ \/ stage[k] = "up" /\ ports' = [ports EXCEPT ![k] = PortStatus(c, m)]
            /\ UNCHANGED deferred
         \/ stage[k] # "up" /\ ms = None /\ UNCHANGED <<ports, deferred>>
         \/ stage[k] # "up" /\ ms # None /\ deferred' = [deferred EXCEPT ![k] = Append(ms, m)]
            /\ UNCHANGED ports
      /\ Typed /\ c \in Collection
  BY DEF HandlePortStatus, Established, PInv, Typed
<1>2. /\ m \in Told /\ open' = open /\ peer' = peer /\ actual' = actual
      /\ toController' \in [Sessions -> Seq(Messages)]
  BY <1>1, ReadTyped, MessageTypes
<1> HIDE DEF m
<1>3. /\ PortStatus(c, m) \in Collection
      /\ \A n \in PortNos : Of(Values(PortStatus(c, m)), n) =
           IF About(m, n) THEN Tells(m, n) ELSE Of(Values(c), n)
  BY <1>1, <1>2, PortStatusSays
<1>4. ASSUME ms # None
      PROVE  /\ ms \in Seq(Told) /\ Append(ms, m) \in Seq(Told) /\ Append(ms, m) # None
             /\ \A n \in PortNos : \A now :
                  (IF About(m, n) THEN Tells(m, n) = now ELSE Leads(Of(Values(c), n), ms, n, now))
                    => Leads(Of(Values(c), n), Append(ms, m), n, now)
  <2>1. ms \in Seq(Told)
    BY <1>1, <1>4 DEF Typed
  <2>2. Append(ms, m) \in Seq(Told)
    BY <1>2, <2>1, AppendProperties
  <2>3. ASSUME NEW n \in PortNos, NEW now,
               IF About(m, n) THEN Tells(m, n) = now ELSE Leads(Of(Values(c), n), ms, n, now)
        PROVE  Leads(Of(Values(c), n), Append(ms, m), n, now)
    BY <1>2, <2>1, <2>3, AppendSays DEF Leads
  <2> QED BY <2>1, <2>2, <2>3, DeferredNone
<1>5. Typed'
  <2>1. ports' \in [Sessions -> Collection]
    BY <1>1, <1>3 DEF Typed
  <2>2. deferred' \in [Sessions -> Seq(Told) \cup {None}]
    BY <1>1, <1>4 DEF Typed
  <2>3. \A j \in Sessions : stage'[j] = "barrier" => deferred'[j] # None
    BY <1>1, <1>4 DEF Typed
  <2> QED BY <1>1, <1>2, <2>1, <2>2, <2>3 DEF Typed
<1>6. ASSUME NEW n \in PortNos, NEW now,
             IF About(m, n) THEN Tells(m, n) = now ELSE Knows(stage[k], c, ms, n, now)
      PROVE  Knows(stage'[k], ports'[k], deferred'[k], n, now)
  <2>1. CASE stage[k] = "up"
    <3>1. stage'[k] = "up" /\ ports'[k] = PortStatus(c, m)
      BY <1>1, <2>1 DEF Typed
    <3> QED BY <1>3, <1>6, <2>1, <3>1 DEF Knows
  <2>2. CASE stage[k] = "barrier"
    <3>1. /\ ms # None /\ stage'[k] = "barrier" /\ ports'[k] = c
          /\ deferred'[k] = Append(ms, m)
      BY <1>1, <2>2 DEF Typed
    <3>2. Leads(Of(Values(c), n), Append(ms, m), n, now)
      BY <1>4, <1>6, <2>2, <3>1 DEF Knows
    <3> QED BY <3>1, <3>2 DEF Knows
  <2>3. CASE stage[k] # "up" /\ stage[k] # "barrier"
    BY <1>1, <2>3 DEF Knows
  <2> QED BY <2>1, <2>2, <2>3
<1>7. \A j \in Sessions \ {k} :
        stage'[j] = stage[j] /\ ports'[j] = ports[j] /\ deferred'[j] = deferred[j]
  BY <1>1 DEF Typed
<1>8. \A j \in Sessions : View(j)'
  BY <1>1, <1>2, <1>6, <1>7, ReadView DEF m
<1> QED BY <1>5, <1>8

LEMMA NextPorts == PInv /\ [Next]_vars => PInv'
<1> SUFFICES ASSUME PInv, [Next]_vars PROVE Typed' /\ \A j \in Sessions : View(j)'
  BY NextHides DEF PInv
<1>1. CASE UNCHANGED vars
  BY <1>1 DEF vars, switchSide, PInv, Typed, View
<1>2. ASSUME NEW k \in Sessions, Handle(k) PROVE Typed' /\ \A j \in Sessions : View(j)'
  BY <1>2, SilentHandlersPorts, FeaturesPorts, FinishPorts, PortStatusPorts DEF Handle
<1> QED
  BY <1>1, <1>2, AcceptPorts, AnswerPorts, EchoRequestPorts, LosePorts, PortChangePorts,
     ReadEndsPorts, CheckPortsPorts DEF Next

\* Every variable of a session has its type, whatever is lost, refused or late;
\* a session in core.openflow.connections is established, and of that switch.
THEOREM SessionTypeOK == Spec => []TypeOK
<1>1. PInv => TypeOK
  <2> SUFFICES ASSUME PInv PROVE TypeOK
    OBVIOUS
  <2>1. {open, watched, disconnected, downRaised} \subseteq SUBSET Sessions
    BY DEF PInv, HInv, IInv, Shape, DownFinal, Typed
  <2>2. toController \in [Sessions -> Seq(Message)]
    BY MessageTypes DEF PInv, Typed
  <2>3. ASSUME NEW k \in Sessions
        PROVE  /\ stage[k] \in {Stages[i] : i \in DOMAIN Stages}
               /\ deferred[k] = None \/ deferred[k] \in Seq(Message)
               /\ ports[k] \in Collection
    <3>1. {Stages[i] : i \in DOMAIN Stages} = {"hello", "features", "barrier", "up"}
      BY DEF Stages
    <3>2. Told \subseteq Message
      BY MessageTypes
    <3>3. /\ stage[k] \in {"hello", "features", "barrier", "up"}
          /\ deferred[k] \in Seq(Told) \cup {None} /\ ports[k] \in Collection
      BY DEF PInv, Typed
    <3> HIDE DEF Told, Message, Collection
    <3>4. \A q \in Seq(Told) : q \in Seq(Message)
      BY <3>2
    <3> QED BY <3>1, <3>3, <3>4
  <2>4. ASSUME NEW d \in Dpids, registry[d] # None
        PROVE  Established(registry[d]) /\ peer[registry[d]] = d
    BY <2>4 DEF PInv, HInv, IInv, RegistrySound, Established
  <2> QED BY <2>1, <2>2, <2>3, <2>4 DEF TypeOK, PInv, Typed, Collection
<1> QED BY <1>1, InitPorts, NextPorts, PTL DEF Spec

\* What a Connection believes of its switch's ports is right once it has read
\* what the switch sent, however its port changes, refreshes and handshake
\* interleave, for any number of ports and changes.
THEOREM SessionPortsFaithful == Spec => []PortsFaithful
<1>1. PInv => PortsFaithful
  <2> SUFFICES ASSUME PInv, NEW k \in open \ disconnected,
                      stage[k] = "up", toController[k] = <<>>
               PROVE  Values(ports[k]) = actual[peer[k]]
    BY DEF PortsFaithful, Established
  <2>1. k \in Sessions /\ peer[k] \in Dpids /\ View(k) /\ k \in open
    BY DEF PInv, HInv, IInv, Shape
  <2>2. \A n \in PortNos : Of(Values(ports[k]), n) = Of(actual[peer[k]], n)
    BY <2>1 DEF View, Silent, Knows
  <2>3. Values(ports[k]) \subseteq Port /\ actual[peer[k]] \subseteq Port
    BY <2>1 DEF PInv, Typed, Collection, Values
  <2>4. ASSUME NEW p \in Port PROVE p \in Values(ports[k]) <=> p \in actual[peer[k]]
    <3>1. p[1] \in PortNos
      BY DEF Port
    <3>2. Of(Values(ports[k]), p[1]) = Of(actual[peer[k]], p[1])
      BY <2>2, <3>1
    <3> HIDE DEF Values
    <3> QED BY <3>2 DEF Of
  <2> QED BY <2>3, <2>4
<1> QED BY <1>1, InitPorts, NextPorts, PTL DEF Spec
=============================================================================
