-------------------------- MODULE HostTrackerProps --------------------------
(***************************************************************************)
(* Who is there is known, who is gone is forgotten.                        *)
(***************************************************************************)
EXTENDS HostTracker

Aware(h) == {ip \in Ips : ips[h][ip] # None /\ ips[h][ip].hasARP}

\* An address is only kept in its host's entry, and the entry is as fresh as the
\* freshest of them, so that no address of it was heard of after the entry was.
Freshest ==
  \A h \in Hosts, ip \in Ips : ips[h][ip] # None =>
    entry[h] # None /\ entry[h].age <= ips[h][ip].age

\* What is still left in an entry when it expires, and is dropped with a warning,
\* was seen in IP packets only and is within the longer time such addresses have:
\* no address that answers ARP is dropped unless its pings failed, and none that
\* is due for a ping is dropped without it.
OnlySilentLeft ==
  [][\A h \in Hosts : entry[h] # None /\ entry'[h] = None =>
       \A ip \in Ips : ips[h][ip] # None /\ ip \notin Failed(h) =>
         ~ips[h][ip].hasARP /\ ip \notin Expired(h)]_vars

\* A host that answers its pings is never forgotten once it was seen using ARP,
\* however long it is silent otherwise, nor is any address it answers for.
AnsweringStays ==
  [][\A h \in prompt \ movers : Aware(h) # {} =>
       entry'[h] # None /\ Aware(h) \subseteq {ip \in Ips : ips'[h][ip] # None}]_vars

\* Rounds go by, and what is under way arrives or is lost.
FairSpec == Spec /\ WF_vars(Tick) /\ \A h \in Hosts : WF_vars(Deliver(h))

\* A host that is gone is forgotten, with all its addresses, although its last
\* packets may come late and a switch may come and go.
GoneForgotten == \A h \in Hosts : place[h] = None ~> entry[h] = None /\ ips[h] = NoIps
=============================================================================
