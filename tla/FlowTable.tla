------------------------------ MODULE FlowTable ------------------------------
(***************************************************************************)
(* The flow table of the software switch (pox/openflow/flow_table.py) and  *)
(* the part of ofp_match it relies on (pox/openflow/libopenflow_01.py): a  *)
(* list of entries kept in descending order of effective priority.  Only   *)
(* operators live here; SoftwareSwitch is the state machine.               *)
(***************************************************************************)
EXTENDS Integers, Sequences, SequencesExt, FiniteSets

CONSTANTS
  Fields,       \* the header fields of ofp_match
  Values,       \* the values a field can have
  ANY,          \* a wildcarded field
  Priorities,   \* the 16-bit priorities a flow_mod carries
  Ports,        \* the ports an output action can name
  NoPort        \* OFPP_NONE: no out_port filter

ASSUME FieldsAssumption == ANY \notin Values /\ Fields # {}
MaxPriority == 65535
ASSUME PrioritiesAssumption == Priorities \subseteq 0 .. MaxPriority
ASSUME PortsAssumption == NoPort \notin Ports

Match  == [Fields -> Values \cup {ANY}]
Flags  == {"SEND_FLOW_REM", "CHECK_OVERLAP", "EMERG"}
Action == SUBSET Ports          \* the ports a list of output actions reaches

Entry == [match : Match, priority : Priorities, actions : Action,
          idle : Nat, hard : Nat, flags : SUBSET Flags,
          created : Nat, touched : Nat]

IsWildcarded(m) == \E f \in Fields : m[f] = ANY

\* m.matches_with_wildcards(o): m is at least as wide as o in every field.
MatchesWithWildcards(m, o) == \A f \in Fields : m[f] \in {ANY, o[f]}

\* (1<<16) + 1: above every priority a flow_mod can carry
ExactPriority == MaxPriority + 2

EffectivePriority(e) ==
  IF IsWildcarded(e.match) THEN e.priority ELSE ExactPriority

IsMatchedBy(e, m, priority, strict, outPort) ==
  /\ outPort \in e.actions \cup {NoPort}
  /\ IF strict THEN e.match = m /\ e.priority = priority
               ELSE MatchesWithWildcards(m, e.match)

IsIdleTimedOut(e, now) == e.idle > 0 /\ now - e.touched > e.idle
IsHardTimedOut_mut(e, now) == e.hard > 0 /\ now - e.touched > e.hard
IsHardTimedOut(e, now) == e.hard > 0 /\ now - e.created > e.hard
-----------------------------------------------------------------------------
Sorted(t) ==
  \A i, j \in DOMAIN t :
     i < j => EffectivePriority(t[i]) >= EffectivePriority(t[j])

\* Where add_entry's binary search stops in a sorted table: before the first
\* entry of the same or a lower effective priority (TableSearch is the loop).
IsInsertIndex(t, p, i) ==
  /\ \A j \in 1 .. i - 1 : EffectivePriority(t[j]) > p
  /\ \A j \in i .. Len(t) : p >= EffectivePriority(t[j])

InsertIndex_mut(t, p) == Len(t) + 1      \* append without searching
InsertIndex(t, p) == CHOOSE i \in 1 .. Len(t) + 1 : IsInsertIndex(t, p, i)

AddEntry(t, e) == InsertAt(t, InsertIndex(t, EffectivePriority(e)), e)

MatchingEntries(t, m, priority, strict, outPort) ==
  {e \in {t[i] : i \in DOMAIN t} : IsMatchedBy(e, m, priority, strict, outPort)}

\* The entries of t outside gone, in their order.
RemoveSpecificEntries(t, gone) ==
  LET kept[n \in 0 .. Len(t)] ==
        IF n = 0 THEN <<>>
        ELSE IF t[n] \in gone THEN kept[n - 1] ELSE Append(kept[n - 1], t[n])
  IN  kept[Len(t)]

Hits(t, p) == {i \in DOMAIN t : MatchesWithWildcards(t[i].match, p)}

\* The first entry of the list that matches p (used when there is one).
EntryForPacket_mut(t, p) == CHOOSE i \in Hits(t, p) : \A j \in Hits(t, p) : i >= j
EntryForPacket(t, p) == CHOOSE i \in Hits(t, p) : \A j \in Hits(t, p) : i <= j

CheckForOverlappingEntry(t, e) ==
  \E i \in DOMAIN t :
    /\ \A j \in 1 .. i : EffectivePriority(t[j]) >= EffectivePriority(e)
    /\ EffectivePriority(t[i]) = EffectivePriority(e)
    /\ \/ MatchesWithWildcards(e.match, t[i].match)
       \/ MatchesWithWildcards(t[i].match, e.match)
=============================================================================
