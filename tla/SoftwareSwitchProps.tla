------------------------ MODULE SoftwareSwitchProps ------------------------
(***************************************************************************)
(* What SoftwareSwitch must guarantee, and the abstract RuleSet it         *)
(* implements.                                                             *)
(***************************************************************************)
EXTENDS SoftwareSwitch

Entries == {table[i] : i \in DOMAIN table}

Rule(e) == [match |-> e.match, priority |-> e.priority, actions |-> e.actions]
SameKey(e, f) == e.match = f.match /\ e.priority = f.priority

\* The variables of the switch have their types, and the packet_in buffer and
\* the table stay within max_buffers and max_entries whatever the controller
\* sends (_buffer_packet and _flow_mod_add each test the limit themselves).
TypeOK ==
  /\ table \in Seq(Entry) /\ Len(table) <= MaxEntries
  /\ buffer \in Seq(Packets \cup {None}) /\ Len(buffer) <= MaxBuffers
  /\ now \in Nat /\ sweepAt \in Nat /\ now <= sweepAt

\* The comment on FlowTable._table: "a list of TableEntry sorted by descending
\* effective_priority".  entry_for_packet and check_for_overlapping_entry are
\* right only because every insertion, removal and modification keeps it so.
TableSorted == Sorted(table)

\* The table never holds two entries with the same match and priority, although
\* a modify that finds nothing inserts without removing duplicates first.
UniqueRules ==
  \A i, j \in DOMAIN table : SameKey(table[i], table[j]) => i = j

\* With a punctual sweep an entry outlives its idle or hard timeout by at most
\* one period, through any touches, modifications and replacements.
LifetimeBounded ==
  \A e \in Entries :
    /\ e.hard > 0 => now - e.created <= e.hard + Period
    /\ e.idle > 0 => now - e.touched <= e.idle + Period

\* A rule installed with OFPFF_SEND_FLOW_REM never leaves the table silently:
\* the step that removes it, and no other step, sends its flow_removed.
NoSilentRemoval ==
  [][\A e \in Entries : "SEND_FLOW_REM" \in e.flags =>
       ((\A f \in Entries' : ~SameKey(e, f))
          <=> \E m \in out' : /\ m.type = "flow_removed"
                              /\ m.match = e.match /\ m.priority = e.priority)]_vars

\* A buffered packet is never overwritten or dropped: its slot changes only in
\* the step that applies some message's actions to that packet.
BufferedUntilReleased ==
  [][\A i \in DOMAIN buffer :
       buffer[i] # None /\ (i \notin DOMAIN buffer' \/ buffer'[i] # buffer[i])
         => \E m \in out' : /\ m.type = "forward" /\ m.via = "release"
                            /\ m.packet = buffer[i]]_vars

-----------------------------------------------------------------------------
\* The decision a step took for an arriving packet, read off what it sent.
Decisions ==
  {<<m.packet, m.ports \cup (IF \E c \in out : c.type = "packet_in"
                             THEN {CONTROLLER} ELSE {})>> :
     m \in {o \in out : o.type = "forward" /\ o.via = "table"}}
  \cup
  {<<m.packet, None>> : m \in {o \in out : o.type = "packet_in" /\ o.reason = "NO_MATCH"}}

RuleType == [match : Match, priority : Priorities, actions : Action]
RuleCovers(r, p) == MatchesWithWildcards(r.match, p)

Abstract == INSTANCE RuleSet WITH
  Rules <- RuleType, Covers <- RuleCovers, Rank <- EffectivePriority,
  Miss <- None, rules <- {Rule(e) : e \in Entries}, decisions <- Decisions

\* The list kept by add_entry, the modify and delete handlers and the sweep is
\* an implementation of the rule set: every arriving packet is decided by a
\* highest-priority rule covering it, and no handler loses or invents a rule.
ImplementsRuleSet == Abstract!Spec
=============================================================================
