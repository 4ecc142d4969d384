------------------------------- MODULE RuleSet -------------------------------
(***************************************************************************)
(* What a flow table promises, with no list, clock or buffer: a set of     *)
(* rules with at most one rule per match and priority, in which a packet   *)
(* is decided by a rule of the highest effective priority covering it.     *)
(* SoftwareSwitch implements it (see SoftwareSwitchProps).                 *)
(***************************************************************************)
EXTENDS Integers, FiniteSets

CONSTANTS
  Rules,            \* records with at least the fields match, priority, actions
  Packets,
  Covers(_, _),     \* Covers(r, p): rule r matches packet p
  Rank(_),          \* effective priority of a rule
  Miss,             \* the decision when no rule covers a packet
  MaxEntries

VARIABLES
  rules,            \* the installed rules
  decisions         \* what the last step decided: pairs of packet and actions

vars == <<rules, decisions>>

SameRule(r, q) == r.match = q.match /\ r.priority = q.priority

Best(p) ==
  {r \in rules : Covers(r, p) /\ \A q \in rules : Covers(q, p) => Rank(r) >= Rank(q)}

Init == rules = {} /\ decisions = {}

Install(r) ==
  /\ rules' = {q \in rules : ~SameRule(q, r)} \cup {r}
  /\ Cardinality(rules') <= MaxEntries
  /\ decisions' = {}

Amend(S, actions) ==
  /\ rules' = (rules \ S) \cup {[r EXCEPT !.actions = actions] : r \in S}
  /\ decisions' = {}

Withdraw(S) ==
  /\ rules' = rules \ S
  /\ decisions' = {}

Decide(p) ==
  /\ IF Best(p) = {} THEN decisions' = {<<p, Miss>>}
     ELSE \E r \in Best(p) : decisions' = {<<p, r.actions>>}
  /\ UNCHANGED rules

Next ==
  \/ \E r \in Rules : Install(r)
  \/ \E S \in SUBSET rules, r \in Rules : Amend(S, r.actions)
  \/ \E S \in SUBSET rules : Withdraw(S)
  \/ \E p \in Packets : Decide(p)

Spec == Init /\ [][Next]_vars
=============================================================================
