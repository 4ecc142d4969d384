-------------------------- MODULE MCSoftwareSwitch --------------------------
(***************************************************************************)
(* Small instances of SoftwareSwitch.                                      *)
(***************************************************************************)
EXTENDS SoftwareSwitchProps

CONSTANTS in_port, dst, a, b, Commands, Matches, Priority, ActionLists, Timeouts, FlagSets

M(x, y) == [f \in {in_port, dst} |-> IF f = in_port THEN x ELSE y]

MCFields == {in_port, dst}
MCValues == {a, b}
TwoMatches == {M(ANY, b), M(a, b)}
NarrowMatches == {M(a, ANY), M(ANY, b), M(a, b)}
MCPackets == {M(a, b), M(b, b)}

\* timeouts <<idle, hard>> of the flow_mods
NoTimeouts   == {<<0, 0>>}
SomeTimeouts == {<<1, 0>>, <<0, 1>>}

CheckFlags == {{}, {"CHECK_OVERLAP"}}
AllFlags   == {{}, {"SEND_FLOW_REM"}, {"EMERG", "SEND_FLOW_REM"}}

\* deletes ignore actions, timeouts and flags; only they read outPort
MCFlowMods ==
  {[command |-> c, match |-> m, priority |-> p, actions |-> x,
    idle |-> t[1], hard |-> t[2], flags |-> g, outPort |-> NoPort] :
     c \in Commands \ {"DELETE", "DELETE_STRICT"}, m \in Matches, p \in Priority,
     x \in ActionLists, t \in Timeouts, g \in FlagSets}
  \cup
  {[command |-> c, match |-> m, priority |-> p, actions |-> {},
    idle |-> 0, hard |-> 0, flags |-> {}, outPort |-> o] :
     c \in Commands \cap {"DELETE", "DELETE_STRICT"}, m \in Matches, p \in Priority,
     o \in {NoPort} \cup UNION ActionLists}
=============================================================================
