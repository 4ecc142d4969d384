--------------------------- MODULE SoftwareSwitch ---------------------------
(***************************************************************************)
(* SoftwareSwitchBase with ExpireMixin (pox/datapaths/switch.py): the      *)
(* flow_mod and packet_out handlers, packet reception, the packet buffer   *)
(* and the periodic sweep of expired entries.  The controller is any       *)
(* sequence of the messages in FlowMods and PacketOuts; an answer to an    *)
(* earlier packet_in carries its buffer id.                                *)
(***************************************************************************)
EXTENDS FlowTable

CONSTANTS
  Packets,      \* the headers of the packets that arrive (in_port included)
  FlowMods,     \* the flow_mods the controller sends, without buffer id
  PacketOuts,   \* the actions of the packet_outs it sends
  CONTROLLER,   \* OFPP_CONTROLLER
  None,         \* no buffer id; a free buffer slot
  MaxEntries,   \* max_entries
  MaxBuffers,   \* max_buffers
  Period,       \* ExpireMixin._expire_period
  MaxTime       \* bound on the clock

ASSUME PacketsAssumption == Packets \subseteq Match /\ None \notin Packets
ASSUME SizesAssumption ==
  /\ MaxEntries \in Nat /\ MaxBuffers \in Nat /\ MaxTime \in Nat
  /\ Period \in Nat \ {0} /\ None \notin Nat
ASSUME FlowModsAssumption ==
  FlowMods \subseteq [command : {"ADD", "MODIFY", "MODIFY_STRICT", "DELETE",
                                 "DELETE_STRICT"},
                      match : Match, priority : Priorities, actions : Action,
                      idle : Nat, hard : Nat, flags : SUBSET Flags,
                      outPort : Ports \cup {NoPort}]
ASSUME PacketOutsAssumption == PacketOuts \subseteq Action

VARIABLES
  table,     \* the FlowTable's list of entries
  buffer,    \* _packet_buffer: a list of packets and free slots
  now,       \* the clock
  sweepAt,   \* when the expiry timer fires next
  out        \* what the last step sent: effects on ports and messages

vars == <<table, buffer, now, sweepAt, out>>

BufferIds == 1 .. MaxBuffers
Strict(fm) == fm.command \in {"MODIFY_STRICT", "DELETE_STRICT"}

Error(code) == [type |-> "error", code |-> code]
Forward(via, p, actions) ==
  [type |-> "forward", via |-> via, packet |-> p, ports |-> actions \ {CONTROLLER}]
PacketIn(reason, p, id) ==
  [type |-> "packet_in", reason |-> reason, packet |-> p, buffer |-> id]
FlowRemoved(e, reason) ==
  [type |-> "flow_removed", match |-> e.match, priority |-> e.priority,
   reason |-> reason]

\* _handle_FlowTableModification for removals with one of the three reasons
Notices_mut(gone, reason) == {}      \* flow_removed never sent
Notices(gone, reason) ==
  {FlowRemoved(e, reason) : e \in {g \in gone : "SEND_FLOW_REM" \in g.flags
                                                /\ "EMERG" \notin g.flags}}
-----------------------------------------------------------------------------
\* _buffer_packet: the first free slot, else a new one, else no buffer.
FreeSlots_mut(b) == DOMAIN b         \* occupied slots taken for free
FreeSlots(b) == {i \in DOMAIN b : b[i] = None}

BufferId_mut(b) ==                   \* limit tested one slot too late
  IF FreeSlots(b) # {} THEN CHOOSE i \in FreeSlots(b) : \A j \in FreeSlots(b) : i <= j
  ELSE IF Len(b) <= MaxBuffers THEN Len(b) + 1 ELSE None

BufferId(b) ==
  IF FreeSlots(b) # {} THEN CHOOSE i \in FreeSlots(b) : \A j \in FreeSlots(b) : i <= j
  ELSE IF Len(b) < MaxBuffers THEN Len(b) + 1 ELSE None

BufferPacket(b, p) ==
  CASE BufferId(b) = None -> b
    [] BufferId(b) \in DOMAIN b -> [b EXCEPT ![BufferId(b)] = p]
    [] OTHER -> Append(b, p)

\* _process_actions_for_packet: outputs, and a packet_in for OFPP_CONTROLLER
ActionsBuffer(b, p, actions) ==
  IF CONTROLLER \in actions THEN BufferPacket(b, p) ELSE b

ActionsOut(b, p, actions, via) ==
  {Forward(via, p, actions)} \cup
  (IF CONTROLLER \in actions THEN {PacketIn("ACTION", p, BufferId(b))} ELSE {})

\* _process_actions_for_packet_from_buffer: nothing for a bad or flushed id
Holds(b, id) == id \in DOMAIN b /\ b[id] # None

ReleaseBuffer(b, id, actions) ==
  IF Holds(b, id) THEN [ActionsBuffer(b, b[id], actions) EXCEPT ![id] = None] ELSE b

ReleaseOut(b, id, actions) ==
  IF Holds(b, id) THEN ActionsOut(b, b[id], actions, "release") ELSE {}
-----------------------------------------------------------------------------
FromFlowMod(fm) ==
  [match |-> fm.match, priority |-> fm.priority, actions |-> fm.actions,
   idle |-> fm.idle, hard |-> fm.hard, flags |-> fm.flags,
   created |-> now, touched |-> now]

EmergencyCode(fm) ==
  IF fm.idle # 0 \/ fm.hard # 0 THEN "BAD_EMERG_TIMEOUT"
  ELSE IF "SEND_FLOW_REM" \in fm.flags THEN "EPERM" ELSE "ALL_TABLES_FULL"

TableFull(t) == Len(t) >= MaxEntries

\* Exactly matching entries have to be removed if OFPFC_ADD
Replaced_mut(fm) == table             \* duplicates left in place
Replaced(fm) ==
  IF fm.command = "ADD"
  THEN RemoveSpecificEntries(table,
         MatchingEntries(table, fm.match, fm.priority, TRUE, NoPort))
  ELSE table

FlowModAdd(fm) ==
  LET new == FromFlowMod(fm) IN
  IF "EMERG" \in fm.flags
  THEN [table |-> table, sent |-> {Error(EmergencyCode(fm))}]
  ELSE IF "CHECK_OVERLAP" \in fm.flags /\ CheckForOverlappingEntry(table, new)
  THEN [table |-> table, sent |-> {Error("OVERLAP")}]
  ELSE IF TableFull(Replaced(fm))
  THEN [table |-> Replaced(fm), sent |-> {Error("ALL_TABLES_FULL")}]
  ELSE [table |-> AddEntry(Replaced(fm), new), sent |-> {}]

Selected(fm, outPort) ==
  MatchingEntries(table, fm.match, fm.priority, Strict(fm), outPort)

\* if no matching entry is found, modify acts as add
FlowModModify(fm) ==
  IF Selected(fm, NoPort) = {} THEN FlowModAdd(fm)
  ELSE [table |-> [i \in DOMAIN table |->
                     IF table[i] \in Selected(fm, NoPort)
                     THEN [table[i] EXCEPT !.actions = fm.actions] ELSE table[i]],
        sent |-> {}]

FlowModDelete(fm) ==
  [table |-> RemoveSpecificEntries(table, Selected(fm, fm.outPort)),
   sent |-> Notices(Selected(fm, fm.outPort), "DELETE")]

FlowModResult(fm) ==
  CASE fm.command = "ADD" -> FlowModAdd(fm)
    [] fm.command \in {"MODIFY", "MODIFY_STRICT"} -> FlowModModify(fm)
    [] OTHER -> FlowModDelete(fm)
-----------------------------------------------------------------------------
Init ==
  /\ table = <<>> /\ buffer = <<>> /\ out = {}
  /\ now = 0 /\ sweepAt = Period

\* _rx_flow_mod: the command's handler, then the buffered packet, released
\* through the flow_mod's actions even when the handler refused the entry.
RxFlowMod(fm, id) ==
  /\ table' = FlowModResult(fm).table
  /\ buffer' = ReleaseBuffer(buffer, id, fm.actions)
  /\ out' = FlowModResult(fm).sent \cup ReleaseOut(buffer, id, fm.actions)
  /\ UNCHANGED <<now, sweepAt>>

\* _rx_packet_out with data, and with a buffer id and no data
RxPacketOutData(actions, p) ==
  /\ buffer' = ActionsBuffer(buffer, p, actions)
  /\ out' = ActionsOut(buffer, p, actions, "data")
  /\ UNCHANGED <<table, now, sweepAt>>

RxPacketOut(actions, id) ==
  /\ id # None
  /\ buffer' = ReleaseBuffer(buffer, id, actions)
  /\ out' = ReleaseOut(buffer, id, actions)
  /\ UNCHANGED <<table, now, sweepAt>>

\* rx_packet, when an entry matches: touch it and apply its actions
RxPacketHit(p) ==
  LET i == EntryForPacket(table, p) IN
  /\ Hits(table, p) # {}
  /\ table' = [table EXCEPT ![i].touched = now]
  /\ buffer' = ActionsBuffer(buffer, p, table[i].actions)
  /\ out' = ActionsOut(buffer, p, table[i].actions, "table")
  /\ UNCHANGED <<now, sweepAt>>

\* rx_packet, when none does: buffer the packet and tell the controller
RxPacketMiss(p) ==
  /\ Hits(table, p) = {}
  /\ buffer' = BufferPacket(buffer, p)
  /\ out' = {PacketIn("NO_MATCH", p, BufferId(buffer))}
  /\ UNCHANGED <<table, now, sweepAt>>

IdleEntries == {e \in {table[i] : i \in DOMAIN table} : IsIdleTimedOut(e, now)}
HardEntries == {e \in {table[i] : i \in DOMAIN table} : IsHardTimedOut(e, now)} \ IdleEntries

\* remove_expired_entries, called by the recurring timer
RemoveExpiredEntries ==
  /\ now = sweepAt
  /\ sweepAt' = now + Period
  /\ table' = RemoveSpecificEntries(
                RemoveSpecificEntries(table, IdleEntries), HardEntries)
  /\ out' = Notices(IdleEntries, "IDLE_TIMEOUT") \cup Notices(HardEntries, "HARD_TIMEOUT")
  /\ UNCHANGED <<buffer, now>>

\* The timer is taken to be punctual: time does not pass over a due sweep.
Tick ==
  /\ now < sweepAt /\ now < MaxTime
  /\ now' = now + 1
  /\ out' = {}
  /\ UNCHANGED <<table, buffer, sweepAt>>

Next ==
  \/ \E fm \in FlowMods, id \in BufferIds \cup {None} : RxFlowMod(fm, id)
  \/ \E actions \in PacketOuts, id \in BufferIds : RxPacketOut(actions, id)
  \/ \E actions \in PacketOuts, p \in Packets : RxPacketOutData(actions, p)
  \/ \E p \in Packets : RxPacketHit(p) \/ RxPacketMiss(p)
  \/ RemoveExpiredEntries
  \/ Tick

Spec == Init /\ [][Next]_vars
=============================================================================
