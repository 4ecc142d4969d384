----------------------------- MODULE TableSearch -----------------------------
(***************************************************************************)
(* The loop of FlowTable.add_entry (pox/openflow/flow_table.py): a binary  *)
(* search over the effective priorities of a table, then the insertion.    *)
(* FlowTable!AddEntry states its result in one step; this module is the    *)
(* loop that has to compute it, which SoftwareSwitchProofs shows.          *)
(***************************************************************************)
EXTENDS FlowTable

CONSTANTS Tables,      \* the tables searched
          NewEntries   \* the entries added to them

\* What add_entry finds: the hypothesis of the theorems.
SortedTables ==
  /\ Tables \subseteq {t \in Seq(Entry) : Sorted(t)}
  /\ NewEntries \subseteq Entry

VARIABLES searched, entry, low, high, inserted

searchVars == <<searched, entry, low, high, inserted>>

SearchInit ==
  /\ searched \in Tables
  /\ entry \in NewEntries
  /\ low = 0
  /\ high = Len(searched)
  /\ inserted = FALSE

middle == (low + high) \div 2
priority == EffectivePriority(entry)

\* table[middle] of the code is searched[middle + 1] here: lists count from 0.
Before == priority >= EffectivePriority(searched[middle + 1])

SearchLeft ==
  /\ low < high /\ Before
  /\ high' = middle
  /\ UNCHANGED <<searched, entry, low, inserted>>

SearchRight ==
  /\ low < high /\ ~Before
  /\ low' = middle + 1
  /\ UNCHANGED <<searched, entry, high, inserted>>

Insert ==
  /\ low >= high /\ ~inserted
  /\ searched' = InsertAt(searched, low + 1, entry)
  /\ inserted' = TRUE
  /\ UNCHANGED <<entry, low, high>>

SearchNext == SearchLeft \/ SearchRight \/ Insert

SearchSpec == SearchInit /\ [][SearchNext]_searchVars
-----------------------------------------------------------------------------
\* Loop invariant: everything before low has a higher priority than the entry,
\* nothing from high on has, so the search ends where IsInsertIndex says.
SearchInv ==
  ~inserted =>
    /\ low \in Nat /\ high \in Nat
    /\ low <= high /\ high <= Len(searched)
    /\ \A j \in 1 .. low : EffectivePriority(searched[j]) > priority
    /\ \A j \in high + 1 .. Len(searched) : priority >= EffectivePriority(searched[j])

\* What the loop computes is what AddEntry says of it.
ComputesAddEntry == [][Insert => searched' = AddEntry(searched, entry)]_searchVars
=============================================================================
