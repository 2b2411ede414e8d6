------------------------------ MODULE RunLedger ------------------------------
(***************************************************************************)
(* What run.yml promises about captures, without files, locks or crashes   *)
(* in the middle: a ledger of slots.  A step records one new measurement   *)
(* of one slot and keeps every other record, or the ledger is destroyed    *)
(* as a whole.                                                             *)
(***************************************************************************)
CONSTANTS
    LedgerSlots,    \* slots a capture may fill
    Measurements,   \* identities of captures
    Destroyed       \* run.yml cannot be read any more

VARIABLE recs       \* the measurement recorded for every filled slot

LedgerInit == recs = <<>>

Commit(slot, taken) ==
    /\ recs # Destroyed
    /\ taken \notin {recs[k] : k \in DOMAIN recs}
    /\ recs' = [k \in DOMAIN recs \cup {slot} |-> IF k = slot THEN taken ELSE recs[k]]

Destroy == recs # Destroyed /\ recs' = Destroyed

LedgerNext ==
    \/ \E slot \in LedgerSlots, taken \in Measurements : Commit(slot, taken)
    \/ Destroy

LedgerSpec == LedgerInit /\ [][LedgerNext]_recs
=============================================================================
