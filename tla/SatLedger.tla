----------------------------- MODULE SatLedger ------------------------------
(***************************************************************************)
(* The certificador and SAT behind it, an external system.  FELplex gets   *)
(* no idempotency key from the adapter, so every certification it accepts  *)
(* makes a document of its own.                                            *)
(***************************************************************************)
CONSTANTS Invoices, Uuids, None

VARIABLES
    issued,     \* uuid -> the invoice whose payload it was issued for
    voided      \* the uuids of the annulled documents

SatLedgerTypeOK == /\ issued \in [Uuids -> Invoices \cup {None}]
                   /\ voided \in SUBSET Uuids

SatLedgerInit == /\ issued = [u \in Uuids |-> None]
                 /\ voided = {}

Documents(i) == {u \in Uuids : issued[u] = i}
Valid(i)     == Documents(i) \ voided

Issue(u, i) == /\ issued[u] = None
               /\ issued' = [issued EXCEPT ![u] = i]
               /\ UNCHANGED voided

Void(u) == /\ voided' = voided \cup {u}
           /\ UNCHANGED issued
=============================================================================
