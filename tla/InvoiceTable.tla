---------------------------- MODULE InvoiceTable ----------------------------
(***************************************************************************)
(* The Postgres tables behind the gateway: `invoices`, with its unique     *)
(* constraint, and the append-only `audit_events`.  A transaction of the   *)
(* code ends in one commit that flushes everything it wrote; the operators *)
(* below say what such a commit leaves in the tables.                      *)
(***************************************************************************)
CONSTANTS
    Invoices,   \* the row ids (gateway UUIDs) that may be used
    Tenants,    \* the tenants
    Refs,       \* the external_ref values callers send; None where they send none
    Blank,      \* the empty string, which Python treats as false: no reference, no uuid
    Uuids,      \* the uuids SAT may give to documents
    None        \* Python's None, SQL's NULL

VARIABLES
    row,        \* invoice id -> the committed row
    audit       \* invoice id -> the kinds of event logged for it

Active  == {"PENDING", "CERTIFIED"}
Settled == {"CERTIFIED", "REJECTED", "ANNULLED"}
Status  == Active \cup Settled

\* "ABSENT" is the status of an id no row has yet.  xml is TRUE once
\* xml_local is set (it is a function of the payload and of the tenant, so it
\* has one possible value).
Row == [tenant : Tenants \cup {None}, ref : Refs \cup {None},
        status : Status \cup {"ABSENT"}, uuid : Uuids \cup {None, Blank}, xml : BOOLEAN]

NoRow == [tenant |-> None, ref |-> None, status |-> "ABSENT",
          uuid |-> None, xml |-> FALSE]

NewRow(t, ref) == [tenant |-> t, ref |-> ref, status |-> "PENDING",
                   uuid |-> None, xml |-> FALSE]

Event == {"invoice.queued", "invoice.certified", "invoice.rejected",
          "invoice.config_error", "invoice.transient_error",
          "invoice.annulled", "invoice.annul_rejected",
          "invoice.annul_transient_error", "invoice.dlq"}

InvoiceTableTypeOK == /\ row \in [Invoices -> Row]
                      /\ audit \in [Invoices -> SUBSET Event]

InvoiceTableInit == /\ row = [i \in Invoices |-> NoRow]
                    /\ audit = [i \in Invoices |-> {}]

Exists(i) == row[i].status # "ABSENT"

SameRef(r, s) == /\ r.ref # None
                 /\ r.tenant = s.tenant
                 /\ r.ref = s.ref

\* The rows queue_invoice's SELECT finds.  A falsy reference finds none.
ActiveRows(t, ref) ==
    IF ref \in {None, Blank} THEN {}
    ELSE {i \in Invoices : /\ row[i].tenant = t
                           /\ row[i].ref = ref
                           /\ row[i].status \in Active}

\* A table without the constraint.
AdmitsAnything(i, r) == TRUE

\* uq_invoice_active_external_ref, (tenant_id, external_ref, status): may row i
\* hold r?  A NULL reference conflicts with nothing, the empty string does.
Admits(i, r) == \A j \in Invoices \ {i} : SameRef(r, row[j]) => row[j].status # r.status

\* A faulty UPDATE that writes back every column of the object.
FlushedWhole(i, obj, new) == new

\* What the ORM's UPDATE makes of row i: it assigns only the columns whose
\* value in the session (new) differs from the value it loaded (obj).
Flushed(i, obj, new) ==
    [row[i] EXCEPT !.status = IF new.status = obj.status THEN @ ELSE new.status,
                   !.uuid   = IF new.uuid = obj.uuid THEN @ ELSE new.uuid,
                   !.xml    = IF new.xml = obj.xml THEN @ ELSE new.xml]

\* Commit row i as r together with the audit events of the transaction.
CommitRow(i, r, events) == /\ row' = [row EXCEPT ![i] = r]
                           /\ audit' = [audit EXCEPT ![i] = @ \cup events]
=============================================================================
