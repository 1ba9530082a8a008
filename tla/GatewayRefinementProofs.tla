---------------------- MODULE GatewayRefinementProofs -----------------------
(***************************************************************************)
(* The gateway implements the promise of InvoiceLifecycle under every      *)
(* fault, for every instance: each step is a stutter, a step of SAT, or a  *)
(* commit that shows the caller no more than SAT has done.                 *)
(***************************************************************************)
EXTENDS GatewayProofs

\* A step touches the table or SAT's record, never both.
LEMMA LedgerStep ==
    ASSUME SafetyInv, [Next]_vars
    PROVE  \/ UNCHANGED <<issued, voided>>
           \/ /\ UNCHANGED row
              /\ \E i \in Invoices, u \in Uuids :
                    \/ Exists(i) /\ Issue(u, i)
                    \/ issued[u] = i /\ Void(u)
<1> DEFINE Goal == \/ UNCHANGED <<issued, voided>>
                   \/ /\ UNCHANGED row
                      /\ \E i \in Invoices, u \in Uuids :
                            \/ Exists(i) /\ Issue(u, i)
                            \/ issued[u] = i /\ Void(u)
<1>1. ASSUME NEW r \in Runners, Progress(r) PROVE Goal
  <2>1. job[r].pc = "loaded" => job[r].inv \in Invoices /\ Exists(job[r].inv)
    BY DEF SafetyInv, TypeInv, ProcessShape, Shaped, RowsExist, HasInvoice, PC
  <2>2. CASE certify_now_call(r)
    BY <2>1, <2>2 DEF certify_now_call
  <2>3. CASE annul_now_call(r)
    <3>1. job[r].pc = "loaded" /\ job[r].op = "annul"
      BY <2>3 DEF annul_now_call
    <3>2. issued[job[r].obj.uuid] = job[r].inv /\ job[r].obj.uuid \notin {None, Blank}
      BY <3>1 DEF SafetyInv, LedgerInv, AnswersBacked, Backed, TypeInv, ProcessShape, Shaped,
                  Annullable
    <3>3. job[r].obj.uuid \in Uuids
      BY <3>2, JobTyped DEF SafetyInv, TypeInv, Job, Row
    <3> QED BY <2>1, <2>3, <3>1, <3>2, <3>3 DEF annul_now_call
  <2> QED BY <1>1, <2>2, <2>3 DEF Progress, call_misconfigured, certify_now_commit,
                                  annul_now_commit, StoresCertification, StoresAnnulment,
                                  session_rollback
<1> QED BY <1>1 DEF Next, Request, ClientStep, WorkerStep, Runners, queue_invoice_select,
                    annul_invoice, queue_invoice_insert, queue_invoice_refresh,
                    create_invoice_dispatch, start_task, autoretry, on_failure_load,
                    on_failure_commit, acknowledge, Outage, db_outage, refresh_outage,
                    broker_outage, StoresCertification, StoresAnnulment, crash, rest, vars

\* A run of certify_now or annul_now that commits a PENDING row certifies or
\* rejects it, or leaves its status and its uuid alone: the object it holds is
\* PENDING too, so it is no annulment.
LEMMA PendingSaved ==
    ASSUME SafetyInv, NEW r \in Runners, job[r].pc = "called", row[job[r].inv].status = "PENDING"
    PROVE  \/ Saved(r).status \in {"CERTIFIED", "REJECTED"}
           \/ Saved(r).status = "PENDING" /\ Saved(r).uuid = row[job[r].inv].uuid
<1>1. TypeInv /\ job[r] \in Job
  BY JobTyped DEF SafetyInv, TypeInv
<1>2. job[r].obj.status = "PENDING" /\ job[r].obj \in Row
  BY <1>1 DEF SafetyInv, NeverAhead, Job
<1>3. job[r].op = "certify"
  BY <1>1, <1>2 DEF TypeInv, ProcessShape, Shaped, Annullable, Job, Op
<1>4. CASE job[r].answer = "ok"
  <2>1. Assigned(r).status = "CERTIFIED"
    BY <1>2, <1>3, <1>4 DEF Assigned, Certifying, Row
  <2>2. row[job[r].inv] \in Row
    BY <1>1, RowTyped DEF TypeInv, ProcessShape, Shaped, HasInvoice, PC
  <2> QED BY <1>2, <2>1, <2>2 DEF Saved, Flushed, Row
<1>5. CASE job[r].answer # "ok"
  BY <1>1, <1>3, <1>5, SavedFields
<1> QED BY <1>4, <1>5

\* A row that is PENDING is settled by a commit, never changed otherwise.
LEMMA PendingStep ==
    ASSUME SafetyInv, [Next]_vars, NEW i \in Invoices, row[i].status = "PENDING"
    PROVE  \/ row'[i].status \in {"CERTIFIED", "REJECTED"}
           \/ row'[i].status = "PENDING" /\ row'[i].uuid = row[i].uuid
<1> DEFINE Goal == \/ row'[i].status \in {"CERTIFIED", "REJECTED"}
                   \/ row'[i].status = "PENDING" /\ row'[i].uuid = row[i].uuid
<1>1. TypeInv /\ Exists(i) /\ row[i] \in Row
  BY RowTyped DEF SafetyInv, TypeInv, Exists
<1>2. ASSUME NEW k \in Invoices, NEW s \in Row, NEW E, CommitRow(k, s, E),
             \/ k # i
             \/ s.status \in {"CERTIFIED", "REJECTED"}
             \/ s.status = "PENDING" /\ s.uuid = row[i].uuid
      PROVE  Goal
  BY <1>1, <1>2, CommitEvolves
<1>3. ASSUME NEW c \in Clients, queue_invoice_insert(c) PROVE Goal
  <2>1. job[c].obj \in Row
    BY <1>1, JobTyped DEF TypeInv, Job, Runners
  <2> QED BY <1>1, <1>2, <1>3, <2>1 DEF queue_invoice_insert
<1>4. ASSUME NEW w \in Workers, on_failure_commit(w) PROVE Goal
  <2>1. /\ job[w].pc = "dlq"
        /\ UNCHANGED row \/ CommitRow(job[w].inv, Dead(w), {"invoice.dlq"})
    BY <1>4 DEF on_failure_commit
  <2>2. job[w].inv \in Invoices /\ Dead(w) \in Row
    BY <1>1, <2>1, DeadType
  <2>3. job[w].inv = i => \/ Dead(w).status = "REJECTED"
                          \/ Dead(w).status = "PENDING" /\ Dead(w).uuid = row[i].uuid
    BY <1>1, <2>1, DeadFields
  <2> QED BY <1>2, <2>1, <2>2, <2>3
<1>5. ASSUME NEW r \in Runners, StoresCertification(r) \/ StoresAnnulment(r) PROVE Goal
  <2>1. job[r].pc = "called" /\ \E E : CommitRow(job[r].inv, Saved(r), E)
    BY <1>5 DEF StoresCertification, StoresAnnulment
  <2>2. job[r].inv \in Invoices /\ Saved(r) \in Row
    BY <1>1, <2>1, SavedType DEF TypeInv, ProcessShape, Shaped, HasInvoice, PC
  <2> QED BY <1>2, <2>1, <2>2, PendingSaved
<1>6. ASSUME NEW r \in Runners, Progress(r) PROVE Goal
  BY <1>5, <1>6 DEF Progress, call_misconfigured, certify_now_call, annul_now_call,
                    certify_now_commit, annul_now_commit, session_rollback
<1>7. ASSUME NEW w \in Workers, Outage(w) PROVE Goal
  BY <1>5, <1>7 DEF Outage, Runners, db_outage, refresh_outage, broker_outage
<1> QED BY <1>3, <1>4, <1>6, <1>7
        DEF Next, Request, ClientStep, WorkerStep, Runners, queue_invoice_select, annul_invoice,
            queue_invoice_refresh, create_invoice_dispatch, start_task, autoretry,
            on_failure_load, acknowledge, crash, rest, vars

\* The commit of a step: a new row is a submission, any other change settles.
LEMMA CommitSettles ==
    ASSUME SafetyInv, SafetyInv', [Next]_vars, UNCHANGED <<issued, voided>>
    PROVE  [Lifecycle!PromiseNext]_(Lifecycle!lifecycle)
<1> DEFINE st == [i \in Invoices |-> row[i].status]
           sh == [i \in Invoices |-> IF row[i].uuid = Blank THEN None ELSE row[i].uuid]
           hd == [i \in Invoices |-> Documents(i)]
<1>1. TypeInv /\ RowsExist /\ TypeInv'
  BY DEF SafetyInv
<1>2. hd' = hd /\ voided' = voided
  BY DEF Documents
<1>3. CASE UNCHANGED row
  BY <1>2, <1>3 DEF Lifecycle!lifecycle
<1>4. CASE ~UNCHANGED row
  <2>1. PICK k \in Invoices, r \in Row, E \in SUBSET Event : CommitRow(k, r, E) /\ Lawful(k, r, E)
    BY <1>1, <1>4, RowStep
  <2>2. row'[k] = r /\ \A i \in Invoices \ {k} : row'[i] = row[i]
    BY <1>1, <2>1, CommitEvolves
  <2> DEFINE new == IF r.uuid = Blank THEN None ELSE r.uuid
  <2>3. st' = [st EXCEPT ![k] = r.status] /\ sh' = [sh EXCEPT ![k] = new]
    BY <2>2
  <2>4. CASE ~Exists(k)
    <3>1. row[k] = NoRow /\ r.status = "PENDING"
      BY <1>1, <2>1, <2>4 DEF RowsExist, Lawful
    <3>2. r.uuid = None
      <4>1. \A q \in Runners : job[q].pc = "called" => job[q].inv # k
        BY <1>1, <2>4 DEF RowsExist, HasInvoice, PC
      <4> QED BY <1>1, <2>2, <3>1, <4>1, MirrorStep DEF RowEvolves, NoRow
    <3>3. st[k] = "ABSENT" /\ sh' = sh
      <4>1. \A i \in Invoices : row'[i].uuid = row[i].uuid
        BY <2>2, <3>1, <3>2 DEF NoRow
      <4> QED BY <3>1, <4>1 DEF NoRow
    <3>4. Lifecycle!Submit(k)
      BY <1>2, <2>3, <3>1, <3>3 DEF Lifecycle!Submit
    <3> QED BY <3>4 DEF Lifecycle!PromiseNext
  <2>5. CASE Exists(k) /\ r.status = "PENDING"
    <3>1. row[k].status = "PENDING" /\ r.uuid = row[k].uuid
      BY <1>1, <2>2, <2>5, RowsEvolve, PendingStep
    <3>2. st' = st /\ sh' = sh
      BY <2>3, <2>5, <3>1
    <3> QED BY <1>2, <3>2 DEF Lifecycle!lifecycle
  <2>6. CASE Exists(k) /\ r.status # "PENDING"
    <3>1. r.status \in Settled
      BY <1>1, <2>2, <2>5, <2>6, RowsEvolve, RowTyped DEF TypeInv, Lawful, Exists, Row, Status, Active, Settled
    <3>2. r.status = "CERTIFIED" => Documents(k) # {}
      BY <2>2 DEF SafetyInv, LedgerInv, StatusBackedBySat, Documents
    <3>3. r.status = "ANNULLED" => row[k].status # "PENDING" /\ Documents(k) \cap voided # {}
      BY <2>2, PendingStep DEF SafetyInv, LedgerInv, StatusBackedBySat, Documents
    <3>4. new \in Documents(k) \cup {None} /\ new \in Uuids \cup {None}
      BY <2>1, <2>2 DEF SafetyInv, LedgerInv, MirrorAuthentic, Documents, Row
    <3>5. Lifecycle!Settle(k, r.status, new)
      BY <1>2, <2>3, <2>6, <3>2, <3>3, <3>4 DEF Lifecycle!Settle, Lifecycle!Show, Exists
    <3> QED BY <3>1, <3>4, <3>5 DEF Lifecycle!PromiseNext, Settled
  <2> QED BY <2>4, <2>5, <2>6
<1> QED BY <1>3, <1>4

\* Every step of the gateway is a step of the promise, or a stutter.
LEMMA PromiseStep ==
    SafetyInv /\ SafetyInv' /\ [Next]_vars => [Lifecycle!PromiseNext]_(Lifecycle!lifecycle)
<1> SUFFICES ASSUME SafetyInv, SafetyInv', [Next]_vars
             PROVE  [Lifecycle!PromiseNext]_(Lifecycle!lifecycle)
  OBVIOUS
<1> DEFINE st == [i \in Invoices |-> row[i].status]
           sh == [i \in Invoices |-> IF row[i].uuid = Blank THEN None ELSE row[i].uuid]
           hd == [i \in Invoices |-> Documents(i)]
<1>1. issued \in [Uuids -> Invoices \cup {None}] /\ None \notin Invoices
  BY NoneIsNoValue DEF SafetyInv, TypeInv, TypeOK, SatLedgerTypeOK
<1>2. CASE UNCHANGED <<issued, voided>>
  BY <1>2, CommitSettles
<1>3. ASSUME NEW i \in Invoices, NEW u \in Uuids, UNCHANGED row, Exists(i), Issue(u, i)
      PROVE  Lifecycle!PromiseNext
  <2>1. hd' = [hd EXCEPT ![i] = @ \cup {u}]
    <3>1. \A j \in Invoices : Documents(j)' = IF j = i THEN Documents(j) \cup {u} ELSE Documents(j)
      BY <1>1, <1>3 DEF Issue, Documents
    <3> QED BY <3>1
  <2>2. \A j \in Invoices : u \notin hd[j]
    BY <1>1, <1>3 DEF Issue, Documents
  <2>3. Lifecycle!Issue(i, u)
    BY <1>3, <2>1, <2>2 DEF Lifecycle!Issue, Issue, Exists
  <2> QED BY <2>3 DEF Lifecycle!PromiseNext
<1>4. ASSUME NEW i \in Invoices, NEW u \in Uuids, UNCHANGED row, issued[u] = i, Void(u)
      PROVE  Lifecycle!PromiseNext
  <2>1. Lifecycle!Void(i, u)
    BY <1>4 DEF Lifecycle!Void, Void, Documents
  <2> QED BY <2>1 DEF Lifecycle!PromiseNext
<1> QED BY <1>2, <1>3, <1>4, LedgerStep

\* Whatever crashes, times out, is redelivered or overtaken, the caller sees no
\* more than the promise: no invoice goes back to PENDING, none is CERTIFIED or
\* ANNULLED that SAT did not certify or annul.
THEOREM PromiseIsKept == Spec => PromiseKept
<1>1. Init => Lifecycle!Empty
  <2> SUFFICES ASSUME Init PROVE Lifecycle!Empty
    OBVIOUS
  <2>1. \A i \in Invoices : row[i].status = "ABSENT" /\ row[i].uuid = None
    BY DEF Init, InvoiceTableInit, NoRow
  <2>2. voided = {} /\ \A i \in Invoices : Documents(i) = {}
    BY NoneIsNoValue DEF Init, SatLedgerInit, Documents
  <2> QED BY <2>1, <2>2 DEF Lifecycle!Empty
<1>2. SafetyInv /\ SafetyInv' /\ [Next]_vars => [Lifecycle!PromiseNext]_(Lifecycle!lifecycle)
  BY PromiseStep
<1> QED BY <1>1, <1>2, Safety, PTL DEF Spec, PromiseKept, Lifecycle!Promise
=============================================================================
