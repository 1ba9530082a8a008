------------------------- MODULE GatewayCalmProofs --------------------------
(***************************************************************************)
(* Exactly once: in an environment that loses nothing (Calm), the gateway  *)
(* lives the ideal life of InvoiceLifecycle under every interleaving, for  *)
(* any number of processes, rows and retries. And one order, one document: *)
(* one thread alone (Alone) gives no reference a second valid document.    *)
(***************************************************************************)
EXTENDS GatewayRefinementProofs

\* Rows without reference conflict with none.
LEMMA CalmAdmits ==
    ASSUME Calm, NEW i \in Invoices, NEW s \in Row PROVE Admits(i, s)
BY DEF Calm, Admits, SameRef, Row

\* No process dies, and the database refuses nothing.
LEMMA CalmNext ==
    ASSUME Calm, TypeInv, [Next]_vars
    PROVE  \/ UNCHANGED vars
           \/ \E c \in Clients : Request(c) \/ ClientStep(c)
           \/ \E w \in Workers : WorkerStep(w)
<1>1. ~(crashes < MaxCrashes) /\ ~(outages < MaxOutages)
  BY DEF Calm, TypeInv, TypeOK
<1> QED BY <1>1 DEF Next, crash, Outage, db_outage, refresh_outage, broker_outage, rest, vars

\* A certification is answered with its document, or makes none.
LEMMA CalmCertification ==
    ASSUME Calm, NEW r \in Runners, certify_now_call(r)
    PROVE  \/ \E u \in Uuids : Issue(u, job[r].inv) /\ Answered(r, "ok", u)
           \/ /\ UNCHANGED <<issued, voided>>
              /\ \E a \in {"reject", "transient", "exception"} : Answered(r, a, None)
<1>1. CASE \E reply \in CertifyReplies \cap Doing, u \in Uuids :
              /\ Issue(u, job[r].inv)
              /\ \E got \in UuidRead(reply, u) : Answered(r, AnswerTo(reply), got)
  <2>1. CertifyReplies \cap Doing \subseteq {"ok"}
    BY DEF Calm, Doing
  <2>2. AnswerTo("ok") = "ok" /\ \A u \in Uuids : UuidRead("ok", u) = {u}
    BY DEF AnswerTo, UuidRead
  <2> QED BY <1>1, <2>1, <2>2
<1>2. CASE \E reply \in CertifyReplies \ Doing :
              Answered(r, AnswerTo(reply), None) /\ UNCHANGED <<issued, voided>>
  <2>1. \A reply \in CertifyReplies \ Doing :
           AnswerTo(reply) \in {"reject", "transient", "exception"}
    BY EnvironmentAssumption DEF Doing, Reply, AnswerTo
  <2> QED BY <1>2, <2>1
<1> QED BY <1>1, <1>2 DEF certify_now_call

\* An annulment is carried out and answered, or refused.
LEMMA CalmAnnulment ==
    ASSUME Calm, NEW r \in Runners, annul_now_call(r)
    PROVE  \/ Void(job[r].obj.uuid) /\ Answered(r, "ok", None)
           \/ UNCHANGED <<issued, voided>> /\ Answered(r, "reject", None)
BY DEF Calm, annul_now_call, Doing, AnswerTo

\* What a run knows of its row before it commits.
LEMMA CalmObject ==
    ASSUME SafetyInv, CalmInv, NEW r \in Runners, job[r].pc = "called", job[r].op = "certify"
    PROVE  /\ job[r] \in Job /\ job[r].inv \in Invoices /\ Carries(r, job[r].inv)
           /\ row[job[r].inv].status = "PENDING" /\ row[job[r].inv].uuid = None
           /\ job[r].obj.status = "PENDING" /\ job[r].obj.uuid = None
           /\ job[r].answer = "ok" => job[r].got \in Uuids
<1>1. job[r] \in Job /\ job[r].inv \in Invoices
  BY JobTyped DEF SafetyInv, TypeInv, ProcessShape, Shaped, HasInvoice, PC
<1>2. Carries(r, job[r].inv)
  BY DEF Carries, HasInvoice, PC
<1> QED BY <1>1, <1>2 DEF CalmInv, SoleTask, RowInStep, CalmRun, SafetyInv, NeverAhead

\* A certification's commit certifies or rejects the row, or leaves it PENDING.
LEMMA CalmCertified ==
    ASSUME SafetyInv, CalmInv, NEW r \in Runners, job[r].pc = "called", job[r].op = "certify"
    PROVE  LET s == Saved(r)
           IN  /\ job[r].answer = "ok" => s.status = "CERTIFIED" /\ s.uuid = job[r].got
               /\ job[r].answer \in {"reject", "config"} => s.status = "REJECTED" /\ s.uuid = None
               /\ job[r].answer \notin {"ok", "reject", "config"} =>
                     s.status = "PENDING" /\ s.uuid = None
<1> DEFINE i == job[r].inv
           obj == job[r].obj
           new == Assigned(r)
<1>1. /\ job[r] \in Job /\ i \in Invoices
      /\ row[i].status = "PENDING" /\ row[i].uuid = None
      /\ obj.status = "PENDING" /\ obj.uuid = None
      /\ job[r].answer = "ok" => job[r].got \in Uuids
  BY CalmObject
<1>2. row[i] \in Row /\ obj \in Row
  BY <1>1, RowTyped DEF SafetyInv, TypeInv, Job
<1>3. /\ Saved(r).status = IF new.status = obj.status THEN row[i].status ELSE new.status
      /\ Saved(r).uuid = IF new.uuid = obj.uuid THEN row[i].uuid ELSE new.uuid
  <2> HIDE DEF new
  <2>1. Saved(r) = Flushed(i, obj, new)
    BY DEF Saved, new
  <2> HIDE DEF i, obj
  <2> QED BY <1>2, <2>1 DEF Flushed, Row
<1>4. /\ job[r].answer = "ok" => new.status = "CERTIFIED" /\ new.uuid = job[r].got
      /\ job[r].answer \in {"reject", "config"} => new.status = "REJECTED" /\ new.uuid = obj.uuid
      /\ job[r].answer \notin {"ok", "reject", "config"} =>
            new.status = obj.status /\ new.uuid = obj.uuid
  BY <1>2 DEF Assigned, Certifying, Row
<1> HIDE DEF new
<1> QED BY <1>1, <1>3, <1>4, NoneIsNoValue

\* An annulment's commit annuls the row, or leaves its status and its uuid alone.
LEMMA CalmAnnulled ==
    ASSUME SafetyInv, CalmInv, NEW r \in Runners, job[r].pc = "called", job[r].op = "annul"
    PROVE  /\ job[r].inv \in Invoices
           /\ row[job[r].inv].status \in {"CERTIFIED", "ANNULLED"}
           /\ Saved(r).uuid = row[job[r].inv].uuid
           /\ IF job[r].answer = "ok" THEN Saved(r).status = "ANNULLED"
              ELSE Saved(r).status = row[job[r].inv].status
<1> DEFINE i == job[r].inv
           obj == job[r].obj
           new == Assigned(r)
<1>1. /\ job[r] \in Job /\ i \in Invoices /\ obj.status = "CERTIFIED"
      /\ row[i].status \in {"CERTIFIED", "ANNULLED"}
  BY JobTyped DEF SafetyInv, TypeInv, ProcessShape, Shaped, HasInvoice, PC, Annullable, CalmInv,
                  CalmRun
<1>2. row[i] \in Row /\ obj \in Row
  BY <1>1, RowTyped DEF SafetyInv, TypeInv, Job
<1>3. /\ Saved(r).status = IF new.status = obj.status THEN row[i].status ELSE new.status
      /\ Saved(r).uuid = IF new.uuid = obj.uuid THEN row[i].uuid ELSE new.uuid
  <2> HIDE DEF new
  <2>1. Saved(r) = Flushed(i, obj, new)
    BY DEF Saved, new
  <2> HIDE DEF i, obj
  <2> QED BY <1>2, <2>1 DEF Flushed, Row
<1>4. new = IF job[r].answer = "ok" THEN [obj EXCEPT !.status = "ANNULLED"] ELSE obj
  BY DEF Assigned, Annulling
<1>5. /\ new.uuid = obj.uuid
      /\ new.status = IF job[r].answer = "ok" THEN "ANNULLED" ELSE obj.status
  BY <1>2, <1>4 DEF Row
<1> HIDE DEF new
<1> QED BY <1>1, <1>3, <1>5
-----------------------------------------------------------------------------
(* What a step does to one row. *)

Still(i) == row'[i].status = row[i].status /\ row'[i].uuid = row[i].uuid
Posted(i) == ~Exists(i) /\ row'[i].status = "PENDING" /\ row'[i].uuid = None
CertifiedBy(r, i) == /\ Brings(r, i) /\ ~Carries(r, i)'
                     /\ row'[i].status = "CERTIFIED" /\ row'[i].uuid = job[r].got
RejectedBy(r, i) == /\ Carries(r, i) /\ ~Brings(r, i) /\ ~Carries(r, i)'
                    /\ row'[i].status = "REJECTED" /\ row'[i].uuid = None
AnnulledBy(r, i) == /\ Ends(r, i)
                    /\ row[i].status \in {"CERTIFIED", "ANNULLED"}
                    /\ row'[i].status = "ANNULLED" /\ row'[i].uuid = row[i].uuid

RowMoves(i) == \/ Still(i) \/ Posted(i)
               \/ \E r \in Runners : CertifiedBy(r, i) \/ RejectedBy(r, i) \/ AnnulledBy(r, i)

\* Who carries an answer of SAT brings the row's only document.
LEMMA CarrierBrings ==
    ASSUME SafetyInv, CalmInv, NEW r \in Runners, NEW i \in Invoices, Carries(r, i)
    PROVE  /\ job[r].pc = "called" /\ job[r].answer = "ok" => Brings(r, i)
           /\ ~Brings(r, i) => Documents(i) = {}
<1>1. row[i].status = "PENDING" /\ (\A q \in Runners : Carries(q, i) => q = r)
  BY DEF CalmInv, SoleTask
<1>2. Documents(i) = {} \/ \E q \in Runners : Brings(q, i)
  BY <1>1 DEF CalmInv, RowInStep
<1>3. Documents(i) = {} \/ Brings(r, i)
  BY <1>1, <1>2 DEF Brings
<1>4. job[r].pc = "called" /\ job[r].answer = "ok" => Documents(i) # {}
  BY DEF Carries, SafetyInv, LedgerInv, AnswersBacked, Backed
<1> QED BY <1>3, <1>4

\* A run that is over carries nothing any more.
LEMMA LeaveEnds ==
    ASSUME TypeInv, NEW r \in Runners, Leave(r, "ack"), NEW i PROVE ~Carries(r, i)'
<1>1. job'[r] = IF r \in Clients THEN Idle ELSE Holding(r, "ack")
  BY DEF TypeInv, TypeOK, Leave
<1> QED BY <1>1 DEF Carries, Holding, Idle, HasInvoice, PC

\* Every step is lawful for every row.
LEMMA RowMove ==
    ASSUME SafetyInv, Calm, CalmInv, [Next]_vars, NEW i \in Invoices
    PROVE  RowMoves(i)
<1>1. TypeInv /\ row[i] \in Row
  BY RowTyped DEF SafetyInv, TypeInv
<1>2. UNCHANGED row => RowMoves(i)
  BY DEF RowMoves, Still
<1>3. ASSUME NEW k \in Invoices, NEW s \in Row, NEW E, CommitRow(k, s, E)
      PROVE  row'[k] = s /\ (k # i => Still(i))
  BY <1>1, <1>3, CommitEvolves DEF Still
<1>4. ASSUME NEW c \in Clients, queue_invoice_insert(c) PROVE RowMoves(i)
  <2>1. PICK k \in Invoices : ~Exists(k) /\ (UNCHANGED row \/ \E E : CommitRow(k, job[c].obj, E))
    BY <1>4 DEF queue_invoice_insert
  <2>2. job[c].obj \in Row /\ job[c].obj.status = "PENDING" /\ job[c].obj.uuid = None
    BY <1>1, <1>4, JobTyped DEF queue_invoice_insert, TypeInv, ProcessShape, Shaped, Job, Runners
  <2> QED BY <1>2, <1>3, <2>1, <2>2 DEF RowMoves, Posted
<1>5. ASSUME NEW r \in Runners, certify_now_commit(r) PROVE RowMoves(i)
  <2> DEFINE k == job[r].inv
  <2>1. /\ job[r].pc = "called" /\ job[r].op = "certify"
        /\ CommitRow(k, Saved(r), CertifyEvent[job[r].answer])
    BY <1>5 DEF certify_now_commit, StoresCertification
  <2>2. k \in Invoices /\ Carries(r, k) /\ row[k].status = "PENDING" /\ row[k].uuid = None
    BY <2>1, CalmObject
  <2>3. row'[k] = Saved(r) /\ (k # i => Still(i))
    BY <1>1, <1>3, <2>1, <2>2, SavedType
  <2>0. job[r].answer # "transient" => ~Carries(r, k)'
    BY <1>1, <1>5, LeaveEnds DEF certify_now_commit, After
  <2>4. CASE job[r].answer = "ok"
    <3>1. CertifiedBy(r, k)
      BY <2>0, <2>1, <2>2, <2>3, <2>4, CalmCertified, CarrierBrings DEF CertifiedBy
    <3> QED BY <2>3, <3>1 DEF RowMoves
  <2>5. CASE job[r].answer \in {"reject", "config"}
    <3>1. RejectedBy(r, k)
      BY <2>0, <2>1, <2>2, <2>3, <2>5, CalmCertified DEF RejectedBy, Brings
    <3> QED BY <2>3, <3>1 DEF RowMoves
  <2>6. CASE job[r].answer \notin {"ok", "reject", "config"}
    <3>1. Still(k)
      BY <2>1, <2>2, <2>3, <2>6, CalmCertified DEF Still
    <3> QED BY <2>3, <3>1 DEF RowMoves
  <2> QED BY <2>4, <2>5, <2>6
<1>6. ASSUME NEW r \in Runners, annul_now_commit(r) PROVE RowMoves(i)
  <2> DEFINE k == job[r].inv
  <2>1. /\ job[r].pc = "called" /\ job[r].op = "annul"
        /\ CommitRow(k, Saved(r), AnnulEvent[job[r].answer])
    BY <1>6 DEF annul_now_commit, StoresAnnulment
  <2>2. /\ k \in Invoices /\ row[k].status \in {"CERTIFIED", "ANNULLED"}
        /\ Saved(r).uuid = row[k].uuid
        /\ IF job[r].answer = "ok" THEN Saved(r).status = "ANNULLED"
           ELSE Saved(r).status = row[k].status
    BY <2>1, CalmAnnulled
  <2>3. row'[k] = Saved(r) /\ (k # i => Still(i))
    BY <1>1, <1>3, <2>1, <2>2, SavedType
  <2>4. Still(k) \/ AnnulledBy(r, k)
    BY <2>1, <2>2, <2>3 DEF Still, AnnulledBy, Ends
  <2> QED BY <2>3, <2>4 DEF RowMoves
<1>7. ASSUME NEW w \in Workers, on_failure_commit(w) PROVE RowMoves(i)
  <2> DEFINE k == job[w].inv
  <2>1. job[w].pc = "dlq" /\ w \in Runners /\ job[w] \in Job
    BY <1>1, <1>7, WorkerIsNoClient, JobTyped DEF on_failure_commit, TypeInv
  <2>2. k \in Invoices /\ job[w].op = "certify"
    BY <1>1, <2>1 DEF TypeInv, ProcessShape, Shaped, HasInvoice, PC, CalmInv, CalmRun, Job, Op
  <2>3. Carries(w, k)
    BY <2>1, <2>2 DEF Carries, HasInvoice, PC
  <2>4. row[k].status = "PENDING" /\ row[k].uuid = None /\ job[w].obj.status = "PENDING"
    BY <2>1, <2>2, <2>3 DEF CalmInv, SoleTask, RowInStep, SafetyInv, NeverAhead
  <2>5. Dead(w) \in Row /\ Dead(w).status = "REJECTED" /\ Dead(w).uuid = None
    BY <1>1, <2>1, <2>4, DeadType, DeadFields
  <2>6. UNCHANGED row \/ CommitRow(k, Dead(w), {"invoice.dlq"})
    BY <1>7 DEF on_failure_commit
  <2>7. ASSUME CommitRow(k, Dead(w), {"invoice.dlq"}) PROVE RowMoves(i)
    <3>1. row'[k] = Dead(w) /\ (k # i => Still(i))
      BY <1>3, <2>2, <2>5, <2>7
    <3>2. ~Carries(w, k)'
      <4>1. job'[w] = Holding(w, "ack")
        BY <1>1, <1>7, <2>1 DEF on_failure_commit, TypeInv, TypeOK
      <4> QED BY <4>1 DEF Carries, Holding, Idle
    <3>3. RejectedBy(w, k)
      BY <2>1, <2>3, <2>5, <3>1, <3>2 DEF RejectedBy, Brings
    <3> QED BY <2>1, <3>1, <3>3 DEF RowMoves
  <2> QED BY <1>2, <2>6, <2>7
<1>8. ASSUME NEW r \in Runners, Progress(r) PROVE RowMoves(i)
  BY <1>2, <1>5, <1>6, <1>8 DEF Progress, call_misconfigured, certify_now_call, annul_now_call,
                                session_rollback
<1>9. ASSUME NEW c \in Clients, Request(c) \/ ClientStep(c) PROVE RowMoves(i)
  BY <1>2, <1>4, <1>8, <1>9 DEF Request, ClientStep, Runners, queue_invoice_select, annul_invoice,
                                queue_invoice_refresh, create_invoice_dispatch
<1>10. ASSUME NEW w \in Workers, WorkerStep(w) PROVE RowMoves(i)
  BY <1>2, <1>7, <1>8, <1>10 DEF WorkerStep, Runners, start_task, autoretry, on_failure_load,
                                 acknowledge
<1> QED BY <1>1, <1>2, <1>9, <1>10, CalmNext DEF vars

\* Whatever becomes of the others' rows, a row that was certified remains so until
\* it is annulled, with its uuid.
LEMMA CertifiedStays ==
    ASSUME SafetyInv, Calm, CalmInv, [Next]_vars, NEW i \in Invoices,
           row[i].status \in {"CERTIFIED", "ANNULLED"}
    PROVE  /\ row'[i].status \in {"CERTIFIED", "ANNULLED"}
           /\ row[i].status = "ANNULLED" => row'[i].status = "ANNULLED"
           /\ row'[i].uuid = row[i].uuid
<1>1. ~Posted(i) /\ \A r \in Runners : ~CertifiedBy(r, i) /\ ~RejectedBy(r, i)
  BY DEF Posted, Exists, CertifiedBy, RejectedBy, Brings, CalmInv, SoleTask
<1> QED BY <1>1, RowMove DEF RowMoves, Still, AnnulledBy
-----------------------------------------------------------------------------
(* What a step does to the runs. *)

\* A run that has its answer commits it; nothing else comes in between.
LEMMA CalledStep ==
    ASSUME SafetyInv, Calm, [Next]_vars, NEW r \in Runners, job[r].pc = "called"
    PROVE  \/ job'[r] = job[r]
           \/ certify_now_commit(r) \/ annul_now_commit(r)
           \/ job[r].answer = "exception" /\ UNCHANGED <<row, issued, voided>>
<1> DEFINE Goal == \/ job'[r] = job[r]
                   \/ certify_now_commit(r) \/ annul_now_commit(r)
                   \/ job[r].answer = "exception" /\ UNCHANGED <<row, issued, voided>>
<1>1. TypeInv /\ job \in [Runners -> Job] /\ job[r].inv \in Invoices
  BY DEF SafetyInv, TypeInv, TypeOK, ProcessShape, Shaped, HasInvoice, PC
<1>2. ASSUME NEW q \in Runners, Progress(q) PROVE Goal
  <2>1. CASE session_rollback(q)
    <3>1. q = r => Admits(job[r].inv, Saved(r))
      BY <1>1, CalmAdmits, SavedType
    <3> QED BY <1>1, <2>1, <3>1 DEF session_rollback, Leave
  <2> QED BY <1>1, <1>2, <2>1 DEF Progress, call_misconfigured, certify_now_call, annul_now_call,
                                  certify_now_commit, annul_now_commit, Answered, Leave
<1>3. ASSUME NEW c \in Clients, Request(c) \/ ClientStep(c) PROVE Goal
  BY <1>1, <1>2, <1>3 DEF Request, ClientStep, Runners, queue_invoice_select, annul_invoice,
                          queue_invoice_insert, queue_invoice_refresh, create_invoice_dispatch
<1>4. ASSUME NEW w \in Workers, WorkerStep(w) PROVE Goal
  BY <1>1, <1>2, <1>4 DEF WorkerStep, Runners, start_task, autoretry, on_failure_load,
                          on_failure_commit, acknowledge
<1> QED BY <1>1, <1>3, <1>4, CalmNext DEF vars

\* So an answer of SAT stays in hand until the row tells of it.
LEMMA AnswerKept ==
    ASSUME SafetyInv, Calm, CalmInv, [Next]_vars, NEW r \in Runners, NEW i \in Invoices
    PROVE  /\ Brings(r, i) => job'[r] = job[r] \/ row'[i].status = "CERTIFIED"
           /\ Ends(r, i) => job'[r] = job[r] \/ row'[i].status = "ANNULLED"
<1>1. TypeInv
  BY DEF SafetyInv
<1>2. ASSUME Brings(r, i) PROVE job'[r] = job[r] \/ row'[i].status = "CERTIFIED"
  <2>1. job[r].pc = "called" /\ job[r].op = "certify" /\ job[r].answer = "ok" /\ job[r].inv = i
    BY <1>2 DEF Brings, Carries
  <2>2. ASSUME certify_now_commit(r) PROVE row'[i].status = "CERTIFIED"
    <3>1. CommitRow(i, Saved(r), CertifyEvent[job[r].answer])
      BY <2>1, <2>2 DEF certify_now_commit, StoresCertification
    <3> QED BY <1>1, <2>1, <3>1, SavedType, CommitEvolves, CalmCertified
  <2> QED BY <2>1, <2>2, CalledStep DEF annul_now_commit, StoresAnnulment
<1>3. ASSUME Ends(r, i) PROVE job'[r] = job[r] \/ row'[i].status = "ANNULLED"
  <2>1. job[r].pc = "called" /\ job[r].op = "annul" /\ job[r].answer = "ok" /\ job[r].inv = i
    BY <1>3 DEF Ends
  <2>2. ASSUME annul_now_commit(r) PROVE row'[i].status = "ANNULLED"
    <3>1. CommitRow(i, Saved(r), AnnulEvent[job[r].answer])
      BY <2>1, <2>2 DEF annul_now_commit, StoresAnnulment
    <3> QED BY <1>1, <2>1, <3>1, SavedType, CommitEvolves, CalmAnnulled
  <2> QED BY <2>1, <2>2, CalledStep DEF certify_now_commit, StoresCertification
<1> QED BY <1>2, <1>3

\* A run that SAT answers.
CertifiedAt(r, u) == /\ job[r].pc = "loaded" /\ job[r].op = "certify"
                     /\ Issue(u, job[r].inv)
                     /\ job' = [job EXCEPT ![r].pc = "called", ![r].answer = "ok", ![r].got = u]
AnnulledAt(r) == /\ job[r].pc = "loaded" /\ job[r].op = "annul"
                 /\ Void(job[r].obj.uuid)
                 /\ job' = [job EXCEPT ![r].pc = "called", ![r].answer = "ok", ![r].got = None]

\* A step leaves SAT's record alone, or gives one run its answer.
LEMMA LedgerMove ==
    ASSUME Calm, TypeInv, [Next]_vars
    PROVE  \/ UNCHANGED <<issued, voided>>
           \/ /\ UNCHANGED <<row, queue>>
              /\ \E r \in Runners : AnnulledAt(r) \/ \E u \in Uuids : CertifiedAt(r, u)
<1> DEFINE Goal == \/ UNCHANGED <<issued, voided>>
                   \/ /\ UNCHANGED <<row, queue>>
                      /\ \E r \in Runners : AnnulledAt(r) \/ \E u \in Uuids : CertifiedAt(r, u)
<1>1. ASSUME NEW r \in Runners, certify_now_call(r) PROVE Goal
  BY <1>1, CalmCertification DEF certify_now_call, CertifiedAt, Answered
<1>2. ASSUME NEW r \in Runners, annul_now_call(r) PROVE Goal
  BY <1>2, CalmAnnulment DEF annul_now_call, AnnulledAt, Answered
<1>3. ASSUME NEW r \in Runners, Progress(r) PROVE Goal
  BY <1>1, <1>2, <1>3 DEF Progress, call_misconfigured, certify_now_commit, annul_now_commit,
                          StoresCertification, StoresAnnulment, session_rollback
<1> QED BY <1>3, CalmNext
        DEF Request, ClientStep, WorkerStep, Runners, queue_invoice_select, annul_invoice,
            queue_invoice_insert, queue_invoice_refresh, create_invoice_dispatch, start_task,
            autoretry, on_failure_load, on_failure_commit, acknowledge, vars

\* A commit keeps the row in step with SAT.
LEMMA RowInStepCommit ==
    ASSUME SafetyInv, Calm, CalmInv, [Next]_vars, UNCHANGED <<issued, voided>>, NEW i \in Invoices
    PROVE  RowInStep(i)'
<1>1. Documents(i)' = Documents(i)
  BY DEF Documents
<1>2. RowInStep(i) /\ VoidedShown
  BY DEF CalmInv
<1>3. \A r \in Runners : /\ Brings(r, i) => Brings(r, i)' \/ row'[i].status = "CERTIFIED"
                         /\ Ends(r, i) => Ends(r, i)' \/ row'[i].status = "ANNULLED"
  BY <1>1, AnswerKept DEF Brings, Carries, Ends
<1>4. CASE Still(i)
  BY <1>1, <1>2, <1>3, <1>4 DEF Still, RowInStep
<1>5. CASE Posted(i)
  BY <1>1, <1>2, <1>5 DEF Posted, Exists, RowInStep
<1>6. ASSUME NEW r \in Runners, CertifiedBy(r, i) PROVE RowInStep(i)'
  <2>1. row[i].status = "PENDING" /\ Documents(i) = {job[r].got}
    BY <1>6 DEF CertifiedBy, Brings, CalmInv, SoleTask
  <2>2. issued[job[r].got] = i
    BY <2>1 DEF Documents
  <2>3. job[r].got \notin voided
    BY <1>2, <2>1, <2>2 DEF VoidedShown
  <2> QED BY <1>1, <1>6, <2>1, <2>3 DEF CertifiedBy, RowInStep
<1>7. ASSUME NEW r \in Runners, RejectedBy(r, i) PROVE RowInStep(i)'
  BY <1>1, <1>7, CarrierBrings DEF RejectedBy, RowInStep
<1>8. ASSUME NEW r \in Runners, AnnulledBy(r, i) PROVE RowInStep(i)'
  <2>1. row[i].uuid \in voided
    BY <1>8 DEF AnnulledBy, Ends, CalmInv, CalmRun, SafetyInv, LedgerInv, AnswersBacked, Backed
  <2> QED BY <1>1, <1>2, <1>8, <2>1 DEF AnnulledBy, RowInStep
<1> QED BY <1>4, <1>5, <1>6, <1>7, <1>8, RowMove DEF RowMoves

\* SAT's answers keep it too: the document made is the row's first, the one annulled
\* is the row's.
LEMMA RowInStepAnswer ==
    ASSUME SafetyInv, Calm, CalmInv, UNCHANGED row, NEW i \in Invoices, NEW r \in Runners,
           AnnulledAt(r) \/ \E u \in Uuids : CertifiedAt(r, u)
    PROVE  RowInStep(i)'
<1>1. RowInStep(i) /\ job[r] \in Job /\ job \in [Runners -> Job] /\ job[r].inv \in Invoices
  BY DEF CalmInv, SafetyInv, TypeInv, TypeOK, AnnulledAt, CertifiedAt, ProcessShape, Shaped,
         HasInvoice, PC
<1>2. /\ job[r].pc = "loaded" /\ \A q \in Runners \ {r} : job'[q] = job[q]
      /\ job'[r].op = job[r].op /\ job'[r].inv = job[r].inv
      /\ job'[r].pc = "called" /\ job'[r].answer = "ok"
  BY <1>1 DEF AnnulledAt, CertifiedAt, Job
<1>3. issued \in [Uuids -> Invoices \cup {None}] /\ None \notin Invoices
  BY NoneIsNoValue DEF SafetyInv, TypeInv, TypeOK, SatLedgerTypeOK
<1>4. \A q \in Runners : Ends(q, i) => Ends(q, i)'
  BY <1>2 DEF Ends
<1>5. ASSUME NEW u \in Uuids, CertifiedAt(r, u) PROVE RowInStep(i)'
  <2>1. Documents(i)' = IF i = job[r].inv THEN Documents(i) \cup {u} ELSE Documents(i)
    BY <1>3, <1>5 DEF CertifiedAt, Issue, Documents
  <2>2. voided' = voided
    BY <1>5 DEF CertifiedAt, Issue
  <2>3. CASE i # job[r].inv
    <3>1. \A q \in Runners : Brings(q, i) => Brings(q, i)'
      BY <1>2, <2>1, <2>3 DEF Brings, Carries
    <3> QED BY <1>1, <1>4, <2>1, <2>2, <2>3, <3>1 DEF RowInStep
  <2>4. CASE i = job[r].inv
    <3>1. Carries(r, i) /\ ~Brings(r, i)
      BY <1>2, <1>5, <2>4 DEF CertifiedAt, Carries, Brings, HasInvoice, PC
    <3>2. row[i].status = "PENDING" /\ Documents(i) = {}
      BY <3>1, CarrierBrings DEF CalmInv, SoleTask
    <3>3. job'[r].got = u
      BY <1>1, <1>5 DEF CertifiedAt, Job
    <3>4. Brings(r, i)'
      BY <1>2, <2>1, <2>4, <3>1, <3>2, <3>3 DEF Brings, Carries, HasInvoice, PC
    <3> QED BY <1>1, <3>2, <3>4 DEF RowInStep
  <2> QED BY <2>3, <2>4
<1>6. CASE AnnulledAt(r)
  <2>1. Documents(i)' = Documents(i) /\ voided' = voided \cup {job[r].obj.uuid}
    BY <1>6 DEF AnnulledAt, Void, Documents
  <2>2. \A q \in Runners : Brings(q, i) => Brings(q, i)'
    BY <1>2, <2>1 DEF Brings, Carries
  <2>3. issued[job[r].obj.uuid] = job[r].inv
    BY <1>6 DEF AnnulledAt, SafetyInv, LedgerInv, AnswersBacked, Backed
  <2>4. ASSUME row[i].status = "CERTIFIED", row[i].uuid = job[r].obj.uuid PROVE Ends(r, i)'
    <3>1. issued[row[i].uuid] = i
      BY <1>1, <2>4 DEF RowInStep, Documents
    <3> QED BY <1>2, <1>6, <2>3, <2>4, <3>1 DEF Ends, AnnulledAt
  <2> QED BY <1>1, <1>4, <2>1, <2>2, <2>4 DEF RowInStep
<1> QED BY <1>5, <1>6

\* What is annulled has been shown.
LEMMA VoidedShownStep ==
    ASSUME SafetyInv, Calm, CalmInv, [Next]_vars PROVE VoidedShown'
<1>1. SafetyInv /\ TypeInv /\ VoidedShown
  BY DEF SafetyInv, CalmInv
<1>2. CASE UNCHANGED <<issued, voided>>
  BY <1>1, <1>2, CertifiedStays DEF VoidedShown
<1>3. ASSUME NEW r \in Runners, UNCHANGED row, AnnulledAt(r) PROVE VoidedShown'
  <2>1. job[r].inv \in Invoices /\ issued[job[r].obj.uuid] = job[r].inv
    BY <1>1, <1>3 DEF AnnulledAt, SafetyInv, LedgerInv, AnswersBacked, Backed, TypeInv, ProcessShape,
                      Shaped, HasInvoice, PC
  <2>2. row[job[r].inv].status \in {"CERTIFIED", "ANNULLED"}
    BY <1>3 DEF AnnulledAt, CalmInv, CalmRun
  <2> QED BY <1>1, <1>3, <2>1, <2>2 DEF VoidedShown, AnnulledAt, Void
<1>4. ASSUME NEW r \in Runners, NEW u \in Uuids, UNCHANGED row, CertifiedAt(r, u) PROVE VoidedShown'
  <2>1. issued[u] = None /\ issued' = [issued EXCEPT ![u] = job[r].inv] /\ voided' = voided
    BY <1>4 DEF CertifiedAt, Issue
  <2>2. u \notin voided
    BY <1>1, <2>1, NoneIsNoValue DEF VoidedShown
  <2>3. \A v \in voided : issued'[v] = issued[v]
    BY <1>1, <2>1, <2>2 DEF TypeInv, TypeOK, SatLedgerTypeOK
  <2> QED BY <1>1, <1>4, <2>1, <2>3 DEF VoidedShown
<1> QED BY <1>1, <1>2, <1>3, <1>4, LedgerMove

\* Rows and SAT stay in step.
LEMMA RowsInStepStep ==
    ASSUME SafetyInv, Calm, CalmInv, [Next]_vars, NEW i \in Invoices PROVE RowInStep(i)'
<1>1. TypeInv
  BY DEF SafetyInv
<1> QED BY <1>1, LedgerMove, RowInStepCommit, RowInStepAnswer

\* A run in the middle of nothing relies on nothing.
LEMMA CalmIdle ==
    ASSUME NEW j, \/ j.op = "certify" /\ j.pc \notin {"loaded", "called"}
                  \/ j.op = "annul" /\ j.pc = "ack"
    PROVE  CalmRun(j)'
BY DEF CalmRun

\* Every step of a run leaves its object as up to date as it was.
LEMMA CalmRunStep ==
    ASSUME SafetyInv, Calm, CalmInv, [Next]_vars, NEW q \in Runners PROVE CalmRun(job[q])'
<1>1. /\ TypeInv /\ RowsExist /\ job \in [Runners -> Job] /\ CalmRun(job[q])
      /\ \A r \in Runners : CalmRun(job[r]) /\ job[r] \in Job
  BY JobTyped DEF SafetyInv, TypeInv, TypeOK, CalmInv
<1>2. CASE job'[q] = job[q]
  <2>1. job[q].pc \in {"loaded", "called"} => job[q].inv \in Invoices
    BY <1>1 DEF TypeInv, ProcessShape, Shaped, HasInvoice, PC
  <2> QED BY <1>1, <1>2, <2>1, CertifiedStays DEF CalmRun
<1>3. ASSUME NEW r \in Runners, NEW j, job' = [job EXCEPT ![r] = j], CalmRun(j)'
      PROVE  CalmRun(job[q])'
  <2>1. job'[q] = job[q] \/ job'[q] = j
    BY <1>1, <1>3
  <2> QED BY <1>2, <1>3, <2>1 DEF CalmRun
<1>4. ASSUME NEW r \in Runners, NEW pc \in {"retry", "failed", "ack"}, Leave(r, pc),
             job[r].op = "annul" => pc = "ack"
      PROVE  CalmRun(job[q])'
  <2> DEFINE j == IF r \in Clients THEN Idle ELSE Holding(r, pc)
  <2>1. job' = [job EXCEPT ![r] = j]
    BY <1>4 DEF Leave
  <2>2. \/ j.op = "certify" /\ j.pc \notin {"loaded", "called"}
        \/ j.op = "annul" /\ j.pc = "ack"
    BY <1>1, <1>4 DEF Idle, Holding, Job, Op
  <2> HIDE DEF j
  <2> QED BY <1>3, <2>1, <2>2, CalmIdle
<1>5. ASSUME NEW r \in Runners, job[r].pc = "loaded", UNCHANGED row, NEW a, NEW u, Answered(r, a, u),
             job[r].op = "certify" /\ a = "ok" => u \in Uuids,
             job[r].op = "annul" => a \in {"ok", "reject", "config"}
      PROVE  CalmRun(job[q])'
  <2>0. PICK j : j = [job[r] EXCEPT !.pc = "called", !.answer = a, !.got = u]
    OBVIOUS
  <2>1. job' = [job EXCEPT ![r] = j]
    BY <1>1, <1>5, <2>0 DEF Answered
  <2>2. /\ j.op = job[r].op /\ j.obj = job[r].obj /\ j.inv = job[r].inv
        /\ j.pc = "called" /\ j.answer = a /\ j.got = u
    BY <1>1, <2>0 DEF Job
  <2>3. CalmRun(j)'
    BY <1>1, <1>5, <2>2 DEF CalmRun
  <2> QED BY <1>3, <2>1, <2>3
<1>6. ASSUME NEW r \in Runners, Progress(r) PROVE CalmRun(job[q])'
  <2>1. CASE call_misconfigured(r)
    BY <1>5, <2>1 DEF call_misconfigured
  <2>2. CASE certify_now_call(r)
    BY <1>5, <2>2, CalmCertification DEF certify_now_call, Op
  <2>3. CASE annul_now_call(r)
    BY <1>5, <2>3, CalmAnnulment DEF annul_now_call
  <2>4. CASE certify_now_commit(r)
    BY <1>1, <1>4, <2>4, AfterType DEF certify_now_commit, StoresCertification
  <2>5. CASE annul_now_commit(r)
    <3>1. job[r].answer # "transient"
      BY <1>1, <2>5 DEF annul_now_commit, StoresAnnulment, CalmRun
    <3> QED BY <1>4, <2>5, <3>1 DEF annul_now_commit, StoresAnnulment, After
  <2>6. CASE session_rollback(r)
    <3>1. job[r].pc = "called" /\ job[r].inv \in Invoices
      BY <1>1, <2>6 DEF session_rollback, TypeInv, ProcessShape, Shaped, HasInvoice, PC
    <3>2. job[r].answer = "exception"
      BY <1>1, <2>6, <3>1, CalmAdmits, SavedType DEF session_rollback
    <3>3. job[r].op = "certify"
      BY <1>1, <3>1, <3>2 DEF CalmRun, Job, Op
    <3> QED BY <1>4, <2>6, <3>3 DEF session_rollback
  <2> QED BY <1>6, <2>1, <2>2, <2>3, <2>4, <2>5, <2>6 DEF Progress
<1>7. ASSUME NEW c \in Clients, ClientStep(c) PROVE CalmRun(job[q])'
  <2>1. c \in Runners /\ Shaped(c, job[c])
    BY <1>1 DEF Runners, TypeInv, ProcessShape
  <2>2. CASE queue_invoice_insert(c)
    <3>1. PICK j : /\ job' = [job EXCEPT ![c] = j]
                   /\ j.op = "certify" /\ j.pc \notin {"loaded", "called"}
      <4>1. job[c].op = "certify"
        BY <2>1, <2>2 DEF queue_invoice_insert, Shaped
      <4>2. CASE job' = [job EXCEPT ![c] = Idle]
        <5>1. Idle.op = "certify" /\ Idle.pc = "idle"
          BY DEF Idle
        <5> QED BY <4>2, <5>1
      <4>3. ASSUME NEW i \in Invoices, job' = [job EXCEPT ![c].pc = "refresh", ![c].inv = i]
            PROVE  \E j : /\ job' = [job EXCEPT ![c] = j]
                          /\ j.op = "certify" /\ j.pc \notin {"loaded", "called"}
        <5> DEFINE j == [job[c] EXCEPT !.pc = "refresh", !.inv = i]
        <5>1. job' = [job EXCEPT ![c] = j]
          BY <1>1, <2>1, <4>3
        <5>2. j.op = "certify" /\ j.pc = "refresh"
          BY <1>1, <2>1, <4>1 DEF Job
        <5> QED BY <5>1, <5>2
      <4> QED BY <2>2, <4>2, <4>3 DEF queue_invoice_insert
    <3> QED BY <1>3, <2>1, <3>1, CalmIdle
  <2>3. CASE queue_invoice_refresh(c)
    <3> DEFINE i == job[c].inv
    <3>0. PICK j : j = Routed(i, row[i], job[c].sync)
      OBVIOUS
    <3>1. job' = [job EXCEPT ![c] = j] /\ UNCHANGED row
      BY <2>3, <3>0 DEF queue_invoice_refresh
    <3>2. i \in Invoices /\ Carries(c, i)
      BY <2>1, <2>3 DEF queue_invoice_refresh, Shaped, Carries, HasInvoice, PC
    <3>3. row[i].uuid = None
      BY <2>1, <3>2 DEF CalmInv, SoleTask, RowInStep
    <3>4. j.op = "certify" /\ (j.pc = "loaded" => j.obj.uuid = None) /\ j.pc # "called"
      BY <3>0, <3>3 DEF Routed, Idle
    <3>5. CalmRun(j)'
      BY <3>4 DEF CalmRun
    <3> QED BY <1>3, <2>1, <3>1, <3>5
  <2>4. CASE create_invoice_dispatch(c)
    BY <1>3, <2>1, <2>4, CalmIdle DEF create_invoice_dispatch, Idle
  <2> QED BY <1>6, <1>7, <2>1, <2>2, <2>3, <2>4 DEF ClientStep
<1>8. ASSUME NEW c \in Clients, Request(c) PROVE CalmRun(job[q])'
  <2>1. c \in Runners
    BY DEF Runners
  <2>2. ASSUME NEW t \in Tenants, NEW ref \in Refs, NEW sync \in BOOLEAN,
               queue_invoice_select(c, t, ref, sync)
        PROVE  CalmRun(job[q])'
    <3>1. ActiveRows(t, ref) = {}
      BY DEF Calm, ActiveRows
    <3> DEFINE j == [Idle EXCEPT !.pc = "insert", !.sync = sync, !.obj = NewRow(t, ref)]
    <3>2. job' = [job EXCEPT ![c] = j]
      BY <2>2, <3>1 DEF queue_invoice_select
    <3>3. j.op = "certify" /\ j.pc = "insert"
      BY DEF Idle
    <3> HIDE DEF j
    <3> QED BY <1>3, <2>1, <3>2, <3>3, CalmIdle
  <2>3. ASSUME NEW t \in Tenants, NEW i \in Invoices, NEW sync \in BOOLEAN,
               annul_invoice(c, t, i, sync)
        PROVE  CalmRun(job[q])'
    <3>0. PICK j : j = [Idle EXCEPT !.pc = "loaded", !.op = "annul", !.inv = i, !.obj = row[i]]
      OBVIOUS
    <3>1. UNCHANGED row /\ (UNCHANGED job \/ (Annullable(row[i]) /\ job' = [job EXCEPT ![c] = j]))
      BY <2>3, <3>0 DEF annul_invoice
    <3>2. j.op = "annul" /\ j.pc = "loaded" /\ j.inv = i /\ j.obj = row[i]
      BY <3>0 DEF Idle
    <3>3. ASSUME Annullable(row[i]), UNCHANGED row PROVE CalmRun(j)'
      BY <3>2, <3>3 DEF CalmRun, Annullable
    <3> QED BY <1>2, <1>3, <2>1, <3>1, <3>3
  <2> QED BY <1>8, <2>2, <2>3, EnvironmentAssumption DEF Request
<1>9. ASSUME NEW w \in Workers, WorkerStep(w) PROVE CalmRun(job[q])'
  <2>1. w \in Runners /\ job[w].op \in {"certify", "annul"}
    BY <1>1 DEF Runners, Job, Op
  <2>2. ASSUME NEW m \in Message, start_task(w, m) PROVE CalmRun(job[q])'
    <3>0. PICK j : j = Started(m)
      OBVIOUS
    <3>1. /\ job' = [job EXCEPT ![w] = j] /\ UNCHANGED row /\ queue[m] > 0
          /\ m.inv \in Invoices /\ m.op \in {"certify", "annul"}
      BY <2>2, <3>0 DEF start_task, Deliver, Message, Op
    <3>2. m.op = "certify" => row[m.inv].uuid = None
      BY <3>1 DEF Asks, CalmInv, SoleTask, RowInStep
    <3>3. /\ j.op = m.op /\ j.inv = m.inv
          /\ j.pc = IF Worth(m) THEN "loaded" ELSE "ack"
          /\ Worth(m) => j.obj = row[m.inv]
      BY <3>0 DEF Started, Idle
    <3>4. CalmRun(j)'
      BY <3>1, <3>2, <3>3 DEF CalmRun, Worth, Annullable
    <3> QED BY <1>3, <2>1, <3>1, <3>4
  <2>3. ASSUME NEW pc \in {"ack"}, job' = [job EXCEPT ![w] = Holding(w, pc)] PROVE CalmRun(job[q])'
    <3>1. Holding(w, pc).op = job[w].op /\ Holding(w, pc).pc = pc
      BY DEF Holding, Idle
    <3> QED BY <1>3, <2>1, <2>3, <3>1, CalmIdle
  <2>4. CASE acknowledge(w)
    BY <1>3, <2>1, <2>4, CalmIdle DEF acknowledge, Idle
  <2>5. CASE on_failure_load(w)
    <3>0. PICK j : j = [Holding(w, "dlq") EXCEPT !.obj = row[job[w].inv]]
      OBVIOUS
    <3>1. job' = [job EXCEPT ![w] = j] /\ job[w].pc = "failed"
      BY <2>5, <3>0 DEF on_failure_load
    <3>2. j.op = job[w].op /\ j.pc = "dlq"
      BY <3>0 DEF Holding, Idle
    <3>3. job[w].op = "certify"
      BY <1>1, <2>1, <3>1 DEF CalmRun
    <3> QED BY <1>3, <2>1, <3>1, <3>2, <3>3, CalmIdle
  <2> QED BY <1>6, <1>9, <2>1, <2>2, <2>3, <2>4, <2>5 DEF WorkerStep, autoretry, on_failure_commit
<1> QED BY <1>1, <1>2, <1>7, <1>8, <1>9, CalmNext DEF vars
-----------------------------------------------------------------------------
(* The task of an invoice is passed on, and never copied. *)

OthersKeep(r, i) == \A q \in Runners \ {r} : Carries(q, i)' => Carries(q, i)
QueueKeeps(m, i) == \A n \in Message \ {m} : Asks(n, i)' => Asks(n, i) /\ queue'[n] = queue[n]

NothingNew(i) == /\ \A q \in Runners : Carries(q, i)' => Carries(q, i)
                 /\ \A m \in Message : Asks(m, i)' => Asks(m, i) /\ queue'[m] <= queue[m]
Taken(r, m, i) == /\ UNCHANGED row
                  /\ Asks(m, i) /\ queue'[m] = queue[m] - 1 /\ QueueKeeps(m, i)
                  /\ OthersKeep(r, i)
Given(r, m, i) == /\ UNCHANGED row
                  /\ Carries(r, i) /\ ~Carries(r, i)' /\ OthersKeep(r, i)
                  /\ queue'[m] = queue[m] + 1 /\ QueueKeeps(m, i)
Opened(r, i) == /\ ~Exists(i) /\ row'[i].status = "PENDING"
                /\ UNCHANGED queue /\ OthersKeep(r, i)

TaskMoves(i) == \/ NothingNew(i)
                \/ \E r \in Runners : \/ Opened(r, i)
                                      \/ \E m \in Message : Taken(r, m, i) \/ Given(r, m, i)

\* A process that carries no more than before, while the queue gains no certification.
LEMMA NothingNewStep ==
    ASSUME TypeInv, NEW i \in Invoices, NEW r \in Runners, NEW j, job' = [job EXCEPT ![r] = j],
           j.op = "certify" /\ j.inv = i /\ j.pc \in HasInvoice \ {"ack"} => Carries(r, i),
           \A m \in Message : Asks(m, i)' => Asks(m, i) /\ queue'[m] <= queue[m]
    PROVE  NothingNew(i)
<1>1. job \in [Runners -> Job]
  BY DEF TypeInv, TypeOK
<1>2. \A q \in Runners : job'[q] = IF q = r THEN j ELSE job[q]
  BY <1>1
<1> QED BY <1>2 DEF NothingNew, Carries

\* The queue gains nothing when it is left alone, or when a message is delivered.
LEMMA QueueSame == ASSUME TypeInv, UNCHANGED queue, NEW i
                   PROVE  \A m \in Message : Asks(m, i)' => Asks(m, i) /\ queue'[m] <= queue[m]
<1>1. \A m \in Message : queue[m] \in Nat
  BY DEF TypeInv, TypeOK, TaskBrokerTypeOK
<1> QED BY <1>1 DEF Asks

\* Every step passes on the task of invoice i, or drops it, or leaves it alone.
LEMMA TaskMove ==
    ASSUME SafetyInv, Calm, CalmInv, [Next]_vars, NEW i \in Invoices
    PROVE  TaskMoves(i)
<1>1. /\ TypeInv /\ job \in [Runners -> Job] /\ queue \in [Message -> Nat]
      /\ \A r \in Runners : job[r] \in Job /\ CalmRun(job[r]) /\ Shaped(r, job[r])
  BY JobTyped DEF SafetyInv, TypeInv, TypeOK, TaskBrokerTypeOK, CalmInv, ProcessShape
<1>2. ASSUME UNCHANGED queue, NEW r \in Runners, NEW j, job' = [job EXCEPT ![r] = j],
             j.op = "certify" /\ j.inv = i /\ j.pc \in HasInvoice \ {"ack"} => Carries(r, i)
      PROVE  TaskMoves(i)
  BY <1>1, <1>2, QueueSame, NothingNewStep DEF TaskMoves
<1>3. ASSUME UNCHANGED <<job, queue>> PROVE TaskMoves(i)
  BY <1>1, <1>3, QueueSame DEF TaskMoves, NothingNew, Carries
<1>4. ASSUME NEW r \in Runners, NEW pc \in {"retry", "failed", "ack"}, UNCHANGED queue, Leave(r, pc),
             job[r].pc = "called"
      PROVE  TaskMoves(i)
  <2>0. PICK j : j = IF r \in Clients THEN Idle ELSE Holding(r, pc)
    OBVIOUS
  <2>1. job' = [job EXCEPT ![r] = j]
    BY <1>4, <2>0 DEF Leave
  <2>2. j.op = "certify" /\ j.inv = i /\ j.pc \in HasInvoice \ {"ack"} => Carries(r, i)
    BY <1>4, <2>0 DEF Idle, Holding, Carries, HasInvoice, PC
  <2> QED BY <1>2, <1>4, <2>1, <2>2
<1>5. ASSUME NEW r \in Runners, job[r].pc = "loaded", UNCHANGED queue, NEW a, NEW u, Answered(r, a, u)
      PROVE  TaskMoves(i)
  <2>0. PICK j : j = [job[r] EXCEPT !.pc = "called", !.answer = a, !.got = u]
    OBVIOUS
  <2>1. job' = [job EXCEPT ![r] = j] /\ j.op = job[r].op /\ j.inv = job[r].inv
    BY <1>1, <1>5, <2>0 DEF Answered, Job
  <2> QED BY <1>2, <1>5, <2>1 DEF Carries, HasInvoice, PC
<1>6. ASSUME NEW r \in Runners, Progress(r) PROVE TaskMoves(i)
  <2>1. \A n \in {After(r), "failed"} : n \in {"retry", "failed", "ack"}
    BY <1>1, AfterType
  <2> QED BY <1>4, <1>5, <1>6, <2>1
          DEF Progress, call_misconfigured, certify_now_call, annul_now_call, certify_now_commit,
              annul_now_commit, StoresCertification, StoresAnnulment, session_rollback
<1>7. ASSUME NEW c \in Clients, Request(c) PROVE TaskMoves(i)
  <2>1. c \in Runners
    BY DEF Runners
  <2>2. ASSUME NEW t \in Tenants, NEW ref \in Refs, NEW sync \in BOOLEAN,
               queue_invoice_select(c, t, ref, sync)
        PROVE  TaskMoves(i)
    <3>1. ActiveRows(t, ref) = {}
      BY DEF Calm, ActiveRows
    <3>0. PICK j : j = [Idle EXCEPT !.pc = "insert", !.sync = sync, !.obj = NewRow(t, ref)]
      OBVIOUS
    <3>2. job' = [job EXCEPT ![c] = j] /\ UNCHANGED queue
      BY <2>2, <3>0, <3>1 DEF queue_invoice_select
    <3>3. j.pc = "insert"
      BY <3>0 DEF Idle
    <3> QED BY <1>2, <2>1, <3>2, <3>3 DEF HasInvoice
  <2>3. ASSUME NEW t \in Tenants, NEW k \in Invoices, NEW sync \in BOOLEAN,
               annul_invoice(c, t, k, sync)
        PROVE  TaskMoves(i)
    <3> DEFINE ask == [op |-> "annul", inv |-> k, retries |-> 0]
    <3>1. CASE sync
      <4>0. PICK j : j = [Idle EXCEPT !.pc = "loaded", !.op = "annul", !.inv = k, !.obj = row[k]]
        OBVIOUS
      <4>1. job' = [job EXCEPT ![c] = j] /\ UNCHANGED queue
        BY <2>3, <3>1, <4>0 DEF annul_invoice
      <4>2. j.op = "annul"
        BY <4>0 DEF Idle
      <4> QED BY <1>2, <2>1, <4>1, <4>2
    <3>2. CASE ~sync
      <4>1. UNCHANGED job /\ queue' = [queue EXCEPT ![ask] = @ + 1]
        BY <2>3, <3>2 DEF annul_invoice, Publish
      <4>2. ask.op = "annul"
        OBVIOUS
      <4> HIDE DEF ask
      <4>3. \A m \in Message : m.op = "certify" => queue'[m] = queue[m] /\ queue[m] \in Nat
        BY <1>1, <4>1, <4>2
      <4> QED BY <4>1, <4>3 DEF TaskMoves, NothingNew, Carries, Asks
    <3> QED BY <3>1, <3>2
  <2> QED BY <1>7, <2>2, <2>3, EnvironmentAssumption DEF Request
<1> DEFINE Passed(r, m) == /\ UNCHANGED row
                           /\ m \in Message /\ m.op = "certify" /\ m.inv = job[r].inv
                           /\ queue' = [queue EXCEPT ![m] = @ + 1]
                           /\ Carries(r, job[r].inv)
<1>8. ASSUME NEW r \in Runners, NEW m, Passed(r, m), NEW j, job' = [job EXCEPT ![r] = j],
             j.pc \in {"idle", "ack"}
      PROVE  TaskMoves(i)
  <2>1. \A q \in Runners : job'[q] = IF q = r THEN j ELSE job[q]
    BY <1>1, <1>8
  <2>2. /\ \A n \in Message \ {m} : queue'[n] = queue[n]
        /\ queue'[m] = queue[m] + 1 /\ \A n \in Message : queue[n] \in Nat
    BY <1>1, <1>8
  <2>3. CASE i = job[r].inv
    <3>1. Given(r, m, i)
      BY <1>8, <2>1, <2>2, <2>3 DEF Given, QueueKeeps, OthersKeep, Carries, Asks, HasInvoice
    <3> QED BY <1>8, <3>1 DEF TaskMoves
  <2>4. CASE i # job[r].inv
    <3>1. \A n \in Message : Asks(n, i)' => Asks(n, i) /\ queue'[n] <= queue[n]
      BY <1>8, <2>2, <2>4 DEF Asks
    <3> QED BY <1>1, <1>8, <3>1, NothingNewStep DEF TaskMoves, HasInvoice
  <2> QED BY <2>3, <2>4
<1>9. ASSUME NEW c \in Clients, ClientStep(c) PROVE TaskMoves(i)
  <2>1. c \in Runners
    BY DEF Runners
  <2>2. CASE queue_invoice_insert(c)
    <3>1. job[c].op = "certify" /\ UNCHANGED queue /\ job[c].obj \in Row /\ job[c].obj.status = "PENDING"
      BY <1>1, <2>1, <2>2 DEF queue_invoice_insert, Shaped, Job
    <3>2. CASE job' = [job EXCEPT ![c] = Idle]
      BY <1>2, <2>1, <3>1, <3>2 DEF Idle, HasInvoice
    <3>3. ASSUME NEW k \in Invoices, ~Exists(k), CommitRow(k, job[c].obj, {"invoice.queued"}),
                 job' = [job EXCEPT ![c].pc = "refresh", ![c].inv = k]
          PROVE  TaskMoves(i)
      <4>1. job'[c].inv = k /\ \A q \in Runners \ {c} : job'[q] = job[q]
        BY <1>1, <2>1, <3>3 DEF Job
      <4>2. CASE i = k
        <5>1. row'[i].status = "PENDING"
          BY <1>1, <3>1, <3>3, <4>2, CommitEvolves DEF TypeInv
        <5>2. OthersKeep(c, i)
          BY <4>1 DEF OthersKeep, Carries
        <5>3. Opened(c, i)
          BY <3>1, <3>3, <4>2, <5>1, <5>2 DEF Opened
        <5> QED BY <2>1, <5>3 DEF TaskMoves
      <4>3. CASE i # k
        <5>1. \A q \in Runners : Carries(q, i)' => Carries(q, i)
          BY <4>1, <4>3 DEF Carries
        <5> QED BY <1>1, <3>1, <5>1, QueueSame DEF TaskMoves, NothingNew
      <4> QED BY <4>2, <4>3
    <3> QED BY <2>2, <3>2, <3>3 DEF queue_invoice_insert
  <2>3. CASE queue_invoice_refresh(c)
    <3>0. PICK j : j = Routed(job[c].inv, row[job[c].inv], job[c].sync)
      OBVIOUS
    <3>1. job' = [job EXCEPT ![c] = j] /\ UNCHANGED queue /\ job[c].pc = "refresh" /\ job[c].op = "certify"
      BY <1>1, <2>1, <2>3, <3>0 DEF queue_invoice_refresh, Shaped
    <3>2. j.pc = "idle" \/ j.inv = job[c].inv
      BY <3>0 DEF Routed, Idle
    <3> QED BY <1>2, <2>1, <3>1, <3>2 DEF Carries, HasInvoice, PC
  <2>4. CASE create_invoice_dispatch(c)
    <3>1. job[c].pc = "dispatch" /\ job[c].op = "certify" /\ job[c].inv \in Invoices
      BY <1>1, <2>1, <2>4 DEF create_invoice_dispatch, Shaped, HasInvoice, PC
    <3>2. Task(c, 0) \in Message
      BY <1>1, <2>1, <3>1, TaskType, BoundsAreNat DEF HasInvoice, PC
    <3>3. Passed(c, Task(c, 0))
      BY <2>4, <3>1, <3>2 DEF create_invoice_dispatch, Publish, Task, Carries, HasInvoice, PC
    <3> QED BY <1>8, <2>1, <2>4, <3>3 DEF create_invoice_dispatch, Idle
  <2> QED BY <1>6, <1>9, <2>1, <2>2, <2>3, <2>4 DEF ClientStep
<1>10. ASSUME NEW w \in Workers, WorkerStep(w) PROVE TaskMoves(i)
  <2>1. w \in Runners /\ w \notin Clients
    BY WorkerIsNoClient
  <2>2. ASSUME NEW m \in Message, start_task(w, m) PROVE TaskMoves(i)
    <3>0. PICK j : j = Started(m)
      OBVIOUS
    <3>1. /\ job' = [job EXCEPT ![w] = j] /\ UNCHANGED row
          /\ queue[m] > 0 /\ queue' = [queue EXCEPT ![m] = @ - 1]
      BY <2>2, <3>0 DEF start_task, Deliver
    <3>2. j.op = m.op /\ j.inv = m.inv
      BY <3>0 DEF Started, Idle
    <3>3. \A q \in Runners : job'[q] = IF q = w THEN j ELSE job[q]
      BY <1>1, <2>1, <3>1
    <3>4. /\ \A n \in Message \ {m} : queue'[n] = queue[n]
          /\ queue'[m] = queue[m] - 1 /\ \A n \in Message : queue[n] \in Nat
      BY <1>1, <3>1
    <3>5. CASE m.op = "certify" /\ m.inv = i
      <4>1. Taken(w, m, i)
        BY <3>1, <3>3, <3>4, <3>5 DEF Taken, QueueKeeps, OthersKeep, Carries, Asks
      <4> QED BY <2>1, <4>1 DEF TaskMoves
    <3>6. CASE ~(m.op = "certify" /\ m.inv = i)
      <4>1. \A n \in Message : Asks(n, i)' => Asks(n, i) /\ queue'[n] <= queue[n]
        BY <3>4, <3>6 DEF Asks
      <4> QED BY <1>1, <2>1, <3>1, <3>2, <3>6, <4>1, NothingNewStep DEF TaskMoves
    <3> QED BY <3>5, <3>6
  <2>3. CASE autoretry(w)
    <3>1. /\ job[w].pc = "retry" /\ job[w].op = "certify" /\ job[w].inv \in Invoices
          /\ job[w].retries + 1 \in 0 .. MaxRetries
      BY <1>1, <2>1, <2>3, BoundsAreNat
         DEF autoretry, Shaped, HasInvoice, PC, CalmRun, Job, Op
    <3>2. Task(w, job[w].retries + 1) \in Message
      BY <1>1, <2>1, <3>1, TaskType DEF HasInvoice, PC
    <3>3. Passed(w, Task(w, job[w].retries + 1))
      BY <2>3, <3>1, <3>2 DEF autoretry, Publish, Task, Carries, HasInvoice, PC
    <3>4. job' = [job EXCEPT ![w] = Holding(w, "ack")] /\ Holding(w, "ack").pc = "ack"
      BY <2>3 DEF autoretry, Holding, Idle
    <3> QED BY <1>8, <2>1, <3>3, <3>4
  <2>4. CASE on_failure_commit(w) \/ acknowledge(w)
    <3>0. PICK j : j = IF acknowledge(w) THEN Idle ELSE Holding(w, "ack")
      OBVIOUS
    <3>1. UNCHANGED queue /\ job' = [job EXCEPT ![w] = j]
      BY <2>4, <3>0 DEF on_failure_commit, acknowledge
    <3>2. j.pc \in {"idle", "ack"}
      BY <3>0 DEF Holding, Idle
    <3> QED BY <1>2, <2>1, <3>1, <3>2 DEF HasInvoice
  <2>5. CASE on_failure_load(w)
    <3>0. PICK j : j = [Holding(w, "dlq") EXCEPT !.obj = row[job[w].inv]]
      OBVIOUS
    <3>1. UNCHANGED queue /\ job' = [job EXCEPT ![w] = j] /\ job[w].pc = "failed"
      BY <2>5, <3>0 DEF on_failure_load
    <3>2. j.op = job[w].op /\ j.inv = job[w].inv
      BY <3>0 DEF Holding, Idle
    <3> QED BY <1>2, <2>1, <3>1, <3>2 DEF Carries, HasInvoice, PC
  <2> QED BY <1>6, <1>10, <2>1, <2>2, <2>3, <2>4, <2>5 DEF WorkerStep
<1> QED BY <1>1, <1>3, <1>7, <1>9, <1>10, CalmNext DEF vars

\* So there is never more than one task, and none once the row is settled.
LEMMA SoleTaskStep ==
    ASSUME SafetyInv, SafetyInv', Calm, CalmInv, [Next]_vars PROVE SoleTask'
<1> SUFFICES ASSUME NEW i \in Invoices
             PROVE  /\ \A m \in Message : Asks(m, i)' => queue'[m] = 1 /\ row'[i].status = "PENDING"
                    /\ \A m, n \in Message : Asks(m, i)' /\ Asks(n, i)' => m = n
                    /\ \A r \in Runners : Carries(r, i)' => /\ row'[i].status = "PENDING"
                                                            /\ \A m \in Message : ~Asks(m, i)'
                    /\ \A r, q \in Runners : Carries(r, i)' /\ Carries(q, i)' => r = q
  BY DEF SoleTask
<1>1. /\ SoleTask /\ queue \in [Message -> Nat]
      /\ ~Exists(i) => /\ \A r \in Runners : ~Carries(r, i)
                       /\ \A m \in Message : ~Asks(m, i)
  BY DEF CalmInv, SoleTask, SafetyInv, TypeInv, TypeOK, TaskBrokerTypeOK, Exists
<1>2. CASE NothingNew(i)
  <2>0. \A m \in Message : Asks(m, i)' => queue'[m] \in Nat \ {0}
    BY DEF SafetyInv, TypeInv, TypeOK, TaskBrokerTypeOK, Asks
  <2>1. CASE row'[i].status = row[i].status
    <3>1. \A m \in Message : Asks(m, i)' => queue'[m] = 1 /\ Asks(m, i)
      <4>1. \A m \in Message : Asks(m, i) => queue[m] = 1
        BY <1>1 DEF SoleTask
      <4> QED BY <1>2, <2>0, <4>1 DEF NothingNew
    <3> QED BY <1>1, <1>2, <2>1, <3>1 DEF SoleTask, NothingNew
  <2>4. CASE Posted(i)
    BY <1>1, <1>2, <2>4 DEF NothingNew, Posted
  <2>2. ASSUME NEW r \in Runners, CertifiedBy(r, i) \/ RejectedBy(r, i)
        PROVE  /\ \A q \in Runners : ~Carries(q, i)'
               /\ \A m \in Message : ~Asks(m, i)'
    BY <1>1, <1>2, <2>2 DEF CertifiedBy, RejectedBy, Brings, SoleTask, NothingNew
  <2>3. ASSUME NEW r \in Runners, AnnulledBy(r, i)
        PROVE  /\ \A q \in Runners : ~Carries(q, i)'
               /\ \A m \in Message : ~Asks(m, i)'
    BY <1>1, <1>2, <2>3 DEF AnnulledBy, SoleTask, NothingNew
  <2> QED BY <2>1, <2>2, <2>3, <2>4, RowMove DEF RowMoves, Still
<1>3. ASSUME NEW r \in Runners, NEW m \in Message, Taken(r, m, i)
      PROVE  /\ row'[i].status = "PENDING"
             /\ \A n \in Message : ~Asks(n, i)'
             /\ \A q \in Runners : Carries(q, i)' => q = r
  <2>1. queue[m] = 1 /\ row[i].status = "PENDING" /\ \A q \in Runners : ~Carries(q, i)
    BY <1>1, <1>3 DEF Taken, SoleTask
  <2>2. \A n \in Message : Asks(n, i) => n = m
    BY <1>1, <1>3 DEF Taken, SoleTask
  <2> QED BY <1>3, <2>1, <2>2 DEF Taken, QueueKeeps, OthersKeep, Asks
<1>4. ASSUME NEW r \in Runners, NEW m \in Message, Given(r, m, i)
      PROVE  /\ row'[i].status = "PENDING"
             /\ \A n \in Message : Asks(n, i)' => n = m /\ queue'[n] = 1
             /\ \A q \in Runners : ~Carries(q, i)'
  <2>1. /\ row[i].status = "PENDING" /\ \A n \in Message : ~Asks(n, i)
        /\ \A q \in Runners : Carries(q, i) => q = r
    BY <1>1, <1>4 DEF Given, SoleTask
  <2> QED BY <1>1, <1>4, <2>1 DEF Given, QueueKeeps, OthersKeep, Asks
<1>5. ASSUME NEW r \in Runners, Opened(r, i)
      PROVE  /\ row'[i].status = "PENDING"
             /\ \A n \in Message : ~Asks(n, i)'
             /\ \A q \in Runners : Carries(q, i)' => q = r
  BY <1>1, <1>5 DEF Opened, OthersKeep, Asks
<1> QED BY <1>2, <1>3, <1>4, <1>5, TaskMove DEF TaskMoves
-----------------------------------------------------------------------------
(* Exactly once. *)

\* Nothing is posted, queued or issued at first.
LEMMA InitCalm == Init => CalmInv
<1> SUFFICES ASSUME Init PROVE CalmInv
  OBVIOUS
<1>1. /\ \A i \in Invoices : row[i] = NoRow /\ Documents(i) = {}
      /\ \A r \in Runners : job[r] = Idle
      /\ \A m \in Message : queue[m] = 0
      /\ voided = {}
  BY NoneIsNoValue DEF Init, InvoiceTableInit, SatLedgerInit, TaskBrokerInit, Documents
<1>2. SoleTask
  BY <1>1 DEF SoleTask, Asks, Carries, Idle, HasInvoice, PC
<1>3. \A i \in Invoices : RowInStep(i)
  BY <1>1 DEF RowInStep, NoRow
<1>4. \A r \in Runners : CalmRun(job[r])
  BY <1>1 DEF CalmRun, Idle
<1> QED BY <1>1, <1>2, <1>3, <1>4 DEF CalmInv, VoidedShown

\* In a calm environment the task of a PENDING row is in one place, and SAT is at
\* most one commit ahead of the rows.
THEOREM CalmSafety == Calm /\ Spec => [](Calm /\ CalmInv)
<1>1. SafetyInv /\ SafetyInv' /\ (Calm /\ CalmInv) /\ [Next]_vars => (Calm /\ CalmInv)'
  <2> SUFFICES ASSUME SafetyInv, SafetyInv', Calm, CalmInv, [Next]_vars PROVE CalmInv'
    BY DEF Calm
  <2>1. \A i \in Invoices : RowInStep(i)'
    BY RowsInStepStep
  <2>2. \A r \in Runners : CalmRun(job[r])'
    BY CalmRunStep
  <2> QED BY <2>1, <2>2, SoleTaskStep, VoidedShownStep DEF CalmInv
<1> QED BY <1>1, InitCalm, Safety, PTL DEF Spec

\* A row's commit is a step of the ideal life.
LEMMA IdealCommit ==
    ASSUME SafetyInv, Calm, CalmInv, [Next]_vars, UNCHANGED <<issued, voided>>
    PROVE  [Lifecycle!IdealNext]_(Lifecycle!lifecycle)
<1> DEFINE st == [i \in Invoices |-> row[i].status]
           sh == [i \in Invoices |-> IF row[i].uuid = Blank THEN None ELSE row[i].uuid]
           hd == [i \in Invoices |-> Documents(i)]
<1>1. TypeInv /\ RowsExist /\ hd' = hd /\ voided' = voided
  BY DEF SafetyInv, Documents
<1>2. CASE UNCHANGED row
  BY <1>1, <1>2 DEF Lifecycle!lifecycle
<1>3. CASE ~UNCHANGED row
  <2>1. PICK k \in Invoices, r \in Row, E \in SUBSET Event : CommitRow(k, r, E)
    BY <1>1, <1>3, RowStep
  <2>2. row'[k] = r /\ \A i \in Invoices \ {k} : row'[i] = row[i]
    BY <1>1, <2>1, CommitEvolves
  <2> DEFINE new == IF row'[k].uuid = Blank THEN None ELSE row'[k].uuid
  <2>3. st' = [st EXCEPT ![k] = row'[k].status] /\ sh' = [sh EXCEPT ![k] = new]
    BY <2>2
  <2>4. RowInStep(k)
    BY DEF CalmInv
  <2>5. CASE Still(k)
    <3>1. st' = st /\ sh' = sh
      BY <2>3, <2>5 DEF Still
    <3> QED BY <1>1, <3>1 DEF Lifecycle!lifecycle
  <2>6. CASE Posted(k)
    <3>1. row[k] = NoRow
      BY <2>6 DEF SafetyInv, RowsExist, Posted
    <3>2. sh' = sh
      <4>1. \A i \in Invoices : row'[i].uuid = row[i].uuid
        BY <2>2, <2>6, <3>1 DEF Posted, NoRow
      <4> QED BY <4>1
    <3>3. Lifecycle!Submit(k)
      BY <1>1, <2>3, <2>6, <3>1, <3>2 DEF Lifecycle!Submit, Posted, NoRow
    <3> QED BY <3>3 DEF Lifecycle!IdealNext
  <2>7. ASSUME NEW q \in Runners, CertifiedBy(q, k) PROVE Lifecycle!IdealNext
    <3>1. row[k].status = "PENDING" /\ job[q].got \in Documents(k)
      BY <2>7 DEF CertifiedBy, Brings, CalmInv, SoleTask
    <3>2. row'[k].uuid = job[q].got /\ new = job[q].got
      BY <2>7, <3>1, BlankIsNoUuid DEF CertifiedBy, Documents
    <3>3. Lifecycle!Certify(k)
      BY <1>1, <2>3, <2>7, <3>1, <3>2 DEF Lifecycle!Certify, Lifecycle!Show, CertifiedBy
    <3> QED BY <3>3 DEF Lifecycle!IdealNext
  <2>8. ASSUME NEW q \in Runners, RejectedBy(q, k) PROVE Lifecycle!IdealNext
    <3>1. row[k].status = "PENDING" /\ Documents(k) = {}
      BY <2>8, CarrierBrings DEF RejectedBy, CalmInv, SoleTask
    <3>2. Lifecycle!Reject(k)
      BY <1>1, <2>3, <2>8, <3>1, BlankIsNoUuid DEF Lifecycle!Reject, Lifecycle!Show, RejectedBy
    <3> QED BY <3>2 DEF Lifecycle!IdealNext
  <2>9. ASSUME NEW q \in Runners, AnnulledBy(q, k)
        PROVE  [Lifecycle!IdealNext]_(Lifecycle!lifecycle)
    <3>1. CASE row[k].status = "ANNULLED"
      BY <2>5, <2>9, <3>1 DEF AnnulledBy, Still
    <3>2. CASE row[k].status = "CERTIFIED"
      <4>1. row[k].uuid \in voided
        <5>1. job[q].pc = "called" /\ job[q].answer = "ok" /\ job[q].op = "annul" /\ job[q].inv = k
          BY <2>9 DEF AnnulledBy, Ends
        <5>2. row[k].uuid = job[q].obj.uuid
          BY <5>1 DEF CalmInv, CalmRun
        <5>3. job[q].obj.uuid \in voided
          BY <5>1 DEF SafetyInv, LedgerInv, AnswersBacked, Backed
        <5> QED BY <5>2, <5>3
      <4>2. row[k].uuid \in Uuids /\ row[k].uuid # Blank
        BY <2>4, <3>2, BlankIsNoUuid DEF RowInStep, Documents
      <4>3. Lifecycle!Annul(k)
        BY <1>1, <2>3, <2>9, <3>2, <4>1, <4>2 DEF Lifecycle!Annul, Lifecycle!Show, AnnulledBy
      <4> QED BY <4>3 DEF Lifecycle!IdealNext
    <3> QED BY <2>9, <3>1, <3>2 DEF AnnulledBy
  <2> QED BY <2>5, <2>6, <2>7, <2>8, <2>9, RowMove DEF RowMoves
<1> QED BY <1>2, <1>3

\* Every step of the gateway is a step of the ideal life, or a stutter.
LEMMA IdealStep ==
    SafetyInv /\ Calm /\ CalmInv /\ [Next]_vars => [Lifecycle!IdealNext]_(Lifecycle!lifecycle)
<1> SUFFICES ASSUME SafetyInv, Calm, CalmInv, [Next]_vars
             PROVE  [Lifecycle!IdealNext]_(Lifecycle!lifecycle)
  OBVIOUS
<1> DEFINE hd == [i \in Invoices |-> Documents(i)]
<1>1. /\ TypeInv /\ issued \in [Uuids -> Invoices \cup {None}] /\ None \notin Invoices
      /\ \A r \in Runners : job[r] \in Job /\ CalmRun(job[r]) /\ Shaped(r, job[r])
  BY NoneIsNoValue, JobTyped
     DEF SafetyInv, TypeInv, TypeOK, SatLedgerTypeOK, CalmInv, ProcessShape
<1>2. ASSUME NEW r \in Runners, NEW u \in Uuids, CertifiedAt(r, u), UNCHANGED row
      PROVE  Lifecycle!IdealNext
  <2> DEFINE i == job[r].inv
  <2>1. /\ job[r].pc = "loaded" /\ job[r].op = "certify" /\ issued[u] = None
        /\ issued' = [issued EXCEPT ![u] = i] /\ voided' = voided
    BY <1>2 DEF CertifiedAt, Issue
  <2>2. i \in Invoices /\ Carries(r, i)
    BY <1>1, <2>1 DEF Shaped, Carries, HasInvoice, PC
  <2>3. row[i].status = "PENDING" /\ hd[i] = {}
    BY <2>1, <2>2, CarrierBrings DEF CalmInv, SoleTask, Brings
  <2> HIDE DEF i
  <2>5. hd' = [hd EXCEPT ![i] = @ \cup {u}]
    <3>1. \A j \in Invoices : Documents(j)' = IF j = i THEN Documents(j) \cup {u} ELSE Documents(j)
      BY <1>1, <2>1, <2>2 DEF Documents
    <3> QED BY <2>2, <3>1
  <2>6. \A j \in Invoices : u \notin hd[j]
    BY <1>1, <2>1 DEF Documents
  <2>7. Lifecycle!IssueOnce(i, u)
    BY <1>2, <2>1, <2>2, <2>3, <2>5, <2>6 DEF Lifecycle!IssueOnce, Lifecycle!Issue
  <2> QED BY <2>2, <2>7 DEF Lifecycle!IdealNext
<1>3. ASSUME NEW r \in Runners, AnnulledAt(r), UNCHANGED row
      PROVE  [Lifecycle!IdealNext]_(Lifecycle!lifecycle)
  <2> DEFINE i == job[r].inv
  <2>1. /\ job[r].pc = "loaded" /\ job[r].op = "annul"
        /\ voided' = voided \cup {job[r].obj.uuid} /\ hd' = hd
    BY <1>3 DEF AnnulledAt, Void, Documents
  <2>2. /\ i \in Invoices /\ row[i].uuid = job[r].obj.uuid
        /\ row[i].status \in {"CERTIFIED", "ANNULLED"} /\ RowInStep(i)
    BY <1>1, <2>1 DEF Shaped, HasInvoice, PC, CalmRun, CalmInv
  <2>3. CASE row[i].status = "CERTIFIED"
    <3>1. hd[i] = {row[i].uuid} /\ row[i].uuid # Blank
      BY <2>2, <2>3, BlankIsNoUuid DEF RowInStep, Documents
    <3>2. Lifecycle!VoidShown(i)
      BY <1>3, <2>1, <2>2, <2>3, <3>1 DEF Lifecycle!VoidShown, Lifecycle!Void
    <3> QED BY <2>2, <3>2 DEF Lifecycle!IdealNext
  <2>4. CASE row[i].status = "ANNULLED"
    <3>1. voided' = voided
      BY <2>1, <2>2, <2>4 DEF RowInStep
    <3> QED BY <1>3, <2>1, <3>1 DEF Lifecycle!lifecycle
  <2> QED BY <2>2, <2>3, <2>4
<1> QED BY <1>1, <1>2, <1>3, IdealCommit, LedgerMove

\* Without faults, all the interleavings of requests, retries and annulments are no
\* more than the ideal life of each invoice.
THEOREM LivesIdeally == Calm /\ Spec => IdealLife
<1>1. Init => Lifecycle!Empty
  <2> SUFFICES ASSUME Init PROVE Lifecycle!Empty
    OBVIOUS
  <2>1. \A i \in Invoices : row[i].status = "ABSENT" /\ row[i].uuid = None
    BY DEF Init, InvoiceTableInit, NoRow
  <2>2. voided = {} /\ \A i \in Invoices : Documents(i) = {}
    BY NoneIsNoValue DEF Init, SatLedgerInit, Documents
  <2> QED BY <2>1, <2>2 DEF Lifecycle!Empty
<1>2. SafetyInv /\ Calm /\ CalmInv /\ [Next]_vars => [Lifecycle!IdealNext]_(Lifecycle!lifecycle)
  BY IdealStep
<1> QED BY <1>1, <1>2, Safety, CalmSafety, PTL DEF Spec, IdealLife, Lifecycle!Ideal

\* SAT never makes two documents for one row: no retry certifies what was certified.
THEOREM CertifiedOnce == Calm /\ Spec => []OneDocPerRow
<1>1. SafetyInv /\ CalmInv => OneDocPerRow
  <2> SUFFICES ASSUME SafetyInv, CalmInv, NEW i \in Invoices, NEW u \in Documents(i), NEW v \in Documents(i)
               PROVE  u = v
    BY DEF OneDocPerRow
  <2>1. RowInStep(i) /\ row[i].status \in Status \cup {"ABSENT"}
    BY RowTyped DEF CalmInv, SafetyInv, TypeInv, Row
  <2> QED BY <2>1 DEF RowInStep, Brings, Status, Active, Settled
<1> QED BY <1>1, Safety, CalmSafety, PTL

\* An invoice nobody works on tells its caller exactly what SAT holds for it.
THEOREM RestTells == Calm /\ Spec => []RestMirrors
<1>1. SafetyInv /\ CalmInv => RestMirrors
  <2> SUFFICES ASSUME SafetyInv, CalmInv, NEW i \in Invoices, AtRest(i) PROVE Mirrors(i)
    BY DEF RestMirrors
  <2>1. RowInStep(i) /\ row[i].status \in Status \cup {"ABSENT"}
    BY RowTyped DEF CalmInv, SafetyInv, TypeInv, Row
  <2>2. \A r \in Runners : ~Brings(r, i) /\ ~Ends(r, i)
    BY DEF AtRest, HasWork, Brings, Carries, Ends
  <2> QED BY <2>1, <2>2 DEF RowInStep, Mirrors, Valid, Status, Active, Settled
<1> QED BY <1>1, Safety, CalmSafety, PTL
-----------------------------------------------------------------------------
(* One order, one document, for a caller that waits: one request thread with    *)
(* ?sync=true, no worker ever given a task, no death, and no answer to a         *)
(* certification lost.  The annulments keep all their faults.                    *)

\* The workers have nothing to do, and no process dies: only the thread moves.
LEMMA AloneNext ==
    ASSUME Alone, SafetyInv, AloneInv, [Next]_vars
    PROVE  \/ UNCHANGED vars
           \/ \E c \in Clients : \/ Request(c) \/ Progress(c)
                                 \/ queue_invoice_insert(c) \/ queue_invoice_refresh(c)
<1>1. ASSUME NEW r \in Runners, crash(r) PROVE FALSE
  BY <1>1 DEF crash, Alone, SafetyInv, TypeInv, TypeOK
<1>2. ASSUME NEW m \in Message, Deliver(m) PROVE FALSE
  BY <1>2 DEF Deliver, AloneInv, NothingQueued
<1>3. ASSUME NEW w \in Workers, WorkerStep(w) \/ Outage(w) PROVE FALSE
  <2>1. job[w].pc = "idle"
    BY DEF AloneInv, NothingQueued
  <2> QED BY <1>2, <1>3, <2>1
          DEF WorkerStep, Outage, db_outage, refresh_outage, broker_outage, start_task, Progress,
              call_misconfigured, certify_now_call, annul_now_call, certify_now_commit,
              annul_now_commit, StoresCertification, StoresAnnulment, session_rollback, autoretry,
              on_failure_load, on_failure_commit, acknowledge
<1>4. ASSUME NEW c \in Clients, create_invoice_dispatch(c) PROVE FALSE
  BY <1>4 DEF create_invoice_dispatch, AloneInv, AloneRun
<1> QED BY <1>1, <1>3, <1>4 DEF Next, ClientStep, rest

\* The thread's steps leave the workers idle and are its own only.
LEMMA AloneJobs ==
    ASSUME Alone, TypeInv, NothingQueued, NEW c \in Clients, NEW j,
           job' = [job EXCEPT ![c] = j], UNCHANGED queue
    PROVE  /\ NothingQueued'
           /\ \A d \in Clients : d = c /\ job'[d] = j
<1>1. c \in Runners /\ c \notin Workers /\ Workers \subseteq Runners
  BY ProcessesAreDisjoint DEF Runners
<1>2. job'[c] = j /\ \A w \in Workers : job'[w] = job[w]
  BY <1>1, OneJob
<1>3. \A d \in Clients : d = c
  BY DEF Alone
<1> QED BY <1>2, <1>3 DEF NothingQueued

\* The thread thinks, or asks SAT to annul: no row changes, no document is made.
LEMMA AloneThinks ==
    ASSUME Alone, TypeInv, AloneInv, NEW c \in Clients, NEW j, job' = [job EXCEPT ![c] = j],
           UNCHANGED <<row, issued, queue>>, voided \subseteq voided', AloneRun(j),
           \A i \in Invoices : ~Returns(c, i)
    PROVE  AloneInv'
<1>1. NothingQueued' /\ \A d \in Clients : d = c /\ job'[d] = j
  BY AloneJobs DEF AloneInv
<1>2. OneActive'
  BY DEF AloneInv, OneActive, SameKey, SameRef
<1>3. \A d \in Clients : AloneRun(job[d])'
  BY <1>1 DEF AloneRun, SameRef
<1>4. ASSUME NEW i \in Invoices PROVE AloneRow(i)'
  <2>1. Documents(i)' = Documents(i) /\ Valid(i)' \subseteq Valid(i)
    BY DEF Documents, Valid
  <2>2. ~\E d \in Clients : Returns(d, i)
    BY <1>1
  <2> QED BY <2>1, <2>2 DEF AloneInv, AloneRow
<1> QED BY <1>1, <1>2, <1>3, <1>4 DEF AloneInv

\* The thread commits its answer and is done.
LEMMA AloneCommits ==
    ASSUME Alone, TypeInv, AloneInv, NEW c \in Clients, job' = [job EXCEPT ![c] = Idle],
           UNCHANGED <<issued, voided, queue>>,
           NEW i \in Invoices, job[c].inv = i, NEW s \in Row, row' = [row EXCEPT ![i] = s],
           s.tenant = row[i].tenant, s.ref = row[i].ref, s.status # "ABSENT",
           s.status \in Active => row[i].status \in Active,
           s.status \in {"PENDING", "REJECTED"} => Documents(i) = {},
           s.status = "ANNULLED" => Valid(i) = {}
    PROVE  AloneInv'
<1>1. NothingQueued' /\ \A d \in Clients : d = c /\ job'[d] = Idle
  BY AloneJobs DEF AloneInv
<1>2. \A k \in Invoices : row'[k] = IF k = i THEN s ELSE row[k]
  BY DEF TypeInv, TypeOK, InvoiceTableTypeOK
<1>3. OneActive'
  BY <1>2 DEF AloneInv, OneActive, SameKey, SameRef
<1>4. \A d \in Clients : AloneRun(job[d])'
  BY <1>1 DEF AloneRun, Idle
<1>5. ASSUME NEW k \in Invoices PROVE AloneRow(k)'
  <2>1. Documents(k)' = Documents(k) /\ Valid(k)' = Valid(k)
    BY DEF Documents, Valid
  <2>2. AloneRow(k)
    BY DEF AloneInv
  <2>3. CASE k = i
    BY <1>2, <2>1, <2>2, <2>3 DEF AloneRow
  <2>4. CASE k # i
    <3>1. ~\E d \in Clients : Returns(d, k)
      BY <1>1, <2>4 DEF Returns
    <3> QED BY <1>2, <2>1, <2>2, <2>4, <3>1 DEF AloneRow
  <2> QED BY <2>3, <2>4
<1> QED BY <1>1, <1>3, <1>4, <1>5 DEF AloneInv

\* A request finds an active row, or none, and the thread goes on with what it found.
LEMMA AloneSelects ==
    ASSUME Alone, SafetyInv, AloneInv, NEW c \in Clients, NEW t \in Tenants, NEW ref \in Refs,
           NEW sync \in SyncModes, queue_invoice_select(c, t, ref, sync)
    PROVE  AloneInv'
<1>1. sync = TRUE /\ ref # Blank
  BY DEF Alone
<1>2. \A i \in Invoices : ~Returns(c, i)
  BY DEF queue_invoice_select, Returns
<1>3. CASE \E i \in ActiveRows(t, ref) : job' = [job EXCEPT ![c] = Routed(i, row[i], sync)]
  <2>1. PICK i \in ActiveRows(t, ref) : job' = [job EXCEPT ![c] = Routed(i, row[i], sync)]
    BY <1>3
  <2>2. i \in Invoices /\ row[i].status \in Active
    BY DEF ActiveRows
  <2>3. AloneRun(Routed(i, row[i], sync))
    BY <1>1, <2>2 DEF Routed, Idle, AloneRun, Active, Settled
  <2> QED BY <1>2, <2>1, <2>3, AloneThinks DEF queue_invoice_select, SafetyInv
<1>4. CASE /\ ActiveRows(t, ref) = {}
           /\ job' = [job EXCEPT ![c] = [Idle EXCEPT !.pc = "insert", !.sync = sync,
                                                     !.obj = NewRow(t, ref)]]
  <2> DEFINE ins == [Idle EXCEPT !.pc = "insert", !.sync = sync, !.obj = NewRow(t, ref)]
  <2>1. ins.pc = "insert" /\ ins.sync /\ ins.obj = NewRow(t, ref)
    BY <1>1 DEF Idle
  <2>2. \A i \in Invoices : SameRef(NewRow(t, ref), row[i]) => row[i].status \notin Active
    BY <1>1, <1>4 DEF SameRef, NewRow, ActiveRows
  <2>3. AloneRun(ins)
    <3> HIDE DEF ins
    <3> QED BY <2>1, <2>2 DEF AloneRun
  <2> HIDE DEF ins
  <2>4. job' = [job EXCEPT ![c] = ins]
    BY <1>4 DEF ins
  <2> QED BY <1>2, <2>3, <2>4, AloneThinks DEF queue_invoice_select, SafetyInv
<1> QED BY <1>3, <1>4 DEF queue_invoice_select

\* An annulment is only begun for a row that is CERTIFIED.
LEMMA AloneAnnuls ==
    ASSUME Alone, SafetyInv, AloneInv, NEW c \in Clients, NEW t \in Tenants, NEW i \in Invoices,
           NEW sync \in SyncModes, annul_invoice(c, t, i, sync)
    PROVE  AloneInv'
<1> DEFINE j == [Idle EXCEPT !.pc = "loaded", !.op = "annul", !.inv = i, !.obj = row[i]]
<1>1. sync = TRUE
  BY DEF Alone
<1>2. /\ job' = [job EXCEPT ![c] = j] /\ Annullable(row[i])
      /\ UNCHANGED <<row, issued, voided, queue>> /\ job[c].pc = "idle"
  BY <1>1 DEF annul_invoice
<1>3. AloneRun(j)
  <2>1. j.pc = "loaded" /\ j.op = "annul" /\ j.inv = i
    BY DEF Idle
  <2> HIDE DEF j
  <2> QED BY <1>2, <2>1 DEF AloneRun, Annullable
<1> HIDE DEF j
<1> QED BY <1>2, <1>3, AloneThinks DEF Returns, SafetyInv

\* The row that was inserted is the reference's only active one, and still PENDING
\* when it is read again.
LEMMA AloneInserts ==
    ASSUME Alone, SafetyInv, AloneInv, NEW c \in Clients, queue_invoice_insert(c)
    PROVE  AloneInv'
<1>1. c \in Runners /\ job[c] \in Job /\ job[c].pc = "insert" /\ TypeInv
  BY JobTyped DEF Runners, SafetyInv, TypeInv, queue_invoice_insert
<1>2. job[c].obj \in Row /\ job[c].obj.status = "PENDING" /\ job[c].op = "certify" /\ job[c].sync
  BY <1>1 DEF Job, TypeInv, ProcessShape, Shaped, AloneInv, AloneRun
<1>3. PICK i \in Invoices :
         /\ ~Exists(i)
         /\ \/ /\ CommitRow(i, job[c].obj, {"invoice.queued"})
               /\ job' = [job EXCEPT ![c].pc = "refresh", ![c].inv = i]
            \/ job' = [job EXCEPT ![c] = Idle] /\ UNCHANGED row
  BY DEF queue_invoice_insert
<1>4. CASE job' = [job EXCEPT ![c] = Idle] /\ UNCHANGED row
  <2>1. AloneRun(Idle)
    BY DEF Idle, AloneRun
  <2> QED BY <1>1, <1>4, <2>1, AloneThinks DEF queue_invoice_insert, Returns
<1>5. CASE /\ CommitRow(i, job[c].obj, {"invoice.queued"})
           /\ job' = [job EXCEPT ![c].pc = "refresh", ![c].inv = i]
  <2> DEFINE j == [job[c] EXCEPT !.pc = "refresh", !.inv = i]
  <2>1. job' = [job EXCEPT ![c] = j]
    BY <1>1, <1>5 DEF TypeInv, TypeOK, Job
  <2>2. j.pc = "refresh" /\ j.inv = i /\ j.op = "certify" /\ j.sync
    BY <1>1, <1>2 DEF Job
  <2> HIDE DEF j
  <2>3. NothingQueued' /\ \A d \in Clients : d = c /\ job'[d] = j
    BY <1>1, <2>1, AloneJobs DEF AloneInv, queue_invoice_insert
  <2>4. \A k \in Invoices : row'[k] = IF k = i THEN job[c].obj ELSE row[k]
    BY <1>1, <1>5 DEF CommitRow, TypeInv, TypeOK, InvoiceTableTypeOK
  <2>5. \A k \in Invoices : SameRef(job[c].obj, row[k]) => row[k].status \notin Active
    BY <1>1 DEF AloneInv, AloneRun
  <2>6. OneActive'
    BY <2>4, <2>5 DEF AloneInv, OneActive, SameKey, SameRef
  <2>7. \A d \in Clients : AloneRun(job[d])'
    BY <1>2, <2>2, <2>3, <2>4 DEF AloneRun
  <2>8. ASSUME NEW k \in Invoices PROVE AloneRow(k)'
    <3>1. Documents(k)' = Documents(k) /\ Valid(k)' = Valid(k)
      BY DEF Documents, Valid, queue_invoice_insert
    <3>2. AloneRow(k) /\ ~\E d \in Clients : Returns(d, k)
      BY <1>1, <2>3 DEF AloneInv, Returns
    <3> QED BY <1>2, <1>3, <2>4, <3>1, <3>2 DEF AloneRow, Exists
  <2> QED BY <2>3, <2>6, <2>7, <2>8 DEF AloneInv
<1> QED BY <1>3, <1>4, <1>5

\* The row is read again, and nobody has touched it.
LEMMA AloneRefreshes ==
    ASSUME Alone, SafetyInv, AloneInv, NEW c \in Clients, queue_invoice_refresh(c)
    PROVE  AloneInv'
<1>1. /\ job[c].pc = "refresh" /\ job[c].sync /\ job[c].op = "certify"
      /\ row[job[c].inv].status = "PENDING"
  BY DEF queue_invoice_refresh, AloneInv, AloneRun, SafetyInv, TypeInv, ProcessShape, Shaped, Runners
<1>2. AloneRun(Routed(job[c].inv, row[job[c].inv], job[c].sync))
  BY <1>1 DEF Routed, Idle, AloneRun, Settled
<1> QED BY <1>1, <1>2, AloneThinks DEF queue_invoice_refresh, Returns, SafetyInv

\* The thread gets an answer: SAT made one document if it says ok, and none if not.
LEMMA AloneAnswered ==
    ASSUME Alone, SafetyInv, AloneInv, NEW c \in Clients, job[c].pc = "loaded",
           NEW a, NEW g, Answered(c, a, g), UNCHANGED <<row, queue>>,
           IF job[c].op = "certify" /\ a = "ok" THEN \E u \in Uuids : Issue(u, job[c].inv)
           ELSE UNCHANGED issued /\ voided \subseteq voided'
    PROVE  AloneInv'
<1> DEFINE j == [job[c] EXCEPT !.pc = "called", !.answer = a, !.got = g]
<1>1. /\ c \in Runners /\ job[c] \in Job /\ TypeInv
      /\ \E i \in Invoices : i = job[c].inv
  BY JobTyped DEF Runners, SafetyInv, TypeInv, ProcessShape, Shaped, HasInvoice, PC
<1> PICK i \in Invoices : i = job[c].inv
  BY <1>1
<1>2. job' = [job EXCEPT ![c] = j]
  BY <1>1 DEF Answered, TypeInv, TypeOK, Job
<1>3. j.pc = "called" /\ j.answer = a /\ j.inv = i /\ j.op = job[c].op
  BY <1>1 DEF Job
<1> HIDE DEF j
<1>4. /\ AloneRun(j)
      /\ row[i].status = IF job[c].op = "certify" THEN "PENDING" ELSE "CERTIFIED"
      /\ \A k \in Invoices : ~Returns(c, k)
  BY <1>3 DEF AloneInv, AloneRun, Returns
<1>5. CASE ~(job[c].op = "certify" /\ a = "ok")
  BY <1>1, <1>2, <1>4, <1>5, AloneThinks
<1>6. CASE job[c].op = "certify" /\ a = "ok"
  <2>1. PICK u \in Uuids : Issue(u, i)
    BY <1>6
  <2>2. NothingQueued' /\ \A d \in Clients : d = c /\ job'[d] = j
    BY <1>1, <1>2, AloneJobs DEF AloneInv
  <2>3. \A k \in Invoices : ~\E d \in Clients : Returns(d, k)
    BY <1>4, <2>2
  <2>4. Documents(i) = {}
    BY <1>1, <1>4, <1>6, <2>3 DEF AloneInv, AloneRow
  <2>5. \A k \in Invoices : Documents(k)' = IF k = i THEN {u} ELSE Documents(k)
    BY <1>1, <2>1, <2>4, NoneIsNoValue DEF Issue, Documents, TypeInv, TypeOK, SatLedgerTypeOK
  <2>6. Returns(c, i)'
    BY <1>3, <1>6, <2>2 DEF Returns
  <2>7. ASSUME NEW k \in Invoices PROVE AloneRow(k)'
    <3>1. AloneRow(k) /\ ~\E d \in Clients : Returns(d, k)
      BY <2>3 DEF AloneInv
    <3>2. CASE k = i
      <4>1. Documents(k)' = {u} /\ Returns(c, k)' /\ row'[k].status = "PENDING"
        BY <1>4, <1>6, <2>5, <2>6, <3>2
      <4> QED BY <4>1 DEF AloneRow
    <3>3. CASE k # i
      BY <2>1, <2>5, <3>1, <3>3 DEF AloneRow, Valid, Issue
    <3> QED BY <3>2, <3>3
  <2>8. OneActive' /\ \A d \in Clients : AloneRun(job[d])'
    BY <1>4, <2>2 DEF AloneInv, OneActive, SameKey, SameRef, AloneRun
  <2> QED BY <2>2, <2>7, <2>8 DEF AloneInv
<1> QED BY <1>5, <1>6

\* Every provider call is answered like that, since no answer to a certification
\* that was carried out is lost or torn.
LEMMA AloneCalls ==
    ASSUME Alone, SafetyInv, AloneInv, NEW c \in Clients,
           call_misconfigured(c) \/ certify_now_call(c) \/ annul_now_call(c)
    PROVE  AloneInv'
<1>1. CASE call_misconfigured(c)
  BY <1>1, AloneAnswered DEF call_misconfigured
<1>2. CASE certify_now_call(c)
  <2>1. CASE \E reply \in CertifyReplies \cap Doing, u \in Uuids :
                /\ Issue(u, job[c].inv)
                /\ \E got \in UuidRead(reply, u) : Answered(c, AnswerTo(reply), got)
    <3>1. CertifyReplies \cap Doing \subseteq {"ok", "blank"}
      BY DEF Alone, Doing
    <3>2. PICK u \in Uuids : Issue(u, job[c].inv) /\ \E g : Answered(c, "ok", g)
      BY <2>1, <3>1 DEF AnswerTo
    <3> QED BY <1>2, <3>2, AloneAnswered DEF certify_now_call
  <2>2. CASE \E reply \in CertifyReplies \ Doing :
                Answered(c, AnswerTo(reply), None) /\ UNCHANGED <<issued, voided>>
    <3>1. \A reply \in CertifyReplies \ Doing : AnswerTo(reply) # "ok"
      BY EnvironmentAssumption DEF Doing, Reply, AnswerTo
    <3> QED BY <1>2, <2>2, <3>1, AloneAnswered DEF certify_now_call
  <2> QED BY <1>2, <2>1, <2>2 DEF certify_now_call
<1>3. CASE annul_now_call(c)
  <2>1. PICK a, g : Answered(c, a, g)
    BY <1>3 DEF annul_now_call
  <2>2. UNCHANGED issued /\ voided \subseteq voided'
    BY <1>3 DEF annul_now_call, Void
  <2> QED BY <1>3, <2>1, <2>2, AloneAnswered DEF annul_now_call
<1> QED BY <1>1, <1>2, <1>3

\* What the thread is about to commit.
LEMMA AloneObject ==
    ASSUME Alone, SafetyInv, AloneInv, NEW c \in Clients, job[c].pc = "called"
    PROVE  LET i == job[c].inv
               s == Saved(c)
           IN  /\ c \in Runners /\ TypeInv /\ i \in Invoices /\ s \in Row
               /\ s.tenant = row[i].tenant /\ s.ref = row[i].ref
               /\ row[i].status = IF job[c].op = "certify" THEN "PENDING" ELSE "CERTIFIED"
               /\ s.status = CASE job[c].op = "certify" /\ job[c].answer = "ok" -> "CERTIFIED"
                               [] job[c].op = "certify" /\ job[c].answer \in {"reject", "config"} ->
                                     "REJECTED"
                               [] job[c].op = "annul" /\ job[c].answer = "ok" -> "ANNULLED"
                               [] OTHER -> row[i].status
<1> DEFINE i == job[c].inv
           obj == job[c].obj
           new == Assigned(c)
<1>1. /\ c \in Runners /\ job[c] \in Job /\ TypeInv /\ i \in Invoices
      /\ row[i].status = IF job[c].op = "certify" THEN "PENDING" ELSE "CERTIFIED"
  BY JobTyped DEF Runners, SafetyInv, TypeInv, ProcessShape, Shaped, HasInvoice, PC, AloneInv, AloneRun
<1>2. Saved(c) \in Row /\ row[i] \in Row /\ obj \in Row /\ job[c].op \in {"certify", "annul"}
  BY <1>1, SavedType, RowTyped DEF TypeInv, Job, Op
<1>3. obj.status = row[i].status
  BY <1>1, <1>2 DEF SafetyInv, NeverAhead, TypeInv, ProcessShape, Shaped, Annullable
<1>4. /\ Saved(c).tenant = row[i].tenant /\ Saved(c).ref = row[i].ref
      /\ Saved(c).status = IF new.status = obj.status THEN row[i].status ELSE new.status
  <2> HIDE DEF new
  <2>1. Saved(c) = Flushed(i, obj, new)
    BY DEF Saved, new
  <2> HIDE DEF i, obj
  <2> QED BY <1>2, <2>1 DEF Flushed, Row
<1>5. new.status = CASE job[c].op = "certify" /\ job[c].answer = "ok" -> "CERTIFIED"
                     [] job[c].op = "certify" /\ job[c].answer \in {"reject", "config"} ->
                           "REJECTED"
                     [] job[c].op = "annul" /\ job[c].answer = "ok" -> "ANNULLED"
                     [] OTHER -> obj.status
  <2>1. CASE job[c].op = "certify"
    BY <1>2, <2>1 DEF Assigned, Certifying, Row
  <2>2. CASE job[c].op = "annul"
    BY <1>2, <2>2 DEF Assigned, Annulling, Row
  <2> QED BY <1>2, <2>1, <2>2
<1> HIDE DEF new
<1> QED BY <1>1, <1>2, <1>3, <1>4, <1>5

\* It is committed as it should be...
LEMMA AloneCommitStep ==
    ASSUME Alone, SafetyInv, AloneInv, NEW c \in Clients,
           certify_now_commit(c) \/ annul_now_commit(c)
    PROVE  AloneInv'
<1> DEFINE i == job[c].inv
           s == Saved(c)
<1>1. /\ job[c].pc = "called" /\ job' = [job EXCEPT ![c] = Idle]
      /\ row' = [row EXCEPT ![i] = s] /\ UNCHANGED <<issued, voided, queue>>
  BY DEF certify_now_commit, annul_now_commit, StoresCertification, StoresAnnulment, CommitRow, Leave
<1>2. /\ c \in Runners /\ TypeInv /\ i \in Invoices /\ s \in Row
      /\ s.tenant = row[i].tenant /\ s.ref = row[i].ref
      /\ row[i].status = IF job[c].op = "certify" THEN "PENDING" ELSE "CERTIFIED"
      /\ s.status = CASE job[c].op = "certify" /\ job[c].answer = "ok" -> "CERTIFIED"
                      [] job[c].op = "certify" /\ job[c].answer \in {"reject", "config"} ->
                            "REJECTED"
                      [] job[c].op = "annul" /\ job[c].answer = "ok" -> "ANNULLED"
                      [] OTHER -> row[i].status
  BY <1>1, AloneObject
<1> HIDE DEF s
<1>3. s.status \in {"PENDING", "REJECTED"} => Documents(i) = {}
  <2>1. SUFFICES ASSUME s.status \in {"PENDING", "REJECTED"} PROVE Documents(i) = {}
    OBVIOUS
  <2>2. row[i].status = "PENDING" /\ job[c].answer # "ok"
    BY <1>2, <2>1
  <2>3. ~\E d \in Clients : Returns(d, i)
    BY <2>2 DEF Alone, Returns
  <2> QED BY <1>2, <2>2, <2>3 DEF AloneInv, AloneRow
<1>4. s.status = "ANNULLED" => Valid(i) = {}
  <2>1. SUFFICES ASSUME s.status = "ANNULLED" PROVE Valid(i) = {}
    OBVIOUS
  <2>2. job[c].op = "annul" /\ job[c].answer = "ok"
    BY <1>2, <2>1
  <2>3. job[c].obj.uuid \in Uuids /\ issued[job[c].obj.uuid] = i /\ job[c].obj.uuid \in voided
    BY <1>1, <1>2, <2>2, JobTyped
       DEF SafetyInv, AnswersBacked, Backed, LedgerInv, TypeInv, TypeOK, SatLedgerTypeOK
  <2> QED BY <1>2, <2>3 DEF AloneInv, AloneRow, Valid, Documents
<1> QED BY <1>1, <1>2, <1>3, <1>4, AloneCommits DEF Active

\* ... and not given up after SAT made a document: the reference has no other row
\* that is CERTIFIED, so the constraint admits this one.
LEMMA AloneRollback ==
    ASSUME Alone, SafetyInv, AloneInv, NEW c \in Clients, session_rollback(c)
    PROVE  AloneInv'
<1> DEFINE i == job[c].inv
           s == Saved(c)
<1>1. job[c].pc = "called" /\ job' = [job EXCEPT ![c] = Idle]
  BY DEF session_rollback, Leave
<1>2. ASSUME NEW k \in Invoices, Returns(c, k) PROVE FALSE
  <2>1. k = i /\ job[c].op = "certify" /\ job[c].answer = "ok"
    BY <1>2 DEF Returns
  <2>2. ~Admits(i, s)
    BY <2>1 DEF session_rollback
  <2>3. /\ i \in Invoices /\ s.tenant = row[i].tenant /\ s.ref = row[i].ref
        /\ s.status = "CERTIFIED" /\ row[i].status = "PENDING"
    BY <1>1, <2>1, AloneObject
  <2>4. PICK n \in Invoices \ {i} : SameRef(s, row[n]) /\ row[n].status = "CERTIFIED"
    BY <2>2, <2>3 DEF Admits
  <2> HIDE DEF s
  <2> QED BY <2>3, <2>4 DEF AloneInv, OneActive, SameKey, SameRef, Active
<1>3. AloneRun(Idle)
  BY DEF AloneRun, Idle
<1> QED BY <1>1, <1>2, <1>3, AloneThinks DEF session_rollback, SafetyInv

\* The invariant holds of an empty table, and no step breaks it.
LEMMA AloneStarts == Init => AloneInv
BY NoneIsNoValue
   DEF Init, AloneInv, NothingQueued, OneActive, AloneRun, AloneRow, InvoiceTableInit, SatLedgerInit,
       TaskBrokerInit, NoRow, Idle, SameKey, SameRef, Documents, Runners

\* Whatever the thread does next, it keeps the invariant.
LEMMA AloneStep == Alone /\ SafetyInv /\ AloneInv /\ [Next]_vars => AloneInv'
<1>1. SUFFICES ASSUME Alone, SafetyInv, AloneInv, [Next]_vars PROVE AloneInv'
  OBVIOUS
<1>2. CASE UNCHANGED vars
  BY <1>1, <1>2
     DEF vars, AloneInv, NothingQueued, OneActive, SameKey, SameRef, AloneRun, AloneRow, Documents,
         Valid, Returns
<1>3. ASSUME NEW c \in Clients, Request(c) PROVE AloneInv'
  BY <1>1, <1>3, AloneSelects, AloneAnnuls DEF Request
<1>4. ASSUME NEW c \in Clients, Progress(c) PROVE AloneInv'
  BY <1>1, <1>4, AloneCalls, AloneCommitStep, AloneRollback DEF Progress
<1> QED BY <1>1, <1>2, <1>3, <1>4, AloneNext, AloneInserts, AloneRefreshes

\* A thread that is alone and waits finds every order settled, or given up without a
\* document, before it looks at the next one.
THEOREM AloneSafety == Alone /\ Spec => [](Alone /\ AloneInv)
<1>1. SafetyInv /\ (Alone /\ AloneInv) /\ [Next]_vars => (Alone /\ AloneInv)'
  BY AloneStep DEF Alone
<1> QED BY <1>1, AloneStarts, Safety, PTL DEF Spec

\* One thread that waits for its answers never gives an order a second valid document:
\* with any number of tenants, references and requests, whatever is refused, annulled,
\* or answered with 5xx or without a uuid, and with all the annulments' faults.
THEOREM OrdersHaveOneDoc == Alone /\ Spec => []OneValidDocPerRef
<1>1. SafetyInv /\ AloneInv => OneValidDocPerRef
  <2>1. SUFFICES ASSUME SafetyInv, AloneInv, NEW i \in Invoices, NEW j \in Invoices,
                        NEW u \in Valid(i), NEW v \in Valid(j), SameKey(i, j)
                 PROVE  u = v
    BY DEF OneValidDocPerRef
  <2>2. ASSUME NEW k \in Invoices, Valid(k) # {} PROVE row[k].status \in Active
    <3>1. row[k].status \in Status \cup {"ABSENT"}
      BY <2>1, RowTyped DEF SafetyInv, TypeInv, Row
    <3> QED BY <2>1, <2>2, <3>1 DEF AloneInv, AloneRow, Valid, Active, Status, Settled
  <2>3. i = j
    BY <2>1, <2>2 DEF AloneInv, OneActive
  <2> QED BY <2>1, <2>3 DEF AloneInv, AloneRow, Valid
<1> QED BY <1>1, Safety, AloneSafety, PTL
=============================================================================
