------------------------------ MODULE Gateway -------------------------------
(***************************************************************************)
(* The invoice path of fel-gateway: API request threads and Celery workers *)
(* that share the invoices table, the task queue and the certificador.     *)
(*                                                                         *)
(* A step is what a process does between two points where another process  *)
(* can come in between: a database transaction, a call to the provider, a  *)
(* message published or acknowledged.  certify_now and annul_now are run   *)
(* by a worker or, with ?sync=true, by the request thread itself; each     *)
(* works on the ORM object it loaded, `obj`, which the table may have left *)
(* behind by the time it commits.                                          *)
(***************************************************************************)
EXTENDS Naturals, FiniteSets, ProviderContract

CONSTANTS
    Invoices, Tenants, Refs, Blank, Uuids, None,
    Clients,        \* API request threads
    Workers,        \* Celery worker processes
    Misconfigured,  \* the felplex tenants without entity_id or api_key
    SyncModes,      \* the values of ?sync= that callers send
    CertifyReplies, \* what the provider may do with a certification (ProviderContract)
    AnnulReplies,   \* ... and with an annulment
    MaxRetries,     \* _BaseInvoiceTask.max_retries
    MaxRequests,    \* bound: POST requests of a behaviour
    MaxCrashes,     \* bound: processes that die
    MaxOutages      \* bound: worker transactions the database refuses, retries the broker does

ASSUME ProcessesAreDisjoint == Clients \cap Workers = {}
ASSUME EnvironmentAssumption ==
    /\ Misconfigured \subseteq Tenants
    /\ SyncModes \subseteq BOOLEAN
    /\ CertifyReplies \subseteq Reply
    /\ AnnulReplies \subseteq Reply \ {"blank"}
ASSUME BoundsAreNat == {MaxRetries, MaxRequests, MaxCrashes, MaxOutages} \subseteq Nat

VARIABLES
    row, audit,         \* InvoiceTable
    issued, voided,     \* SatLedger
    queue,              \* TaskBroker
    job,                \* process -> what it is doing
    accepted,           \* invoices whose POST was answered 202 with a task queued
    requests, crashes, outages   \* how much of each bound is used

INSTANCE InvoiceTable
INSTANCE SatLedger
INSTANCE TaskBroker

counters == <<requests, crashes, outages>>
vars == <<row, audit, issued, voided, queue, job, accepted, counters>>

Runners == Clients \cup Workers

\* insert, refresh, dispatch: create_invoice after the SELECT;  loaded: the row
\* is read, the provider not called yet;  called: it answered;  retry, failed,
\* ack: the task raised a retry, failed for good, is about to be acknowledged;
\* dlq: on_failure has loaded the row.
PC == {"idle", "insert", "refresh", "dispatch", "loaded", "called",
       "retry", "failed", "dlq", "ack"}

ASSUME NoneIsNoValue == None \notin Invoices \cup Tenants \cup Uuids \cup Answer
ASSUME BlankIsNoUuid == Blank \notin Uuids \cup {None}

Job == [pc : PC, op : Op, sync : BOOLEAN, inv : Invoices \cup {None},
        retries : 0 .. MaxRetries, obj : Row,
        answer : Answer \cup {None}, got : Uuids \cup {None, Blank}]

Idle == [pc |-> "idle", op |-> "certify", sync |-> FALSE, inv |-> None,
         retries |-> 0, obj |-> NoRow, answer |-> None, got |-> None]

TypeOK == /\ InvoiceTableTypeOK
          /\ SatLedgerTypeOK
          /\ TaskBrokerTypeOK
          /\ job \in [Runners -> Job]
          /\ accepted \in SUBSET Invoices
          /\ requests \in 0 .. MaxRequests
          /\ crashes \in 0 .. MaxCrashes
          /\ outages \in 0 .. MaxOutages

Init == /\ InvoiceTableInit
        /\ SatLedgerInit
        /\ TaskBrokerInit
        /\ job = [r \in Runners |-> Idle]
        /\ accepted = {}
        /\ requests = 0 /\ crashes = 0 /\ outages = 0
-----------------------------------------------------------------------------
(* Row locks and tasks. *)

\* certify_now flushes xml_local before the call and commits after it: a run
\* that loaded the row without XML holds the row lock across the call.
HoldsLock(r, i) == /\ job[r].pc = "called"
                   /\ job[r].op = "certify"
                   /\ job[r].inv = i
                   /\ ~job[r].obj.xml

LockFree(r, i) == \A q \in Runners \ {r} : ~HoldsLock(q, i)

Task(r, n) == [op |-> job[r].op, inv |-> job[r].inv, retries |-> n]

\* Process r with nothing left in memory but, in a worker, its message.
Holding(r, pc) == [Idle EXCEPT !.pc = pc, !.op = job[r].op, !.inv = job[r].inv,
                               !.retries = job[r].retries]

\* A run of certify_now or annul_now returned, or raised: a request thread has
\* answered its caller (with a 500 if it raised), a worker goes on with the task.
Leave(r, pc) == job' = [job EXCEPT ![r] = IF r \in Clients THEN Idle ELSE Holding(r, pc)]
-----------------------------------------------------------------------------
(* POST /v1/invoices: create_invoice and queue_invoice. *)

\* A faulty create_invoice that certifies whatever queue_invoice returned.
RoutedAlways(i, obj, sync) ==
    [Idle EXCEPT !.pc = IF sync THEN "loaded" ELSE "dispatch", !.inv = i, !.obj = obj]

\* create_invoice once queue_invoice has returned obj, row i as it was read.
Routed(i, obj, sync) ==
    IF obj.status \in Settled THEN Idle
    ELSE [Idle EXCEPT !.pc = IF sync THEN "loaded" ELSE "dispatch",
                      !.inv = i, !.obj = obj]

\* The request arrives, and queue_invoice looks for an active row.
queue_invoice_select(c, t, ref, sync) ==
    /\ job[c].pc = "idle"
    /\ requests < MaxRequests
    /\ requests' = requests + 1
    /\ \/ \E i \in ActiveRows(t, ref) :
             job' = [job EXCEPT ![c] = Routed(i, row[i], sync)]
       \/ /\ ActiveRows(t, ref) = {}
          /\ job' = [job EXCEPT ![c] = [Idle EXCEPT !.pc = "insert", !.sync = sync,
                                                    !.obj = NewRow(t, ref)]]
    /\ UNCHANGED <<row, audit, issued, voided, queue, accepted, crashes, outages>>

\* A faulty queue_invoice that returns the row before it is committed.
queue_invoice_insert_uncommitted(c) ==
    /\ job[c].pc = "insert"
    /\ \E i \in Invoices : ~Exists(i) /\ job' = [job EXCEPT ![c].pc = "refresh", ![c].inv = i]
    /\ UNCHANGED <<row, audit, issued, voided, queue, accepted, counters>>

\* It found none and inserts one; the loser of a race gets an IntegrityError,
\* which nothing catches.
queue_invoice_insert(c) ==
    /\ job[c].pc = "insert"
    /\ \E i \in Invoices :
          /\ ~Exists(i)
          /\ \/ /\ Admits(i, job[c].obj)
                /\ CommitRow(i, job[c].obj, {"invoice.queued"})
                /\ job' = [job EXCEPT ![c].pc = "refresh", ![c].inv = i]
             \/ /\ ~Admits(i, job[c].obj)
                /\ job' = [job EXCEPT ![c] = Idle]
                /\ UNCHANGED <<row, audit>>
    /\ UNCHANGED <<issued, voided, queue, accepted, counters>>

queue_invoice_refresh(c) ==
    /\ job[c].pc = "refresh"
    /\ job' = [job EXCEPT ![c] = Routed(job[c].inv, row[job[c].inv], job[c].sync)]
    /\ UNCHANGED <<row, audit, issued, voided, queue, accepted, counters>>

\* certify_invoice_task.delay, then the 202 answer.
create_invoice_dispatch(c) ==
    /\ job[c].pc = "dispatch"
    /\ Publish(Task(c, 0))
    /\ accepted' = accepted \cup {job[c].inv}
    /\ job' = [job EXCEPT ![c] = Idle]
    /\ UNCHANGED <<row, audit, issued, voided, counters>>
-----------------------------------------------------------------------------
(* POST /v1/invoices/{id}/annul.  Another tenant's invoice is answered 404. *)

\* The early returns of annul_now; what they write to the object is not committed.
Annullable(obj) == obj.status = "CERTIFIED" /\ obj.uuid \notin {None, Blank}

annul_invoice(c, t, i, sync) ==
    /\ job[c].pc = "idle"
    /\ requests < MaxRequests
    /\ requests' = requests + 1
    /\ row[i].tenant = t
    /\ \/ /\ sync /\ Annullable(row[i])
          /\ job' = [job EXCEPT ![c] = [Idle EXCEPT !.pc = "loaded", !.op = "annul",
                                                    !.inv = i, !.obj = row[i]]]
          /\ UNCHANGED queue
       \/ /\ ~sync
          /\ Publish([op |-> "annul", inv |-> i, retries |-> 0])
          /\ UNCHANGED job
    /\ UNCHANGED <<row, audit, issued, voided, accepted, crashes, outages>>
-----------------------------------------------------------------------------
(* A worker takes a task and loads its row; the message stays unacknowledged. *)

Worth(m) == Exists(m.inv) /\ (m.op = "annul" => Annullable(row[m.inv]))

\* A faulty worker that annuls without looking at the status and the uuid.
StartedIgnoringStatus(m) == [Idle EXCEPT !.pc = "loaded", !.op = m.op, !.inv = m.inv,
                                         !.retries = m.retries, !.obj = row[m.inv]]

\* The worker's record once it has loaded the row of message m.
Started(m) == [Idle EXCEPT !.pc = IF Worth(m) THEN "loaded" ELSE "ack",
                           !.op = m.op, !.inv = m.inv, !.retries = m.retries,
                           !.obj = IF Worth(m) THEN row[m.inv] ELSE NoRow]

start_task(w, m) ==
    /\ job[w].pc = "idle"
    /\ Deliver(m)
    /\ job' = [job EXCEPT ![w] = Started(m)]
    /\ UNCHANGED <<row, audit, issued, voided, accepted, counters>>
-----------------------------------------------------------------------------
(* certify_now and annul_now: the provider call. *)

\* A worker or a request thread with an answer in hand.
Answered(r, answer, u) ==
    job' = [job EXCEPT ![r].pc = "called", ![r].answer = answer, ![r].got = u]

\* _validate refuses the configuration before anything is sent.
call_misconfigured(r) ==
    /\ job[r].pc = "loaded"
    /\ job[r].obj.tenant \in Misconfigured
    /\ job[r].op = "certify" /\ ~job[r].obj.xml => LockFree(r, job[r].inv)
    /\ Answered(r, "config", None)
    /\ UNCHANGED <<row, audit, issued, voided, queue, accepted, counters>>

\* A faulty call that may be handed the answer to an earlier certification.
certify_now_call_crossed(r) ==
    /\ job[r].pc = "loaded" /\ job[r].op = "certify"
    /\ job[r].obj.tenant \notin Misconfigured
    /\ \E u, earlier \in Uuids :
          /\ Issue(u, job[r].inv)
          /\ issued'[earlier] # None
          /\ Answered(r, "ok", earlier)
    /\ UNCHANGED <<row, audit, queue, accepted, counters>>

\* The uuid certificar reads in a reply: a document without one gives it an empty
\* string, or None if the body says null.
UuidRead(reply, u) == CASE reply = "ok"    -> {u}
                        [] reply = "blank" -> {Blank, None}
                        [] OTHER           -> {None}

certify_now_call(r) ==
    /\ job[r].pc = "loaded" /\ job[r].op = "certify"
    /\ job[r].obj.tenant \notin Misconfigured
    /\ job[r].obj.xml \/ LockFree(r, job[r].inv)
    /\ \/ \E reply \in CertifyReplies \cap Doing, u \in Uuids :
             /\ Issue(u, job[r].inv)
             /\ \E got \in UuidRead(reply, u) : Answered(r, AnswerTo(reply), got)
       \/ \E reply \in CertifyReplies \ Doing :
             /\ Answered(r, AnswerTo(reply), None)
             /\ UNCHANGED <<issued, voided>>
    /\ UNCHANGED <<row, audit, queue, accepted, counters>>

annul_now_call(r) ==
    /\ job[r].pc = "loaded" /\ job[r].op = "annul"
    /\ job[r].obj.tenant \notin Misconfigured
    /\ \/ \E reply \in AnnulReplies \cap Doing :
             Void(job[r].obj.uuid) /\ Answered(r, AnswerTo(reply), None)
       \/ \E reply \in AnnulReplies \ Doing :
             /\ Answered(r, AnswerTo(reply), None)
             /\ UNCHANGED <<issued, voided>>
    /\ UNCHANGED <<row, audit, queue, accepted, counters>>
-----------------------------------------------------------------------------
(* certify_now and annul_now: the commit. *)

\* Faulty: a transient answer marks the invoice REJECTED and is retried.
CertifyingTooSoon(obj, answer, u) ==
    CASE answer = "ok" ->
            [obj EXCEPT !.xml = TRUE, !.status = "CERTIFIED", !.uuid = u]
      [] OTHER -> [obj EXCEPT !.xml = TRUE, !.status = "REJECTED"]

\* Faulty: the XML is kept only for what was certified.
CertifyingWithoutXml(obj, answer, u) ==
    CASE answer = "ok" ->
            [obj EXCEPT !.xml = TRUE, !.status = "CERTIFIED", !.uuid = u]
      [] answer \in {"reject", "config"} -> [obj EXCEPT !.status = "REJECTED"]
      [] OTHER -> obj

\* The ORM object after the assignments that follow the answer.
Certifying(obj, answer, u) ==
    CASE answer = "ok" ->
            [obj EXCEPT !.xml = TRUE, !.status = "CERTIFIED", !.uuid = u]
      [] answer \in {"reject", "config"} ->
            [obj EXCEPT !.xml = TRUE, !.status = "REJECTED"]
      [] OTHER -> [obj EXCEPT !.xml = TRUE]

\* Faulty annulments: the refusal ignored, the status misspelt.
AnnullingRefused(obj, answer) ==
    IF answer \in {"ok", "reject"} THEN [obj EXCEPT !.status = "ANNULLED"] ELSE obj
AnnullingMisspelt(obj, answer) ==
    IF answer = "ok" THEN [obj EXCEPT !.status = "ANULLED"] ELSE obj

Annulling(obj, answer) == IF answer = "ok" THEN [obj EXCEPT !.status = "ANNULLED"] ELSE obj

Assigned(r) == IF job[r].op = "certify"
               THEN Certifying(job[r].obj, job[r].answer, job[r].got)
               ELSE Annulling(job[r].obj, job[r].answer)

Saved(r) == Flushed(job[r].inv, job[r].obj, Assigned(r))

\* Faulty: a rejection that leaves no audit event.
CertifyEventSilent == [ok |-> {"invoice.certified"}, reject |-> {},
                       config |-> {"invoice.config_error"},
                       transient |-> {"invoice.transient_error"}]

CertifyEvent == [ok |-> {"invoice.certified"}, reject |-> {"invoice.rejected"},
                 config |-> {"invoice.config_error"},
                 transient |-> {"invoice.transient_error"}]

AnnulEvent == [ok |-> {"invoice.annulled"}, reject |-> {"invoice.annul_rejected"},
               config |-> {}, transient |-> {"invoice.annul_transient_error"}]

\* A transient answer makes autoretry publish the task again, until the
\* retries are used up and the exception is final.
After(r) == IF job[r].answer # "transient" THEN "ack"
            ELSE IF job[r].retries < MaxRetries THEN "retry" ELSE "failed"

\* The transaction that stores the answer.  A transient answer to a later attempt
\* changes no column of the row, and an audit event alone needs no row lock.
StoresCertification(r) ==
    /\ job[r].pc = "called" /\ job[r].op = "certify"
    /\ job[r].answer # "exception"
    /\ (job[r].answer = "transient" /\ job[r].obj.xml) \/ LockFree(r, job[r].inv)
    /\ Admits(job[r].inv, Saved(r))
    /\ CommitRow(job[r].inv, Saved(r), CertifyEvent[job[r].answer])
    /\ UNCHANGED <<issued, voided, queue, accepted, requests, crashes>>

StoresAnnulment(r) ==
    /\ job[r].pc = "called" /\ job[r].op = "annul"
    /\ job[r].answer # "exception"
    /\ job[r].answer = "transient" \/ LockFree(r, job[r].inv)
    /\ Admits(job[r].inv, Saved(r))
    /\ CommitRow(job[r].inv, Saved(r), AnnulEvent[job[r].answer])
    /\ UNCHANGED <<issued, voided, queue, accepted, requests, crashes>>

certify_now_commit(r) == StoresCertification(r) /\ Leave(r, After(r)) /\ UNCHANGED outages

annul_now_commit(r) == StoresAnnulment(r) /\ Leave(r, After(r)) /\ UNCHANGED outages

\* The adapter raised something else, or the commit met the unique constraint
\* (IntegrityError): the session rolls back and the task is not retried.
session_rollback(r) ==
    /\ job[r].pc = "called"
    /\ \/ job[r].answer = "exception"
       \/ LockFree(r, job[r].inv) /\ ~Admits(job[r].inv, Saved(r))
    /\ Leave(r, "failed")
    /\ UNCHANGED <<row, audit, issued, voided, queue, accepted, counters>>
-----------------------------------------------------------------------------
(* The end of a task: retry, final failure, acknowledgement. *)

\* Faulty retries: the message requeued besides, never published, not counted.
autoretry_requeued(w) ==
    /\ job[w].pc = "retry"
    /\ queue' = [queue EXCEPT ![Task(w, job[w].retries)] = @ + 1,
                             ![Task(w, job[w].retries + 1)] = @ + 1]
    /\ job' = [job EXCEPT ![w] = Holding(w, "ack")]
    /\ UNCHANGED <<row, audit, issued, voided, accepted, counters>>
autoretry_dropped(w) ==
    /\ job[w].pc = "retry"
    /\ job' = [job EXCEPT ![w] = Holding(w, "ack")]
    /\ UNCHANGED <<row, audit, issued, voided, queue, accepted, counters>>
autoretry_uncounted(w) ==
    /\ job[w].pc = "retry"
    /\ Publish(Task(w, job[w].retries))
    /\ job' = [job EXCEPT ![w] = Holding(w, "ack")]
    /\ UNCHANGED <<row, audit, issued, voided, accepted, counters>>

autoretry(w) ==
    /\ job[w].pc = "retry"
    /\ Publish(Task(w, job[w].retries + 1))
    /\ job' = [job EXCEPT ![w] = Holding(w, "ack")]
    /\ UNCHANGED <<row, audit, issued, voided, accepted, counters>>

\* on_failure does not look at the task's name or at the row's status: it loads the
\* row and commits REJECTED, which an object that was REJECTED already does not write.
on_failure_load(w) ==
    /\ job[w].pc = "failed"
    /\ job' = [job EXCEPT ![w] = [Holding(w, "dlq") EXCEPT !.obj = row[job[w].inv]]]
    /\ UNCHANGED <<row, audit, issued, voided, queue, accepted, counters>>

Dead(w) == Flushed(job[w].inv, job[w].obj, [job[w].obj EXCEPT !.status = "REJECTED"])

\* If the unique constraint refuses the update, the exception is logged and dropped.
on_failure_commit(w) ==
    /\ job[w].pc = "dlq"
    /\ LockFree(w, job[w].inv)
    /\ \/ /\ Admits(job[w].inv, Dead(w))
          /\ CommitRow(job[w].inv, Dead(w), {"invoice.dlq"})
       \/ /\ ~Admits(job[w].inv, Dead(w))
          /\ UNCHANGED <<row, audit>>
    /\ job' = [job EXCEPT ![w] = Holding(w, "ack")]
    /\ UNCHANGED <<issued, voided, queue, accepted, counters>>

acknowledge(w) ==
    /\ job[w].pc = "ack"
    /\ job' = [job EXCEPT ![w] = Idle]
    /\ UNCHANGED <<row, audit, issued, voided, queue, accepted, counters>>
-----------------------------------------------------------------------------
(* Faults. *)

\* Faulty: a broker that was acknowledged early, task_acks_late off.
crash_acks_early(r) ==
    /\ job[r].pc # "idle"
    /\ crashes < MaxCrashes
    /\ crashes' = crashes + 1
    /\ job' = [job EXCEPT ![r] = Idle]
    /\ UNCHANGED <<row, audit, issued, voided, queue, accepted, requests, outages>>

\* A process dies, or a request thread loses the database or the broker.  Its
\* transaction rolls back; task_acks_late and task_reject_on_worker_lost put a
\* worker's message back in the queue.
crash(r) ==
    /\ job[r].pc # "idle"
    /\ crashes < MaxCrashes
    /\ crashes' = crashes + 1
    /\ job' = [job EXCEPT ![r] = Idle]
    /\ \/ r \in Workers /\ Publish(Task(r, job[r].retries))
       \/ r \in Clients /\ UNCHANGED queue
    /\ UNCHANGED <<row, audit, issued, voided, accepted, requests, outages>>

\* The database refuses a worker's transaction: the task fails with an error
\* that is not retried, and on_failure drops the one it meets.
db_outage(w) ==
    /\ outages < MaxOutages
    /\ outages' = outages + 1
    /\ \/ /\ job[w].pc \in {"loaded", "called", "failed", "dlq"}
          /\ job' = [job EXCEPT ![w] = Holding(w, IF job[w].pc \in {"failed", "dlq"}
                                                 THEN "ack" ELSE "failed")]
          /\ UNCHANGED queue
       \/ /\ job[w].pc = "idle"
          /\ \E m \in Message :
                /\ Deliver(m)
                /\ job' = [job EXCEPT ![w] = [Started(m) EXCEPT !.pc = "failed", !.obj = NoRow]]
    /\ UNCHANGED <<row, audit, issued, voided, accepted, requests, crashes>>

\* It takes the transaction and fails the refresh that comes after: the task fails
\* although its answer is stored.  (A transient answer raises before any refresh.)
refresh_outage(w) ==
    /\ outages < MaxOutages
    /\ outages' = outages + 1
    /\ job[w].answer # "transient"
    /\ StoresCertification(w) \/ StoresAnnulment(w)
    /\ Leave(w, "failed")

\* The broker does not take the retry: Task.retry rejects the message without
\* requeueing it, and on_failure is not called.
broker_outage(w) ==
    /\ job[w].pc = "retry"
    /\ outages < MaxOutages
    /\ outages' = outages + 1
    /\ job' = [job EXCEPT ![w] = Idle]
    /\ UNCHANGED <<row, audit, issued, voided, queue, accepted, requests, crashes>>

Outage(w) == db_outage(w) \/ refresh_outage(w) \/ broker_outage(w)
-----------------------------------------------------------------------------
\* Every request is answered and every task acknowledged: the system rests.
Quiet == /\ \A r \in Runners : job[r].pc = "idle"
         /\ \A m \in Message : queue[m] = 0

rest == requests = MaxRequests /\ Quiet /\ UNCHANGED vars

Request(c) ==
    \/ \E t \in Tenants, ref \in Refs, sync \in SyncModes :
          queue_invoice_select(c, t, ref, sync)
    \/ \E t \in Tenants, i \in Invoices, sync \in SyncModes : annul_invoice(c, t, i, sync)

Progress(r) == \/ call_misconfigured(r)
               \/ certify_now_call(r)
               \/ annul_now_call(r)
               \/ certify_now_commit(r)
               \/ annul_now_commit(r)
               \/ session_rollback(r)

ClientStep(c) == \/ queue_invoice_insert(c)
                 \/ queue_invoice_refresh(c)
                 \/ create_invoice_dispatch(c)
                 \/ Progress(c)

WorkerStep(w) == \/ \E m \in Message : start_task(w, m)
                 \/ Progress(w)
                 \/ autoretry(w)
                 \/ on_failure_load(w)
                 \/ on_failure_commit(w)
                 \/ acknowledge(w)

Next == \/ \E c \in Clients : Request(c) \/ ClientStep(c)
        \/ \E w \in Workers : WorkerStep(w) \/ Outage(w)
        \/ \E r \in Runners : crash(r)
        \/ rest

Spec == Init /\ [][Next]_vars

\* Request threads and workers that live go on: the provider call has a
\* timeout, and Celery consumes as long as there are messages.
FairSpec == /\ Spec
            /\ \A c \in Clients : WF_vars(ClientStep(c))
            /\ \A w \in Workers : WF_vars(WorkerStep(w))
=============================================================================
