---------------------------- MODULE GatewayProps ----------------------------
(***************************************************************************)
(* What the gateway promises its callers, and what its documentation says  *)
(* of it.  The README tells which environment each property is checked in. *)
(***************************************************************************)
EXTENDS Gateway

SameKey(i, j) == SameRef(row[i], row[j])

\* Some process or message is about to run, or is running, op on invoice i.
HasWork(op, i) == \/ \E n \in 0 .. MaxRetries :
                        queue[[op |-> op, inv |-> i, retries |-> n]] > 0
                  \/ \E r \in Runners : /\ job[r].pc \notin {"idle", "ack"}
                                        /\ job[r].op = op
                                        /\ job[r].inv = i

AtRest(i) == ~HasWork("certify", i) /\ ~HasWork("annul", i)
-----------------------------------------------------------------------------
(* Under every fault. *)

\* The rows stay within the unique constraint although workers write statuses
\* they computed from objects loaded long before: no caller ever sees two
\* CERTIFIED (or two PENDING) rows for one reference.
UniqueIndex == \A i, j \in Invoices :
                  i # j /\ SameKey(i, j) => row[i].status # row[j].status

\* uuid_sat is always a document SAT issued for this very invoice, whatever
\* runs of certify_now overlapped: a caller is never shown another's document.
MirrorAuthentic == \A i \in Invoices : row[i].uuid \in Uuids => issued[row[i].uuid] = i

\* A row says CERTIFIED only if SAT issued a document for it, and ANNULLED only
\* if SAT annulled one.  No stale commit invents either.
StatusBackedBySat ==
    \A i \in Invoices : /\ row[i].status = "CERTIFIED" => Documents(i) # {}
                        /\ row[i].status = "ANNULLED" => Documents(i) \cap voided # {}

\* Tasks are published after the commit of their row, and rows are never
\* deleted: no worker ever meets the NOT_FOUND branch, crashes included.
TasksHaveRows ==
    /\ \A m \in Message : queue[m] > 0 => Exists(m.inv)
    /\ \A w \in Workers : job[w].pc # "idle" => Exists(job[w].inv)

\* A row whose status the audit trail does not explain would leave an operator
\* blind: each status was committed with its event.
Explains == [PENDING   |-> {"invoice.queued"},
             CERTIFIED |-> {"invoice.certified"},
             REJECTED  |-> {"invoice.rejected", "invoice.config_error", "invoice.dlq"},
             ANNULLED  |-> {"invoice.annulled"}]

AuditExplainsStatus ==
    \A i \in Invoices : Exists(i) => audit[i] \cap Explains[row[i].status] # {}

\* The XML of an attempt lives and dies with the attempt's transaction, of which a
\* second run may know nothing: still, what the provider or the configuration
\* settled has its XML, and only a final failure leaves a row without one.
XmlUnlessFailed ==
    \A i \in Invoices :
       row[i].status \in Settled /\ ~row[i].xml => "invoice.dlq" \in audit[i]

\* Another row of the same reference has been settled, so that the unique
\* constraint may have refused to settle this one.
Shadowed(i) == \E j \in Invoices \ {i} : SameKey(i, j) /\ row[j].status \in Settled

\* A 202 is a promise: an accepted invoice that is still PENDING has a task
\* somewhere, queued or in a worker's hands, whatever crashed.  There are two
\* exceptions: the unique constraint and an outage, either of which may keep
\* on_failure from storing the failure, or a retry from being published.
AcceptedNotLost ==
    outages = 0 =>
       \A i \in accepted : row[i].status = "PENDING" => HasWork("certify", i) \/ Shadowed(i)

\* ... and the task does its work: the caller that polls sees it settled.
AcceptedSettles ==
    \A i \in Invoices :
       i \in accepted ~> (row[i].status \in Settled \/ Shadowed(i) \/ outages > 0)

\* An annulment that waits while its invoice is CERTIFIED with a uuid is carried out,
\* or the audit trail tells why not, unless a second certification that is answered
\* without a uuid wipes the one to annul.  What annul_now drops without a trace are the
\* annulments of other rows: one that overtakes its certification, one of a document
\* that has no uuid.
AnnulmentConcludes ==
    \A i \in Invoices :
       (Annullable(row[i]) /\ \E n \in 0 .. MaxRetries :
                                 queue[[op |-> "annul", inv |-> i, retries |-> n]] > 0)
       ~> (\/ row[i].status \in {"ANNULLED", "REJECTED"}
           \/ "invoice.annul_rejected" \in audit[i]
           \/ row[i].uuid \in {None, Blank}
           \/ Shadowed(i) \/ outages > 0)

\* Once no request comes any more, the gateway comes to rest: retries end, and
\* no two processes wait for each other's row lock.
ComesToRest == (requests = MaxRequests) ~> Quiet
-----------------------------------------------------------------------------
(* Exactly once. *)

\* SAT never issues two documents for one row.
OneDocPerRow == \A i \in Invoices, u, v \in Uuids :
                   u \in Documents(i) /\ v \in Documents(i) => u = v

\* At rest the row tells exactly what SAT holds for it.
Mirrors(i) ==
    CASE row[i].status = "CERTIFIED" -> Valid(i) = {row[i].uuid}
      [] row[i].status = "ANNULLED"  -> Valid(i) = {} /\ row[i].uuid \in voided
      [] OTHER                       -> Documents(i) = {}

RestMirrors == \A i \in Invoices : AtRest(i) => Mirrors(i)

\* One source order never has two documents that are valid at once.
OneValidDocPerRef ==
    \A i, j \in Invoices : \A u \in Valid(i), v \in Valid(j) :
       SameKey(i, j) => u = v
-----------------------------------------------------------------------------
(* The invoice as its caller sees it. *)

Lifecycle == INSTANCE InvoiceLifecycle WITH
                status <- [i \in Invoices |-> row[i].status],
                shown  <- [i \in Invoices |-> IF row[i].uuid = Blank THEN None ELSE row[i].uuid],
                held   <- [i \in Invoices |-> Documents(i)]

\* Whatever crashes, times out, is redelivered or overtaken, no caller sees an
\* invoice go back to PENDING, or be ANNULLED or CERTIFIED when SAT never did it:
\* stale objects and late commits stay within the promise.
PromiseKept == Lifecycle!Promise

\* Without faults all the interleavings of requests, retries and annulments are
\* no more than the ideal life of each invoice.
IdealLife == Lifecycle!Ideal
-----------------------------------------------------------------------------
(* What the documentation says, and the code does not do. *)

\* "REJECTED (SAT NO)", models.py:87.
RejectedHasNoDoc == \A i \in Invoices : row[i].status = "REJECTED" => Valid(i) = {}

\* "Final failure (after retries). Persist as REJECTED", tasks.py:30: when
\* on_failure is done, the row is REJECTED.
FinalFailurePersists ==
    [][\A w \in Workers : job[w].pc = "dlq" /\ job'[w].pc = "ack" /\ outages' = outages
          => row'[job[w].inv].status = "REJECTED"]_vars
=============================================================================
