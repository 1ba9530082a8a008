----------------------------- MODULE GatewayInv -----------------------------
(***************************************************************************)
(* The inductive invariant behind the safety properties of GatewayProps:   *)
(* what a process in the middle of its work may rely on, although the      *)
(* table, the queue and SAT have moved on since it last looked.            *)
(***************************************************************************)
EXTENDS GatewayProps

HasInvoice == PC \ {"idle", "insert"}

\* What process r has established about itself when its record is j.
Shaped(r, j) ==
    /\ j.pc \in {"insert", "refresh", "dispatch"} => r \in Clients /\ j.op = "certify"
    /\ j.pc \in {"retry", "failed", "dlq", "ack"} => r \in Workers
    /\ j.pc \in HasInvoice => j.inv \in Invoices
    /\ j.pc = "insert" => j.obj.status = "PENDING" /\ j.obj.uuid = None
    /\ j.pc = "called" => j.answer # None
    /\ j.pc = "retry" => j.retries < MaxRetries
    /\ j.pc \in {"loaded", "called"} /\ j.op = "annul" => Annullable(j.obj)

ProcessShape == \A r \in Runners : Shaped(r, job[r])

TypeInv == TypeOK /\ ProcessShape

\* TasksHaveRows for every process, and for the answered callers; an id that is
\* not in use has no data.
RowsExist ==
    /\ \A i \in Invoices : ~Exists(i) => row[i] = NoRow
    /\ \A m \in Message : queue[m] > 0 => Exists(m.inv)
    /\ \A r \in Runners : job[r].pc \in HasInvoice => Exists(job[r].inv)
    /\ \A i \in accepted : Exists(i)

\* The answer in a process's hands, and the uuid it loaded, are backed by SAT.
Backed(j) ==
    /\ j.pc = "called" /\ j.op = "certify" /\ j.answer = "ok" =>
          /\ Documents(j.inv) # {}
          /\ j.got \in Uuids => issued[j.got] = j.inv
    /\ j.pc \in {"loaded", "called"} /\ j.op = "annul" => issued[j.obj.uuid] = j.inv
    /\ j.pc = "called" /\ j.op = "annul" /\ j.answer = "ok" => j.obj.uuid \in voided

AnswersBacked == \A r \in Runners : Backed(job[r])

\* A loaded object may be stale, but never ahead: a row that is still PENDING
\* was PENDING when it was loaded.
NeverAhead ==
    \A r \in Runners :
       job[r].pc \in {"loaded", "called", "dlq"} /\ row[job[r].inv].status = "PENDING" =>
          job[r].obj.status = "PENDING"

\* A request thread refreshes the row that it inserted, and goes on with a row of
\* the same tenant.
ReadsBack == \A c \in Clients :
                job[c].pc \in HasInvoice => row[job[c].inv].tenant = job[c].obj.tenant

\* A message or a worker will certify invoice i.  (HasWork counts the request
\* threads too, which give up without a trace.)
Waiting(i) == \E n \in 0 .. MaxRetries : queue[[op |-> "certify", inv |-> i, retries |-> n]] > 0
InHand(w, i) == job[w].pc \notin {"idle", "ack"} /\ job[w].op = "certify" /\ job[w].inv = i
HasTask(i) == Waiting(i) \/ \E w \in Workers : InHand(w, i)

\* What AcceptedNotLost rests on.
AcceptedKept ==
    outages = 0 =>
       \A i \in accepted : row[i].status = "PENDING" => HasTask(i) \/ Shadowed(i)

\* The commits of the code: a new PENDING row, or a row that keeps its key and
\* its status or gets, with the event that explains it, a settled one.
Lawful(i, r, E) ==
    \/ ~Exists(i) /\ r.status = "PENDING" /\ "invoice.queued" \in E
    \/ /\ Exists(i)
       /\ r.tenant = row[i].tenant /\ r.ref = row[i].ref
       /\ r.status # row[i].status => r.status \in Settled /\ E \cap Explains[r.status] # {}

\* What a process relies on between two of its steps: its row exists, the
\* answer it is about to commit is backed by SAT, and the object it computes
\* the new status from never shows the row further than it is.
ProcessesInStep == ProcessShape /\ RowsExist /\ AnswersBacked /\ NeverAhead /\ AcceptedKept
-----------------------------------------------------------------------------
(* Exactly once, in an environment that loses nothing: no process dies, every  *)
(* answer arrives with what it should hold, annulments are never retried, and   *)
(* each request is an order of its own.                                         *)

Calm == /\ MaxCrashes = 0 /\ MaxOutages = 0
        /\ Refs \subseteq {None}
        /\ CertifyReplies \cap {"blank", "lost", "torn"} = {}
        /\ AnnulReplies \subseteq {"ok", "reject"}

\* Process r, or message m, has the certification of invoice i to do.
Carries(r, i) == /\ job[r].op = "certify" /\ job[r].inv = i
                 /\ job[r].pc \in HasInvoice \ {"ack"}
Asks(m, i) == m.op = "certify" /\ m.inv = i /\ queue[m] > 0

\* It is to be done once, by one of them, and only while the row is PENDING.
SoleTask ==
    \A i \in Invoices :
       /\ \A m \in Message : Asks(m, i) => queue[m] = 1 /\ row[i].status = "PENDING"
       /\ \A m, n \in Message : Asks(m, i) /\ Asks(n, i) => m = n
       /\ \A r \in Runners : Carries(r, i) => /\ row[i].status = "PENDING"
                                             /\ \A m \in Message : ~Asks(m, i)
       /\ \A r, q \in Runners : Carries(r, i) /\ Carries(q, i) => r = q

\* Process r is about to commit what SAT has done for invoice i.
Brings(r, i) == /\ Carries(r, i) /\ job[r].pc = "called" /\ job[r].answer = "ok"
                /\ Documents(i) = {job[r].got}
Ends(r, i) == /\ job[r].op = "annul" /\ job[r].inv = i
              /\ job[r].pc = "called" /\ job[r].answer = "ok"

\* SAT is at most one commit ahead of the row.
RowInStep(i) ==
    /\ row[i].status \in {"ABSENT", "REJECTED"} => Documents(i) = {}
    /\ row[i].status = "PENDING" => /\ row[i].uuid = None
                                    /\ Documents(i) = {} \/ \E r \in Runners : Brings(r, i)
    /\ row[i].status \in {"CERTIFIED", "ANNULLED"} => Documents(i) = {row[i].uuid}
    /\ row[i].status = "ANNULLED" => row[i].uuid \in voided
    /\ row[i].status = "CERTIFIED" /\ row[i].uuid \in voided => \E r \in Runners : Ends(r, i)

\* The object of a run is all but up to date: an annulment's row may only have been
\* annulled by another run meanwhile.
CalmRun(j) ==
    /\ j.op = "certify" /\ j.pc \in {"loaded", "called"} => j.obj.uuid = None
    /\ j.op = "certify" /\ j.pc = "called" /\ j.answer = "ok" => j.got \in Uuids
    /\ j.op = "annul" =>
          /\ j.pc \notin {"retry", "failed", "dlq"}
          /\ j.pc = "called" => j.answer \in {"ok", "reject", "config"}
          /\ j.pc \in {"loaded", "called"} =>
                /\ row[j.inv].status \in {"CERTIFIED", "ANNULLED"}
                /\ row[j.inv].uuid = j.obj.uuid

\* Only what a row has shown is annulled.
VoidedShown == \A u \in voided : /\ issued[u] \in Invoices
                                 /\ row[issued[u]].status \in {"CERTIFIED", "ANNULLED"}

\* The task of a PENDING row is in one place, queue or process, so that no retry
\* certifies what was certified, and rows and SAT are at most one commit apart.
CalmInv == /\ SoleTask /\ VoidedShown
           /\ \A i \in Invoices : RowInStep(i)
           /\ \A r \in Runners : CalmRun(job[r])
-----------------------------------------------------------------------------
(* One order, one document: in an environment with one request thread that     *)
(* waits for every answer and is told what was done, each order by its name.    *)

Alone == /\ \A c, d \in Clients : c = d
         /\ SyncModes \subseteq {TRUE}
         /\ MaxCrashes = 0
         /\ Blank \notin Refs
         /\ CertifyReplies \cap {"lost", "torn"} = {}

\* Nothing is left to the workers.
NothingQueued == /\ \A m \in Message : queue[m] = 0
                 /\ \A w \in Workers : job[w].pc = "idle"

\* A reference has one row that is PENDING or CERTIFIED: the unique constraint
\* alone would admit one of each.
OneActive == \A i, j \in Invoices :
                SameKey(i, j) /\ {row[i].status, row[j].status} \subseteq Active => i = j

\* What the thread read is still so, on the way of an order with ?sync=true.
AloneRun(j) ==
    /\ j.pc \in {"idle", "insert", "refresh", "loaded", "called"}
    /\ j.pc \in {"insert", "refresh"} => j.sync
    /\ j.pc = "insert" =>
          \A i \in Invoices : SameRef(j.obj, row[i]) => row[i].status \notin Active
    /\ j.pc \in {"refresh", "loaded", "called"} =>
          row[j.inv].status = IF j.op = "certify" THEN "PENDING" ELSE "CERTIFIED"

\* The thread is about to commit the certification of invoice i.
Returns(c, i) == /\ job[c].op = "certify" /\ job[c].inv = i
                 /\ job[c].pc = "called" /\ job[c].answer = "ok"

\* SAT has at most one document for a row, and one that is valid only if the row
\* is CERTIFIED or about to be.
AloneRow(i) ==
    /\ \A u, v \in Documents(i) : u = v
    /\ row[i].status \in {"ABSENT", "REJECTED"} => Documents(i) = {}
    /\ row[i].status = "PENDING" => Documents(i) = {} \/ \E c \in Clients : Returns(c, i)
    /\ row[i].status = "ANNULLED" => Valid(i) = {}

\* Every order is settled, or given up with no document, before the next one is
\* looked at, and a certification never fails to be committed.
AloneInv == /\ NothingQueued /\ OneActive
            /\ \A c \in Clients : AloneRun(job[c])
            /\ \A i \in Invoices : AloneRow(i)
=============================================================================
