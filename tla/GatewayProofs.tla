--------------------------- MODULE GatewayProofs ----------------------------
(***************************************************************************)
(* Proofs of the safety properties of Gateway, for any number of requests, *)
(* processes, rows, documents, retries, crashes and outages.               *)
(***************************************************************************)
EXTENDS GatewayInv, TLAPS

\* A process's record is a record.
LEMMA JobTyped == ASSUME TypeOK, NEW r \in Runners PROVE job[r] \in Job
BY DEF TypeOK

\* The initial state is typed.
LEMMA InitType == Init => TypeInv
BY NoneIsNoValue, BoundsAreNat
   DEF Init, TypeInv, TypeOK, ProcessShape, Shaped, InvoiceTableInit, SatLedgerInit, TaskBrokerInit,
       InvoiceTableTypeOK, SatLedgerTypeOK, TaskBrokerTypeOK, NoRow, Row, Job, Idle, PC, Op,
       Answer, HasInvoice, Status, Active, Settled, Event, Runners

\* Publishing a message keeps the queue typed.
LEMMA PublishType ==
    ASSUME TypeOK, NEW m \in Message, Publish(m) PROVE TaskBrokerTypeOK'
BY DEF TypeOK, TaskBrokerTypeOK, Publish

\* Delivering one does too: its count was positive.
LEMMA DeliverType ==
    ASSUME TypeOK, NEW m \in Message, Deliver(m) PROVE TaskBrokerTypeOK'
BY DEF TypeOK, TaskBrokerTypeOK, Deliver

\* A commit of a typed row and known events keeps the tables typed.
LEMMA CommitType ==
    ASSUME TypeOK, NEW i \in Invoices, NEW r \in Row, NEW E \in SUBSET Event, CommitRow(i, r, E)
    PROVE  InvoiceTableTypeOK'
BY DEF TypeOK, InvoiceTableTypeOK, CommitRow

\* A step gives one process a new record of the right shape.
LEMMA JobUpdate ==
    ASSUME TypeInv, NEW r \in Runners, NEW j \in Job, Shaped(r, j), job' = [job EXCEPT ![r] = j]
    PROVE  job' \in [Runners -> Job] /\ ProcessShape'
<1>1. job' \in [Runners -> Job]
  BY DEF TypeInv, TypeOK
<1>2. ASSUME NEW q \in Runners PROVE Shaped(q, job'[q])
  <2>1. CASE q = r
    BY <2>1 DEF TypeInv, TypeOK
  <2>2. CASE q # r
    <3>1. job'[q] = job[q]
      BY <2>2 DEF TypeInv, TypeOK
    <3> QED BY <3>1 DEF TypeInv, ProcessShape
  <2> QED BY <2>1, <2>2
<1> QED BY <1>1, <1>2 DEF ProcessShape, Shaped

\* A row of the table is a row.
LEMMA RowTyped == ASSUME TypeOK, NEW i \in Invoices PROVE row[i] \in Row
BY DEF TypeOK, InvoiceTableTypeOK

\* The object after the assignments, and what its UPDATE makes of the row.
LEMMA AssignedType ==
    ASSUME TypeInv, NEW r \in Runners
    PROVE  Assigned(r) \in Row
<1>1. job[r] \in Job
  BY JobTyped DEF TypeInv
<1>2. ASSUME NEW obj \in Row, NEW s \in Settled, NEW u \in Uuids \cup {None, Blank}
      PROVE  /\ [obj EXCEPT !.status = s] \in Row
             /\ [obj EXCEPT !.xml = TRUE] \in Row
             /\ [obj EXCEPT !.xml = TRUE, !.status = s] \in Row
             /\ [obj EXCEPT !.xml = TRUE, !.status = s, !.uuid = u] \in Row
  BY DEF Row, Status
<1>3. {"CERTIFIED", "REJECTED", "ANNULLED"} \subseteq Settled
  BY DEF Settled
<1>4. job[r].obj \in Row /\ job[r].got \in Uuids \cup {None, Blank}
  BY <1>1 DEF Job
<1>5. Certifying(job[r].obj, job[r].answer, job[r].got) \in Row
  BY <1>2, <1>3, <1>4 DEF Certifying
<1>6. Annulling(job[r].obj, job[r].answer) \in Row
  BY <1>2, <1>3, <1>4 DEF Annulling
<1> QED BY <1>5, <1>6 DEF Assigned

\* The ORM's UPDATE mixes columns of typed rows into a typed row.
LEMMA FlushedType ==
    ASSUME TypeOK, NEW i \in Invoices, NEW obj \in Row, NEW new \in Row
    PROVE  Flushed(i, obj, new) \in Row
<1>1. row[i] \in Row
  BY RowTyped
<1> DEFINE s == IF new.status = obj.status THEN row[i].status ELSE new.status
           u == IF new.uuid = obj.uuid THEN row[i].uuid ELSE new.uuid
           x == IF new.xml = obj.xml THEN row[i].xml ELSE new.xml
<1>2. s \in Status \cup {"ABSENT"} /\ u \in Uuids \cup {None, Blank} /\ x \in BOOLEAN
  BY <1>1 DEF Row
<1>3. Flushed(i, obj, new) = [row[i] EXCEPT !.status = s, !.uuid = u, !.xml = x]
  BY DEF Flushed
<1> HIDE DEF s, u, x
<1> QED BY <1>1, <1>2, <1>3 DEF Row

\* What certify_now or annul_now commits is a row.
LEMMA SavedType ==
    ASSUME TypeInv, NEW r \in Runners, job[r].pc = "called"
    PROVE  Saved(r) \in Row
<1>1. job[r] \in Job /\ job[r].inv \in Invoices
  BY JobTyped DEF TypeInv, ProcessShape, Shaped, HasInvoice, PC
<1> QED BY <1>1, AssignedType, FlushedType DEF Saved, Job, TypeInv

\* The records that the steps build.
LEMMA IdleType == Idle \in Job
BY BoundsAreNat DEF Idle, NoRow, Job, PC, Op, Row

\* What remains of a worker that finished a run is a record.
LEMMA HoldingType ==
    ASSUME TypeInv, NEW r \in Runners, NEW pc \in PC PROVE Holding(r, pc) \in Job
BY JobTyped, BoundsAreNat DEF TypeInv, Holding, Idle, NoRow, Job, Row

\* The message a worker puts back or publishes again is a message.
LEMMA TaskType ==
    ASSUME TypeInv, NEW r \in Runners, job[r].pc \in HasInvoice, NEW n \in 0 .. MaxRetries
    PROVE  Task(r, n) \in Message
BY JobTyped DEF TypeInv, ProcessShape, Shaped, Task, Message, Job, Op

\* create_invoice leaves a well-shaped record after queue_invoice.
LEMMA RoutedType ==
    ASSUME NEW r \in Clients, NEW i \in Invoices, NEW obj \in Row, NEW sync \in BOOLEAN
    PROVE  Routed(i, obj, sync) \in Job /\ Shaped(r, Routed(i, obj, sync))
BY IdleType, ProcessesAreDisjoint DEF Routed, Idle, Job, PC, Op, Shaped, HasInvoice, Runners

\* A worker that loaded its row has a well-shaped record.
LEMMA StartedType ==
    ASSUME TypeInv, NEW w \in Workers, NEW m \in Message
    PROVE  Started(m) \in Job /\ Shaped(w, Started(m))
<1>1. row[m.inv] \in Row /\ m.inv \in Invoices /\ m.op \in Op /\ m.retries \in 0 .. MaxRetries
  BY RowTyped DEF TypeInv, Message
<1>2. CASE Worth(m)
  BY <1>1, <1>2, IdleType DEF Started, Worth, Annullable, Idle, Job, PC, Shaped, HasInvoice
<1>3. CASE ~Worth(m)
  BY <1>1, <1>3, IdleType DEF Started, Idle, Job, PC, Shaped, HasInvoice
<1> QED BY <1>2, <1>3
-----------------------------------------------------------------------------
(* Type correctness: one lemma per action. *)

\* queue_invoice's SELECT preserves the type invariant.
LEMMA SelectType ==
    ASSUME TypeInv, NEW c \in Clients, NEW t \in Tenants, NEW ref \in Refs, NEW sync \in BOOLEAN,
           queue_invoice_select(c, t, ref, sync)
    PROVE  TypeInv'
<1> DEFINE ins == [Idle EXCEPT !.pc = "insert", !.sync = sync, !.obj = NewRow(t, ref)]
<1>1. c \in Runners
  BY DEF Runners
<1>2. ins \in Job /\ Shaped(c, ins)
  BY IdleType DEF NewRow, Idle, Job, Row, PC, Op, Shaped, HasInvoice, Status, Active
<1>3. ASSUME NEW i \in ActiveRows(t, ref) PROVE i \in Invoices
  BY DEF ActiveRows
<1>4. job' \in [Runners -> Job] /\ ProcessShape'
  <2>1. CASE ActiveRows(t, ref) = {} /\ job' = [job EXCEPT ![c] = ins]
    BY <1>1, <1>2, <2>1, JobUpdate
  <2>2. CASE \E i \in ActiveRows(t, ref) : job' = [job EXCEPT ![c] = Routed(i, row[i], sync)]
    <3>1. PICK i \in ActiveRows(t, ref) : job' = [job EXCEPT ![c] = Routed(i, row[i], sync)]
      BY <2>2
    <3>2. Routed(i, row[i], sync) \in Job /\ Shaped(c, Routed(i, row[i], sync))
      BY <1>3, RoutedType, RowTyped DEF TypeInv
    <3> QED BY <1>1, <3>1, <3>2, JobUpdate
  <2> QED BY <2>1, <2>2 DEF queue_invoice_select
<1>5. requests' \in 0 .. MaxRequests
  BY BoundsAreNat DEF queue_invoice_select, TypeInv, TypeOK
<1> QED BY <1>4, <1>5 DEF queue_invoice_select, TypeInv, TypeOK, InvoiceTableTypeOK,
                          SatLedgerTypeOK, TaskBrokerTypeOK

\* An action that changes the records of job and nothing else with a type.
LEMMA OnlyJobType ==
    ASSUME TypeInv, NEW r \in Runners, NEW j \in Job, Shaped(r, j), job' = [job EXCEPT ![r] = j],
           InvoiceTableTypeOK', SatLedgerTypeOK', TaskBrokerTypeOK', accepted' \subseteq Invoices,
           UNCHANGED counters
    PROVE  TypeInv'
<1>1. job' \in [Runners -> Job] /\ ProcessShape'
  BY JobUpdate
<1> QED BY <1>1 DEF TypeInv, TypeOK, counters

\* Variables left alone keep their types.
LEMMA TablesUnchangedType ==
    ASSUME TypeInv
    PROVE  /\ UNCHANGED <<row, audit>> => InvoiceTableTypeOK'
           /\ UNCHANGED <<issued, voided>> => SatLedgerTypeOK'
           /\ UNCHANGED queue => TaskBrokerTypeOK'
           /\ UNCHANGED accepted => accepted' \subseteq Invoices
BY DEF TypeInv, TypeOK, InvoiceTableTypeOK, SatLedgerTypeOK, TaskBrokerTypeOK

\* queue_invoice's INSERT preserves it, committed or refused.
LEMMA InsertType ==
    ASSUME TypeInv, NEW c \in Clients, queue_invoice_insert(c) PROVE TypeInv'
<1>1. c \in Runners /\ job[c] \in Job /\ job[c].pc = "insert"
  BY JobTyped DEF Runners, TypeInv, queue_invoice_insert
<1>2. job[c].obj \in Row /\ job[c].op = "certify"
  BY <1>1 DEF Job, TypeInv, ProcessShape, Shaped
<1>3. PICK i \in Invoices :
         \/ /\ CommitRow(i, job[c].obj, {"invoice.queued"})
            /\ job' = [job EXCEPT ![c].pc = "refresh", ![c].inv = i]
         \/ /\ job' = [job EXCEPT ![c] = Idle]
            /\ UNCHANGED <<row, audit>>
  BY DEF queue_invoice_insert
<1> DEFINE j == [job[c] EXCEPT !.pc = "refresh", !.inv = i]
<1>4. j \in Job /\ Shaped(c, j)
  BY <1>1, <1>2 DEF Job, PC, Shaped, HasInvoice
<1>5. CASE /\ CommitRow(i, job[c].obj, {"invoice.queued"})
           /\ job' = [job EXCEPT ![c].pc = "refresh", ![c].inv = i]
  <2>1. InvoiceTableTypeOK'
    BY <1>2, <1>5, CommitType DEF Event, TypeInv
  <2>2. job' = [job EXCEPT ![c] = j]
    BY <1>1, <1>5 DEF TypeInv, TypeOK, Job
  <2> HIDE DEF j
  <2> QED BY <1>1, <1>4, <2>1, <2>2, OnlyJobType, TablesUnchangedType DEF queue_invoice_insert
<1>6. CASE job' = [job EXCEPT ![c] = Idle] /\ UNCHANGED <<row, audit>>
  BY <1>1, <1>6, IdleType, OnlyJobType, TablesUnchangedType
     DEF queue_invoice_insert, Shaped, Idle, HasInvoice
<1> QED BY <1>3, <1>5, <1>6

\* The refresh after the INSERT preserves it.
LEMMA RefreshType ==
    ASSUME TypeInv, NEW c \in Clients, queue_invoice_refresh(c) PROVE TypeInv'
<1> DEFINE i == job[c].inv
           j == Routed(i, row[i], job[c].sync)
<1>1. c \in Runners /\ job[c] \in Job
  BY JobTyped DEF Runners, TypeInv
<1>2. i \in Invoices /\ row[i] \in Row /\ job[c].sync \in BOOLEAN
  BY <1>1, RowTyped DEF queue_invoice_refresh, TypeInv, ProcessShape, Shaped, HasInvoice, PC, Job
<1>3. j \in Job /\ Shaped(c, j)
  BY <1>2, RoutedType
<1> QED BY <1>1, <1>3, OnlyJobType, TablesUnchangedType DEF queue_invoice_refresh

\* An idle process has the right shape.
LEMMA IdleShaped == ASSUME NEW r PROVE Shaped(r, Idle)
BY DEF Shaped, Idle, HasInvoice

\* create_invoice's delay() preserves it.
LEMMA DispatchType ==
    ASSUME TypeInv, NEW c \in Clients, create_invoice_dispatch(c) PROVE TypeInv'
<1>1. c \in Runners /\ job[c].pc \in HasInvoice /\ job[c].inv \in Invoices
  BY DEF Runners, create_invoice_dispatch, TypeInv, ProcessShape, Shaped, HasInvoice, PC
<1>2. Task(c, 0) \in Message
  BY <1>1, TaskType, BoundsAreNat
<1>3. TaskBrokerTypeOK' /\ accepted' \subseteq Invoices
  BY <1>1, <1>2, PublishType DEF create_invoice_dispatch, TypeInv, TypeOK
<1> QED BY <1>1, <1>3, IdleType, IdleShaped, OnlyJobType, TablesUnchangedType
           DEF create_invoice_dispatch

\* POST annul preserves it, inline or queued.
LEMMA AnnulRequestType ==
    ASSUME TypeInv, NEW c \in Clients, NEW t \in Tenants, NEW i \in Invoices, NEW sync \in BOOLEAN,
           annul_invoice(c, t, i, sync)
    PROVE  TypeInv'
<1> DEFINE j == [Idle EXCEPT !.pc = "loaded", !.op = "annul", !.inv = i, !.obj = row[i]]
           m == [op |-> "annul", inv |-> i, retries |-> 0]
<1>1. c \in Runners /\ row[i] \in Row
  BY RowTyped DEF Runners, TypeInv
<1>2. requests' \in 0 .. MaxRequests
  BY BoundsAreNat DEF annul_invoice, TypeInv, TypeOK
<1>3. InvoiceTableTypeOK' /\ SatLedgerTypeOK' /\ accepted' \subseteq Invoices
  BY TablesUnchangedType DEF annul_invoice
<1>4. TaskBrokerTypeOK' /\ job' \in [Runners -> Job] /\ ProcessShape'
  <2>1. CASE Annullable(row[i]) /\ job' = [job EXCEPT ![c] = j] /\ UNCHANGED queue
    <3>1. j \in Job /\ Shaped(c, j)
      BY <1>1, <2>1, IdleType DEF Annullable, Idle, Job, PC, Op, Shaped, HasInvoice
    <3> HIDE DEF j
    <3> QED BY <1>1, <2>1, <3>1, JobUpdate, TablesUnchangedType
  <2>2. CASE Publish(m) /\ UNCHANGED job
    <3>1. m \in Message
      BY BoundsAreNat DEF Message, Op
    <3> HIDE DEF m
    <3> QED BY <2>2, <3>1, PublishType DEF TypeInv, TypeOK, ProcessShape, Shaped
  <2> QED BY <2>1, <2>2 DEF annul_invoice
<1> QED BY <1>2, <1>3, <1>4 DEF annul_invoice, TypeInv, TypeOK

\* A worker that takes a task preserves it.
LEMMA StartType ==
    ASSUME TypeInv, NEW w \in Workers, NEW m \in Message, start_task(w, m) PROVE TypeInv'
<1>1. w \in Runners /\ Started(m) \in Job /\ Shaped(w, Started(m))
  BY StartedType DEF Runners
<1>2. TaskBrokerTypeOK'
  BY DeliverType DEF start_task, TypeInv
<1> QED BY <1>1, <1>2, OnlyJobType, TablesUnchangedType DEF start_task

\* A process that goes from loaded to called.
LEMMA AnsweredType ==
    ASSUME TypeInv, NEW r \in Runners, job[r].pc = "loaded", NEW a \in Answer,
           NEW u \in Uuids \cup {None, Blank}, Answered(r, a, u),
           InvoiceTableTypeOK', SatLedgerTypeOK', TaskBrokerTypeOK', accepted' \subseteq Invoices,
           UNCHANGED counters
    PROVE  TypeInv'
<1> DEFINE j == [job[r] EXCEPT !.pc = "called", !.answer = a, !.got = u]
<1>1. job[r] \in Job /\ Shaped(r, job[r])
  BY JobTyped DEF TypeInv, ProcessShape
<1>2. a # None
  BY NoneIsNoValue
<1>3. j \in Job /\ Shaped(r, j)
  BY <1>1, <1>2 DEF Job, PC, Shaped, HasInvoice
<1>4. job' = [job EXCEPT ![r] = j]
  BY <1>1 DEF Answered, TypeInv, TypeOK, Job
<1> HIDE DEF j
<1> QED BY <1>3, <1>4, OnlyJobType

\* Every reply of the provider is reported by some answer.
LEMMA AnswerToType == ASSUME NEW reply \in Reply PROVE AnswerTo(reply) \in Answer
BY DEF Reply, Doing, AnswerTo, Answer

\* A call refused by _validate preserves the type invariant.
LEMMA MisconfiguredType ==
    ASSUME TypeInv, NEW r \in Runners, call_misconfigured(r) PROVE TypeInv'
BY AnsweredType, TablesUnchangedType DEF call_misconfigured, Answer

\* certificar's call preserves it, whatever the reply.
LEMMA CertifyCallType ==
    ASSUME TypeInv, NEW r \in Runners, certify_now_call(r) PROVE TypeInv'
<1>1. job[r].pc = "loaded" /\ job[r].inv \in Invoices
  BY DEF certify_now_call, TypeInv, ProcessShape, Shaped, HasInvoice, PC
<1>2. InvoiceTableTypeOK' /\ TaskBrokerTypeOK' /\ accepted' \subseteq Invoices /\ UNCHANGED counters
  BY TablesUnchangedType DEF certify_now_call
<1>3. CASE \E reply \in CertifyReplies \cap Doing, u \in Uuids :
              /\ Issue(u, job[r].inv)
              /\ \E got \in UuidRead(reply, u) : Answered(r, AnswerTo(reply), got)
  <2>1. PICK reply \in CertifyReplies \cap Doing, u \in Uuids :
              /\ Issue(u, job[r].inv)
              /\ \E got \in UuidRead(reply, u) : Answered(r, AnswerTo(reply), got)
    BY <1>3
  <2>2. SatLedgerTypeOK'
    BY <1>1, <2>1 DEF Issue, SatLedgerTypeOK, TypeInv, TypeOK
  <2>3. AnswerTo(reply) \in Answer /\ UuidRead(reply, u) \subseteq Uuids \cup {None, Blank}
    BY AnswerToType DEF Reply, UuidRead
  <2> QED BY <1>1, <1>2, <2>1, <2>2, <2>3, AnsweredType
<1>4. CASE \E reply \in CertifyReplies \ Doing :
              Answered(r, AnswerTo(reply), None) /\ UNCHANGED <<issued, voided>>
  <2>1. PICK reply \in CertifyReplies \ Doing :
              Answered(r, AnswerTo(reply), None) /\ UNCHANGED <<issued, voided>>
    BY <1>4
  <2>2. AnswerTo(reply) \in Answer
    BY AnswerToType, EnvironmentAssumption
  <2> QED BY <1>1, <1>2, <2>1, <2>2, AnsweredType, TablesUnchangedType
<1> QED BY <1>3, <1>4 DEF certify_now_call

\* anular's call preserves it, whatever the reply.
LEMMA AnnulCallType ==
    ASSUME TypeInv, NEW r \in Runners, annul_now_call(r) PROVE TypeInv'
<1>1. job[r].pc = "loaded" /\ job[r].obj.uuid \in Uuids
  BY JobTyped DEF annul_now_call, TypeInv, ProcessShape, Shaped, Annullable, Job, Row
<1>2. InvoiceTableTypeOK' /\ TaskBrokerTypeOK' /\ accepted' \subseteq Invoices /\ UNCHANGED counters
  BY TablesUnchangedType DEF annul_now_call
<1>3. PICK reply \in AnnulReplies : /\ Answered(r, AnswerTo(reply), None)
                                    /\ Void(job[r].obj.uuid) \/ UNCHANGED <<issued, voided>>
  BY DEF annul_now_call
<1>4. SatLedgerTypeOK'
  BY <1>1, <1>3 DEF Void, SatLedgerTypeOK, TypeInv, TypeOK
<1>5. AnswerTo(reply) \in Answer
  BY AnswerToType, EnvironmentAssumption
<1> QED BY <1>1, <1>2, <1>3, <1>4, <1>5, AnsweredType

\* What remains of a process after its run or its task.
LEMMA LeftType ==
    ASSUME TypeInv, NEW r \in Runners, job[r].pc \in HasInvoice, NEW pc \in {"ack", "retry", "failed"},
           pc = "retry" => job[r].retries < MaxRetries
    PROVE  LET j == IF r \in Clients THEN Idle ELSE Holding(r, pc)
           IN  j \in Job /\ Shaped(r, j)
<1>1. CASE r \in Clients
  BY <1>1, IdleType, IdleShaped
<1>2. CASE r \notin Clients
  <2>1. r \in Workers /\ job[r].inv \in Invoices
    BY <1>2 DEF Runners, TypeInv, ProcessShape, Shaped
  <2>2. Holding(r, pc) \in Job
    BY HoldingType DEF PC
  <2>3. Shaped(r, Holding(r, pc))
    BY <2>1 DEF Holding, Idle, Shaped
  <2> QED BY <1>2, <2>2, <2>3
<1> QED BY <1>1, <1>2

\* The end of a run preserves it.
LEMMA LeaveType ==
    ASSUME TypeInv, NEW r \in Runners, job[r].pc \in HasInvoice, NEW pc \in {"ack", "retry", "failed"},
           pc = "retry" => job[r].retries < MaxRetries, Leave(r, pc),
           InvoiceTableTypeOK', SatLedgerTypeOK', TaskBrokerTypeOK', accepted' \subseteq Invoices,
           UNCHANGED counters
    PROVE  TypeInv'
<1> DEFINE j == IF r \in Clients THEN Idle ELSE Holding(r, pc)
<1>1. j \in Job /\ Shaped(r, j)
  BY LeftType
<1>2. job' = [job EXCEPT ![r] = j]
  BY DEF Leave
<1> HIDE DEF j
<1> QED BY <1>1, <1>2, OnlyJobType

\* After a run a worker acknowledges, retries within the bound, or fails.
LEMMA AfterType ==
    ASSUME TypeInv, NEW r \in Runners
    PROVE  /\ After(r) \in {"ack", "retry", "failed"}
           /\ After(r) = "retry" => job[r].retries < MaxRetries
BY DEF After

\* The transaction that stores an answer keeps the tables typed.
LEMMA StoredType ==
    ASSUME TypeInv, NEW r \in Runners, StoresCertification(r) \/ StoresAnnulment(r)
    PROVE  /\ job[r].pc = "called" /\ job[r].pc \in HasInvoice /\ job[r].inv \in Invoices
           /\ InvoiceTableTypeOK' /\ SatLedgerTypeOK' /\ TaskBrokerTypeOK'
           /\ accepted' \subseteq Invoices
<1>1. job[r].pc = "called" /\ job[r].pc \in HasInvoice
  BY DEF StoresCertification, StoresAnnulment, HasInvoice, PC
<1>2. job[r].inv \in Invoices /\ job[r].answer \in Answer \ {"exception"}
  BY <1>1, JobTyped DEF StoresCertification, StoresAnnulment, TypeInv, ProcessShape, Shaped, Job
<1>3. CertifyEvent[job[r].answer] \in SUBSET Event /\ AnnulEvent[job[r].answer] \in SUBSET Event
  BY <1>2 DEF CertifyEvent, AnnulEvent, Event, Answer
<1>4. \E E \in SUBSET Event : CommitRow(job[r].inv, Saved(r), E)
  BY <1>3 DEF StoresCertification, StoresAnnulment
<1>5. InvoiceTableTypeOK'
  BY <1>1, <1>2, <1>4, SavedType, CommitType DEF TypeInv
<1> QED BY <1>1, <1>2, <1>5, TablesUnchangedType DEF StoresCertification, StoresAnnulment

\* The commits of certify_now and annul_now preserve the type invariant.
LEMMA CommitsType ==
    ASSUME TypeInv, NEW r \in Runners, certify_now_commit(r) \/ annul_now_commit(r) PROVE TypeInv'
<1>1. (StoresCertification(r) \/ StoresAnnulment(r)) /\ Leave(r, After(r)) /\ UNCHANGED counters
  BY DEF certify_now_commit, annul_now_commit, StoresCertification, StoresAnnulment, counters
<1> QED BY <1>1, StoredType, AfterType, LeaveType

\* A rolled back run preserves it.
LEMMA RollbackType ==
    ASSUME TypeInv, NEW r \in Runners, session_rollback(r) PROVE TypeInv'
<1>1. job[r].pc \in HasInvoice
  BY DEF session_rollback, HasInvoice, PC
<1> QED BY <1>1, LeaveType, TablesUnchangedType DEF session_rollback

\* Workers are not request threads.
LEMMA WorkerIsNoClient == ASSUME NEW w \in Workers PROVE w \in Runners /\ w \notin Clients
BY ProcessesAreDisjoint DEF Runners

\* autoretry preserves it: the retry count stays within max_retries.
LEMMA RetryType ==
    ASSUME TypeInv, NEW w \in Workers, autoretry(w) PROVE TypeInv'
<1>1. w \in Runners /\ w \notin Clients /\ job[w].pc \in HasInvoice
  BY WorkerIsNoClient DEF autoretry, HasInvoice, PC
<1>2. job[w].retries + 1 \in 0 .. MaxRetries
  BY <1>1, JobTyped, BoundsAreNat DEF autoretry, TypeInv, ProcessShape, Shaped, Job
<1>3. TaskBrokerTypeOK'
  BY <1>1, <1>2, TaskType, PublishType DEF autoretry, TypeInv
<1>4. Leave(w, "ack")
  BY <1>1 DEF autoretry, Leave
<1> QED BY <1>1, <1>3, <1>4, LeaveType, TablesUnchangedType DEF autoretry

\* on_failure's object is a row, and so is what its UPDATE makes of the table's.
LEMMA DeadType ==
    ASSUME TypeInv, NEW w \in Workers, job[w].pc = "dlq"
    PROVE  job[w].inv \in Invoices /\ Dead(w) \in Row
<1>1. w \in Runners /\ job[w] \in Job /\ job[w].inv \in Invoices
  BY WorkerIsNoClient, JobTyped DEF TypeInv, ProcessShape, Shaped, HasInvoice, PC
<1>2. job[w].obj \in Row /\ [job[w].obj EXCEPT !.status = "REJECTED"] \in Row
  BY <1>1 DEF Job, Row, Status, Settled
<1> QED BY <1>1, <1>2, FlushedType DEF Dead, TypeInv

\* on_failure preserves the type invariant: it loads the row ...
LEMMA FailureLoadType ==
    ASSUME TypeInv, NEW w \in Workers, on_failure_load(w) PROVE TypeInv'
<1> DEFINE j == [Holding(w, "dlq") EXCEPT !.obj = row[job[w].inv]]
<1>1. w \in Runners /\ job[w].inv \in Invoices
  BY WorkerIsNoClient DEF on_failure_load, TypeInv, ProcessShape, Shaped, HasInvoice, PC
<1>2. Holding(w, "dlq") \in Job /\ row[job[w].inv] \in Row
  BY <1>1, HoldingType, RowTyped DEF TypeInv, PC
<1>3. j \in Job
  BY <1>2 DEF Job
<1>4. j.pc = "dlq" /\ j.inv = job[w].inv
  BY DEF Holding, Idle
<1>5. job' = [job EXCEPT ![w] = j]
  BY DEF on_failure_load
<1> HIDE DEF j
<1>6. Shaped(w, j)
  BY <1>1, <1>4 DEF Shaped
<1> QED BY <1>1, <1>3, <1>5, <1>6, OnlyJobType, TablesUnchangedType DEF on_failure_load

\* ... and commits.
LEMMA FailureCommitType ==
    ASSUME TypeInv, NEW w \in Workers, on_failure_commit(w) PROVE TypeInv'
<1>1. w \in Runners /\ w \notin Clients /\ job[w].pc = "dlq" /\ job[w].pc \in HasInvoice
  BY WorkerIsNoClient DEF on_failure_commit, HasInvoice, PC
<1>2. CommitRow(job[w].inv, Dead(w), {"invoice.dlq"}) \/ UNCHANGED <<row, audit>>
  BY DEF on_failure_commit
<1>3. InvoiceTableTypeOK'
  BY <1>1, <1>2, DeadType, CommitType, TablesUnchangedType DEF TypeInv, Event
<1>4. Leave(w, "ack")
  BY <1>1 DEF on_failure_commit, Leave
<1> QED BY <1>1, <1>3, <1>4, LeaveType, TablesUnchangedType DEF on_failure_commit

\* An acknowledgement preserves it.
LEMMA AcknowledgeType ==
    ASSUME TypeInv, NEW w \in Workers, acknowledge(w) PROVE TypeInv'
BY WorkerIsNoClient, IdleType, IdleShaped, OnlyJobType, TablesUnchangedType DEF acknowledge

\* The death of a process preserves it.
LEMMA CrashType ==
    ASSUME TypeInv, NEW r \in Runners, crash(r) PROVE TypeInv'
<1>1. job' \in [Runners -> Job] /\ ProcessShape'
  BY IdleType, IdleShaped, JobUpdate DEF crash
<1>2. crashes' \in 0 .. MaxCrashes
  BY BoundsAreNat DEF crash, TypeInv, TypeOK
<1>3. TaskBrokerTypeOK'
  <2>1. CASE r \in Workers /\ Publish(Task(r, job[r].retries))
    <3>1. job[r].pc \in HasInvoice
      BY <2>1, JobTyped, ProcessesAreDisjoint
         DEF crash, TypeInv, ProcessShape, Shaped, Job, HasInvoice
    <3>2. job[r].retries \in 0 .. MaxRetries
      BY JobTyped DEF TypeInv, Job
    <3> QED BY <2>1, <3>1, <3>2, TaskType, PublishType DEF TypeInv
  <2>2. CASE UNCHANGED queue
    BY <2>2, TablesUnchangedType
  <2> QED BY <2>1, <2>2 DEF crash
<1> QED BY <1>1, <1>2, <1>3, TablesUnchangedType DEF crash, TypeInv, TypeOK

\* A transaction the database refuses preserves it ...
LEMMA DbOutageType ==
    ASSUME TypeInv, NEW w \in Workers, db_outage(w) PROVE TypeInv'
<1>1. w \in Runners /\ w \notin Clients
  BY WorkerIsNoClient
<1>2. outages' \in 0 .. MaxOutages
  <2>1. outages < MaxOutages /\ outages' = outages + 1
    BY DEF db_outage
  <2> QED BY <2>1, BoundsAreNat DEF TypeInv, TypeOK
<1>3. job' \in [Runners -> Job] /\ ProcessShape' /\ TaskBrokerTypeOK'
  <2> DEFINE pc == IF job[w].pc \in {"failed", "dlq"} THEN "ack" ELSE "failed"
  <2>1. CASE /\ job[w].pc \in {"loaded", "called", "failed", "dlq"}
             /\ job' = [job EXCEPT ![w] = Holding(w, pc)]
             /\ UNCHANGED queue
    <3>1. job[w].pc \in HasInvoice /\ pc \in {"ack", "failed"}
      BY <2>1 DEF HasInvoice, PC
    <3> HIDE DEF pc
    <3>2. Holding(w, pc) \in Job /\ Shaped(w, Holding(w, pc))
      BY <1>1, <3>1, LeftType
    <3> QED BY <1>1, <2>1, <3>2, JobUpdate, TablesUnchangedType
  <2>2. CASE \E m \in Message :
                /\ Deliver(m)
                /\ job' = [job EXCEPT ![w] = [Started(m) EXCEPT !.pc = "failed", !.obj = NoRow]]
    <3>1. PICK m \in Message :
                /\ Deliver(m)
                /\ job' = [job EXCEPT ![w] = [Started(m) EXCEPT !.pc = "failed", !.obj = NoRow]]
      BY <2>2
    <3> DEFINE j == [Started(m) EXCEPT !.pc = "failed", !.obj = NoRow]
    <3>2. Started(m) \in Job /\ Started(m).inv \in Invoices
      BY StartedType DEF Started, Idle, Message
    <3>3. NoRow \in Row
      BY DEF NoRow, Row
    <3>4. j \in Job /\ Shaped(w, j)
      BY <3>2, <3>3 DEF Job, PC, Shaped, HasInvoice
    <3>5. job' = [job EXCEPT ![w] = j]
      BY <3>1
    <3> HIDE DEF j
    <3> QED BY <1>1, <3>1, <3>4, <3>5, JobUpdate, DeliverType DEF TypeInv
  <2> QED BY <2>1, <2>2 DEF db_outage
<1> QED BY <1>2, <1>3, TablesUnchangedType DEF db_outage, TypeInv, TypeOK

\* ... and so do a refresh that fails and a retry the broker does not take.
LEMMA OutageType ==
    ASSUME TypeInv, NEW w \in Workers, Outage(w) PROVE TypeInv'
<1>1. w \in Runners /\ w \notin Clients
  BY WorkerIsNoClient
<1>2. CASE refresh_outage(w) \/ broker_outage(w)
  <2>1. outages' \in 0 .. MaxOutages
    <3>1. outages < MaxOutages /\ outages' = outages + 1
      BY <1>2 DEF refresh_outage, broker_outage
    <3> QED BY <3>1, BoundsAreNat DEF TypeInv, TypeOK
  <2>2. requests' \in 0 .. MaxRequests /\ crashes' \in 0 .. MaxCrashes
    BY <1>2 DEF refresh_outage, broker_outage, StoresCertification, StoresAnnulment, TypeInv, TypeOK
  <2>3. job' \in [Runners -> Job] /\ ProcessShape'
    <3>1. CASE refresh_outage(w)
      <4>1. Leave(w, "failed") /\ job[w].pc \in HasInvoice
        BY <1>1, <3>1, StoredType DEF refresh_outage
      <4>2. job' = [job EXCEPT ![w] = Holding(w, "failed")]
        BY <1>1, <4>1 DEF Leave
      <4>3. Holding(w, "failed") \in Job /\ Shaped(w, Holding(w, "failed"))
        BY <1>1, <4>1, LeftType
      <4> QED BY <1>1, <4>2, <4>3, JobUpdate
    <3>2. CASE broker_outage(w)
      BY <1>1, <3>2, IdleType, IdleShaped, JobUpdate DEF broker_outage
    <3> QED BY <1>2, <3>1, <3>2
  <2>4. /\ InvoiceTableTypeOK' /\ SatLedgerTypeOK' /\ TaskBrokerTypeOK'
        /\ accepted' \subseteq Invoices
    BY <1>1, <1>2, StoredType, TablesUnchangedType DEF refresh_outage, broker_outage
  <2> QED BY <2>1, <2>2, <2>3, <2>4 DEF TypeInv, TypeOK
<1> QED BY <1>2, DbOutageType DEF Outage

\* Every step preserves the types and the shape of the processes.
LEMMA StepType == TypeInv /\ [Next]_vars => TypeInv'
<1> SUFFICES ASSUME TypeInv, [Next]_vars PROVE TypeInv'
  OBVIOUS
<1>1. ASSUME NEW c \in Clients, Request(c) PROVE TypeInv'
  BY <1>1, SelectType, AnnulRequestType, EnvironmentAssumption DEF Request
<1>2. ASSUME NEW r \in Runners, Progress(r) PROVE TypeInv'
  BY <1>2, MisconfiguredType, CertifyCallType, AnnulCallType, CommitsType,
     RollbackType DEF Progress
<1>3. ASSUME NEW c \in Clients, ClientStep(c) PROVE TypeInv'
  BY <1>2, <1>3, InsertType, RefreshType, DispatchType DEF ClientStep, Runners
<1>4. ASSUME NEW w \in Workers, WorkerStep(w) PROVE TypeInv'
  BY <1>2, <1>4, StartType, RetryType, FailureLoadType, FailureCommitType, AcknowledgeType
     DEF WorkerStep, Runners
<1>5. CASE UNCHANGED vars
  BY <1>5 DEF vars, counters, TypeInv, TypeOK, ProcessShape, Shaped, InvoiceTableTypeOK,
     SatLedgerTypeOK, TaskBrokerTypeOK
<1>6. CASE rest
  BY <1>5, <1>6 DEF rest
<1> QED BY <1>1, <1>3, <1>4, <1>5, <1>6, OutageType, CrashType DEF Next

\* Every variable keeps its type, and a process in the middle of a handler has
\* what the handler needs: Gateway's type invariant, for every instance.
THEOREM TypeCorrect == Spec => []TypeInv
<1>1. Init => TypeInv
  BY InitType
<1>2. TypeInv /\ [Next]_vars => TypeInv'
  BY StepType
<1> QED BY <1>1, <1>2, PTL DEF Spec
-----------------------------------------------------------------------------
(* What a step may do to the table. *)

\* At the start nothing refers to a row.
LEMMA InitRows == Init => RowsExist
BY DEF Init, RowsExist, InvoiceTableInit, TaskBrokerInit, Exists, NoRow, Idle, HasInvoice, Message

\* What the UPDATE of a run of certify_now or annul_now changes.
LEMMA SavedFields ==
    ASSUME TypeInv, NEW r \in Runners, job[r].pc = "called"
    PROVE  LET i == job[r].inv
               s == Saved(r)
           IN  /\ s.tenant = row[i].tenant /\ s.ref = row[i].ref
               /\ \/ s.status = row[i].status
                  \/ job[r].op = "certify" /\ job[r].answer = "ok" /\ s.status = "CERTIFIED"
                  \/ /\ job[r].op = "certify"
                     /\ job[r].answer \in {"reject", "config"}
                     /\ s.status = "REJECTED"
                  \/ job[r].op = "annul" /\ job[r].answer = "ok" /\ s.status = "ANNULLED"
               /\ \/ s.uuid = row[i].uuid
                  \/ job[r].op = "certify" /\ job[r].answer = "ok" /\ s.uuid = job[r].got
<1> DEFINE i == job[r].inv
           obj == job[r].obj
           new == Assigned(r)
<1>1. job[r] \in Job /\ i \in Invoices
  BY JobTyped DEF TypeInv, ProcessShape, Shaped, HasInvoice, PC
<1>2. row[i] \in Row /\ obj \in Row /\ job[r].op \in {"certify", "annul"}
  BY <1>1, RowTyped DEF TypeInv, Job, Op
<1>3. /\ Saved(r).tenant = row[i].tenant
      /\ Saved(r).ref = row[i].ref
      /\ Saved(r).status = IF new.status = obj.status THEN row[i].status ELSE new.status
      /\ Saved(r).uuid = IF new.uuid = obj.uuid THEN row[i].uuid ELSE new.uuid
  <2> HIDE DEF new
  <2>1. Saved(r) = Flushed(i, obj, new)
    BY DEF Saved, new
  <2> HIDE DEF i, obj
  <2> QED BY <1>2, <2>1 DEF Flushed, Row
<1>4. /\ \/ new.status = obj.status
         \/ job[r].op = "certify" /\ job[r].answer = "ok" /\ new.status = "CERTIFIED"
         \/ /\ job[r].op = "certify"
            /\ job[r].answer \in {"reject", "config"}
            /\ new.status = "REJECTED"
         \/ job[r].op = "annul" /\ job[r].answer = "ok" /\ new.status = "ANNULLED"
      /\ \/ new.uuid = obj.uuid
         \/ job[r].op = "certify" /\ job[r].answer = "ok" /\ new.uuid = job[r].got
  <2>1. CASE job[r].op = "certify"
    BY <1>2, <2>1 DEF Assigned, Certifying, Row
  <2>2. CASE job[r].op = "annul"
    BY <1>2, <2>2 DEF Assigned, Annulling, Row
  <2> QED BY <1>2, <2>1, <2>2
<1> HIDE DEF new
<1> QED BY <1>3, <1>4

\* What the UPDATE of on_failure changes.
LEMMA DeadFields ==
    ASSUME TypeInv, NEW w \in Workers, job[w].pc = "dlq"
    PROVE  LET i == job[w].inv
           IN  /\ Dead(w).tenant = row[i].tenant /\ Dead(w).ref = row[i].ref
               /\ Dead(w).uuid = row[i].uuid /\ Dead(w).xml = row[i].xml
               /\ Dead(w).status \in {row[i].status, "REJECTED"}
               /\ job[w].obj.status # "REJECTED" => Dead(w).status = "REJECTED"
<1> DEFINE i == job[w].inv
           obj == job[w].obj
           new == [obj EXCEPT !.status = "REJECTED"]
<1>1. i \in Invoices /\ obj \in Row
  BY DeadType, JobTyped, WorkerIsNoClient DEF TypeInv, Job
<1>2. row[i] \in Row
  BY <1>1, RowTyped DEF TypeInv
<1>3. new.status = "REJECTED" /\ new.uuid = obj.uuid /\ new.xml = obj.xml
  BY <1>1 DEF Row
<1>4. Dead(w) = Flushed(i, obj, new)
  BY DEF Dead
<1> HIDE DEF i, obj, new
<1>5. /\ Dead(w).tenant = row[i].tenant /\ Dead(w).ref = row[i].ref
      /\ Dead(w).uuid = row[i].uuid /\ Dead(w).xml = row[i].xml
      /\ Dead(w).status = IF new.status = obj.status THEN row[i].status ELSE new.status
  BY <1>2, <1>3, <1>4 DEF Flushed, Row
<1> QED BY <1>3, <1>5 DEF i, obj

\* Every step leaves the table alone or makes one lawful commit that the unique
\* constraint admits.
LEMMA RowStep ==
    ASSUME TypeInv, RowsExist, [Next]_vars
    PROVE  \/ UNCHANGED <<row, audit>>
           \/ \E i \in Invoices, r \in Row, E \in SUBSET Event :
                 CommitRow(i, r, E) /\ Admits(i, r) /\ Lawful(i, r, E)
<1> DEFINE Goal == \/ UNCHANGED <<row, audit>>
                   \/ \E i \in Invoices, r \in Row, E \in SUBSET Event :
                         CommitRow(i, r, E) /\ Admits(i, r) /\ Lawful(i, r, E)
<1>1. ASSUME NEW c \in Clients, queue_invoice_insert(c) PROVE Goal
  <2>1. PICK i \in Invoices :
           /\ ~Exists(i)
           /\ \/ Admits(i, job[c].obj) /\ CommitRow(i, job[c].obj, {"invoice.queued"})
              \/ UNCHANGED <<row, audit>>
    BY <1>1 DEF queue_invoice_insert
  <2>2. job[c].obj \in Row /\ job[c].obj.status = "PENDING"
    BY <1>1, JobTyped DEF queue_invoice_insert, TypeInv, ProcessShape, Shaped, Job, Runners
  <2>3. {"invoice.queued"} \in SUBSET Event /\ Lawful(i, job[c].obj, {"invoice.queued"})
    BY <2>1, <2>2 DEF Event, Lawful
  <2> QED BY <2>1, <2>2, <2>3
<1>2. ASSUME NEW r \in Runners, StoresCertification(r) PROVE Goal
  <2>1. /\ job[r].pc = "called" /\ job[r].op = "certify"
        /\ Admits(job[r].inv, Saved(r))
        /\ CommitRow(job[r].inv, Saved(r), CertifyEvent[job[r].answer])
    BY <1>2 DEF StoresCertification
  <2>2. /\ job[r].inv \in Invoices /\ Exists(job[r].inv)
        /\ job[r].answer \in Answer \ {"exception"}
    BY <1>2, <2>1, JobTyped DEF StoresCertification, TypeInv, ProcessShape, Shaped, Job, RowsExist,
                                HasInvoice, PC
  <2>3. CertifyEvent[job[r].answer] \in SUBSET Event
    BY <2>2 DEF CertifyEvent, Event, Answer
  <2>4. Lawful(job[r].inv, Saved(r), CertifyEvent[job[r].answer])
    BY <2>1, <2>2, SavedFields DEF Lawful, CertifyEvent, Explains, Settled
  <2> QED BY <2>1, <2>2, <2>3, <2>4, SavedType
<1>3. ASSUME NEW r \in Runners, StoresAnnulment(r) PROVE Goal
  <2>1. /\ job[r].pc = "called" /\ job[r].op = "annul"
        /\ Admits(job[r].inv, Saved(r))
        /\ CommitRow(job[r].inv, Saved(r), AnnulEvent[job[r].answer])
    BY <1>3 DEF StoresAnnulment
  <2>2. /\ job[r].inv \in Invoices /\ Exists(job[r].inv)
        /\ job[r].answer \in Answer \ {"exception"}
    BY <1>3, <2>1, JobTyped DEF StoresAnnulment, TypeInv, ProcessShape, Shaped, Job, RowsExist,
                                HasInvoice, PC
  <2>3. AnnulEvent[job[r].answer] \in SUBSET Event
    BY <2>2 DEF AnnulEvent, Event, Answer
  <2>4. Lawful(job[r].inv, Saved(r), AnnulEvent[job[r].answer])
    BY <2>1, <2>2, SavedFields DEF Lawful, AnnulEvent, Explains, Settled
  <2> QED BY <2>1, <2>2, <2>3, <2>4, SavedType
<1>4. ASSUME NEW w \in Workers, on_failure_commit(w) PROVE Goal
  <2>1. /\ job[w].pc = "dlq"
        /\ \/ Admits(job[w].inv, Dead(w)) /\ CommitRow(job[w].inv, Dead(w), {"invoice.dlq"})
           \/ UNCHANGED <<row, audit>>
    BY <1>4 DEF on_failure_commit
  <2>2. job[w].inv \in Invoices /\ Dead(w) \in Row /\ {"invoice.dlq"} \in SUBSET Event
    BY <2>1, DeadType DEF Event
  <2>3. Exists(job[w].inv)
    BY <2>1, WorkerIsNoClient DEF RowsExist, HasInvoice, PC
  <2>4. Lawful(job[w].inv, Dead(w), {"invoice.dlq"})
    BY <2>1, <2>3, DeadFields DEF Lawful, Settled, Explains
  <2> QED BY <2>1, <2>2, <2>4
<1>5. ASSUME NEW r \in Runners, Progress(r) PROVE Goal
  BY <1>2, <1>3, <1>5 DEF Progress, call_misconfigured, certify_now_call, annul_now_call,
                          certify_now_commit, annul_now_commit, session_rollback
<1>6. ASSUME NEW c \in Clients, Request(c) \/ ClientStep(c) PROVE Goal
  BY <1>1, <1>5, <1>6 DEF Request, ClientStep, Runners, queue_invoice_select, annul_invoice,
                          queue_invoice_refresh, create_invoice_dispatch
<1>7. ASSUME NEW w \in Workers, WorkerStep(w) PROVE Goal
  BY <1>4, <1>5, <1>7 DEF WorkerStep, Runners, start_task, autoretry, on_failure_load, acknowledge
<1>8. ASSUME NEW w \in Workers, Outage(w) PROVE Goal
  BY <1>2, <1>3, <1>8 DEF Outage, Runners, db_outage, refresh_outage, broker_outage
<1> QED BY <1>6, <1>7, <1>8 DEF Next, vars, counters, crash, rest

\* Rows are never deleted, their key never changes, a settled row stays settled,
\* and no row becomes PENDING except by being inserted.
LEMMA RowsEvolve ==
    ASSUME TypeInv, RowsExist, [Next]_vars, NEW i \in Invoices, Exists(i)
    PROVE  /\ Exists(i)'
           /\ row'[i].tenant = row[i].tenant /\ row'[i].ref = row[i].ref
           /\ row[i].status \in Settled => row'[i].status \in Settled
           /\ row'[i].status = "PENDING" => row[i].status = "PENDING"
<1>1. CASE UNCHANGED <<row, audit>>
  BY <1>1 DEF Exists
<1>2. CASE \E k \in Invoices, r \in Row, E \in SUBSET Event :
              CommitRow(k, r, E) /\ Admits(k, r) /\ Lawful(k, r, E)
  <2>1. PICK k \in Invoices, r \in Row, E \in SUBSET Event :
              CommitRow(k, r, E) /\ Lawful(k, r, E)
    BY <1>2
  <2>2. CASE k = i
    BY <2>1, <2>2 DEF TypeInv, TypeOK, InvoiceTableTypeOK, CommitRow, Lawful, Exists, Settled
  <2>3. CASE k # i
    BY <2>1, <2>3 DEF TypeInv, TypeOK, InvoiceTableTypeOK, CommitRow, Exists
  <2> QED BY <2>2, <2>3
<1> QED BY <1>1, <1>2, RowStep

\* An id that is not in use keeps no data.
LEMMA AbsentStep ==
    ASSUME TypeInv, RowsExist, [Next]_vars, NEW i \in Invoices, ~Exists(i)'
    PROVE  row'[i] = NoRow
<1>1. ~Exists(i)
  BY RowsEvolve
<1>2. row'[i] = row[i]
  BY <1>1, RowStep DEF TypeInv, TypeOK, InvoiceTableTypeOK, CommitRow, Lawful, Exists
<1> QED BY <1>1, <1>2 DEF RowsExist

\* The constraint is checked when a row is written, against the rows of that
\* moment: that is enough.
LEMMA UniqueStep ==
    ASSUME TypeInv, RowsExist, UniqueIndex, [Next]_vars PROVE UniqueIndex'
<1>1. CASE UNCHANGED <<row, audit>>
  BY <1>1 DEF UniqueIndex, SameKey, SameRef
<1>2. CASE \E k \in Invoices, r \in Row, E \in SUBSET Event :
              CommitRow(k, r, E) /\ Admits(k, r) /\ Lawful(k, r, E)
  <2>1. PICK k \in Invoices, r \in Row, E \in SUBSET Event : CommitRow(k, r, E) /\ Admits(k, r)
    BY <1>2
  <2>2. row'[k] = r /\ \A i \in Invoices \ {k} : row'[i] = row[i]
    BY <2>1 DEF TypeInv, TypeOK, InvoiceTableTypeOK, CommitRow
  <2>3. SUFFICES ASSUME NEW i \in Invoices, NEW j \in Invoices, i # j, SameRef(row'[i], row'[j])
                 PROVE  row'[i].status # row'[j].status
    BY DEF UniqueIndex, SameKey, SameRef
  <2>4. CASE i = k
    BY <2>1, <2>2, <2>3, <2>4 DEF Admits
  <2>5. CASE j = k
    BY <2>1, <2>2, <2>3, <2>5 DEF Admits, SameRef
  <2>6. CASE i # k /\ j # k
    BY <2>2, <2>3, <2>6 DEF UniqueIndex, SameKey
  <2> QED BY <2>4, <2>5, <2>6
<1> QED BY <1>1, <1>2, RowStep

\* A status changes together with the event that explains it.
LEMMA AuditStep ==
    ASSUME TypeInv, RowsExist, AuditExplainsStatus, [Next]_vars PROVE AuditExplainsStatus'
<1>1. CASE UNCHANGED <<row, audit>>
  BY <1>1 DEF AuditExplainsStatus, Exists
<1>2. CASE \E k \in Invoices, r \in Row, E \in SUBSET Event :
              CommitRow(k, r, E) /\ Admits(k, r) /\ Lawful(k, r, E)
  <2>1. PICK k \in Invoices, r \in Row, E \in SUBSET Event : CommitRow(k, r, E) /\ Lawful(k, r, E)
    BY <1>2
  <2>2. /\ row'[k] = r /\ audit'[k] = audit[k] \cup E
        /\ \A i \in Invoices \ {k} : row'[i] = row[i] /\ audit'[i] = audit[i]
    BY <2>1 DEF TypeInv, TypeOK, InvoiceTableTypeOK, CommitRow
  <2>3. audit'[k] \cap Explains[r.status] # {}
    <3>1. CASE ~Exists(k) /\ r.status = "PENDING" /\ "invoice.queued" \in E
      BY <2>2, <3>1 DEF Explains
    <3>2. CASE Exists(k) /\ r.status = row[k].status
      BY <2>2, <3>2 DEF AuditExplainsStatus
    <3>3. CASE E \cap Explains[r.status] # {}
      BY <2>2, <3>3
    <3> QED BY <2>1, <3>1, <3>2, <3>3 DEF Lawful
  <2> QED BY <2>2, <2>3 DEF AuditExplainsStatus, Exists
<1> QED BY <1>1, <1>2, RowStep

\* The parts of RowsExist that speak of messages, processes and callers, with
\* the table as it is before the step.
LEMMA QueueExists ==
    ASSUME TypeInv, RowsExist, NEW n \in Message, Exists(n.inv), Publish(n)
    PROVE  \A m \in Message : queue'[m] > 0 => Exists(m.inv)
BY DEF TypeInv, TypeOK, TaskBrokerTypeOK, Publish, RowsExist

\* ... and the rest of the queue, when a message leaves it.
LEMMA DeliverExists ==
    ASSUME TypeInv, RowsExist, NEW n \in Message, Deliver(n)
    PROVE  /\ \A m \in Message : queue'[m] > 0 => Exists(m.inv)
           /\ Exists(n.inv)
BY DEF TypeInv, TypeOK, TaskBrokerTypeOK, Deliver, RowsExist

\* A step of one process leaves the others' rows in place.
LEMMA JobExists ==
    ASSUME TypeInv, RowsExist, NEW r \in Runners, NEW j, job' = [job EXCEPT ![r] = j],
           j.pc \in HasInvoice => Exists(j.inv)
    PROVE  \A q \in Runners : job'[q].pc \in HasInvoice => Exists(job'[q].inv)
BY DEF TypeInv, TypeOK, RowsExist

\* A process that finished its run still names an existing row.
LEMMA LeaveExists ==
    ASSUME TypeInv, RowsExist, NEW r \in Runners, job[r].pc \in HasInvoice, NEW pc, Leave(r, pc)
    PROVE  \A q \in Runners : job'[q].pc \in HasInvoice => Exists(job'[q].inv)
<1> DEFINE j == IF r \in Clients THEN Idle ELSE Holding(r, pc)
<1>1. job' = [job EXCEPT ![r] = j]
  BY DEF Leave
<1>2. j.pc \in HasInvoice => Exists(j.inv)
  BY DEF Holding, Idle, HasInvoice, RowsExist
<1> HIDE DEF j
<1> QED BY <1>1, <1>2, JobExists

\* So does one that received an answer.
LEMMA AnsweredExists ==
    ASSUME TypeInv, RowsExist, NEW r \in Runners, job[r].pc = "loaded", NEW a, NEW u,
           Answered(r, a, u)
    PROVE  \A q \in Runners : job'[q].pc \in HasInvoice => Exists(job'[q].inv)
<1> DEFINE j == [job[r] EXCEPT !.pc = "called", !.answer = a, !.got = u]
<1>1. job[r] \in Job /\ Exists(job[r].inv)
  BY JobTyped DEF TypeInv, RowsExist, HasInvoice, PC
<1>2. job' = [job EXCEPT ![r] = j]
  BY <1>1 DEF Answered, TypeInv, TypeOK, Job
<1>3. j.inv = job[r].inv
  BY <1>1 DEF Job
<1> HIDE DEF j
<1> QED BY <1>1, <1>2, <1>3, JobExists

\* After the SELECT a request thread names a row only if one was found.
LEMMA SelectRecord ==
    ASSUME NEW c, NEW t, NEW ref, NEW sync, queue_invoice_select(c, t, ref, sync)
    PROVE  \E j : /\ job' = [job EXCEPT ![c] = j]
                  /\ \/ j.pc = "insert"
                     \/ \E i \in ActiveRows(t, ref) : j = Routed(i, row[i], sync)
<1> DEFINE ins == [Idle EXCEPT !.pc = "insert", !.sync = sync, !.obj = NewRow(t, ref)]
<1>1. ins.pc = "insert"
  BY DEF Idle
<1>2. \/ job' = [job EXCEPT ![c] = ins]
      \/ \E i \in ActiveRows(t, ref) : job' = [job EXCEPT ![c] = Routed(i, row[i], sync)]
  BY DEF queue_invoice_select
<1> HIDE DEF ins
<1> QED BY <1>1, <1>2

\* Whatever a step puts in the queue, in a process or in accepted names a row.
LEMMA ReferencesStep ==
    ASSUME TypeInv, RowsExist, [Next]_vars
    PROVE  /\ \A m \in Message : queue'[m] > 0 => Exists(m.inv)
           /\ \A r \in Runners : job'[r].pc \in HasInvoice => Exists(job[r].inv)'
           /\ \A i \in accepted' : Exists(i)
<1> DEFINE Q == \A m \in Message : queue'[m] > 0 => Exists(m.inv)
           J == \A r \in Runners : job'[r].pc \in HasInvoice => Exists(job'[r].inv)
           K == \A r \in Runners : job'[r].pc \in HasInvoice => Exists(job[r].inv)'
           A == \A i \in accepted' : Exists(i)
<1>1. UNCHANGED queue => Q
  BY DEF RowsExist
<1>2. UNCHANGED accepted => A
  BY DEF RowsExist
<1>3. UNCHANGED job => J
  BY DEF RowsExist
<1>4. J => K
  <2>1. TypeInv'
    BY StepType
  <2>2. ASSUME NEW r \in Runners, job'[r].pc \in HasInvoice PROVE job'[r].inv \in Invoices
    BY <2>1, <2>2 DEF TypeInv, ProcessShape, Shaped
  <2> QED BY <2>2, RowsEvolve
<1>5. \A r \in Runners : job[r].pc \in HasInvoice => job[r].inv \in Invoices /\ Exists(job[r].inv)
  BY DEF TypeInv, ProcessShape, Shaped, RowsExist
<1>6. "idle" \notin HasInvoice /\ "insert" \notin HasInvoice
  BY DEF HasInvoice
<1> HIDE DEF Q, J, K, A
<1>7. ASSUME NEW c \in Clients, Request(c) PROVE Q /\ K /\ A
  <2>1. c \in Runners
    BY DEF Runners
  <2>2. ASSUME NEW t \in Tenants, NEW ref \in Refs, NEW sync \in BOOLEAN,
               queue_invoice_select(c, t, ref, sync)
        PROVE  J
    <3>1. PICK j : /\ job' = [job EXCEPT ![c] = j]
                   /\ \/ j.pc = "insert"
                      \/ \E i \in ActiveRows(t, ref) : j = Routed(i, row[i], sync)
      BY <2>2, SelectRecord
    <3>2. ASSUME NEW i \in ActiveRows(t, ref), j = Routed(i, row[i], sync), j.pc \in HasInvoice
          PROVE  Exists(j.inv)
      <4>1. Exists(i)
        BY DEF ActiveRows, Active, Exists
      <4> QED BY <3>2, <4>1, <1>6 DEF Routed, Idle
    <3> QED BY <1>6, <2>1, <3>1, <3>2, JobExists DEF J
  <2>3. ASSUME NEW t \in Tenants, NEW i \in Invoices, NEW sync \in BOOLEAN,
               annul_invoice(c, t, i, sync)
        PROVE  Q /\ J
    <3>1. Exists(i)
      BY <2>3, NoneIsNoValue DEF annul_invoice, RowsExist, NoRow
    <3>2. CASE Publish([op |-> "annul", inv |-> i, retries |-> 0]) /\ UNCHANGED job
      <4> DEFINE m == [op |-> "annul", inv |-> i, retries |-> 0]
      <4>1. m \in Message /\ m.inv = i
        BY BoundsAreNat DEF Message, Op
      <4> HIDE DEF m
      <4>2. Publish(m)
        BY <3>2 DEF m
      <4> QED BY <1>3, <3>1, <3>2, <4>1, <4>2, QueueExists DEF Q
    <3>3. CASE /\ UNCHANGED queue
               /\ job' = [job EXCEPT ![c] = [Idle EXCEPT !.pc = "loaded", !.op = "annul",
                                                         !.inv = i, !.obj = row[i]]]
      <4> DEFINE j == [Idle EXCEPT !.pc = "loaded", !.op = "annul", !.inv = i, !.obj = row[i]]
      <4>1. j.inv = i
        BY DEF Idle
      <4> HIDE DEF j
      <4>2. job' = [job EXCEPT ![c] = j]
        BY <3>3 DEF j
      <4> QED BY <1>1, <2>1, <3>1, <3>3, <4>1, <4>2, JobExists DEF J
    <3> QED BY <2>3, <3>2, <3>3 DEF annul_invoice
  <2> QED BY <1>1, <1>2, <1>4, <1>7, <2>2, <2>3, EnvironmentAssumption
          DEF Request, queue_invoice_select, annul_invoice
<1>8. ASSUME NEW r \in Runners, Progress(r) PROVE Q /\ K /\ A
  <2>1. UNCHANGED <<queue, accepted>>
    BY <1>8 DEF Progress, call_misconfigured, certify_now_call, annul_now_call,
                certify_now_commit, annul_now_commit, StoresCertification, StoresAnnulment,
                session_rollback
  <2>2. CASE job[r].pc = "loaded"
    <3>1. \E a, u : Answered(r, a, u)
      BY <1>8, <2>2 DEF Progress, call_misconfigured, certify_now_call, annul_now_call,
                        certify_now_commit, annul_now_commit, StoresCertification,
                        StoresAnnulment, session_rollback
    <3> QED BY <1>1, <1>2, <1>4, <2>1, <2>2, <3>1, AnsweredExists DEF J
  <2>3. CASE job[r].pc = "called"
    <3>1. \E pc : Leave(r, pc)
      BY <1>8, <2>3 DEF Progress, call_misconfigured, certify_now_call, annul_now_call,
                        certify_now_commit, annul_now_commit, session_rollback
    <3> QED BY <1>1, <1>2, <1>4, <2>1, <2>3, <3>1, LeaveExists DEF J, HasInvoice, PC
  <2>4. job[r].pc \in {"loaded", "called"}
    BY <1>8 DEF Progress, call_misconfigured, certify_now_call, annul_now_call,
                certify_now_commit, annul_now_commit, StoresCertification, StoresAnnulment,
                session_rollback
  <2> QED BY <1>1, <1>2, <1>4, <2>1, <2>2, <2>3, <2>4
<1>9. ASSUME NEW c \in Clients, ClientStep(c) PROVE Q /\ K /\ A
  <2>1. c \in Runners
    BY DEF Runners
  <2>2. CASE queue_invoice_insert(c)
    <3>1. PICK i \in Invoices :
             \/ /\ CommitRow(i, job[c].obj, {"invoice.queued"})
                /\ job' = [job EXCEPT ![c].pc = "refresh", ![c].inv = i]
             \/ /\ job' = [job EXCEPT ![c] = Idle]
                /\ UNCHANGED <<row, audit>>
      BY <2>2 DEF queue_invoice_insert
    <3>2. ASSUME job' = [job EXCEPT ![c] = Idle] PROVE K
      BY <1>4, <1>6, <2>1, <3>2, JobExists DEF J, Idle
    <3>3. ASSUME CommitRow(i, job[c].obj, {"invoice.queued"}),
                 job' = [job EXCEPT ![c].pc = "refresh", ![c].inv = i]
          PROVE  K
      <4>1. job[c] \in Job /\ job[c].obj.status = "PENDING"
        BY <2>1, <2>2, JobTyped DEF queue_invoice_insert, TypeInv, ProcessShape, Shaped
      <4>2. Exists(i)'
        BY <3>3, <4>1 DEF CommitRow, Exists, TypeInv, TypeOK, InvoiceTableTypeOK
      <4>3. job'[c].inv = i /\ \A q \in Runners \ {c} : job'[q] = job[q]
        BY <2>1, <3>3, <4>1 DEF TypeInv, TypeOK, Job
      <4>4. ASSUME NEW q \in Runners \ {c}, job[q].pc \in HasInvoice PROVE Exists(job[q].inv)'
        BY <1>5, <4>3, <4>4, RowsEvolve DEF Exists
      <4> QED BY <4>2, <4>3, <4>4 DEF K, Exists
    <3> QED BY <1>1, <1>2, <2>2, <3>1, <3>2, <3>3 DEF queue_invoice_insert
  <2>3. CASE queue_invoice_refresh(c)
    <3> DEFINE j == Routed(job[c].inv, row[job[c].inv], job[c].sync)
    <3>1. j.pc \in HasInvoice => Exists(j.inv)
      BY <1>5, <1>6, <2>1, <2>3 DEF queue_invoice_refresh, Routed, Idle, HasInvoice, PC
    <3>2. job' = [job EXCEPT ![c] = j]
      BY <2>3 DEF queue_invoice_refresh
    <3> HIDE DEF j
    <3> QED BY <1>1, <1>2, <1>4, <2>1, <2>3, <3>1, <3>2, JobExists DEF J, queue_invoice_refresh
  <2>4. CASE create_invoice_dispatch(c)
    <3>1. job[c].pc \in HasInvoice
      BY <2>4 DEF create_invoice_dispatch, HasInvoice, PC
    <3>2. Task(c, 0) \in Message /\ Exists(Task(c, 0).inv)
      BY <1>5, <2>1, <3>1, TaskType, BoundsAreNat DEF Task
    <3>3. Q
      BY <2>4, <3>2, QueueExists DEF Q, create_invoice_dispatch
    <3>4. A
      BY <1>5, <2>1, <2>4, <3>1 DEF A, create_invoice_dispatch, RowsExist
    <3>5. J
      BY <1>6, <2>1, <2>4, JobExists DEF J, create_invoice_dispatch, Idle
    <3> QED BY <1>4, <3>3, <3>4, <3>5
  <2> QED BY <1>8, <1>9, <2>1, <2>2, <2>3, <2>4 DEF ClientStep
<1>10. ASSUME NEW w \in Workers, WorkerStep(w) \/ Outage(w) PROVE Q /\ K /\ A
  <2>1. w \in Runners /\ w \notin Clients
    BY WorkerIsNoClient
  <2>2. CASE \E m \in Message : start_task(w, m)
    <3>1. PICK m \in Message : start_task(w, m)
      BY <2>2
    <3>2. Q /\ Exists(m.inv)
      BY <3>1, DeliverExists DEF Q, start_task
    <3>3. Started(m).inv = m.inv /\ job' = [job EXCEPT ![w] = Started(m)]
      BY <3>1 DEF start_task, Started, Idle
    <3> QED BY <1>2, <1>4, <2>1, <3>1, <3>2, <3>3, JobExists DEF J, start_task
  <2>3. CASE autoretry(w)
    <3>1. job[w].pc \in HasInvoice /\ job[w].retries + 1 \in 0 .. MaxRetries
      BY <2>1, <2>3, JobTyped, BoundsAreNat
         DEF autoretry, TypeInv, ProcessShape, Shaped, Job, HasInvoice, PC
    <3>2. Task(w, job[w].retries + 1) \in Message /\ Exists(Task(w, job[w].retries + 1).inv)
      BY <1>5, <2>1, <3>1, TaskType DEF Task
    <3>3. Leave(w, "ack")
      BY <2>1, <2>3 DEF autoretry, Leave
    <3> QED BY <1>2, <1>4, <2>1, <2>3, <3>1, <3>2, <3>3, QueueExists, LeaveExists DEF Q, J, autoretry
  <2>4. CASE on_failure_commit(w)
    <3>1. Leave(w, "ack") /\ job[w].pc \in HasInvoice
      BY <2>1, <2>4 DEF on_failure_commit, Leave, HasInvoice, PC
    <3> QED BY <1>1, <1>2, <1>4, <2>1, <2>4, <3>1, LeaveExists DEF J, on_failure_commit
  <2>5. CASE acknowledge(w)
    BY <1>1, <1>2, <1>4, <1>6, <2>1, <2>5, JobExists DEF J, acknowledge, Idle
  <2>6. CASE db_outage(w)
    <3>1. CASE \E pc : job[w].pc \in HasInvoice /\ Leave(w, pc) /\ UNCHANGED queue
      BY <1>1, <1>2, <1>4, <2>1, <2>6, <3>1, LeaveExists DEF J, db_outage
    <3>2. CASE \E m \in Message :
                  /\ Deliver(m)
                  /\ job' = [job EXCEPT ![w] = [Started(m) EXCEPT !.pc = "failed", !.obj = NoRow]]
      <4>1. PICK m \in Message :
                  /\ Deliver(m)
                  /\ job' = [job EXCEPT ![w] = [Started(m) EXCEPT !.pc = "failed", !.obj = NoRow]]
        BY <3>2
      <4> DEFINE j == [Started(m) EXCEPT !.pc = "failed", !.obj = NoRow]
      <4>2. j.inv = m.inv
        BY DEF Started, Idle
      <4>3. job' = [job EXCEPT ![w] = j]
        BY <4>1
      <4> HIDE DEF j
      <4>4. Q /\ J
        BY <2>1, <4>1, <4>2, <4>3, DeliverExists, JobExists DEF Q, J
      <4> QED BY <1>2, <1>4, <2>6, <4>4 DEF db_outage
    <3>3. ASSUME job[w].pc \in {"loaded", "called", "failed", "dlq"},
                 job' = [job EXCEPT ![w] = Holding(w, IF job[w].pc \in {"failed", "dlq"}
                                                     THEN "ack" ELSE "failed")]
          PROVE  \E pc : job[w].pc \in HasInvoice /\ Leave(w, pc)
      BY <2>1, <3>3 DEF Leave, HasInvoice, PC
    <3> QED BY <2>6, <3>1, <3>2, <3>3 DEF db_outage
  <2>7. CASE on_failure_load(w)
    <3> DEFINE j == [Holding(w, "dlq") EXCEPT !.obj = row[job[w].inv]]
    <3>1. j.inv = job[w].inv /\ job[w].pc \in HasInvoice
      BY <2>7 DEF on_failure_load, Holding, Idle, HasInvoice, PC
    <3>2. job' = [job EXCEPT ![w] = j]
      BY <2>7 DEF on_failure_load
    <3> HIDE DEF j
    <3> QED BY <1>1, <1>2, <1>4, <1>5, <2>1, <2>7, <3>1, <3>2, JobExists DEF J, on_failure_load
  <2>8. CASE refresh_outage(w)
    <3>1. /\ Leave(w, "failed") /\ job[w].pc = "called"
          /\ UNCHANGED <<queue, accepted>>
      BY <2>8 DEF refresh_outage, StoresCertification, StoresAnnulment
    <3> QED BY <1>1, <1>2, <1>4, <2>1, <3>1, LeaveExists DEF J, HasInvoice, PC
  <2>9. CASE broker_outage(w)
    BY <1>1, <1>2, <1>4, <1>6, <2>1, <2>9, JobExists DEF J, broker_outage, Idle
  <2> QED BY <1>8, <1>10, <2>1, <2>2, <2>3, <2>4, <2>5, <2>6, <2>7, <2>8, <2>9 DEF WorkerStep, Outage
<1>11. ASSUME NEW r \in Runners, crash(r) PROVE Q /\ K /\ A
  <2>1. J
    BY <1>6, <1>11, JobExists DEF J, crash, Idle
  <2>2. CASE r \in Workers /\ Publish(Task(r, job[r].retries))
    <3>1. job[r].pc \in HasInvoice /\ job[r].retries \in 0 .. MaxRetries
      BY <1>11, <2>2, JobTyped, WorkerIsNoClient
         DEF crash, TypeInv, ProcessShape, Shaped, Job, HasInvoice
    <3>2. Task(r, job[r].retries) \in Message /\ Exists(Task(r, job[r].retries).inv)
      BY <1>5, <3>1, TaskType DEF Task
    <3> QED BY <1>2, <1>4, <1>11, <2>1, <2>2, <3>2, QueueExists DEF Q, crash
  <2>3. CASE UNCHANGED queue
    BY <1>1, <1>2, <1>4, <1>11, <2>1, <2>3 DEF crash
  <2> QED BY <1>11, <2>2, <2>3 DEF crash
<1>12. ASSUME UNCHANGED vars PROVE Q /\ K /\ A
  BY <1>1, <1>2, <1>3, <1>4, <1>12 DEF vars
<1>13. ASSUME rest PROVE Q /\ K /\ A
  BY <1>12, <1>13 DEF rest
<1> QED BY <1>7, <1>9, <1>10, <1>11, <1>12, <1>13 DEF Next, Q, K, A

\* RowsExist is preserved: nothing refers to a row that is not there.
LEMMA RowsStep == TypeInv /\ RowsExist /\ [Next]_vars => RowsExist'
<1> SUFFICES ASSUME TypeInv, RowsExist, [Next]_vars PROVE RowsExist'
  OBVIOUS
<1>1. \A m \in Message : queue'[m] > 0 => Exists(m.inv)'
  BY ReferencesStep, RowsEvolve DEF Message
<1>2. \A i \in accepted' : Exists(i)'
  BY ReferencesStep, RowsEvolve, StepType DEF TypeInv, TypeOK
<1>3. \A i \in Invoices : ~Exists(i)' => row'[i] = NoRow
  BY AbsentStep
<1> QED BY <1>1, <1>2, <1>3, ReferencesStep DEF RowsExist
-----------------------------------------------------------------------------
(* What a step may do to a process, and to the documents. *)

\* SAT never takes a document back, nor an annulment.
LEMMA LedgerGrows ==
    ASSUME TypeInv, [Next]_vars
    PROVE  /\ \A u \in Uuids : issued[u] # None => issued'[u] = issued[u]
           /\ voided \subseteq voided'
           /\ \A i \in Invoices : Documents(i) \subseteq Documents(i)'
<1>1. \/ UNCHANGED <<issued, voided>>
      \/ \E u \in Uuids, i \in Invoices : Issue(u, i)
      \/ \E u \in Uuids : Void(u)
  <2>1. ASSUME NEW r \in Runners, Progress(r)
        PROVE  \/ UNCHANGED <<issued, voided>>
               \/ \E u \in Uuids, i \in Invoices : Issue(u, i)
               \/ \E u \in Uuids : Void(u)
    <3>1. job[r].pc = "loaded" => job[r].inv \in Invoices
      BY DEF TypeInv, ProcessShape, Shaped, HasInvoice, PC
    <3>2. job[r].pc = "loaded" /\ job[r].op = "annul" => job[r].obj.uuid \in Uuids
      BY JobTyped DEF TypeInv, ProcessShape, Shaped, Annullable, Job, Row
    <3>3. CASE certify_now_call(r)
      BY <3>1, <3>3 DEF certify_now_call
    <3>4. CASE annul_now_call(r)
      BY <3>2, <3>4 DEF annul_now_call
    <3> QED BY <2>1, <3>3, <3>4 DEF Progress, call_misconfigured, certify_now_commit,
                                    annul_now_commit, StoresCertification, StoresAnnulment,
                                    session_rollback
  <2> QED BY <2>1 DEF Next, Request, ClientStep, WorkerStep, Runners, queue_invoice_select,
                      annul_invoice, queue_invoice_insert, queue_invoice_refresh,
                      create_invoice_dispatch, start_task, autoretry, on_failure_load,
                      on_failure_commit, acknowledge, Outage, db_outage, refresh_outage,
                      broker_outage, StoresCertification, StoresAnnulment, crash, rest, vars
<1>2. issued \in [Uuids -> Invoices \cup {None}]
  BY DEF TypeInv, TypeOK, SatLedgerTypeOK
<1>3. (\A u \in Uuids : issued[u] # None => issued'[u] = issued[u]) /\ voided \subseteq voided'
  BY <1>1, <1>2 DEF Issue, Void
<1> QED BY <1>3, NoneIsNoValue DEF Documents

\* A process that is about to call the provider has just read its row, and one
\* that has just called it has an answer backed by what SAT did.
JobEvolves(q) ==
    \/ job'[q] = job[q]
    \/ job'[q].pc \notin {"loaded", "called", "dlq"}
    \/ /\ job'[q].pc \in {"loaded", "dlq"}
       /\ job'[q].obj = row[job'[q].inv]
       /\ UNCHANGED <<row, issued, voided>>
    \/ /\ job[q].pc = "loaded" /\ job'[q].pc = "called"
       /\ job'[q].op = job[q].op /\ job'[q].inv = job[q].inv /\ job'[q].obj = job[q].obj
       /\ UNCHANGED row
       /\ job[q].op = "certify" /\ job'[q].answer = "ok" =>
             \E u \in Uuids : Issue(u, job[q].inv) /\ job'[q].got \in {u, None, Blank}
       /\ job[q].op = "annul" /\ job'[q].answer = "ok" => Void(job[q].obj.uuid)

\* A step that gives one process a record leaves the others theirs.
LEMMA OneJob ==
    ASSUME TypeInv, NEW r \in Runners, NEW j, job' = [job EXCEPT ![r] = j]
    PROVE  job'[r] = j /\ \A q \in Runners \ {r} : job'[q] = job[q]
BY DEF TypeInv, TypeOK

\* A process that stops, finishes or fails its run evolves.
LEMMA StoppedEvolves ==
    ASSUME TypeInv, NEW r \in Runners, NEW j, job' = [job EXCEPT ![r] = j],
           j.pc \notin {"loaded", "called", "dlq"}
    PROVE  \A q \in Runners : JobEvolves(q)
BY OneJob DEF JobEvolves

\* A process that loads its row evolves.
LEMMA LoadedEvolves ==
    ASSUME TypeInv, NEW r \in Runners, NEW j, job' = [job EXCEPT ![r] = j],
           j.pc \in {"loaded", "dlq"} => j.obj = row[j.inv], j.pc # "called",
           UNCHANGED <<row, issued, voided>>
    PROVE  \A q \in Runners : JobEvolves(q)
BY OneJob DEF JobEvolves

\* A process that ends its run evolves.
LEMMA LeaveEvolves ==
    ASSUME TypeInv, NEW r \in Runners, NEW pc \in {"ack", "retry", "failed"}, Leave(r, pc)
    PROVE  \A q \in Runners : JobEvolves(q)
<1> DEFINE j == IF r \in Clients THEN Idle ELSE Holding(r, pc)
<1>1. job' = [job EXCEPT ![r] = j] /\ j.pc \notin {"loaded", "called", "dlq"}
  BY DEF Leave, Holding, Idle
<1> HIDE DEF j
<1> QED BY <1>1, StoppedEvolves

\* A process that gets an answer evolves: SAT did what it says.
LEMMA AnsweredEvolves ==
    ASSUME TypeInv, NEW r \in Runners, job[r].pc = "loaded", NEW a, NEW u, Answered(r, a, u),
           UNCHANGED row,
           job[r].op = "certify" /\ a = "ok" =>
              \E v \in Uuids : Issue(v, job[r].inv) /\ u \in {v, None, Blank},
           job[r].op = "annul" /\ a = "ok" => Void(job[r].obj.uuid)
    PROVE  \A q \in Runners : JobEvolves(q)
<1> DEFINE j == [job[r] EXCEPT !.pc = "called", !.answer = a, !.got = u]
<1>1. job[r] \in Job
  BY JobTyped DEF TypeInv
<1>2. job' = [job EXCEPT ![r] = j]
  BY <1>1 DEF Answered, TypeInv, TypeOK, Job
<1>3. /\ j.pc = "called" /\ j.answer = a /\ j.got = u
      /\ j.op = job[r].op /\ j.inv = job[r].inv /\ j.obj = job[r].obj
  BY <1>1 DEF Job
<1> HIDE DEF j
<1> QED BY <1>2, <1>3, OneJob DEF JobEvolves

\* A step of certify_now or annul_now lets every process evolve.
LEMMA ProgressEvolves ==
    ASSUME TypeInv, NEW r \in Runners, Progress(r) PROVE \A q \in Runners : JobEvolves(q)
<1>1. CASE call_misconfigured(r)
  BY <1>1, AnsweredEvolves DEF call_misconfigured
<1>2. CASE certify_now_call(r)
  <2>1. PICK a, u : /\ Answered(r, a, u)
                    /\ a = "ok" => \E v \in Uuids : Issue(v, job[r].inv) /\ u \in {v, None, Blank}
    <3>1. CASE \E reply \in CertifyReplies \cap Doing, v \in Uuids :
                  /\ Issue(v, job[r].inv)
                  /\ \E got \in UuidRead(reply, v) : Answered(r, AnswerTo(reply), got)
      <4>1. PICK reply \in CertifyReplies \cap Doing, v \in Uuids :
               /\ Issue(v, job[r].inv)
               /\ \E got \in UuidRead(reply, v) : Answered(r, AnswerTo(reply), got)
        BY <3>1
      <4>2. UuidRead(reply, v) \subseteq {v, None, Blank}
        BY DEF UuidRead
      <4> QED BY <4>1, <4>2
    <3>2. CASE \E reply \in CertifyReplies \ Doing : Answered(r, AnswerTo(reply), None)
      <4>1. PICK reply \in CertifyReplies \ Doing : Answered(r, AnswerTo(reply), None)
        BY <3>2
      <4>2. AnswerTo(reply) # "ok"
        BY EnvironmentAssumption DEF Reply, Doing, AnswerTo
      <4> QED BY <4>1, <4>2
    <3> QED BY <1>2, <3>1, <3>2 DEF certify_now_call
  <2> QED BY <1>2, <2>1, AnsweredEvolves DEF certify_now_call
<1>3. CASE annul_now_call(r)
  <2>1. PICK reply \in AnnulReplies :
           /\ Answered(r, AnswerTo(reply), None)
           /\ Void(job[r].obj.uuid) \/ reply \notin Doing
    BY <1>3 DEF annul_now_call
  <2>2. AnswerTo(reply) = "ok" => Void(job[r].obj.uuid)
    BY <2>1, EnvironmentAssumption DEF Reply, Doing, AnswerTo
  <2> QED BY <1>3, <2>1, <2>2, AnsweredEvolves DEF annul_now_call
<1>4. CASE certify_now_commit(r) \/ annul_now_commit(r) \/ session_rollback(r)
  BY <1>4, AfterType, LeaveEvolves
     DEF certify_now_commit, annul_now_commit, StoresCertification, StoresAnnulment,
         session_rollback
<1> QED BY <1>1, <1>2, <1>3, <1>4 DEF Progress

\* So does every step of the system.
LEMMA JobStep ==
    ASSUME TypeInv, [Next]_vars PROVE \A q \in Runners : JobEvolves(q)
<1> DEFINE Goal == \A q \in Runners : JobEvolves(q)
<1>1. UNCHANGED job => Goal
  BY DEF JobEvolves
<1>2. Clients \subseteq Runners /\ Workers \subseteq Runners
  BY DEF Runners
<1> HIDE DEF Goal
<1>3. ASSUME NEW c \in Clients, Request(c) PROVE Goal
  <2>1. ASSUME NEW t \in Tenants, NEW ref \in Refs, NEW sync \in BOOLEAN,
               queue_invoice_select(c, t, ref, sync)
        PROVE  Goal
    <3>1. PICK j : /\ job' = [job EXCEPT ![c] = j]
                   /\ \/ j.pc = "insert"
                      \/ \E i \in ActiveRows(t, ref) : j = Routed(i, row[i], sync)
      BY <2>1, SelectRecord
    <3>2. ASSUME NEW i PROVE /\ Routed(i, row[i], sync).pc \notin {"called", "dlq"}
                             /\ Routed(i, row[i], sync).obj = row[i] \/ Routed(i, row[i], sync) = Idle
                             /\ Routed(i, row[i], sync).inv = i \/ Routed(i, row[i], sync) = Idle
      BY DEF Routed, Idle
    <3>3. j.pc # "called" /\ (j.pc \in {"loaded", "dlq"} => j.obj = row[j.inv])
      BY <3>1, <3>2 DEF Idle
    <3> QED BY <1>2, <2>1, <3>1, <3>3, LoadedEvolves DEF Goal, queue_invoice_select
  <2>2. ASSUME NEW t \in Tenants, NEW i \in Invoices, NEW sync \in BOOLEAN,
               annul_invoice(c, t, i, sync)
        PROVE  Goal
    <3> DEFINE j == [Idle EXCEPT !.pc = "loaded", !.op = "annul", !.inv = i, !.obj = row[i]]
    <3>1. UNCHANGED job \/ job' = [job EXCEPT ![c] = j]
      BY <2>2 DEF annul_invoice
    <3>2. j.pc = "loaded" /\ j.obj = row[j.inv]
      BY DEF Idle
    <3> HIDE DEF j
    <3> QED BY <1>1, <1>2, <2>2, <3>1, <3>2, LoadedEvolves DEF Goal, annul_invoice
  <2> QED BY <1>3, <2>1, <2>2, EnvironmentAssumption DEF Request
<1>4. ASSUME NEW c \in Clients, ClientStep(c) PROVE Goal
  <2>1. CASE queue_invoice_insert(c)
    <3>1. job[c] \in Job
      BY <1>2, JobTyped DEF TypeInv
    <3>2. PICK i \in Invoices : \/ job' = [job EXCEPT ![c].pc = "refresh", ![c].inv = i]
                                \/ job' = [job EXCEPT ![c] = Idle]
      BY <2>1 DEF queue_invoice_insert
    <3> DEFINE j == [job[c] EXCEPT !.pc = "refresh", !.inv = i]
    <3>3. job' = [job EXCEPT ![c] = j] \/ job' = [job EXCEPT ![c] = Idle]
      BY <1>2, <3>1, <3>2 DEF TypeInv, TypeOK, Job
    <3>4. j.pc = "refresh" /\ Idle.pc = "idle"
      BY <3>1 DEF Job, Idle
    <3> HIDE DEF j
    <3> QED BY <1>2, <3>3, <3>4, StoppedEvolves DEF Goal
  <2>2. CASE queue_invoice_refresh(c)
    <3> DEFINE j == Routed(job[c].inv, row[job[c].inv], job[c].sync)
    <3>1. j.pc # "called" /\ (j.pc \in {"loaded", "dlq"} => j.obj = row[j.inv])
      BY DEF Routed, Idle
    <3> HIDE DEF j
    <3>2. job' = [job EXCEPT ![c] = j]
      BY <2>2 DEF j, queue_invoice_refresh
    <3> QED BY <1>2, <2>2, <3>1, <3>2, LoadedEvolves DEF Goal, queue_invoice_refresh
  <2>3. CASE create_invoice_dispatch(c)
    BY <1>2, <2>3, StoppedEvolves DEF Goal, create_invoice_dispatch, Idle
  <2> QED BY <1>2, <1>4, <2>1, <2>2, <2>3, ProgressEvolves DEF Goal, ClientStep
<1>5. ASSUME NEW w \in Workers, WorkerStep(w) PROVE Goal
  <2>1. ASSUME NEW m \in Message, start_task(w, m) PROVE Goal
    <3>1. /\ Started(m).pc \notin {"called", "dlq"}
          /\ Started(m).pc = "loaded" => Started(m).obj = row[Started(m).inv]
      BY DEF Started, Idle
    <3> QED BY <1>2, <2>1, <3>1, LoadedEvolves DEF Goal, start_task
  <2>2. CASE autoretry(w) \/ on_failure_commit(w)
    <3>1. Leave(w, "ack")
      BY <2>2, WorkerIsNoClient DEF autoretry, on_failure_commit, Leave
    <3> QED BY <1>2, <3>1, LeaveEvolves DEF Goal
  <2>3. CASE acknowledge(w)
    BY <1>2, <2>3, StoppedEvolves DEF Goal, acknowledge, Idle
  <2>4. CASE on_failure_load(w)
    <3> DEFINE j == [Holding(w, "dlq") EXCEPT !.obj = row[job[w].inv]]
    <3>1. j.pc = "dlq" /\ j.obj = row[j.inv]
      BY DEF Holding, Idle
    <3>2. job' = [job EXCEPT ![w] = j]
      BY <2>4 DEF on_failure_load
    <3> HIDE DEF j
    <3> QED BY <1>2, <2>4, <3>1, <3>2, LoadedEvolves DEF Goal, on_failure_load
  <2> QED BY <1>2, <1>5, <2>1, <2>2, <2>3, <2>4, ProgressEvolves DEF Goal, WorkerStep
<1>6. ASSUME NEW w \in Workers, db_outage(w) PROVE Goal
  <2>1. PICK j : /\ job' = [job EXCEPT ![w] = j]
                 /\ \/ \E pc \in {"ack", "failed"} : j = Holding(w, pc)
                    \/ \E m \in Message : j = [Started(m) EXCEPT !.pc = "failed", !.obj = NoRow]
    <3>1. \/ job' = [job EXCEPT ![w] =
                       Holding(w, IF job[w].pc \in {"failed", "dlq"} THEN "ack" ELSE "failed")]
          \/ \E m \in Message :
                job' = [job EXCEPT ![w] = [Started(m) EXCEPT !.pc = "failed", !.obj = NoRow]]
      BY <1>6 DEF db_outage
    <3> QED BY <3>1
  <2>2. j.pc \in {"ack", "failed"}
    BY <2>1 DEF Holding, Started, Idle
  <2> QED BY <1>2, <2>1, <2>2, StoppedEvolves DEF Goal
<1>7. ASSUME NEW r \in Runners, crash(r) PROVE Goal
  BY <1>7, StoppedEvolves DEF Goal, crash, Idle
<1>8. UNCHANGED vars \/ rest => Goal
  BY <1>1 DEF vars, rest
<1>9. ASSUME NEW w \in Workers, refresh_outage(w) PROVE Goal
  BY <1>2, <1>9, LeaveEvolves DEF Goal, refresh_outage
<1>10. ASSUME NEW w \in Workers, broker_outage(w) PROVE Goal
  BY <1>2, <1>10, StoppedEvolves DEF Goal, broker_outage, Idle
<1> QED BY <1>3, <1>4, <1>5, <1>6, <1>7, <1>8, <1>9, <1>10 DEF Next, Outage, Goal
-----------------------------------------------------------------------------
(* The table and SAT. *)

\* How a step may change what row i says of SAT: not at all, to something that
\* claims nothing new, or as a process that has SAT's word for it commits.
RowEvolves(i) ==
    \/ row'[i].status = row[i].status /\ row'[i].uuid = row[i].uuid
    \/ row'[i].status \in {"PENDING", "REJECTED"} /\ row'[i].uuid \in {row[i].uuid, None}
    \/ \E r \in Runners :
          /\ job[r].pc = "called" /\ job[r].inv = i /\ job[r].answer = "ok"
          /\ \/ /\ job[r].op = "certify"
                /\ row'[i].status \in {row[i].status, "CERTIFIED"}
                /\ row'[i].uuid \in {row[i].uuid, job[r].got}
             \/ /\ job[r].op = "annul"
                /\ row'[i].status \in {row[i].status, "ANNULLED"}
                /\ row'[i].uuid = row[i].uuid

\* A commit changes its own row and no other.
LEMMA CommitEvolves ==
    ASSUME TypeInv, NEW k \in Invoices, NEW s \in Row, NEW E, CommitRow(k, s, E), NEW i \in Invoices
    PROVE  row'[i] = IF i = k THEN s ELSE row[i]
BY DEF TypeInv, TypeOK, InvoiceTableTypeOK, CommitRow

\* A run's commit makes its row say what the answer says, or nothing new.
LEMMA SavedEvolves ==
    ASSUME TypeInv, NEW r \in Runners, job[r].pc = "called", NEW E,
           CommitRow(job[r].inv, Saved(r), E), NEW i \in Invoices
    PROVE  RowEvolves(i)
<1>1. job[r].inv \in Invoices /\ Saved(r) \in Row
  BY SavedType DEF TypeInv, ProcessShape, Shaped, HasInvoice, PC
<1>2. row'[i] = IF i = job[r].inv THEN Saved(r) ELSE row[i]
  BY <1>1, CommitEvolves
<1> QED BY <1>2, SavedFields DEF RowEvolves

\* Every row evolves in every step.
LEMMA MirrorStep ==
    ASSUME TypeInv, [Next]_vars, NEW i \in Invoices PROVE RowEvolves(i)
<1>1. UNCHANGED row => RowEvolves(i)
  BY DEF RowEvolves
<1>2. ASSUME NEW c \in Clients, queue_invoice_insert(c) PROVE RowEvolves(i)
  <2>1. PICK k \in Invoices : UNCHANGED row \/ CommitRow(k, job[c].obj, {"invoice.queued"})
    BY <1>2 DEF queue_invoice_insert
  <2>2. job[c].obj \in Row /\ job[c].obj.status = "PENDING" /\ job[c].obj.uuid = None
    BY <1>2, JobTyped DEF queue_invoice_insert, TypeInv, ProcessShape, Shaped, Job, Runners
  <2> QED BY <1>1, <2>1, <2>2, CommitEvolves DEF RowEvolves
<1>3. ASSUME NEW w \in Workers, on_failure_commit(w) PROVE RowEvolves(i)
  <2>1. /\ job[w].pc = "dlq"
        /\ UNCHANGED row \/ CommitRow(job[w].inv, Dead(w), {"invoice.dlq"})
    BY <1>3 DEF on_failure_commit
  <2>2. job[w].inv \in Invoices /\ Dead(w) \in Row
    BY <2>1, DeadType
  <2> QED BY <1>1, <2>1, <2>2, DeadFields, CommitEvolves DEF RowEvolves
<1>4. ASSUME NEW r \in Runners, Progress(r) PROVE RowEvolves(i)
  BY <1>1, <1>4, SavedEvolves DEF Progress, call_misconfigured, certify_now_call, annul_now_call,
                                  certify_now_commit, annul_now_commit, StoresCertification,
                                  StoresAnnulment, session_rollback
<1>5. ASSUME NEW w \in Workers, Outage(w) PROVE RowEvolves(i)
  BY <1>1, <1>5, SavedEvolves DEF Outage, Runners, db_outage, refresh_outage, broker_outage,
                                  StoresCertification, StoresAnnulment
<1> QED BY <1>1, <1>2, <1>3, <1>4, <1>5
        DEF Next, Request, ClientStep, WorkerStep, Runners, queue_invoice_select, annul_invoice,
            queue_invoice_refresh, create_invoice_dispatch, start_task, autoretry,
            on_failure_load, acknowledge, crash, rest, vars

LedgerInv == MirrorAuthentic /\ StatusBackedBySat /\ AnswersBacked

\* At the start no row says anything of SAT.
LEMMA InitLedger == Init => LedgerInv
BY NoneIsNoValue DEF Init, InvoiceTableInit, SatLedgerInit, LedgerInv, MirrorAuthentic,
       StatusBackedBySat, AnswersBacked, Backed, NoRow, Idle, Exists

\* A committed uuid is one SAT issued for that row.
LEMMA MirrorAuthenticStep ==
    ASSUME TypeInv, LedgerInv, [Next]_vars PROVE MirrorAuthentic'
<1> SUFFICES ASSUME NEW i \in Invoices, row'[i].uuid \in Uuids PROVE issued'[row'[i].uuid] = i
  BY DEF MirrorAuthentic
<1>1. issued[row'[i].uuid] = i
  BY MirrorStep, NoneIsNoValue DEF RowEvolves, LedgerInv, MirrorAuthentic, AnswersBacked, Backed
<1> QED BY <1>1, LedgerGrows, NoneIsNoValue

\* A committed status is one SAT has acted on.
LEMMA StatusBackedStep ==
    ASSUME TypeInv, LedgerInv, [Next]_vars PROVE StatusBackedBySat'
<1> SUFFICES ASSUME NEW i \in Invoices
             PROVE  /\ row'[i].status = "CERTIFIED" => Documents(i)' # {}
                    /\ row'[i].status = "ANNULLED" => Documents(i)' \cap voided' # {}
  BY DEF StatusBackedBySat, Documents
<1>1. Documents(i) \subseteq Documents(i)' /\ voided \subseteq voided'
  BY LedgerGrows
<1>2. row'[i].status = "CERTIFIED" => Documents(i) # {}
  BY MirrorStep DEF RowEvolves, LedgerInv, StatusBackedBySat, AnswersBacked, Backed
<1>3. row'[i].status = "ANNULLED" => Documents(i) \cap voided # {}
  <2>1. ASSUME NEW r \in Runners, job[r].pc = "called", job[r].inv = i, job[r].answer = "ok",
               job[r].op = "annul"
        PROVE  Documents(i) \cap voided # {}
    <3>1. job[r].obj.uuid \in Uuids
      BY <2>1, JobTyped DEF TypeInv, ProcessShape, Shaped, Annullable, Job, Row
    <3>2. issued[job[r].obj.uuid] = i /\ job[r].obj.uuid \in voided
      BY <2>1 DEF LedgerInv, AnswersBacked, Backed
    <3> QED BY <3>1, <3>2 DEF Documents
  <2> QED BY <2>1, MirrorStep DEF RowEvolves, LedgerInv, StatusBackedBySat
<1> QED BY <1>1, <1>2, <1>3

\* What a process holds in its hands stays backed: SAT's record only grows.
LEMMA AnswersBackedStep ==
    ASSUME TypeInv, RowsExist, LedgerInv, [Next]_vars PROVE AnswersBacked'
<1> SUFFICES ASSUME NEW r \in Runners PROVE Backed(job[r])'
  BY DEF AnswersBacked
<1>1. TypeInv'
  BY StepType
<1>2. JobEvolves(r)
  BY JobStep
<1>3. CASE job'[r] = job[r]
  <2>1. Backed(job[r])
    BY DEF LedgerInv, AnswersBacked
  <2>2. job[r].pc \in {"loaded", "called"} => job[r].inv \in Invoices
    BY DEF TypeInv, ProcessShape, Shaped, HasInvoice, PC
  <2>3. job[r] \in Job
    BY JobTyped DEF TypeInv
  <2>4. job[r].pc \in {"loaded", "called"} /\ job[r].op = "annul" => job[r].obj.uuid \in Uuids
    BY <2>3 DEF TypeInv, ProcessShape, Shaped, Annullable, Job, Row
  <2> QED BY <1>3, <2>1, <2>2, <2>4, LedgerGrows, NoneIsNoValue DEF Backed
<1>4. CASE job'[r].pc \notin {"loaded", "called", "dlq"}
  BY <1>4 DEF Backed
<1>5. CASE /\ job'[r].pc \in {"loaded", "dlq"}
           /\ job'[r].obj = row[job'[r].inv]
           /\ UNCHANGED <<row, issued, voided>>
  <2>1. job'[r].inv \in Invoices /\ job'[r].obj \in Row
    BY <1>1, <1>5, JobTyped DEF TypeInv, TypeOK, ProcessShape, Shaped, HasInvoice, PC, Job
  <2>2. job'[r].pc = "loaded" /\ job'[r].op = "annul" => job'[r].obj.uuid \in Uuids
    BY <1>1, <1>5, <2>1 DEF TypeInv, ProcessShape, Shaped, Annullable, Row
  <2> QED BY <1>5, <2>1, <2>2 DEF Backed, LedgerInv, MirrorAuthentic
<1>6. CASE /\ job[r].pc = "loaded" /\ job'[r].pc = "called"
           /\ job'[r].op = job[r].op /\ job'[r].inv = job[r].inv /\ job'[r].obj = job[r].obj
           /\ job[r].op = "certify" /\ job'[r].answer = "ok" =>
                 \E u \in Uuids : Issue(u, job[r].inv) /\ job'[r].got \in {u, None, Blank}
           /\ job[r].op = "annul" /\ job'[r].answer = "ok" => Void(job[r].obj.uuid)
  <2>1. job[r].inv \in Invoices /\ job[r] \in Job
    BY <1>6, JobTyped DEF TypeInv, ProcessShape, Shaped, HasInvoice, PC
  <2>2. issued \in [Uuids -> Invoices \cup {None}]
    BY DEF TypeInv, TypeOK, SatLedgerTypeOK
  <2>3. CASE job[r].op = "certify"
    <3>1. ASSUME NEW u \in Uuids, Issue(u, job[r].inv)
          PROVE  issued'[u] = job[r].inv /\ Documents(job[r].inv)' # {}
      BY <1>6, <2>2, <3>1 DEF Issue, Documents
    <3> QED BY <1>6, <2>3, <3>1, NoneIsNoValue, BlankIsNoUuid DEF Backed
  <2>4. CASE job[r].op = "annul"
    <3>1. job[r].obj.uuid \in Uuids /\ issued[job[r].obj.uuid] = job[r].inv
      BY <1>6, <2>1, <2>4 DEF TypeInv, ProcessShape, Shaped, Annullable, Job, Row, LedgerInv,
                                  AnswersBacked, Backed
    <3>2. issued'[job[r].obj.uuid] = job[r].inv
      BY <2>1, <3>1, LedgerGrows, NoneIsNoValue
    <3> QED BY <1>6, <2>4, <3>2 DEF Backed, Void
  <2> QED BY <2>1, <2>3, <2>4 DEF Job, Op
<1> QED BY <1>2, <1>3, <1>4, <1>5, <1>6 DEF JobEvolves

\* No process loads an object ahead of its row, and no row falls behind.
LEMMA NeverAheadStep ==
    ASSUME TypeInv, RowsExist, NeverAhead, [Next]_vars PROVE NeverAhead'
<1> SUFFICES ASSUME NEW r \in Runners, job'[r].pc \in {"loaded", "called", "dlq"},
                    row'[job'[r].inv].status = "PENDING"
             PROVE  job'[r].obj.status = "PENDING"
  BY DEF NeverAhead
<1>1. job[r].pc \in {"loaded", "called", "dlq"} => job[r].inv \in Invoices /\ Exists(job[r].inv)
  BY DEF TypeInv, ProcessShape, Shaped, RowsExist, HasInvoice, PC
<1>2. job[r].pc \in {"loaded", "called", "dlq"} /\ job'[r].inv = job[r].inv =>
         job[r].obj.status = "PENDING"
  BY <1>1, RowsEvolve DEF NeverAhead
<1> QED BY <1>2, JobStep DEF JobEvolves
-----------------------------------------------------------------------------
(* Accepted invoices are not lost. *)

\* Without an outage, a message leaves the queue only into a worker's hands,
\* and only a worker's own step or crash changes what it has in hand.
LEMMA TasksMove ==
    ASSUME TypeInv, [Next]_vars, UNCHANGED outages
    PROVE  /\ \A m \in Message : \/ queue[m] > 0 => queue'[m] > 0
                                 \/ \E w \in Workers : start_task(w, m)
           /\ \A w \in Workers : job'[w] = job[w] \/ WorkerStep(w) \/ crash(w)
<1> DEFINE Q == \A m \in Message : \/ queue[m] > 0 => queue'[m] > 0
                                   \/ \E w \in Workers : start_task(w, m)
           J(r) == \A w \in Workers \ {r} : job'[w] = job[w]
           W == \A w \in Workers : job'[w] = job[w] \/ WorkerStep(w) \/ crash(w)
<1>1. UNCHANGED queue => Q
  OBVIOUS
<1>2. ASSUME NEW n \in Message, Publish(n) PROVE Q
  BY <1>2 DEF Publish, TypeInv, TypeOK, TaskBrokerTypeOK
<1>3. ASSUME NEW r \in Runners, NEW j, job' = [job EXCEPT ![r] = j] PROVE J(r)
  BY <1>3, OneJob DEF Runners
<1>4. UNCHANGED job => W
  OBVIOUS
<1>5. \A c \in Clients : J(c) => W
  BY ProcessesAreDisjoint
<1>6. Clients \subseteq Runners /\ Workers \subseteq Runners
  BY DEF Runners
<1> HIDE DEF Q, J, W
<1>7. ASSUME NEW r \in Runners, Progress(r) PROVE Q /\ J(r)
  <2>1. UNCHANGED queue
    BY <1>7 DEF Progress, call_misconfigured, certify_now_call, annul_now_call,
                certify_now_commit, annul_now_commit, StoresCertification, StoresAnnulment,
                session_rollback
  <2>2. job[r].pc = "loaded" => \E j : job' = [job EXCEPT ![r] = j]
    <3>1. job[r].pc = "loaded" => \E a, u : Answered(r, a, u)
      BY <1>7 DEF Progress, call_misconfigured, certify_now_call, annul_now_call,
                  certify_now_commit, annul_now_commit, StoresCertification, StoresAnnulment,
                  session_rollback
    <3>2. ASSUME NEW a, NEW u, Answered(r, a, u)
          PROVE  job' = [job EXCEPT ![r] = [job[r] EXCEPT !.pc = "called", !.answer = a, !.got = u]]
      <4>1. job[r] \in Job
        BY JobTyped DEF TypeInv
      <4> QED BY <3>2, <4>1 DEF Answered, TypeInv, TypeOK, Job
    <3> QED BY <3>1, <3>2
  <2>3. job[r].pc = "called" => \E pc : Leave(r, pc)
    BY <1>7 DEF Progress, call_misconfigured, certify_now_call, annul_now_call,
                certify_now_commit, annul_now_commit, session_rollback
  <2>4. job[r].pc \in {"loaded", "called"}
    BY <1>7 DEF Progress, call_misconfigured, certify_now_call, annul_now_call,
                certify_now_commit, annul_now_commit, StoresCertification, StoresAnnulment,
                session_rollback
  <2> QED BY <1>1, <1>3, <2>1, <2>2, <2>3, <2>4 DEF Leave
<1>8. ASSUME NEW c \in Clients, Request(c) PROVE Q /\ W
  <2>1. ASSUME NEW t \in Tenants, NEW ref \in Refs, NEW sync \in BOOLEAN,
               queue_invoice_select(c, t, ref, sync)
        PROVE  Q /\ W
    BY <1>1, <1>3, <1>5, <1>6, <2>1, SelectRecord DEF queue_invoice_select
  <2>2. ASSUME NEW t \in Tenants, NEW i \in Invoices, NEW sync \in BOOLEAN,
               annul_invoice(c, t, i, sync)
        PROVE  Q /\ W
    <3> DEFINE m == [op |-> "annul", inv |-> i, retries |-> 0]
    <3>1. m \in Message
      BY BoundsAreNat DEF Message, Op
    <3>2. \/ UNCHANGED queue /\ \E j : job' = [job EXCEPT ![c] = j]
          \/ Publish(m) /\ UNCHANGED job
      BY <2>2 DEF annul_invoice
    <3> HIDE DEF m
    <3> QED BY <1>1, <1>2, <1>3, <1>4, <1>5, <1>6, <3>1, <3>2
  <2> QED BY <1>8, <2>1, <2>2, EnvironmentAssumption DEF Request
<1>9. ASSUME NEW c \in Clients, ClientStep(c) PROVE Q /\ W
  <2>1. CASE queue_invoice_insert(c)
    <3>1. \E j : job' = [job EXCEPT ![c] = j]
      <4>1. job[c] \in Job
        BY <1>6, JobTyped DEF TypeInv
      <4>2. PICK i \in Invoices : \/ job' = [job EXCEPT ![c].pc = "refresh", ![c].inv = i]
                                  \/ job' = [job EXCEPT ![c] = Idle]
        BY <2>1 DEF queue_invoice_insert
      <4>3. \/ job' = [job EXCEPT ![c] = [job[c] EXCEPT !.pc = "refresh", !.inv = i]]
            \/ job' = [job EXCEPT ![c] = Idle]
        BY <1>6, <4>1, <4>2 DEF TypeInv, TypeOK, Job
      <4> QED BY <4>3
    <3> QED BY <1>1, <1>3, <1>5, <1>6, <2>1, <3>1 DEF queue_invoice_insert
  <2>2. CASE queue_invoice_refresh(c)
    BY <1>1, <1>3, <1>5, <1>6, <2>2 DEF queue_invoice_refresh
  <2>3. CASE create_invoice_dispatch(c)
    <3>1. Task(c, 0) \in Message
      BY <1>6, <2>3, TaskType, BoundsAreNat DEF create_invoice_dispatch, HasInvoice, PC
    <3> QED BY <1>2, <1>3, <1>5, <1>6, <2>3, <3>1 DEF create_invoice_dispatch
  <2> QED BY <1>5, <1>6, <1>7, <1>9, <2>1, <2>2, <2>3 DEF ClientStep
<1>10. ASSUME NEW w \in Workers, WorkerStep(w) PROVE Q /\ J(w)
  <2>1. ASSUME NEW m \in Message, start_task(w, m) PROVE Q /\ J(w)
    <3>1. \A n \in Message \ {m} : queue'[n] = queue[n]
      BY <2>1 DEF start_task, Deliver, TypeInv, TypeOK, TaskBrokerTypeOK
    <3>2. J(w)
      BY <1>3, <1>6, <2>1 DEF start_task
    <3> QED BY <2>1, <3>1, <3>2 DEF Q
  <2>2. CASE autoretry(w)
    <3>1. Task(w, job[w].retries + 1) \in Message
      <4>1. job[w].pc \in HasInvoice /\ job[w].retries + 1 \in 0 .. MaxRetries
        BY <1>6, <2>2, JobTyped, BoundsAreNat
           DEF autoretry, TypeInv, ProcessShape, Shaped, Job, HasInvoice, PC
      <4> QED BY <1>6, <4>1, TaskType
    <3> QED BY <1>2, <1>3, <1>6, <2>2, <3>1 DEF autoretry
  <2>3. CASE on_failure_load(w) \/ on_failure_commit(w) \/ acknowledge(w)
    BY <1>1, <1>3, <1>6, <2>3 DEF on_failure_load, on_failure_commit, acknowledge
  <2> QED BY <1>6, <1>7, <1>10, <2>1, <2>2, <2>3 DEF WorkerStep
<1>11. ASSUME NEW r \in Runners, crash(r) PROVE Q /\ J(r)
  <2>1. CASE r \in Workers /\ Publish(Task(r, job[r].retries))
    <3>1. job[r].pc \in HasInvoice /\ job[r].retries \in 0 .. MaxRetries
      BY <1>11, <2>1, JobTyped, WorkerIsNoClient
         DEF crash, TypeInv, ProcessShape, Shaped, Job, HasInvoice
    <3> QED BY <1>2, <1>3, <1>11, <2>1, <3>1, TaskType DEF crash
  <2>2. CASE UNCHANGED queue
    BY <1>1, <1>3, <1>11, <2>2 DEF crash
  <2> QED BY <1>11, <2>1, <2>2 DEF crash
<1>12. ASSUME NEW w \in Workers, Outage(w) PROVE FALSE
  <2>1. outages' = outages + 1
    BY <1>12 DEF Outage, db_outage, refresh_outage, broker_outage
  <2> QED BY <2>1, BoundsAreNat DEF TypeInv, TypeOK
<1>13. UNCHANGED vars \/ rest => Q /\ W
  BY <1>1, <1>4 DEF vars, rest
<1>14. \A w \in Workers : WorkerStep(w) => W
  BY <1>10 DEF J, W
<1>15. \A r \in Runners : crash(r) => W
  BY <1>11 DEF J, W
<1> QED BY <1>8, <1>9, <1>10, <1>11, <1>12, <1>13, <1>14, <1>15 DEF Next, Q, W

\* What a worker holds comes back as a message or ends in a settled row.
LEMMA InHandStep ==
    ASSUME TypeInv, RowsExist, NeverAhead, NEW i \in Invoices, NEW w \in Workers, InHand(w, i),
           row[i].status = "PENDING", WorkerStep(w) \/ crash(w)
    PROVE  HasTask(i)' \/ row'[i].status # "PENDING" \/ Shadowed(i)'
<1>1. w \in Runners /\ w \notin Clients /\ job[w] \in Job /\ job[w].inv = i /\ job[w].op = "certify"
  BY WorkerIsNoClient, JobTyped DEF TypeInv, InHand
<1>2. job[w].pc \in HasInvoice
  BY <1>1 DEF InHand, TypeInv, ProcessShape, Shaped, Job, HasInvoice
<1>3. ASSUME NEW n \in 0 .. MaxRetries, Publish(Task(w, n)) PROVE HasTask(i)'
  <2> DEFINE m == [op |-> "certify", inv |-> i, retries |-> n]
  <2>1. Task(w, n) = m /\ m \in Message
    BY <1>1, <1>2, TaskType DEF Task
  <2> HIDE DEF m
  <2>2. queue'[m] > 0
    BY <1>3, <2>1 DEF Publish, TypeInv, TypeOK, TaskBrokerTypeOK
  <2> QED BY <2>2 DEF HasTask, Waiting, m
<1>4. ASSUME NEW pc \in {"retry", "failed"}, Leave(w, pc) PROVE HasTask(i)'
  <2>1. job'[w] = Holding(w, pc)
    BY <1>1, <1>4 DEF Leave, TypeInv, TypeOK
  <2>2. InHand(w, i)'
    BY <1>1, <2>1 DEF InHand, Holding, Idle
  <2> QED BY <2>2 DEF HasTask
<1>5. CASE crash(w)
  <2>1. Publish(Task(w, job[w].retries))
    BY <1>1, <1>5 DEF crash
  <2> QED BY <1>1, <1>3, <2>1 DEF Job
<1>6. CASE autoretry(w)
  <2>1. job[w].retries + 1 \in 0 .. MaxRetries
    BY <1>1, <1>6, BoundsAreNat DEF autoretry, TypeInv, ProcessShape, Shaped, Job
  <2> QED BY <1>3, <1>6, <2>1 DEF autoretry
<1>7. CASE on_failure_load(w) \/ on_failure_commit(w)
  <2>1. CASE on_failure_load(w)
    <3>1. job'[w] = [Holding(w, "dlq") EXCEPT !.obj = row[job[w].inv]]
      BY <1>1, <2>1 DEF on_failure_load, TypeInv, TypeOK
    <3>2. InHand(w, i)'
      BY <1>1, <3>1 DEF InHand, Holding, Idle
    <3> QED BY <3>2 DEF HasTask
  <2>2. CASE on_failure_commit(w)
    <3>1. /\ job[w].pc = "dlq"
          /\ \/ CommitRow(i, Dead(w), {"invoice.dlq"})
             \/ ~Admits(i, Dead(w)) /\ UNCHANGED row
      BY <1>1, <2>2 DEF on_failure_commit
    <3>2. job[w].obj.status = "PENDING"
      BY <1>1, <3>1 DEF NeverAhead
    <3>3. /\ Dead(w) \in Row /\ Dead(w).status = "REJECTED"
          /\ Dead(w).ref = row[i].ref /\ Dead(w).tenant = row[i].tenant
      BY <1>1, <3>1, <3>2, DeadType, DeadFields
    <3>4. CASE CommitRow(i, Dead(w), {"invoice.dlq"})
      BY <3>3, <3>4, CommitEvolves
    <3>5. CASE ~Admits(i, Dead(w)) /\ UNCHANGED row
      <4>1. PICK j \in Invoices \ {i} : SameRef(Dead(w), row[j]) /\ row[j].status = "REJECTED"
        BY <3>3, <3>5 DEF Admits
      <4>2. SameRef(row[i], row[j])
        BY <3>3, <4>1 DEF SameRef
      <4> QED BY <3>5, <4>1, <4>2 DEF Shadowed, SameKey, SameRef, Settled
    <3> QED BY <3>1, <3>4, <3>5
  <2> QED BY <1>7, <2>1, <2>2
<1>8. CASE certify_now_commit(w)
  <2>1. /\ job[w].pc = "called" /\ job[w].answer \in Answer \ {"exception"}
        /\ CommitRow(i, Saved(w), CertifyEvent[job[w].answer])
        /\ Leave(w, After(w))
    BY <1>1, <1>8 DEF certify_now_commit, StoresCertification, TypeInv, ProcessShape, Shaped, Job
  <2>2. CASE job[w].answer = "transient"
    BY <1>4, <2>1, <2>2 DEF After
  <2>3. CASE job[w].answer # "transient"
    <3>1. job[w].obj \in Row /\ job[w].obj.status = "PENDING" /\ row[i] \in Row
      BY <1>1, <2>1, RowTyped DEF NeverAhead, Job, TypeInv
    <3>2. Assigned(w).status \in {"CERTIFIED", "REJECTED"}
      BY <1>1, <2>1, <2>3, <3>1 DEF Assigned, Certifying, Answer, Row
    <3>3. Saved(w).status = Assigned(w).status
      BY <1>1, <3>1, <3>2 DEF Saved, Flushed, Row
    <3>4. row'[i] = Saved(w)
      BY <1>1, <2>1, SavedType, CommitEvolves
    <3> QED BY <3>2, <3>3, <3>4
  <2> QED BY <2>2, <2>3
<1>9. CASE session_rollback(w)
  BY <1>4, <1>9 DEF session_rollback
<1>10. CASE call_misconfigured(w) \/ certify_now_call(w)
  <2>1. PICK a, u : Answered(w, a, u)
    BY <1>10 DEF call_misconfigured, certify_now_call
  <2>2. job'[w] = [job[w] EXCEPT !.pc = "called", !.answer = a, !.got = u]
    BY <1>1, <2>1 DEF Answered, TypeInv, TypeOK, Job
  <2>3. InHand(w, i)'
    BY <1>1, <2>2 DEF InHand, Job
  <2> QED BY <2>3 DEF HasTask
<1> QED BY <1>1, <1>2, <1>5, <1>6, <1>7, <1>8, <1>9, <1>10
        DEF WorkerStep, Progress, InHand, start_task, acknowledge, annul_now_call, annul_now_commit,
            StoresAnnulment

\* A waiting message stays, or a worker takes it and finds the row to certify.
LEMMA WaitingStep ==
    ASSUME TypeInv, RowsExist, [Next]_vars, UNCHANGED outages, NEW i \in Invoices, Waiting(i)
    PROVE  HasTask(i)'
<1>1. PICK n \in 0 .. MaxRetries : queue[[op |-> "certify", inv |-> i, retries |-> n]] > 0
  BY DEF Waiting
<1> DEFINE m == [op |-> "certify", inv |-> i, retries |-> n]
<1>2. m \in Message /\ m.op = "certify" /\ m.inv = i
  BY DEF Message, Op
<1>3. CASE queue'[m] > 0
  BY <1>3 DEF HasTask, Waiting
<1>4. ASSUME NEW w \in Workers, start_task(w, m) PROVE HasTask(i)'
  <2> HIDE DEF m
  <2>1. Exists(i)
    BY <1>2, <1>4 DEF start_task, Deliver, RowsExist
  <2>2. job'[w] = Started(m) /\ Worth(m)
    BY <1>2, <1>4, <2>1 DEF start_task, Worth, TypeInv, TypeOK, Runners
  <2>3. InHand(w, i)'
    BY <1>2, <2>2 DEF InHand, Started, Idle
  <2> QED BY <2>3 DEF HasTask
<1> QED BY <1>1, <1>2, <1>3, <1>4, TasksMove

\* A row that is shadowed by a settled one stays so.
LEMMA ShadowedStep ==
    ASSUME TypeInv, RowsExist, [Next]_vars, NEW i \in Invoices, Exists(i), Shadowed(i)
    PROVE  Shadowed(i)'
<1>1. PICK j \in Invoices \ {i} : SameKey(i, j) /\ row[j].status \in Settled
  BY DEF Shadowed
<1>2. Exists(j)
  BY <1>1 DEF Exists, Settled
<1>3. row'[j].status \in Settled /\ SameKey(i, j)'
  BY <1>1, <1>2, RowsEvolve DEF SameKey, SameRef
<1> QED BY <1>3 DEF Shadowed

\* A certify task of an accepted PENDING row is handed on, never lost.
LEMMA AcceptedStep ==
    ASSUME TypeInv, RowsExist, NeverAhead, AcceptedKept, [Next]_vars PROVE AcceptedKept'
<1> SUFFICES ASSUME outages' = 0, NEW i \in accepted', row'[i].status = "PENDING"
             PROVE  HasTask(i)' \/ Shadowed(i)'
  BY DEF AcceptedKept
<1>1. outages' \in {outages, outages + 1}
  BY DEF Next, Request, ClientStep, WorkerStep, Progress, queue_invoice_select, annul_invoice,
         queue_invoice_insert, queue_invoice_refresh, create_invoice_dispatch, start_task,
         call_misconfigured, certify_now_call, annul_now_call, certify_now_commit, annul_now_commit,
         StoresCertification, StoresAnnulment, session_rollback, autoretry, on_failure_load,
         on_failure_commit, acknowledge, Outage, db_outage, refresh_outage, broker_outage, crash,
         rest, vars, counters
<1>2. outages = 0 /\ UNCHANGED outages
  BY <1>1, BoundsAreNat DEF TypeInv, TypeOK
<1>3. i \in Invoices
  BY StepType DEF TypeInv, TypeOK
<1>4. CASE i \notin accepted
  <2>1. PICK c \in Clients : create_invoice_dispatch(c)
    BY <1>4 DEF Next, Request, ClientStep, WorkerStep, Progress, queue_invoice_select, annul_invoice,
         queue_invoice_insert, queue_invoice_refresh, start_task,
         call_misconfigured, certify_now_call, annul_now_call, certify_now_commit, annul_now_commit,
         StoresCertification, StoresAnnulment, session_rollback, autoretry, on_failure_load,
         on_failure_commit, acknowledge, Outage, db_outage, refresh_outage, broker_outage, crash,
         rest, vars
  <2>2. job[c].inv = i /\ job[c].op = "certify" /\ job[c].pc \in HasInvoice /\ c \in Runners
    BY <1>4, <2>1 DEF create_invoice_dispatch, TypeInv, ProcessShape, Shaped, HasInvoice, PC, Runners
  <2> DEFINE m == [op |-> "certify", inv |-> i, retries |-> 0]
  <2>3. Task(c, 0) = m /\ m \in Message
    BY <2>2, TaskType, BoundsAreNat DEF Task
  <2> HIDE DEF m
  <2>4. queue'[m] > 0
    BY <2>1, <2>3 DEF create_invoice_dispatch, Publish, TypeInv, TypeOK, TaskBrokerTypeOK
  <2> QED BY <2>4, BoundsAreNat DEF HasTask, Waiting, m
<1>5. CASE i \in accepted
  <2>1. Exists(i) /\ row[i].status = "PENDING"
    BY <1>3, <1>5, RowsEvolve DEF RowsExist
  <2>2. CASE Shadowed(i)
    BY <1>3, <2>1, <2>2, ShadowedStep
  <2>3. CASE Waiting(i)
    BY <1>2, <1>3, <2>3, WaitingStep
  <2>4. ASSUME NEW w \in Workers, InHand(w, i) PROVE HasTask(i)' \/ Shadowed(i)'
    <3>1. CASE job'[w] = job[w]
      BY <2>4, <3>1 DEF HasTask, InHand
    <3>2. CASE WorkerStep(w) \/ crash(w)
      BY <1>3, <2>1, <2>4, <3>2, InHandStep
    <3> QED BY <1>2, <3>1, <3>2, TasksMove
  <2> QED BY <1>2, <1>5, <2>1, <2>2, <2>3, <2>4 DEF AcceptedKept, HasTask
<1> QED BY <1>4, <1>5
-----------------------------------------------------------------------------
(* The theorems. *)

SafetyInv == /\ TypeInv
             /\ RowsExist
             /\ UniqueIndex
             /\ AuditExplainsStatus
             /\ LedgerInv
             /\ NeverAhead
             /\ AcceptedKept

\* The initial state satisfies the inductive invariant.
LEMMA InitSafety == Init => SafetyInv
<1> SUFFICES ASSUME Init PROVE SafetyInv
  OBVIOUS
<1>1. UniqueIndex /\ AuditExplainsStatus
  BY DEF Init, InvoiceTableInit, UniqueIndex, SameKey, SameRef, AuditExplainsStatus, Exists, NoRow
<1>2. NeverAhead /\ AcceptedKept
  BY DEF Init, NeverAhead, AcceptedKept, Idle
<1> QED BY <1>1, <1>2, InitType, InitRows, InitLedger DEF SafetyInv

\* Every step preserves it.
LEMMA SafetyStep == SafetyInv /\ [Next]_vars => SafetyInv'
BY StepType, RowsStep, UniqueStep, AuditStep, MirrorAuthenticStep, StatusBackedStep,
   AnswersBackedStep, NeverAheadStep, AcceptedStep DEF SafetyInv, LedgerInv

\* The inductive invariant: types, what a process may rely on in the middle of a
\* handler, and the properties that follow.
THEOREM Safety == Spec => []SafetyInv
<1>1. Init => SafetyInv
  BY InitSafety
<1>2. SafetyInv /\ [Next]_vars => SafetyInv'
  BY SafetyStep
<1> QED BY <1>1, <1>2, PTL DEF Spec

\* However requests and workers interleave, the table never holds two rows of
\* one reference and one status, although statuses are computed from stale rows.
THEOREM RowsUnique == Spec => []UniqueIndex
BY Safety, PTL DEF SafetyInv

\* The uuid a caller is shown is always a document SAT issued for that invoice.
THEOREM UuidsAuthentic == Spec => []MirrorAuthentic
BY Safety, PTL DEF SafetyInv, LedgerInv

\* CERTIFIED and ANNULLED are never claimed without SAT having done it.
THEOREM StatusesBacked == Spec => []StatusBackedBySat
BY Safety, PTL DEF SafetyInv, LedgerInv

\* The audit trail explains every status.
THEOREM AuditComplete == Spec => []AuditExplainsStatus
BY Safety, PTL DEF SafetyInv

\* No worker ever takes a task of a row that does not exist.
THEOREM TasksAlwaysHaveRows == Spec => []TasksHaveRows
<1>1. SafetyInv => TasksHaveRows
  <2> SUFFICES ASSUME SafetyInv, NEW w \in Workers, job[w].pc # "idle" PROVE Exists(job[w].inv)
    BY DEF SafetyInv, RowsExist, TasksHaveRows
  <2>1. w \in Runners /\ w \notin Clients /\ job[w] \in Job
    BY WorkerIsNoClient, JobTyped DEF SafetyInv, TypeInv
  <2>2. job[w].pc \in HasInvoice
    BY <2>1 DEF SafetyInv, TypeInv, ProcessShape, Shaped, Job, HasInvoice
  <2> QED BY <2>1, <2>2 DEF SafetyInv, RowsExist
<1> QED BY <1>1, Safety, PTL

\* An invoice accepted with 202 that is still PENDING has a task, queued or in a
\* worker's hands, whatever crashed, unless a sibling row or an outage of the
\* database stood in the way of on_failure.
THEOREM AcceptedNeverLost == Spec => []AcceptedNotLost
<1>1. SafetyInv => AcceptedNotLost
  <2>1. ASSUME NEW i, HasTask(i) PROVE HasWork("certify", i)
    BY <2>1 DEF HasTask, Waiting, InHand, HasWork, Runners
  <2> QED BY <2>1 DEF SafetyInv, AcceptedKept, AcceptedNotLost
<1> QED BY <1>1, Safety, PTL

\* What a process relies on between two of its steps holds.
THEOREM ProcessesStayInStep == Spec => []ProcessesInStep
<1>1. SafetyInv => ProcessesInStep
  BY DEF SafetyInv, TypeInv, LedgerInv, ProcessesInStep
<1> QED BY <1>1, Safety, PTL

\* Every variable keeps its type.
THEOREM TypesKept == Spec => []TypeOK
<1>1. SafetyInv => TypeOK
  BY DEF SafetyInv, TypeInv
<1> QED BY <1>1, Safety, PTL
-----------------------------------------------------------------------------
(* The XML.  It is written once, never removed, and no run that has seen it    *)
(* meets a row without it.                                                     *)

XmlRemembered ==
    \A r \in Runners : job[r].pc \in {"loaded", "called"} /\ job[r].obj.xml => row[job[r].inv].xml

XmlInv == XmlRemembered /\ XmlUnlessFailed

\* How a step may change what row i keeps.
XmlEvolves(i) ==
    /\ row[i].xml => row'[i].xml
    /\ audit[i] \subseteq audit'[i]
    /\ row'[i].status \in Settled /\ ~row'[i].xml =>
          row[i].status \in Settled \/ "invoice.dlq" \in audit'[i]

\* A run of certify_now leaves its row with the XML; one of annul_now leaves the XML
\* as it is, and works on a settled row.
LEMMA SavedXml ==
    ASSUME SafetyInv, XmlRemembered, NEW r \in Runners, job[r].pc = "called"
    PROVE  /\ job[r].op = "certify" => Saved(r).xml
           /\ job[r].op = "annul" => /\ Saved(r).xml = row[job[r].inv].xml
                                     /\ row[job[r].inv].status \in Settled
<1> DEFINE i == job[r].inv
           obj == job[r].obj
           new == Assigned(r)
<1>1. TypeInv /\ RowsExist /\ NeverAhead
  BY DEF SafetyInv
<1>2. job[r] \in Job /\ i \in Invoices
  BY <1>1, JobTyped DEF TypeInv, ProcessShape, Shaped, HasInvoice, PC
<1>3. row[i] \in Row /\ obj \in Row /\ job[r].op \in {"certify", "annul"}
  BY <1>1, <1>2, RowTyped DEF TypeInv, Job, Op
<1>4. Saved(r).xml = IF new.xml = obj.xml THEN row[i].xml ELSE new.xml
  <2> HIDE DEF new
  <2>1. Saved(r) = Flushed(i, obj, new)
    BY DEF Saved, new
  <2> HIDE DEF i, obj
  <2> QED BY <1>3, <2>1 DEF Flushed, Row
<1>5. CASE job[r].op = "certify"
  <2>1. new.xml = TRUE
    BY <1>3, <1>5 DEF Assigned, Certifying, Row
  <2>2. obj.xml \in BOOLEAN /\ (obj.xml => row[i].xml)
    BY <1>3 DEF XmlRemembered, Row
  <2> HIDE DEF new
  <2> QED BY <1>4, <1>5, <2>1, <2>2
<1>6. CASE job[r].op = "annul"
  <2>1. new.xml = obj.xml
    BY <1>3, <1>6 DEF Assigned, Annulling, Row
  <2>2. obj.status = "CERTIFIED"
    BY <1>1, <1>6 DEF TypeInv, ProcessShape, Shaped, Annullable
  <2>3. row[i].status # "PENDING"
    BY <1>1, <2>2 DEF NeverAhead
  <2>4. Exists(i)
    BY <1>1 DEF RowsExist, HasInvoice, PC
  <2> HIDE DEF new
  <2> QED BY <1>3, <1>4, <1>6, <2>1, <2>3, <2>4 DEF Row, Status, Active, Settled, Exists
<1> QED BY <1>3, <1>5, <1>6

\* Every row keeps its XML in every step, and a rejected row without it has had a DLQ event.
LEMMA XmlStep ==
    ASSUME SafetyInv, XmlRemembered, [Next]_vars, NEW i \in Invoices
    PROVE  XmlEvolves(i)
<1>1. UNCHANGED <<row, audit>> => XmlEvolves(i)
  BY DEF XmlEvolves
<1>2. TypeInv /\ RowsExist
  BY DEF SafetyInv
<1>3. ASSUME NEW k \in Invoices, NEW s \in Row, NEW E, CommitRow(k, s, E),
             row[k].xml => s.xml,
             s.status \in Settled /\ ~s.xml => row[k].status \in Settled \/ "invoice.dlq" \in E
      PROVE  XmlEvolves(i)
  <2>1. /\ row'[i] = IF i = k THEN s ELSE row[i]
        /\ audit'[i] = IF i = k THEN audit[i] \cup E ELSE audit[i]
    BY <1>2, <1>3 DEF CommitRow, TypeInv, TypeOK, InvoiceTableTypeOK
  <2> QED BY <1>3, <2>1 DEF XmlEvolves
<1>4. ASSUME NEW c \in Clients, queue_invoice_insert(c) PROVE XmlEvolves(i)
  <2>1. PICK k \in Invoices : /\ ~Exists(k)
                              /\ \/ UNCHANGED <<row, audit>>
                                 \/ CommitRow(k, job[c].obj, {"invoice.queued"})
    BY <1>4 DEF queue_invoice_insert
  <2>2. job[c].obj \in Row /\ job[c].obj.status = "PENDING"
    BY <1>2, <1>4, JobTyped DEF queue_invoice_insert, TypeInv, ProcessShape, Shaped, Job, Runners
  <2>3. row[k].xml = FALSE
    BY <1>2, <2>1 DEF RowsExist, NoRow
  <2>4. job[c].obj.status \notin Settled
    BY <2>2 DEF Settled
  <2> QED BY <1>1, <1>3, <2>1, <2>2, <2>3, <2>4
<1>5. ASSUME NEW w \in Workers, on_failure_commit(w) PROVE XmlEvolves(i)
  <2>1. /\ job[w].pc = "dlq"
        /\ UNCHANGED <<row, audit>> \/ CommitRow(job[w].inv, Dead(w), {"invoice.dlq"})
    BY <1>5 DEF on_failure_commit
  <2>2. /\ job[w].inv \in Invoices /\ Dead(w) \in Row
        /\ Dead(w).xml = row[job[w].inv].xml
    BY <1>2, <2>1, DeadType, DeadFields
  <2> QED BY <1>1, <1>3, <2>1, <2>2
<1>6. ASSUME NEW r \in Runners, StoresCertification(r) \/ StoresAnnulment(r) PROVE XmlEvolves(i)
  <2>1. /\ job[r].pc = "called" /\ job[r].op \in {"certify", "annul"}
        /\ \E E : CommitRow(job[r].inv, Saved(r), E)
    BY <1>6 DEF StoresCertification, StoresAnnulment
  <2>2. job[r].inv \in Invoices /\ Saved(r) \in Row
    BY <1>2, <2>1, SavedType DEF TypeInv, ProcessShape, Shaped, HasInvoice, PC
  <2> QED BY <1>3, <2>1, <2>2, SavedXml
<1>7. ASSUME NEW r \in Runners, Progress(r) PROVE XmlEvolves(i)
  BY <1>1, <1>6, <1>7 DEF Progress, call_misconfigured, certify_now_call, annul_now_call,
                          certify_now_commit, annul_now_commit, session_rollback
<1>8. ASSUME NEW c \in Clients, Request(c) \/ ClientStep(c) PROVE XmlEvolves(i)
  BY <1>1, <1>4, <1>7, <1>8 DEF Request, ClientStep, Runners, queue_invoice_select, annul_invoice,
                                queue_invoice_refresh, create_invoice_dispatch
<1>9. ASSUME NEW w \in Workers, WorkerStep(w) PROVE XmlEvolves(i)
  BY <1>1, <1>5, <1>7, <1>9 DEF WorkerStep, Runners, start_task, autoretry, on_failure_load,
                                acknowledge
<1>10. ASSUME NEW w \in Workers, Outage(w) PROVE XmlEvolves(i)
  BY <1>1, <1>6, <1>10 DEF Outage, Runners, db_outage, refresh_outage, broker_outage
<1> QED BY <1>1, <1>8, <1>9, <1>10 DEF Next, vars, counters, crash, rest

\* Objects are loaded from the row, and the row keeps its XML.
LEMMA XmlRememberedStep ==
    ASSUME SafetyInv, XmlRemembered, [Next]_vars PROVE XmlRemembered'
<1>1. SUFFICES ASSUME NEW r \in Runners, job'[r].pc \in {"loaded", "called"}, job'[r].obj.xml
               PROVE  row'[job'[r].inv].xml
  BY DEF XmlRemembered, Runners
<1>2. TypeInv /\ JobEvolves(r)
  BY JobStep DEF SafetyInv
<1>3. CASE job'[r] = job[r]
  <2>1. job[r].inv \in Invoices
    BY <1>1, <1>2, <1>3 DEF TypeInv, ProcessShape, Shaped, HasInvoice, PC
  <2> QED BY <1>1, <1>3, <2>1, XmlStep DEF XmlRemembered, XmlEvolves
<1>4. CASE job'[r].obj = row[job'[r].inv] /\ UNCHANGED row
  BY <1>1, <1>4
<1>5. CASE /\ job[r].pc = "loaded" /\ job'[r].inv = job[r].inv /\ job'[r].obj = job[r].obj
           /\ UNCHANGED row
  BY <1>1, <1>5 DEF XmlRemembered
<1> QED BY <1>1, <1>2, <1>3, <1>4, <1>5 DEF JobEvolves

\* Only a final failure settles a row without its XML.
THEOREM XmlIsKept == Spec => []XmlUnlessFailed
<1>1. Init => XmlInv
  BY DEF Init, InvoiceTableInit, NoRow, Idle, XmlInv, XmlRemembered, XmlUnlessFailed, Settled
<1>2. SafetyInv /\ XmlInv /\ [Next]_vars => XmlInv'
  <2>1. SUFFICES ASSUME SafetyInv, XmlInv, [Next]_vars PROVE XmlInv'
    OBVIOUS
  <2>2. XmlUnlessFailed'
    <3>1. SUFFICES ASSUME NEW i \in Invoices, row'[i].status \in Settled, ~row'[i].xml
                   PROVE  "invoice.dlq" \in audit'[i]
      BY DEF XmlUnlessFailed
    <3>2. XmlEvolves(i)
      BY <2>1, XmlStep DEF XmlInv
    <3> QED BY <2>1, <3>1, <3>2 DEF XmlEvolves, XmlInv, XmlUnlessFailed
  <2> QED BY <2>1, <2>2, XmlRememberedStep DEF XmlInv
<1>3. XmlInv => XmlUnlessFailed
  BY DEF XmlInv
<1> QED BY <1>1, <1>2, <1>3, Safety, PTL DEF Spec
-----------------------------------------------------------------------------
(* A request thread keeps to the tenant it began with: what TenantGateway    *)
(* needs to know of the steps of the handlers.                               *)

\* A row stays with its tenant.
LEMMA TenantStays ==
    ASSUME TypeInv, RowsExist, [Next]_vars, NEW i \in Invoices, Exists(i)
    PROVE  row'[i].tenant = row[i].tenant
<1>1. CASE UNCHANGED row
  BY <1>1
<1>2. CASE ~UNCHANGED row
  <2>1. PICK k \in Invoices, r \in Row, E \in SUBSET Event : CommitRow(k, r, E) /\ Lawful(k, r, E)
    BY <1>2, RowStep
  <2> QED BY <2>1, CommitEvolves DEF Lawful
<1> QED BY <1>1, <1>2

\* A step of one process leaves the others' records alone.
LEMMA OthersStand ==
    ASSUME TypeInv, NEW r \in Runners,
           \/ r \in Clients /\ (Request(r) \/ ClientStep(r))
           \/ r \in Workers /\ WorkerStep(r)
           \/ crash(r)
    PROVE  \A q \in Runners \ {r} : job'[q] = job[q]
<1>1. job \in [Runners -> Job]
  BY DEF TypeInv, TypeOK
<1>2. CASE Progress(r)
  BY <1>1, <1>2 DEF Progress, call_misconfigured, certify_now_call, annul_now_call, Answered,
                    certify_now_commit, annul_now_commit, session_rollback, Leave
<1> QED BY <1>1, <1>2
        DEF Request, ClientStep, WorkerStep, queue_invoice_select, annul_invoice,
            queue_invoice_insert, queue_invoice_refresh, create_invoice_dispatch, start_task,
            autoretry, on_failure_load, on_failure_commit, acknowledge, crash

\* A handler takes up work for its tenant, or none.
LEMMA RequestTakes ==
    ASSUME TypeInv, NEW c \in Clients, NEW t \in Tenants, NEW sync \in BOOLEAN,
           \/ \E ref \in Refs : queue_invoice_select(c, t, ref, sync)
           \/ \E i \in Invoices : annul_invoice(c, t, i, sync)
    PROVE  \/ job'[c].pc = "idle"
           \/ /\ job'[c].obj.tenant = t
              /\ job'[c].pc \in HasInvoice => row'[job'[c].inv].tenant = t
<1> DEFINE Goal == \/ job'[c].pc = "idle"
                   \/ /\ job'[c].obj.tenant = t
                      /\ job'[c].pc \in HasInvoice => row'[job'[c].inv].tenant = t
<1>1. job \in [Runners -> Job] /\ c \in Runners
  BY DEF TypeInv, TypeOK, Runners
<1>2. ASSUME NEW ref \in Refs, queue_invoice_select(c, t, ref, sync)
      PROVE  Goal
  <2>1. CASE \E i \in ActiveRows(t, ref) : job' = [job EXCEPT ![c] = Routed(i, row[i], sync)]
    <3>1. PICK i \in ActiveRows(t, ref) : job'[c] = Routed(i, row[i], sync)
      BY <1>1, <2>1
    <3>2. row[i].tenant = t /\ row' = row
      BY <1>2 DEF ActiveRows, queue_invoice_select
    <3> QED BY <3>1, <3>2 DEF Routed, Idle
  <2>2. CASE job' = [job EXCEPT ![c] = [Idle EXCEPT !.pc = "insert", !.sync = sync,
                                                    !.obj = NewRow(t, ref)]]
    <3>1. job'[c] = [Idle EXCEPT !.pc = "insert", !.sync = sync, !.obj = NewRow(t, ref)]
      BY <1>1, <2>2
    <3> QED BY <3>1 DEF Idle, NewRow, HasInvoice
  <2> QED BY <1>2, <2>1, <2>2 DEF queue_invoice_select
<1>3. ASSUME NEW i \in Invoices, annul_invoice(c, t, i, sync)
      PROVE  Goal
  <2>1. row[i].tenant = t /\ row' = row /\ job[c].pc = "idle"
    BY <1>3 DEF annul_invoice
  <2>2. CASE UNCHANGED job
    BY <2>1, <2>2
  <2>3. CASE job' = [job EXCEPT ![c] = [Idle EXCEPT !.pc = "loaded", !.op = "annul", !.inv = i,
                                                    !.obj = row[i]]]
    <3>1. job'[c] = [Idle EXCEPT !.pc = "loaded", !.op = "annul", !.inv = i, !.obj = row[i]]
      BY <1>1, <2>3
    <3> QED BY <2>1, <3>1 DEF Idle
  <2> QED BY <1>3, <2>2, <2>3 DEF annul_invoice
<1> QED BY <1>2, <1>3

\* A handler goes on with the work it took up, and refreshes its own row.
LEMMA OwnerKept ==
    ASSUME TypeInv, ReadsBack, NEW c \in Clients, ClientStep(c)
    PROVE  /\ job[c].pc # "idle"
           /\ \/ job'[c].pc = "idle"
              \/ /\ job'[c].obj.tenant = job[c].obj.tenant
                 /\ job'[c].pc \in HasInvoice => row'[job'[c].inv].tenant = job'[c].obj.tenant
<1> DEFINE Goal == \/ job'[c].pc = "idle"
                   \/ /\ job'[c].obj.tenant = job[c].obj.tenant
                      /\ job'[c].pc \in HasInvoice => row'[job'[c].inv].tenant = job'[c].obj.tenant
<1>1. job \in [Runners -> Job] /\ c \in Runners /\ job[c] \in Job /\ row \in [Invoices -> Row]
  BY DEF TypeInv, TypeOK, Runners, InvoiceTableTypeOK
<1>2. job[c].pc # "idle"
  BY DEF ClientStep, Progress, queue_invoice_insert, queue_invoice_refresh, create_invoice_dispatch,
         call_misconfigured, certify_now_call, annul_now_call, certify_now_commit,
         annul_now_commit, StoresCertification, StoresAnnulment, session_rollback
<1>3. ASSUME NEW pc, Leave(c, pc) PROVE Goal
  BY <1>1, <1>3 DEF Leave, Idle
<1>4. ASSUME NEW a, NEW u, Answered(c, a, u), job[c].pc = "loaded", UNCHANGED row PROVE Goal
  <2>1. job'[c] = [job[c] EXCEPT !.pc = "called", !.answer = a, !.got = u]
    BY <1>1, <1>4 DEF Answered
  <2>2. row[job[c].inv].tenant = job[c].obj.tenant
    BY <1>4 DEF ReadsBack, HasInvoice, PC
  <2> QED BY <1>1, <1>4, <2>1, <2>2 DEF Job
<1>5. CASE Progress(c)
  <2>1. CASE call_misconfigured(c) \/ certify_now_call(c) \/ annul_now_call(c)
    <3>1. job[c].pc = "loaded" /\ UNCHANGED row /\ \E a, u : Answered(c, a, u)
      BY <2>1 DEF call_misconfigured, certify_now_call, annul_now_call
    <3> QED BY <1>2, <1>4, <3>1
  <2>2. CASE certify_now_commit(c) \/ annul_now_commit(c) \/ session_rollback(c)
    BY <1>2, <1>3, <2>2 DEF certify_now_commit, annul_now_commit, session_rollback
  <2> QED BY <1>5, <2>1, <2>2 DEF Progress
<1>6. CASE queue_invoice_insert(c)
  <2>1. CASE job' = [job EXCEPT ![c] = Idle]
    <3>1. job'[c] = Idle
      BY <1>1, <2>1
    <3> QED BY <1>2, <3>1 DEF Idle
  <2>2. ASSUME NEW k \in Invoices, CommitRow(k, job[c].obj, {"invoice.queued"}),
               job' = [job EXCEPT ![c].pc = "refresh", ![c].inv = k]
        PROVE  Goal
    <3>1. job'[c] = [job[c] EXCEPT !.pc = "refresh", !.inv = k]
      BY <1>1, <2>2
    <3>2. job'[c].obj = job[c].obj /\ job'[c].inv = k
      BY <1>1, <3>1 DEF Job
    <3>3. row'[k] = job[c].obj
      BY <1>1, <2>2 DEF CommitRow
    <3> QED BY <3>2, <3>3
  <2> QED BY <1>6, <2>1, <2>2 DEF queue_invoice_insert
<1>7. CASE queue_invoice_refresh(c)
  <2>1. /\ job'[c] = Routed(job[c].inv, row[job[c].inv], job[c].sync)
        /\ job[c].pc = "refresh" /\ row' = row
    BY <1>1, <1>7 DEF queue_invoice_refresh
  <2>2. row[job[c].inv].tenant = job[c].obj.tenant
    BY <2>1 DEF ReadsBack, HasInvoice, PC
  <2> QED BY <2>1, <2>2 DEF Routed, Idle
<1>8. CASE create_invoice_dispatch(c)
  BY <1>1, <1>8 DEF create_invoice_dispatch, Idle
<1> QED BY <1>2, <1>5, <1>6, <1>7, <1>8 DEF ClientStep

\* Work spreads only from work: if no message and no process is at one of the invoices
\* in S, and nobody asks to annul one, a step brings none to the queue or to a worker.
LEMMA WorkSpreads ==
    ASSUME TypeInv, NEW S,
           \A m \in Message : queue[m] > 0 => m.inv \notin S,
           \A q \in Runners : job[q].pc \in HasInvoice => job[q].inv \notin S,
           NEW r \in Runners,
           \/ r \in Clients /\ ClientStep(r)
           \/ /\ r \in Clients
              /\ \E t \in Tenants, ref \in Refs, sync \in SyncModes :
                    queue_invoice_select(r, t, ref, sync)
           \/ /\ r \in Clients
              /\ \E t \in Tenants, i \in Invoices \ S, sync \in SyncModes :
                    annul_invoice(r, t, i, sync)
           \/ r \in Workers /\ WorkerStep(r)
           \/ crash(r)
    PROVE  /\ \A m \in Message : queue'[m] > 0 => m.inv \notin S
           /\ \A w \in Workers : job'[w].pc # "idle" => job'[w].inv \notin S
<1> DEFINE Q == \A m \in Message : queue'[m] > 0 => m.inv \notin S
           W == \A w \in Workers : job'[w].pc # "idle" => job'[w].inv \notin S
           Kept == job'[r].pc # "idle" => job'[r].inv \notin S
<1>1. /\ job \in [Runners -> Job] /\ job[r] \in Job /\ queue \in [Message -> Nat]
      /\ Workers \subseteq Runners
  BY DEF TypeInv, TypeOK, TaskBrokerTypeOK, Runners
<1>2. UNCHANGED queue => Q
  OBVIOUS
<1>3. ASSUME NEW n \in Message, n.inv \notin S, Publish(n) PROVE Q
  BY <1>1, <1>3 DEF Publish
<1>4. ASSUME NEW n \in Message, Deliver(n) PROVE Q /\ n.inv \notin S
  BY <1>1, <1>4 DEF Deliver
<1>5. ASSUME NEW n, job[r].pc \in HasInvoice, Publish(Task(r, n)), n \in 0 .. MaxRetries PROVE Q
  <2>1. Task(r, n) \in Message /\ Task(r, n).inv = job[r].inv
    BY <1>5, TaskType DEF Task
  <2> QED BY <1>3, <1>5, <2>1
<1>6. ASSUME NEW w \in Workers \ {r}, job'[w].pc # "idle" PROVE job'[w].inv \notin S
  <2>1. job'[w] = job[w]
    BY <1>1, <1>6, OthersStand DEF Request
  <2>2. job[w].pc \in HasInvoice
    BY <1>1, <1>6, <2>1, WorkerIsNoClient
       DEF TypeInv, TypeOK, ProcessShape, Shaped, Job, HasInvoice
  <2> QED BY <1>1, <2>1, <2>2
<1>7. Kept \/ r \in Clients => W
  BY <1>6, ProcessesAreDisjoint
<1>8. ASSUME NEW pc, job[r].pc \in HasInvoice, job'[r] \in {Idle, Holding(r, pc)} PROVE Kept
  <2>1. job[r].inv \notin S
    BY <1>8
  <2>2. Idle.pc = "idle" /\ Holding(r, pc).inv = job[r].inv
    BY DEF Idle, Holding
  <2> QED BY <1>8, <2>1, <2>2
<1> SUFFICES Q /\ W
  OBVIOUS
<1> HIDE DEF Q, W, Kept
<1>9. CASE Progress(r)
  <2>1. UNCHANGED queue /\ job[r].pc \in HasInvoice
    BY <1>9 DEF Progress, call_misconfigured, certify_now_call, annul_now_call, HasInvoice, PC,
                certify_now_commit, annul_now_commit, StoresCertification, StoresAnnulment,
                session_rollback
  <2>2. ASSUME NEW a, NEW u, Answered(r, a, u) PROVE Kept
    <3>1. job'[r] = [job[r] EXCEPT !.pc = "called", !.answer = a, !.got = u]
      BY <1>1, <2>2 DEF Answered
    <3> QED BY <1>1, <2>1, <3>1 DEF Job, Kept
  <2>3. ASSUME NEW pc, Leave(r, pc) PROVE Kept
    BY <1>1, <1>8, <2>1, <2>3 DEF Leave
  <2> QED BY <1>2, <1>7, <1>9, <2>1, <2>2, <2>3
          DEF Progress, call_misconfigured, certify_now_call, annul_now_call,
              certify_now_commit, annul_now_commit, session_rollback
<1>10. CASE r \in Clients /\ ~Progress(r)
  <2>1. CASE UNCHANGED queue
    BY <1>2, <1>7, <1>10, <2>1
  <2>2. CASE create_invoice_dispatch(r)
    BY <1>5, <1>7, <1>10, <2>2, BoundsAreNat DEF create_invoice_dispatch, HasInvoice, PC
  <2>3. CASE \E t \in Tenants, i \in Invoices \ S, sync \in SyncModes : annul_invoice(r, t, i, sync)
    <3>1. PICK i \in Invoices \ S :
             UNCHANGED queue \/ Publish([op |-> "annul", inv |-> i, retries |-> 0])
      BY <2>3 DEF annul_invoice
    <3>2. [op |-> "annul", inv |-> i, retries |-> 0] \in Message
      BY BoundsAreNat DEF Message, Op
    <3> QED BY <1>2, <1>3, <1>7, <1>10, <3>1, <3>2
  <2>4. CASE crash(r)
    BY <1>10, <2>1, <2>4, WorkerIsNoClient DEF crash
  <2> QED BY <1>10, <2>1, <2>2, <2>3, <2>4, WorkerIsNoClient
          DEF ClientStep, queue_invoice_insert, queue_invoice_refresh, queue_invoice_select
<1>11. CASE r \in Workers /\ ~Progress(r)
  <2>1. ASSUME NEW m \in Message, start_task(r, m) PROVE Q /\ Kept
    <3>1. job'[r].inv = m.inv
      BY <1>1, <2>1 DEF start_task, Started
    <3> QED BY <1>4, <2>1, <3>1 DEF start_task, Kept
  <2>2. CASE autoretry(r)
    <3>1. job[r].pc \in HasInvoice /\ job[r].retries + 1 \in 0 .. MaxRetries
      BY <1>1, <2>2, BoundsAreNat DEF autoretry, TypeInv, ProcessShape, Shaped, Job, HasInvoice, PC
    <3>2. job'[r] = Holding(r, "ack")
      BY <1>1, <2>2 DEF autoretry
    <3> QED BY <1>5, <1>7, <1>8, <2>2, <3>1, <3>2 DEF autoretry
  <2>3. CASE on_failure_commit(r) \/ acknowledge(r)
    <3>1. UNCHANGED queue /\ job[r].pc \in HasInvoice /\ job'[r] \in {Idle, Holding(r, "ack")}
      BY <1>1, <2>3 DEF on_failure_commit, acknowledge, HasInvoice, PC
    <3> QED BY <1>2, <1>7, <1>8, <3>1
  <2>4. CASE crash(r)
    <3>1. /\ job[r].pc \in HasInvoice /\ job[r].retries \in 0 .. MaxRetries
          /\ job'[r] = Idle
          /\ UNCHANGED queue \/ Publish(Task(r, job[r].retries))
      BY <1>1, <1>11, <2>4, WorkerIsNoClient
         DEF crash, TypeInv, ProcessShape, Shaped, Job, HasInvoice
    <3> QED BY <1>2, <1>5, <1>7, <1>8, <3>1
  <2>5. CASE on_failure_load(r)
    <3>1. /\ UNCHANGED queue /\ job[r].pc \in HasInvoice
          /\ job'[r] = [Holding(r, "dlq") EXCEPT !.obj = row[job[r].inv]]
      BY <1>1, <2>5 DEF on_failure_load, HasInvoice, PC
    <3>2. job'[r].inv = job[r].inv
      BY <3>1 DEF Holding, Idle
    <3> QED BY <1>2, <1>7, <3>1, <3>2 DEF Kept
  <2> QED BY <1>7, <1>11, <2>1, <2>2, <2>3, <2>4, <2>5, WorkerIsNoClient DEF WorkerStep
<1> QED BY <1>9, <1>10, <1>11 DEF Runners
=============================================================================
