# fel-gateway in TLA+

fel-gateway certifies and annuls electronic invoices (DTE) at SAT Guatemala for
several tenants. A caller posts an invoice; the gateway stores it, has a Celery
worker (or, with `?sync=true`, the request thread itself) send it to a
certificador, and mirrors the outcome in a row the caller can poll. What is hard
about it is not any single function but that request threads, workers, a queue
that redelivers and a provider that may time out all touch one row, and that a
certification is a legal document which cannot be made twice by accident.

This directory holds the model of that path, of the tenants and their keys, of
the adapters, and of the amounts and names in the documents; its TLC runs; and
proofs, checked by TLAPS, of its safety properties for every instance.
`PROJECT.json` lists the components, runs, mutants, findings, hazards, theorems,
and for each definition the source lines it models.

## The system

| Component | State | Operations | Modelled |
|---|---|---|---|
| Invoice API, `app/api/invoices.py` | one request per thread, one session each | `create_invoice`, `annul_invoice`; GET and list read only | `Gateway` |
| Service layer, `app/services.py` | the ORM object it works on | `queue_invoice`, `certify_now`, `annul_now` | `Gateway` |
| Celery tasks, `app/workers/` | the message in hand, its retry count | the two tasks, autoretry, `on_failure`, late acknowledgement | `Gateway` |
| `invoices` and `audit_events`, `app/db/models.py`, `app/audit.py` | rows, unique constraint, events | insert, update, `log_event` | `InvoiceTable` |
| RabbitMQ (external) | messages waiting | publish, deliver, redeliver | `TaskBroker` |
| Certificador and SAT (external) | documents issued, annulled | issue, annul | `SatLedger` |
| Admin API, `app/api/tenants.py` | tenants, key hashes, `is_active`, their events | create, rotate, deactivate | `TenantAdmin` |
| Authentication, `app/api/deps.py`, `app/security.py` | the rows of one SELECT | `get_current_tenant` | `TenantAdmin` |
| All of the above together | which tenant a thread works for | every request of every caller and admin | `TenantGateway` |
| Adapter contract, `app/adapters/base.py` | none | what a call may return or raise | `ProviderContract`, `ProviderCall` |
| FELplex and mock adapters, registry, NIT lookup, `app/adapters/`, `app/api/nit.py` | one HTTP exchange | `certificar`, `anular`, `consultar_nit`, `get_certificador`, `lookup_nit` | `Adapters` |
| DTE XML, FELplex payload, `app/domain/xml_builder.py`, `felplex.py:84-190` | the document being built | `build_xml_dte`, `build_felplex_payload` | `Dte` |
| Schemas, `app/domain/schemas.py` | none | ranges, types, providers, the NIT validator | `Dte`, `Adapters` |
| `main.py`, `config.py`, migrations | none at run time | wiring | no |

How they interact: `create_invoice` looks for an active row of the reference,
inserts one if there is none, commits, and publishes a task (or certifies
inline). A worker takes a message without acknowledging it, loads the row, calls
the provider, commits what the answer means, and then acknowledges; if the answer
was transient, it publishes the message again with one more retry first. When a
task fails for good `on_failure` stores REJECTED in a transaction of its own. All
of them share the row, and nobody locks it before reading it. A request is
authenticated once, by verifying its key against every active tenant's hash; from
then on it carries the tenant's id, and the worker takes the tenant from the row.

What makes each part correct:

- the invoices table never has two rows of one reference in one status, and rows
  are explained by the audit log; the uuid and the status of a row are backed by
  what SAT did for that row; an accepted invoice is never forgotten and is
  eventually settled; a row, and an order, get one document;
- a tenant is found by its key in force and no other, however its admins' requests
  overlap, and a thread never works for anybody else;
- the adapters turn every HTTP answer into what the service layer reckons with, and
  never a refusal into a certification or a stated document into a retry;
- XML and FELplex payload tell of one invoice, line by line.

What is hard:

- interleavings of two requests for one order (`services.py:36`, `invoices.py:75`),
  and of several runs of one row, each computing a status from an object loaded
  before its provider call (`services.py:132`, `:167`);
- a timeout after which nobody knows what SAT did (`felplex.py:202`), and a crash
  between SAT's answer and the commit (`celery_app.py:24`), or an outage right after
  it (`services.py:157`);
- at-least-once delivery and retries (`tasks.py:23`), final failures that
  themselves fail (`tasks.py:52`) or overwrite newer statuses (`tasks.py:40`);
- the row lock that the flush of `services.py:88` holds across the call, and the XML
  that is rolled back with its attempt;
- two admins on one tenant, each with its own object (`tenants.py:80`, `:92`), a name
  taken between SELECT and INSERT (`tenants.py:42`), a key that lives in memory only
  (`tenants.py:69`), a tenant disabled behind a request's back (`deps.py:41`);
- bodies that claim one thing and statuses that claim another (`felplex.py:213`);
- an answer without a uuid, stored over one that another run got (`felplex.py:285`);
- prices rounded before they are multiplied (`xml_builder.py:108`), a discount taken
  from another price here than there (`xml_builder.py:112`), and three cleanings of one
  NIT that do not remove the same (`felplex.py:135`).

`PROJECT.json` "hazards" has the full list.

## The modules

| Module | Contents |
|---|---|
| `InvoiceTable` | `row`, `audit`; the unique constraint (`Admits`), the ORM's UPDATE (`Flushed`), a commit (`CommitRow`) |
| `SatLedger` | `issued`, `voided`: what the provider and SAT hold (external) |
| `TaskBroker` | `queue`, a bag of messages (external) |
| `ProviderContract` | the replies of a provider and how an adapter reports them |
| `Gateway` | composes the four with the processes: `job`, `accepted`, and the counters of the bounds |
| `InvoiceLifecycle` | the abstract specifications of one invoice as its caller sees it: `Promise`, kept under every fault, and `Ideal`, the life it should have |
| `GatewayProps` | the properties, and the refinement mapping to `InvoiceLifecycle` |
| `GatewayInv` | the parts of the inductive invariants, and two environments: `Calm` loses nothing, in `Alone` the only caller waits for its answers |
| `GatewayProofs` | the safety theorems and their proofs |
| `GatewayRefinementProofs` | the proof that `Gateway` implements `Promise` |
| `GatewayCalmProofs` | the proofs that `Gateway` implements `Ideal` and certifies once where `Calm` holds, and gives an order one document where `Alone` holds |
| `InvoiceLifecycleProofs` | what `Promise` and `Ideal` imply |
| `TenantAdmin` | the tenants, the admins' requests, authentication |
| `TenantDirectory` | the abstract specification: atomic registrations, rotations and entries |
| `TenantProps`, `TenantProofs` | properties, inductive invariant, mapping to `TenantDirectory`; their proofs |
| `TenantGateway` | instantiates `GatewayRefinementProofs` and `TenantProofs` side by side, with their theorems: the whole service |
| `TenantGatewayProofs` | the proofs that the service implements both parts, works for the owner only, and has done with a disabled tenant for good |
| `Adapters` | HTTP answers, adapters, registry, NIT lookup |
| `ProviderCall` | the abstract specification of one call, with the replies that `Gateway` reckons with |
| `AdapterProps`, `AdapterProofs` | properties, mapping to `ProviderCall`; their proofs |
| `Dte` | XML lines, totals, receiver, and the FELplex payload |
| `DteProps`, `DteProofs` | properties of the two documents; their proofs |
| `MCGateway`, `MCTenants`, `MCService`, `MCAdapters`, `MCDte` | model values and symmetry for TLC; `<module>_<run>.cfg` is the configuration of a run |

### A step of the gateway

A step of a process is what it does between two points where another process can
come in: a transaction, a provider call, a publish, an acknowledgement. `job[r].pc`
says where process r is:

| `pc` | Where in the code | Left by |
|---|---|---|
| `idle` | between requests or messages | `queue_invoice_select` (services.py:35-46), `annul_invoice` (invoices.py:111-130), `start_task` (tasks.py:56-78) |
| `insert` | after the SELECT that found nothing | `queue_invoice_insert` (services.py:48-72): the row and its event, or an IntegrityError |
| `refresh` | after the commit | `queue_invoice_refresh` (services.py:73), then create_invoice's test of the status |
| `dispatch` | before `delay()` | `create_invoice_dispatch` (invoices.py:75) |
| `loaded` | row in hand, provider not called | `call_misconfigured`, `certify_now_call`, `annul_now_call` |
| `called` | answer in hand | `certify_now_commit`, `annul_now_commit`, `session_rollback` |
| `retry` | ProviderTransientError raised, retries left | `autoretry` |
| `failed` | a final exception | `on_failure_load` (tasks.py:37) |
| `dlq` | `on_failure` has loaded the row | `on_failure_commit` (tasks.py:40-53) |
| `ack` | task over, message not acknowledged | `acknowledge` |

`job[r].obj` is the ORM object: what the process read, stale or not. `Flushed` is
SQLAlchemy's unit of work: an UPDATE writes only the columns whose value in the
session differs from the one loaded, so that the second of two CERTIFIED commits
changes the uuid but not the status, and a rejected second run leaves the first
run's uuid. An answer without a uuid stores `""`, which wipes the uuid that another run
committed meanwhile, or NULL (a body that says `null`), which wipes nothing on an object
loaded with NULL: `UuidRead` lets it be either, and `Blank` is the empty string. Postgres runs at READ COMMITTED. `certify_now` flushes `xml_local`
before the call (services.py:88); on a row without XML that takes the row lock and
keeps it until the commit (`HoldsLock`), on a later attempt the XML is the same,
no UPDATE is sent and no lock is taken.

The provider's replies are seven (`Reply`): done and answered (`ok`), done and
answered without a uuid (`blank`), done but the answer timed out (`lost`) or
raises in the adapter or the commit (`torn`); refused (`reject`), not done and
network error, 5xx or body that is no JSON (`transient`), not done and raising
(`garbled`). The adapter tells them apart no better than `AnswerTo`: `lost` and
`transient` are one to it.

Faults are actions of their own: `crash` (a process dies in the middle of
anything, or a request thread loses the database or the broker; its transaction
rolls back and a worker's message is redelivered), `db_outage` (the database
refuses a worker's transaction, `on_failure`'s included), `refresh_outage` (it takes the
commit and fails what is read after it, so that the task fails although its answer is
stored; after a refused configuration that is the expired row read for the task's
result, tasks.py:66), `broker_outage` (a retry cannot be published, and the message is
gone). The acceptance of a request (202) is recorded in `accepted`, when the task is
queued.

Left out of the data: payload, amounts and all columns that no guard reads.
`xml_local` is a flag (it is a function of the immutable payload and the tenant),
the audit log is a set of event kinds per row.

### A step of the tenants

Again a step is a transaction, or what happens between two. `admin[a].pc` is where an
admin's request is: `insert` after the SELECT of the name, `rotate` and `deactivate`
after `db.get`, `refresh` between the commit and the answer that shows the key.
`session[c].pc` is where a caller's request is: `verify` with the rows of the SELECT
(a snapshot, `rows`), `handler` as the tenant that was found. `FlushedTenant` is the
unit of work again: a rotation on an object loaded before a deactivation writes the
hash and not `is_active`. A hash is the key it was made of (argon2 is a library), a
key is drawn once. `given` and `shown` are history: the keys a row ever held, and
those that reached anybody. `lose_request` is a request that dies or loses the
database; its key is gone.

`TenantGateway` has one variable for each of both modules. A thread authenticates
(`present`, `authenticate`), runs its handler as the tenant of its session (`serve`,
`work`, or `serve_read` for the ones that change nothing), and forgets the session
with the answer (`UntilAnswered`). Workers have none (`worker_step`).

### A step of the adapters

`Call`, then one side of the HTTP exchange at a time: the adapter refuses
(`_validate`), or FELplex carries the request out or not and answers or not
(`felplex_serves`), and the adapter reads the response (`read_response`). A response
is a status class and the form of its body (no JSON, a scalar, a list, a dict) with
the fields the code looks at; `odd` is a value whose shape makes the code raise.
`Honest` is what is assumed of FELplex: it may be silent or incoherent, but a body
that states an outcome states the right one. `docs` and `undecided` count, for one
task, the documents made and the answers that decided nothing.

### A step of the document

`xml_item` is the loop over the items, `build_xml_dte` the rest of the XML,
`build_felplex_payload` the payload. Callers write money with fractions of a cent,
`Unit` of them to the cent; the XML rounds to cents (`RoundHalfUp` is
`quantize(..., ROUND_HALF_UP)`) the price that the tax is taken from, every amount of a
line, the total and the tax, and FELplex is sent everything as it was given but the tax,
a float formatted to two places (`TwoPlaces`: the nearest cent, either of two at a tie).
Other floats are taken for the numbers they were made of. The quantity and the discount
that the XML prints beside the amounts of a line are left out: nothing is computed from
what is printed.
Quantities are in hundredths, rates in percent. A NIT is a sequence of symbols: dash,
blank, other whitespace, digit, and the letters CF in both cases. `str.strip` removes
both kinds of whitespace at the ends (`Strip`), the two other cleanings remove blanks
anywhere and no other whitespace.

## What the runs show

Model values: c1, c2 (request threads), w1, w2 (workers), i1..i4 (row ids), u1..u4
(uuids), t1.. and k1.. (tenants and keys). Processes of a kind, ids, uuids and keys
are only compared for equality, so runs of invariants use their symmetry. So do
`faults`, `calm`, `overlap` and `isolation`, whose abstract specifications and action
properties are safety properties that treat all ids, uuids and keys alike; the runs of
liveness and `secondreject` do not.

| Run | Environment | Shows |
|---|---|---|
| `faults` | 2 threads, 2 workers, 2 requests, references `r1` and `""`, sync and queued, every reply, 1 retry, 1 crash, 1 outage of the database or the broker | TypeOK, ProcessesInStep, UniqueIndex, MirrorAuthentic, TasksHaveRows, AuditExplainsStatus, XmlUnlessFailed, AcceptedNotLost, and the refinement PromiseKept (1 296 508 states) |
| `calm` | 2 threads, 2 workers, 3 requests, 2 tenants of which one misconfigured, no references, no crash, no lost answer | CalmInv, OneDocPerRow, RestMirrors, and the refinement IdealLife (53 200 states) |
| `sequential` | 1 thread with `?sync=true`, 4 requests, 2 tenants of which one misconfigured, 2 references, a provider whose answers to certifications always arrive | OneValidDocPerRef (13 641 states) |
| `live` | 1 thread, 2 workers, 2 requests of one reference, 5xx answers, answers without a uuid, annulments whose answer is lost, 1 retry, 1 crash, fairness | AcceptedSettles, ComesToRest, AnnulmentConcludes (276 478 states) |
| `overlap` | 2 admins, 1 caller, every overlap of creations, rotations, deactivations and authentications, 1 lost request | TenantTypeOK, NamesUnique, ActsAsOwnTenant, AuditExplainsTenant, KeyReachesSomebody, RevokedStaysRevoked, and the refinement DirectoryKept (87 684 states) |
| `isolation` | 2 tenants, 3 keys, 1 admin, 1 caller's thread, 1 worker, sync and queued; no retry and no crash | WorksForOwner, StaysDrained (1 671 432 states) |
| `disable` | 1 tenant, 2 keys, 1 admin, 1 thread, 1 worker, annulments that are retried once, 1 crash, fairness | DisabledDrains, RevokedStaysOut, AcceptedOutlivesTenant (145 310 states) |
| `replies` | every operation, provider, credentials, status class, body and silence, 2 retries | TypeOK, DocsPaid, LookupHonest, ServerErrorIsTransient, and the refinement ContractKept (3 524 states) |
| `dialects` | two lines of every combination of 3 prices, 2 quantities, 2 discounts, with and without tax, 3 rates, in tenths of a cent; every NIT of up to 2 symbols and some of 3, 3 types, 2 totals | TypeOK, LinesAgree, XmlTellsWhatWasSent, SameInvoice (3 193 344 states) |
| `doubleclick` | no fault at all | OneValidDocPerRef violated |
| `annuldlq` | an annulment whose calls fail | RejectedHasNoDoc violated |
| `secondreject` | two rejections of one reference | FinalFailurePersists violated |

`calm` and `sequential` against the violated runs draw the line: exactly once holds
as long as nothing is lost, nobody crashes and no order is posted again before
the first answer, and each of these conditions is needed. `calm` takes no lost
answers, crashes or blank uuids because each breaks OneDocPerRow or RestMirrors;
no references because the double click does; no transient answer to annulments
because on_failure does. What is left is all interleavings of posts, annulments
(two of one invoice included), retries, refusals and answers that raise; `Calm` in
`GatewayInv` says it in one formula, and the theorems of `GatewayCalmProofs` are
about every instance that satisfies it.

### The abstract specifications

`InvoiceLifecycle` knows no processes: an invoice has a status and a uuid, SAT has
documents issued for it and annulled. The mapping of `GatewayProps` (`Lifecycle`)
takes status and uuid from the row and the documents from the ledger. `Promise` says
what a caller may count on under every fault: a posted invoice never goes back to
PENDING nor from PENDING to ANNULLED, CERTIFIED and ANNULLED are never claimed
without SAT, and a uuid shown was issued for that invoice; `PromiseIsHonest` derives
that nothing is ever invented (in the gateway's own terms, StatusBackedBySat). `Ideal`
is one document per invoice and a status that follows it; its theorem `IdealIsExact`
says what that is good for. Every step of the code is an abstract step or a stutter, except that
REJECTED and CERTIFIED may follow each other in `Promise` (late answers of a second
run, failed annulments), which is what the findings below are about.

`TenantDirectory` is the admin API without overlap: a key opens at most one tenant,
from its registration or rotation until the next one or the tenant's end, and a
caller enters with the key that opens the tenant at that moment. The mapping
(`Directory`) has a caller enter at its SELECT, although the code finds out only
when it has verified the hashes: whatever is committed in between, the caller is
let in as of the SELECT, which is the point where the code's answer is decided.

`ProviderCall` is what `Gateway` assumes of a call: it is refused for its
configuration, or ends as one of the seven replies. `ContractKept` shows that the
FELplex adapter, against every HTTP answer, and the mock are such a provider. Both
sides use the operators of `ProviderContract`, so that the properties of `Gateway`,
for the set of all replies, are those of the gateway on this adapter.

### Findings

The violated runs state what the repository says of itself, and TLC shows a
behaviour of the code that does otherwise.

- `doubleclick`: README.md:17 promises callers not to "worry about race conditions
  when an order is double-clicked". The second POST finds the PENDING row, and
  `create_invoice` dispatches a task for it again; both tasks certify.
- `annuldlq`: models.py:87 says "REJECTED (SAT NO)". The task of an annulment
  that fails for good makes its certified invoice REJECTED, the document being valid.
- `secondreject`: tasks.py:30 says a final failure is persisted as REJECTED.
  The second one of a reference is refused by the constraint and dropped: the row
  stays PENDING for ever, with no task.

The model shows more of the kind, which the properties that hold step around and
which have no run of their own:

- two rows of one reference can be active (models.py:72 says one): the constraint
  includes the status, so a PENDING row can join one that was certified between the
  request's SELECT and INSERT;
- a certification is made twice for one row by a retry after a timeout
  (felplex.py:202) or by the redelivery of a task whose worker died between SAT's
  answer and its commit (celery_app.py:24); the row shows one document of two. This
  is why OneDocPerRow is a property of `calm` only;
- an annulment that was carried out but timed out is refused when tried again, and the
  row stays CERTIFIED for an annulled document (`RestMirrors` in `calm` only);
- a valid answer without a uuid makes the row CERTIFIED without one
  (felplex.py:285), and wipes the uuid of a run that certified the row meanwhile:
  `annul_now` refuses it for good, and the queued annulment of such a row leaves no
  trace (services.py:172);
- a task whose row cannot be read again after its commit (services.py:157) fails although
  its answer is stored, and `on_failure` makes the row REJECTED that has just been
  CERTIFIED; a retry that the broker does not take is gone, without `on_failure`;
- exceptions other than ProviderTransientError reach `invoice.dlq` at the first attempt
  (README.md:170 says ten retries), and the XML of the attempt is rolled back although
  models.py:98 says it is always present: XmlUnlessFailed says that this is the only way;
- the loser of two creations of one tenant name gets an IntegrityError and not the 409
  of tests/test_admin.py:56 (`create_tenant_insert`), and a creation that dies before
  its answer leaves a tenant whose key nobody knows (KeyReachesSomebody is stated for
  `losses = 0`);
- a 5xx answer to a NIT lookup that is not JSON is reported as a NIT that was not
  found, where `certificar` and `anular` would raise (ServerErrorIsTransient is about
  those two);
- the providers `infile` and `digifact`, which the schema accepts, are served by the mock,
  and their invoices are CERTIFIED with invented uuids;
- with prices that include the tax, the XML takes the discount from the amount without
  tax (xml_builder.py:112) while FELplex is sent both as given: 11.20 less 1.12 is 9.95
  in the one and 10.08 in the other. XmlTellsWhatWasSent bounds the difference by the tax
  on the discount;
- a NIT with a tab or a newline at its end keeps it in the XML and loses it in FELplex's
  payload (felplex.py:135): "CF" and a tab is no final consumer in the one and is in the
  other. SameInvoice says that there is no other difference between the two receivers;
- a total with fractions of a cent is rounded in the XML and not in FELplex's payload, and
  a tax of half a cent may be rounded up here and down there (SameInvoice bounds both).

### Bounds, and why they suffice

- `MaxRequests` (2 to 4) counts POSTs of both kinds. The properties relate two
  rows of a reference, or two runs of a row; two requests give both, with crash
  redelivery adding a third run. `EnoughRows` asserts that ids never run out.
- `MaxRetries` is 1 (2 in `annuldlq` and `replies`) where the code has 10: a first
  attempt, a retry and a final failure are the three cases there are.
- `Uuids` bounds the documents SAT issues. When all are used, only replies
  that issue none remain, so a run sees two documents and not a third;
  the properties are about the second one.
- `MaxCrashes`, `MaxOutages`, `MaxLosses`: one each, anywhere. AcceptedNotLost is stated
  for `outages = 0`, since an outage during `on_failure`, or of the broker when a task is
  to be retried, does lose the task.
- `Keys` bounds creations and rotations: when all are drawn, only requests that draw
  none go on. Three or four give two rotations of one tenant next to another tenant's key.
- The service runs have one thread and one worker; overlap of their kind is in `faults`
  and `live`, and the admin and the crash provide the interference these runs are about.
  `disable` has one document, which both POSTs of the reference compete for. That
  retries and redeliveries bring no work back is left to the proof of `DrainedForGood`.
- `dialects`: in tenths of a cent, 0.001 and 9.990 are the ends of rounding, 0.556 has a
  fraction of a cent; 0.5 and 3 units round and multiply; 7.003 is a discount below one
  line and above another; of the totals, 1.004 is rounded down and 1.005 is a tie, as is
  the tax of 0.125. NITs of up to two symbols have every pair of neighbours, and of three
  symbols those with a dash, blank or tab between two others.
- The proofs drop all these bounds.

A behaviour of the gateway ends when all requests are used and everything is idle
(`rest` stutters there), so TLC's deadlock check is on there: no process ever waits for
a lock that is not given back. It is off in `dialects` only, where the documents are
done and nothing follows.

### Fairness

`FairSpec` has weak fairness of each request thread's and each worker's steps,
not of requests, crashes or outages. The code justifies it: the provider call has
a timeout (`config.py:26`), every other call is to a database and a broker
that are up, nothing takes two row locks at a time, and Celery consumes whatever is
queued. WF per process, not per action, is enough since a process has at most one
kind of step to take. Retry countdowns are delays only. `FairServiceSpec` is the same
for the whole service, authentication included; admins and callers need not do anything.

AcceptedSettles excuses two cases, both named in it: a row shadowed by a settled
row of its reference (`secondreject` shows why) and a database outage.
AnnulmentConcludes starts from a queued annulment while its row is CERTIFIED with a
uuid, and excuses these two and a third: a second certification of the row that is
answered without a uuid may wipe the one that is to be annulled. Two annulments are
outside of it, which `annul_now` drops without a commit or an event: one that is
delivered before the row is certified (services.py:168) and one of a row without a uuid
(services.py:172). An annulment refused for its configuration leaves no event either
(services.py:183); it cannot happen to a certified row of the model, where the tenants'
configurations do not change, as no operation of the code changes them.

## What is proved

For every instance, and with no bound of the configurations:

| Module | Theorem | Statement |
|---|---|---|
| `GatewayProofs` | `TypeCorrect`, `TypesKept` | `Spec => []TypeInv`, `Spec => []TypeOK` |
| | `Safety` | `Spec => []SafetyInv`, the inductive invariant |
| | `RowsUnique` | `Spec => []UniqueIndex` |
| | `UuidsAuthentic` | `Spec => []MirrorAuthentic` |
| | `StatusesBacked` | `Spec => []StatusBackedBySat` |
| | `AuditComplete` | `Spec => []AuditExplainsStatus` |
| | `TasksAlwaysHaveRows` | `Spec => []TasksHaveRows` |
| | `AcceptedNeverLost` | `Spec => []AcceptedNotLost` |
| | `ProcessesStayInStep` | `Spec => []ProcessesInStep` |
| | `XmlIsKept` | `Spec => []XmlUnlessFailed` |
| `GatewayRefinementProofs` | `PromiseIsKept` | `Spec => PromiseKept`, that is `Lifecycle!Promise` |
| `GatewayCalmProofs` | `CalmSafety` | `Calm /\ Spec => [](Calm /\ CalmInv)`, a second inductive invariant |
| | `LivesIdeally` | `Calm /\ Spec => IdealLife`, that is `Lifecycle!Ideal` |
| | `CertifiedOnce` | `Calm /\ Spec => []OneDocPerRow` |
| | `RestTells` | `Calm /\ Spec => []RestMirrors` |
| | `AloneSafety` | `Alone /\ Spec => [](Alone /\ AloneInv)`, a third |
| | `OrdersHaveOneDoc` | `Alone /\ Spec => []OneValidDocPerRef` |
| `InvoiceLifecycleProofs` | `PromiseIsHonest` | `Promise => []NothingInvented` |
| | `IdealIsExact` | `Ideal => [](OneDocument /\ StatusTells)` |
| `TenantProofs` | `TenantsSafe` | `TenantSpec => []TenantInv`, the inductive invariant |
| | `TenantTypes`, `NamesStayUnique`, `SessionsAreOwn`, `TrailExplains`, `KeyInForceIsShown` | the invariants of `overlap` |
| | `RevocationIsFinal` | `TenantSpec => RevokedStaysRevoked` |
| | `DirectoryIsKept` | `TenantSpec => DirectoryKept`, that is `Directory!Spec` |
| `TenantGatewayProofs` | `OwnersAlone` | `ServiceSpec => []WorksForOwner` |
| | `ServesInvoices`, `ServesTenants` | `ServiceSpec => G!Spec` and `ServiceSpec => T!TenantSpec`: the service implements `Gateway` and `TenantAdmin` |
| | `DrainedForGood` | `ServiceSpec => StaysDrained` |
| | `ServiceRevokes`, `ServiceKeepsPromise` | `ServiceSpec => T!RevokedStaysRevoked` and `ServiceSpec => G!PromiseKept` |
| `AdapterProofs` | `AdapterTypes`, `DocsArePaid`, `LookupsAreHonest`, `ServerErrorsAreTransient` | the invariants of `replies` |
| | `AdapterKeepsContract` | `Spec => ContractKept` |
| `DteProofs` | `DteSafe` | every line of the XML is what the arithmetic makes of its item |
| | `AmountsAreNat`, `LinesStayClose`, `XmlTellsTheTruth` | TypeOK, LinesAgree, XmlTellsWhatWasSent |
| | `OneInvoice` | `Spec => []SameInvoice` |

Assumptions, which TLC evaluates in every run. `Gateway`: threads and workers are
different processes (`ProcessesAreDisjoint`), bounds are naturals (`BoundsAreNat`), the
environment's sets are what their comments say (`EnvironmentAssumption`), None is not
an id (`NoneIsNoValue`) and the empty string no uuid (`BlankIsNoUuid`). `TenantAdmin`: None is no data (`NoneIsNoData`), losses are a
natural (`LossesAreNat`). `TenantGateway` repeats the assumptions of both.
`Adapters`: retries are a natural (`RetriesAreNat`), None is no answer
(`NoneIsNoAnswer`) and no provider (`NoneIsNobody`). `Dte`: amounts and rates are
naturals, and quantities, totals and the parts of a cent are positive
(`AmountsAssumption`); the number of lines is a natural (`LinesAreNat`), the types are
those of the schema (`TypesAssumption`) and a NIT is a sequence of symbols
(`NitsAssumption`).

### The gateway

None of the properties is inductive, because a process commits what it computed from
an old object and an old answer. `SafetyInv` adds what a process may rely on meanwhile:

- `TypeInv`: types, and which fields mean something at which `pc` (`Shaped`);
- `RowsExist`: every message, process and accepted invoice names an inserted row;
- `AnswersBacked`: an `ok` in a process's hands is backed by the ledger, and so is the
  uuid an annulment loaded. Stable, because SAT's record only grows (`LedgerGrows`);
- `NeverAhead`: while a row is PENDING, so is every loaded object of it. This is what
  makes an UPDATE that skips unchanged columns harmless: a run that read CERTIFIED
  cannot leave a PENDING row as it is and end its task;
- `AcceptedKept`: for an accepted PENDING row, the task is in the queue or in the
  hands of a *worker*. (`HasWork` in the property also counts threads, which is
  weaker and not inductive: a thread may die.)

The proof goes by four lemmas on what a step can do, each a case for each action:
`RowStep` (the table changes by at most one lawful commit the constraint admits),
`JobStep` (how a process's record evolves), `MirrorStep` (what a row may say of
SAT afterwards), and `AcceptedStep` with its lemmas on how tasks move. The
properties follow from those without looking at the actions again.

`XmlIsKept` has an invariant of its own, `XmlRemembered`: an object that has the XML
was loaded from a row that has it. With it a commit never takes the XML from a row,
and a row that settles without one is a final failure's.

`PromiseIsKept` needs no further invariant. `LedgerStep` says that a step touches the
table or the ledger and never both, so that each maps to one abstract action;
`PendingSaved` that a run which commits a PENDING row certifies it, rejects it or
leaves status and uuid alone, since by `NeverAhead` its object is PENDING too and, by
`Shaped`, an annulment's object is not; the rest is SafetyInv in the next state.

### Exactly once

`Calm` restricts the constants only: no crash and no outage, no references, and
neither blank, lost nor torn answers to certifications nor any but `ok` and `reject`
to annulments. Misconfigured tenants, retries, final failures, `?sync=true` and any
number of processes stay. None of the three properties follows from SafetyInv, which
lets many runs work on one row. `CalmInv` adds:

- `SoleTask`: the certification of a row is to be done by one message or one process,
  and only while the row is PENDING (`Carries`, `Asks`). It is what a retry could
  break, by publishing besides being redelivered, and a request, by dispatching twice;
- `RowInStep`: SAT is at most one commit ahead of the row, and whenever it is, a
  process holds the answer (`Brings`, `Ends`);
- `CalmRun`: a run's object is up to date but for an annulment by another run;
- `VoidedShown`: only documents that a row has shown are annulled.

Three lemmas say what a step does, each again by cases on the actions: `TaskMove`
(the task is taken, given, opened with its row, or dropped; never copied), `RowMove`
(a row is posted, certified by who brings its document, rejected by who carries the
task and has none, annulled by who ended it, or still) and `LedgerMove` (SAT answers
one run and changes nothing else). Invariance and refinement are consequences of these.

### One order, one document

`Calm` has no references, since a second POST of a PENDING order already breaks
OneValidDocPerRef (`doubleclick`). `Alone` keeps them and restricts the caller instead:
one thread, `?sync=true`, no crash, no blank reference, no certification whose answer is
lost or raises after the fact. Refusals, 5xx answers, blank uuids, answers that raise and
all faults of annulments stay, for any number of tenants and references.
`AloneInv` says what waiting buys:

- `NothingQueued`: nothing is left to the workers, so that `on_failure` never runs;
- `OneActive`: a reference has one row at most that is PENDING or CERTIFIED;
- `AloneRun`: what the thread read is still so when it commits. The row that it certifies
  is PENDING, the one that it annuls CERTIFIED, and the reference that it inserts is free;
- `AloneRow`: a row has one document at most, none if it is REJECTED, none valid if it is
  ANNULLED, and a PENDING row has one only in the moment before its commit.

The commit that follows an `ok` is the step to watch: that the unique constraint admits
it is what keeps the document from being forgotten, and it follows from `OneActive`.

### Tenants, adapters and documents

`TenantInv` adds to types and properties: keys stay with the tenant they were given to
(`KeysBelong`); an admin's object may miss later keys and a later deactivation but never
knows of a deactivation the table has not seen (`AdminsInStep`), so that its UPDATE
brings nothing back; a caller's snapshot holds only keys that were given
(`SessionsInStep`). Keys are drawn fresh, so that of the rows of one SELECT at most one
can match, which is what the refinement rests on.

`RevocationIsFinal` splits a step into what it does to the table (`ClosedStaysClosed`:
a key that opens nothing is never written back, which is `AdminsInStep` and freshness)
and what it lets a caller find there (`NobodyGetsIn`).

In the whole service, `PartsStep` shows that each step is a step of `Gateway`, or leaves
it alone, and likewise for `TenantAdmin`. So the service implements both
(`ServesInvoices`, `ServesTenants`), and what is proved of either holds of it, each with
its inductive invariant. `WorksForOwner` needs both at once and one fact more: the row a
thread reads again after its task's commit (`ReadsBack`) belongs to the tenant it works
for. No step changes a row's tenant, so only the thread's own steps need a look
(`OwnerStands` passes by the others).

`DrainedForGood` is the half of DisabledDrains that is safety: that the work for a
disabled tenant ends is left to TLC, that it does not begin again is proved. A message
or a worker gets an invoice only from a message, a worker or a thread that had it, or
from an annulment (`WorkSpreads`); a thread has only invoices of its session's tenant
(`WorksForOwner`, `ReadsBack`), and no session is the disabled tenant's
(`NobodyFindsDisabled`). `RevocationIsFinal` and `PromiseIsKept` come over to the whole
service by the two refinements.

`AdapterProofs` follows one call: `CallInv` relates the process's `pc` to what FELplex
did, `Explained` relates an outcome to the response it was made of. Each theorem is then
a look at the last.

`DteProofs` bounds each `quantize` by half a unit (`RoundError`) and sums the errors of
the price (times the quantity), the line and the tax, which is `Drift` (`LineError`). No
bound is assumed on prices, quantities or the parts of a cent; products are hidden behind
names wherever only their bounds matter. `XmlTellsTheTruth` adds `DiscountApart`: what
the XML computes, before rounding, is at most what FELplex is sent, and less by the tax
on the discount at most, also where one of the two is kept from going below zero.

`OneInvoice` is about three cleanings of a NIT, which drop symbols one at a time by a
recursive function over the sequence (`Without`). What it computes is proved by induction
over a *set* of numbers (`Induction`, from the least element of its complement, by
`WFMin` of WellFoundedInduction): a function with the recursion's equations exists
(`KeptExists`), it keeps no symbol that is to be dropped (`WithoutDrops`), and it leaves
alone a sequence that has none (`WithoutKeeps`). So the XML's cleaning leaves the
validated NIT as it is, and FELplex's does nothing to it but `Strip` (`CleanNit`,
`BothClean`), which is nothing either if it has no whitespace (`StripKeeps`). The totals
are half a unit apart as one of them is rounded, and `TaxesAgree` compares the two ways to
round the tax.

### Only model-checked

Liveness: AcceptedSettles, ComesToRest, AnnulmentConcludes, DisabledDrains,
RevokedStaysOut and AcceptedOutlivesTenant rest on fairness and so on ENABLED, which
the prover does not do. Their safety halves are proved where they have one: settled
invoices do not become PENDING (`PromiseIsKept`), tasks are not lost
(`AcceptedNeverLost`), a revoked key stays out (`RevocationIsFinal`), a disabled
tenant's work stays done (`DrainedForGood`). Every other property of a passing run is a theorem.

## Not modelled, and the plan

Worth adding: quantities with more than two decimals and rates with fractions of a
percent, which the schema takes. The XML computes with them as they are, so that the
bounds of LinesAgree would change in their units only.

Left out for good:

- how FELplex reads the time of issue, which is sent without its offset
  (felplex.py:143): not in the repository;
- XML layout and wording, names, addresses, logging: no decision depends on them;
- settings, application wiring, engine and pool: no state of the program;
- migrations: generated, and the schema is modelled from `models.py`;
- password hashing, Celery, SQLAlchemy, httpx, pydantic: libraries, modelled by what
  the code uses of them.

The README's example invoice of 200.00 with tax comes to 200.01 in the XML: `Drift`
allows for it, and nothing in the code compares the two.
