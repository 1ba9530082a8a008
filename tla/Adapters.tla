------------------------------ MODULE Adapters ------------------------------
(***************************************************************************)
(* The certificador adapters below the service layer: which adapter the    *)
(* registry gives a tenant, what FELplexCertificador makes of every HTTP   *)
(* answer, the mock, and the NIT lookup endpoint.  A task calls its        *)
(* adapter once per attempt; a step is one side of the HTTP exchange.      *)
(***************************************************************************)
EXTENDS Naturals, ProviderContract

CONSTANTS
    None,
    MaxRetries      \* _BaseInvoiceTask.max_retries

ASSUME RetriesAreNat == MaxRetries \in Nat
ASSUME NoneIsNoAnswer == None \notin Answer
ASSUME NoneIsNobody == None \notin {"mock", "felplex"}

VARIABLES
    pc,         \* idle; asked: the adapter is called; served: the provider is
                \* done with the request; over: the adapter has returned or raised
    op, tenant, \* what is called, and for whom
    attempt,    \* self.request.retries of the task
    http,       \* what comes back over the wire
    carrier,    \* who did what this call asked for, None if nobody
    answer, got,\* what the adapter reports, and whether a uuid is in it
    docs,       \* how often the task's operation was carried out
    undecided   \* how many of its calls came back without a decision

vars == <<pc, op, tenant, attempt, http, carrier, answer, got, docs, undecided>>

Ops == {"certificar", "anular", "consultar_nit"}

\* TenantCreate.provider, and what provider_config has of what FELplex needs.
Providers == {"mock", "felplex", "infile", "digifact"}
Credentials == {"entity_id", "api_key"}
Tenant == [provider : Providers, config : SUBSET Credentials]
-----------------------------------------------------------------------------
(* HTTP.  A status counts by its class.  A body is no JSON (text), or JSON:   *)
(* a scalar, a list, of which the first record counts, or a dict.  fields     *)
(* are the fields with a truthy value; "odd" stands for a value whose shape   *)
(* makes the code that reads the body raise.                                  *)

\* `valid` or `success` (verdict), `uuid`, `sat.uuid`; a NIT record's names.
Fields == [certificar    |-> {"verdict", "uuid", "sat.uuid", "odd"},
           anular        |-> {"verdict"},
           consultar_nit |-> {"name", "odd"}]

Body(o) == [form : {"text", "scalar"}, fields : {{}}]
           \cup [form : {"list", "dict"}, fields : SUBSET Fields[o]]

Response(o) == [class : {2, 3, 4, 5}, body : Body(o)]

\* TimeoutException, or another HTTPError: no response.
Silence == [class |-> 0, body |-> [form |-> "none", fields |-> {}]]

Stated(class, r) == r.class \in class /\ r.body.form # "text"

\* The provider says it did it, or found it; or says it did not.
SaysYes(o, r) == IF o = "consultar_nit"
                 THEN /\ Stated({2}, r) /\ r.body.form \in {"list", "dict"}
                      /\ "name" \in r.body.fields
                 ELSE /\ Stated({2}, r) /\ r.body.form = "dict"
                      /\ "verdict" \in r.body.fields
SaysNo(o, r) == IF o = "consultar_nit"
                THEN \/ Stated({4}, r)
                     \/ Stated({2}, r) /\ r.body.fields = {}
                ELSE Stated({2, 3, 4}, r) /\ r.body.form = "dict" /\ ~SaysYes(o, r)
Decided(o, r) == SaysYes(o, r) \/ SaysNo(o, r)

\* A provider may fail to say what it did, but it does not lie about it.
Honest(o, r, did) == (SaysYes(o, r) => did) /\ (SaysNo(o, r) => ~did)
-----------------------------------------------------------------------------
(* The adapters. *)

\* Unknown providers, and those without an adapter, get the mock.
get_certificador(t) == IF t.provider = "felplex" THEN "felplex" ELSE "mock"

\* A faulty _post and _delete that look at the body first.
TransientText(r) == r = Silence \/ r.body.form = "text"

\* _post and _delete raise ProviderTransientError.
Transient(r) == \/ r = Silence
                \/ r.body.form = "text"
                \/ r.class = 5

\* ... and _get, which takes a body that is no JSON for an empty dict.
GetTransient(r) == \/ r = Silence
                   \/ r.body.form # "text" /\ r.class = 5

\* An adapter that asks again for a certification answered without its uuid.
certificarInsisting(r) ==
    CASE Transient(r)                -> "transient"
      [] ~Transient(r) /\ r.body.form # "dict" -> "exception"
      [] OTHER -> IF r.class # 2 \/ "verdict" \notin r.body.fields THEN "reject"
                  ELSE IF "odd" \in r.body.fields THEN "exception"
                  ELSE IF {"uuid", "sat.uuid"} \cap r.body.fields = {} THEN "transient"
                  ELSE "ok"

\* A FELplex adapter that trusts the status code.
certificarByStatus(r) ==
    CASE Transient(r)                -> "transient"
      [] ~Transient(r) /\ r.body.form # "dict" -> "exception"
      [] OTHER -> IF r.class = 2 THEN "ok" ELSE "reject"

certificar(r) ==
    CASE Transient(r)                -> "transient"
      [] ~Transient(r) /\ r.body.form # "dict" -> "exception"
      [] OTHER -> IF r.class # 2 \/ "verdict" \notin r.body.fields THEN "reject"
                  ELSE IF "odd" \in r.body.fields THEN "exception" ELSE "ok"

anular(r) ==
    CASE Transient(r)                -> "transient"
      [] ~Transient(r) /\ r.body.form # "dict" -> "exception"
      [] OTHER -> IF r.class # 2 \/ "verdict" \notin r.body.fields THEN "reject" ELSE "ok"

\* A lookup that is content with any record.
consultar_nitAny(r) == IF GetTransient(r) THEN "transient"
                       ELSE IF r.class # 2 THEN "reject" ELSE "ok"

\* reject is ok=False: not found, or found without a name.
consultar_nit(r) ==
    IF GetTransient(r) THEN "transient"
    ELSE IF r.class # 2 THEN "reject"
    ELSE CASE "odd" \in r.body.fields -> "exception"
           [] "name" \in r.body.fields -> "ok"
           [] OTHER -> "reject"

Read(o, r) == CASE o = "certificar" -> certificar(r)
                [] o = "anular" -> anular(r)
                [] o = "consultar_nit" -> consultar_nit(r)

\* The uuid of a certification is data.uuid or sat.uuid; an annulment has its own.
HasUuid(o, r) == \/ o = "anular"
                 \/ o = "certificar" /\ {"uuid", "sat.uuid"} \cap r.body.fields # {}

\* The status code of GET /v1/nit: only ProviderConfigError is caught.
lookup_nit(a) == CASE a \in {"ok", "reject"} -> 200
                   [] a = "config" -> 400
                   [] OTHER -> 500
-----------------------------------------------------------------------------
TypeOK == /\ pc \in {"idle", "asked", "served", "over"}
          /\ op \in Ops /\ tenant \in Tenant
          /\ attempt \in 0 .. MaxRetries
          /\ http \in Response(op) \cup {Silence, None}
          /\ carrier \in {"mock", "felplex", None}
          /\ answer \in Answer \cup {None} /\ got \in BOOLEAN
          /\ docs \in 0 .. attempt + 1 /\ undecided \in 0 .. attempt + 1

Init == /\ pc = "idle"
        /\ op \in Ops /\ tenant \in Tenant
        /\ attempt = 0 /\ http = None /\ carrier = None
        /\ answer = None /\ got = FALSE /\ docs = 0 /\ undecided = 0

\* A handler or a task calls the adapter of its tenant.
Call(o, t) ==
    /\ pc = "idle"
    /\ pc' = "asked" /\ op' = o /\ tenant' = t
    /\ UNCHANGED <<attempt, http, carrier, answer, got, docs, undecided>>

Over(a, u) == pc' = "over" /\ answer' = a /\ got' = u

\* _validate raises ProviderConfigError; a NIT of dashes and blanks is refused.
refuse ==
    /\ pc = "asked"
    /\ get_certificador(tenant) = "felplex"
    /\ \/ tenant.config # Credentials /\ Over("config", FALSE)
       \/ tenant.config = Credentials /\ op = "consultar_nit" /\ Over("reject", FALSE)
    /\ UNCHANGED <<op, tenant, attempt, http, carrier, docs, undecided>>

mock_answers ==
    /\ pc = "asked"
    /\ get_certificador(tenant) = "mock"
    /\ carrier' = "mock"
    /\ docs' = docs + 1
    /\ Over("ok", op # "consultar_nit")
    /\ UNCHANGED <<op, tenant, attempt, http, undecided>>

\* FELplex does what it is asked, or not, and answers, or not.
felplex_serves ==
    /\ pc = "asked"
    /\ get_certificador(tenant) = "felplex"
    /\ tenant.config = Credentials
    /\ \E r \in Response(op) \cup {Silence}, did \in BOOLEAN :
          /\ Honest(op, r, did)
          /\ http' = r
          /\ carrier' = IF did THEN "felplex" ELSE None
          /\ docs' = IF did THEN docs + 1 ELSE docs
          /\ undecided' = IF Decided(op, r) THEN undecided ELSE undecided + 1
    /\ pc' = "served"
    /\ UNCHANGED <<op, tenant, attempt, answer, got>>

read_response ==
    /\ pc = "served"
    /\ Over(Read(op, http), Read(op, http) = "ok" /\ HasUuid(op, http))
    /\ UNCHANGED <<op, tenant, attempt, http, carrier, docs, undecided>>

\* A faulty task without max_retries.
autoretry_forever ==
    /\ pc = "over" /\ answer = "transient"
    /\ op # "consultar_nit"
    /\ attempt' = attempt + 1
    /\ pc' = "asked" /\ http' = None /\ carrier' = None /\ answer' = None /\ got' = FALSE
    /\ UNCHANGED <<op, tenant, docs, undecided>>

\* Celery runs a task again that raised ProviderTransientError.
autoretry ==
    /\ pc = "over" /\ answer = "transient"
    /\ op # "consultar_nit"
    /\ attempt < MaxRetries
    /\ attempt' = attempt + 1
    /\ pc' = "asked" /\ http' = None /\ carrier' = None /\ answer' = None /\ got' = FALSE
    /\ UNCHANGED <<op, tenant, docs, undecided>>

\* The task or the handler is done with its answer.
finish ==
    /\ pc = "over"
    /\ pc' = "idle" /\ attempt' = 0 /\ http' = None /\ carrier' = None
    /\ answer' = None /\ got' = FALSE /\ docs' = 0 /\ undecided' = 0
    /\ UNCHANGED <<op, tenant>>

Next == \/ \E o \in Ops, t \in Tenant : Call(o, t)
        \/ refuse \/ mock_answers \/ felplex_serves \/ read_response
        \/ autoretry \/ finish

Spec == Init /\ [][Next]_vars
=============================================================================
