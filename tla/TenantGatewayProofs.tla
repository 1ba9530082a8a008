------------------------ MODULE TenantGatewayProofs -------------------------
(***************************************************************************)
(* The whole service implements each of its parts, so that their theorems  *)
(* hold of it, and no thread ever works for anybody but its caller.        *)
(***************************************************************************)
EXTENDS TenantGateway, TLAPS

\* The steps of each part keep its invariant, inside the service as outside.
LEMMA GatewaySafe == ASSUME G!SafetyInv, [G!Next]_(G!vars) PROVE G!SafetyInv'
BY G!SafetyStep, NoneIsNoValue, BlankIsNoUuid, EnvironmentAssumption,
   ProcessesAreDisjoint, BoundsAreNat

\* The same for the tenants: no handler disturbs who may call.
LEMMA TenantsSafe == ASSUME T!TenantInv, [T!TenantNext]_(T!tenantVars) PROVE T!TenantInv'
BY T!TenantStep, NoneIsNoData, LossesAreNat

\* What the tables and the threads look like.
LEMMA ServiceTyped ==
    ASSUME ServiceInv
    PROVE  /\ G!TypeInv /\ G!RowsExist
           /\ session \in [Clients -> T!Session]
           /\ \A c \in Clients : session[c].pc = "handler" => session[c].tenant \in Tenants
<1>1. G!TypeInv /\ G!RowsExist
  BY DEF ServiceInv, G!SafetyInv
<1>2. session \in [Clients -> T!Session] /\ T!SessionsInStep
  BY DEF ServiceInv, T!TenantInv, T!TenantTypeOK
<1> QED BY <1>1, <1>2 DEF T!SessionsInStep, T!Session

\* A thread at work has a session; a thread without work forgets it like a
\* handler that answers.
LEMMA ThreadAnswers ==
    ASSUME ServiceInv, NEW c \in Clients, job[c].pc # "idle" \/ session[c].pc = "handler",
           UntilAnswered(c) \/ Forget(c), UNCHANGED directory
    PROVE  T!respond(c) \/ UNCHANGED T!tenantVars
<1>1. session[c].pc = "handler"
  BY DEF ServiceInv, WorksForOwner
<1> QED BY <1>1 DEF UntilAnswered, Forget, T!respond, directory, T!tenantVars

\* Each step of the service is a step of the invoice path and one of the tenants,
\* or leaves the one or the other alone.
LEMMA PartsStep ==
    ASSUME ServiceInv, [ServiceNext]_allVars
    PROVE  [G!Next]_(G!vars) /\ [T!TenantNext]_(T!tenantVars)
<1> DEFINE Goal == [G!Next]_(G!vars) /\ [T!TenantNext]_(T!tenantVars)
<1>1. UNCHANGED gatewayVars => UNCHANGED G!vars
  BY DEF gatewayVars, G!vars, G!counters
<1>2. UNCHANGED <<directory, session>> => UNCHANGED T!tenantVars
  BY DEF directory, T!tenantVars
<1>3. ASSUME NEW c \in Clients, T!respond(c) \/ UNCHANGED T!tenantVars
      PROVE  [T!TenantNext]_(T!tenantVars)
  BY <1>3 DEF T!TenantNext, T!SessionStep
<1>4. ASSUME NEW a \in Admins, administer(a) PROVE Goal
  BY <1>1, <1>4 DEF administer, T!TenantNext
<1>5. ASSUME NEW c \in Clients, NEW k \in Keys, present(c, k) PROVE Goal
  BY <1>1, <1>5 DEF present, T!TenantNext
<1>6. ASSUME NEW c \in Clients, authenticate(c) \/ serve_read(c) PROVE Goal
  BY <1>1, <1>6 DEF authenticate, serve_read, T!TenantNext, T!SessionStep
<1>7. ASSUME NEW c \in Clients, work(c) PROVE Goal
  <2>1. G!ClientStep(c) /\ UntilAnswered(c) /\ UNCHANGED directory
    BY <1>7 DEF work
  <2>2. job[c].pc # "idle"
    BY <2>1, ServiceTyped, G!OwnerKept, NoneIsNoValue, BlankIsNoUuid,
       EnvironmentAssumption,
       ProcessesAreDisjoint, BoundsAreNat DEF ServiceInv
  <2>3. G!Next
    BY <2>1 DEF G!Next
  <2> QED BY <1>3, <2>1, <2>2, <2>3, ThreadAnswers
<1>8. ASSUME NEW c \in Clients, serve(c) PROVE Goal
  <2>1. session[c].pc = "handler" /\ UntilAnswered(c) /\ UNCHANGED directory
    BY <1>8 DEF serve
  <2>2. G!Request(c)
    BY <1>8, <2>1, ServiceTyped DEF serve, G!Request
  <2>3. G!Next
    BY <2>2 DEF G!Next
  <2> QED BY <1>3, <2>1, <2>3, ThreadAnswers
<1>9. ASSUME NEW w \in Workers, worker_step(w) PROVE Goal
  BY <1>2, <1>9 DEF worker_step, G!Next
<1>10. ASSUME NEW r \in Clients \cup Workers, die(r) PROVE Goal
  <2>1. G!crash(r) /\ job[r].pc # "idle" /\ UNCHANGED directory
    BY <1>10 DEF die, G!crash
  <2>2. G!Next
    BY <2>1 DEF G!Next, G!Runners
  <2>3. CASE r \in Clients
    BY <1>3, <1>10, <2>1, <2>2, <2>3, ThreadAnswers DEF die
  <2>4. CASE r \notin Clients
    BY <1>2, <1>10, <2>1, <2>2, <2>4 DEF die
  <2> QED BY <2>3, <2>4
<1>11. CASE UNCHANGED allVars
  BY <1>1, <1>2, <1>11 DEF allVars
<1> QED BY <1>4, <1>5, <1>6, <1>7, <1>8, <1>9, <1>10, <1>11 DEF ServiceNext, ThreadStep
-----------------------------------------------------------------------------
(* Whoever works, works for the owner. *)

Owner(c) == /\ job[c].pc # "idle" => /\ session[c].pc = "handler"
                                    /\ job[c].obj.tenant = session[c].tenant
            /\ job[c].pc \in G!HasInvoice => row[job[c].inv].tenant = job[c].obj.tenant

\* A thread that a step passes by: the row it works on stays its tenant's.
LEMMA OwnerStands ==
    ASSUME ServiceInv, [ServiceNext]_allVars, NEW c \in Clients,
           job'[c] = job[c], session'[c] = session[c]
    PROVE  Owner(c)'
<1>1. G!TypeInv /\ G!RowsExist /\ [G!Next]_(G!vars) /\ c \in G!Runners
  BY ServiceTyped, PartsStep DEF G!Runners
<1>2. ASSUME job[c].pc \in G!HasInvoice
      PROVE  row'[job[c].inv].tenant = row[job[c].inv].tenant
  <2>1. job[c].inv \in Invoices /\ G!Exists(job[c].inv)
    BY <1>1, <1>2 DEF G!TypeInv, G!ProcessShape, G!Shaped, G!RowsExist, G!HasInvoice, G!PC
  <2> QED BY <1>1, <2>1, G!TenantStays, NoneIsNoValue, BlankIsNoUuid, EnvironmentAssumption,
             ProcessesAreDisjoint, BoundsAreNat
<1> QED BY <1>1, <1>2 DEF Owner, ServiceInv, WorksForOwner, G!ReadsBack

\* A thread that begins or goes on with a handler works for the tenant of its session.
LEMMA OwnerServes ==
    ASSUME ServiceInv, NEW c \in Clients, serve(c) \/ work(c)
    PROVE  Owner(c)'
<1>1. G!TypeInv /\ G!ReadsBack /\ session \in [Clients -> T!Session]
  BY ServiceTyped DEF ServiceInv
<1>2. job'[c].pc # "idle" => session' = session
  BY DEF serve, work, UntilAnswered
<1>3. CASE serve(c)
  <2>1. session[c].pc = "handler" /\ session[c].tenant \in Tenants
    BY <1>3, ServiceTyped DEF serve
  <2>2. \/ job'[c].pc = "idle"
        \/ /\ job'[c].obj.tenant = session[c].tenant
           /\ job'[c].pc \in G!HasInvoice => row'[job'[c].inv].tenant = session[c].tenant
    BY <1>1, <1>3, <2>1, G!RequestTakes, NoneIsNoValue, BlankIsNoUuid,
       EnvironmentAssumption,
       ProcessesAreDisjoint, BoundsAreNat DEF serve
  <2> QED BY <1>2, <2>1, <2>2 DEF Owner, G!HasInvoice
<1>4. CASE work(c)
  <2>1. /\ job[c].pc # "idle"
        /\ \/ job'[c].pc = "idle"
           \/ /\ job'[c].obj.tenant = job[c].obj.tenant
              /\ job'[c].pc \in G!HasInvoice => row'[job'[c].inv].tenant = job'[c].obj.tenant
    BY <1>1, <1>4, G!OwnerKept, NoneIsNoValue, BlankIsNoUuid, EnvironmentAssumption,
       ProcessesAreDisjoint, BoundsAreNat DEF work
  <2> QED BY <1>2, <2>1 DEF Owner, ServiceInv, WorksForOwner, G!HasInvoice
<1> QED BY <1>3, <1>4

\* Every step keeps every thread to the tenant of its session.
LEMMA OwnerStep ==
    ASSUME ServiceInv, [ServiceNext]_allVars, NEW c \in Clients PROVE Owner(c)'
<1>1. G!TypeInv /\ session \in [Clients -> T!Session]
  BY ServiceTyped
<1>2. ASSUME NEW d \in Clients, job'[d].pc = "idle" PROVE Owner(d)'
  BY <1>2 DEF Owner, G!HasInvoice
<1>3. ASSUME UNCHANGED <<job, session>> PROVE Owner(c)'
  BY <1>3, OwnerStands
<1>4. ASSUME NEW d \in Clients, UNCHANGED job, job[d].pc = "idle",
             \A e \in Clients \ {d} : session'[e] = session[e]
      PROVE  Owner(c)'
  BY <1>2, <1>4, OwnerStands
<1>5. ASSUME NEW r \in Clients \cup Workers, \A q \in G!Runners \ {r} : job'[q] = job[q],
             \A d \in Clients \ {r} : session'[d] = session[d],
             r \in Clients => Owner(r)'
      PROVE  Owner(c)'
  BY <1>5, OwnerStands DEF G!Runners
<1>6. ASSUME NEW r \in G!Runners,
             \/ r \in Clients /\ (G!Request(r) \/ G!ClientStep(r))
             \/ r \in Workers /\ G!WorkerStep(r)
             \/ G!crash(r)
      PROVE  \A q \in G!Runners \ {r} : job'[q] = job[q]
  BY <1>1, <1>6, G!OthersStand, NoneIsNoValue, BlankIsNoUuid, EnvironmentAssumption,
     ProcessesAreDisjoint,
     BoundsAreNat
<1>7. ASSUME NEW d \in Clients, UntilAnswered(d) \/ Forget(d)
      PROVE  \A e \in Clients \ {d} : session'[e] = session[e]
  BY <1>1, <1>7 DEF UntilAnswered, Forget
<1>8. ASSUME NEW a \in Admins, administer(a) PROVE Owner(c)'
  BY <1>3, <1>8 DEF administer, gatewayVars, T!AdminRequests, T!AdminStep, T!lose_request,
                    T!create_tenant_select, T!tenant_get, T!create_tenant_insert,
                    T!rotate_api_key_commit, T!deactivate_tenant_commit, T!refresh_and_answer
<1>9. ASSUME NEW d \in Clients, NEW k \in Keys, present(d, k) PROVE Owner(c)'
  <2>1. UNCHANGED job /\ session[d].pc = "idle"
    BY <1>9 DEF present, gatewayVars, T!get_current_tenant_select
  <2>2. \A e \in Clients \ {d} : session'[e] = session[e]
    BY <1>1, <1>9 DEF present, T!get_current_tenant_select
  <2>3. job[d].pc = "idle"
    BY <2>1 DEF ServiceInv, WorksForOwner
  <2> QED BY <1>4, <2>1, <2>2, <2>3
<1>10. ASSUME NEW d \in Clients, authenticate(d) \/ serve_read(d) PROVE Owner(c)'
  <2>1. UNCHANGED job /\ (session[d].pc = "verify" \/ job[d].pc = "idle")
    BY <1>10 DEF authenticate, serve_read, gatewayVars, T!get_current_tenant_verify
  <2>2. \A e \in Clients \ {d} : session'[e] = session[e]
    BY <1>1, <1>10 DEF authenticate, serve_read, T!get_current_tenant_verify, T!respond
  <2>3. job[d].pc = "idle"
    BY <2>1 DEF ServiceInv, WorksForOwner
  <2> QED BY <1>4, <2>1, <2>2, <2>3
<1>11. ASSUME NEW d \in Clients, serve(d) \/ work(d) PROVE Owner(c)'
  <2>1. (G!Request(d) \/ G!ClientStep(d)) /\ UntilAnswered(d)
    BY <1>11, ServiceTyped DEF serve, work, G!Request
  <2> QED BY <1>5, <1>6, <1>7, <1>11, <2>1, OwnerServes DEF G!Runners
<1>12. ASSUME NEW w \in Workers, worker_step(w) PROVE Owner(c)'
  <2>1. G!WorkerStep(w) /\ UNCHANGED session /\ w \notin Clients
    BY <1>12, ProcessesAreDisjoint DEF worker_step
  <2> QED BY <1>5, <1>6, <2>1 DEF G!Runners
<1>13. ASSUME NEW r \in Clients \cup Workers, die(r) PROVE Owner(c)'
  <2>1. \A q \in G!Runners \ {r} : job'[q] = job[q]
    BY <1>6, <1>13 DEF die, G!Runners
  <2>2. \A d \in Clients \ {r} : session'[d] = session[d]
    BY <1>7, <1>13 DEF die
  <2>3. job'[r].pc = "idle"
    <3>1. job \in [G!Runners -> G!Job] /\ job' = [job EXCEPT ![r] = G!Idle]
      BY <1>1, <1>13 DEF die, G!crash, G!TypeInv, G!TypeOK
    <3> QED BY <3>1 DEF G!Idle, G!Runners
  <2> QED BY <1>2, <1>5, <1>13, <2>1, <2>2, <2>3
<1> QED BY <1>3, <1>8, <1>9, <1>10, <1>11, <1>12, <1>13 DEF ServiceNext, ThreadStep, allVars,
                                                           gatewayVars

\* The service's invariant.
LEMMA ServiceStep == ServiceInv /\ [ServiceNext]_allVars => ServiceInv'
<1> SUFFICES ASSUME ServiceInv, [ServiceNext]_allVars PROVE ServiceInv'
  OBVIOUS
<1>1. G!SafetyInv' /\ T!TenantInv'
  BY PartsStep, GatewaySafe, TenantsSafe DEF ServiceInv
<1>2. \A c \in Clients : Owner(c)'
  BY OwnerStep
<1>3. WorksForOwner'
  BY <1>1, <1>2 DEF WorksForOwner, Owner, T!TenantInv, T!ActsAsOwnTenant
<1>4. G!ReadsBack'
  BY <1>2 DEF G!ReadsBack, Owner
<1> QED BY <1>1, <1>3, <1>4 DEF ServiceInv

\* It holds of a service that has just begun.
LEMMA ServiceStarts == ServiceInit => ServiceInv
<1> SUFFICES ASSUME ServiceInit PROVE ServiceInv
  OBVIOUS
<1>1. G!SafetyInv
  BY G!InitSafety, NoneIsNoValue, BlankIsNoUuid, EnvironmentAssumption,
     ProcessesAreDisjoint, BoundsAreNat
     DEF ServiceInit
<1>2. T!TenantInv
  BY T!TenantInitInv, NoneIsNoData, LossesAreNat DEF ServiceInit
<1>3. \A r \in G!Runners : job[r] = G!Idle
  BY DEF ServiceInit, G!Init
<1> QED BY <1>1, <1>2, <1>3 DEF ServiceInv, WorksForOwner, G!ReadsBack, G!Idle, G!Runners,
            G!HasInvoice

\* A thread works only on invoices of the tenant whose key it was shown, for any
\* number of tenants, keys, threads, workers and admins, whatever they do meanwhile.
THEOREM OwnersAlone == ServiceSpec => []WorksForOwner
<1>1. ServiceInv => WorksForOwner
  BY DEF ServiceInv
<1> QED BY <1>1, ServiceStarts, ServiceStep, PTL DEF ServiceSpec

\* The service implements the invoice path: what is proved of Gateway under every
\* fault holds behind authentication and among admins.
THEOREM ServesInvoices == ServiceSpec => G!Spec
<1>1. ServiceInit => G!Init
  BY DEF ServiceInit
<1>2. ServiceInv /\ [ServiceNext]_allVars => [G!Next]_(G!vars)
  BY PartsStep
<1> QED BY <1>1, <1>2, ServiceStarts, ServiceStep, PTL DEF ServiceSpec, G!Spec

\* It implements the tenants: a handler's answer is all that the invoice path adds
\* to a session.
THEOREM ServesTenants == ServiceSpec => T!TenantSpec
<1>1. ServiceInit => T!TenantInit
  BY DEF ServiceInit
<1>2. ServiceInv /\ [ServiceNext]_allVars => [T!TenantNext]_(T!tenantVars)
  BY PartsStep
<1> QED BY <1>1, <1>2, ServiceStarts, ServiceStep, PTL DEF ServiceSpec, T!TenantSpec
-----------------------------------------------------------------------------
(* What was done with stays done with. *)

\* The steps of the service that move work are steps of the invoice path, and an
\* annulment is only asked for by the owner of the invoice.
LEMMA WorkStaysAway ==
    ASSUME ServiceInv, [ServiceNext]_allVars, NEW t \in Tenants, Drained(t),
           NEW S, S = {i \in Invoices : ~G!Exists(i) \/ row[i].tenant = t}
    PROVE  /\ \A m \in G!Message : queue'[m] > 0 => m.inv \notin S
           /\ \A w \in Workers : job'[w].pc # "idle" => job'[w].inv \notin S
<1> DEFINE Goal == /\ \A m \in G!Message : queue'[m] > 0 => m.inv \notin S
                   /\ \A w \in Workers : job'[w].pc # "idle" => job'[w].inv \notin S
<1>1. G!TypeInv /\ G!RowsExist
  BY ServiceTyped
<1>2. \A m \in G!Message : queue[m] > 0 => m.inv \notin S
  BY <1>1 DEF G!RowsExist, Drained, AtWork
<1>3. \A w \in Workers : job[w].pc \in G!HasInvoice => job[w].inv \notin S
  BY <1>1 DEF G!RowsExist, G!Runners, Drained, AtWork, G!HasInvoice
<1>4. \A c \in Clients : job[c].pc \in G!HasInvoice => job[c].inv \notin S
  <2>1. ASSUME NEW c \in Clients, job[c].pc \in G!HasInvoice
        PROVE  G!Exists(job[c].inv) /\ row[job[c].inv].tenant # t
    <3>1. G!Exists(job[c].inv)
      BY <1>1, <2>1 DEF G!RowsExist, G!Runners
    <3>2. row[job[c].inv].tenant = session[c].tenant
      BY <2>1 DEF ServiceInv, G!ReadsBack, WorksForOwner, G!HasInvoice
    <3> QED BY <3>1, <3>2 DEF Drained, AtWork
  <2> QED BY <2>1
<1>5. \A q \in G!Runners : job[q].pc \in G!HasInvoice => job[q].inv \notin S
  BY <1>3, <1>4 DEF G!Runners
<1>6. ASSUME NEW r \in G!Runners,
             \/ r \in Clients /\ G!ClientStep(r)
             \/ /\ r \in Clients
                /\ \E u \in Tenants, ref \in Refs, sync \in SyncModes :
                      G!queue_invoice_select(r, u, ref, sync)
             \/ /\ r \in Clients
                /\ \E u \in Tenants, i \in Invoices \ S, sync \in SyncModes :
                      G!annul_invoice(r, u, i, sync)
             \/ r \in Workers /\ G!WorkerStep(r)
             \/ G!crash(r)
      PROVE  Goal
  BY <1>1, <1>2, <1>5, <1>6, G!WorkSpreads, NoneIsNoValue, BlankIsNoUuid,
     EnvironmentAssumption,
     ProcessesAreDisjoint, BoundsAreNat
<1>7. CASE UNCHANGED gatewayVars
  <2>1. \A w \in Workers : job[w].pc # "idle" => job[w].pc \in G!HasInvoice
    <3>1. ASSUME NEW w \in Workers PROVE w \notin Clients /\ w \in G!Runners
      BY ProcessesAreDisjoint DEF G!Runners
    <3> QED BY <1>1, <3>1
            DEF G!TypeInv, G!TypeOK, G!Job, G!ProcessShape, G!Shaped, G!HasInvoice
  <2> QED BY <1>2, <1>3, <1>7, <2>1 DEF gatewayVars
<1> HIDE DEF Goal
<1>8. ASSUME NEW c \in Clients, serve(c) PROVE Goal
  <2>1. session[c].tenant \in Tenants /\ session[c].tenant # t
    BY <1>8, ServiceTyped DEF serve, Drained, AtWork
  <2>2. ASSUME NEW i \in Invoices, NEW sync \in SyncModes,
               G!annul_invoice(c, session[c].tenant, i, sync)
        PROVE  i \notin S
    <3>1. row[i].tenant = session[c].tenant
      BY <2>2 DEF G!annul_invoice
    <3>2. G!Exists(i)
      BY <1>1, <2>1, <3>1, NoneIsNoValue DEF G!RowsExist, G!NoRow
    <3> QED BY <2>1, <3>1, <3>2
  <2> QED BY <1>6, <1>8, <2>1, <2>2 DEF serve, G!Runners
<1> QED BY <1>6, <1>7, <1>8
        DEF ServiceNext, ThreadStep, administer, present, authenticate, serve_read, work,
            worker_step, die, allVars, G!Runners, Goal

\* A disabled tenant nobody works for any more stays so.
LEMMA DrainedStep ==
    ASSUME ServiceInv, [ServiceNext]_allVars, NEW t \in Tenants, Drained(t) PROVE Drained(t)'
<1> DEFINE S == {i \in Invoices : ~G!Exists(i) \/ row[i].tenant = t}
<1>1. /\ G!TypeInv /\ G!RowsExist /\ [G!Next]_(G!vars) /\ [T!TenantNext]_(T!tenantVars)
      /\ T!TenantInv
  BY ServiceTyped, PartsStep DEF ServiceInv
<1>2. T!Registered(t)' /\ ~tenant'[t].active
  BY <1>1, T!DisabledStays, NoneIsNoData, LossesAreNat DEF Drained
<1>3. \A c \in Clients : /\ session'[c].tenant # t
                         /\ \A k \in Keys : <<t, k>> \notin session'[c].rows
  BY <1>1, T!NobodyFindsDisabled, NoneIsNoData, LossesAreNat DEF Drained, AtWork
<1>4. \A i \in Invoices \ S : row'[i].tenant # t
  BY <1>1, G!TenantStays, NoneIsNoValue, BlankIsNoUuid, EnvironmentAssumption,
     ProcessesAreDisjoint, BoundsAreNat
<1>5. /\ \A m \in G!Message : queue'[m] > 0 => m.inv \notin S
      /\ \A w \in Workers : job'[w].pc # "idle" => job'[w].inv \notin S
  BY WorkStaysAway
<1>6. \A w \in Workers : job'[w].pc # "idle" => job'[w].inv \in Invoices
  <2>1. G!TypeInv'
    BY ServiceStep DEF ServiceInv, G!SafetyInv
  <2>2. \A w \in Workers : w \notin Clients /\ w \in G!Runners
    BY ProcessesAreDisjoint DEF G!Runners
  <2> QED BY <2>1, <2>2 DEF G!TypeInv, G!TypeOK, G!Job, G!ProcessShape, G!Shaped, G!HasInvoice
<1>7. \A m \in G!Message : m.inv \in Invoices
  BY DEF G!Message
<1> HIDE DEF S
<1> QED BY <1>2, <1>3, <1>4, <1>5, <1>6, <1>7 DEF Drained, AtWork

\* The work for a disabled tenant, once it came to an end, does not begin again: for
\* any number of tenants, threads and workers, retries, crashes and redeliveries.
THEOREM DrainedForGood == ServiceSpec => StaysDrained
<1>1. ServiceInv /\ [ServiceNext]_allVars =>
         [\A t \in Tenants : Drained(t) => Drained(t)']_allVars
  BY DrainedStep
<1> QED BY <1>1, ServiceStarts, ServiceStep, PTL DEF ServiceSpec, StaysDrained
-----------------------------------------------------------------------------
(* The promises of the parts, kept by the whole. *)

\* Behind authentication and among admins no replaced or disabled key opens again.
THEOREM ServiceRevokes == ServiceSpec => T!RevokedStaysRevoked
BY ServesTenants, T!RevocationIsFinal, NoneIsNoData, LossesAreNat, PTL

\* The caller's promise holds behind authentication: whatever admins do, and whatever
\* crashes, no invoice goes back to PENDING or is settled without SAT.
THEOREM ServiceKeepsPromise == ServiceSpec => G!PromiseKept
BY ServesInvoices, G!PromiseIsKept, NoneIsNoValue, BlankIsNoUuid, EnvironmentAssumption,
   ProcessesAreDisjoint, BoundsAreNat, PTL
=============================================================================
