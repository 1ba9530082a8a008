--------------------------- MODULE TenantGateway ----------------------------
(***************************************************************************)
(* The whole service: the invoice endpoints of Gateway behind the          *)
(* authentication of TenantAdmin, while admins create, re-key and          *)
(* deactivate tenants.  A request thread authenticates, runs its handler   *)
(* as the tenant that was found, and forgets it with the answer.  Workers  *)
(* authenticate nobody: they take the tenant from the invoice's row.       *)
(***************************************************************************)
EXTENDS Naturals

CONSTANTS
    Invoices, Tenants, Refs, Blank, Uuids, None, Clients, Workers, Misconfigured, SyncModes,
    CertifyReplies, AnnulReplies, MaxRetries, MaxRequests, MaxCrashes, MaxOutages,  \* Gateway
    Names, Keys, Admins, MaxLosses                                                \* TenantAdmin

\* The assumptions of both, which their theorems rest on.
ASSUME NoneIsNoData == None \notin Tenants \cup Names \cup Keys
ASSUME LossesAreNat == MaxLosses \in Nat
ASSUME ProcessesAreDisjoint == Clients \cap Workers = {}
ASSUME BoundsAreNat == {MaxRetries, MaxRequests, MaxCrashes, MaxOutages} \subseteq Nat

VARIABLES
    row, audit, issued, voided, queue, job, accepted, requests, crashes, outages, \* Gateway
    tenant, trail, given, admin, shown, losses, session                           \* TenantAdmin

\* With their theorems, so that what is proved of each is known of the whole.
T == INSTANCE TenantProofs
G == INSTANCE GatewayRefinementProofs

ASSUME NoneIsNoValue == None \notin Invoices \cup Tenants \cup Uuids \cup G!Answer
ASSUME BlankIsNoUuid == Blank \notin Uuids \cup {None}
ASSUME EnvironmentAssumption == /\ Misconfigured \subseteq Tenants
                                /\ SyncModes \subseteq BOOLEAN
                                /\ CertifyReplies \subseteq G!Reply
                                /\ AnnulReplies \subseteq G!Reply \ {"blank"}

gatewayVars == <<row, audit, issued, voided, queue, job, accepted, requests, crashes, outages>>
directory == <<tenant, trail, given, admin, shown, losses>>
allVars == <<gatewayVars, directory, session>>

ServiceInit == G!Init /\ T!TenantInit
-----------------------------------------------------------------------------
(* The handlers. *)

Forget(c) == session' = [session EXCEPT ![c] = T!NoSession]

\* The thread forgets its session when its handler is done.
UntilAnswered(c) == IF job'[c].pc = "idle" THEN Forget(c) ELSE UNCHANGED session

\* A faulty annulment that takes an invoice id without asking whose it is.
serve_anybody(c) ==
    /\ session[c].pc = "handler"
    /\ \/ \E ref \in Refs, sync \in SyncModes :
             G!queue_invoice_select(c, session[c].tenant, ref, sync)
       \/ \E t \in Tenants, i \in Invoices, sync \in SyncModes :
             G!annul_invoice(c, t, i, sync)
    /\ UntilAnswered(c)
    /\ UNCHANGED directory

\* create_invoice and annul_invoice begin, as the tenant of the session.
serve(c) ==
    /\ session[c].pc = "handler"
    /\ \/ \E ref \in Refs, sync \in SyncModes :
             G!queue_invoice_select(c, session[c].tenant, ref, sync)
       \/ \E i \in Invoices, sync \in SyncModes :
             G!annul_invoice(c, session[c].tenant, i, sync)
    /\ UntilAnswered(c)
    /\ UNCHANGED directory

\* The handlers that read, and the 404s.
serve_read(c) == job[c].pc = "idle" /\ T!respond(c) /\ UNCHANGED gatewayVars

work(c) == G!ClientStep(c) /\ UntilAnswered(c) /\ UNCHANGED directory

authenticate(c) == T!get_current_tenant_verify(c) /\ UNCHANGED gatewayVars

\* A faulty worker that leaves the invoices of disabled tenants alone.
worker_step_active(w) ==
    /\ G!WorkerStep(w)
    /\ job[w].pc = "loaded" => tenant[job[w].obj.tenant].active
    /\ UNCHANGED <<directory, session>>

\* The tasks take the tenant from the invoice, active or not.
worker_step(w) == G!WorkerStep(w) /\ UNCHANGED <<directory, session>>

\* A thread that dies takes its session with it.
die(r) == /\ G!crash(r)
          /\ IF r \in Clients THEN Forget(r) ELSE UNCHANGED session
          /\ UNCHANGED directory

administer(a) == /\ T!AdminRequests(a) \/ T!AdminStep(a) \/ T!lose_request(a)
                 /\ UNCHANGED gatewayVars

present(c, k) == T!get_current_tenant_select(c, k) /\ UNCHANGED gatewayVars

ThreadStep(c) == authenticate(c) \/ serve_read(c) \/ work(c)

ServiceNext == \/ \E a \in Admins : administer(a)
               \/ \E c \in Clients, k \in Keys : present(c, k)
               \/ \E c \in Clients : ThreadStep(c) \/ serve(c)
               \/ \E w \in Workers : worker_step(w)
               \/ \E r \in Clients \cup Workers : die(r)

ServiceSpec == ServiceInit /\ [][ServiceNext]_allVars

\* Threads and workers that live go on; admins and callers need not.
FairServiceSpec == /\ ServiceSpec
                   /\ \A c \in Clients : WF_allVars(ThreadStep(c))
                   /\ \A w \in Workers : WF_allVars(worker_step(w))
-----------------------------------------------------------------------------
(* Properties. *)

\* Some process or message is at work on a request or an invoice of tenant t.
AtWork(t) ==
    \/ \E c \in Clients : session[c].tenant = t
    \/ \E m \in G!Message : queue[m] > 0 /\ row[m.inv].tenant = t
    \/ \E w \in Workers : job[w].pc # "idle" /\ row[job[w].inv].tenant = t

\* A thread works only on invoices of the tenant whose key it was shown, from its
\* SELECT to its last commit, whatever was rotated or disabled meanwhile.
WorksForOwner ==
    \A c \in Clients :
       job[c].pc # "idle" => /\ session[c].pc = "handler"
                             /\ session[c].key \in given[session[c].tenant]
                             /\ job[c].obj.tenant = session[c].tenant

\* It is an invariant together with those of the parts.
ServiceInv == T!TenantInv /\ G!SafetyInv /\ G!ReadsBack /\ WorksForOwner

\* Disabling a tenant is not immediate: requests past the dependency and queued
\* tasks are carried out.  But they come to an end, and then nothing is done for
\* the tenant any more.
DisabledDrains ==
    \A t \in Tenants : (T!Registered(t) /\ ~tenant[t].active) ~> []~AtWork(t)

\* Tenant t is disabled, nobody is at work for it, and no request on its way in has
\* found it active.
Drained(t) ==
    /\ T!Registered(t) /\ ~tenant[t].active /\ ~AtWork(t)
    /\ \A c \in Clients, k \in Keys : <<t, k>> \notin session[c].rows

\* Once it came to an end, the work for a disabled tenant does not begin again: no
\* retry, redelivery, late request or other tenant's annulment brings any back.
StaysDrained == [][\A t \in Tenants : Drained(t) => Drained(t)']_allVars

\* A key that was replaced, or whose tenant was disabled, is locked out: requests in
\* flight end, whatever their handlers wait for, and no later one gets in.
RevokedStaysOut == T!RevokedLockedOut

\* A 202 is honoured as before: an accepted invoice is settled even if its tenant
\* is disabled or re-keyed before the worker comes to it.
AcceptedOutlivesTenant == G!AcceptedSettles
=============================================================================
