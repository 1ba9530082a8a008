----------------------------- MODULE TenantAdmin ----------------------------
(***************************************************************************)
(* The tenants: the admin endpoints that create them, rotate their keys    *)
(* and deactivate them, and the dependency that authenticates the callers. *)
(*                                                                         *)
(* A step is a database transaction, or what a request does between two.   *)
(* An admin request works on the ORM object it loaded, and holds the key   *)
(* it generated in memory only; get_current_tenant verifies the caller's   *)
(* key against the rows it selected, which may be out of date by then.     *)
(***************************************************************************)
EXTENDS Naturals

CONSTANTS
    Tenants,    \* the row ids that may be used
    Names,      \* the names admins give
    Keys,       \* the keys generate_api_key may draw; each is drawn once
    Clients,    \* request threads of the tenants' callers
    Admins,     \* request threads of the admin endpoints
    None,
    MaxLosses   \* bound: admin requests that die

ASSUME NoneIsNoData == None \notin Tenants \cup Names \cup Keys
ASSUME LossesAreNat == MaxLosses \in Nat

VARIABLES
    tenant,     \* tenant id -> the committed row
    trail,      \* tenant id -> the kinds of event logged for it
    given,      \* tenant id -> every key whose hash the row has held
    admin,      \* admin thread -> its request
    shown,      \* the keys that reached a caller of the admin API
    losses,     \* how much of the bound is used
    session     \* caller's thread -> its request

tenantVars == <<tenant, trail, given, admin, shown, losses, session>>

\* A row nobody inserted yet has no name.  The hash of a key is the key:
\* verify_api_key tells whether two are equal.
Tenant == [name : Names \cup {None}, key : Keys \cup {None}, active : BOOLEAN]
NoTenant == [name |-> None, key |-> None, active |-> FALSE]

Registered(t) == tenant[t].name # None

TenantEvent == {"tenant.created", "tenant.key_rotated", "tenant.deactivated"}

AdminRequest == [pc : {"idle", "insert", "rotate", "deactivate", "refresh"},
                 id : Tenants \cup {None}, obj : Tenant, key : Keys \cup {None}]
NoRequest == [pc |-> "idle", id |-> None, obj |-> NoTenant, key |-> None]

\* rows are the active tenants of the SELECT, with their hashes.
Session == [pc : {"idle", "verify", "handler"}, key : Keys \cup {None},
            rows : SUBSET (Tenants \X Keys), tenant : Tenants \cup {None}]
NoSession == [pc |-> "idle", key |-> None, rows |-> {}, tenant |-> None]

TenantTypeOK == /\ tenant \in [Tenants -> Tenant]
                /\ trail \in [Tenants -> SUBSET TenantEvent]
                /\ given \in [Tenants -> SUBSET Keys]
                /\ admin \in [Admins -> AdminRequest]
                /\ shown \in SUBSET Keys
                /\ losses \in 0 .. MaxLosses
                /\ session \in [Clients -> Session]

TenantInit == /\ tenant = [t \in Tenants |-> NoTenant]
              /\ trail = [t \in Tenants |-> {}]
              /\ given = [t \in Tenants |-> {}]
              /\ admin = [a \in Admins |-> NoRequest]
              /\ shown = {} /\ losses = 0
              /\ session = [c \in Clients |-> NoSession]
-----------------------------------------------------------------------------
(* The tenants table. *)

\* generate_api_key: 40 random bytes, never drawn before.
Fresh == Keys \ UNION {given[t] : t \in Tenants}

\* A table without the constraint on the name.
NameAdmitsAnything(n) == TRUE

\* The unique constraint on the name.
NameAdmits(n) == \A t \in Tenants : tenant[t].name # n

\* A faulty UPDATE that writes back every column of the object.
FlushedWholeTenant(t, obj, new) == new

\* A faulty deactivation that erases the hash with the flag.
FlushedTenantErasing(t, obj, new) ==
    IF new.active THEN FlushedWholeTenant(t, obj, new) ELSE [new EXCEPT !.key = None]

\* The ORM's UPDATE of row t: only the columns whose value differs from the one
\* that was loaded.
FlushedTenant(t, obj, new) ==
    [tenant[t] EXCEPT !.key    = IF new.key = obj.key THEN @ ELSE new.key,
                      !.active = IF new.active = obj.active THEN @ ELSE new.active]

\* Commit row t as r, and the event of the transaction.
CommitTenant(t, r, event) ==
    /\ tenant' = [tenant EXCEPT ![t] = r]
    /\ trail' = [trail EXCEPT ![t] = @ \cup {event}]
    /\ given' = [given EXCEPT ![t] = @ \cup {r.key}]
-----------------------------------------------------------------------------
(* The admin endpoints.  Wrong master keys, unknown ids (404) and names that  *)
(* are taken (409) are answered without a change.                             *)

create_tenant_select(a, n) ==
    /\ admin[a].pc = "idle"
    /\ \A t \in Tenants : tenant[t].name # n
    /\ admin' = [admin EXCEPT ![a] = [NoRequest EXCEPT !.pc = "insert", !.obj.name = n,
                                                       !.obj.active = TRUE]]
    /\ UNCHANGED <<tenant, trail, given, shown, losses, session>>

\* flush and commit.  The loser of a race gets an IntegrityError, which nothing
\* catches.
create_tenant_insert(a) ==
    /\ admin[a].pc = "insert"
    /\ \/ /\ NameAdmits(admin[a].obj.name)
          /\ \E t \in Tenants, k \in Fresh :
                /\ ~Registered(t)
                /\ CommitTenant(t, [admin[a].obj EXCEPT !.key = k], "tenant.created")
                /\ admin' = [admin EXCEPT ![a] = [NoRequest EXCEPT !.pc = "refresh", !.key = k]]
       \/ /\ ~NameAdmits(admin[a].obj.name)
          /\ admin' = [admin EXCEPT ![a] = NoRequest]
          /\ UNCHANGED <<tenant, trail, given>>
    /\ UNCHANGED <<shown, losses, session>>

\* rotate_api_key and deactivate_tenant: db.get.
tenant_get(a, t, pc) ==
    /\ admin[a].pc = "idle"
    /\ Registered(t)
    /\ admin' = [admin EXCEPT ![a] = [NoRequest EXCEPT !.pc = pc, !.id = t, !.obj = tenant[t]]]
    /\ UNCHANGED <<tenant, trail, given, shown, losses, session>>

\* A faulty rotation that hashes one key and answers with another.
rotate_api_key_commit_drawn_twice(a) ==
    /\ admin[a].pc = "rotate"
    /\ \E k, other \in Fresh :
          /\ CommitTenant(admin[a].id, [tenant[admin[a].id] EXCEPT !.key = k], "tenant.key_rotated")
          /\ admin' = [admin EXCEPT ![a] = [NoRequest EXCEPT !.pc = "refresh", !.key = other]]
    /\ UNCHANGED <<shown, losses, session>>

\* A faulty rotation that logs nothing.
rotate_api_key_commit_silent(a) ==
    /\ admin[a].pc = "rotate"
    /\ \E k \in Fresh :
          /\ CommitTenant(admin[a].id, [tenant[admin[a].id] EXCEPT !.key = k], "tenant.created")
          /\ admin' = [admin EXCEPT ![a] = [NoRequest EXCEPT !.pc = "refresh", !.key = k]]
    /\ UNCHANGED <<shown, losses, session>>

rotate_api_key_commit(a) ==
    /\ admin[a].pc = "rotate"
    /\ \E k \in Fresh :
          /\ CommitTenant(admin[a].id,
                          FlushedTenant(admin[a].id, admin[a].obj, [admin[a].obj EXCEPT !.key = k]),
                          "tenant.key_rotated")
          /\ admin' = [admin EXCEPT ![a] = [NoRequest EXCEPT !.pc = "refresh", !.key = k]]
    /\ UNCHANGED <<shown, losses, session>>

\* The refresh and the answer that follow read only.
deactivate_tenant_commit(a) ==
    /\ admin[a].pc = "deactivate"
    /\ CommitTenant(admin[a].id,
                    FlushedTenant(admin[a].id, admin[a].obj, [admin[a].obj EXCEPT !.active = FALSE]),
                    "tenant.deactivated")
    /\ admin' = [admin EXCEPT ![a] = NoRequest]
    /\ UNCHANGED <<shown, losses, session>>

\* The end of a creation or a rotation: refresh, and the answer with the key.
refresh_and_answer(a) ==
    /\ admin[a].pc = "refresh"
    /\ shown' = shown \cup {admin[a].key}
    /\ admin' = [admin EXCEPT ![a] = NoRequest]
    /\ UNCHANGED <<tenant, trail, given, losses, session>>

\* The process dies or loses the database: what is not committed is rolled
\* back, and the key in memory is gone.
lose_request(a) ==
    /\ admin[a].pc # "idle"
    /\ losses < MaxLosses
    /\ losses' = losses + 1
    /\ admin' = [admin EXCEPT ![a] = NoRequest]
    /\ UNCHANGED <<tenant, trail, given, shown, session>>
-----------------------------------------------------------------------------
(* get_current_tenant, and the handler that runs as the tenant it returns. *)

\* A faulty SELECT that forgets is_active.
AllRows == {<<t, tenant[t].key>> : t \in {u \in Tenants : Registered(u)}}

ActiveTenants == {<<t, tenant[t].key>> : t \in {u \in Tenants : tenant[u].active}}

get_current_tenant_select(c, k) ==
    /\ session[c].pc = "idle"
    /\ session' = [session EXCEPT ![c] = [NoSession EXCEPT !.pc = "verify", !.key = k,
                                                           !.rows = ActiveTenants]]
    /\ UNCHANGED <<tenant, trail, given, admin, shown, losses>>

\* The tenants whose hash the caller's key verifies.  A faulty loop returns the
\* first row it meets.
AnyRow(s) == {t \in Tenants : \E k \in Keys : <<t, k>> \in s.rows}
Verified(s) == {t \in Tenants : <<t, s.key>> \in s.rows}

get_current_tenant_verify(c) ==
    /\ session[c].pc = "verify"
    /\ \/ \E t \in Verified(session[c]) :
             session' = [session EXCEPT ![c].pc = "handler", ![c].rows = {}, ![c].tenant = t]
       \/ /\ Verified(session[c]) = {}
          /\ session' = [session EXCEPT ![c] = NoSession]
    /\ UNCHANGED <<tenant, trail, given, admin, shown, losses>>

\* The handler answers.
respond(c) ==
    /\ session[c].pc = "handler"
    /\ session' = [session EXCEPT ![c] = NoSession]
    /\ UNCHANGED <<tenant, trail, given, admin, shown, losses>>
-----------------------------------------------------------------------------
AdminRequests(a) == \/ \E n \in Names : create_tenant_select(a, n)
                    \/ \E t \in Tenants, pc \in {"rotate", "deactivate"} : tenant_get(a, t, pc)

AdminStep(a) == \/ create_tenant_insert(a)
                \/ rotate_api_key_commit(a)
                \/ deactivate_tenant_commit(a)
                \/ refresh_and_answer(a)

SessionStep(c) == get_current_tenant_verify(c) \/ respond(c)

TenantNext == \/ \E a \in Admins : AdminRequests(a) \/ AdminStep(a) \/ lose_request(a)
              \/ \E c \in Clients : SessionStep(c)
              \/ \E c \in Clients, k \in Keys : get_current_tenant_select(c, k)

TenantSpec == TenantInit /\ [][TenantNext]_tenantVars
=============================================================================
