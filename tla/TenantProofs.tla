---------------------------- MODULE TenantProofs ----------------------------
(***************************************************************************)
(* The safety properties of TenantAdmin and the promise of TenantDirectory *)
(* for any number of tenants, keys, threads and lost requests.             *)
(***************************************************************************)
EXTENDS TenantProps, TLAPS

\* The initial state satisfies the invariant.
LEMMA TenantInitInv == TenantInit => TenantInv
BY NoneIsNoData, LossesAreNat
   DEF TenantInit, TenantInv, TenantTypeOK, KeysBelong, AdminsInStep, SessionsInStep, NamesUnique,
       ActsAsOwnTenant, AuditExplainsTenant, KeyReachesSomebody, Registered, NoTenant, Tenant,
       NoRequest, AdminRequest, NoSession, Session

\* A fresh key is nobody's.
LEMMA FreshKey ==
    ASSUME NEW k \in Fresh
    PROVE  k \in Keys /\ k # None /\ \A t \in Tenants : k \notin given[t]
BY NoneIsNoData DEF Fresh

\* The three ways the tables change.
Created(t, n, k) ==
    /\ ~Registered(t) /\ n \in Names /\ NameAdmits(n)
    /\ \E r \in Tenant : /\ r.name = n /\ r.key = k /\ r.active
                        /\ CommitTenant(t, r, "tenant.created")

Rotated(t, k) ==
    /\ Registered(t)
    /\ CommitTenant(t, [tenant[t] EXCEPT !.key = k], "tenant.key_rotated")

Deactivated(t) ==
    /\ Registered(t)
    /\ CommitTenant(t, [tenant[t] EXCEPT !.active = FALSE], "tenant.deactivated")

\* An insertion commits the name it was asked for.
LEMMA InsertCreates ==
    ASSUME TenantInv, NEW a \in Admins, create_tenant_insert(a)
    PROVE  \/ UNCHANGED <<tenant, trail, given>> /\ admin' = [admin EXCEPT ![a] = NoRequest]
           \/ \E t \in Tenants, k \in Fresh :
                 /\ Created(t, admin[a].obj.name, k)
                 /\ admin' = [admin EXCEPT ![a] = [NoRequest EXCEPT !.pc = "refresh", !.key = k]]
<1>1. admin[a].obj \in Tenant /\ admin[a].pc = "insert"
  BY DEF TenantInv, TenantTypeOK, AdminRequest, create_tenant_insert
<1>2. admin[a].obj.name \in Names /\ admin[a].obj.active
  BY <1>1 DEF TenantInv, AdminsInStep, Tenant
<1>3. ASSUME NEW k \in Fresh
      PROVE  LET r == [admin[a].obj EXCEPT !.key = k]
             IN  r \in Tenant /\ r.name = admin[a].obj.name /\ r.key = k /\ r.active
  BY <1>1, <1>2, FreshKey DEF Tenant
<1> QED BY <1>1, <1>2, <1>3 DEF create_tenant_insert, Created

\* A rotation changes the key and nothing else, however old its object is.
LEMMA RotationRotates ==
    ASSUME TenantInv, NEW a \in Admins, rotate_api_key_commit(a)
    PROVE  \E k \in Fresh :
              /\ admin[a].id \in Tenants /\ Rotated(admin[a].id, k)
              /\ admin' = [admin EXCEPT ![a] = [NoRequest EXCEPT !.pc = "refresh", !.key = k]]
<1>1. admin[a] \in AdminRequest /\ admin[a].pc = "rotate"
  BY DEF TenantInv, TenantTypeOK, rotate_api_key_commit
<1>2. admin[a].id \in Tenants /\ Registered(admin[a].id) /\ admin[a].obj.key \in given[admin[a].id]
  BY <1>1 DEF TenantInv, AdminsInStep, AdminRequest
<1>3. tenant[admin[a].id] \in Tenant /\ admin[a].obj \in Tenant
  BY <1>1, <1>2 DEF TenantInv, TenantTypeOK, AdminRequest
<1>4. ASSUME NEW k \in Fresh
      PROVE  FlushedTenant(admin[a].id, admin[a].obj, [admin[a].obj EXCEPT !.key = k])
                = [tenant[admin[a].id] EXCEPT !.key = k]
  <2>1. admin[a].obj.key # k
    BY <1>2, FreshKey
  <2> QED BY <1>3, <2>1 DEF FlushedTenant, Tenant
<1> QED BY <1>2, <1>4 DEF rotate_api_key_commit, Rotated

\* A deactivation leaves the tenant inactive, and its key alone.
LEMMA DeactivationDeactivates ==
    ASSUME TenantInv, NEW a \in Admins, deactivate_tenant_commit(a)
    PROVE  admin[a].id \in Tenants /\ Deactivated(admin[a].id)
<1>1. admin[a] \in AdminRequest /\ admin[a].pc = "deactivate"
  BY DEF TenantInv, TenantTypeOK, deactivate_tenant_commit
<1>2. /\ admin[a].id \in Tenants /\ Registered(admin[a].id)
      /\ tenant[admin[a].id].active => admin[a].obj.active
  BY <1>1 DEF TenantInv, AdminsInStep, AdminRequest
<1>3. tenant[admin[a].id] \in Tenant /\ admin[a].obj \in Tenant
  BY <1>1, <1>2 DEF TenantInv, TenantTypeOK, AdminRequest
<1>4. FlushedTenant(admin[a].id, admin[a].obj, [admin[a].obj EXCEPT !.active = FALSE])
         = [tenant[admin[a].id] EXCEPT !.active = FALSE]
  BY <1>2, <1>3 DEF FlushedTenant, Tenant
<1> QED BY <1>2, <1>4 DEF deactivate_tenant_commit, Deactivated
-----------------------------------------------------------------------------
(* Each kind of step keeps the invariant. *)

\* A thread that comes to rest, or moves on with a typed request.
LEMMA AdminUpdate ==
    ASSUME TenantInv, NEW a \in Admins, NEW r \in AdminRequest, admin' = [admin EXCEPT ![a] = r]
    PROVE  /\ admin' \in [Admins -> AdminRequest]
           /\ admin'[a] = r
           /\ \A b \in Admins \ {a} : admin'[b] = admin[b]
BY DEF TenantInv, TenantTypeOK

\* The requests the handlers leave behind are typed.
LEMMA RequestTyped ==
    /\ NoRequest \in AdminRequest
    /\ \A k \in Keys : [NoRequest EXCEPT !.pc = "refresh", !.key = k] \in AdminRequest
BY DEF NoRequest, AdminRequest, NoTenant, Tenant

\* Replacing row t and logging an event keeps the tables typed.
LEMMA TablesTyped ==
    ASSUME TenantInv, NEW t \in Tenants, NEW r \in Tenant, r.key # None, NEW e \in TenantEvent,
           CommitTenant(t, r, e)
    PROVE  /\ tenant' \in [Tenants -> Tenant]
           /\ trail' \in [Tenants -> SUBSET TenantEvent]
           /\ given' \in [Tenants -> SUBSET Keys]
           /\ tenant'[t] = r /\ trail'[t] = trail[t] \cup {e} /\ given'[t] = given[t] \cup {r.key}
           /\ \A u \in Tenants \ {t} :
                 tenant'[u] = tenant[u] /\ trail'[u] = trail[u] /\ given'[u] = given[u]
BY DEF TenantInv, TenantTypeOK, CommitTenant, Tenant

\* What the sessions hold stays true while keys are only added.
LEMMA SessionsKept ==
    ASSUME TenantInv, UNCHANGED session, given' \in [Tenants -> SUBSET Keys],
           \A t \in Tenants : given[t] \subseteq given'[t]
    PROVE  SessionsInStep' /\ ActsAsOwnTenant'
<1>1. ASSUME NEW c \in Clients, session[c].pc = "verify", NEW r \in session[c].rows
      PROVE  r[2] \in given'[r[1]]
  <2>1. r \in Tenants \X Keys
    BY <1>1 DEF TenantInv, TenantTypeOK, Session
  <2>2. r[1] \in Tenants
    BY <2>1
  <2> QED BY <1>1, <2>2 DEF TenantInv, SessionsInStep
<1>2. ASSUME NEW c \in Clients, session[c].pc = "handler"
      PROVE  session[c].key \in given'[session[c].tenant]
  <2>1. session[c].tenant \in Tenants
    BY <1>2 DEF TenantInv, TenantTypeOK, Session, SessionsInStep
  <2> QED BY <1>2, <2>1 DEF TenantInv, ActsAsOwnTenant
<1> QED BY <1>1, <1>2 DEF TenantInv, SessionsInStep, ActsAsOwnTenant

\* A creation.
LEMMA CreatedInv ==
    ASSUME TenantInv, NEW a \in Admins, admin[a].pc # "refresh",
           NEW t \in Tenants, NEW n, NEW k \in Fresh, Created(t, n, k),
           admin' = [admin EXCEPT ![a] = [NoRequest EXCEPT !.pc = "refresh", !.key = k]],
           UNCHANGED <<shown, losses, session>>
    PROVE  TenantInv'
<1>1. k \in Keys /\ k # None /\ \A u \in Tenants : k \notin given[u]
  BY FreshKey
<1>2. PICK r \in Tenant : /\ r.name = n /\ r.key = k /\ r.active
                          /\ CommitTenant(t, r, "tenant.created")
  BY DEF Created
<1>3. ~Registered(t) /\ n \in Names /\ NameAdmits(n) /\ n # None
  BY NoneIsNoData DEF Created
<1>4. /\ tenant' \in [Tenants -> Tenant]
      /\ trail' \in [Tenants -> SUBSET TenantEvent]
      /\ given' \in [Tenants -> SUBSET Keys]
      /\ tenant'[t] = r /\ trail'[t] = trail[t] \cup {"tenant.created"}
      /\ given'[t] = given[t] \cup {k}
      /\ \A u \in Tenants \ {t} :
            tenant'[u] = tenant[u] /\ trail'[u] = trail[u] /\ given'[u] = given[u]
  BY <1>1, <1>2, TablesTyped DEF TenantEvent
<1>5. /\ admin' \in [Admins -> AdminRequest]
      /\ admin'[a] = [NoRequest EXCEPT !.pc = "refresh", !.key = k]
      /\ \A b \in Admins \ {a} : admin'[b] = admin[b]
  BY <1>1, AdminUpdate, RequestTyped
<1>6. admin'[a].pc = "refresh" /\ admin'[a].key = k
  BY <1>5 DEF NoRequest
<1>7. tenant[t] = NoTenant /\ given[t] = {} /\ trail[t] = {}
  BY <1>3 DEF TenantInv, KeysBelong
<1>8. TenantTypeOK'
  BY <1>4, <1>5 DEF TenantInv, TenantTypeOK
<1>9. KeysBelong'
  BY <1>1, <1>2, <1>3, <1>4, <1>7 DEF TenantInv, KeysBelong, Registered
<1>10. AdminsInStep'
  <2>1. ASSUME NEW b \in Admins \ {a}, admin[b].pc \in {"rotate", "deactivate"}
        PROVE  admin[b].id \in Tenants \ {t}
    <3>1. admin[b].id \in Tenants /\ Registered(admin[b].id)
      BY <2>1 DEF TenantInv, TenantTypeOK, AdminsInStep, AdminRequest
    <3> QED BY <1>3, <3>1
  <2>2. ASSUME NEW b \in Admins \ {a}
        PROVE  /\ admin[b].pc = "insert" => admin[b].obj.name # None /\ admin[b].obj.active
               /\ admin[b].pc = "refresh" => admin[b].key # None
               /\ admin[b].pc \in {"rotate", "deactivate"} =>
                     /\ admin[b].id # None /\ Registered(admin[b].id)'
                     /\ admin[b].obj.key \in given'[admin[b].id]
                     /\ tenant'[admin[b].id].active => admin[b].obj.active
    BY <1>4, <2>1 DEF TenantInv, AdminsInStep, Registered
  <2> QED BY <1>1, <1>5, <1>6, <2>2 DEF AdminsInStep
<1>11. SessionsInStep' /\ ActsAsOwnTenant'
  BY <1>4, SessionsKept
<1>12. NamesUnique'
  BY <1>2, <1>3, <1>4 DEF TenantInv, NamesUnique, NameAdmits, Registered
<1>13. AuditExplainsTenant'
  <2>1. ASSUME NEW u \in Tenants \ {t}
        PROVE  /\ Registered(u)' <=> "tenant.created" \in trail'[u]
               /\ Registered(u)' /\ ~tenant'[u].active <=> "tenant.deactivated" \in trail'[u]
               /\ (\E j, l \in given'[u] : j # l) <=> "tenant.key_rotated" \in trail'[u]
    BY <1>4 DEF TenantInv, AuditExplainsTenant, Registered
  <2>2. /\ Registered(t)' <=> "tenant.created" \in trail'[t]
        /\ Registered(t)' /\ ~tenant'[t].active <=> "tenant.deactivated" \in trail'[t]
        /\ (\E j, l \in given'[t] : j # l) <=> "tenant.key_rotated" \in trail'[t]
    BY <1>2, <1>3, <1>4, <1>7 DEF Registered
  <2> QED BY <2>1, <2>2 DEF AuditExplainsTenant
<1>14. KeyReachesSomebody'
  <2>1. ASSUME losses' = 0, NEW u \in Tenants \ {t}, Registered(u)'
        PROVE  \/ tenant'[u].key \in shown'
               \/ \E b \in Admins : admin'[b].pc = "refresh" /\ admin'[b].key = tenant'[u].key
    <3>1. Registered(u) /\ tenant'[u] = tenant[u]
      BY <1>4, <2>1 DEF Registered
    <3>2. CASE tenant[u].key \in shown
      BY <3>1, <3>2
    <3>3. ASSUME NEW b \in Admins, admin[b].pc = "refresh", admin[b].key = tenant[u].key
          PROVE  admin'[b].pc = "refresh" /\ admin'[b].key = tenant'[u].key
      BY <1>5, <3>1, <3>3
    <3> QED BY <2>1, <3>1, <3>2, <3>3 DEF TenantInv, KeyReachesSomebody
  <2>2. admin'[a].key = tenant'[t].key
    BY <1>2, <1>4, <1>6
  <2> QED BY <1>6, <2>1, <2>2 DEF KeyReachesSomebody
<1> QED BY <1>8, <1>9, <1>10, <1>11, <1>12, <1>13, <1>14 DEF TenantInv

\* A rotation.
LEMMA RotatedInv ==
    ASSUME TenantInv, NEW a \in Admins, admin[a].pc # "refresh",
           NEW t \in Tenants, NEW k \in Fresh, Rotated(t, k),
           admin' = [admin EXCEPT ![a] = [NoRequest EXCEPT !.pc = "refresh", !.key = k]],
           UNCHANGED <<shown, losses, session>>
    PROVE  TenantInv'
<1>1. k \in Keys /\ k # None /\ \A u \in Tenants : k \notin given[u]
  BY FreshKey
<1>2. Registered(t) /\ tenant[t] \in Tenant /\ tenant[t].key \in given[t]
  BY DEF Rotated, TenantInv, TenantTypeOK, KeysBelong
<1> DEFINE r == [tenant[t] EXCEPT !.key = k]
<1>3. r \in Tenant /\ r.name = tenant[t].name /\ r.key = k /\ r.active = tenant[t].active
  BY <1>1, <1>2 DEF Tenant
<1>4. /\ tenant' \in [Tenants -> Tenant]
      /\ trail' \in [Tenants -> SUBSET TenantEvent]
      /\ given' \in [Tenants -> SUBSET Keys]
      /\ tenant'[t] = r /\ trail'[t] = trail[t] \cup {"tenant.key_rotated"}
      /\ given'[t] = given[t] \cup {k}
      /\ \A u \in Tenants \ {t} :
            tenant'[u] = tenant[u] /\ trail'[u] = trail[u] /\ given'[u] = given[u]
  <2>1. CommitTenant(t, r, "tenant.key_rotated") /\ "tenant.key_rotated" \in TenantEvent
    BY DEF Rotated, TenantEvent
  <2> HIDE DEF r
  <2> QED BY <1>1, <1>3, <2>1, TablesTyped
<1> HIDE DEF r
<1>5. /\ admin' \in [Admins -> AdminRequest]
      /\ admin'[a] = [NoRequest EXCEPT !.pc = "refresh", !.key = k]
      /\ \A b \in Admins \ {a} : admin'[b] = admin[b]
  BY <1>1, AdminUpdate, RequestTyped
<1>6. admin'[a].pc = "refresh" /\ admin'[a].key = k
  BY <1>5 DEF NoRequest
<1>7. \A u \in Tenants : /\ Registered(u)' <=> Registered(u)
                         /\ tenant'[u].name = tenant[u].name
                         /\ tenant'[u].active = tenant[u].active
                         /\ given[u] \subseteq given'[u]
  BY <1>2, <1>3, <1>4 DEF Registered
<1>8. TenantTypeOK'
  BY <1>4, <1>5 DEF TenantInv, TenantTypeOK
<1>9. KeysBelong'
  BY <1>1, <1>2, <1>3, <1>4, <1>7 DEF TenantInv, KeysBelong
<1>10. AdminsInStep'
  <2>1. ASSUME NEW b \in Admins \ {a}, admin[b].pc \in {"rotate", "deactivate"}
        PROVE  admin[b].id \in Tenants
    BY <2>1 DEF TenantInv, TenantTypeOK, AdminsInStep, AdminRequest
  <2>2. ASSUME NEW b \in Admins \ {a}
        PROVE  /\ admin[b].pc = "insert" => admin[b].obj.name # None /\ admin[b].obj.active
               /\ admin[b].pc = "refresh" => admin[b].key # None
               /\ admin[b].pc \in {"rotate", "deactivate"} =>
                     /\ admin[b].id # None /\ Registered(admin[b].id)'
                     /\ admin[b].obj.key \in given'[admin[b].id]
                     /\ tenant'[admin[b].id].active => admin[b].obj.active
    BY <1>7, <2>1 DEF TenantInv, AdminsInStep
  <2> QED BY <1>1, <1>5, <1>6, <2>2 DEF AdminsInStep
<1>11. SessionsInStep' /\ ActsAsOwnTenant'
  BY <1>4, <1>7, SessionsKept
<1>12. NamesUnique'
  BY <1>7 DEF TenantInv, NamesUnique
<1>13. AuditExplainsTenant'
  <2>1. ASSUME NEW u \in Tenants \ {t}
        PROVE  /\ Registered(u)' <=> "tenant.created" \in trail'[u]
               /\ Registered(u)' /\ ~tenant'[u].active <=> "tenant.deactivated" \in trail'[u]
               /\ (\E j, l \in given'[u] : j # l) <=> "tenant.key_rotated" \in trail'[u]
    BY <1>4 DEF TenantInv, AuditExplainsTenant, Registered
  <2>2. /\ Registered(t)' <=> "tenant.created" \in trail'[t]
        /\ Registered(t)' /\ ~tenant'[t].active <=> "tenant.deactivated" \in trail'[t]
    BY <1>3, <1>4, <1>7 DEF TenantInv, AuditExplainsTenant
  <2>3. (\E j, l \in given'[t] : j # l) /\ "tenant.key_rotated" \in trail'[t]
    BY <1>1, <1>2, <1>4
  <2> QED BY <2>1, <2>2, <2>3 DEF AuditExplainsTenant
<1>14. KeyReachesSomebody'
  <2>1. ASSUME losses' = 0, NEW u \in Tenants \ {t}, Registered(u)'
        PROVE  \/ tenant'[u].key \in shown'
               \/ \E b \in Admins : admin'[b].pc = "refresh" /\ admin'[b].key = tenant'[u].key
    <3>1. Registered(u) /\ tenant'[u] = tenant[u]
      BY <1>4, <1>7, <2>1
    <3>2. CASE tenant[u].key \in shown
      BY <3>1, <3>2
    <3>3. ASSUME NEW b \in Admins, admin[b].pc = "refresh", admin[b].key = tenant[u].key
          PROVE  admin'[b].pc = "refresh" /\ admin'[b].key = tenant'[u].key
      BY <1>5, <3>1, <3>3
    <3> QED BY <2>1, <3>1, <3>2, <3>3 DEF TenantInv, KeyReachesSomebody
  <2>2. admin'[a].key = tenant'[t].key
    BY <1>3, <1>4, <1>6
  <2> QED BY <1>6, <2>1, <2>2 DEF KeyReachesSomebody
<1> QED BY <1>8, <1>9, <1>10, <1>11, <1>12, <1>13, <1>14 DEF TenantInv

\* A deactivation.
LEMMA DeactivatedInv ==
    ASSUME TenantInv, NEW a \in Admins, admin[a].pc # "refresh",
           NEW t \in Tenants, Deactivated(t), admin' = [admin EXCEPT ![a] = NoRequest],
           UNCHANGED <<shown, losses, session>>
    PROVE  TenantInv'
<1>1. Registered(t) /\ tenant[t] \in Tenant /\ tenant[t].key \in given[t]
  BY DEF Deactivated, TenantInv, TenantTypeOK, KeysBelong
<1>2. given[t] \subseteq Keys
  BY DEF TenantInv, TenantTypeOK
<1> DEFINE r == [tenant[t] EXCEPT !.active = FALSE]
<1>3. r \in Tenant /\ r.name = tenant[t].name /\ r.key = tenant[t].key /\ ~r.active
  BY <1>1 DEF Tenant
<1>4. r.key # None
  BY <1>1, <1>2, <1>3, NoneIsNoData
<1>5. /\ tenant' \in [Tenants -> Tenant]
      /\ trail' \in [Tenants -> SUBSET TenantEvent]
      /\ given' \in [Tenants -> SUBSET Keys]
      /\ tenant'[t] = r /\ trail'[t] = trail[t] \cup {"tenant.deactivated"}
      /\ given'[t] = given[t] \cup {r.key}
      /\ \A u \in Tenants \ {t} :
            tenant'[u] = tenant[u] /\ trail'[u] = trail[u] /\ given'[u] = given[u]
  BY <1>3, <1>4, TablesTyped DEF Deactivated, TenantEvent
<1> HIDE DEF r
<1>6. given'[t] = given[t] /\ given' = given
  BY <1>1, <1>3, <1>5 DEF TenantInv, TenantTypeOK
<1>7. /\ admin' \in [Admins -> AdminRequest]
      /\ admin'[a] = NoRequest
      /\ \A b \in Admins \ {a} : admin'[b] = admin[b]
  BY AdminUpdate, RequestTyped
<1>8. admin'[a].pc = "idle"
  BY <1>7 DEF NoRequest
<1>9. \A u \in Tenants : /\ Registered(u)' <=> Registered(u)
                         /\ tenant'[u].name = tenant[u].name
                         /\ tenant'[u].key = tenant[u].key
                         /\ tenant'[u].active => tenant[u].active
  BY <1>1, <1>3, <1>5 DEF Registered
<1>10. TenantTypeOK'
  BY <1>5, <1>7 DEF TenantInv, TenantTypeOK
<1>11. KeysBelong'
  BY <1>1, <1>5, <1>6, <1>9 DEF TenantInv, KeysBelong
<1>12. AdminsInStep'
  <2>1. ASSUME NEW b \in Admins \ {a}, admin[b].pc \in {"rotate", "deactivate"}
        PROVE  admin[b].id \in Tenants
    BY <2>1 DEF TenantInv, TenantTypeOK, AdminsInStep, AdminRequest
  <2>2. ASSUME NEW b \in Admins \ {a}
        PROVE  /\ admin[b].pc = "insert" => admin[b].obj.name # None /\ admin[b].obj.active
               /\ admin[b].pc = "refresh" => admin[b].key # None
               /\ admin[b].pc \in {"rotate", "deactivate"} =>
                     /\ admin[b].id # None /\ Registered(admin[b].id)'
                     /\ admin[b].obj.key \in given'[admin[b].id]
                     /\ tenant'[admin[b].id].active => admin[b].obj.active
    BY <1>6, <1>9, <2>1 DEF TenantInv, AdminsInStep
  <2> QED BY <1>7, <1>8, <2>2 DEF AdminsInStep
<1>13. SessionsInStep' /\ ActsAsOwnTenant'
  BY <1>5, <1>6, SessionsKept
<1>14. NamesUnique'
  BY <1>9 DEF TenantInv, NamesUnique
<1>15. AuditExplainsTenant'
  <2>1. ASSUME NEW u \in Tenants \ {t}
        PROVE  /\ Registered(u)' <=> "tenant.created" \in trail'[u]
               /\ Registered(u)' /\ ~tenant'[u].active <=> "tenant.deactivated" \in trail'[u]
    BY <1>5 DEF TenantInv, AuditExplainsTenant, Registered
  <2>2. /\ Registered(t)' <=> "tenant.created" \in trail'[t]
        /\ Registered(t)' /\ ~tenant'[t].active <=> "tenant.deactivated" \in trail'[t]
    BY <1>1, <1>3, <1>5, <1>9 DEF TenantInv, AuditExplainsTenant
  <2>3. ASSUME NEW u \in Tenants
        PROVE  (\E j, l \in given'[u] : j # l) <=> "tenant.key_rotated" \in trail'[u]
    BY <1>5, <1>6 DEF TenantInv, AuditExplainsTenant
  <2> QED BY <2>1, <2>2, <2>3 DEF AuditExplainsTenant
<1>16. KeyReachesSomebody'
  <2>1. ASSUME losses' = 0, NEW u \in Tenants, Registered(u)'
        PROVE  \/ tenant'[u].key \in shown'
               \/ \E b \in Admins : admin'[b].pc = "refresh" /\ admin'[b].key = tenant'[u].key
    <3>1. Registered(u) /\ tenant'[u].key = tenant[u].key
      BY <1>9, <2>1
    <3>2. CASE tenant[u].key \in shown
      BY <3>1, <3>2
    <3>3. ASSUME NEW b \in Admins, admin[b].pc = "refresh", admin[b].key = tenant[u].key
          PROVE  admin'[b].pc = "refresh" /\ admin'[b].key = tenant'[u].key
      BY <1>7, <3>1, <3>3
    <3> QED BY <2>1, <3>1, <3>2, <3>3 DEF TenantInv, KeyReachesSomebody
  <2> QED BY <2>1 DEF KeyReachesSomebody
<1> QED BY <1>10, <1>11, <1>12, <1>13, <1>14, <1>15, <1>16 DEF TenantInv

\* What an admin request holds is right for the tables.
HoldsRight(r) ==
    /\ r.pc = "insert" => r.obj.name # None /\ r.obj.active
    /\ r.pc = "refresh" => r.key # None
    /\ r.pc \in {"rotate", "deactivate"} =>
          /\ r.id # None /\ Registered(r.id)
          /\ r.obj.key \in given[r.id]
          /\ tenant[r.id].active => r.obj.active

\* An admin step that reads only.  A thread that leaves "refresh" has shown its
\* key, or is lost.
LEMMA AdminReadInv ==
    ASSUME TenantInv, NEW a \in Admins, NEW r \in AdminRequest, HoldsRight(r),
           admin' = [admin EXCEPT ![a] = r], UNCHANGED <<tenant, trail, given, session>>,
           shown' \in SUBSET Keys, shown \subseteq shown', losses' \in 0 .. MaxLosses,
           losses' = 0 => losses = 0,
           losses' = 0 /\ admin[a].pc = "refresh" => admin[a].key \in shown'
    PROVE  TenantInv'
<1>1. /\ admin' \in [Admins -> AdminRequest]
      /\ admin'[a] = r
      /\ \A b \in Admins \ {a} : admin'[b] = admin[b]
  BY AdminUpdate
<1>2. TenantTypeOK' /\ KeysBelong' /\ SessionsInStep' /\ NamesUnique' /\ ActsAsOwnTenant'
      /\ AuditExplainsTenant'
  BY <1>1 DEF TenantInv, TenantTypeOK, KeysBelong, SessionsInStep, NamesUnique, ActsAsOwnTenant,
              AuditExplainsTenant, Registered
<1>3. AdminsInStep'
  <2>1. ASSUME NEW b \in Admins PROVE HoldsRight(admin'[b])
    BY <1>1 DEF TenantInv, AdminsInStep, HoldsRight
  <2> QED BY <2>1 DEF AdminsInStep, HoldsRight, Registered
<1>4. KeyReachesSomebody'
  <2>1. ASSUME losses' = 0, NEW u \in Tenants, Registered(u)'
        PROVE  \/ tenant'[u].key \in shown'
               \/ \E b \in Admins : admin'[b].pc = "refresh" /\ admin'[b].key = tenant'[u].key
    <3>1. Registered(u)
      BY <2>1 DEF Registered
    <3>2. CASE tenant[u].key \in shown
      BY <3>2
    <3>3. ASSUME NEW b \in Admins, admin[b].pc = "refresh", admin[b].key = tenant[u].key
          PROVE  \/ tenant'[u].key \in shown'
                 \/ admin'[b].pc = "refresh" /\ admin'[b].key = tenant'[u].key
      BY <1>1, <2>1, <3>3
    <3> QED BY <2>1, <3>1, <3>2, <3>3 DEF TenantInv, KeyReachesSomebody
  <2> QED BY <2>1 DEF KeyReachesSomebody
<1> QED BY <1>2, <1>3, <1>4 DEF TenantInv

\* A step of a caller's session.
LEMMA SessionInv ==
    ASSUME TenantInv, NEW c \in Clients,
           SessionStep(c) \/ (\E k \in Keys : get_current_tenant_select(c, k))
    PROVE  TenantInv'
<1>1. UNCHANGED <<tenant, trail, given, admin, shown, losses>>
  BY DEF SessionStep, get_current_tenant_verify, respond, get_current_tenant_select
<1>2. TenantTypeOK' /\ KeysBelong' /\ AdminsInStep' /\ NamesUnique' /\ AuditExplainsTenant'
      /\ KeyReachesSomebody' <=> session' \in [Clients -> Session]
  BY <1>1 DEF TenantInv, TenantTypeOK, KeysBelong, AdminsInStep, NamesUnique, AuditExplainsTenant,
              KeyReachesSomebody, Registered
<1>3. session \in [Clients -> Session] /\ NoSession \in Session
  BY DEF TenantInv, TenantTypeOK, NoSession, Session
<1>4. ASSUME NEW s \in Session, session' = [session EXCEPT ![c] = s],
             s.pc = "verify" => \A r \in s.rows : r[2] \in given[r[1]],
             s.pc = "handler" => s.tenant # None /\ s.key # None /\ s.key \in given[s.tenant],
             s.pc = "idle" => s = NoSession
      PROVE  TenantInv'
  <2>1. /\ session' \in [Clients -> Session] /\ session'[c] = s
        /\ \A d \in Clients \ {c} : session'[d] = session[d]
    BY <1>3, <1>4
  <2>2. SessionsInStep' /\ ActsAsOwnTenant'
    BY <1>1, <1>4, <2>1 DEF TenantInv, SessionsInStep, ActsAsOwnTenant
  <2> QED BY <1>2, <2>1, <2>2 DEF TenantInv
<1>5. CASE \E k \in Keys : get_current_tenant_select(c, k)
  <2>1. PICK k \in Keys : get_current_tenant_select(c, k)
    BY <1>5
  <2> DEFINE s == [NoSession EXCEPT !.pc = "verify", !.key = k, !.rows = ActiveTenants]
  <2>2. ASSUME NEW t \in Tenants, tenant[t].active
        PROVE  tenant[t].key \in given[t] /\ tenant[t].key \in Keys
    BY <2>2 DEF TenantInv, TenantTypeOK, KeysBelong, NoTenant
  <2>3. ActiveTenants \subseteq Tenants \X Keys /\ \A r \in ActiveTenants : r[2] \in given[r[1]]
    BY <2>2 DEF ActiveTenants
  <2>4. s \in Session /\ s.pc = "verify" /\ s.rows = ActiveTenants
    BY <2>3 DEF Session, NoSession
  <2>5. session' = [session EXCEPT ![c] = s]
    BY <2>1 DEF get_current_tenant_select
  <2> HIDE DEF s
  <2> QED BY <1>4, <2>3, <2>4, <2>5
<1>6. CASE session' = [session EXCEPT ![c] = NoSession]
  BY <1>3, <1>4, <1>6 DEF NoSession
<1>7. CASE /\ session[c].pc = "verify"
           /\ \E t \in Verified(session[c]) :
                 session' = [session EXCEPT ![c].pc = "handler", ![c].rows = {}, ![c].tenant = t]
  <2>1. PICK t \in Verified(session[c]) :
                 session' = [session EXCEPT ![c].pc = "handler", ![c].rows = {}, ![c].tenant = t]
    BY <1>7
  <2> DEFINE s == [session[c] EXCEPT !.pc = "handler", !.rows = {}, !.tenant = t]
  <2>2. session' = [session EXCEPT ![c] = s]
    BY <1>3, <2>1
  <2>3. t \in Tenants /\ <<t, session[c].key>> \in session[c].rows
    BY DEF Verified
  <2>4. session[c].key \in given[t] /\ session[c].key # None
    <3>1. <<t, session[c].key>>[2] \in given[<<t, session[c].key>>[1]]
      BY <1>7, <2>3 DEF TenantInv, SessionsInStep
    <3>2. given[t] \subseteq Keys
      BY <2>3 DEF TenantInv, TenantTypeOK
    <3> QED BY <3>1, <3>2, NoneIsNoData
  <2>5. s \in Session /\ s.pc = "handler" /\ s.tenant = t /\ s.key = session[c].key
    BY <1>3, <2>3 DEF Session
  <2>6. t # None
    BY <2>3, NoneIsNoData
  <2> HIDE DEF s
  <2> QED BY <1>4, <2>2, <2>4, <2>5, <2>6
<1> QED BY <1>5, <1>6, <1>7 DEF SessionStep, get_current_tenant_verify, respond

\* Every step of an admin thread.
LEMMA AdminInv ==
    ASSUME TenantInv, NEW a \in Admins, AdminRequests(a) \/ AdminStep(a) \/ lose_request(a)
    PROVE  TenantInv'
<1>1. admin[a] \in AdminRequest /\ shown \in SUBSET Keys /\ losses \in 0 .. MaxLosses
  BY DEF TenantInv, TenantTypeOK
<1>2. HoldsRight(NoRequest)
  BY DEF HoldsRight, NoRequest
<1>3. ASSUME NEW n \in Names, create_tenant_select(a, n) PROVE TenantInv'
  <2> DEFINE r == [NoRequest EXCEPT !.pc = "insert", !.obj.name = n, !.obj.active = TRUE]
  <2>1. r \in AdminRequest /\ HoldsRight(r)
    BY NoneIsNoData DEF NoRequest, NoTenant, Tenant, AdminRequest, HoldsRight
  <2>2. admin[a].pc = "idle" /\ admin' = [admin EXCEPT ![a] = r]
        /\ UNCHANGED <<tenant, trail, given, shown, losses, session>>
    BY <1>3 DEF create_tenant_select
  <2> HIDE DEF r
  <2> QED BY <1>1, <2>1, <2>2, AdminReadInv
<1>4. ASSUME NEW t \in Tenants, NEW pc \in {"rotate", "deactivate"}, tenant_get(a, t, pc)
      PROVE  TenantInv'
  <2> DEFINE r == [NoRequest EXCEPT !.pc = pc, !.id = t, !.obj = tenant[t]]
  <2>1. tenant[t] \in Tenant /\ Registered(t) /\ tenant[t].key \in given[t]
    BY <1>4 DEF TenantInv, TenantTypeOK, KeysBelong, tenant_get
  <2>2. r \in AdminRequest /\ HoldsRight(r)
    BY <2>1, NoneIsNoData DEF NoRequest, NoTenant, Tenant, AdminRequest, HoldsRight
  <2>3. admin[a].pc = "idle" /\ admin' = [admin EXCEPT ![a] = r]
        /\ UNCHANGED <<tenant, trail, given, shown, losses, session>>
    BY <1>4 DEF tenant_get
  <2> HIDE DEF r
  <2> QED BY <1>1, <2>2, <2>3, AdminReadInv
<1>5. CASE create_tenant_insert(a)
  <2>1. admin[a].pc = "insert" /\ admin[a].obj.name \in Names \cup {None}
        /\ UNCHANGED <<shown, losses, session>>
    BY <1>1, <1>5 DEF create_tenant_insert, AdminRequest, Tenant
  <2>2. CASE UNCHANGED <<tenant, trail, given>> /\ admin' = [admin EXCEPT ![a] = NoRequest]
    BY <1>1, <1>2, <2>1, <2>2, AdminReadInv, RequestTyped
  <2> QED BY <1>5, <2>1, <2>2, InsertCreates, CreatedInv
<1>6. CASE rotate_api_key_commit(a)
  <2>1. admin[a].pc = "rotate" /\ UNCHANGED <<shown, losses, session>>
    BY <1>6 DEF rotate_api_key_commit
  <2> QED BY <1>6, <2>1, RotationRotates, RotatedInv
<1>7. CASE deactivate_tenant_commit(a)
  <2>1. admin[a].pc = "deactivate" /\ UNCHANGED <<shown, losses, session>>
        /\ admin' = [admin EXCEPT ![a] = NoRequest]
    BY <1>7 DEF deactivate_tenant_commit
  <2> QED BY <1>7, <2>1, DeactivationDeactivates, DeactivatedInv
<1>8. CASE refresh_and_answer(a)
  <2>1. admin[a].key \in Keys
    BY <1>1, <1>8 DEF refresh_and_answer, TenantInv, AdminsInStep, AdminRequest
  <2>2. /\ shown' = shown \cup {admin[a].key} /\ admin' = [admin EXCEPT ![a] = NoRequest]
        /\ UNCHANGED <<tenant, trail, given, losses, session>>
    BY <1>8 DEF refresh_and_answer
  <2> QED BY <1>1, <1>2, <2>1, <2>2, AdminReadInv, RequestTyped
<1>9. CASE lose_request(a)
  <2>1. losses' \in 0 .. MaxLosses /\ losses' # 0
    BY <1>1, <1>9, LossesAreNat DEF lose_request
  <2>2. admin' = [admin EXCEPT ![a] = NoRequest] /\ UNCHANGED <<tenant, trail, given, shown, session>>
    BY <1>9 DEF lose_request
  <2> QED BY <1>1, <1>2, <2>1, <2>2, AdminReadInv, RequestTyped
<1> QED BY <1>3, <1>4, <1>5, <1>6, <1>7, <1>8, <1>9 DEF AdminRequests, AdminStep

\* A step that changes nothing.
LEMMA StutterInv == ASSUME TenantInv, UNCHANGED tenantVars PROVE TenantInv'
BY DEF tenantVars, TenantInv, TenantTypeOK, KeysBelong, AdminsInStep, SessionsInStep, NamesUnique,
       ActsAsOwnTenant, AuditExplainsTenant, KeyReachesSomebody, Registered

\* Every step keeps the invariant.
LEMMA TenantStep == ASSUME TenantInv, [TenantNext]_tenantVars PROVE TenantInv'
<1>1. CASE UNCHANGED tenantVars
  BY <1>1, StutterInv
<1>2. CASE TenantNext
  BY <1>2, AdminInv, SessionInv DEF TenantNext
<1> QED BY <1>1, <1>2

\* The invariant of the tenants holds in every reachable state: types, unique
\* names, keys that stay with their tenant, objects and sessions in step with the
\* tables, an audit trail that explains them, and a key that reaches somebody.
THEOREM TenantsSafe == TenantSpec => []TenantInv
<1>1. TenantInit => TenantInv
  BY TenantInitInv
<1>2. TenantInv /\ [TenantNext]_tenantVars => TenantInv'
  BY TenantStep
<1> QED BY <1>1, <1>2, PTL DEF TenantSpec

\* Every variable keeps its type: in particular no row ever loses its hash.
THEOREM TenantTypes == TenantSpec => []TenantTypeOK
<1>1. TenantInv => TenantTypeOK
  BY DEF TenantInv
<1> QED BY <1>1, TenantsSafe, PTL

\* Names are unique although two creations may both find one free.
THEOREM NamesStayUnique == TenantSpec => []NamesUnique
<1>1. TenantInv => NamesUnique
  BY DEF TenantInv
<1> QED BY <1>1, TenantsSafe, PTL

\* A handler never runs as another tenant than the one its caller's key was given to.
THEOREM SessionsAreOwn == TenantSpec => []ActsAsOwnTenant
<1>1. TenantInv => ActsAsOwnTenant
  BY DEF TenantInv
<1> QED BY <1>1, TenantsSafe, PTL

\* The audit trail tells who was disabled and whose key was replaced.
THEOREM TrailExplains == TenantSpec => []AuditExplainsTenant
<1>1. TenantInv => AuditExplainsTenant
  BY DEF TenantInv
<1> QED BY <1>1, TenantsSafe, PTL

\* However many rotations overlap, the key in force is shown to somebody.
THEOREM KeyInForceIsShown == TenantSpec => []KeyReachesSomebody
<1>1. TenantInv => KeyReachesSomebody
  BY DEF TenantInv
<1> QED BY <1>1, TenantsSafe, PTL
-----------------------------------------------------------------------------
(* Revocation. *)

\* Whatever is committed, a key that was replaced or disabled opens nothing again: the
\* new keys are fresh, and no row becomes active once it was inserted.
LEMMA ClosedStaysClosed ==
    ASSUME TenantInv, [TenantNext]_tenantVars, NEW t \in Tenants, NEW k \in given[t], ~Opens(t, k)
    PROVE  k \in given'[t] /\ ~Opens(t, k)'
<1> DEFINE Goal == k \in given'[t] /\ ~Opens(t, k)'
<1>1. tenant \in [Tenants -> Tenant] /\ given \in [Tenants -> SUBSET Keys]
  BY DEF TenantInv, TenantTypeOK
<1>2. CASE UNCHANGED <<tenant, given>>
  BY <1>2 DEF Opens
<1>3. ASSUME NEW u \in Tenants, NEW n, NEW l \in Fresh, Created(u, n, l) PROVE Goal
  <2>1. u # t
    BY <1>3 DEF Created, TenantInv, KeysBelong
  <2> QED BY <1>1, <1>3, <2>1 DEF Created, CommitTenant, Opens
<1>4. ASSUME NEW u \in Tenants, NEW l \in Fresh, Rotated(u, l) PROVE Goal
  <2>1. l # k
    BY FreshKey
  <2> QED BY <1>1, <1>4, <2>1 DEF Rotated, CommitTenant, Opens, Tenant
<1>5. ASSUME NEW u \in Tenants, Deactivated(u) PROVE Goal
  BY <1>1, <1>5 DEF Deactivated, CommitTenant, Opens, Tenant
<1>6. ASSUME NEW a \in Admins, AdminStep(a) PROVE Goal
  <2>1. CASE create_tenant_insert(a)
    BY <1>2, <1>3, <2>1, InsertCreates
  <2>2. CASE rotate_api_key_commit(a)
    BY <1>4, <2>2, RotationRotates
  <2>3. CASE deactivate_tenant_commit(a)
    BY <1>5, <2>3, DeactivationDeactivates
  <2> QED BY <1>2, <1>6, <2>1, <2>2, <2>3 DEF AdminStep, refresh_and_answer
<1> QED BY <1>2, <1>6
        DEF TenantNext, AdminRequests, create_tenant_select, tenant_get, lose_request, SessionStep,
            get_current_tenant_select, get_current_tenant_verify, respond, tenantVars

\* No session comes to hold a key that opened nothing and that it did not find.
LEMMA NobodyGetsIn ==
    ASSUME TenantInv, [TenantNext]_tenantVars, NEW t \in Tenants, NEW k \in Keys, LockedOut(t, k),
           NEW c \in Clients, session'[c].key = k
    PROVE  session'[c].tenant # t /\ <<t, k>> \notin session'[c].rows
<1>1. session \in [Clients -> Session] /\ k # None
  BY NoneIsNoData DEF TenantInv, TenantTypeOK
<1>2. CASE session'[c] = session[c]
  BY <1>2 DEF LockedOut
<1>3. CASE session'[c] = NoSession
  BY <1>1, <1>3 DEF NoSession
<1>4. ASSUME NEW d \in Clients, NEW l \in Keys, get_current_tenant_select(d, l)
      PROVE  session'[c].tenant # t /\ <<t, k>> \notin session'[c].rows
  <2>1. <<t, k>> \notin ActiveTenants
    BY DEF LockedOut, Opens, ActiveTenants
  <2>2. CASE c = d
    BY <1>1, <1>4, <2>1, <2>2, NoneIsNoData DEF get_current_tenant_select, NoSession
  <2> QED BY <1>1, <1>2, <1>4, <2>2 DEF get_current_tenant_select
<1>5. ASSUME NEW d \in Clients, get_current_tenant_verify(d)
      PROVE  session'[c].tenant # t /\ <<t, k>> \notin session'[c].rows
  <2>1. CASE c = d /\ \E u \in Verified(session[d]) :
                session' = [session EXCEPT ![d].pc = "handler", ![d].rows = {}, ![d].tenant = u]
    <3>1. PICK u \in Verified(session[d]) :
             session' = [session EXCEPT ![d].pc = "handler", ![d].rows = {}, ![d].tenant = u]
      BY <2>1
    <3>2. /\ session'[c].key = session[c].key /\ session'[c].tenant = u
          /\ session'[c].rows = {}
      BY <1>1, <2>1, <3>1 DEF Session
    <3>3. <<u, k>> \in session[c].rows
      BY <2>1, <3>2 DEF Verified
    <3> QED BY <3>2, <3>3 DEF LockedOut
  <2> QED BY <1>1, <1>2, <1>3, <1>5, <2>1 DEF get_current_tenant_verify
<1>6. ASSUME NEW d \in Clients, respond(d)
      PROVE  session'[c].tenant # t /\ <<t, k>> \notin session'[c].rows
  BY <1>1, <1>2, <1>3, <1>6 DEF respond
<1>7. CASE UNCHANGED session
  BY <1>2, <1>7
<1> QED BY <1>4, <1>5, <1>6, <1>7
        DEF TenantNext, AdminRequests, AdminStep, create_tenant_select, tenant_get,
            create_tenant_insert, rotate_api_key_commit, deactivate_tenant_commit,
            refresh_and_answer, lose_request, SessionStep, tenantVars

\* A tenant that was disabled is never active again.
LEMMA DisabledStays ==
    ASSUME TenantInv, [TenantNext]_tenantVars, NEW t \in Tenants, Registered(t), ~tenant[t].active
    PROVE  Registered(t)' /\ ~tenant'[t].active
<1>1. TenantInv'
  BY TenantStep
<1>2. "tenant.deactivated" \in trail[t] /\ trail \in [Tenants -> SUBSET TenantEvent]
  BY DEF TenantInv, TenantTypeOK, AuditExplainsTenant
<1>3. ASSUME NEW u, NEW r, NEW e, CommitTenant(u, r, e)
      PROVE  "tenant.deactivated" \in trail'[t]
  BY <1>2, <1>3 DEF CommitTenant
<1>4. (\A u, r, e : ~CommitTenant(u, r, e)) => UNCHANGED trail
  BY DEF TenantNext, AdminRequests, AdminStep, create_tenant_select, tenant_get,
         create_tenant_insert, rotate_api_key_commit, deactivate_tenant_commit,
         refresh_and_answer, lose_request, SessionStep, get_current_tenant_select,
         get_current_tenant_verify, respond, tenantVars
<1>5. "tenant.deactivated" \in trail'[t]
  BY <1>2, <1>3, <1>4
<1> QED BY <1>1, <1>5 DEF TenantInv, AuditExplainsTenant

\* No SELECT finds it, so that no session becomes its own.
LEMMA NobodyFindsDisabled ==
    ASSUME TenantInv, [TenantNext]_tenantVars, NEW t \in Tenants, ~tenant[t].active,
           \A c \in Clients : /\ session[c].tenant # t
                              /\ \A k \in Keys : <<t, k>> \notin session[c].rows,
           NEW c \in Clients
    PROVE  session'[c].tenant # t /\ \A k \in Keys : <<t, k>> \notin session'[c].rows
<1> DEFINE Goal == session'[c].tenant # t /\ \A k \in Keys : <<t, k>> \notin session'[c].rows
<1>1. session \in [Clients -> Session]
  BY DEF TenantInv, TenantTypeOK
<1>2. CASE session'[c] \in {session[c], NoSession}
  BY <1>2, NoneIsNoData DEF NoSession
<1>3. ASSUME NEW d \in Clients, NEW l \in Keys, get_current_tenant_select(d, l) PROVE Goal
  <2>1. \A k \in Keys : <<t, k>> \notin ActiveTenants
    BY DEF ActiveTenants
  <2>2. CASE c = d
    BY <1>1, <1>3, <2>1, <2>2, NoneIsNoData DEF get_current_tenant_select, NoSession
  <2> QED BY <1>1, <1>2, <1>3, <2>2 DEF get_current_tenant_select
<1>4. ASSUME NEW d \in Clients, get_current_tenant_verify(d) PROVE Goal
  <2>1. ASSUME c = d, NEW u \in Verified(session[d]),
               session' = [session EXCEPT ![d].pc = "handler", ![d].rows = {}, ![d].tenant = u]
        PROVE  Goal
    <3>1. session'[c].tenant = u /\ session'[c].rows = {}
      BY <1>1, <2>1 DEF Session
    <3>2. <<u, session[c].key>> \in session[c].rows /\ session[c] \in Session
      BY <1>1, <2>1 DEF Verified
    <3>3. session[c].key \in Keys
      BY <3>2 DEF Session
    <3> QED BY <3>1, <3>2, <3>3
  <2> QED BY <1>1, <1>2, <1>4, <2>1 DEF get_current_tenant_verify
<1>5. ASSUME NEW d \in Clients, respond(d) PROVE Goal
  BY <1>1, <1>2, <1>5 DEF respond
<1>6. CASE UNCHANGED session
  BY <1>2, <1>6
<1> QED BY <1>3, <1>4, <1>5, <1>6
        DEF TenantNext, AdminRequests, AdminStep, create_tenant_select, tenant_get,
            create_tenant_insert, rotate_api_key_commit, deactivate_tenant_commit,
            refresh_and_answer, lose_request, SessionStep, tenantVars

\* Once locked out, a key stays so: for any number of admins, callers and rotations.
THEOREM RevocationIsFinal == TenantSpec => RevokedStaysRevoked
<1>1. TenantInv /\ [TenantNext]_tenantVars =>
         [\A t \in Tenants, k \in Keys : LockedOut(t, k) => LockedOut(t, k)']_tenantVars
  <2> SUFFICES ASSUME TenantInv, [TenantNext]_tenantVars,
                      NEW t \in Tenants, NEW k \in Keys, LockedOut(t, k)
               PROVE  LockedOut(t, k)'
    OBVIOUS
  <2>1. k \in given'[t] /\ ~Opens(t, k)'
    BY ClosedStaysClosed DEF LockedOut
  <2>2. \A c \in Clients : session'[c].key = k =>
           session'[c].tenant # t /\ <<t, k>> \notin session'[c].rows
    BY NobodyGetsIn
  <2> QED BY <2>1, <2>2 DEF LockedOut
<1> QED BY <1>1, TenantsSafe, PTL DEF TenantSpec, RevokedStaysRevoked
-----------------------------------------------------------------------------
(* The refinement of TenantDirectory. *)

Spent == UNION {given[t] : t \in Tenants}
Actors == [c \in Clients |-> Acting(session[c])]

\* A fresh key is spent with its tenant's commit.
LEMMA FreshIsSpent ==
    ASSUME TenantInv, NEW t \in Tenants, NEW k \in Fresh, given' = [given EXCEPT ![t] = @ \cup {k}]
    PROVE  k \in Keys \ Spent /\ Spent' = Spent \cup {k}
<1>1. given \in [Tenants -> SUBSET Keys]
  BY DEF TenantInv, TenantTypeOK
<1> QED BY <1>1 DEF Fresh, Spent

\* The initial states of the two correspond.
LEMMA DirectoryInit == TenantInit => Directory!Init
BY DEF TenantInit, Directory!Init, Standing, Opening, Registered, NoTenant, Acting, NoSession

\* A session's SELECT names one tenant at most: keys are nobody else's.
LEMMA VerifiedIsOne ==
    ASSUME TenantInv, NEW c \in Clients, session[c].pc = "verify",
           NEW t \in Verified(session[c]), NEW u \in Verified(session[c])
    PROVE  t = u
<1>1. session[c].key \in given[t] /\ t \in Tenants
  <2>1. <<t, session[c].key>> \in session[c].rows
    BY DEF Verified
  <2> QED BY <2>1 DEF TenantInv, SessionsInStep, Verified
<1>2. session[c].key \in given[u] /\ u \in Tenants
  <2>1. <<u, session[c].key>> \in session[c].rows
    BY DEF Verified
  <2> QED BY <2>1 DEF TenantInv, SessionsInStep, Verified
<1> QED BY <1>1, <1>2 DEF TenantInv, KeysBelong

\* A creation registers a tenant.
LEMMA CreatedRegisters ==
    ASSUME TenantInv, NEW t \in Tenants, NEW n, NEW k \in Fresh, Created(t, n, k), UNCHANGED session
    PROVE  Directory!Next
<1>1. PICK r \in Tenant : r.name = n /\ r.key = k /\ r.active /\ CommitTenant(t, r, "tenant.created")
  BY DEF Created
<1>2. tenant' = [tenant EXCEPT ![t] = r] /\ given' = [given EXCEPT ![t] = @ \cup {k}]
  BY <1>1 DEF CommitTenant
<1>3. k \in Keys \ Spent /\ Spent' = Spent \cup {k}
  BY <1>2, FreshIsSpent
<1>4. ~Registered(t) /\ n # None /\ tenant \in [Tenants -> Tenant]
  BY NoneIsNoData DEF Created, TenantInv, TenantTypeOK
<1>5. Standing[t] = "unknown" /\ Standing' = [Standing EXCEPT ![t] = "active"]
  BY <1>1, <1>2, <1>4 DEF Standing, Registered
<1>6. Opening' = [Opening EXCEPT ![t] = k]
  BY <1>1, <1>2, <1>4 DEF Opening
<1>7. Actors' = Actors
  BY DEF Actors, Acting, Verified
<1>8. Directory!Register(t, k)
  BY <1>3, <1>5, <1>6, <1>7 DEF Directory!Register, Directory!Spend, Spent, Actors
<1> QED BY <1>3, <1>8 DEF Directory!Next

\* A rotation replaces the key of an active tenant, and uses one up in any case.
LEMMA RotatedRotates ==
    ASSUME TenantInv, NEW t \in Tenants, NEW k \in Fresh, Rotated(t, k), UNCHANGED session
    PROVE  Directory!Next
<1>1. /\ tenant' = [tenant EXCEPT ![t] = [tenant[t] EXCEPT !.key = k]]
      /\ tenant \in [Tenants -> Tenant] /\ Registered(t)
  BY DEF Rotated, CommitTenant, TenantInv, TenantTypeOK
<1>2. tenant'[t].name = tenant[t].name /\ tenant'[t].active = tenant[t].active /\ tenant'[t].key = k
  BY <1>1 DEF Tenant
<1>3. given' = [given EXCEPT ![t] = @ \cup {k}]
  BY <1>1 DEF Rotated, CommitTenant, Tenant
<1>4. k \in Keys \ Spent /\ Spent' = Spent \cup {k}
  BY <1>3, FreshIsSpent
<1>5. \A u \in Tenants \ {t} : tenant'[u] = tenant[u]
  BY <1>1
<1>6. Standing' = Standing /\ Standing[t] = IF tenant[t].active THEN "active" ELSE "disabled"
  BY <1>1, <1>2, <1>5 DEF Standing, Registered
<1>7. Opening' = IF Standing[t] = "active" THEN [Opening EXCEPT ![t] = k] ELSE Opening
  <2>1. CASE tenant[t].active
    BY <1>2, <1>5, <1>6, <2>1 DEF Opening
  <2>2. CASE ~tenant[t].active
    BY <1>2, <1>5, <1>6, <2>2 DEF Opening
  <2> QED BY <2>1, <2>2
<1>8. Actors' = Actors
  BY DEF Actors, Acting, Verified
<1>9. Directory!Rotate(t, k)
  BY <1>4, <1>6, <1>7, <1>8 DEF Directory!Rotate, Directory!Spend, Spent, Actors
<1> QED BY <1>4, <1>9 DEF Directory!Next

\* A deactivation disables the tenant, or finds it disabled.
LEMMA DeactivatedDisables ==
    ASSUME TenantInv, NEW t \in Tenants, Deactivated(t), UNCHANGED session
    PROVE  [Directory!Next]_Directory!vars
<1>1. /\ tenant' = [tenant EXCEPT ![t] = [tenant[t] EXCEPT !.active = FALSE]]
      /\ tenant \in [Tenants -> Tenant] /\ Registered(t)
  BY DEF Deactivated, CommitTenant, TenantInv, TenantTypeOK
<1>2. tenant'[t].name = tenant[t].name /\ ~tenant'[t].active /\ tenant'[t].key = tenant[t].key
  BY <1>1 DEF Tenant
<1>3. given' = given
  <2>1. given' = [given EXCEPT ![t] = @ \cup {tenant[t].key}]
    BY <1>1 DEF Deactivated, CommitTenant, Tenant
  <2> QED BY <1>1, <2>1 DEF TenantInv, TenantTypeOK, KeysBelong
<1>4. Spent' = Spent /\ Actors' = Actors
  BY <1>3 DEF Spent, Actors, Acting, Verified
<1>5. \A u \in Tenants \ {t} : tenant'[u] = tenant[u]
  BY <1>1
<1>6. CASE tenant[t].active
  <2>1. Standing[t] = "active" /\ Standing' = [Standing EXCEPT ![t] = "disabled"]
    BY <1>1, <1>2, <1>5, <1>6 DEF Standing, Registered
  <2>2. Opening' = [Opening EXCEPT ![t] = None]
    BY <1>2, <1>5 DEF Opening
  <2>3. Directory!Disable(t)
    BY <1>4, <2>1, <2>2 DEF Directory!Disable, Spent, Actors
  <2> QED BY <2>3 DEF Directory!Next
<1>7. CASE ~tenant[t].active
  <2>1. Standing' = Standing
    BY <1>1, <1>2, <1>5, <1>7 DEF Standing, Registered
  <2>2. Opening' = Opening
    BY <1>2, <1>5, <1>7 DEF Opening
  <2> QED BY <1>4, <2>1, <2>2 DEF Directory!vars, Spent, Actors
<1> QED BY <1>6, <1>7

\* A session enters at its SELECT, and leaves with its answer.
LEMMA SessionEnters ==
    ASSUME TenantInv, NEW c \in Clients,
           SessionStep(c) \/ (\E k \in Keys : get_current_tenant_select(c, k))
    PROVE  [Directory!Next]_Directory!vars
<1>1. UNCHANGED <<tenant, given>> /\ session \in [Clients -> Session]
  BY DEF SessionStep, get_current_tenant_verify, respond, get_current_tenant_select, TenantInv,
         TenantTypeOK
<1>2. Standing' = Standing /\ Opening' = Opening /\ Spent' = Spent
  BY <1>1 DEF Standing, Opening, Spent, Registered
<1>3. ASSUME NEW s, session' = [session EXCEPT ![c] = s]
      PROVE  Actors' = [Actors EXCEPT ![c] = Acting(s)]
  BY <1>1, <1>3 DEF Actors
<1>4. Acting(NoSession) = None
  BY DEF Acting, NoSession
<1>5. CASE session' = [session EXCEPT ![c] = NoSession]
  <2>1. Directory!Leave(c)
    BY <1>2, <1>3, <1>4, <1>5 DEF Directory!Leave, Spent, Actors
  <2> QED BY <2>1 DEF Directory!Next
<1>6. ASSUME NEW t \in Verified(session[c]), session[c].pc = "verify",
             session' = [session EXCEPT ![c].pc = "handler", ![c].rows = {}, ![c].tenant = t]
      PROVE  UNCHANGED Directory!vars
  <2> DEFINE s == [session[c] EXCEPT !.pc = "handler", !.rows = {}, !.tenant = t]
  <2>1. session' = [session EXCEPT ![c] = s]
    BY <1>1, <1>6
  <2>2. s.pc = "handler" /\ s.tenant = t /\ s.key = session[c].key
    BY <1>1 DEF Session
  <2>3. Found(session[c]) = t
    BY <1>6, VerifiedIsOne DEF Found
  <2>4. Acting(s) = Acting(session[c])
    BY <1>6, <2>2, <2>3 DEF Acting
  <2> HIDE DEF s
  <2>5. Actors' = Actors
    BY <1>3, <2>1, <2>4 DEF Actors
  <2> QED BY <1>2, <2>5 DEF Directory!vars, Spent, Actors
<1>7. ASSUME NEW k \in Keys, get_current_tenant_select(c, k)
      PROVE  [Directory!Next]_Directory!vars
  <2> DEFINE s == [NoSession EXCEPT !.pc = "verify", !.key = k, !.rows = ActiveTenants]
  <2>1. session' = [session EXCEPT ![c] = s] /\ session[c].pc = "idle"
    BY <1>7 DEF get_current_tenant_select
  <2>2. s.pc = "verify" /\ s.key = k /\ s.rows = ActiveTenants
    BY DEF NoSession
  <2> HIDE DEF s
  <2>3. Actors' = [Actors EXCEPT ![c] = Acting(s)] /\ Actors[c] = None
    BY <1>3, <2>1 DEF Actors, Acting
  <2>4. CASE Verified(s) = {}
    <3>1. Acting(s) = None
      BY <2>2, <2>4 DEF Acting
    <3>2. Actors' = Actors
      BY <2>3, <3>1 DEF Actors
    <3> QED BY <1>2, <3>2 DEF Directory!vars, Spent, Actors
  <2>5. CASE Verified(s) # {}
    <3>1. PICK t \in Verified(s) : t = Found(s)
      BY <2>5 DEF Found
    <3>2. Acting(s) = <<t, k>>
      BY <2>2, <2>5, <3>1 DEF Acting
    <3>3. t \in Tenants /\ tenant[t].active /\ tenant[t].key = k
      BY <2>2 DEF Verified, ActiveTenants
    <3>4. Opening[t] = k /\ k # None
      BY <3>3, NoneIsNoData DEF Opening
    <3>5. Directory!Enter(c, t, k)
      BY <1>2, <2>3, <3>2, <3>4 DEF Directory!Enter, Spent, Actors
    <3> QED BY <3>3, <3>5 DEF Directory!Next
  <2> QED BY <2>4, <2>5
<1> QED BY <1>5, <1>6, <1>7 DEF SessionStep, get_current_tenant_verify, respond

\* A step of an admin thread.
LEMMA AdminMaps ==
    ASSUME TenantInv, NEW a \in Admins, AdminRequests(a) \/ AdminStep(a) \/ lose_request(a)
    PROVE  [Directory!Next]_Directory!vars
<1>1. UNCHANGED session
  BY DEF AdminRequests, AdminStep, lose_request, create_tenant_select, tenant_get,
         create_tenant_insert, rotate_api_key_commit, deactivate_tenant_commit, refresh_and_answer
<1>2. CASE UNCHANGED <<tenant, given>>
  BY <1>1, <1>2 DEF Directory!vars, Standing, Opening, Registered, Acting, Verified
<1>3. CASE create_tenant_insert(a)
  BY <1>1, <1>2, <1>3, InsertCreates, CreatedRegisters
<1>4. CASE rotate_api_key_commit(a)
  BY <1>1, <1>4, RotationRotates, RotatedRotates
<1>5. CASE deactivate_tenant_commit(a)
  BY <1>1, <1>5, DeactivationDeactivates, DeactivatedDisables
<1> QED BY <1>2, <1>3, <1>4, <1>5 DEF AdminRequests, AdminStep, lose_request, create_tenant_select,
                                      tenant_get, refresh_and_answer

\* Overlapping admin requests and sessions look like one atomic step each.
THEOREM DirectoryIsKept == TenantSpec => DirectoryKept
<1>1. TenantInit => Directory!Init
  BY DirectoryInit
<1>2. TenantInv /\ [TenantNext]_tenantVars => [Directory!Next]_Directory!vars
  <2> SUFFICES ASSUME TenantInv, [TenantNext]_tenantVars PROVE [Directory!Next]_Directory!vars
    OBVIOUS
  <2>1. CASE UNCHANGED tenantVars
    BY <2>1 DEF tenantVars, Directory!vars, Standing, Opening, Registered, Acting, Verified
  <2>2. CASE TenantNext
    BY <2>2, AdminMaps, SessionEnters DEF TenantNext
  <2> QED BY <2>1, <2>2
<1> QED BY <1>1, <1>2, TenantsSafe, PTL DEF TenantSpec, DirectoryKept, Directory!Spec
=============================================================================
