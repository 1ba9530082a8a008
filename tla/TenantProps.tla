---------------------------- MODULE TenantProps -----------------------------
(***************************************************************************)
(* What tenants and admins may rely on.                                    *)
(***************************************************************************)
EXTENDS TenantAdmin

\* Key k makes its holder tenant t.
Opens(t, k) == tenant[t].active /\ tenant[t].key = k

\* Two creations that overlap both find the name free: still no two tenants get it.
NamesUnique == \A t, u \in Tenants :
                  t # u /\ Registered(t) => tenant[t].name # tenant[u].name

\* Whatever requests overlap, a handler runs as the tenant that was given the
\* caller's key, never as another one.
ActsAsOwnTenant == \A c \in Clients : session[c].pc = "handler" =>
                      session[c].key \in given[session[c].tenant]

\* The audit trail tells which tenants were disabled and whose key was replaced,
\* although requests on one tenant overlap and repeat.
AuditExplainsTenant ==
    \A t \in Tenants :
       /\ Registered(t) <=> "tenant.created" \in trail[t]
       /\ Registered(t) /\ ~tenant[t].active <=> "tenant.deactivated" \in trail[t]
       /\ (\E k, l \in given[t] : k # l) <=> "tenant.key_rotated" \in trail[t]

\* However many rotations overlap, somebody is shown the key that is in force in
\* the end, if no request is lost: no tenant is left with a key nobody knows.
KeyReachesSomebody ==
    losses = 0 =>
       \A t \in Tenants : Registered(t) =>
          \/ tenant[t].key \in shown
          \/ \E a \in Admins : admin[a].pc = "refresh" /\ admin[a].key = tenant[t].key

\* Key k was tenant t's, opens nothing any more, and no request that shows it is past
\* the SELECT that found it.
LockedOut(t, k) ==
    /\ k \in given[t] /\ ~Opens(t, k)
    /\ \A c \in Clients : session[c].key = k =>
          session[c].tenant # t /\ <<t, k>> \notin session[c].rows

\* A key that is locked out stays so: no rotation or deactivation that overlaps, or
\* commits an object loaded long before, opens it again, and nobody gets in with it.
RevokedStaysRevoked ==
    [][\A t \in Tenants, k \in Keys : LockedOut(t, k) => LockedOut(t, k)']_tenantVars

\* Replaced keys, and keys of disabled tenants, are locked out: the requests that
\* are being verified end, and no later one gets in.
RevokedLockedOut ==
    \A t \in Tenants, k \in Keys :
       (k \in given[t] /\ ~Opens(t, k)) ~>
          [](\A c \in Clients : ~(session[c].tenant = t /\ session[c].key = k))
-----------------------------------------------------------------------------
(* The inductive invariant: what the requests in flight hold, against the    *)
(* tables that may have moved on.                                            *)

\* Keys are drawn once and stay with their tenant.
KeysBelong ==
    /\ \A t \in Tenants : IF Registered(t) THEN tenant[t].key \in given[t]
                         ELSE tenant[t] = NoTenant /\ given[t] = {} /\ trail[t] = {}
    /\ \A t, u \in Tenants : t # u => given[t] \cap given[u] = {}

\* An admin's object is a row as it was: it may miss later keys, and a later
\* deactivation, but it never knows of a deactivation the table has not seen.
AdminsInStep ==
    \A a \in Admins : LET r == admin[a] IN
       /\ r.pc = "insert" => r.obj.name # None /\ r.obj.active
       /\ r.pc = "refresh" => r.key # None
       /\ r.pc \in {"rotate", "deactivate"} =>
             /\ r.id # None /\ Registered(r.id)
             /\ r.obj.key \in given[r.id]
             /\ tenant[r.id].active => r.obj.active

\* A caller's SELECT saw keys that were given to the tenants it saw.
SessionsInStep ==
    \A c \in Clients :
       /\ session[c].pc = "verify" =>
             \A r \in session[c].rows : r[2] \in given[r[1]]
       /\ session[c].pc = "handler" => session[c].tenant # None /\ session[c].key # None
       /\ session[c].pc = "idle" => session[c] = NoSession

TenantInv == /\ TenantTypeOK /\ KeysBelong /\ AdminsInStep /\ SessionsInStep
             /\ NamesUnique /\ ActsAsOwnTenant /\ AuditExplainsTenant /\ KeyReachesSomebody
-----------------------------------------------------------------------------
(* The promise of TenantDirectory.  A caller enters at its SELECT: the       *)
(* verification that follows only works out what the SELECT decided.         *)

Standing == [t \in Tenants |-> IF ~Registered(t) THEN "unknown"
                               ELSE IF tenant[t].active THEN "active" ELSE "disabled"]

Opening == [t \in Tenants |-> IF tenant[t].active THEN tenant[t].key ELSE None]

Found(s) == CHOOSE t \in Verified(s) : TRUE

Acting(s) == CASE s.pc = "handler" -> <<s.tenant, s.key>>
               [] s.pc = "verify" /\ Verified(s) # {} -> <<Found(s), s.key>>
               [] OTHER -> None

Directory == INSTANCE TenantDirectory WITH
                standing <- Standing,
                opens    <- Opening,
                spent    <- UNION {given[t] : t \in Tenants},
                acting   <- [c \in Clients |-> Acting(session[c])]

\* Creations, rotations, deactivations and requests that overlap, on objects
\* loaded before others committed, look like one atomic step each: a replaced
\* key or a disabled tenant never comes back, and the sessions are earned.
DirectoryKept == Directory!Spec
=============================================================================
