-------------------------- MODULE TenantDirectory ---------------------------
(***************************************************************************)
(* What the admin API and the authentication promise together: a directory *)
(* in which every tenant has at most one key that opens it, a key that was *)
(* replaced or disabled never opens anything again, and a caller acts as a *)
(* tenant only if it came with the key that opened it at that moment.      *)
(***************************************************************************)
CONSTANTS Tenants, Keys, Clients, None

VARIABLES
    standing,   \* tenant -> unknown, active or disabled
    opens,      \* tenant -> the key that opens it, None if none does
    spent,      \* the keys that were ever given out
    acting      \* caller -> None, or the tenant it acts as and the key it used

vars == <<standing, opens, spent, acting>>

Init == /\ standing = [t \in Tenants |-> "unknown"]
        /\ opens = [t \in Tenants |-> None]
        /\ spent = {}
        /\ acting = [c \in Clients |-> None]

Spend(k) == k \in Keys \ spent /\ spent' = spent \cup {k}

Register(t, k) == /\ standing[t] = "unknown"
                  /\ Spend(k)
                  /\ standing' = [standing EXCEPT ![t] = "active"]
                  /\ opens' = [opens EXCEPT ![t] = k]
                  /\ UNCHANGED acting

Rotate(t, k) == /\ standing[t] # "unknown"
                /\ Spend(k)
                /\ opens' = IF standing[t] = "active" THEN [opens EXCEPT ![t] = k] ELSE opens
                /\ UNCHANGED <<standing, acting>>

Disable(t) == /\ standing[t] = "active"
              /\ standing' = [standing EXCEPT ![t] = "disabled"]
              /\ opens' = [opens EXCEPT ![t] = None]
              /\ UNCHANGED <<spent, acting>>

Enter(c, t, k) == /\ acting[c] = None
                  /\ k # None /\ opens[t] = k
                  /\ acting' = [acting EXCEPT ![c] = <<t, k>>]
                  /\ UNCHANGED <<standing, opens, spent>>

Leave(c) == /\ acting' = [acting EXCEPT ![c] = None]
            /\ UNCHANGED <<standing, opens, spent>>

Next == \/ \E t \in Tenants, k \in Keys : Register(t, k) \/ Rotate(t, k)
        \/ \E t \in Tenants : Disable(t)
        \/ \E c \in Clients, t \in Tenants, k \in Keys : Enter(c, t, k)
        \/ \E c \in Clients : Leave(c)

Spec == Init /\ [][Next]_vars
=============================================================================
