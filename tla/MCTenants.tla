----------------------------- MODULE MCTenants ------------------------------
(* Tenants on small instances. *)
EXTENDS TenantProps, FiniteSets, TLC

CONSTANTS t1, t2, t3, k1, k2, k3, a1, a2, c1, c2

\* An insert that the name admits finds an id.
ASSUME EnoughIds == Cardinality(Tenants) >= Cardinality(Names)

\* Ids and keys are only compared, and threads of a kind run the same code.
MCSymmetry == UNION {Permutations(Tenants), Permutations(Keys),
                     Permutations(Admins), Permutations(Clients)}
=============================================================================
