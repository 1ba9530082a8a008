------------------------------ MODULE MCService -----------------------------
(* The whole service on small instances. *)
EXTENDS TenantGateway, FiniteSets, TLC

CONSTANTS t1, t2, k1, k2, k3, i1, i2, u1, u2

ASSUME EnoughRows == /\ Cardinality(Invoices) >= MaxRequests
                     /\ Cardinality(Tenants) >= Cardinality(Names)

\* Ids and keys are only compared.
MCSymmetry == UNION {Permutations(Tenants), Permutations(Keys),
                     Permutations(Invoices), Permutations(Uuids)}
=============================================================================
