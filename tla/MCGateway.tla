----------------------------- MODULE MCGateway ------------------------------
(* The gateway on small instances. *)
EXTENDS GatewayInv, TLC

CONSTANTS c1, c2, w1, w2, i1, i2, i3, i4, u1, u2, u3, u4

\* Every POST finds an id for its row: the bounds never stop a request thread.
ASSUME EnoughRows == Cardinality(Invoices) >= MaxRequests

\* Two processes of a kind run the same code, and ids are only compared.
MCSymmetry == UNION {Permutations(Clients), Permutations(Workers),
                     Permutations(Invoices), Permutations(Uuids)}
=============================================================================
