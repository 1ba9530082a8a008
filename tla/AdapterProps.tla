---------------------------- MODULE AdapterProps ----------------------------
(***************************************************************************)
(* What the adapters give the service layer and the NIT lookup.             *)
(***************************************************************************)
EXTENDS Adapters

\* A call of certificar or anular that is over.
Seen == pc = "over" /\ op # "consultar_nit"

Contract == INSTANCE ProviderCall WITH
    phase  <- IF op = "consultar_nit" \/ pc = "idle" THEN "idle"
              ELSE IF pc = "over" THEN "over" ELSE "asked",
    done   <- Seen /\ carrier # None,
    answer <- IF Seen THEN answer ELSE None,
    got    <- Seen /\ got

\* Whatever status, body or silence comes over the wire, what certificar and
\* anular make of it is one of the seven replies that Gateway reckons with: no
\* refusal becomes a certification, and no stated document a rejection.
ContractKept == Contract!Spec

\* A task that is retried repeats a certification only after an answer that
\* decided nothing: what the provider stated, uuid or not, is never asked again.
DocsPaid == docs <= undecided + 1

\* GET /v1/nit finds only whom the provider found, blames the caller only for
\* missing credentials, and fails only when the provider did not say no.
LookupHonest ==
    pc = "over" /\ op = "consultar_nit" =>
       /\ lookup_nit(answer) = 200 /\ answer = "ok" => carrier # None
       /\ lookup_nit(answer) = 400 => tenant.config # Credentials
       /\ lookup_nit(answer) = 500 => ~SaysNo(op, http)

\* "ProviderTransientError: network blip, 5xx, timeout", base.py:10, of the two
\* operations that are retried: whatever the body claims, no document is certified,
\* rejected or annulled on a server error.
ServerErrorIsTransient ==
    Seen /\ http # None /\ http.class \in {0, 5} => answer = "transient"
=============================================================================
