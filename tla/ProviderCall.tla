---------------------------- MODULE ProviderCall ----------------------------
(***************************************************************************)
(* One call of a certificador, as Gateway has it: the request is refused   *)
(* for its configuration, or carried out or not, and reported by one of    *)
(* the replies of the contract.                                            *)
(***************************************************************************)
EXTENDS ProviderContract

CONSTANT None

VARIABLES
    phase,      \* idle, asked or over
    done,       \* did the call that is over make, or annul, a document?
    answer,     \* what the adapter reported
    got         \* did it report a uuid?

vars == <<phase, done, answer, got>>

Init == phase = "idle" /\ done = FALSE /\ answer = None /\ got = FALSE

Ask == /\ phase \in {"idle", "over"}
       /\ phase' = "asked" /\ done' = FALSE /\ answer' = None /\ got' = FALSE

Misconfigured == /\ phase = "asked"
                 /\ phase' = "over" /\ done' = FALSE /\ answer' = "config" /\ got' = FALSE

Replied(reply) == /\ phase = "asked"
                  /\ phase' = "over"
                  /\ done' = (reply \in Doing)
                  /\ answer' = AnswerTo(reply)
                  /\ got' = (reply = "ok")

Finish == /\ phase = "over"
          /\ phase' = "idle" /\ done' = FALSE /\ answer' = None /\ got' = FALSE

Next == Ask \/ Misconfigured \/ Finish \/ \E reply \in Reply : Replied(reply)

Spec == Init /\ [][Next]_vars
=============================================================================
