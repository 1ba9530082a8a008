-------------------------- MODULE ProviderContract --------------------------
(***************************************************************************)
(* What the service layer may count on when it calls a certificador: the   *)
(* contract of adapters/base.py.  A provider's reply is what it did and    *)
(* what became of its answer:                                              *)
(*   ok      done, answered with the uuid   blank  done, valid but no uuid *)
(*   lost    done, the answer timed out     torn   done, unusable answer   *)
(*   reject  refused       transient  5xx, network error, body is not JSON *)
(*   garbled refused, and the answer makes the adapter or the commit raise *)
(***************************************************************************)
Doing == {"ok", "blank", "lost", "torn"}
Reply == Doing \cup {"reject", "transient", "garbled"}

\* How certificar and anular report a reply, by return value or exception;
\* config is the ProviderConfigError raised before anything is sent.
Answer == {"ok", "reject", "config", "transient", "exception"}

AnswerTo(reply) == CASE reply \in {"ok", "blank"}       -> "ok"
                     [] reply = "reject"                -> "reject"
                     [] reply \in {"lost", "transient"} -> "transient"
                     [] reply \in {"torn", "garbled"}   -> "exception"
=============================================================================
