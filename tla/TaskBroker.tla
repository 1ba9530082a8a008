----------------------------- MODULE TaskBroker -----------------------------
(***************************************************************************)
(* RabbitMQ and Celery's message protocol, external to the repository: a   *)
(* bag of task messages.  Retries wait for a jittered countdown and        *)
(* several workers consume, so messages are delivered in any order.        *)
(***************************************************************************)
EXTENDS Naturals

CONSTANTS Invoices, MaxRetries

VARIABLE queue      \* message -> number of copies waiting

Op == {"certify", "annul"}      \* invoices.certify, invoices.annul

Message == [op : Op, inv : Invoices, retries : 0 .. MaxRetries]

TaskBrokerTypeOK == queue \in [Message -> Nat]

TaskBrokerInit == queue = [m \in Message |-> 0]

Publish(m) == queue' = [queue EXCEPT ![m] = @ + 1]

Deliver(m) == /\ queue[m] > 0
              /\ queue' = [queue EXCEPT ![m] = @ - 1]
=============================================================================
