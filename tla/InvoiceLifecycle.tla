-------------------------- MODULE InvoiceLifecycle --------------------------
(***************************************************************************)
(* The life of an invoice as a caller may see it, without processes,       *)
(* queues or loaded objects: its status and uuid, and what SAT holds.      *)
(* Promise is what the gateway keeps whatever fails; Ideal is the life     *)
(* every invoice should have.                                              *)
(***************************************************************************)
CONSTANTS Invoices, Uuids, None

VARIABLES
    status,     \* invoice -> its status, "ABSENT" before it is posted
    shown,      \* invoice -> the uuid the caller is shown, or None
    held,       \* invoice -> the documents SAT has issued for it
    voided      \* the documents SAT has annulled

lifecycle == <<status, shown, held, voided>>

Empty == /\ status = [i \in Invoices |-> "ABSENT"]
         /\ shown = [i \in Invoices |-> None]
         /\ held = [i \in Invoices |-> {}]
         /\ voided = {}

Submit(i) == /\ status[i] = "ABSENT"
             /\ status' = [status EXCEPT ![i] = "PENDING"]
             /\ UNCHANGED <<shown, held, voided>>

\* A document belongs to one invoice.
Issue(i, u) == /\ status[i] # "ABSENT"
               /\ \A j \in Invoices : u \notin held[j]
               /\ held' = [held EXCEPT ![i] = @ \cup {u}]
               /\ UNCHANGED <<status, shown, voided>>

Void(i, u) == /\ u \in held[i]
              /\ voided' = voided \cup {u}
              /\ UNCHANGED <<status, shown, held>>

Show(i, s, u) == /\ status' = [status EXCEPT ![i] = s]
                 /\ shown' = [shown EXCEPT ![i] = u]
                 /\ UNCHANGED <<held, voided>>
-----------------------------------------------------------------------------
(* The promise.  A posted invoice may go from one settled status to another *)
(* (a late answer, a failed annulment), but never back to PENDING, nor from *)
(* PENDING to ANNULLED, and it never claims what SAT has not done.          *)

Settle(i, s, u) == /\ status[i] # "ABSENT"
                   /\ s = "CERTIFIED" => held[i] # {}
                   /\ s = "ANNULLED" => status[i] # "PENDING" /\ held[i] \cap voided # {}
                   /\ u \in held[i] \cup {None}
                   /\ Show(i, s, u)

PromiseNext == \E i \in Invoices :
                  \/ Submit(i)
                  \/ \E u \in Uuids : Issue(i, u) \/ Void(i, u)
                  \/ \E s \in {"CERTIFIED", "REJECTED", "ANNULLED"}, u \in Uuids \cup {None} :
                        Settle(i, s, u)

Promise == Empty /\ [][PromiseNext]_lifecycle

\* What the promise is good for: nothing a caller sees is invented, and no document
\* is shown for an invoice it was not issued for.
NothingInvented ==
    /\ \A i \in Invoices :
          /\ status[i] = "CERTIFIED" => held[i] # {}
          /\ status[i] = "ANNULLED"  => held[i] \cap voided # {}
          /\ shown[i] # None => shown[i] \in held[i]
    /\ \A i, j \in Invoices : held[i] \cap held[j] # {} => i = j
-----------------------------------------------------------------------------
(* The ideal: one document per invoice, and a status that follows it.       *)

IssueOnce(i, u) == status[i] = "PENDING" /\ held[i] = {} /\ Issue(i, u)

Certify(i) == /\ status[i] = "PENDING"
              /\ \E u \in held[i] : Show(i, "CERTIFIED", u)

Reject(i) == /\ status[i] = "PENDING" /\ held[i] = {}
             /\ Show(i, "REJECTED", None)

VoidShown(i) == status[i] = "CERTIFIED" /\ Void(i, shown[i])

Annul(i) == /\ status[i] = "CERTIFIED" /\ shown[i] \in voided
            /\ Show(i, "ANNULLED", shown[i])

IdealNext == \E i \in Invoices :
                \/ Submit(i) \/ Certify(i) \/ Reject(i) \/ VoidShown(i) \/ Annul(i)
                \/ \E u \in Uuids : IssueOnce(i, u)

Ideal == Empty /\ [][IdealNext]_lifecycle

\* What the ideal is good for: at most one document per invoice, and a settled
\* status that tells exactly what SAT holds.
OneDocument == \A i \in Invoices : \A u, v \in held[i] : u = v

StatusTells == \A i \in Invoices :
                  /\ status[i] = "CERTIFIED" => held[i] = {shown[i]}
                  /\ status[i] = "ANNULLED" => held[i] = {shown[i]} /\ held[i] \subseteq voided
                  /\ status[i] \in {"ABSENT", "REJECTED"} => held[i] = {}
=============================================================================
