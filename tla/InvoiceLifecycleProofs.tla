----------------------- MODULE InvoiceLifecycleProofs -----------------------
(* What an implementation of the promise, or of the ideal life of an       *)
(* invoice, may rely on.                                                  *)
EXTENDS InvoiceLifecycle, TLAPS

LifecycleTypeOK ==
    /\ status \in [Invoices -> {"ABSENT", "PENDING", "CERTIFIED", "REJECTED", "ANNULLED"}]
    /\ shown \in [Invoices -> Uuids \cup {None}]
    /\ held \in [Invoices -> SUBSET Uuids]
    /\ voided \subseteq Uuids

PromiseInv == LifecycleTypeOK /\ NothingInvented

\* Every step of the promise keeps it: SAT's record of an invoice only grows.
LEMMA PromiseInvStep == PromiseInv /\ [PromiseNext]_lifecycle => PromiseInv'
<1> SUFFICES ASSUME PromiseInv, [PromiseNext]_lifecycle PROVE PromiseInv'
  OBVIOUS
<1> USE DEF PromiseInv, LifecycleTypeOK, NothingInvented
<1>1. ASSUME NEW i \in Invoices, Submit(i) PROVE PromiseInv'
  BY <1>1 DEF Submit
<1>2. ASSUME NEW i \in Invoices, NEW u \in Uuids, Issue(i, u) PROVE PromiseInv'
  BY <1>2 DEF Issue
<1>3. ASSUME NEW i \in Invoices, NEW u \in Uuids, Void(i, u) PROVE PromiseInv'
  BY <1>3 DEF Void
<1>4. ASSUME NEW i \in Invoices, NEW s \in {"CERTIFIED", "REJECTED", "ANNULLED"},
             NEW u \in Uuids \cup {None}, Settle(i, s, u)
      PROVE  PromiseInv'
  BY <1>4 DEF Settle, Show
<1>5. ASSUME UNCHANGED lifecycle PROVE PromiseInv'
  BY <1>5 DEF lifecycle
<1> QED BY <1>1, <1>2, <1>3, <1>4, <1>5 DEF PromiseNext

\* Whatever keeps the promise never shows a status that SAT knows nothing of, nor the
\* document of another invoice.
THEOREM PromiseIsHonest == Promise => []NothingInvented
<1>1. Empty => PromiseInv
  BY DEF Empty, PromiseInv, LifecycleTypeOK, NothingInvented
<1>2. PromiseInv => NothingInvented
  BY DEF PromiseInv
<1> QED BY <1>1, <1>2, PromiseInvStep, PTL DEF Promise
-----------------------------------------------------------------------------
IdealInv == LifecycleTypeOK /\ OneDocument /\ StatusTells

\* Every step of the ideal keeps one document per invoice, and the statuses true.
LEMMA IdealStep == IdealInv /\ [IdealNext]_lifecycle => IdealInv'
<1> SUFFICES ASSUME IdealInv, [IdealNext]_lifecycle PROVE IdealInv'
  OBVIOUS
<1> USE DEF IdealInv, LifecycleTypeOK, OneDocument, StatusTells
<1>1. ASSUME NEW i \in Invoices, Submit(i) PROVE IdealInv'
  BY <1>1 DEF Submit
<1>2. ASSUME NEW i \in Invoices, Certify(i) PROVE IdealInv'
  BY <1>2 DEF Certify, Show
<1>3. ASSUME NEW i \in Invoices, Reject(i) PROVE IdealInv'
  BY <1>3 DEF Reject, Show
<1>4. ASSUME NEW i \in Invoices, VoidShown(i) PROVE IdealInv'
  BY <1>4 DEF VoidShown, Void
<1>5. ASSUME NEW i \in Invoices, Annul(i) PROVE IdealInv'
  BY <1>5 DEF Annul, Show
<1>6. ASSUME NEW i \in Invoices, NEW u \in Uuids, IssueOnce(i, u) PROVE IdealInv'
  BY <1>6 DEF IssueOnce, Issue
<1>7. ASSUME UNCHANGED lifecycle PROVE IdealInv'
  BY <1>7 DEF lifecycle
<1> QED BY <1>1, <1>2, <1>3, <1>4, <1>5, <1>6, <1>7 DEF IdealNext

\* An invoice that lives the ideal life never has two documents at SAT, and once
\* it is settled its status and uuid tell exactly what SAT holds.
THEOREM IdealIsExact == Ideal => [](OneDocument /\ StatusTells)
<1>1. Empty => IdealInv
  BY DEF Empty, IdealInv, LifecycleTypeOK, OneDocument, StatusTells
<1>2. IdealInv => OneDocument /\ StatusTells
  BY DEF IdealInv
<1> QED BY <1>1, <1>2, IdealStep, PTL DEF Ideal
=============================================================================
