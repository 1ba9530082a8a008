---------------------------- MODULE AdapterProofs ---------------------------
(***************************************************************************)
(* Proofs about the adapters, for every number of retries.                 *)
(***************************************************************************)
EXTENDS AdapterProps, TLAPS

\* What a call knows at each step.  A call that starts owes nothing: every
\* document its task has made so far was paid for by an undecided answer.
Fresh == http = None /\ carrier = None /\ answer = None /\ ~got

CallInv ==
    /\ TypeOK
    /\ pc \in {"idle", "asked"} => Fresh /\ docs \in 0 .. attempt /\ undecided \in 0 .. attempt
    /\ pc \in {"idle", "asked"} => docs <= undecided
    /\ pc = "served" => /\ http \in Response(op) \cup {Silence}
                        /\ Honest(op, http, carrier # None)
                        /\ answer = None /\ ~got
                        /\ docs <= undecided + 1
                        /\ ~Decided(op, http) => docs <= undecided
    /\ pc = "over" => /\ answer # None
                      /\ docs <= undecided + 1
                      /\ answer = "transient" /\ op # "consultar_nit" => docs <= undecided

\* A response is a silence, or a status class with a body.
LEMMA ResponseShape ==
    ASSUME NEW o \in Ops, NEW r \in Response(o) \cup {Silence}
    PROVE  /\ r = Silence \/ r.class \in {2, 3, 4, 5}
           /\ r # Silence => /\ r.body.form \in {"text", "scalar", "list", "dict"}
                             /\ r.body.form \in {"text", "scalar"} => r.body.fields = {}
  BY DEF Response, Body, Silence

\* What certificar or anular takes for transient decides nothing.
LEMMA TransientUndecided ==
    ASSUME NEW o \in {"certificar", "anular"}, NEW r \in Response(o) \cup {Silence},
           Transient(r)
    PROVE  ~Decided(o, r)
  <1>1. CASE r = Silence
    BY <1>1 DEF Decided, SaysYes, SaysNo, Stated, Silence
  <1>2. CASE r # Silence
    BY <1>2, ResponseShape DEF Ops, Transient, Decided, SaysYes, SaysNo, Stated
  <1> QED BY <1>1, <1>2

\* An adapter reports one of the answers of the contract.
LEMMA ReadIsAnswer ==
    ASSUME NEW o \in Ops, NEW r \in Response(o) \cup {Silence}
    PROVE  Read(o, r) \in Answer \ {"config"}
  <1>1. CASE o = "certificar"
    BY <1>1 DEF Read, certificar, Answer
  <1>2. CASE o = "anular"
    BY <1>2 DEF Read, anular, Answer
  <1>3. CASE o = "consultar_nit"
    BY <1>3 DEF Read, consultar_nit, Answer
  <1> QED BY <1>1, <1>2, <1>3 DEF Ops

\* ok is what the provider said yes to, reject what it said no to.
LEMMA ReadIsStated ==
    ASSUME NEW o \in {"certificar", "anular"}, NEW r \in Response(o) \cup {Silence}
    PROVE  /\ Read(o, r) = "ok" => SaysYes(o, r)
           /\ Read(o, r) = "reject" => SaysNo(o, r)
           /\ Read(o, r) = "transient" => Transient(r)
  <1>1. ~Transient(r) => r # Silence /\ r.class \in {2, 3, 4} /\ r.body.form # "text"
    BY ResponseShape DEF Ops, Transient
  <1>2. CASE o = "certificar"
    <2>1. Read(o, r) = certificar(r)
      BY <1>2 DEF Read
    <2> QED BY <2>1, <1>1, <1>2 DEF certificar, SaysYes, SaysNo, Stated
  <1>3. CASE o = "anular"
    <2>1. Read(o, r) = anular(r)
      BY <1>3 DEF Read
    <2> QED BY <2>1, <1>1, <1>3 DEF anular, SaysYes, SaysNo, Stated
  <1> QED BY <1>2, <1>3
-----------------------------------------------------------------------------
\* CallInv holds before the first call.
LEMMA CallInit == Init => CallInv
  <1> SUFFICES ASSUME Init PROVE CallInv
    OBVIOUS
  <1>1. pc = "idle" /\ Fresh /\ attempt = 0 /\ docs = 0 /\ undecided = 0 /\ op \in Ops /\ tenant \in Tenant
    BY DEF Init, Fresh
  <1>2. TypeOK
    <2>1. got \in BOOLEAN
      BY DEF Init
    <2> QED BY <1>1, <2>1, RetriesAreNat DEF TypeOK, Fresh
  <1> QED BY <1>1, <1>2 DEF CallInv

\* Each step of a call keeps CallInv.
LEMMA CallNext == CallInv /\ [Next]_vars => CallInv'
  <1> SUFFICES ASSUME CallInv, [Next]_vars PROVE CallInv'
    OBVIOUS
  <1> USE RetriesAreNat, NoneIsNoAnswer
  <1>1. ASSUME NEW o \in Ops, NEW t \in Tenant, Call(o, t) PROVE CallInv'
    BY <1>1 DEF CallInv, TypeOK, Fresh, Call
  <1>2. CASE refuse
    <2>1. /\ pc = "asked" /\ pc' = "over"
          /\ answer' \in {"config", "reject"} /\ got' \in BOOLEAN
          /\ UNCHANGED <<op, tenant, attempt, http, carrier, docs, undecided>>
      BY <1>2 DEF refuse, Over
    <2>2. TypeOK'
      BY <2>1 DEF CallInv, TypeOK, Answer
    <2> QED BY <2>1, <2>2 DEF CallInv, TypeOK, Answer
  <1>3. CASE mock_answers
    BY <1>3 DEF CallInv, TypeOK, Fresh, mock_answers, Over, Answer
  <1>4. CASE felplex_serves
    <2> PICK r \in Response(op) \cup {Silence}, did \in BOOLEAN :
             /\ Honest(op, r, did)
             /\ http' = r
             /\ carrier' = IF did THEN "felplex" ELSE None
             /\ docs' = IF did THEN docs + 1 ELSE docs
             /\ undecided' = IF Decided(op, r) THEN undecided ELSE undecided + 1
      BY <1>4 DEF felplex_serves
    <2>1. /\ pc = "asked" /\ pc' = "served"
          /\ op' = op /\ tenant' = tenant /\ attempt' = attempt
          /\ answer' = answer /\ got' = got
      BY <1>4 DEF felplex_serves
    <2>2. /\ Fresh /\ docs \in 0 .. attempt /\ undecided \in 0 .. attempt
          /\ docs <= undecided /\ attempt \in Nat
      BY <2>1 DEF CallInv, TypeOK
    <2>3. TypeOK'
      BY <2>1, <2>2 DEF CallInv, TypeOK, Fresh
    <2>4. Honest(op, http, carrier # None)'
      <3>1. http' = r /\ op' = op /\ ((carrier # None)' => did)
        BY <2>1
      <3>2. did => (carrier # None)'
        BY NoneIsNobody
      <3> QED BY <3>1, <3>2 DEF Honest, SaysYes, SaysNo, Stated
    <2>5. (docs <= undecided + 1 /\ (~Decided(op, http) => docs <= undecided))'
      <3>1. Decided(op, http)' <=> Decided(op, r)
        BY <2>1 DEF Decided, SaysYes, SaysNo, Stated
      <3> QED BY <2>2, <3>1
    <2> QED BY <2>1, <2>2, <2>3, <2>4, <2>5 DEF CallInv, Fresh, Response, Body, Fields
  <1>5. CASE read_response
    <2>1. /\ pc = "served" /\ pc' = "over"
          /\ answer' = Read(op, http) /\ got' \in BOOLEAN
          /\ UNCHANGED <<op, tenant, attempt, http, carrier, docs, undecided>>
      BY <1>5 DEF read_response, Over
    <2>2. op \in Ops /\ http \in Response(op) \cup {Silence}
      BY <2>1 DEF CallInv, TypeOK
    <2>3. answer' \in Answer
      BY <2>1, <2>2, ReadIsAnswer
    <2>4. ASSUME answer' = "transient", op # "consultar_nit" PROVE docs <= undecided
      <3>1. op \in {"certificar", "anular"}
        BY <2>2, <2>4 DEF Ops
      <3>2. ~Decided(op, http)
        BY <3>1, <2>1, <2>2, <2>4, ReadIsStated, TransientUndecided
      <3> QED BY <3>2, <2>1 DEF CallInv
    <2> QED BY <2>1, <2>2, <2>3, <2>4 DEF CallInv, TypeOK, Response, Body, Fields
  <1>6. CASE autoretry
    <2>1. docs <= undecided
      BY <1>6 DEF CallInv, autoretry
    <2>2. TypeOK'
      <3>1. got' \in BOOLEAN
        BY <1>6 DEF autoretry
      <3> QED BY <1>6, <3>1 DEF CallInv, TypeOK, autoretry
    <2> QED BY <1>6, <2>1, <2>2 DEF CallInv, TypeOK, Fresh, autoretry
  <1>7. CASE finish
    <2>1. TypeOK'
      <3>1. got' \in BOOLEAN
        BY <1>7 DEF finish
      <3> QED BY <1>7, <3>1 DEF CallInv, TypeOK, finish
    <2> QED BY <1>7, <2>1 DEF CallInv, TypeOK, Fresh, finish
  <1>8. CASE UNCHANGED vars
    BY <1>8 DEF CallInv, TypeOK, Fresh, vars, Honest, SaysYes, SaysNo, Stated, Decided,
                Response, Body, Fields
  <1> QED BY <1>1, <1>2, <1>3, <1>4, <1>5, <1>6, <1>7, <1>8 DEF Next

\* So CallInv holds in every reachable state.
LEMMA CallSafe == Spec => []CallInv
  BY CallInit, CallNext, PTL DEF Spec

\* Adapters keep their types, and the retries their bound.
THEOREM AdapterTypes == Spec => []TypeOK
  <1>1. CallInv => TypeOK
    BY DEF CallInv
  <1> QED BY <1>1, CallSafe, PTL

\* However often a task is retried, every repeated certification was preceded by
\* an answer that decided nothing.
THEOREM DocsArePaid == Spec => []DocsPaid
  <1>1. CallInv => DocsPaid
    BY RetriesAreNat DEF CallInv, TypeOK, DocsPaid
  <1> QED BY <1>1, CallSafe, PTL
-----------------------------------------------------------------------------
(* What a call that is over reports.                                         *)

\* An answer was read from the response, or there was none to read.
Explained ==
    pc = "over" =>
       \/ /\ http \in Response(op) \cup {Silence}
          /\ answer = Read(op, http)
          /\ Honest(op, http, carrier # None)
       \/ /\ http = None
          /\ \/ answer = "ok" /\ carrier = "mock"
             \/ answer = "config" /\ tenant.config # Credentials
             \/ answer = "reject"

\* Only an answer, or the refusal to call, ends a call.
LEMMA ExplainedNext == CallInv /\ Explained /\ [Next]_vars => Explained'
  <1> SUFFICES ASSUME CallInv, Explained, [Next]_vars PROVE Explained'
    OBVIOUS
  <1>1. CASE refuse
    <2>1. pc = "asked" /\ UNCHANGED <<http, tenant>>
      BY <1>1 DEF refuse
    <2>2. (answer' = "config" /\ tenant.config # Credentials) \/ answer' = "reject"
      BY <1>1 DEF refuse, Over
    <2> QED BY <2>1, <2>2 DEF CallInv, Fresh, Explained
  <1>2. CASE mock_answers
    BY <1>2 DEF mock_answers, Over, CallInv, Fresh, Explained
  <1>3. CASE read_response
    <2>1. /\ pc = "served" /\ answer' = Read(op, http)
          /\ UNCHANGED <<op, http, carrier>>
      BY <1>3 DEF read_response, Over
    <2>2. http \in Response(op) \cup {Silence} /\ Honest(op, http, carrier # None)
      BY <2>1 DEF CallInv
    <2>3. Read(op, http)' = Read(op, http) /\ Honest(op, http, carrier # None)'
      BY <2>1, <2>2 DEF Read, Honest, SaysYes, SaysNo, Stated
    <2>4. (Response(op) \cup {Silence})' = Response(op) \cup {Silence}
      BY <2>1 DEF Response, Body, Fields
    <2> QED BY <2>1, <2>2, <2>3, <2>4 DEF Explained
  <1>4. CASE felplex_serves \/ autoretry \/ finish \/ \E o \in Ops, t \in Tenant : Call(o, t)
    <2>1. pc' # "over"
      BY <1>4 DEF felplex_serves, autoretry, finish, Call
    <2> QED BY <2>1 DEF Explained
  <1>5. CASE UNCHANGED vars
    <2>1. UNCHANGED <<pc, op, http, answer, carrier, tenant>>
      BY <1>5 DEF vars
    <2>2. Read(op, http)' = Read(op, http)
      BY <2>1 DEF Read
    <2>3. Honest(op, http, carrier # None)' = Honest(op, http, carrier # None)
      BY <2>1 DEF Honest, SaysYes, SaysNo, Stated
    <2>4. (Response(op) \cup {Silence})' = Response(op) \cup {Silence}
      BY <2>1 DEF Response, Body, Fields
    <2> QED BY <2>1, <2>2, <2>3, <2>4 DEF Explained
  <1> QED BY <1>1, <1>2, <1>3, <1>4, <1>5 DEF Next

\* Every outcome has a response that explains it.
LEMMA ExplainedSafe == Spec => []Explained
  <1>1. Init => Explained
    BY DEF Init, Explained
  <1> QED BY <1>1, ExplainedNext, CallSafe, PTL DEF Spec

\* On a server error, or on silence, certificar and anular report nothing but a
\* transient error.
THEOREM ServerErrorsAreTransient == Spec => []ServerErrorIsTransient
  <1>1. CallInv /\ Explained => ServerErrorIsTransient
    <2> SUFFICES ASSUME CallInv, Explained, Seen, http # None, http.class \in {0, 5}
                 PROVE  answer = "transient"
      BY DEF ServerErrorIsTransient
    <2>1. /\ op \in {"certificar", "anular"} /\ http \in Response(op) \cup {Silence}
          /\ answer = Read(op, http)
      BY DEF Seen, Explained, CallInv, TypeOK, Ops
    <2>2. Transient(http)
      BY <2>1, ResponseShape DEF Transient, Ops
    <2>3. CASE op = "certificar"
      <3>1. answer = certificar(http)
        BY <2>1, <2>3 DEF Read
      <3> QED BY <3>1, <2>2 DEF certificar
    <2>4. CASE op = "anular"
      <3>1. answer = anular(http)
        BY <2>1, <2>4 DEF Read
      <3> QED BY <3>1, <2>2 DEF anular
    <2> QED BY <2>1, <2>3, <2>4
  <1> QED BY <1>1, CallSafe, ExplainedSafe, PTL

\* The NIT lookup says nothing that the provider, or the configuration, did not.
THEOREM LookupsAreHonest == Spec => []LookupHonest
  <1>1. CallInv /\ Explained => LookupHonest
    <2> SUFFICES ASSUME CallInv, Explained, pc = "over", op = "consultar_nit" PROVE LookupHonest
      BY DEF LookupHonest
    <2>1. answer \in Answer
      BY DEF CallInv, TypeOK
    <2>2. CASE /\ http = None
               /\ \/ answer = "ok" /\ carrier = "mock"
                  \/ answer = "config" /\ tenant.config # Credentials
                  \/ answer = "reject"
      <3>1. carrier = "mock" => carrier # None
        BY NoneIsNobody
      <3>2. CASE answer \in {"ok", "reject"}
        <4>1. lookup_nit(answer) = 200
          BY <3>2 DEF lookup_nit
        <4> QED BY <2>2, <3>1, <3>2, <4>1 DEF LookupHonest
      <3>3. CASE answer = "config"
        <4>1. lookup_nit(answer) = 400
          BY <3>3 DEF lookup_nit
        <4> QED BY <2>2, <3>3, <4>1 DEF LookupHonest
      <3> QED BY <2>2, <3>2, <3>3
    <2>3. CASE /\ http \in Response(op) \cup {Silence}
               /\ answer = Read(op, http)
               /\ Honest(op, http, carrier # None)
      <3>1. op \in Ops /\ answer = consultar_nit(http)
        BY <2>3 DEF Read, Ops
      <3>2. answer # "config"
        BY <3>1 DEF consultar_nit
      <3>3. answer = "ok" => SaysYes(op, http)
        BY <2>3, <3>1, ResponseShape DEF consultar_nit, GetTransient, SaysYes, Stated
      <3>4. answer \in {"transient", "exception"} => ~SaysNo(op, http)
        BY <2>3, <3>1, ResponseShape DEF consultar_nit, GetTransient, SaysNo, Stated, Silence
      <3>5. CASE answer \in {"ok", "reject"}
        <4>1. lookup_nit(answer) = 200
          BY <3>5 DEF lookup_nit
        <4> QED BY <2>3, <3>3, <4>1 DEF LookupHonest, Honest
      <3>6. CASE answer \in {"transient", "exception"}
        <4>1. lookup_nit(answer) = 500
          BY <3>6 DEF lookup_nit
        <4> QED BY <3>4, <3>6, <4>1 DEF LookupHonest
      <3> QED BY <2>1, <3>2, <3>5, <3>6 DEF Answer
    <2> QED BY <2>2, <2>3 DEF Explained
  <1> QED BY <1>1, CallSafe, ExplainedSafe, PTL

-----------------------------------------------------------------------------
(* The refinement of ProviderCall.                                           *)

\* ProviderCall's contract is the adapters'.
LEMMA SameContract == /\ Contract!Doing = Doing
                      /\ Contract!Reply = Reply
                      /\ \A reply : Contract!AnswerTo(reply) = AnswerTo(reply)
  BY DEF Contract!Doing, Doing, Contract!Reply, Reply, Contract!AnswerTo, AnswerTo

\* A call of certificar or anular that has not come to its end.
LEMMA Pending ==
    ASSUME pc \in {"asked", "served"}, op # "consultar_nit"
    PROVE  ~Seen /\ (IF op = "consultar_nit" \/ pc = "idle" THEN "idle"
                     ELSE IF pc = "over" THEN "over" ELSE "asked") = "asked"
  BY DEF Seen

\* A step that ends a call as one of the replies does.
LEMMA EndsAsReply ==
    ASSUME NEW reply \in Reply,
           pc \in {"asked", "served"}, op # "consultar_nit", pc' = "over", op' = op,
           (carrier # None)' <=> reply \in Doing,
           answer' = AnswerTo(reply),
           got' \in BOOLEAN, got' <=> reply = "ok"
    PROVE  Contract!Replied(reply)
  <1>1. Seen'
    BY DEF Seen
  <1>2. (Seen /\ carrier # None)' = (reply \in Doing)
    BY <1>1
  <1>3. (Seen /\ got)' = (reply = "ok")
    BY <1>1
  <1> QED BY <1>1, <1>2, <1>3, Pending, SameContract DEF Contract!Replied, Seen

\* What read_response makes of a response is one of the replies.
LEMMA ReadIsReply ==
    ASSUME CallInv, read_response, op # "consultar_nit"
    PROVE  \E reply \in Reply : Contract!Replied(reply)
  <1>1. /\ pc = "served" /\ pc' = "over"
        /\ answer' = Read(op, http)
        /\ got' = (Read(op, http) = "ok" /\ HasUuid(op, http))
        /\ op' = op /\ carrier' = carrier
    BY DEF read_response, Over
  <1>2. op \in {"certificar", "anular"} /\ http \in Response(op) \cup {Silence}
    BY <1>1 DEF CallInv, TypeOK, Ops
  <1>3. Honest(op, http, carrier # None)
    BY <1>1 DEF CallInv
  <1>4. /\ answer' = "ok" => carrier # None
        /\ answer' = "reject" => carrier = None
    BY <1>1, <1>2, <1>3, ReadIsStated DEF Honest
  <1>5. answer' \in {"ok", "reject", "transient", "exception"}
    BY <1>1, <1>2, ReadIsAnswer DEF Answer, Ops
  <1>6. got' \in BOOLEAN /\ (got' => answer' = "ok")
    BY <1>1
  <1> DEFINE reply == CASE answer' = "ok"        -> IF got' THEN "ok" ELSE "blank"
                        [] answer' = "reject"    -> "reject"
                        [] answer' = "transient" -> IF carrier # None THEN "lost" ELSE "transient"
                        [] answer' = "exception" -> IF carrier # None THEN "torn" ELSE "garbled"
  <1>7. reply \in Reply
    BY <1>5 DEF Reply, Doing
  <1>8. (carrier # None)' <=> reply \in Doing
    BY <1>1, <1>4, <1>5 DEF Doing
  <1>9. answer' = AnswerTo(reply)
    BY <1>5 DEF AnswerTo
  <1>10. got' <=> reply = "ok"
    BY <1>5, <1>6
  <1> HIDE DEF reply
  <1> QED BY <1>1, <1>2, <1>6, <1>7, <1>8, <1>9, <1>10, EndsAsReply

\* Before the first call nothing has been asked of the contract either.
LEMMA ContractInit == Init => Contract!Init
  BY DEF Init, Contract!Init, Seen

\* Each step of the adapter is one of ProviderCall or a stutter.
LEMMA ContractStep == CallInv /\ [Next]_vars => [Contract!Next]_(Contract!vars)
  <1> SUFFICES ASSUME CallInv, [Next]_vars PROVE [Contract!Next]_(Contract!vars)
    OBVIOUS
  <1>1. ASSUME NEW o \in Ops, NEW t \in Tenant, Call(o, t)
        PROVE  [Contract!Next]_(Contract!vars)
    <2>1. CASE o = "consultar_nit"
      BY <1>1, <2>1 DEF Call, Contract!vars, Seen
    <2>2. CASE o # "consultar_nit"
      BY <1>1, <2>2 DEF Call, Contract!Next, Contract!Ask, Seen
    <2> QED BY <2>1, <2>2
  <1>2. CASE op = "consultar_nit" /\ (refuse \/ mock_answers \/ felplex_serves
                                       \/ read_response \/ autoretry \/ finish)
    BY <1>2 DEF refuse, mock_answers, felplex_serves, read_response, autoretry, finish,
                Contract!vars, Seen
  <1>3. CASE op # "consultar_nit" /\ refuse
    <2>1. /\ pc = "asked" /\ pc' = "over" /\ op' = op /\ carrier' = carrier
          /\ answer' = "config" /\ got' = FALSE
      BY <1>3 DEF refuse, Over
    <2>2. carrier = None
      BY <2>1 DEF CallInv, Fresh
    <2>3. Contract!Misconfigured
      BY <1>3, <2>1, <2>2, Pending DEF Contract!Misconfigured, Seen
    <2> QED BY <2>3 DEF Contract!Next
  <1>4. CASE op # "consultar_nit" /\ mock_answers
    <2>1. /\ pc = "asked" /\ pc' = "over" /\ op' = op
          /\ carrier' = "mock" /\ answer' = "ok" /\ got' = TRUE
      BY <1>4 DEF mock_answers, Over
    <2>2. "ok" \in Reply /\ "ok" \in Doing /\ AnswerTo("ok") = "ok"
      BY DEF Reply, Doing, AnswerTo
    <2>3. (carrier # None)'
      BY <2>1, NoneIsNobody
    <2>4. Contract!Replied("ok")
      BY <1>4, <2>1, <2>2, <2>3, EndsAsReply
    <2> QED BY <2>2, <2>4, SameContract DEF Contract!Next
  <1>5. CASE op # "consultar_nit" /\ felplex_serves
    BY <1>5 DEF felplex_serves, Contract!vars, Seen
  <1>6. CASE op # "consultar_nit" /\ read_response
    BY <1>6, ReadIsReply, SameContract DEF Contract!Next
  <1>7. CASE op # "consultar_nit" /\ autoretry
    BY <1>7 DEF autoretry, Contract!Next, Contract!Ask, Seen
  <1>8. CASE op # "consultar_nit" /\ finish
    BY <1>8 DEF finish, Contract!Next, Contract!Finish, Seen
  <1>9. CASE UNCHANGED vars
    BY <1>9 DEF vars, Contract!vars, Seen
  <1> QED BY <1>1, <1>2, <1>3, <1>4, <1>5, <1>6, <1>7, <1>8, <1>9 DEF Next

\* Every call of certificar and anular ends as one of the replies Gateway reckons
\* with, so that what is proved of Gateway holds with this adapter below it.
THEOREM AdapterKeepsContract == Spec => ContractKept
  <1>1. Spec => Contract!Spec
    BY ContractInit, ContractStep, CallSafe, PTL DEF Spec, Contract!Spec
  <1> QED BY <1>1 DEF ContractKept
=============================================================================
