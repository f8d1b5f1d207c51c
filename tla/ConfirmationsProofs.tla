------------------------- MODULE ConfirmationsProofs -------------------------
(***************************************************************************)
(* Machine-checked proofs about Confirmations, for every set of ids, users  *)
(* and calls and every TTL and Retention.                                   *)
(*                                                                         *)
(* The argument: a document is taken at most once (only `pending` can be    *)
(* taken and nothing makes a document pending again), so at most one call   *)
(* ever holds it (Exclusive), and the history `claim` remembers that it was *)
(* taken even after the TTL index purged the document.  Whatever is said    *)
(* about the order - in the documents, in the replies, in the intent        *)
(* records - is then said by the one call that holds it or by calls that    *)
(* found it withdrawn.                                                      *)
(***************************************************************************)
EXTENDS Confirmations, TLAPS

\* A call past its successful TakeForExecution, before and after the order is sent.
BeforeSending == {"markExecuting", "execute"}
AfterSending  == {"complete", "markExecuted"}
Holding == BeforeSending \cup AfterSending \cup {"fail", "markFailed"}

\* No two calls hold the same confirmation.
Exclusive ==
  \A p, q \in Procs :
    p # q /\ call[p].step \in Holding /\ call[q].step \in Holding => call[p].id # call[q].id

\* A call about to insert a confirmation is alone with an id that has none yet.
StagingFresh ==
  /\ \A p \in Procs : call[p].step = "putConf" =>
       conf[call[p].id].status = "absent" /\ intent[call[p].id] # "none"
  /\ \A p, q \in Procs :
       p # q /\ call[p].step = "putConf" /\ call[q].step = "putConf"
         => call[p].id # call[q].id
  /\ \A id \in Ids : conf[id].status # "absent" => intent[id] # "none"

\* What the step a call is at says about its confirmation.
CallConsistent(p) ==
  /\ call[p].step \in Holding =>
       claim[call[p].id] = IF call[p].strict THEN "strict" ELSE "fallback"
  /\ call[p].step \in BeforeSending => Total(call[p].id) = 0
  /\ call[p].step \in AfterSending => Total(call[p].id) = 1

CallsConsistent == \A p \in Procs : CallConsistent(p)

\* The history of a claim agrees with the document it was made on.
ClaimsConsistent ==
  \A id \in Ids :
    /\ conf[id].status \in {"absent", "pending", "cancelled", "expired"} => claim[id] = "none"
    /\ conf[id].status \in {"executing", "executed", "failed"} => claim[id] # "none"
    /\ conf[id].status = "executed" => Total(id) = 1
    /\ claim[id] = "none" => Total(id) = 0
    /\ claim[id] = "strict" => sent[id]["shared"] = 0
    /\ Total(id) \in {0, 1}

\* Cancelled for good: never taken, and nothing left that could be.
Withdrawn(id) == claim[id] = "none" /\ conf[id].status \in {"cancelled", "purged"}

\* What callers were told, and what the intent records say.
RepliesConsistent ==
  /\ \A p \in Procs : call[p].step = "markCancelled" => Withdrawn(call[p].id)
  /\ \A id \in Ids :
       /\ "executed" \in told[id] => Total(id) = 1
       /\ "cancelled" \in told[id] => Withdrawn(id)
       /\ intent[id] = "executed" => Total(id) = 1
       /\ intent[id] = "cancelled" => Withdrawn(id)

IInv ==
  /\ TypeOK
  /\ Exclusive
  /\ StagingFresh
  /\ CallsConsistent
  /\ ClaimsConsistent
  /\ RepliesConsistent
-----------------------------------------------------------------------------
\* What each conditional update of the store makes of a document.
LEMMA DocumentUpdates ==
  ASSUME NEW doc \in Documents
  PROVE  /\ Taken(doc) \in Documents /\ Taken(doc).status = "executing"
         /\ \A o \in {"executed", "failed"} :
              Settled(doc, o) \in Documents /\ Settled(doc, o).status = o
         /\ Cancelled(doc) \in Documents /\ Cancelled(doc).status = "cancelled"
         /\ MarkedExpired(doc) \in Documents
         /\ doc.status = "pending" => MarkedExpired(doc).status = "expired"
         /\ doc.status # "pending" => MarkedExpired(doc) = doc
         /\ Purged(doc) \in Documents /\ Purged(doc).status = "purged"
         /\ Older(doc) \in Documents /\ Older(doc).status = doc.status
<1>1. Taken(doc) \in Documents /\ Taken(doc).status = "executing"
  BY DEF Documents, ConfirmationStatus, Taken
<1>2. ASSUME NEW o \in {"executed", "failed"}
      PROVE  Settled(doc, o) \in Documents /\ Settled(doc, o).status = o
  BY StoreAssumption DEF Documents, ConfirmationStatus, Settled
<1>3. Cancelled(doc) \in Documents /\ Cancelled(doc).status = "cancelled"
  BY DEF Documents, ConfirmationStatus, Cancelled
<1>4. /\ MarkedExpired(doc) \in Documents
      /\ doc.status = "pending" => MarkedExpired(doc).status = "expired"
      /\ doc.status # "pending" => MarkedExpired(doc) = doc
  BY DEF Documents, ConfirmationStatus, MarkedExpired
<1>5. Purged(doc) \in Documents /\ Purged(doc).status = "purged"
  BY DEF Documents, ConfirmationStatus, Purged
<1>6. Older(doc) \in Documents /\ Older(doc).status = doc.status
  BY DEF Documents, Older
<1>7. QED
  BY <1>1, <1>2, <1>3, <1>4, <1>5, <1>6

\* What Prepare inserts.
LEMMA PendingDocument ==
  ASSUME NEW u \in Users, NEW n \in 0..TTL
  PROVE  PendingDoc(u, n) \in Documents /\ PendingDoc(u, n).status = "pending"
BY StoreAssumption DEF Documents, ConfirmationStatus, PendingDoc

\* A write to `confirmations` changes one document.
LEMMA SetDocEffect ==
  ASSUME TypeOK, NEW id \in Ids, NEW doc \in Documents, SetDoc(id, doc)
  PROVE  /\ conf' \in [Ids -> Documents]
         /\ conf'[id] = doc
         /\ \A i \in Ids : i # id => conf'[i] = conf[i]
BY DEF TypeOK, SetDoc

\* A call that goes on keeps its id and its kind.
LEMMA GotoEffect ==
  ASSUME TypeOK, NEW p \in Procs, NEW s \in Steps, Goto(p, s)
  PROVE  /\ call' \in [Procs -> Calls]
         /\ call'[p].step = s
         /\ call'[p].id = call[p].id
         /\ call'[p].strict = call[p].strict
         /\ \A q \in Procs : q # p => call'[q] = call[q]
BY DEF TypeOK, Goto, Calls

\* A call that ends is idle.
LEMMA ReturnEffect ==
  ASSUME TypeOK, NEW p \in Procs, Return(p)
  PROVE  /\ call' \in [Procs -> Calls]
         /\ call'[p].step = "idle"
         /\ call'[p].id = call[p].id
         /\ \A q \in Procs : q # p => call'[q] = call[q]
<1>1. "idle" \in Steps
  BY DEF Steps
<1>2. QED
  BY <1>1 DEF TypeOK, Return, Calls

\* An intent write changes one record, or none.
LEMMA TryIntentEffect ==
  ASSUME TypeOK, NEW id \in Ids, NEW st \in IntentStatus, TryIntent(id, st)
  PROVE  /\ intent' \in [Ids -> IntentStatus]
         /\ intent'[id] \in {st, intent[id]}
         /\ \A i \in Ids : i # id => intent'[i] = intent[i]
BY DEF TypeOK, TryIntent

\* A reply adds one outcome for one order.
LEMMA ReplyEffect ==
  ASSUME TypeOK, NEW id \in Ids, NEW o \in Outcomes, Reply(id, o)
  PROVE  /\ told' \in [Ids -> SUBSET Outcomes]
         /\ told'[id] = told[id] \cup {o}
         /\ \A i \in Ids : i # id => told'[i] = told[i]
BY DEF TypeOK, Reply

\* The step names, without expanding Steps in every proof.
LEMMA StepNames ==
  /\ {"putConf", "auditPrepare", "take", "lookup", "expire", "markExecuting", "execute",
      "complete", "markExecuted", "fail", "markFailed", "cancel", "cancelLookup",
      "cancelExpire", "markCancelled", "markIntentExpired", "idle"} \subseteq Steps
BY DEF Steps

\* Types of what a call refers to.
LEMMA CallTypes ==
  ASSUME TypeOK, NEW p \in Procs
  PROVE  /\ Id(p) \in Ids /\ Id(p) = call[p].id
         /\ Doc(p) \in Documents /\ Doc(p) = conf[Id(p)]
         /\ call[p].step \in Steps /\ call[p].user \in Users /\ call[p].strict \in BOOLEAN
BY DEF TypeOK, Id, Doc, Calls
-----------------------------------------------------------------------------
\* Most actions move a document forward without taking it, ...
DocumentMoves(id) ==
  \/ conf'[id].status = conf[id].status
  \/ conf[id].status = "pending" /\ conf'[id].status \in {"cancelled", "expired"}
  \/ conf[id].status # "absent" /\ conf'[id].status = "purged"
  \/ conf[id].status = "executing" /\ conf'[id].status = "failed"
  \/ conf[id].status = "executing" /\ conf'[id].status = "executed" /\ Total(id) = 1

\* ... take a call on without giving it anything to hold, ...
CallMoves(p) ==
  /\ \A q \in Procs : q # p => call'[q] = call[q]
  /\ call'[p].id = call[p].id
  /\ \/ call'[p].step \notin Holding \cup {"putConf", "markCancelled"}
     \/ call'[p].step = "markCancelled" /\ \E id \in Ids : id = call[p].id /\ Withdrawn(id)'
     \/ /\ call'[p].strict = call[p].strict
        /\ <<call[p].step, call'[p].step>> \in
             {<<"markExecuting", "execute">>, <<"complete", "markExecuted">>,
              <<"fail", "markFailed">>}

\* ... and say nothing that is not so.
RecordsTrue ==
  /\ intent' \in [Ids -> IntentStatus] /\ told' \in [Ids -> SUBSET Outcomes]
  /\ \A id \in Ids :
       /\ "executed" \in told'[id] => Total(id) = 1
       /\ "cancelled" \in told'[id] => Withdrawn(id)
       /\ intent'[id] = "executed" => Total(id) = 1
       /\ intent'[id] = "cancelled" => Withdrawn(id)
       /\ intent[id] # "none" => intent'[id] # "none"

\* A step of this kind keeps the invariant.
LEMMA OrdinaryStep ==
  ASSUME IInv,
         conf' \in [Ids -> Documents], \A id \in Ids : DocumentMoves(id),
         call' \in [Procs -> Calls], UNCHANGED call \/ \E p \in Procs : CallMoves(p),
         RecordsTrue,
         UNCHANGED <<claim, sent>>
  PROVE  IInv'
<1>1. TypeOK'
  BY DEF IInv, TypeOK, RecordsTrue
<1>2. \A id \in Ids : Total(id)' = Total(id)
  BY DEF Total
<1>3. \A id \in Ids : Withdrawn(id) => Withdrawn(id)'
  BY DEF DocumentMoves, Withdrawn
<1>4. \A p \in Procs :
        /\ call[p].id \in Ids /\ call'[p].id = call[p].id
        /\ call'[p].step \in Holding =>
             call[p].step \in Holding /\ call'[p].strict = call[p].strict
        /\ call'[p].step \in BeforeSending => call[p].step \in BeforeSending
        /\ call'[p].step \in AfterSending => call[p].step \in AfterSending
        /\ call'[p].step = "putConf" => call[p].step = "putConf"
        /\ call'[p].step = "markCancelled" =>
             \/ call[p].step = "markCancelled"
             \/ \E id \in Ids : id = call[p].id /\ Withdrawn(id)'
  BY DEF CallMoves, Holding, BeforeSending, AfterSending, IInv, TypeOK, Calls
<1>5. Exclusive'
  BY <1>4 DEF IInv, Exclusive
<1>6. StagingFresh'
  BY <1>4 DEF IInv, StagingFresh, RecordsTrue, DocumentMoves
<1>7. CallsConsistent'
  BY <1>2, <1>4 DEF IInv, CallsConsistent, CallConsistent
<1>8. ClaimsConsistent'
  BY <1>2 DEF IInv, ClaimsConsistent, DocumentMoves
<1>9. RepliesConsistent'
  BY <1>2, <1>3, <1>4 DEF IInv, RepliesConsistent, RecordsTrue
<1>10. QED
  BY <1>1, <1>5, <1>6, <1>7, <1>8, <1>9 DEF IInv

\* Taking a document: the one claim on it, made while no other call holds it.
LEMMA TakeStep ==
  ASSUME IInv, NEW p \in Procs, Take(p)
  PROVE  IInv'
<1>0. PICK id \in Ids : id = call[p].id
  BY CallTypes DEF IInv
<1>1. /\ TypeOK /\ id \in Ids /\ Id(p) = id /\ Doc(p) = conf[id] /\ conf[id] \in Documents
      /\ call[p].strict \in BOOLEAN
  BY <1>0, CallTypes DEF IInv
<1>2. /\ call[p].step = "take" /\ conf[id].status = "pending"
      /\ SetDoc(id, Taken(conf[id]))
      /\ claim' = [claim EXCEPT ![id] = IF call[p].strict THEN "strict" ELSE "fallback"]
      /\ Goto(p, "markExecuting") \/ Return(p)
      /\ UNCHANGED <<intent, sent, told>>
  BY <1>1 DEF Take, At, CanTake
<1>3. /\ conf' \in [Ids -> Documents] /\ conf'[id].status = "executing"
      /\ \A i \in Ids : i # id => conf'[i] = conf[i]
  BY <1>1, <1>2, DocumentUpdates, SetDocEffect
<1>4. /\ call' \in [Procs -> Calls] /\ call'[p].id = call[p].id
      /\ \/ call'[p].step = "idle"
         \/ call'[p].step = "markExecuting" /\ call'[p].strict = call[p].strict
      /\ \A q \in Procs : q # p => call'[q] = call[q]
  BY <1>1, <1>2, GotoEffect, ReturnEffect, StepNames
<1>5. /\ claim' \in [Ids -> Claims]
      /\ claim'[id] = IF call[p].strict THEN "strict" ELSE "fallback"
      /\ \A i \in Ids : i # id => claim'[i] = claim[i]
  BY <1>1, <1>2 DEF TypeOK, Claims
<1>6. TypeOK'
  BY <1>1, <1>2, <1>3, <1>4, <1>5 DEF TypeOK
<1>7. /\ claim[id] = "none" /\ Total(id) = 0 /\ sent[id]["shared"] = 0
      /\ \A i \in Ids : Total(i)' = Total(i)
  BY <1>1, <1>2 DEF IInv, ClaimsConsistent, TypeOK, Total, Accounts
<1>8. \A q \in Procs : call[q].id = id => call[q].step \notin Holding
  BY <1>1, <1>7 DEF IInv, CallsConsistent, CallConsistent
<1>9. Exclusive'
  BY <1>0, <1>4, <1>8 DEF IInv, Exclusive, Holding, BeforeSending, AfterSending
<1>10. StagingFresh'
  <2>1. \A q \in Procs : call'[q].step = "putConf" => q # p /\ call'[q] = call[q] /\ call[q].id \in Ids
    BY <1>1, <1>4 DEF TypeOK, Calls
  <2>2. \A i \in Ids : conf'[i].status = "absent" <=> conf[i].status = "absent"
    BY <1>2, <1>3
  <2>3. QED
    BY <2>1, <2>2, <1>2 DEF IInv, StagingFresh
<1>11. ASSUME NEW q \in Procs
       PROVE  CallConsistent(q)'
  <2>1. CASE q = p
    BY <1>0, <2>1, <1>1, <1>4, <1>5, <1>7 DEF CallConsistent, Holding, BeforeSending, AfterSending
  <2>2. CASE q # p
    <3>1. call'[q] = call[q] /\ call[q].id \in Ids /\ CallConsistent(q)
      BY <2>2, <1>1, <1>4 DEF IInv, CallsConsistent, TypeOK, Calls
    <3>2. call[q].step \in Holding => claim'[call[q].id] = claim[call[q].id]
      BY <3>1, <1>5, <1>8
    <3>3. Total(call[q].id)' = Total(call[q].id)
      BY <3>1, <1>7
    <3>4. QED
      BY <3>1, <3>2, <1>2 DEF CallConsistent, Total
  <2>3. QED
    BY <2>1, <2>2
<1>12. ClaimsConsistent'
  BY <1>1, <1>2, <1>3, <1>5, <1>7 DEF IInv, ClaimsConsistent
<1>13. \A i \in Ids : Withdrawn(i) => Withdrawn(i)' /\ i # id
  BY <1>2, <1>3, <1>5 DEF Withdrawn
<1>14. RepliesConsistent'
  BY <1>1, <1>2, <1>4, <1>7, <1>13 DEF IInv, RepliesConsistent, TypeOK, Calls
<1>15. QED
  BY <1>6, <1>9, <1>10, <1>11, <1>12, <1>14 DEF IInv, CallsConsistent

\* Sending the order: only the call that holds the document, and only once.
LEMMA ExecuteStep ==
  ASSUME IInv, NEW p \in Procs, Execute(p)
  PROVE  IInv'
<1>0. PICK id \in Ids : id = call[p].id
  BY CallTypes DEF IInv
<1>1. /\ TypeOK /\ id \in Ids /\ Id(p) = id
      /\ call[p].step = "execute" /\ call[p].strict \in BOOLEAN
      /\ UNCHANGED <<conf, intent, claim, told>>
  BY <1>0, CallTypes DEF IInv, Execute, At
<1>2. Total(id) = 0 /\ claim[id] = IF call[p].strict THEN "strict" ELSE "fallback"
  BY <1>0, <1>1 DEF IInv, CallsConsistent, CallConsistent, Holding, BeforeSending
<1>3. /\ call' \in [Procs -> Calls] /\ call'[p].id = id
      /\ call'[p].strict = call[p].strict
      /\ call'[p].step \in {"complete", "fail"}
      /\ \A q \in Procs : q # p => call'[q] = call[q]
  <2>1. Goto(p, "complete") \/ Goto(p, "fail")
    BY <1>1 DEF Execute
  <2>2. QED
    BY <1>0, <2>1, <1>1, GotoEffect, StepNames
<1>4. /\ sent' \in [Ids -> [Accounts -> Nat]]
      /\ \A i \in Ids : i # id => sent'[i] = sent[i]
      /\ Total(id)' \in {0, 1} /\ (call'[p].step = "complete" => Total(id)' = 1)
      /\ claim[id] = "strict" => sent'[id]["shared"] = 0
  <2>1. /\ sent \in [Ids -> [Accounts -> Nat]]
        /\ sent[id]["own"] = 0 /\ sent[id]["shared"] = 0
    BY <1>1, <1>2 DEF TypeOK, Total, Accounts
  <2>2. CASE Goto(p, "fail") /\ UNCHANGED sent
    <3>1. call'[p].step = "fail"
      BY <2>2, <1>1, GotoEffect, StepNames
    <3>2. QED
      BY <3>1, <2>1, <2>2 DEF Total
  <2>3. ASSUME NEW a \in AccountsFor(call[p].strict), sent' = [sent EXCEPT ![id][a] = @ + 1]
        PROVE  /\ sent' \in [Ids -> [Accounts -> Nat]]
               /\ \A i \in Ids : i # id => sent'[i] = sent[i]
               /\ Total(id)' = 1
               /\ claim[id] = "strict" => sent'[id]["shared"] = 0
    <3>1. a \in Accounts /\ (claim[id] = "strict" => a = "own")
      BY <1>1, <1>2 DEF AccountsFor, Accounts
    <3>2. /\ sent' \in [Ids -> [Accounts -> Nat]]
          /\ \A i \in Ids : i # id => sent'[i] = sent[i]
          /\ sent'[id] = [sent[id] EXCEPT ![a] = @ + 1]
      BY <3>1, <2>1, <2>3, <1>1
    <3>3. Total(id)' = 1 /\ (a = "own" => sent'[id]["shared"] = 0)
      BY <3>1, <3>2, <2>1, <1>1 DEF Total, Accounts
    <3>4. QED
      BY <3>1, <3>2, <3>3
  <2>4. QED
    BY <2>2, <2>3, <1>1 DEF Execute
<1>5. \A i \in Ids : Total(i)' \in {0, 1} /\ (Total(i) = 1 => Total(i)' = 1)
  <2>1. \A i \in Ids : i # id => Total(i)' = Total(i)
    BY <1>4 DEF Total
  <2>2. QED
    BY <2>1, <1>2, <1>4 DEF IInv, ClaimsConsistent
<1>6. TypeOK'
  BY <1>1, <1>3, <1>4 DEF TypeOK
<1>7. \A q \in Procs : q # p /\ call[q].step \in Holding => call[q].id # id
  BY <1>0, <1>1 DEF IInv, Exclusive, Holding, BeforeSending
<1>8. Exclusive'
  BY <1>3, <1>7 DEF IInv, Exclusive
<1>9. StagingFresh'
  BY <1>1, <1>3 DEF IInv, StagingFresh
<1>10. ASSUME NEW q \in Procs
       PROVE  CallConsistent(q)'
  <2>1. CASE q = p
    BY <2>1, <1>1, <1>2, <1>3, <1>4 DEF CallConsistent, Total, Holding, BeforeSending, AfterSending
  <2>2. CASE q # p
    <3>1. call'[q] = call[q] /\ call[q].id \in Ids /\ CallConsistent(q)
      BY <2>2, <1>1, <1>3 DEF IInv, CallsConsistent, TypeOK, Calls
    <3>2. call[q].step \in Holding => Total(call[q].id)' = Total(call[q].id)
      BY <3>1, <2>2, <1>4, <1>7 DEF Total
    <3>3. QED
      BY <3>1, <3>2, <1>1 DEF CallConsistent, Holding, Total
  <2>3. QED
    BY <2>1, <2>2
<1>11. ClaimsConsistent'
  <2>1. claim[id] # "none"
    BY <1>2
  <2>2. \A i \in Ids : claim[i] = "none" => Total(i)' = Total(i)
    BY <2>1, <1>4 DEF Total
  <2>3. \A i \in Ids : claim[i] = "strict" => sent'[i]["shared"] = 0
    BY <1>4 DEF IInv, ClaimsConsistent
  <2>4. QED
    BY <2>2, <2>3, <1>1, <1>5 DEF IInv, ClaimsConsistent
<1>12. RepliesConsistent'
  BY <1>1, <1>3, <1>5 DEF IInv, RepliesConsistent, Withdrawn
<1>13. QED
  BY <1>6, <1>8, <1>9, <1>10, <1>11, <1>12 DEF IInv, CallsConsistent

\* Staging begins on an id nobody uses.
LEMMA PutIntentStep ==
  ASSUME IInv, NEW p \in Procs, NEW id \in Ids, NEW u \in Users, PutIntent(p, id, u)
  PROVE  IInv'
<1>1. /\ TypeOK /\ intent[id] = "none" /\ UNCHANGED <<conf, claim, sent, told>>
      /\ intent' = [intent EXCEPT ![id] = "awaiting_confirmation"]
      /\ call' = [call EXCEPT ![p] = [@ EXCEPT !.step = "putConf", !.id = id, !.user = u]]
  BY DEF PutIntent, IInv
<1>2. /\ call' \in [Procs -> Calls]
      /\ call'[p].step = "putConf" /\ call'[p].id = id
      /\ \A q \in Procs : q # p => call'[q] = call[q]
  BY <1>1, StepNames DEF TypeOK, Calls
<1>3. /\ intent' \in [Ids -> IntentStatus] /\ intent'[id] = "awaiting_confirmation"
      /\ \A i \in Ids : i # id => intent'[i] = intent[i]
  BY <1>1 DEF TypeOK, IntentStatus
<1>4. TypeOK'
  BY <1>1, <1>2, <1>3 DEF TypeOK
<1>5. Exclusive'
  BY <1>2 DEF IInv, Exclusive, Holding, BeforeSending, AfterSending
<1>6. StagingFresh'
  BY <1>1, <1>2, <1>3 DEF IInv, StagingFresh
<1>7. CallsConsistent'
  BY <1>1, <1>2 DEF IInv, CallsConsistent, CallConsistent, Holding, BeforeSending, AfterSending,
                    Total
<1>8. ClaimsConsistent'
  BY <1>1 DEF IInv, ClaimsConsistent, Total
<1>9. RepliesConsistent'
  BY <1>1, <1>2, <1>3 DEF IInv, RepliesConsistent, Withdrawn, Total
<1>10. QED
  BY <1>4, <1>5, <1>6, <1>7, <1>8, <1>9 DEF IInv

\* A new Confirm or Cancel holds nothing yet.
LEMMA BeginStep ==
  ASSUME IInv, NEW p \in Procs, NEW id \in Ids, NEW u \in Users, NEW s \in {"take", "cancel"},
         NEW strict \in BOOLEAN, Begin(p, id, u, s, strict)
  PROVE  IInv'
<1>1. /\ TypeOK /\ UNCHANGED <<conf, intent, claim, sent, told>>
      /\ call' = [call EXCEPT ![p] = [step |-> s, id |-> id, user |-> u,
                                      live |-> conf[id].ttl > 0, strict |-> strict]]
  BY DEF Begin, IInv
<1>2. /\ call' \in [Procs -> Calls]
      /\ call'[p].step \in {"take", "cancel"}
      /\ \A q \in Procs : q # p => call'[q] = call[q]
  BY <1>1, StepNames DEF TypeOK, Calls
<1>3. TypeOK'
  BY <1>1, <1>2 DEF TypeOK
<1>4. Exclusive'
  BY <1>2 DEF IInv, Exclusive, Holding, BeforeSending, AfterSending
<1>5. StagingFresh'
  BY <1>1, <1>2 DEF IInv, StagingFresh
<1>6. CallsConsistent'
  BY <1>1, <1>2 DEF IInv, CallsConsistent, CallConsistent, Holding, BeforeSending, AfterSending,
                    Total
<1>7. ClaimsConsistent'
  BY <1>1 DEF IInv, ClaimsConsistent, Total
<1>8. RepliesConsistent'
  BY <1>1, <1>2 DEF IInv, RepliesConsistent, Withdrawn, Total
<1>9. QED
  BY <1>3, <1>4, <1>5, <1>6, <1>7, <1>8 DEF IInv

\* The one action that makes a document pending.
LEMMA PutConfStep ==
  ASSUME IInv, NEW p \in Procs, PutConf(p)
  PROVE  IInv'
<1>0. PICK id \in Ids : id = call[p].id
  BY CallTypes DEF IInv
<1>1. /\ TypeOK /\ id \in Ids /\ Id(p) = id /\ call[p].user \in Users
      /\ call[p].step = "putConf" /\ UNCHANGED <<intent, claim, sent, told>>
  BY <1>0, CallTypes DEF IInv, PutConf, At
<1>2. /\ conf[id].status = "absent" /\ intent[id] # "none" /\ claim[id] = "none"
      /\ \A q \in Procs : q # p /\ call[q].step = "putConf" => call[q].id # id
  BY <1>0, <1>1 DEF IInv, StagingFresh, ClaimsConsistent
<1>3. /\ call' \in [Procs -> Calls] /\ call'[p].id = id
      /\ call'[p].step \in {"idle", "auditPrepare"}
      /\ \A q \in Procs : q # p => call'[q] = call[q]
  BY <1>0, <1>1, GotoEffect, ReturnEffect, StepNames DEF PutConf
<1>4. /\ conf' \in [Ids -> Documents] /\ conf'[id].status \in {"absent", "pending"}
      /\ \A i \in Ids : i # id => conf'[i] = conf[i]
  <2>1. CASE UNCHANGED conf
    BY <2>1, <1>1, <1>2 DEF TypeOK
  <2>2. CASE \E left \in 0..TTL : SetDoc(id, PendingDoc(call[p].user, left))
    BY <2>2, <1>1, PendingDocument, SetDocEffect
  <2>3. QED
    BY <2>1, <2>2, <1>1 DEF PutConf
<1>5. TypeOK'
  BY <1>1, <1>3, <1>4 DEF TypeOK
<1>6. Exclusive'
  BY <1>3 DEF IInv, Exclusive, Holding, BeforeSending, AfterSending
<1>7. StagingFresh'
  <2>1. \A q \in Procs : call'[q].step = "putConf" =>
          q # p /\ call'[q] = call[q] /\ call[q].id \in Ids /\ call[q].id # id
    BY <1>1, <1>2, <1>3 DEF TypeOK, Calls
  <2>2. QED
    BY <2>1, <1>1, <1>2, <1>4 DEF IInv, StagingFresh
<1>8. CallsConsistent'
  BY <1>1, <1>3 DEF IInv, CallsConsistent, CallConsistent, Holding, BeforeSending, AfterSending,
                    Total
<1>9. ClaimsConsistent'
  BY <1>1, <1>2, <1>4 DEF IInv, ClaimsConsistent, Total
<1>10. RepliesConsistent'
  <2>1. \A i \in Ids : Withdrawn(i) => Withdrawn(i)'
    BY <1>1, <1>2, <1>4 DEF Withdrawn
  <2>2. QED
    BY <2>1, <1>1, <1>3 DEF IInv, RepliesConsistent, Total, TypeOK, Calls
<1>11. QED
  BY <1>5, <1>6, <1>7, <1>8, <1>9, <1>10 DEF IInv

-----------------------------------------------------------------------------
\* The actions OrdinaryStep covers, by what they touch.

LEMMA InvFacts ==
  ASSUME IInv
  PROVE  /\ TypeOK /\ conf \in [Ids -> Documents] /\ call \in [Procs -> Calls]
         /\ intent \in [Ids -> IntentStatus] /\ told \in [Ids -> SUBSET Outcomes]
         /\ \A id \in Ids :
              /\ "executed" \in told[id] => Total(id) = 1
              /\ "cancelled" \in told[id] => Withdrawn(id)
              /\ intent[id] = "executed" => Total(id) = 1
              /\ intent[id] = "cancelled" => Withdrawn(id)
              /\ conf[id].status = "executed" => Total(id) = 1
              /\ conf[id].status = "cancelled" => Withdrawn(id)
         /\ \A p \in Procs :
              /\ call[p].step = "markCancelled" => Withdrawn(call[p].id)
              /\ call[p].step \in AfterSending => Total(call[p].id) = 1
BY DEF IInv, TypeOK, CallsConsistent, CallConsistent, ClaimsConsistent, RepliesConsistent,
       Withdrawn

\* Ending a call is such a move, ...
LEMMA ReturnMoves ==
  ASSUME TypeOK, NEW p \in Procs, Return(p)
  PROVE  call' \in [Procs -> Calls] /\ CallMoves(p)
BY ReturnEffect DEF CallMoves, Holding, BeforeSending, AfterSending

\* ... and so is going on to a step that holds nothing.
LEMMA GotoMoves ==
  ASSUME TypeOK, NEW p \in Procs,
         NEW s \in Steps \ (Holding \cup {"putConf", "markCancelled"}), Goto(p, s)
  PROVE  call' \in [Procs -> Calls] /\ CallMoves(p)
BY GotoEffect DEF CallMoves

\* Those steps by name.
LEMMA OrdinarySteps ==
  Steps \ (Holding \cup {"putConf", "markCancelled"}) =
    {"idle", "auditPrepare", "take", "lookup", "expire", "cancel", "cancelLookup",
     "cancelExpire", "markIntentExpired"}
BY DEF Steps, Holding, BeforeSending, AfterSending

\* The call goes on, nothing else changes.
LEMMA CallOnlyStep ==
  ASSUME IInv, NEW p \in Procs, call' \in [Procs -> Calls], CallMoves(p),
         UNCHANGED <<conf, intent, claim, sent, told>>
  PROVE  IInv'
<1>1. RecordsTrue /\ \A id \in Ids : DocumentMoves(id)
  BY InvFacts DEF RecordsTrue, DocumentMoves
<1>2. QED
  BY <1>1, InvFacts, OrdinaryStep

\* The actions that only take a call on.
LEMMA CallOnlySteps ==
  ASSUME IInv, NEW p \in Procs,
         TakeMissed(p) \/ CancelMissed(p) \/ CancelLookup(p) \/ Abort(p)
  PROVE  IInv'
<1>1. CASE TakeMissed(p)
  BY <1>1, InvFacts, GotoMoves, OrdinarySteps, CallOnlyStep DEF TakeMissed
<1>2. CASE CancelMissed(p)
  BY <1>2, InvFacts, GotoMoves, OrdinarySteps, CallOnlyStep DEF CancelMissed
<1>3. CASE CancelLookup(p)
  <2>1. PICK r : r = Reading(Doc(p), call[p].user, call[p].live)
    OBVIOUS
  <2>2. CASE r = "cancelled"
    <3>1. Doc(p).status = "cancelled"
      BY <2>1, <2>2, InvFacts, CallTypes DEF Reading, Present, Documents, ConfirmationStatus
    <3>2. Goto(p, "markCancelled") /\ UNCHANGED <<conf, claim>>
      BY <2>1, <2>2, <1>3 DEF CancelLookup
    <3>3. \E id \in Ids : id = call[p].id /\ Withdrawn(id)'
      BY <3>1, <3>2, InvFacts, CallTypes DEF Withdrawn
    <3>4. call' \in [Procs -> Calls] /\ CallMoves(p)
      BY <3>2, <3>3, InvFacts, GotoEffect, StepNames DEF CallMoves
    <3>5. QED
      BY <3>4, <1>3, CallOnlyStep DEF CancelLookup
  <2>3. CASE r # "cancelled"
    <3>1. Goto(p, "cancelExpire") \/ Goto(p, "markIntentExpired") \/ Goto(p, "idle")
      BY <2>1, <2>3, <1>3 DEF CancelLookup
    <3>2. call' \in [Procs -> Calls] /\ CallMoves(p)
      BY <3>1, InvFacts, GotoMoves, OrdinarySteps
    <3>3. QED
      BY <3>2, <1>3, CallOnlyStep DEF CancelLookup
  <2>4. QED
    BY <2>2, <2>3
<1>4. CASE Abort(p)
  BY <1>4, InvFacts, ReturnMoves, CallOnlyStep DEF Abort
<1>5. QED
  BY <1>1, <1>2, <1>3, <1>4

\* A reply, a write to the intent record, or both: what they say must be so.
LEMMA RecordSteps ==
  ASSUME IInv, NEW p \in Procs,
         AuditPrepare(p) \/ Lookup(p) \/ MarkExecuting(p) \/ MarkExecuted(p) \/ MarkFailed(p)
           \/ MarkCancelled(p) \/ MarkIntentExpired(p)
  PROVE  IInv'
<1>0. PICK id \in Ids : id = call[p].id /\ Id(p) = id /\ Doc(p) = conf[id]
  BY InvFacts, CallTypes
<1>1. ASSUME RecordsTrue, call' \in [Procs -> Calls], CallMoves(p), UNCHANGED <<conf, claim, sent>>
      PROVE  IInv'
  <2>1. \A i \in Ids : DocumentMoves(i)
    BY <1>1 DEF DocumentMoves
  <2>2. QED
    BY <1>1, <2>1, InvFacts, OrdinaryStep
<1>2. /\ {"executing", "executed", "failed", "cancelled", "expired"} \subseteq IntentStatus \ {"none"}
      /\ {"prepared", "executed", "cancelled"} \subseteq Outcomes
  BY DEF IntentStatus, Outcomes
<1>3. CASE AuditPrepare(p)
  <2>1. RecordsTrue
    BY <1>0, <1>2, <1>3, InvFacts, ReplyEffect DEF AuditPrepare, RecordsTrue
  <2>2. QED
    BY <2>1, <1>1, <1>3, InvFacts, ReturnMoves DEF AuditPrepare
<1>4. CASE Lookup(p)
  <2>1. PICK r : r = Reading(Doc(p), call[p].user, call[p].live)
    OBVIOUS
  <2>2. r = "executed" => Total(id) = 1
    BY <2>1, <1>0, InvFacts DEF Reading
  <2>3. (r = "executed" /\ Reply(id, "executed")) \/ UNCHANGED told
    BY <2>1, <1>0, <1>4 DEF Lookup
  <2>4. RecordsTrue
    BY <2>2, <2>3, <1>2, <1>4, InvFacts, ReplyEffect DEF Lookup, RecordsTrue
  <2>5. Goto(p, "expire") \/ Return(p)
    BY <2>1, <1>4 DEF Lookup
  <2>6. call' \in [Procs -> Calls] /\ CallMoves(p)
    BY <2>5, InvFacts, GotoMoves, ReturnMoves, OrdinarySteps
  <2>7. QED
    BY <2>4, <2>6, <1>1, <1>4 DEF Lookup
<1>5. CASE MarkExecuting(p)
  <2>1. RecordsTrue
    BY <1>0, <1>2, <1>5, InvFacts, TryIntentEffect DEF MarkExecuting, RecordsTrue
  <2>2. call' \in [Procs -> Calls] /\ CallMoves(p)
    BY <1>5, InvFacts, GotoEffect, StepNames DEF MarkExecuting, At, CallMoves
  <2>3. QED
    BY <2>1, <2>2, <1>1, <1>5 DEF MarkExecuting
<1>6. CASE MarkExecuted(p)
  <2>1. Total(id) = 1
    BY <1>0, <1>6, InvFacts DEF MarkExecuted, At, AfterSending
  <2>2. RecordsTrue
    BY <2>1, <1>0, <1>2, <1>6, InvFacts, TryIntentEffect, ReplyEffect DEF MarkExecuted, RecordsTrue
  <2>3. QED
    BY <2>2, <1>1, <1>6, InvFacts, ReturnMoves DEF MarkExecuted
<1>7. CASE MarkFailed(p)
  <2>1. RecordsTrue
    BY <1>0, <1>2, <1>7, InvFacts, TryIntentEffect DEF MarkFailed, RecordsTrue
  <2>2. QED
    BY <2>1, <1>1, <1>7, InvFacts, ReturnMoves DEF MarkFailed
<1>8. CASE MarkCancelled(p)
  <2>1. Withdrawn(id)
    BY <1>0, <1>8, InvFacts DEF MarkCancelled, At
  <2>2. RecordsTrue
    BY <2>1, <1>0, <1>2, <1>8, InvFacts, TryIntentEffect, ReplyEffect DEF MarkCancelled, RecordsTrue
  <2>3. QED
    BY <2>2, <1>1, <1>8, InvFacts, ReturnMoves DEF MarkCancelled
<1>9. CASE MarkIntentExpired(p)
  <2>1. RecordsTrue
    BY <1>0, <1>2, <1>9, InvFacts, TryIntentEffect DEF MarkIntentExpired, RecordsTrue
  <2>2. QED
    BY <2>1, <1>1, <1>9, InvFacts, ReturnMoves DEF MarkIntentExpired
<1>10. QED
  BY <1>3, <1>4, <1>5, <1>6, <1>7, <1>8, <1>9

\* A conditional update of one document, or the passing of time.
LEMMA DocumentSteps ==
  ASSUME IInv, NEW p \in Procs,
         Expire(p) \/ Complete(p) \/ Fail(p) \/ Cancel(p) \/ CancelExpire(p)
  PROVE  IInv'
<1>0. PICK id \in Ids : /\ id = call[p].id /\ Id(p) = id /\ Doc(p) = conf[id]
                        /\ conf[id] \in Documents
  BY InvFacts, CallTypes
<1>1. ASSUME conf' \in [Ids -> Documents], \A i \in Ids : DocumentMoves(i),
             call' \in [Procs -> Calls], CallMoves(p), UNCHANGED <<intent, claim, sent, told>>
      PROVE  IInv'
  <2>1. RecordsTrue
    BY <1>1, InvFacts DEF RecordsTrue
  <2>2. QED
    BY <1>1, <2>1, OrdinaryStep
<1>2. ASSUME SetDoc(id, MarkedExpired(conf[id])) \/ UNCHANGED conf
      PROVE  conf' \in [Ids -> Documents] /\ \A i \in Ids : DocumentMoves(i)
  BY <1>0, <1>2, InvFacts, SetDocEffect, DocumentUpdates DEF DocumentMoves
<1>3. CASE Expire(p)
  BY <1>0, <1>1, <1>2, <1>3, InvFacts, ReturnMoves DEF Expire
<1>4. CASE CancelExpire(p)
  BY <1>0, <1>1, <1>2, <1>4, InvFacts, GotoMoves, OrdinarySteps DEF CancelExpire
<1>5. CASE Complete(p)
  <2>1. call[p].step = "complete" /\ Total(id) = 1
    BY <1>0, <1>5, InvFacts DEF Complete, At, AfterSending
  <2>2. conf' \in [Ids -> Documents] /\ \A i \in Ids : DocumentMoves(i)
    BY <2>1, <1>0, <1>5, InvFacts, SetDocEffect, DocumentUpdates
       DEF Complete, CanSettle, DocumentMoves
  <2>3. call' \in [Procs -> Calls] /\ CallMoves(p)
    <3>1. CASE Return(p)
      BY <3>1, InvFacts, ReturnMoves
    <3>2. CASE Goto(p, "markExecuted")
      BY <3>2, <2>1, InvFacts, GotoEffect, StepNames DEF CallMoves
    <3>3. QED
      BY <3>1, <3>2, <1>5 DEF Complete
  <2>4. QED
    BY <2>2, <2>3, <1>1, <1>5 DEF Complete
<1>6. CASE Fail(p)
  <2>1. conf' \in [Ids -> Documents] /\ \A i \in Ids : DocumentMoves(i)
    BY <1>0, <1>6, InvFacts, SetDocEffect, DocumentUpdates DEF Fail, CanSettle, DocumentMoves
  <2>2. call' \in [Procs -> Calls] /\ CallMoves(p)
    BY <1>6, InvFacts, GotoEffect, StepNames DEF Fail, At, CallMoves
  <2>3. QED
    BY <2>1, <2>2, <1>1, <1>6 DEF Fail
<1>7. CASE Cancel(p)
  <2>1. /\ conf[id].status = "pending" /\ conf' \in [Ids -> Documents]
        /\ conf'[id].status = "cancelled" /\ \A i \in Ids : i # id => conf'[i] = conf[i]
    BY <1>0, <1>7, InvFacts, SetDocEffect, DocumentUpdates DEF Cancel, CanCancel
  <2>2. \A i \in Ids : DocumentMoves(i)
    BY <2>1 DEF DocumentMoves
  <2>3. Withdrawn(id)'
    BY <2>1, <1>7, InvFacts DEF Cancel, Withdrawn, IInv, ClaimsConsistent
  <2>4. call' \in [Procs -> Calls] /\ CallMoves(p)
    <3>1. CASE Return(p)
      BY <3>1, InvFacts, ReturnMoves
    <3>2. CASE Goto(p, "markCancelled")
      BY <3>2, <2>3, <1>0, InvFacts, GotoEffect, StepNames DEF CallMoves
    <3>3. QED
      BY <3>1, <3>2, <1>7 DEF Cancel
  <2>5. QED
    BY <2>1, <2>2, <2>4, <1>1, <1>7 DEF Cancel
<1>8. QED
  BY <1>3, <1>4, <1>5, <1>6, <1>7

\* No call is involved in these two.
LEMMA TimeSteps ==
  ASSUME IInv, Tick \/ \E id \in Ids : Purge(id)
  PROVE  IInv'
<1>1. RecordsTrue
  BY InvFacts DEF RecordsTrue, Tick, Purge
<1>2. conf' \in [Ids -> Documents] /\ \A id \in Ids : DocumentMoves(id)
  <2>1. CASE Tick
    BY <2>1, InvFacts, DocumentUpdates DEF Tick, DocumentMoves
  <2>2. ASSUME NEW id \in Ids, Purge(id)
        PROVE  conf' \in [Ids -> Documents] /\ \A i \in Ids : DocumentMoves(i)
    BY <2>2, InvFacts, SetDocEffect, DocumentUpdates
       DEF Purge, Purgeable, Present, DocumentMoves
  <2>3. QED
    BY <2>1, <2>2
<1>3. QED
  BY <1>1, <1>2, InvFacts, OrdinaryStep DEF Tick, Purge

-----------------------------------------------------------------------------
\* The invariant holds at the start ...
LEMMA InitIInv ==
  Init => IInv
<1> SUFFICES ASSUME Init
             PROVE  IInv
  OBVIOUS
<1>1. /\ conf \in [Ids -> Documents] /\ \A id \in Ids : conf[id].status = "absent"
  BY DEF Init, Documents, ConfirmationStatus
<1>2. call \in [Procs -> Calls] /\ \A p \in Procs : call[p].step = "idle"
  BY DEF Init, Calls, Steps
<1>3. sent \in [Ids -> [Accounts -> Nat]] /\ \A id \in Ids : Total(id) = 0 /\ sent[id]["shared"] = 0
  BY DEF Init, Accounts, Total
<1>4. TypeOK
  BY <1>1, <1>2, <1>3 DEF TypeOK, Init, IntentStatus, Claims
<1>5. QED
  BY <1>1, <1>2, <1>3, <1>4
     DEF Init, IInv, Exclusive, StagingFresh, CallsConsistent, CallConsistent, ClaimsConsistent,
         RepliesConsistent, Withdrawn, Holding, BeforeSending, AfterSending

\* ... and every step keeps it.
LEMMA NextIInv ==
  ASSUME IInv, [Next]_vars
  PROVE  IInv'
<1>1. ASSUME NEW p \in Procs, Prepare(p)
      PROVE  IInv'
  BY <1>1, PutIntentStep, PutConfStep, RecordSteps DEF Prepare
<1>2. ASSUME NEW p \in Procs, Confirm(p)
      PROVE  IInv'
  BY <1>2, BeginStep, TakeStep, ExecuteStep, CallOnlySteps, RecordSteps, DocumentSteps
     DEF Confirm, BeginConfirm
<1>3. ASSUME NEW p \in Procs, Withdraw(p)
      PROVE  IInv'
  BY <1>3, BeginStep, CallOnlySteps, RecordSteps, DocumentSteps DEF Withdraw, BeginCancel
<1>4. CASE UNCHANGED vars
  BY <1>4 DEF vars, IInv, TypeOK, Exclusive, StagingFresh, CallsConsistent, CallConsistent,
              ClaimsConsistent, RepliesConsistent, Withdrawn, Total
<1>5. QED
  BY <1>1, <1>2, <1>3, <1>4, CallOnlySteps, TimeSteps DEF Next

\* No run of the service leaves the invariant, for any ids, users, calls, TTL and Retention.
THEOREM Invariance == Spec => []IInv
BY InitIInv, NextIInv, PTL DEF Spec

\* Documents, records and calls keep the shapes the code gives them.
THEOREM TypeCorrect == Spec => []TypeOK
<1>1. IInv => TypeOK
  BY DEF IInv
<1>2. QED
  BY <1>1, Invariance, PTL

-----------------------------------------------------------------------------
\* The safety properties are conjuncts of the invariant or follow from one.

\* However many calls confirm an order, the exchange gets it at most once.
THEOREM OneOrderAtMost == Spec => []AtMostOneOrder
<1>1. IInv => AtMostOneOrder
  BY DEF IInv, ClaimsConsistent, AtMostOneOrder
<1>2. QED
  BY <1>1, Invariance, PTL

\* A caller that was told "cancelled" never finds an order on the exchange.
THEOREM CancelledIsNeverSent == Spec => []CancelledMeansNoOrder
<1>1. IInv => CancelledMeansNoOrder
  BY DEF IInv, ClaimsConsistent, RepliesConsistent, Withdrawn, CancelledMeansNoOrder
<1>2. QED
  BY <1>1, Invariance, PTL

\* An execution result is only ever returned for an order the exchange has.
THEOREM ResultIsReal == Spec => []ResultMeansOneOrder
<1>1. IInv => ResultMeansOneOrder
  BY DEF IInv, RepliesConsistent, ResultMeansOneOrder
<1>2. QED
  BY <1>1, Invariance, PTL

\* The three together: what Confirm and Cancel have answered stays true.
THEOREM AnswersStayTrue == Spec => []AnswersAreTrue
<1>1. AtMostOneOrder /\ CancelledMeansNoOrder /\ ResultMeansOneOrder => AnswersAreTrue
  BY DEF AnswersAreTrue
<1>2. QED
  BY <1>1, OneOrderAtMost, CancelledIsNeverSent, ResultIsReal, PTL

\* A strict Confirm never spends the platform's account.
THEOREM StrictNeverShared == Spec => []StrictStaysOnOwnKey
<1>1. IInv => StrictStaysOnOwnKey
  BY DEF IInv, ClaimsConsistent, StrictStaysOnOwnKey
<1>2. QED
  BY <1>1, Invariance, PTL

\* The unconditionally overwritten intent record never contradicts the exchange.
THEOREM IntentIsTrue == Spec => []IntentAgreesWithExchange
<1>1. IInv => IntentAgreesWithExchange
  BY DEF IInv, ClaimsConsistent, RepliesConsistent, Withdrawn, IntentAgreesWithExchange
<1>2. QED
  BY <1>1, Invariance, PTL
-----------------------------------------------------------------------------
\* What one step may do to one order, seen through its document, its claim and the
\* exchange.
Staged(id) == conf[id].status = "absent" /\ conf'[id].status = "pending"
TakenNow(id) ==
  /\ conf[id].status = "pending" /\ conf'[id].status = "executing"
  /\ claim'[id] # "none" /\ sent'[id] = sent[id]
SentNow(id) ==
  /\ claim[id] # "none" /\ claim'[id] = claim[id] /\ conf'[id].status = conf[id].status
  /\ Total(id) = 0 /\ Total(id)' = 1

OrderMoves(id) ==
  \/ Staged(id) /\ claim'[id] = claim[id] /\ sent'[id] = sent[id]
  \/ TakenNow(id)
  \/ SentNow(id)
  \/ DocumentMoves(id) /\ claim'[id] = claim[id] /\ sent'[id] = sent[id]

OrderStays(id) ==
  conf'[id].status = conf[id].status /\ claim'[id] = claim[id] /\ sent'[id] = sent[id]

OneOrderMoves ==
  \E id \in Ids : OrderMoves(id) /\ \A i \in Ids : i # id => OrderStays(i)

\* Every step of the service moves at most one order.
LEMMA OrderMovesOrStays ==
  ASSUME IInv, [Next]_vars
  PROVE  OneOrderMoves \/ \A id \in Ids : OrderStays(id)
<1>1. ASSUME UNCHANGED <<conf, claim, sent>>
      PROVE  \A id \in Ids : OrderStays(id)
  BY <1>1 DEF OrderStays
<1>2. ASSUME NEW id \in Ids, NEW doc \in Documents, SetDoc(id, doc), UNCHANGED sent,
             \A i \in Ids : i # id => claim'[i] = claim[i],
             OrderMoves(id)
      PROVE  OneOrderMoves
  BY <1>2, InvFacts, SetDocEffect DEF OneOrderMoves, OrderStays
<1>3. ASSUME NEW p \in Procs, PutConf(p)
      PROVE  OneOrderMoves \/ \A id \in Ids : OrderStays(id)
  <2>1. PICK id \in Ids : id = call[p].id /\ Id(p) = id
    BY InvFacts, CallTypes
  <2>2. conf[id].status = "absent"
    BY <2>1, <1>3 DEF PutConf, At, IInv, StagingFresh
  <2>3. ASSUME NEW left \in 0..TTL, SetDoc(id, PendingDoc(call[p].user, left))
        PROVE  OneOrderMoves
    <3>1. Staged(id) /\ claim'[id] = claim[id] /\ sent'[id] = sent[id]
      BY <2>2, <2>3, <1>3, InvFacts, CallTypes, PendingDocument, SetDocEffect DEF PutConf, Staged
    <3>2. QED
      BY <3>1, <2>3, <1>2, <1>3, InvFacts, CallTypes, PendingDocument DEF PutConf, OrderMoves
  <2>4. QED
    BY <2>1, <2>3, <1>1, <1>3 DEF PutConf
<1>4. ASSUME NEW p \in Procs, Take(p)
      PROVE  OneOrderMoves
  <2>1. PICK id \in Ids : /\ id = call[p].id /\ Id(p) = id /\ Doc(p) = conf[id]
                          /\ conf[id] \in Documents
    BY InvFacts, CallTypes
  <2>2. /\ conf[id].status = "pending" /\ SetDoc(id, Taken(conf[id])) /\ UNCHANGED sent
        /\ claim' = [claim EXCEPT ![id] = IF call[p].strict THEN "strict" ELSE "fallback"]
    BY <2>1, <1>4 DEF Take, CanTake
  <2>3. claim'[id] # "none" /\ \A i \in Ids : i # id => claim'[i] = claim[i]
    BY <2>2, InvFacts DEF TypeOK
  <2>4. TakenNow(id)
    BY <2>1, <2>2, <2>3, InvFacts, DocumentUpdates, SetDocEffect DEF TakenNow
  <2>5. QED
    BY <2>1, <2>2, <2>3, <2>4, <1>2, DocumentUpdates DEF OrderMoves
<1>5. ASSUME NEW p \in Procs, Execute(p)
      PROVE  OneOrderMoves \/ \A id \in Ids : OrderStays(id)
  <2>1. PICK id \in Ids : id = call[p].id /\ Id(p) = id
    BY InvFacts, CallTypes
  <2>2. claim[id] # "none" /\ Total(id) = 0 /\ call[p].strict \in BOOLEAN
    BY <2>1, <1>5, InvFacts, CallTypes
       DEF IInv, CallsConsistent, CallConsistent, Holding, BeforeSending, Execute, At
  <2>3. ASSUME NEW a \in AccountsFor(call[p].strict), sent' = [sent EXCEPT ![id][a] = @ + 1]
        PROVE  OneOrderMoves
    <3>1. a \in Accounts /\ sent \in [Ids -> [Accounts -> Nat]]
      BY <2>2, InvFacts DEF AccountsFor, Accounts, TypeOK
    <3>2. sent'[id] = [sent[id] EXCEPT ![a] = @ + 1] /\ \A i \in Ids : i # id => sent'[i] = sent[i]
      BY <3>1, <2>3
    <3>3. Total(id)' = 1
      BY <3>1, <3>2, <2>2 DEF Total, Accounts
    <3>4. QED
      BY <3>2, <3>3, <2>2, <1>5 DEF Execute, OneOrderMoves, OrderMoves, SentNow, OrderStays
  <2>4. QED
    BY <2>1, <2>3, <1>1, <1>5 DEF Execute
<1>6. ASSUME NEW id \in Ids, NEW doc \in Documents, SetDoc(id, doc) \/ UNCHANGED conf,
             UNCHANGED <<claim, sent>>,
             \/ doc.status = conf[id].status
             \/ conf[id].status = "pending" /\ doc.status \in {"cancelled", "expired"}
             \/ conf[id].status # "absent" /\ doc.status = "purged"
             \/ conf[id].status = "executing" /\ doc.status = "failed"
             \/ conf[id].status = "executing" /\ doc.status = "executed" /\ Total(id) = 1
      PROVE  OneOrderMoves \/ \A i \in Ids : OrderStays(i)
  <2>1. CASE SetDoc(id, doc)
    <3>1. DocumentMoves(id)
      BY <2>1, <1>6, InvFacts, SetDocEffect DEF DocumentMoves
    <3>2. QED
      BY <3>1, <2>1, <1>2, <1>6 DEF OrderMoves
  <2>2. QED
    BY <2>1, <1>1, <1>6
<1>7. ASSUME NEW p \in Procs,
             Expire(p) \/ Complete(p) \/ Fail(p) \/ Cancel(p) \/ CancelExpire(p)
      PROVE  OneOrderMoves \/ \A id \in Ids : OrderStays(id)
  <2>1. PICK id \in Ids : /\ id = call[p].id /\ Id(p) = id /\ Doc(p) = conf[id]
                          /\ conf[id] \in Documents
    BY InvFacts, CallTypes
  <2>2. UNCHANGED <<claim, sent>>
    BY <1>7 DEF Expire, Complete, Fail, Cancel, CancelExpire
  <2>3. CASE Expire(p) \/ CancelExpire(p)
    <3>1. SetDoc(id, MarkedExpired(conf[id])) \/ UNCHANGED conf
      BY <2>1, <2>3 DEF Expire, CancelExpire
    <3>2. QED
      BY <3>1, <2>1, <2>2, <1>6, DocumentUpdates
  <2>4. CASE Complete(p)
    <3>1. Total(id) = 1
      BY <2>1, <2>4, InvFacts DEF Complete, At, AfterSending
    <3>2. \/ conf[id].status = "executing" /\ SetDoc(id, Settled(conf[id], "executed"))
          \/ UNCHANGED conf
      BY <2>1, <2>4 DEF Complete, CanSettle
    <3>3. QED
      BY <3>1, <3>2, <2>1, <2>2, <1>1, <1>6, DocumentUpdates
  <2>5. CASE Fail(p)
    <3>1. \/ conf[id].status = "executing" /\ SetDoc(id, Settled(conf[id], "failed"))
          \/ UNCHANGED conf
      BY <2>1, <2>5 DEF Fail, CanSettle
    <3>2. QED
      BY <3>1, <2>1, <2>2, <1>1, <1>6, DocumentUpdates
  <2>6. CASE Cancel(p)
    <3>1. conf[id].status = "pending" /\ SetDoc(id, Cancelled(conf[id]))
      BY <2>1, <2>6 DEF Cancel, CanCancel
    <3>2. QED
      BY <3>1, <2>1, <2>2, <1>6, DocumentUpdates
  <2>7. QED
    BY <1>7, <2>3, <2>4, <2>5, <2>6
<1>8. ASSUME NEW id \in Ids, Purge(id)
      PROVE  OneOrderMoves \/ \A i \in Ids : OrderStays(i)
  <2>1. conf[id] \in Documents
    BY InvFacts
  <2>2. conf[id].status # "absent" /\ SetDoc(id, Purged(conf[id])) /\ UNCHANGED <<claim, sent>>
    BY <1>8 DEF Purge, Purgeable, Present
  <2>3. QED
    BY <2>1, <2>2, <1>6, DocumentUpdates
<1>9. CASE Tick
  BY <1>9, InvFacts, DocumentUpdates DEF Tick, OrderStays
<1>10. ASSUME NEW p \in Procs, Prepare(p)
       PROVE  OneOrderMoves \/ \A id \in Ids : OrderStays(id)
  BY <1>1, <1>3, <1>10 DEF Prepare, PutIntent, AuditPrepare
<1>11. ASSUME NEW p \in Procs, Confirm(p)
       PROVE  OneOrderMoves \/ \A id \in Ids : OrderStays(id)
  BY <1>1, <1>4, <1>5, <1>7, <1>11
     DEF Confirm, BeginConfirm, Begin, TakeMissed, Lookup, MarkExecuting, MarkExecuted, MarkFailed
<1>12. ASSUME NEW p \in Procs, Withdraw(p)
       PROVE  OneOrderMoves \/ \A id \in Ids : OrderStays(id)
  BY <1>1, <1>7, <1>12
     DEF Withdraw, BeginCancel, Begin, CancelMissed, CancelLookup, MarkCancelled, MarkIntentExpired
<1>13. QED
  BY <1>1, <1>8, <1>9, <1>10, <1>11, <1>12 DEF Next, Abort, vars

\* A settled or purged confirmation never changes again, except by being purged.
THEOREM SettledForGood == Spec => SettledIsFinal
<1>1. ASSUME IInv, [Next]_vars
      PROVE  [\A id \in Ids :
                conf[id].status \in Settlement \cup {"purged"} =>
                  conf'[id].status \in {conf[id].status, "purged"}]_vars
  BY <1>1, OrderMovesOrStays
     DEF OneOrderMoves, OrderMoves, OrderStays, Staged, TakenNow, SentNow, DocumentMoves, Settlement
<1>2. QED
  BY <1>1, Invariance, PTL DEF SettledIsFinal, Spec
-----------------------------------------------------------------------------
\* An order that does not move keeps its phase, ...
LEMMA PhaseStays ==
  ASSUME NEW id \in Ids, OrderStays(id)
  PROVE  PhaseOf(id)' = PhaseOf(id)
BY DEF OrderStays, PhaseOf, Total

\* ... and one that moves takes one of the promised moves.
LEMMA PhaseMoves ==
  ASSUME IInv, NEW id \in Ids, OrderMoves(id)
  PROVE  \/ PhaseOf(id)' = PhaseOf(id)
         \/ PhaseOf(id) = "none" /\ PhaseOf(id)' = "offered"
         \/ PhaseOf(id) = "offered" /\ PhaseOf(id)' = "claimed"
         \/ PhaseOf(id) = "claimed" /\ PhaseOf(id)' = "filled"
         \/ PhaseOf(id) = "offered" /\ PhaseOf(id)' = "withdrawn"
<1>1. /\ conf[id].status \in {"absent", "pending", "cancelled", "expired"} => claim[id] = "none"
      /\ conf[id].status \in {"executing", "executed", "failed"} => claim[id] # "none"
      /\ claim[id] = "none" => Total(id) = 0
      /\ Total(id) \in {0, 1} /\ conf[id].status \in ConfirmationStatus
  BY DEF IInv, ClaimsConsistent, TypeOK, Documents
<1>2. CASE Staged(id) /\ claim'[id] = claim[id] /\ sent'[id] = sent[id]
  BY <1>1, <1>2 DEF Staged, PhaseOf, Total
<1>3. CASE TakenNow(id)
  BY <1>1, <1>3 DEF TakenNow, PhaseOf, Total
<1>4. CASE SentNow(id)
  BY <1>1, <1>4 DEF SentNow, PhaseOf
<1>5. CASE DocumentMoves(id) /\ claim'[id] = claim[id] /\ sent'[id] = sent[id]
  BY <1>1, <1>5 DEF DocumentMoves, ConfirmationStatus, PhaseOf, Total
<1>6. QED
  BY <1>2, <1>3, <1>4, <1>5 DEF OrderMoves

\* The service implements OneShotOrder: every step is one promised move of one order,
\* or none.
THEOREM Refinement == Spec => IsOneShotOrder
<1>1. Init => Order!Init
  BY DEF Init, Order!Init, PhaseOf, Total, Accounts
<1>2. ASSUME IInv, [Next]_vars
      PROVE  [Order!Next]_([id \in Ids |-> PhaseOf(id)])
  <2> DEFINE phase == [id \in Ids |-> PhaseOf(id)]
  <2>1. CASE \A id \in Ids : OrderStays(id)
    BY <2>1, PhaseStays
  <2>2. CASE OneOrderMoves
    <3>1. PICK id \in Ids : OrderMoves(id) /\ \A i \in Ids : i # id => OrderStays(i)
      BY <2>2 DEF OneOrderMoves
    <3>2. \A i \in Ids : i # id => PhaseOf(i)' = PhaseOf(i)
      BY <3>1, PhaseStays
    <3>3. PICK to : to = PhaseOf(id)'
      OBVIOUS
    <3>4. phase' = [phase EXCEPT ![id] = to] /\ phase[id] = PhaseOf(id)
      BY <3>2, <3>3
    <3>5. CASE to = PhaseOf(id)
      BY <3>4, <3>5
    <3>6. CASE to # PhaseOf(id)
      <4>1. \/ phase[id] = "none" /\ to = "offered"
            \/ phase[id] = "offered" /\ to = "claimed"
            \/ phase[id] = "claimed" /\ to = "filled"
            \/ phase[id] = "offered" /\ to = "withdrawn"
        BY <3>1, <3>3, <3>4, <3>6, <1>2, PhaseMoves
      <4>2. QED
        BY <4>1, <3>4
           DEF Order!Next, Order!Offer, Order!Claim, Order!Fill, Order!Withdraw, Order!Move
    <3>7. QED
      BY <3>5, <3>6
  <2>3. QED
    BY <1>2, <2>1, <2>2, OrderMovesOrStays
<1>3. QED
  BY <1>1, <1>2, Invariance, PTL DEF Spec, IsOneShotOrder, Order!Spec
=============================================================================
