---------------------------- MODULE Confirmations ----------------------------
(***************************************************************************)
(* The order service (internal/orders/service.go) over the MongoDB stores:  *)
(* Prepare, Confirm, ConfirmWithRequiredUserExecutor and Cancel, called by   *)
(* any number of concurrent requests (`Procs`: HTTP handlers of several API *)
(* instances, the Telegram poller, the mission watchers).  A call is a      *)
(* sequence of database and exchange operations, one action each; between   *)
(* two of them the other calls run, time passes, the TTL index purges, and  *)
(* the process that runs the call may die.                                 *)
(***************************************************************************)
EXTENDS ConfirmationStore

CONSTANTS
  Ids,      \* confirmation ids (128 random bits in the code: never drawn twice)
  Procs     \* calls in flight

VARIABLES
  conf,     \* conf[id]: the document in `confirmations`
  intent,   \* intent[id]: the status in `order_intents`
  call,     \* call[p]: what the request p is doing
  claim,    \* claim[id]: by which kind of Confirm the document was taken (history)
  sent,     \* sent[id][a]: orders for id the exchange accepted on account a (history)
  told      \* told[id]: the outcomes callers were given for id (history)

vars == <<conf, intent, call, claim, sent, told>>
-----------------------------------------------------------------------------
Steps ==
  {"idle", "putConf", "auditPrepare",
   "take", "lookup", "expire", "markExecuting", "execute", "complete", "markExecuted",
   "fail", "markFailed",
   "cancel", "cancelLookup", "cancelExpire", "markCancelled", "markIntentExpired"}

\* `live`: the clock the call read was before expires_at; `strict`:
\* requireUserExecutor.
Calls == [step : Steps, id : Ids, user : Users, live : BOOLEAN, strict : BOOLEAN]

IntentStatus ==
  {"none", "awaiting_confirmation", "executing", "executed", "failed", "cancelled",
   "expired"}

Accounts == {"own", "shared"}       \* the user's key, the platform's default key
Claims   == {"none", "strict", "fallback"}
Outcomes == {"prepared", "executed", "cancelled"}

TypeOK ==
  /\ conf \in [Ids -> Documents]
  /\ intent \in [Ids -> IntentStatus]
  /\ call \in [Procs -> Calls]
  /\ claim \in [Ids -> Claims]
  /\ sent \in [Ids -> [Accounts -> Nat]]
  /\ told \in [Ids -> SUBSET Outcomes]

Init ==
  /\ \E u \in Users : conf = [id \in Ids |-> [status |-> "absent", ttl |-> 0, user |-> u]]
  /\ intent = [id \in Ids |-> "none"]
  /\ \E id \in Ids, u \in Users :
       call = [p \in Procs |->
                 [step |-> "idle", id |-> id, user |-> u, live |-> FALSE, strict |-> FALSE]]
  /\ claim = [id \in Ids |-> "none"]
  /\ sent = [id \in Ids |-> [a \in Accounts |-> 0]]
  /\ told = [id \in Ids |-> {}]
-----------------------------------------------------------------------------
At(p, s) == call[p].step = s
Id(p)    == call[p].id
Doc(p)   == conf[Id(p)]

Goto(p, s)   == call' = [call EXCEPT ![p].step = s]
Return(p)    == call' = [call EXCEPT ![p] = [@ EXCEPT !.step = "idle", !.live = FALSE,
                                                     !.strict = FALSE]]
Reply(id, o) == told' = [told EXCEPT ![id] = @ \cup {o}]
SetDoc(id, doc) == conf' = [conf EXCEPT ![id] = doc]

\* A write whose error the code only logs: it happened, or it did not.
TryIntent(id, status) ==
  \/ intent' = [intent EXCEPT ![id] = status]
  \/ UNCHANGED intent

\* prepare: the intent record first; on an error nothing was staged.
PutIntent(p, id, u) ==
  /\ At(p, "idle")
  /\ intent[id] = "none"
  /\ intent' = [intent EXCEPT ![id] = "awaiting_confirmation"]
  /\ call' = [call EXCEPT ![p] = [@ EXCEPT !.step = "putConf", !.id = id, !.user = u]]
  /\ UNCHANGED <<conf, claim, sent, told>>

\* then the confirmation, whose expiry counts from the clock read before the
\* first write; on an error the intent record stays behind.
PutConf(p) ==
  /\ At(p, "putConf")
  /\ \/ /\ \E left \in 0..TTL : SetDoc(Id(p), PendingDoc(call[p].user, left))
        /\ Goto(p, "auditPrepare")
     \/ Return(p) /\ UNCHANGED conf
  /\ UNCHANGED <<intent, claim, sent, told>>

\* then the audit event: if it fails the caller gets an error, and no id, for a
\* confirmation that is stored and pending.
AuditPrepare(p) ==
  /\ At(p, "auditPrepare")
  /\ Reply(Id(p), "prepared") \/ UNCHANGED told
  /\ Return(p)
  /\ UNCHANGED <<conf, intent, claim, sent>>
-----------------------------------------------------------------------------
\* A caller that was given the id (whoever it is now) calls Confirm or Cancel: the
\* service reads its clock.
Begin(p, id, u, s, strict) ==
  /\ At(p, "idle")
  /\ "prepared" \in told[id]
  /\ call' = [call EXCEPT ![p] = [step |-> s, id |-> id, user |-> u,
                                  live |-> conf[id].ttl > 0, strict |-> strict]]
  /\ UNCHANGED <<conf, intent, claim, sent, told>>

BeginConfirm(p, id, u, strict) == Begin(p, id, u, "take", strict)
BeginCancel(p, id, u)          == Begin(p, id, u, "cancel", FALSE)

\* TakeForExecution, first half: FindOneAndUpdate.  The reply may be lost after the
\* update was applied: the caller then sees an error and stops.
Take(p) ==
  /\ At(p, "take")
  /\ CanTake(Doc(p), call[p].user, call[p].live)
  /\ SetDoc(Id(p), Taken(Doc(p)))
  /\ claim' = [claim EXCEPT ![Id(p)] = IF call[p].strict THEN "strict" ELSE "fallback"]
  /\ Goto(p, "markExecuting") \/ Return(p)
  /\ UNCHANGED <<intent, sent, told>>

TakeMissed(p) ==
  /\ At(p, "take")
  /\ ~CanTake(Doc(p), call[p].user, call[p].live)
  /\ Goto(p, "lookup")
  /\ UNCHANGED <<conf, intent, claim, sent, told>>

\* TakeForExecution, second half: a separate read says why.  Only an executed
\* document returns a result.
Lookup(p) ==
  /\ At(p, "lookup")
  /\ LET r == Reading(Doc(p), call[p].user, call[p].live)
     IN /\ IF r = "executed" THEN Reply(Id(p), "executed") ELSE UNCHANGED told
        /\ IF r = "lapsed" THEN Goto(p, "expire") ELSE Return(p)
  /\ UNCHANGED <<conf, intent, claim, sent>>

\* markExpired: best effort, and only if the document is still pending.
Expire(p) ==
  /\ At(p, "expire")
  /\ SetDoc(Id(p), MarkedExpired(Doc(p))) \/ UNCHANGED conf
  /\ Return(p)
  /\ UNCHANGED <<intent, claim, sent, told>>

MarkExecuting(p) ==
  /\ At(p, "markExecuting")
  /\ TryIntent(Id(p), "executing")
  /\ Goto(p, "execute")
  /\ UNCHANGED <<conf, claim, sent, told>>

\* Seeded fault: the strict path resolves its executor like the other one.
AccountsWithFallback(strict) == Accounts

\* The account an order goes to: strict calls use the user's own executor or fail,
\* the others fall back to the default one when the lookup finds none or errs.
AccountsFor(strict) == IF strict THEN {"own"} ELSE Accounts

\* The executor places the order, or fails with nothing placed, or fails although
\* the exchange accepted it (a lost reply, a failed later leg).
Execute(p) ==
  /\ At(p, "execute")
  /\ \/ \E a \in AccountsFor(call[p].strict) :
          /\ sent' = [sent EXCEPT ![Id(p)][a] = @ + 1]
          /\ Goto(p, "complete") \/ Goto(p, "fail")
     \/ Goto(p, "fail") /\ UNCHANGED sent
  /\ UNCHANGED <<conf, intent, claim, told>>

\* Complete: an error (applied or not), or a document that is no longer executing,
\* is returned to the caller although the order was placed.
Complete(p) ==
  /\ At(p, "complete")
  /\ \/ /\ CanSettle(Doc(p))
        /\ SetDoc(Id(p), Settled(Doc(p), "executed"))
        /\ Goto(p, "markExecuted") \/ Return(p)
     \/ Return(p) /\ UNCHANGED conf
  /\ UNCHANGED <<intent, claim, sent, told>>

MarkExecuted(p) ==
  /\ At(p, "markExecuted")
  /\ TryIntent(Id(p), "executed")
  /\ Reply(Id(p), "executed")
  /\ Return(p)
  /\ UNCHANGED <<conf, claim, sent>>

\* failExecutingConfirmation: the error of store.Fail is dropped.
Fail(p) ==
  /\ At(p, "fail")
  /\ \/ CanSettle(Doc(p)) /\ SetDoc(Id(p), Settled(Doc(p), "failed"))
     \/ UNCHANGED conf
  /\ Goto(p, "markFailed")
  /\ UNCHANGED <<intent, claim, sent, told>>

MarkFailed(p) ==
  /\ At(p, "markFailed")
  /\ TryIntent(Id(p), "failed")
  /\ Return(p)
  /\ UNCHANGED <<conf, claim, sent, told>>
-----------------------------------------------------------------------------
\* store.Cancel, first half: UpdateOne; an error may hide that it was applied.
Cancel(p) ==
  /\ At(p, "cancel")
  /\ CanCancel(Doc(p), call[p].user, call[p].live)
  /\ SetDoc(Id(p), Cancelled(Doc(p)))
  /\ Goto(p, "markCancelled") \/ Return(p)
  /\ UNCHANGED <<intent, claim, sent, told>>

CancelMissed(p) ==
  /\ At(p, "cancel")
  /\ ~CanCancel(Doc(p), call[p].user, call[p].live)
  /\ Goto(p, "cancelLookup")
  /\ UNCHANGED <<conf, intent, claim, sent, told>>

\* store.Cancel, second half: a cancelled document is success again, a lapsed or
\* expired one also updates the intent record, the rest is an error.
CancelLookup(p) ==
  /\ At(p, "cancelLookup")
  /\ LET r == Reading(Doc(p), call[p].user, call[p].live)
     IN Goto(p, CASE r = "cancelled" -> "markCancelled"
                  [] r = "lapsed"    -> "cancelExpire"
                  [] r = "expired"   -> "markIntentExpired"
                  [] OTHER           -> "idle")
  /\ UNCHANGED <<conf, intent, claim, sent, told>>

CancelExpire(p) ==
  /\ At(p, "cancelExpire")
  /\ SetDoc(Id(p), MarkedExpired(Doc(p))) \/ UNCHANGED conf
  /\ Goto(p, "markIntentExpired")
  /\ UNCHANGED <<intent, claim, sent, told>>

MarkCancelled(p) ==
  /\ At(p, "markCancelled")
  /\ TryIntent(Id(p), "cancelled")
  /\ Reply(Id(p), "cancelled")
  /\ Return(p)
  /\ UNCHANGED <<conf, claim, sent>>

MarkIntentExpired(p) ==
  /\ At(p, "markIntentExpired")
  /\ TryIntent(Id(p), "expired")
  /\ Return(p)
  /\ UNCHANGED <<conf, claim, sent, told>>
-----------------------------------------------------------------------------
\* A database or network error before the operation took effect, or the death of the
\* process: the call is gone, its effects so far stay.
Abort(p) ==
  /\ ~At(p, "idle")
  /\ Return(p)
  /\ UNCHANGED <<conf, intent, claim, sent, told>>

Tick ==
  /\ \E id \in Ids : conf[id].ttl > 0
  /\ conf' = [id \in Ids |-> Older(conf[id])]
  /\ UNCHANGED <<intent, call, claim, sent, told>>

Purge(id) ==
  /\ Purgeable(conf[id])
  /\ SetDoc(id, Purged(conf[id]))
  /\ UNCHANGED <<intent, call, claim, sent, told>>

Prepare(p) == (\E id \in Ids, u \in Users : PutIntent(p, id, u)) \/ PutConf(p) \/ AuditPrepare(p)

Confirm(p) ==
  \/ \E id \in Ids, u \in Users, strict \in BOOLEAN : BeginConfirm(p, id, u, strict)
  \/ Take(p) \/ TakeMissed(p) \/ Lookup(p) \/ Expire(p)
  \/ MarkExecuting(p) \/ Execute(p) \/ Complete(p) \/ MarkExecuted(p)
  \/ Fail(p) \/ MarkFailed(p)

Withdraw(p) ==
  \/ \E id \in Ids, u \in Users : BeginCancel(p, id, u)
  \/ Cancel(p) \/ CancelMissed(p) \/ CancelLookup(p) \/ CancelExpire(p)
  \/ MarkCancelled(p) \/ MarkIntentExpired(p)

Next ==
  \/ \E p \in Procs : Prepare(p) \/ Confirm(p) \/ Withdraw(p) \/ Abort(p)
  \/ \E id \in Ids : Purge(id)
  \/ Tick

\* Only the passing of time and MongoDB's TTL monitor are sure to happen: a call may
\* always be abandoned by a crash.
Fairness == WF_vars(Tick) /\ \A id \in Ids : WF_vars(Purge(id))

Spec == Init /\ [][Next]_vars /\ Fairness
-----------------------------------------------------------------------------
Total(id) == sent[id]["own"] + sent[id]["shared"]

\* However often an order is confirmed, concurrently, again after a crash or after a
\* lost reply, the exchange gets it at most once (TakeForExecution is the only gate).
AtMostOneOrder == \A id \in Ids : Total(id) <= 1

\* A caller told "Cancelled. No order was sent." is told the truth for good: no call
\* that was already running, and none after, sends the order.
CancelledMeansNoOrder ==
  \A id \in Ids : "cancelled" \in told[id] => Total(id) = 0

\* A caller given an execution result, its own or a stored one replayed to a
\* duplicate confirm, is given it for an order that the exchange has.
ResultMeansOneOrder ==
  \A id \in Ids : "executed" \in told[id] => Total(id) = 1

\* What Confirm and Cancel answer is true for good: one order behind a result, none
\* behind a cancellation, and never two.
AnswersAreTrue == AtMostOneOrder /\ CancelledMeansNoOrder /\ ResultMeansOneOrder

\* An order taken by ConfirmWithRequiredUserExecutor never reaches the shared account.
StrictStaysOnOwnKey ==
  \A id \in Ids : claim[id] = "strict" => sent[id]["shared"] = 0

\* The intent record, written without any condition by whoever comes last, does not
\* contradict the exchange about execution and cancellation.
IntentAgreesWithExchange ==
  \A id \in Ids : /\ intent[id] = "executed" => Total(id) = 1
                  /\ intent[id] = "cancelled" => Total(id) = 0

Settlement == {"executed", "failed", "cancelled", "expired"}

\* A settled confirmation changes only by being purged, and a purged one never
\* comes back, whatever calls were in flight.
SettledIsFinal ==
  [][\A id \in Ids :
       conf[id].status \in Settlement \cup {"purged"} =>
         conf'[id].status \in {conf[id].status, "purged"}]_vars

\* A confirmation left in `executing` by a crash does not stay there for ever: it is
\* settled or purged.
ExecutingEnds ==
  \A id \in Ids : conf[id].status = "executing" ~> conf[id].status # "executing"

\* The service keeps the promise of OneShotOrder.
PhaseOf(id) ==
  IF Total(id) > 0 THEN "filled"
  ELSE IF claim[id] # "none" THEN "claimed"
  ELSE IF conf[id].status = "absent" THEN "none"
  ELSE IF conf[id].status = "pending" THEN "offered"
  ELSE "withdrawn"

Order == INSTANCE OneShotOrder WITH phase <- [id \in Ids |-> PhaseOf(id)]

IsOneShotOrder == Order!Spec
=============================================================================
