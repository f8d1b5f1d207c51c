----------------------------- MODULE BinanceOpen -----------------------------
(***************************************************************************)
(* Opening a position on Binance (Executor.executeOpen and makerFirstEntry,  *)
(* internal/exchange/binance/executor.go): a post-only limit order that is   *)
(* polled for a bounded time, the market order for what it left unfilled,    *)
(* the stop loss, the take profit, and the rollback when one of those fails. *)
(*                                                                         *)
(* Every step of the executor is one signed request.  It is answered,        *)
(* refused, or its answer is lost, and then the exchange may have done it or *)
(* not; once the caller's context is done it is not even sent.  Between two  *)
(* requests the exchange goes on: the limit fills, a stop triggers.          *)
(* Amounts are in units of the symbol's step size.                          *)
(***************************************************************************)
EXTENDS Integers, FiniteSets

CONSTANTS
  Quantity,       \* what openQuantity computed
  Held,           \* bound: the position the account may already have
  MaxRefused,     \* bound: requests the exchange refuses although it could do them
  MaxLost,        \* bound: requests whose answer is lost
  MaxInterrupts   \* bound: the caller's context done, the process killed

ASSUME OpenAssumption ==
  /\ Quantity \in Nat \ {0} /\ Held \in Nat
  /\ MaxRefused \in Nat /\ MaxLost \in Nat /\ MaxInterrupts \in Nat

VARIABLES
  \* the account
  limit,      \* the entry order: [status, executed]
  position,   \* the size of the position
  stop,       \* the stop loss order of this open is live
  target,     \* the take profit order is live
  \* the executor
  pc,         \* the request that comes next
  seen,       \* the executed quantity the executor goes by (`limit` in the code)
  amount,     \* the position flattenPosition read
  timeUp,     \* the maker wait has run out
  ctx,        \* the caller's context: "live" or "done"
  answer,     \* what executeOpen returned
  \* history
  entered,    \* filled by this open, all orders together
  failed,     \* the requests that were refused or lost
  refused, lost, interrupts   \* counted against their bounds

account  == <<limit, position, stop, target, entered>>
executor == <<seen, amount, timeUp, answer>>
faults   == <<failed, refused, lost>>
vars == <<account, pc, executor, ctx, faults, interrupts>>
-----------------------------------------------------------------------------
EntrySteps    == {"prepare", "limit", "poll", "wait", "cancelPoll", "cancelCtx", "cancelRest", "market"}
ProtectSteps  == {"stop", "target"}
RollbackSteps == {"rbStop", "rbEntry", "rbRead", "rbFlatten"}
Ended         == {"returned", "killed"}
Steps == EntrySteps \cup ProtectSteps \cup RollbackSteps \cup Ended

Orders == [status : {"none", "open", "filled", "ended"}, executed : 0..Quantity]

TypeOK ==
  /\ limit \in Orders
  /\ position \in Nat /\ entered \in Nat
  /\ stop \in BOOLEAN /\ target \in BOOLEAN
  /\ pc \in Steps
  /\ seen \in 0..Quantity /\ amount \in Nat
  /\ timeUp \in BOOLEAN /\ ctx \in {"live", "done"}
  /\ answer \in {"none", "success", "failure"}
  /\ failed \in SUBSET Steps
  /\ refused \in Nat /\ lost \in Nat /\ interrupts \in Nat

Init ==
  /\ limit = [status |-> "none", executed |-> 0]
  /\ position \in 0..Held
  /\ stop = FALSE /\ target = FALSE
  /\ pc = "prepare" /\ seen = 0 /\ amount = 0
  /\ timeUp = FALSE /\ ctx = "live" /\ answer = "none"
  /\ entered = 0 /\ failed = {}
  /\ refused = 0 /\ lost = 0 /\ interrupts = 0
-----------------------------------------------------------------------------
(* The fate of the request at pc (Executor.do): any status of 400 or more is an *)
(* apiError, everything else that goes wrong is a transport error.            *)

Answered == ctx = "live" /\ UNCHANGED faults

Refuse ==
  /\ ctx = "live" /\ refused < MaxRefused
  /\ refused' = refused + 1 /\ failed' = failed \cup {pc} /\ UNCHANGED lost

Lose ==
  /\ ctx = "live" /\ lost < MaxLost
  /\ lost' = lost + 1 /\ failed' = failed \cup {pc} /\ UNCHANGED refused

NotSent ==
  /\ ctx = "done"
  /\ failed' = failed \cup {pc} /\ UNCHANGED <<refused, lost>>

\* The request failed; the exchange did it only if the answer was lost.
Undone == Refuse \/ Lose \/ NotSent

Return(a) == pc' = "returned" /\ answer' = a
Goto(s)   == pc' = s /\ UNCHANGED answer

Enter(n) == position' = position + n /\ entered' = entered + n

LimitOpen  == limit.status = "open"
LimitEnded == [limit EXCEPT !.status = "ended"]
-----------------------------------------------------------------------------
(* Before the entry: filters, rounding, margin type and leverage.  Nothing is   *)
(* placed yet, so a failure has nothing to undo.                             *)
Prepare ==
  /\ pc = "prepare"
  /\ \/ Answered /\ Goto("limit")
     \/ Undone /\ Return("failure")
  /\ UNCHANGED <<account, seen, amount, timeUp, ctx, interrupts>>

\* Seeded fault: a lost answer is taken for a refusal.
AfterLostLimitAsRefused == Goto("market")

\* A transport failure is ambiguous: give up, never add a market order.
AfterLostLimit == Return("failure")

\* newOrder(LIMIT, GTX); an apiError sends the whole quantity to the market.
PlaceLimit ==
  /\ pc = "limit"
  /\ LET Placed == limit' = [status |-> "open", executed |-> 0] IN
     \/ Answered /\ Placed /\ Goto("poll")
     \/ Refuse /\ UNCHANGED limit /\ Goto("market")
     \/ Lose /\ (Placed \/ UNCHANGED limit) /\ AfterLostLimit
     \/ NotSent /\ UNCHANGED limit /\ AfterLostLimit
  /\ UNCHANGED <<position, stop, target, entered, seen, amount, timeUp, ctx, interrupts>>

\* Seeded fault: the deadline is computed again on every round.
WaitOverNever == FALSE
WaitOver == timeUp

\* queryOrder: filled, time up, or wait 200 ms; an error cancels and gives up.
Poll ==
  /\ pc = "poll"
  /\ \/ /\ Answered
        /\ seen' = limit.executed
        /\ Goto(IF limit.status = "filled" THEN "stop"
                ELSE IF WaitOver THEN "cancelRest" ELSE "wait")
     \/ Undone /\ Goto("cancelPoll") /\ UNCHANGED seen
  /\ UNCHANGED <<account, amount, timeUp, ctx, interrupts>>

\* Seeded fault: the entry is left resting when the caller goes away.
AfterDoneResting == Return("failure")
AfterDone == Goto("cancelCtx")

\* The select between ctx.Done and the poll interval.
Wait ==
  /\ pc = "wait"
  /\ \/ ctx = "done" /\ AfterDone
     \/ Goto("poll")
  /\ UNCHANGED <<account, seen, amount, timeUp, ctx, faults, interrupts>>

\* After a failed query: cancel on the same context, whatever comes of it.
CancelAfterPoll ==
  /\ pc = "cancelPoll"
  /\ \/ Answered /\ limit' = (IF LimitOpen THEN LimitEnded ELSE limit)
     \/ Undone /\ UNCHANGED limit
     \/ Lose /\ LimitOpen /\ limit' = LimitEnded
  /\ Return("failure")
  /\ UNCHANGED <<position, stop, target, entered, seen, amount, timeUp, ctx, interrupts>>

\* After ctx.Done: cancel on a context of its own.
CancelAfterDone ==
  /\ pc = "cancelCtx"
  /\ \/ UNCHANGED faults /\ limit' = (IF LimitOpen THEN LimitEnded ELSE limit)
     \/ /\ refused < MaxRefused /\ refused' = refused + 1 /\ UNCHANGED <<lost, limit>>
        /\ failed' = failed \cup {pc}
     \/ /\ lost < MaxLost /\ lost' = lost + 1 /\ UNCHANGED refused
        /\ limit' \in {limit, IF LimitOpen THEN LimitEnded ELSE limit}
        /\ failed' = failed \cup {pc}
  /\ Return("failure")
  /\ UNCHANGED <<position, stop, target, entered, seen, amount, timeUp, ctx, interrupts>>

\* Seeded fault: go by the last poll although the cancel answered.
ExecutedByPoll(polled, cancelled) == polled

\* The cancel response is authoritative for fills racing the last poll.
Executed(polled, cancelled) == cancelled

\* cancelOrderStatus when the maker wait is over.  The exchange has nothing to
\* cancel once the order filled or ended, and says so with an error.
CancelRest ==
  /\ pc = "cancelRest"
  /\ \/ /\ Answered /\ LimitOpen
        /\ limit' = LimitEnded /\ seen' = Executed(seen, limit.executed)
        /\ Goto("market")
     \/ /\ Answered /\ ~LimitOpen
        /\ UNCHANGED <<limit, seen>> /\ Return("failure")
     \/ Undone /\ UNCHANGED <<limit, seen>> /\ Return("failure")
     \/ Lose /\ LimitOpen /\ limit' = LimitEnded /\ UNCHANGED seen /\ Return("failure")
  /\ UNCHANGED <<position, stop, target, entered, amount, timeUp, ctx, interrupts>>

\* newOrder(MARKET) for the remainder; it fills at once.
PlaceMarket ==
  /\ pc = "market"
  /\ \/ Answered /\ Enter(Quantity - seen) /\ Goto("stop")
     \/ Undone /\ UNCHANGED <<position, entered>> /\ Return("failure")
     \/ Lose /\ Enter(Quantity - seen) /\ Return("failure")
  /\ UNCHANGED <<limit, stop, target, seen, amount, timeUp, ctx, interrupts>>
-----------------------------------------------------------------------------
(* Protection: the two conditional orders, each closing the whole position.      *)

\* Seeded fault: the rollback is forgotten.
AfterLostStopKept == Return("failure")
AfterLostStop == Goto("rbEntry")

PlaceStop ==
  /\ pc = "stop"
  /\ \/ Answered /\ stop' = TRUE /\ Goto("target")
     \/ Undone /\ UNCHANGED stop /\ AfterLostStop
     \/ Lose /\ stop' = TRUE /\ AfterLostStop
  /\ UNCHANGED <<limit, position, target, entered, seen, amount, timeUp, ctx, interrupts>>

\* Seeded faults: a take profit that fails is only logged; its rollback takes the
\* path of a failed stop, which has none to cancel.
AfterLostTargetLogged == Return("success")
AfterLostTargetAsStop == Goto("rbEntry")
AfterLostTarget == Goto("rbStop")

PlaceTarget ==
  /\ pc = "target"
  /\ \/ Answered /\ target' = TRUE /\ Return("success")
     \/ Undone /\ UNCHANGED target /\ AfterLostTarget
     \/ Lose /\ target' = TRUE /\ AfterLostTarget
  /\ UNCHANGED <<limit, position, stop, entered, seen, amount, timeUp, ctx, interrupts>>
-----------------------------------------------------------------------------
(* rollbackOpen: every request is tried, on the caller's context, and what fails *)
(* is logged.                                                                *)

RollbackStop ==
  /\ pc = "rbStop"
  /\ \/ Answered /\ stop' = FALSE
     \/ Undone /\ UNCHANGED stop
     \/ Lose /\ stop' = FALSE
  /\ Goto("rbEntry")
  /\ UNCHANGED <<limit, position, target, entered, seen, amount, timeUp, ctx, interrupts>>

RollbackEntry ==
  /\ pc = "rbEntry"
  /\ \/ Answered /\ limit' = (IF LimitOpen THEN LimitEnded ELSE limit)
     \/ Undone /\ UNCHANGED limit
     \/ Lose /\ LimitOpen /\ limit' = LimitEnded
  /\ Goto("rbRead")
  /\ UNCHANGED <<position, stop, target, entered, seen, amount, timeUp, ctx, interrupts>>

\* flattenPosition: positionRisk and, when the cache has expired, the filters.
RollbackRead ==
  /\ pc = "rbRead"
  /\ \/ /\ Answered /\ amount' = position
        /\ IF position = 0 THEN Return("failure") ELSE Goto("rbFlatten")
     \/ Undone /\ UNCHANGED amount /\ Return("failure")
  /\ UNCHANGED <<account, seen, timeUp, ctx, interrupts>>

\* Seeded fault: flatten what the limit filled, not what the account holds.
ToFlattenOfLimit(read, polled) == polled
ToFlatten(read, polled) == read

\* Seeded fault: the order is not reduce-only.
FlattenedPastZero == position - ToFlatten(amount, seen)

\* A reduce-only market order closes at most what is there.
Flattened ==
  LET n == ToFlatten(amount, seen) IN IF n >= position THEN 0 ELSE position - n

RollbackFlatten ==
  /\ pc = "rbFlatten"
  /\ \/ Answered /\ position' = Flattened
     \/ Undone /\ UNCHANGED position
     \/ Lose /\ position' = Flattened
  /\ Return("failure")
  /\ UNCHANGED <<limit, stop, target, entered, seen, amount, timeUp, ctx, interrupts>>
-----------------------------------------------------------------------------
(* Time, the caller, and the exchange.                                        *)

\* MakerEntryTimeout runs out; looked at after the next poll.
DeadlinePasses ==
  /\ pc \in {"poll", "wait"} /\ ~timeUp
  /\ timeUp' = TRUE
  /\ UNCHANGED <<account, pc, seen, amount, answer, ctx, faults, interrupts>>

\* The HTTP client hangs up, or the 30 s of an armed check run out.
CallerGone ==
  /\ ctx = "live" /\ pc \notin Ended /\ interrupts < MaxInterrupts
  /\ ctx' = "done" /\ interrupts' = interrupts + 1
  /\ UNCHANGED <<account, pc, executor, faults>>

Killed ==
  /\ pc \notin Ended /\ interrupts < MaxInterrupts
  /\ pc' = "killed" /\ interrupts' = interrupts + 1
  /\ UNCHANGED <<account, executor, ctx, faults>>

\* The resting limit fills, in part or whole.
Fill ==
  /\ LimitOpen
  /\ \E n \in 1..(Quantity - limit.executed) :
       /\ Enter(n)
       /\ limit' = [executed |-> limit.executed + n,
                    status |-> IF limit.executed + n = Quantity THEN "filled" ELSE "open"]
  /\ UNCHANGED <<stop, target, pc, executor, ctx, faults, interrupts>>

\* A post-only order that would match at once ends unfilled.
Expire ==
  /\ LimitOpen /\ limit.executed = 0
  /\ limit' = LimitEnded
  /\ UNCHANGED <<position, stop, target, entered, pc, executor, ctx, faults, interrupts>>

\* The mark price reaches the stop or the target: the whole position is closed.
StopHit ==
  /\ stop /\ position > 0
  /\ stop' = FALSE /\ position' = 0
  /\ UNCHANGED <<limit, target, entered, pc, executor, ctx, faults, interrupts>>

TargetHit ==
  /\ target /\ position > 0
  /\ target' = FALSE /\ position' = 0
  /\ UNCHANGED <<limit, stop, entered, pc, executor, ctx, faults, interrupts>>
-----------------------------------------------------------------------------
Execute ==
  \/ Prepare \/ PlaceLimit \/ Poll \/ Wait \/ CancelAfterPoll \/ CancelAfterDone
  \/ CancelRest \/ PlaceMarket \/ PlaceStop \/ PlaceTarget
  \/ RollbackStop \/ RollbackEntry \/ RollbackRead \/ RollbackFlatten

Exchange == Fill \/ Expire \/ StopHit \/ TargetHit

Next == Execute \/ DeadlinePasses \/ CallerGone \/ Killed \/ Exchange

\* Every request ends by RequestTimeout, and the maker wait does run out.
Fairness == WF_vars(Execute) /\ WF_vars(DeadlinePasses)

Spec == Init /\ [][Next]_vars /\ Fairness
-----------------------------------------------------------------------------
(* Properties.                                                              *)

\* However the limit fills, is cancelled, or its answers are lost, the limit and the
\* market order together never buy more than the plan's quantity (makerFirstEntry).
NeverOverfilled == entered <= Quantity

\* Once executeOpen has reported success, the whole quantity was filled, nothing of
\* the entry still rests on the book, and for as long as there is a position both its
\* stop loss and its take profit are live.
SuccessIsCovered ==
  answer = "success" =>
    entered = Quantity /\ ~LimitOpen /\ (position > 0 => stop /\ target)

\* If nothing but the placing of stop and target and the cancels of the rollback went
\* wrong, a failed open leaves no position and no entry order (rollbackOpen flattens
\* what the account holds, whichever order filled it and whoever opened it).
RollbackFlattens ==
  answer = "failure" /\ failed # {} /\ failed \subseteq ProtectSteps \cup {"rbStop", "rbEntry"}
    => position = 0 /\ ~LimitOpen

\* A failed open leaves a stop or target behind, which would close a later position
\* of the symbol, only if an answer was lost or the rollback could not cancel it.
OrphanNeedsLostAnswer ==
  answer = "failure" /\ (stop \/ target) => lost > 0 \/ "rbStop" \in failed

\* What a failed open leaves at the exchange is accounted for by the requests that
\* failed (rollbackOpen).
FailureIsAccountedFor == RollbackFlattens /\ OrphanNeedsLostAnswer

\* After executeOpen has returned, its entry goes on filling only if the answer to
\* the limit or to a cancel of it was not had: in all other ways out, the polling loop
\* ended the order first.
LateFillNeedsLostCall ==
  [][answer # "none" /\ failed \cap {"limit", "cancelPoll", "cancelCtx", "cancelRest"} = {}
       => entered' = entered]_vars

\* An unfilled entry does not leave a mission hanging: the executor comes to an end.
ExecuteEnds == <>(pc \in Ended)

\* A failed open never leaves what it filled without a stop (the comments of
\* makerFirstEntry and flattenPosition).  VIOLATED: when the limit fills between the
\* last poll and the cancel, the cancel fails, and that error returns without rollback.
FailedOpenIsNotExposed ==
  answer = "failure" => entered = 0 \/ position = 0 \/ stop
=============================================================================
