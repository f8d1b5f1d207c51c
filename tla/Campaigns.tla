------------------------------ MODULE Campaigns ------------------------------
(***************************************************************************)
(* Autonomous campaigns (internal/campaign, internal/campaignexec): users    *)
(* start and stop them, the manager keeps one running per user, the engine   *)
(* asks, trades and counts until one of its rules ends it, and a trade is    *)
(* placed through the order service and then awaited on the stream of closed *)
(* positions.  The stream watches the shared account only; a user with a key *)
(* of their own trades elsewhere.                                          *)
(*                                                                         *)
(* An engine is a goroutine: it is created by Start and never used again;     *)
(* what it counted, and what is remembered of it, ends with it.               *)
(***************************************************************************)
EXTENDS PositionStream

CONSTANTS
  Users, Engines,
  OwnKey,        \* the users with a key of their own
  NoEngine,      \* no entry in the manager's map
  Target,        \* Goal.TargetProfitUSDT
  MaxDrawdown,   \* Goal.MaxDrawdownUSDT
  MaxTrades,     \* Goal.MaxTrades
  MaxSkips,      \* EngineConfig.MaxConsecutiveSkips
  MaxOpens,      \* bound: trades the advisor asks one campaign for
  MaxRestarts    \* bound: restarts of the worker

ASSUME CampaignAssumption ==
  /\ Users # {} /\ OwnKey \subseteq Users
  /\ Readers = Engines /\ NoEngine \notin Engines
  /\ Target \in Int /\ MaxDrawdown \in Nat /\ MaxTrades \in Nat /\ MaxSkips \in Nat
  /\ MaxOpens \in Nat /\ MaxRestarts \in Nat

VARIABLES
  running,   \* Manager.running: the user's engine, or NoEngine
  eng,       \* eng[g]: the engine's goroutine
  ctx,       \* ctx[g]: the campaign's context, "live" or "done"
  pos,       \* the engines that have a trade in the shared account's position
  restarts,  \* of the worker (bounded)
  \* history
  opens,     \* opens[g]: orders the engine asked the order service to prepare and confirm
  failed,    \* failed[g]: its failed trades, by what failed
  traded,    \* the engines that ever had a trade on the shared account
  stoppedAt, \* stoppedAt[g]: when Stop was first acknowledged: while "confirming" or not
  afterStop  \* afterStop[g]: its trades that reached the exchange after that

market  == <<pos, traded>>
history == <<opens, failed, stoppedAt, afterStop>>
vars == <<stream, running, eng, ctx, market, restarts, history>>
-----------------------------------------------------------------------------
Steps == {"new", "evaluate", "decide", "prepare", "confirm", "subscribe",
          "await", "leaving", "ended"}
Verdicts == {"continue", "target_reached", "max_drawdown", "max_trades"}
Answers  == Verdicts \cup {"none", "cash", "stopped", "error"}
Failures == {"place", "timeout", "stopped"}

\* An engine without a campaign; whose it is is of no account.
Blank(step) == [user |-> CHOOSE u \in Users : TRUE, step |-> step, trades |-> 0, pnl |-> 0,
                skips |-> 0, answer |-> "none"]
NoFailure == [f \in Failures |-> 0]

TypeOK ==
  /\ StreamTypeOK
  /\ running \in [Users -> Engines \cup {NoEngine}]
  /\ eng \in [Engines -> [user : Users, step : Steps, trades : Nat, pnl : Int, skips : Nat,
                          answer : Answers]]
  /\ ctx \in [Engines -> {"live", "done"}]
  /\ pos \in SUBSET Engines /\ traded \in SUBSET Engines
  /\ restarts \in Nat
  /\ opens \in [Engines -> Nat] /\ failed \in [Engines -> [Failures -> Nat]]
  /\ stoppedAt \in [Engines -> {"never", "confirming", "otherwise"}]
  /\ afterStop \in [Engines -> Nat]

Init ==
  /\ StreamInit
  /\ running = [u \in Users |-> NoEngine]
  /\ eng = [g \in Engines |-> Blank("new")]
  /\ ctx = [g \in Engines |-> "live"]
  /\ pos = {} /\ traded = {}
  /\ restarts = 0
  /\ opens = [g \in Engines |-> 0]
  /\ failed = [g \in Engines |-> NoFailure]
  /\ stoppedAt = [g \in Engines |-> "never"] /\ afterStop = [g \in Engines |-> 0]
-----------------------------------------------------------------------------
At(g, s)   == eng[g].step = s
Goto(g, s) == eng' = [eng EXCEPT ![g].step = s]
Alive(g)   == eng[g].step \notin {"new", "ended"}

\* Manager.Start, under its mutex; the safety gates let it pass.
Start(u) ==
  /\ running[u] = NoEngine
  /\ \E g \in Engines : At(g, "new")
  /\ LET g == CHOOSE e \in Engines : At(e, "new") IN
       /\ running' = [running EXCEPT ![u] = g]
       /\ eng' = [eng EXCEPT ![g].user = u, ![g].step = "evaluate"]
  /\ UNCHANGED <<stream, ctx, market, restarts, history>>

\* Seeded fault: Stop takes the engine off the map, although it is still running.
AfterStopForgotten(u) == running' = [running EXCEPT ![u] = NoEngine]
AfterStop(u) == UNCHANGED running

\* Manager.Stop, under the same mutex; it may be repeated.
Stop(u) ==
  /\ running[u] # NoEngine
  /\ LET g == running[u] IN
       /\ ctx' = [ctx EXCEPT ![g] = "done"]
       /\ stoppedAt' = [stoppedAt EXCEPT ![g] =
                           IF @ # "never" THEN @ ELSE IF At(g, "confirm") THEN "confirming" ELSE "otherwise"]
  /\ AfterStop(u)
  /\ UNCHANGED <<stream, eng, market, restarts, opens, failed, afterStop>>

\* Engine.Run returns; Manager.run tells the user.
Finish(g, answer) == eng' = [eng EXCEPT ![g].step = "leaving", ![g].answer = answer]

\* The goroutines of G are no more.
Gone(G) ==
  /\ eng' = [g \in Engines |-> IF g \in G THEN Blank("ended") ELSE eng[g]]
  /\ ctx' = [g \in Engines |-> IF g \in G THEN "live" ELSE ctx[g]]
  /\ opens' = [g \in Engines |-> IF g \in G THEN 0 ELSE opens[g]]
  /\ failed' = [g \in Engines |-> IF g \in G THEN NoFailure ELSE failed[g]]
  /\ stoppedAt' = [g \in Engines |-> IF g \in G THEN "never" ELSE stoppedAt[g]]
  /\ afterStop' = [g \in Engines |-> IF g \in G THEN 0 ELSE afterStop[g]]

\* Manager.run's deferred delete, a critical section of its own.
Leave(g) ==
  /\ At(g, "leaving")
  /\ Gone({g})
  /\ running' = [running EXCEPT ![eng[g].user] = NoEngine]
  /\ UNCHANGED <<stream, market, restarts>>
-----------------------------------------------------------------------------
(* Engine.Run.                                                              *)

\* Seeded fault: one trade too many.
VerdictLate(trades, pnl) ==
  IF pnl >= Target THEN "target_reached"
  ELSE IF MaxDrawdown > 0 /\ pnl <= -MaxDrawdown THEN "max_drawdown"
  ELSE IF MaxTrades > 0 /\ trades > MaxTrades THEN "max_trades"
  ELSE "continue"

\* Evaluate: the target comes first, a rule of zero does not apply.
Verdict(trades, pnl) ==
  IF pnl >= Target THEN "target_reached"
  ELSE IF MaxDrawdown > 0 /\ pnl <= -MaxDrawdown THEN "max_drawdown"
  ELSE IF MaxTrades > 0 /\ trades >= MaxTrades THEN "max_trades"
  ELSE "continue"

Quiet == UNCHANGED <<stream, running, ctx, market, restarts, stoppedAt, afterStop>>

Evaluate(g) ==
  /\ At(g, "evaluate")
  /\ LET verdict == Verdict(eng[g].trades, eng[g].pnl) IN
       IF verdict # "continue" THEN Finish(g, verdict)
       ELSE IF ctx[g] = "done" THEN Finish(g, "stopped")
       ELSE Goto(g, "decide")
  /\ Quiet /\ UNCHANGED <<opens, failed>>

\* A price that cannot be had ends the campaign.  With one, the advisor opens a trade, or
\* stays in cash, fails or refuses; too many skips in a row end the campaign.
Decide(g) ==
  /\ At(g, "decide")
  /\ \/ Finish(g, IF ctx[g] = "done" THEN "stopped" ELSE "error") /\ UNCHANGED opens
     \/ /\ opens[g] < MaxOpens /\ opens' = [opens EXCEPT ![g] = @ + 1]
        /\ eng' = [eng EXCEPT ![g].step = "prepare", ![g].skips = 0]
     \/ /\ LET skips == eng[g].skips + 1 IN
             IF MaxSkips > 0 /\ skips >= MaxSkips
             THEN eng' = [eng EXCEPT ![g].step = "leaving", ![g].answer = "cash", ![g].skips = skips]
             ELSE eng' = [eng EXCEPT ![g].step = "evaluate", ![g].skips = skips]
        /\ UNCHANGED opens
  /\ Quiet /\ UNCHANGED failed

\* Trade returned an error: the loop goes on and counts nothing.
Fail(g, why) == Goto(g, "evaluate") /\ failed' = [failed EXCEPT ![g][why] = @ + 1]

\* Seeded fault: the order is placed on a context of its own.
MayPlaceAlways(g) == TRUE
MayPlace(g) == ctx[g] = "live"

\* ServicePlacer: Prepare.  A database call on a done context fails.
Prepare(g) ==
  /\ At(g, "prepare")
  /\ \/ MayPlace(g) /\ Goto(g, "confirm") /\ UNCHANGED failed
     \/ Fail(g, "place")
  /\ Quiet /\ UNCHANGED opens

\* ServicePlacer: Confirm, by the user's own executor or, if there is none or it cannot
\* be had, the shared one.  A confirm that fails may leave a position (BinanceOpen).
Confirm(g) ==
  /\ At(g, "confirm")
  /\ \/ Fail(g, "place") /\ UNCHANGED <<pos, traded, afterStop>>
     \/ /\ \/ pos' = pos \cup {g} /\ traded' = traded \cup {g}
           \/ eng[g].user \in OwnKey /\ UNCHANGED <<pos, traded>>
        /\ afterStop' = [afterStop EXCEPT ![g] = IF stoppedAt[g] = "never" THEN @ ELSE @ + 1]
        /\ \/ ctx[g] = "live" /\ Goto(g, "subscribe") /\ UNCHANGED failed
           \/ Fail(g, "place")
  /\ UNCHANGED <<stream, running, ctx, restarts, opens, stoppedAt>>

\* AwaitClose begins: events from here on.
BeginAwait(g) ==
  /\ At(g, "subscribe")
  /\ Subscribe(g) /\ Goto(g, "await")
  /\ UNCHANGED <<gateway, running, ctx, market, restarts, history>>

\* Seeded fault: any event of the symbol counts as its close.
IsCloseOfAny(e) == TRUE
IsClose(e) == e.kind = "closed"

\* The result of the next close of the symbol, whose ever it was.
Hear(g) ==
  /\ At(g, "await") /\ inbox[g] # <<>>
  /\ LET e == Head(inbox[g]) IN
       IF IsClose(e)
       THEN /\ eng' = [eng EXCEPT ![g].step = "evaluate", ![g].trades = @ + 1,
                                  ![g].pnl = @ + e.pnl]
            /\ Unsubscribe(g)
       ELSE Receive(g) /\ UNCHANGED eng
  /\ UNCHANGED <<gateway, running, ctx, market, restarts, history>>

\* Seeded fault: no timer.
TimerNever == FALSE
Timer == TRUE

\* The timer, or the campaign's context: the select takes either.
GiveUp(g) ==
  /\ At(g, "await")
  /\ \/ Timer /\ Fail(g, "timeout")
     \/ ctx[g] = "done" /\ Fail(g, "stopped")
  /\ Unsubscribe(g)
  /\ UNCHANGED <<gateway, running, ctx, market, restarts, opens, stoppedAt, afterStop>>

Run(g) ==
  \/ Evaluate(g) \/ Decide(g) \/ Prepare(g) \/ Confirm(g)
  \/ BeginAwait(g) \/ Hear(g) \/ GiveUp(g) \/ Leave(g)
-----------------------------------------------------------------------------
\* The gateway's loop.
Tick ==
  /\ Poll(pos # {}) \/ Diff
  /\ UNCHANGED <<running, eng, ctx, market, restarts, history>>

\* Stop, target, liquidation or a user close the shared account's position.  What becomes
\* of positions elsewhere, no campaign hears.
PositionCloses ==
  /\ pos # {} /\ pos' = {}
  /\ UNCHANGED <<stream, running, eng, ctx, traded, restarts, history>>

\* The worker dies with all its campaigns and comes up again.
Restart ==
  /\ restarts < MaxRestarts /\ restarts' = restarts + 1
  /\ Gone({g \in Engines : Alive(g)})
  /\ running' = [u \in Users |-> NoEngine]
  /\ Reseed(pos # {})
  /\ subscribed' = {} /\ inbox' = [r \in Readers |-> <<>>]
  /\ UNCHANGED market

Next ==
  \/ \E u \in Users : Start(u) \/ Stop(u)
  \/ \E g \in Engines : Run(g)
  \/ PositionCloses \/ Tick \/ Restart

\* A goroutine that can go on does, and the timer of an await runs out, however many
\* events come first.
Fairness == \A g \in Engines : WF_vars(Run(g)) /\ WF_vars(GiveUp(g))

Spec == Init /\ [][Next]_vars /\ Fairness
-----------------------------------------------------------------------------
(* Properties.                                                              *)

\* Whatever Start, Stop and the ends of campaigns interleave, every engine that trades is
\* the one its user's next Stop reaches; so no user ever has two (Manager).
EngineIsRegistered ==
  \A g \in Engines : Alive(g) => running[eng[g].user] = g

\* MaxTrades caps the trades that came to a result: what the engine may ask for beyond
\* it is exactly what failed (Engine.Run counts a trade only when it has closed).
AttemptsBounded ==
  \A g \in Engines :
    MaxTrades > 0 => opens[g] <= MaxTrades + failed[g]["place"] + failed[g]["timeout"]
                                 + failed[g]["stopped"]

\* A campaign that has the watched account for itself.
Alone(g) == traded \subseteq {g}

\* Such a campaign never trades on top of its own position: whenever it is about to ask
\* for the next trade, or has come to its end, the one before has closed - although it
\* learns of the close from a poll that may be older than its order.
OneTradeAtATime ==
  \A g \in Engines :
    /\ Alone(g) /\ \A f \in Failures : failed[g][f] = 0
    /\ eng[g].step \notin {"confirm", "subscribe", "await", "ended"}
    => g \notin pos

\* "No new trade is opened" after Stop: only an order that was being confirmed at that
\* moment may still reach the exchange (Manager.Stop).
NothingOpensAfterStop ==
  \A g \in Engines : afterStop[g] <= IF stoppedAt[g] = "confirming" THEN 1 ELSE 0

\* Stop stops: it reaches the engine that trades, and that engine opens nothing more.
StopStops == EngineIsRegistered /\ NothingOpensAfterStop

\* A campaign comes to its end, whoever closes its positions or does not, and whatever
\* events it misses, once its advisor asks for no more trades; its user can then start
\* another one.
CampaignEnds == \A g \in Engines : Alive(g) ~> At(g, "ended")

\* "In-flight trades finish resolving" (Manager.Stop): a stopped campaign has a result for
\* each of its trades, if none failed on its own.  VIOLATED: the wait for the close is on
\* the context that Stop cancels.
StoppedCampaignResolves ==
  \A g \in Engines :
    eng[g].answer = "stopped" /\ failed[g]["place"] = 0 /\ failed[g]["timeout"] = 0
      => eng[g].trades = opens[g]
=============================================================================
