------------------------------ MODULE PaperRun ------------------------------
(* Goals tried on past candles: what a request makes of a goal              *)
(* (campaign/goalspec.go, api/goal.go), the synthetic preview               *)
(* (campaign/simulate.go), the paper run (campaign/paper.go) and the        *)
(* walk-forward folds it is repeated on (campaign/walkforward.go), one bar  *)
(* or trade per step. Money is in whole units, rates are per mille. The     *)
(* indicators are a free choice; ANNY Basic's rules over them are modelled  *)
(* (strategy/annybasic/model.go). Candles are counted from 1.               *)
EXTENDS Integers, Sequences, FiniteSetsExt

CONSTANTS
    Requests,      \* [profit, capital, risk, use, winRate, unlimited]
    MaxTrades,     \* the default of ParseGoal
    Bars, Shapes,  \* bound: the number of candles, and what a candle may be
    Warmup, PlanBars, MaxHold, Lookback,
    MinStop, MaxStop, AtrMult, FeeRate,
    FoldCounts,    \* walk-forward folds asked for
    Observations,  \* what the indicators may show
    AnnyTarget, AnnyTrades, AnnyLosses   \* 10 USDT, 15 trades, 2 losses in a row

PaperAssumption ==
    /\ \A r \in Requests : /\ r.profit \in Nat \ {0} /\ r.capital \in Nat \ {0}
                           /\ r.risk \in Int /\ r.use \in Int /\ r.winRate \in Int
    /\ MaxTrades \in Nat /\ Bars \in Nat /\ Warmup \in Nat \ {0} /\ Bars >= Warmup + 2
    /\ PlanBars \in Nat /\ MaxHold \in Nat \ {0} /\ Lookback \in Nat \ {0}
    /\ MinStop \in Nat \ {0} /\ MaxStop \in Nat /\ MaxStop >= MinStop
    /\ AtrMult \in Nat /\ FeeRate \in Nat
    /\ FoldCounts \subseteq Nat \ {0}
    /\ Shapes \subseteq [low: Nat \ {0}, high: Nat, close: Nat]
    /\ \A s \in Shapes : s.low <= s.close /\ s.close <= s.high

VARIABLES
    mode,       \* "preview", "paper" or "folds"
    plan,       \* [goal, bias, anny, candles, windows]
    fold,       \* the window being run
    bar,        \* the candle looked at
    trades,     \* the trades of this window
    results     \* the windows that are over: [trades, verdict]

vars == <<mode, plan, fold, bar, trades, results>>
----------------------------------------------------------------------------
(* buildGoal and ParseGoal: reward and risk per trade follow from the capital. *)
Risk(pct) == IF pct <= 0 THEN 30 ELSE IF pct > 100 THEN 100 ELSE pct
ParsedGoal(r) ==
    [target |-> r.profit, capital |-> r.capital, budget |-> (r.capital * Risk(r.risk)) \div 100,
     reward |-> (r.capital * 2) \div 100, risk |-> r.capital \div 100,
     winRate |-> r.winRate, maxTrades |-> MaxTrades]

(* An open-ended run has no cap on its trades. *)
Run(r) == IF r.unlimited THEN [ParsedGoal(r) EXCEPT !.maxTrades = 0] ELSE ParsedGoal(r)

\* Seeded fault: a trade may risk more than the drawdown budget.
SizedFreely(goal, use) ==
    LET bp == 4 * (IF use <= 0 THEN 25 ELSE IF use > 100 THEN 100 ELSE use)
        risk == (goal.capital * bp) \div 10000
    IN [goal EXCEPT !.risk = risk, !.reward = 2 * risk]

(* applyLeverageSizing; the slider is put into 1..100 before.               *)
Sized(goal, use) ==
    LET bp == 4 * (IF use <= 0 THEN 25 ELSE IF use > 100 THEN 100 ELSE use)
        scaled == (goal.capital * bp) \div 10000
        risk == IF goal.budget > 0 /\ scaled > goal.budget THEN goal.budget ELSE scaled
    IN IF scaled <= 0 THEN goal ELSE [goal EXCEPT !.risk = risk, !.reward = 2 * risk]

(* Evaluate *)
Verdict(goal, pnl, closed) ==
    IF pnl >= goal.target THEN "target_reached"
    ELSE IF goal.budget > 0 /\ pnl <= -goal.budget THEN "max_drawdown"
    ELSE IF goal.maxTrades > 0 /\ closed >= goal.maxTrades THEN "max_trades"
    ELSE "continue"

(* EstimateTrades, on a hundred times the expected value of a trade.        *)
Expected(goal) == goal.winRate * goal.reward - (100 - goal.winRate) * goal.risk
Estimate(goal) == (100 * goal.target + Expected(goal) - 1) \div Expected(goal)

\* Seeded fault: wins are rounded up.
WinsRoundedUp(n, rate) == (n * rate + 99) \div 100
WinsByNow(n, rate) ==
    IF rate <= 0 THEN 0 ELSE IF rate >= 100 THEN n ELSE (n * rate) \div 100
----------------------------------------------------------------------------
(* SplitWalkForwardFolds: folds of nearly one size, each with its own warmup. *)
Windows(n) ==
    LET start(k) == (k - 1) * (Bars \div n) + Min({k - 1, Bars % n})
    IN [k \in 1..n |-> [from |-> start(k) + 1, test |-> start(k) + Warmup + 1, end |-> start(k + 1)]]

(* A run over all candles. One with a duration may enter only in its last   *)
(* PlanBars candles, an open-ended one and ANNY Basic in all after the      *)
(* warmup.                                                                  *)
Whole(openEnded) ==
    <<[from |-> 1, end |-> Bars,
       test |-> 1 + (IF openEnded THEN Warmup ELSE Max({Warmup, Bars - PlanBars}))]>>

(* RunPaper refuses a goal whose trades risk or gain nothing. *)
Tradable(goal) == goal.risk > 0 /\ goal.reward > 0

Planned(goal, bias, anny, candles, windows) ==
    [goal |-> goal, bias |-> bias, anny |-> anny, candles |-> candles, windows |-> windows]

Init ==
    /\ \E r \in Requests, bias \in {"both", "long", "short"}, anny \in BOOLEAN,
          candles \in [1..Bars -> Shapes] :
          \/ /\ mode = "preview" /\ Expected(ParsedGoal(r)) > 0
             /\ plan = Planned(ParsedGoal(r), "both", FALSE,
                               [i \in 1..Bars |-> CHOOSE s \in Shapes : TRUE], Whole(TRUE))
          \/ /\ mode = "paper" /\ Tradable(Sized(Run(r), r.use))
             /\ plan = Planned(Sized(Run(r), r.use), bias, anny, candles, Whole(anny \/ r.unlimited))
          \/ /\ mode = "folds" /\ anny /\ Tradable(Sized(Run(r), r.use))
             /\ \E n \in FoldCounts :
                   /\ Bars >= n * (Warmup + 2)
                   /\ plan = Planned(Sized(Run(r), r.use), bias, anny, candles, Windows(n))
    /\ fold = 1 /\ bar = plan.windows[1].test
    /\ trades = <<>> /\ results = <<>>

Pnl == IF trades = <<>> THEN 0 ELSE trades[Len(trades)].running
Now == Verdict(plan.goal, Pnl, Len(trades))
Window == plan.windows[fold]
Running == mode # "preview" /\ fold <= Len(plan.windows)
----------------------------------------------------------------------------
(* Simulate: modelled outcomes until a stop rule applies.                   *)
Preview ==
    LET n == Len(trades) + 1
        win == WinsByNow(n, plan.goal.winRate) > WinsByNow(n - 1, plan.goal.winRate)
        pnl == IF win THEN plan.goal.reward ELSE -plan.goal.risk
    IN /\ mode = "preview" /\ Now = "continue"
       /\ trades' = Append(trades, [entry |-> n, exit |-> n, pnl |-> pnl, running |-> Pnl + pnl])
       /\ UNCHANGED <<mode, plan, fold, bar, results>>
----------------------------------------------------------------------------
(* stopPct and atrPct: the average true range, per mille of the close, kept *)
(* between the floor and the cap. The window's first candle has no previous *)
(* one.                                                                     *)
Distance(a, b) == IF a > b THEN a - b ELSE b - a
TrueRange(j) ==
    LET c == plan.candles[j]
        before == plan.candles[j - 1].close
    IN (1000 * Max({c.high - c.low, Distance(c.high, before), Distance(c.low, before)})) \div c.close

StopPct ==
    LET start == Max({bar - Lookback + 1, Window.from + 1})
        sum[j \in 0..bar] == IF j < start THEN 0 ELSE sum[j - 1] + TrueRange(j)
        atr == IF bar < start THEN 0 ELSE sum[bar] \div (bar - start + 1)
    IN Min({Max({AtrMult * atr, MinStop}), MaxStop})

(* bracket *)
Bracket(side, entry, pct) ==
    LET rr == plan.goal.reward \div plan.goal.risk
        away == (entry * pct) \div 1000
    IN IF side = "long" THEN [sl |-> entry - away, tp |-> entry + away * rr]
       ELSE [sl |-> entry + away, tp |-> entry - away * rr]

(* resolve: the first candle that reaches a level, the stop before the      *)
(* target; or the close of the last candle looked at.                       *)
Stopped(side, level, c) == IF side = "long" THEN c.low <= level.sl ELSE c.high >= level.sl
Reached(side, level, c) == IF side = "long" THEN c.high >= level.tp ELSE c.low <= level.tp

Resolve(side, level) ==
    LET seen == (bar + 1)..Min({Window.end, bar + MaxHold})
        hits == {j \in seen : Stopped(side, level, plan.candles[j]) \/ Reached(side, level, plan.candles[j])}
    IN IF hits = {} THEN [exit |-> Max(seen), outcome |-> "timeout"]
       ELSE [exit |-> Min(hits),
             outcome |-> IF Stopped(side, level, plan.candles[Min(hits)]) THEN "sl" ELSE "tp"]

Clamped(v, low, high) == Max({low, Min({high, v})})

(* The result of a trade, its fees taken off. A trade that timed out counts *)
(* for no more than its target and no less than its stop.                   *)
Booked(side, pct, resolved) ==
    LET goal == plan.goal
        notional == (goal.risk * 1000) \div pct
        entry == plan.candles[bar].close
        gain == (plan.candles[resolved.exit].close - entry) * (IF side = "long" THEN 1 ELSE -1)
        gross == CASE resolved.outcome = "tp" -> goal.reward
                   [] resolved.outcome = "sl" -> -goal.risk
                   [] OTHER -> Clamped((gain * notional) \div entry, -goal.risk, goal.reward)
    IN gross - (FeeRate * notional) \div 1000

\* Seeded fault: the next trade may be entered on the candle that closed this one.
NextBarOverlapping(exit) == IF exit > bar THEN exit ELSE bar + 1
NextBar(exit) == IF exit > bar THEN exit + 1 ELSE bar + 1

Enter(side) ==
    LET pct == StopPct
        resolved == Resolve(side, Bracket(side, plan.candles[bar].close, pct))
        pnl == Booked(side, pct, resolved)
    IN /\ trades' = Append(trades, [entry |-> bar, exit |-> resolved.exit, pnl |-> pnl, running |-> Pnl + pnl])
       /\ bar' = NextBar(resolved.exit)
       /\ UNCHANGED <<mode, plan, fold, results>>

(* biasAllows *)
Allows(side) == plan.bias = "both" \/ plan.bias = side
Pass == bar' = bar + 1 /\ UNCHANGED <<mode, plan, fold, trades, results>>
Take(side) == IF side # "none" /\ Allows(side) THEN Enter(side) ELSE Pass

EndFold(verdict) ==
    /\ results' = Append(results, [trades |-> trades, verdict |-> verdict])
    /\ trades' = <<>> /\ fold' = fold + 1
    /\ bar' = IF fold < Len(plan.windows) THEN plan.windows[fold + 1].test ELSE bar
    /\ UNCHANGED <<mode, plan>>

(* The stop rules and the end of the candles. *)
Finish == Running /\ (bar >= Window.end \/ Now # "continue") /\ EndFold(Now)
Looking == Running /\ bar < Window.end /\ Now = "continue"
----------------------------------------------------------------------------
(* ANNY Basic: its own stop rules, then the market conditions, then the side. *)
LossesInARow ==
    LET wins == {k \in DOMAIN trades : trades[k].pnl > 0}
    IN Len(trades) - (IF wins = {} THEN 0 ELSE Max(wins))

AnnyStops == Pnl >= AnnyTarget \/ Len(trades) >= AnnyTrades \/ LossesInARow >= AnnyLosses

Blocked(o) == o.abnormal \/ o.sideways \/ o.extended \/ ~o.aligned

AnnySide(o) ==
    IF Blocked(o) THEN "none"
    ELSE IF o.cdc = "green" /\ o.qqe > 50 /\ o.cross = "up" THEN "long"
    ELSE IF o.cdc = "red" /\ o.qqe < 50 /\ o.cross = "down" THEN "short"
    ELSE "none"

(* A bar whose indicators have not warmed up is passed over before the stop *)
(* rules are looked at.                                                     *)
AnnyWarmup == Looking /\ plan.anny /\ Pass
AnnyStop == Looking /\ plan.anny /\ AnnyStops /\ EndFold("strategy_rule")
AnnyBar ==
    /\ Looking /\ plan.anny /\ ~AnnyStops
    /\ \E o \in Observations : Take(AnnySide(o))

(* The other strategies: a signal of the closes so far. *)
SignalBar == Looking /\ ~plan.anny /\ \E side \in {"none", "long", "short"} : Take(side)

Next == Preview \/ Finish \/ AnnyWarmup \/ AnnyStop \/ AnnyBar \/ SignalBar

Spec == Init /\ [][Next]_vars
----------------------------------------------------------------------------
(* maxDrawdownUSDT *)
\* Seeded fault: the peak is the last equity.
DrawdownFromLast(ts) ==
    LET equity == [k \in 0..Len(ts) |-> IF k = 0 THEN 0 ELSE ts[k].running]
    IN Max({0} \cup {equity[k - 1] - equity[k] : k \in 1..Len(ts)})
Drawdown(ts) ==
    LET peak[k \in 0..Len(ts)] == IF k = 0 THEN 0 ELSE Max({peak[k - 1], ts[k].running})
    IN Max({0} \cup {peak[k] - ts[k].running : k \in 1..Len(ts)})

TypeOK ==
    /\ mode \in {"preview", "paper", "folds"}
    /\ fold \in 1..(Len(plan.windows) + 1)
    /\ bar \in 1..(Bars + 1)
    /\ Len(results) = fold - 1

Books == {results[k].trades : k \in DOMAIN results} \cup (IF mode = "preview" THEN {} ELSE {trades})

(* Trades of a run, and of all folds of a walk-forward, are apart in time:  *)
(* each is entered after the one before it was resolved, and no fold trades *)
(* on, or is warmed up by, candles another fold was tested on (RunPaper,    *)
(* SplitWalkForwardFolds: "the leakage guard this validation depends on").  *)
TradesAreApart ==
    /\ \A book \in Books : \A k \in DOMAIN book :
          /\ book[k].entry < book[k].exit
          /\ k > 1 => book[k - 1].exit < book[k].entry
    /\ \A f \in DOMAIN results : \A k \in DOMAIN results[f].trades :
          \A w \in DOMAIN plan.windows :
             LET t == results[f].trades[k]
             IN w # f => t.exit < plan.windows[w].from \/ plan.windows[w].end < t.entry

(* A run keeps to its goal: no trade is entered once a stop rule applies;   *)
(* where there is a drawdown budget, one trade costs no more than all of it *)
(* and its fees, so a run never loses more than the budget and one more     *)
(* trade; and what is reported as the worst drawdown is no less than any    *)
(* fall between two moments of the run (RunPaper, applyLeverageSizing,      *)
(* maxDrawdownUSDT).                                                        *)
RunKeepsToItsGoal ==
    LET fees == (FeeRate * ((plan.goal.risk * 1000) \div MinStop)) \div 1000 + 1 IN
    \A book \in Books :
       /\ \A k \in DOMAIN book : k < Len(book) => Verdict(plan.goal, book[k].running, k) = "continue"
       /\ plan.goal.budget > 0 =>
             \A k \in DOMAIN book : /\ book[k].pnl >= -(plan.goal.budget + fees)
                                    /\ book[k].running > -2 * (plan.goal.budget + fees)
       /\ \A j, k \in DOMAIN book : j < k => book[j].running - book[k].running <= Drawdown(book)
       /\ \A k \in DOMAIN book : -book[k].running <= Drawdown(book)

(* The preview never reaches the target in fewer trades than the estimate   *)
(* the user is shown beside it (EstimateTrades, Simulate).                  *)
PreviewNeedsTheEstimate ==
    mode = "preview" /\ Now = "target_reached" => Len(trades) >= Estimate(plan.goal)
=============================================================================
