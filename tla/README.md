# ANNY (bottrade): a verification development

ANNY is a testnet trading companion in Go. A user stages orders from Telegram or from a
web dashboard, confirms them, lets "missions" open a position and close it at the end of a
plan, and "arms" missions that wait for a setup and enter on their own. The modules here
model that order flow and what surrounds it, TLC checks them on small instances, and TLAPS
proves the main results for every instance.

## The system

| process | what it runs |
| --- | --- |
| `cmd/api` (any number of instances) | HTTP handlers, the watchers of armed missions, the poller of scheduled closes, the reconciler of mission results |
| `cmd/worker` (one) | the Telegram poller, the trailing-stop monitors, the campaign manager, the realtime gateway |
| `cmd/tradebot` | both in one process |

They share nothing but MongoDB and the exchange. A handler is a sequence of database and
exchange calls without a transaction: each call is atomic, and between two of them other
handlers run, time passes, MongoDB's TTL monitor deletes, and the process may die.

### Inventory

| component | state | operations | what is hard |
| --- | --- | --- | --- |
| order service (`orders/service.go`, `storage/mongo/confirmations.go`, `intents.go`) | `confirmations`, `order_intents` | Prepare, Confirm, ConfirmWithRequiredUserExecutor, Cancel, ConfirmationStatus | duplicate confirms, cancel against confirm, update and lookup as two operations, lost replies, clocks read earlier, purging, crashes while executing |
| timed close (`api/scheduled_close.go`, `app/scheduled_closes.go`) | `scheduled_closes` | schedule, activate, drop, reconcile, claim, close, mark | entry and close are two documents; pollers on every instance; reclaiming after a crash |
| armed missions (`api/armed_mission.go`, `app/armed_missions.go`) | `armed_missions`, one goroutine per mission and instance | arm, re-arm, watch, expire, disarm, trigger, enter | several watchers, the claim, boot after a crash, limits read earlier |
| tiers and usage (`api/tiers.go`) | counters in memory | allow, Incr | one count per process, counted before it is checked |
| Binance executor (`exchange/binance/executor.go`) | orders and positions at the exchange | open (maker first, stop, target, rollback), close, move a stop, realized trade | partial failure between legs, ambiguous replies, rounding |
| trailing stop (`monitor/`) | the stop order of each position | ComputeStop, Tick | position read earlier than the stop is moved |
| campaign (`campaign/`, `campaignexec/`) and gateway (`realtime/`) | campaigns and subscriptions in memory | Start, Stop, Run, Evaluate, Place, AwaitClose; Tick, Subscribe, Publish | stop against a trade in flight, stop rules that only count closed trades, polls older than an order, events dropped |
| journal and result reconciler (`journal/`, `storage/mongo/journal.go`, `api/mission_result_reconciler.go`) | `trade_journal` | Record, Close, reconcile | two writers close one row; close before open; fills that belong to somebody else |
| access (`app/access.go`, `api/access.go`) | `access` | Request, Approve, Revoke, SetRole, SetTier, AssignFounder | a record read, then written; the founder number |
| invitations and accounts (`interest/`, `users/`, `storage/mongo/interest.go`, `users.go`) | `interest`, `users` | Register, SetInvite, MarkWaitlisted, FindInvite, MarkRegistered | a link that is looked up first and spent last |
| key profiles (`auth/credentials.go`, `storage/mongo/credentials.go`, `exchange/binance/provider.go`) | sealed keys, executors by key | store, activate, delete, Load, ExecutorFor | one active profile kept by two updates; a cache |
| signals and advisors (`signals/`, `ai/ensemble.go`) | signal records | Process, ensemble vote | models that fail, levels that are rounded later |
| Telegram and parser (`telegram/`, `parser/`) | messages with buttons | Handle, callbacks | handlers that overlap, buttons that are old |
| goals and paper runs (`campaign/goalspec.go`, `simulate.go`, `paper.go`, `walkforward.go`, `api/goal.go`) | none shared | ParseGoal, Simulate, RunPaper, folds | edges of bars and folds, sizing under a budget |
| dashboard, leaderboard, favourites, plans | preferences | one read or write per request | text |
| cryptography, tokens, market data, decimals, indicators | none | pure computation and HTTP | floating point, encodings |

What must be right, per component: **orders** are sent at most once, on the right account,
and what the caller was told stays true; a **close** is sent only for its own entry, by one
poller, and always comes to an end; an **armed mission** enters at most once and never after
it was called off; the **executor** leaves no position without a stop; a **stop** only moves
in the position's favour; a **campaign** ends; a **journal** row is settled once, with its own
result; a **founder** number is given once, an **invitation** used once; a user with **keys**
trades on the active one; a **chat** says what became of its order; a **signal** trades only with
its panel behind it; a **paper run** keeps to its goal.

`PROJECT.json` lists the components with their files and status, and the hazards of this
code with the properties that watch them.

## The modules

| module | models | extends |
| --- | --- | --- |
| `OneShotOrder` | abstract: one order is offered, claimed, filled or withdrawn, once | |
| `ConfirmationStore` | one document of `confirmations` and its conditional updates | |
| `Confirmations` | the order service: concurrent calls, one database or exchange operation per action | `ConfirmationStore` |
| `ScheduledCloseStore` | one document of `scheduled_closes` and its conditional updates | |
| `MissionClose` | one mission: entry, close, requests, pollers | both stores |
| `ArmedMissions` | one user's armed missions on several API instances | |
| `BinanceOpen` | the executor opening one position, request by request, and its rollback | |
| `TrailingStop` | the stop of one position and the loops that move it | |
| `PositionStream` | the realtime gateway and its broadcaster | |
| `Campaigns` | campaigns: manager, engine, placing and awaiting trades | `PositionStream` |
| `Journal` | the rows of missions on one account, close orders, the reconciler | |
| `Membership` | access records, roles, tiers, founder numbers, metered AI runs | |
| `Invites` | one address' interest row, invitations, joining with a link | |
| `Profiles` | one user's key profiles and the cache of executors | |
| `Commands` | the command grammar: tokens to intents (operators only) | |
| `Chat` | messages with buttons, handlers that overlap, the order service behind them | `ConfirmationStore`, `Commands` |
| `Signals` | the webhook, the panel's vote, the order that comes of it | `Commands` |
| `PaperRun` | goal, sizing, preview, paper run and walk-forward folds | |
| `Front` | the six modules above that share no state, as one specification | `Commands` |
| `ConfirmationsProofs`, `MissionCloseProofs`, `ArmedMissionsProofs`, `BinanceOpenProofs`, `TrailingStopProofs`, `CampaignsProofs`, `JournalProofs`, `FrontProofs` | theorems about these | their module, `TLAPS` |
| `MCConfirmations`, `MCMissionClose`, `MCArmedMissions`, `MCBinanceOpen`, `MCTrailingStop`, `MCCampaigns`, `MCJournal`, `MCProfileSwitch` | instances for TLC | their module |
| `MCFront` | instance of `Front` for TLC | `Front` |

**Confirmations.** `conf[id]` is the document, `intent[id]` the status of the intent record,
`call[p]` the program counter of a request with its arguments. `Take`/`TakeMissed`+`Lookup`
are the two halves of `TakeForExecution` (`FindOneAndUpdate`, then a separate read), and
`Cancel`/`CancelMissed`+`CancelLookup` those of `Cancel`. `Begin` reads the clock: a call
carries the answer (`live`) from there on, so a call may act after the expiry it checked.
Every write with an error path has the three outcomes "applied", "not applied" and "applied,
but the caller sees an error". `Abort` is a crash at any step. `claim`, `sent` and `told` are
history: by whom a document was taken, which orders the exchange has, what callers were told.
Time is the time a document has left (`ttl`); `Tick` counts it down and `Purge` is the TTL
index, which deletes whatever the status.

**MissionClose.** `entry` is the confirmation of the mission's entry and `row` its close.
Requests are the web form and the watcher of an armed mission, which stage the mission, and
the user's confirms and cancels; pollers are API instances. Confirm is take, send, settle
here; the interleavings inside them are checked in `Confirmations`. The position at the
exchange (`pos`) may be the mission's, the user's own, or both, and may go away at any time. A
poll reads its clock once; `late` is how old that reading is, and the times in `row` are kept
relative to the present, so that `Claimable(row, late)` is `scheduledCloseClaimFilter`.

**ArmedMissions.** `row[m]` is the stored mission, `watch[i][m]` the goroutine of instance
`i`, `arm[i]` an arm request between its scan and its write, `usage[i]` the in-memory count
of the day. `ExpireStale` and `WatchActive` are the boot sequence, `Check` to `Cancel`
the body of `checkArmedMission` and `triggerArmedMission`. Whether there is a setup, whether
the key is active and whether market data arrive are free choices.

**BinanceOpen.** What `Confirmations` calls *execute*, for an open intent, from the inside.
`pc` is the signed request `executeOpen`, `makerFirstEntry` or `rollbackOpen` makes next. Each
request is answered, refused (`apiError`), lost (a transport error: done or not), or, once the
caller's context is done, not sent. `limit`, `position`, `stop` and `target` are the account;
between two requests the limit fills or ends, and stop or target close the position.
`position` may be there before (`Held`). The process may be killed anywhere. `entered` (what
this open filled) and `failed` (the requests that went wrong) are history. About the exchange
the module assumes: a market order fills at once, a refused request was not done, the answer
to a cancel carries the executed quantity, and cancelling an order that is no longer open is
an error. The first two are assumptions the code makes (`do` treats every status of 400 or
more, a 503 included, as a refusal).

**TrailingStop.** `job[t]` is the request a loop makes next with what it read before: the mark
price (`saw`), the stop (`old`), the price of the new one (`new`). `ReadStop` is `CurrentStop`,
which reports the first of the live stops, whichever that is, and `ComputeStop` on the mark
price read earlier; `PlaceNew` and `CancelOld` are the two requests of `MoveStopLoss`. A loop is
the platform's `Runner` or a `MultiTrailer`; they differ in the ids they make. `Restart` resets
all loops, which live in one worker. Prices are naturals and `Grid` the tradable ones, so that
`FloorToStep` really rounds. The position is followed until it is closed.

**PositionStream** and **Campaigns.** `gateway` is the gateway between reading the positions
(`Poll`) and publishing what changed (`Diff`); `inbox` is what the subscribers' channels hold.
`running` is the manager's map, `eng[g]` the goroutine of a campaign with the locals of
`Engine.Run`, `ctx[g]` its context. A trade is `Prepare`, `Confirm`, `BeginAwait` and then
`Hear` or `GiveUp`; what a confirm does at the exchange is reduced to whether the shared
account's position now includes the campaign's trade (`pos`). A position is there or not: its
side, its size and partial closes are left out. All campaigns trade one symbol, since events of
others are filtered out. What an engine counted is forgotten when it ends (`Gone`), which keeps
the state space small; the properties look at it before.

**Journal.** The account of one user at the exchange (`position`, `fills`) and the collection
`trade_journal` (`row`). `Enter` is the executor's open, whose steps are `BinanceOpen`; the row is
written afterwards, at the end of the confirm (`RecordOpen`), or never (`NeverRecorded`: the
confirm only logs it). A close order is `CloseRead`, a `CloseSend` or `CloseRefused` for each
position it read, and `RecordClosed`; it settles the row of the entry it names, or leaves a row of
its own (`manual`). A reconciler's pass is `Scan`, then for each row `ReadPositions`, `ReadTrades`
and `CloseRow`, each a request of its own, so that the account changes in between. `RealizedTrade`
adds up fills since the row's `OpenedAt` until they cover the entry, the last one in part. `exited`
and `own` are history: what left the account since the entry and what of it was the mission's.
The server's clock and the exchange's are taken to agree.

**Membership.** `access[s]` is the record of a subject, `call[c]` a request between its reads
and its write. `Gate` and `Status` are the reads of `isAdmin` and `approved`, `Updated` the
upserts of `mongoAccess`, `Own`, `Top` and `Mint` the two reads and the write of `AssignFounder`,
whose errors are dropped. The last steps of `call` (`free` to `decide`) are an AI run on the
server's key: the tier is read, then the count, and the count is raised after the model answered.

**Invites.** `row` is the interest record of one address: the updates of
`storage/mongo/interest.go` filter by the address alone, whatever the status, and none is an
upsert. `join[j]` is `handleInviteRegister` between looking up the link (`Find`) and marking the row
registered; the account is created in between under a unique index.

**Profiles.** `call[c]` is a request to store, activate or delete a profile, one update per
action: `Clear` and `Set` are the two updates of `SetActive`. `order[o]` is a confirm that looks
for the user's executor: `Load` reads the active profile, `Build` looks into the cache under its
mutex.

**Commands** is the parser on tokens, without state. **Chat** uses it, and `ConfirmationStore`, for
the bot: every update is handled in a goroutine (`job[h]`), which calls the order service and
then edits the message its button was under (`Show`). `offered` keeps every button a message has
ever had, since a client may send one that an edit has taken away.

**Signals.** `delivery[d]` is a run of `Processor.Process`: the answers of the panel one by one
(an error abstains), the vote, the command the decision is written out as and parsed from, the
order, the record. `Votes` are the places on the panel that would open on a side, and `Total` adds up
their confidence. `Order` is what `executeOpen` makes of the intent: prices rounded down to the
tick, the quantity to its step.

**PaperRun.** `plan` is what a request became: the goal after parsing and sizing, the candles,
the windows of its folds. A step looks at one bar; a trade is resolved at once over the candles
that follow. Money is in whole units and rates per mille, so that every division rounds as in the
code; indicators are a free choice from `Observations`, ANNY Basic's rules over them are modelled.

**Front** instantiates `Membership`, `Invites`, `Profiles`, `Chat`, `Signals` and `PaperRun`, which
share no state with one another. `part` is
drawn in the initial state and only that part steps, so the states of its run are the disjoint
union of theirs; a property of a part is checked as in a run of its own.

Operators whose comment begins with "Seeded fault" are the plausible bugs the properties are
tested against (`mutants` in `PROJECT.json`); no action uses them.

## What is checked

| run | instance | result |
| --- | --- | --- |
| `confirmations` | one id, two calls, an owner and a stranger, TTL 1, Retention 1 | all six properties hold (294,776 states) |
| `mission_close` | two requests, two pollers, AwaitTTL 2, ClaimTimeout 2, one fault | all four hold (1.9 million states) |
| `mission_close_live` | one request, two pollers, one fault, with fairness | every close is resolved |
| `armed_missions` | one mission, two instances, windows 1 and 3, clock readings up to 2 old | all three hold (250,427 states) |
| `armed_own_count` | one instance, one mission, daily limit 1 | violated, see findings |
| `binance_open` | three steps of quantity, two refusals, two lost answers, two interrupts | all five hold |
| `open_race` | nothing refused, lost or interrupted | violated, see findings |
| `trailing` | two loops (one with a nonce), five mark prices, three moves, one restart, one loss | all three hold (3.8 million states) |
| `campaign` | one user with a key of their own, two campaigns of three trades each, one restart | all four hold |
| `journal` | two missions on one symbol, a timed close, a close of everything, another symbol held, one fault | all four hold |
| `front` | the six parts, see below | all ten hold (2.4 million states) |
| `profile_switch` | one request at a time, one order, no fault | violated, see findings |

*Order flow.* `AnswersAreTrue` relates what the exchange has to what the callers were told (at
most one order; none behind "cancelled"; one behind a result), `StrictStaysOnOwnKey` and
`IntentAgreesWithExchange` to the account asked for and to the intent record. `SettledIsFinal` is
about stale readers. `IsOneShotOrder` is the refinement of `OneShotOrder`. `ExecutingEnds` says that
a crash while executing leaves nothing behind for ever (the TTL index removes it).

*Timed close.* `ClosesAreDue`: the close is not sent unless the entry was, and is repeated only
after a poll that was cut short between claim and record.
`OneWorker`: a claim excludes the other pollers as long as a poll cannot outlive
`ClaimTimeout` (assumption `CloseAssumption`: 30 s against 5 min).
`ReconcilerSparesExecuted`: with the await time longer than a confirmation can be pending and
a request can run (assumption `MissionAssumption`: 30 min against 5 min), the reconciler's
read-then-cancel never hits an entry recorded as executed. `CancelledMissionIsOver`
and `CloseResolved` as named.

*Armed missions.* `MissionTellsItsEntry`: what a mission's row says (the words the handlers answer
with) is true of its entry, across instances that crash and boot. `StatusIsFinal`, and
`IsOneShotMission`: an armed mission implements the same abstract `OneShotOrder`.

*Opening.* `NeverOverfilled`: limit and market together never buy more than planned.
`SuccessIsCovered`: a reported success is a whole entry, protected as long as it lasts.
`FailureIsAccountedFor` and `LateFillNeedsLostCall` say for each thing a
failed open can leave behind (a position, a stop or target, an entry that goes on filling)
which requests must have gone wrong, so that every other way out is shown to be clean.
`ExecuteEnds`: the bounded wait does end.

*Trailing.* `NeverUncovered` and `Ratchet` hold although each loop acts on a mark price and a
stop that may both be out of date, and two loops may work on the same stop.
`PlacedStopsAreSound`: a stop that was placed is at break-even as far as rounding allows, and a
loop with a nonce never asks for an id the exchange has seen.

*Campaigns.* `StopStops`: whatever `Start`, `Stop` and the deferred delete interleave,
the engine that trades is the one a `Stop` reaches, and after it one order may still go out, if
it was being confirmed. `AttemptsBounded` is what `MaxTrades` really
bounds ("hard cap on trades attempted" in `campaign.go`): the trades with a result; those that
failed come on top. `OneTradeAtATime`: a campaign that has the account to itself does not take
the close of one trade, seen in an old poll, for that of the next. `CampaignEnds`: a close may
never be heard of (a full buffer, a position opened and closed between two polls, a key the
gateway does not watch), and the campaign still ends.

*Journal.* `SettledOnce`: of the two writers of a row the first wins for good. `SettledMeansClosed`:
no result is journaled for a mission that is still exposed, though positions are shared and a
close of several stops at its first refusal. `ReconciledResultIsOwn`: the reconciler's result is
what the mission's own exits brought, if they came after its row and the position was not mixed
with another. `CoveredRowSettles`: a row whose exits are on record does not stay open.

*Front.* `FoundersAreSound` and `ApprovalSurvives` (a request for access that was checked before an
approval and written after it does not take it back). `InviteSpentOnce`: a link makes two accounts
only if two joins looked it up before either was marked, or a mark was lost. `OneActiveProfile`:
at rest a user with profiles has one active, if requests did not overlap or fail.
`OrdersOnTheKeyRead`: the cache never hands out the executor of another key. `ChatTellsTheTruth` and
`OrdersWereReviewed`: whatever taps, edits and expiry interleave, "Confirmed." and "No order was
sent." are true, and what was sent had a review by somebody on the allowlist.
`SignalOrdersAreSound`: an order of a signal has the panel and the confidence behind it, and rounding
keeps it within the size and the bracket on its sides. `TradesAreApart`: neither trades nor folds
overlap in time. `RunKeepsToItsGoal`: no trade after a stop rule, no loss beyond the budget
(where there is one) and one more trade, and a reported drawdown no less than any fall.

### Findings

1. `armed_own_count`: a triggered mission is counted before the daily limit is read again, so
   the mission that takes the last place is refused by its own count.
2. `open_race`: when the limit fills between the last poll and its cancel, the cancel fails and
   `executeOpen` returns the error without a rollback: the confirmation is failed and the whole
   position is open without stop or target. A failed status query and a refused market
   remainder return the same way.
3. `profile_switch`: between the two updates of `SetActive` (also when an active profile is stored
   again) no profile is active, and an order that looks then falls back to the shared account,
   which `ExecutorFor` documents for users without a stored credential. A crash there makes it
   last. Orders that require the user's key (missions) fail instead.

Four more configurations show such cases; they are kept beside the modules and can be run with
`tlc -config <cfg> <module>`:

| configuration | module | violated property |
| --- | --- | --- |
| `MCMissionCloseLostClose.cfg` | `MCMissionClose` | `ExecutedEntryNeverLosesItsClose`: an entry that was accepted and whose `Complete` failed stays in `executing`; after `scheduledCloseAwaitingTTL` the reconciler cancels its close by time |
| `MCMissionCloseDroppedClose.cfg` | `MCMissionClose` | `DroppedOnlyWithoutEntry`: the web's cancel drops the close before it knows whether the entry can still be cancelled |
| `MCCampaignsStop.cfg` | `MCCampaigns` | `StoppedCampaignResolves`: `Stop` cancels the context on which the close is awaited; the trade counts as failed although the user was told the campaign stops "after the current trade resolves" |
| `MCJournalFastExit.cfg` | `MCJournal` | `ResultIsOfThisPosition`: exits that come before the row is written are older than its `OpenedAt`; the reconciler then takes the fills of the next position of the symbol |

Seen while modelling, without a run:

- *Trailing and executor.* `ComputeStop` compares the candidate before it is rounded
  down, so a long's stop may be replaced by one at the same price on every pass; the ids of
  `Runner` start again after a restart of the worker, and the exchange refuses those it has seen,
  so its moves fail until the count has caught up; the rollback flattens the account's whole
  position, one held before included; two loops on one account can leave a redundant stop that no
  loop cancels. The executor knows only opens and closes: break-even, trail and add
  commands pass the parser and the review and fail when they are confirmed.
- *Missions and journal.* The limit of active missions is exceeded by one for each concurrent arm
  request. A timed close records the unrealized profit of the whole position, another mission's
  share included. A manual close of a mission's position writes a row of its own, and the reconciler
  settles the mission's row from the same fills.
- *Campaigns.* One on a key of its own never hears of a close, since the gateway watches the shared
  account, and it may take another campaign's close for its own.
- *Access.* Demoting a revoked member or setting their tier approves them again; a revocation keeps
  the role, so `isAdmin` still holds of a revoked admin.
  Overlapping approvals can give one number twice, and a failed read of a founder's own number gives
  them a second one. `tierOfSubject` does not look at the status. Counts are kept per process. The
  bot's allowlist knows nothing of the access records.
- *Invitations.* A mark that comes late ends a newer invitation of the same address.
- *Keys.* Storing the same API key with another secret leaves the executor with the old one in
  the cache until a restart.
- *Signals and paper runs.* A close of the symbol `all` is compared after it has become `ALLUSDT`.
  ANNY Basic's own stop at 10 USDT ends a run with `strategy_rule` before a larger target is reached;
  a loss may pass the drawdown budget by its fees; and the comment on `applyLeverageSizing`, that no
  single trade reaches the target, is not so for a small target.
- *Chat.* Two taps on one message are edited in whatever order their handlers end, so a later text may
  replace a result.

### Bounds, and why they are enough

The interesting cases of each module need two actors on one document: two calls, two pollers,
two watchers. A third adds no new pair of steps, and the theorems cover every number, for
each safety property of a passing run. One id is enough because no operation of the store touches two documents. Durations are the
smallest that keep their order: `TTL` and `RequestLimit` below `AwaitTTL`, `PollLimit` below
`ClaimTimeout`, one window short enough to end within an operation and one long enough to
outlive it. `MaxFaults` bounds the polls cut short; one is enough to see a close repeated, and
the bound in `ClosesAreDue` is stated in the number of faults. `MissionClose` stops
counting times where no filter tells them apart any more (`MaxAge`, `MaxHeld`). `OpLimit`
bounds how old a clock reading may be.
Deadlock is not checked: a system in which every order is settled and purged may stop.
`SYMMETRY` is used only in runs without liveness properties.

`BinanceOpen` needs three steps of quantity for a fill in parts that leaves a remainder, two
refusals or losses for a rollback that itself fails, and two interrupts for a caller that goes
away in an open whose process is killed later. `Held = 1` is a position that is not this open's.
`TrailingStop` has a tick of 2, an entry off the grid and a gap wider than the activation, so
that the break-even floor and the rounding both apply; `MaxPlaced` 3 lets one loop replace a stop
the other one has read, `MaxTries` 2 lets an id be tried again after `MaxRestarts` 1. These
counters are bounds of the runs only: the theorems hold for all their values.

`Campaigns` has two campaigns one after the other, because the second finds what the first left
behind: a position, a poll, a missed close. Two at a time would only share the account. Three
trades each is one more than `MaxTrades`, so that a failed trade is followed by two that count;
`Target` and `MaxDrawdown` are two wins and two losses; `Buffer` 1 (16 in the code) is full after
one event. `MaxSkips` 2 (20 in the code) ends a campaign at the second skip in a row.

`Journal` has two missions on one symbol, so that positions and fills mix, and one quantity each;
`Held` is another symbol a close of everything meets first or last. Fees are 1 and gains 0 or 2, so
that wins, losses and nothing at all occur. One fault is one lost write or refused request.

`front` draws for `Membership` two members and the root admin, two requests at a time, three in
all and one fault, with a `Cap` of 2 that the two members and the admin reach; for `Invites` two
links and two joins; for `Profiles` two profiles, two keys, two secrets, two requests at a time and
two orders; for `Chat` one message with buttons, two orders, two handlers, a user on the allowlist
and one who is not; for `Signals` panels of one and three, six answers and a tick of 1 or 4, with
levels that fall on either side of it; for `PaperRun` six candles out of three shapes, two requests,
one with and one without a cap on trades, and one or two folds. Calls, subjects, keys and secrets are
symmetric. `profile_switch` has one request at a time: the interleaving is with an order.

### Fairness

`Confirmations` assumes that time passes and that the TTL monitor runs, nothing about calls:
a crash may always abandon one, so `ExecutingEnds` rests on purging alone. `MissionClose`
assumes also that an instance that runs keeps polling (a ticker with a 30 s interval) and that
a request ends, well or badly: both are goroutines under a deadline. `ArmedMissions` has no
fairness and no liveness property, because a failed read ends a watcher and nothing restarts it.
`Journal` assumes that time passes and that the reconcilers keep polling (a 30 s ticker); exits,
closes and journal writes may never happen. The parts of `front` have safety properties only: a
request may always be abandoned, and no part waits for another.
`BinanceOpen` assumes that every request ends (the HTTP client has a timeout) and that
`MakerEntryTimeout` runs out. `TrailingStop` has safety properties only.
`Campaigns` assumes that a goroutine that can go on does, and that the timer of `AwaitClose` (30
minutes) runs out; nothing about the gateway or the exchange.

## What is proved

`ConfirmationsProofs` proves, for any finite or infinite set of ids, calls and users and any
`TTL` and `Retention` (assumption `StoreAssumption`), every safety property of `Confirmations`:
`TypeCorrect`, `AnswersStayTrue` (with its parts `OneOrderAtMost`, `CancelledIsNeverSent` and
`ResultIsReal`), `StrictNeverShared`, `IntentIsTrue`, `SettledForGood`, and `Refinement` of
`OneShotOrder`.

None of them is inductive: that a document was sent once says nothing about a call that is
about to send it. The invariant `IInv` therefore says which call *owns* an id: a call in one
of the steps between a successful `Take` and the end of the call is the only one for its id,
its document was claimed, nothing was sent before `execute`, and exactly one order was sent at
`complete` and after. The conditional updates keep it: only a pending document can be taken,
nothing returns to pending, and ids are not drawn twice. The remaining conjuncts tie the
history to it: a cancelled document was never claimed, a reported result has an order, and
the values the intent record may have follow from the calls still about to write it. Lemmas
about the store's operators (`Taken`, `Settled`, `MarkedExpired`, `Purged`, `Older` and
`Reading`) come first; `Invariance` has one step per action. The refinement maps each action
to a step of `OneShotOrder` or to a stutter with the same invariant.

`BinanceOpenProofs` proves all safety properties of `BinanceOpen` for any quantity, held
position and number of faults (`OpenAssumption`), `FailureIsAccountedFor` in its two parts. `IInv`
adds to the types: `Accounted`, what was filled and what the limit and `seen` are at each step, so
that the market order can only be for what the limit left; `Protected`, which protective orders are live from which step on; and
`Undoing`, what a rollback has achieved unless the request for it is in `failed`.

`TrailingStopProofs` proves all safety properties of `TrailingStop` for any number of loops,
prices and policies, with or without nonces. `TrailAssumption` asks only that every price a stop
could be moved to has a tradable price at or below it. `NeverUncovered` is not inductive: two
loops could each be about to cancel the stop the other one counts on. The invariant's
`Covered` rules that out by an order: every stop a loop is about to cancel has a live
*successor*, placed later (`born`) and at least as tight. The latest of the tightest stops is
therefore never cancelled. `IdsConsistent`, `JobsConsistent` and `IdsBehind` tie ids, jobs and
counters together.

`CampaignsProofs` proves `AttemptsBounded`, both parts of `StopStops` and `OneTradeAtATime` for any
number of users, engines and restarts, any goal and any results (`CampaignAssumption`). `IInv` has
four parts beside the types: `Registered`, the map and the goroutines name each other both ways, so
that an engine that ends cannot clear another's place; `Counted`, the orders asked for are the closed
trades, the failed ones and the one in flight, and there is room below `MaxTrades` whenever one is
asked for; `Stopping`, a done context and the moment of the stop agree, and an engine at `confirm` has
sent nothing since; `Watching`, while an engine that has the account to itself trades, no poll older
than its order can make the gateway report a close.

`MissionCloseProofs` proves the four safety properties of `MissionClose` for any number of requests,
pollers and faults and all limits that `MissionAssumption` and `CloseAssumption` allow. `EntryTrue`
says that one request at most holds the entry, and that `sent` is what its status says;
`StagingAlone`, that the close is stored once, by the request that staged the entry; `RowTrue`, that
a row leaves `awaiting_entry` only for an entry that was sent, and that one poll at most works on it,
because a claim is respected for longer than a poll lasts. The times are the hard part (`TimesTrue`,
`PollsTrue`): a row that has waited for `AwaitTTL` is older than the entry's time to live and the
longest request together, so that what a poll reads of the entry afterwards is final.

`ArmedMissionsProofs` proves `MissionTellsItsEntry`, `StatusIsFinal` and, for each mission, the
refinement of `OneShotOrder`, for any number of instances, missions and symbols and any limits
(`ArmAssumption`). A row is inserted once (`SavesFresh`) and only an armed row changes its status, so
one watcher at most is past the claim, and `staged`, `entered` and `recorded` say how far it got
(`MissionTrue`). That every step changes one mission at most, in one of a few ways (`Shape`), serves
the action property and the refinement alike.

`JournalProofs` proves `SettledMeansClosed`, `SettledOnce` and `ReconciledResultIsOwn` for any number
of missions, symbols, closes and reconcilers (`JournalAssumption`). `Exposed` is the heart: what has
not been sold of an entry is still on the account. A reconciler that has seen the symbol without a
position (`PassTrue`), or a close that has sent an order for all it had read (`CloseTrue`), knows
therefore that the entry is gone. For the result, `RealizedTrade` walks over the fills as a recursive
function: its equation, and that fills after the one that covers the entry do not count, are proved
from the least place at which they would fail.

`FrontProofs` has one invariant for each part of `Front`, under `FrontAssumption` (the parts' own
assumptions and a positive `TTL`); a part steps alone, so they are proved one after the other.

- *Membership*: `Numbering` says that the founders are 1, 2, 3 up to the last, each once;
  `MintingAlone`, that one approval at a time gives a number and has read the last one, unless two
  overlapped (`raced`) or a founder's own number could not be read (`strayed`). `ApprovalKept` is the
  action property.
- *Invites*: a link has one holder at most, and is off the row by the time its holder is done
  (`TokenTrue`), unless two joins found it or a call failed.
- *Profiles*: `ExecutorsOnTheirKey` of the cache; `CallTrue` of a request between two updates, and
  `OneCall` as long as requests did not overlap.
- *Chat*: what a message says (`MessageTrue`), what a handler is about to do or to write (`JobTrue`)
  and what the document is (`DocTrue`) agree with what was sent, and stay so whatever other handlers,
  edits, expiry and the TTL index do.
- *PaperRun*: the windows of a walk-forward do not overlap although their sizes differ by one
  (`FoldsApart`), and trades lie in their window, before the bar that is looked at. A loss is bounded
  by the sizing (`TradeKept`), which needs a stop distance between `MinStop` and `MaxStop` whatever the
  ranges of the candles (`StopDistance`); the reported drawdown is no less than any fall
  (`FallsReported`).
- *Signals*: a delivery carries its panel's decision and the intent it was translated to
  (`DeliveryTrue`), and an order has a confirmed delivery behind it (`OrderTrue`). The rest is about
  operators: an open that comes out of the vote is that of the first of the most confident winners,
  with their average (`VotedOpen`, `PanelBacks`); what the grammar makes of it has its numbers, and
  brackets them (`ParsedOpen`); rounding keeps apart what is a tick apart (`FloorsApart`, `OrderFits`).
  Levels and confidence may be any integers: nothing in the code bounds what a model answers.

Sums and running maxima are recursive functions in the modules that are proved about, and an induction
theorem with an operator parameter cannot be used here. `UpTo` is stated for a set instead: one that
holds 0 and, with each number below n, the next, contains 0..n. It follows from the least element of
what such a set would miss. `StepByStep` uses it to show that a function given by a first value and a
step exists, and `HighestOf` that finitely many numbers have a highest.

The type invariants are part of each `IInv`, and no run spends a property on them; for the parts of
`Front` they are `MembersTyped`, `InvitesTyped` and so on, which say more than the parts' `TypeOK`.

Not proved, only checked: `ExecutingEnds`, `CloseResolved`, `ExecuteEnds`, `CampaignEnds` and
`CoveredRowSettles`, since liveness under fairness is out of this prover's reach. The properties that
the other three runs refute are false, and nothing is proved about them. Stated and in no run:
`UsageBounded` (`Membership`) and `PreviewNeedsTheEstimate` (`PaperRun`), which were checked while
writing the modules.

## What is not modelled, and why

- *Market data, decimals, configuration, indicators, the backtest*: HTTP clients, arbitrary-precision
  and floating-point arithmetic, environment parsing. No shared state; the models take their results
  as free choices.
- *Model clients and prompts* (`ai/` but the ensemble): `Signals` sees an answer or an error.
- *Cryptography, tokens and login*: encodings without state of their own. Logging in, guests and the
  throttle of the interest form are left out of `Invites`.
- *Dashboard, leaderboard, favourites, plans, reports and menus of the bot*: reads, or one write per
  request.
- *Search over strategies and the storage of finished paper runs* (`api/goal.go`): a loop over
  `PaperRun`'s run, and one insert.
- *Process wiring*: the source of the modules' actors.
- The in-memory stores are test doubles (the application always connects to MongoDB). Retention of
  finished missions and closes (90 days) is left out because nothing reads the rows again.

## Plan

1. (done) `ConfirmationStore`, `Confirmations`, `OneShotOrder` and the proofs; the core.
2. (done) `ScheduledCloseStore`, `MissionClose`: entry and close together.
3. (done) `ArmedMissions`.
4. (done) `BinanceOpen` and `TrailingStop` with their proofs.
5. (done) `Journal`: open rows, close orders, the result reconciler.
6. (done) `PositionStream` and `Campaigns` with proofs.
7. (done) The edge of the system: `Membership`, `Invites`, `Profiles`, `Commands`, `Chat`, `Signals`,
   `PaperRun`, in one run.
8. (done) Proofs of every safety and action property of the passing runs, and of both refinements.
9. Proofs of `UsageBounded` and `PreviewNeedsTheEstimate`; of the safety that the liveness properties
   rest on; and that the confirm of `Chat`'s orders, and the entry of `MissionClose`, implement
   `OneShotOrder` as well.

Runs are kept few, one for each distinct question: parts that share no state share a run.
