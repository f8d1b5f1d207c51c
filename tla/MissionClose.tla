----------------------------- MODULE MissionClose -----------------------------
(***************************************************************************)
(* One mission: its entry order, the plan-end close stored beside it, and    *)
(* everything that works on the two at once (internal/api/mission.go,        *)
(* command.go, armed_mission.go, scheduled_close.go):                       *)
(*   - the request that stages it (the web, or an armed mission's watcher),  *)
(*   - the user's confirm and cancel requests, at any time and repeatedly,   *)
(*   - the close pollers of all API instances.                              *)
(* The entry's confirmation is a document of ConfirmationStore.  Confirm is  *)
(* kept as take, send, settle; what happens between the halves of those      *)
(* operations is the subject of Confirmations.                              *)
(***************************************************************************)
EXTENDS ConfirmationStore, ScheduledCloseStore

CONSTANTS
  Requests,      \* request slots: HTTP handlers and the watcher's goroutine
  Pollers,       \* API instances, each with one poller
  RequestLimit,  \* the longest a request lasts before it ends or fails
  MaxFaults      \* bound: polls cut short and poll operations that fail

ASSUME MissionAssumption ==
  /\ RequestLimit \in Nat /\ MaxFaults \in Nat
  /\ AwaitTTL >= TTL + RequestLimit

VARIABLES
  entry,    \* the confirmation document of the entry
  row,      \* the scheduled close
  req,      \* req[r]: what the request r is doing
  poll,     \* poll[i]: what the poller of instance i is doing
  pos,      \* whose money is in the account's position on the symbol and side
  sent,     \* entry orders the exchange accepted (history)
  closes,   \* close orders the exchange accepted for this row (history)
  dropper,  \* who cancelled the row (history)
  told,     \* "staged": the id is known to the user; "cancelled" (history)
  faults    \* faults of polls so far (bounded)

vars == <<entry, row, req, poll, pos, sent, closes, dropper, told, faults>>
ledger == <<pos, sent, closes>>
-----------------------------------------------------------------------------
RequestSteps ==
  {"idle", "setConfirmation", "saveClose", "undo", "undoAll",
   "take", "send", "settle", "activate", "dropClose", "cancel"}
PollSteps == {"idle", "read", "resolve", "claim", "gate", "positions", "close", "mark"}

\* `outcome`: what the executor reported; `age`: how long the request has run.
RequestStates ==
  [step : RequestSteps, kind : {"web", "watcher"}, outcome : {"executed", "failed"},
   age : 0..RequestLimit]
\* `saw`: the entry's status as read; `old`: the row is past AwaitTTL;
\* `verdict`: the terminal status to write; `late`: time since the poll's clock was read.
PollStates ==
  [step : PollSteps, saw : ConfirmationStatus, old : BOOLEAN,
   verdict : {"done", "skipped"}, late : 0..PollLimit]

Droppers == {"nobody", "user", "watcher", "reconciler"}
Owners   == {"mission", "user"}

TypeOK ==
  /\ entry \in Documents
  /\ row \in Rows
  /\ req \in [Requests -> RequestStates]
  /\ poll \in [Pollers -> PollStates]
  /\ pos \in SUBSET Owners
  /\ sent \in Nat /\ closes \in Nat
  /\ dropper \in Droppers
  /\ told \in SUBSET {"staged", "cancelled"}
  /\ faults \in 0..MaxFaults

IdleRequest == [step |-> "idle", kind |-> "web", outcome |-> "failed", age |-> 0]
IdlePoll ==
  [step |-> "idle", saw |-> "absent", old |-> FALSE, verdict |-> "skipped", late |-> 0]

Init ==
  /\ \E u \in Users : entry = [status |-> "absent", ttl |-> 0, user |-> u]
  /\ row = AbsentRow
  /\ req = [r \in Requests |-> IdleRequest]
  /\ poll = [i \in Pollers |-> IdlePoll]
  /\ pos = {} /\ sent = 0 /\ closes = 0
  /\ dropper = "nobody" /\ told = {} /\ faults = 0
-----------------------------------------------------------------------------
Live == entry.ttl > 0

Goto(r, s) == req' = [req EXCEPT ![r].step = s]
End(r)     == req' = [req EXCEPT ![r] = IdleRequest]
IsWeb(r)   == req[r].kind = "web"

\* orders.Prepare, by the mission form or by an armed mission that triggered.
Stage(r, kind) ==
  /\ req[r].step = "idle" /\ entry.status = "absent"
  /\ entry' = PendingDoc(entry.user, TTL)
  /\ req' = [req EXCEPT ![r] =
               [IdleRequest EXCEPT !.kind = kind,
                  !.step = IF kind = "web" THEN "saveClose" ELSE "setConfirmation"]]
  /\ UNCHANGED <<row, poll, ledger, dropper, told, faults>>

\* SetTriggeredConfirmation shows the id to the user; if it fails or the gate has
\* closed, the confirmation is cancelled again.
SetConfirmation(r) ==
  /\ req[r].step = "setConfirmation"
  /\ \/ told' = told \cup {"staged"} /\ (Goto(r, "saveClose") \/ Goto(r, "undo"))
     \/ UNCHANGED told /\ Goto(r, "undo")
  /\ UNCHANGED <<entry, row, poll, ledger, dropper, faults>>

\* scheduleTimedMissionClose: an insert that may be applied although it reports an
\* error.  The web then replies; the watcher re-checks its gate.
SaveClose(r) ==
  /\ req[r].step = "saveClose"
  /\ \/ /\ row' = AwaitingRow
        /\ IF IsWeb(r) THEN End(r) /\ told' = told \cup {"staged"}
           ELSE (Goto(r, "take") \/ Goto(r, "undoAll")) /\ UNCHANGED told
     \/ /\ row' \in {row, AwaitingRow}
        /\ Goto(r, "undo") /\ UNCHANGED told
  /\ UNCHANGED <<entry, poll, ledger, dropper, faults>>

\* orders.Cancel on one's own confirmation; its errors are dropped.
CancelledEntry ==
  IF CanCancel(entry, entry.user, Live) THEN Cancelled(entry)
  ELSE IF Reading(entry, entry.user, Live) = "lapsed" THEN MarkedExpired(entry)
  ELSE entry

Undo(r) ==
  /\ req[r].step \in {"undo", "undoAll"}
  /\ entry' \in {CancelledEntry, entry}
  /\ IF req[r].step = "undo" THEN End(r) ELSE Goto(r, "dropClose")
  /\ UNCHANGED <<row, poll, ledger, dropper, told, faults>>
-----------------------------------------------------------------------------
\* handleConfirm: confirm or cancel, by whoever was shown the id.
Begin(r, s) ==
  /\ req[r].step = "idle" /\ "staged" \in told
  /\ Goto(r, s)
  /\ UNCHANGED <<entry, row, poll, ledger, dropper, told, faults>>

BeginConfirm(r) == Begin(r, "take")
BeginCancel(r)  == Begin(r, "dropClose")

\* A Confirm that fails: the web handler only reports it, on purpose; the watcher
\* drops the close.
ConfirmFailed(r) == IF IsWeb(r) THEN End(r) ELSE Goto(r, "dropClose")

\* TakeForExecution; a document already executed replays its result, a success too.
Take(r) ==
  /\ req[r].step = "take"
  /\ \/ /\ CanTake(entry, entry.user, Live)
        /\ entry' = Taken(entry)
        /\ Goto(r, "send") \/ ConfirmFailed(r)
     \/ /\ ~CanTake(entry, entry.user, Live)
        /\ IF entry.status = "executed" THEN Goto(r, "activate") ELSE ConfirmFailed(r)
        /\ entry' = IF entry.status = "pending" THEN MarkedExpired(entry) ELSE entry
     \/ ConfirmFailed(r) /\ UNCHANGED entry
  /\ UNCHANGED <<row, poll, ledger, dropper, told, faults>>

\* The executor: placed, refused, or placed although it reports an error.
Send(r) ==
  /\ req[r].step = "send"
  /\ \E placed, ok \in BOOLEAN :
       /\ ok => placed
       /\ sent' = IF placed THEN sent + 1 ELSE sent
       /\ pos' = IF placed THEN pos \cup {"mission"} ELSE pos
       /\ req' = [req EXCEPT ![r].step = "settle",
                             ![r].outcome = IF ok THEN "executed" ELSE "failed"]
  /\ UNCHANGED <<entry, row, poll, closes, dropper, told, faults>>

\* Complete or Fail.  Only a Complete that is known to have been applied is success.
Settle(r) ==
  /\ req[r].step = "settle"
  /\ \/ /\ CanSettle(entry)
        /\ entry' = Settled(entry, req[r].outcome)
        /\ \/ req[r].outcome = "executed" /\ Goto(r, "activate")
           \/ ConfirmFailed(r)
     \/ ConfirmFailed(r) /\ UNCHANGED entry
  /\ UNCHANGED <<row, poll, ledger, dropper, told, faults>>

\* activateScheduledClose; its error is only logged.
Activate(r) ==
  /\ req[r].step = "activate"
  /\ row' \in {Activated(row), row}
  /\ End(r)
  /\ UNCHANGED <<entry, poll, ledger, dropper, told, faults>>

DropBy(who) ==
  /\ row' = Dropped(row)
  /\ dropper' = IF CanDrop(row) THEN who ELSE dropper

\* cancelAwaitingScheduledClose.  The web's cancel does it first and whatever becomes
\* of the order; the watcher does it last.
DropClose(r) ==
  /\ req[r].step = "dropClose"
  /\ IF IsWeb(r)
     THEN /\ DropBy("user") \/ UNCHANGED <<row, dropper>>
          /\ Goto(r, "cancel")
     ELSE /\ DropBy("watcher") \/ UNCHANGED <<row, dropper>>
          /\ End(r)
  /\ UNCHANGED <<entry, poll, ledger, told, faults>>

\* orders.Cancel and the reply.
Cancel(r) ==
  /\ req[r].step = "cancel"
  /\ \/ entry' = CancelledEntry
     \/ UNCHANGED entry
  /\ told' = IF entry'.status = "cancelled" THEN told \cup {"cancelled"} ELSE told
  /\ End(r)
  /\ UNCHANGED <<row, poll, ledger, dropper, faults>>

\* The process dies, or an operation fails and the request reports it.
Abort(r) ==
  /\ req[r].step # "idle"
  /\ End(r)
  /\ UNCHANGED <<entry, row, poll, ledger, dropper, told, faults>>
-----------------------------------------------------------------------------
At(i, s)     == poll[i].step = s
Move(i, s)  == poll' = [poll EXCEPT ![i].step = s]
Rest(i)      == poll' = [poll EXCEPT ![i] = IdlePoll]
Fault        == faults < MaxFaults /\ faults' = faults + 1
Verdict(i, v) == poll' = [poll EXCEPT ![i].step = "mark", ![i].verdict = v]

ToClaim(i)   == poll' = [poll EXCEPT ![i] =
                           [IdlePoll EXCEPT !.step = "claim", !.late = poll[i].late]]

\* A poll starts: it reads its clock and lists the rows that await their entry.
StartPoll(i) ==
  /\ At(i, "idle")
  /\ poll' = [poll EXCEPT ![i] =
       IF row.status = "awaiting_entry"
       THEN [IdlePoll EXCEPT !.step = "read", !.old = Abandoned(row, 0)]
       ELSE [IdlePoll EXCEPT !.step = "claim"]]
  /\ UNCHANGED <<entry, row, req, ledger, dropper, told, faults>>

\* reconcileAwaitingCloses reads the entry's status, then acts on what it read.
ReadEntry(i) ==
  /\ At(i, "read")
  /\ \/ poll' = [poll EXCEPT ![i].step = "resolve", ![i].saw = entry.status] /\ UNCHANGED faults
     \/ ToClaim(i) /\ Fault
  /\ UNCHANGED <<entry, row, req, ledger, dropper, told>>

\* Seeded fault: an entry still in flight counts as one that never came.
GivesUpInFlight(saw, old) ==
  saw \in {"failed", "cancelled", "expired", "executing"} \/ (saw # "executed" /\ old)

\* Failed, cancelled or expired: the close is dropped.  Pending, executing or unknown:
\* only once it has waited for AwaitTTL.
GivesUp(saw, old) ==
  saw \in {"failed", "cancelled", "expired"} \/ (saw # "executed" /\ old)

\* Seeded fault: the reconciler activates the close of an entry still in flight.
ComesTrueInFlight(saw) == saw \in {"executing", "executed"}

ComesTrue(saw) == saw = "executed"

Resolve(i) ==
  /\ At(i, "resolve")
  /\ \/ /\ CASE ComesTrue(poll[i].saw) ->
                  row' = Activated(row) /\ UNCHANGED dropper
             [] ~ComesTrue(poll[i].saw) /\ GivesUp(poll[i].saw, poll[i].old) ->
                  DropBy("reconciler")
             [] OTHER -> UNCHANGED <<row, dropper>>
        /\ UNCHANGED faults
     \/ Fault /\ UNCHANGED <<row, dropper>>
  /\ ToClaim(i)
  /\ UNCHANGED <<entry, req, ledger, told>>

\* ListDue and ClaimDue have the same filter and the same clock; the claim decides.
Claim(i) ==
  /\ At(i, "claim")
  /\ IF Claimable(row, poll[i].late)
     THEN /\ row' = Claimed(row, poll[i].late)
          /\ Move(i, "gate")
     ELSE Rest(i) /\ UNCHANGED row
  /\ UNCHANGED <<entry, req, ledger, dropper, told, faults>>

\* The gate and the user's testnet key.
Gate(i) ==
  /\ At(i, "gate")
  /\ Move(i, "positions") \/ Verdict(i, "skipped")
  /\ UNCHANGED <<entry, row, req, ledger, dropper, told, faults>>

Positions(i) ==
  /\ At(i, "positions")
  /\ \/ IF pos = {} THEN Verdict(i, "done") ELSE Move(i, "close")
     \/ Verdict(i, "skipped")
  /\ UNCHANGED <<entry, row, req, ledger, dropper, told, faults>>

\* Prepare, the gate again, ConfirmWithRequiredUserExecutor: a close-all order on a
\* position that is still there, placed, refused, or placed with an error.
SendClose(i) ==
  /\ At(i, "close")
  /\ \/ /\ pos # {}
        /\ pos' = {} /\ closes' = closes + 1
        /\ Verdict(i, "done") \/ Verdict(i, "skipped")
     \/ Verdict(i, "skipped") /\ UNCHANGED <<pos, closes>>
  /\ UNCHANGED <<entry, row, req, sent, dropper, told, faults>>

Mark(i) ==
  /\ At(i, "mark")
  /\ row' = Marked(row, poll[i].verdict)
  /\ Rest(i)
  /\ UNCHANGED <<entry, req, ledger, dropper, told, faults>>

\* A crash, the poll's context deadline, or an operation that fails: the poll is over
\* and what it had claimed stays claimed.
CutShort(i) ==
  /\ ~At(i, "idle")
  /\ Fault
  /\ Rest(i)
  /\ UNCHANGED <<entry, row, req, ledger, dropper, told>>
-----------------------------------------------------------------------------
\* Stop, target, liquidation or the user take the position away; the user opens one.
PositionGone ==
  /\ pos # {} /\ pos' = {}
  /\ UNCHANGED <<entry, row, req, poll, sent, closes, dropper, told, faults>>

UserOpens ==
  /\ pos' = pos \cup {"user"}
  /\ UNCHANGED <<entry, row, req, poll, sent, closes, dropper, told, faults>>

PurgeEntry ==
  /\ Purgeable(entry) /\ entry' = Purged(entry)
  /\ UNCHANGED <<row, req, poll, ledger, dropper, told, faults>>

\* Time passes only while nobody exceeds their deadline.
Tick ==
  /\ \A r \in Requests : req[r].step # "idle" => req[r].age < RequestLimit
  /\ \A i \in Pollers : ~At(i, "idle") => poll[i].late < PollLimit
  /\ entry' = Older(entry) /\ row' = Later(row)
  /\ req' = [r \in Requests |->
               IF req[r].step = "idle" THEN req[r] ELSE [req[r] EXCEPT !.age = @ + 1]]
  /\ poll' = [i \in Pollers |->
                IF At(i, "idle") THEN poll[i] ELSE [poll[i] EXCEPT !.late = @ + 1]]
  /\ UNCHANGED <<ledger, dropper, told, faults>>

GoOn(r) ==
  \/ SetConfirmation(r) \/ SaveClose(r) \/ Undo(r)
  \/ Take(r) \/ Send(r) \/ Settle(r) \/ Activate(r) \/ DropClose(r) \/ Cancel(r)
  \/ Abort(r)

Request(r) ==
  \/ \E kind \in {"web", "watcher"} : Stage(r, kind)
  \/ BeginConfirm(r) \/ BeginCancel(r)
  \/ GoOn(r)

Poll(i) ==
  \/ StartPoll(i) \/ ReadEntry(i) \/ Resolve(i) \/ Claim(i)
  \/ Gate(i) \/ Positions(i) \/ SendClose(i) \/ Mark(i)

Next ==
  \/ \E r \in Requests : Request(r)
  \/ \E i \in Pollers : Poll(i) \/ CutShort(i)
  \/ PositionGone \/ UserOpens \/ PurgeEntry \/ Tick

\* Every instance that runs polls every 30 seconds, a request ends one way or the
\* other, and time passes.
Fairness ==
  /\ \A r \in Requests : WF_vars(GoOn(r))
  /\ \A i \in Pollers : WF_vars(Poll(i))
  /\ WF_vars(PurgeEntry) /\ WF_vars(Tick)

Spec == Init /\ [][Next]_vars /\ Fairness
-----------------------------------------------------------------------------
\* A timed close is sent only after its own entry reached the exchange, whatever else
\* the user holds on the symbol: a crash or an abandoned mission never costs the user
\* an unrelated position.
CloseNeedsEntry == closes > 0 => sent = 1

\* Two pollers never work on the claimed close at the same time.
Working == {"gate", "positions", "close", "mark"}
OneWorker ==
  \A i, j \in Pollers :
    i # j => ~(poll[i].step \in Working /\ poll[j].step \in Working)

\* The position is closed once, and once more only for each poll that was cut short
\* between claiming the row and recording the outcome.
ExtraCloseNeedsFault == closes <= 1 + faults

\* Every close that is sent is due: to an entry the exchange has, and no more often
\* than polls were cut short.
ClosesAreDue == CloseNeedsEntry /\ ExtraCloseNeedsFault

\* The reconciler never drops the close of an entry that is recorded as executed,
\* however slow the confirm was.
ReconcilerSparesExecuted ==
  entry.status = "executed" /\ row.status = "cancelled" => dropper # "reconciler"

\* After "Cancelled." neither the entry nor the close is ever sent.
CancelledMissionIsOver == "cancelled" \in told => sent = 0 /\ closes = 0

\* Every close that was stored is in the end done, skipped or cancelled: none waits for
\* ever for its entry, for its due date or for a poller that died with the claim.
CloseResolved == row.status # "absent" ~> row.status \in Terminal

\* scheduled_close.go: reconcileAwaitingCloses drops a close "so a genuinely-executed
\* entry never loses its close": unless the entry was recorded as failed, an order the
\* exchange accepted keeps it.
ExecutedEntryNeverLosesItsClose ==
  sent > 0 /\ entry.status # "failed" /\ row.status = "cancelled" => dropper # "reconciler"

\* scheduled_close.go: cancelAwaitingScheduledClose "drops the awaiting close for an
\* entry that was cancelled or failed".
DroppedOnlyWithoutEntry ==
  row.status = "cancelled" /\ entry.status = "executed" => dropper # "user"
=============================================================================
