------------------------- MODULE ScheduledCloseStore -------------------------
(***************************************************************************)
(* The `scheduled_closes` collection (internal/app/scheduled_closes.go): the *)
(* plan-end close of one mission entry, and the conditional updates that     *)
(* move it.  Each operator is one FindOneAndUpdate, atomic in MongoDB.       *)
(*                                                                         *)
(* A poll reads its clock once and passes that reading to every operation it *)
(* does; `late` is how long ago that was.  Times are kept relative to the    *)
(* present: due_at = now + due, created_at = now - age, updated_at = now -   *)
(* held, each cut off where the filters no longer tell values apart and      *)
(* reset to 0 where they no longer look.                                     *)
(***************************************************************************)
EXTENDS Integers

CONSTANTS
  Window,         \* WindowSeconds: from activation to the plan's end
  AwaitTTL,       \* scheduledCloseAwaitingTTL
  ClaimTimeout,   \* ScheduledCloseClaimTimeout
  PollLimit       \* the context deadline of one poll, so the greatest `late`

ASSUME CloseAssumption ==
  /\ Window \in Nat /\ AwaitTTL \in Nat /\ PollLimit \in Nat
  /\ ClaimTimeout \in Nat /\ ClaimTimeout > PollLimit

CloseStatus ==
  {"absent", "awaiting_entry", "pending", "executing", "done", "cancelled", "skipped"}
Terminal == {"done", "cancelled", "skipped"}

MaxAge  == AwaitTTL + PollLimit + 1
MaxHeld == ClaimTimeout + PollLimit

Rows ==
  [status : CloseStatus, due : -PollLimit..Window, age : 0..MaxAge, held : 0..MaxHeld]

AbsentRow == [status |-> "absent", due |-> 0, age |-> 0, held |-> 0]

\* scheduleTimedMissionClose inserts it before the entry can be confirmed.
AwaitingRow == [AbsentRow EXCEPT !.status = "awaiting_entry"]

\* ActivateByEntryConfirmation: due_at = now + window_seconds.
Activated(row) ==
  IF row.status = "awaiting_entry"
  THEN [AbsentRow EXCEPT !.status = "pending", !.due = Window]
  ELSE row

\* CancelByEntryConfirmation.
CanDrop(row) == row.status \in {"awaiting_entry", "pending"}
Dropped(row) == IF CanDrop(row) THEN [AbsentRow EXCEPT !.status = "cancelled"] ELSE row

\* Seeded faults: a claim that is never given up, or never respected.
NeverStale(row, late) == FALSE
ClaimableAnyTime(row, late) ==
  row.due + late <= 0 /\ row.status \in {"pending", "executing"}

\* scheduledCloseClaimFilter: pending and due, or executing and due and not
\* updated for ClaimTimeout.  ClaimDue stamps it with the poll's clock.
IsStale(row, late) == row.held - late >= ClaimTimeout
Claimable(row, late) ==
  /\ row.due + late <= 0
  /\ \/ row.status = "pending"
     \/ row.status = "executing" /\ IsStale(row, late)
Claimed(row, late) == [row EXCEPT !.status = "executing", !.held = late]

\* Seeded fault: the filter of the terminal update names the wrong status.
MarkedFromPending(row, outcome) ==
  IF row.status = "pending" THEN [AbsentRow EXCEPT !.status = outcome] ELSE row

\* MarkDone and MarkSkipped: only from executing.
Marked(row, outcome) ==
  IF row.status = "executing" THEN [AbsentRow EXCEPT !.status = outcome] ELSE row

\* created_at before staleBefore, by the poll's clock.
Abandoned(row, late) == row.age - late > AwaitTTL

\* Seeded fault: a time that is never cut off.
UpUnbounded(n, top) == n + 1

\* One unit of time, for the rows whose times are still looked at.
Up(n, top) == IF n < top THEN n + 1 ELSE n
Later(row) ==
  CASE row.status = "awaiting_entry" -> [row EXCEPT !.age = Up(@, MaxAge)]
    [] row.status = "pending"        -> [row EXCEPT !.due = IF @ > -PollLimit THEN @ - 1 ELSE @]
    [] row.status = "executing"      -> [row EXCEPT !.due = IF @ > -PollLimit THEN @ - 1 ELSE @,
                                                    !.held = Up(@, MaxHeld)]
    [] OTHER                         -> row
=============================================================================
