-------------------------- MODULE ConfirmationStore --------------------------
(***************************************************************************)
(* The `confirmations` collection of MongoDB (internal/storage/mongo/       *)
(* confirmations.go): one document per prepared order, and the conditional  *)
(* updates that move it.  Every operator below is one database operation    *)
(* on one document; MongoDB makes each of them atomic and nothing else.     *)
(*                                                                         *)
(* Time is kept as the time a document still has: `ttl` counts down to 0,   *)
(* and "expires_at > now" is ttl > 0.  A caller reads its clock BEFORE the  *)
(* operation, so the operators take the answer it got (`live`) and not the  *)
(* document's present ttl.                                                 *)
(***************************************************************************)
EXTENDS Integers

CONSTANTS
  Users,      \* Telegram user ids
  TTL,        \* Service.ttl: how long a pending confirmation may be taken
  Retention   \* terminalConfirmationRetention: how long a settled one is kept

ASSUME StoreAssumption == /\ TTL \in Nat \ {0}
                          /\ Retention \in Nat

\* "absent": never inserted; "purged": removed by the TTL index.
ConfirmationStatus ==
  {"absent", "pending", "executing", "executed", "cancelled", "expired", "failed",
   "purged"}

Documents == [status : ConfirmationStatus, ttl : Nat, user : Users]

Present(doc) == doc.status \notin {"absent", "purged"}

\* Put: the document Prepare inserts, with what is left of its time to live.
PendingDoc(u, left) == [status |-> "pending", ttl |-> left, user |-> u]

\* Seeded faults: filters of the conditional updates that lost a condition.
CanTakeAnyStatus(doc, u, live) == Present(doc) /\ doc.user = u /\ live
CanCancelInFlight(doc, u, live) ==
  doc.status \in {"pending", "executing"} /\ doc.user = u /\ live
CanCancelAny(doc, u, live) == Present(doc) /\ doc.user = u /\ live
PurgeableIfSettled(doc) == Present(doc) /\ doc.status # "executing" /\ doc.ttl = 0
MarkedExpiredAlways(doc) == IF Present(doc) THEN [doc EXCEPT !.status = "expired"] ELSE doc
ReadingInFlightAsDone(doc, u, live) ==
  IF ~Present(doc) THEN "not_found"
  ELSE IF doc.user # u THEN "forbidden"
  ELSE IF doc.status \in {"executing", "executed"} THEN "executed"
  ELSE IF doc.status # "pending" THEN doc.status
  ELSE IF live THEN "executing"
  ELSE "lapsed"
SettledUnreadable(doc, outcome) == [doc EXCEPT !.status = "done", !.ttl = Retention]

\* TakeForExecution's filter and update: pending and unexpired becomes executing.
CanTake(doc, u, live) == doc.status = "pending" /\ doc.user = u /\ live
Taken(doc) == [doc EXCEPT !.status = "executing"]

\* Complete and Fail: only from executing, and the document is kept for Retention.
CanSettle(doc) == doc.status = "executing"
Settled(doc, outcome) == [doc EXCEPT !.status = outcome, !.ttl = Retention]

\* Cancel's filter: pending and unexpired; the document keeps its expiry.
CanCancel(doc, u, live) == doc.status = "pending" /\ doc.user = u /\ live
Cancelled(doc) == [doc EXCEPT !.status = "cancelled"]

\* markExpired: only from pending, whatever the reader saw before.
MarkedExpired(doc) ==
  IF doc.status = "pending" THEN [doc EXCEPT !.status = "expired"] ELSE doc

\* What resultForExistingConfirmation and Cancel read off a document their
\* conditional update did not match.  "lapsed" is a pending document past its
\* expiry, which the reader then marks expired.
Reading(doc, u, live) ==
  IF ~Present(doc) THEN "not_found"
  ELSE IF doc.user # u THEN "forbidden"
  ELSE IF doc.status # "pending" THEN doc.status
  ELSE IF live THEN "executing"
  ELSE "lapsed"

\* The TTL index on expires_at (ensureIndexes): any document, whatever its status.
Purgeable(doc) == Present(doc) /\ doc.ttl = 0
Purged(doc) == [doc EXCEPT !.status = "purged"]

\* The passing of one unit of time.
Older(doc) == IF doc.ttl > 0 THEN [doc EXCEPT !.ttl = @ - 1] ELSE doc
=============================================================================
