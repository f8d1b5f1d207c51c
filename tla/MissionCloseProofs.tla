-------------------------- MODULE MissionCloseProofs --------------------------
(***************************************************************************)
(* Machine-checked proofs about MissionClose, for any number of requests,   *)
(* pollers and faults and all time limits that MissionAssumption and        *)
(* CloseAssumption allow.                                                  *)
(*                                                                         *)
(* The argument: one request at most holds the entry between its take and   *)
(* its settlement, so `sent` is what the entry's status says (EntryTrue).   *)
(* A row moves on from awaiting_entry only if the entry was sent, and only   *)
(* through its claims from then on; a claim is respected for ClaimTimeout,  *)
(* which outlives the poll that made it, so one poller at most works on it  *)
(* (RowTrue) and each close that is sent is followed by its mark or by a    *)
(* fault.  A row that has waited for AwaitTTL is older than the entry's     *)
(* time to live and the longest request together, so that whatever the      *)
(* poller reads of the entry afterwards is final (TimesTrue, PollsTrue).    *)
(***************************************************************************)
EXTENDS MissionClose, TLAPS

\* A request between its successful TakeForExecution and its settlement.
Holding(r) == req[r].step \in {"send", "settle"}

\* A request that staged the entry and has not stored its close.
Staging(r) == req[r].step \in {"setConfirmation", "saveClose"}

\* Nothing will take the entry any more, and nobody holds it.
NothingToCome ==
  /\ entry.status # "absent"
  /\ entry.status = "pending" => entry.ttl = 0
  /\ \A r \in Requests : ~Holding(r)

\* ... and it was not executed: it never will be.
NeverExecuted == NothingToCome /\ entry.status # "executed"

\* The history of the entry agrees with its document and with who holds it.
EntryTrue ==
  /\ sent \in {0, 1}
  /\ entry.status \in {"absent", "pending", "cancelled", "expired"} => sent = 0
  /\ entry.status = "executed" => sent = 1
  /\ \A r, q \in Requests : r # q => ~(Holding(r) /\ Holding(q))
  /\ \A r \in Requests :
       /\ Holding(r) => entry.status \in {"executing", "purged"}
       /\ req[r].step = "send" => sent = 0
       /\ req[r].step = "settle" /\ req[r].outcome = "executed" => sent = 1
       /\ req[r].step = "activate" => sent = 1
  /\ "cancelled" \in told =>
       sent = 0 /\ NothingToCome /\ entry.status \in {"cancelled", "purged"}

\* The close is stored once, by the request that staged the entry.
StagingAlone ==
  /\ entry.status = "absent" => row.status = "absent"
  /\ \A r \in Requests : Staging(r) => entry.status # "absent" /\ row.status = "absent"
  /\ \A r, q \in Requests : r # q => ~(Staging(r) /\ Staging(q))

\* What has become of the row, and of the money, says who works on it.
RowTrue ==
  /\ row.status \in {"pending", "executing", "done", "skipped"} => sent = 1
  /\ row.status \in {"absent", "awaiting_entry", "pending", "cancelled"} => closes = 0
  /\ closes <= 1 + faults
  /\ row.status = "executing" /\ (\A i \in Pollers : ~At(i, "mark")) => closes <= faults
  /\ \A i \in Pollers :
       poll[i].step \in Working => row.status = "executing" /\ row.held = poll[i].late
  /\ OneWorker

\* A row that waits is not older than its entry, whose times it therefore bounds.
TimesTrue ==
  /\ entry.status = "pending" => entry.ttl <= TTL
  /\ row.status = "awaiting_entry" /\ entry.status = "pending" /\ entry.ttl > 0 =>
       row.age + entry.ttl <= TTL
  /\ \A r \in Requests :
       row.status = "awaiting_entry" /\ Holding(r) => row.age <= TTL + req[r].age

\* What a poll knows of the entry stays true until it acts on it.
PollsTrue ==
  /\ \A i \in Pollers :
       /\ poll[i].step \in {"read", "resolve"} /\ poll[i].old => NothingToCome
       /\ poll[i].step = "resolve" /\ poll[i].saw = "executed" => sent = 1
       /\ poll[i].step = "resolve" /\ GivesUp(poll[i].saw, poll[i].old) => NeverExecuted
  /\ dropper = "reconciler" => NeverExecuted

IInv == TypeOK /\ EntryTrue /\ StagingAlone /\ RowTrue /\ TimesTrue /\ PollsTrue
-----------------------------------------------------------------------------
\* Types of what the limits of the store and of the requests are made of.
LEMMA LimitTypes ==
  /\ TTL \in Nat \ {0} /\ Retention \in Nat
  /\ Window \in Nat /\ AwaitTTL \in Nat /\ PollLimit \in Nat /\ ClaimTimeout \in Nat
  /\ ClaimTimeout > PollLimit /\ AwaitTTL >= TTL + RequestLimit
  /\ RequestLimit \in Nat /\ MaxFaults \in Nat
  /\ MaxAge \in Nat /\ MaxHeld \in Nat /\ MaxHeld >= ClaimTimeout + PollLimit
BY StoreAssumption, CloseAssumption, MissionAssumption DEF MaxAge, MaxHeld

\* What each conditional update makes of the row.
LEMMA RowUpdates ==
  ASSUME NEW r \in Rows
  PROVE  /\ AwaitingRow \in Rows /\ AwaitingRow.status = "awaiting_entry" /\ AwaitingRow.age = 0
         /\ Activated(r) \in Rows
         /\ r.status = "awaiting_entry" => Activated(r).status = "pending"
         /\ r.status # "awaiting_entry" => Activated(r) = r
         /\ Dropped(r) \in Rows
         /\ CanDrop(r) => Dropped(r).status = "cancelled"
         /\ ~CanDrop(r) => Dropped(r) = r
         /\ \A o \in {"done", "skipped"} :
              /\ Marked(r, o) \in Rows
              /\ r.status = "executing" => Marked(r, o).status = o
              /\ r.status # "executing" => Marked(r, o) = r
         /\ \A n \in 0..PollLimit :
              /\ Claimed(r, n) \in Rows
              /\ Claimed(r, n).status = "executing" /\ Claimed(r, n).held = n
         /\ Later(r) \in Rows /\ Later(r).status = r.status
<1>1. AbsentRow \in Rows
  BY LimitTypes DEF AbsentRow, Rows, CloseStatus
<1>2. AwaitingRow \in Rows /\ AwaitingRow.status = "awaiting_entry" /\ AwaitingRow.age = 0
  BY LimitTypes DEF AwaitingRow, AbsentRow, Rows, CloseStatus
<1>3. /\ Activated(r) \in Rows
      /\ r.status = "awaiting_entry" => Activated(r).status = "pending"
      /\ r.status # "awaiting_entry" => Activated(r) = r
  <2>1. \A w \in -PollLimit..Window :
           /\ [AbsentRow EXCEPT !.status = "pending", !.due = w] \in Rows
           /\ [AbsentRow EXCEPT !.status = "pending", !.due = w].status = "pending"
    BY <1>1 DEF Rows, CloseStatus
  <2>2. Window \in -PollLimit..Window
    BY LimitTypes
  <2>3. QED
    BY <2>1, <2>2 DEF Activated
<1>4. /\ Dropped(r) \in Rows
      /\ CanDrop(r) => Dropped(r).status = "cancelled"
      /\ ~CanDrop(r) => Dropped(r) = r
  BY LimitTypes DEF Dropped, AbsentRow, Rows, CloseStatus
<1>5. ASSUME NEW o \in {"done", "skipped"}
      PROVE  /\ Marked(r, o) \in Rows
             /\ r.status = "executing" => Marked(r, o).status = o
             /\ r.status # "executing" => Marked(r, o) = r
  BY LimitTypes DEF Marked, AbsentRow, Rows, CloseStatus
<1>6. ASSUME NEW n \in 0..PollLimit
      PROVE  /\ Claimed(r, n) \in Rows
             /\ Claimed(r, n).status = "executing" /\ Claimed(r, n).held = n
  <2>1. n \in 0..MaxHeld
    BY LimitTypes
  <2>2. QED
    BY <2>1 DEF Claimed, Rows, CloseStatus
<1>7. Later(r) \in Rows /\ Later(r).status = r.status
  <2>1. /\ \A n \in 0..MaxAge : Up(n, MaxAge) \in 0..MaxAge
        /\ \A n \in 0..MaxHeld : Up(n, MaxHeld) \in 0..MaxHeld
    BY LimitTypes DEF Up
  <2>2. CASE r.status = "awaiting_entry"
    BY <2>1, <2>2 DEF Later, Rows
  <2>3. CASE r.status \in {"pending", "executing"}
    <3>1. \A d \in -PollLimit..Window :
             (IF d > -PollLimit THEN d - 1 ELSE d) \in -PollLimit..Window
      BY LimitTypes
    <3>2. QED
      BY <2>1, <2>3, <3>1 DEF Later, Rows
  <2>4. CASE r.status \notin {"awaiting_entry", "pending", "executing"}
    BY <2>4 DEF Later
  <2>5. QED
    BY <2>2, <2>3, <2>4
<1>8. QED
  BY <1>2, <1>3, <1>4, <1>5, <1>6, <1>7

\* How the times of a row pass: a wait grows by one at most, a claim by one exactly
\* while it is respected.
LEMMA RowAges ==
  ASSUME NEW r \in Rows
  PROVE  /\ r.status = "awaiting_entry" => Later(r).age <= r.age + 1
         /\ r.status = "executing" /\ r.held < PollLimit => Later(r).held = r.held + 1
BY LimitTypes DEF Later, Up, Rows

\* What the updates of the store make of the entry's document.
LEMMA EntryUpdates ==
  ASSUME NEW doc \in Documents
  PROVE  /\ Taken(doc) \in Documents /\ Taken(doc).status = "executing"
         /\ Taken(doc).ttl = doc.ttl
         /\ \A o \in {"executed", "failed"} :
              Settled(doc, o) \in Documents /\ Settled(doc, o).status = o
         /\ Cancelled(doc) \in Documents /\ Cancelled(doc).status = "cancelled"
         /\ MarkedExpired(doc) \in Documents
         /\ doc.status = "pending" => MarkedExpired(doc).status = "expired"
         /\ doc.status # "pending" => MarkedExpired(doc) = doc
         /\ Purged(doc) \in Documents /\ Purged(doc).status = "purged"
         /\ Older(doc) \in Documents /\ Older(doc).status = doc.status
         /\ doc.ttl > 0 => Older(doc).ttl = doc.ttl - 1
         /\ doc.ttl = 0 => Older(doc).ttl = 0
<1>1. /\ Taken(doc) \in Documents /\ Taken(doc).status = "executing"
      /\ Taken(doc).ttl = doc.ttl
  BY DEF Documents, ConfirmationStatus, Taken
<1>2. ASSUME NEW o \in {"executed", "failed"}
      PROVE  Settled(doc, o) \in Documents /\ Settled(doc, o).status = o
  BY LimitTypes DEF Documents, ConfirmationStatus, Settled
<1>3. /\ Cancelled(doc) \in Documents /\ Cancelled(doc).status = "cancelled"
      /\ Purged(doc) \in Documents /\ Purged(doc).status = "purged"
  BY DEF Documents, ConfirmationStatus, Cancelled, Purged
<1>4. /\ MarkedExpired(doc) \in Documents
      /\ doc.status = "pending" => MarkedExpired(doc).status = "expired"
      /\ doc.status # "pending" => MarkedExpired(doc) = doc
  BY DEF Documents, ConfirmationStatus, MarkedExpired
<1>5. /\ Older(doc) \in Documents /\ Older(doc).status = doc.status
      /\ doc.ttl > 0 => Older(doc).ttl = doc.ttl - 1
      /\ doc.ttl = 0 => Older(doc).ttl = 0
  BY DEF Documents, Older
<1>6. QED
  BY <1>1, <1>2, <1>3, <1>4, <1>5

\* A request that goes on keeps everything but its step.
LEMMA GotoEffect ==
  ASSUME TypeOK, NEW r \in Requests, NEW s \in RequestSteps, Goto(r, s)
  PROVE  /\ req' \in [Requests -> RequestStates]
         /\ req'[r].step = s /\ req'[r].outcome = req[r].outcome
         /\ req'[r].age = req[r].age /\ req'[r].kind = req[r].kind
         /\ \A q \in Requests : q # r => req'[q] = req[q]
BY DEF TypeOK, Goto, RequestStates

\* A request that ends is idle.
LEMMA EndEffect ==
  ASSUME TypeOK, NEW r \in Requests, End(r)
  PROVE  /\ req' \in [Requests -> RequestStates]
         /\ req'[r] = IdleRequest /\ IdleRequest.step = "idle"
         /\ \A q \in Requests : q # r => req'[q] = req[q]
BY LimitTypes DEF TypeOK, End, IdleRequest, RequestStates, RequestSteps

\* A poller that goes on keeps what it has read.
LEMMA MoveEffect ==
  ASSUME TypeOK, NEW i \in Pollers, NEW s \in PollSteps, Move(i, s)
  PROVE  /\ poll' \in [Pollers -> PollStates]
         /\ poll'[i].step = s /\ poll'[i].late = poll[i].late
         /\ poll'[i].saw = poll[i].saw /\ poll'[i].old = poll[i].old
         /\ \A j \in Pollers : j # i => poll'[j] = poll[j]
BY DEF TypeOK, Move, PollStates

LEMMA VerdictEffect ==
  ASSUME TypeOK, NEW i \in Pollers, NEW v \in {"done", "skipped"}, Verdict(i, v)
  PROVE  /\ poll' \in [Pollers -> PollStates]
         /\ poll'[i].step = "mark" /\ poll'[i].late = poll[i].late
         /\ \A j \in Pollers : j # i => poll'[j] = poll[j]
BY DEF TypeOK, Verdict, PollStates, PollSteps

\* A poller that is done with the list, or with the poll, has nothing in hand.
LEMMA ToClaimEffect ==
  ASSUME TypeOK, NEW i \in Pollers, ToClaim(i)
  PROVE  /\ poll' \in [Pollers -> PollStates]
         /\ poll'[i].step = "claim" /\ poll'[i].late = poll[i].late
         /\ \A j \in Pollers : j # i => poll'[j] = poll[j]
BY LimitTypes DEF TypeOK, ToClaim, PollStates, PollSteps, IdlePoll, ConfirmationStatus

LEMMA RestEffect ==
  ASSUME TypeOK, NEW i \in Pollers, Rest(i)
  PROVE  /\ poll' \in [Pollers -> PollStates]
         /\ poll'[i].step = "idle"
         /\ \A j \in Pollers : j # i => poll'[j] = poll[j]
BY LimitTypes DEF TypeOK, Rest, PollStates, PollSteps, IdlePoll, ConfirmationStatus
-----------------------------------------------------------------------------
\* Most steps of requests leave everything but the entry, its requests and the replies
\* alone; the entry moves on without being taken, ...
EntryMoves(r) ==
  /\ entry' \in Documents
  /\ \/ entry' = entry
     \/ entry.status = "pending" /\ entry'.status \in {"cancelled", "expired"}
     \/ entry.status = "executing" /\ Holding(r) /\ entry'.status = "failed"
     \/ entry.status = "executing" /\ Holding(r) /\ entry'.status = "executed" /\ sent = 1

\* ... and the request goes on without anything to hold, ...
RequestMoves(r) ==
  /\ req' \in [Requests -> RequestStates]
  /\ \A q \in Requests : q # r => req'[q] = req[q]
  /\ ~Holding(r)'
  /\ Staging(r)' => Staging(r)
  /\ req'[r].step = "activate" => sent = 1

\* ... and says only what is so.
TellsTrue ==
  /\ told' \in SUBSET {"staged", "cancelled"}
  /\ "cancelled" \in told' => "cancelled" \in told \/ entry'.status = "cancelled"

\* A step of this kind keeps the invariant.
LEMMA OrdinaryRequest ==
  ASSUME IInv, NEW r \in Requests, EntryMoves(r), RequestMoves(r), TellsTrue,
         UNCHANGED <<row, poll, ledger, dropper, faults>>
  PROVE  IInv'
<1>1. TypeOK'
  BY DEF IInv, TypeOK, EntryMoves, RequestMoves, TellsTrue, ledger
<1>2. \A q \in Requests : Holding(q)' => q # r /\ Holding(q) /\ req'[q] = req[q]
  BY DEF RequestMoves, Holding
<1>3. UNCHANGED <<row, poll, pos, sent, closes, dropper, faults>>
  BY DEF ledger
<1>4. \/ entry' = entry
      \/ /\ entry.status = "pending" /\ entry'.status \in {"cancelled", "expired"}
         /\ \A q \in Requests : ~Holding(q)
      \/ /\ entry.status = "executing" /\ Holding(r) /\ ~NothingToCome
         /\ \A q \in Requests : ~Holding(q)'
         /\ \/ entry'.status = "failed"
            \/ entry'.status = "executed" /\ sent = 1
  BY <1>2 DEF IInv, EntryTrue, EntryMoves, NothingToCome
<1>5. NothingToCome => NothingToCome'
  BY <1>2, <1>4 DEF NothingToCome
<1>6. NeverExecuted => NeverExecuted'
  BY <1>4, <1>5 DEF NeverExecuted
<1>7. EntryTrue'
  <2>1. /\ sent' \in {0, 1}
        /\ entry'.status \in {"absent", "pending", "cancelled", "expired"} => sent' = 0
        /\ entry'.status = "executed" => sent' = 1
    BY <1>3, <1>4 DEF IInv, EntryTrue
  <2>2. \A q, p \in Requests : q # p => ~(Holding(q)' /\ Holding(p)')
    BY <1>2 DEF IInv, EntryTrue
  <2>3. ASSUME NEW q \in Requests
        PROVE  /\ Holding(q)' => entry'.status \in {"executing", "purged"}
               /\ req'[q].step = "send" => sent' = 0
               /\ req'[q].step = "settle" /\ req'[q].outcome = "executed" => sent' = 1
               /\ req'[q].step = "activate" => sent' = 1
    <3>1. CASE q = r
      BY <3>1, <1>3 DEF RequestMoves, Holding
    <3>2. CASE q # r
      <4>1. req'[q] = req[q]
        BY <3>2 DEF RequestMoves
      <4>2. Holding(q)' => entry' = entry /\ Holding(q)
        BY <3>2, <1>2, <1>4 DEF IInv, EntryTrue
      <4>3. QED
        BY <4>1, <4>2, <1>3 DEF IInv, EntryTrue
    <3>3. QED
      BY <3>1, <3>2
  <2>4. "cancelled" \in told' =>
          sent' = 0 /\ NothingToCome' /\ entry'.status \in {"cancelled", "purged"}
    <3>1. CASE "cancelled" \in told
      BY <3>1, <1>3, <1>4, <1>5 DEF IInv, EntryTrue
    <3>2. CASE "cancelled" \in told' /\ "cancelled" \notin told /\ entry'.status = "cancelled"
      <4>1. \A q \in Requests : ~Holding(q)'
        BY <3>2, <1>2, <1>4 DEF IInv, EntryTrue
      <4>2. QED
        BY <3>2, <4>1, <2>1 DEF NothingToCome
    <3>3. QED
      BY <3>1, <3>2 DEF TellsTrue
  <2>5. QED
    BY <2>1, <2>2, <2>3, <2>4 DEF EntryTrue
<1>8. StagingAlone'
  <2>1. \A q \in Requests : Staging(q)' => Staging(q)
    BY DEF RequestMoves, Staging
  <2>2. entry.status # "absent" <=> entry'.status # "absent"
    BY <1>4
  <2>3. QED
    BY <2>1, <2>2, <1>3 DEF IInv, StagingAlone
<1>9. RowTrue'
  BY <1>3 DEF IInv, RowTrue, OneWorker, At
<1>10. TimesTrue'
  <2>1. entry'.status = "pending" => entry' = entry
    BY <1>4
  <2>2. QED
    BY <2>1, <1>2, <1>3 DEF IInv, TimesTrue
<1>11. PollsTrue'
  BY <1>3, <1>5, <1>6 DEF IInv, PollsTrue
<1>12. QED
  BY <1>1, <1>7, <1>8, <1>9, <1>10, <1>11 DEF IInv
-----------------------------------------------------------------------------
\* Most steps of a poller change what it has in hand and nothing else: it begins to
\* work on a row only by claiming it, and knows of the entry what it has read.
PollMoves(i) ==
  /\ poll' \in [Pollers -> PollStates]
  /\ \A j \in Pollers : j # i => poll'[j] = poll[j]
  /\ poll'[i].step \in Working => poll[i].step \in Working /\ poll'[i].late = poll[i].late
  /\ poll[i].step = "mark" => poll'[i].step = "mark" \/ faults' = faults + 1
  /\ poll'[i].step \in {"read", "resolve"} /\ poll'[i].old => NothingToCome
  /\ poll'[i].step = "resolve" /\ poll'[i].saw = "executed" => sent = 1
  /\ poll'[i].step = "resolve" /\ GivesUp(poll'[i].saw, poll'[i].old) => NeverExecuted

LEMMA OrdinaryPoll ==
  ASSUME IInv, NEW i \in Pollers, PollMoves(i),
         faults' \in 0..MaxFaults, faults' >= faults,
         UNCHANGED <<entry, row, req, ledger, dropper, told>>
  PROVE  IInv'
<1>1. UNCHANGED <<entry, row, req, pos, sent, closes, dropper, told>>
  BY DEF ledger
<1>2. TypeOK'
  BY <1>1 DEF IInv, TypeOK, PollMoves
<1>3. (NothingToCome' <=> NothingToCome) /\ (NeverExecuted' <=> NeverExecuted)
  BY <1>1 DEF NothingToCome, NeverExecuted, Holding
<1>4. EntryTrue' /\ StagingAlone' /\ TimesTrue'
  BY <1>1, <1>3 DEF IInv, EntryTrue, StagingAlone, TimesTrue, Holding, Staging
<1>5. RowTrue'
  <2>1. \A j \in Pollers :
          /\ poll'[j].step \in Working => poll[j].step \in Working /\ poll'[j].late = poll[j].late
          /\ poll[j].step = "mark" => poll'[j].step = "mark" \/ faults' = faults + 1
    BY DEF PollMoves
  <2>2. OneWorker'
    BY <2>1 DEF IInv, RowTrue, OneWorker
  <2>3. \A j \in Pollers :
          poll'[j].step \in Working => row'.status = "executing" /\ row'.held = poll'[j].late
    BY <2>1, <1>1 DEF IInv, RowTrue
  <2>4. closes' <= 1 + faults'
    BY <1>1 DEF IInv, RowTrue, TypeOK
  <2>5. ASSUME row'.status = "executing", \A j \in Pollers : poll'[j].step # "mark"
        PROVE  closes' <= faults'
    <3>1. CASE \E j \in Pollers : poll[j].step = "mark"
      BY <3>1, <2>1, <2>5, <1>1 DEF IInv, RowTrue, TypeOK
    <3>2. CASE \A j \in Pollers : poll[j].step # "mark"
      BY <3>2, <2>5, <1>1 DEF IInv, RowTrue, TypeOK, At
    <3>3. QED
      BY <3>1, <3>2
  <2>6. QED
    BY <2>2, <2>3, <2>4, <2>5, <1>1 DEF IInv, RowTrue, At
<1>6. PollsTrue'
  BY <1>1, <1>3 DEF IInv, PollsTrue, PollMoves
<1>7. QED
  BY <1>2, <1>4, <1>5, <1>6 DEF IInv
-----------------------------------------------------------------------------
\* A row nobody works on is activated after its entry, or dropped.
RowMoves ==
  /\ row' \in Rows
  /\ \/ row' = row
     \/ row.status = "awaiting_entry" /\ row'.status = "pending" /\ sent = 1
     \/ CanDrop(row) /\ row'.status = "cancelled"

LEMMA RowStep ==
  ASSUME IInv, RowMoves,
         UNCHANGED req \/ \E r \in Requests : RequestMoves(r),
         UNCHANGED poll \/ \E i \in Pollers : PollMoves(i),
         faults' \in 0..MaxFaults, faults' >= faults,
         dropper' \in Droppers, dropper' = "reconciler" => NeverExecuted,
         UNCHANGED <<entry, ledger, told>>
  PROVE  IInv'
<1>1. UNCHANGED <<entry, pos, sent, closes, told>>
  BY DEF ledger
<1>2. TypeOK'
  BY <1>1 DEF IInv, TypeOK, PollMoves, RequestMoves, RowMoves
<1>3. \A q \in Requests :
        /\ Holding(q)' => Holding(q) /\ req'[q] = req[q]
        /\ Staging(q)' => Staging(q)
        /\ req'[q].step = "activate" => sent = 1
  BY DEF RequestMoves, Holding, Staging, IInv, EntryTrue
<1>4. \A j \in Pollers :
        /\ poll'[j].step \in Working => poll[j].step \in Working /\ poll'[j].late = poll[j].late
        /\ poll[j].step = "mark" => poll'[j].step = "mark" \/ faults' = faults + 1
  BY DEF PollMoves
<1>5. (NothingToCome => NothingToCome') /\ (NeverExecuted => NeverExecuted')
  BY <1>1, <1>3 DEF NothingToCome, NeverExecuted
<1>6. EntryTrue'
  <2>1. \A q \in Requests :
          /\ req'[q].step = "send" => sent' = 0
          /\ req'[q].step = "settle" /\ req'[q].outcome = "executed" => sent' = 1
    BY <1>1, <1>3 DEF IInv, EntryTrue, Holding
  <2>2. QED
    BY <2>1, <1>1, <1>3, <1>5 DEF IInv, EntryTrue
<1>7. StagingAlone'
  BY <1>1, <1>3 DEF IInv, StagingAlone, RowMoves, CanDrop
<1>8. RowTrue'
  <2>1. OneWorker'
    BY <1>4 DEF IInv, RowTrue, OneWorker
  <2>2. \A j \in Pollers :
          poll'[j].step \in Working => row'.status = "executing" /\ row'.held = poll'[j].late
    BY <1>4 DEF IInv, RowTrue, RowMoves, CanDrop
  <2>3. closes' <= 1 + faults'
    BY <1>1 DEF IInv, RowTrue, TypeOK
  <2>4. ASSUME row'.status = "executing", \A j \in Pollers : poll'[j].step # "mark"
        PROVE  closes' <= faults'
    <3>1. row.status = "executing"
      BY <2>4 DEF RowMoves
    <3>2. CASE \E j \in Pollers : poll[j].step = "mark"
      BY <3>2, <2>4, <1>1, <1>4 DEF IInv, RowTrue, TypeOK
    <3>3. CASE \A j \in Pollers : poll[j].step # "mark"
      BY <3>1, <3>3, <1>1 DEF IInv, RowTrue, TypeOK, At
    <3>4. QED
      BY <3>2, <3>3
  <2>5. /\ row'.status \in {"pending", "executing", "done", "skipped"} => sent' = 1
        /\ row'.status \in {"absent", "awaiting_entry", "pending", "cancelled"} => closes' = 0
    BY <1>1 DEF IInv, RowTrue, RowMoves, CanDrop
  <2>6. QED
    BY <2>1, <2>2, <2>3, <2>4, <2>5 DEF RowTrue, At
<1>9. TimesTrue'
  BY <1>1, <1>3 DEF IInv, TimesTrue, RowMoves
<1>10. PollsTrue'
  <2>1. ASSUME NEW j \in Pollers
        PROVE  /\ poll'[j].step \in {"read", "resolve"} /\ poll'[j].old => NothingToCome
               /\ poll'[j].step = "resolve" /\ poll'[j].saw = "executed" => sent = 1
               /\ poll'[j].step = "resolve" /\ GivesUp(poll'[j].saw, poll'[j].old)
                    => NeverExecuted
    BY DEF PollMoves, IInv, PollsTrue
  <2>2. QED
    BY <2>1, <1>1, <1>5 DEF PollsTrue
<1>11. QED
  BY <1>2, <1>6, <1>7, <1>8, <1>9, <1>10 DEF IInv
-----------------------------------------------------------------------------
\* Staging: the entry's one insert; before it there is nothing to be wrong about.
LEMMA StageStep ==
  ASSUME IInv, NEW r \in Requests, NEW kind \in {"web", "watcher"}, Stage(r, kind)
  PROVE  IInv'
<1>1. /\ req[r].step = "idle" /\ entry.status = "absent" /\ row.status = "absent"
      /\ UNCHANGED <<row, poll, pos, sent, closes, dropper, told, faults>>
  BY DEF Stage, IInv, StagingAlone, ledger
<1>2. /\ entry' \in Documents /\ entry'.status = "pending" /\ entry'.ttl = TTL
  BY LimitTypes DEF Stage, PendingDoc, Documents, ConfirmationStatus, IInv, TypeOK
<1>3. /\ req' \in [Requests -> RequestStates]
      /\ req'[r].step \in {"saveClose", "setConfirmation"}
      /\ \A q \in Requests : q # r => req'[q] = req[q]
  <2>1. IdleRequest \in RequestStates
    BY LimitTypes DEF IdleRequest, RequestStates, RequestSteps
  <2>2. /\ [IdleRequest EXCEPT !.kind = kind, !.step = "saveClose"] \in RequestStates
        /\ [IdleRequest EXCEPT !.kind = kind, !.step = "saveClose"].step = "saveClose"
        /\ [IdleRequest EXCEPT !.kind = kind, !.step = "setConfirmation"] \in RequestStates
        /\ [IdleRequest EXCEPT !.kind = kind, !.step = "setConfirmation"].step
             = "setConfirmation"
    BY <2>1 DEF RequestStates, RequestSteps
  <2>3. PICK s \in RequestStates :
          s.step \in {"saveClose", "setConfirmation"} /\ req' = [req EXCEPT ![r] = s]
    BY <2>2 DEF Stage
  <2>4. QED
    BY <2>3 DEF IInv, TypeOK
<1>4. /\ \A q \in Requests : ~Holding(q) /\ ~Staging(q)
      /\ ~NothingToCome /\ "cancelled" \notin told
  BY <1>1 DEF IInv, EntryTrue, StagingAlone, NothingToCome
<1>5. TypeOK'
  BY <1>1, <1>2, <1>3 DEF IInv, TypeOK
<1>6. \A q \in Requests : ~Holding(q)' /\ (Staging(q)' => q = r)
  BY <1>3, <1>4 DEF Holding, Staging
<1>7. EntryTrue'
  BY <1>1, <1>2, <1>3, <1>4, <1>6 DEF IInv, EntryTrue, Holding
<1>8. StagingAlone'
  BY <1>1, <1>2, <1>6 DEF StagingAlone
<1>9. RowTrue'
  BY <1>1 DEF IInv, RowTrue, OneWorker, At
<1>10. TimesTrue'
  BY <1>1, <1>2, <1>6, LimitTypes DEF TimesTrue
<1>11. PollsTrue'
  BY <1>1, <1>4 DEF IInv, PollsTrue, NeverExecuted
<1>12. QED
  BY <1>5, <1>7, <1>8, <1>9, <1>10, <1>11 DEF IInv

\* Storing the close: of an entry that is not older than it.
LEMMA SaveCloseStep ==
  ASSUME IInv, NEW r \in Requests, SaveClose(r)
  PROVE  IInv'
<1>1. /\ req[r].step = "saveClose" /\ row.status = "absent" /\ entry.status # "absent"
      /\ row' \in {row, AwaitingRow}
      /\ UNCHANGED <<entry, poll, pos, sent, closes, dropper, faults>>
  BY DEF SaveClose, IInv, StagingAlone, ledger, Staging
<1>2. /\ row' \in Rows /\ row'.status \in {"absent", "awaiting_entry"}
      /\ row'.status = "awaiting_entry" => row'.age = 0
  BY <1>1, RowUpdates DEF IInv, TypeOK
<1>3. /\ End(r) \/ Goto(r, "take") \/ Goto(r, "undoAll") \/ Goto(r, "undo")
      /\ told' \in {told, told \cup {"staged"}}
  BY DEF SaveClose
<1>4. /\ req' \in [Requests -> RequestStates]
      /\ req'[r].step \in {"idle", "take", "undoAll", "undo"}
      /\ \A q \in Requests : q # r => req'[q] = req[q]
  <2>1. {"take", "undoAll", "undo"} \subseteq RequestSteps
    BY DEF RequestSteps
  <2>2. QED
    BY <1>3, <2>1, GotoEffect, EndEffect DEF IInv
<1>5. \A q \in Requests :
        /\ Holding(q)' <=> Holding(q)
        /\ Staging(q)' => q # r /\ Staging(q)
        /\ Holding(q) => req'[q] = req[q]
  BY <1>1, <1>4 DEF Holding, Staging
<1>6. \A q \in Requests : ~Staging(q)'
  BY <1>1, <1>5 DEF IInv, StagingAlone, Staging
<1>7. TypeOK'
  BY <1>1, <1>2, <1>3, <1>4 DEF IInv, TypeOK
<1>8. (NothingToCome' <=> NothingToCome) /\ (NeverExecuted' <=> NeverExecuted)
  BY <1>1, <1>5 DEF NothingToCome, NeverExecuted
<1>9. EntryTrue'
  <2>1. \A q \in Requests : q = r \/ req'[q] = req[q]
    BY <1>4
  <2>2. QED
    BY <2>1, <1>1, <1>3, <1>4, <1>5, <1>8 DEF IInv, EntryTrue
<1>10. StagingAlone'
  BY <1>1, <1>6 DEF StagingAlone
<1>11. RowTrue'
  BY <1>1, <1>2 DEF IInv, RowTrue, OneWorker, At
<1>12. TimesTrue'
  <2>1. \A q \in Requests : req'[q].age \in Nat
    BY <1>7, LimitTypes DEF TypeOK, RequestStates
  <2>2. entry'.status = "pending" => entry'.ttl <= TTL /\ entry'.ttl \in Nat
    BY <1>1 DEF IInv, TimesTrue, TypeOK, Documents
  <2>3. QED
    BY <2>1, <2>2, <1>2, LimitTypes DEF TimesTrue
<1>13. PollsTrue'
  BY <1>1, <1>8 DEF IInv, PollsTrue
<1>14. QED
  BY <1>7, <1>9, <1>10, <1>11, <1>12, <1>13 DEF IInv

\* Taking the entry: nobody has, and its close is no older than the time it had left.
LEMMA TakenStep ==
  ASSUME IInv, NEW r \in Requests, req[r].step = "take",
         CanTake(entry, entry.user, Live), entry' = Taken(entry),
         Goto(r, "send"),
         UNCHANGED <<row, poll, ledger, dropper, told, faults>>
  PROVE  IInv'
<1>1. /\ entry \in Documents /\ entry.status = "pending" /\ entry.ttl > 0
      /\ UNCHANGED <<row, poll, pos, sent, closes, dropper, told, faults>>
  BY DEF IInv, TypeOK, CanTake, Live, ledger
<1>2. /\ entry' \in Documents /\ entry'.status = "executing"
  BY <1>1, EntryUpdates
<1>3. /\ req' \in [Requests -> RequestStates] /\ req'[r].step = "send"
      /\ req'[r].age = req[r].age
      /\ \A q \in Requests : q # r => req'[q] = req[q]
  BY GotoEffect DEF IInv, RequestSteps
<1>4. /\ sent = 0 /\ ~NothingToCome /\ "cancelled" \notin told
      /\ \A q \in Requests : ~Holding(q)
  BY <1>1 DEF IInv, EntryTrue, NothingToCome
<1>5. \A q \in Requests : /\ Holding(q)' <=> q = r
                          /\ Staging(q)' => Staging(q)
  BY <1>3, <1>4 DEF Holding, Staging
<1>6. TypeOK'
  BY <1>1, <1>2, <1>3 DEF IInv, TypeOK
<1>7. EntryTrue'
  <2>1. \A q \in Requests : /\ req'[q].step # "settle"
                            /\ req'[q].step = "activate" => sent = 1
    BY <1>3, <1>4 DEF Holding, IInv, EntryTrue
  <2>2. QED
    BY <2>1, <1>1, <1>2, <1>4, <1>5 DEF EntryTrue
<1>8. StagingAlone'
  BY <1>1, <1>2, <1>5 DEF IInv, StagingAlone
<1>9. RowTrue'
  BY <1>1 DEF IInv, RowTrue, OneWorker, At
<1>10. TimesTrue'
  <2>1. row.status = "awaiting_entry" => row.age + entry.ttl <= TTL
    BY <1>1 DEF IInv, TimesTrue
  <2>2. row.age \in Nat /\ entry.ttl \in Nat /\ req[r].age \in Nat
    BY LimitTypes DEF IInv, TypeOK, Rows, Documents, RequestStates
  <2>3. row'.status = "awaiting_entry" => row'.age <= TTL + req'[r].age
    BY <2>1, <2>2, <1>1, <1>3, LimitTypes
  <2>4. QED
    BY <2>3, <1>2, <1>5 DEF TimesTrue
<1>11. PollsTrue'
  BY <1>1, <1>4 DEF IInv, PollsTrue, NeverExecuted
<1>12. QED
  BY <1>6, <1>7, <1>8, <1>9, <1>10, <1>11 DEF IInv

\* A take whose reply is lost: the document is executing and nobody holds it.
LEMMA TakenAndLost ==
  ASSUME IInv, NEW r \in Requests,
         CanTake(entry, entry.user, Live), entry' = Taken(entry), RequestMoves(r),
         UNCHANGED <<row, poll, ledger, dropper, told, faults>>
  PROVE  IInv'
<1>1. /\ entry \in Documents /\ entry.status = "pending" /\ entry.ttl > 0
      /\ UNCHANGED <<row, poll, pos, sent, closes, dropper, told, faults>>
  BY DEF IInv, TypeOK, CanTake, Live, ledger
<1>2. /\ entry' \in Documents /\ entry'.status = "executing"
  BY <1>1, EntryUpdates
<1>3. /\ sent = 0 /\ ~NothingToCome /\ "cancelled" \notin told
      /\ \A q \in Requests : ~Holding(q)
  BY <1>1 DEF IInv, EntryTrue, NothingToCome
<1>4. \A q \in Requests : ~Holding(q)' /\ (Staging(q)' => Staging(q))
  BY <1>3 DEF RequestMoves, Holding, Staging
<1>5. TypeOK'
  BY <1>1, <1>2 DEF IInv, TypeOK, RequestMoves
<1>6. EntryTrue'
  <2>1. \A q \in Requests : req'[q].step = "activate" => sent = 1
    BY DEF RequestMoves, IInv, EntryTrue
  <2>2. QED
    BY <2>1, <1>1, <1>2, <1>3, <1>4 DEF EntryTrue, Holding
<1>7. StagingAlone'
  BY <1>1, <1>2, <1>4 DEF IInv, StagingAlone
<1>8. RowTrue'
  BY <1>1 DEF IInv, RowTrue, OneWorker, At
<1>9. TimesTrue'
  BY <1>2, <1>4 DEF TimesTrue
<1>10. PollsTrue'
  BY <1>1, <1>3 DEF IInv, PollsTrue, NeverExecuted
<1>11. QED
  BY <1>5, <1>6, <1>7, <1>8, <1>9, <1>10 DEF IInv

\* Sending the entry: by the one request that holds it, once.
LEMMA SendStep ==
  ASSUME IInv, NEW r \in Requests, Send(r)
  PROVE  IInv'
<1>1. /\ req[r].step = "send" /\ Holding(r) /\ sent = 0 /\ ~NothingToCome
      /\ "cancelled" \notin told /\ entry.status \in {"executing", "purged"}
      /\ UNCHANGED <<entry, row, poll, closes, dropper, told, faults>>
  BY DEF Send, Holding, IInv, EntryTrue, NothingToCome
<1>2. PICK placed \in BOOLEAN, ok \in BOOLEAN :
        /\ ok => placed
        /\ sent' = IF placed THEN sent + 1 ELSE sent
        /\ pos' = IF placed THEN pos \cup {"mission"} ELSE pos
        /\ req' = [req EXCEPT ![r].step = "settle",
                              ![r].outcome = IF ok THEN "executed" ELSE "failed"]
  BY DEF Send
<1>3. sent' \in {0, 1} /\ (ok => sent' = 1) /\ pos' \in SUBSET Owners
  BY <1>1, <1>2 DEF IInv, TypeOK, Owners
<1>4. /\ req' \in [Requests -> RequestStates]
      /\ req'[r].step = "settle" /\ req'[r].outcome = (IF ok THEN "executed" ELSE "failed")
      /\ req'[r].age = req[r].age
      /\ \A q \in Requests : q # r => req'[q] = req[q]
  BY <1>2 DEF IInv, TypeOK, RequestStates, RequestSteps
<1>5. \A q \in Requests : /\ Holding(q)' <=> q = r
                          /\ Holding(q) <=> q = r
                          /\ Staging(q)' => Staging(q)
  BY <1>1, <1>4 DEF Holding, Staging, IInv, EntryTrue
<1>6. TypeOK'
  BY <1>1, <1>3, <1>4 DEF IInv, TypeOK
<1>7. EntryTrue'
  <2>1. \A q \in Requests :
          /\ req'[q].step # "send"
          /\ req'[q].step = "settle" => q = r
          /\ req'[q].step # "activate"
    BY <1>1, <1>4, <1>5 DEF Holding, IInv, EntryTrue
  <2>2. req'[r].outcome = "executed" => sent' = 1
    BY <1>3, <1>4
  <2>3. QED
    BY <2>1, <2>2, <1>1, <1>3, <1>5 DEF EntryTrue
<1>8. StagingAlone'
  BY <1>1, <1>5 DEF IInv, StagingAlone
<1>9. RowTrue'
  <2>1. row.status \notin {"pending", "executing", "done", "skipped"}
    BY <1>1 DEF IInv, RowTrue
  <2>2. QED
    BY <2>1, <1>1 DEF IInv, RowTrue, OneWorker, At
<1>10. TimesTrue'
  BY <1>1, <1>4, <1>5 DEF IInv, TimesTrue
<1>11. PollsTrue'
  BY <1>1 DEF IInv, PollsTrue, NeverExecuted
<1>12. QED
  BY <1>6, <1>7, <1>8, <1>9, <1>10, <1>11 DEF IInv
-----------------------------------------------------------------------------
\* AwaitTTL is longer than the time to live and the longest request together: when a row
\* has waited that long, its entry is over or nobody will ever say so.
LEMMA AbandonedEntry ==
  ASSUME IInv, row.status = "awaiting_entry", row.age > AwaitTTL
  PROVE  NothingToCome
<1>1. /\ row.age \in Nat /\ entry.ttl \in Nat
      /\ \A r \in Requests : req[r].age \in 0..RequestLimit
  BY LimitTypes DEF IInv, TypeOK, Rows, Documents, RequestStates
<1>2. entry.status # "absent"
  BY DEF IInv, StagingAlone
<1>3. entry.status = "pending" => entry.ttl = 0
  BY <1>1, LimitTypes DEF IInv, TimesTrue
<1>4. \A r \in Requests : ~Holding(r)
  BY <1>1, LimitTypes DEF IInv, TimesTrue
<1>5. QED
  BY <1>2, <1>3, <1>4 DEF NothingToCome

\* A poller that leaves the list has nothing in hand.
LEMMA ToClaimMoves ==
  ASSUME IInv, NEW i \in Pollers, poll[i].step \in {"read", "resolve"}, ToClaim(i)
  PROVE  PollMoves(i)
BY ToClaimEffect DEF IInv, PollMoves, Working

\* What the poller works on is its own and is due to an entry that was sent.
LEMMA WorkerFacts ==
  ASSUME IInv, NEW i \in Pollers, poll[i].step \in Working
  PROVE  /\ row.status = "executing" /\ row.held = poll[i].late /\ sent = 1
         /\ \A j \in Pollers : j # i => poll[j].step \notin Working
         /\ poll[i].step # "mark" => closes <= faults
BY DEF IInv, RowTrue, OneWorker, At, Working

\* Claiming the row: nobody works on it, or their claim would be respected.
LEMMA ClaimedStep ==
  ASSUME IInv, NEW i \in Pollers, At(i, "claim"),
         Claimable(row, poll[i].late), row' = Claimed(row, poll[i].late), Move(i, "gate"),
         UNCHANGED <<entry, req, ledger, dropper, told, faults>>
  PROVE  IInv'
<1>1. UNCHANGED <<entry, req, pos, sent, closes, dropper, told, faults>>
  BY DEF ledger
<1>2. poll[i].late \in 0..PollLimit /\ row \in Rows
  BY DEF IInv, TypeOK, PollStates
<1>3. /\ row' \in Rows /\ row'.status = "executing" /\ row'.held = poll[i].late
  BY <1>2, RowUpdates
<1>4. /\ poll' \in [Pollers -> PollStates] /\ poll'[i].step = "gate"
      /\ poll'[i].late = poll[i].late
      /\ \A j \in Pollers : j # i => poll'[j] = poll[j]
  BY MoveEffect DEF IInv, PollSteps
<1>5. \A j \in Pollers : poll[j].step \notin Working
  <2>1. SUFFICES ASSUME NEW j \in Pollers, poll[j].step \in Working
                 PROVE  FALSE
    OBVIOUS
  <2>2. row.status = "executing" /\ row.held = poll[j].late
    BY <2>1, WorkerFacts
  <2>3. poll[j].late <= PollLimit
    BY DEF IInv, TypeOK, PollStates
  <2>4. row.held - poll[i].late >= ClaimTimeout
    BY <2>2 DEF Claimable, IsStale
  <2>5. QED
    BY <2>2, <2>3, <2>4, <1>2, LimitTypes DEF IInv, TypeOK, PollStates
<1>6. /\ row.status \in {"pending", "executing"} /\ sent = 1
      /\ closes <= faults
  BY <1>5 DEF Claimable, IInv, RowTrue, TypeOK, Working, At
<1>7. TypeOK'
  BY <1>1, <1>3, <1>4 DEF IInv, TypeOK
<1>8. (NothingToCome' <=> NothingToCome) /\ (NeverExecuted' <=> NeverExecuted)
  BY <1>1 DEF NothingToCome, NeverExecuted, Holding
<1>9. EntryTrue'
  BY <1>1, <1>8 DEF IInv, EntryTrue, Holding
<1>10. StagingAlone'
  BY <1>1, <1>3, <1>6 DEF IInv, StagingAlone, Staging
<1>11. RowTrue'
  <2>1. \A j \in Pollers : poll'[j].step \in Working => j = i
    BY <1>4, <1>5
  <2>2. OneWorker'
    BY <2>1 DEF OneWorker
  <2>3. QED
    BY <2>1, <2>2, <1>1, <1>3, <1>4, <1>6 DEF RowTrue, IInv, TypeOK, At
<1>12. TimesTrue'
  BY <1>1, <1>3 DEF IInv, TimesTrue, Holding
<1>13. PollsTrue'
  BY <1>1, <1>4, <1>8 DEF IInv, PollsTrue
<1>14. QED
  BY <1>7, <1>9, <1>10, <1>11, <1>12, <1>13 DEF IInv

\* The close order: the poller that sends it goes on to its mark.
LEMMA SendCloseStep ==
  ASSUME IInv, NEW i \in Pollers, SendClose(i)
  PROVE  IInv'
<1>1. /\ poll[i].step = "close" /\ poll[i].step \in Working
      /\ UNCHANGED <<entry, row, req, sent, dropper, told, faults>>
      /\ pos' \in SUBSET Owners /\ closes' \in {closes, closes + 1}
  BY DEF SendClose, At, Working, IInv, TypeOK
<1>2. Verdict(i, "done") \/ Verdict(i, "skipped")
  BY DEF SendClose
<1>3. /\ poll' \in [Pollers -> PollStates] /\ poll'[i].step = "mark"
      /\ poll'[i].late = poll[i].late
      /\ \A j \in Pollers : j # i => poll'[j] = poll[j]
  BY <1>2, VerdictEffect DEF IInv
<1>4. /\ row.status = "executing" /\ row.held = poll[i].late /\ sent = 1 /\ closes <= faults
      /\ \A j \in Pollers : j # i => poll[j].step \notin Working
  BY <1>1, WorkerFacts
<1>5. TypeOK'
  BY <1>1, <1>3 DEF IInv, TypeOK
<1>6. (NothingToCome' <=> NothingToCome) /\ (NeverExecuted' <=> NeverExecuted)
  BY <1>1 DEF NothingToCome, NeverExecuted, Holding
<1>7. EntryTrue' /\ StagingAlone' /\ TimesTrue'
  BY <1>1, <1>6 DEF IInv, EntryTrue, StagingAlone, TimesTrue, Holding, Staging
<1>8. RowTrue'
  <2>1. OneWorker'
    BY <1>3, <1>4 DEF OneWorker
  <2>2. closes' <= 1 + faults'
    BY <1>1, <1>4 DEF IInv, TypeOK
  <2>3. QED
    BY <2>1, <2>2, <1>1, <1>3, <1>4 DEF RowTrue, At
<1>9. PollsTrue'
  BY <1>1, <1>3, <1>6 DEF IInv, PollsTrue
<1>10. QED
  BY <1>5, <1>7, <1>8, <1>9 DEF IInv

\* The mark: the row has come to its end.
LEMMA MarkStep ==
  ASSUME IInv, NEW i \in Pollers, Mark(i)
  PROVE  IInv'
<1>1. /\ poll[i].step = "mark" /\ poll[i].step \in Working
      /\ UNCHANGED <<entry, req, pos, sent, closes, dropper, told, faults>>
  BY DEF Mark, At, Working, ledger
<1>2. /\ row \in Rows /\ row.status = "executing" /\ sent = 1
      /\ \A j \in Pollers : j # i => poll[j].step \notin Working
  BY <1>1, WorkerFacts DEF IInv, TypeOK
<1>3. /\ row' \in Rows /\ row'.status \in {"done", "skipped"}
  <2>1. poll[i].verdict \in {"done", "skipped"} /\ row' = Marked(row, poll[i].verdict)
    BY DEF Mark, IInv, TypeOK, PollStates
  <2>2. QED
    BY <2>1, <1>2, RowUpdates
<1>4. /\ poll' \in [Pollers -> PollStates] /\ poll'[i].step = "idle"
      /\ \A j \in Pollers : j # i => poll'[j] = poll[j]
  BY RestEffect DEF IInv, Mark
<1>5. TypeOK'
  BY <1>1, <1>3, <1>4 DEF IInv, TypeOK
<1>6. (NothingToCome' <=> NothingToCome) /\ (NeverExecuted' <=> NeverExecuted)
  BY <1>1 DEF NothingToCome, NeverExecuted, Holding
<1>7. EntryTrue'
  BY <1>1, <1>6 DEF IInv, EntryTrue, Holding
<1>8. StagingAlone'
  BY <1>1, <1>2, <1>3 DEF IInv, StagingAlone, Staging
<1>9. RowTrue'
  <2>1. \A j \in Pollers : poll'[j].step \notin Working
    BY <1>2, <1>4 DEF Working
  <2>2. QED
    BY <2>1, <1>1, <1>2, <1>3 DEF IInv, RowTrue, OneWorker
<1>10. TimesTrue'
  BY <1>1, <1>3 DEF IInv, TimesTrue, Holding
<1>11. PollsTrue'
  BY <1>1, <1>4, <1>6 DEF IInv, PollsTrue
<1>12. QED
  BY <1>5, <1>7, <1>8, <1>9, <1>10, <1>11 DEF IInv
-----------------------------------------------------------------------------
\* Money comes and goes on its own.
LEMMA PositionStep ==
  ASSUME IInv, pos' \in SUBSET Owners,
         UNCHANGED <<entry, row, req, poll, sent, closes, dropper, told, faults>>
  PROVE  IInv'
<1>1. TypeOK'
  BY DEF IInv, TypeOK
<1>2. (NothingToCome' <=> NothingToCome) /\ (NeverExecuted' <=> NeverExecuted)
  BY DEF NothingToCome, NeverExecuted, Holding
<1>3. EntryTrue' /\ StagingAlone' /\ RowTrue' /\ TimesTrue' /\ PollsTrue'
  BY <1>2 DEF IInv, EntryTrue, StagingAlone, RowTrue, OneWorker, TimesTrue, PollsTrue,
              Holding, Staging, At
<1>4. QED
  BY <1>1, <1>3 DEF IInv

\* The TTL index removes the document, whatever its status and whoever holds it.
LEMMA PurgeStep ==
  ASSUME IInv, PurgeEntry
  PROVE  IInv'
<1>1. /\ entry.status \notin {"absent", "purged"} /\ entry.ttl = 0
      /\ entry' \in Documents /\ entry'.status = "purged"
      /\ UNCHANGED <<row, req, poll, pos, sent, closes, dropper, told, faults>>
  BY EntryUpdates DEF PurgeEntry, Purgeable, Present, ledger, IInv, TypeOK
<1>2. TypeOK'
  BY <1>1 DEF IInv, TypeOK
<1>3. (NothingToCome => NothingToCome') /\ (NeverExecuted => NeverExecuted')
  BY <1>1 DEF NothingToCome, NeverExecuted, Holding
<1>4. EntryTrue'
  BY <1>1, <1>3 DEF IInv, EntryTrue, Holding
<1>5. StagingAlone' /\ RowTrue' /\ TimesTrue'
  BY <1>1 DEF IInv, StagingAlone, RowTrue, OneWorker, TimesTrue, Holding, Staging, At
<1>6. PollsTrue'
  BY <1>1, <1>3 DEF IInv, PollsTrue
<1>7. QED
  BY <1>2, <1>4, <1>5, <1>6 DEF IInv

\* Time passes for everybody at once, and for nobody beyond their deadline.
LEMMA TickStep ==
  ASSUME IInv, Tick
  PROVE  IInv'
<1>1. /\ UNCHANGED <<pos, sent, closes, dropper, told, faults>>
      /\ entry \in Documents /\ row \in Rows
      /\ entry' = Older(entry) /\ row' = Later(row)
  BY DEF Tick, ledger, IInv, TypeOK
<1>2. /\ entry' \in Documents /\ entry'.status = entry.status
      /\ entry.ttl > 0 => entry'.ttl = entry.ttl - 1
      /\ entry.ttl = 0 => entry'.ttl = 0
      /\ row' \in Rows /\ row'.status = row.status
      /\ row.status = "awaiting_entry" => row'.age <= row.age + 1
      /\ row.status = "executing" /\ row.held < PollLimit => row'.held = row.held + 1
  BY <1>1, EntryUpdates, RowUpdates, RowAges
<1>3. ASSUME NEW q \in Requests
      PROVE  /\ req'[q] \in RequestStates
             /\ req'[q].step = req[q].step /\ req'[q].outcome = req[q].outcome
             /\ req[q].step # "idle" => req'[q].age = req[q].age + 1
  <2>1. req[q] \in RequestStates
    BY DEF IInv, TypeOK
  <2>2. CASE req[q].step = "idle"
    BY <2>1, <2>2 DEF Tick
  <2>3. CASE req[q].step # "idle"
    <3>1. req[q].age < RequestLimit /\ req'[q] = [req[q] EXCEPT !.age = @ + 1]
      BY <2>3 DEF Tick
    <3>2. req[q].age + 1 \in 0..RequestLimit
      BY <2>1, <3>1, LimitTypes DEF RequestStates
    <3>3. QED
      BY <2>1, <3>1, <3>2 DEF RequestStates
  <2>4. QED
    BY <2>2, <2>3
<1>4. ASSUME NEW j \in Pollers
      PROVE  /\ poll'[j] \in PollStates
             /\ poll'[j].step = poll[j].step
             /\ poll'[j].saw = poll[j].saw /\ poll'[j].old = poll[j].old
             /\ poll[j].step # "idle" => poll[j].late < PollLimit /\ poll'[j].late = poll[j].late + 1
  <2>1. poll[j] \in PollStates
    BY DEF IInv, TypeOK
  <2>2. CASE poll[j].step = "idle"
    BY <2>1, <2>2 DEF Tick, At
  <2>3. CASE poll[j].step # "idle"
    <3>1. poll[j].late < PollLimit /\ poll'[j] = [poll[j] EXCEPT !.late = @ + 1]
      BY <2>3 DEF Tick, At
    <3>2. poll[j].late + 1 \in 0..PollLimit
      BY <2>1, <3>1, LimitTypes DEF PollStates
    <3>3. QED
      BY <2>1, <3>1, <3>2 DEF PollStates
  <2>4. QED
    BY <2>2, <2>3
<1>5. TypeOK'
  <2>1. req' \in [Requests -> RequestStates] /\ poll' \in [Pollers -> PollStates]
    BY <1>3, <1>4 DEF Tick
  <2>2. QED
    BY <2>1, <1>1, <1>2 DEF IInv, TypeOK
<1>6. \A q \in Requests : (Holding(q)' <=> Holding(q)) /\ (Staging(q)' <=> Staging(q))
  BY <1>3 DEF Holding, Staging
<1>7. (NothingToCome => NothingToCome') /\ (NeverExecuted => NeverExecuted')
  BY <1>2, <1>6 DEF NothingToCome, NeverExecuted
<1>8. EntryTrue'
  BY <1>1, <1>2, <1>3, <1>6, <1>7 DEF IInv, EntryTrue
<1>9. StagingAlone'
  BY <1>2, <1>6 DEF IInv, StagingAlone
<1>10. RowTrue'
  <2>1. ASSUME NEW j \in Pollers, poll'[j].step \in Working
        PROVE  row'.status = "executing" /\ row'.held = poll'[j].late
    <3>1. poll[j].step \in Working /\ poll[j].step # "idle"
      BY <2>1, <1>4 DEF Working
    <3>2. row.status = "executing" /\ row.held = poll[j].late
      BY <3>1, WorkerFacts
    <3>3. QED
      BY <3>1, <3>2, <1>2, <1>4
  <2>2. OneWorker'
    BY <1>4 DEF IInv, RowTrue, OneWorker
  <2>3. QED
    BY <2>1, <2>2, <1>1, <1>2, <1>4 DEF IInv, RowTrue, At
<1>11. TimesTrue'
  <2>1. /\ entry.ttl \in Nat /\ entry'.ttl \in Nat /\ row.age \in Nat /\ row'.age \in Nat
        /\ \A q \in Requests : req[q].age \in Nat /\ req'[q].age \in Nat
    BY <1>1, <1>2, <1>3, LimitTypes DEF Documents, Rows, IInv, TypeOK, RequestStates
  <2>2. entry'.status = "pending" => entry'.ttl <= TTL
    BY <2>1, <1>2, LimitTypes DEF IInv, TimesTrue
  <2>3. row'.status = "awaiting_entry" /\ entry'.status = "pending" /\ entry'.ttl > 0 =>
          row'.age + entry'.ttl <= TTL
    BY <2>1, <1>2, LimitTypes DEF IInv, TimesTrue
  <2>4. ASSUME NEW q \in Requests, row'.status = "awaiting_entry", Holding(q)'
        PROVE  row'.age <= TTL + req'[q].age
    <3>1. row.age <= TTL + req[q].age /\ req'[q].age = req[q].age + 1
      BY <2>4, <1>2, <1>3, <1>6 DEF IInv, TimesTrue, Holding
    <3>2. QED
      BY <3>1, <2>1, <2>4, <1>2, LimitTypes
  <2>5. QED
    BY <2>2, <2>3, <2>4 DEF TimesTrue
<1>12. PollsTrue'
  BY <1>1, <1>4, <1>7 DEF IInv, PollsTrue
<1>13. QED
  BY <1>5, <1>8, <1>9, <1>10, <1>11, <1>12 DEF IInv
-----------------------------------------------------------------------------
LEMMA InitIInv == Init => IInv
<1> SUFFICES ASSUME Init PROVE IInv
  OBVIOUS
<1>1. TypeOK
  <2>1. PICK u \in Users : entry = [status |-> "absent", ttl |-> 0, user |-> u]
    BY DEF Init
  <2>2. entry \in Documents
    BY <2>1 DEF Documents, ConfirmationStatus
  <2>3. row \in Rows
    BY LimitTypes DEF Init, AbsentRow, Rows, CloseStatus
  <2>4. IdleRequest \in RequestStates /\ IdlePoll \in PollStates
    BY LimitTypes DEF IdleRequest, RequestStates, RequestSteps, IdlePoll, PollStates,
                      PollSteps, ConfirmationStatus
  <2>5. QED
    BY <2>2, <2>3, <2>4, LimitTypes DEF Init, TypeOK, Droppers, Owners
<1>2. /\ entry.status = "absent" /\ row.status = "absent" /\ row.held = 0
      /\ \A r \in Requests : req[r].step = "idle"
      /\ \A i \in Pollers : poll[i].step = "idle"
  BY DEF Init, AbsentRow, IdleRequest, IdlePoll
<1>3. EntryTrue /\ StagingAlone /\ TimesTrue
  BY <1>2 DEF Init, EntryTrue, StagingAlone, TimesTrue, Holding, Staging
<1>4. RowTrue /\ PollsTrue
  BY <1>2 DEF Init, RowTrue, OneWorker, PollsTrue, Working, At
<1>5. QED
  BY <1>1, <1>3, <1>4 DEF IInv
-----------------------------------------------------------------------------
\* How a request goes on when it has nothing to hold afterwards.
QuietSteps == RequestSteps \ {"send", "settle", "setConfirmation", "saveClose", "activate"}

LEMMA QuietGoto ==
  ASSUME IInv, NEW r \in Requests, NEW s \in QuietSteps, Goto(r, s)
  PROVE  RequestMoves(r)
<1>1. s \in RequestSteps
  BY DEF QuietSteps
<1>2. QED
  BY <1>1, GotoEffect DEF IInv, RequestMoves, Holding, Staging, QuietSteps

LEMMA QuietEnd ==
  ASSUME IInv, NEW r \in Requests, End(r)
  PROVE  RequestMoves(r)
BY EndEffect DEF IInv, RequestMoves, Holding, Staging

LEMMA QuietFailure ==
  ASSUME IInv, NEW r \in Requests, ConfirmFailed(r)
  PROVE  RequestMoves(r)
<1>1. "dropClose" \in QuietSteps
  BY DEF QuietSteps, RequestSteps
<1>2. QED
  BY <1>1, QuietGoto, QuietEnd DEF ConfirmFailed

\* What a cancelling request makes of the entry.
LEMMA CancelledEntryMoves ==
  ASSUME IInv, NEW r \in Requests, entry' \in {CancelledEntry, entry}
  PROVE  EntryMoves(r)
<1>1. entry \in Documents
  BY DEF IInv, TypeOK
<1>2. \/ entry' = entry
      \/ entry.status = "pending" /\ entry' \in {Cancelled(entry), MarkedExpired(entry)}
  BY <1>1, EntryUpdates DEF CancelledEntry, CanCancel
<1>3. QED
  BY <1>1, <1>2, EntryUpdates DEF EntryMoves

\* The steps of a request.
LEMMA RequestStep ==
  ASSUME IInv, NEW r \in Requests, Request(r)
  PROVE  IInv'
<1> USE DEF ledger
<1>1. CASE \E kind \in {"web", "watcher"} : Stage(r, kind)
  BY <1>1, StageStep
<1>2. CASE BeginConfirm(r) \/ BeginCancel(r)
  <2>1. {"take", "dropClose"} \subseteq QuietSteps
    BY DEF QuietSteps, RequestSteps
  <2>2. RequestMoves(r)
    BY <1>2, <2>1, QuietGoto DEF BeginConfirm, BeginCancel, Begin
  <2>3. EntryMoves(r) /\ TellsTrue /\ UNCHANGED <<row, poll, ledger, dropper, faults>>
    BY <1>2 DEF BeginConfirm, BeginCancel, Begin, EntryMoves, TellsTrue, IInv, TypeOK
  <2>4. QED
    BY <2>2, <2>3, OrdinaryRequest
<1>3. CASE SetConfirmation(r)
  <2>1. PICK s \in {"saveClose", "undo"} : Goto(r, s)
    BY <1>3 DEF SetConfirmation
  <2>2. s \in RequestSteps
    BY DEF RequestSteps
  <2>3. RequestMoves(r)
    BY <1>3, <2>1, <2>2, GotoEffect DEF SetConfirmation, IInv, RequestMoves, Holding, Staging
  <2>4. EntryMoves(r) /\ TellsTrue /\ UNCHANGED <<row, poll, ledger, dropper, faults>>
    BY <1>3 DEF SetConfirmation, EntryMoves, TellsTrue, IInv, TypeOK
  <2>5. QED
    BY <2>3, <2>4, OrdinaryRequest
<1>4. CASE SaveClose(r)
  BY <1>4, SaveCloseStep
<1>5. CASE Undo(r)
  <2>1. "dropClose" \in QuietSteps
    BY DEF QuietSteps, RequestSteps
  <2>2. RequestMoves(r)
    BY <1>5, <2>1, QuietGoto, QuietEnd DEF Undo
  <2>3. EntryMoves(r)
    BY <1>5, CancelledEntryMoves DEF Undo
  <2>4. TellsTrue /\ UNCHANGED <<row, poll, ledger, dropper, faults>>
    BY <1>5 DEF Undo, TellsTrue, IInv, TypeOK
  <2>5. QED
    BY <2>2, <2>3, <2>4, OrdinaryRequest
<1>6. CASE Take(r)
  <2>1. /\ req[r].step = "take" /\ entry \in Documents
        /\ UNCHANGED <<row, poll, ledger, dropper, told, faults>>
    BY <1>6 DEF Take, IInv, TypeOK
  <2>2. TellsTrue
    BY <2>1 DEF TellsTrue, IInv, TypeOK
  <2>3. CASE CanTake(entry, entry.user, Live) /\ entry' = Taken(entry) /\ Goto(r, "send")
    BY <2>1, <2>3, TakenStep
  <2>4. CASE CanTake(entry, entry.user, Live) /\ entry' = Taken(entry) /\ ConfirmFailed(r)
    \* The document is executing and nobody holds it.
    <3>1. RequestMoves(r)
      BY <2>4, QuietFailure
    <3>2. QED
      BY <2>1, <2>4, <3>1, TakenAndLost
  <2>5. CASE /\ ~CanTake(entry, entry.user, Live)
             /\ IF entry.status = "executed" THEN Goto(r, "activate") ELSE ConfirmFailed(r)
             /\ entry' = IF entry.status = "pending" THEN MarkedExpired(entry) ELSE entry
    <3>1. RequestMoves(r)
      <4>1. CASE entry.status = "executed"
        <5>1. sent = 1 /\ "activate" \in RequestSteps
          BY <4>1 DEF IInv, EntryTrue, RequestSteps
        <5>2. QED
          BY <2>5, <4>1, <5>1, GotoEffect DEF IInv, RequestMoves, Holding, Staging
      <4>2. CASE entry.status # "executed"
        BY <2>5, <4>2, QuietFailure
      <4>3. QED
        BY <4>1, <4>2
    <3>2. EntryMoves(r)
      BY <2>1, <2>5, EntryUpdates DEF EntryMoves
    <3>3. QED
      BY <2>1, <2>2, <3>1, <3>2, OrdinaryRequest
  <2>6. CASE ConfirmFailed(r) /\ UNCHANGED entry
    <3>1. EntryMoves(r)
      BY <2>1, <2>6 DEF EntryMoves
    <3>2. QED
      BY <2>1, <2>2, <2>6, <3>1, QuietFailure, OrdinaryRequest
  <2>7. QED
    BY <1>6, <2>3, <2>4, <2>5, <2>6 DEF Take
<1>7. CASE Send(r)
  BY <1>7, SendStep
<1>8. CASE Settle(r)
  <2>1. /\ req[r].step = "settle" /\ Holding(r) /\ entry \in Documents
        /\ UNCHANGED <<row, poll, ledger, dropper, told, faults>>
        /\ req[r].outcome \in {"executed", "failed"}
    BY <1>8 DEF Settle, Holding, IInv, TypeOK, RequestStates
  <2>2. TellsTrue
    BY <2>1 DEF TellsTrue, IInv, TypeOK
  <2>3. req[r].outcome = "executed" => sent = 1
    BY <2>1 DEF IInv, EntryTrue
  <2>4. \/ CanSettle(entry) /\ entry' = Settled(entry, req[r].outcome)
        \/ UNCHANGED entry
    BY <1>8 DEF Settle
  <2>5. EntryMoves(r)
    BY <2>1, <2>3, <2>4, EntryUpdates DEF EntryMoves, CanSettle
  <2>6. RequestMoves(r)
    <3>1. CASE req[r].outcome = "executed" /\ Goto(r, "activate")
      <4>1. "activate" \in RequestSteps
        BY DEF RequestSteps
      <4>2. QED
        BY <2>3, <3>1, <4>1, GotoEffect DEF IInv, RequestMoves, Holding, Staging
    <3>2. CASE ConfirmFailed(r)
      BY <3>2, QuietFailure
    <3>3. QED
      BY <1>8, <3>1, <3>2 DEF Settle
  <2>7. QED
    BY <2>1, <2>2, <2>5, <2>6, OrdinaryRequest
<1>9. CASE Activate(r)
  <2>1. /\ req[r].step = "activate" /\ row' \in {Activated(row), row} /\ row \in Rows
        /\ UNCHANGED <<entry, poll, ledger, dropper, told, faults>>
        /\ End(r)
    BY <1>9 DEF Activate, IInv, TypeOK
  <2>2. sent = 1
    BY <2>1 DEF IInv, EntryTrue
  <2>3. RowMoves
    BY <2>1, <2>2, RowUpdates DEF RowMoves
  <2>4. /\ faults' \in 0..MaxFaults /\ faults' >= faults
        /\ dropper' \in Droppers /\ (dropper' = "reconciler" => NeverExecuted)
    BY <2>1, LimitTypes DEF IInv, TypeOK, PollsTrue
  <2>5. QED
    BY <2>1, <2>3, <2>4, QuietEnd, RowStep
<1>10. CASE DropClose(r)
  <2>1. /\ row \in Rows /\ row' \in {Dropped(row), row}
        /\ dropper' \in {dropper, "user", "watcher"}
        /\ UNCHANGED <<entry, poll, ledger, told, faults>>
        /\ Goto(r, "cancel") \/ End(r)
    BY <1>10 DEF DropClose, DropBy, IInv, TypeOK
  <2>2. RowMoves
    BY <2>1, RowUpdates DEF RowMoves
  <2>3. "cancel" \in QuietSteps
    BY DEF QuietSteps, RequestSteps
  <2>4. RequestMoves(r)
    BY <2>1, <2>3, QuietGoto, QuietEnd
  <2>5. /\ faults' \in 0..MaxFaults /\ faults' >= faults
        /\ dropper' \in Droppers /\ (dropper' = "reconciler" => NeverExecuted)
    BY <2>1, LimitTypes DEF IInv, TypeOK, PollsTrue, Droppers
  <2>6. QED
    BY <2>1, <2>2, <2>4, <2>5, RowStep
<1>11. CASE Cancel(r)
  <2>1. EntryMoves(r)
    BY <1>11, CancelledEntryMoves DEF Cancel
  <2>2. RequestMoves(r)
    BY <1>11, QuietEnd DEF Cancel
  <2>3. TellsTrue /\ UNCHANGED <<row, poll, ledger, dropper, faults>>
    BY <1>11 DEF Cancel, TellsTrue, IInv, TypeOK
  <2>4. QED
    BY <2>1, <2>2, <2>3, OrdinaryRequest
<1>12. CASE Abort(r)
  <2>1. RequestMoves(r)
    BY <1>12, QuietEnd DEF Abort
  <2>2. EntryMoves(r) /\ TellsTrue /\ UNCHANGED <<row, poll, ledger, dropper, faults>>
    BY <1>12 DEF Abort, EntryMoves, TellsTrue, IInv, TypeOK
  <2>3. QED
    BY <2>1, <2>2, OrdinaryRequest
<1>13. QED
  BY <1>1, <1>2, <1>3, <1>4, <1>5, <1>6, <1>7, <1>8, <1>9, <1>10, <1>11, <1>12
     DEF Request, GoOn

\* The steps of a poller.
LEMMA PollStep ==
  ASSUME IInv, NEW i \in Pollers, Poll(i) \/ CutShort(i)
  PROVE  IInv'
<1> USE DEF ledger
<1>1. CASE StartPoll(i)
  <2>1. PICK p \in PollStates :
          /\ poll' = [poll EXCEPT ![i] = p]
          /\ p.saw = "absent"
          /\ \/ p.step = "claim"
             \/ /\ p.step = "read" /\ row.status = "awaiting_entry"
                /\ p.old = (row.age > AwaitTTL)
    <3>1. IdlePoll \in PollStates /\ IdlePoll.saw = "absent"
      BY LimitTypes DEF IdlePoll, PollStates, PollSteps, ConfirmationStatus
    <3>2. Abandoned(row, 0) = (row.age > AwaitTTL) /\ Abandoned(row, 0) \in BOOLEAN
      BY LimitTypes DEF Abandoned, IInv, TypeOK, Rows
    <3>3. CASE row.status = "awaiting_entry"
      <4>1. DEFINE p == [IdlePoll EXCEPT !.step = "read", !.old = Abandoned(row, 0)]
      <4>2. p \in PollStates /\ p.saw = "absent" /\ p.step = "read" /\ p.old = Abandoned(row, 0)
        BY <3>1, <3>2 DEF PollStates, PollSteps
      <4>3. poll' = [poll EXCEPT ![i] = p]
        BY <1>1, <3>3 DEF StartPoll
      <4>4. QED
        BY <3>2, <3>3, <4>2, <4>3
    <3>4. CASE row.status # "awaiting_entry"
      <4>1. DEFINE p == [IdlePoll EXCEPT !.step = "claim"]
      <4>2. p \in PollStates /\ p.saw = "absent" /\ p.step = "claim"
        BY <3>1 DEF PollStates, PollSteps
      <4>3. poll' = [poll EXCEPT ![i] = p]
        BY <1>1, <3>4 DEF StartPoll
      <4>4. QED
        BY <4>2, <4>3
    <3>5. QED
      BY <3>3, <3>4
  <2>2. /\ poll' \in [Pollers -> PollStates] /\ poll'[i] = p
        /\ \A j \in Pollers : j # i => poll'[j] = poll[j]
    BY <2>1 DEF IInv, TypeOK
  <2>3. p.step = "read" /\ p.old => NothingToCome
    BY <2>1, AbandonedEntry
  <2>4. PollMoves(i)
    BY <1>1, <2>1, <2>2, <2>3 DEF PollMoves, StartPoll, At, Working
  <2>5. QED
    BY <1>1, <2>4, OrdinaryPoll, LimitTypes DEF StartPoll, IInv, TypeOK
<1>2. CASE ReadEntry(i)
  <2>1. poll[i].step = "read" /\ UNCHANGED <<entry, row, req, ledger, dropper, told>>
    BY <1>2 DEF ReadEntry, At
  <2>2. CASE poll' = [poll EXCEPT ![i].step = "resolve", ![i].saw = entry.status] /\ UNCHANGED faults
    <3>1. entry.status \in ConfirmationStatus
      BY DEF IInv, TypeOK, Documents
    <3>2. /\ poll' \in [Pollers -> PollStates]
          /\ poll'[i].step = "resolve" /\ poll'[i].saw = entry.status
          /\ poll'[i].old = poll[i].old
          /\ \A j \in Pollers : j # i => poll'[j] = poll[j]
      BY <2>2, <3>1 DEF IInv, TypeOK, PollStates, PollSteps
    <3>3. poll[i].old => NothingToCome
      BY <2>1 DEF IInv, PollsTrue
    <3>4. entry.status \in {"failed", "cancelled", "expired"} => NeverExecuted
      BY DEF IInv, EntryTrue, NeverExecuted, NothingToCome
    <3>5. GivesUp(entry.status, poll[i].old) => NeverExecuted
      BY <3>3, <3>4 DEF GivesUp, NeverExecuted
    <3>6. entry.status = "executed" => sent = 1
      BY DEF IInv, EntryTrue
    <3>7. PollMoves(i)
      BY <2>1, <3>2, <3>3, <3>5, <3>6 DEF PollMoves, Working
    <3>8. faults' \in 0..MaxFaults /\ faults' >= faults
      BY <2>2, LimitTypes DEF IInv, TypeOK
    <3>9. QED
      BY <2>1, <3>7, <3>8, OrdinaryPoll
  <2>3. CASE ToClaim(i) /\ Fault
    <3>1. faults' \in 0..MaxFaults /\ faults' >= faults
      BY <2>3, LimitTypes DEF Fault, IInv, TypeOK
    <3>2. QED
      BY <2>1, <2>3, <3>1, ToClaimMoves, OrdinaryPoll
  <2>4. QED
    BY <1>2, <2>2, <2>3 DEF ReadEntry
<1>3. CASE Resolve(i)
  <2>1. /\ poll[i].step = "resolve" /\ ToClaim(i) /\ row \in Rows
        /\ UNCHANGED <<entry, req, ledger, told>>
    BY <1>3 DEF Resolve, At, IInv, TypeOK
  <2>2. faults' \in 0..MaxFaults /\ faults' >= faults
    BY <1>3, LimitTypes DEF Resolve, Fault, IInv, TypeOK
  <2>3. PollMoves(i)
    BY <2>1, ToClaimMoves
  <2>4. \/ ComesTrue(poll[i].saw) /\ row' = Activated(row) /\ UNCHANGED dropper
        \/ GivesUp(poll[i].saw, poll[i].old) /\ DropBy("reconciler")
        \/ UNCHANGED <<row, dropper>>
    BY <1>3 DEF Resolve
  <2>5. /\ RowMoves
        /\ dropper' \in Droppers /\ (dropper' = "reconciler" => NeverExecuted)
    <3>1. CASE ComesTrue(poll[i].saw) /\ row' = Activated(row) /\ UNCHANGED dropper
      <4>1. sent = 1
        BY <2>1, <3>1 DEF ComesTrue, IInv, PollsTrue
      <4>2. QED
        BY <2>1, <3>1, <4>1, RowUpdates DEF RowMoves, IInv, TypeOK, PollsTrue
    <3>2. CASE GivesUp(poll[i].saw, poll[i].old) /\ DropBy("reconciler")
      <4>1. NeverExecuted
        BY <2>1, <3>2 DEF IInv, PollsTrue
      <4>2. QED
        BY <2>1, <3>2, <4>1, RowUpdates DEF DropBy, RowMoves, IInv, TypeOK, Droppers
    <3>3. CASE UNCHANGED <<row, dropper>>
      BY <2>1, <3>3 DEF RowMoves, IInv, TypeOK, PollsTrue
    <3>4. QED
      BY <2>4, <3>1, <3>2, <3>3
  <2>6. QED
    BY <2>1, <2>2, <2>3, <2>5, RowStep
<1>4. CASE Claim(i)
  <2>1. UNCHANGED <<entry, req, ledger, dropper, told, faults>> /\ At(i, "claim")
    BY <1>4 DEF Claim
  <2>2. CASE Claimable(row, poll[i].late)
    BY <1>4, <2>1, <2>2, ClaimedStep DEF Claim
  <2>3. CASE ~Claimable(row, poll[i].late)
    <3>1. Rest(i) /\ UNCHANGED row
      BY <1>4, <2>3 DEF Claim
    <3>2. PollMoves(i)
      BY <2>1, <3>1, RestEffect DEF IInv, PollMoves, At, Working
    <3>3. faults' \in 0..MaxFaults /\ faults' >= faults
      BY <2>1, LimitTypes DEF IInv, TypeOK
    <3>4. QED
      BY <2>1, <3>1, <3>2, <3>3, OrdinaryPoll
  <2>4. QED
    BY <2>2, <2>3
<1>5. CASE Gate(i) \/ Positions(i)
  <2>1. /\ poll[i].step \in {"gate", "positions"}
        /\ UNCHANGED <<entry, row, req, ledger, dropper, told, faults>>
        /\ \/ Move(i, "positions") \/ Move(i, "close")
           \/ Verdict(i, "done") \/ Verdict(i, "skipped")
    BY <1>5 DEF Gate, Positions, At
  <2>2. /\ poll' \in [Pollers -> PollStates]
        /\ poll'[i].step \in {"positions", "close", "mark"} /\ poll'[i].late = poll[i].late
        /\ \A j \in Pollers : j # i => poll'[j] = poll[j]
    <3>1. {"positions", "close"} \subseteq PollSteps
      BY DEF PollSteps
    <3>2. QED
      BY <2>1, <3>1, MoveEffect, VerdictEffect DEF IInv
  <2>3. PollMoves(i)
    BY <2>1, <2>2 DEF PollMoves, Working
  <2>4. faults' \in 0..MaxFaults /\ faults' >= faults
    BY <2>1, LimitTypes DEF IInv, TypeOK
  <2>5. QED
    BY <2>1, <2>3, <2>4, OrdinaryPoll
<1>6. CASE SendClose(i)
  BY <1>6, SendCloseStep
<1>7. CASE Mark(i)
  BY <1>7, MarkStep
<1>8. CASE CutShort(i)
  <2>1. /\ UNCHANGED <<entry, row, req, ledger, dropper, told>> /\ Rest(i)
        /\ faults < MaxFaults /\ faults' = faults + 1
    BY <1>8 DEF CutShort, Fault
  <2>2. PollMoves(i)
    BY <2>1, RestEffect DEF IInv, PollMoves, Working
  <2>3. faults' \in 0..MaxFaults /\ faults' >= faults
    BY <2>1, LimitTypes DEF IInv, TypeOK
  <2>4. QED
    BY <2>1, <2>2, <2>3, OrdinaryPoll
<1>9. QED
  BY <1>1, <1>2, <1>3, <1>4, <1>5, <1>6, <1>7, <1>8 DEF Poll
-----------------------------------------------------------------------------
\* No step of the mission, of its pollers or of time breaks the invariant.
LEMMA NextIInv == IInv /\ [Next]_vars => IInv'
<1> SUFFICES ASSUME IInv, [Next]_vars PROVE IInv'
  OBVIOUS
<1>1. CASE \E r \in Requests : Request(r)
  BY <1>1, RequestStep
<1>2. CASE \E i \in Pollers : Poll(i) \/ CutShort(i)
  BY <1>2, PollStep
<1>3. CASE PositionGone \/ UserOpens
  BY <1>3, PositionStep DEF PositionGone, UserOpens, IInv, TypeOK, Owners
<1>4. CASE PurgeEntry
  BY <1>4, PurgeStep
<1>5. CASE Tick
  BY <1>5, TickStep
<1>6. CASE UNCHANGED vars
  <2>1. pos' \in SUBSET Owners /\ UNCHANGED <<entry, row, req, poll, sent, closes, dropper, told, faults>>
    BY <1>6 DEF vars, IInv, TypeOK
  <2>2. QED
    BY <2>1, PositionStep
<1>7. QED
  BY <1>1, <1>2, <1>3, <1>4, <1>5, <1>6 DEF Next

\* The inductive invariant, TypeOK among its parts, holds in every state of a mission,
\* however many requests and pollers work on it and however they are cut short.
THEOREM MissionInvariant == Spec => []IInv
<1>1. Init => IInv
  BY InitIInv
<1>2. IInv /\ [Next]_vars => IInv'
  BY NextIInv
<1>3. QED
  BY <1>1, <1>2, PTL DEF Spec

\* A timed close is sent only for an entry the exchange has, once, and once more for each
\* poll that was cut short between its claim and its mark (processOneScheduledClose).
THEOREM TimedClosesAreDue == Spec => []ClosesAreDue
<1>1. IInv => ClosesAreDue
  BY DEF IInv, TypeOK, CloseStatus, Rows, RowTrue, ClosesAreDue, CloseNeedsEntry,
         ExtraCloseNeedsFault
<1>2. QED
  BY <1>1, MissionInvariant, PTL

\* Two API instances never work on one claimed close, because a claim outlives the poll
\* that made it (scheduledCloseClaimFilter, ScheduledCloseClaimTimeout).
THEOREM OneWorkerPerClose == Spec => []OneWorker
<1>1. IInv => OneWorker
  BY DEF IInv, RowTrue
<1>2. QED
  BY <1>1, MissionInvariant, PTL

\* The reconciler never drops the close of an entry recorded as executed, because
\* scheduledCloseAwaitingTTL outlives the confirmation and the request that took it.
THEOREM ExecutedKeepsItsClose == Spec => []ReconcilerSparesExecuted
<1>1. IInv => ReconcilerSparesExecuted
  BY DEF IInv, PollsTrue, NeverExecuted, ReconcilerSparesExecuted
<1>2. QED
  BY <1>1, MissionInvariant, PTL

\* Once the user was told "Cancelled.", neither the entry nor its close is ever sent
\* (handleConfirm, orders.Cancel).
THEOREM CancelledIsOver == Spec => []CancelledMissionIsOver
<1>1. IInv => CancelledMissionIsOver
  <2>1. IInv /\ sent = 0 => closes = 0
    BY DEF IInv, TypeOK, Rows, CloseStatus, RowTrue
  <2>2. QED
    BY <2>1 DEF IInv, EntryTrue, CancelledMissionIsOver
<1>2. QED
  BY <1>1, MissionInvariant, PTL
=============================================================================
