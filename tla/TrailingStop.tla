---------------------------- MODULE TrailingStop ----------------------------
(***************************************************************************)
(* The trailing stop of one open position: ComputeStop, the Tick of Runner   *)
(* and MultiTrailer (internal/monitor), and the executor's CurrentStop and   *)
(* MoveStopLoss they call.  The platform's Runner and the per-user trailer   *)
(* run side by side, each a loop of its own, and may manage one account.     *)
(*                                                                         *)
(* Each request is one step; the mark price moves in between.  Prices are    *)
(* naturals; Grid holds those the exchange trades at (multiples of tickSize).*)
(***************************************************************************)
EXTENDS Integers, FiniteSets

CONSTANTS
  Trailers,    \* the loops that trail this position
  Nonced,      \* those with a per-process nonce in their order ids (MultiTrailer)
  Prices,      \* mark prices
  Grid,        \* prices an order may have
  Entry,       \* the position's entry price, an average over fills
  Activate,    \* percentOf(entry, ActivatePct)
  Gap,         \* percentOf(entry, TrailGapPct)
  MaxPlaced,   \* bound: stops placed
  MaxTries,    \* bound: moves one process tries
  MaxRestarts, \* bound: restarts of the worker
  MaxLost      \* bound: requests that fail or whose answer is lost

\* FloorToStep: the greatest tradable price not above p.
IsFloor(q, p) == q \in Grid /\ q <= p /\ \A r \in Grid : r <= p => r <= q

ASSUME TrailAssumption ==
  /\ Nonced \subseteq Trailers /\ "sl" \notin Trailers
  /\ Prices \subseteq Nat /\ Grid \subseteq Nat
  /\ Entry \in Nat /\ Activate \in Nat /\ Gap \in Nat
  /\ \A p \in {Entry} \cup {m + Gap : m \in Prices} \cup {m - Gap : m \in Prices} :
       p >= 0 => \E q \in Grid : IsFloor(q, p)
  /\ MaxPlaced \in Nat /\ MaxTries \in Nat /\ MaxRestarts \in Nat /\ MaxLost \in Nat

VARIABLES
  side,      \* of the position: "long" or "short"
  open,      \* the position is there
  mark,      \* the mark price
  live,      \* the live STOP_MARKET orders of the symbol: [id, price, born]
  used,      \* the client ids the exchange has seen
  placed,    \* stops placed so far; a stop's number is its `born` (history)
  job,       \* job[t]: the request trailer t makes next, and what it goes by
  seq, boot, \* what t's next id is made of
  restarts, lost   \* counted against their bounds

exchange == <<side, open, mark, live, used, placed>>
vars == <<exchange, job, seq, boot, restarts, lost>>
-----------------------------------------------------------------------------
Ids   == (Trailers \cup {"sl"}) \X Nat \X Nat
Stops == [id : Ids, price : Nat, born : Nat]

\* `saw`: the mark price Positions reported; `old`: the stop CurrentStop reported;
\* `new`: the price of the stop to place.  Cleared when no longer needed.
Jobs == [step : {"positions", "stop", "place", "cancel"}, saw : Nat, old : Stops, new : Nat]

TypeOK ==
  /\ side \in {"long", "short"} /\ open \in BOOLEAN
  /\ mark \in Prices
  /\ live \in SUBSET Stops /\ \A s \in live : s.price \in Grid
  /\ used \in SUBSET Ids
  /\ placed \in Nat
  /\ job \in [Trailers -> Jobs]
  /\ seq \in [Trailers -> Nat] /\ boot \in [Trailers -> Nat]
  /\ restarts \in Nat /\ lost \in Nat

Id(t, b, n) == <<t, b, n>>
NoStop == [id |-> Id("sl", 0, 0), price |-> 0, born |-> 0]
Idle   == [step |-> "positions", saw |-> 0, old |-> NoStop, new |-> 0]

\* executeOpen placed the first stop: below a long's entry, above a short's.
Init ==
  /\ side \in {"long", "short"} /\ open = TRUE
  /\ mark \in Prices
  /\ \E p \in Grid :
       /\ IF side = "long" THEN p < Entry /\ p < mark ELSE p > Entry /\ p > mark
       /\ live = {[NoStop EXCEPT !.price = p]}
  /\ used = {NoStop.id} /\ placed = 0
  /\ job = [t \in Trailers |-> Idle]
  /\ seq = [t \in Trailers |-> 0] /\ boot = [t \in Trailers |-> 0]
  /\ restarts = 0 /\ lost = 0
-----------------------------------------------------------------------------
(* ComputeStop.                                                            *)

\* a protects at least as much as b; strictly more.
AsTight(a, b) == IF side = "long" THEN a >= b ELSE a <= b
Tighter(a, b) == AsTight(a, b) /\ a # b

Activated(m) == IF side = "long" THEN m - Entry >= Activate ELSE Entry - m >= Activate

\* Seeded fault: no break-even floor.
CandidateUnfloored(m) ==
  IF side = "long" THEN (IF m < Gap THEN 0 ELSE m - Gap) ELSE m + Gap

\* The gap behind the mark, but never worse than break-even.
Candidate(m) ==
  IF side = "long"
  THEN IF m - Gap < Entry THEN Entry ELSE m - Gap
  ELSE IF m + Gap > Entry THEN Entry ELSE m + Gap

\* Seeded fault: move whenever the candidate differs.
MovesEitherWay(m, stop) == Activated(m) /\ Candidate(m) # stop
Moves(m, stop) == Activated(m) /\ Tighter(Candidate(m), stop)

\* Seeded fault: the tick size is forgotten.
RoundedNot(p) == p

\* MoveStopLoss rounds the candidate down to the tick, on either side.
Rounded(p) == CHOOSE q \in Grid : IsFloor(q, p)
-----------------------------------------------------------------------------
Doing(t, s) == job[t].step = s
Become(t, j) == job' = [job EXCEPT ![t] = j]
Done(t) == Become(t, Idle)

\* Seeded fault: the per-process nonce left out.
NextIdPlain(t) == Id(t, 0, seq[t])

\* The id of t's next order.  Only MultiTrailer makes it unique to the process.
NextId(t) == Id(t, IF t \in Nonced THEN boot[t] ELSE 0, seq[t])

Fails == lost < MaxLost /\ lost' = lost + 1

\* Positions; an error or no position ends the pass.
ReadPosition(t) ==
  /\ Doing(t, "positions")
  /\ Become(t, [step |-> "stop", saw |-> mark, old |-> NoStop, new |-> 0])
  /\ UNCHANGED <<exchange, seq, boot, restarts, lost>>

\* CurrentStop takes the first STOP_MARKET of the list, in the exchange's order;
\* ComputeStop decides on the mark price read before.
ReadStop(t) ==
  /\ Doing(t, "stop")
  /\ \/ \E s \in live :
          /\ Moves(job[t].saw, s.price) /\ seq[t] < MaxTries
          /\ seq' = [seq EXCEPT ![t] = @ + 1]
          /\ Become(t, [step |-> "place", saw |-> 0, old |-> s,
                        new |-> Rounded(Candidate(job[t].saw))])
          /\ UNCHANGED lost
     \/ /\ live = {} \/ \E s \in live : ~Moves(job[t].saw, s.price)
        /\ Done(t) /\ UNCHANGED <<seq, lost>>
     \/ Fails /\ Done(t) /\ UNCHANGED seq
  /\ UNCHANGED <<exchange, boot, restarts>>

\* The exchange takes a stop with a fresh id that would not trigger at once.
Triggers(p, m) == IF side = "long" THEN m <= p ELSE m >= p
Accepts(t) == NextId(t) \notin used /\ ~Triggers(job[t].new, mark)

Place(t) ==
  /\ placed < MaxPlaced /\ placed' = placed + 1
  /\ live' = live \cup {[id |-> NextId(t), price |-> job[t].new, born |-> placed + 1]}
  /\ used' = used \cup {NextId(t)}

\* Seeded fault: the old stop is cancelled although the new one was not taken.
AfterRefusalAnyway(t) == Become(t, [job[t] EXCEPT !.step = "cancel"])

\* MoveStopLoss returns the error; the old stop still protects the position.
AfterRefusal(t) == Done(t)

\* MoveStopLoss: the new stop first.
PlaceNew(t) ==
  /\ Doing(t, "place")
  /\ \/ Accepts(t) /\ Place(t) /\ Become(t, [job[t] EXCEPT !.step = "cancel"]) /\ UNCHANGED lost
     \/ ~Accepts(t) /\ AfterRefusal(t) /\ UNCHANGED <<live, used, placed, lost>>
     \/ Fails /\ AfterRefusal(t) /\ UNCHANGED <<live, used, placed>>
     \/ Fails /\ AfterRefusal(t) /\ Accepts(t) /\ Place(t)
  /\ UNCHANGED <<side, open, mark, seq, boot, restarts>>

\* Seeded fault: MoveStopLoss mistakes its two ids.
ToCancelNew(t) == NextId(t)
ToCancel(t) == job[t].old.id

\* MoveStopLoss: then the old one, best effort.
CancelOld(t) ==
  /\ Doing(t, "cancel")
  /\ LET rest == {s \in live : s.id # ToCancel(t)} IN
     \/ live' = rest /\ UNCHANGED lost
     \/ Fails /\ live' \in {live, rest}
  /\ Done(t)
  /\ UNCHANGED <<side, open, mark, used, placed, seq, boot, restarts>>

\* The worker process, home of all trailers, dies between two requests and comes up
\* again with counters at zero and a new nonce.
Restart ==
  /\ restarts < MaxRestarts /\ restarts' = restarts + 1
  /\ job' = [t \in Trailers |-> Idle]
  /\ seq' = [t \in Trailers |-> 0] /\ boot' = [t \in Trailers |-> boot[t] + 1]
  /\ UNCHANGED <<exchange, lost>>

\* The mark price moves; a stop it reaches closes the whole position.
MarkMoves ==
  /\ mark' \in Prices \ {mark}
  /\ open' = ~\E s \in live : Triggers(s.price, mark')
  /\ UNCHANGED <<side, live, used, placed, job, seq, boot, restarts, lost>>
-----------------------------------------------------------------------------
Tick(t) == ReadPosition(t) \/ ReadStop(t) \/ PlaceNew(t) \/ CancelOld(t)

\* One position is followed until it is closed.
Next == open /\ (MarkMoves \/ Restart \/ \E t \in Trailers : Tick(t))

Spec == Init /\ [][Next]_vars
-----------------------------------------------------------------------------
(* Properties.                                                              *)

\* Whatever requests fail, whoever restarts, and however many trailers work on one
\* position, it is never without a stop (MoveStopLoss places before it cancels).
NeverUncovered == open => live # {}

\* The protection only ratchets: whatever becomes of a stop, afterwards there is one
\* at least as tight - though each trailer moves from the stop it happened to read.
Ratchet ==
  [][\A s \in live : \E r \in live' : AsTight(r.price, s.price)]_vars

\* Every stop a trailer placed is at break-even or better, up to one tick for a long:
\* ComputeStop floors at the entry price, MoveStopLoss then rounds down.
BreakEvenUpToTick ==
  \A s \in live : s.id[1] # "sl" => AsTight(s.price, Rounded(Entry))

\* A process that puts its own nonce in its order ids never asks for an id the
\* exchange has seen, whatever was restarted before (trailNonce).
NonceMakesIdsFresh ==
  \A t \in Nonced : Doing(t, "place") => NextId(t) \notin used

\* What a trailer places protects at break-even under an id of its own.
PlacedStopsAreSound == BreakEvenUpToTick /\ NonceMakesIdsFresh
=============================================================================
