------------------------------- MODULE Signals -------------------------------
(* Webhook signals (api/server.go, signals/processor.go): each delivery asks *)
(* the panel of advisors (ai/ensemble.go), turns its decision into a command *)
(* of the grammar (signals/signal.go), prepares and perhaps confirms an     *)
(* order for the admin, and is put on record. The executor rounds an open   *)
(* to the symbol's filters (exchange/binance/executor.go).                  *)
EXTENDS Commands, FiniteSets

CONSTANTS
    Deliveries,    \* calls of the webhook; a retry is one more
    Panels,        \* numbers of advisors on the panel
    Decisions,     \* what an advisor may answer
    Error,         \* or it fails
    MinConfidence,
    Ticks,         \* TickSize of the symbol
    Step, MinQty, MinNotional,
    MaxFaults      \* bound: calls of the order service and of the record store that fail

Opening == [action: {"open"}, symbol: STRING, side: STRING, leverage: Int,
            entry: Int, sl: Int, tp: Int, size: Int, confidence: Int]

SignalsAssumption ==
    /\ Error \notin Decisions
    /\ \A d \in Decisions : d.action \in {"hold", "close"} \/ d \in Opening
    /\ Panels \subseteq Nat \ {0}
    /\ MinConfidence \in 0..100
    /\ Ticks \subseteq Nat \ {0} /\ Step \in Nat \ {0}
    /\ MinQty \in Nat \ {0} /\ MinNotional \in Nat /\ MaxFaults \in Nat

VARIABLES
    config,     \* [panel, consensus, minVotes, auto, tick], read at start
    delivery,   \* per delivery: where Process is, the answers, the decision, the intent
    record,     \* the signal records, one per delivery
    orders,     \* orders the exchange accepted: <<delivery, order>>
    faults

vars == <<config, delivery, record, orders, faults>>

New == [pc |-> "new", answers |-> <<>>, decision |-> Error, intent |-> Invalid]

Init ==
    /\ \E n \in Panels : config \in
          [panel: {n}, consensus: BOOLEAN, minVotes: 0..n, auto: BOOLEAN, tick: Ticks]
    /\ delivery = [d \in Deliveries |-> New]
    /\ record = [d \in Deliveries |-> "none"]
    /\ orders = {}
    /\ faults = 0

Fault == faults < MaxFaults /\ faults' = faults + 1
----------------------------------------------------------------------------
(* EnsembleAdvisor *)

(* NewEnsembleAdvisor: a majority of the panel, and all of it for consensus. *)
\* Seeded fault: a consensus of those that answered.
MinVotesLoose(answers) ==
    IF config.consensus THEN Cardinality({i \in DOMAIN answers : answers[i] # Error})
    ELSE IF config.minVotes = 0 THEN config.panel \div 2 + 1 ELSE config.minVotes
MinVotes(answers) ==
    IF config.consensus THEN config.panel
    ELSE IF config.minVotes = 0 THEN config.panel \div 2 + 1 ELSE config.minVotes

(* Those who would open on a side, by their places on the panel.            *)
Votes(answers, side) ==
    {i \in DOMAIN answers : /\ answers[i] # Error
                            /\ answers[i].action = "open" /\ answers[i].side = side}

(* leadingSide: a tie goes to long. *)
Winners(answers) ==
    LET long == Votes(answers, "long")
        short == Votes(answers, "short")
    IN IF Cardinality(short) > Cardinality(long) THEN short ELSE long

(* averageConfidence *)
Total(answers, voters) ==
    LET sum[k \in 0..Len(answers)] ==
            IF k = 0 THEN 0 ELSE sum[k - 1] + (IF k \in voters THEN answers[k].confidence ELSE 0)
    IN sum[Len(answers)]
(* Go divides towards zero. *)
Average(answers, voters) ==
    LET total == Total(answers, voters) IN
    IF total < 0 THEN -((-total) \div Cardinality(voters)) ELSE total \div Cardinality(voters)

Hold == [action |-> "hold"]

(* The levels are those of the most confident winner, the first of them.    *)
Aggregate(answers) ==
    LET winners == Winners(answers)
        first == CHOOSE i \in winners :
                    \A j \in winners :
                       \/ answers[i].confidence > answers[j].confidence
                       \/ answers[i].confidence = answers[j].confidence /\ i <= j
    IN IF winners = {} \/ Cardinality(winners) < MinVotes(answers) THEN Hold
       ELSE [answers[first] EXCEPT !.confidence = Average(answers, winners)]
----------------------------------------------------------------------------
(* DecisionToIntent: the decision is written out as a command and parsed.   *)
Command(d) ==
    IF d.action = "open"
    THEN <<Word(d.side), Word(d.symbol), Num(d.leverage, "x"), Word("entry"), Num(d.entry, ""),
           Word("sl"), Num(d.sl, ""), Word("tp"), Num(d.tp, ""), Word("size"), Num(d.size, "usdt")>>
    ELSE IF d.percent = 0 THEN <<Word("close"), Word(d.symbol)>>
    ELSE <<Word("close"), Word(d.symbol), Num(d.percent, "%")>>

(* Only long and short are sides to open on. *)
Translated(d) ==
    IF d.action = "open" /\ d.side \notin {"long", "short"} THEN Invalid ELSE Parse(Command(d))

(* executeOpen: prices go down to the tick, the quantity down to the step.  *)
Floor(n, step) == (n \div step) * step

\* Seeded fault: the quantity is taken at the stop.
QuantityAtStop(o, entry) ==
    IF o.size.kind = "usdt" THEN Floor(o.size.amount \div o.sl, Step) ELSE Floor(o.size.amount, Step)
Quantity(o, entry) ==
    IF o.size.kind = "usdt" THEN Floor(o.size.amount \div entry, Step) ELSE Floor(o.size.amount, Step)

(* A price below one tick rounds to zero, and QuoFloor refuses to divide.   *)
Executable(o) ==
    LET entry == Floor(o.entry, config.tick) IN
    /\ entry > 0
    /\ Quantity(o, entry) >= MinQty
    /\ Quantity(o, entry) * entry >= MinNotional

Order(o) ==
    LET entry == Floor(o.entry, config.tick)
    IN [side |-> o.side, entry |-> entry, sl |-> Floor(o.sl, config.tick),
        tp |-> Floor(o.tp, config.tick), qty |-> Quantity(o, entry)]
----------------------------------------------------------------------------
(* Process *)

Goto(d, pc) == delivery' = [delivery EXCEPT ![d].pc = pc]
Recorded(d, status) == \/ record' = [record EXCEPT ![d] = status] /\ UNCHANGED faults
                       \/ UNCHANGED record /\ Fault

(* One advisor after the other; an error is an abstention.                  *)
Ask(d) ==
    LET job == delivery[d] IN
    /\ job.pc = "new" /\ Len(job.answers) < config.panel
    /\ \E a \in Decisions \cup {Error} : delivery' = [delivery EXCEPT ![d].answers = Append(@, a)]
    /\ UNCHANGED <<config, record, orders, faults>>

(* A panel of one is that advisor itself: its error fails the signal.       *)
Decided(answers) == IF config.panel = 1 THEN answers[1] ELSE Aggregate(answers)

Decide(d) ==
    LET job == delivery[d]
        decision == Decided(job.answers)
    IN /\ job.pc = "new" /\ Len(job.answers) = config.panel
       /\ delivery' = [delivery EXCEPT ![d] = [@ EXCEPT !.pc = "judge", !.decision = decision]]
       /\ UNCHANGED <<config, record, orders, faults>>

\* Seeded fault: the least confidence is not asked for.
ConfidentAnyway(decision) == decision.confidence >= 0
Confident(decision) == decision.confidence >= MinConfidence

(* Everything up to Prepare; whatever ends here is recorded and never sent. *)
Judge(d) ==
    LET decision == delivery[d].decision
        over(status) == Goto(d, "over") /\ Recorded(d, status)
    IN /\ delivery[d].pc = "judge"
       /\ IF decision = Error THEN over("failed")
          ELSE IF decision.action = "hold" THEN over("held")
          ELSE IF ~Confident(decision) THEN over("rejected")
          ELSE IF Translated(decision) = Invalid THEN over("failed")
          ELSE /\ delivery' = [delivery EXCEPT ![d] = [@ EXCEPT !.pc = "prepare",
                                                        !.intent = Translated(decision)]]
               /\ UNCHANGED <<record, faults>>
       /\ UNCHANGED <<config, orders>>

Prepare(d) ==
    /\ delivery[d].pc = "prepare"
    /\ \/ Goto(d, IF config.auto THEN "confirm" ELSE "pending") /\ UNCHANGED faults
       \/ Goto(d, "failed") /\ Fault
    /\ UNCHANGED <<config, record, orders>>

RecordOutcome(d) ==
    /\ delivery[d].pc \in {"pending", "failed", "executed"}
    /\ Goto(d, "over")
    /\ Recorded(d, IF delivery[d].pc = "pending" THEN "confirmation_required" ELSE delivery[d].pc)
    /\ UNCHANGED <<config, orders>>

(* Confirm of the prepared order, for a close as for an open. It also fails *)
(* when the order was placed and Complete failed, or its answer was lost.   *)
Confirm(d) ==
    LET intent == delivery[d].intent
        sent == orders \cup {<<d, IF intent.type = "open" THEN Order(intent) ELSE intent>>}
        possible == intent.type = "open" => Executable(intent)
    IN /\ delivery[d].pc = "confirm"
       /\ \/ possible /\ orders' = sent /\ Goto(d, "executed") /\ UNCHANGED faults
          \/ ~possible /\ Goto(d, "failed") /\ UNCHANGED <<orders, faults>>
          \/ Goto(d, "failed") /\ Fault /\ (UNCHANGED orders \/ (possible /\ orders' = sent))
       /\ UNCHANGED <<config, record>>

Deliver(d) ==
    Ask(d) \/ Decide(d) \/ Judge(d) \/ Prepare(d) \/ Confirm(d) \/ RecordOutcome(d)

Next == \E d \in Deliveries : Deliver(d)

Spec == Init /\ [][Next]_vars
----------------------------------------------------------------------------
TypeOK ==
    /\ config.panel \in Panels /\ config.minVotes \in 0..config.panel /\ config.tick \in Ticks
    /\ \A d \in Deliveries :
          /\ delivery[d].pc \in {"new", "judge", "prepare", "confirm", "pending", "failed",
                                 "executed", "over"}
          /\ Len(delivery[d].answers) <= config.panel
    /\ \A d \in Deliveries : record[d] \in {"none", "held", "rejected", "failed",
                                            "confirmation_required", "executed"}
    /\ \A o \in orders : o[1] \in Deliveries
    /\ faults \in 0..MaxFaults

Opens == {o \in orders : delivery[o[1]].intent.type = "open"}

(* An order that a signal places by itself was allowed to (auto trading is  *)
(* on), and the record of a signal that was held, rejected or left to the   *)
(* admin hides no order. An open has enough of the panel behind it, all of  *)
(* it under consensus, and enough confidence on average (Process, Decide).  *)
SignalOrdersAreBacked ==
    /\ \A o \in orders : config.auto /\ record[o[1]] \in {"none", "executed", "failed"}
    /\ \A o \in Opens :
       LET answers == delivery[o[1]].answers
           agreeing == Votes(answers, o[2].side)
       IN /\ 2 * Cardinality(agreeing) > config.panel \/ config.minVotes > 0
          /\ config.panel > 1 => Cardinality(agreeing) >= config.minVotes
          /\ config.consensus => Cardinality(agreeing) = config.panel
          /\ MinConfidence > 0 =>
                Total(answers, agreeing) >= MinConfidence * Cardinality(agreeing)

(* What the exchange gets is the order that was decided, rounded: no more   *)
(* than the size in USDT, whole steps, at least the smallest quantity, and  *)
(* the stop and the target on their sides of the entry, unless they were    *)
(* less than a tick away from it (executeOpen).                             *)
OrdersFitTheFilters ==
    \A o \in Opens :
       LET i == delivery[o[1]].intent
           far(level) == level - i.entry >= config.tick \/ i.entry - level >= config.tick
       IN /\ i.size.kind = "usdt" => o[2].qty * o[2].entry <= i.size.amount
          /\ o[2].qty % Step = 0 /\ o[2].qty >= MinQty
          /\ far(i.sl) /\ far(i.tp) => Bracketed(o[2].side, o[2].entry, o[2].sl, o[2].tp)
=============================================================================
