------------------------------ MODULE Journal ------------------------------
(* The trade journal of one user's account: the open row a confirmed entry  *)
(* leaves (orders/service.go), the close orders of the executor, and the    *)
(* two writers that settle a row, the close that names the entry and the    *)
(* reconcilers of the API instances (api/mission_result_reconciler.go).     *)
(* Positions are long and in units of the symbol's step; a fill's gain is   *)
(* per unit. The exchange's clock and the server's agree.                   *)
EXTENDS Integers, Sequences, FiniteSets, SequencesExt

CONSTANTS
    Missions,      \* entries, each with a row of its own
    Symbols,
    SymbolOf,      \* [Missions -> Symbols]
    Qty,           \* [Missions -> Nat]: the filled quantity of the entry
    Closes,        \* close orders: the timed ones and the user's own
    CloseOf,       \* [Closes -> [symbols, percent, entry]]
    NoEntry,       \* a close that names no entry
    Reconcilers,   \* API instances
    Held,          \* [Symbols -> Nat]: what the user holds at the start
    Gains,         \* gain per unit of an exit fill
    Marks,         \* unrealized gain per unit when a close reads a position
    Fee,           \* commission per unit
    MaxFaults      \* bound: requests and writes that fail

ASSUME JournalAssumption ==
    /\ SymbolOf \in [Missions -> Symbols]
    /\ Qty \in [Missions -> Nat \ {0}]
    /\ CloseOf \in [Closes -> [symbols: SUBSET Symbols, percent: 1..100, entry: Missions \cup {NoEntry}]]
    /\ NoEntry \notin Missions
    /\ \A c \in Closes : CloseOf[c].entry # NoEntry =>
           CloseOf[c].symbols = {SymbolOf[CloseOf[c].entry]} /\ CloseOf[c].percent = 100
    /\ Held \in [Symbols -> Nat]
    /\ Gains \subseteq Int /\ Marks \subseteq Int /\ Fee \in Nat /\ MaxFaults \in Nat

VARIABLES
    position,   \* the account at the exchange
    fills,      \* per symbol, the exit fills in the order of their time
    entry,      \* the confirm of each entry: new, executed, over
    row,        \* the journal's rows
    young,      \* rows opened less than missionResultMinCloseAge ago
    close,      \* the confirm of each close order
    manual,     \* the rows of closes that name no entry
    rec,        \* the pass of each reconciler
    faults,
    exited,     \* history: exit quantity on the mission's symbol since its entry
    own         \* history: who owns those exits, and what they brought

vars == <<position, fills, entry, row, young, close, manual, rec, faults, exited, own>>
exchange == <<position, fills, exited, own>>

Outcome == {"win", "loss", "breakeven"}
OutcomeBy(pnl) == IF pnl > 0 THEN "win" ELSE IF pnl < 0 THEN "loss" ELSE "breakeven"

Absent == [outcome |-> "absent"]
(* OpenedAt, read by recordOpenTrade when it writes the row, as the first   *)
(* exit fill that userTrades will return for it.                            *)
\* Seeded fault: no start time.
SinceEver(s) == 1
Since(s) == Len(fills[s]) + 1

OpenRow(since) == [outcome |-> "open", since |-> since]
SettledRow(r, pnl, by) == [outcome |-> OutcomeBy(pnl), since |-> r.since, pnl |-> pnl, by |-> by]

(* A close order before it has read the positions, and one that is over. *)
Ended(pc) == [pc |-> pc, read |-> <<>>, sent |-> {}, profit |-> 0]

Init ==
    /\ position = Held
    /\ fills = [s \in Symbols |-> <<>>]
    /\ entry = [m \in Missions |-> "new"]
    /\ row = [m \in Missions |-> Absent]
    /\ young = {}
    /\ close = [c \in Closes |-> Ended("new")]
    /\ manual = [c \in Closes |-> "absent"]
    /\ rec = [i \in Reconcilers |-> [pc |-> "idle", todo |-> {}]]
    /\ faults = 0
    /\ exited = [m \in Missions |-> 0]
    /\ own = [m \in Missions |-> [alone |-> TRUE, early |-> FALSE, net |-> 0]]

Fault == faults < MaxFaults /\ faults' = faults + 1
----------------------------------------------------------------------------
(* The exchange. *)

Least(a, b) == IF a < b THEN a ELSE b

(* History of an exit: each mission that has entered counts it, and what    *)
(* its own quantity brought.                                                *)
CountExit(s, q, g) ==
    LET in == {m \in Missions : SymbolOf[m] = s /\ entry[m] # "new"}
        part(m) == IF exited[m] < Qty[m] THEN Least(q, Qty[m] - exited[m]) ELSE 0
    IN /\ exited' = [m \in Missions |-> IF m \in in THEN exited[m] + q ELSE exited[m]]
       /\ own' = [m \in Missions |->
             IF m \in in /\ part(m) > 0
             THEN [own[m] EXCEPT !.net = @ + (g - Fee) * part(m),
                                 !.early = @ \/ entry[m] = "executed"]
             ELSE own[m]]

Exits(s, q, g) ==
    /\ position' = [position EXCEPT ![s] = @ - q]
    /\ fills' = [fills EXCEPT ![s] = Append(@, [qty |-> q, gain |-> g])]
    /\ CountExit(s, q, g)

(* The stop or target of an entry triggers: the position leaves in one fill *)
(* or several. What the user holds in other symbols stays.                  *)
Exit(s) ==
    /\ \E m \in Missions : SymbolOf[m] = s /\ entry[m] # "new"
    /\ \E q \in 1..position[s], g \in Gains : Exits(s, q, g)
    /\ UNCHANGED <<entry, row, young, close, manual, rec, faults>>

(* Executor.Execute of an entry, whose steps are BinanceOpen. *)
Enter(m) ==
    LET s == SymbolOf[m] IN
    /\ entry[m] = "new"
    /\ entry' = [entry EXCEPT ![m] = "executed"]
    /\ position' = [position EXCEPT ![s] = @ + Qty[m]]
    /\ own' = [n \in Missions |->
          IF SymbolOf[n] = s /\ position[s] > 0 /\ (n = m \/ entry[n] # "new")
          THEN [own[n] EXCEPT !.alone = @ /\ n # m /\ exited[n] >= Qty[n]] ELSE own[n]]
    /\ UNCHANGED <<fills, row, young, close, manual, rec, faults, exited>>
----------------------------------------------------------------------------
(* journal.Service over the collection. *)

(* Save of an open trade: an upsert with $setOnInsert. *)
Saved(r, since) == IF r = Absent THEN OpenRow(since) ELSE r

\* Seeded fault: the filter names the row only.
ClosableAnyway(r) == r # Absent
(* The filter of Close: one row, still open. *)
Closable(r) == r.outcome = "open"

Settle(m, pnl, by) ==
    row' = [row EXCEPT ![m] = IF Closable(@) THEN SettledRow(@, pnl, by) ELSE @]

(* The end of confirm for an entry: Complete, then recordOpenTrade. *)
RecordOpen(m) ==
    /\ entry[m] = "executed"
    /\ entry' = [entry EXCEPT ![m] = "over"]
    /\ row' = [row EXCEPT ![m] = Saved(@, Since(SymbolOf[m]))]
    /\ young' = young \cup {m}
    /\ UNCHANGED <<close, manual, rec, faults, exchange>>

(* Complete fails, the process dies, or the journal's write fails: confirm  *)
(* only logs that.                                                          *)
NeverRecorded(m) ==
    /\ entry[m] = "executed" /\ Fault
    /\ entry' = [entry EXCEPT ![m] = "over"]
    /\ UNCHANGED <<row, young, close, manual, rec, exchange>>

Ripen(m) ==
    /\ m \in young
    /\ young' = young \ {m}
    /\ UNCHANGED <<entry, row, close, manual, rec, faults, exchange>>
----------------------------------------------------------------------------
(* confirm of a close order: executeClose, Complete, recordClosedTrade. *)

(* The positions that are read and are not empty, in whatever order. *)
CloseRead(c) ==
    LET o == CloseOf[c]
        open == {s \in o.symbols : position[s] > 0}
    IN /\ close[c].pc = "new"
       /\ o.entry # NoEntry => entry[o.entry] # "new"
       /\ close' = [close EXCEPT ![c] =
             IF open = {} THEN Ended("failed")
             ELSE [pc |-> "send", read |-> [s \in open |-> position[s]], sent |-> {}, profit |-> 0]]
       /\ UNCHANGED <<entry, row, young, manual, rec, faults, exchange>>

CloseReadFails(c) ==
    /\ close[c].pc = "new" /\ Fault
    /\ close' = [close EXCEPT ![c] = Ended("failed")]
    /\ UNCHANGED <<entry, row, young, manual, rec, exchange>>

CloseQuantity(c, s) == (close[c].read[s] * CloseOf[c].percent) \div 100

\* Seeded fault: the loop goes on.
AfterErrorNext(job, s) ==
    [job EXCEPT !.sent = @ \cup {s},
                !.pc = IF job.sent \cup {s} = DOMAIN job.read THEN "record" ELSE "send"]
(* What a refused or lost order does to the loop: the first error ends it. *)
AfterError(job, s) == Ended("failed")

AfterOrder(job, s, gain) ==
    [job EXCEPT !.sent = @ \cup {s}, !.profit = @ + gain * job.read[s],
                !.pc = IF job.sent \cup {s} = DOMAIN job.read THEN "record" ELSE "send"]

(* newOrder, reduceOnly: the exchange fills what the position still has,    *)
(* and refuses an order when there is nothing left.                         *)
CloseSend(c, s) ==
    LET q == CloseQuantity(c, s) IN
    /\ close[c].pc = "send" /\ s \in DOMAIN close[c].read \ close[c].sent
    /\ q > 0 /\ position[s] > 0
    /\ \E g \in Gains, seen \in Marks :
          /\ Exits(s, Least(q, position[s]), g)
          /\ \/ close' = [close EXCEPT ![c] = AfterOrder(@, s, seen)] /\ UNCHANGED faults
             \/ close' = [close EXCEPT ![c] = AfterError(@, s)] /\ Fault
    /\ UNCHANGED <<entry, row, young, manual, rec>>

CloseRefused(c, s) ==
    /\ close[c].pc = "send" /\ s \in DOMAIN close[c].read \ close[c].sent
    /\ \/ (CloseQuantity(c, s) = 0 \/ position[s] = 0) /\ UNCHANGED faults
       \/ Fault
    /\ close' = [close EXCEPT ![c] = AfterError(@, s)]
    /\ UNCHANGED <<entry, row, young, manual, rec, exchange>>

(* recordClosedTrade. The result is the unrealized profit of the whole      *)
(* positions as they were read.                                             *)
RecordClosed(c) ==
    LET o == CloseOf[c] IN
    /\ close[c].pc = "record"
    /\ IF o.entry # NoEntry
       THEN Settle(o.entry, close[c].profit, "close") /\ UNCHANGED manual
       ELSE manual' = [manual EXCEPT ![c] = OutcomeBy(close[c].profit)] /\ UNCHANGED row
    /\ close' = [close EXCEPT ![c] = Ended("executed")]
    /\ UNCHANGED <<entry, young, rec, faults, exchange>>

(* Complete fails, the process dies, or the journal's write fails. *)
ClosedNotRecorded(c) ==
    /\ close[c].pc = "record" /\ Fault
    /\ close' = [close EXCEPT ![c] = Ended("executed")]
    /\ UNCHANGED <<entry, row, young, manual, rec, exchange>>
----------------------------------------------------------------------------
(* runMissionResultReconciler. *)

(* Executor.RealizedTrade: exit fills since OpenedAt, the last one taken in *)
(* part, until they cover the entry. Walk is where its loop is after the    *)
(* first n fills of the symbol.                                             *)
Take(f, left) == Least(f.qty, left)

Include(sum, f) ==
    [left |-> sum.left - Take(f, sum.left), net |-> sum.net + (f.gain - Fee) * Take(f, sum.left)]

Walk(exits, since, qty) ==
    LET walk[n \in Nat] == IF n < since THEN [left |-> qty, net |-> 0]
                           ELSE Include(walk[n - 1], exits[n])
    IN walk

RealizedTrade(s, since, qty) == Walk(fills[s], since, qty)[Len(fills[s])]

\* Seeded fault: it asks for more than the entry.
CoversMore(result) == result.left < 0
(* The fills that RealizedTrade reads cover the entry. *)
Covers(result) == result.left <= 0

(* One List of the open rows and one clock per pass. *)
Scan(i) ==
    LET due == {m \in Missions : row[m].outcome = "open" /\ m \notin young} IN
    /\ rec[i].pc = "idle" /\ due # {}
    /\ rec' = [rec EXCEPT ![i] = [pc |-> "rows", todo |-> due]]
    /\ UNCHANGED <<entry, row, young, close, manual, faults, exchange>>

Rest(i, m) ==
    LET rest == rec[i].todo \ {m}
    IN [pc |-> IF rest = {} THEN "idle" ELSE "rows", todo |-> rest]

ReadPositions(i, m) ==
    /\ rec[i].pc = "rows" /\ m \in rec[i].todo
    /\ rec' = [rec EXCEPT ![i] = IF position[SymbolOf[m]] > 0 THEN Rest(i, m)
                                 ELSE [pc |-> "trades", todo |-> @.todo, at |-> m]]
    /\ UNCHANGED <<entry, row, young, close, manual, faults, exchange>>

ReadTrades(i) ==
    LET m == rec[i].at
        result == RealizedTrade(SymbolOf[m], row[m].since, Qty[m])
    IN /\ rec[i].pc = "trades"
       /\ rec' = [rec EXCEPT ![i] = IF Covers(result)
                                    THEN [pc |-> "close", todo |-> @.todo, at |-> m, net |-> result.net]
                                    ELSE Rest(i, m)]
       /\ UNCHANGED <<entry, row, young, close, manual, faults, exchange>>

CloseRow(i) ==
    /\ rec[i].pc = "close"
    /\ Settle(rec[i].at, rec[i].net, "reconciler")
    /\ rec' = [rec EXCEPT ![i] = Rest(i, @.at)]
    /\ UNCHANGED <<entry, young, close, manual, faults, exchange>>

(* A lookup or the write fails: the pass goes on with the next row. Or the  *)
(* instance restarts: the pass is over.                                     *)
SkipRow(i) ==
    /\ rec[i].pc # "idle" /\ Fault
    /\ \/ \E m \in rec[i].todo : rec' = [rec EXCEPT ![i] = Rest(i, m)]
       \/ rec' = [rec EXCEPT ![i] = [pc |-> "idle", todo |-> {}]]
    /\ UNCHANGED <<entry, row, young, close, manual, exchange>>
----------------------------------------------------------------------------
Reconcile(i) ==
    \/ Scan(i) \/ ReadTrades(i) \/ CloseRow(i) \/ SkipRow(i)
    \/ \E m \in Missions : ReadPositions(i, m)

ConfirmClose(c) ==
    \/ CloseRead(c) \/ CloseReadFails(c) \/ RecordClosed(c) \/ ClosedNotRecorded(c)
    \/ \E s \in Symbols : CloseSend(c, s) \/ CloseRefused(c, s)

Next ==
    \/ \E s \in Symbols : Exit(s)
    \/ \E m \in Missions : Enter(m) \/ RecordOpen(m) \/ NeverRecorded(m) \/ Ripen(m)
    \/ \E c \in Closes : ConfirmClose(c)
    \/ \E i \in Reconcilers : Reconcile(i)

(* Time passes, and an instance that runs keeps polling (a 30 s ticker). *)
Fairness ==
    /\ \A m \in Missions : WF_vars(Ripen(m))
    /\ \A i \in Reconcilers :
          /\ WF_vars(Scan(i) \/ ReadTrades(i) \/ CloseRow(i))
          /\ WF_vars(\E m \in Missions : ReadPositions(i, m))

Spec == Init /\ [][Next]_vars /\ Fairness
----------------------------------------------------------------------------
RowSettled(m) == row[m].outcome \in Outcome

TypeOK ==
    /\ position \in [Symbols -> Nat]
    /\ \A s \in Symbols : fills[s] \in Seq([qty: Nat \ {0}, gain: Gains])
    /\ entry \in [Missions -> {"new", "executed", "over"}]
    /\ \A m \in Missions :
          \/ row[m] = Absent
          \/ row[m].since \in 1..(Len(fills[SymbolOf[m]]) + 1)
             /\ row[m].outcome \in Outcome \cup {"open"}
    /\ young \subseteq Missions
    /\ \A c \in Closes :
          /\ close[c].pc \in {"new", "send", "record", "executed", "failed"}
          /\ close[c].sent \subseteq DOMAIN close[c].read
          /\ DOMAIN close[c].read \subseteq Symbols
          /\ close[c].profit \in Int
    /\ manual \in [Closes -> Outcome \cup {"absent"}]
    /\ \A i \in Reconcilers :
          /\ rec[i].pc \in {"idle", "rows", "trades", "close"}
          /\ rec[i].todo \subseteq Missions
    /\ faults \in 0..MaxFaults
    /\ exited \in [Missions -> Nat]
    /\ own \in [Missions -> [alone: BOOLEAN, early: BOOLEAN, net: Int]]

(* Whoever comes first settles a row, for good: neither a second writer nor *)
(* a late open row changes a result that was reported.                      *)
SettledOnce == [][\A m \in Missions : RowSettled(m) => row'[m] = row[m]]_vars

(* A settled row's position has left the account: no result is journaled    *)
(* for a mission that is still exposed.                                     *)
SettledMeansClosed == \A m \in Missions : RowSettled(m) => exited[m] >= Qty[m]

(* The reconciler's result is what the mission's own exits brought, fees    *)
(* included, if its exits came after its row was opened and nobody else's   *)
(* position was mixed with it.                                              *)
ReconciledResultIsOwn ==
    \A m \in Missions :
        RowSettled(m) /\ row[m].by = "reconciler" /\ own[m].alone /\ ~own[m].early
            => row[m].pnl = own[m].net

(* What RealizedTrade's comment says, without the condition on the exits:   *)
(* it "reads the closed exchange result for this mission's position".       *)
ResultIsOfThisPosition ==
    \A m \in Missions :
        RowSettled(m) /\ row[m].by = "reconciler" /\ own[m].alone => row[m].pnl = own[m].net

(* A row whose exits are on record and whose symbol is free is settled in   *)
(* the end, unless a new position comes in between.                         *)
CoveredRowSettles ==
    \A m \in Missions :
        (row[m].outcome = "open" /\ exited[m] >= Qty[m] /\ ~own[m].early)
            ~> (RowSettled(m) \/ position[SymbolOf[m]] > 0)
============================================================================
