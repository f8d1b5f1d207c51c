--------------------------- MODULE JournalProofs ---------------------------
(***************************************************************************)
(* Machine-checked proofs about Journal, for any number of missions,       *)
(* symbols, closes and reconcilers: a row is settled once, only after its  *)
(* position has left the account, and by a reconciler with what the        *)
(* mission's own exits brought.                                            *)
(***************************************************************************)
EXTENDS Journal, TLAPS, WellFoundedInduction

-----------------------------------------------------------------------------
(* The inductive invariant. A settled row is true because of what its       *)
(* writer knew: a reconciler has seen the symbol without a position, and a  *)
(* close has sent an order for all that it had read.                        *)

CloseJobs ==
    [pc: {"new", "send", "record", "executed", "failed"},
     read: UNION {[S -> Nat] : S \in SUBSET Symbols}, sent: SUBSET Symbols, profit: Int]

Shaped ==
    /\ TypeOK
    /\ DOMAIN row = Missions /\ DOMAIN fills = Symbols
    /\ close \in [Closes -> CloseJobs]
    /\ DOMAIN rec = Reconcilers
    /\ \A i \in Reconcilers : rec[i].pc \in {"trades", "close"} => rec[i].at \in Missions

(* What has not been sold of an entry is still on the account.              *)
Exposed == \A m \in Missions : entry[m] # "new" => position[SymbolOf[m]] + exited[m] >= Qty[m]

Entered == \A m \in Missions : row[m].outcome # "absent" => entry[m] # "new"

CloseTrue(c) ==
    CloseOf[c].entry # NoEntry =>
        LET m == CloseOf[c].entry IN
        /\ close[c].pc = "send" =>
              /\ entry[m] # "new" /\ DOMAIN close[c].read = {SymbolOf[m]}
              /\ close[c].read[SymbolOf[m]] + exited[m] >= Qty[m]
        /\ close[c].pc = "record" => exited[m] >= Qty[m]

PassTrue(i) ==
    /\ \A m \in rec[i].todo : entry[m] # "new"
    /\ rec[i].pc \in {"trades", "close"} => exited[rec[i].at] >= Qty[rec[i].at]

IInv ==
    /\ Shaped /\ Exposed /\ Entered
    /\ \A c \in Closes : CloseTrue(c)
    /\ \A i \in Reconcilers : PassTrue(i)
    /\ SettledMeansClosed

LEMMA StartsTrue == Init => IInv
<1> SUFFICES ASSUME Init PROVE IInv
  OBVIOUS
<1>1. \A m \in Missions : row[m] = Absent /\ row[m].outcome = "absent"
  BY DEF Init, Absent
<1>2. close \in [Closes -> CloseJobs] /\ \A c \in Closes : close[c].pc = "new" /\ close[c].sent = {}
  <2>1. <<>> \in [{} -> Nat] /\ <<>> \in UNION {[S -> Nat] : S \in SUBSET Symbols}
    OBVIOUS
  <2>2. Ended("new") \in CloseJobs
    BY <2>1 DEF Ended, CloseJobs
  <2>3. QED
    BY <2>2 DEF Init, Ended
<1>3. TypeOK
  <2>1. \A c \in Closes :
          /\ close[c].pc \in {"new", "send", "record", "executed", "failed"}
          /\ close[c].sent \subseteq DOMAIN close[c].read
          /\ DOMAIN close[c].read \subseteq Symbols
          /\ close[c].profit \in Int
    BY DEF Init, Ended
  <2>2. QED
    BY <1>1, <2>1, JournalAssumption DEF Init, TypeOK, RowSettled
<1>4. Shaped
  BY <1>2, <1>3 DEF Init, Shaped
<1>5. \A i \in Reconcilers : rec[i].pc = "idle" /\ rec[i].todo = {}
  BY DEF Init
<1>6. QED
  BY <1>1, <1>2, <1>4, <1>5
     DEF Init, IInv, Exposed, Entered, CloseTrue, PassTrue, SettledMeansClosed, RowSettled, Outcome
-----------------------------------------------------------------------------
(* What an exit does to the account: what it takes is counted for every     *)
(* mission of the symbol that has entered.                                  *)

LEMMA LeastOfTwo ==
    ASSUME NEW a \in Int, NEW b \in Int
    PROVE  Least(a, b) \in {a, b} /\ Least(a, b) <= a /\ Least(a, b) <= b
BY DEF Least

LEMMA ExitCounts ==
    ASSUME IInv, NEW s \in Symbols, NEW q \in 1..position[s], NEW g \in Gains, Exits(s, q, g)
    PROVE  /\ position' \in [Symbols -> Nat] /\ exited' \in [Missions -> Nat]
           /\ position'[s] = position[s] - q
           /\ \A r \in Symbols \ {s} : position'[r] = position[r]
           /\ \A m \in Missions : exited'[m] >= exited[m]
           /\ \A m \in Missions : SymbolOf[m] = s /\ entry[m] # "new" => exited'[m] = exited[m] + q
           /\ \A r \in Symbols : fills'[r] \in Seq([qty: Nat \ {0}, gain: Gains])
                                 /\ Len(fills'[r]) \in Nat /\ Len(fills'[r]) >= Len(fills[r])
           /\ DOMAIN fills' = Symbols
           /\ own' \in [Missions -> [alone: BOOLEAN, early: BOOLEAN, net: Int]]
<1>0. TypeOK /\ DOMAIN row = Missions /\ DOMAIN fills = Symbols
  BY DEF IInv, Shaped
<1>1. position[s] \in Nat /\ q \in Nat \ {0} /\ g \in Int /\ q <= position[s]
  BY <1>0, JournalAssumption DEF TypeOK
<1>2. position' \in [Symbols -> Nat] /\ position'[s] = position[s] - q
      /\ \A r \in Symbols \ {s} : position'[r] = position[r]
  BY <1>0, <1>1 DEF TypeOK, Exits
<1>3. /\ DOMAIN fills' = Symbols
      /\ \A r \in Symbols : /\ fills'[r] \in Seq([qty: Nat \ {0}, gain: Gains])
                            /\ Len(fills'[r]) \in Nat /\ Len(fills'[r]) >= Len(fills[r])
  <2>1. PICK f \in [qty: Nat \ {0}, gain: Gains] : f = [qty |-> q, gain |-> g]
    BY <1>1
  <2>2. \A r \in Symbols : fills'[r] = IF r = s THEN Append(fills[r], f) ELSE fills[r]
    <3>1. fills' = [fills EXCEPT ![s] = Append(@, f)]
      BY <2>1 DEF Exits
    <3>2. QED
      BY <1>0, <3>1
  <2>5. DOMAIN fills' = Symbols
    BY <1>0, <2>1 DEF TypeOK, Exits
  <2>3. \A x \in Seq([qty: Nat \ {0}, gain: Gains]) :
           /\ Append(x, f) \in Seq([qty: Nat \ {0}, gain: Gains])
           /\ Len(x) \in Nat /\ Len(Append(x, f)) = Len(x) + 1
    OBVIOUS
  <2>4. ASSUME NEW r \in Symbols
        PROVE  /\ fills'[r] \in Seq([qty: Nat \ {0}, gain: Gains])
               /\ Len(fills'[r]) \in Nat /\ Len(fills'[r]) >= Len(fills[r])
    <3>1. PICK x \in Seq([qty: Nat \ {0}, gain: Gains]) : x = fills[r]
      BY <1>0 DEF TypeOK
    <3>2. fills'[r] \in {x, Append(x, f)}
      BY <2>2, <3>1
    <3>3. /\ Append(x, f) \in Seq([qty: Nat \ {0}, gain: Gains])
          /\ Len(x) \in Nat /\ Len(Append(x, f)) = Len(x) + 1
      BY <2>3
    <3>4. PICK y : y = fills'[r]
      OBVIOUS
    <3>5. CASE y = x
      BY <3>1, <3>3, <3>4, <3>5
    <3>6. CASE y = Append(x, f)
      BY <3>1, <3>3, <3>4, <3>6
    <3>7. QED
      BY <3>2, <3>4, <3>5, <3>6
  <2>6. QED
    BY <2>4, <2>5
<1>4. PICK in \in SUBSET Missions : in = {m \in Missions : SymbolOf[m] = s /\ entry[m] # "new"}
  OBVIOUS
<1>5. exited' = [m \in Missions |-> IF m \in in THEN exited[m] + q ELSE exited[m]]
  BY <1>4 DEF Exits, CountExit
<1>6. /\ exited' \in [Missions -> Nat]
      /\ \A m \in Missions : exited'[m] >= exited[m]
      /\ \A m \in Missions : SymbolOf[m] = s /\ entry[m] # "new" => exited'[m] = exited[m] + q
  BY <1>0, <1>1, <1>4, <1>5 DEF TypeOK
<1>7. own' \in [Missions -> [alone: BOOLEAN, early: BOOLEAN, net: Int]]
  <2>1. PICK share : share = [m \in Missions |-> IF exited[m] < Qty[m] THEN Least(q, Qty[m] - exited[m]) ELSE 0]
    OBVIOUS
  <2>2. ASSUME NEW m \in Missions PROVE share[m] \in Int
    BY <1>0, <1>1, <2>1, JournalAssumption DEF TypeOK, Least
  <2>3. own' = [m \in Missions |->
             IF m \in in /\ share[m] > 0
             THEN [own[m] EXCEPT !.net = @ + (g - Fee) * share[m],
                                 !.early = @ \/ entry[m] = "executed"]
             ELSE own[m]]
    BY <1>4, <2>1 DEF Exits, CountExit
  <2>4. ASSUME NEW m \in Missions PROVE own'[m] \in [alone: BOOLEAN, early: BOOLEAN, net: Int]
    <3>1. own[m] \in [alone: BOOLEAN, early: BOOLEAN, net: Int]
      BY <1>0 DEF TypeOK
    <3>2. PICK part \in Int : part = share[m]
      BY <2>2
    <3>3. (g - Fee) * part \in Int
      BY <1>1, <3>2, JournalAssumption
    <3>4. PICK gain \in Int : gain = (g - Fee) * part
      BY <3>3
    <3>5. PICK early \in BOOLEAN : early = (entry[m] = "executed")
      OBVIOUS
    <3>6. [own[m] EXCEPT !.net = @ + gain, !.early = @ \/ early] \in [alone: BOOLEAN, early: BOOLEAN, net: Int]
      <4>0. PICK had \in Int : had = own[m].net
        BY <3>1
      <4>1. PICK net \in Int : net = had + gain
        BY <4>0, <3>4
      <4>4. PICK was \in BOOLEAN : was = (own[m].early \/ early)
        OBVIOUS
      <4>2. [own[m] EXCEPT !.net = net, !.early = was] \in [alone: BOOLEAN, early: BOOLEAN, net: Int]
        BY <3>1
      <4>3. QED
        BY <4>0, <4>1, <4>2, <4>4
    <3>7. own'[m] \in {own[m], [own[m] EXCEPT !.net = @ + gain, !.early = @ \/ early]}
      BY <2>3, <3>2, <3>4, <3>5
    <3>8. QED
      BY <3>1, <3>6, <3>7
  <2>5. QED
    BY <2>3, <2>4
<1>8. QED
  BY <1>2, <1>3, <1>6, <1>7

(* More may have left the account, nothing has come back, and the journal   *)
(* knew no more than that.                                                  *)
LEMMA AccountMoves ==
    ASSUME IInv,
           position' \in [Symbols -> Nat], exited' \in [Missions -> Nat],
           own' \in [Missions -> [alone: BOOLEAN, early: BOOLEAN, net: Int]],
           \A m \in Missions : exited'[m] >= exited[m],
           \A r \in Symbols : fills'[r] \in Seq([qty: Nat \ {0}, gain: Gains])
                              /\ Len(fills'[r]) \in Nat /\ Len(fills'[r]) >= Len(fills[r]),
           DOMAIN fills' = Symbols,
           \A m \in Missions : entry[m] # "new" =>
              position'[SymbolOf[m]] + exited'[m] >= position[SymbolOf[m]] + exited[m],
           close' \in [Closes -> CloseJobs],
           \A c \in Closes : /\ close'[c].sent \subseteq DOMAIN close'[c].read
                             /\ close'[c] = close[c] \/ CloseTrue(c)',
           UNCHANGED <<entry, row, young, manual, rec>>, faults' \in 0..MaxFaults
    PROVE  IInv'
<1>0. TypeOK /\ Shaped
  BY DEF IInv, Shaped
<1>1. /\ SymbolOf \in [Missions -> Symbols] /\ Qty \in [Missions -> Nat \ {0}]
      /\ \A c \in Closes : CloseOf[c].entry \in Missions \cup {NoEntry}
  BY JournalAssumption
<1>2. Shaped'
  <2>1. \A m \in Missions :
          \/ row[m] = Absent
          \/ row[m].since \in 1..(Len(fills'[SymbolOf[m]]) + 1)
             /\ row[m].outcome \in Outcome \cup {"open"}
    <3> SUFFICES ASSUME NEW m \in Missions, row[m] # Absent
                 PROVE  row[m].since \in 1..(Len(fills'[SymbolOf[m]]) + 1)
                        /\ row[m].outcome \in Outcome \cup {"open"}
      OBVIOUS
    <3>1. SymbolOf[m] \in Symbols /\ Len(fills[SymbolOf[m]]) \in Nat
      BY <1>0, <1>1 DEF TypeOK
    <3>2. Len(fills'[SymbolOf[m]]) \in Nat /\ Len(fills'[SymbolOf[m]]) >= Len(fills[SymbolOf[m]])
      BY <3>1
    <3>3. /\ row[m].since \in 1..(Len(fills[SymbolOf[m]]) + 1)
          /\ row[m].outcome \in Outcome \cup {"open"}
      BY <1>0 DEF TypeOK
    <3>4. QED
      BY <3>1, <3>2, <3>3
  <2>2. \A c \in Closes :
          /\ close'[c].pc \in {"new", "send", "record", "executed", "failed"}
          /\ DOMAIN close'[c].read \subseteq Symbols
          /\ close'[c].profit \in Int
    BY DEF CloseJobs
  <2>3. TypeOK'
    BY <1>0, <2>1, <2>2 DEF TypeOK
  <2>4. QED
    BY <1>0, <2>3 DEF Shaped
<1>3. Exposed' /\ Entered'
  BY <1>0, <1>1 DEF IInv, TypeOK, Exposed, Entered
<1>4. \A c \in Closes : CloseTrue(c)'
  <2> SUFFICES ASSUME NEW c \in Closes, CloseOf[c].entry # NoEntry, close'[c] = close[c]
               PROVE  CloseTrue(c)'
    BY DEF CloseTrue
  <2>1. PICK m \in Missions : m = CloseOf[c].entry
    BY <1>1
  <2>2. exited[m] \in Nat /\ exited'[m] \in Nat /\ exited'[m] >= exited[m] /\ Qty[m] \in Nat
    BY <1>0, <1>1 DEF TypeOK
  <2>3. ASSUME close[c].pc = "send"
        PROVE  /\ entry[m] # "new" /\ DOMAIN close[c].read = {SymbolOf[m]}
               /\ close[c].read[SymbolOf[m]] + exited'[m] >= Qty[m]
    <3>1. entry[m] # "new" /\ DOMAIN close[c].read = {SymbolOf[m]} /\ close[c].read[SymbolOf[m]] + exited[m] >= Qty[m]
      BY <2>1, <2>3 DEF IInv, CloseTrue
    <3>2. close[c].read[SymbolOf[m]] \in Nat
      BY <1>0, <3>1 DEF Shaped, CloseJobs
    <3>3. QED
      BY <2>2, <3>1, <3>2
  <2>4. close[c].pc = "record" => exited'[m] >= Qty[m]
    BY <2>1, <2>2 DEF IInv, CloseTrue
  <2>5. QED
    BY <2>1, <2>3, <2>4 DEF CloseTrue
<1>5. \A i \in Reconcilers : PassTrue(i)'
  BY <1>0, <1>1 DEF IInv, Shaped, TypeOK, PassTrue
<1>6. SettledMeansClosed'
  BY <1>0, <1>1 DEF IInv, TypeOK, SettledMeansClosed, RowSettled
<1>7. QED
  BY <1>2, <1>3, <1>4, <1>5, <1>6 DEF IInv

LEMMA ExitStep ==
    ASSUME IInv, NEW s \in Symbols, Exit(s)
    PROVE  IInv'
<1>1. PICK q \in 1..position[s], g \in Gains : Exits(s, q, g)
  BY DEF Exit
<1>2. position[s] \in Nat /\ q \in Nat /\ faults \in 0..MaxFaults /\ TypeOK
  <2>1. TypeOK
    BY DEF IInv, Shaped
  <2>2. position[s] \in Nat /\ faults \in 0..MaxFaults
    BY <2>1 DEF TypeOK
  <2>3. QED
    BY <2>1, <2>2
<1>3. \A m \in Missions : SymbolOf[m] \in Symbols
  BY JournalAssumption
<1>4. \A m \in Missions : entry[m] # "new" =>
         position'[SymbolOf[m]] + exited'[m] >= position[SymbolOf[m]] + exited[m]
  <2> SUFFICES ASSUME NEW m \in Missions, entry[m] # "new"
               PROVE  position'[SymbolOf[m]] + exited'[m] >= position[SymbolOf[m]] + exited[m]
    OBVIOUS
  <2>0. exited[m] \in Nat /\ position[SymbolOf[m]] \in Nat
    BY <1>2, <1>3 DEF TypeOK
  <2>1. CASE SymbolOf[m] = s
    <3>1. position'[s] = position[s] - q /\ exited'[m] = exited[m] + q
      BY <1>1, <2>1, ExitCounts
    <3>2. QED
      BY <1>2, <2>0, <2>1, <3>1
  <2>2. CASE SymbolOf[m] # s
    <3>1. position'[SymbolOf[m]] = position[SymbolOf[m]] /\ exited'[m] >= exited[m] /\ exited'[m] \in Nat
      BY <1>1, <1>3, <2>2, ExitCounts
    <3>2. QED
      BY <2>0, <3>1
  <2>3. QED
    BY <2>1, <2>2
<1>5. UNCHANGED <<entry, row, young, close, manual, rec, faults>>
  BY DEF Exit
<1>6. close' \in [Closes -> CloseJobs]
      /\ \A c \in Closes : close'[c].sent \subseteq DOMAIN close'[c].read
  BY <1>2, <1>5 DEF IInv, Shaped, TypeOK
<1>7. QED
  BY <1>1, <1>2, <1>4, <1>5, <1>6, ExitCounts, AccountMoves

LEMMA EnterStep ==
    ASSUME IInv, NEW m \in Missions, Enter(m)
    PROVE  IInv'
<1>0. TypeOK /\ Shaped /\ SymbolOf \in [Missions -> Symbols] /\ Qty \in [Missions -> Nat \ {0}]
  BY JournalAssumption DEF IInv, Shaped
<1>1. /\ entry[m] = "new" /\ entry' = [entry EXCEPT ![m] = "executed"]
      /\ position' = [position EXCEPT ![SymbolOf[m]] = @ + Qty[m]]
      /\ UNCHANGED <<fills, row, young, close, manual, rec, faults, exited>>
  BY DEF Enter
<1>2. own' \in [Missions -> [alone: BOOLEAN, early: BOOLEAN, net: Int]]
  <2>1. ASSUME NEW n \in Missions PROVE own'[n] \in [alone: BOOLEAN, early: BOOLEAN, net: Int]
    <3>1. own[n] \in [alone: BOOLEAN, early: BOOLEAN, net: Int]
      BY <1>0 DEF TypeOK
    <3>2. PICK still \in BOOLEAN : still = (own[n].alone /\ n # m /\ exited[n] >= Qty[n])
      OBVIOUS
    <3>3. [own[n] EXCEPT !.alone = still] \in [alone: BOOLEAN, early: BOOLEAN, net: Int]
      BY <3>1, <3>2
    <3>4. own'[n] \in {own[n], [own[n] EXCEPT !.alone = still]}
      BY <3>2 DEF Enter
    <3>5. QED
      BY <3>1, <3>3, <3>4
  <2>2. DOMAIN own' = Missions /\ own' = [n \in Missions |-> own'[n]]
    BY DEF Enter
  <2>3. QED
    BY <2>1, <2>2
<1>3. position' \in [Symbols -> Nat] /\ \A r \in Symbols : position'[r] >= position[r]
  BY <1>0, <1>1 DEF TypeOK
<1>4. entry' \in [Missions -> {"new", "executed", "over"}]
      /\ \A n \in Missions : entry[n] # "new" => entry'[n] # "new"
  BY <1>0, <1>1 DEF TypeOK
<1>5. Shaped'
  <2>1. TypeOK'
    BY <1>0, <1>1, <1>2, <1>3, <1>4 DEF TypeOK
  <2>2. QED
    BY <1>0, <1>1, <2>1 DEF Shaped
<1>6. Exposed'
  <2> SUFFICES ASSUME NEW n \in Missions, entry'[n] # "new"
               PROVE  position'[SymbolOf[n]] + exited[n] >= Qty[n]
    BY <1>1 DEF Exposed
  <2>0. exited[n] \in Nat /\ SymbolOf[n] \in Symbols /\ position[SymbolOf[n]] \in Nat /\ Qty[n] \in Nat
    BY <1>0 DEF TypeOK
  <2>1. CASE n = m
    <3>1. position'[SymbolOf[n]] = position[SymbolOf[n]] + Qty[n]
      BY <1>0, <1>1, <2>1 DEF TypeOK
    <3>2. QED
      BY <2>0, <3>1
  <2>2. CASE n # m
    <3>1. entry[n] # "new"
      BY <1>0, <1>1, <2>2 DEF TypeOK
    <3>2. position[SymbolOf[n]] + exited[n] >= Qty[n]
      BY <3>1 DEF IInv, Exposed
    <3>3. position'[SymbolOf[n]] >= position[SymbolOf[n]] /\ position'[SymbolOf[n]] \in Nat
      BY <1>3, <2>0
    <3>4. QED
      BY <2>0, <3>2, <3>3
  <2>3. QED
    BY <2>1, <2>2
<1>7. Entered' /\ \A c \in Closes : CloseTrue(c)'
  BY <1>1, <1>4 DEF IInv, Entered, CloseTrue
<1>8. \A i \in Reconcilers : PassTrue(i)'
  BY <1>0, <1>1, <1>4 DEF IInv, TypeOK, PassTrue
<1>9. SettledMeansClosed'
  BY <1>1 DEF IInv, SettledMeansClosed, RowSettled
<1>10. QED
  BY <1>5, <1>6, <1>7, <1>8, <1>9 DEF IInv
-----------------------------------------------------------------------------
(* What the writers of the journal do to its rows.                          *)

LEMMA OutcomeByIsOutcome == \A pnl : OutcomeBy(pnl) \in Outcome
BY DEF OutcomeBy, Outcome

(* Settling the row of a mission whose position has left the account.       *)
LEMMA SettleRow ==
    ASSUME IInv, NEW m \in Missions, NEW pnl, NEW by, Settle(m, pnl, by), exited[m] >= Qty[m],
           UNCHANGED <<entry, exited, fills>>
    PROVE  /\ DOMAIN row' = Missions
           /\ \A n \in Missions :
                 \/ row'[n] = Absent
                 \/ /\ row'[n].since \in 1..(Len(fills'[SymbolOf[n]]) + 1)
                    /\ row'[n].outcome \in Outcome \cup {"open"}
           /\ Entered' /\ SettledMeansClosed'
<1>0. TypeOK /\ DOMAIN row = Missions
  BY DEF IInv, Shaped
<1>1. CASE ~Closable(row[m])
  <2>1. DOMAIN row' = Missions /\ \A n \in Missions : row'[n] = row[n]
    BY <1>0, <1>1 DEF Settle
  <2>2. QED
    BY <1>0, <2>1 DEF IInv, TypeOK, Entered, SettledMeansClosed, RowSettled
<1>2. CASE Closable(row[m])
  <2>1. PICK new : new = SettledRow(row[m], pnl, by)
    OBVIOUS
  <2>2. /\ DOMAIN row' = Missions /\ row'[m] = new
        /\ \A n \in Missions \ {m} : row'[n] = row[n]
    BY <1>0, <1>2, <2>1 DEF Settle
  <2>3. row[m].outcome = "open" /\ row[m] # Absent
    BY <1>2 DEF Closable, Absent
  <2>4. row[m].since \in 1..(Len(fills[SymbolOf[m]]) + 1) /\ entry[m] # "new"
    BY <1>0, <2>3 DEF TypeOK, IInv, Entered
  <2>5. new.outcome \in Outcome /\ new.since = row[m].since
    BY <2>1, OutcomeByIsOutcome DEF SettledRow
  <2>6. \A n \in Missions :
                 \/ row'[n] = Absent
                 \/ /\ row'[n].since \in 1..(Len(fills'[SymbolOf[n]]) + 1)
                    /\ row'[n].outcome \in Outcome \cup {"open"}
    BY <1>0, <2>2, <2>4, <2>5 DEF TypeOK
  <2>7. Entered'
    BY <2>2, <2>4 DEF IInv, Entered
  <2>8. SettledMeansClosed'
    BY <2>2 DEF IInv, SettledMeansClosed, RowSettled
  <2>9. QED
    BY <2>2, <2>6, <2>7, <2>8
<1>3. QED
  BY <1>1, <1>2

LEMMA RowsStay ==
    ASSUME IInv, UNCHANGED <<row, entry, exited, fills>>
    PROVE  /\ DOMAIN row' = Missions
           /\ \A n \in Missions :
                 \/ row'[n] = Absent
                 \/ /\ row'[n].since \in 1..(Len(fills'[SymbolOf[n]]) + 1)
                    /\ row'[n].outcome \in Outcome \cup {"open"}
           /\ Entered' /\ SettledMeansClosed'
BY DEF IInv, Shaped, TypeOK, Entered, SettledMeansClosed, RowSettled

(* A confirm of an entry ends: its row is opened, or never will be.         *)
LEMMA EntryEnds ==
    ASSUME IInv, NEW m \in Missions, RecordOpen(m) \/ NeverRecorded(m)
    PROVE  IInv'
<1>0. TypeOK /\ Shaped
  BY DEF IInv, Shaped
<1>1. /\ entry[m] = "executed" /\ entry' = [entry EXCEPT ![m] = "over"]
      /\ row' \in {row, [row EXCEPT ![m] = Saved(@, Since(SymbolOf[m]))]}
      /\ young' \in {young, young \cup {m}}
      /\ faults' \in 0..MaxFaults
      /\ UNCHANGED <<position, fills, exited, own, close, manual, rec>>
  BY <1>0, JournalAssumption DEF RecordOpen, NeverRecorded, Fault, exchange, TypeOK
<1>2. /\ entry' \in [Missions -> {"new", "executed", "over"}]
      /\ \A n \in Missions : entry'[n] # "new" <=> entry[n] # "new"
  BY <1>0, <1>1 DEF TypeOK
<1>3. DOMAIN row' = Missions
      /\ \A n \in Missions : row'[n] = row[n] \/ (n = m /\ row[m] = Absent /\ row'[m] = OpenRow(Since(SymbolOf[m])))
  BY <1>0, <1>1 DEF Shaped, Saved
<1>4. \A n \in Missions :
          \/ row'[n] = Absent
          \/ /\ row'[n].since \in 1..(Len(fills[SymbolOf[n]]) + 1)
             /\ row'[n].outcome \in Outcome \cup {"open"}
  <2>1. Len(fills[SymbolOf[m]]) \in Nat
    BY <1>0, JournalAssumption DEF TypeOK
  <2>2. PICK new : new = OpenRow(Since(SymbolOf[m]))
    OBVIOUS
  <2>3. new.since \in 1..(Len(fills[SymbolOf[m]]) + 1) /\ new.outcome = "open"
    BY <2>1, <2>2 DEF OpenRow, Since
  <2>4. QED
    BY <1>0, <1>3, <2>2, <2>3 DEF TypeOK
<1>5. Shaped'
  <2>1. TypeOK'
    BY <1>0, <1>1, <1>2, <1>4 DEF TypeOK
  <2>2. QED
    BY <1>0, <1>1, <1>3, <2>1 DEF Shaped
<1>6. Exposed'
  BY <1>1, <1>2 DEF IInv, Exposed
<1>7. Entered'
  BY <1>1, <1>2, <1>3 DEF IInv, Entered
<1>8. \A c \in Closes : CloseTrue(c)'
  BY <1>1, <1>2 DEF IInv, CloseTrue
<1>9. \A i \in Reconcilers : PassTrue(i)'
  BY <1>0, <1>1, <1>2 DEF IInv, TypeOK, PassTrue
<1>10. SettledMeansClosed'
  <2>1. OpenRow(Since(SymbolOf[m])).outcome = "open"
    BY DEF OpenRow
  <2>2. \A n \in Missions : RowSettled(n)' => RowSettled(n)
    BY <1>3, <2>1 DEF RowSettled, Outcome
  <2>3. QED
    BY <1>1, <2>2 DEF IInv, SettledMeansClosed
<1>11. QED
  BY <1>5, <1>6, <1>7, <1>8, <1>9, <1>10 DEF IInv
-----------------------------------------------------------------------------
(* The passes of the reconcilers.                                           *)

LEMMA PassMoves ==
    ASSUME IInv, NEW i \in Reconcilers, NEW new, rec' = [rec EXCEPT ![i] = new],
           new.pc \in {"idle", "rows", "trades", "close"}, new.todo \in SUBSET Missions,
           \A m \in new.todo : entry[m] # "new",
           new.pc \in {"trades", "close"} => new.at \in Missions /\ exited[new.at] >= Qty[new.at],
           UNCHANGED <<entry, young, close, manual, exchange>>, faults' \in 0..MaxFaults,
           \/ UNCHANGED row
           \/ \E m \in Missions : exited[m] >= Qty[m] /\ \E pnl, by : Settle(m, pnl, by)
    PROVE  IInv'
<1>0. TypeOK /\ Shaped /\ UNCHANGED <<position, fills, exited, own, entry, young, close, manual>>
  BY DEF IInv, Shaped, exchange
<1>1. /\ DOMAIN row' = Missions
      /\ \A n \in Missions :
            \/ row'[n] = Absent
            \/ /\ row'[n].since \in 1..(Len(fills'[SymbolOf[n]]) + 1)
               /\ row'[n].outcome \in Outcome \cup {"open"}
      /\ Entered' /\ SettledMeansClosed'
  BY <1>0, SettleRow, RowsStay
<1>2. DOMAIN rec' = Reconcilers /\ rec'[i] = new /\ \A j \in Reconcilers \ {i} : rec'[j] = rec[j]
  BY <1>0 DEF Shaped
<1>3. Shaped'
  <2>1. TypeOK'
    BY <1>0, <1>1, <1>2 DEF TypeOK
  <2>2. QED
    BY <1>0, <1>1, <1>2, <2>1 DEF Shaped
<1>4. Exposed' /\ \A c \in Closes : CloseTrue(c)'
  BY <1>0 DEF IInv, Exposed, CloseTrue
<1>5. \A j \in Reconcilers : PassTrue(j)'
  BY <1>0, <1>2 DEF IInv, PassTrue
<1>6. QED
  BY <1>1, <1>3, <1>4, <1>5 DEF IInv

LEMMA RestOfPass ==
    ASSUME IInv, NEW i \in Reconcilers, NEW m, NEW new, new = Rest(i, m)
    PROVE  /\ new.pc \in {"idle", "rows"} /\ new.todo \in SUBSET Missions
           /\ \A n \in new.todo : entry[n] # "new"
<1>1. rec[i].todo \subseteq Missions /\ \A n \in rec[i].todo : entry[n] # "new"
  BY DEF IInv, Shaped, TypeOK, PassTrue
<1>2. new.todo = rec[i].todo \ {m} /\ new.pc \in {"idle", "rows"}
  BY DEF Rest
<1>3. QED
  BY <1>1, <1>2

LEMMA ReconcilerStep ==
    ASSUME IInv, NEW i \in Reconcilers, Reconcile(i)
    PROVE  IInv'
<1>0. TypeOK /\ Shaped /\ faults \in 0..MaxFaults /\ PassTrue(i) /\ rec[i].todo \subseteq Missions
  BY DEF IInv, Shaped, TypeOK
<1>1. CASE Scan(i)
  <2>1. PICK due \in SUBSET Missions : due = {m \in Missions : row[m].outcome = "open" /\ m \notin young}
    OBVIOUS
  <2>2. \A m \in due : entry[m] # "new"
    BY <2>1 DEF IInv, Entered
  <2>3. PICK new : new = [pc |-> "rows", todo |-> due]
    OBVIOUS
  <2>4. rec' = [rec EXCEPT ![i] = new] /\ UNCHANGED <<entry, row, young, close, manual, faults, exchange>>
    BY <1>1, <2>1, <2>3 DEF Scan
  <2>5. new.pc = "rows" /\ new.todo = due
    BY <2>3
  <2>6. QED
    BY <1>0, <2>2, <2>4, <2>5, PassMoves
<1>2. ASSUME NEW m \in Missions, ReadPositions(i, m) PROVE IInv'
  <2>0. m \in rec[i].todo /\ entry[m] # "new" /\ UNCHANGED <<entry, row, young, close, manual, faults, exchange>>
    BY <1>0, <1>2 DEF ReadPositions, PassTrue
  <2>1. CASE position[SymbolOf[m]] > 0
    <3>1. PICK new : new = Rest(i, m)
      OBVIOUS
    <3>2. rec' = [rec EXCEPT ![i] = new]
      BY <1>2, <2>1, <3>1 DEF ReadPositions
    <3>3. new.pc \in {"idle", "rows"} /\ new.todo \in SUBSET Missions /\ \A n \in new.todo : entry[n] # "new"
      BY <3>1, RestOfPass
    <3>4. QED
      BY <1>0, <2>0, <3>2, <3>3, PassMoves
  <2>2. CASE ~(position[SymbolOf[m]] > 0)
    <3>1. PICK new : new = [pc |-> "trades", todo |-> rec[i].todo, at |-> m]
      OBVIOUS
    <3>2. rec' = [rec EXCEPT ![i] = new]
      BY <1>2, <2>2, <3>1 DEF ReadPositions
    <3>3. new.pc = "trades" /\ new.todo = rec[i].todo /\ new.at = m
      BY <3>1
    <3>4. exited[m] >= Qty[m]
      <4>1. position[SymbolOf[m]] \in Nat /\ exited[m] \in Nat /\ Qty[m] \in Nat
        BY <1>0, JournalAssumption DEF TypeOK
      <4>2. position[SymbolOf[m]] + exited[m] >= Qty[m]
        BY <2>0 DEF IInv, Exposed
      <4>3. QED
        BY <2>2, <4>1, <4>2
    <3>5. \A n \in new.todo : entry[n] # "new"
      BY <1>0, <3>3 DEF PassTrue
    <3>6. QED
      BY <1>0, <2>0, <3>2, <3>3, <3>4, <3>5, PassMoves
  <2>3. QED
    BY <2>1, <2>2
<1>3. CASE ReadTrades(i)
  <2>0. /\ rec[i].pc = "trades" /\ rec[i].at \in Missions /\ exited[rec[i].at] >= Qty[rec[i].at]
        /\ UNCHANGED <<entry, row, young, close, manual, faults, exchange>>
    BY <1>0, <1>3 DEF ReadTrades, Shaped, PassTrue
  <2>1. PICK result : result = RealizedTrade(SymbolOf[rec[i].at], row[rec[i].at].since, Qty[rec[i].at])
    OBVIOUS
  <2>2. CASE Covers(result)
    <3>1. PICK new : new = [pc |-> "close", todo |-> rec[i].todo, at |-> rec[i].at, net |-> result.net]
      OBVIOUS
    <3>2. rec' = [rec EXCEPT ![i] = new]
      BY <1>3, <2>1, <2>2, <3>1 DEF ReadTrades
    <3>3. new.pc = "close" /\ new.todo = rec[i].todo /\ new.at = rec[i].at
      BY <3>1
    <3>4. \A n \in new.todo : entry[n] # "new"
      BY <1>0, <3>3 DEF PassTrue
    <3>5. QED
      BY <1>0, <2>0, <3>2, <3>3, <3>4, PassMoves
  <2>3. CASE ~Covers(result)
    <3>1. PICK new : new = Rest(i, rec[i].at)
      OBVIOUS
    <3>2. rec' = [rec EXCEPT ![i] = new]
      BY <1>3, <2>1, <2>3, <3>1 DEF ReadTrades
    <3>3. new.pc \in {"idle", "rows"} /\ new.todo \in SUBSET Missions /\ \A n \in new.todo : entry[n] # "new"
      BY <3>1, RestOfPass
    <3>4. QED
      BY <1>0, <2>0, <3>2, <3>3, PassMoves
  <2>4. QED
    BY <2>2, <2>3
<1>4. CASE CloseRow(i)
  <2>0. /\ rec[i].pc = "close" /\ rec[i].at \in Missions /\ exited[rec[i].at] >= Qty[rec[i].at]
        /\ Settle(rec[i].at, rec[i].net, "reconciler")
        /\ UNCHANGED <<entry, young, close, manual, faults, exchange>>
    BY <1>0, <1>4 DEF CloseRow, Shaped, PassTrue
  <2>1. PICK new : new = Rest(i, rec[i].at)
    OBVIOUS
  <2>2. rec' = [rec EXCEPT ![i] = new]
    BY <1>4, <2>1 DEF CloseRow
  <2>3. new.pc \in {"idle", "rows"} /\ new.todo \in SUBSET Missions /\ \A n \in new.todo : entry[n] # "new"
    BY <2>1, RestOfPass
  <2>4. QED
    BY <1>0, <2>0, <2>2, <2>3, PassMoves
<1>5. CASE SkipRow(i)
  <2>0. faults' \in 0..MaxFaults /\ UNCHANGED <<entry, row, young, close, manual, exchange>>
    BY <1>0, <1>5, JournalAssumption DEF SkipRow, Fault
  <2>1. ASSUME NEW m \in rec[i].todo, rec' = [rec EXCEPT ![i] = Rest(i, m)] PROVE IInv'
    <3>1. PICK new : new = Rest(i, m)
      OBVIOUS
    <3>2. new.pc \in {"idle", "rows"} /\ new.todo \in SUBSET Missions /\ \A n \in new.todo : entry[n] # "new"
      BY <3>1, RestOfPass
    <3>3. QED
      BY <2>0, <2>1, <3>1, <3>2, PassMoves
  <2>2. CASE rec' = [rec EXCEPT ![i] = [pc |-> "idle", todo |-> {}]]
    <3>1. PICK new : new = [pc |-> "idle", todo |-> {}]
      OBVIOUS
    <3>2. new.pc = "idle" /\ new.todo = {}
      BY <3>1
    <3>3. QED
      BY <2>0, <2>2, <3>1, <3>2, PassMoves
  <2>3. QED
    BY <1>5, <2>1, <2>2 DEF SkipRow
<1>6. QED
  BY <1>1, <1>2, <1>3, <1>4, <1>5 DEF Reconcile
-----------------------------------------------------------------------------
(* The closes. A close that names an entry reads and closes its symbol only, *)
(* and all of it: what it has read and sent covers what is left.            *)

LEMMA CloseMoves ==
    ASSUME IInv, NEW c \in Closes, NEW new \in CloseJobs, close' = [close EXCEPT ![c] = new],
           new.sent \subseteq DOMAIN new.read,
           CloseOf[c].entry # NoEntry =>
              /\ new.pc = "send" => /\ entry[CloseOf[c].entry] # "new"
                                    /\ DOMAIN new.read = {SymbolOf[CloseOf[c].entry]}
                                    /\ new.read[SymbolOf[CloseOf[c].entry]] + exited[CloseOf[c].entry]
                                          >= Qty[CloseOf[c].entry]
              /\ new.pc = "record" => exited[CloseOf[c].entry] >= Qty[CloseOf[c].entry],
           UNCHANGED <<entry, young, rec, exchange>>, faults' \in 0..MaxFaults,
           manual' \in [Closes -> Outcome \cup {"absent"}],
           \/ UNCHANGED row
           \/ \E m \in Missions : exited[m] >= Qty[m] /\ \E pnl, by : Settle(m, pnl, by)
    PROVE  IInv'
<1>0. TypeOK /\ Shaped /\ UNCHANGED <<position, fills, exited, own, entry, young, rec>>
  BY DEF IInv, Shaped, exchange
<1>1. /\ DOMAIN row' = Missions
      /\ \A n \in Missions :
            \/ row'[n] = Absent
            \/ /\ row'[n].since \in 1..(Len(fills'[SymbolOf[n]]) + 1)
               /\ row'[n].outcome \in Outcome \cup {"open"}
      /\ Entered' /\ SettledMeansClosed'
  BY <1>0, SettleRow, RowsStay
<1>2. close' \in [Closes -> CloseJobs] /\ close'[c] = new
      /\ \A d \in Closes \ {c} : close'[d] = close[d]
  BY <1>0 DEF Shaped
<1>3. Shaped'
  <2>1. \A d \in Closes :
          /\ close'[d].pc \in {"new", "send", "record", "executed", "failed"}
          /\ close'[d].sent \subseteq DOMAIN close'[d].read
          /\ DOMAIN close'[d].read \subseteq Symbols
          /\ close'[d].profit \in Int
    <3> SUFFICES ASSUME NEW d \in Closes
                 PROVE  /\ close'[d].pc \in {"new", "send", "record", "executed", "failed"}
                        /\ close'[d].sent \subseteq DOMAIN close'[d].read
                        /\ DOMAIN close'[d].read \subseteq Symbols
                        /\ close'[d].profit \in Int
      OBVIOUS
    <3>1. new.pc \in {"new", "send", "record", "executed", "failed"} /\ new.profit \in Int
          /\ DOMAIN new.read \subseteq Symbols
      BY DEF CloseJobs
    <3>2. CASE d = c
      BY <1>2, <3>1, <3>2
    <3>3. CASE d # c
      BY <1>0, <1>2, <3>3 DEF TypeOK
    <3>4. QED
      BY <3>2, <3>3
  <2>2. TypeOK'
    BY <1>0, <1>1, <2>1 DEF TypeOK
  <2>3. QED
    BY <1>0, <1>1, <1>2, <2>2 DEF Shaped
<1>4. Exposed'
  BY <1>0 DEF IInv, Exposed
<1>5. \A d \in Closes : CloseTrue(d)'
  BY <1>0, <1>2 DEF IInv, CloseTrue
<1>6. \A i \in Reconcilers : PassTrue(i)'
  BY <1>0 DEF IInv, PassTrue
<1>7. QED
  BY <1>1, <1>3, <1>4, <1>5, <1>6 DEF IInv

LEMMA EndedJob ==
    ASSUME NEW pc \in {"executed", "failed"}, NEW new, new = Ended(pc)
    PROVE  new \in CloseJobs /\ new.sent \subseteq DOMAIN new.read /\ new.pc = pc
<1>1. <<>> \in [{} -> Nat] /\ <<>> \in UNION {[S -> Nat] : S \in SUBSET Symbols}
  OBVIOUS
<1>2. QED
  BY <1>1 DEF Ended, CloseJobs

LEMMA CloseReadStep ==
    ASSUME IInv, NEW c \in Closes, CloseRead(c)
    PROVE  IInv'
<1>0. /\ TypeOK /\ faults' \in 0..MaxFaults /\ manual' \in [Closes -> Outcome \cup {"absent"}]
      /\ UNCHANGED <<entry, young, rec, exchange, row>>
  BY DEF IInv, Shaped, TypeOK, CloseRead
<1>1. /\ CloseOf[c].symbols \in SUBSET Symbols
      /\ CloseOf[c].entry # NoEntry => /\ CloseOf[c].entry \in Missions
                                       /\ CloseOf[c].symbols = {SymbolOf[CloseOf[c].entry]}
  BY JournalAssumption
<1>2. PICK open \in SUBSET Symbols : open = {s \in CloseOf[c].symbols : position[s] > 0}
  BY <1>1
<1>3. CASE open = {}
  <2>1. PICK new : new = Ended("failed")
    OBVIOUS
  <2>2. close' = [close EXCEPT ![c] = new]
    BY <1>2, <1>3, <2>1 DEF CloseRead
  <2>3. new \in CloseJobs /\ new.sent \subseteq DOMAIN new.read /\ new.pc = "failed"
    BY <2>1, EndedJob
  <2>4. QED
    BY <1>0, <2>2, <2>3, CloseMoves
<1>4. CASE open # {}
  <2>1. PICK read \in [open -> Nat] : read = [s \in open |-> position[s]]
    BY <1>0 DEF TypeOK
  <2>2. PICK new : new = [pc |-> "send", read |-> read, sent |-> {}, profit |-> 0]
    OBVIOUS
  <2>3. close' = [close EXCEPT ![c] = new]
    BY <1>2, <1>4, <2>1, <2>2 DEF CloseRead
  <2>4. new \in CloseJobs /\ new.sent \subseteq DOMAIN new.read /\ new.pc = "send"
    BY <2>1, <2>2 DEF CloseJobs
  <2>5. ASSUME CloseOf[c].entry # NoEntry
        PROVE  /\ entry[CloseOf[c].entry] # "new"
               /\ DOMAIN new.read = {SymbolOf[CloseOf[c].entry]}
               /\ new.read[SymbolOf[CloseOf[c].entry]] + exited[CloseOf[c].entry] >= Qty[CloseOf[c].entry]
    <3>1. PICK m \in Missions : m = CloseOf[c].entry
      BY <1>1, <2>5
    <3>2. open = {SymbolOf[m]}
      BY <1>1, <1>2, <1>4, <2>5, <3>1
    <3>3. entry[m] # "new"
      BY <2>5, <3>1 DEF CloseRead
    <3>4. position[SymbolOf[m]] + exited[m] >= Qty[m]
      BY <3>3 DEF IInv, Exposed
    <3>5. QED
      BY <2>1, <2>2, <3>1, <3>2, <3>3, <3>4
  <2>6. QED
    BY <1>0, <2>3, <2>4, <2>5, CloseMoves
<1>5. QED
  BY <1>3, <1>4

(* The loop ends at a failure; nothing is recorded for it.                  *)
LEMMA CloseFails ==
    ASSUME IInv, NEW c \in Closes,
           \/ CloseReadFails(c) \/ ClosedNotRecorded(c)
           \/ \E s \in Symbols : CloseRefused(c, s)
    PROVE  IInv'
<1>0. /\ TypeOK /\ faults' \in 0..MaxFaults /\ manual' \in [Closes -> Outcome \cup {"absent"}]
      /\ UNCHANGED <<entry, young, rec, exchange, row>>
  <2>1. TypeOK /\ faults \in 0..MaxFaults /\ manual \in [Closes -> Outcome \cup {"absent"}]
    BY DEF IInv, Shaped, TypeOK
  <2>2. UNCHANGED <<entry, young, rec, exchange, row, manual>> /\ (UNCHANGED faults \/ Fault)
    BY DEF CloseReadFails, ClosedNotRecorded, CloseRefused
  <2>3. faults' \in 0..MaxFaults
    BY <2>1, <2>2, JournalAssumption DEF Fault
  <2>4. QED
    BY <2>1, <2>2, <2>3
<1>1. PICK pc \in {"executed", "failed"} : close' = [close EXCEPT ![c] = Ended(pc)]
  BY DEF CloseReadFails, ClosedNotRecorded, CloseRefused, AfterError
<1>2. PICK new : new = Ended(pc)
  OBVIOUS
<1>3. new \in CloseJobs /\ new.sent \subseteq DOMAIN new.read /\ new.pc = pc
  BY <1>2, EndedJob
<1>4. QED
  BY <1>0, <1>1, <1>2, <1>3, CloseMoves

LEMMA RecordClosedStep ==
    ASSUME IInv, NEW c \in Closes, RecordClosed(c)
    PROVE  IInv'
<1>0. /\ TypeOK /\ faults' \in 0..MaxFaults /\ close[c].pc = "record"
      /\ UNCHANGED <<entry, young, rec, exchange>>
  BY DEF IInv, Shaped, TypeOK, RecordClosed
<1>1. CloseOf[c].entry # NoEntry => CloseOf[c].entry \in Missions
  BY JournalAssumption
<1>2. PICK new : new = Ended("executed")
  OBVIOUS
<1>3. close' = [close EXCEPT ![c] = new] /\ new \in CloseJobs
      /\ new.sent \subseteq DOMAIN new.read /\ new.pc = "executed"
  BY <1>2, EndedJob DEF RecordClosed
<1>4. manual' \in [Closes -> Outcome \cup {"absent"}]
  <2>1. manual \in [Closes -> Outcome \cup {"absent"}]
    BY <1>0 DEF TypeOK
  <2>2. PICK outcome \in Outcome : outcome = OutcomeBy(close[c].profit)
    BY OutcomeByIsOutcome
  <2>3. UNCHANGED manual \/ manual' = [manual EXCEPT ![c] = outcome]
    BY <2>2 DEF RecordClosed
  <2>4. QED
    BY <2>1, <2>3
<1>5. \/ UNCHANGED row
      \/ \E m \in Missions : exited[m] >= Qty[m] /\ \E pnl, by : Settle(m, pnl, by)
  <2>1. CASE CloseOf[c].entry = NoEntry
    BY <2>1 DEF RecordClosed
  <2>2. CASE CloseOf[c].entry # NoEntry
    <3>1. PICK m \in Missions : m = CloseOf[c].entry
      BY <1>1, <2>2
    <3>2. exited[m] >= Qty[m]
      BY <1>0, <2>2, <3>1 DEF IInv, CloseTrue
    <3>3. Settle(m, close[c].profit, "close")
      BY <2>2, <3>1 DEF RecordClosed
    <3>4. QED
      BY <3>2, <3>3
  <2>3. QED
    BY <2>1, <2>2
<1>6. QED
  BY <1>0, <1>3, <1>4, <1>5, CloseMoves

(* What an order of a close takes of the position: of one that closes all   *)
(* it has read, and no less, if the position is not smaller by then.        *)
LEMMA SentQuantity ==
    ASSUME IInv, NEW c \in Closes, NEW s \in Symbols, CloseSend(c, s)
    PROVE  /\ close[c].read[s] \in Nat /\ position[s] \in Nat
           /\ \E q \in 1..position[s] :
                 /\ q = Least(CloseQuantity(c, s), position[s])
                 /\ CloseOf[c].percent = 100 => q \in {close[c].read[s], position[s]}
<1>0. /\ close[c] \in CloseJobs /\ s \in DOMAIN close[c].read /\ CloseOf[c].percent \in 1..100
      /\ position[s] \in Nat /\ position[s] > 0 /\ CloseQuantity(c, s) > 0
  BY JournalAssumption DEF IInv, Shaped, TypeOK, CloseSend
<1>1. PICK held \in Nat : held = close[c].read[s]
  BY <1>0 DEF CloseJobs
<1>2. CloseQuantity(c, s) \in Int /\ (CloseOf[c].percent = 100 => CloseQuantity(c, s) = held)
  <2>1. PICK percent \in 1..100 : percent = CloseOf[c].percent
    BY <1>0
  <2>2. CloseQuantity(c, s) = (held * percent) \div 100
    BY <1>1, <2>1 DEF CloseQuantity
  <2>3. held * percent \in Int
    BY <2>1
  <2>4. (held * percent) \div 100 \in Int
    BY <2>3
  <2>5. percent = 100 => (held * percent) \div 100 = held
    OBVIOUS
  <2>6. QED
    BY <2>1, <2>2, <2>4, <2>5
<1>3. PICK q \in 1..position[s] : q = Least(CloseQuantity(c, s), position[s])
  BY <1>0, <1>2, LeastOfTwo DEF Least
<1>4. q \in {CloseQuantity(c, s), position[s]}
  BY <1>3 DEF Least
<1>5. QED
  BY <1>0, <1>1, <1>2, <1>3, <1>4

(* An order of a close fills what the position still has, up to what was    *)
(* read: of a close that names an entry, everything the entry left.         *)
LEMMA CloseSendStep ==
    ASSUME IInv, NEW c \in Closes, NEW s \in Symbols, CloseSend(c, s)
    PROVE  IInv'
<1>0. /\ TypeOK /\ Shaped /\ close[c].pc = "send" /\ close[c] \in CloseJobs
      /\ s \in DOMAIN close[c].read /\ close[c].sent \subseteq DOMAIN close[c].read
      /\ CloseOf[c].percent \in 1..100 /\ faults' \in 0..MaxFaults
      /\ UNCHANGED <<entry, row, young, manual, rec>>
  <2>1. TypeOK /\ Shaped
    BY DEF IInv, Shaped
  <2>2. faults \in 0..MaxFaults /\ close[c].sent \subseteq DOMAIN close[c].read
    BY <2>1 DEF TypeOK
  <2>3. /\ close[c].pc = "send" /\ s \in DOMAIN close[c].read
        /\ UNCHANGED <<entry, row, young, manual, rec>> /\ (UNCHANGED faults \/ Fault)
    BY DEF CloseSend
  <2>4. faults' \in 0..MaxFaults
    BY <2>2, <2>3, JournalAssumption DEF Fault
  <2>5. close[c] \in CloseJobs /\ CloseOf[c].percent \in 1..100
    BY <2>1, JournalAssumption DEF Shaped
  <2>6. QED
    BY <2>1, <2>2, <2>3, <2>4, <2>5
<1>1. PICK seen \in Marks, g \in Gains :
         /\ Exits(s, Least(CloseQuantity(c, s), position[s]), g)
         /\ \/ close' = [close EXCEPT ![c] = AfterOrder(@, s, seen)]
            \/ close' = [close EXCEPT ![c] = AfterError(@, s)]
  BY DEF CloseSend
<1>2. position[s] \in Nat /\ position[s] > 0 /\ CloseQuantity(c, s) > 0
  BY <1>0 DEF TypeOK, CloseSend
<1>3. PICK held \in Nat : held = close[c].read[s]
  BY SentQuantity
<1>5. PICK q \in 1..position[s] : /\ q = Least(CloseQuantity(c, s), position[s])
                                  /\ CloseOf[c].percent = 100 => q \in {held, position[s]}
  BY <1>3, SentQuantity
<1>6. Exits(s, q, g)
  BY <1>1, <1>5
<1>7. \A m \in Missions : SymbolOf[m] \in Symbols /\ Qty[m] \in Nat /\ exited[m] \in Nat
                          /\ position[SymbolOf[m]] \in Nat
  BY <1>0, JournalAssumption DEF TypeOK
<1>8. \A m \in Missions : entry[m] # "new" =>
         position'[SymbolOf[m]] + exited'[m] >= position[SymbolOf[m]] + exited[m]
  <2> SUFFICES ASSUME NEW m \in Missions, entry[m] # "new"
               PROVE  position'[SymbolOf[m]] + exited'[m] >= position[SymbolOf[m]] + exited[m]
    OBVIOUS
  <2>1. CASE SymbolOf[m] = s
    <3>1. position'[s] = position[s] - q /\ exited'[m] = exited[m] + q
      BY <1>6, <2>1, ExitCounts
    <3>2. QED
      BY <1>7, <2>1, <3>1
  <2>2. CASE SymbolOf[m] # s
    <3>1. position'[SymbolOf[m]] = position[SymbolOf[m]] /\ exited'[m] >= exited[m] /\ exited'[m] \in Nat
      BY <1>6, <1>7, <2>2, ExitCounts
    <3>2. QED
      BY <1>7, <3>1
  <2>3. QED
    BY <2>1, <2>2
<1>9. PICK new : /\ new \in {AfterOrder(close[c], s, seen), AfterError(close[c], s)}
                 /\ close' = [close EXCEPT ![c] = new]
  BY <1>1
<1>10. new \in CloseJobs /\ new.sent \subseteq DOMAIN new.read
       /\ (new.pc = "failed" \/ (new.read = close[c].read /\ new.pc \in {"send", "record"}
                                 /\ (new.pc = "send" => close[c].sent \cup {s} # DOMAIN close[c].read)))
  <2>1. CASE new = AfterError(close[c], s)
    <3>1. new = Ended("failed")
      BY <2>1 DEF AfterError
    <3>2. QED
      BY <3>1, EndedJob
  <2>2. CASE new = AfterOrder(close[c], s, seen)
    <3>1. seen \in Int
      BY JournalAssumption
    <3>2. PICK job \in CloseJobs : job = close[c]
      BY <1>0
    <3>3. PICK pc \in {"send", "record"} : pc = IF job.sent \cup {s} = DOMAIN job.read THEN "record" ELSE "send"
      OBVIOUS
    <3>4. PICK sent \in SUBSET Symbols : sent = job.sent \cup {s}
      BY DEF CloseJobs
    <3>5. seen * held \in Int /\ job.profit \in Int
      BY <3>1 DEF CloseJobs
    <3>6. PICK gain \in Int : gain = seen * held
      BY <3>5
    <3>7. PICK profit \in Int : profit = job.profit + gain
      BY <3>5
    <3>8. new = [job EXCEPT !.sent = sent, !.profit = profit, !.pc = pc]
      BY <1>3, <2>2, <3>2, <3>3, <3>4, <3>6, <3>7 DEF AfterOrder
    <3>9. new \in CloseJobs /\ new.sent = sent /\ new.pc = pc /\ new.read = job.read
      BY <3>8 DEF CloseJobs
    <3>10. QED
      BY <1>0, <3>2, <3>3, <3>4, <3>9
  <2>3. QED
    BY <1>9, <2>1, <2>2
<1>11. close' \in [Closes -> CloseJobs] /\ close'[c] = new
       /\ \A d \in Closes \ {c} : close'[d] = close[d]
  BY <1>0, <1>9, <1>10 DEF Shaped
<1>12. CloseTrue(c)'
  <2> SUFFICES ASSUME CloseOf[c].entry # NoEntry, new.pc \in {"send", "record"} PROVE CloseTrue(c)'
    BY <1>11 DEF CloseTrue
  <2>1. PICK m \in Missions : m = CloseOf[c].entry
    BY JournalAssumption
  <2>2. CloseOf[c].percent = 100
    BY JournalAssumption
  <2>3. /\ entry[m] # "new" /\ DOMAIN close[c].read = {SymbolOf[m]}
        /\ close[c].read[SymbolOf[m]] + exited[m] >= Qty[m]
    BY <1>0, <2>1 DEF IInv, CloseTrue
  <2>4. s = SymbolOf[m] /\ new.pc = "record"
    BY <1>0, <1>10, <2>3
  <2>5. held + exited[m] >= Qty[m]
    BY <1>3, <2>3, <2>4
  <2>6. exited'[m] >= Qty[m]
    <3>0. exited'[m] = exited[m] + q
      BY <1>6, <2>3, <2>4, ExitCounts
    <3>1. CASE q = held
      BY <1>7, <2>5, <3>0, <3>1
    <3>2. CASE q = position[s]
      <4>1. position[SymbolOf[m]] + exited[m] >= Qty[m]
        BY <2>3 DEF IInv, Exposed
      <4>2. QED
        BY <1>7, <2>4, <3>0, <3>2, <4>1
    <3>3. QED
      BY <1>5, <2>2, <3>1, <3>2
  <2>7. QED
    BY <1>11, <2>1, <2>4, <2>6 DEF CloseTrue
<1>13. \A d \in Closes : /\ close'[d].sent \subseteq DOMAIN close'[d].read
                         /\ close'[d] = close[d] \/ CloseTrue(d)'
  BY <1>0, <1>10, <1>11, <1>12 DEF TypeOK
<1>14. QED
  BY <1>0, <1>6, <1>8, <1>11, <1>13, ExitCounts, AccountMoves
-----------------------------------------------------------------------------
(* The specification.                                                       *)

LEMMA JournalStep == IInv /\ [Next]_vars => IInv'
<1> SUFFICES ASSUME IInv, [Next]_vars PROVE IInv'
  OBVIOUS
<1>0. TypeOK /\ Shaped
  BY DEF IInv, Shaped
<1>1. ASSUME NEW s \in Symbols, Exit(s) PROVE IInv'
  BY <1>1, ExitStep
<1>2. ASSUME NEW m \in Missions, Enter(m) PROVE IInv'
  BY <1>2, EnterStep
<1>3. ASSUME NEW m \in Missions, RecordOpen(m) \/ NeverRecorded(m) PROVE IInv'
  BY <1>3, EntryEnds
<1>4. ASSUME young' \in SUBSET Missions, UNCHANGED <<entry, row, close, manual, rec, faults, exchange>>
      PROVE  IInv'
  <2>0. UNCHANGED <<position, fills, exited, own, entry, row, close, manual, rec, faults>>
    BY <1>4 DEF exchange
  <2>1. TypeOK'
    BY <1>0, <1>4, <2>0 DEF TypeOK
  <2>2. Shaped' /\ Exposed' /\ Entered'
    BY <1>0, <2>0, <2>1 DEF IInv, Shaped, Exposed, Entered
  <2>3. (\A c \in Closes : CloseTrue(c)') /\ (\A i \in Reconcilers : PassTrue(i)')
    BY <2>0 DEF IInv, CloseTrue, PassTrue
  <2>4. SettledMeansClosed'
    BY <2>0 DEF IInv, SettledMeansClosed, RowSettled
  <2>5. QED
    BY <2>2, <2>3, <2>4 DEF IInv
<1>5. ASSUME NEW m \in Missions, Ripen(m) PROVE IInv'
  <2>1. young' \in SUBSET Missions
    BY <1>0, <1>5 DEF Ripen, TypeOK
  <2>2. QED
    BY <1>4, <1>5, <2>1 DEF Ripen
<1>6. ASSUME NEW c \in Closes, ConfirmClose(c) PROVE IInv'
  <2>1. ASSUME NEW s \in Symbols, CloseSend(c, s) PROVE IInv'
    BY <2>1, CloseSendStep
  <2>2. CASE CloseReadFails(c) \/ ClosedNotRecorded(c) \/ \E s \in Symbols : CloseRefused(c, s)
    BY <2>2, CloseFails
  <2>3. QED
    BY <1>6, <2>1, <2>2, CloseReadStep, RecordClosedStep DEF ConfirmClose
<1>7. ASSUME NEW i \in Reconcilers, Reconcile(i) PROVE IInv'
  BY <1>7, ReconcilerStep
<1>8. CASE UNCHANGED vars
  <2>1. UNCHANGED <<entry, row, young, close, manual, rec, faults, exchange>>
    BY <1>8 DEF vars, exchange
  <2>2. young' \in SUBSET Missions
    BY <1>0, <2>1 DEF TypeOK
  <2>3. QED
    BY <1>4, <2>1, <2>2
<1>9. QED
  BY <1>1, <1>2, <1>3, <1>5, <1>6, <1>7, <1>8 DEF Next

(* The inductive invariant holds, whatever exits, closes, reconcilers and   *)
(* failures interleave: what an entry left is on the account or counted.    *)
THEOREM JournalInvariant == Spec => []IInv
<1>1. Init => IInv
  BY StartsTrue
<1>2. IInv /\ [Next]_vars => IInv'
  BY JournalStep
<1>3. QED
  BY <1>1, <1>2, PTL DEF Spec

(* No result is journaled for a mission whose position has not left the     *)
(* account: neither by the close that names it, whose orders may be refused *)
(* or lost (executeClose, recordClosedTrade), nor by a reconciler, whose    *)
(* look at the positions is old when it writes (runMissionResultReconciler). *)
THEOREM ResultsAfterTheExit == Spec => []SettledMeansClosed
<1>1. IInv => SettledMeansClosed
  BY DEF IInv
<1>2. QED
  BY <1>1, JournalInvariant, PTL

(* The first result of a row stands: a close and the reconcilers that come  *)
(* later, and an open row that is written late, leave it alone (Close and   *)
(* Save of storage/mongo/journal.go).                                       *)
THEOREM ResultsStand == Spec => SettledOnce
<1>1. ASSUME IInv, [Next]_vars
      PROVE  [\A m \in Missions : RowSettled(m) => row'[m] = row[m]]_vars
  <2> SUFFICES ASSUME NEW m \in Missions, RowSettled(m), Next PROVE row'[m] = row[m]
    BY <1>1
  <2>0. DOMAIN row = Missions /\ row[m] # Absent /\ ~Closable(row[m])
    BY <1>1 DEF IInv, Shaped, RowSettled, Outcome, Absent, Closable
  <2>1. ASSUME NEW n, NEW pnl, NEW by, Settle(n, pnl, by) PROVE row'[m] = row[m]
    BY <2>0, <2>1 DEF Settle
  <2>2. ASSUME NEW n \in Missions, RecordOpen(n) PROVE row'[m] = row[m]
    BY <2>0, <2>2 DEF RecordOpen, Saved
  <2>3. ASSUME NEW c \in Closes, RecordClosed(c) PROVE row'[m] = row[m]
    BY <2>1, <2>3 DEF RecordClosed
  <2>4. ASSUME NEW i \in Reconcilers, CloseRow(i) PROVE row'[m] = row[m]
    BY <2>1, <2>4 DEF CloseRow
  <2>5. \/ UNCHANGED row
        \/ \E n \in Missions : RecordOpen(n)
        \/ \E c \in Closes : RecordClosed(c)
        \/ \E i \in Reconcilers : CloseRow(i)
    <3>1. ASSUME NEW c \in Closes, ConfirmClose(c) PROVE UNCHANGED row \/ RecordClosed(c)
      BY <3>1 DEF ConfirmClose, CloseRead, CloseReadFails, ClosedNotRecorded, CloseSend, CloseRefused
    <3>2. ASSUME NEW i \in Reconcilers, Reconcile(i) PROVE UNCHANGED row \/ CloseRow(i)
      BY <3>2 DEF Reconcile, Scan, ReadPositions, ReadTrades, SkipRow
    <3>3. ASSUME NEW n \in Missions, Enter(n) \/ NeverRecorded(n) \/ Ripen(n) PROVE UNCHANGED row
      BY <3>3 DEF Enter, NeverRecorded, Ripen
    <3>4. ASSUME NEW s \in Symbols, Exit(s) PROVE UNCHANGED row
      BY <3>4 DEF Exit
    <3>5. QED
      BY <3>1, <3>2, <3>3, <3>4 DEF Next
  <2>6. QED
    BY <2>2, <2>3, <2>4, <2>5
<1>2. QED
  BY <1>1, JournalInvariant, PTL DEF Spec, SettledOnce
-----------------------------------------------------------------------------
(* What a reconciler computes from the fills is what the mission's own      *)
(* exits brought. The walk over the fills is a recursive function: that     *)
(* there is one that satisfies its equation, and that it does not depend on *)
(* the fills that come later, is shown by the least number where it fails.  *)

LEMMA LeastNatural ==
    ASSUME NEW T, T \subseteq Nat, T # {}
    PROVE  \E x \in T : \A y \in T : x <= y
<1>1. PICK x \in T : \A y \in T : ~(<<y, x>> \in OpToRel(<, Nat))
  BY WFMin, NatLessThanWellFounded
<1>2. ASSUME NEW y \in T PROVE x <= y
  <2>1. x \in Nat /\ y \in Nat
    OBVIOUS
  <2>2. ~(y < x)
    BY <1>1, <2>1 DEF OpToRel
  <2>3. QED
    BY <2>1, <2>2
<1>3. QED
  BY <1>2

(* Walk satisfies the equation it is declared by.                           *)
LEMMA WalkSteps ==
    ASSUME NEW exits, NEW since \in Nat \ {0}, NEW qty
    PROVE  \A n \in Nat : Walk(exits, since, qty)[n] =
              IF n < since THEN [left |-> qty, net |-> 0]
              ELSE Include(Walk(exits, since, qty)[n - 1], exits[n])
<1> DEFINE Fits(g, n) == g = [k \in 0..n |-> IF k < since THEN [left |-> qty, net |-> 0]
                                            ELSE Include(g[k - 1], exits[k])]
<1>1. \A n \in Nat : \E g : Fits(g, n)
  <2> SUFFICES ASSUME NEW m \in Nat, ~\E g : Fits(g, m) PROVE FALSE
    OBVIOUS
  <2>1. PICK T \in SUBSET Nat : T = {n \in Nat : ~\E g : Fits(g, n)}
    OBVIOUS
  <2>2. PICK n \in T : \A k \in T : n <= k
    BY <2>1, LeastNatural
  <2>3. n \in Nat /\ ~\E g : Fits(g, n)
    BY <2>1
  <2>4. CASE n = 0
    <3>1. PICK start : start = [left |-> qty, net |-> 0]
      OBVIOUS
    <3>2. Fits([k \in 0..n |-> start], n)
      BY <2>4, <3>1
    <3>3. QED
      BY <2>3, <3>2
  <2>5. CASE n # 0
    <3>1. n - 1 \in Nat /\ n - 1 \notin T
      BY <2>2, <2>3, <2>5
    <3>2. PICK h : Fits(h, n - 1)
      BY <2>1, <3>1
    <3>3. PICK last : last = IF n < since THEN [left |-> qty, net |-> 0] ELSE Include(h[n - 1], exits[n])
      OBVIOUS
    <3>4. PICK g : g = [k \in 0..n |-> IF k < n THEN h[k] ELSE last]
      OBVIOUS
    <3>5. ASSUME NEW k \in 0..n
          PROVE  g[k] = IF k < since THEN [left |-> qty, net |-> 0] ELSE Include(g[k - 1], exits[k])
      <4>1. k \in Nat /\ k <= n /\ n \in Nat
        BY <2>3
      <4>2. CASE k < n
        <5>1. k \in 0..(n - 1)
          BY <4>1, <4>2
        <5>2. h[k] = IF k < since THEN [left |-> qty, net |-> 0] ELSE Include(h[k - 1], exits[k])
          BY <3>2, <5>1
        <5>3. g[k] = h[k] /\ (k >= since => g[k - 1] = h[k - 1])
          BY <3>4, <4>1, <4>2
        <5>4. QED
          BY <4>1, <5>2, <5>3
      <4>3. CASE k = n
        <5>1. g[n] = last /\ g[n - 1] = h[n - 1]
          BY <2>5, <3>4, <4>1
        <5>2. QED
          BY <3>3, <4>3, <5>1
      <4>4. QED
        BY <4>1, <4>2, <4>3
    <3>6. g = [k \in 0..n |-> g[k]]
      BY <3>4
    <3>7. Fits(g, n)
      BY <3>5, <3>6
    <3>8. QED
      BY <2>3, <3>7
  <2>6. QED
    BY <2>4, <2>5
<1>2. ASSUME NEW g, NEW h, NEW n \in Nat, NEW p \in Nat, Fits(g, n), Fits(h, p), n <= p,
             NEW m \in 0..n
      PROVE  g[m] = h[m]
  <2> SUFFICES ASSUME g[m] # h[m] PROVE FALSE
    OBVIOUS
  <2>1. PICK T \in SUBSET Nat : T = {k \in Nat : k <= n /\ g[k] # h[k]}
    OBVIOUS
  <2>2. PICK k \in T : \A l \in T : k <= l
    BY <2>1, LeastNatural
  <2>3. k \in 0..n /\ k \in 0..p /\ g[k] # h[k] /\ k \in Nat
    BY <1>2, <2>1
  <2>4. /\ g[k] = IF k < since THEN [left |-> qty, net |-> 0] ELSE Include(g[k - 1], exits[k])
        /\ h[k] = IF k < since THEN [left |-> qty, net |-> 0] ELSE Include(h[k - 1], exits[k])
    BY <1>2, <2>3
  <2>5. k >= since
    BY <2>3, <2>4
  <2>6. k - 1 \in 0..n /\ k - 1 \notin T
    BY <2>2, <2>3, <2>5
  <2>7. g[k - 1] = h[k - 1]
    BY <2>1, <2>6
  <2>8. QED
    BY <2>3, <2>4, <2>7
<1>3. PICK f : f = [n \in Nat |-> CHOOSE g : Fits(g, n)]
  OBVIOUS
<1>4. \A n \in Nat : Fits(f[n], n)
  BY <1>1, <1>3
<1>5. PICK w : w = [n \in Nat |-> f[n][n]]
  OBVIOUS
<1>6. ASSUME NEW n \in Nat
      PROVE  w[n] = IF n < since THEN [left |-> qty, net |-> 0] ELSE Include(w[n - 1], exits[n])
  <2>0. PICK g : g = f[n]
    OBVIOUS
  <2>1. f[n][n] = IF n < since THEN [left |-> qty, net |-> 0] ELSE Include(f[n][n - 1], exits[n])
    <3>1. g = [k \in 0..n |-> IF k < since THEN [left |-> qty, net |-> 0] ELSE Include(g[k - 1], exits[k])]
      BY <1>4, <2>0
    <3>2. n \in 0..n
      OBVIOUS
    <3>3. QED
      BY <2>0, <3>1, <3>2
  <2>2. CASE n < since
    BY <1>5, <2>1, <2>2
  <2>3. CASE n >= since
    <3>1. n - 1 \in Nat /\ n - 1 \in 0..(n - 1) /\ n - 1 <= n
      BY <2>3
    <3>2. f[n - 1][n - 1] = f[n][n - 1]
      <4>1. PICK p \in Nat : p = n - 1
        BY <3>1
      <4>2. Fits(f[p], p) /\ Fits(f[n], n) /\ p \in 0..p /\ p <= n
        BY <1>4, <3>1, <4>1
      <4> HIDE DEF Fits
      <4>3. f[p][p] = f[n][p]
        BY <1>2, <4>2
      <4>4. QED
        BY <4>1, <4>3
    <3>3. QED
      BY <1>5, <2>1, <2>3, <3>1, <3>2
  <2>4. QED
    BY <2>2, <2>3
<1>7. w = [n \in Nat |-> IF n < since THEN [left |-> qty, net |-> 0] ELSE Include(w[n - 1], exits[n])]
  <2>1. w = [n \in Nat |-> w[n]]
    BY <1>5
  <2>2. QED
    BY <1>6, <2>1
<1>8. Walk(exits, since, qty) =
         CHOOSE v : v = [n \in Nat |-> IF n < since THEN [left |-> qty, net |-> 0]
                                       ELSE Include(v[n - 1], exits[n])]
  BY DEF Walk
<1>9. PICK v : v = Walk(exits, since, qty)
  OBVIOUS
<1>10. v = [n \in Nat |-> IF n < since THEN [left |-> qty, net |-> 0] ELSE Include(v[n - 1], exits[n])]
  BY <1>7, <1>8, <1>9
<1>11. QED
  <2>1. ASSUME NEW n \in Nat
        PROVE  v[n] = IF n < since THEN [left |-> qty, net |-> 0] ELSE Include(v[n - 1], exits[n])
    BY <1>10
  <2>2. QED
    BY <1>9, <2>1

(* A later fill changes nothing of the walk up to it.                       *)
LEMMA WalkOfPrefix ==
    ASSUME NEW F, NEW x \in Seq(F), NEW f \in F, NEW since \in Nat \ {0}, NEW qty, NEW m \in 0..Len(x)
    PROVE  Walk(Append(x, f), since, qty)[m] = Walk(x, since, qty)[m]
<1> SUFFICES ASSUME Walk(Append(x, f), since, qty)[m] # Walk(x, since, qty)[m] PROVE FALSE
  OBVIOUS
<1>1. PICK T \in SUBSET Nat :
         T = {n \in Nat : n <= Len(x) /\ Walk(Append(x, f), since, qty)[n] # Walk(x, since, qty)[n]}
  OBVIOUS
<1>2. PICK n \in T : \A k \in T : n <= k
  <2>1. Len(x) \in Nat /\ m \in Nat /\ m <= Len(x)
    OBVIOUS
  <2>2. T # {}
    BY <1>1, <2>1
  <2>3. QED
    BY <2>2, LeastNatural
<1>3. n \in Nat /\ n <= Len(x) /\ Walk(Append(x, f), since, qty)[n] # Walk(x, since, qty)[n]
  BY <1>1
<1>4. /\ Walk(Append(x, f), since, qty)[n] =
              IF n < since THEN [left |-> qty, net |-> 0]
              ELSE Include(Walk(Append(x, f), since, qty)[n - 1], Append(x, f)[n])
      /\ Walk(x, since, qty)[n] =
              IF n < since THEN [left |-> qty, net |-> 0]
              ELSE Include(Walk(x, since, qty)[n - 1], x[n])
  BY <1>3, WalkSteps
<1>5. n >= since
  BY <1>3, <1>4
<1>6. Append(x, f)[n] = x[n]
  BY <1>3, <1>5
<1>7. n - 1 \in Nat /\ n - 1 \notin T /\ n - 1 <= Len(x)
  BY <1>2, <1>3, <1>5
<1>8. Walk(Append(x, f), since, qty)[n - 1] = Walk(x, since, qty)[n - 1]
  BY <1>1, <1>7
<1>9. QED
  BY <1>3, <1>4, <1>6, <1>8

LEMMA WalkAfterFill ==
    ASSUME NEW F, NEW x \in Seq(F), NEW f \in F, NEW since \in 1..(Len(x) + 1), NEW qty
    PROVE  Walk(Append(x, f), since, qty)[Len(Append(x, f))] =
              Include(Walk(x, since, qty)[Len(x)], f)
<1>1. Len(x) \in Nat /\ Len(Append(x, f)) = Len(x) + 1 /\ Append(x, f)[Len(x) + 1] = f
  OBVIOUS
<1>2. since \in Nat \ {0} /\ Len(x) + 1 \in Nat /\ ~(Len(x) + 1 < since)
  BY <1>1
<1>3. Walk(Append(x, f), since, qty)[Len(x) + 1] =
         Include(Walk(Append(x, f), since, qty)[Len(x) + 1 - 1], Append(x, f)[Len(x) + 1])
  <2>1. PICK y : y = Append(x, f)
    OBVIOUS
  <2>2. PICK n \in Nat : n = Len(x) + 1
    BY <1>2
  <2>3. Walk(y, since, qty)[n] = Include(Walk(y, since, qty)[n - 1], y[n])
    BY <1>2, <2>2, WalkSteps
  <2>4. QED
    BY <2>1, <2>2, <2>3
<1>4. Len(x) + 1 - 1 = Len(x) /\ Len(x) \in 0..Len(x)
  BY <1>1
<1>5. Walk(Append(x, f), since, qty)[Len(x)] = Walk(x, since, qty)[Len(x)]
  BY <1>2, <1>4, WalkOfPrefix
<1>6. QED
  BY <1>1, <1>3, <1>4, <1>5

(* A row that is opened after the last fill starts with all of its entry.   *)
LEMMA WalkBegins ==
    ASSUME NEW x, Len(x) \in Nat, NEW qty
    PROVE  Walk(x, Len(x) + 1, qty)[Len(x)] = [left |-> qty, net |-> 0]
<1>1. Len(x) + 1 \in Nat \ {0} /\ Len(x) < Len(x) + 1
  OBVIOUS
<1>2. QED
  BY <1>1, WalkSteps
-----------------------------------------------------------------------------
(* The journal's arithmetic, kept beside IInv. A row that was opened before *)
(* its mission's exits sums them up at any time, so that what a reconciler  *)
(* has read stays true: an exit beyond the entry's quantity brings it       *)
(* nothing.                                                                 *)

Unsold(m) == IF exited[m] < Qty[m] THEN Qty[m] - exited[m] ELSE 0

RowTold(m) ==
    /\ row[m] # Absent => entry[m] = "over"
    /\ entry[m] # "over" /\ ~own[m].early => exited[m] = 0 /\ own[m].net = 0
    /\ row[m] # Absent /\ ~own[m].early =>
          RealizedTrade(SymbolOf[m], row[m].since, Qty[m]) = [left |-> Unsold(m), net |-> own[m].net]

PassTold(i) ==
    /\ \A m \in rec[i].todo : row[m] # Absent
    /\ rec[i].pc \in {"trades", "close"} => row[rec[i].at] # Absent
    /\ rec[i].pc = "close" /\ ~own[rec[i].at].early => rec[i].net = own[rec[i].at].net

ResultTold(m) ==
    RowSettled(m) /\ row[m].by = "reconciler" /\ ~own[m].early => row[m].pnl = own[m].net

Reckoned ==
    /\ \A m \in Missions : RowTold(m) /\ ResultTold(m)
    /\ \A i \in Reconcilers : PassTold(i)

LEMMA StartsReckoned == Init => Reckoned
<1> SUFFICES ASSUME Init PROVE Reckoned
  OBVIOUS
<1>1. \A m \in Missions : /\ row[m] = Absent /\ row[m].outcome = "absent" /\ entry[m] = "new"
                          /\ exited[m] = 0 /\ own[m].net = 0
  BY DEF Init, Absent
<1>2. \A i \in Reconcilers : rec[i].pc = "idle" /\ rec[i].todo = {}
  BY DEF Init
<1>3. QED
  BY <1>1, <1>2 DEF Reckoned, RowTold, ResultTold, PassTold, RowSettled, Outcome

(* What an exit brings to a mission that has entered, as the history counts *)
(* it: its part of the fill is what the walk takes.                         *)
LEMMA ExitBrings ==
    ASSUME IInv, NEW s \in Symbols, NEW q \in 1..position[s], NEW g \in Gains, Exits(s, q, g),
           NEW m \in Missions, SymbolOf[m] = s, entry[m] # "new"
    PROVE  /\ exited'[m] = exited[m] + q
           /\ own'[m].net = own[m].net + (g - Fee) * Least(q, Unsold(m))
           /\ own'[m].early = (own[m].early \/ (Unsold(m) > 0 /\ entry[m] = "executed"))
<1>0. /\ exited[m] \in Nat /\ Qty[m] \in Nat /\ q \in Nat \ {0} /\ g - Fee \in Int
      /\ own[m] \in [alone: BOOLEAN, early: BOOLEAN, net: Int]
  <2>1. position[s] \in Nat /\ exited[m] \in Nat /\ own[m] \in [alone: BOOLEAN, early: BOOLEAN, net: Int]
    BY DEF IInv, Shaped, TypeOK
  <2>2. QED
    BY <2>1, JournalAssumption
<1>1. PICK part \in Int : part = Least(q, Unsold(m))
  BY <1>0 DEF Least, Unsold
<1>2. part = (IF exited[m] < Qty[m] THEN Least(q, Qty[m] - exited[m]) ELSE 0) /\ (part > 0 <=> Unsold(m) > 0)
      /\ (~(part > 0) => part = 0)
  BY <1>0, <1>1 DEF Least, Unsold
<1>3. PICK gain \in Int : gain = (g - Fee) * part
  BY <1>0
<1>4. ~(part > 0) => gain = 0
  BY <1>0, <1>2, <1>3
<1>5. exited'[m] = exited[m] + q
  BY ExitCounts
<1>6. own'[m] = IF part > 0
                THEN [own[m] EXCEPT !.net = @ + gain, !.early = @ \/ entry[m] = "executed"]
                ELSE own[m]
  BY <1>2, <1>3 DEF Exits, CountExit
<1>7. own[m].net \in Int /\ own[m].early \in BOOLEAN
  BY <1>0
<1>8. CASE part > 0
  <2>1. PICK net \in Int : net = own[m].net + gain
    BY <1>7
  <2>2. PICK early \in BOOLEAN : early = (own[m].early \/ entry[m] = "executed")
    OBVIOUS
  <2>3. own'[m] = [own[m] EXCEPT !.net = net, !.early = early]
    BY <1>6, <1>8, <2>1, <2>2
  <2>4. own'[m].net = net /\ own'[m].early = early
    BY <1>0, <2>3
  <2>5. QED
    BY <1>1, <1>2, <1>3, <1>5, <1>8, <2>1, <2>2, <2>4
<1>9. CASE ~(part > 0)
  <2>1. own'[m] = own[m] /\ gain = 0
    BY <1>4, <1>6, <1>9
  <2>2. own'[m].net = own[m].net + gain
    BY <1>7, <2>1
  <2>3. own'[m].early = (own[m].early \/ (Unsold(m) > 0 /\ entry[m] = "executed"))
    BY <1>2, <1>7, <1>9, <2>1
  <2>4. QED
    BY <1>1, <1>3, <1>5, <2>2, <2>3
<1>10. QED
  BY <1>8, <1>9

(* A mission on another symbol, or one that has not entered.                *)
LEMMA ExitSpares ==
    ASSUME IInv, NEW s \in Symbols, NEW q \in 1..position[s], NEW g \in Gains, Exits(s, q, g),
           NEW m \in Missions, SymbolOf[m] # s \/ entry[m] = "new"
    PROVE  exited'[m] = exited[m] /\ own'[m] = own[m]
BY DEF Exits, CountExit

LEMMA ExitReckons ==
    ASSUME IInv, Reckoned, NEW s \in Symbols, NEW q \in 1..position[s], NEW g \in Gains, Exits(s, q, g),
           UNCHANGED <<entry, row, rec>>
    PROVE  Reckoned'
<1>0. /\ \A m \in Missions : /\ SymbolOf[m] \in Symbols /\ exited[m] \in Nat /\ Qty[m] \in Nat \ {0}
                             /\ own[m].net \in Int /\ own[m].early \in BOOLEAN
      /\ q \in Nat \ {0} /\ g - Fee \in Int
      /\ DOMAIN fills = Symbols /\ \A r \in Symbols : fills[r] \in Seq([qty: Nat \ {0}, gain: Gains])
      /\ \A m \in Missions : row[m] = Absent \/ row[m].since \in 1..(Len(fills[SymbolOf[m]]) + 1)
  <2>1. /\ \A m \in Missions : exited[m] \in Nat /\ own[m] \in [alone: BOOLEAN, early: BOOLEAN, net: Int]
        /\ position[s] \in Nat /\ DOMAIN fills = Symbols
        /\ \A r \in Symbols : fills[r] \in Seq([qty: Nat \ {0}, gain: Gains])
        /\ \A m \in Missions : row[m] = Absent \/ row[m].since \in 1..(Len(fills[SymbolOf[m]]) + 1)
    BY DEF IInv, Shaped, TypeOK
  <2>2. \A m \in Missions : SymbolOf[m] \in Symbols /\ Qty[m] \in Nat \ {0}
    BY JournalAssumption
  <2>3. q \in Nat \ {0} /\ g - Fee \in Int
    BY <2>1, JournalAssumption
  <2>4. \A m \in Missions : own[m].net \in Int /\ own[m].early \in BOOLEAN
    BY <2>1
  <2>5. QED
    BY <2>1, <2>2, <2>3, <2>4
<1>1. ASSUME NEW m \in Missions PROVE RowTold(m)'
  <2>1. CASE SymbolOf[m] # s
    <3>1. exited'[m] = exited[m] /\ own'[m] = own[m] /\ fills'[SymbolOf[m]] = fills[SymbolOf[m]]
      BY <1>0, <2>1, ExitSpares DEF Exits
    <3>2. QED
      BY <3>1 DEF Reckoned, RowTold, RealizedTrade, Unsold
  <2>2. CASE entry[m] = "new"
    <3>1. exited'[m] = exited[m] /\ own'[m] = own[m] /\ row[m] = Absent
      BY <2>2, ExitSpares DEF Reckoned, RowTold
    <3>2. QED
      BY <2>2, <3>1 DEF Reckoned, RowTold
  <2>3. CASE SymbolOf[m] = s /\ entry[m] # "new"
    <3>1. /\ exited'[m] = exited[m] + q
          /\ own'[m].net = own[m].net + (g - Fee) * Least(q, Unsold(m))
          /\ own'[m].early = (own[m].early \/ (Unsold(m) > 0 /\ entry[m] = "executed"))
      BY <2>3, ExitBrings
    <3>2. ASSUME entry[m] # "over" PROVE own'[m].early
      <4>1. entry[m] = "executed"
        BY <2>3, <3>2 DEF IInv, Shaped, TypeOK
      <4>2. CASE own[m].early
        BY <3>1, <4>2
      <4>3. CASE ~own[m].early
        <5>1. exited[m] = 0
          BY <3>2, <4>3 DEF Reckoned, RowTold
        <5>2. Unsold(m) > 0
          BY <1>0, <5>1 DEF Unsold
        <5>3. QED
          BY <3>1, <4>1, <5>2
      <4>4. QED
        BY <4>2, <4>3
    <3>3. ASSUME row[m] # Absent, ~own'[m].early
          PROVE  RealizedTrade(s, row[m].since, Qty[m])' = [left |-> Unsold(m)', net |-> own'[m].net]
      <4>1. PICK x \in Seq([qty: Nat \ {0}, gain: Gains]) : x = fills[s]
        BY <1>0
      <4>2. PICK f \in [qty: Nat \ {0}, gain: Gains] : f = [qty |-> q, gain |-> g]
        BY <1>0
      <4>3. fills'[s] = Append(x, f)
        BY <1>0, <4>1, <4>2 DEF Exits
      <4>4. PICK since \in 1..(Len(x) + 1) : since = row[m].since
        BY <1>0, <2>3, <3>3, <4>1
      <4>5. Walk(Append(x, f), since, Qty[m])[Len(Append(x, f))] =
               Include(Walk(x, since, Qty[m])[Len(x)], f)
        BY WalkAfterFill
      <4>6. ~own[m].early
        BY <1>0, <3>1, <3>3
      <4>7. Walk(x, since, Qty[m])[Len(x)] = [left |-> Unsold(m), net |-> own[m].net]
        BY <2>3, <3>3, <4>1, <4>4, <4>6 DEF Reckoned, RowTold, RealizedTrade
      <4>8. Unsold(m) - Least(q, Unsold(m)) = Unsold(m)'
        BY <1>0, <3>1 DEF Least, Unsold
      <4>9. Include([left |-> Unsold(m), net |-> own[m].net], f) = [left |-> Unsold(m)', net |-> own'[m].net]
        BY <3>1, <4>2, <4>8 DEF Include, Take
      <4>10. RealizedTrade(s, row[m].since, Qty[m])' = Walk(fills'[s], since, Qty[m])[Len(fills'[s])]
        BY <4>4 DEF RealizedTrade, Walk, Include, Take, Least
      <4>11. QED
        BY <4>3, <4>5, <4>7, <4>9, <4>10
    <3>4. RowTold(m)'
      BY <2>3, <3>2, <3>3 DEF Reckoned, RowTold
    <3>5. QED
      BY <3>4
  <2>4. QED
    BY <2>1, <2>2, <2>3
<1>2. ASSUME NEW m \in Missions, exited[m] >= Qty[m], row[m] # Absent
      PROVE  own'[m].net = own[m].net /\ own'[m].early = own[m].early
  <2>1. entry[m] = "over"
    BY <1>2 DEF Reckoned, RowTold
  <2>2. CASE SymbolOf[m] # s
    BY <2>2, ExitSpares
  <2>3. CASE SymbolOf[m] = s
    <3>1. /\ own'[m].net = own[m].net + (g - Fee) * Least(q, Unsold(m))
          /\ own'[m].early = (own[m].early \/ (Unsold(m) > 0 /\ entry[m] = "executed"))
      BY <2>1, <2>3, ExitBrings
    <3>2. Unsold(m) = 0 /\ Least(q, Unsold(m)) = 0
      BY <1>0, <1>2 DEF Unsold, Least
    <3>3. (g - Fee) * 0 = 0
      BY <1>0
    <3>4. QED
      BY <1>0, <2>1, <3>1, <3>2, <3>3
  <2>4. QED
    BY <2>2, <2>3
<1>3. ASSUME NEW m \in Missions PROVE ResultTold(m)'
  <2> SUFFICES ASSUME RowSettled(m), row[m].by = "reconciler", ~own'[m].early
               PROVE  row[m].pnl = own'[m].net
    BY DEF ResultTold, RowSettled
  <2>1. exited[m] >= Qty[m] /\ row[m] # Absent
    BY DEF IInv, SettledMeansClosed, RowSettled, Outcome, Absent
  <2>2. QED
    BY <1>2, <2>1 DEF Reckoned, ResultTold
<1>4. ASSUME NEW i \in Reconcilers PROVE PassTold(i)'
  <2>1. PassTold(i)
    BY DEF Reckoned
  <2>2. ASSUME rec[i].pc = "close", ~own'[rec[i].at].early
        PROVE  rec[i].net = own'[rec[i].at].net
    <3>1. rec[i].at \in Missions /\ exited[rec[i].at] >= Qty[rec[i].at] /\ row[rec[i].at] # Absent
      BY <2>1, <2>2 DEF IInv, Shaped, PassTrue, PassTold
    <3>2. QED
      BY <1>2, <2>1, <2>2, <3>1 DEF PassTold
  <2>3. QED
    BY <2>1, <2>2 DEF PassTold
<1>5. QED
  BY <1>1, <1>3, <1>4 DEF Reckoned

(* The rows' start and the arithmetic of the rest stay when the journal and *)
(* the passes move.                                                         *)
LEMMA TradeStays ==
    ASSUME NEW m \in Missions, UNCHANGED <<fills, exited>>, row'[m].since = row[m].since
    PROVE  /\ RealizedTrade(SymbolOf[m], row[m].since, Qty[m])' = RealizedTrade(SymbolOf[m], row[m].since, Qty[m])
           /\ Unsold(m)' = Unsold(m)
<1>1. PICK since : since = row[m].since
  OBVIOUS
<1>2. row'[m].since = since
  BY <1>1
<1>3. QED
  BY <1>1, <1>2 DEF RealizedTrade, Unsold

LEMMA RowsReckon ==
    ASSUME Reckoned, UNCHANGED <<entry, fills, exited, own>>,
           \A m \in Missions : row'[m] = Absent <=> row[m] = Absent,
           \A m \in Missions : row[m] # Absent => row'[m].since = row[m].since,
           \A m \in Missions : ResultTold(m)',
           \A i \in Reconcilers : PassTold(i)'
    PROVE  Reckoned'
<1>1. ASSUME NEW m \in Missions PROVE RowTold(m)'
  <2>1. row[m] # Absent =>
           /\ RealizedTrade(SymbolOf[m], row[m].since, Qty[m])' = RealizedTrade(SymbolOf[m], row[m].since, Qty[m])
           /\ Unsold(m)' = Unsold(m)
    BY TradeStays
  <2>2. QED
    BY <2>1 DEF Reckoned, RowTold
<1>2. QED
  BY <1>1 DEF Reckoned

(* A row is settled by a close, or with what the mission's exits brought.   *)
LEMMA SettleReckons ==
    ASSUME IInv, Reckoned, NEW m \in Missions, NEW pnl, NEW by, Settle(m, pnl, by),
           by = "reconciler" => (~own[m].early => pnl = own[m].net), UNCHANGED own
    PROVE  /\ \A n \in Missions : row'[n] = Absent <=> row[n] = Absent
           /\ \A n \in Missions : row[n] # Absent => row'[n].since = row[n].since
           /\ \A n \in Missions : ResultTold(n)'
<1>0. DOMAIN row = Missions /\ \A n \in Missions : ResultTold(n)
  BY DEF IInv, Shaped, Reckoned
<1>1. PICK new : new = SettledRow(row[m], pnl, by)
  OBVIOUS
<1>2. new.outcome \in Outcome /\ new.since = row[m].since /\ new.pnl = pnl /\ new.by = by
  BY <1>1, OutcomeByIsOutcome DEF SettledRow
<1>3. new # Absent
  BY <1>2 DEF Absent, Outcome
<1>4. /\ \A n \in Missions \ {m} : row'[n] = row[n]
      /\ row'[m] = row[m] \/ (row[m] # Absent /\ row'[m] = new)
  BY <1>0, <1>1 DEF Settle, Closable, Absent
<1>5. \A n \in Missions : row'[n] = row[n] => ResultTold(n)'
  BY <1>0 DEF ResultTold, RowSettled
<1>6. row'[m] = new => ResultTold(m)'
  BY <1>2 DEF ResultTold
<1>7. QED
  BY <1>2, <1>3, <1>4, <1>5, <1>6

LEMMA RowsAsTheyWere ==
    ASSUME Reckoned, UNCHANGED <<row, own>>
    PROVE  /\ \A n \in Missions : row'[n] = Absent <=> row[n] = Absent
           /\ \A n \in Missions : row[n] # Absent => row'[n].since = row[n].since
           /\ \A n \in Missions : ResultTold(n)'
BY DEF Reckoned, ResultTold, RowSettled

LEMMA PassesReckon ==
    ASSUME Reckoned, UNCHANGED <<rec, own>>, \A m \in Missions : row'[m] = Absent => row[m] = Absent,
           IInv
    PROVE  \A i \in Reconcilers : PassTold(i)'
BY DEF Reckoned, PassTold, IInv, Shaped, TypeOK

LEMMA EnterReckons ==
    ASSUME IInv, Reckoned, NEW m \in Missions, Enter(m)
    PROVE  Reckoned'
<1>0. /\ DOMAIN entry = Missions /\ DOMAIN own = Missions
      /\ \A n \in Missions : own[n] \in [alone: BOOLEAN, early: BOOLEAN, net: Int]
  BY DEF IInv, Shaped, TypeOK
<1>1. /\ entry[m] = "new" /\ entry' = [entry EXCEPT ![m] = "executed"]
      /\ UNCHANGED <<fills, row, rec, exited>>
  BY DEF Enter
<1>2. \A n \in Missions : own'[n].early = own[n].early /\ own'[n].net = own[n].net
  <2> SUFFICES ASSUME NEW n \in Missions PROVE own'[n].early = own[n].early /\ own'[n].net = own[n].net
    OBVIOUS
  <2>1. PICK still \in BOOLEAN : still = (own[n].alone /\ n # m /\ exited[n] >= Qty[n])
    OBVIOUS
  <2>2. own'[n] \in {own[n], [own[n] EXCEPT !.alone = still]}
    BY <2>1 DEF Enter
  <2>3. [own[n] EXCEPT !.alone = still].early = own[n].early /\ [own[n] EXCEPT !.alone = still].net = own[n].net
    BY <1>0
  <2>4. QED
    BY <2>2, <2>3
<1>3. row[m] = Absent
  BY <1>1 DEF Reckoned, RowTold
<1>4. ASSUME NEW n \in Missions PROVE RowTold(n)'
  <2>1. /\ row[n] # Absent => entry'[n] = "over"
        /\ entry'[n] # "over" => entry[n] # "over"
    BY <1>0, <1>1, <1>3 DEF Reckoned, RowTold
  <2>2. RealizedTrade(SymbolOf[n], row[n].since, Qty[n])' = RealizedTrade(SymbolOf[n], row[n].since, Qty[n])
        /\ Unsold(n)' = Unsold(n)
    BY <1>1 DEF RealizedTrade, Walk, Include, Take, Least, Unsold
  <2>3. QED
    BY <1>1, <1>2, <2>1, <2>2 DEF Reckoned, RowTold
<1>5. \A n \in Missions : ResultTold(n)'
  BY <1>1, <1>2 DEF Reckoned, ResultTold, RowSettled
<1>6. \A i \in Reconcilers : PassTold(i)'
  BY <1>1, <1>2 DEF Reckoned, PassTold, IInv, Shaped, TypeOK
<1>7. QED
  BY <1>4, <1>5, <1>6 DEF Reckoned

LEMMA EntryEndReckons ==
    ASSUME IInv, Reckoned, NEW m \in Missions, RecordOpen(m) \/ NeverRecorded(m)
    PROVE  Reckoned'
<1>0. DOMAIN entry = Missions /\ DOMAIN row = Missions /\ SymbolOf[m] \in Symbols
      /\ Len(fills[SymbolOf[m]]) \in Nat /\ Qty[m] \in Nat \ {0}
  <2>1. DOMAIN entry = Missions /\ DOMAIN row = Missions
        /\ \A s \in Symbols : fills[s] \in Seq([qty: Nat \ {0}, gain: Gains])
    BY DEF IInv, Shaped, TypeOK
  <2>2. SymbolOf[m] \in Symbols /\ Qty[m] \in Nat \ {0}
    BY JournalAssumption
  <2>3. QED
    BY <2>1, <2>2
<1>1. /\ entry[m] = "executed" /\ entry' = [entry EXCEPT ![m] = "over"]
      /\ row' \in {row, [row EXCEPT ![m] = Saved(@, Since(SymbolOf[m]))]}
      /\ UNCHANGED <<position, fills, exited, own, close, manual, rec>>
  BY DEF RecordOpen, NeverRecorded, exchange
<1>2. row[m] = Absent
  BY <1>1 DEF Reckoned, RowTold
<1>3. PICK new : new = OpenRow(Len(fills[SymbolOf[m]]) + 1)
  OBVIOUS
<1>4. new.outcome = "open" /\ new.since = Len(fills[SymbolOf[m]]) + 1
  BY <1>3 DEF OpenRow
<1>5. new # Absent
  BY <1>4 DEF Absent
<1>6. /\ \A n \in Missions \ {m} : row'[n] = row[n] /\ entry'[n] = entry[n]
      /\ row'[m] \in {Absent, new} /\ entry'[m] = "over"
  BY <1>0, <1>1, <1>2, <1>3 DEF Saved, Since
<1>7. ASSUME NEW n \in Missions PROVE RowTold(n)'
  <2>1. CASE n # m
    <3>1. RealizedTrade(SymbolOf[n], row[n].since, Qty[n])' = RealizedTrade(SymbolOf[n], row[n].since, Qty[n])
          /\ Unsold(n)' = Unsold(n)
      BY <1>1, <1>6, <2>1, TradeStays
    <3>2. QED
      BY <1>1, <1>6, <2>1, <3>1 DEF Reckoned, RowTold
  <2>2. CASE n = m
    <3>1. ASSUME row'[m] # Absent, ~own[m].early
          PROVE  RealizedTrade(SymbolOf[m], row[m].since, Qty[m])' = [left |-> Unsold(m)', net |-> own'[m].net]
      <4>1. row'[m].since = Len(fills[SymbolOf[m]]) + 1
        BY <1>4, <1>6, <3>1
      <4>2. exited[m] = 0 /\ own[m].net = 0
        BY <1>1, <3>1 DEF Reckoned, RowTold
      <4>3. Unsold(m)' = Qty[m]
        BY <1>0, <1>1, <4>2 DEF Unsold
      <4>4. PICK x : x = fills[SymbolOf[m]]
        OBVIOUS
      <4>5. Walk(x, Len(x) + 1, Qty[m])[Len(x)] = [left |-> Qty[m], net |-> 0]
        BY <1>0, <4>4, WalkBegins
      <4>6. RealizedTrade(SymbolOf[m], row[m].since, Qty[m])' = Walk(x, Len(x) + 1, Qty[m])[Len(x)]
        BY <1>1, <4>1, <4>4 DEF RealizedTrade, Walk, Include, Take, Least
      <4>7. QED
        BY <1>1, <4>2, <4>3, <4>5, <4>6
    <3>2. QED
      BY <1>1, <1>6, <2>2, <3>1 DEF RowTold
  <2>3. QED
    BY <2>1, <2>2
<1>8. ASSUME NEW n \in Missions PROVE ResultTold(n)'
  <2>1. RowSettled(n)' => row'[n] = row[n]
    BY <1>4, <1>6, <1>2 DEF RowSettled, Outcome, Absent
  <2>2. QED
    BY <1>1, <2>1 DEF Reckoned, ResultTold, RowSettled
<1>9. \A i \in Reconcilers : PassTold(i)'
  <2>1. \A n \in Missions : row'[n] = Absent => row[n] = Absent
    BY <1>2, <1>6
  <2>2. QED
    BY <1>1, <2>1, PassesReckon
<1>10. QED
  BY <1>7, <1>8, <1>9 DEF Reckoned

(* A reconciler's pass takes only rows that are open, and what it has read  *)
(* of one that its fills cover is final.                                    *)
LEMMA PassReckons ==
    ASSUME IInv, Reckoned, NEW i \in Reconcilers, Reconcile(i)
    PROVE  Reckoned'
<1>0. PassTold(i) /\ DOMAIN rec = Reconcilers
  BY DEF Reckoned, IInv, Shaped
<1>1. ASSUME NEW new, rec' = [rec EXCEPT ![i] = new], UNCHANGED <<entry, row, exchange>>,
             \A m \in new.todo : row[m] # Absent,
             new.pc \in {"trades", "close"} => row[new.at] # Absent,
             new.pc = "close" /\ ~own[new.at].early => new.net = own[new.at].net
      PROVE  Reckoned'
  <2>1. UNCHANGED <<entry, row, fills, exited, own>>
    BY <1>1 DEF exchange
  <2>2. rec'[i] = new /\ \A j \in Reconcilers \ {i} : rec'[j] = rec[j]
    BY <1>0, <1>1
  <2>3. PassTold(i)'
    BY <1>1, <2>1, <2>2 DEF PassTold
  <2>4. \A j \in Reconcilers \ {i} : PassTold(j)'
    BY <2>1, <2>2 DEF Reckoned, PassTold
  <2>5. \A j \in Reconcilers : PassTold(j)'
    BY <2>3, <2>4
  <2>6. QED
    BY <2>1, <2>5, RowsAsTheyWere, RowsReckon
<1>2. ASSUME NEW m PROVE /\ Rest(i, m).pc \in {"idle", "rows"}
                         /\ \A n \in Rest(i, m).todo : row[n] # Absent
  BY <1>0 DEF Rest, PassTold
<1>3. ASSUME NEW m, rec' = [rec EXCEPT ![i] = Rest(i, m)], UNCHANGED <<entry, row, exchange>>
      PROVE  Reckoned'
  <2>1. PICK new : new = Rest(i, m)
    OBVIOUS
  <2>2. QED
    BY <1>1, <1>2, <1>3, <2>1
<1>4. CASE Scan(i)
  <2>1. PICK due \in SUBSET Missions : due = {m \in Missions : row[m].outcome = "open" /\ m \notin young}
    OBVIOUS
  <2>2. \A m \in due : row[m] # Absent
    BY <2>1 DEF Absent
  <2>3. PICK new : new = [pc |-> "rows", todo |-> due]
    OBVIOUS
  <2>4. rec' = [rec EXCEPT ![i] = new] /\ UNCHANGED <<entry, row, exchange>>
    BY <1>4, <2>1, <2>3 DEF Scan
  <2>5. new.pc = "rows" /\ new.todo = due
    BY <2>3
  <2>6. QED
    BY <1>1, <2>2, <2>4, <2>5
<1>5. ASSUME NEW m \in Missions, ReadPositions(i, m) PROVE Reckoned'
  <2>0. m \in rec[i].todo /\ UNCHANGED <<entry, row, exchange>>
    BY <1>5 DEF ReadPositions
  <2>1. CASE position[SymbolOf[m]] > 0
    BY <1>3, <1>5, <2>1 DEF ReadPositions
  <2>2. CASE ~(position[SymbolOf[m]] > 0)
    <3>1. PICK new : new = [pc |-> "trades", todo |-> rec[i].todo, at |-> m]
      OBVIOUS
    <3>2. rec' = [rec EXCEPT ![i] = new]
      BY <1>5, <2>2, <3>1 DEF ReadPositions
    <3>3. new.pc = "trades" /\ new.todo = rec[i].todo /\ new.at = m
      BY <3>1
    <3>4. QED
      BY <1>0, <1>1, <2>0, <3>2, <3>3 DEF PassTold
  <2>3. QED
    BY <2>1, <2>2
<1>6. CASE ReadTrades(i)
  <2>1. PICK m \in Missions : m = rec[i].at
    BY <1>6 DEF ReadTrades, IInv, Shaped
  <2>2. rec[i].pc = "trades" /\ row[m] # Absent /\ UNCHANGED <<entry, row, exchange>>
    BY <1>0, <1>6, <2>1 DEF ReadTrades, PassTold
  <2>3. PICK result : result = RealizedTrade(SymbolOf[m], row[m].since, Qty[m])
    OBVIOUS
  <2>4. CASE Covers(result)
    <3>1. PICK new : new = [pc |-> "close", todo |-> rec[i].todo, at |-> m, net |-> result.net]
      OBVIOUS
    <3>2. rec' = [rec EXCEPT ![i] = new]
      BY <1>6, <2>1, <2>3, <2>4, <3>1 DEF ReadTrades
    <3>3. new.pc = "close" /\ new.todo = rec[i].todo /\ new.at = m /\ new.net = result.net
      BY <3>1
    <3>4. ~own[m].early => result.net = own[m].net
      <4>1. ~own[m].early => result = [left |-> Unsold(m), net |-> own[m].net]
        BY <2>2, <2>3 DEF Reckoned, RowTold
      <4>2. QED
        BY <4>1
    <3>5. QED
      BY <1>0, <1>1, <2>2, <3>2, <3>3, <3>4 DEF PassTold
  <2>5. CASE ~Covers(result)
    BY <1>3, <1>6, <2>1, <2>2, <2>3, <2>5 DEF ReadTrades
  <2>6. QED
    BY <2>4, <2>5
<1>7. CASE CloseRow(i)
  <2>1. PICK m \in Missions : m = rec[i].at
    BY <1>7 DEF CloseRow, IInv, Shaped
  <2>2. /\ rec[i].pc = "close" /\ Settle(m, rec[i].net, "reconciler")
        /\ rec' = [rec EXCEPT ![i] = Rest(i, @.at)]
        /\ UNCHANGED <<entry, fills, exited, own>>
    BY <1>7, <2>1 DEF CloseRow, exchange
  <2>3. ~own[m].early => rec[i].net = own[m].net
    BY <1>0, <2>1, <2>2 DEF PassTold
  <2>4. /\ \A n \in Missions : row'[n] = Absent <=> row[n] = Absent
        /\ \A n \in Missions : row[n] # Absent => row'[n].since = row[n].since
        /\ \A n \in Missions : ResultTold(n)'
    BY <2>2, <2>3, SettleReckons
  <2>5. PICK new : new = Rest(i, m)
    OBVIOUS
  <2>6. new.pc \in {"idle", "rows"} /\ new.todo \subseteq rec[i].todo
    BY <2>5 DEF Rest
  <2>7. rec'[i] = new /\ \A j \in Reconcilers \ {i} : rec'[j] = rec[j]
    BY <1>0, <2>1, <2>2, <2>5
  <2>8. \A j \in Reconcilers : /\ rec[j].todo \subseteq Missions
                               /\ rec[j].pc \in {"trades", "close"} => rec[j].at \in Missions
    BY DEF IInv, Shaped, TypeOK
  <2>9. PassTold(i)'
    BY <1>0, <2>4, <2>6, <2>7, <2>8 DEF PassTold
  <2>10. \A j \in Reconcilers \ {i} : PassTold(j)'
    BY <2>2, <2>4, <2>7, <2>8 DEF Reckoned, PassTold
  <2>11. \A j \in Reconcilers : PassTold(j)'
    BY <2>9, <2>10
  <2>12. QED
    BY <2>2, <2>4, <2>11, RowsReckon
<1>8. CASE SkipRow(i)
  <2>1. UNCHANGED <<entry, row, exchange>>
    BY <1>8 DEF SkipRow
  <2>2. CASE rec' = [rec EXCEPT ![i] = [pc |-> "idle", todo |-> {}]]
    <3>1. PICK new : new = [pc |-> "idle", todo |-> {}]
      OBVIOUS
    <3>2. new.pc = "idle" /\ new.todo = {}
      BY <3>1
    <3>3. QED
      BY <1>1, <2>1, <2>2, <3>1, <3>2
  <2>3. QED
    BY <1>3, <1>8, <2>1, <2>2 DEF SkipRow
<1>9. QED
  BY <1>4, <1>5, <1>6, <1>7, <1>8 DEF Reconcile

LEMMA CloseReckons ==
    ASSUME IInv, Reckoned, NEW c \in Closes, ConfirmClose(c)
    PROVE  Reckoned'
<1>1. ASSUME UNCHANGED <<entry, row, rec, exchange>> PROVE Reckoned'
  BY <1>1, RowsAsTheyWere, PassesReckon, RowsReckon DEF exchange
<1>2. CASE CloseRead(c) \/ CloseReadFails(c) \/ ClosedNotRecorded(c) \/ \E s \in Symbols : CloseRefused(c, s)
  BY <1>1, <1>2 DEF CloseRead, CloseReadFails, ClosedNotRecorded, CloseRefused
<1>3. CASE RecordClosed(c)
  <2>1. CASE CloseOf[c].entry = NoEntry
    BY <1>1, <1>3, <2>1 DEF RecordClosed
  <2>2. CASE CloseOf[c].entry # NoEntry
    <3>1. PICK m \in Missions : m = CloseOf[c].entry
      BY <2>2, JournalAssumption
    <3>2. Settle(m, close[c].profit, "close") /\ UNCHANGED <<rec, entry, fills, exited, own>>
      BY <1>3, <2>2, <3>1 DEF RecordClosed, exchange
    <3>3. /\ \A n \in Missions : row'[n] = Absent <=> row[n] = Absent
          /\ \A n \in Missions : row[n] # Absent => row'[n].since = row[n].since
          /\ \A n \in Missions : ResultTold(n)'
      BY <3>2, SettleReckons
    <3>4. QED
      BY <3>2, <3>3, PassesReckon, RowsReckon
  <2>3. QED
    BY <2>1, <2>2
<1>4. ASSUME NEW s \in Symbols, CloseSend(c, s) PROVE Reckoned'
  <2>1. PICK g \in Gains : Exits(s, Least(CloseQuantity(c, s), position[s]), g)
    BY <1>4 DEF CloseSend
  <2>2. PICK q \in 1..position[s] : q = Least(CloseQuantity(c, s), position[s])
    BY <1>4, SentQuantity
  <2>3. QED
    BY <1>4, <2>1, <2>2, ExitReckons DEF CloseSend
<1>5. QED
  BY <1>2, <1>3, <1>4 DEF ConfirmClose

LEMMA ReckonedStep == IInv /\ Reckoned /\ [Next]_vars => Reckoned'
<1> SUFFICES ASSUME IInv, Reckoned, [Next]_vars PROVE Reckoned'
  OBVIOUS
<1>1. ASSUME NEW s \in Symbols, Exit(s) PROVE Reckoned'
  <2>1. PICK q \in 1..position[s], g \in Gains : Exits(s, q, g)
    BY <1>1 DEF Exit
  <2>2. QED
    BY <1>1, <2>1, ExitReckons DEF Exit
<1>2. ASSUME UNCHANGED <<entry, row, rec, exchange>> PROVE Reckoned'
  BY <1>2, RowsAsTheyWere, PassesReckon, RowsReckon DEF exchange
<1>3. ASSUME NEW m \in Missions, Enter(m) \/ RecordOpen(m) \/ NeverRecorded(m) \/ Ripen(m) PROVE Reckoned'
  BY <1>2, <1>3, EnterReckons, EntryEndReckons DEF Ripen
<1>4. CASE UNCHANGED vars
  BY <1>2, <1>4 DEF vars, exchange
<1>5. QED
  BY <1>1, <1>3, <1>4, CloseReckons, PassReckons DEF Next

(* What a reconciler journals for a mission whose exits came after its row  *)
(* was opened is what those exits brought, fees included, whatever other    *)
(* missions, closes and reconcilers do meanwhile: the loop of RealizedTrade *)
(* takes the entry's quantity and no more (executor.go, RealizedTrade), and *)
(* what it found has not changed when the row is closed.                    *)
THEOREM ReconciledResults == Spec => []ReconciledResultIsOwn
<1>1. Init => Reckoned
  BY StartsReckoned
<1>2. IInv /\ Reckoned /\ [Next]_vars => Reckoned'
  BY ReckonedStep
<1>3. Reckoned => ReconciledResultIsOwn
  BY DEF Reckoned, ResultTold, ReconciledResultIsOwn
<1>4. QED
  BY <1>1, <1>2, <1>3, JournalInvariant, PTL DEF Spec
=============================================================================
