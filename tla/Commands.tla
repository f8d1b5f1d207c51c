------------------------------ MODULE Commands ------------------------------
(* The command grammar (parser/parser.go): what a command given as a        *)
(* sequence of tokens means, and the intents of domain/intent.go. Case,     *)
(* blanks and the wording of errors are left out.                           *)
EXTENDS Integers, Sequences

CONSTANTS
    MaxLeverage   \* MAX_LEVERAGE

ASSUME CommandsAssumption == MaxLeverage \in Nat \ {0}

(* A token is a word or a number with its unit: x, %, usdt, or none.        *)
Word(w) == [kind |-> "word", word |-> w, n |-> 0, unit |-> ""]
Num(n, unit) == [kind |-> "num", word |-> "", n |-> n, unit |-> unit]

Invalid == [type |-> "invalid"]

IsWord(t, w) == t.kind = "word" /\ t.word = w
(* normalizeSymbol: BTC, BTCUSDT and BTC/USDT are one symbol. A symbol that *)
(* the exchange does not know is accepted.                                  *)
IsSymbol(t) == t.kind = "word" /\ t.word # ""
(* parsePositiveDecimal behind the unit.                                    *)
Positive(t, unit) == t.kind = "num" /\ t.unit = unit /\ t.n > 0
IsPlan(t) == Positive(t, "") /\ t.n \in 1..3

IsSize(kind, amount) ==
    \/ IsWord(kind, "size") /\ Positive(amount, "usdt")
    \/ IsWord(kind, "qty") /\ Positive(amount, "")
Size(kind, amount) == [kind |-> IF IsWord(kind, "size") THEN "usdt" ELSE "qty", amount |-> amount.n]

(* validateStopAndTakeProfit *)
\* Seeded fault: a target on the wrong side is let through.
BracketedByStop(side, entry, sl, tp) == IF side = "long" THEN sl < entry ELSE sl > entry
Bracketed(side, entry, sl, tp) ==
    IF side = "long" THEN sl < entry /\ entry < tp ELSE tp < entry /\ entry < sl

(* long BTC 3x entry 67500 sl 65000 tp 72000 size 100usdt [plan 1]          *)
IsOpen(ts) ==
    /\ Len(ts) \in {11, 13}
    /\ IsSymbol(ts[2])
    /\ Positive(ts[3], "x") /\ ts[3].n <= MaxLeverage
    /\ IsWord(ts[4], "entry") /\ Positive(ts[5], "")
    /\ IsWord(ts[6], "sl") /\ Positive(ts[7], "")
    /\ IsWord(ts[8], "tp") /\ Positive(ts[9], "")
    /\ IsSize(ts[10], ts[11])
    /\ Len(ts) = 13 => IsWord(ts[12], "plan") /\ IsPlan(ts[13])
    /\ Bracketed(ts[1].word, ts[5].n, ts[7].n, ts[9].n)

Open(ts) ==
    [type |-> "open", side |-> ts[1].word, symbol |-> ts[2].word, leverage |-> ts[3].n,
     entry |-> ts[5].n, sl |-> ts[7].n, tp |-> ts[9].n, size |-> Size(ts[10], ts[11])]

(* close BTC, close BTC 50%, close all                                      *)
IsClose(ts) ==
    \/ Len(ts) = 2 /\ IsSymbol(ts[2])
    \/ Len(ts) = 3 /\ IsSymbol(ts[2]) /\ ts[2].word # "all" /\ Positive(ts[3], "%") /\ ts[3].n <= 100

Close(symbol, percent) == [type |-> "close", symbol |-> symbol, percent |-> percent]
Breakeven(symbol) == [type |-> "breakeven", symbol |-> symbol]
(* Percentages of a trailing stop are in tenths. *)
Trail(symbol, rate) == [type |-> "trail", symbol |-> symbol, rate |-> rate]

(* be BTC, move sl BTC to be                                                *)
IsBreakeven(ts) == Len(ts) = 2 /\ IsSymbol(ts[2])
IsMoveStop(ts) ==
    /\ Len(ts) = 5
    /\ IsWord(ts[2], "sl") /\ IsWord(ts[4], "to") /\ IsWord(ts[5], "be") /\ IsSymbol(ts[3])
IsTrail(ts) ==
    Len(ts) = 3 /\ IsSymbol(ts[2]) /\ Positive(ts[3], "tenths of %") /\ ts[3].n <= 100
IsAdd(ts) == Len(ts) = 4 /\ IsSymbol(ts[2]) /\ IsSize(ts[3], ts[4])
IsPlanStatus(ts) == Len(ts) = 3 /\ IsPlan(ts[2]) /\ IsWord(ts[3], "status")

Parse(ts) ==
    LET command == IF ts = <<>> THEN "" ELSE ts[1].word IN
    CASE command \in {"long", "short"} /\ IsOpen(ts) -> Open(ts)
      [] command = "close" /\ IsClose(ts) -> Close(ts[2].word, IF Len(ts) = 3 THEN ts[3].n ELSE 100)
      [] command = "be" /\ IsBreakeven(ts) -> Breakeven(ts[2].word)
      [] command = "move" /\ IsMoveStop(ts) -> Breakeven(ts[3].word)
      [] command = "trail" /\ IsTrail(ts) -> Trail(ts[2].word, ts[3].n)
      [] command = "add" /\ IsAdd(ts) ->
            [type |-> "add", symbol |-> ts[2].word, size |-> Size(ts[3], ts[4])]
      [] command = "status" -> [type |-> "status"]
      [] command = "plan" /\ IsPlanStatus(ts) -> [type |-> "plan_status", plan |-> ts[2].n]
      [] OTHER -> Invalid

(* IsExchangeChanging *)
ChangesExchange(intent) == intent.type \in {"open", "close", "breakeven", "trail", "add"}
=============================================================================
