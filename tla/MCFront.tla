------------------------------ MODULE MCFront ------------------------------
(* An instance of Front for TLC. *)
EXTENDS Front, TLC

MCAiLimit == [free |-> 1, captain |-> 1]

MCTexts == {<<Word("status")>>, <<Word("close"), Word("btc")>>, <<Word("buy")>>}

(* What an advisor may answer: good, too unsure, bracketed the wrong way,   *)
(* for the other side, and a close.                                         *)
Buy(conf, entry, sl, tp, side) ==
    [action |-> "open", symbol |-> "btc", side |-> side, leverage |-> 3, entry |-> entry,
     sl |-> sl, tp |-> tp, size |-> 25, confidence |-> conf]
MCDecisions ==
    {[action |-> "hold"],
     Buy(80, 10, 7, 14, "long"), Buy(41, 11, 12, 14, "long"), Buy(20, 7, 3, 12, "long"),
     Buy(60, 10, 13, 5, "short"),
     [action |-> "close", symbol |-> "btc", percent |-> 50, confidence |-> 90]}

MCRequests ==
    {[profit |-> 30, capital |-> 1000, risk |-> 2, use |-> 100, winRate |-> 55, unlimited |-> FALSE],
     [profit |-> 90, capital |-> 1000, risk |-> 6, use |-> 50, winRate |-> 40, unlimited |-> TRUE]}
Candle(l, h, c) == [low |-> l, high |-> h, close |-> c]
MCShapes == {Candle(97, 103, 100), Candle(100, 112, 110), Candle(90, 104, 92)}
Seen(cdc, qqe, cross, aligned) ==
    [cdc |-> cdc, qqe |-> qqe, cross |-> cross, aligned |-> aligned,
     abnormal |-> FALSE, sideways |-> FALSE, extended |-> FALSE]
MCObservations ==
    {Seen("green", 60, "up", TRUE), Seen("red", 40, "down", TRUE), Seen("green", 60, "up", FALSE)}

Symmetry == Permutations(Calls) \cup Permutations(Subjects \ {Root})
            \cup Permutations(Keys) \cup Permutations(Secrets)
=============================================================================
