--------------------------- MODULE MCTrailingStop ---------------------------
(* Instances of TrailingStop for TLC: a tick of two, an entry between two ticks, *)
(* and a gap wider than the activation, so that the break-even floor applies.   *)
EXTENDS TrailingStop

CONSTANTS runner, perUser

MarkPrices == {2, 5, 6, 8, 11}
TickPrices == {2, 4, 6, 8, 10}
=============================================================================
