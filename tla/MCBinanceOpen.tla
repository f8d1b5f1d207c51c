---------------------------- MODULE MCBinanceOpen ----------------------------
(* Instances of BinanceOpen for TLC: a quantity of three steps. *)
EXTENDS BinanceOpen
=============================================================================
