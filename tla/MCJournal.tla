----------------------------- MODULE MCJournal -----------------------------
(* Two missions of one symbol, the timed close of the first, a close of     *)
(* everything by the user, who holds another symbol.                        *)
EXTENDS Journal

CONSTANTS m1, m2, btc, eth, timed, all

MCSymbolOf == m1 :> btc @@ m2 :> btc
MCQty == m1 :> 1 @@ m2 :> 1
MCCloseOf == timed :> [symbols |-> {btc}, percent |-> 100, entry |-> m1]
          @@ all :> [symbols |-> {btc, eth}, percent |-> 100, entry |-> NoEntry]
MCNoCloses == <<>>
MCHeld == btc :> 0 @@ eth :> 1
MCGains == {0, 2}
============================================================================
