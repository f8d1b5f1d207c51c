--------------------------- MODULE MCConfirmations ---------------------------
(* Instance of Confirmations for TLC: concurrent calls on one confirmation. *)
EXTENDS Confirmations

=============================================================================
