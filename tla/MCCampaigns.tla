----------------------------- MODULE MCCampaigns -----------------------------
(* Instances of Campaigns for TLC. *)
EXTENDS Campaigns

WinOrLose == {-1, 1}
=============================================================================
