----------------------------- MODULE MCRecovery -----------------------------
EXTENDS Recovery, TLC

MCRanks == 0..4
MCBackEnds == {4}
MCTree == 0 :> 9 @@ 1 :> 0 @@ 2 :> 0 @@ 3 :> 1 @@ 4 :> 3
=============================================================================
