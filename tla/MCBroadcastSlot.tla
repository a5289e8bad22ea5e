-------------------------- MODULE MCBroadcastSlot --------------------------
(* Small instances of BroadcastSlot for TLC *)
EXTENDS BroadcastSlot, TLC

CONSTANTS ch1, ch2, tx1, rx1, n1

MC_TwoChannels == {ch1, ch2}
MC_Receivers   == {rx1}
MC_OneUser     == {n1}
MC_Symmetry    == Permutations(MC_TwoChannels)
=============================================================================
