--------------------------- MODULE MCLinkRequests ---------------------------
(* Small instances of LinkRequests for TLC *)
EXTENDS LinkRequests

CONSTANTS ch1, ch2, tx1, rx1, n0, n1, n2, n3

MC_OneChannel  == {ch1}
MC_TwoChannels == {ch1, ch2}
MC_Receivers   == {rx1}
MC_TwoPeers    == {n1, n2}
MC_ThreePeers  == {n1, n2, n3}
MC_UserIds     == {n0, n1, n2, n3}
=============================================================================
