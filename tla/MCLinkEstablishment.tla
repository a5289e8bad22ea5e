------------------------ MODULE MCLinkEstablishment ------------------------
(* Small instances of LinkEstablishment for TLC *)
EXTENDS LinkEstablishment

CONSTANTS ch1, ch2, tx1, rx1, n1, n2, n3

MC_OneChannel  == {ch1}
MC_TwoChannels == {ch1, ch2}
MC_Receivers   == {rx1}
MC_UserIds     == {n1, n2, n3}
MC_Others      == {n3}
=============================================================================
