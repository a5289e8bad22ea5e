-------------------------- MODULE MCThirdPartyLink --------------------------
(* Small instances of ThirdPartyLink for TLC *)
EXTENDS ThirdPartyLink

CONSTANTS ch1, tx1, rx1, n1, n2, n3

MC_Channels   == {ch1}
MC_Receivers  == {rx1}
MC_Users      == {n1, n2, n3}
MC_Talks      == {<<n1, n2>>, <<n2, n1>>, <<n2, n3>>}
MC_OwnUses    == {<<n2, "TX">>}
=============================================================================
