-------------------------- MODULE MCNeighbourhood --------------------------
(* Small instances of Neighbourhood for TLC *)
EXTENDS Neighbourhood

CONSTANTS tx1, rx1, n1, n2, n3

MC_Receivers  == {rx1}
MC_OneUser    == {n1}
MC_ThreeUsers == {n1, n2, n3}
=============================================================================
