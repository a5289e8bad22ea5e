---------------------------- MODULE MCDutyCycle -----------------------------
(* A small instance of DutyCycle for TLC *)
EXTENDS DutyCycle

MC_Peers == 1 .. 4
=============================================================================
