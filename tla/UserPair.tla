------------------------------ MODULE UserPair ------------------------------
(* The two users whose link is observed, and the others around them *)
EXTENDS ReservationTable

CONSTANT Others   \* other users

Users == UserIds \ Others

ASSUME UsersAssumption ==
  Others \subseteq UserIds /\ \E a, b \in Users : a # b /\ Users = {a, b}

Peer(u) == CHOOSE v \in Users : v # u
=============================================================================
