\* Three peers: the loop over the requests reads past what it has erased.
SPECIFICATION Spec
CONSTANTS
  SH = sh
  ch1 = ch1
  ch2 = ch2
  tx1 = tx1
  rx1 = rx1
  n0 = n0
  n1 = n1
  n2 = n2
  n3 = n3
  PP <- MC_OneChannel
  TxTable = tx1
  RxTables <- MC_Receivers
  Horizon = 7
  UserIds <- MC_UserIds
  Me = n0
  Peers <- MC_ThreePeers
  UNSET_ID = unset
  BROADCAST_ID = bcast
  NONE = none
  DoTransmit = TRUE
  NumCandidates = 1
  MinOffsets = {1}
  Timeout = 1
  Increment = 1
  MaxAttempts = 2
  Conformant = {TRUE}
  Claims = {1}
  StartSlots = {3}
INVARIANTS
  OffersHeld
CHECK_DEADLOCK FALSE
