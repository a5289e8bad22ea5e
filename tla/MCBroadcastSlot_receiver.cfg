\* A receiver table entry that outlives the reception it was made for.
SPECIFICATION Spec
CONSTANTS
  SH = sh
  ch1 = ch1
  ch2 = ch2
  tx1 = tx1
  rx1 = rx1
  n1 = n1
  PP <- MC_TwoChannels
  TxTable = tx1
  RxTables <- MC_Receivers
  Horizon = 3
  UserIds <- MC_OneUser
  UNSET_ID = unset
  BROADCAST_ID = bcast
  NONE = none
  DoTransmit = TRUE
  NumCandidates = 3
  MinOffsets = {1}
  NumReceivers = 2
  MaxBursts = 2
INVARIANTS
  ReceiverHeld
CHECK_DEADLOCK FALSE
