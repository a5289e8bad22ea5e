\* Third users claim broadcast slots.
SPECIFICATION Spec
CONSTANTS
  SH = sh
  ch1 = ch1
  ch2 = ch2
  tx1 = tx1
  rx1 = rx1
  n1 = n1
  n2 = n2
  n3 = n3
  PP <- MC_OneChannel
  TxTable = tx1
  RxTables <- MC_Receivers
  Horizon = 4
  UserIds <- MC_UserIds
  Others <- MC_Others
  UNSET_ID = unset
  BROADCAST_ID = bcast
  NONE = none
  DoTransmit = TRUE
  NumCandidates = 2
  MinOffsets = {1}
  Timeout = 1
  Increment = 1
  MaxAttempts = 2
  Conformant = {TRUE}
  Claims = {1, 2}
  MaxOthers = 0
  OtherSlots = {}
INVARIANT
  BothEndsAgree
CHECK_DEADLOCK FALSE
