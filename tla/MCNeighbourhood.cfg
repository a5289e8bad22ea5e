\* Three users without links.
SPECIFICATION FairSpec
CONSTANTS
  SH = sh
  PP = {}
  TxTable = tx1
  tx1 = tx1
  rx1 = rx1
  n1 = n1
  n2 = n2
  n3 = n3
  RxTables <- MC_Receivers
  Horizon = 4
  UserIds <- MC_ThreeUsers
  UNSET_ID = unset
  BROADCAST_ID = bcast
  NONE = none
  DoTransmit = TRUE
  NumCandidates = 2
  MinOffsets = {1}
  NumReceivers = 1
  max_last_seen_val = 3
  Askers <- MC_OneUser
INVARIANTS
  TypeOK
  HeardNeverCollide
  ExpectedRight
  KnownAreActive
PROPERTIES
  ImplementsBroadcastSlot
  SilentForgotten
  BroadcastsGoOn
CHECK_DEADLOCK FALSE
