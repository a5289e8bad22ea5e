\* Two pairs with a common user that compete for slots with the user's own links.
SPECIFICATION FairSpec
CONSTANTS
  SH = sh
  ch1 = ch1
  tx1 = tx1
  rx1 = rx1
  n1 = n1
  n2 = n2
  n3 = n3
  PP <- MC_Channels
  TxTable = tx1
  RxTables <- MC_Receivers
  Horizon = 3
  UserIds <- MC_Users
  Talks <- MC_Talks
  UNSET_ID = unset
  BROADCAST_ID = bcast
  UNSET = none
  Timeout = 1
  Increment = 1
  StartSlots = {1, 2}
  ReplyOffsets = {2}
  MaxProposals = 2
  OwnUses <- MC_OwnUses
  MaxOwnBursts = 1
INVARIANTS
  TypeOK
  NoOrphanLock
  NoOrphanBusy
  BusyWithinLifetime
  NoFailure
PROPERTIES
  LinksEnd
CHECK_DEADLOCK FALSE
