\* An established link schedules again when another link is reset.
SPECIFICATION Spec
CONSTANTS
  SH = sh
  ch1 = ch1
  tx1 = tx1
  rx1 = rx1
  n1 = n1
  n2 = n2
  n3 = n3
  PP <- MC_Channels
  TxTable = tx1
  RxTables <- MC_Receivers
  Horizon = 4
  UserIds <- MC_Users
  Talks <- MC_Talks
  UNSET_ID = unset
  BROADCAST_ID = bcast
  UNSET = none
  Timeout = 1
  Increment = 2
  StartSlots = {1, 2}
  ReplyOffsets = {1, 2}
  MaxProposals = 1
  OwnUses <- MC_OwnUses
  MaxOwnBursts = 0
INVARIANTS
  BusyInLifetime
CHECK_DEADLOCK FALSE
