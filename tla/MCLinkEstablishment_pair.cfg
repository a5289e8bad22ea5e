\* Two users alone, under a fair slot clock.
SPECIFICATION FairSpec
CONSTANTS
  SH = sh
  ch1 = ch1
  ch2 = ch2
  tx1 = tx1
  rx1 = rx1
  n1 = n1
  n2 = n2
  n3 = n3
  PP <- MC_OneChannel
  TxTable = tx1
  RxTables <- MC_Receivers
  Horizon = 7
  UserIds <- MC_UserIds
  Others <- MC_Others
  UNSET_ID = unset
  BROADCAST_ID = bcast
  NONE = none
  DoTransmit = TRUE
  NumCandidates = 2
  MinOffsets = {1}
  Timeout = 2
  Increment = 1
  MaxAttempts = 3
  Conformant = {TRUE}
  Claims = {}
  MaxOthers = 0
  OtherSlots = {}
INVARIANTS
  TypeOK
  NoFailure
  BothEndsAgree
  BurstsOfLink
PROPERTIES
  AttemptEnds
  LinksExpire
  ImplementsContract
