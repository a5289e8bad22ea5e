\* One neighbour; two point-to-point channels whose bursts compete with the
\* broadcast for the transmitter and the receiver.
SPECIFICATION Spec
CONSTANTS
  SH = sh
  ch1 = ch1
  ch2 = ch2
  tx1 = tx1
  rx1 = rx1
  n1 = n1
  PP <- MC_TwoChannels
  TxTable = tx1
  RxTables <- MC_Receivers
  Horizon = 3
  UserIds <- MC_OneUser
  UNSET_ID = unset
  BROADCAST_ID = bcast
  NONE = none
  DoTransmit = TRUE
  NumCandidates = 3
  MinOffsets = {1}
  NumReceivers = 2
  MaxBursts = 2
INVARIANTS
  TypeOK
  OneTransmission
  BroadcastReserved
  NoFailure
  NeverOnAdvertised
SYMMETRY MC_Symmetry
CHECK_DEADLOCK FALSE
