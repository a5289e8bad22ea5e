\* A duty cycle of 10 % and two links to support, with up to four peers.
SPECIFICATION Spec
CONSTANTS
  One = 4800
  MaxDuty = 480
  MinBudget = 48
  MinLinks = 2
  Peers <- MC_Peers
  Timeout = 2
  NumCandidates = 2
  Horizon = 40
INVARIANTS
  TypeOK
  NoFailure
  FairShareKept
  OfferFits
