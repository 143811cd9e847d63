SPECIFICATION Spec
CONSTANTS
  Owners = {o1, o2}
  MaxPeriod = 3
  LockDays = 2
  U16 = 5
  U64 = 100000
  Supply = 5
  Amounts = {2, 3}
  None = None
INVARIANTS
  TypeOK
  Solvent
  CommitmentExact
  WalletsArePayouts
  WaitingPays
PROPERTIES
  SettledForever
  RefinesVault
CHECK_DEADLOCK FALSE
