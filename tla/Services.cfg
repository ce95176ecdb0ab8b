SPECIFICATION StackSpec
CONSTANTS
  NullOp = NullOp
  NoSess = NoSess
  Null = Null
  Odd = Odd
  Ctx = {1}
  Sess = {1}
  Shm = {1, 2}
  Fd = {0, 3}
  SessId = {1}
  Operation = {p}
  ParamTypes <- GkTypes
  ShmIdResult = {TRUE, FALSE}
  Uid = {1}
  Short = {a, b}
  Long = {l}
  Prefix <- MCPrefix
  MaxTries = 1
  RetryTimeout = {0, 30}
  OpHandle = {1, 2, 3}
  KmFd = {3}
  MaxFaults = 3
  Importer = {a}
  Checker = {b}
  TEE_PROP_VALUE_MAX = 3
  PROP_VALUE_MAX = 5
  KB_SIZE = 1
  MaxToolFaults = 2
  MaxDrvUuids = 3
  Setup <- Setups
  Head0 = Head0
  Poison = Poison
  None = None
  Nothing = Nothing
  NoBlob = NoBlob
  p = p
  a = a
  b = b
  l = l
  Entry = {e1, e2, e3}
  Setting = {a, b}
  Blob = {a, b}
  WordSize = 2
  MaxParams = 2
  MaxBytes = 5
INVARIANTS
  OnlyUnnamedLeak
  SuccessIsTas
  OverlongReachesTa
  OperationHeld
  ResultIsTas
  RequestSurvives
  ReportsAreTrue
  ListIsWhole
  TableIsExact
  AnnouncedIsSo
PROPERTIES
  EveryCallReturns
  Recovers
  ImplementsQueue
  ReadyIsSeen
