SPECIFICATION StackSpec
CONSTANTS
  NullOp = NullOp
  NoSess = NoSess
  p = p
  Ctx = {1, 2}
  Sess = {1, 2}
  Shm = {1}
  Fd = {0, 3, 4}
  SessId = {1, 2}
  Operation = {p}
  ParamTypes <- MCTypes
  ShmIdResult = {TRUE}
  Size = 2
  Param <- MCParams
INVARIANTS
  ContextsOwnFiles
  SessionsOwned
  MemoryOwned
  TaSeesInput
  OutputDelivered
  RestKept
