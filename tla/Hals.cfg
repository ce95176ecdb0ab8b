SPECIFICATION StackSpec
CONSTANTS
  MaxFaults = 3
  MaxPayload = 2
  MaxKey = 5
  MaxInstallFaults = 2
  c1 = c1
  Cmd = {c1, c2}
  MaxSend = 2
  MaxBuffer = 2
  BpSendBuf = 5
  BpRecvBuf = 5
  MaxSize = 6
  Fd = {0, 1}
  MaxCallFaults = 2
  HeaderSize = 1
  MMC_BLOCK_SIZE = 2
  ReadBuf = 4
  MaxRpmbSize = 6
  MaxLen = 14
  NoObj = NoObj
  Obj = {o1, o2}
  Handle = {1, 2, 3}
  MintFd = {3}
  MaxMintFaults = 3
INVARIANTS
  AnswerIsOwn
  RequestIsWhole
  AnswersInStep
  InstalledIsWhole
  TransferIsExact
  TypeOK
  ChannelIsWhole
  OperationHasOwner
  OkMeansDone
  ServesOnlyConfigured
PROPERTIES
  ServiceGoesOn
  MintRecovers
