SPECIFICATION Spec
CONSTANTS
  d1 = d1  p1 = p1  node = node  NoInode = NoInode
  FD_TBL_SIZE = 1
  MaxFd = 0
  MAX_RECONNECT_RETRY_COUNT = 1
  Name = {"a", "f/b"}
  SubName = {"f/b"}
  Inode <- MCInode
  Home <- MCHome
  Roots = {"ss", "persist", "proinfo"}
  Cmds = {"FILE_DELETE", "FILE_OPEN", "FILE_CLOSE", "FILE_READ", "FILE_WRITE", "FILE_GET_SIZE", "FILE_SET_SIZE", "RPMB_SEND", "END_TRANSACTION", "INIT_OK"}
  MsgFlags = {{}, {"PRE_COMMIT"}, {"POST_COMMIT"}}
  OpenFlags <- EveryRootFlags
  StrayHandles = TRUE
  MaxFaults = 1
INVARIANTS CommitIsDurable DirtyMapCovers
