SPECIFICATION Spec
CONSTANTS
  d1 = d1  p1 = p1  node = node  NoInode = NoInode
  FD_TBL_SIZE = 1
  MaxFd = 1
  MAX_RECONNECT_RETRY_COUNT = 1
  Name = {"a"}
  SubName = {}
  Inode <- MCInode
  Home <- MCHome
  Roots = {"ss", "persist"}
  Cmds = {"FILE_DELETE", "FILE_OPEN", "FILE_CLOSE", "FILE_WRITE", "FILE_SET_SIZE", "RPMB_SEND"}
  MsgFlags = {{}, {"PRE_COMMIT"}}
  OpenFlags <- DataFlags
  StrayHandles = FALSE
  MaxFaults = 1
INVARIANT CommitCoversOpenFiles
