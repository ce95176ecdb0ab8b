SPECIFICATION FairSpec
CONSTANTS
  d1 = d1  p1 = p1  node = node  NoInode = NoInode
  FD_TBL_SIZE = 2
  MaxFd = 2
  MAX_RECONNECT_RETRY_COUNT = 1
  Name = {"a"}
  SubName = {}
  Inode <- MCInode
  Home <- MCHome
  Roots = {"ss"}
  Cmds = {"FILE_DELETE", "FILE_OPEN", "FILE_CLOSE", "FILE_SET_SIZE", "RPMB_SEND", "INIT_PROINFO_OK", "INIT_PERSIST_OK"}
  MsgFlags = {{}, {"PRE_COMMIT"}}
  OpenFlags <- DataFlags
  StrayHandles = FALSE
  MaxFaults = 1
INVARIANTS TypeOK CommitIsDurable DirtyMapCovers DirtyFdIsOpen
PROPERTY CommitEventuallySucceeds
