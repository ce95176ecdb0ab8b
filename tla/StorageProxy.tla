---------------------------- MODULE StorageProxy ----------------------------
(***************************************************************************)
(* The non-secure disk proxy of the lite TEE (common/lite/storage/proxy).  *)
(* The secure storage server sends it file commands over a tipc channel;   *)
(* the proxy runs them against the Linux file system and, when a message   *)
(* carries STORAGE_MSG_FLAG_PRE_COMMIT, first makes every pending change   *)
(* durable (storage_sync_checkpoint).  To know what is pending it keeps a  *)
(* three-level dirty map: per descriptor (fd_state), for the directories   *)
(* (dir_state) and for the whole file system (fs_state).                   *)
(*                                                                         *)
(* The process is single threaded: a message is received, optionally       *)
(* checkpointed, dispatched to one handler and answered.  What runs        *)
(* beside it is the kernel's write-back, and the process may exit when the *)
(* channel fails and be started again.                                     *)
(***************************************************************************)
EXTENDS Integers

CONSTANTS
  FD_TBL_SIZE,   \* descriptors below this are tracked one by one
  MaxFd,         \* highest descriptor number the kernel hands out
  MAX_RECONNECT_RETRY_COUNT,
  Name,          \* file names a request may carry
  SubName,       \* the names that contain a '/', in the one folder modelled
  Inode,         \* the files the disks can hold
  NoInode,       \* no file
  Home,          \* the root whose file system holds an inode
  Roots,         \* the roots this proxy was started with (-f, -v, -i)
  Cmds,          \* commands the server issues
  MsgFlags,      \* the sets of message flags it uses
  OpenFlags,     \* the sets of open flags it uses
  StrayHandles,  \* whether it may use a handle that is not open
  MaxFaults      \* how many system calls fail in a behaviour

SS_UNUSED == -1
SS_CLEAN  == 0
SS_DIRTY  == 1
SyncState == {SS_UNUSED, SS_CLEAN, SS_DIRTY}

Fd        == 0 .. MaxFd
TrackedFd == 0 .. (FD_TBL_SIZE - 1)

HandleCmd   == {"FILE_CLOSE", "FILE_READ", "FILE_WRITE", "FILE_GET_SIZE", "FILE_SET_SIZE"}
InitCmd     == {"INIT_OK", "INIT_PROINFO_OK", "INIT_PERSIST_OK"}
Command     == HandleCmd \cup InitCmd \cup {"FILE_DELETE", "FILE_OPEN", "RPMB_SEND", "END_TRANSACTION"}
MsgFlag     == {"BATCH", "PRE_COMMIT", "POST_COMMIT"}
OpenFlag    == {"CREATE", "CREATE_EXCLUSIVE", "TRUNCATE", "PERSISTENT_FILE", "PROINFO_FILE", "VFS"}
InitProperty == {"vendor.soter.teei.init", "vendor.soter.teei.persist", "vendor.soter.teei.proinfo"}
StorageErr  == {"NO_ERROR", "GENERIC", "NOT_VALID", "UNIMPLEMENTED", "ACCESS", "NOT_FOUND",
                "EXIST"}
Errno       == {"OK", "EBADF", "EINVAL", "ENOENT", "EEXIST", "EPERM", "EACCES", "EMFILE", "ENOSPC",
                "EIO"}

(***************************************************************************)
(* A path is a root and a name.  The proinfo node is a device that exists  *)
(* from boot.  The folder is the directory prepare_floder creates under    *)
(* the data root for the names of SubName.                                 *)
(***************************************************************************)
ProinfoNode == <<"proinfo", "proinfo">>
Folder      == <<"ss", "/">>
FilePath    == {"ss", "persist"} \X Name
Path        == FilePath \cup {ProinfoNode}
Entry       == Path \cup {Folder}

\* Directory entries that live directly in the data or the persistent root.
RootEntry == {p \in FilePath : p[2] \notin SubName}

ASSUME SizesAssumption ==
  /\ FD_TBL_SIZE \in Nat \ {0}
  /\ MaxFd \in Nat
  /\ FD_TBL_SIZE <= MaxFd + 1
  /\ MAX_RECONNECT_RETRY_COUNT \in Nat
  /\ MaxFaults \in Nat
  /\ StrayHandles \in BOOLEAN

ASSUME NamesAssumption ==
  /\ Name # {}
  /\ SubName \subseteq Name
  /\ "/" \notin Name
  /\ NoInode \notin Inode
  /\ Home \in [Inode -> {"ss", "persist", "proinfo"}]
  /\ Roots \subseteq {"ss", "persist", "proinfo"}
  /\ \E i \in Inode : Home[i] = "proinfo"

\* The server opens the proinfo node only through the proxy that serves it.
ASSUME RequestsAssumption ==
  /\ Cmds \subseteq Command
  /\ MsgFlags \subseteq SUBSET MsgFlag
  /\ OpenFlags \subseteq SUBSET OpenFlag
  /\ \A F \in OpenFlags : "PROINFO_FILE" \in F => "proinfo" \in Roots

\* A request; wf says whether its length fits its command.
Message ==
  [cmd : Command, flags : SUBSET MsgFlag, wf : BOOLEAN,
   handle : Fd, name : Name, oflags : SUBSET OpenFlag]

VARIABLES
  pc,            \* where the proxy is in main, proxy_loop and handle_req
  retry_cnt,     \* failed attempts of ipc_connect
  msg,           \* the message being handled
  result,        \* msg->result of the answer being built
  cursor,        \* the loop variable of storage_sync_checkpoint
  fs_state, dir_state, fd_state,
  initProps,     \* the vendor.soter.teei.* properties set to INIT_OK
  \* the kernel: descriptors of the process, directory entries, the folder
  fdFile, entry, folder,
  unsynced,      \* inodes with a change the disk does not hold yet
  unsyncedEntry, \* directory entries made or removed and not yet on disk
  \* history: pending changes the proxy has stopped tracking
  forgotten, forgottenEntry,
  faults         \* system calls that have failed so far

proxyVars  == <<fs_state, dir_state, fd_state>>
kernelVars == <<fdFile, entry, folder>>
diskVars   == <<unsynced, unsyncedEntry, forgotten, forgottenEntry>>
vars == <<pc, retry_cnt, msg, result, cursor, proxyVars, initProps, kernelVars, diskVars, faults>>

-----------------------------------------------------------------------------
(***************************************************************************)
(* The kernel, as the proxy uses it.                                       *)
(***************************************************************************)

\* One more system call fails with an error of the device.
Fault   == faults < MaxFaults /\ faults' = faults + 1
NoFault == UNCHANGED faults

IsOpen(h) == fdFile[h] # NoInode
NoFreeFd  == \A f \in Fd : IsOpen(f)

\* open(2) returns the lowest descriptor that is not in use.
LowestFreeFd(f) == ~IsOpen(f) /\ \A g \in Fd : g < f => IsOpen(g)

Linked(i)    == \E p \in Path : entry[p] = i
FreeInode(i) == ~Linked(i) /\ \A f \in Fd : fdFile[f] # i

\* The directory that holds p exists; without its root option the proxy
\* formats a path below "(null)", which does not.
DirExists(p) == /\ p[1] \in Roots
                /\ p[2] \in SubName => p[1] = "ss" /\ folder

Exists(p) == DirExists(p) /\ entry[p] # NoInode

\* Changes I (inodes) and E (entries) that are not on disk when made.
Touch(I)      == /\ unsynced' = unsynced \cup I
                 /\ forgotten' = forgotten \ I
TouchEntry(E) == /\ unsyncedEntry' = unsyncedEntry \cup E
                 /\ forgottenEntry' = forgottenEntry \ E

\* They reach the disk, or their file is gone.
Settle(I)      == /\ unsynced' = unsynced \ I
                  /\ forgotten' = forgotten \ I
SettleEntry(E) == /\ unsyncedEntry' = unsyncedEntry \ E
                  /\ forgottenEntry' = forgottenEntry \ E

\* fsync(2) of the directory or node of each root of R: the entries of the
\* directory itself, the contents of the node.
DirsSynced(R) ==
  /\ SettleEntry({p \in RootEntry : p[1] \in R} \cup {p \in {Folder} : "ss" \in R})
  /\ Settle({i \in Inode : Home[i] = "proinfo" /\ "proinfo" \in R})

\* syncfs(2) of the file system of each root of R.  The proinfo node lives in
\* devtmpfs, so syncfs on it does not write the partition behind it.
FsSynced(R) ==
  /\ SettleEntry({p \in Entry : p[1] \in R})
  /\ Settle({i \in Inode : Home[i] \in R \ {"proinfo"}})

\* The roots already synced when one of them fails, in the order of the code.
SyncedBeforeFailure == {R \in {{}, {"ss"}, {"ss", "persist"}} : ~(Roots \subseteq R)}

\* Write-back: the kernel writes any pending change when it likes.
Writeback ==
  /\ \/ \E i \in unsynced : Settle({i}) /\ UNCHANGED <<unsyncedEntry, forgottenEntry>>
     \/ \E p \in unsyncedEntry : SettleEntry({p}) /\ UNCHANGED <<unsynced, forgotten>>
  /\ UNCHANGED <<pc, retry_cnt, msg, result, cursor, proxyVars, initProps, kernelVars, faults>>

-----------------------------------------------------------------------------
(***************************************************************************)
(* main, ipc_connect and proxy_loop.                                       *)
(***************************************************************************)
NoMessage ==
  [cmd |-> "END_TRANSACTION", flags |-> {}, wf |-> TRUE,
   handle |-> 0, name |-> CHOOSE n \in Name : TRUE, oflags |-> {}]

\* The table of a process before main runs: static storage is zero.
StaticFdState == [f \in TrackedFd |-> SS_CLEAN]

Init ==
  /\ pc = "down" /\ retry_cnt = 0 /\ msg = NoMessage /\ result = "NO_ERROR" /\ cursor = 0
  /\ fs_state = SS_CLEAN /\ dir_state = SS_CLEAN /\ fd_state = StaticFdState
  /\ initProps = {}
  /\ fdFile = [f \in Fd |-> NoInode]
  /\ entry \in [Path -> Inode \cup {NoInode}]
  /\ \A p \in Path : IF p = ProinfoNode THEN entry[p] # NoInode /\ Home[entry[p]] = "proinfo"
                                        ELSE entry[p] = NoInode
  /\ folder = FALSE
  /\ unsynced = {} /\ unsyncedEntry = {} /\ forgotten = {} /\ forgottenEntry = {}
  /\ faults = 0

\* storage_init marks every entry of the table unused.
storage_init == [f \in TrackedFd |-> SS_UNUSED]

\* main up to ipc_connect.  storage_init runs only when -f names a data root;
\* a root that cannot be opened ends the process.
Start ==
  /\ pc = "down"
  /\ \/ /\ NoFault
        /\ pc' = "connecting"
        /\ fd_state' = IF "ss" \in Roots THEN storage_init ELSE fd_state
     \/ Fault /\ UNCHANGED <<pc, fd_state>>
  /\ UNCHANGED <<retry_cnt, msg, result, cursor, fs_state, dir_state, initProps, kernelVars, diskVars>>

\* The process ends: the kernel closes its descriptors, and what it knew of
\* pending changes is gone.
Exit ==
  /\ pc' = "down" /\ retry_cnt' = 0 /\ msg' = NoMessage /\ result' = "NO_ERROR" /\ cursor' = 0
  /\ fs_state' = SS_CLEAN /\ dir_state' = SS_CLEAN /\ fd_state' = StaticFdState
  /\ fdFile' = [f \in Fd |-> NoInode]
  /\ unsynced' = {i \in unsynced : Linked(i)}
  /\ forgotten' = unsynced'
  /\ forgottenEntry' = unsyncedEntry
  /\ UNCHANGED <<initProps, entry, folder, unsyncedEntry>>

\* Mutant of ipc_connect: the retry bound tested before the increment.
ipc_connect_off_by_one ==
  /\ pc = "connecting"
  /\ NoFault
  /\ \/ /\ pc' = "idle" /\ retry_cnt' = 0
        /\ UNCHANGED <<msg, result, cursor, proxyVars, initProps, kernelVars, diskVars>>
     \/ /\ retry_cnt <= MAX_RECONNECT_RETRY_COUNT
        /\ retry_cnt' = retry_cnt + 1
        /\ UNCHANGED <<pc, msg, result, cursor, proxyVars, initProps, kernelVars, diskVars>>
     \/ retry_cnt > MAX_RECONNECT_RETRY_COUNT /\ Exit

ipc_connect ==
  /\ pc = "connecting"
  /\ NoFault
  /\ \/ /\ pc' = "idle" /\ retry_cnt' = 0
        /\ UNCHANGED <<msg, result, cursor, proxyVars, initProps, kernelVars, diskVars>>
     \/ /\ retry_cnt < MAX_RECONNECT_RETRY_COUNT
        /\ retry_cnt' = retry_cnt + 1
        /\ UNCHANGED <<pc, msg, result, cursor, proxyVars, initProps, kernelVars, diskVars>>
     \/ retry_cnt = MAX_RECONNECT_RETRY_COUNT /\ Exit

Answer(e) == pc' = "respond" /\ result' = e

\* The requests of the server; fields its command does not have are at rest.
Request ==
  {m \in [cmd : Cmds, flags : MsgFlags, wf : BOOLEAN, handle : Fd,
          name : Name, oflags : OpenFlags \cup {{}}] :
     /\ m.cmd \in HandleCmd => StrayHandles \/ IsOpen(m.handle)
     /\ m.cmd \notin HandleCmd => m.handle = 0
     /\ m.cmd \notin {"FILE_OPEN", "FILE_DELETE"} => m.name = NoMessage.name
     /\ IF m.cmd = "FILE_OPEN" THEN m.oflags \in OpenFlags ELSE m.oflags = {}}

\* ipc_get_msg and the part of handle_req before the command is looked at.  A
\* failed or short read ends the loop and the process.
Receive ==
  /\ pc = "idle"
  /\ NoFault
  /\ \E m \in Request :
       /\ msg' = m
       /\ IF "POST_COMMIT" \in m.flags /\ m.cmd # "RPMB_SEND"
            THEN Answer("UNIMPLEMENTED")
            ELSE /\ pc' = IF "PRE_COMMIT" \in m.flags THEN "sync_fd" ELSE "dispatch"
                 /\ UNCHANGED result
  /\ cursor' = 0
  /\ UNCHANGED <<retry_cnt, proxyVars, initProps, kernelVars, diskVars>>

ReceiveFails == pc = "idle" /\ Fault /\ Exit

\* ipc_respond; an answer that cannot be written ends the loop.
ipc_respond ==
  /\ pc = "respond"
  /\ \/ /\ NoFault
        /\ pc' = "idle" /\ msg' = NoMessage /\ result' = "NO_ERROR" /\ cursor' = 0
        /\ UNCHANGED <<retry_cnt, proxyVars, initProps, kernelVars, diskVars>>
     \/ Fault /\ Exit
-----------------------------------------------------------------------------
(***************************************************************************)
(* storage_sync_checkpoint, one step per entry of the descriptor table and *)
(* one for each of the other two levels.  Its failure answers the message. *)
(***************************************************************************)
CheckpointFails == Answer("GENERIC")

SyncFdSkip ==
  /\ pc = "sync_fd" /\ cursor < FD_TBL_SIZE
  /\ fd_state[cursor] # SS_DIRTY
  /\ NoFault
  /\ cursor' = cursor + 1
  /\ UNCHANGED <<pc, retry_cnt, msg, result, proxyVars, initProps, kernelVars, diskVars>>

\* With the whole file system dirty the descriptor is left to syncfs.
SyncFdClean ==
  /\ pc = "sync_fd" /\ cursor < FD_TBL_SIZE
  /\ fd_state[cursor] = SS_DIRTY
  /\ IF fs_state = SS_CLEAN
       THEN IsOpen(cursor) /\ Settle({fdFile[cursor]})
       ELSE UNCHANGED <<unsynced, forgotten>>
  /\ NoFault
  /\ fd_state' = [fd_state EXCEPT ![cursor] = SS_CLEAN]
  /\ cursor' = cursor + 1
  /\ UNCHANGED <<pc, retry_cnt, msg, result, fs_state, dir_state, initProps, kernelVars,
                 unsyncedEntry, forgottenEntry>>

\* Mutant of SyncFdFails: the loop goes on after a failed fsync.
SyncFdFails_ignored ==
  /\ pc = "sync_fd" /\ cursor < FD_TBL_SIZE
  /\ fd_state[cursor] = SS_DIRTY /\ fs_state = SS_CLEAN
  /\ IF IsOpen(cursor) THEN Fault ELSE NoFault
  /\ cursor' = cursor + 1
  /\ UNCHANGED <<pc, result, retry_cnt, msg, proxyVars, initProps, kernelVars, diskVars>>

SyncFdFails ==
  /\ pc = "sync_fd" /\ cursor < FD_TBL_SIZE
  /\ fd_state[cursor] = SS_DIRTY /\ fs_state = SS_CLEAN
  /\ IF IsOpen(cursor) THEN Fault ELSE NoFault
  /\ CheckpointFails
  /\ UNCHANGED <<retry_cnt, msg, cursor, proxyVars, initProps, kernelVars, diskVars>>

\* Mutant of SyncFdDone: the directory is not looked at.
SyncFdDone_skips_dir ==
  /\ pc = "sync_fd" /\ cursor = FD_TBL_SIZE
  /\ NoFault
  /\ pc' = "sync_fs"
  /\ UNCHANGED <<retry_cnt, msg, result, cursor, proxyVars, initProps, kernelVars, diskVars>>

SyncFdDone ==
  /\ pc = "sync_fd" /\ cursor = FD_TBL_SIZE
  /\ NoFault
  /\ pc' = "sync_dir"
  /\ UNCHANGED <<retry_cnt, msg, result, cursor, proxyVars, initProps, kernelVars, diskVars>>

\* The data root is synced whether or not it was opened; the other two are
\* synced if they were.
SyncDir ==
  /\ pc = "sync_dir"
  /\ IF dir_state = SS_DIRTY /\ fs_state = SS_CLEAN
       THEN "ss" \in Roots /\ DirsSynced(Roots)
       ELSE UNCHANGED diskVars
  /\ NoFault
  /\ dir_state' = IF dir_state = SS_DIRTY THEN SS_CLEAN ELSE dir_state
  /\ pc' = "sync_fs"
  /\ UNCHANGED <<retry_cnt, msg, result, cursor, fs_state, fd_state, initProps, kernelVars>>

SyncDirFails ==
  /\ pc = "sync_dir"
  /\ dir_state = SS_DIRTY /\ fs_state = SS_CLEAN
  /\ IF "ss" \in Roots THEN Fault /\ \E R \in SyncedBeforeFailure : DirsSynced(R)
                       ELSE NoFault /\ UNCHANGED diskVars
  /\ CheckpointFails
  /\ UNCHANGED <<retry_cnt, msg, cursor, proxyVars, initProps, kernelVars>>

SyncFs ==
  /\ pc = "sync_fs"
  /\ IF fs_state = SS_DIRTY
       THEN "ss" \in Roots /\ FsSynced(Roots)
       ELSE UNCHANGED diskVars
  /\ NoFault
  /\ fs_state' = IF fs_state = SS_DIRTY THEN SS_CLEAN ELSE fs_state
  /\ pc' = "dispatch"
  /\ UNCHANGED <<retry_cnt, msg, result, cursor, dir_state, fd_state, initProps, kernelVars>>

\* Mutant of SyncFsFails: fs_state is reset before syncfs has returned.
SyncFsFails_reset_first ==
  /\ pc = "sync_fs"
  /\ fs_state = SS_DIRTY
  /\ IF "ss" \in Roots THEN Fault /\ \E R \in SyncedBeforeFailure : FsSynced(R)
                       ELSE NoFault /\ UNCHANGED diskVars
  /\ fs_state' = SS_CLEAN
  /\ CheckpointFails
  /\ UNCHANGED <<retry_cnt, msg, cursor, dir_state, fd_state, initProps, kernelVars>>

SyncFsFails ==
  /\ pc = "sync_fs"
  /\ fs_state = SS_DIRTY
  /\ IF "ss" \in Roots THEN Fault /\ \E R \in SyncedBeforeFailure : FsSynced(R)
                       ELSE NoFault /\ UNCHANGED diskVars
  /\ CheckpointFails
  /\ UNCHANGED <<retry_cnt, msg, cursor, proxyVars, initProps, kernelVars>>

storage_sync_checkpoint ==
  \/ SyncFdSkip \/ SyncFdClean \/ SyncFdFails \/ SyncFdDone
  \/ SyncDir \/ SyncDirFails
  \/ SyncFs \/ SyncFsFails

-----------------------------------------------------------------------------
(***************************************************************************)
(* The dirty map.                                                          *)
(***************************************************************************)
\* Mutant of insert_fd: creating a file does not dirty the directory.
insert_fd_clean_dir(open_flags, fd) ==
  /\ IF fd < FD_TBL_SIZE
       THEN /\ fd_state' = [fd_state EXCEPT ![fd] =
                              IF "O_TRUNC" \in open_flags THEN SS_DIRTY ELSE SS_CLEAN]
            /\ UNCHANGED fs_state
       ELSE /\ fs_state' = IF open_flags # {} THEN SS_DIRTY ELSE fs_state
            /\ UNCHANGED fd_state
  /\ UNCHANGED dir_state

insert_fd(open_flags, fd) ==
  /\ dir_state' = IF "O_CREAT" \in open_flags THEN SS_DIRTY ELSE dir_state
  /\ IF fd < FD_TBL_SIZE
       THEN /\ fd_state' = [fd_state EXCEPT ![fd] =
                              IF "O_TRUNC" \in open_flags THEN SS_DIRTY ELSE SS_CLEAN]
            /\ UNCHANGED fs_state
       ELSE /\ fs_state' = IF open_flags # {} THEN SS_DIRTY ELSE fs_state
            /\ UNCHANGED fd_state

\* lookup_fd with dirty set.
lookup_fd_dirty(handle) ==
  /\ IF handle < FD_TBL_SIZE
       THEN /\ fd_state' = [fd_state EXCEPT ![handle] = SS_DIRTY]
            /\ UNCHANGED fs_state
       ELSE /\ fs_state' = SS_DIRTY
            /\ UNCHANGED fd_state
  /\ UNCHANGED dir_state

\* Mutant of remove_fd: the entry is left as it was.
remove_fd_keeps_entry(handle) == UNCHANGED <<fd_state, fs_state, dir_state>>

remove_fd(handle) ==
  /\ fd_state' = IF handle < FD_TBL_SIZE THEN [fd_state EXCEPT ![handle] = SS_UNUSED] ELSE fd_state
  /\ UNCHANGED <<fs_state, dir_state>>

translate_errno(e) ==
  IF e = "OK" THEN "NO_ERROR"
  ELSE IF e \in {"EBADF", "EINVAL"} THEN "NOT_VALID"
  ELSE IF e = "ENOENT" THEN "NOT_FOUND"
  ELSE IF e = "EEXIST" THEN "EXIST"
  ELSE IF e \in {"EPERM", "EACCES"} THEN "ACCESS"
  ELSE "GENERIC"

-----------------------------------------------------------------------------
(***************************************************************************)
(* The handlers.                                                           *)
(***************************************************************************)
Handler(cmd) == pc = "dispatch" /\ msg.cmd = cmd /\ msg.wf

\* Every handler refuses a request whose length does not fit.
BadLength ==
  /\ pc = "dispatch" /\ msg.cmd # "END_TRANSACTION" /\ ~msg.wf
  /\ NoFault
  /\ Answer("NOT_VALID")
  /\ UNCHANGED <<retry_cnt, msg, cursor, proxyVars, initProps, kernelVars, diskVars>>

\* The default case of handle_req.
UnhandledCommand ==
  /\ pc = "dispatch" /\ msg.cmd = "END_TRANSACTION"
  /\ NoFault
  /\ Answer("UNIMPLEMENTED")
  /\ UNCHANGED <<retry_cnt, msg, cursor, proxyVars, initProps, kernelVars, diskVars>>

\* unlink of p, the directory marked dirty before the call whatever it returns.
\* The name is always looked up under the data root.
storage_file_delete ==
  LET p == <<"ss", msg.name>>
      i == entry[p]
  IN
  /\ Handler("FILE_DELETE")
  /\ dir_state' = SS_DIRTY
  /\ \/ /\ Exists(p) /\ NoFault
        /\ Answer("NO_ERROR")
        /\ entry' = [entry EXCEPT ![p] = NoInode]
        /\ TouchEntry({p})
        /\ Settle({j \in {i} : \A f \in Fd : fdFile[f] # i})
     \/ /\ ~Exists(p) /\ NoFault
        /\ Answer(translate_errno("ENOENT"))
        /\ UNCHANGED <<entry, diskVars>>
     \/ /\ Fault
        /\ \E e \in {"EIO", "EPERM"} : Answer(translate_errno(e))
        /\ UNCHANGED <<entry, diskVars>>
  /\ UNCHANGED <<retry_cnt, msg, cursor, fs_state, fd_state, initProps, fdFile, folder>>

\* Which root a file belongs to, by the order in which the flags are tested.
OpenPath(m) ==
  IF "PERSISTENT_FILE" \in m.oflags THEN <<"persist", m.name>>
  ELSE IF "PROINFO_FILE" \in m.oflags THEN ProinfoNode
  ELSE <<"ss", m.name>>

IsVfsFile(m) ==
  "VFS" \in m.oflags /\ m.oflags \cap {"PERSISTENT_FILE", "PROINFO_FILE"} = {}

\* mkdir of the folder of the name, whose result is ignored.
prepare_floder ==
  /\ Handler("FILE_OPEN") /\ IsVfsFile(msg)
  /\ pc' = "open"
  /\ \/ /\ msg.name \in SubName /\ "ss" \in Roots /\ ~folder
        /\ NoFault
        /\ folder' = TRUE
        /\ TouchEntry({Folder})
     \/ /\ msg.name \notin SubName \/ "ss" \notin Roots \/ folder
        /\ NoFault
        /\ UNCHANGED <<folder, unsyncedEntry, forgottenEntry>>
     \/ /\ msg.name \in SubName
        /\ Fault
        /\ UNCHANGED <<folder, unsyncedEntry, forgottenEntry>>
  /\ UNCHANGED <<retry_cnt, msg, result, cursor, proxyVars, initProps, fdFile, entry,
                 unsynced, forgotten>>

AtOpen == \/ pc = "open"
          \/ Handler("FILE_OPEN") /\ ~IsVfsFile(msg)

TruncFlag == IF "TRUNCATE" \in msg.oflags THEN {"O_TRUNC"} ELSE {}
Exclusive == {"CREATE", "CREATE_EXCLUSIVE"} \subseteq msg.oflags

\* open of a file that exists.  Truncation is not written synchronously, and
\* does nothing to a device.
OpenExisting ==
  LET p == OpenPath(msg) IN
  /\ AtOpen
  /\ Exists(p) /\ ~Exclusive
  /\ NoFault
  /\ \E fd \in Fd :
       /\ LowestFreeFd(fd)
       /\ fdFile' = [fdFile EXCEPT ![fd] = entry[p]]
       /\ insert_fd(TruncFlag, fd)
  /\ IF TruncFlag # {} /\ p # ProinfoNode THEN Touch({entry[p]})
                                          ELSE UNCHANGED <<unsynced, forgotten>>
  /\ Answer("NO_ERROR")
  /\ UNCHANGED <<retry_cnt, msg, cursor, initProps, entry, folder, unsyncedEntry, forgottenEntry>>

\* open with O_CREAT, either at once (exclusive) or after ENOENT.
OpenNew ==
  LET p == OpenPath(msg) IN
  /\ AtOpen
  /\ DirExists(p) /\ ~Exists(p) /\ "CREATE" \in msg.oflags
  /\ NoFault
  /\ \E fd \in Fd, i \in Inode :
       /\ LowestFreeFd(fd)
       /\ FreeInode(i) /\ Home[i] = p[1]
       /\ fdFile' = [fdFile EXCEPT ![fd] = i]
       /\ entry' = [entry EXCEPT ![p] = i]
       /\ insert_fd(TruncFlag \cup {"O_CREAT"}, fd)
  /\ TouchEntry({p})
  /\ Answer("NO_ERROR")
  /\ UNCHANGED <<retry_cnt, msg, cursor, initProps, folder, unsynced, forgotten>>

\* The ways open fails; the descriptor is allocated before the path is walked.
OpenErrno(e) ==
  LET p == OpenPath(msg) IN
  \/ e = "EMFILE" /\ NoFreeFd /\ NoFault
  \/ e = "EEXIST" /\ ~NoFreeFd /\ Exists(p) /\ Exclusive /\ NoFault
  \/ /\ e = "ENOENT" /\ ~NoFreeFd /\ ~Exists(p) /\ NoFault
     /\ DirExists(p) => "CREATE" \notin msg.oflags
  \/ /\ e = "ENOSPC" /\ ~NoFreeFd /\ DirExists(p) /\ ~Exists(p) /\ NoFault
     /\ "CREATE" \in msg.oflags /\ ~\E i \in Inode : FreeInode(i) /\ Home[i] = p[1]
  \/ e \in {"EIO", "EACCES"} /\ Fault

OpenFails ==
  /\ AtOpen
  /\ \E e \in Errno : OpenErrno(e) /\ Answer(translate_errno(e))
  /\ UNCHANGED <<retry_cnt, msg, cursor, proxyVars, initProps, kernelVars, diskVars>>

storage_file_open == prepare_floder \/ OpenExisting \/ OpenNew \/ OpenFails

\* close.  The descriptor leaves the dirty map before fsync; if fsync fails it
\* stays open in the kernel, and whatever was pending on it is not tracked.
storage_file_close ==
  LET h == msg.handle IN
  /\ Handler("FILE_CLOSE")
  /\ remove_fd(h)
  /\ \/ /\ IsOpen(h) /\ NoFault
        /\ Settle({fdFile[h]})
        /\ fdFile' = [fdFile EXCEPT ![h] = NoInode]
        /\ Answer("NO_ERROR")
     \/ /\ IsOpen(h) /\ Fault                       \* close(2) fails
        /\ Settle({fdFile[h]})
        /\ fdFile' = [fdFile EXCEPT ![h] = NoInode]
        /\ Answer(translate_errno("EIO"))
     \/ /\ IsOpen(h) /\ Fault                       \* fsync(2) fails
        /\ forgotten' = forgotten \cup (unsynced \cap {fdFile[h]})
        /\ UNCHANGED <<unsynced, fdFile>>
        /\ Answer(translate_errno("EIO"))
     \/ /\ ~IsOpen(h) /\ NoFault
        /\ UNCHANGED <<unsynced, forgotten, fdFile>>
        /\ Answer(translate_errno("EBADF"))
  /\ UNCHANGED <<retry_cnt, msg, cursor, initProps, entry, folder, unsyncedEntry, forgottenEntry>>

\* Descriptors are O_SYNC: a write that returns is on disk; one that fails may
\* have changed the file, some of it in an earlier round of the loop, and not
\* the disk.
write_with_retry(fd, e) ==
  \/ e = "OK" /\ IsOpen(fd) /\ NoFault /\ UNCHANGED <<unsynced, forgotten>>
  \/ e = "EIO" /\ IsOpen(fd) /\ Fault /\ Touch({fdFile[fd]})
  \/ e = "EBADF" /\ ~IsOpen(fd) /\ NoFault /\ UNCHANGED <<unsynced, forgotten>>

storage_file_write ==
  /\ Handler("FILE_WRITE")
  /\ lookup_fd_dirty(msg.handle)
  /\ \E e \in Errno : write_with_retry(msg.handle, e) /\ Answer(translate_errno(e))
  /\ UNCHANGED <<retry_cnt, msg, cursor, initProps, kernelVars, unsyncedEntry, forgottenEntry>>

\* ftruncate, which O_SYNC does not cover; a device cannot be truncated.
storage_file_set_size ==
  LET h == msg.handle IN
  /\ Handler("FILE_SET_SIZE")
  /\ lookup_fd_dirty(h)
  /\ \/ /\ IsOpen(h) /\ NoFault /\ Home[fdFile[h]] # "proinfo"
        /\ Touch({fdFile[h]})
        /\ Answer("NO_ERROR")
     \/ /\ IsOpen(h) /\ NoFault /\ Home[fdFile[h]] = "proinfo"
        /\ UNCHANGED <<unsynced, forgotten>>
        /\ Answer(translate_errno("EINVAL"))
     \/ /\ IsOpen(h) /\ Fault
        /\ UNCHANGED <<unsynced, forgotten>>
        /\ Answer(translate_errno("EIO"))
     \/ /\ ~IsOpen(h) /\ NoFault
        /\ UNCHANGED <<unsynced, forgotten>>
        /\ Answer(translate_errno("EBADF"))
  /\ UNCHANGED <<retry_cnt, msg, cursor, initProps, kernelVars, unsyncedEntry, forgottenEntry>>

\* A call that only looks at a descriptor: pread in a loop, or fstat.
read_with_retry(fd, e) ==
  \/ e = "OK" /\ IsOpen(fd) /\ NoFault
  \/ e = "EIO" /\ IsOpen(fd) /\ Fault
  \/ e = "EBADF" /\ ~IsOpen(fd) /\ NoFault

\* read and get_size look the descriptor up without marking it.
QueryFile(cmd) ==
  /\ Handler(cmd)
  /\ \E e \in Errno : read_with_retry(msg.handle, e) /\ Answer(translate_errno(e))
  /\ UNCHANGED <<retry_cnt, msg, cursor, proxyVars, initProps, kernelVars, diskVars>>

storage_file_read     == QueryFile("FILE_READ")
storage_file_get_size == QueryFile("FILE_GET_SIZE")

\* One multi-command ioctl on the RPMB device.
rpmb_send ==
  /\ Handler("RPMB_SEND")
  /\ \/ NoFault /\ Answer("NO_ERROR")
     \/ Fault /\ Answer("GENERIC")
  /\ UNCHANGED <<retry_cnt, msg, cursor, proxyVars, initProps, kernelVars, diskVars>>

\* The server tells that one of its parts is up, and the property says so.
SetInitProperty(cmd, property) ==
  /\ Handler(cmd)
  /\ NoFault
  /\ initProps' = initProps \cup {property}
  /\ Answer("NO_ERROR")
  /\ UNCHANGED <<retry_cnt, msg, cursor, proxyVars, kernelVars, diskVars>>

storage_init_ok         == SetInitProperty("INIT_OK", "vendor.soter.teei.init")
storage_init_persist_ok == SetInitProperty("INIT_PERSIST_OK", "vendor.soter.teei.persist")
storage_init_proinfo_ok == SetInitProperty("INIT_PROINFO_OK", "vendor.soter.teei.proinfo")

Dispatch ==
  \/ BadLength \/ UnhandledCommand
  \/ storage_file_delete \/ storage_file_open \/ storage_file_close
  \/ storage_file_write \/ storage_file_read
  \/ storage_file_get_size \/ storage_file_set_size
  \/ rpmb_send
  \/ storage_init_ok \/ storage_init_persist_ok \/ storage_init_proinfo_ok

-----------------------------------------------------------------------------
\* What a message in hand leads to without the server doing anything.
Work == storage_sync_checkpoint \/ Dispatch \/ ipc_respond

Next == Start \/ ipc_connect \/ Receive \/ ReceiveFails \/ Work \/ Writeback

Spec == Init /\ [][Next]_vars

\* The proxy finishes the message it works on; nothing is assumed of the
\* server, of init or of write-back.
FairSpec == Spec /\ WF_vars(Work)
-----------------------------------------------------------------------------
(***************************************************************************)
(* Properties.                                                             *)
(***************************************************************************)

\* Each variable has its type.
TypeOK ==
  /\ pc \in {"down", "connecting", "idle", "sync_fd", "sync_dir", "sync_fs",
             "dispatch", "open", "respond"}
  /\ retry_cnt \in 0 .. MAX_RECONNECT_RETRY_COUNT
  /\ msg \in Message
  /\ result \in StorageErr
  /\ cursor \in 0 .. FD_TBL_SIZE
  /\ fs_state \in {SS_CLEAN, SS_DIRTY}
  /\ dir_state \in {SS_CLEAN, SS_DIRTY}
  /\ fd_state \in [TrackedFd -> SyncState]
  /\ initProps \subseteq InitProperty
  /\ fdFile \in [Fd -> Inode \cup {NoInode}]
  /\ entry \in [Path -> Inode \cup {NoInode}]
  /\ folder \in BOOLEAN
  /\ unsynced \subseteq Inode /\ forgotten \subseteq Inode
  /\ unsyncedEntry \subseteq Entry /\ forgottenEntry \subseteq Entry
  /\ faults \in 0 .. MaxFaults

\* A message with PRE_COMMIT is about to be handled: its checkpoint succeeded.
AfterCommit == pc = "dispatch" /\ "PRE_COMMIT" \in msg.flags

Files == {i \in Inode : Home[i] # "proinfo"}

PendingFiles   == (unsynced \cap Files) \ forgotten
PendingEntries == (unsyncedEntry \cap RootEntry) \ forgottenEntry

\* When storage_sync_checkpoint lets a PRE_COMMIT message through, every file
\* change and every name in a root directory that the proxy was still tracking
\* is on disk; in particular an RPMB write never overtakes the data it seals.
CommitIsDurable == AfterCommit => PendingFiles = {} /\ PendingEntries = {}

Covered(i) == \/ fs_state = SS_DIRTY
              \/ \E f \in TrackedFd : fdFile[f] = i /\ fd_state[f] = SS_DIRTY

\* The three-level map never loses a change: each pending change is under a
\* dirty descriptor, the dirty directory or the dirty file system, also in the
\* middle of a checkpoint and after one that failed half way.
DirtyMapCovers ==
  /\ \A i \in PendingFiles : Covered(i)
  /\ PendingEntries # {} => SS_DIRTY \in {dir_state, fs_state}

\* The checkpoint never meets EBADF for a server that uses its handles
\* properly: a dirty entry of the table is an open descriptor.
DirtyFdIsOpen ==
  StrayHandles \/ \A f \in TrackedFd : fd_state[f] = SS_DIRTY => IsOpen(f)

\* Where a change can be pending: on the roots the proxy was started with.
HomesOk ==
  /\ \A p \in Path : entry[p] # NoInode => Home[entry[p]] = p[1] /\ p[1] \in Roots \cup {"proinfo"}
  /\ \A f \in Fd : IsOpen(f) => Home[fdFile[f]] \in Roots \cup {"proinfo"}
  /\ \A i \in unsynced : Home[i] \in Roots \cup {"proinfo"}
  /\ \A p \in unsyncedEntry : p[1] \in Roots

\* What the checkpoint has cleaned by the point it has reached.
CheckpointProgress ==
  /\ pc = "sync_fd" => \A f \in TrackedFd : f < cursor => fd_state[f] # SS_DIRTY
  /\ pc \in {"sync_dir", "sync_fs"} \/ AfterCommit => \A f \in TrackedFd : fd_state[f] # SS_DIRTY
  /\ pc = "sync_fs" \/ AfterCommit => dir_state = SS_CLEAN
  /\ AfterCommit => fs_state = SS_CLEAN

\* The handle of a request was open when it was received, and nothing closes a
\* descriptor before the handler runs.
HandleIsOpen ==
  (~StrayHandles /\ pc \in {"sync_fd", "sync_dir", "sync_fs", "dispatch"} /\ msg.cmd \in HandleCmd)
    => IsOpen(msg.handle)

\* A process that has not started has an empty map.
EmptyWhenDown == pc = "down" => fd_state = StaticFdState

\* The inductive invariant: it holds of the map at every step of a checkpoint.
IInv ==
  /\ TypeOK /\ HomesOk /\ CheckpointProgress /\ HandleIsOpen /\ EmptyWhenDown
  /\ DirtyMapCovers /\ DirtyFdIsOpen

\* A server that keeps asking for commits gets one, once the disk has stopped
\* failing: a failed checkpoint leaves nothing behind that makes all later ones
\* fail too.
CommitEventuallySucceeds == []<>(pc = "sync_fd") => []<>AfterCommit

(***************************************************************************)
(* What interface/storage.h promises and the proxy does not do.            *)
(***************************************************************************)

\* PRE_COMMIT commits the pending changes of a file that is still open.
CommitCoversOpenFiles ==
  AfterCommit => \A f \in Fd : fdFile[f] \notin unsynced

\* PRE_COMMIT commits the names made or removed in a folder (VFS files).
CommitCoversFolder ==
  AfterCommit => unsyncedEntry \subseteq forgottenEntry

\* POST_COMMIT commits pending changes before its message is answered.
PostCommitIsDurable ==
  (pc = "respond" /\ result = "NO_ERROR" /\ "POST_COMMIT" \in msg.flags)
    => PendingFiles = {} /\ PendingEntries = {}
=============================================================================
