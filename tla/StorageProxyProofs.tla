------------------------ MODULE StorageProxyProofs ------------------------
(***************************************************************************)
(* Proofs about StorageProxy, for any number of descriptors, names and     *)
(* files and any choice of roots.                                          *)
(***************************************************************************)
EXTENDS StorageProxy, TLAPS

\* The message at rest is a message.
LEMMA NoMessageType == NoMessage \in Message
<1>1. NoMessage.name \in Name
  BY NamesAssumption DEF NoMessage
<1>2. 0 \in Fd
  BY SizesAssumption DEF Fd
<1> QED
  BY <1>1, <1>2 DEF NoMessage, Message, Command

\* translate_errno returns one of the protocol's error codes.
LEMMA TranslateErrnoType == \A e \in Errno : translate_errno(e) \in StorageErr
  BY DEF Errno, translate_errno, StorageErr

\* A request is a message, whatever its fields.
LEMMA RequestType == Request \subseteq Message
<1> SUFFICES ASSUME NEW m \in Request PROVE m \in Message
  OBVIOUS
<1>1. m \in [cmd : Cmds, flags : MsgFlags, wf : BOOLEAN, handle : Fd, name : Name,
             oflags : OpenFlags \cup {{}}]
  BY DEF Request
<1>2. Cmds \subseteq Command /\ MsgFlags \subseteq SUBSET MsgFlag
      /\ OpenFlags \cup {{}} \subseteq SUBSET OpenFlag
  BY RequestsAssumption
<1> QED
  BY <1>1, <1>2 DEF Message

\* The path of an open request, and of a delete, is a path.
LEMMA OpenPathType ==
  ASSUME NEW m \in Message
  PROVE  OpenPath(m) \in Path /\ <<"ss", m.name>> \in Path
  BY DEF Message, OpenPath, Path, FilePath, ProinfoNode

-----------------------------------------------------------------------------

\* The types at the start.
LEMMA InitType == Init => TypeOK
<1> SUFFICES ASSUME Init PROVE TypeOK
  OBVIOUS
<1>1. fd_state \in [TrackedFd -> SyncState]
  BY DEF Init, StaticFdState, SyncState
<1>2. msg \in Message
  BY NoMessageType DEF Init
<1>3. fdFile \in [Fd -> Inode \cup {NoInode}] /\ entry \in [Path -> Inode \cup {NoInode}]
  BY DEF Init
<1>4. folder \in BOOLEAN
  BY Zenon DEF Init
<1>5. /\ retry_cnt \in 0 .. MAX_RECONNECT_RETRY_COUNT
      /\ cursor \in 0 .. FD_TBL_SIZE
      /\ faults \in 0 .. MaxFaults
  BY SizesAssumption DEF Init
<1> QED
  BY <1>1, <1>2, <1>3, <1>4, <1>5 DEF Init, TypeOK, StorageErr

\* The types after an exit.
LEMMA ExitType == TypeOK /\ Exit /\ (NoFault \/ Fault) => TypeOK'
<1> SUFFICES ASSUME TypeOK, Exit, NoFault \/ Fault PROVE TypeOK'
  OBVIOUS
<1>1. (fd_state \in [TrackedFd -> SyncState])'
  BY DEF Exit, StaticFdState, SyncState
<1>2. (msg \in Message)'
  BY NoMessageType DEF Exit
<1>3. (faults \in 0 .. MaxFaults)'
  BY SizesAssumption DEF TypeOK, Fault, NoFault
<1> QED
  BY <1>1, <1>2, <1>3, SizesAssumption DEF Exit, TypeOK, StorageErr, SS_CLEAN, SS_DIRTY

\* The types after a step of the main loop.
LEMMA MainType == TypeOK /\ (Start \/ ipc_connect \/ Receive \/ ReceiveFails \/ ipc_respond) => TypeOK'
<1> SUFFICES ASSUME TypeOK, Start \/ ipc_connect \/ Receive \/ ReceiveFails \/ ipc_respond PROVE TypeOK'
  OBVIOUS
<1> USE DEF proxyVars, kernelVars, diskVars
<1>1. CASE Start
  BY <1>1, SizesAssumption DEF Start, storage_init, Fault, NoFault, SyncState, TypeOK
<1>2. CASE ipc_connect
  <2>1. NoFault /\ (Exit \/ UNCHANGED <<msg, result, cursor, proxyVars, initProps, kernelVars, diskVars>>)
    BY <1>2 DEF ipc_connect
  <2>2. CASE Exit
    BY <2>1, <2>2, ExitType
  <2>3. CASE ~Exit
    <3>1. (pc \in {"connecting", "idle"})'
      BY Zenon, <1>2, <2>3 DEF ipc_connect
    <3>2. (retry_cnt \in 0 .. MAX_RECONNECT_RETRY_COUNT)'
      BY <1>2, <2>3, SizesAssumption DEF ipc_connect, TypeOK
    <3> QED
      BY <2>1, <2>3, <3>1, <3>2 DEF TypeOK, NoFault
  <2> QED
    BY <2>2, <2>3
<1>3. CASE Receive
  <2>1. msg' \in Request /\ cursor' = 0
    BY Zenon, <1>3 DEF Receive
  <2>2. (pc' = "respond" /\ result' = "UNIMPLEMENTED") \/ (pc' \in {"sync_fd", "dispatch"} /\ result' = result)
    BY Zenon, <1>3 DEF Receive, Answer
  <2>3. UNCHANGED <<retry_cnt, proxyVars, initProps, kernelVars, diskVars, faults>>
    BY Zenon, <1>3 DEF Receive, NoFault
  <2> QED
    BY <2>1, <2>2, <2>3, RequestType, SizesAssumption DEF TypeOK, StorageErr
<1>4. CASE ReceiveFails
  BY Zenon, <1>4, ExitType DEF ReceiveFails
<1>5. CASE ipc_respond
  <2>1. CASE Fault /\ Exit
    BY Zenon, <2>1, ExitType
  <2>2. CASE ~(Fault /\ Exit)
    BY <1>5, <2>2, NoMessageType, SizesAssumption DEF ipc_respond, NoFault, StorageErr, TypeOK
  <2> QED
    BY <2>1, <2>2
<1> QED
  BY <1>1, <1>2, <1>3, <1>4, <1>5

\* The types after a step of a checkpoint.
LEMMA CheckpointType == TypeOK /\ storage_sync_checkpoint => TypeOK'
<1> SUFFICES ASSUME TypeOK, storage_sync_checkpoint PROVE TypeOK'
  OBVIOUS
<1> USE SizesAssumption DEF TypeOK, proxyVars, kernelVars, diskVars, CheckpointFails, Answer,
        StorageErr, Fault, NoFault, Settle, SettleEntry
<1>1. CASE SyncFdSkip
  BY <1>1 DEF SyncFdSkip
<1>2. CASE SyncFdClean
  <2>1. [fd_state EXCEPT ![cursor] = SS_CLEAN] \in [TrackedFd -> SyncState]
    BY Zenon DEF SyncState
  <2> QED
    BY <1>2, <2>1 DEF SyncFdClean
<1>3. CASE SyncFdFails
  BY <1>3 DEF SyncFdFails
<1>4. CASE SyncFdDone
  BY <1>4 DEF SyncFdDone
<1>5. CASE SyncDir
  BY <1>5 DEF SyncDir, DirsSynced
<1>6. CASE SyncDirFails
  BY <1>6 DEF SyncDirFails, DirsSynced
<1>7. CASE SyncFs
  BY <1>7 DEF SyncFs, FsSynced
<1>8. CASE SyncFsFails
  BY <1>8 DEF SyncFsFails, FsSynced
<1> QED
  BY <1>1, <1>2, <1>3, <1>4, <1>5, <1>6, <1>7, <1>8 DEF storage_sync_checkpoint

\* insert_fd, lookup_fd and remove_fd keep the types of the dirty map.
LEMMA DirtyMapType ==
  ASSUME TypeOK, NEW h \in Fd, NEW F,
         insert_fd(F, h) \/ lookup_fd_dirty(h) \/ remove_fd(h)
  PROVE  /\ fs_state' \in {SS_CLEAN, SS_DIRTY}
         /\ dir_state' \in {SS_CLEAN, SS_DIRTY}
         /\ fd_state' \in [TrackedFd -> SyncState]
<1>1. \A s \in SyncState : [fd_state EXCEPT ![h] = s] \in [TrackedFd -> SyncState]
  BY Zenon DEF TypeOK
<1>2. SS_UNUSED \in SyncState /\ SS_CLEAN \in SyncState /\ SS_DIRTY \in SyncState
  BY DEF SyncState
<1>3. CASE insert_fd(F, h)
  BY <1>1, <1>2, <1>3 DEF insert_fd, TypeOK
<1>4. CASE lookup_fd_dirty(h)
  BY <1>1, <1>2, <1>4 DEF lookup_fd_dirty, TypeOK
<1>5. CASE remove_fd(h)
  BY <1>1, <1>2, <1>5 DEF remove_fd, TypeOK
<1> QED
  BY <1>3, <1>4, <1>5

\* The types after an open.
LEMMA OpenType == TypeOK /\ storage_file_open => TypeOK'
<1> SUFFICES ASSUME TypeOK, storage_file_open PROVE TypeOK'
  OBVIOUS
<1>p. OpenPath(msg) \in Path
  BY Zenon, OpenPathType DEF TypeOK
<1> USE SizesAssumption DEF TypeOK, proxyVars, kernelVars, diskVars, Answer,
        Fault, NoFault
<1>1. CASE prepare_floder
  <2>1. (folder \in BOOLEAN)'
    BY Zenon, <1>1 DEF prepare_floder
  <2> QED
    BY <1>1, <2>1 DEF prepare_floder, TouchEntry, Entry
<1>2. CASE OpenExisting
  <2>1. PICK fd \in Fd : /\ fdFile' = [fdFile EXCEPT ![fd] = entry[OpenPath(msg)]]
                         /\ insert_fd(TruncFlag, fd)
    BY Zenon, <1>2 DEF OpenExisting
  <2>2. (fdFile \in [Fd -> Inode \cup {NoInode}])'
    BY <1>p, <2>1
  <2>3. entry[OpenPath(msg)] \in Inode
    BY <1>2, <1>p DEF OpenExisting, Exists
  <2>4. (unsynced \subseteq Inode /\ forgotten \subseteq Inode)'
    BY <1>2, <2>3 DEF OpenExisting, Touch
  <2>5. (result \in StorageErr)'
    BY <1>2 DEF OpenExisting, StorageErr
  <2> QED
    BY <1>2, <2>1, <2>2, <2>4, <2>5, DirtyMapType DEF OpenExisting
<1>3. CASE OpenNew
  <2>1. PICK fd \in Fd, i \in Inode :
          /\ fdFile' = [fdFile EXCEPT ![fd] = i]
          /\ entry' = [entry EXCEPT ![OpenPath(msg)] = i]
          /\ insert_fd(TruncFlag \cup {"O_CREAT"}, fd)
    BY Zenon, <1>3 DEF OpenNew
  <2>2. (fdFile \in [Fd -> Inode \cup {NoInode}])' /\ (entry \in [Path -> Inode \cup {NoInode}])'
    BY <1>p, <2>1
  <2>3. (unsyncedEntry \subseteq Entry /\ forgottenEntry \subseteq Entry)'
    BY ZenonT(60), <1>3, <1>p DEF OpenNew, TouchEntry, Entry
  <2>5. (result \in StorageErr)'
    BY <1>3 DEF OpenNew, StorageErr
  <2> QED
    BY ZenonT(60), <1>3, <2>1, <2>2, <2>3, <2>5, DirtyMapType DEF OpenNew
<1>4. CASE OpenFails
  <2>1. (result \in StorageErr)' /\ (faults \in 0 .. MaxFaults)'
    BY SMTT(60), <1>4, TranslateErrnoType DEF OpenFails, OpenErrno
  <2> QED
    BY <1>4, <2>1 DEF OpenFails
<1> QED
  BY <1>1, <1>2, <1>3, <1>4 DEF storage_file_open

\* The types after any other handler.
LEMMA DispatchType == TypeOK /\ Dispatch => TypeOK'
<1> SUFFICES ASSUME TypeOK, Dispatch PROVE TypeOK'
  OBVIOUS
<1>h. msg.handle \in Fd /\ <<"ss", msg.name>> \in Path
  BY OpenPathType DEF TypeOK, Message
<1>e. /\ {"NO_ERROR", "GENERIC", "NOT_VALID", "UNIMPLEMENTED"} \subseteq StorageErr
      /\ \A e \in {"ENOENT", "EIO", "EBADF", "EINVAL", "EPERM"} : translate_errno(e) \in StorageErr
  BY TranslateErrnoType DEF StorageErr, Errno
<1> USE SizesAssumption DEF TypeOK, proxyVars, kernelVars, diskVars, Answer,
        Fault, NoFault
<1>1. CASE BadLength \/ UnhandledCommand
  BY <1>1, <1>e DEF BadLength, UnhandledCommand
<1>2. CASE storage_file_delete
  <2>1. [entry EXCEPT ![<<"ss", msg.name>>] = NoInode] \in [Path -> Inode \cup {NoInode}]
    BY <1>h
  <2>2. (unsyncedEntry \subseteq Entry /\ forgottenEntry \subseteq Entry)'
    BY <1>2, <1>h DEF storage_file_delete, TouchEntry, Entry
  <2>3. (unsynced \subseteq Inode /\ forgotten \subseteq Inode)'
    BY <1>2 DEF storage_file_delete, Settle
  <2>4. (result \in StorageErr)' /\ (faults \in 0 .. MaxFaults)'
    BY <1>2, <1>e DEF storage_file_delete
  <2> QED
    BY <1>2, <2>1, <2>2, <2>3, <2>4 DEF storage_file_delete
<1>3. CASE storage_file_open
  BY SMTT(60), <1>3, OpenType
<1>4. CASE storage_file_close
  <2>1. [fdFile EXCEPT ![msg.handle] = NoInode] \in [Fd -> Inode \cup {NoInode}]
    BY <1>h
  <2>2. (unsynced \subseteq Inode /\ forgotten \subseteq Inode)'
    BY <1>4 DEF storage_file_close, Settle
  <2>4. (result \in StorageErr)' /\ (faults \in 0 .. MaxFaults)'
    BY <1>4, <1>e DEF storage_file_close
  <2> QED
    BY <1>4, <1>h, <2>1, <2>2, <2>4, DirtyMapType DEF storage_file_close
<1>5. CASE storage_file_write \/ storage_file_set_size
  <2>1. IsOpen(msg.handle) => fdFile[msg.handle] \in Inode
    BY <1>h DEF IsOpen
  <2>2. (unsynced \subseteq Inode /\ forgotten \subseteq Inode)'
    BY <1>5, <2>1 DEF storage_file_write, write_with_retry, storage_file_set_size, Touch
  <2>3. lookup_fd_dirty(msg.handle)
    BY <1>5 DEF storage_file_write, storage_file_set_size
  <2>4. (result \in StorageErr)' /\ (faults \in 0 .. MaxFaults)'
    <3>1. CASE storage_file_write
      BY <1>e, <3>1, TranslateErrnoType DEF storage_file_write, write_with_retry
    <3>2. CASE storage_file_set_size
      BY <1>e, <3>2, TranslateErrnoType DEF storage_file_set_size
    <3> QED
      BY <1>5, <3>1, <3>2
  <2> QED
    BY <1>5, <1>h, <2>2, <2>3, <2>4, DirtyMapType DEF storage_file_write, storage_file_set_size
<1>6. CASE storage_file_read \/ storage_file_get_size \/ rpmb_send
  BY SMTT(60), <1>6, <1>e, TranslateErrnoType DEF storage_file_read, storage_file_get_size, rpmb_send,
     QueryFile, read_with_retry
<1>7. CASE storage_init_ok \/ storage_init_persist_ok \/ storage_init_proinfo_ok
  BY Zenon, <1>7, <1>e DEF storage_init_ok, storage_init_persist_ok, storage_init_proinfo_ok,
                    SetInitProperty, InitProperty
<1> QED
  BY <1>1, <1>2, <1>3, <1>4, <1>5, <1>6, <1>7 DEF Dispatch

\* The types of the dirty map and of the descriptor table.
LEMMA MapType ==
  ASSUME TypeOK
  PROVE  /\ fd_state \in [TrackedFd -> SyncState] /\ fdFile \in [Fd -> Inode \cup {NoInode}]
         /\ cursor \in 0 .. FD_TBL_SIZE
  BY Zenon DEF TypeOK

\* Write-back touches only what is pending.
LEMMA WritebackKeeps ==
  ASSUME Writeback
  PROVE  UNCHANGED <<pc, retry_cnt, msg, result, cursor, fs_state, dir_state, fd_state,
                     initProps, fdFile, entry, folder, faults>>
  BY Zenon DEF Writeback, proxyVars, kernelVars

\* Every step keeps the types.
LEMMA NextType == TypeOK /\ [Next]_vars => TypeOK'
<1> SUFFICES ASSUME TypeOK, [Next]_vars PROVE TypeOK'
  OBVIOUS
<1>1. CASE Writeback
  BY <1>1 DEF Writeback, TypeOK, Settle, SettleEntry, proxyVars, kernelVars
<1>2. CASE UNCHANGED vars
  BY <1>2 DEF vars, TypeOK, proxyVars, kernelVars, diskVars
<1> QED
  BY <1>1, <1>2, MainType, CheckpointType, DispatchType DEF Next, Work

\* Every variable of the proxy keeps its type, in every reachable state.
THEOREM TypeCorrect == Spec => []TypeOK
  BY ZenonT(60), InitType, NextType, PTL DEF Spec

-----------------------------------------------------------------------------
(***************************************************************************)
(* HomesOk: names and descriptors only ever reach files of the roots.      *)
(***************************************************************************)

\* A step that opens, creates and changes nothing keeps HomesOk: it may close
\* descriptors, and pending changes may reach the disk.
LEMMA HomesShrink ==
  ASSUME TypeOK, HomesOk,
         \A f \in Fd : fdFile'[f] \in {fdFile[f], NoInode},
         entry' = entry,
         unsynced' \subseteq unsynced,
         unsyncedEntry' \subseteq unsyncedEntry
  PROVE  HomesOk'
  BY DEF HomesOk, IsOpen, TypeOK

\* Every step keeps files and pending changes on the roots of the process.
LEMMA HomesStep == TypeOK /\ HomesOk /\ [Next]_vars => HomesOk'
<1> SUFFICES ASSUME TypeOK, HomesOk, [Next]_vars PROVE HomesOk'
  OBVIOUS
<1>h. msg.handle \in Fd /\ OpenPath(msg) \in Path /\ <<"ss", msg.name>> \in Path
  BY OpenPathType DEF TypeOK, Message
<1>f. \A f \in Fd : IsOpen(f) => fdFile[f] \in Inode
  BY DEF IsOpen, TypeOK
<1> USE DEF proxyVars, kernelVars, diskVars
<1>x. CASE Exit
  BY <1>x, HomesShrink DEF Exit
<1>1. CASE Start \/ ipc_connect \/ Receive \/ ReceiveFails \/ ipc_respond
  <2>1. Exit \/ (UNCHANGED kernelVars /\ UNCHANGED diskVars)
    BY Zenon, <1>1 DEF Start, ipc_connect, Receive, ReceiveFails, ipc_respond
  <2> QED
    BY SMTT(60), <1>x, <2>1, HomesShrink
<1>2. CASE storage_sync_checkpoint
  <2>1. UNCHANGED kernelVars /\ unsynced' \subseteq unsynced /\ unsyncedEntry' \subseteq unsyncedEntry
    BY <1>2 DEF storage_sync_checkpoint, SyncFdSkip, SyncFdClean, SyncFdFails, SyncFdDone,
                SyncDir, SyncDirFails, SyncFs, SyncFsFails, DirsSynced, FsSynced, Settle, SettleEntry
  <2> QED
    BY ZenonT(60), <2>1, HomesShrink
<1>3. CASE BadLength \/ UnhandledCommand \/ storage_file_read \/ storage_file_get_size \/ rpmb_send
           \/ storage_init_ok \/ storage_init_persist_ok \/ storage_init_proinfo_ok
  <2>1. UNCHANGED kernelVars /\ UNCHANGED diskVars
    BY <1>3 DEF BadLength, UnhandledCommand, storage_file_read, storage_file_get_size, rpmb_send,
                storage_init_ok, storage_init_persist_ok, storage_init_proinfo_ok,
                QueryFile, SetInitProperty
  <2> QED
    BY <2>1, HomesShrink
<1>4. CASE storage_file_delete
  <2>1. UNCHANGED fdFile /\ unsynced' \subseteq unsynced
    BY <1>4 DEF storage_file_delete, Settle
  <2>2. CASE UNCHANGED <<entry, diskVars>>
    BY <2>1, <2>2, HomesShrink
  <2>3. CASE /\ Exists(<<"ss", msg.name>>)
             /\ entry' = [entry EXCEPT ![<<"ss", msg.name>>] = NoInode]
             /\ TouchEntry({<<"ss", msg.name>>})
    BY <1>h, <2>1, <2>3 DEF HomesOk, IsOpen, TypeOK, Exists, DirExists, TouchEntry
  <2> QED
    BY <1>4, <2>2, <2>3 DEF storage_file_delete
<1>5. CASE prepare_floder
  <2>1. CASE "ss" \in Roots /\ TouchEntry({Folder})
    BY SMTT(60), <1>5, <2>1 DEF prepare_floder, HomesOk, IsOpen, TypeOK, TouchEntry, Folder
  <2>2. CASE UNCHANGED unsyncedEntry
    BY <1>5, <2>2, HomesShrink DEF prepare_floder
  <2> QED
    BY <1>5, <2>1, <2>2 DEF prepare_floder
<1>6. CASE OpenExisting
  <2>1. PICK fd \in Fd : fdFile' = [fdFile EXCEPT ![fd] = entry[OpenPath(msg)]]
    BY ZenonT(60), <1>6 DEF OpenExisting
  <2>2. entry[OpenPath(msg)] \in Inode /\ Home[entry[OpenPath(msg)]] \in Roots \cup {"proinfo"}
    BY <1>6, <1>h DEF OpenExisting, Exists, HomesOk, TypeOK
  <2>3. \A i \in unsynced' : i \in unsynced \/ i = entry[OpenPath(msg)]
    BY <1>6 DEF OpenExisting, Touch
  <2>4. UNCHANGED <<entry, unsyncedEntry>>
    BY <1>6 DEF OpenExisting
  <2> QED
    BY <2>1, <2>2, <2>3, <2>4 DEF HomesOk, IsOpen, TypeOK
<1>7. CASE OpenNew
  <2>1. PICK fd \in Fd, i \in Inode : /\ Home[i] = OpenPath(msg)[1]
                                      /\ fdFile' = [fdFile EXCEPT ![fd] = i]
                                      /\ entry' = [entry EXCEPT ![OpenPath(msg)] = i]
    BY ZenonT(60), <1>7 DEF OpenNew
  <2>2. OpenPath(msg)[1] \in Roots
    BY ZenonT(60), <1>7 DEF OpenNew, DirExists
  <2>3. UNCHANGED unsynced /\ unsyncedEntry' = unsyncedEntry \cup {OpenPath(msg)}
    BY Zenon, <1>7 DEF OpenNew, TouchEntry
  <2> QED
    BY SMTT(60), <1>h, <2>1, <2>2, <2>3 DEF HomesOk, IsOpen, TypeOK
<1>8. CASE OpenFails
  BY <1>8, HomesShrink DEF OpenFails
<1>9. CASE storage_file_close
  <2>1. /\ fdFile' = fdFile \/ fdFile' = [fdFile EXCEPT ![msg.handle] = NoInode]
        /\ unsynced' \subseteq unsynced /\ UNCHANGED <<entry, unsyncedEntry>>
    BY <1>9 DEF storage_file_close, Settle
  <2>2. \A f \in Fd : fdFile'[f] \in {fdFile[f], NoInode}
    BY SMTT(60), <1>h, <2>1 DEF TypeOK
  <2> QED
    BY <2>1, <2>2, HomesShrink
<1>10. CASE storage_file_write \/ storage_file_set_size
  <2>1. /\ UNCHANGED <<fdFile, entry, unsyncedEntry>>
        /\ unsynced' = unsynced \/ (IsOpen(msg.handle) /\ unsynced' = unsynced \cup {fdFile[msg.handle]})
    BY <1>10 DEF storage_file_write, write_with_retry, storage_file_set_size, Touch
  <2> QED
    BY SMTT(60), <1>h, <2>1 DEF HomesOk, IsOpen, TypeOK
<1>11. CASE Writeback
  BY <1>11, HomesShrink DEF Writeback, Settle, SettleEntry
<1>12. CASE UNCHANGED vars
  BY <1>12, HomesShrink DEF vars
<1> QED
  BY <1>1, <1>2, <1>3, <1>4, <1>5, <1>6, <1>7, <1>8, <1>9, <1>10, <1>11, <1>12
     DEF Next, Work, Dispatch, storage_file_open

-----------------------------------------------------------------------------
(***************************************************************************)
(* The checkpoint's progress, and the handles of requests.                 *)
(***************************************************************************)

\* A step that ends outside the checkpoint, not about to handle a message with
\* PRE_COMMIT, has no progress to account for.
LEMMA ProgressElsewhere ==
  ASSUME pc' \notin {"sync_fd", "sync_dir", "sync_fs"},
         pc' = "dispatch" => "PRE_COMMIT" \notin msg'.flags
  PROVE  CheckpointProgress'
  BY SMTT(60) DEF CheckpointProgress, AfterCommit

\* A handler ends with an answer, or goes on to open a file.
LEMMA DispatchEnds == Dispatch => pc' \in {"open", "respond"}
  BY Zenon DEF Dispatch, BadLength, UnhandledCommand, storage_file_delete, storage_file_open, prepare_floder,
         OpenExisting, OpenNew, OpenFails, storage_file_close, storage_file_write, storage_file_read,
         storage_file_get_size, storage_file_set_size, rpmb_send, storage_init_ok,
         storage_init_persist_ok, storage_init_proinfo_ok, QueryFile, SetInitProperty, Answer

\* Where the steps of the main loop lead.
LEMMA MainEnds ==
  ASSUME Start \/ ipc_connect \/ Receive \/ ReceiveFails \/ ipc_respond
  PROVE  /\ pc' \notin {"sync_dir", "sync_fs"}
         /\ pc' = "dispatch" => "PRE_COMMIT" \notin msg'.flags
         /\ pc' = "sync_fd" => Receive /\ cursor' = 0
<1>1. CASE Receive
  BY SMTT(60), <1>1 DEF Receive, Answer
<1>2. CASE Start
  BY <1>2 DEF Start
<1>3. CASE ipc_connect
  BY <1>3 DEF ipc_connect, Exit
<1>4. CASE ReceiveFails
  <2>1. pc' = "down"
    BY Zenon, <1>4 DEF ReceiveFails, Exit
  <2> QED
    BY <2>1
<1>5. CASE ipc_respond
  BY <1>5 DEF ipc_respond, Exit
<1> QED
  BY <1>1, <1>2, <1>3, <1>4, <1>5

\* Every step keeps what a checkpoint has behind it.
LEMMA ProgressStep == TypeOK /\ CheckpointProgress /\ [Next]_vars => CheckpointProgress'
<1> SUFFICES ASSUME TypeOK, CheckpointProgress, [Next]_vars PROVE CheckpointProgress'
  OBVIOUS
<1>t. \A f \in TrackedFd : f \in Int /\ f >= 0 /\ f < FD_TBL_SIZE
  BY SMTT(60), SizesAssumption DEF TrackedFd
<1> USE DEF proxyVars, kernelVars, diskVars
<1>1. CASE Start \/ ipc_connect \/ Receive \/ ReceiveFails \/ ipc_respond
  <2>1. CASE pc' # "sync_fd"
    BY Zenon, <1>1, <2>1, MainEnds DEF CheckpointProgress, AfterCommit
  <2>2. CASE pc' = "sync_fd"
    <3>1. cursor' = 0
      BY Zenon, <1>1, <2>2, MainEnds
    <3> QED
      BY <1>t, <2>2, <3>1 DEF CheckpointProgress, AfterCommit
  <2> QED
    BY <2>1, <2>2
<1>2. CASE SyncFdSkip \/ SyncFdClean
  <2>1. cursor' = cursor + 1 /\ pc = "sync_fd" /\ pc' = "sync_fd"
    BY Zenon, <1>2 DEF SyncFdSkip, SyncFdClean
  <2>2. ASSUME NEW f \in TrackedFd PROVE fd_state'[f] # SS_DIRTY \/ (f # cursor /\ fd_state'[f] = fd_state[f])
    <3>1. CASE SyncFdSkip
      BY Zenon, <3>1 DEF SyncFdSkip
    <3>2. CASE SyncFdClean
      <4>1. fd_state' = [fd_state EXCEPT ![cursor] = SS_CLEAN]
        BY Zenon, <3>2 DEF SyncFdClean
      <4> QED
        BY SMTT(60), <4>1, MapType DEF SS_CLEAN, SS_DIRTY
    <3> QED
      BY Zenon, <1>2, <3>1, <3>2
  <2> QED
    BY SMTT(60), <2>1, <2>2, <1>t, MapType DEF CheckpointProgress, AfterCommit
<1>3. CASE SyncFdDone
  BY ZenonT(60), <1>3, <1>t DEF SyncFdDone, CheckpointProgress, AfterCommit
<1>4. CASE SyncFdFails \/ SyncDirFails \/ SyncFsFails
  BY <1>4, ProgressElsewhere DEF SyncFdFails, SyncDirFails, SyncFsFails, CheckpointFails, Answer
<1>5. CASE SyncDir
  BY <1>5 DEF SyncDir, CheckpointProgress, AfterCommit, TypeOK
<1>6. CASE SyncFs
  BY <1>6 DEF SyncFs, CheckpointProgress, AfterCommit, TypeOK
<1>7. CASE Dispatch
  BY ZenonT(60), <1>7, DispatchEnds, ProgressElsewhere
<1>8. CASE Writeback
  BY Zenon, <1>8, WritebackKeeps DEF CheckpointProgress, AfterCommit
<1>9. CASE UNCHANGED vars
  BY Zenon, <1>9 DEF vars, CheckpointProgress, AfterCommit
<1> QED
  BY <1>1, <1>2, <1>3, <1>4, <1>5, <1>6, <1>7, <1>8, <1>9 DEF Next, Work, storage_sync_checkpoint

\* Every step keeps the handle of a request open, with a server that uses only
\* open handles.
LEMMA HandleStep == TypeOK /\ HandleIsOpen /\ [Next]_vars => HandleIsOpen'
<1> SUFFICES ASSUME TypeOK, HandleIsOpen, [Next]_vars PROVE HandleIsOpen'
  OBVIOUS
<1> USE DEF proxyVars, kernelVars, diskVars, HandleIsOpen, IsOpen
<1>1. CASE Receive
  <2>1. msg' \in Request /\ UNCHANGED fdFile
    BY ZenonT(60), <1>1 DEF Receive
  <2> QED
    BY SMTT(60), <2>1 DEF Request
<1>2. CASE Start \/ ipc_connect \/ ReceiveFails \/ ipc_respond
  BY <1>2 DEF Start, ipc_connect, ReceiveFails, ipc_respond, Exit
<1>3. CASE storage_sync_checkpoint
  <2>1. UNCHANGED <<msg, fdFile>> /\ pc \in {"sync_fd", "sync_dir", "sync_fs"}
    BY <1>3 DEF storage_sync_checkpoint, SyncFdSkip, SyncFdClean, SyncFdFails, SyncFdDone,
                SyncDir, SyncDirFails, SyncFs, SyncFsFails
  <2> QED
    BY ZenonT(60), <2>1
<1>4. CASE Dispatch
  BY ZenonT(60), <1>4, DispatchEnds
<1>5. CASE Writeback
  BY Zenon, <1>5, WritebackKeeps
<1>6. CASE UNCHANGED vars
  BY Zenon, <1>6 DEF vars
<1> QED
  BY <1>1, <1>2, <1>3, <1>4, <1>5, <1>6 DEF Next, Work

\* Every step keeps the table of a process that is down empty.
LEMMA EmptyStep == EmptyWhenDown /\ [Next]_vars => EmptyWhenDown'
<1> SUFFICES ASSUME EmptyWhenDown, [Next]_vars PROVE EmptyWhenDown'
  OBVIOUS
<1> USE DEF EmptyWhenDown, proxyVars
<1>1. CASE Start \/ ipc_connect \/ Receive \/ ReceiveFails \/ ipc_respond
  BY ZenonT(60), <1>1 DEF Start, ipc_connect, Receive, ReceiveFails, ipc_respond, Exit, Answer
<1>2. CASE storage_sync_checkpoint
  BY <1>2 DEF storage_sync_checkpoint, SyncFdSkip, SyncFdClean, SyncFdFails, SyncFdDone,
              SyncDir, SyncDirFails, SyncFs, SyncFsFails, CheckpointFails, Answer
<1>3. CASE Dispatch
  BY <1>3, DispatchEnds
<1>4. CASE Writeback
  BY Zenon, <1>4, WritebackKeeps
<1>5. CASE UNCHANGED vars
  BY Zenon, <1>5 DEF vars
<1> QED
  BY Zenon, <1>1, <1>2, <1>3, <1>4, <1>5 DEF Next, Work

-----------------------------------------------------------------------------
(***************************************************************************)
(* The dirty map covers every pending change.                              *)
(***************************************************************************)

\* A step after which no more is pending, and that leaves descriptors and the
\* map alone, keeps the map covering.
LEMMA CoversShrink ==
  ASSUME DirtyMapCovers, UNCHANGED proxyVars, UNCHANGED fdFile,
         PendingFiles' \subseteq PendingFiles, PendingEntries' \subseteq PendingEntries
  PROVE  DirtyMapCovers'
  BY DEF DirtyMapCovers, Covered, proxyVars

\* Changes that reach the disk leave fewer pending.
LEMMA SettleShrinks ==
  ASSUME NEW I, NEW E
  PROVE  /\ Settle(I) => PendingFiles' \subseteq PendingFiles \ I
         /\ SettleEntry(E) => PendingEntries' \subseteq PendingEntries \ E
         /\ UNCHANGED <<unsynced, forgotten>> => PendingFiles' = PendingFiles
         /\ UNCHANGED <<unsyncedEntry, forgottenEntry>> => PendingEntries' = PendingEntries
  BY DEF Settle, SettleEntry, PendingFiles, PendingEntries, Files

\* A step of a checkpoint forgets no pending change.
LEMMA CheckpointCovers ==
  ASSUME TypeOK, HomesOk, DirtyMapCovers, storage_sync_checkpoint
  PROVE  DirtyMapCovers'
<1> USE DEF proxyVars, kernelVars, diskVars
<1>1. CASE SyncFdSkip \/ SyncFdFails \/ SyncFdDone
  BY <1>1, SettleShrinks, CoversShrink DEF SyncFdSkip, SyncFdFails, SyncFdDone
<1>2. CASE SyncFdClean
  <2>1. PendingEntries' = PendingEntries /\ UNCHANGED <<fs_state, dir_state, fdFile>>
    BY <1>2, SettleShrinks DEF SyncFdClean
  <2>2. \A f \in TrackedFd : f # cursor => fd_state'[f] = fd_state[f]
    BY <1>2 DEF SyncFdClean, TypeOK
  <2>3. CASE fs_state = SS_CLEAN
    <3>1. PendingFiles' \subseteq PendingFiles \ {fdFile[cursor]}
      BY <1>2, <2>3, SettleShrinks DEF SyncFdClean
    <3>2. fs_state # SS_DIRTY
      BY <2>3 DEF SS_CLEAN, SS_DIRTY
    <3>3. ASSUME NEW i \in PendingFiles' PROVE Covered(i)'
      <4>1. PICK f \in TrackedFd : fdFile[f] = i /\ fd_state[f] = SS_DIRTY
        BY SMTT(60), <3>1, <3>2, <3>3 DEF DirtyMapCovers, Covered
      <4> QED
        BY <2>1, <2>2, <3>1, <3>3, <4>1 DEF Covered
    <3> QED
      BY <2>1, <3>3 DEF DirtyMapCovers
  <2>4. CASE fs_state # SS_CLEAN
    BY <2>1, <2>4 DEF DirtyMapCovers, Covered, TypeOK
  <2> QED
    BY <2>3, <2>4
<1>3. CASE SyncDir
  <2>1. CASE dir_state = SS_DIRTY /\ fs_state = SS_CLEAN
    <3>1. DirsSynced(Roots) /\ UNCHANGED <<fs_state, fd_state, fdFile>>
      BY <1>3, <2>1 DEF SyncDir
    <3>2. PendingFiles' \subseteq PendingFiles
      BY <3>1, SettleShrinks DEF DirsSynced
    <3>3. PendingEntries' = {}
      BY <3>1 DEF DirsSynced, SettleEntry, PendingEntries, HomesOk
    <3> QED
      BY <3>1, <3>2, <3>3 DEF DirtyMapCovers, Covered
  <2>2. CASE dir_state # SS_DIRTY \/ fs_state # SS_CLEAN
    <3>1. /\ PendingFiles' = PendingFiles /\ PendingEntries' = PendingEntries
          /\ UNCHANGED <<fs_state, fd_state, fdFile>>
          /\ dir_state' = dir_state \/ fs_state = SS_DIRTY
      BY <1>3, <2>2, SettleShrinks DEF SyncDir, TypeOK
    <3> QED
      BY <3>1 DEF DirtyMapCovers, Covered
  <2> QED
    BY <2>1, <2>2
<1>4. CASE SyncFs
  <2>1. CASE fs_state = SS_DIRTY
    <3>1. FsSynced(Roots)
      BY <1>4, <2>1 DEF SyncFs
    <3>2. PendingFiles' = {}
      <4>1. unsynced \subseteq Inode /\ forgotten \subseteq Inode
        BY Zenon DEF TypeOK
      <4> QED
        BY SMTT(60), <3>1, <4>1 DEF FsSynced, Settle, PendingFiles, Files, HomesOk
    <3>3. PendingEntries' = {}
      BY <3>1 DEF FsSynced, SettleEntry, PendingEntries, HomesOk, TypeOK
    <3> QED
      BY <3>2, <3>3 DEF DirtyMapCovers
  <2>2. CASE fs_state # SS_DIRTY
    BY <1>4, <2>2, SettleShrinks, CoversShrink DEF SyncFs
  <2> QED
    BY <2>1, <2>2
<1>5. CASE SyncDirFails \/ SyncFsFails
  <2>1. UNCHANGED <<proxyVars, fdFile>>
    BY <1>5 DEF SyncDirFails, SyncFsFails
  <2>2. UNCHANGED diskVars \/ \E R \in SyncedBeforeFailure : DirsSynced(R) \/ FsSynced(R)
    BY <1>5 DEF SyncDirFails, SyncFsFails
  <2>3. PendingFiles' \subseteq PendingFiles /\ PendingEntries' \subseteq PendingEntries
    BY Zenon, <2>2, SettleShrinks DEF DirsSynced, FsSynced
  <2> QED
    BY <2>1, <2>3, CoversShrink
<1> QED
  BY <1>1, <1>2, <1>3, <1>4, <1>5 DEF storage_sync_checkpoint

\* A descriptor in use is never the one open returns.
LEMMA OpenCovers ==
  ASSUME TypeOK, DirtyMapCovers, storage_file_open
  PROVE  DirtyMapCovers'
<1>p. OpenPath(msg) \in Path
  BY Zenon, OpenPathType DEF TypeOK
<1> USE DEF proxyVars, kernelVars, diskVars
<1>1. CASE prepare_floder
  <2>1. Folder \notin RootEntry
    BY NamesAssumption DEF Folder, RootEntry, FilePath
  <2>2. PendingEntries' = PendingEntries
    BY <1>1, <2>1 DEF prepare_floder, TouchEntry, PendingEntries
  <2> QED
    BY <1>1, <2>2, SettleShrinks, CoversShrink DEF prepare_floder
<1>2. CASE OpenExisting
  <2>1. PICK fd \in Fd : /\ fdFile[fd] = NoInode
                         /\ fdFile' = [fdFile EXCEPT ![fd] = entry[OpenPath(msg)]]
                         /\ insert_fd(TruncFlag, fd)
    BY Zenon, <1>2 DEF OpenExisting, LowestFreeFd, IsOpen
  <2>2. PendingEntries' = PendingEntries /\ UNCHANGED dir_state
    BY Zenon, <1>2, <2>1, SettleShrinks DEF OpenExisting, insert_fd, TruncFlag
  <2>3. fs_state = SS_DIRTY => fs_state' = SS_DIRTY
    BY <2>1 DEF insert_fd
  <2>4. \A f \in TrackedFd : f # fd => fd_state'[f] = fd_state[f] /\ fdFile'[f] = fdFile[f]
    <3>1. \A f \in TrackedFd : f \in Fd
      BY SizesAssumption DEF TrackedFd, Fd
    <3>2. ASSUME NEW f \in TrackedFd, f # fd PROVE fd_state'[f] = fd_state[f]
      BY SMTT(60), <2>1, <3>2, MapType DEF insert_fd
    <3>3. ASSUME NEW f \in TrackedFd, f # fd PROVE fdFile'[f] = fdFile[f]
      BY SMTT(60), <2>1, <3>1, <3>3, MapType
    <3> QED
      BY <3>2, <3>3
  <2>5. ASSUME NEW i \in PendingFiles PROVE Covered(i)'
    <3>1. i # NoInode
      BY NamesAssumption DEF PendingFiles, Files
    <3>2. Covered(i)
      BY DEF DirtyMapCovers
    <3>3. CASE fs_state = SS_DIRTY
      BY <2>3, <3>3 DEF Covered
    <3>4. ASSUME NEW f \in TrackedFd, fdFile[f] = i, fd_state[f] = SS_DIRTY
          PROVE  Covered(i)'
      <4>1. f # fd
        BY <2>1, <3>1, <3>4
      <4>2. fdFile'[f] = i /\ fd_state'[f] = SS_DIRTY
        BY <2>4, <3>4, <4>1
      <4> QED
        BY <4>2 DEF Covered
    <3> QED
      BY <3>2, <3>3, <3>4 DEF Covered
  <2>6. ASSUME TruncFlag # {}, NEW i, i = entry[OpenPath(msg)] PROVE Covered(i)'
    <3>1. "O_TRUNC" \in TruncFlag
      BY <2>6 DEF TruncFlag
    <3>2. CASE fd < FD_TBL_SIZE
      <4>1. fd \in TrackedFd
        BY <3>2, SizesAssumption DEF TrackedFd, Fd
      <4> QED
        BY <2>1, <2>6, <3>1, <3>2, <4>1 DEF insert_fd, Covered, TypeOK
    <3>3. CASE ~(fd < FD_TBL_SIZE)
      BY SMTT(60), <2>1, <2>6, <3>3 DEF insert_fd, Covered
    <3> QED
      BY <3>2, <3>3
  <2>7. \A i \in PendingFiles' : i \in PendingFiles \/ (TruncFlag # {} /\ i = entry[OpenPath(msg)])
    BY Zenon, <1>2 DEF OpenExisting, Touch, PendingFiles, Files
  <2> QED
    BY <2>2, <2>3, <2>5, <2>6, <2>7 DEF DirtyMapCovers
<1>3. CASE OpenNew
  <2>1. PICK fd \in Fd, j \in Inode : /\ fdFile[fd] = NoInode
                                      /\ fdFile' = [fdFile EXCEPT ![fd] = j]
                                      /\ insert_fd(TruncFlag \cup {"O_CREAT"}, fd)
    BY ZenonT(60), <1>3 DEF OpenNew, LowestFreeFd, IsOpen
  <2>2. PendingFiles' = PendingFiles
    BY Zenon, <1>3, SettleShrinks DEF OpenNew
  <2>3. dir_state' = SS_DIRTY /\ (fs_state = SS_DIRTY => fs_state' = SS_DIRTY)
    BY SMTT(60), <2>1 DEF insert_fd
  <2>4. \A f \in TrackedFd : f # fd => fd_state'[f] = fd_state[f] /\ fdFile'[f] = fdFile[f]
    <3>1. \A f \in TrackedFd : f \in Fd
      BY SizesAssumption DEF TrackedFd, Fd
    <3>2. ASSUME NEW f \in TrackedFd, f # fd PROVE fd_state'[f] = fd_state[f]
      BY SMTT(60), <2>1, <3>2, MapType DEF insert_fd
    <3>3. ASSUME NEW f \in TrackedFd, f # fd PROVE fdFile'[f] = fdFile[f]
      BY SMTT(60), <2>1, <3>1, <3>3, MapType
    <3> QED
      BY <3>2, <3>3
  <2>5. ASSUME NEW i \in PendingFiles PROVE Covered(i)'
    <3>1. i # NoInode
      BY NamesAssumption DEF PendingFiles, Files
    <3>2. Covered(i)
      BY DEF DirtyMapCovers
    <3>3. CASE fs_state = SS_DIRTY
      BY <2>3, <3>3 DEF Covered
    <3>4. ASSUME NEW f \in TrackedFd, fdFile[f] = i, fd_state[f] = SS_DIRTY
          PROVE  Covered(i)'
      <4>1. f # fd
        BY <2>1, <3>1, <3>4
      <4>2. fdFile'[f] = i /\ fd_state'[f] = SS_DIRTY
        BY <2>4, <3>4, <4>1
      <4> QED
        BY <4>2 DEF Covered
    <3> QED
      BY <3>2, <3>3, <3>4 DEF Covered
  <2> QED
    BY SMTT(60), <2>2, <2>3, <2>5 DEF DirtyMapCovers
<1>4. CASE OpenFails
  BY <1>4, SettleShrinks, CoversShrink DEF OpenFails
<1> QED
  BY <1>1, <1>2, <1>3, <1>4 DEF storage_file_open

\* close removes the descriptor from the map, and with it only what it had.
LEMMA CloseCovers ==
  ASSUME TypeOK, DirtyMapCovers, storage_file_close
  PROVE  DirtyMapCovers'
<1>h. msg.handle \in Fd
  BY DEF TypeOK, Message
<1>1. PendingEntries' = PendingEntries /\ UNCHANGED <<fs_state, dir_state>>
  <2>1. UNCHANGED <<unsyncedEntry, forgottenEntry>> /\ remove_fd(msg.handle)
    BY Zenon DEF storage_file_close
  <2> QED
    BY Zenon, <2>1, SettleShrinks DEF remove_fd
<1>2. \A f \in TrackedFd : f # msg.handle => fd_state'[f] = fd_state[f] /\ fdFile'[f] = fdFile[f]
  <2>1. remove_fd(msg.handle)
    BY ZenonT(60) DEF storage_file_close
  <2>2. fdFile' = fdFile \/ fdFile' = [fdFile EXCEPT ![msg.handle] = NoInode]
    BY ZenonT(60) DEF storage_file_close
  <2> QED
    <3>1. \A f \in TrackedFd : f \in Fd
      BY SizesAssumption DEF TrackedFd, Fd
    <3> QED
      BY <1>h, <2>1, <2>2, <3>1, MapType DEF remove_fd
<1>3. ASSUME NEW i \in PendingFiles' PROVE i \in PendingFiles /\ fdFile[msg.handle] # i
  <2>1. i # NoInode
    BY NamesAssumption DEF PendingFiles, Files
  <2> QED
    BY Zenon, <1>3, <2>1 DEF storage_file_close, Settle, PendingFiles, Files, IsOpen
<1>4. ASSUME NEW i \in PendingFiles' PROVE Covered(i)'
  <2>1. Covered(i)
    BY <1>3 DEF DirtyMapCovers
  <2>2. CASE fs_state = SS_DIRTY
    BY <1>1, <2>2 DEF Covered
  <2>3. ASSUME NEW f \in TrackedFd, fdFile[f] = i, fd_state[f] = SS_DIRTY
        PROVE  Covered(i)'
    <3>1. f # msg.handle
      BY <1>3, <2>3
    <3>2. fdFile'[f] = i /\ fd_state'[f] = SS_DIRTY
      BY <1>2, <2>3, <3>1
    <3> QED
      BY <3>2 DEF Covered
  <2> QED
    BY <2>1, <2>2, <2>3 DEF Covered
<1> QED
  BY <1>1, <1>4 DEF DirtyMapCovers

\* A handler records every change it makes.
LEMMA DispatchCovers ==
  ASSUME TypeOK, DirtyMapCovers, Dispatch
  PROVE  DirtyMapCovers'
<1>h. msg.handle \in Fd
  BY DEF TypeOK, Message
<1> USE DEF proxyVars, kernelVars, diskVars
<1>1. CASE BadLength \/ UnhandledCommand \/ storage_file_read \/ storage_file_get_size \/ rpmb_send
           \/ storage_init_ok \/ storage_init_persist_ok \/ storage_init_proinfo_ok
  <2>1. UNCHANGED <<proxyVars, kernelVars, diskVars>>
    BY <1>1 DEF BadLength, UnhandledCommand, storage_file_read, storage_file_get_size, rpmb_send,
                storage_init_ok, storage_init_persist_ok, storage_init_proinfo_ok,
                QueryFile, SetInitProperty
  <2> QED
    BY ZenonT(60), <2>1, SettleShrinks, CoversShrink
<1>2. CASE storage_file_delete
  <2>1. dir_state' = SS_DIRTY /\ UNCHANGED <<fs_state, fd_state, fdFile>>
    BY <1>2 DEF storage_file_delete
  <2>2. PendingFiles' \subseteq PendingFiles
    BY <1>2, SettleShrinks DEF storage_file_delete
  <2> QED
    BY <2>1, <2>2 DEF DirtyMapCovers, Covered
<1>3. CASE storage_file_write \/ storage_file_set_size
  <2>1. lookup_fd_dirty(msg.handle) /\ UNCHANGED fdFile
    BY Zenon, <1>3 DEF storage_file_write, storage_file_set_size
  <2>2. PendingEntries' = PendingEntries
    BY Zenon, <1>3, SettleShrinks DEF storage_file_write, storage_file_set_size
  <2>3. \A i \in PendingFiles' : i \in PendingFiles \/ i = fdFile[msg.handle]
    BY Zenon, <1>3 DEF storage_file_write, write_with_retry, storage_file_set_size, Touch, PendingFiles, Files
  <2>4. ASSUME NEW i, Covered(i) \/ i = fdFile[msg.handle] PROVE Covered(i)'
    <3>1. CASE msg.handle < FD_TBL_SIZE
      <4>1. msg.handle \in TrackedFd
        BY <1>h, <3>1, SizesAssumption DEF TrackedFd, Fd
      <4>2. /\ fd_state'[msg.handle] = SS_DIRTY /\ UNCHANGED fs_state
            /\ \A f \in TrackedFd : fd_state[f] = SS_DIRTY => fd_state'[f] = SS_DIRTY
        BY <2>1, <3>1, <4>1 DEF lookup_fd_dirty, TypeOK
      <4> QED
        BY <2>1, <2>4, <4>1, <4>2 DEF Covered
    <3>2. CASE ~(msg.handle < FD_TBL_SIZE)
      BY <2>1, <3>2 DEF lookup_fd_dirty, Covered
    <3> QED
      BY SMTT(60), <3>1, <3>2
  <2>5. UNCHANGED dir_state /\ (fs_state = SS_DIRTY => fs_state' = SS_DIRTY)
    BY <2>1 DEF lookup_fd_dirty
  <2> QED
    BY ZenonT(60), <2>2, <2>3, <2>4, <2>5 DEF DirtyMapCovers
<1> QED
  BY <1>1, <1>2, <1>3, OpenCovers, CloseCovers DEF Dispatch

\* Every step keeps the pending changes covered.
LEMMA CoversStep == IInv /\ [Next]_vars => DirtyMapCovers'
<1> SUFFICES ASSUME IInv, [Next]_vars PROVE DirtyMapCovers'
  OBVIOUS
<1> USE DEF IInv, proxyVars, kernelVars, diskVars
<1>x. CASE Exit
  <2>1. PendingFiles' = {} /\ PendingEntries' = {}
    BY <1>x DEF Exit, PendingFiles, PendingEntries
  <2> QED
    BY <2>1 DEF DirtyMapCovers
<1>1. CASE Start
  <2>1. \A f \in TrackedFd : fd_state[f] # SS_DIRTY
    BY <1>1 DEF Start, EmptyWhenDown, StaticFdState, SS_CLEAN, SS_DIRTY
  <2>2. PendingFiles' = PendingFiles /\ PendingEntries' = PendingEntries /\ UNCHANGED <<fs_state, dir_state>>
    BY <1>1, SettleShrinks DEF Start
  <2> QED
    BY <2>1, <2>2 DEF DirtyMapCovers, Covered
<1>2. CASE ipc_connect \/ Receive \/ ReceiveFails \/ ipc_respond
  <2>1. Exit \/ UNCHANGED <<proxyVars, kernelVars, diskVars>>
    BY <1>2 DEF ipc_connect, Receive, ReceiveFails, ipc_respond
  <2> QED
    BY ZenonT(60), <1>x, <2>1, SettleShrinks, CoversShrink
<1>3. CASE storage_sync_checkpoint
  BY <1>3, CheckpointCovers
<1>4. CASE Dispatch
  BY <1>4, DispatchCovers
<1>5. CASE Writeback
  <2>1. PendingFiles' \subseteq PendingFiles /\ PendingEntries' \subseteq PendingEntries
    BY ZenonT(60), <1>5, SettleShrinks DEF Writeback
  <2> QED
    BY <1>5, <2>1, CoversShrink DEF Writeback
<1>6. CASE UNCHANGED vars
  BY <1>6, SettleShrinks, CoversShrink DEF vars
<1> QED
  BY <1>1, <1>2, <1>3, <1>4, <1>5, <1>6 DEF Next, Work

-----------------------------------------------------------------------------
(***************************************************************************)
(* A dirty entry of the table is an open descriptor.                       *)
(***************************************************************************)
LEMMA DirtyOpenStep == IInv /\ [Next]_vars => DirtyFdIsOpen'
<1> SUFFICES ASSUME IInv, [Next]_vars, ~StrayHandles, NEW f \in TrackedFd, fd_state'[f] = SS_DIRTY
             PROVE  fdFile'[f] # NoInode
  BY ZenonT(60), SizesAssumption DEF DirtyFdIsOpen, IsOpen
<1>o. fd_state[f] = SS_DIRTY => fdFile[f] # NoInode
  BY Zenon DEF IInv, DirtyFdIsOpen, IsOpen
<1>f. f \in Fd
  BY SizesAssumption DEF TrackedFd, Fd
<1>h. msg.handle \in Fd /\ OpenPath(msg) \in Path
  BY Zenon, OpenPathType DEF IInv, TypeOK, Message
<1>s. SS_DIRTY # SS_CLEAN /\ SS_DIRTY # SS_UNUSED
  BY DEF SS_DIRTY, SS_CLEAN, SS_UNUSED
<1> USE DEF IInv, proxyVars, kernelVars, diskVars
<1>x. CASE Exit
  BY <1>x, <1>s DEF Exit, StaticFdState
<1>1. CASE Start \/ ipc_connect \/ Receive \/ ReceiveFails \/ ipc_respond
  <2>1. Exit \/ (UNCHANGED fdFile /\ (fd_state' = fd_state \/ fd_state' = [g \in TrackedFd |-> SS_UNUSED]))
    BY Zenon, <1>1 DEF Start, storage_init, ipc_connect, Receive, ReceiveFails, ipc_respond
  <2> QED
    BY <1>o, <1>s, <1>x, <2>1
<1>2. CASE storage_sync_checkpoint
  <2>1. UNCHANGED fdFile /\ (fd_state' = fd_state \/ fd_state' = [fd_state EXCEPT ![cursor] = SS_CLEAN])
    BY ZenonT(60), <1>2 DEF storage_sync_checkpoint, SyncFdSkip, SyncFdClean, SyncFdFails, SyncFdDone,
                SyncDir, SyncDirFails, SyncFs, SyncFsFails
  <2> QED
    BY SMTT(60), <1>o, <1>s, <2>1, MapType
<1>3. CASE OpenExisting \/ OpenNew
  <2>1. PICK fd \in Fd, j \in Inode, F \in SUBSET {"O_CREAT", "O_TRUNC"} :
         fdFile' = [fdFile EXCEPT ![fd] = j] /\ insert_fd(F, fd)
    <3>t. TruncFlag \in SUBSET {"O_CREAT", "O_TRUNC"}
      BY DEF TruncFlag
    <3>1. CASE OpenExisting
      <4>1. entry[OpenPath(msg)] \in Inode
        BY <1>h, <3>1 DEF OpenExisting, Exists, TypeOK
      <4> QED
        BY Zenon, <3>t, <3>1, <4>1 DEF OpenExisting
    <3>2. CASE OpenNew
      <4>1. TruncFlag \cup {"O_CREAT"} \in SUBSET {"O_CREAT", "O_TRUNC"}
        BY <3>t
      <4> QED
        BY Zenon, <3>2, <4>1 DEF OpenNew
    <3> QED
      BY <1>3, <3>1, <3>2
  <2>2. CASE f = fd
    BY SMTT(60), <1>f, <2>1, <2>2, MapType, NamesAssumption
  <2>3. CASE f # fd
    <3>1. fdFile'[f] = fdFile[f]
      BY SMTT(60), <1>f, <2>1, <2>3, MapType
    <3>2. fd_state'[f] = fd_state[f]
      BY SMTT(60), <2>1, <2>3, MapType DEF insert_fd
    <3> QED
      BY Zenon, <1>o, <3>1, <3>2
  <2> QED
    BY <2>2, <2>3
<1>4. CASE storage_file_close
  <2>r. remove_fd(msg.handle)
    BY ZenonT(60), <1>4 DEF storage_file_close
  <2>t. fd_state \in [TrackedFd -> SyncState]
    BY ZenonT(60) DEF TypeOK
  <2>1. f # msg.handle
    BY SMTT(60), <1>s, <2>r, <2>t, SizesAssumption DEF remove_fd, TrackedFd
  <2>2. fd_state[f] = SS_DIRTY
    BY SMTT(60), <2>r, <2>t, <2>1 DEF remove_fd
  <2>3. fdFile' = fdFile \/ fdFile' = [fdFile EXCEPT ![msg.handle] = NoInode]
    BY ZenonT(60), <1>4 DEF storage_file_close
  <2> QED
    BY ZenonT(60), <1>f, <1>o, <2>1, <2>2, <2>3 DEF TypeOK
<1>5. CASE storage_file_write \/ storage_file_set_size
  <2>1. fdFile[msg.handle] # NoInode
    BY ZenonT(60), <1>5 DEF storage_file_write, storage_file_set_size, Handler, HandleIsOpen, HandleCmd, IsOpen
  <2>2. UNCHANGED fdFile /\ lookup_fd_dirty(msg.handle)
    BY ZenonT(60), <1>5 DEF storage_file_write, storage_file_set_size
  <2>3. CASE f = msg.handle
    BY Zenon, <2>1, <2>2, <2>3
  <2>4. CASE f # msg.handle
    <3>1. fd_state \in [TrackedFd -> SyncState]
      BY Zenon DEF TypeOK
    <3>2. fd_state[f] = SS_DIRTY
      BY <2>2, <2>4, <3>1 DEF lookup_fd_dirty
    <3> QED
      BY Zenon, <1>o, <2>2, <3>2
  <2> QED
    BY <2>3, <2>4
<1>6. CASE BadLength \/ UnhandledCommand \/ storage_file_read \/ storage_file_get_size \/ rpmb_send
           \/ storage_init_ok \/ storage_init_persist_ok \/ storage_init_proinfo_ok
           \/ storage_file_delete \/ prepare_floder \/ OpenFails
  <2>1. UNCHANGED <<fd_state, fdFile>>
    BY ZenonT(60), <1>6 DEF BadLength, UnhandledCommand, storage_file_read, storage_file_get_size, rpmb_send,
                storage_init_ok, storage_init_persist_ok, storage_init_proinfo_ok,
                QueryFile, SetInitProperty, storage_file_delete, prepare_floder, OpenFails
  <2> QED
    BY Zenon, <1>o, <2>1
<1>7. CASE Writeback \/ UNCHANGED vars
  BY Zenon, <1>7, <1>o DEF Writeback, vars
<1> QED
  BY Zenon, <1>1, <1>2, <1>3, <1>4, <1>5, <1>6, <1>7 DEF Next, Work, Dispatch, storage_file_open

-----------------------------------------------------------------------------
(***************************************************************************)
(* The invariants.                                                         *)
(***************************************************************************)
LEMMA InitIInv == Init => IInv
<1> SUFFICES ASSUME Init PROVE IInv
  OBVIOUS
<1>1. TypeOK
  BY InitType
<1>2. HomesOk
  BY SMTT(60) DEF Init, HomesOk, IsOpen, ProinfoNode
<1>3. CheckpointProgress /\ HandleIsOpen /\ EmptyWhenDown
  BY DEF Init, CheckpointProgress, AfterCommit, HandleIsOpen, EmptyWhenDown
<1>4. DirtyMapCovers
  BY DEF Init, DirtyMapCovers, PendingFiles, PendingEntries
<1>5. DirtyFdIsOpen
  BY DEF Init, DirtyFdIsOpen, StaticFdState, SS_CLEAN, SS_DIRTY
<1> QED
  BY <1>1, <1>2, <1>3, <1>4, <1>5 DEF IInv

\* Every step keeps the invariant.
LEMMA NextIInv == IInv /\ [Next]_vars => IInv'
  BY NextType, HomesStep, ProgressStep, HandleStep, EmptyStep, CoversStep, DirtyOpenStep DEF IInv

\* The invariant holds in every reachable state.
LEMMA Inductive == Spec => []IInv
  BY InitIInv, NextIInv, PTL DEF Spec

\* A PRE_COMMIT message is handled only when every change the dirty map was
\* still tracking is on disk: the checkpoint has left no dirty entry at any of
\* the three levels, and the map covers all that is pending.
THEOREM CommitDurability == Spec => []CommitIsDurable
<1>1. IInv => CommitIsDurable
  <2> SUFFICES ASSUME IInv, AfterCommit PROVE PendingFiles = {} /\ PendingEntries = {}
    BY DEF CommitIsDurable
  <2>1. /\ fs_state # SS_DIRTY /\ dir_state # SS_DIRTY
        /\ \A f \in TrackedFd : fd_state[f] # SS_DIRTY
    BY DEF IInv, CheckpointProgress, SS_CLEAN, SS_DIRTY
  <2> QED
    BY <2>1 DEF IInv, DirtyMapCovers, Covered
<1> QED
  BY SMTT(60), <1>1, Inductive, PTL

\* No reachable state, in or after any checkpoint, has a pending change that
\* the dirty map of insert_fd, lookup_fd and remove_fd does not cover.
THEOREM DirtyMapIsComplete == Spec => []DirtyMapCovers
<1>1. IInv => DirtyMapCovers
  BY DEF IInv
<1> QED
  BY <1>1, Inductive, PTL

\* With a server that uses only open handles, fsync in the checkpoint is never
\* called on a descriptor that is not open.
THEOREM CheckpointUsesOpenFds == Spec => []DirtyFdIsOpen
<1>1. IInv => DirtyFdIsOpen
  BY DEF IInv
<1> QED
  BY <1>1, Inductive, PTL
=============================================================================
