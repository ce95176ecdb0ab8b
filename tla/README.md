# Verification of the Microtrust TEE user-space components

TLA+ models, TLC configurations and TLAPS proofs for the code under `src/`: the
Linux side of the Microtrust trusted execution environment of MediaTek devices.
The programs here run in the normal world. They carry requests of Android
(keys, passwords) to trusted applications (TAs), and serve the TEE with what it
lacks, above all a file system.

## The system

The repository holds two generations of the stack, `common/lite` (the TEE is
reached through tipc channels) and `common/400` (the TEE is reached through a
GlobalPlatform client library and ioctls). `common/450` holds prebuilt images
only.

| Part | Source | What it does |
|---|---|---|
| storage proxy | `common/lite/storage/proxy` | runs the file and RPMB commands of the secure storage server and makes them durable on request |
| storage protocol | `common/lite/storage/interface` | commands, flags and error codes of that conversation |
| libtrusty | `common/lite/libtrusty` | `tipc_connect`, `tipc_close` |
| lite keymaster | `common/lite/km4.1` | Keymaster 4.x service, requests cut into messages of 3 KiB |
| lite gatekeeper | `common/lite/gatekeeper` | password enrolment and verification over tipc |
| lite kmsetkey | `common/lite/kmsetkey` | factory installation of attestation keys over tipc |
| TEE client library | `common/400/optee_client` | contexts, sessions, shared memory, command invocation |
| KeyMint service | `common/400/keymint1.0` | KeyMint 1.0: initialisation, channel with reconnect, operations |
| keymaster 4.x | `common/400/km4.1` | the same TA client under the Keymaster 4.x interface; kmsetkey |
| gatekeeper | `common/400/gatekeeper` | one TEE session per request |
| teei daemon | `common/400/teei_daemon` | boots the TEE, serves its file requests, sets properties |
| trustlets | `src/trustlets` | manifests and uuids of prebuilt TAs, no code that runs here |

How they interact: the teei daemon (400) or the storage proxy (lite) must be up
before the TAs can load; the proxy sets `vendor.soter.teei.init` and its
siblings when the server reports that it is ready, and the key and password
services wait for those properties before they connect. Every service talks to
one TA over one channel, and each is a process of its own. The secure storage
server is the proxy's only client, and all the persistent state of the TAs of the
lite stack (keys, password handles, failure counters) goes through it. That makes
the proxy the core of the repository: what it reports as committed is what the
TEE believes after the next power loss.

## The storage proxy: `StorageProxy`

### What is modelled

`StorageProxy.tla` models `proxy.c`, `storage.c`, `ipc.c` and, as one step,
`rpmb.c`, whose inside is in `Rpmb.tla`.

| Model | Code |
|---|---|
| `pc`, `msg`, `result`, `cursor` | the position in `main` / `proxy_loop` / `handle_req`, the request, the result of the answer, the loop variable of the checkpoint |
| `fs_state`, `dir_state`, `fd_state` | the dirty map, static variables of `storage.c` |
| `retry_cnt` | the local counter of `ipc_connect` |
| `initProps` | the `vendor.soter.teei.*` properties that are `INIT_OK` |
| `fdFile`, `entry`, `folder`, `unsynced`, `unsyncedEntry` | the kernel: descriptors of the process, names, the one sub-directory, what the disk does not hold yet |
| `forgotten`, `forgottenEntry` | history: pending changes the proxy no longer tracks |
| `faults` | how many system calls have failed |
| `Start`, `ipc_connect`, `Receive`, `ReceiveFails`, `ipc_respond` | `main`, `ipc_connect`, `ipc_get_msg` and the head of `handle_req`, `ipc_respond` |
| `SyncFd*`, `SyncDir*`, `SyncFs*` | `storage_sync_checkpoint`, one step per entry of the table and per further level |
| `storage_file_*`, `prepare_floder`, `rpmb_send`, `storage_init_*` | the handlers of the same name |
| `insert_fd`, `lookup_fd_dirty`, `remove_fd`, `translate_errno` | the helpers of the same name |

One step is one system call with the bookkeeping around it, because a system
call is where the kernel can fail or where write-back can be seen. The proxy is
single threaded; beside it run only the kernel's write-back (`Writeback`) and the
end and restart of the process. File contents, offsets and lengths are
abstracted to what the properties tell apart: whether the disk holds the current
state of a file or name. A request is well formed for its command or not (`wf`).

Kernel assumptions, taken from how the code uses the calls:

- a failed `fsync` or `syncfs` leaves the change pending;
- `fsync` of a directory covers the names in that directory, not in its
  sub-directories; a name on disk refers to a file that exists;
- `syncfs` of a root covers the files and names of its file system, and not the
  partition behind the proinfo device node;
- descriptors are opened `O_SYNC`, so a `write` that returns is on disk, while
  `ftruncate` and `O_TRUNC` are not, and a `write` that fails may have changed the
  file;
- a call that fails may fail with any of the classes of error that
  `translate_errno` tells apart, a refused access included;
- `open` returns the lowest free descriptor; the standard descriptors, the
  roots, the RPMB device and the channel have numbers of their own outside `Fd`;
- a power loss loses exactly `unsynced` and `unsyncedEntry`. It needs no action:
  a property that must survive it says that these sets are empty.

### Runs

| Run | Result | What it shows |
|---|---|---|
| `storage_live` | holds | `CommitIsDurable`, `DirtyMapCovers`, `DirtyFdIsOpen`, `TypeOK` with two tracked descriptors, one past the table, one fault and restarts; and `CommitEventuallySucceeds`: a failed checkpoint leaves nothing behind that makes all later ones fail |
| `storage_all` | holds | the first two with every command, all roots, folders, the proinfo node, malformed requests and handles that are not open |
| `storage_failed_close` | violated | a close whose `fsync` fails drops the descriptor from the map and keeps it open; the next commit succeeds without it |
| `storage_folder` | violated | the names in a VFS folder, and the folder, are not covered by a commit |
| `storage_post_commit` | violated | an RPMB message with `POST_COMMIT` succeeds and nothing is committed |
| `storage_persist_only` | violated | in the process started with `-v` only, the checkpoint calls `fsync(-1)`, so every commit fails once a file was created |

`CommitIsDurable` is what the secure server relies on: when a `PRE_COMMIT`
message is let through, every change that the proxy tracks is on disk, so an
RPMB write that seals a transaction never overtakes its data. `DirtyMapCovers` is
the reason it holds and is itself the property that several steps can break: a
pending change is always under a dirty descriptor, the dirty directory or the dirty
file system, also in the middle of a checkpoint and after one that failed half
way. `DirtyFdIsOpen` says that the checkpoint never runs `fsync` on a closed
descriptor for a server that uses only open handles.

The four violated properties state what `interface/storage.h`, and for the last
the service definition, say; the findings in `PROJECT.json` quote the lines.
`interface/storage.h` also describes a `BATCH` flag, which `proxy.c:178` does not
look at: a message of a batch is handled and answered like any other.

### Bounds

- `FD_TBL_SIZE = 2`, `MaxFd = 2` (64 and the process limit in the code): two
  tracked descriptors let a checkpoint fail between two entries, and the third
  is past the table, the case that only `fs_state` tracks. `storage_all`, which
  has every command and every root, has one tracked descriptor; the violated
  properties need no more than one, and one past the table.
- `MAX_RECONNECT_RETRY_COUNT = 1`: one retry and the give-up.
- One name, plus one in the folder; one inode per root. A name that is
  deleted while open and created again needs a second inode of its root and is
  answered `ENOSPC` in these instances; the theorems cover it.
- `MaxFaults = 1`: a failure at any call of any behaviour, and the recovery
  from it. The theorems hold for any number.

### Fairness

`FairSpec` assumes weak fairness of `Work` only: the loop is single threaded and
blocks nowhere between receiving a message and answering it other than in
system calls, so a message in hand is finished. Nothing is assumed of the
server, of init restarting the process, or of write-back. "The disk stops
failing" is the bound on faults.

### Proofs

`StorageProxyProofs.tla` proves for all constants that satisfy the three
assumptions of `StorageProxy.tla` (sizes are naturals and the table is not
larger than the descriptor range; names, inodes and roots are well formed; the
server opens the proinfo node only through the proxy that serves it):

- `TypeCorrect`: `Spec => []TypeOK`;
- `CommitDurability`: `Spec => []CommitIsDurable`;
- `DirtyMapIsComplete`: `Spec => []DirtyMapCovers`;
- `CheckpointUsesOpenFds`: `Spec => []DirtyFdIsOpen`.

All follow from one inductive invariant, `IInv`. `CommitIsDurable` alone is not
inductive: it says nothing of the states inside a checkpoint. `IInv` adds

- `DirtyMapCovers`, so that a clean map means that nothing tracked is pending;
- `CheckpointProgress`, what has been cleaned by the point the checkpoint has
  reached, so that the map is clean when it ends;
- `HomesOk`, that changes are pending only on roots the proxy was started with,
  so that syncing those roots is enough;
- `HandleIsOpen`, that a handle that was open when the request arrived still is
  when the handler runs, and `DirtyFdIsOpen`;
- `EmptyWhenDown`, that a process that has not started has an empty map.

`Init => IInv` and one lemma per action give the induction step. The delicate
case is a dirty file system: the checkpoint then marks descriptors and the
directory clean without syncing them, and `DirtyMapCovers` survives because
`fs_state` stays dirty until `syncfs` has returned.

Liveness (`CommitEventuallySucceeds`) is model-checked only: fairness is beyond
the proof system.

### Left out

`parse_args` and `drop_privs` (set-up; the options are the constant `Roots`);
the bytes of files; log output. Changes an earlier process left pending are outside
`CommitIsDurable` (`forgotten`): no code looks for them.

## The KeyMint service: `KeyMint`

### What is modelled

`KeyMint.tla` models the service of `common/400/keymint1.0`: the calls of the
device and of its operation objects, `Initialize`, and the channel to the
keymaster TA. The service has one binder thread (`service.cpp`), so one call is
served at a time; a step is one call into the TEE client library.

| Model | Code |
|---|---|
| `mintPc`, `mintCall`, `sending`, `error`, `op_handle` | the position of the thread, the call, the command being forwarded, the answer |
| `initialized`, `mintHandle_` | the static variables `initialized` and `handle_` |
| `live` | which of `context`, `session`, `inputSM`, `outputSM` are in use |
| `objs`, `opHandle_` | the operation objects and their member |
| `taOps`, `taConfig` | external: operations of the session, configuration accepted from this process |
| `teei`, `TeeiInit` | whether `teei_daemon` has set `vendor.soter.teei.init` (`main.c:370`) |
| `SessionOpen` | the id that `TEEC_InvokeCommand` hands to the driver is that of an open session |
| `outcome` | history: what the TA made of the caller's own command |
| `MintInitialize`, `ConnectTa`, `Configured` | `BeanpodKeymaster::Initialize` with `ConfigDeviceInfo` and `ConfigPatchLevel` |
| `TooBig`, `MintNotConnected`, `InvokeFails`, `MintAnswered`, `Disconnect`, `MintReconnect` | `bp_keymaster_send`, `bp_keymaster_call` and the reset |
| `MintRequest`, `DeviceReturns`, `AbortTooLong`, `UpdateReturns`, `FinishReturns`, `AbortReturns` | the binder calls and the destructor |

The calls that only forward a command (keys, shared secret, clock,
provisioning) differ in their data alone and are one call, `"device"`, or
`"no_request"` when they have no request to be too big. `updateAad` is `update`
without its last check.

Assumptions on what is not in the repository, each of which the properties
depend on: closing a session ends its operations; an error the TA returns for an
operation ends it; the TA's handles are random, so a new one differs from every
handle still held; its answers can be deserialized; the codes it reports outside
an answer are negative (`bp_keymaster_send` resets the channel only for
those); descriptor 0 is taken.

### Runs

KeyMint is checked in the run `hals`, beside the services of the lite stack (see
"How the other components are run"): `ChannelIsWhole`, `OperationHasOwner`,
`OkMeansDone`, `ServesOnlyConfigured`, `TypeOK`; and `MintRecovers`: after failures
stop, a client that keeps calling is answered by the TA.

A reset whose reconnection fails leaves `initialized` set and the channel down,
so that `Initialize` does not connect again. That costs a client one more failed call
and no more: `MintRecovers` shows that the reset of that call brings the channel
back. Whether a session opened by a reset needs the configuration again depends
on the TA, so nothing is claimed about it.

### Bounds and fairness

Two objects and three handles, so that an object can keep a handle of a closed
session while the TA hands out others. Three faults: a failed call, a failed
reconnection after it, and one more anywhere, a restart included; with one
fault the channel is never found down. `MintFairSpec` is weak fairness of the thread
inside a call; nothing is assumed of clients or of the TEE daemon.

### Proofs

`KeyMintProofs.tla` proves, for any number of objects, handles, descriptors and
faults that satisfy `KeyMintAssumption` (handles are positive, descriptor 0 is
not among those a context may get, `NoObj` is no object):

- `TypeSafe` and `ChannelSafe`: `MintSpec => []TypeOK` and
  `MintSpec => []ChannelIsWhole`;
- `OwnerSafe`: `MintSpec => []OperationHasOwner`;
- `OkSafe`: `MintSpec => []OkMeansDone`;
- `ConfiguredFirst`: `MintSpec => []ServesOnlyConfigured`.

None of them is inductive alone: what a reply may say was decided several steps
before, when the TA answered, and the thread has been through a reset, a
configuration command or a nested abort since. The inductive invariant `IInv`
adds

- `CallInv`: which command may be under way for which call (the caller's own, a
  configuration command before it, or the abort nested in an update, a finish or a
  destruction);
- `ConfigInv`: `initialized` stands for a complete configuration, and an object
  exists only after it;
- `OutcomeInv`: an `OK` on its way back is the TA's for the caller's command;
- `OwnerInv`: a channel that is down has no operations, and otherwise each one is
  owned by an object or by the answer of the begin that is on its way.

One lemma per action shows that it keeps each conjunct; `ConnectIsWhole` is
shared by the two actions that connect. `MintRecovers` is model-checked only.

## How the other components are run

KeyMint and the remaining components are small machines that share no state: each is a
process of its own with its own channel, or data no other component touches. Three
MC modules put them side by side.

| Run | Module | Components |
|---|---|---|
| `tee_client` | `MCTeeClient` | `TeeClient`, `TeecParams` |
| `services` | `MCServices` | `Gatekeeper` (over `TeeClient`), `Keymaster4`, `KmParams`, `KmSetKey`, `TeeiProperty`, `TeeiBoot` |
| `hals` | `MCHals` | `KeyMint`, `TipcKeymaster`, `LiteGatekeeper`, `LiteKmSetKey`, `Rpmb` |

Three more runs on the same instances check one property each that the code
violates: `gatekeeper_overlong`, `boot_overrun` (`MCServices`) and
`lite_gatekeeper_stale` (`MCHals`). They are described with their components, and the
findings in `PROJECT.json` quote what they disagree with.

Each component is extended by its MC module, so that the run and the theorem
speak of one definition; its names are therefore its own (`KmInit`, `kmPc`,
`BootNext`, ...).

The initial state chooses one component (`active`), and a behaviour takes steps
of that component only. The others keep one initial state. The state graph is
the disjoint union of the graphs of the components, each with all of its own
interleavings, so a property of one component holds in the union exactly if it
holds of the component alone: it holds in the fixed initial state the component
keeps while another one runs, which is among its own initial states. A product
would add the order of steps that cannot influence each other, and nothing a
property here could see. For liveness the same holds, since the fairness of
a component is asked for only while it is the active one (`Thread1` to `Thread3`,
`Thread`, `Ta`: the threads of the process that runs, and its TA). The
assumptions on the constants of every instance are evaluated as
`InstanceAssumption`.

## The TEE client library: `TeeClient`, `TeecParams`

`TeeClient` models the objects of `libteec` (`tee_client_api.cpp`) and what they
stand for in the driver; `TeecParams` models the data that the parameters of an
operation carry.

| Model | Code |
|---|---|
| `fds`, `fd`, `contextMap`, `sessionMap`, `sctx`, `sid`, `shm`, `opSession` | descriptors of the process, the fields of the caller's objects, the two maps |
| `call`, `cancel` | the call that waits in the driver, the cancellation that has read a session |
| `kSess`, `kShm`, `mapped` | external: sessions and memory ids of the driver, mappings |
| `TEEC_*`, `teec_open_dev`, `teec_pre_process_*`, `teec_free_temp_refs` | the functions of the same name; `OpenSession` and `InvokeCommand` take two steps, before and after the ioctl |
| `buffer`, `shadow`, `tmpbuf`, `tmpshm`, `value` (`TeecParams`) | the caller's block and its shadow, a temporary reference and its copy, a value |
| `pre_process_operation`, `teec_post_process_operation` (`TeecParams`) | the copies to the TA and back, in the order of the parameters |

`ContextsOwnFiles`, `SessionsOwned` and `MemoryOwned` say that whatever stage of
whatever call fails, each descriptor, driver session and mapping belongs to an
object of the client: nothing is leaked, closed twice or used after it is closed.
`TaSeesInput`, `OutputDelivered` and `RestKept` say that the TA sees the input,
the caller gets the output with its size, and no other byte changes, also for
parameters whose windows overlap and for sizes the TA reports beyond the window.

Bounds: two contexts and two sessions, so that objects can be confused, one
block, three descriptors of which 0 is standard input, an operation with a
temporary and a partial reference; in `TeecParams` two bytes, two parameters,
every direction, and every size up to one beyond the block. The client calls the
library from one thread, as every client in the repository does, and finalizes a
context only when its sessions and memory are gone, as the interface asks.

Cases in which the code does something else, seen while modelling and excluded
by those inputs:

- when an operation fails before its temporary reference is prepared,
  `tee_client_api.cpp:825` releases a reference that was never filled in and
  closes descriptor 0 of the process. `TempFirst` excludes such operations: no
  client in the repository has one;
- a block that was mapped and got no id is not unmapped (`:813`). `IdsAreThere`
  excludes it here, where any block of any client is concerned; the gatekeeper,
  below, is checked and proved with it;
- the loop of `TEEC_FinalizeContext` (`:194`) erases an element and then advances
  from it; it runs only for a context that is finalized with sessions open;
- an open that waits cannot be cancelled, because the operation learns its session
  only afterwards (`:584`, `:661`), and a cancellation that has read the session
  and comes late reaches the next call (`:706`). Nobody in the repository cancels.

`TeeClientProofs.tla` proves, for any number of contexts, sessions, blocks,
descriptors and operations:

- `FilesSafe`: `ContextsOwnFiles`, and `SessionsSafe`: `SessionsOwned`, under
  `TeeClientAssumption` and `TempFirst`;
- `MemorySafe`: `MemoryOwned`, under `IdsAreThere` as well.

The invariant `FileInv` adds to the two properties what a call carries through
the driver: its context is still in the map, an open's session is not yet, and
its temporary references are all made (`CallInv`), so that freeing them closes no
descriptor; and that a live block has its own buffer (`BlockInv`), so that its
release closes none either. `MemoryInv` adds that a mapped block has its id
(`IdInv`). `TempFirst` is needed for the files as well as for the memory: without it a
failing call closes descriptor 0, and the next context is given it.

`TransferProofs.tla` proves `InputSafe`, `OutputSafe` and `RestSafe`
(`TaSeesInput`, `OutputDelivered`, `RestKept`) for buffers of any size and any set of
parameters that lie inside them. The invariant adds that the caller's memory is
what it was when the call was made until the results are copied back, except
that an allocated block has no shadow and is the TA's meanwhile (`CallInv`). The
lemmas say what the copy of a window leaves in each byte, for one parameter and
for two that overlap.

## The other services of the 400 stack

### `Gatekeeper`

`ut_gatekeeper.cpp` over `TeeClient`: each step of `ut_gk_transfer_buff` is
conjoined with the library call it makes, so the two compose exactly. The TA
(external) checks passwords and throttles; its answer overwrites the request in
the shared buffer, and when it throttles it may ask to wait for no time at all.

`OnlyUnnamedLeak`: between calls the HAL holds nothing, whichever step of the
transfer failed, with one exception that the property states exactly. When
`TEE_IOC_SHM_ID` fails after the mapping is made, `TEEC_RegisterSharedMemory` succeeds
all the same, with the id -1; the driver refuses the command, and
`TEEC_ReleaseSharedMemory` returns early for such a block. The mappings left between
calls are those, each of them for good. `SuccessIsTas`: what a call returns is the
TA's word on its own arguments. A token or a handle comes only with the TA's
success, a deletion that returns zero was done, and zero or more without an output
is the TA's throttling: with a timeout of 0 the code is 0 as for a success, and the
output alone tells them apart. `OverlongReachesTa` states the comment "We should
increase fail times in tee, so can't return directly": verify comes back without the
TA's verdict only when memory or the transfer failed. `EveryCallReturns` needs fairness
of the one thread. One user, two short passwords and one long one that begins with one
of them, two places for a mapping, timeouts of 0 and 30.

`gatekeeper_overlong` checks `OverlongFails`, what the message "Will verify fail" says of a
password that is too long, and finds it violated: the first 17 bytes go to the TA,
and if they are the enrolled password a token comes back.

`GatekeeperProofs.tla` proves the three safety properties (`LeakSafe`,
`SuccessSafe`, `OverlongSafe`) for any users, passwords, limit of tries, timeouts, and
any size of the library below, where the temporary references come first (`TempFirst`);
that every mapping has an id is not assumed. `LeakSafe` composes: its invariant `HalInv` is
the library's `FileInv`, `HoldInv`, which says for each label of `ut_gk_transfer_buff`
exactly which context, session, block and call the HAL holds, and `BlocksInv`, that what
is mapped is the block of this transfer and those without an id; a step of the HAL is a
step of the library, so the library's half is taken from `TeeClientProofs`. `AnswerInv`
is for the other two: until the command has run, the buffer has the request for the
caller's arguments, and afterwards an answer whose error is `verdict` and which, without
an error, was made for them. It needs nothing of the library.

### `Keymaster4`, `KmParams`

`Keymaster4` is `main`, the HIDL calls of the 4.0 and 4.1 devices, and the
channel (`beanpod_keymaster_ipc.cpp`). Compared with KeyMint the operations
belong to the client, the TA is configured by `main` alone, and a connection
whose memory cannot be mapped is torn down and then counted as connected
(`beanpod_keymaster_ipc.cpp:81`): the next command crashes the service, and init
starts it again. `OperationHeld`: between calls the TA keeps no operation the
client does not hold. `ResultIsTas`: neither a reset nor the nested abort lends
its success to the caller. `Recovers`: a client that keeps calling is answered
again, the crash included. Three handles and three faults, for the reason given
for KeyMint.

`Keymaster4Proofs.tla` proves `HeldSafe` (`OperationHeld`) and `ResultSafe`
(`ResultIsTas`) for any handles, descriptors and faults. The invariant says that
the channel is there as a whole or not at all, although `handle_` may say
otherwise, and that the TA has operations only while it is there (`ChannelInv`); which
command may be on the channel for which call (`CallInv`); that an operation is
without a holder only until the answer to its begin arrives or its session is
closed (`OwnerInv`); and that an `OK` on its way back is the TA's for the command
of the call (`OutcomeInv`).

`KmParams` is the conversion of key parameters in both directions and the byte
order of tokens, against the reference definitions `Says` and `Reverse`
(`RequestSurvives`): lists of up to two parameters of every type with words of
one bit (every pattern of both words of the union), and fields of one to five
bytes.

`Keymaster4Proofs.tla` proves `ParamsSafe` (`RequestSurvives`) for lists, words and
fields of every size. One parameter that goes to the TA and back says what it said
(`MeaningKept`), and two lists whose parameters say the same one by one say the
same as a whole (`SayTheSame`): `Says` is defined by recursion over the list, and for
two such lists the two recursions are one equation. For the field the invariant
`ParamsInv` says that the bytes outside `first` .. `last` have changed places and
those inside have not, and that the two ends meet in the middle.

### `KmSetKey`

The keybox tool: an importer and a checker that run at the same time and report
through two system properties. `ReportsAreTrue`: the status, the result of an
import and that of a check agree with what the TA holds. A check that another
process runs into, an import or a second check, may find the status that one
wrote in the place of its own; for such a check the property claims only that the
status never says "ok" of a TA without a key. The history variable `overlap` tells
(`Touches` sets it at every step of another process that writes a property or
changes the TA). The test `TEE_PROP_VALUE_MAX-1 > len > 0`
(`ut_km_tac.cpp:254`) compares a truth value with 0 and is modelled as it is
compiled.

`Keymaster4Proofs.tla` also proves `ReportsSafe` (`ReportsAreTrue`) for any number of
imports and checks at a time, names of any length and any number of faults. The
invariant `KeyboxInv` says for each label of an import what of its work is in the TA
(`ImporterInv`), and for each label of a check that what it has read is still so
and, without an overlap, that the status is what it wrote last (`CheckerInv`). A step
of one process is shown to keep the invariant of each other one by
`LeavesOthers`: it never takes the key from the TA, all imports store the same
name, and it changes the status only with `overlap` set for everyone else. It
matters that a second check counts as an overlap too: with imports alone the
step fails for two checks, of which one resets the status that the other has
written.

### The teei daemon: `TeeiProperty`, `TeeiBoot`

`TeeiProperty` models the list of properties at the level of its links:
`property_setting_fn` reads the first entry before it takes the mutex, while the
vfs thread may be in the middle of appending. `handle_vfs_command` is a prebuilt
library, so its side is external. `ListIsWhole` says why that is safe (the
semaphore counts the entries, and only the reader removes any).
`ImplementsQueue` is the refinement: `TeeiProperty` implements `PropertyQueue`,
its fairness included, where `pending` is the list read forward, `current` the
entry taken out and `applied` the property set last. So every request is applied,
once, in order. Three entries let one be appended while one is removed and one
remains.

`TeeiBoot` is the parsing of options, `init_soter_fn` and `load_tee_fn`, with a
crash and restart of the daemon at any point. `TableIsExact` compares what the TEE is
given with what was asked for: the drivers of the command line in their order, as far
as the table reaches, then the built-in one, with a flag that names exactly the TAs.
`AnnouncedIsSo` and `ReadyIsSeen` are about `INIT_OK` and the unlocking of the keymaster for
every order in which the encryption properties are set.

The built-in driver is appended without a test of the bound (`main.c:432`).
`boot_overrun` checks `TableFits`, what the message "Too Much TA Boot" and the test around
it say of the table, and finds it violated. The model follows what is written there:
with 30 entries of 33 characters the table ends at byte 990 and the count lies at
992, so that two characters of the uuid fall into the padding, four make the count
(`CountOverwritten`) and four the flag (`FlagOverwritten`), and the rest runs past the
structure; `unlock_state` may be hit by it. The thread that boots the TEE then logs that
many entries and the process dies of it (`InitTeei`), at every start. `TableIsExact`
includes that such a table does not reach the TEE. The instance has a table of three
entries, a command line that fills it in a build with the built-in driver, and one that
is longer in a build without.

The log files (`get_tee_log`, `rename_last_log`) are compiled only with `SAVE_TEE_LOG`,
which is commented out (`main.c:59`), and are not modelled.

`TeeiDaemonProofs.tla` proves, for every command line and table size,
`TableSafe` (`TableIsExact`) and `AnnouncedSafe` (`AnnouncedIsSo`). The invariant of the
start has the table in one of two shapes, with its count and its flag or overrun by
the built-in driver (`TableInv`); it assumes that the table is shorter than the count
that the overrun leaves behind (`MaxDrvUuids <= CountOverwritten`). `EntriesInv` says that
the options read so far that name a driver have the places they should (`Place`, a
cardinality; `Places` shows that each such option takes the next one), and
`GivenIsExact` that this is what the property asks of a table that is given to the
TEE. What a thread has found is still so when it acts on it
(`ThreadInv`): the TEE stays on, and no property takes back that the data can be read.

For the list `TeeiDaemonProofs.tla` proves, for any number of entries and settings:

- `ListSafe`: `PropertySpec => []ListIsWhole`;
- `QueueRefined`: `PropertySpec => Q!Init /\ [][Q!Next]_(Q!vars)`, the refinement of
  `PropertyQueue` without its fairness.

The inductive invariant `PropertyInv` names the entries that are in the list as a
sequence `q`, and says of it: each forward link leads to the next one, and each
back link to the one before, except the link that `teei_list_add_tail` still has
to set (`Linked`); all are live (`Live`); the entry that is being added is not in
`q` before its forward link is set and is its last afterwards (`Added`); the one
that was read outside the lock is the first, and the one taken out is no longer
in `q` (`Taken`); and `q` is as long as the semaphore counts, with the entry that is
not posted yet and the one that is waited for (`Counted`). `Counted` is why the
early read is safe: it happens only when `q` is not empty, and an append to a list
that is not empty leaves its first entry alone. `WalkIs` shows that reading the list
along its links (`WalkOf`, a recursive function) gives `q`, by an induction over the
set of the positions up to which it does (`SetInduction`); with
it each step on the links is a step of the queue or none (`PropertyStep` for the
invariant, `QueueStep` for the queue). The assumption that `None` is neither thread
is needed: a lock whose owner cannot be told from nobody excludes nobody.

Fairness in `services`: each thread of the process that runs is scheduled.
Nothing is assumed of clients, of vold, of the vfs requests or of the mutex
beyond what the threads' own fairness gives.

## The other services of the lite stack

`TipcKeymaster` is the channel of the lite keymaster over `libtrusty`: requests
cut into messages with a stop bit, answers joined, any error followed by a
reset. `RequestIsWhole` and `AnswerIsOwn`: the TA runs only whole requests, and a
caller gets only the whole answer to its own, wherever an earlier call broke off.
Messages have two bytes and requests up to six, with buffers for five: no byte,
an exact multiple, one more, and too many all occur.

`LiteProofs.tla` proves `AnswerSafe` (`AnswerIsOwn`) and `RequestSafe`
(`RequestIsWhole`) for requests, answers, messages and buffers of every size, any
descriptors and any number of faults. What the two say of the end of a call rests
on what is on the channel in the middle of it, which the invariant `CallInv` states
for each label of `bp_keymaster_call`. While the request is being written, what the
TA has joined is the beginning of the request and the messages on the way are the
pieces that follow, all with the stop bit (`PartSent`); after the last write they
go up to its end, and only the last is without the bit (`AllSent`); once the TA has
run it, what has been read is the beginning of its answer and the messages on the
way are the rest (`HasRun`). Whatever breaks off leaves one of the three, and the
reset that follows leaves none of it: outside a call the channel is empty
(`Quiet`). The lemmas before it are about cutting a sequence into pieces of one
length and joining them (`OpenPieces`, `ClosedPieces`).

`LiteGatekeeper` is the device and its channel, which is never reset. An answer
left behind by a failed read is read by the next call of the same command
(`trusty_gatekeeper_ipc.c:66`). `AnswersInStep` says exactly that: reads that
failed and nothing else leave answers behind; while there are none, a verify that
succeeds was asked about the right password; and a result is always one for the
command that was called. `lite_gatekeeper_stale` checks `VerifiedIsRight`, what
`trusty_gatekeeper.h:50` says of verify, and finds it violated: after a failed read a
verify of a wrong password succeeds with the answer to the right one before it.
`trusty_gatekeeper_call` takes descriptor 0 for no connection; a process that was started
without one and gets it for its channel refuses every call.

`LiteKmSetKey` is `attest_key_install`. `InstalledIsWhole`: success means that the
TA has the whole keybox of this call, and without a fault no length is refused,
the multiple of the message size included, unless the connection has descriptor 0,
which `kmsetkey_call` refuses.

`LiteProofs.tla` also proves `StepSafe` (`AnswersInStep`) for any number of
faults, and `InstallSafe` (`InstalledIsWhole`) for keyboxes and messages of every
length. For the first, the invariant counts: requests and answers on the channel
are those left behind, and one more while a call waits (`OnChannel`), so that with
none left behind the one message is that of the call (`OwnAnswer`). For the second,
what the TA has is the keybox up to `payload_offset` (`Brought`), and at the end of
the loop that is all of it.

`Rpmb` is `rpmb_send`: up to three commands of one ioctl. `TransferIsExact`: a
request that succeeds has written exactly the payload of its message, in order,
and reads fit the buffer. All sizes up to six, with blocks of two bytes, and all
message lengths up to fourteen. The sizes are added as on a 64-bit build.

`TransferProofs.tla` proves `TransferSafe` (`TransferIsExact`) for parts, messages,
buffers and blocks of every size. The invariant `RpmbInv` says for each label of
`rpmb_send` which commands have been put together and which of the sizes have been
checked: the length of the message is that of its parts, each part written so
far is a whole number of blocks, and the read fits. It is by the second that a
command's blocks are exactly the bytes of its part, so that the commands joined
are the payload; the empty parts make no command, which gives four cases.

`ServiceGoesOn`: a client that keeps calling the keymaster is answered again after
the driver stops failing, and every call of the gatekeeper returns. Assumed: the
thread of the service is scheduled, and the TA takes and answers what it is
sent.

## Proved and model-checked

Proved for all constants: every safety property that a run finds to hold, and every
step of the refinement of `PropertyQueue` by `TeeiProperty`. Each theorem states the
very definition that a run checks.

Model-checked only: liveness (`CommitEventuallySucceeds`, `MintRecovers`, `Recovers`,
`EveryCallReturns`, `ServiceGoesOn`, `ReadyIsSeen`) and the fairness that
`ImplementsQueue` asks for. Fairness and `ENABLED` are beyond the proof system.

`CallInv` of `TipcKeymaster` and `PropertyInv` of `TeeiProperty`, the two longest of
the inductive invariants, were model-checked on the instances of the runs before
they were proved.

## Not modelled

- Test programs (`storage/tests`, `libtrusty/tipc-test`), log formatting
  (`libimsg_log`, `teec_trace`) and the trustlet stubs, which have no state that
  matters or no code that runs here.
- Serialisation of messages: the classes come from libraries outside the
  repository, and both ends of each layout are theirs. The devices and channels
  around them are modelled.
- Conversion of certificates and characteristics in the KeyMint service and of
  the results of keymaster 4.x.
- `ut_km_ioctl.cpp`, which no service in the repository uses.
- What the vfs thread of the teei daemon serves, and everything inside the TEE:
  prebuilt. The TA's side of each channel is external, and each module states
  what it assumes of it.
- The log files of the teei daemon, which no build compiles (`SAVE_TEE_LOG`).
- Options and privileges of the processes (`parse_args`, `drop_privs`).
