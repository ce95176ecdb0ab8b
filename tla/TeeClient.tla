----------------------------- MODULE TeeClient -----------------------------
(***************************************************************************)
(* The TEE client library (common/400/optee_client/libteec): contexts,     *)
(* sessions, shared memory and operations, and what they stand for in the  *)
(* driver.  What the parameters of an operation carry is in TeecParams.    *)
(*                                                                         *)
(* The clients in this repository call the library from one thread, so a   *)
(* call is one step, or two when it waits in the driver (OpenSession and   *)
(* InvokeCommand); RequestCancellation comes from a second thread.  The    *)
(* driver is external: it forgets the sessions and the memory ids of a     *)
(* file that is closed.                                                    *)
(***************************************************************************)
EXTENDS Integers, FiniteSets, Sequences

CONSTANTS
  Ctx, Sess, Shm,  \* the caller's TEEC_Context, TEEC_Session and TEEC_SharedMemory
                   \* objects, named by their addresses
  NoSess,          \* the null TEEC_Session pointer
  Fd,              \* descriptor numbers
  SessId,          \* the driver's session ids
  Operation,       \* the caller's TEEC_Operation objects
  NullOp,          \* the null operation pointer
  ParamTypes,      \* their paramTypes: a sequence of parameter kinds for each
  ShmIdResult      \* whether TEE_IOC_SHM_ID may succeed, fail, or either

\* TEEC_CONFIG_PAYLOAD_REF_COUNT; a paramTypes above 0xffff is a longer sequence.
PayloadRefCount == 4
ParamKind == {"none", "value", "temp", "whole", "partial", "bad"}

\* The mappings the library makes for its own temporary references.
TempMap == [n \in 1 .. PayloadRefCount |-> 100 + n]

\* Assumed of the constants.
TeeClientAssumption ==
  /\ Ctx \subseteq Nat \ {0} /\ Sess \subseteq Nat \ {0} /\ Shm \subseteq 1 .. 99
  /\ IsFiniteSet(Sess)
  /\ NoSess \notin Sess
  /\ Fd \subseteq Nat /\ 0 \in Fd /\ IsFiniteSet(Fd)
  /\ NullOp \notin Operation
  /\ ParamTypes \in [Operation \cup {NullOp} -> Seq(ParamKind)]
  /\ ParamTypes[NullOp] = <<>>
  /\ ShmIdResult \subseteq BOOLEAN

VARIABLES
  fds,          \* the process's descriptors: "free", "tee", or "stdin" for 0
  fd,           \* ctx->fd
  contextMap, sessionMap,
  sctx, sid,    \* session->ctx, session->session_id
  shm,          \* the caller's blocks
  opSession,    \* operation->session
  call,         \* the call that waits in the driver
  cancel,       \* the cancellation in progress: the session it has read
  phase,        \* "running", "exited", or "crashed" past the end of a map
  \* the driver's side
  kSess,        \* open sessions: <<descriptor, id>>
  kShm,         \* memory ids: <<descriptor, id>>
  mapped        \* mappings of the process

ctxVars   == <<fds, fd, contextMap>>
sessVars  == <<sessionMap, sctx, sid>>
memVars   == <<shm, mapped, kShm>>
vars == <<ctxVars, sessVars, memVars, opSession, call, cancel, phase, kSess>>

NoCall   == [fn |-> "none"]
NoCancel == [op |-> NullOp, s |-> NoSess]

\* A TEEC_SharedMemory after memset: a null buffer, id 0 and descriptor 0.
ZeroShm == [buffer |-> 0, shadow_buffer |-> 0, id |-> 0, registered_fd |-> 0]

Init ==
  /\ fds = [f \in Fd |-> IF f = 0 THEN "stdin" ELSE "free"]
  /\ fd = [c \in Ctx |-> 0] /\ contextMap = {}
  /\ sessionMap = {} /\ sctx = [s \in Sess |-> 0] /\ sid = [s \in Sess |-> 0]
  /\ shm = [b \in Shm |-> ZeroShm] /\ mapped = {}
  /\ opSession = [o \in Operation |-> NoSess]
  /\ call = NoCall /\ cancel = NoCancel /\ phase = "running"
  /\ kSess = {} /\ kShm = {}

-----------------------------------------------------------------------------
(***************************************************************************)
(* Contexts.                                                               *)
(***************************************************************************)
FreeFd  == {f \in Fd : fds[f] = "free"}

\* What open returns: the lowest descriptor that is free, or -1 if none is.
NextFd  == IF FreeFd = {} THEN {-1} ELSE {f \in FreeFd : \A g \in FreeFd : f <= g}

\* How far teec_open_dev gets with a device.
OpenStage == {"open", "version", "capabilities", "hostname", "done"}

\* Mutant of teec_open_dev: a device that is no GP TEE is left open.
teec_open_dev_leaks(f, stage) ==
  IF stage \in {"done", "capabilities"} THEN [fds EXCEPT ![f] = "tee"] ELSE fds

\* The descriptors after an attempt on a device: the error path closes f.
teec_open_dev(f, stage) ==
  IF stage = "done" THEN [fds EXCEPT ![f] = "tee"] ELSE fds

\* The devices are tried in turn; ok when one of them answers.
TEEC_InitializeContext(c, ok) ==
  /\ call = NoCall
  /\ \E f \in NextFd, stage \in OpenStage :
       /\ ok <=> stage = "done"
       /\ f < 0 => stage = "open"
       /\ fds' = teec_open_dev(f, stage)
       /\ fd' = IF ok THEN [fd EXCEPT ![c] = f] ELSE fd
  /\ contextMap' = IF ok THEN contextMap \cup {c} ELSE contextMap
  /\ UNCHANGED <<sessVars, memVars, opSession, call, cancel, phase, kSess>>

\* What closing a set of descriptors leaves of sessions and memory ids.
OnOther(K, F) == {k \in K : k[1] \notin F}

\* The loop of TEEC_FinalizeContext over the sessions in address order: after
\* an erase the iterator already stands on the next one and is then advanced,
\* so that the one after a session that is closed is not looked at.
FinalizeLoop(c) ==
  LET mine        == {s \in sessionMap : sctx[s] = c}
      After(s, t) == t < s /\ \A u \in sessionMap : u <= t \/ u >= s
      closed      == CHOOSE E \in SUBSET mine :
                       \A s \in mine : s \in E <=> ~\E t \in E : After(s, t)
  IN  [closed |-> closed, pastEnd |-> \E s \in closed : \A t \in sessionMap : t <= s]

\* The session in the driver a TEEC_Session names.
KernelSession(s) == <<fd[sctx[s]], sid[s]>>

\* The sessions the loop closes, then the file, if the context is in the map.
TEEC_FinalizeContext(c) ==
  /\ call = NoCall
  /\ LET loop == FinalizeLoop(c)
         F    == IF c \in contextMap THEN {fd[c]} ELSE {}
     IN  /\ sessionMap' = sessionMap \ loop.closed
         /\ kSess' = OnOther(kSess \ {KernelSession(s) : s \in loop.closed}, F)
         /\ phase' \in IF loop.pastEnd THEN {"running", "crashed"} ELSE {"running"}
         /\ fds' = [f \in Fd |-> IF f \in F THEN "free" ELSE fds[f]]
         /\ kShm' = OnOther(kShm, F)
  /\ contextMap' = contextMap \ {c}
  /\ UNCHANGED <<fd, sctx, sid, shm, mapped, opSession, call, cancel>>

\* ~Common, when the process exits: the sessions, then the contexts.
DestroyCommon ==
  /\ call = NoCall
  /\ LET F == {fd[c] : c \in contextMap}
     IN  /\ kSess' = OnOther(kSess \ {KernelSession(s) : s \in sessionMap}, F)
         /\ kShm' = OnOther(kShm, F)
         /\ fds' = [f \in Fd |-> IF f \in F THEN "free" ELSE fds[f]]
  /\ sessionMap' = {} /\ contextMap' = {} /\ phase' = "exited"
  /\ UNCHANGED <<fd, sctx, sid, shm, mapped, opSession, call, cancel>>

-----------------------------------------------------------------------------
(***************************************************************************)
(* Shared memory.                                                          *)
(***************************************************************************)
\* The block is a mapping of the device; its id is asked for afterwards.
TEEC_AllocateSharedMemory(c, b, ok) ==
  /\ call = NoCall
  /\ \/ /\ ok
        /\ mapped' = mapped \cup {b}
        /\ \E got \in ShmIdResult :
             /\ shm' = [shm EXCEPT ![b] = [buffer |-> b, shadow_buffer |-> 0,
                                           id |-> IF got THEN b ELSE -1,
                                           registered_fd |-> fd[c]]]
             /\ kShm' = IF got THEN kShm \cup {<<fd[c], b>>} ELSE kShm
     \/ /\ ~ok
        /\ shm' = [shm EXCEPT ![b].id = -1]
        /\ UNCHANGED <<mapped, kShm>>
  /\ UNCHANGED <<ctxVars, sessVars, opSession, call, cancel, phase, kSess>>

\* The caller's buffer stays; the mapping is its shadow.
TEEC_RegisterSharedMemory(c, b, ok) ==
  /\ call = NoCall
  /\ \/ /\ ok
        /\ mapped' = mapped \cup {b}
        /\ \E got \in ShmIdResult :
             /\ shm' = [shm EXCEPT ![b] = [buffer |-> b, shadow_buffer |-> b,
                                           id |-> IF got THEN b ELSE -1,
                                           registered_fd |-> fd[c]]]
             /\ kShm' = IF got THEN kShm \cup {<<fd[c], b>>} ELSE kShm
     \/ /\ ~ok
        /\ shm' = [shm EXCEPT ![b].id = -1]
        /\ UNCHANGED <<mapped, kShm>>
  /\ UNCHANGED <<ctxVars, sessVars, opSession, call, cancel, phase, kSess>>

\* The blocks of R that TEEC_ReleaseSharedMemory does not return early for,
\* the descriptors it closes, and the mappings it removes.
Releasable(R) == {r \in R : r.id # -1 /\ r.registered_fd >= 0}
ClosedBy(R)   == {r.registered_fd :
                  r \in {q \in Releasable(R) : q.shadow_buffer = 0 /\ q.buffer = 0}}
UnmappedBy(R) == {IF r.shadow_buffer # 0 THEN r.shadow_buffer ELSE r.buffer :
                  r \in Releasable(R)}
IdsOf(R)      == {<<r.registered_fd, r.id>> : r \in Releasable(R)}

\* TEEC_ReleaseSharedMemory of every block in R, as far as it concerns the
\* process, whose mappings are M, and the driver.
ReleaseAll(R, M) ==
  /\ fds'    = [f \in Fd |-> IF f \in ClosedBy(R) THEN "free" ELSE fds[f]]
  /\ mapped' = M \ UnmappedBy(R)
  /\ kShm'   = OnOther(kShm \ IdsOf(R), ClosedBy(R))

Released(r) ==
  IF r \notin Releasable({r}) THEN r
  ELSE [buffer |-> IF r.shadow_buffer = 0 THEN 0 ELSE r.buffer,
        shadow_buffer |-> 0, id |-> -1, registered_fd |-> -1]

TEEC_ReleaseSharedMemory(b) ==
  /\ call = NoCall
  /\ ReleaseAll({shm[b]}, mapped)
  /\ shm' = [shm EXCEPT ![b] = Released(@)]
  /\ kSess' = OnOther(kSess, ClosedBy({shm[b]}))
  /\ UNCHANGED <<fd, contextMap, sessVars, opSession, call, cancel, phase>>

-----------------------------------------------------------------------------
(***************************************************************************)
(* Operations.                                                             *)
(***************************************************************************)
Kinds(o) == ParamTypes[o]
Temps(o) == {n \in 1 .. PayloadRefCount : n <= Len(Kinds(o)) /\ Kinds(o)[n] = "temp"}
TooWide(o) == Len(Kinds(o)) > PayloadRefCount

\* How many parameters teec_pre_process_operation may get through: it stops at
\* one that is malformed or whose memory cannot be had.
MayProcess(o) ==
  IF TooWide(o) THEN {0}
  ELSE {n \in 0 .. Len(Kinds(o)) :
          /\ \A m \in 1 .. n : Kinds(o)[m] # "bad"
          /\ n < Len(Kinds(o)) => Kinds(o)[n + 1] \notin {"none", "value"}}
Succeeded(o, n) == ~TooWide(o) /\ n = Len(Kinds(o))

\* One local block of the call, filled in by teec_pre_process_tmpref.
teec_pre_process_tmpref(c, m, got) ==
  [buffer |-> TempMap[m], shadow_buffer |-> 0,
   id |-> IF got THEN TempMap[m] ELSE -1, registered_fd |-> fd[c]]

\* The local blocks after teec_pre_process_operation got through n parameters:
\* zero where it did not come, no id where the mapping failed.
teec_pre_process_operation(c, o, n, got) ==
  [m \in 1 .. PayloadRefCount |->
     IF m \notin Temps(o) \/ TooWide(o) \/ m > n + 1 THEN ZeroShm
     ELSE IF m = n + 1 THEN [ZeroShm EXCEPT !.id = -1]
     ELSE teec_pre_process_tmpref(c, m, got)]

\* The blocks teec_free_temp_refs releases.
teec_free_temp_refs(o, locals) == {locals[m] : m \in Temps(o)}

MappedIn(locals) == {locals[m].buffer : m \in 1 .. PayloadRefCount} \ {0}

\* The part of OpenSession and InvokeCommand up to the ioctl: either a
\* parameter fails and what was set up is released, or the driver is entered.
Enter(fn, c, s, o, n, got) ==
  LET locals == teec_pre_process_operation(c, o, n, got)
      R      == teec_free_temp_refs(o, locals)
  IN  \/ /\ Succeeded(o, n)
         /\ call' = [fn |-> fn, ctx |-> c, s |-> s, op |-> o, locals |-> locals]
         /\ mapped' = mapped \cup MappedIn(locals)
         /\ kShm' = kShm \cup IdsOf(R)
         /\ UNCHANGED <<fds, kSess>>
      \/ /\ ~Succeeded(o, n)
         /\ ReleaseAll(R, mapped \cup MappedIn(locals))
         /\ kSess' = OnOther(kSess, ClosedBy(R))
         /\ UNCHANGED call

TEEC_OpenSession(c, s, o) ==
  /\ call = NoCall
  /\ \E n \in MayProcess(o), got \in ShmIdResult : Enter("open", c, s, o, n, got)
  /\ UNCHANGED <<fd, contextMap, sessVars, shm, opSession, cancel, phase>>

\* operation->session is set under teec_mutex before anything else.
TEEC_InvokeCommand(s, o) ==
  /\ call = NoCall
  /\ opSession' = IF o = NullOp THEN opSession ELSE [opSession EXCEPT ![o] = s]
  /\ \E n \in MayProcess(o), got \in ShmIdResult : Enter("invoke", sctx[s], s, o, n, got)
  /\ UNCHANGED <<fd, contextMap, sessVars, shm, cancel, phase>>

\* Mutant of OpenSessionReturns: the session is entered in the map only after
\* an operation that had parameters.
OpenSessionReturns_unmapped(ok) ==
  /\ call.fn = "open"
  /\ ReleaseAll(teec_free_temp_refs(call.op, call.locals), mapped)
  /\ \/ /\ ok
        /\ \E k \in SessId :
             /\ <<fd[call.ctx], k>> \notin kSess
             /\ kSess' = kSess \cup {<<fd[call.ctx], k>>}
             /\ sid' = [sid EXCEPT ![call.s] = k]
        /\ sctx' = [sctx EXCEPT ![call.s] = call.ctx]
        /\ sessionMap' = IF call.op = NullOp THEN sessionMap ELSE sessionMap \cup {call.s}
     \/ /\ ~ok
        /\ UNCHANGED <<kSess, sessVars>>
  /\ call' = NoCall
  /\ UNCHANGED <<fd, contextMap, shm, opSession, cancel, phase>>

\* OpenSession from the ioctl on: the session exists, or the driver or the TA
\* refused it.
OpenSessionReturns(ok) ==
  /\ call.fn = "open"
  /\ ReleaseAll(teec_free_temp_refs(call.op, call.locals), mapped)
  /\ \/ /\ ok
        /\ \E k \in SessId :
             /\ <<fd[call.ctx], k>> \notin kSess
             /\ kSess' = kSess \cup {<<fd[call.ctx], k>>}
             /\ sid' = [sid EXCEPT ![call.s] = k]
        /\ sctx' = [sctx EXCEPT ![call.s] = call.ctx]
        /\ sessionMap' = sessionMap \cup {call.s}
     \/ /\ ~ok
        /\ UNCHANGED <<kSess, sessVars>>
  /\ call' = NoCall
  /\ UNCHANGED <<fd, contextMap, shm, opSession, cancel, phase>>

\* Mutant of InvokeCommandReturns: the temporary references are freed only
\* when the driver has accepted the call.
InvokeCommandReturns_early(ok) ==
  /\ call.fn = "invoke"
  /\ IF ok THEN ReleaseAll(teec_free_temp_refs(call.op, call.locals), mapped)
     ELSE UNCHANGED <<fds, mapped, kShm>>
  /\ call' = NoCall
  /\ UNCHANGED <<fd, contextMap, sessVars, shm, opSession, cancel, phase, kSess>>

\* InvokeCommand from the ioctl on.
InvokeCommandReturns(ok) ==
  /\ call.fn = "invoke"
  /\ ok => KernelSession(call.s) \in kSess
  /\ ReleaseAll(teec_free_temp_refs(call.op, call.locals), mapped)
  /\ call' = NoCall
  /\ UNCHANGED <<fd, contextMap, sessVars, shm, opSession, cancel, phase, kSess>>

\* Only a session in the map is closed.
TEEC_CloseSession(s) ==
  /\ call = NoCall
  /\ sessionMap' = sessionMap \ {s}
  /\ kSess' = IF s \in sessionMap THEN kSess \ {KernelSession(s)} ELSE kSess
  /\ UNCHANGED <<ctxVars, sctx, sid, memVars, opSession, call, cancel, phase>>

\* TEEC_RequestCancellation up to the unlock, for an operation that has a
\* session, and from there on: the ioctl names whatever the session object
\* then holds.
RequestCancellation(o) ==
  /\ cancel = NoCancel
  /\ opSession[o] # NoSess
  /\ cancel' = [op |-> o, s |-> opSession[o]]
  /\ UNCHANGED <<ctxVars, sessVars, memVars, opSession, call, phase, kSess>>

SendCancel ==
  /\ cancel # NoCancel
  /\ cancel' = NoCancel
  /\ UNCHANGED <<ctxVars, sessVars, memVars, opSession, call, phase, kSess>>

-----------------------------------------------------------------------------
(***************************************************************************)
(* The callers.                                                            *)
(***************************************************************************)
\* The context of a live block.
ContextOf(b) == {c \in contextMap : shm[b].id # -1 /\ shm[b].registered_fd = fd[c]}

\* TEEC_FinalizeContext "must only be called when all sessions related to this
\* TEE context have been closed and all shared memory blocks have been
\* released" (tee_client_api.h).
MayFinalize(c) ==
  /\ \A s \in sessionMap : sctx[s] # c
  /\ \A b \in Shm : c \notin ContextOf(b)

\* A new process.
Restart ==
  /\ phase # "running"
  /\ fds' = [f \in Fd |-> IF f = 0 THEN "stdin" ELSE "free"]
  /\ fd' = [c \in Ctx |-> 0] /\ contextMap' = {}
  /\ sessionMap' = {} /\ sctx' = [s \in Sess |-> 0] /\ sid' = [s \in Sess |-> 0]
  /\ shm' = [b \in Shm |-> ZeroShm] /\ mapped' = {}
  /\ opSession' = [o \in Operation |-> NoSess]
  /\ call' = NoCall /\ cancel' = NoCancel /\ phase' = "running"
  /\ kSess' = {} /\ kShm' = {}

\* The calls of a client thread that initialises an object before it uses it
\* and reuses one only after it has ended it.
ClientCall ==
  \/ \E c \in Ctx \ contextMap, ok \in BOOLEAN : TEEC_InitializeContext(c, ok)
  \/ \E c \in contextMap :
       \/ \E s \in Sess \ sessionMap, o \in Operation \cup {NullOp} : TEEC_OpenSession(c, s, o)
       \/ \E b \in Shm \ mapped, ok \in BOOLEAN :
            \/ TEEC_AllocateSharedMemory(c, b, ok)
            \/ TEEC_RegisterSharedMemory(c, b, ok)
  \/ \E b \in mapped \cap Shm : TEEC_ReleaseSharedMemory(b)
  \/ \E ok \in BOOLEAN : OpenSessionReturns(ok) \/ InvokeCommandReturns(ok)
  \/ \E s \in sessionMap, o \in Operation \cup {NullOp} : TEEC_InvokeCommand(s, o)
  \/ \E s \in Sess : TEEC_CloseSession(s)
  \/ DestroyCommon

Cancellation == SendCancel \/ \E o \in Operation : RequestCancellation(o)

\* A client that follows the documented order.
Next ==
  \/ /\ phase = "running"
     /\ ClientCall \/ Cancellation \/ \E c \in Ctx : MayFinalize(c) /\ TEEC_FinalizeContext(c)
  \/ Restart

Spec == Init /\ [][Next]_vars

-----------------------------------------------------------------------------
(***************************************************************************)
(* Assumed of the callers and the driver where a property needs it.        *)
(***************************************************************************)
\* A temporary reference comes after no parameter that may fail: what is
\* released after such a failure has not been set, and its descriptor is 0.
TempFirst ==
  \A o \in Operation : \A m \in Temps(o) :
    ~TooWide(o) /\ \A k \in 1 .. m - 1 : Kinds(o)[k] \in {"none", "value"}

\* The driver has an id for every mapping: a block without one is never
\* released.
IdsAreThere == ShmIdResult \subseteq {TRUE}

-----------------------------------------------------------------------------
(***************************************************************************)
(* Properties.                                                             *)
(***************************************************************************)
\* The device files the process holds are exactly those of the contexts in the
\* map, each with its own: no path of InitializeContext or FinalizeContext
\* loses a descriptor or closes one twice.
ContextsOwnFiles ==
  /\ {f \in Fd : fds[f] = "tee"} = {fd[c] : c \in contextMap}
  /\ \A c, d \in contextMap : fd[c] = fd[d] => c = d

\* The sessions open in the driver are exactly those of the session map, each
\* held by one TEEC_Session: OpenSession enters every session it got, and
\* CloseSession and FinalizeContext close what they drop.
SessionsOwned ==
  /\ kSess = {KernelSession(s) : s \in sessionMap}
  /\ \A s, t \in sessionMap : KernelSession(s) = KernelSession(t) => s = t

\* The mappings of the temporary references of the call in progress.
TempMaps == IF call = NoCall THEN {} ELSE MappedIn(call.locals)

\* The mappings and memory ids are those of the caller's live blocks and of
\* the temporary references of the call in progress; a temporary reference
\* does not outlive its operation on any path.
MemoryOwned ==
  phase = "running" =>
    /\ mapped = {b \in Shm : shm[b].buffer # 0 /\ shm[b].id # -1} \cup TempMaps
    /\ kShm = {<<shm[b].registered_fd, b>> : b \in mapped \cap Shm}
              \cup {<<fd[call.ctx], t>> : t \in TempMaps}
    /\ \A b \in mapped \cap Shm : fds[shm[b].registered_fd] = "tee"
=============================================================================
