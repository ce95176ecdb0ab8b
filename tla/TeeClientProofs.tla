-------------------------- MODULE TeeClientProofs --------------------------
(***************************************************************************)
(* The client library (TeeClient), proved to keep its books with the       *)
(* driver for any number of contexts, sessions, blocks, descriptors and    *)
(* operations.                                                             *)
(***************************************************************************)
EXTENDS TeeClient, TLAPS

-----------------------------------------------------------------------------
(***************************************************************************)
(* The inductive invariants of the library.                                *)
(***************************************************************************)
TempAddr == {TempMap[m] : m \in 1 .. PayloadRefCount}

TypeInv ==
  /\ fds \in [Fd -> {"free", "tee", "stdin"}]
  /\ \A f \in Fd : fds[f] = "stdin" <=> f = 0
  /\ fd \in [Ctx -> Fd] /\ contextMap \subseteq Ctx
  /\ sessionMap \subseteq Sess /\ sctx \in [Sess -> Ctx \cup {0}] /\ sid \in [Sess -> SessId \cup {0}]
  /\ shm \in [Shm -> [buffer : Int, shadow_buffer : Int, id : Int, registered_fd : Int]]
  /\ mapped \subseteq Shm \cup TempAddr
  /\ phase \in {"running", "exited"}

\* A session in the map is of a context in the map.
SessionInv == SessionsOwned /\ \A s \in sessionMap : sctx[s] \in contextMap

\* A block that is mapped has its buffer, and its release closes no file.
BlockInv == \A b \in mapped \cap Shm : shm[b].buffer = b /\ shm[b].shadow_buffer \in {0, b}

\* The call in the driver has all of its temporary references.
CallInv ==
  call # NoCall =>
    /\ call.ctx \in contextMap
    /\ call.op \in Operation \cup {NullOp}
    /\ call.fn = "open" => call.s \in Sess \ sessionMap
    /\ \E n \in MayProcess(call.op), got \in ShmIdResult :
         /\ Succeeded(call.op, n)
         /\ call.locals = teec_pre_process_operation(call.ctx, call.op, n, got)
    /\ phase = "running"

FileInv == TypeInv /\ ContextsOwnFiles /\ SessionInv /\ BlockInv /\ CallInv

\* A mapped block has its id, on the file of a context.
IdInv ==
  phase = "running" =>
    \A b \in mapped \cap Shm : shm[b].id = b /\ shm[b].registered_fd \in Fd

MemoryInv == MemoryOwned /\ IdInv

-----------------------------------------------------------------------------
(***************************************************************************)
(* Lemmas on the operators.                                                *)
(***************************************************************************)
\* A descriptor open returns was free.
LEMMA NextFdIsFree == ASSUME NEW f \in NextFd, ~(f < 0) PROVE f \in FreeFd
BY DEF NextFd

\* Closing nothing loses nothing.
LEMMA OnOtherNone == ASSUME NEW K PROVE OnOther(K, {}) = K
BY DEF OnOther

\* The addresses the library maps its temporary references at are not blocks
\* of the caller.
LEMMA TempsApart == ASSUME TeeClientAssumption PROVE Shm \cap TempAddr = {} /\ 0 \notin TempAddr
BY DEF TeeClientAssumption, TempAddr, TempMap, PayloadRefCount

\* A context that has no session in the map loses none in the loop.
LEMMA NothingToClose ==
  ASSUME NEW c, \A s \in sessionMap : sctx[s] # c
  PROVE FinalizeLoop(c).closed = {} /\ ~FinalizeLoop(c).pastEnd
<1> DEFINE mine == {s \in sessionMap : sctx[s] = c}
           After(s, t) == t < s /\ \A u \in sessionMap : u <= t \/ u >= s
           Loop(E) == \A s \in mine : s \in E <=> ~\E t \in E : After(s, t)
           closed == CHOOSE E \in SUBSET mine : Loop(E)
<1>1. mine = {}
  OBVIOUS
<1>2. {} \in SUBSET mine /\ Loop({})
  BY <1>1
<1> HIDE DEF Loop
<1>3. closed \in SUBSET mine
  BY <1>2
<1>4. closed = {}
  BY <1>1, <1>3
<1>5. FinalizeLoop(c) = [closed |-> closed, pastEnd |-> \E s \in closed : \A t \in sessionMap : t <= s]
  BY DEF FinalizeLoop, Loop
<1> HIDE DEF closed
<1> QED BY <1>4, <1>5

-----------------------------------------------------------------------------
(***************************************************************************)
(* The temporary references of a call.                                     *)
(***************************************************************************)
\* A parameter that is a temporary reference has been got through, or is the
\* one that failed.
LEMMA TempsReached ==
  ASSUME TeeClientAssumption, TempFirst, NEW o \in Operation \cup {NullOp},
         NEW n \in MayProcess(o), NEW m \in Temps(o)
  PROVE ~TooWide(o) /\ m \in 1 .. PayloadRefCount /\ m <= n + 1 /\ n \in Nat
<1>1. Kinds(o) \in Seq(ParamKind) /\ Len(Kinds(o)) \in Nat
  BY DEF TeeClientAssumption, Kinds
<1>2. m \in 1 .. PayloadRefCount /\ m <= Len(Kinds(o)) /\ m \in Nat
  BY DEF Temps, PayloadRefCount
<1>3. o \in Operation
  BY <1>2 DEF TeeClientAssumption, Kinds, PayloadRefCount
<1>4. ~TooWide(o) /\ \A k \in 1 .. m - 1 : Kinds(o)[k] \in {"none", "value"}
  BY <1>3 DEF TempFirst
<1>5. n \in Nat /\ (n < Len(Kinds(o)) => Kinds(o)[n + 1] \notin {"none", "value"})
  BY <1>1, <1>4 DEF MayProcess
<1>6. m <= n + 1
  <2> SUFFICES ASSUME n + 1 < m PROVE FALSE
    BY <1>2, <1>5
  <2>1. n + 1 \in 1 .. m - 1 /\ n < Len(Kinds(o))
    BY <1>1, <1>2, <1>5
  <2> QED BY <1>4, <1>5, <2>1
<1> QED BY <1>2, <1>4, <1>5, <1>6

\* The local blocks, one by one.
LEMMA LocalBlock ==
  ASSUME TeeClientAssumption, TempFirst, NEW c, NEW o \in Operation \cup {NullOp},
         NEW n \in MayProcess(o), NEW got, NEW m \in 1 .. PayloadRefCount
  PROVE LET b == teec_pre_process_operation(c, o, n, got)[m]
        IN  /\ m \notin Temps(o) => b = ZeroShm
            /\ m \in Temps(o) /\ m = n + 1 => b = [ZeroShm EXCEPT !.id = -1]
            /\ m \in Temps(o) /\ m # n + 1 => b = teec_pre_process_tmpref(c, m, got)
<1>1. CASE m \notin Temps(o)
  BY <1>1 DEF teec_pre_process_operation
<1>2. CASE m \in Temps(o)
  <2>1. ~TooWide(o) /\ m <= n + 1 /\ n \in Nat /\ m \in Nat
    BY <1>2, TempsReached DEF PayloadRefCount
  <2>2. ~(m > n + 1)
    BY <2>1
  <2> QED BY <1>2, <2>1, <2>2 DEF teec_pre_process_operation
<1> QED BY <1>1, <1>2

\* What is mapped for the call, and what teec_free_temp_refs does with it: it
\* closes no file, unmaps only what the library has mapped, and where every
\* mapping has an id, all of it.
TempsFreed(c, o, locals, got) ==
  LET R == teec_free_temp_refs(o, locals)
  IN  /\ ClosedBy(R) = {}
      /\ MappedIn(locals) \subseteq TempAddr
      /\ UnmappedBy(R) \subseteq MappedIn(locals)
      /\ got => /\ UnmappedBy(R) = MappedIn(locals)
                /\ IdsOf(R) = {<<fd[c], t>> : t \in MappedIn(locals)}

\* The references an operation has made are given back, whichever of them was
\* the last to be made.
LEMMA LocalBlocks ==
  ASSUME TeeClientAssumption, TempFirst, NEW c \in Ctx, fd[c] \in Fd,
         NEW o \in Operation \cup {NullOp},
         NEW n \in MayProcess(o), NEW got \in ShmIdResult
  PROVE TempsFreed(c, o, teec_pre_process_operation(c, o, n, got), got)
<1> DEFINE locals == teec_pre_process_operation(c, o, n, got)
           R == teec_free_temp_refs(o, locals)
           Done == {m \in Temps(o) : m # n + 1}
<1>1. Temps(o) \subseteq 1 .. PayloadRefCount
  BY DEF Temps
<1>2. \A m \in 1 .. PayloadRefCount : TempMap[m] = 100 + m /\ TempMap[m] \in Int /\ TempMap[m] # 0
  BY DEF TempMap, PayloadRefCount
<1>3. \A m \in 1 .. PayloadRefCount :
        /\ m \notin Temps(o) => locals[m] = ZeroShm
        /\ m \in Temps(o) /\ m = n + 1 => locals[m] = [ZeroShm EXCEPT !.id = -1]
        /\ m \in Temps(o) /\ m # n + 1 => locals[m] = teec_pre_process_tmpref(c, m, got)
  BY LocalBlock
<1>4. fd[c] \in Nat /\ got \in BOOLEAN
  BY Zenon DEF TeeClientAssumption
<1> HIDE DEF locals
<1>5. \A m \in 1 .. PayloadRefCount : m \notin Done => locals[m].buffer = 0
  BY <1>3 DEF ZeroShm
<1>6. \A m \in Temps(o) : m \notin Done => locals[m].id = -1
  BY <1>1, <1>3 DEF ZeroShm
<1>7. \A m \in Done : /\ locals[m].buffer = TempMap[m] /\ locals[m].shadow_buffer = 0
                      /\ locals[m].registered_fd = fd[c]
                      /\ locals[m].id = IF got THEN TempMap[m] ELSE -1
  <2> SUFFICES ASSUME NEW m \in Done
               PROVE /\ locals[m].buffer = TempMap[m] /\ locals[m].shadow_buffer = 0
                     /\ locals[m].registered_fd = fd[c]
                     /\ locals[m].id = IF got THEN TempMap[m] ELSE -1
    OBVIOUS
  <2>1. locals[m] = teec_pre_process_tmpref(c, m, got)
    BY <1>1, <1>3
  <2> QED BY <2>1 DEF teec_pre_process_tmpref
<1> HIDE DEF Done
<1>8. Done \subseteq Temps(o)
  BY DEF Done
<1>9. MappedIn(locals) = {TempMap[m] : m \in Done}
  BY <1>1, <1>2, <1>5, <1>7, <1>8 DEF MappedIn
<1>10. MappedIn(locals) \subseteq TempAddr
  BY <1>1, <1>8, <1>9 DEF TempAddr
<1>11. Releasable(R) \subseteq {locals[m] : m \in Done}
  BY <1>6 DEF Releasable, teec_free_temp_refs
<1>12. ClosedBy(R) = {}
  BY <1>1, <1>2, <1>7, <1>8, <1>11 DEF ClosedBy
<1>13. UnmappedBy(R) \subseteq MappedIn(locals)
  BY <1>7, <1>9, <1>11 DEF UnmappedBy
<1>14. ASSUME got
       PROVE /\ UnmappedBy(R) = MappedIn(locals)
             /\ IdsOf(R) = {<<fd[c], t>> : t \in MappedIn(locals)}
  <2>1. \A m \in Done : locals[m] \in R /\ locals[m].id = TempMap[m] /\ TempMap[m] # -1
    BY <1>1, <1>2, <1>7, <1>8, <1>14 DEF teec_free_temp_refs
  <2>2. Releasable(R) = {locals[m] : m \in Done}
    BY <1>4, <1>7, <1>11, <2>1 DEF Releasable
  <2> HIDE DEF R
  <2>3. UnmappedBy(R) = {TempMap[m] : m \in Done}
    BY <1>7, <2>2 DEF UnmappedBy
  <2>4. IdsOf(R) = {<<fd[c], TempMap[m]>> : m \in Done}
    BY <1>7, <2>1, <2>2 DEF IdsOf
  <2> QED BY <1>9, <2>3, <2>4
<1> HIDE DEF R
<1>15. TempsFreed(c, o, locals, got)
  BY <1>10, <1>12, <1>13, <1>14 DEF TempsFreed, R
<1> QED BY <1>15 DEF locals

\* Releasing blocks that close no file leaves the files and their sessions.
LEMMA ReleaseKeepsFiles ==
  ASSUME TypeInv, NEW R, NEW M, ReleaseAll(R, M), ClosedBy(R) = {}
  PROVE fds' = fds /\ mapped' = M \ UnmappedBy(R) /\ kShm' = kShm \ IdsOf(R)
<1>1. fds' = fds
  BY DEF TypeInv, ReleaseAll
<1> QED BY <1>1, OnOtherNone DEF ReleaseAll

-----------------------------------------------------------------------------
(***************************************************************************)
(* FileInv is kept by every step.                                          *)
(***************************************************************************)
\* A step that leaves the files and the contexts leaves who owns what.
LEMMA FilesStay ==
  ASSUME ContextsOwnFiles, UNCHANGED <<fds, fd, contextMap>>
  PROVE ContextsOwnFiles'
BY DEF ContextsOwnFiles

\* The sessions are owned as before where nothing of them changes.
LEMMA SessionsOwnedStay ==
  ASSUME SessionsOwned, UNCHANGED <<fd, sessionMap, sctx, sid, kSess>>
  PROVE SessionsOwned'
BY DEF SessionsOwned, KernelSession

\* The same for all that is known of the sessions.
LEMMA SessionsStay ==
  ASSUME SessionInv, UNCHANGED <<fd, contextMap, sessionMap, sctx, sid, kSess>>
  PROVE SessionInv'
BY SessionsOwnedStay DEF SessionInv

\* A new process has nothing.
LEMMA FileInit == ASSUME TeeClientAssumption, Init PROVE FileInv /\ MemoryInv
<1>1. TypeInv
  BY DEF Init, TypeInv, ZeroShm, TeeClientAssumption
<1>2. ContextsOwnFiles /\ SessionInv
  BY DEF Init, ContextsOwnFiles, SessionInv, SessionsOwned
<1>3. BlockInv /\ CallInv /\ IdInv
  BY DEF Init, BlockInv, CallInv, IdInv
<1>4. MemoryOwned
  BY DEF Init, MemoryOwned, TempMaps, ZeroShm
<1> QED BY <1>1, <1>2, <1>3, <1>4 DEF FileInv, MemoryInv

\* A new process has nothing.
LEMMA RestartKeeps == ASSUME TeeClientAssumption, Restart PROVE FileInv' /\ MemoryInv'
<1>1. TypeInv'
  BY DEF Restart, TypeInv, ZeroShm, TeeClientAssumption
<1>2. ContextsOwnFiles' /\ SessionInv'
  BY DEF Restart, ContextsOwnFiles, SessionInv, SessionsOwned
<1>3. BlockInv' /\ CallInv' /\ IdInv'
  BY DEF Restart, BlockInv, CallInv, IdInv
<1>4. MemoryOwned'
  BY DEF Restart, MemoryOwned, TempMaps, ZeroShm
<1> QED BY <1>1, <1>2, <1>3, <1>4 DEF FileInv, MemoryInv

\* TEEC_InitializeContext gets a descriptor nobody has, and a failure none.
LEMMA InitializeFiles ==
  ASSUME TeeClientAssumption, FileInv, NEW c \in Ctx \ contextMap, NEW ok \in BOOLEAN,
         TEEC_InitializeContext(c, ok)
  PROVE \/ UNCHANGED <<fds, fd, contextMap>>
        \/ \E f \in FreeFd : /\ fds' = [fds EXCEPT ![f] = "tee"]
                             /\ fd' = [fd EXCEPT ![c] = f]
                             /\ contextMap' = contextMap \cup {c}
<1>1. PICK f \in NextFd, stage \in OpenStage :
        /\ ok <=> stage = "done"
        /\ f < 0 => stage = "open"
        /\ fds' = teec_open_dev(f, stage)
        /\ fd' = IF ok THEN [fd EXCEPT ![c] = f] ELSE fd
  BY DEF TEEC_InitializeContext
<1>2. contextMap' = IF ok THEN contextMap \cup {c} ELSE contextMap
  BY DEF TEEC_InitializeContext
<1>3. CASE ok
  <2>1. f \in FreeFd
    BY <1>1, <1>3, NextFdIsFree
  <2>2. fds' = [fds EXCEPT ![f] = "tee"]
    BY <1>1, <1>3 DEF teec_open_dev
  <2> QED BY <1>1, <1>2, <1>3, <2>1, <2>2, Zenon
<1>4. CASE ~ok
  BY <1>1, <1>2, <1>4 DEF teec_open_dev
<1> QED BY <1>3, <1>4

\* TEEC_InitializeContext: the new file is that of the new context, or closed
\* again.
LEMMA InitializeKeeps ==
  ASSUME TeeClientAssumption, FileInv, NEW c \in Ctx \ contextMap, NEW ok \in BOOLEAN,
         TEEC_InitializeContext(c, ok)
  PROVE FileInv'
<1> USE DEF FileInv
<1>0. UNCHANGED <<sessionMap, sctx, sid, shm, mapped, call, phase, kSess>> /\ call = NoCall
  BY DEF TEEC_InitializeContext, sessVars, memVars
<1>1. BlockInv' /\ CallInv'
  BY <1>0 DEF BlockInv, CallInv
<1>2. CASE UNCHANGED <<fds, fd, contextMap>>
  <2>1. TypeInv'
    BY <1>0, <1>2 DEF TypeInv
  <2> QED BY <1>0, <1>1, <1>2, <2>1, FilesStay, SessionsStay
<1>3. CASE \E f \in FreeFd : /\ fds' = [fds EXCEPT ![f] = "tee"]
                             /\ fd' = [fd EXCEPT ![c] = f]
                             /\ contextMap' = contextMap \cup {c}
  <2> PICK f \in FreeFd : /\ fds' = [fds EXCEPT ![f] = "tee"]
                          /\ fd' = [fd EXCEPT ![c] = f]
                          /\ contextMap' = contextMap \cup {c}
    BY <1>3, Zenon
  <2>1. f \in Fd /\ fds[f] = "free" /\ c \in Ctx /\ c \notin contextMap
    BY DEF FreeFd
  <2>2. TypeInv'
    BY <1>0, <2>1 DEF TypeInv
  <2>3. fd'[c] = f /\ (\A d \in contextMap : fd'[d] = fd[d]) /\ fds'[f] = "tee"
        /\ \A g \in Fd : g # f => fds'[g] = fds[g]
    BY <2>1 DEF TypeInv
  <2>4. \A d \in contextMap : fd[d] # f
    BY <2>1 DEF ContextsOwnFiles, TypeInv
  <2>5. {g \in Fd : fds[g] = "tee"} = {fd[d] : d \in contextMap}
    BY DEF ContextsOwnFiles
  <2>6. {g \in Fd : fds'[g] = "tee"} = {g \in Fd : fds[g] = "tee"} \cup {f}
    BY <2>1, <2>3
  <2>7. {fd'[d] : d \in contextMap'} = {fd[d] : d \in contextMap} \cup {f}
    BY <2>3
  <2>8. \A d, e \in contextMap' : fd'[d] = fd'[e] => d = e
    BY <2>3, <2>4 DEF ContextsOwnFiles
  <2>9. ContextsOwnFiles'
    BY <2>5, <2>6, <2>7, <2>8, Zenon DEF ContextsOwnFiles
  <2>10. SessionInv'
    BY <1>0, <2>3 DEF SessionInv, SessionsOwned, KernelSession
  <2> QED BY <1>1, <2>2, <2>9, <2>10
<1> QED BY <1>2, <1>3, InitializeFiles

\* Closing the file of a context that has no session.
LEMMA FinalizeKeeps ==
  ASSUME TeeClientAssumption, FileInv, NEW c \in Ctx, MayFinalize(c), TEEC_FinalizeContext(c)
  PROVE FileInv' /\ phase' = "running"
<1> USE DEF FileInv
<1> DEFINE F == IF c \in contextMap THEN {fd[c]} ELSE {}
<1>1. FinalizeLoop(c).closed = {} /\ ~FinalizeLoop(c).pastEnd
  BY NothingToClose, Zenon DEF MayFinalize
<1>2. /\ sessionMap' = sessionMap /\ kSess' = OnOther(kSess, F) /\ phase' = "running"
      /\ fds' = [f \in Fd |-> IF f \in F THEN "free" ELSE fds[f]]
      /\ contextMap' = contextMap \ {c} /\ call = NoCall
      /\ UNCHANGED <<fd, sctx, sid, shm, mapped, call>>
  BY <1>1, Zenon DEF TEEC_FinalizeContext
<1>3. BlockInv' /\ CallInv'
  BY <1>2 DEF BlockInv, CallInv
<1>4. c \in contextMap => fd[c] \in Fd /\ fds[fd[c]] = "tee"
  BY DEF ContextsOwnFiles
<1>5. TypeInv'
  <2>1. fds' \in [Fd -> {"free", "tee", "stdin"}]
    BY <1>2 DEF TypeInv
  <2>2. \A f \in Fd : fds'[f] = "stdin" <=> f = 0
    BY <1>2, <1>4 DEF TypeInv
  <2> QED BY <1>2, <2>1, <2>2 DEF TypeInv
<1>6. ContextsOwnFiles'
  <2>1. \A d \in contextMap' : d \in contextMap /\ d # c /\ fd'[d] = fd[d] /\ fd[d] \notin F
    BY <1>2 DEF ContextsOwnFiles
  <2>2. {f \in Fd : fds'[f] = "tee"} = {f \in Fd : fds[f] = "tee"} \ F
    BY <1>2
  <2>3. {f \in Fd : fds[f] = "tee"} \ F = {fd[d] : d \in contextMap'}
    BY <1>2, <2>1 DEF ContextsOwnFiles
  <2> QED BY <1>2, <2>1, <2>2, <2>3 DEF ContextsOwnFiles
<1>7. SessionInv'
  <2>1. \A s \in sessionMap : sctx[s] \in contextMap /\ sctx[s] # c
    BY DEF SessionInv, MayFinalize
  <2>2a. \A d \in contextMap : d # c => fd[d] \notin F
    BY DEF ContextsOwnFiles
  <2>2. \A s \in sessionMap : fd[sctx[s]] \notin F
    BY <2>1, <2>2a
  <2> HIDE DEF F
  <2>3. \A k \in kSess : k[1] \notin F
    BY <2>2 DEF SessionInv, SessionsOwned, KernelSession
  <2>4. kSess' = kSess
    BY <1>2, <2>3 DEF OnOther
  <2>5. \A s \in sessionMap : sctx'[s] \in contextMap'
    BY <1>2, <2>1
  <2>6a. UNCHANGED <<fd, sctx, sid, sessionMap, kSess>> /\ SessionsOwned
    BY <1>2, <2>4 DEF SessionInv
  <2>6. SessionsOwned'
    BY <2>6a, SessionsOwnedStay
  <2> QED BY <1>2, <2>5, <2>6 DEF SessionInv
<1> QED BY <1>2, <1>3, <1>5, <1>6, <1>7

\* Every session and every file is closed when the process exits.
LEMMA DestroyKeeps == ASSUME TeeClientAssumption, FileInv, DestroyCommon PROVE FileInv'
<1> USE DEF FileInv
<1> DEFINE F == {fd[c] : c \in contextMap}
<1>1. /\ kSess' = OnOther(kSess \ {KernelSession(s) : s \in sessionMap}, F)
      /\ fds' = [f \in Fd |-> IF f \in F THEN "free" ELSE fds[f]]
      /\ sessionMap' = {} /\ contextMap' = {} /\ phase' = "exited" /\ call = NoCall
      /\ UNCHANGED <<fd, sctx, sid, shm, mapped, call>>
  BY DEF DestroyCommon
<1>2. F = {f \in Fd : fds[f] = "tee"}
  BY Zenon DEF ContextsOwnFiles
<1> HIDE DEF F
<1>3. BlockInv' /\ CallInv'
  BY <1>1 DEF BlockInv, CallInv
<1>4. TypeInv'
  <2>1. fds' \in [Fd -> {"free", "tee", "stdin"}]
    BY <1>1 DEF TypeInv
  <2>2. \A f \in Fd : fds'[f] = "stdin" <=> f = 0
    BY <1>1, <1>2 DEF TypeInv
  <2> QED BY <1>1, <2>1, <2>2 DEF TypeInv
<1>5. ContextsOwnFiles'
  <2>1. \A f \in Fd : fds'[f] # "tee"
    BY <1>1, <1>2
  <2> QED BY <1>1, <2>1 DEF ContextsOwnFiles
<1>6. kSess' = {}
  BY <1>1 DEF OnOther, SessionInv, SessionsOwned
<1>7. SessionInv'
  BY <1>1, <1>6 DEF SessionInv, SessionsOwned
<1> QED BY <1>3, <1>4, <1>5, <1>7, Zenon

\* What TEEC_AllocateSharedMemory and TEEC_RegisterSharedMemory have in common.
BlockMade(c, b, shadow, got) ==
  /\ mapped' = mapped \cup {b}
  /\ shm' = [shm EXCEPT ![b] = [buffer |-> b, shadow_buffer |-> shadow,
                                id |-> IF got THEN b ELSE -1, registered_fd |-> fd[c]]]
  /\ kShm' = IF got THEN kShm \cup {<<fd[c], b>>} ELSE kShm

BlockRefused(b) == shm' = [shm EXCEPT ![b].id = -1] /\ UNCHANGED <<mapped, kShm>>

\* The two ways to make a block end in one of two ways.
LEMMA AllocateIs ==
  ASSUME NEW c, NEW b, NEW ok \in BOOLEAN,
         TEEC_AllocateSharedMemory(c, b, ok) \/ TEEC_RegisterSharedMemory(c, b, ok)
  PROVE /\ \/ ok /\ \E got \in ShmIdResult, shadow \in {0, b} : BlockMade(c, b, shadow, got)
           \/ ~ok /\ BlockRefused(b)
        /\ UNCHANGED <<fds, fd, contextMap, sessionMap, sctx, sid, call, phase, kSess>>
        /\ call = NoCall
<1>1. CASE TEEC_AllocateSharedMemory(c, b, ok)
  <2>1. \/ ok /\ \E got \in ShmIdResult : BlockMade(c, b, 0, got)
        \/ ~ok /\ BlockRefused(b)
    BY <1>1 DEF TEEC_AllocateSharedMemory, BlockMade, BlockRefused
  <2> QED BY <1>1, <2>1 DEF TEEC_AllocateSharedMemory, ctxVars, sessVars
<1>2. CASE TEEC_RegisterSharedMemory(c, b, ok)
  <2>1. \/ ok /\ \E got \in ShmIdResult : BlockMade(c, b, b, got)
        \/ ~ok /\ BlockRefused(b)
    BY <1>2 DEF TEEC_RegisterSharedMemory, BlockMade, BlockRefused
  <2> QED BY <1>2, <2>1 DEF TEEC_RegisterSharedMemory, ctxVars, sessVars
<1> QED BY <1>1, <1>2

\* TEEC_AllocateSharedMemory and TEEC_RegisterSharedMemory leave files and
\* sessions alone.
LEMMA AllocateKeeps ==
  ASSUME TeeClientAssumption, FileInv, NEW c \in contextMap, NEW b \in Shm \ mapped,
         NEW ok \in BOOLEAN,
         TEEC_AllocateSharedMemory(c, b, ok) \/ TEEC_RegisterSharedMemory(c, b, ok)
  PROVE FileInv'
<1> USE DEF FileInv
<1>1. /\ UNCHANGED <<fds, fd, contextMap, sessionMap, sctx, sid, call, phase, kSess>>
      /\ call = NoCall
  BY AllocateIs
<1>2. ContextsOwnFiles' /\ SessionInv' /\ CallInv'
  BY <1>1, FilesStay, SessionsStay DEF CallInv
<1>3. b \in Shm /\ b \in Int /\ 0 \in Int /\ fd[c] \in Int /\ -1 \in Int
  <2>1. fd[c] \in Fd
    BY DEF TypeInv
  <2>2. Shm \subseteq Int /\ Fd \subseteq Int
    BY DEF TeeClientAssumption
  <2>3. b \in Int
    BY <2>2
  <2>4. fd[c] \in Int
    BY <2>1, <2>2, Zenon
  <2>5. b \in Shm
    OBVIOUS
  <2>6. 0 \in Int /\ -1 \in Int
    OBVIOUS
  <2> QED BY <2>3, <2>4, <2>5, <2>6, Zenon
<1>4. TypeInv' /\ BlockInv'
  <2>1. CASE \E got \in ShmIdResult, shadow \in {0, b} : BlockMade(c, b, shadow, got)
    <3> PICK got \in ShmIdResult, shadow \in {0, b} : BlockMade(c, b, shadow, got)
      BY <2>1
    <3> DEFINE r == [buffer |-> b, shadow_buffer |-> shadow,
                     id |-> IF got THEN b ELSE -1, registered_fd |-> fd[c]]
    <3>1. shm' = [shm EXCEPT ![b] = r] /\ mapped' = mapped \cup {b}
      BY DEF BlockMade
    <3>2. r \in [buffer : Int, shadow_buffer : Int, id : Int, registered_fd : Int]
      BY <1>3
    <3>3. r.buffer = b /\ r.shadow_buffer \in {0, b}
      OBVIOUS
    <3> HIDE DEF r
    <3>4. TypeInv'
      BY <1>1, <1>3, <3>1, <3>2, Zenon DEF TypeInv
    <3>5. BlockInv'
      BY <1>3, <3>1, <3>3 DEF BlockInv, TypeInv
    <3> QED BY <3>4, <3>5
  <2>2. CASE BlockRefused(b)
    <3>1. shm' = [shm EXCEPT ![b].id = -1] /\ mapped' = mapped
      BY <2>2 DEF BlockRefused
    <3>2. TypeInv'
      BY <1>1, <1>3, <3>1 DEF TypeInv
    <3>3. BlockInv'
      BY <1>3, <3>1 DEF BlockInv, TypeInv
    <3> QED BY <3>2, <3>3
  <2> QED BY <2>1, <2>2, AllocateIs
<1> QED BY <1>2, <1>4

\* TEEC_ReleaseSharedMemory of a block that is mapped closes no file.
LEMMA ReleaseIs ==
  ASSUME TeeClientAssumption, FileInv, NEW b \in mapped \cap Shm, TEEC_ReleaseSharedMemory(b)
  PROVE /\ ClosedBy({shm[b]}) = {}
        /\ fds' = fds /\ kSess' = kSess
        /\ mapped' = mapped \ UnmappedBy({shm[b]})
        /\ kShm' = kShm \ IdsOf({shm[b]})
        /\ shm' = [shm EXCEPT ![b] = Released(@)]
        /\ UNCHANGED <<fd, contextMap, sessionMap, sctx, sid, call, phase>>
        /\ call = NoCall
<1>1. b \in Shm /\ shm[b].buffer = b /\ b # 0
  BY DEF FileInv, BlockInv, TeeClientAssumption
<1>2. ClosedBy({shm[b]}) = {}
  BY <1>1 DEF ClosedBy, Releasable
<1>3. ReleaseAll({shm[b]}, mapped) /\ TypeInv
  BY DEF TEEC_ReleaseSharedMemory, FileInv
<1>4. fds' = fds /\ mapped' = mapped \ UnmappedBy({shm[b]}) /\ kShm' = kShm \ IdsOf({shm[b]})
  BY <1>2, <1>3, ReleaseKeepsFiles, Zenon
<1>5. kSess' = kSess
  BY <1>2, OnOtherNone DEF TEEC_ReleaseSharedMemory
<1> QED BY <1>2, <1>4, <1>5, Zenon DEF TEEC_ReleaseSharedMemory, sessVars

\* A block that is given back is a block.
LEMMA ReleasedType ==
  ASSUME NEW r \in [buffer : Int, shadow_buffer : Int, id : Int, registered_fd : Int]
  PROVE Released(r) \in [buffer : Int, shadow_buffer : Int, id : Int, registered_fd : Int]
<1>1. CASE r \notin Releasable({r})
  BY <1>1 DEF Released
<1>2. CASE r \in Releasable({r})
  <2>1. r.buffer \in Int /\ 0 \in Int /\ -1 \in Int
    OBVIOUS
  <2> QED BY <1>2, <2>1 DEF Released
<1> QED BY <1>1, <1>2

\* TEEC_ReleaseSharedMemory leaves files and sessions alone.
LEMMA ReleaseKeeps ==
  ASSUME TeeClientAssumption, FileInv, NEW b \in mapped \cap Shm, TEEC_ReleaseSharedMemory(b)
  PROVE FileInv'
<1> USE DEF FileInv
<1>1. /\ UNCHANGED <<fds, fd, contextMap, sessionMap, sctx, sid, call, phase, kSess>>
      /\ call = NoCall
      /\ mapped' = mapped \ UnmappedBy({shm[b]})
      /\ shm' = [shm EXCEPT ![b] = Released(@)]
  BY ReleaseIs, Zenon
<1>2. ContextsOwnFiles' /\ SessionInv' /\ CallInv'
  BY <1>1, FilesStay, SessionsStay DEF CallInv
<1>3. b \in Shm /\ b # 0 /\ shm[b].buffer = b /\ shm[b].shadow_buffer \in {0, b}
  BY DEF BlockInv, TeeClientAssumption
<1>4. TypeInv'
  <2>1. Released(shm[b]) \in [buffer : Int, shadow_buffer : Int, id : Int, registered_fd : Int]
    BY ReleasedType DEF TypeInv
  <2> QED BY <1>1, <2>1 DEF TypeInv
<1>5. BlockInv'
  <2>1. shm[b] \in Releasable({shm[b]}) => b \notin mapped'
    <3> SUFFICES ASSUME shm[b] \in Releasable({shm[b]}) PROVE b \in UnmappedBy({shm[b]})
      BY <1>1, Zenon
    <3> QED BY <1>3 DEF UnmappedBy
  <2>2. shm[b] \notin Releasable({shm[b]}) => shm'[b] = shm[b]
    BY <1>1 DEF Released, TypeInv
  <2>3. \A d \in Shm : d # b => shm'[d] = shm[d]
    BY <1>1 DEF TypeInv
  <2> QED BY <1>1, <2>1, <2>2, <2>3 DEF BlockInv
<1> QED BY <1>2, <1>4, <1>5

\* TEEC_CloseSession takes the session from the map and from the driver.
LEMMA CloseKeeps ==
  ASSUME FileInv, NEW s \in Sess, TEEC_CloseSession(s)
  PROVE FileInv'
<1> USE DEF FileInv
<1>1. /\ sessionMap' = sessionMap \ {s} /\ call = NoCall
      /\ kSess' = IF s \in sessionMap THEN kSess \ {KernelSession(s)} ELSE kSess
      /\ UNCHANGED <<fds, fd, contextMap, sctx, sid, shm, mapped, kShm, call, phase>>
  BY Zenon DEF TEEC_CloseSession, ctxVars, memVars
<1>2. TypeInv' /\ BlockInv' /\ CallInv'
  BY <1>1 DEF TypeInv, BlockInv, CallInv
<1>3. ContextsOwnFiles'
  BY <1>1, FilesStay
<1>4. SessionInv'
  <2>1. \A t \in sessionMap : KernelSession(t)' = KernelSession(t)
    BY <1>1 DEF KernelSession
  <2>2. \A t \in sessionMap' : sctx'[t] \in contextMap'
    BY <1>1 DEF SessionInv
  <2>3. \A t, u \in sessionMap' : KernelSession(t)' = KernelSession(u)' => t = u
    BY <1>1, <2>1 DEF SessionInv, SessionsOwned
  <2>4. kSess' = {KernelSession(t) : t \in sessionMap'}
    BY <1>1 DEF SessionInv, SessionsOwned
  <2>5. kSess' = {KernelSession(t)' : t \in sessionMap'}
    BY <1>1, <2>1, <2>4, Zenon
  <2> QED BY <2>2, <2>3, <2>5, Zenon DEF SessionInv, SessionsOwned
<1> QED BY <1>2, <1>3, <1>4

\* The part of a call before the driver is entered: whether it gets there or
\* not, it leaves the files and the sessions, and maps only addresses of its own.
Entered(fn, c, s, o, n, got) ==
  LET locals == teec_pre_process_operation(c, o, n, got)
      R == teec_free_temp_refs(o, locals)
  IN  /\ UNCHANGED <<fds, kSess>>
      /\ mapped \subseteq mapped' \cup TempAddr /\ mapped' \subseteq mapped \cup TempAddr
      /\ \/ /\ Succeeded(o, n)
            /\ call' = [fn |-> fn, ctx |-> c, s |-> s, op |-> o, locals |-> locals]
            /\ mapped' = mapped \cup MappedIn(locals) /\ kShm' = kShm \cup IdsOf(R)
         \/ /\ call' = call
            /\ mapped' = (mapped \cup MappedIn(locals)) \ UnmappedBy(R)
            /\ kShm' = kShm \ IdsOf(R)

\* What a call that enters the driver has done: its references are made or the
\* call is refused.
LEMMA EnterIs ==
  ASSUME TeeClientAssumption, TempFirst, TypeInv, NEW fn, NEW c \in Ctx, NEW s,
         NEW o \in Operation \cup {NullOp}, NEW n \in MayProcess(o), NEW got \in ShmIdResult,
         Enter(fn, c, s, o, n, got)
  PROVE Entered(fn, c, s, o, n, got)
<1> USE DEF Entered
<1> DEFINE locals == teec_pre_process_operation(c, o, n, got)
           R == teec_free_temp_refs(o, locals)
<1>1. fd[c] \in Fd
  BY Zenon DEF TypeInv
<1>2. /\ ClosedBy(R) = {} /\ MappedIn(locals) \subseteq TempAddr
      /\ UnmappedBy(R) \subseteq MappedIn(locals)
  <2>1. TempsFreed(c, o, locals, got)
    BY <1>1, LocalBlocks, Zenon
  <2> QED BY <2>1, Zenon DEF TempsFreed
<1>3. \/ /\ Succeeded(o, n)
         /\ call' = [fn |-> fn, ctx |-> c, s |-> s, op |-> o, locals |-> locals]
         /\ mapped' = mapped \cup MappedIn(locals) /\ kShm' = kShm \cup IdsOf(R)
         /\ UNCHANGED <<fds, kSess>>
      \/ /\ ReleaseAll(R, mapped \cup MappedIn(locals))
         /\ kSess' = OnOther(kSess, ClosedBy(R))
         /\ UNCHANGED call
  BY Zenon DEF Enter
<1> HIDE DEF locals, R
<1>4. CASE /\ Succeeded(o, n)
           /\ call' = [fn |-> fn, ctx |-> c, s |-> s, op |-> o, locals |-> locals]
           /\ mapped' = mapped \cup MappedIn(locals) /\ kShm' = kShm \cup IdsOf(R)
           /\ UNCHANGED <<fds, kSess>>
  <2>1. mapped \subseteq mapped' \cup TempAddr /\ mapped' \subseteq mapped \cup TempAddr
    BY <1>2, <1>4, Zenon
  <2> QED BY <1>4, <2>1, Zenon DEF locals, R
<1>5. CASE /\ ReleaseAll(R, mapped \cup MappedIn(locals))
           /\ kSess' = OnOther(kSess, ClosedBy(R))
           /\ UNCHANGED call
  <2>1. /\ fds' = fds /\ kShm' = kShm \ IdsOf(R)
        /\ mapped' = (mapped \cup MappedIn(locals)) \ UnmappedBy(R)
    BY <1>2, <1>5, ReleaseKeepsFiles
  <2>2. kSess' = kSess
    BY <1>2, <1>5, OnOtherNone
  <2>3. mapped \subseteq mapped' \cup TempAddr /\ mapped' \subseteq mapped \cup TempAddr
    BY <1>2, <2>1, Zenon
  <2> QED BY <1>5, <2>1, <2>2, <2>3, Zenon DEF locals, R
<1> QED BY <1>3, <1>4, <1>5

\* So does the part after the driver has returned.
LEMMA ReturnIs ==
  ASSUME TeeClientAssumption, TempFirst, TypeInv, CallInv, call # NoCall,
         ReleaseAll(teec_free_temp_refs(call.op, call.locals), mapped)
  PROVE LET R == teec_free_temp_refs(call.op, call.locals)
        IN  /\ fds' = fds /\ mapped' = mapped \ UnmappedBy(R) /\ kShm' = kShm \ IdsOf(R)
            /\ UnmappedBy(R) \subseteq TempAddr
            /\ IdsAreThere => /\ UnmappedBy(R) = MappedIn(call.locals)
                              /\ MappedIn(call.locals) \subseteq TempAddr
                              /\ IdsOf(R) = {<<fd[call.ctx], t>> : t \in MappedIn(call.locals)}
<1> DEFINE R == teec_free_temp_refs(call.op, call.locals)
<1>1. /\ call.ctx \in Ctx /\ call.op \in Operation \cup {NullOp} /\ fd[call.ctx] \in Fd
  BY Zenon DEF CallInv, TypeInv
<1>2. PICK n \in MayProcess(call.op), got \in ShmIdResult :
        call.locals = teec_pre_process_operation(call.ctx, call.op, n, got)
  BY Zenon DEF CallInv
<1>3. /\ ClosedBy(R) = {} /\ MappedIn(call.locals) \subseteq TempAddr
      /\ UnmappedBy(R) \subseteq MappedIn(call.locals)
      /\ got => /\ UnmappedBy(R) = MappedIn(call.locals)
                /\ IdsOf(R) = {<<fd[call.ctx], t>> : t \in MappedIn(call.locals)}
  <2>1. TempsFreed(call.ctx, call.op,
                   teec_pre_process_operation(call.ctx, call.op, n, got), got)
    BY <1>1, LocalBlocks
  <2>2. TempsFreed(call.ctx, call.op, call.locals, got)
    BY <1>2, <2>1
  <2> QED BY <2>2, Zenon DEF TempsFreed
<1>4. IdsAreThere => got
  BY Zenon DEF IdsAreThere
<1> HIDE DEF R
<1>5. fds' = fds /\ mapped' = mapped \ UnmappedBy(R) /\ kShm' = kShm \ IdsOf(R)
  BY <1>3, ReleaseKeepsFiles DEF R
<1> QED BY <1>3, <1>4, <1>5, Zenon DEF R

\* A step that maps or unmaps only addresses of the library keeps the types
\* and the blocks of the caller.
LEMMA BlocksStay ==
  ASSUME TeeClientAssumption, TypeInv, BlockInv, UNCHANGED shm,
         mapped' \subseteq mapped \cup TempAddr
  PROVE BlockInv' /\ mapped' \subseteq Shm \cup TempAddr
BY TempsApart DEF TypeInv, BlockInv

\* The types where only the mappings change.
LEMMA TypeStays ==
  ASSUME TypeInv, mapped' \subseteq Shm \cup TempAddr,
         UNCHANGED <<fds, fd, contextMap, sessionMap, sctx, sid, shm, phase>>
  PROVE TypeInv'
<1>1. TempAddr' = TempAddr
  BY DEF TempAddr
<1> QED BY <1>1 DEF TypeInv

\* A call that enters the driver leaves files and sessions as they are.
LEMMA EnterKeeps ==
  ASSUME TeeClientAssumption, TempFirst, FileInv, phase = "running", call = NoCall,
         NEW fn, NEW c \in contextMap, NEW s,
         NEW o \in Operation \cup {NullOp}, NEW n \in MayProcess(o), NEW got \in ShmIdResult,
         Enter(fn, c, s, o, n, got), fn \in {"open", "invoke"},
         fn = "open" => s \in Sess \ sessionMap,
         UNCHANGED <<fd, contextMap, sessionMap, sctx, sid, shm, phase>>
  PROVE FileInv'
<1> USE DEF FileInv
<1> DEFINE locals == teec_pre_process_operation(c, o, n, got)
<1>1. c \in Ctx
  BY Zenon DEF TypeInv
<1>2. /\ UNCHANGED <<fds, kSess>> /\ mapped' \subseteq mapped \cup TempAddr
      /\ \/ /\ Succeeded(o, n)
            /\ call' = [fn |-> fn, ctx |-> c, s |-> s, op |-> o, locals |-> locals]
         \/ call' = call
  <2>1. Entered(fn, c, s, o, n, got)
    BY <1>1, EnterIs, Zenon
  <2> QED BY <2>1, Zenon DEF Entered
<1>3. BlockInv' /\ mapped' \subseteq Shm \cup TempAddr
  BY <1>2, BlocksStay, Zenon
<1>4. TypeInv'
  BY <1>2, <1>3, TypeStays, Zenon
<1>5. ContextsOwnFiles' /\ SessionInv'
  BY <1>2, FilesStay, SessionsStay, Zenon
<1>6. CallInv'
  <2>1. CASE call' = call
    BY <2>1, Zenon DEF CallInv
  <2>2. CASE /\ Succeeded(o, n)
             /\ call' = [fn |-> fn, ctx |-> c, s |-> s, op |-> o, locals |-> locals]
    <3> HIDE DEF locals
    <3>1. /\ call'.fn = fn /\ call'.ctx = c /\ call'.s = s /\ call'.op = o
          /\ call'.locals = locals
      BY <2>2
    <3>2. locals = teec_pre_process_operation(c, o, n, got)'
      BY Zenon DEF locals, teec_pre_process_operation, teec_pre_process_tmpref
    <3>3. n \in MayProcess(o)' /\ Succeeded(o, n)'
      BY <2>2, Zenon DEF MayProcess, Succeeded, TooWide, Kinds
    <3>4. MayProcess(call'.op) = MayProcess(o) /\ Succeeded(call'.op, n)
      BY <2>2, <3>1
    <3>5. call'.locals = teec_pre_process_operation(call.ctx, call.op, n, got)'
      BY <3>1, <3>2, Zenon DEF teec_pre_process_operation, teec_pre_process_tmpref
    <3> QED BY <3>1, <3>4, <3>5, Zenon DEF CallInv
  <2> QED BY <1>2, <2>1, <2>2, Zenon
<1> QED BY <1>3, <1>4, <1>5, <1>6, Zenon

\* TEEC_OpenSession up to the driver.
LEMMA OpenKeeps ==
  ASSUME TeeClientAssumption, TempFirst, FileInv, phase = "running",
         NEW c \in contextMap, NEW s \in Sess \ sessionMap, NEW o \in Operation \cup {NullOp},
         TEEC_OpenSession(c, s, o)
  PROVE FileInv'
<1>1. PICK n \in MayProcess(o), got \in ShmIdResult : Enter("open", c, s, o, n, got)
  BY Zenon DEF TEEC_OpenSession
<1> QED BY <1>1, EnterKeeps DEF TEEC_OpenSession, sessVars

\* TEEC_InvokeCommand up to the driver.
LEMMA InvokeKeeps ==
  ASSUME TeeClientAssumption, TempFirst, FileInv, phase = "running",
         NEW s \in sessionMap, NEW o \in Operation \cup {NullOp}, TEEC_InvokeCommand(s, o)
  PROVE FileInv'
<1>1. PICK n \in MayProcess(o), got \in ShmIdResult : Enter("invoke", sctx[s], s, o, n, got)
  BY DEF TEEC_InvokeCommand
<1>2. sctx[s] \in contextMap
  BY DEF FileInv, SessionInv
<1> QED BY <1>1, <1>2, EnterKeeps DEF TEEC_InvokeCommand, sessVars

\* A session the driver has opened is new there, and is entered in the map.
LEMMA OpenReturnsKeeps ==
  ASSUME TeeClientAssumption, TempFirst, FileInv, NEW ok \in BOOLEAN, OpenSessionReturns(ok)
  PROVE FileInv'
<1> USE DEF FileInv
<1>1. /\ call.fn = "open" /\ call # NoCall
      /\ ReleaseAll(teec_free_temp_refs(call.op, call.locals), mapped)
      /\ call' = NoCall /\ UNCHANGED <<fd, contextMap, shm, phase>>
  BY DEF OpenSessionReturns, NoCall
<1>2. fds' = fds /\ mapped' \subseteq mapped \cup TempAddr
  BY <1>1, ReturnIs
<1>3. BlockInv' /\ mapped' \subseteq Shm \cup TempAddr
  BY <1>1, <1>2, BlocksStay, Zenon
<1>4. CallInv' /\ ContextsOwnFiles'
  BY <1>1, <1>2, FilesStay, Zenon DEF CallInv
<1>5. call.ctx \in contextMap /\ call.ctx \in Ctx /\ call.s \in Sess /\ call.s \notin sessionMap
  BY <1>1 DEF CallInv, TypeInv
<1>6. CASE ok
  <2>1. PICK k \in SessId : /\ <<fd[call.ctx], k>> \notin kSess
                            /\ kSess' = kSess \cup {<<fd[call.ctx], k>>}
                            /\ sid' = [sid EXCEPT ![call.s] = k]
    BY <1>6, Zenon DEF OpenSessionReturns
  <2>2. sctx' = [sctx EXCEPT ![call.s] = call.ctx] /\ sessionMap' = sessionMap \cup {call.s}
    BY <1>6, Zenon DEF OpenSessionReturns
  <2>3. sid' \in [Sess -> SessId \cup {0}] /\ sctx' \in [Sess -> Ctx \cup {0}]
    BY <1>5, <2>1, <2>2, Zenon DEF TypeInv
  <2>4. TypeInv'
    <3>1. sessionMap' \subseteq Sess
      BY <1>5, <2>2 DEF TypeInv
    <3>2. TempAddr' = TempAddr
      BY DEF TempAddr
    <3> QED BY <1>1, <1>2, <1>3, <2>3, <3>1, <3>2, Zenon DEF TypeInv
  <2>5. \A t \in sessionMap : t \in Sess /\ t # call.s
    BY <1>5, Zenon DEF TypeInv
  <2>6. \A t \in sessionMap : sctx'[t] = sctx[t] /\ sid'[t] = sid[t]
    BY <2>1, <2>2, <2>5, Zenon DEF TypeInv
  <2>7. sctx'[call.s] = call.ctx /\ sid'[call.s] = k
    BY <1>5, <2>1, <2>2, Zenon DEF TypeInv
  <2>8. \A t \in sessionMap : KernelSession(t)' = KernelSession(t)
    BY <1>1, <2>6, Zenon DEF KernelSession
  <2>9. fd'[sctx'[call.s]] = fd[call.ctx]
    BY <1>1, <2>7, Zenon
  <2> DEFINE new == <<fd[call.ctx], k>>
             Ks(t) == <<fd'[sctx'[t]], sid'[t]>>
  <2>10. Ks(call.s) = new
    BY <2>7, <2>9, Zenon
  <2>11. \A t \in sessionMap : Ks(t) = KernelSession(t)
    BY <2>8, Zenon DEF KernelSession
  <2> HIDE DEF new, Ks
  <2>12. new \notin kSess /\ kSess' = kSess \cup {new}
    BY <2>1 DEF new
  <2>13. /\ kSess = {KernelSession(t) : t \in sessionMap}
         /\ \A t, u \in sessionMap : KernelSession(t) = KernelSession(u) => t = u
    BY DEF SessionInv, SessionsOwned
  <2>14. kSess' = {Ks(t) : t \in sessionMap'}
    BY <2>2, <2>10, <2>11, <2>12, <2>13
  <2>15. \A t, u \in sessionMap' : Ks(t) = Ks(u) => t = u
    BY <2>2, <2>10, <2>11, <2>12, <2>13
  <2>16. SessionsOwned'
    BY <2>14, <2>15, Zenon DEF SessionsOwned, KernelSession, Ks
  <2>17. \A t \in sessionMap' : sctx'[t] \in contextMap'
    <3>1. contextMap' = contextMap /\ call.ctx \in contextMap
      BY <1>1, <1>5
    <3>2. \A t \in sessionMap : sctx'[t] \in contextMap
      BY <2>6, Zenon DEF SessionInv
    <3> SUFFICES ASSUME NEW t \in sessionMap' PROVE sctx'[t] \in contextMap'
      OBVIOUS
    <3>3. t \in sessionMap \/ t = call.s
      BY <2>2, Zenon
    <3>4. sctx'[t] \in contextMap
      BY <2>7, <3>1, <3>2, <3>3, Zenon
    <3> QED BY <3>1, <3>4, Zenon
  <2> QED BY <1>3, <1>4, <2>4, <2>16, <2>17, Zenon DEF SessionInv
<1>7. CASE ~ok
  <2>1. UNCHANGED <<kSess, sessionMap, sctx, sid>>
    BY <1>7, Zenon DEF OpenSessionReturns, sessVars
  <2>2. TypeInv'
    BY <1>1, <1>2, <1>3, <2>1, TypeStays, Zenon
  <2>3. SessionInv'
    BY <1>1, <2>1, SessionsStay
  <2> QED BY <1>3, <1>4, <2>2, <2>3, Zenon
<1> QED BY <1>6, <1>7, Zenon

\* TEEC_InvokeCommand from the driver's answer on.
LEMMA InvokeReturnsKeeps ==
  ASSUME TeeClientAssumption, TempFirst, FileInv, NEW ok \in BOOLEAN, InvokeCommandReturns(ok)
  PROVE FileInv'
<1> USE DEF FileInv
<1>1. /\ call # NoCall
      /\ ReleaseAll(teec_free_temp_refs(call.op, call.locals), mapped)
      /\ call' = NoCall
      /\ UNCHANGED <<fd, contextMap, sessionMap, sctx, sid, shm, phase, kSess>>
  BY DEF InvokeCommandReturns, NoCall, sessVars
<1>2. fds' = fds /\ mapped' \subseteq mapped \cup TempAddr
  BY <1>1, ReturnIs
<1>3. BlockInv' /\ mapped' \subseteq Shm \cup TempAddr
  BY <1>1, <1>2, BlocksStay, Zenon
<1>4. CallInv' /\ ContextsOwnFiles' /\ SessionInv'
  BY <1>1, <1>2, FilesStay, SessionsStay, Zenon DEF CallInv
<1>5. TypeInv'
  BY <1>1, <1>2, <1>3, TypeStays
<1> QED BY <1>3, <1>4, <1>5, Zenon

\* A cancellation writes nothing but itself, and a stuttering step nothing.
LEMMA FileStutter ==
  ASSUME FileInv,
         UNCHANGED <<fds, fd, contextMap, sessionMap, sctx, sid, shm, mapped, call, phase, kSess>>
  PROVE FileInv'
<1> USE DEF FileInv
<1>1. TypeInv'
  BY TypeStays, Zenon DEF TypeInv
<1>2. ContextsOwnFiles' /\ SessionInv' /\ BlockInv'
  BY FilesStay, SessionsStay DEF BlockInv
<1>3. CallInv'
  BY DEF CallInv, teec_pre_process_operation, teec_pre_process_tmpref
<1> QED BY <1>1, <1>2, <1>3, Zenon

\* TEEC_RequestCancellation changes nothing the others look at.
LEMMA CancelIs ==
  ASSUME Cancellation
  PROVE UNCHANGED <<fds, fd, contextMap, sessionMap, sctx, sid, shm, mapped, kShm, call, phase, kSess>>
BY DEF Cancellation, SendCancel, RequestCancellation, ctxVars, sessVars, memVars

\* Every step of the library and the driver keeps files and sessions with
\* their owners.
LEMMA FileStep ==
  ASSUME TeeClientAssumption, TempFirst, FileInv, [Next]_vars
  PROVE FileInv'
<1>1. CASE phase = "running" /\ ClientCall
  BY Zenon, <1>1, InitializeKeeps, OpenKeeps, AllocateKeeps, ReleaseKeeps, OpenReturnsKeeps,
     InvokeReturnsKeeps, InvokeKeeps, CloseKeeps, DestroyKeeps DEF ClientCall
<1>2. CASE Cancellation
  BY <1>2, CancelIs, FileStutter
<1>3. CASE \E c \in Ctx : MayFinalize(c) /\ TEEC_FinalizeContext(c)
  BY <1>3, FinalizeKeeps
<1>4. CASE Restart
  BY <1>4, RestartKeeps, Zenon
<1>5. CASE UNCHANGED vars
  BY <1>5, FileStutter DEF vars, ctxVars, sessVars, memVars
<1> QED BY <1>1, <1>2, <1>3, <1>4, <1>5, Zenon DEF Next

-----------------------------------------------------------------------------
(***************************************************************************)
(* MemoryInv is kept by every step, where every mapping has an id.         *)
(***************************************************************************)
\* The blocks that are live, as MemoryOwned counts them.
Live == {b \in Shm : shm[b].buffer # 0 /\ shm[b].id # -1}
IdsHeld(B) == {<<shm[b].registered_fd, b>> : b \in B}

\* The two parts of a pair.
LEMMA PairFields ==
  ASSUME NEW x, NEW y
  PROVE <<x, y>>[1] = x /\ <<x, y>>[2] = y
OBVIOUS

\* No call is a call of no function.
LEMMA NoCallIs == NoCall.fn = "none"
BY DEF NoCall

\* The ids of two disjoint sets of addresses are disjoint.
LEMMA IdsApart ==
  ASSUME NEW A, NEW B, NEW f, A \cap B = {}
  PROVE \A k \in IdsHeld(A) : \A t \in B : k # <<f, t>>
BY DEF IdsHeld

\* MemoryInv outside the driver, for a process that runs.
MemoryIdle ==
  /\ mapped = Live /\ kShm = IdsHeld(Live)
  /\ \A b \in Live : shm[b].id = b /\ shm[b].registered_fd \in Fd /\ fds[shm[b].registered_fd] = "tee"

\* Between calls, what is mapped are the live blocks.
LEMMA IdleIs ==
  ASSUME MemoryInv, phase = "running", call = NoCall
  PROVE MemoryIdle /\ mapped \cap Shm = mapped /\ mapped \subseteq Shm
<1>1. TempMaps = {}
  BY Zenon DEF TempMaps
<1>2. mapped = Live
  BY <1>1, Zenon DEF MemoryInv, MemoryOwned, Live
<1>3. mapped \cap Shm = Live /\ mapped \subseteq Shm
  BY <1>2, Zenon DEF Live
<1>4. kShm = IdsHeld(Live)
  BY <1>1, <1>3, Zenon DEF MemoryInv, MemoryOwned, IdsHeld
<1>5. \A b \in Live : shm[b].id = b /\ shm[b].registered_fd \in Fd /\ fds[shm[b].registered_fd] = "tee"
  BY <1>3 DEF MemoryInv, MemoryOwned, IdInv
<1> QED BY <1>2, <1>3, <1>4, <1>5 DEF MemoryIdle

\* Between calls nothing more is asked.
LEMMA IdleEnough ==
  ASSUME MemoryIdle, call = NoCall
  PROVE MemoryInv
<1>1. TempMaps = {}
  BY Zenon DEF TempMaps
<1>2. mapped \cap Shm = Live /\ mapped = Live
  BY DEF MemoryIdle, Live
<1>3. mapped = Live \cup TempMaps
  BY <1>1, <1>2, Zenon
<1>4. kShm = IdsHeld(mapped \cap Shm) \cup {<<fd[call.ctx], t>> : t \in TempMaps}
  BY <1>1, <1>2, Zenon DEF MemoryIdle
<1>5. MemoryOwned
  BY <1>2, <1>3, <1>4, Zenon DEF MemoryIdle, MemoryOwned, Live, IdsHeld
<1>6. IdInv
  BY <1>2 DEF MemoryIdle, IdInv
<1> QED BY <1>5, <1>6 DEF MemoryInv

\* A step of a thread that is not in the driver, which leaves the blocks.
LEMMA BlocksLive ==
  ASSUME MemoryIdle, UNCHANGED <<shm, mapped, kShm>>, call' = NoCall,
         \A b \in Live : fds'[shm[b].registered_fd] = fds[shm[b].registered_fd]
  PROVE MemoryInv'
<1>1. Live' = Live /\ \A b : shm'[b] = shm[b]
  BY DEF Live
<1>2. IdsHeld(Live)' = IdsHeld(Live)
  BY <1>1, Zenon DEF IdsHeld
<1>3. MemoryIdle'
  BY <1>1, <1>2 DEF MemoryIdle
<1>4. MemoryIdle' /\ (call = NoCall)' => MemoryInv'
  BY IdleEnough, PTL
<1> QED BY <1>3, <1>4, Zenon

\* The same, one step later.
LEMMA IdleEnoughNext == ASSUME MemoryIdle', call' = NoCall PROVE MemoryInv'
<1>1. MemoryIdle' /\ (call = NoCall)' => MemoryInv'
  BY IdleEnough, PTL
<1> QED BY <1>1

\* A new descriptor is not that of a block.
LEMMA InitializeMemory ==
  ASSUME TeeClientAssumption, FileInv, MemoryInv, phase = "running",
         NEW c \in Ctx \ contextMap, NEW ok \in BOOLEAN, TEEC_InitializeContext(c, ok)
  PROVE MemoryInv'
<1>1. UNCHANGED <<shm, mapped, kShm, call>> /\ call = NoCall /\ MemoryIdle
  BY IdleIs DEF TEEC_InitializeContext, memVars
<1>2. fds' = fds \/ \E f \in FreeFd : fds' = [fds EXCEPT ![f] = "tee"]
  BY InitializeFiles, Zenon
<1>3. \A b \in Live : fds'[shm[b].registered_fd] = fds[shm[b].registered_fd]
  <2> SUFFICES ASSUME NEW b \in Live PROVE fds'[shm[b].registered_fd] = fds[shm[b].registered_fd]
    OBVIOUS
  <2>1. shm[b].registered_fd \in Fd /\ shm[b].registered_fd \notin FreeFd
    BY <1>1, Zenon DEF MemoryIdle, FreeFd
  <2> QED BY <1>2, <2>1 DEF FileInv, TypeInv, FreeFd
<1> QED BY <1>1, <1>3, BlocksLive, Zenon

\* A context that is finalized has no block.
LEMMA FinalizeMemory ==
  ASSUME TeeClientAssumption, FileInv, MemoryInv, phase = "running",
         NEW c \in Ctx, MayFinalize(c), TEEC_FinalizeContext(c)
  PROVE MemoryInv'
<1> DEFINE F == IF c \in contextMap THEN {fd[c]} ELSE {}
<1>1. /\ UNCHANGED <<shm, mapped, call>> /\ call = NoCall
      /\ kShm' = OnOther(kShm, F) /\ fds' = [f \in Fd |-> IF f \in F THEN "free" ELSE fds[f]]
  BY Zenon DEF TEEC_FinalizeContext
<1>2. MemoryIdle
  BY <1>1, IdleIs, Zenon
<1>3. \A b \in Live : shm[b].registered_fd \in Fd /\ shm[b].registered_fd \notin F
  <2> SUFFICES ASSUME NEW b \in Live PROVE shm[b].registered_fd \in Fd /\ shm[b].registered_fd \notin F
    OBVIOUS
  <2>1. b \in Shm /\ shm[b].id # -1 /\ shm[b].registered_fd \in Fd
    BY <1>2, Zenon DEF Live, MemoryIdle
  <2>2. c \in contextMap => shm[b].registered_fd # fd[c]
    BY <2>1, Zenon DEF MayFinalize, ContextOf
  <2> QED BY <2>1, <2>2, Zenon
<1>4. \A b \in Live : fds'[shm[b].registered_fd] = fds[shm[b].registered_fd]
  BY <1>1, <1>3, Zenon
<1> HIDE DEF F
<1>5. \A k \in kShm : k[1] \notin F
  <2> SUFFICES ASSUME NEW k \in kShm PROVE k[1] \notin F
    OBVIOUS
  <2>1. PICK b \in Live : k = <<shm[b].registered_fd, b>>
    BY <1>2, Zenon DEF MemoryIdle, IdsHeld
  <2>2. k[1] = shm[b].registered_fd
    BY <2>1, PairFields, Zenon
  <2> QED BY <1>3, <2>2, Zenon
<1>6. kShm' = kShm
  BY <1>1, <1>5, Zenon DEF OnOther
<1> QED BY <1>1, <1>2, <1>4, <1>6, BlocksLive, Zenon

\* A block that is made is live, and one that is refused is not.
LEMMA AllocateMemory ==
  ASSUME TeeClientAssumption, IdsAreThere, FileInv, MemoryInv, phase = "running",
         NEW c \in contextMap, NEW b \in Shm \ mapped, NEW ok \in BOOLEAN,
         TEEC_AllocateSharedMemory(c, b, ok) \/ TEEC_RegisterSharedMemory(c, b, ok)
  PROVE MemoryInv'
<1>1. UNCHANGED <<fds, fd, call>> /\ call = NoCall
  BY AllocateIs
<1>2. MemoryIdle
  BY <1>1, IdleIs
<1>3. b \in Shm /\ b \notin Live /\ b # 0 /\ b # -1
  <2>1. Shm \subseteq 1 .. 99
    BY DEF TeeClientAssumption
  <2>2. b \in Shm /\ b # 0 /\ b # -1
    BY <2>1
  <2>3. b \notin Live
    BY <1>2, Zenon DEF MemoryIdle
  <2> QED BY <2>2, <2>3
<1>4. fd[c] \in Fd /\ fds[fd[c]] = "tee"
  BY DEF FileInv, TypeInv, ContextsOwnFiles
<1>5. CASE \E got \in ShmIdResult, shadow \in {0, b} : BlockMade(c, b, shadow, got)
  <2> PICK got \in ShmIdResult, shadow \in {0, b} : BlockMade(c, b, shadow, got)
    BY <1>5
  <2>1. got
    BY Zenon DEF IdsAreThere
  <2> DEFINE r == [buffer |-> b, shadow_buffer |-> shadow, id |-> b, registered_fd |-> fd[c]]
  <2>2. /\ shm' = [shm EXCEPT ![b] = r] /\ mapped' = mapped \cup {b}
        /\ kShm' = kShm \cup {<<fd[c], b>>}
    BY <2>1 DEF BlockMade
  <2>3. r.buffer = b /\ r.id = b /\ r.registered_fd = fd[c]
    OBVIOUS
  <2> HIDE DEF r
  <2>4. shm'[b] = r /\ \A d \in Shm : d # b => shm'[d] = shm[d]
    BY <1>3, <2>2 DEF FileInv, TypeInv
  <2>5. Live' = Live \cup {b}
    BY <1>3, <2>3, <2>4, Zenon DEF Live
  <2>6. \A d \in Live : d \in Shm /\ d # b
    BY <1>3, Zenon DEF Live
  <2>7. IdsHeld(Live)' = IdsHeld(Live) \cup {<<fd[c], b>>}
    <3>1. \A d \in Live : shm'[d].registered_fd = shm[d].registered_fd
      BY <2>4, <2>6, Zenon
    <3>2. shm'[b].registered_fd = fd[c]
      BY <2>3, <2>4, Zenon
    <3>3. IdsHeld(Live)' = {<<shm'[d].registered_fd, d>> : d \in Live \cup {b}}
      BY <2>5, Zenon DEF IdsHeld
    <3> QED BY <3>1, <3>2, <3>3, Zenon DEF IdsHeld
  <2>8. mapped' = Live' /\ kShm' = IdsHeld(Live)'
    BY <1>2, <2>2, <2>5, <2>7, Zenon DEF MemoryIdle
  <2>9. \A d \in Live' : /\ shm'[d].id = d /\ shm'[d].registered_fd \in Fd
                         /\ fds'[shm'[d].registered_fd] = "tee"
    BY <1>1, <1>2, <1>4, <2>3, <2>4, <2>5, <2>6, Zenon DEF MemoryIdle
  <2>10. MemoryIdle'
    BY <2>8, <2>9 DEF MemoryIdle
  <2> QED BY <1>1, <2>10, IdleEnoughNext
<1>6. CASE BlockRefused(b)
  <2>1. UNCHANGED <<mapped, kShm>> /\ shm' = [shm EXCEPT ![b].id = -1]
    BY <1>6 DEF BlockRefused
  <2>2. shm'[b].id = -1 /\ \A d \in Shm : d # b => shm'[d] = shm[d]
    BY <1>3, <2>1, Zenon DEF FileInv, TypeInv
  <2>3. Live' = Live /\ \A d \in Live : d \in Shm /\ d # b /\ shm'[d] = shm[d]
    BY <1>3, <2>2, Zenon DEF Live
  <2>4. IdsHeld(Live)' = IdsHeld(Live)
    BY <2>3 DEF IdsHeld
  <2>5. MemoryIdle'
    BY <1>1, <1>2, <2>1, <2>3, <2>4, Zenon DEF MemoryIdle
  <2> QED BY <1>1, <2>5, IdleEnoughNext
<1> QED BY <1>5, <1>6, AllocateIs

\* TEEC_ReleaseSharedMemory does not return early for a block that is mapped.
LEMMA MappedReleasable ==
  ASSUME TeeClientAssumption, MemoryInv, phase = "running", NEW b \in mapped \cap Shm
  PROVE shm[b].id = b /\ Releasable({shm[b]}) = {shm[b]}
<1>1. shm[b].id = b /\ shm[b].registered_fd \in Fd
  BY DEF MemoryInv, IdInv
<1>2. b # -1 /\ Fd \subseteq Nat
  BY DEF TeeClientAssumption
<1>3. shm[b].registered_fd \in Nat
  BY <1>1, <1>2, Zenon
<1>4. shm[b].registered_fd >= 0
  BY <1>3
<1> QED BY <1>1, <1>2, <1>4, Zenon DEF Releasable

\* TEEC_ReleaseSharedMemory clears the id of its block and of no other.
LEMMA ReleaseClears ==
  ASSUME TeeClientAssumption, FileInv, MemoryInv, phase = "running",
         NEW b \in mapped \cap Shm, TEEC_ReleaseSharedMemory(b)
  PROVE shm'[b].id = -1 /\ \A d \in Shm : d # b => shm'[d] = shm[d]
<1>1. shm' = [shm EXCEPT ![b] = Released(@)]
  BY Zenon DEF TEEC_ReleaseSharedMemory
<1>2. shm[b] \in Releasable({shm[b]})
  BY MappedReleasable, Zenon
<1>3. Released(shm[b]).id = -1
  BY <1>2 DEF Released
<1> QED BY <1>1, <1>3, Zenon DEF FileInv, TypeInv

\* A block that is released gives back its mapping and its id.
LEMMA ReleaseMemory ==
  ASSUME TeeClientAssumption, FileInv, MemoryInv, phase = "running",
         NEW b \in mapped \cap Shm, TEEC_ReleaseSharedMemory(b)
  PROVE MemoryInv'
<1>1. /\ fds' = fds /\ mapped' = mapped \ UnmappedBy({shm[b]}) /\ kShm' = kShm \ IdsOf({shm[b]})
      /\ shm' = [shm EXCEPT ![b] = Released(@)] /\ call' = call /\ call = NoCall
  BY ReleaseIs, Zenon
<1>2. MemoryIdle
  BY <1>1, IdleIs
<1>3. /\ b \in Shm /\ b \in Live /\ shm[b].id = b /\ Releasable({shm[b]}) = {shm[b]}
  BY <1>2, MappedReleasable DEF MemoryIdle
<1>6. UnmappedBy({shm[b]}) = {b}
  <2>1. shm[b].buffer = b /\ shm[b].shadow_buffer \in {0, b}
    BY Zenon DEF FileInv, BlockInv
  <2>2. (IF shm[b].shadow_buffer # 0 THEN shm[b].shadow_buffer ELSE shm[b].buffer) = b
    BY <2>1, Zenon
  <2> QED BY <1>3, <2>2, Zenon DEF UnmappedBy
<1>7. IdsOf({shm[b]}) = {<<shm[b].registered_fd, b>>}
  BY <1>3, Zenon DEF IdsOf
<1>8. shm'[b].id = -1 /\ \A d \in Shm : d # b => shm'[d] = shm[d]
  BY ReleaseClears, Zenon
<1>9. Live' = Live \ {b} /\ \A d \in Live' : d \in Live /\ d # b /\ shm'[d] = shm[d]
  BY <1>8, Zenon DEF Live
<1>10. IdsHeld(Live)' = IdsHeld(Live) \ {<<shm[b].registered_fd, b>>}
  <2>1. \A d \in Live : d # b => <<shm[d].registered_fd, d>> # <<shm[b].registered_fd, b>>
    BY Zenon
  <2>2. IdsHeld(Live)' = {<<shm[d].registered_fd, d>> : d \in Live \ {b}}
    BY <1>9, Zenon DEF IdsHeld
  <2>3. {<<shm[d].registered_fd, d>> : d \in Live \ {b}} = IdsHeld(Live) \ {<<shm[b].registered_fd, b>>}
    BY <2>1, Zenon DEF IdsHeld
  <2> QED BY <2>2, <2>3, Zenon
<1>11. MemoryIdle'
  BY <1>1, <1>2, <1>6, <1>7, <1>9, <1>10, Zenon DEF MemoryIdle
<1> QED BY <1>1, <1>11, IdleEnoughNext, Zenon

\* A call that enters the driver holds its temporary references; one that does
\* not has given them back.
LEMMA EnterMemory ==
  ASSUME TeeClientAssumption, TempFirst, IdsAreThere, FileInv, MemoryInv, phase = "running",
         call = NoCall, NEW fn, NEW c \in contextMap, NEW s,
         NEW o \in Operation \cup {NullOp}, NEW n \in MayProcess(o), NEW got \in ShmIdResult,
         Enter(fn, c, s, o, n, got), fn \in {"open", "invoke"},
         UNCHANGED <<fd, shm, phase>>
  PROVE MemoryInv'
<1> DEFINE locals == teec_pre_process_operation(c, o, n, got)
           R == teec_free_temp_refs(o, locals)
           M == MappedIn(locals)
<1>1. MemoryIdle
  BY IdleIs
<1>2. c \in Ctx /\ fd[c] \in Fd /\ got
  BY Zenon DEF IdsAreThere, FileInv, TypeInv
<1>3. M \subseteq TempAddr /\ UnmappedBy(R) = M /\ IdsOf(R) = {<<fd[c], t>> : t \in M}
  <2>1. TempsFreed(c, o, locals, got)
    BY <1>2, LocalBlocks, Zenon
  <2> QED BY <1>2, <2>1, Zenon DEF TempsFreed
<1>4. Entered(fn, c, s, o, n, got)
  BY <1>2, EnterIs, Zenon DEF FileInv
<1>5. /\ fds' = fds
      /\ \/ /\ call' = [fn |-> fn, ctx |-> c, s |-> s, op |-> o, locals |-> locals]
            /\ mapped' = mapped \cup M /\ kShm' = kShm \cup IdsOf(R)
         \/ /\ call' = call /\ mapped' = (mapped \cup M) \ UnmappedBy(R)
            /\ kShm' = kShm \ IdsOf(R)
  BY <1>4 DEF Entered
<1>6. Live' = Live /\ Live \subseteq Shm /\ mapped = Live /\ kShm = IdsHeld(Live)
  BY <1>1, Zenon DEF Live, MemoryIdle
<1>7. M \cap Shm = {}
  BY <1>3, TempsApart
<1>8. CASE /\ call' = [fn |-> fn, ctx |-> c, s |-> s, op |-> o, locals |-> locals]
           /\ mapped' = mapped \cup M /\ kShm' = kShm \cup IdsOf(R)
  <2> HIDE DEF locals, R
  <2>1. call'.fn = fn /\ call'.ctx = c /\ call'.locals = locals
    BY <1>8
  <2>2. call' # NoCall
    BY <2>1 DEF NoCall
  <2>3. TempMaps' = M
    BY <2>1, <2>2, Zenon DEF TempMaps, MappedIn, NoCall
  <2> HIDE DEF M
  <2>4. mapped' = Live' \cup TempMaps' /\ mapped' \cap Shm = Live
    BY <1>6, <1>7, <1>8, <2>3, Zenon
  <2>5. kShm' = IdsHeld(Live) \cup {<<fd[c], t>> : t \in M}
    BY <1>3, <1>6, <1>8, Zenon
  <2>6. IdsHeld(Live) = {<<shm'[b].registered_fd, b>> : b \in mapped' \cap Shm}
    BY <2>4, Zenon DEF IdsHeld
  <2>7. {<<fd[c], t>> : t \in M} = {<<fd'[call'.ctx], t>> : t \in TempMaps'}
    BY <2>1, <2>3, Zenon
  <2>8. \A b \in Live : /\ shm'[b].id = b /\ shm'[b].registered_fd \in Fd
                        /\ fds'[shm'[b].registered_fd] = "tee"
    BY <1>1, <1>5, Zenon DEF MemoryIdle
  <2>9. MemoryOwned'
    BY <2>4, <2>5, <2>6, <2>7, <2>8, Zenon DEF MemoryOwned, Live
  <2>10. IdInv'
    BY <2>4, <2>8, Zenon DEF IdInv
  <2> QED BY <2>9, <2>10, Zenon DEF MemoryInv
<1>9. CASE /\ call' = call /\ mapped' = (mapped \cup M) \ UnmappedBy(R)
           /\ kShm' = kShm \ IdsOf(R)
  <2> HIDE DEF M, R
  <2>1. mapped' = mapped
    BY <1>3, <1>6, <1>7, <1>9, Zenon
  <2>2. \A k \in kShm : k \notin IdsOf(R)
    <3>1. Live \cap M = {}
      BY <1>6, <1>7, Zenon
    <3>2. \A k \in IdsHeld(Live) : k \notin {<<fd[c], t>> : t \in M}
      <4>1. \A k \in IdsHeld(Live) : \A t \in M : k # <<fd[c], t>>
        BY <3>1, IdsApart, Zenon
      <4> QED BY <4>1, Zenon
    <3>3. IdsOf(R) = {<<fd[c], t>> : t \in M} /\ kShm = IdsHeld(Live)
      BY <1>3, <1>6
    <3> QED BY <3>2, <3>3, Zenon
  <2>3. kShm' = kShm
    BY <1>9, <2>2
  <2> QED BY <1>1, <1>5, <1>9, <2>1, <2>3, BlocksLive, Zenon
<1> QED BY <1>5, <1>8, <1>9

\* The temporary references are given back on every path out of the driver.
LEMMA ReturnMemory ==
  ASSUME TeeClientAssumption, TempFirst, IdsAreThere, FileInv, MemoryInv, phase = "running",
         call # NoCall, call' = NoCall, UNCHANGED shm,
         ReleaseAll(teec_free_temp_refs(call.op, call.locals), mapped)
  PROVE MemoryInv'
<1> DEFINE M == MappedIn(call.locals)
           T == {<<fd[call.ctx], t>> : t \in M}
<1>1. fds' = fds /\ mapped' = mapped \ M /\ kShm' = kShm \ T /\ M \subseteq TempAddr
  BY ReturnIs, Zenon DEF FileInv
<1>2. M \cap Shm = {}
  BY <1>1, TempsApart, Zenon
<1>3. mapped = Live \cup M /\ kShm = IdsHeld(mapped \cap Shm) \cup T
  BY Zenon DEF MemoryInv, MemoryOwned, TempMaps, Live, IdsHeld
<1> HIDE DEF M
<1>4. Live \subseteq Shm
  BY Zenon DEF Live
<1>5. mapped \cap Shm = Live /\ mapped' = Live
  BY <1>1, <1>2, <1>3, <1>4, Zenon
<1>6. \A k \in IdsHeld(Live) : k \notin T
  <2>1. Live \cap M = {}
    BY <1>2, <1>4, Zenon
  <2>2. \A k \in IdsHeld(Live) : \A t \in M : k # <<fd[call.ctx], t>>
    BY <2>1, IdsApart, Zenon
  <2> QED BY <2>2, Zenon
<1> HIDE DEF T
<1>7. kShm' = IdsHeld(Live)
  BY <1>1, <1>3, <1>5, <1>6, Zenon
<1>8. \A b \in Live : shm[b].id = b /\ shm[b].registered_fd \in Fd /\ fds[shm[b].registered_fd] = "tee"
  BY <1>5, Zenon DEF MemoryInv, MemoryOwned, IdInv
<1>9. Live' = Live /\ IdsHeld(Live)' = IdsHeld(Live)
  BY Zenon DEF Live, IdsHeld
<1>10. MemoryIdle'
  BY <1>1, <1>5, <1>7, <1>8, <1>9, Zenon DEF MemoryIdle
<1> QED BY <1>10, IdleEnoughNext, Zenon

\* Every step of the library and the driver keeps mappings and ids with their
\* blocks.
LEMMA MemoryStep ==
  ASSUME TeeClientAssumption, TempFirst, IdsAreThere, FileInv, MemoryInv, [Next]_vars
  PROVE MemoryInv'
<1>1. CASE phase = "running" /\ ClientCall
  <2>1. ASSUME NEW c \in contextMap, NEW s, NEW o \in Operation \cup {NullOp},
               TEEC_OpenSession(c, s, o)
        PROVE MemoryInv'
    <3>1. PICK n \in MayProcess(o), got \in ShmIdResult : Enter("open", c, s, o, n, got)
      BY <2>1, Zenon DEF TEEC_OpenSession
    <3>2. call = NoCall /\ UNCHANGED <<fd, shm, phase>>
      BY <2>1, Zenon DEF TEEC_OpenSession
    <3> QED BY <1>1, <3>1, <3>2, EnterMemory, Zenon
  <2>2. ASSUME NEW s \in sessionMap, NEW o \in Operation \cup {NullOp}, TEEC_InvokeCommand(s, o)
        PROVE MemoryInv'
    <3>1. sctx[s] \in contextMap
      BY Zenon DEF FileInv, SessionInv
    <3>2. PICK n \in MayProcess(o), got \in ShmIdResult :
            Enter("invoke", sctx[s], s, o, n, got)
      BY <2>2, Zenon DEF TEEC_InvokeCommand
    <3>3. call = NoCall /\ UNCHANGED <<fd, shm, phase>>
      BY <2>2 DEF TEEC_InvokeCommand
    <3> QED BY <1>1, <3>1, <3>2, <3>3, EnterMemory
  <2>3. ASSUME NEW ok \in BOOLEAN, OpenSessionReturns(ok) \/ InvokeCommandReturns(ok)
        PROVE MemoryInv'
    <3>1. call # NoCall /\ call' = NoCall /\ shm' = shm
      <4>1. call.fn \in {"open", "invoke"}
        BY <2>3, Zenon DEF OpenSessionReturns, InvokeCommandReturns
      <4>2. call' = NoCall /\ shm' = shm
        BY <2>3, Zenon DEF OpenSessionReturns, InvokeCommandReturns
      <4> QED BY <4>1, <4>2, NoCallIs, Zenon
    <3>2. ReleaseAll(teec_free_temp_refs(call.op, call.locals), mapped)
      BY <2>3, Zenon DEF OpenSessionReturns, InvokeCommandReturns
    <3> QED BY <1>1, <3>1, <3>2, ReturnMemory, Zenon
  <2>4. ASSUME NEW s \in Sess, TEEC_CloseSession(s) PROVE MemoryInv'
    <3>1. UNCHANGED <<fds, shm, mapped, kShm, call>> /\ call = NoCall
      BY <2>4, Zenon DEF TEEC_CloseSession, ctxVars, memVars
    <3> QED BY <1>1, <3>1, IdleIs, BlocksLive, Zenon
  <2>5. ASSUME DestroyCommon PROVE MemoryInv'
    <3>1. phase' # "running"
      BY <2>5, Zenon DEF DestroyCommon
    <3> QED BY <3>1, Zenon DEF MemoryInv, MemoryOwned, IdInv
  <2> QED BY <1>1, <2>1, <2>2, <2>3, <2>4, <2>5, InitializeMemory, AllocateMemory, ReleaseMemory, Zenon
          DEF ClientCall
<1>2. CASE UNCHANGED <<fds, fd, shm, mapped, kShm, call, phase>>
  <2>1. TempMaps' = TempMaps
    BY <1>2, Zenon DEF TempMaps, MappedIn
  <2>2. MemoryOwned'
    BY <1>2, <2>1, Zenon DEF MemoryInv, MemoryOwned
  <2>3. IdInv'
    BY <1>2 DEF MemoryInv, IdInv
  <2> QED BY <2>2, <2>3, Zenon DEF MemoryInv
<1>3. CASE Cancellation
  BY <1>2, <1>3, CancelIs
<1>4. CASE phase = "running" /\ \E c \in Ctx : MayFinalize(c) /\ TEEC_FinalizeContext(c)
  BY <1>4, FinalizeMemory
<1>5. CASE Restart
  BY <1>5, RestartKeeps, Zenon
<1>6. CASE UNCHANGED vars
  BY <1>2, <1>6 DEF vars, ctxVars, memVars
<1> QED BY <1>1, <1>3, <1>4, <1>5, <1>6, Zenon DEF Next

-----------------------------------------------------------------------------
(***************************************************************************)
(* The theorems on the library.                                            *)
(***************************************************************************)
\* The files and the sessions: the invariant of the library is inductive.
THEOREM FilesInductive == TeeClientAssumption /\ TempFirst => (Spec => []FileInv)
<1> SUFFICES ASSUME TeeClientAssumption, TempFirst PROVE Spec => []FileInv
  OBVIOUS
<1>1. Init => FileInv
  BY FileInit
<1>2. FileInv /\ [Next]_vars => FileInv'
  BY FileStep
<1> QED BY <1>1, <1>2, PTL DEF Spec

\* TEEC_InitializeContext and TEEC_FinalizeContext: however many contexts there
\* are and whichever step fails, the device files of the process are exactly
\* those of the contexts in the map, each with its own.
THEOREM FilesSafe == TeeClientAssumption /\ TempFirst => (Spec => []ContextsOwnFiles)
<1>1. FileInv => ContextsOwnFiles
  BY DEF FileInv
<1> QED BY <1>1, FilesInductive, PTL

\* TEEC_OpenSession and TEEC_CloseSession: the sessions open in the driver are
\* exactly those of the session map, each held by one TEEC_Session.
THEOREM SessionsSafe == TeeClientAssumption /\ TempFirst => (Spec => []SessionsOwned)
<1>1. FileInv => SessionsOwned
  BY DEF FileInv, SessionInv
<1> QED BY <1>1, FilesInductive, PTL

\* TEEC_ReleaseSharedMemory and teec_free_temp_refs: where every mapping has
\* its id, the mappings and ids are those of the live blocks and of the
\* temporary references of the call in progress.
THEOREM MemorySafe ==
  TeeClientAssumption /\ TempFirst /\ IdsAreThere => (Spec => []MemoryOwned)
<1> SUFFICES ASSUME TeeClientAssumption, TempFirst, IdsAreThere PROVE Spec => []MemoryOwned
  OBVIOUS
<1>1. Init => FileInv /\ MemoryInv
  BY FileInit
<1>2. FileInv /\ MemoryInv /\ [Next]_vars => FileInv' /\ MemoryInv'
  BY FileStep, MemoryStep
<1>3. MemoryInv => MemoryOwned
  BY DEF MemoryInv
<1> QED BY <1>1, <1>2, <1>3, PTL DEF Spec

=============================================================================
