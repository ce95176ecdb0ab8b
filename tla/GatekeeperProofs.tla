-------------------------- MODULE GatekeeperProofs --------------------------
(***************************************************************************)
(* The gatekeeper HAL over the client library (Gatekeeper), proved to hold *)
(* between its calls nothing but mappings it got no id for, and to report  *)
(* only what the TA answered.                                              *)
(* What the library does is taken from TeeClientProofs.                    *)
(***************************************************************************)
EXTENDS Gatekeeper, TeeClientProofs

-----------------------------------------------------------------------------
(***************************************************************************)
(* The gatekeeper HAL: what it holds of the library at each of its labels, *)
(* and what it knows of the answer.                                        *)
(***************************************************************************)
HasSession == {"register", "invoke", "invoking", "release", "close"}
HasContext == {"open", "opening", "finalize_early"} \cup HasSession
HasBlock   == {"invoke", "invoking", "release"}
Labels     == {"idle", "initialize", "finalize", "return"} \cup HasContext

HoldInv ==
  /\ pc \in Labels /\ phase = "running"
  /\ pc \in HasContext => contextMap = {context}
  /\ pc \notin HasContext \cup {"finalize"} => contextMap = {}
  /\ contextMap \subseteq {context}
  /\ sessionMap = IF pc \in HasSession THEN {session} ELSE {}
  /\ pc \notin {"opening", "invoking"} => call = NoCall
  /\ pc = "opening" => /\ call # NoCall /\ call.fn = "open"
                       /\ call.s = session /\ call.op = NullOp
  /\ pc = "invoking" => call # NoCall /\ call.fn = "invoke" /\ call.op = operation

\* The mappings: those without an id, and the block of the transfer.
BlocksInv ==
  /\ sharedmem \in Shm
  /\ pc \in HasBlock =>
       /\ shm[sharedmem].buffer = sharedmem /\ shm[sharedmem].shadow_buffer = sharedmem
       /\ shm[sharedmem].registered_fd = fd[context] /\ shm[sharedmem].id \in {-1, sharedmem}
       /\ mapped = Unnamed \cup {sharedmem}
       /\ kShm = {<<fd[context], i>> : i \in {shm[sharedmem].id} \ {-1}}
  /\ pc \notin HasBlock => mapped = Unnamed /\ kShm = {}
  /\ \A b \in Shm : \/ shm[b] = ZeroShm \/ shm[b].id = -1
                    \/ pc \in HasBlock /\ b = sharedmem

HalInv == FileInv /\ HoldInv /\ BlocksInv

\* What a success stands for.
Made(out) ==
  /\ args.cmd \in {"verify", "enroll"} => out # Null
  /\ args.cmd = "verify" => /\ out = [token |-> args.uid]
                            /\ args.pwd \in Short => Right(args)
  /\ args.cmd = "enroll" => /\ out = [uid |-> args.uid, pwd |-> args.desired]
                            /\ args.handle \in Handle /\ args.pwd # Null => Right(args)
  /\ args.cmd = "delete_user" => args.uid \notin ta.users
  /\ args.cmd = "delete_all_users" => ta.users = {}

AnswerInv ==
  /\ args \in Args /\ ta \in [tries : [Uid -> Nat], users : SUBSET Uid]
  /\ pc \in Labels /\ result \in {"ok", "failed"}
  /\ pc \in {"initialize", "open", "opening", "register", "invoke", "invoking"} =>
       /\ result = "ok" /\ ~Refuses(args)
       /\ buff = [is |-> "request", data |-> RequestFor(args)]
  /\ pc = "finalize_early" => result = "failed"
  /\ pc \in {"release", "close", "finalize", "return"} /\ result = "ok" =>
       /\ verdict = buff.error /\ verdict \notin {"none", "lost"}
       /\ buff.error = "ERROR_NONE" => Made(buff.out)
       /\ buff.error = "ERROR_RETRY" => buff.retry_timeout \in Nat
  /\ SuccessIsTas /\ OverlongReachesTa

\* The library's invariant goes over to the HAL, whose steps are calls of a
\* client that follows the documented order.
LEMMA LibraryStep ==
  ASSUME TeeClientAssumption, TempFirst, HalInv, Next
  PROVE FileInv'
BY FileStep DEF HalInv

\* What the library holds is as before where none of it changes.
LEMMA LibraryStays ==
  ASSUME TeeClientAssumption, TempFirst, HalInv, UNCHANGED vars
  PROVE FileInv'
BY FileStep DEF HalInv

\* Neither operation of a transfer has a temporary reference.
LEMMA NoTemps ==
  ASSUME TeeClientAssumption, GatekeeperAssumption
  PROVE Temps(NullOp) = {} /\ Temps(operation) = {}
<1>1. Kinds(NullOp) = <<>> /\ Kinds(operation) = <<"whole">>
  BY Zenon DEF Kinds, TeeClientAssumption, GatekeeperAssumption
<1>2. Len(<<>>) = 0 /\ Len(<<"whole">>) = 1 /\ <<"whole">>[1] = "whole"
  OBVIOUS
<1>3. Temps(NullOp) = {}
  BY <1>1, <1>2 DEF Temps, PayloadRefCount
<1>4. Temps(operation) = {}
  BY <1>1, <1>2 DEF Temps, PayloadRefCount
<1> QED BY <1>3, <1>4

\* Releasing no block changes nothing.
LEMMA NothingReleased ==
  ASSUME TypeInv, NEW M, ReleaseAll({}, M)
  PROVE fds' = fds /\ mapped' = M /\ kShm' = kShm
<1>1. Releasable({}) = {}
  BY DEF Releasable
<1>2. ClosedBy({}) = {} /\ UnmappedBy({}) = {} /\ IdsOf({}) = {}
  BY <1>1 DEF ClosedBy, UnmappedBy, IdsOf
<1> QED BY <1>2, ReleaseKeepsFiles

\* A call of such an operation maps nothing and releases nothing.
LEMMA EnterWithoutTemps ==
  ASSUME TypeInv, NEW fn, NEW c, NEW s, NEW o, NEW n, NEW got, Temps(o) = {},
         Enter(fn, c, s, o, n, got)
  PROVE /\ mapped' = mapped /\ kShm' = kShm
        /\ \/ call' = [fn |-> fn, ctx |-> c, s |-> s, op |-> o,
                       locals |-> teec_pre_process_operation(c, o, n, got)]
           \/ call' = call
<1> DEFINE locals == teec_pre_process_operation(c, o, n, got)
<1>1. \A m \in 1 .. PayloadRefCount : locals[m] = ZeroShm
  BY DEF teec_pre_process_operation
<1>2. teec_free_temp_refs(o, locals) = {}
  BY DEF teec_free_temp_refs
<1>3. MappedIn(locals) = {}
  BY <1>1 DEF MappedIn, ZeroShm
<1>4. IdsOf({}) = {}
  BY DEF IdsOf, Releasable
<1>5. \/ /\ call' = [fn |-> fn, ctx |-> c, s |-> s, op |-> o, locals |-> locals]
         /\ mapped' = mapped \cup MappedIn(locals)
         /\ kShm' = kShm \cup IdsOf(teec_free_temp_refs(o, locals))
      \/ /\ call' = call
         /\ ReleaseAll(teec_free_temp_refs(o, locals), mapped \cup MappedIn(locals))
  BY Zenon DEF Enter
<1> HIDE DEF locals
<1>6. CASE /\ call' = [fn |-> fn, ctx |-> c, s |-> s, op |-> o, locals |-> locals]
           /\ mapped' = mapped \cup MappedIn(locals)
           /\ kShm' = kShm \cup IdsOf(teec_free_temp_refs(o, locals))
  BY <1>2, <1>3, <1>4, <1>6 DEF locals
<1>7. CASE call' = call /\ ReleaseAll(teec_free_temp_refs(o, locals), mapped \cup MappedIn(locals))
  <2>1. mapped \cup MappedIn(locals) = mapped
    BY <1>3
  <2>2. ReleaseAll({}, mapped)
    BY <1>2, <1>7, <2>1, Zenon
  <2> QED BY <1>7, <2>2, NothingReleased, Zenon
<1> QED BY <1>5, <1>6, <1>7, Zenon

\* The mappings are as before where nothing of them changes.
LEMMA MappingsStay ==
  ASSUME HalInv, UNCHANGED <<shm, mapped, kShm, sharedmem>>,
         pc' \in HasBlock <=> pc \in HasBlock,
         pc \in HasBlock => fd' = fd
  PROVE BlocksInv'
<1>1. Unnamed' = Unnamed
  BY DEF Unnamed
<1>2. BlocksInv
  BY DEF HalInv
<1> QED BY <1>1, <1>2, Zenon DEF BlocksInv

\* TEEC_InitializeContext: the transfer holds the context, or nothing.
LEMMA InitializeHolds ==
  ASSUME TeeClientAssumption, GatekeeperAssumption, TempFirst, HalInv, Initialize
  PROVE HalInv'
<1> USE DEF HasSession, HasContext, HasBlock, Labels
<1>1. PICK ok \in BOOLEAN : TEEC_InitializeContext(context, ok) /\ pc' = IF ok THEN "open" ELSE "return"
  BY DEF Initialize, GoTo
<1>2. pc = "initialize" /\ contextMap = {} /\ sessionMap = {} /\ phase = "running"
  BY DEF Initialize, HalInv, HoldInv
<1>3. context \in Ctx \ contextMap
  BY <1>2 DEF GatekeeperAssumption
<1>4. Next
  BY <1>1, <1>2, <1>3 DEF Next, ClientCall
<1>5. FileInv'
  BY <1>4, LibraryStep
<1>6. /\ contextMap' = IF ok THEN {context} ELSE {}
      /\ UNCHANGED <<sessionMap, shm, mapped, kShm, call, phase>> /\ call = NoCall
  BY <1>1, <1>2 DEF TEEC_InitializeContext, sessVars, memVars
<1>7. HoldInv'
  BY <1>1, <1>2, <1>6 DEF HalInv, HoldInv
<1>8. sharedmem' = sharedmem
  BY DEF Initialize, GoTo
<1>9. BlocksInv'
  BY <1>1, <1>2, <1>6, <1>8, MappingsStay
<1> QED BY <1>5, <1>7, <1>9 DEF HalInv

\* TEEC_OpenSession is under way, without an operation.
LEMMA OpenSessionHolds ==
  ASSUME TeeClientAssumption, GatekeeperAssumption, TempFirst, HalInv, OpenSession
  PROVE HalInv'
<1> USE DEF HasSession, HasContext, HasBlock, Labels
<1>1. /\ TEEC_OpenSession(context, session, NullOp) /\ pc' = "opening" /\ pc = "open"
      /\ contextMap = {context} /\ sessionMap = {} /\ phase = "running"
  BY DEF OpenSession, GoTo, HalInv, HoldInv
<1>2. context \in contextMap /\ session \in Sess \ sessionMap
  BY <1>1 DEF GatekeeperAssumption
<1>3. Next
  BY <1>1, <1>2 DEF Next, ClientCall
<1>4. FileInv'
  BY <1>3, LibraryStep
<1>5. UNCHANGED <<fd, contextMap, sessionMap, shm, phase, sharedmem>> /\ call = NoCall
  BY <1>1 DEF TEEC_OpenSession, sessVars, OpenSession, GoTo
<1>6. PICK n \in MayProcess(NullOp), got \in ShmIdResult :
        Enter("open", context, session, NullOp, n, got)
  BY <1>1 DEF TEEC_OpenSession
<1> DEFINE locals == teec_pre_process_operation(context, NullOp, n, got)
<1>7. call' = [fn |-> "open", ctx |-> context, s |-> session, op |-> NullOp, locals |-> locals]
  <2>1. Kinds(NullOp) = <<>> /\ Len(Kinds(NullOp)) = 0
    BY DEF Kinds, TeeClientAssumption
  <2>2. ~TooWide(NullOp)
    BY <2>1 DEF TooWide, PayloadRefCount
  <2>3. n = 0
    BY <2>1, <2>2 DEF MayProcess
  <2>4. Succeeded(NullOp, n)
    BY <2>1, <2>2, <2>3, Zenon DEF Succeeded
  <2> QED BY <1>6, <2>4 DEF Enter
<1>8. mapped' = mapped /\ kShm' = kShm
  BY <1>6, EnterWithoutTemps, NoTemps, Zenon DEF HalInv, FileInv
<1> HIDE DEF locals
<1>9. call'.fn = "open" /\ call'.s = session /\ call'.op = NullOp
  BY <1>7
<1>10. call' # NoCall
  BY <1>9 DEF NoCall
<1>11. HoldInv'
  BY <1>1, <1>5, <1>9, <1>10 DEF HalInv, HoldInv
<1>12. BlocksInv'
  BY <1>1, <1>5, <1>8, MappingsStay
<1> QED BY <1>4, <1>11, <1>12 DEF HalInv

\* TEEC_OpenSession returns: the transfer holds the session too, or lets the
\* context go.
LEMMA SessionOpenedHolds ==
  ASSUME TeeClientAssumption, GatekeeperAssumption, TempFirst, HalInv, SessionOpened
  PROVE HalInv'
<1> USE DEF HasSession, HasContext, HasBlock, Labels
<1>1. PICK ok \in BOOLEAN : /\ OpenSessionReturns(ok)
                            /\ pc' = IF ok THEN "register" ELSE "finalize_early"
  BY DEF SessionOpened, GoTo
<1>2. /\ pc = "opening" /\ contextMap = {context} /\ sessionMap = {} /\ phase = "running"
      /\ call.s = session /\ call.op = NullOp
  BY DEF SessionOpened, HalInv, HoldInv
<1>3. Next
  BY <1>1, <1>2, Zenon DEF Next, ClientCall
<1>4. FileInv'
  BY <1>3, LibraryStep
<1>5. /\ UNCHANGED <<fd, contextMap, shm, phase>> /\ call' = NoCall
      /\ sessionMap' = IF ok THEN {session} ELSE {}
  BY <1>1, <1>2, Zenon DEF OpenSessionReturns, sessVars
<1>6. HoldInv'
  BY <1>1, <1>2, <1>5 DEF HalInv, HoldInv
<1>7. ReleaseAll({}, mapped)
  <2>1. teec_free_temp_refs(call.op, call.locals) = {}
    BY <1>2, NoTemps DEF teec_free_temp_refs
  <2>2. ReleaseAll(teec_free_temp_refs(call.op, call.locals), mapped)
    BY <1>1, Zenon DEF OpenSessionReturns
  <2> QED BY <2>1, <2>2, Zenon
<1>8. mapped' = mapped /\ kShm' = kShm
  BY <1>7, NothingReleased, Zenon DEF HalInv, FileInv
<1>9. sharedmem' = sharedmem
  BY DEF SessionOpened, GoTo
<1>10. BlocksInv'
  BY <1>1, <1>2, <1>5, <1>8, <1>9, MappingsStay
<1> QED BY <1>4, <1>6, <1>10 DEF HalInv

\* No block of the HAL is on the file of its context when that is finalized.
LEMMA MayFinalizeHere ==
  ASSUME TeeClientAssumption, GatekeeperAssumption, HalInv, pc \in {"finalize_early", "finalize"}
  PROVE MayFinalize(context)
<1>1. sessionMap = {}
  BY DEF HalInv, HoldInv, HasSession
<1>2. ASSUME NEW b \in Shm, context \in ContextOf(b) PROVE FALSE
  <2>1. context \in contextMap /\ shm[b].id # -1 /\ shm[b].registered_fd = fd[context]
    BY <1>2 DEF ContextOf
  <2>2. shm[b] = ZeroShm
    BY <2>1, Zenon DEF HalInv, BlocksInv, HasBlock
  <2>3. fd[context] = 0
    BY <2>1, <2>2 DEF ZeroShm
  <2>4. fds[fd[context]] = "tee" /\ fds[0] = "stdin"
    BY <2>1 DEF HalInv, FileInv, ContextsOwnFiles, TypeInv, TeeClientAssumption
  <2> QED BY <2>3, <2>4
<1> QED BY <1>1, <1>2 DEF MayFinalize

\* TEEC_FinalizeContext, on either way out, leaves nothing.
LEMMA FinalizeHolds ==
  ASSUME TeeClientAssumption, GatekeeperAssumption, TempFirst, HalInv,
         FinalizeEarly \/ Finalize
  PROVE HalInv'
<1> USE DEF HasSession, HasContext, HasBlock, Labels
<1>1. /\ TEEC_FinalizeContext(context) /\ pc \in {"finalize_early", "finalize"}
      /\ pc' = IF pc = "finalize" THEN "return" ELSE "finalize"
  BY DEF FinalizeEarly, Finalize, GoTo
<1>2. contextMap \subseteq {context} /\ sessionMap = {} /\ phase = "running"
  BY <1>1 DEF HalInv, HoldInv
<1>3. MayFinalize(context) /\ context \in Ctx
  BY <1>1, MayFinalizeHere DEF GatekeeperAssumption
<1>4. Next
  BY <1>1, <1>2, <1>3 DEF Next
<1>5. FileInv'
  BY <1>4, LibraryStep
<1>6. phase' = "running"
  BY <1>1, <1>3, FinalizeKeeps, Zenon DEF HalInv
<1>7. contextMap' = {} /\ sessionMap' = {} /\ UNCHANGED <<shm, call>> /\ call = NoCall
  BY <1>1, <1>2, Zenon DEF TEEC_FinalizeContext
<1>8. HoldInv'
  BY <1>1, <1>6, <1>7 DEF HalInv, HoldInv
<1>9. UNCHANGED <<mapped, kShm, sharedmem>>
  <2>1. kShm = {}
    BY <1>1 DEF HalInv, BlocksInv
  <2>2. \A F : OnOther({}, F) = {}
    BY DEF OnOther
  <2>3. kShm' = {} /\ mapped' = mapped
    BY <1>1, <2>1, <2>2 DEF TEEC_FinalizeContext
  <2> QED BY <2>1, <2>3 DEF FinalizeEarly, Finalize, GoTo
<1>10. BlocksInv'
  BY <1>1, <1>7, <1>9, MappingsStay
<1> QED BY <1>5, <1>8, <1>10 DEF HalInv

\* The block of a transfer, and what it makes of the mappings.
LEMMA RegisterBlocks ==
  ASSUME TeeClientAssumption, GatekeeperAssumption, HalInv, Register
  PROVE BlocksInv'
<1> USE DEF HasBlock
<1> DEFINE b == sharedmem'
<1>1. /\ pc = "register" /\ b \in Shm /\ mapped = Unnamed /\ kShm = {}
      /\ \A c \in Shm : shm[c] = ZeroShm \/ shm[c].id = -1
      /\ shm \in [Shm -> [buffer : Int, shadow_buffer : Int, id : Int, registered_fd : Int]]
  BY DEF Register, HalInv, BlocksInv, FileInv, TypeInv
<1>2. PICK ok \in BOOLEAN : /\ ok => b \notin mapped
                            /\ TEEC_RegisterSharedMemory(context, b, ok)
                            /\ pc' = IF ok THEN "invoke" ELSE "close"
  BY DEF Register
<1>3. b \in Int /\ b # 0 /\ b # -1
  BY <1>1 DEF TeeClientAssumption
<1> HIDE DEF b
<1>4. CASE ok
  <2>1. PICK got \in ShmIdResult :
          /\ shm' = [shm EXCEPT ![b] = [buffer |-> b, shadow_buffer |-> b,
                                        id |-> IF got THEN b ELSE -1,
                                        registered_fd |-> fd[context]]]
          /\ kShm' = IF got THEN kShm \cup {<<fd[context], b>>} ELSE kShm
    BY <1>2, <1>4, Zenon DEF TEEC_RegisterSharedMemory
  <2>2. mapped' = mapped \cup {b} /\ fd' = fd
    BY <1>2, <1>4, Zenon DEF TEEC_RegisterSharedMemory, ctxVars
  <2>3. /\ shm'[b].buffer = b /\ shm'[b].shadow_buffer = b /\ shm'[b].registered_fd = fd[context]
        /\ shm'[b].id = IF got THEN b ELSE -1
        /\ \A c \in Shm : c # b => shm'[c] = shm[c]
    BY <1>1, <2>1
  <2>4. mapped' = Unnamed' \cup {b}
    BY <1>1, <1>2, <1>3, <1>4, <2>2, <2>3 DEF Unnamed
  <2>5. kShm' = {<<fd[context], i>> : i \in {shm'[b].id} \ {-1}}
    <3>1. CASE got
      <4>1. {shm'[b].id} \ {-1} = {b}
        BY <1>3, <2>3, <3>1
      <4> QED BY <1>1, <2>1, <3>1, <4>1
    <3>2. CASE ~got
      <4>1. {shm'[b].id} \ {-1} = {}
        BY <2>3, <3>2
      <4> QED BY <1>1, <2>1, <3>2, <4>1
    <3> QED BY <3>1, <3>2
  <2>6. shm'[b].id \in {-1, b} /\ pc' \in HasBlock
    BY <1>2, <1>4, <2>3
  <2> QED BY <1>1, <2>2, <2>3, <2>4, <2>5, <2>6, Zenon DEF BlocksInv, b
<1>5. CASE ~ok
  <2>1. shm' = [shm EXCEPT ![b].id = -1] /\ mapped' = mapped /\ kShm' = kShm
    BY <1>2, <1>5, Zenon DEF TEEC_RegisterSharedMemory
  <2>2. /\ shm'[b].id = -1 /\ shm'[b].shadow_buffer = shm[b].shadow_buffer
        /\ \A c \in Shm : c # b => shm'[c] = shm[c]
    BY <1>1, <2>1
  <2>3. Unnamed' = Unnamed
    <3>1. b \in Unnamed <=> shm[b].shadow_buffer # 0
      BY <1>1 DEF Unnamed, ZeroShm
    <3>2. b \in Unnamed' <=> shm[b].shadow_buffer # 0
      BY <1>1, <2>2 DEF Unnamed
    <3>3. \A c \in Shm : c # b => (c \in Unnamed' <=> c \in Unnamed)
      BY <2>2 DEF Unnamed
    <3>4. Unnamed \subseteq Shm /\ Unnamed' \subseteq Shm
      BY DEF Unnamed
    <3> QED BY <3>1, <3>2, <3>3, <3>4
  <2>4. pc' \notin HasBlock
    BY <1>2, <1>5
  <2> QED BY <1>1, <2>1, <2>2, <2>3, <2>4, Zenon DEF BlocksInv, b
<1> QED BY <1>4, <1>5

\* TEEC_RegisterSharedMemory: the transfer holds the block too, or closes the
\* session.
LEMMA RegisterHolds ==
  ASSUME TeeClientAssumption, GatekeeperAssumption, TempFirst, HalInv, Register
  PROVE HalInv'
<1> USE DEF HasSession, HasContext, HasBlock, Labels
<1> DEFINE b == sharedmem'
<1>1. PICK ok \in BOOLEAN : /\ ok => b \notin mapped
                            /\ TEEC_RegisterSharedMemory(context, b, ok)
                            /\ pc' = IF ok THEN "invoke" ELSE "close"
  BY DEF Register
<1>2. /\ pc = "register" /\ contextMap = {context} /\ phase = "running" /\ call = NoCall
      /\ b \in Shm /\ mapped = Unnamed
  BY DEF Register, HalInv, HoldInv, BlocksInv
<1> HIDE DEF b
<1>3. FileInv'
  <2>1. CASE b \notin mapped
    <3>1. Next
      BY <1>1, <1>2, <2>1, Zenon DEF Next, ClientCall
    <3> QED BY <3>1, LibraryStep
  <2>2. CASE b \in mapped
    <3>1. ~ok /\ shm[b].id = -1
      BY <1>1, <1>2, <2>2 DEF Unnamed
    <3>2. shm' = [shm EXCEPT ![b].id = -1]
      BY <1>1, <3>1, Zenon DEF TEEC_RegisterSharedMemory
    <3>3. shm' = shm
      BY <1>2, <3>1, <3>2 DEF HalInv, FileInv, TypeInv
    <3>4. UNCHANGED vars
      BY <1>1, <3>1, <3>3, Zenon DEF TEEC_RegisterSharedMemory, vars, memVars
    <3> QED BY <3>4, LibraryStays
  <2> QED BY <2>1, <2>2
<1>4. UNCHANGED <<contextMap, sessionMap, call, phase>>
  BY <1>1, Zenon DEF TEEC_RegisterSharedMemory, ctxVars, sessVars
<1>5. HoldInv'
  BY <1>1, <1>2, <1>4, Zenon DEF HalInv, HoldInv
<1> QED BY <1>3, <1>5, RegisterBlocks DEF HalInv

\* TEEC_InvokeCommand is under way, or has failed; the mappings stay.
LEMMA InvokeHolds ==
  ASSUME TeeClientAssumption, GatekeeperAssumption, TempFirst, HalInv, Invoke
  PROVE HalInv'
<1> USE DEF HasSession, HasContext, HasBlock, Labels
<1>1. /\ pc = "invoke" /\ contextMap = {context} /\ sessionMap = {session} /\ phase = "running"
      /\ TEEC_InvokeCommand(session, operation) /\ call = NoCall /\ sharedmem' = sharedmem
      /\ pc' = IF call' = NoCall THEN "release" ELSE "invoking"
  BY DEF Invoke, GoTo, HalInv, HoldInv
<1>2. operation \in Operation
  BY DEF GatekeeperAssumption
<1>3. Next
  BY <1>1, <1>2, Zenon DEF Next, ClientCall
<1>4. FileInv'
  BY <1>3, LibraryStep
<1>5. UNCHANGED <<fd, contextMap, sessionMap, shm, phase>>
  BY <1>1 DEF TEEC_InvokeCommand, sessVars
<1>6. PICK n \in MayProcess(operation), got \in ShmIdResult :
        Enter("invoke", sctx[session], session, operation, n, got)
  BY <1>1, Zenon DEF TEEC_InvokeCommand
<1> DEFINE locals == teec_pre_process_operation(sctx[session], operation, n, got)
<1>7. /\ mapped' = mapped /\ kShm' = kShm
      /\ \/ call' = [fn |-> "invoke", ctx |-> sctx[session], s |-> session, op |-> operation,
                     locals |-> locals]
         \/ call' = call
  BY <1>6, NoTemps, EnterWithoutTemps, Zenon DEF HalInv, FileInv
<1> HIDE DEF locals
<1>8. call' = NoCall \/ (call' # NoCall /\ call'.fn = "invoke" /\ call'.op = operation)
  BY <1>1, <1>7
<1>9. HoldInv'
  BY <1>1, <1>5, <1>8, Zenon DEF HalInv, HoldInv
<1>10. BlocksInv'
  BY <1>1, <1>5, <1>7, MappingsStay
<1> QED BY <1>4, <1>9, <1>10, Zenon DEF HalInv

\* TEEC_InvokeCommand returns; the mappings stay.
LEMMA InvokedHolds ==
  ASSUME TeeClientAssumption, GatekeeperAssumption, TempFirst, HalInv, Invoked
  PROVE HalInv'
<1> USE DEF HasSession, HasContext, HasBlock, Labels
<1>1. /\ pc = "invoking" /\ pc' = "release" /\ contextMap = {context} /\ sessionMap = {session}
      /\ phase = "running" /\ call # NoCall /\ call.op = operation /\ sharedmem' = sharedmem
  BY DEF Invoked, HalInv, HoldInv
<1>2. PICK ok \in BOOLEAN : InvokeCommandReturns(ok)
  BY DEF Invoked
<1>3. Next
  BY <1>1, <1>2, Zenon DEF Next, ClientCall
<1>4. FileInv'
  BY <1>3, LibraryStep
<1>5. /\ UNCHANGED <<fd, contextMap, sessionMap, shm, phase>> /\ call' = NoCall
      /\ ReleaseAll(teec_free_temp_refs(call.op, call.locals), mapped)
  BY <1>2 DEF InvokeCommandReturns, sessVars
<1>6. ReleaseAll({}, mapped)
  <2>1. teec_free_temp_refs(call.op, call.locals) = {}
    BY <1>1, NoTemps DEF teec_free_temp_refs
  <2> QED BY <1>5, <2>1, Zenon
<1>7. mapped' = mapped /\ kShm' = kShm
  BY <1>6, NothingReleased, Zenon DEF HalInv, FileInv
<1>8. HoldInv'
  BY <1>1, <1>5, Zenon DEF HalInv, HoldInv
<1>9. BlocksInv'
  BY <1>1, <1>5, <1>7, MappingsStay
<1> QED BY <1>4, <1>8, <1>9 DEF HalInv

\* TEEC_ReleaseSharedMemory gives the one block back, or leaves it mapped when
\* it has no id.
LEMMA ReleaseBlocks ==
  ASSUME TeeClientAssumption, GatekeeperAssumption, HalInv, Release
  PROVE BlocksInv'
<1> USE DEF HasBlock
<1> DEFINE b == sharedmem
           blk == shm[b]
<1>1. /\ pc = "release" /\ pc' = "close" /\ sharedmem' = b /\ TEEC_ReleaseSharedMemory(b)
  BY DEF Release, GoTo
<1>2. /\ b \in Shm /\ blk.buffer = b /\ blk.shadow_buffer = b
      /\ blk.registered_fd = fd[context] /\ blk.id \in {-1, b}
      /\ mapped = Unnamed \cup {b}
      /\ kShm = {<<fd[context], i>> : i \in {blk.id} \ {-1}}
      /\ \A c \in Shm : shm[c] = ZeroShm \/ shm[c].id = -1 \/ c = b
  BY <1>1 DEF HalInv, BlocksInv
<1>3. /\ shm \in [Shm -> [buffer : Int, shadow_buffer : Int, id : Int, registered_fd : Int]]
      /\ fd[context] \in Nat
  BY DEF HalInv, FileInv, TypeInv, TeeClientAssumption, GatekeeperAssumption
<1>4. b \in Int /\ b # 0 /\ b # -1
  <2>1. b \in 1 .. 99
    BY <1>2, Zenon DEF TeeClientAssumption
  <2> HIDE DEF b
  <2> QED BY <2>1
<1>5. ReleaseAll({blk}, mapped) /\ shm' = [shm EXCEPT ![b] = Released(blk)]
  BY <1>1, Zenon DEF TEEC_ReleaseSharedMemory
<1> HIDE DEF b, blk
<1>6. CASE blk.id = -1
  <2>1. Releasable({blk}) = {}
    BY <1>6 DEF Releasable
  <2>2. ClosedBy({blk}) = {} /\ UnmappedBy({blk}) = {} /\ IdsOf({blk}) = {}
    BY <2>1 DEF ClosedBy, UnmappedBy, IdsOf
  <2>3. mapped' = mapped /\ kShm' = kShm
    BY <1>5, <2>2, ReleaseKeepsFiles DEF HalInv, FileInv
  <2>4. blk \notin Releasable({blk})
    BY <2>1
  <2>5. Released(blk) = blk
    BY <2>4, Zenon DEF Released
  <2>6. shm' = shm
    BY <1>2, <1>3, <1>5, <2>5 DEF blk
  <2>7. Unnamed' = Unnamed /\ b \in Unnamed
    BY <1>2, <1>4, <1>6, <2>6 DEF Unnamed, blk
  <2>8. mapped' = Unnamed' /\ kShm' = {}
    BY <1>2, <1>6, <2>3, <2>7
  <2>9. \A c \in Shm : shm'[c] = ZeroShm \/ shm'[c].id = -1
    BY <1>2, <1>6, <2>6 DEF blk
  <2> QED BY <1>1, <1>2, <2>8, <2>9 DEF BlocksInv
<1>7. CASE blk.id = b
  <2>1. Releasable({blk}) = {blk}
    BY <1>2, <1>3, <1>4, <1>7 DEF Releasable
  <2>2. ClosedBy({blk}) = {} /\ UnmappedBy({blk}) = {b} /\ IdsOf({blk}) = {<<fd[context], b>>}
    BY <1>2, <1>4, <1>7, <2>1 DEF ClosedBy, UnmappedBy, IdsOf
  <2>3. mapped' = mapped \ {b} /\ kShm' = kShm \ {<<fd[context], b>>}
    BY <1>5, <2>2, ReleaseKeepsFiles DEF HalInv, FileInv
  <2>4. Released(blk).id = -1 /\ Released(blk).shadow_buffer = 0
    BY <2>1 DEF Released
  <2>5. /\ shm'[b].id = -1 /\ shm'[b].shadow_buffer = 0
        /\ \A c \in Shm : c # b => shm'[c] = shm[c]
    BY <1>2, <1>3, <1>5, <2>4
  <2>6. b \notin Unnamed /\ Unnamed' = Unnamed
    BY <1>2, <1>4, <1>7, <2>5 DEF Unnamed, blk
  <2>7. mapped' = Unnamed'
    BY <1>2, <2>3, <2>6
  <2>8. kShm' = {}
    BY <1>2, <1>4, <1>7, <2>3
  <2>9. \A c \in Shm : shm'[c] = ZeroShm \/ shm'[c].id = -1
    BY <1>2, <2>5
  <2> QED BY <1>1, <1>2, <2>7, <2>8, <2>9 DEF BlocksInv
<1> QED BY <1>2, <1>6, <1>7

\* The transfer goes on to close its session.
LEMMA ReleaseHolds ==
  ASSUME TeeClientAssumption, GatekeeperAssumption, TempFirst, HalInv, Release
  PROVE HalInv'
<1> USE DEF HasSession, HasContext, HasBlock, Labels
<1>1. /\ pc = "release" /\ pc' = "close" /\ contextMap = {context} /\ sessionMap = {session}
      /\ phase = "running" /\ TEEC_ReleaseSharedMemory(sharedmem)
  BY DEF Release, GoTo, HalInv, HoldInv
<1>2. sharedmem \in mapped \cap Shm
  BY <1>1 DEF HalInv, BlocksInv
<1>3. Next
  BY <1>1, <1>2, Zenon DEF Next, ClientCall
<1>4. FileInv'
  BY <1>3, LibraryStep
<1>5. UNCHANGED <<contextMap, sessionMap, call, phase>> /\ call = NoCall
  BY <1>1, Zenon DEF TEEC_ReleaseSharedMemory, sessVars
<1>6. HoldInv'
  BY <1>1, <1>5, Zenon DEF HalInv, HoldInv
<1> QED BY <1>4, <1>6, ReleaseBlocks DEF HalInv

\* TEEC_CloseSession gives the one session back.
LEMMA CloseSessionHolds ==
  ASSUME TeeClientAssumption, GatekeeperAssumption, TempFirst, HalInv, CloseSession
  PROVE HalInv'
<1> USE DEF HasSession, HasContext, HasBlock, Labels
<1>1. /\ pc = "close" /\ pc' = "finalize" /\ contextMap = {context} /\ sessionMap = {session}
      /\ phase = "running" /\ TEEC_CloseSession(session)
  BY DEF CloseSession, GoTo, HalInv, HoldInv
<1>2. session \in Sess
  BY DEF GatekeeperAssumption
<1>3. Next
  BY <1>1, <1>2, Zenon DEF Next, ClientCall
<1>4. FileInv'
  BY <1>3, LibraryStep
<1>5. /\ sessionMap' = {} /\ call = NoCall
      /\ UNCHANGED <<fd, contextMap, shm, mapped, kShm, call, phase>>
  BY <1>1, Zenon DEF TEEC_CloseSession, ctxVars, memVars
<1>6. HoldInv'
  BY <1>1, <1>5 DEF HalInv, HoldInv
<1>7. sharedmem' = sharedmem
  BY DEF CloseSession, GoTo
<1>8. BlocksInv'
  BY <1>1, <1>5, <1>7, MappingsStay
<1> QED BY <1>4, <1>6, <1>8 DEF HalInv

\* The steps of the HAL that make no call of the library.
LEMMA HalAlone ==
  ASSUME TeeClientAssumption, TempFirst, HalInv, UNCHANGED <<vars, sharedmem>>,
         \/ pc' = pc
         \/ pc = "idle" /\ pc' = "initialize"
         \/ pc = "return" /\ pc' = "idle"
  PROVE HalInv'
<1> USE DEF HasSession, HasContext, HasBlock, Labels
<1>1. FileInv'
  BY LibraryStays
<1>2. UNCHANGED <<fd, contextMap, sessionMap, shm, mapped, kShm, call, phase, sharedmem>>
  BY Zenon DEF vars, ctxVars, sessVars, memVars
<1>3. HoldInv'
  BY <1>2 DEF HalInv, HoldInv
<1>4. BlocksInv'
  BY <1>2, MappingsStay
<1> QED BY <1>1, <1>3, <1>4 DEF HalInv

\* Every step of the HAL and of the library keeps what a transfer holds.
LEMMA HalStep ==
  ASSUME TeeClientAssumption, GatekeeperAssumption, TempFirst, HalInv,
         [GkNext]_allvars
  PROVE HalInv'
<1>1. CASE Transfer
  BY Zenon, <1>1, InitializeHolds, OpenSessionHolds, SessionOpenedHolds, FinalizeHolds, RegisterHolds,
     InvokeHolds, InvokedHolds, ReleaseHolds, CloseSessionHolds DEF Transfer
<1>2. CASE ut_gk_open \/ ut_gk_close \/ TimePasses
  BY <1>2, HalAlone, Zenon DEF ut_gk_open, ut_gk_close, TimePasses
<1>3. ASSUME NEW a \in Args, Call(a) PROVE HalInv'
  BY <1>3, HalAlone, Zenon DEF Call
<1>4. CASE Returns
  BY <1>4, HalAlone DEF Returns
<1>5. CASE UNCHANGED allvars
  BY <1>5, HalAlone, Zenon DEF allvars, hal
<1> QED BY <1>1, <1>2, <1>3, <1>4, <1>5, Zenon DEF GkNext

\* Between calls a HAL that holds no object of the library holds nothing.
LEMMA HalImplies == ASSUME TeeClientAssumption, GatekeeperAssumption, HalInv PROVE OnlyUnnamedLeak
<1> SUFFICES ASSUME pc = "idle"
             PROVE /\ contextMap = {} /\ sessionMap = {} /\ kSess = {}
                   /\ mapped = Unnamed /\ kShm = {} /\ FreeFd = Fd \ {0}
  BY Zenon DEF OnlyUnnamedLeak
<1>1. contextMap = {} /\ sessionMap = {} /\ call = NoCall /\ phase = "running"
  BY DEF HalInv, HoldInv, HasContext, HasSession
<1>2. kSess = {}
  BY <1>1, Zenon DEF HalInv, FileInv, SessionInv, SessionsOwned
<1>4. mapped = Unnamed /\ kShm = {}
  BY Zenon DEF HalInv, BlocksInv, HasBlock
<1>5. \A f \in Fd : fds[f] # "tee"
  BY <1>1, Zenon DEF HalInv, FileInv, ContextsOwnFiles
<1>6. FreeFd = Fd \ {0}
  BY <1>5 DEF FreeFd, HalInv, FileInv, TypeInv
<1> QED BY <1>1, <1>2, <1>4, <1>6, Zenon

\* A HAL that starts holds nothing.
LEMMA HalInit == ASSUME TeeClientAssumption, GatekeeperAssumption, GkInit PROVE HalInv
<1>1. Init /\ pc = "idle"
  BY DEF GkInit
<1>2. FileInv
  BY <1>1, FileInit, Zenon
<1>3. HoldInv
  BY <1>1, Zenon DEF Init, HoldInv, HasSession, HasContext, Labels
<1>4. sharedmem \in Shm /\ shm = [b \in Shm |-> ZeroShm] /\ mapped = {} /\ kShm = {}
  BY <1>1 DEF GkInit, Init, GatekeeperAssumption
<1>5. Unnamed = {}
  BY <1>4 DEF Unnamed, ZeroShm
<1>6. BlocksInv
  BY <1>1, <1>4, <1>5 DEF BlocksInv, HasBlock
<1> QED BY <1>2, <1>3, <1>6, Zenon DEF HalInv

-----------------------------------------------------------------------------
\* Everything AnswerInv speaks of, for the steps that leave it.
answerVars == <<args, buff, result, verdict, ret, ta>>

\* What is known of the answer stays true where nothing of it changes.
LEMMA AnswerStays ==
  ASSUME AnswerInv, UNCHANGED answerVars, pc' = pc
  PROVE AnswerInv'
<1>1. UNCHANGED <<args, buff, result, verdict, ret, ta>>
  BY DEF answerVars
<1>3. Made(buff.out)' = Made(buff.out)
  BY <1>1 DEF Made, Right
<1>4. SuccessIsTas'
  BY <1>1, Zenon DEF AnswerInv, SuccessIsTas, Right
<1>5. OverlongReachesTa'
  BY <1>1 DEF AnswerInv, OverlongReachesTa
<1>6. (Refuses(args)' <=> Refuses(args)) /\ RequestFor(args)' = RequestFor(args)
  BY <1>1, Zenon DEF Refuses, EnrollRefused, VerifyRefused, RequestFor, ut_gk_enroll, ut_gk_verify
<1> QED BY <1>1, <1>3, <1>4, <1>5, <1>6, Zenon DEF AnswerInv

\* A step from one label of a call to another that leaves the buffer.
LEMMA AnswerMoves ==
  ASSUME AnswerInv, UNCHANGED <<args, buff, verdict, ret, ta>>,
         pc' \in Labels \ {"idle"}, result' \in {"ok", "failed"},
         pc' \in {"initialize", "open", "opening", "register", "invoke", "invoking"} =>
           /\ pc \in {"initialize", "open", "opening", "register", "invoke", "invoking"}
           /\ result' = "ok",
         pc' = "finalize_early" => result' = "failed",
         pc' \in {"release", "close", "finalize", "return"} /\ result' = "ok" =>
           pc \in {"release", "close", "finalize", "return"} /\ result = "ok"
  PROVE AnswerInv'
<1>1. SuccessIsTas' /\ OverlongReachesTa'
  BY DEF SuccessIsTas, OverlongReachesTa
<1>2. Made(buff.out)' = Made(buff.out)
  BY DEF Made, Right
<1>3. (Refuses(args)' <=> Refuses(args)) /\ RequestFor(args)' = RequestFor(args)
  BY DEF Refuses, EnrollRefused, VerifyRefused, RequestFor, ut_gk_enroll, ut_gk_verify
<1> QED BY <1>1, <1>2, <1>3, Zenon DEF AnswerInv

\* A step of a transfer other than the command itself makes up no answer.
LEMMA TransferAnswers ==
  ASSUME AnswerInv, Transfer, ~Invoked
  PROVE AnswerInv'
<1> USE DEF GoTo, Labels, HasContext, HasSession
<1>0. result \in {"ok", "failed"}
  BY Zenon DEF AnswerInv
<1>1. CASE Initialize
  BY <1>1, AnswerMoves, Zenon DEF Initialize
<1>2. CASE OpenSession
  <2>1. result = "ok"
    BY <1>2, Zenon DEF OpenSession, AnswerInv
  <2> QED BY <1>2, <2>1, AnswerMoves, Zenon DEF OpenSession
<1>3. CASE SessionOpened
  BY <1>3, AnswerMoves, Zenon DEF SessionOpened
<1>4. CASE FinalizeEarly
  <2>1. result = "failed"
    BY <1>4, Zenon DEF FinalizeEarly, AnswerInv
  <2> QED BY <1>4, <2>1, AnswerMoves, Zenon DEF FinalizeEarly
<1>5. CASE Register
  BY <1>5, AnswerMoves, Zenon DEF Register
<1>6. CASE Invoke
  <2>1. result = "ok"
    BY <1>6, Zenon DEF Invoke, AnswerInv
  <2> QED BY <1>6, <2>1, AnswerMoves, Zenon DEF Invoke
<1>7. CASE Release \/ CloseSession \/ Finalize
  BY <1>0, <1>7, AnswerMoves, Zenon DEF Release, CloseSession, Finalize
<1> QED BY <1>1, <1>2, <1>3, <1>4, <1>5, <1>6, <1>7, Zenon DEF Transfer

\* What ut_gk_enroll and ut_gk_verify put in the request.
LEMMA RequestIs ==
  ASSUME GatekeeperAssumption, NEW a \in Args, ~Refuses(a)
  PROVE LET r == RequestFor(a)
        IN  /\ r.cmd = a.cmd /\ r.uid = a.uid /\ r.uid \in Uid /\ r.desired = a.desired
            /\ a.cmd = "verify" => r = ut_gk_verify(a)
            /\ a.cmd = "enroll" => \/ r.handle = Null /\ (a.handle = Null \/ a.pwd = Null)
                                   \/ r = a /\ a.handle # Null /\ a.pwd # Null
            /\ a.cmd \notin {"verify", "enroll"} => r = a
<1>1. CASE a.cmd = "enroll"
  BY <1>1 DEF Args, RequestFor, ut_gk_enroll
<1>2. CASE a.cmd = "verify"
  BY <1>2, Zenon DEF Args, RequestFor, ut_gk_verify
<1>3. CASE a.cmd \notin {"verify", "enroll"}
  BY <1>3 DEF Args, RequestFor
<1> QED BY <1>1, <1>2, <1>3

\* The TA keeps its counters and its users.
LEMMA TaStateType ==
  ASSUME NEW r, r.uid \in Uid, ta \in [tries : [Uid -> Nat], users : SUBSET Uid]
  PROVE TaState(r) \in [tries : [Uid -> Nat], users : SUBSET Uid]
<1>1. ta.tries \in [Uid -> Nat] /\ ta.users \in SUBSET Uid /\ ta.tries[r.uid] \in Nat
  OBVIOUS
<1>2. [ta EXCEPT !.tries[r.uid] = @ + 1] \in [tries : [Uid -> Nat], users : SUBSET Uid]
  BY <1>1
<1>3. [tries |-> [ta.tries EXCEPT ![r.uid] = 0], users |-> ta.users \cup {r.uid}]
        \in [tries : [Uid -> Nat], users : SUBSET Uid]
  BY <1>1
<1>4. /\ [ta EXCEPT !.users = @ \ {r.uid}] \in [tries : [Uid -> Nat], users : SUBSET Uid]
      /\ [ta EXCEPT !.users = {}] \in [tries : [Uid -> Nat], users : SUBSET Uid]
  BY <1>1
<1> QED BY <1>2, <1>3, <1>4 DEF TaState

\* The fields of an answer.
LEMMA AnswerFields ==
  \A e, o, t : /\ Answer(e, o, t).error = e /\ Answer(e, o, t).out = o
               /\ Answer(e, o, t).retry_timeout = t
BY Zenon DEF Answer

\* What an answer of the TA says: ERROR_RETRY that it did not look, ERROR_NONE
\* that it did and the password was right.
LEMMA TaAnswers ==
  ASSUME NEW r, NEW t
  PROVE /\ Checks(r) /\ Throttled(r) => TaAnswer(r, t) = Answer("ERROR_RETRY", Null, t)
        /\ ~(Checks(r) /\ Throttled(r)) => TaAnswer(r, t).error # "ERROR_RETRY"
        /\ TaAnswer(r, t).error = "ERROR_NONE" => ~(Checks(r) /\ Throttled(r)) /\ (Checks(r) => Right(r))
        /\ TaAnswer(r, t).error \notin {"none", "lost"}
<1>1. CASE Checks(r) /\ Throttled(r)
  <2>1. TaAnswer(r, t) = Answer("ERROR_RETRY", Null, t)
    BY <1>1, Zenon DEF TaAnswer
  <2>2. TaAnswer(r, t).error = "ERROR_RETRY"
    BY <2>1, AnswerFields
  <2> QED BY <1>1, <2>1, <2>2, Zenon
<1>2. CASE Checks(r) /\ ~Throttled(r) /\ ~Right(r)
  <2>1. TaAnswer(r, t) = Answer("ERROR_PASSWORD_WRONG", Null, 0)
    BY <1>2, Zenon DEF TaAnswer
  <2>2. TaAnswer(r, t).error = "ERROR_PASSWORD_WRONG"
    BY <2>1, AnswerFields
  <2> QED BY <1>2, <2>2, Zenon
<1>3. CASE ~(Checks(r) /\ Throttled(r)) /\ (Checks(r) => Right(r))
  <2>1. \/ TaAnswer(r, t) = Answer("ERROR_NONE", [token |-> r.uid], 0)
        \/ TaAnswer(r, t) = Answer("ERROR_NONE", [uid |-> r.uid, pwd |-> r.desired], 0)
        \/ TaAnswer(r, t) = Answer("ERROR_UID_NOTFOUND", Null, 0)
        \/ TaAnswer(r, t) = Answer("ERROR_NONE", Null, 0)
    BY <1>3, Zenon DEF TaAnswer
  <2>2. TaAnswer(r, t).error \in {"ERROR_NONE", "ERROR_UID_NOTFOUND"}
    BY <2>1, AnswerFields
  <2> QED BY <1>3, <2>2, Zenon
<1> QED BY <1>1, <1>2, <1>3, Zenon

\* An answer of the TA that says success is one for these arguments.
LEMMA TaMakes ==
  ASSUME GatekeeperAssumption, args \in Args, ~Refuses(args), UNCHANGED args,
         ta \in [tries : [Uid -> Nat], users : SUBSET Uid],
         NEW t \in Nat, ta' = TaState(RequestFor(args)), buff' = TaAnswer(RequestFor(args), t)
  PROVE /\ buff'.error \notin {"none", "lost"}
        /\ buff'.error = "ERROR_NONE" => Made(buff.out)'
        /\ buff'.error = "ERROR_RETRY" => buff'.retry_timeout \in Nat
<1> DEFINE r == RequestFor(args)
<1>0. /\ r.cmd = args.cmd /\ r.uid = args.uid /\ r.desired = args.desired
      /\ args.cmd = "verify" => r = ut_gk_verify(args)
      /\ args.cmd = "enroll" => \/ r.handle = Null /\ (args.handle = Null \/ args.pwd = Null)
                                \/ r = args /\ args.handle # Null /\ args.pwd # Null
  BY RequestIs
<1> HIDE DEF r
<1>1. ta' = TaState(r) /\ buff' = TaAnswer(r, t)
  BY DEF r
<1>2. buff'.error = "ERROR_RETRY" => buff'.retry_timeout \in Nat
  <2>1. TaAnswer(r, t).error = "ERROR_RETRY" => TaAnswer(r, t) = Answer("ERROR_RETRY", Null, t)
    BY TaAnswers, Zenon
  <2> QED BY <1>1, <2>1, AnswerFields
<1>3. ASSUME buff'.error = "ERROR_NONE" PROVE Made(buff.out)'
  <2>0. ~(Checks(r) /\ Throttled(r)) /\ (Checks(r) => Right(r))
    BY <1>1, <1>3, TaAnswers
  <2>1. CASE args.cmd = "verify"
    <3>1. args.pwd \in Short => Right(args)
      <4>1. Checks(r) /\ Right(ut_gk_verify(args))
        BY <1>0, <2>0, <2>1, Zenon DEF Checks
      <4>2. args.pwd \in Short => ut_gk_verify(args) = args
        BY DEF ut_gk_verify, GatekeeperAssumption
      <4> QED BY <4>1, <4>2
    <3>2. buff'.out = [token |-> args.uid]
      <4>1. TaAnswer(r, t) = Answer("ERROR_NONE", [token |-> r.uid], 0)
        <5>1. ~(Checks(r) /\ ~Right(r)) /\ r.cmd = "verify"
          BY <1>0, <2>0, <2>1, Zenon
        <5> QED BY <2>0, <5>1, Zenon DEF TaAnswer
      <4>2. buff'.out = TaAnswer(r, t).out
        BY <1>1, Zenon
      <4>3. TaAnswer(r, t) = Answer("ERROR_NONE", [token |-> args.uid], 0)
        BY <1>0, <4>1, Zenon
      <4>4. Answer("ERROR_NONE", [token |-> args.uid], 0).out = [token |-> args.uid]
        BY Zenon DEF Answer
      <4> QED BY <4>2, <4>3, <4>4, Zenon
    <3>3. buff'.out # Null
      <4>1. args.uid \in Uid
        BY DEF Args
      <4>2. [token |-> args.uid] \in [token : Uid]
        BY <4>1
      <4> QED BY <3>2, <4>2 DEF GatekeeperAssumption
    <3> QED BY <2>1, <3>1, <3>2, <3>3, Zenon DEF Made, Right
  <2>2. CASE args.cmd = "enroll"
    <3>1. buff'.out = [uid |-> args.uid, pwd |-> args.desired]
      <4>1. TaAnswer(r, t) = Answer("ERROR_NONE", [uid |-> r.uid, pwd |-> r.desired], 0)
        <5>1. ~(Checks(r) /\ ~Right(r)) /\ r.cmd = "enroll" /\ r.cmd # "verify"
          BY <1>0, <2>0, <2>2, Zenon
        <5> QED BY <2>0, <5>1, Zenon DEF TaAnswer
      <4>2. buff'.out = TaAnswer(r, t).out
        BY <1>1, Zenon
      <4>3. TaAnswer(r, t) = Answer("ERROR_NONE", [uid |-> args.uid, pwd |-> args.desired], 0)
        BY <1>0, <4>1, Zenon
      <4>4. Answer("ERROR_NONE", [uid |-> args.uid, pwd |-> args.desired], 0).out = [uid |-> args.uid, pwd |-> args.desired]
        BY Zenon DEF Answer
      <4> QED BY <4>2, <4>3, <4>4, Zenon
    <3>2. ASSUME args.handle \in Handle, args.pwd # Null PROVE Right(args)
      <4>1. args.handle # Null
        BY <3>2, Zenon DEF GatekeeperAssumption
      <4>2. r = args
        BY <1>0, <2>2, <3>2, <4>1, Zenon
      <4> QED BY <2>0, <2>2, <4>1, <4>2, Zenon DEF Checks
    <3>3. buff'.out # Null
      <4>1. args.uid \in Uid
        BY DEF Args
      <4>2. args.desired \in Short
        BY <2>2 DEF Args, Refuses, EnrollRefused
      <4>3. [uid |-> args.uid, pwd |-> args.desired] \in Handle
        BY <4>1, <4>2 DEF Handle
      <4> QED BY <3>1, <4>3 DEF GatekeeperAssumption
    <3> QED BY <2>2, <3>1, <3>2, <3>3, Zenon DEF Made, Right
  <2>3. CASE args.cmd = "delete_user"
    <3>1. ~Checks(r)
      BY <1>0, <2>3, Zenon DEF Checks
    <3>2. ta' = [ta EXCEPT !.users = @ \ {r.uid}]
      BY <1>0, <1>1, <2>3, <3>1, Zenon DEF TaState
    <3>3. args.uid \notin ta'.users
      BY <1>0, <3>2
    <3> QED BY <2>3, <3>3, Zenon DEF Made
  <2>4. CASE args.cmd = "delete_all_users"
    <3>1. ~Checks(r)
      BY <1>0, <2>4 DEF Checks
    <3>2. ta' = [ta EXCEPT !.users = {}]
      BY <1>0, <1>1, <2>4, <3>1, Zenon DEF TaState
    <3>3. ta'.users = {}
      BY <3>2
    <3> QED BY <2>4, <3>3 DEF Made
  <2>5. args.cmd \in {"verify", "enroll", "delete_user", "delete_all_users"}
    BY Zenon DEF Args
  <2> QED BY <2>1, <2>2, <2>3, <2>4, <2>5, Zenon
<1>4. buff'.error \notin {"none", "lost"}
  BY <1>1, TaAnswers, Zenon
<1> QED BY <1>2, <1>3, <1>4

\* The command: what is in the buffer is the TA's answer to this call, or the
\* call has failed.
LEMMA InvokedAnswers ==
  ASSUME GatekeeperAssumption, AnswerInv, Invoked
  PROVE AnswerInv'
<1> USE DEF Labels, HasContext, HasSession
<1>1. /\ pc = "invoking" /\ pc' = "release" /\ UNCHANGED <<device, args, ret>>
  BY Zenon DEF Invoked
<1>2. /\ args \in Args /\ ~Refuses(args) /\ buff.data = RequestFor(args)
      /\ ta \in [tries : [Uid -> Nat], users : SUBSET Uid]
  <2>1. buff = [is |-> "request", data |-> RequestFor(args)] /\ ~Refuses(args)
    BY <1>1 DEF AnswerInv
  <2>2. buff.data = RequestFor(args)
    BY <2>1, Zenon
  <2> QED BY <2>1, <2>2, Zenon DEF AnswerInv
<1>3. SuccessIsTas' /\ OverlongReachesTa'
  BY <1>1, Zenon DEF SuccessIsTas, OverlongReachesTa
<1>4. TaState(buff.data) \in [tries : [Uid -> Nat], users : SUBSET Uid]
  BY <1>2, RequestIs, TaStateType, Zenon
<1>5. \/ /\ result' = "ok" /\ ta' = TaState(RequestFor(args)) /\ verdict' = buff'.error
         /\ \E t \in RetryTimeout : buff' = TaAnswer(RequestFor(args), t)
      \/ result' = "ok" /\ buff' = Inner /\ ta' = ta /\ verdict' = Inner.error
      \/ result' = "failed" /\ ta' \in {ta, TaState(buff.data)}
  BY <1>2, Zenon DEF Invoked
<1>6. ta' \in [tries : [Uid -> Nat], users : SUBSET Uid] /\ result' \in {"ok", "failed"}
  BY <1>2, <1>4, <1>5, Zenon
<1>7. ASSUME result' = "ok"
      PROVE /\ verdict' = buff'.error /\ verdict' \notin {"none", "lost"}
            /\ buff'.error = "ERROR_NONE" => Made(buff.out)'
            /\ buff'.error = "ERROR_RETRY" => buff'.retry_timeout \in Nat
  <2>1. ASSUME ta' = TaState(RequestFor(args)), verdict' = buff'.error,
               NEW t \in RetryTimeout, buff' = TaAnswer(RequestFor(args), t)
        PROVE /\ verdict' = buff'.error /\ verdict' \notin {"none", "lost"}
              /\ buff'.error = "ERROR_NONE" => Made(buff.out)'
              /\ buff'.error = "ERROR_RETRY" => buff'.retry_timeout \in Nat
    <3>1. t \in Nat
      BY Zenon DEF GatekeeperAssumption
    <3> QED BY <1>1, <1>2, <2>1, <3>1, TaMakes
  <2>2. CASE buff' = Inner /\ verdict' = Inner.error
    <3>1. Inner.error = "ERROR_UNKNOWN"
      BY AnswerFields, Zenon DEF Inner
    <3> QED BY <2>2, <3>1
  <2> QED BY <1>5, <1>7, <2>1, <2>2, Zenon
<1> QED BY <1>1, <1>2, <1>3, <1>6, <1>7, Zenon DEF AnswerInv

\* A call starts without an answer.
LEMMA CallAnswers ==
  ASSUME GatekeeperAssumption, AnswerInv, NEW a \in Args, Call(a)
  PROVE AnswerInv'
<1> USE DEF Labels, HasContext, HasSession
<1>0. args' = a /\ ret' = NoRet /\ ta' = ta
  BY DEF Call
<1>1. /\ args' = a /\ ret' = NoRet /\ ta' = ta
      /\ \/ Refuses(a) /\ pc' = "idle" /\ result' = "ok"
         \/ pc' = "idle" /\ result' = "failed"
         \/ /\ ~Refuses(a) /\ pc' = "initialize" /\ result' = "ok"
            /\ buff' = [is |-> "request", data |-> RequestFor(a)]
  BY <1>0, Zenon DEF Call
<1>2. SuccessIsTas'
  <2>1. ret'.code = -1
    BY <1>0 DEF NoRet
  <2>2. ret'.code # 0 /\ ~(ret'.code >= 0) /\ ret'.out = Null
    BY <1>0, <2>1 DEF NoRet
  <2> QED BY <2>2, Zenon DEF SuccessIsTas
<1>3. a.cmd = "verify" /\ a.pwd \in Long /\ a.handle \in Handle => ~Refuses(a)
  BY DEF Refuses, VerifyRefused, GatekeeperAssumption
<1>4. OverlongReachesTa'
  BY <1>1, <1>3 DEF OverlongReachesTa
<1>5. (Refuses(args)' <=> Refuses(a)) /\ RequestFor(args)' = RequestFor(a)
  BY <1>1, Zenon DEF Refuses, EnrollRefused, VerifyRefused, RequestFor, ut_gk_enroll, ut_gk_verify
<1> QED BY <1>1, <1>2, <1>4, <1>5 DEF AnswerInv

\* What a call returns is taken from its answer.
LEMMA ReturnsAnswers ==
  ASSUME AnswerInv, Returns
  PROVE AnswerInv'
<1> USE DEF Labels, HasContext, HasSession
<1>1. pc = "return" /\ pc' = "idle" /\ UNCHANGED <<args, result, verdict, ta>>
  BY Zenon DEF Returns
<1>2. result = "ok" => /\ verdict = buff.error /\ verdict \notin {"none", "lost"}
                       /\ buff.error = "ERROR_NONE" => Made(buff.out)
                       /\ buff.error = "ERROR_RETRY" => buff.retry_timeout \in Nat
  BY <1>1 DEF AnswerInv
<1>3. OverlongReachesTa'
  BY <1>1, <1>2, Zenon DEF OverlongReachesTa
<1>4. \/ verdict = "ERROR_NONE" /\ Made(ret'.out) /\ ret'.code = 0
      \/ ret' = NoRet
      \/ /\ verdict = "ERROR_RETRY" /\ args.cmd \in {"enroll", "verify"}
         /\ ret'.code \in Nat /\ ret'.out = Null
  BY <1>2 DEF Returns
<1>5. args.cmd \in {"verify", "enroll", "delete_user", "delete_all_users"}
  BY Zenon DEF AnswerInv, Args
<1>6. SuccessIsTas'
  <2>1. CASE verdict = "ERROR_NONE" /\ Made(ret'.out) /\ ret'.code = 0
    <3>1. ret'.out = Null => args.cmd \in {"delete_user", "delete_all_users"}
      BY <1>5, <2>1, Zenon DEF Made
    <3> QED BY <1>1, <2>1, <3>1, Zenon DEF SuccessIsTas, Made, Right
  <2>2. CASE ret' = NoRet
    <3>1. ret'.code = -1 /\ ret'.out = Null
      BY <2>2 DEF NoRet
    <3>2. ret'.code # 0 /\ ~(ret'.code >= 0)
      BY <3>1
    <3> QED BY <3>1, <3>2, Zenon DEF SuccessIsTas
  <2>3. CASE /\ verdict = "ERROR_RETRY" /\ args.cmd \in {"enroll", "verify"}
             /\ ret'.code \in Nat /\ ret'.out = Null
    BY <1>1, <2>3, Zenon DEF SuccessIsTas
  <2> QED BY <1>4, <2>1, <2>2, <2>3, Zenon
<1> QED BY <1>1, <1>3, <1>6, Zenon DEF AnswerInv

\* The end of a throttling changes no user's record.
LEMMA TimeAnswers ==
  ASSUME GatekeeperAssumption, AnswerInv, TimePasses
  PROVE AnswerInv'
<1>1. PICK u \in Uid : ta' = [ta EXCEPT !.tries[u] = MaxTries - 1]
  BY Zenon DEF TimePasses
<1>2. UNCHANGED <<args, buff, pc, result, verdict, ret>>
  BY DEF TimePasses
<1>3. ta \in [tries : [Uid -> Nat], users : SUBSET Uid] /\ MaxTries - 1 \in Nat
  <2>1. MaxTries \in Nat \ {0}
    BY DEF GatekeeperAssumption
  <2>2. MaxTries - 1 \in Nat
    BY <2>1
  <2> QED BY <2>2, Zenon DEF AnswerInv
<1>4. ta' \in [tries : [Uid -> Nat], users : SUBSET Uid] /\ ta'.users = ta.users
  BY <1>1, <1>3
<1>5. Made(buff.out)' = Made(buff.out)
  BY <1>2, <1>4 DEF Made, Right
<1>6. SuccessIsTas'
  BY <1>2, <1>4, Zenon DEF AnswerInv, SuccessIsTas, Right
<1>7. OverlongReachesTa'
  BY <1>2 DEF AnswerInv, OverlongReachesTa
<1>8. (Refuses(args)' <=> Refuses(args)) /\ RequestFor(args)' = RequestFor(args)
  BY <1>2, Zenon DEF Refuses, EnrollRefused, VerifyRefused, RequestFor, ut_gk_enroll, ut_gk_verify
<1> QED BY <1>2, <1>4, <1>5, <1>6, <1>7, <1>8, Zenon DEF AnswerInv

\* A HAL that starts has no answer.
LEMMA AnswerInit == ASSUME GkInit PROVE AnswerInv
<1>1. /\ args \in Args /\ args.cmd = "delete_all_users" /\ pc = "idle" /\ result = "ok"
      /\ ret = NoRet /\ ta = [tries |-> [u \in Uid |-> 0], users |-> {}]
  BY Zenon DEF GkInit
<1>2. ta \in [tries : [Uid -> Nat], users : SUBSET Uid]
  BY <1>1
<1>3. SuccessIsTas
  <2>1. ret.code = -1
    BY <1>1 DEF NoRet
  <2>2. ret.code # 0 /\ ~(ret.code >= 0) /\ ret.out = Null
    BY <1>1, <2>1 DEF NoRet
  <2> QED BY <2>2, Zenon DEF SuccessIsTas
<1>4. OverlongReachesTa
  BY <1>1 DEF OverlongReachesTa
<1> QED BY <1>1, <1>2, <1>3, <1>4, Zenon DEF AnswerInv, Labels

\* Every step keeps what is known of the answer.
LEMMA AnswerStep == ASSUME GatekeeperAssumption, AnswerInv, [GkNext]_allvars PROVE AnswerInv'
<1>1. CASE Transfer
  BY <1>1, TransferAnswers, InvokedAnswers, Zenon
<1>2. CASE ut_gk_open \/ ut_gk_close
  BY <1>2, AnswerStays DEF ut_gk_open, ut_gk_close, answerVars
<1>3. ASSUME NEW a \in Args, Call(a) PROVE AnswerInv'
  BY <1>3, CallAnswers, Zenon
<1>4. CASE UNCHANGED allvars
  BY <1>4, AnswerStays DEF allvars, hal, answerVars
<1> QED BY <1>1, <1>2, <1>3, <1>4, ReturnsAnswers, TimeAnswers, Zenon DEF GkNext

-----------------------------------------------------------------------------
(***************************************************************************)
(* The theorems on the gatekeeper HAL.                                     *)
(***************************************************************************)
\* ut_gk_transfer_buff: whichever of its steps fails, over any number of
\* calls, between two calls exactly the mappings are held that the driver gave
\* no id for, and nothing else of the library or the driver.
THEOREM LeakSafe ==
  TeeClientAssumption /\ GatekeeperAssumption /\ TempFirst => (GkSpec => []OnlyUnnamedLeak)
<1> SUFFICES ASSUME TeeClientAssumption, GatekeeperAssumption, TempFirst
             PROVE GkSpec => []OnlyUnnamedLeak
  OBVIOUS
<1>1. GkInit => HalInv
  BY HalInit
<1>2. HalInv /\ [GkNext]_allvars => HalInv'
  BY HalStep
<1>3. HalInv => OnlyUnnamedLeak
  BY HalImplies
<1> QED BY <1>1, <1>2, <1>3, PTL DEF GkSpec

\* The invariant on the request and the answer is inductive.
THEOREM AnswerInductive == GatekeeperAssumption => (GkSpec => []AnswerInv)
<1> SUFFICES ASSUME GatekeeperAssumption PROVE GkSpec => []AnswerInv
  OBVIOUS
<1>1. GkInit => AnswerInv
  BY AnswerInit
<1>2. AnswerInv /\ [GkNext]_allvars => AnswerInv'
  BY AnswerStep
<1> QED BY <1>1, <1>2, PTL DEF GkSpec

\* ut_gk_enroll, ut_gk_verify and the deletions: what comes back is what the TA
\* answered to the arguments of this call, whatever time it asks to wait.
THEOREM SuccessSafe == GatekeeperAssumption => (GkSpec => []SuccessIsTas)
<1>1. AnswerInv => SuccessIsTas
  BY Zenon DEF AnswerInv
<1> QED BY <1>1, AnswerInductive, PTL

\* ut_gk_verify: a password that is too long is put to the TA, unless memory
\* or the transfer failed.
THEOREM OverlongSafe == GatekeeperAssumption => (GkSpec => []OverlongReachesTa)
<1>1. AnswerInv => OverlongReachesTa
  BY DEF AnswerInv
<1> QED BY <1>1, AnswerInductive, PTL

=============================================================================
