----------------------------- MODULE Gatekeeper -----------------------------
(***************************************************************************)
(* The gatekeeper HAL of common/400 (gatekeeper/ut_gatekeeper.cpp) over    *)
(* the TEE client library: each call builds a request in a buffer, opens a *)
(* context and a session, registers the buffer, invokes the TA, which      *)
(* leaves its answer in the same buffer, and takes everything down again.  *)
(* The calls of TeeClient are conjoined with the steps of the HAL; any of  *)
(* them may fail.  The TA is external: it checks passwords and throttles.  *)
(***************************************************************************)
EXTENDS TeeClient

CONSTANTS
  Uid,
  Short, Long,   \* passwords of 1 to 99 bytes, and of 100 bytes or more
  Prefix,        \* the first 17 bytes of a long password: a short one
  Null,          \* a null pointer or a length of zero
  Odd,           \* a handle of another size than password_handle_t
  MaxTries,      \* wrong passwords before the TA throttles
  RetryTimeout   \* what it may then ask to wait, in milliseconds; an int

\* The objects on the stack of ut_gk_transfer_buff.  Its block is a variable: a
\* mapping a call leaves behind keeps its address, and the next call gets
\* another one.
context == 1
session == 1
operation == CHOOSE o \in Operation : TRUE

Handle == [uid : Uid, pwd : Short]

\* Assumed of the constants.
GatekeeperAssumption ==
  /\ context \in Ctx /\ session \in Sess /\ Shm # {}
  /\ operation \in Operation /\ ParamTypes[operation] = <<"whole">>
  /\ Prefix \in [Long -> Short]
  /\ Short \cap Long = {} /\ Null \notin Short \cup Long
  /\ {Null, Odd} \cap Handle = {} /\ Null # Odd /\ Null \notin [token : Uid]
  /\ MaxTries \in Nat \ {0} /\ RetryTimeout \subseteq Nat

Args   == [cmd : {"enroll"}, uid : Uid, handle : Handle \cup {Null, Odd},
           pwd : Short \cup Long \cup {Null}, desired : Short \cup Long \cup {Null}]
          \cup [cmd : {"verify"}, uid : Uid, handle : Handle \cup {Null, Odd},
                pwd : Short \cup Long \cup {Null}, desired : {Null}]
          \cup [cmd : {"delete_user", "delete_all_users"}, uid : Uid, handle : {Null},
                pwd : {Null}, desired : {Null}]

VARIABLES
  device,  \* whether the HAL device is open
  args,    \* the arguments of the current, or of the last, call
  buff,    \* the transfer buffer: nothing, a request or an answer
  pc,      \* where the call is; "idle" between calls
  result,  \* whether calloc or ut_gk_transfer_buff has met a failure
  verdict, \* history: the TA's error for this call; "none" before, "lost" if it
           \* did not come back
  sharedmem, \* the block of the current, or of the last, transfer
  ret,     \* what the last call returned, and the handle or token with it
  ta       \* external: wrong tries of each user, and the users it has a record of

hal   == <<device, args, buff, pc, result, verdict, sharedmem, ret, ta>>
allvars == <<vars, hal>>

NoRet == [code |-> -1, out |-> Null]

GkInit ==
  /\ Init
  /\ device = "closed" /\ pc = "idle" /\ buff = Null /\ result = "ok" /\ ret = NoRet
  /\ verdict = "none" /\ sharedmem = CHOOSE b \in Shm : TRUE
  /\ args \in {a \in Args : a.cmd = "delete_all_users"}
  /\ ta = [tries |-> [u \in Uid |-> 0], users |-> {}]

ut_gk_open ==
  /\ device = "closed" /\ device' = "open"
  /\ UNCHANGED <<vars, args, buff, pc, result, verdict, sharedmem, ret, ta>>

ut_gk_close ==
  /\ device = "open" /\ pc = "idle" /\ device' = "closed"
  /\ UNCHANGED <<vars, args, buff, pc, result, verdict, sharedmem, ret, ta>>

-----------------------------------------------------------------------------
\* The checks of ut_gk_enroll, and the request it builds: without a complete
\* pair of handle and password it enrols anew.
EnrollRefused(a) ==
  \/ a.desired \in Long \cup {Null}
  \/ /\ a.handle # Null /\ a.pwd # Null
     /\ a.handle = Odd \/ a.pwd \in Long
ut_gk_enroll(a) ==
  IF a.handle = Null \/ a.pwd = Null THEN [a EXCEPT !.handle = Null, !.pwd = Null] ELSE a

\* Mutant of VerifyRefused: a password that is too long is refused at once.
VerifyRefused_long(a) == a.handle \in {Null, Odd} \/ a.pwd \in Long \cup {Null}

\* Those of ut_gk_verify.  A password that is too long is cut, so that the TA
\* counts the attempt.
VerifyRefused(a) == a.handle \in {Null, Odd} \/ a.pwd = Null
ut_gk_verify(a)  == IF a.pwd \in Long THEN [a EXCEPT !.pwd = Prefix[a.pwd]] ELSE a

Refuses(a) == \/ a.cmd = "enroll" /\ EnrollRefused(a)
              \/ a.cmd = "verify" /\ VerifyRefused(a)
RequestFor(a) == IF a.cmd = "enroll" THEN ut_gk_enroll(a)
                 ELSE IF a.cmd = "verify" THEN ut_gk_verify(a) ELSE a

\* A call: refused, out of memory, or on to the transfer.
Call(a) ==
  /\ device = "open" /\ pc = "idle"
  /\ args' = a /\ verdict' = "none" /\ ret' = NoRet
  /\ \/ /\ Refuses(a)
        /\ pc' = "idle" /\ result' = "ok" /\ UNCHANGED buff
     \/ /\ ~Refuses(a)
        /\ pc' = "idle" /\ result' = "failed" /\ UNCHANGED buff
     \/ /\ ~Refuses(a)
        /\ pc' = "initialize" /\ result' = "ok"
        /\ buff' = [is |-> "request", data |-> RequestFor(a)]
  /\ UNCHANGED <<vars, device, sharedmem, ta>>

\* ut_gk_transfer_buff, one library call at a time.
GoTo(l) == pc' = l /\ UNCHANGED <<device, args, buff, verdict, sharedmem, ret, ta>>

Initialize ==
  /\ pc = "initialize"
  /\ \E ok \in BOOLEAN :
       /\ TEEC_InitializeContext(context, ok)
       /\ result' = IF ok THEN "ok" ELSE "failed"
       /\ GoTo(IF ok THEN "open" ELSE "return")

OpenSession ==
  /\ pc = "open"
  /\ TEEC_OpenSession(context, session, NullOp)
  /\ GoTo("opening") /\ UNCHANGED result

\* Mutant of SessionOpened: it tries again until it has a session.
SessionOpened_retries ==
  /\ pc = "opening"
  /\ \E ok \in BOOLEAN :
       /\ OpenSessionReturns(ok)
       /\ result' = IF ok THEN "ok" ELSE "failed"
       /\ GoTo(IF ok THEN "register" ELSE "open")

\* A session that cannot be opened finalizes the context here, and again at
\* the common exit, where it is no longer in the map.
SessionOpened ==
  /\ pc = "opening"
  /\ \E ok \in BOOLEAN :
       /\ OpenSessionReturns(ok)
       /\ result' = IF ok THEN "ok" ELSE "failed"
       /\ GoTo(IF ok THEN "register" ELSE "finalize_early")

FinalizeEarly ==
  /\ pc = "finalize_early"
  /\ TEEC_FinalizeContext(context)
  /\ GoTo("finalize") /\ UNCHANGED result

\* Mutant of Register: a failure leaves by the label of a failed session.
Register_skips_close ==
  /\ pc = "register"
  /\ sharedmem' \in Shm /\ \A b \in Shm : b < sharedmem' => b \in mapped
  /\ \E ok \in BOOLEAN :
       /\ ok => sharedmem' \notin mapped
       /\ TEEC_RegisterSharedMemory(context, sharedmem', ok)
       /\ result' = IF ok THEN "ok" ELSE "failed"
       /\ pc' = IF ok THEN "invoke" ELSE "return"
  /\ UNCHANGED <<device, args, buff, verdict, ret, ta>>

\* The buffer gets a shadow, at the first address where nothing is mapped, and an
\* id, or is left without one (ShmIdResult): the call succeeds all the same.
Register ==
  /\ pc = "register"
  /\ sharedmem' \in Shm /\ \A b \in Shm : b < sharedmem' => b \in mapped
  /\ \E ok \in BOOLEAN :
       /\ ok => sharedmem' \notin mapped
       /\ TEEC_RegisterSharedMemory(context, sharedmem', ok)
       /\ result' = IF ok THEN "ok" ELSE "failed"
       /\ pc' = IF ok THEN "invoke" ELSE "close"
  /\ UNCHANGED <<device, args, buff, verdict, ret, ta>>

Invoke ==
  /\ pc = "invoke"
  /\ TEEC_InvokeCommand(session, operation)
  /\ IF call' = NoCall
     THEN GoTo("release") /\ result' = "failed"
     ELSE GoTo("invoking") /\ UNCHANGED result

-----------------------------------------------------------------------------
(***************************************************************************)
(* The TA, as the HAL uses it: its answer to a request, and the state it   *)
(* keeps.  It may also fail inside.                                        *)
(***************************************************************************)
Answer(e, o, t) == [is |-> "answer", error |-> e, out |-> o, retry_timeout |-> t]
Inner == Answer("ERROR_UNKNOWN", Null, 0)

Throttled(r) == ta.tries[r.uid] >= MaxTries
Right(r)     == r.handle.uid = r.uid /\ r.handle.pwd = r.pwd
Checks(r)    == r.cmd = "verify" \/ (r.cmd = "enroll" /\ r.handle # Null)

TaAnswer(r, t) ==
  IF Checks(r) /\ Throttled(r) THEN Answer("ERROR_RETRY", Null, t)
  ELSE IF Checks(r) /\ ~Right(r) THEN Answer("ERROR_PASSWORD_WRONG", Null, 0)
  ELSE IF r.cmd = "verify" THEN Answer("ERROR_NONE", [token |-> r.uid], 0)
  ELSE IF r.cmd = "enroll" THEN Answer("ERROR_NONE", [uid |-> r.uid, pwd |-> r.desired], 0)
  ELSE IF r.cmd = "delete_user" /\ r.uid \notin ta.users THEN Answer("ERROR_UID_NOTFOUND", Null, 0)
  ELSE Answer("ERROR_NONE", Null, 0)

TaState(r) ==
  IF Checks(r) /\ Throttled(r) THEN ta
  ELSE IF Checks(r) /\ ~Right(r) THEN [ta EXCEPT !.tries[r.uid] = @ + 1]
  ELSE IF r.cmd \in {"verify", "enroll"}
       THEN [tries |-> [ta.tries EXCEPT ![r.uid] = 0], users |-> ta.users \cup {r.uid}]
  ELSE IF r.cmd = "delete_user" THEN [ta EXCEPT !.users = @ \ {r.uid}]
  ELSE [ta EXCEPT !.users = {}]

\* The throttling of a user ends.
TimePasses ==
  /\ \E u \in Uid : ta.tries[u] >= MaxTries /\ ta' = [ta EXCEPT !.tries[u] = MaxTries - 1]
  /\ UNCHANGED <<vars, device, args, buff, pc, result, verdict, sharedmem, ret>>

-----------------------------------------------------------------------------
\* The invocation returns: answered, failed inside the TA, or failed on the
\* way there or back.  The driver refuses a block it has no id for.
Invoked ==
  /\ pc = "invoking"
  /\ \E ok \in BOOLEAN :
       /\ InvokeCommandReturns(ok)
       /\ result' = IF ok THEN "ok" ELSE "failed"
       /\ \/ /\ ok /\ ta' = TaState(buff.data)
             /\ \E t \in RetryTimeout : buff' = TaAnswer(buff.data, t)
             /\ verdict' = buff'.error
          \/ /\ ok /\ buff' = Inner /\ verdict' = Inner.error /\ UNCHANGED ta
          \/ /\ ~ok /\ ta' \in {ta, TaState(buff.data)}
             /\ verdict' = "lost" /\ UNCHANGED buff
       /\ shm[sharedmem].id = -1 => ~ok /\ ta' = ta
  /\ pc' = "release"
  /\ UNCHANGED <<device, args, sharedmem, ret>>

Release ==
  /\ pc = "release"
  /\ TEEC_ReleaseSharedMemory(sharedmem)
  /\ GoTo("close") /\ UNCHANGED result

CloseSession ==
  /\ pc = "close"
  /\ TEEC_CloseSession(session)
  /\ GoTo("finalize") /\ UNCHANGED result

Finalize ==
  /\ pc = "finalize"
  /\ TEEC_FinalizeContext(context)
  /\ GoTo("return") /\ UNCHANGED result

\* Mutant of Returns: the result of the transfer is not looked at.
Returns_unchecked ==
  /\ pc = "return"
  /\ \/ /\ buff.is = "request" \/ buff.error = "ERROR_NONE"
        /\ ret' = [code |-> 0, out |-> IF buff.is = "request" THEN Null ELSE buff.out]
     \/ /\ ret' = NoRet
  /\ pc' = "idle" /\ buff' = Null
  /\ UNCHANGED <<vars, device, args, result, verdict, sharedmem, ta>>

\* The end of the HAL call: the answer's error, the memory for its output, and
\* the buffer freed.
Returns ==
  /\ pc = "return"
  /\ \/ /\ result = "ok" /\ buff.error = "ERROR_NONE"
        /\ ret' = [code |-> 0, out |-> buff.out]
     \/ /\ result = "ok" /\ buff.error = "ERROR_NONE"
        /\ args.cmd \in {"enroll", "verify"}          \* no memory for the output
        /\ ret' = NoRet
     \/ /\ result = "ok" /\ buff.error = "ERROR_RETRY"
        /\ args.cmd \in {"enroll", "verify"}
        /\ ret' = [code |-> buff.retry_timeout, out |-> Null]
     \/ /\ result = "ok"
        /\ buff.error \notin {"ERROR_NONE", "ERROR_RETRY"}
        /\ ret' = NoRet
     \/ /\ result = "failed"
        /\ ret' = NoRet
  /\ pc' = "idle" /\ buff' = Null
  /\ UNCHANGED <<vars, device, args, result, verdict, sharedmem, ta>>

Transfer == Initialize \/ OpenSession \/ SessionOpened \/ FinalizeEarly \/ Register \/ Invoke
            \/ Invoked \/ Release \/ CloseSession \/ Finalize

GkNext ==
  \/ ut_gk_open \/ ut_gk_close
  \/ \E a \in Args : Call(a)
  \/ Transfer \/ Returns \/ TimePasses

\* A call of the HAL runs on; the library and the driver return.
GkSpec == GkInit /\ [][GkNext]_allvars /\ WF_allvars(Transfer \/ Returns)

-----------------------------------------------------------------------------
\* The mappings the library has no id for: TEEC_ReleaseSharedMemory returns
\* early for such a block.
Unnamed == {b \in Shm : shm[b].id = -1 /\ shm[b].shadow_buffer # 0}

\* Between calls the HAL holds nothing but mappings whose id TEE_IOC_SHM_ID
\* refused, and every one of these for good: whichever step of the transfer
\* failed, the session is closed, the memory id gone, any other mapping removed
\* and the device file closed exactly once.
OnlyUnnamedLeak ==
  pc = "idle" => /\ contextMap = {} /\ sessionMap = {} /\ kSess = {}
                 /\ mapped = Unnamed /\ kShm = {} /\ FreeFd = Fd \ {0}

\* What a call returns is the TA's word on its own arguments.  A token or a
\* handle comes only with the TA's success: a token for the user whose password
\* was given, if that was not cut, and a handle for the desired password.  A
\* deletion that returns zero has been done.  Zero or more without an output is
\* the TA's throttling, even where it asks to wait for no time at all.
SuccessIsTas ==
  pc = "idle" =>
    /\ ret.out # Null => verdict = "ERROR_NONE" /\ ret.code = 0
    /\ ret.out # Null /\ args.cmd = "verify" =>
         ret.out = [token |-> args.uid] /\ (args.pwd \in Short => Right(args))
    /\ ret.out # Null /\ args.cmd = "enroll" =>
         /\ ret.out = [uid |-> args.uid, pwd |-> args.desired]
         /\ args.handle \in Handle /\ args.pwd # Null => Right(args)
    /\ ret.code = 0 /\ args.cmd = "delete_user" => args.uid \notin ta.users
    /\ ret.code = 0 /\ args.cmd = "delete_all_users" => ta.users = {}
    /\ ret.code >= 0 /\ ret.out = Null =>
         \/ verdict = "ERROR_RETRY" /\ args.cmd \in {"enroll", "verify"}
         \/ ret.code = 0 /\ args.cmd \in {"delete_user", "delete_all_users"}

\* "We should increase fail times in tee, so can't return directly": a verify
\* with a password that is too long comes back without the TA's verdict on it
\* only when memory or the transfer failed.
OverlongReachesTa ==
  /\ pc = "idle" /\ args.cmd = "verify" /\ args.pwd \in Long /\ args.handle \in Handle
  /\ result = "ok"
  => verdict \notin {"none", "lost"}

\* "Provided_password_length %d, max 99. Will verify fail" (ut_gatekeeper.cpp):
\* ut_gk_verify gives no token for a password that is too long.
OverlongFails ==
  pc = "idle" /\ args.cmd = "verify" /\ args.pwd \in Long => ret.out = Null

\* Every call comes back, through whatever exit its failures lead to.
EveryCallReturns == (pc # "idle") ~> (pc = "idle")
=============================================================================
