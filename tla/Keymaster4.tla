----------------------------- MODULE Keymaster4 -----------------------------
(***************************************************************************)
(* The Keymaster 4.0 and 4.1 services of the 400 stack (common/400/km4.1): *)
(* main, which initialises the channel before it registers the device, the *)
(* HIDL calls of the device, the commands they forward, and the channel.   *)
(*                                                                         *)
(* Unlike KeyMint, the operations belong to the client, which names them   *)
(* by handle; the TA is configured once, by main, and not by a reset; and  *)
(* a connection whose memory cannot be mapped is torn down and then taken  *)
(* into use all the same.                                                  *)
(*                                                                         *)
(* One HIDL thread serves one call at a time.  The TA is external, as in   *)
(* KeyMint: an error it answers for an operation ends that operation, and  *)
(* the codes it reports outside an answer are negative.                    *)
(***************************************************************************)
EXTENDS Integers

CONSTANTS
  OpHandle,  \* the operation handles of the TA
  KmFd,      \* descriptors a context may get; 0 is taken
  MaxFaults  \* how often the TEE, the client library or the process fails

\* Assumed of the constants.
Keymaster4Assumption ==
  /\ OpHandle \subseteq Nat \ {0}
  /\ KmFd \subseteq Nat \ {0} /\ KmFd # {}
  /\ MaxFaults \in Nat

\* Calls answered without the TA: addRngEntropy without data, and three more.
NoEntropy     == {"addNoEntropy"}
Unimplemented == {"deleteKey", "deleteAllKeys", "destroyAttestationIds"}

\* Calls that forward one command and return its results: none, some that are
\* read only with OK, or the token of verifyAuthorization, which is read
\* whatever the error is.
NoResult   == {"addRngEntropy", "deviceLocked", "earlyBootEnded"}
HmacCall   == {"getHmacSharingParameters", "computeSharedHmac"}
KeyCall    == {"generateKey", "getKeyCharacteristics", "importKey", "importWrappedKey",
               "exportKey", "attestKey", "upgradeKey"}
TokenCall  == {"verifyAuthorization"}
DeviceCall == NoResult \cup HmacCall \cup KeyCall \cup TokenCall

OperationCall == {"begin", "update", "finish", "abort"}
HidlCall    == NoEntropy \cup Unimplemented \cup DeviceCall \cup OperationCall

Resource == {"context", "session", "inputSM", "outputSM"}

VARIABLES
  kmPc,        \* where the process is; "down" until main has initialised it
  hidl,        \* the call it serves: command, operation handle, request too big
  sending,     \* the command in ForwardCommand
  error,       \* response.error
  hidlResult,  \* what the callback is given besides the error
  op_handle,   \* op_handle in the answer of the TA
  handle_, live,
  held,        \* handles the client was given and has not ended
  taOps, taConfigured,
  outcome,     \* history: what the TA made of the caller's command
  faults

channelVars == <<handle_, live>>
taVars      == <<taOps, taConfigured>>
callVars    == <<hidl, sending>>
answerVars  == <<error, hidlResult, op_handle>>
kmVars == <<kmPc, callVars, answerVars, channelVars, held, taVars, outcome, faults>>

Fault   == faults < MaxFaults /\ faults' = faults + 1
NoFault == UNCHANGED faults

NoHidlCall == [cmd |-> "abort", h |-> 0, big |-> FALSE]

KmInit ==
  /\ kmPc = "down" /\ hidl = NoHidlCall /\ sending = "configure"
  /\ error = "OK" /\ hidlResult = "none" /\ op_handle = 0
  /\ handle_ = -1 /\ live = {}
  /\ held = {}
  /\ taOps = {} /\ taConfigured = FALSE
  /\ outcome = "none"
  /\ faults = 0

-----------------------------------------------------------------------------
(***************************************************************************)
(* The channel.                                                            *)
(***************************************************************************)
\* ok says whether it returns 0.  A context or session that cannot be opened
\* is an error.  Memory that cannot be mapped is not: session and context are
\* closed, the second mapping, on the closed descriptor, fails too if the
\* first did, and handle_ takes the number of that descriptor.
bp_keymaster_connect(ok) ==
  \/ /\ handle_ > 0 /\ ok
     /\ NoFault /\ UNCHANGED channelVars
  \/ /\ handle_ <= 0 /\ ok
     /\ NoFault
     /\ live' = Resource
     /\ handle_' \in KmFd
  \/ /\ handle_ <= 0 /\ ok
     /\ Fault
     /\ UNCHANGED live
     /\ handle_' \in KmFd
  \/ /\ handle_ <= 0 /\ ~ok
     /\ Fault
     /\ UNCHANGED channelVars

\* The TA forgets the session with its operations.
bp_keymaster_disconnect ==
  /\ IF handle_ > 0
       THEN live' = {} /\ taOps' = {}
       ELSE UNCHANGED <<live, taOps>>
  /\ handle_' = -1
  /\ UNCHANGED taConfigured

-----------------------------------------------------------------------------
\* External: the TA runs the command; e is the error of its answer.  A handle
\* it hands out is a random number, so it is none that anyone still holds.
TaRuns(e) ==
  CASE sending = "configure" ->
         taConfigured' = (taConfigured \/ e = "OK") /\ UNCHANGED <<taOps, op_handle>>
    [] sending = "begin" ->
         /\ IF e = "OK"
              THEN \E h \in OpHandle \ (taOps \cup held) : taOps' = taOps \cup {h} /\ op_handle' = h
              ELSE UNCHANGED <<taOps, op_handle>>
         /\ UNCHANGED taConfigured
    [] sending \in {"update", "finish", "abort"} ->
         /\ e = "OK" => hidl.h \in taOps
         /\ taOps' = IF sending = "update" /\ e = "OK" THEN taOps ELSE taOps \ {hidl.h}
         /\ UNCHANGED <<taConfigured, op_handle>>
    [] OTHER -> UNCHANGED <<taVars, op_handle>>

-----------------------------------------------------------------------------
(***************************************************************************)
(* bp_keymaster_send, bp_keymaster_send_no_request and bp_keymaster_call.  *)
(***************************************************************************)
Fits == ~(sending = hidl.cmd /\ hidl.big)

TooBig ==
  /\ kmPc = "send" /\ ~Fits
  /\ NoFault
  /\ error' = "BEANPOD_KM_INVALID_INPUT_LENGTH"
  /\ kmPc' = "returned"
  /\ UNCHANGED <<callVars, hidlResult, op_handle, channelVars, held, taVars, outcome>>

NotConnected ==
  /\ kmPc = "send" /\ Fits
  /\ handle_ < 0
  /\ NoFault
  /\ error' = "ERROR"
  /\ kmPc' = "disconnect"
  /\ UNCHANGED <<callVars, hidlResult, op_handle, channelVars, held, taVars, outcome>>

\* The request is copied to where inputSM, or the answer cleared where
\* outputSM, was never mapped.
WritesUnmapped ==
  /\ kmPc = "send" /\ Fits
  /\ handle_ >= 0 /\ live = {}
  /\ NoFault
  /\ kmPc' = "crashed"
  /\ UNCHANGED <<callVars, answerVars, channelVars, held, taVars, outcome>>

\* The answer is lost: TEEC_InvokeCommand fails before or after the TA has run
\* the command, or the TA reports a negative code instead of an answer.
InvokeFails ==
  /\ kmPc = "send" /\ Fits
  /\ handle_ >= 0 /\ live = Resource
  /\ Fault
  /\ \/ UNCHANGED <<taVars, op_handle>>
     \/ \E e \in {"OK", "ERROR"} : TaRuns(e)
  /\ error' = "ERROR"
  /\ kmPc' = "disconnect"
  /\ UNCHANGED <<callVars, hidlResult, channelVars, held, outcome>>

\* That the TA refuses its configuration counts as a fault.
Answered ==
  /\ kmPc = "send" /\ Fits
  /\ handle_ >= 0 /\ live = Resource
  /\ \E e \in {"OK", "ERROR"} :
       /\ IF sending = "configure" /\ e # "OK" THEN Fault ELSE NoFault
       /\ TaRuns(e)
       /\ error' = e
       /\ outcome' = IF sending = hidl.cmd THEN e ELSE outcome
  /\ kmPc' = "returned"
  /\ UNCHANGED <<callVars, hidlResult, channelVars, held>>

\* The reset of the connection, whose result is ignored.
Disconnect ==
  /\ kmPc = "disconnect"
  /\ NoFault
  /\ bp_keymaster_disconnect
  /\ kmPc' = "reconnect"
  /\ UNCHANGED <<callVars, answerVars, held, outcome>>

\* Mutant of Reconnect: the channel stays down once it has been reset.
Reconnect_never ==
  /\ kmPc = "reconnect"
  /\ NoFault
  /\ kmPc' = "returned"
  /\ UNCHANGED <<callVars, answerVars, channelVars, held, taVars, outcome>>

Reconnect ==
  /\ kmPc = "reconnect"
  /\ \E ok \in BOOLEAN : bp_keymaster_connect(ok)
  /\ kmPc' = "returned"
  /\ UNCHANGED <<callVars, answerVars, held, taVars, outcome>>

bp_keymaster_send ==
  TooBig \/ NotConnected \/ WritesUnmapped \/ InvokeFails \/ Answered \/ Disconnect \/ Reconnect

-----------------------------------------------------------------------------
(***************************************************************************)
(* main and BeanpodKeymaster::Initialize.                                  *)
(***************************************************************************)
InitializeIpc ==
  /\ kmPc = "down"
  /\ \E ok \in BOOLEAN :
       bp_keymaster_connect(ok) /\ kmPc' = IF ok THEN "send" ELSE "crashed"
  /\ sending' = "configure" /\ hidl' = NoHidlCall
  /\ UNCHANGED <<answerVars, held, taVars, outcome>>

\* The service is registered, or main gives up with a fatal message.
Configured ==
  /\ kmPc = "returned" /\ sending = "configure"
  /\ NoFault
  /\ kmPc' = IF error = "OK" THEN "idle" ELSE "crashed"
  /\ UNCHANGED <<callVars, answerVars, channelVars, held, taVars, outcome>>

\* External: the process ends, the kernel closes its session, the client sees
\* its handles become invalid, and init starts the service again.
Down ==
  /\ kmPc' = "down" /\ hidl' = NoHidlCall /\ sending' = "configure"
  /\ error' = "OK" /\ hidlResult' = "none" /\ op_handle' = 0
  /\ handle_' = -1 /\ live' = {}
  /\ held' = {}
  /\ taOps' = {} /\ taConfigured' = FALSE /\ outcome' = "none"

Crash   == kmPc # "down" /\ Fault /\ Down
KmRestart == kmPc = "crashed" /\ NoFault /\ Down

-----------------------------------------------------------------------------
(***************************************************************************)
(* The HIDL calls.                                                         *)
(***************************************************************************)
\* Only these requests carry data of the caller.
MayBeBig == (DeviceCall \cup OperationCall) \ {"earlyBootEnded", "getHmacSharingParameters", "abort"}

\* The client names operations by the handles it holds.
Request ==
  /\ kmPc = "idle"
  /\ NoFault
  /\ \E cmd \in DeviceCall \cup OperationCall, big \in BOOLEAN, h \in held \cup {0} :
       /\ big => cmd \in MayBeBig
       /\ h \in held <=> cmd \in OperationCall \ {"begin"}
       /\ cmd = "begin" => OpHandle # taOps \cup held
       /\ hidl' = [cmd |-> cmd, h |-> h, big |-> big]
       /\ sending' = cmd
  /\ kmPc' = "send"
  /\ outcome' = "none" /\ error' = "OK" /\ hidlResult' = "none" /\ op_handle' = 0
  /\ UNCHANGED <<channelVars, held, taVars>>

\* addRngEntropy without data, and the calls that are not implemented.
Local ==
  /\ kmPc = "idle"
  /\ NoFault
  /\ \E cmd \in NoEntropy \cup Unimplemented :
       /\ hidl' = [NoHidlCall EXCEPT !.cmd = cmd]
       /\ error' = IF cmd \in NoEntropy THEN "OK" ELSE "UNIMPLEMENTED"
  /\ kmPc' = "reply"
  /\ outcome' = "none" /\ hidlResult' = "none" /\ op_handle' = 0
  /\ UNCHANGED <<sending, channelVars, held, taVars>>

OwnAnswer == kmPc = "returned" /\ sending = hidl.cmd

\* The token of a response that was never filled in is the default one.
DeviceReturns ==
  /\ OwnAnswer /\ hidl.cmd \in DeviceCall
  /\ NoFault
  /\ hidlResult' = IF hidl.cmd \in NoResult THEN "none"
                   ELSE IF error = "OK" THEN "TA"
                   ELSE IF hidl.cmd \in TokenCall THEN "default" ELSE "none"
  /\ kmPc' = "reply"
  /\ UNCHANGED <<callVars, error, op_handle, channelVars, held, taVars, outcome>>

\* begin hands over op_handle; the client keeps it only with OK.
BeginReturns ==
  /\ OwnAnswer /\ hidl.cmd = "begin"
  /\ NoFault
  /\ hidlResult' = IF error = "OK" THEN "TA" ELSE "default"
  /\ held' = IF error = "OK" THEN held \cup {op_handle} ELSE held
  /\ kmPc' = "reply"
  /\ UNCHANGED <<callVars, error, op_handle, channelVars, taVars, outcome>>

TooLong == error = "BEANPOD_KM_INVALID_INPUT_LENGTH"

\* Mutant of AbortTooLong: a request that was too long is only reported.
AbortTooLong_only_reports ==
  /\ OwnAnswer /\ hidl.cmd \in {"update", "finish"}
  /\ TooLong
  /\ NoFault
  /\ error' = "INVALID_INPUT_LENGTH" /\ held' = held \ {hidl.h}
  /\ kmPc' = "reply"
  /\ UNCHANGED <<callVars, hidlResult, op_handle, channelVars, taVars, outcome>>

\* update and finish abort the operation when their request was too long.
AbortTooLong ==
  /\ OwnAnswer /\ hidl.cmd \in {"update", "finish"}
  /\ TooLong
  /\ NoFault
  /\ sending' = "abort" /\ kmPc' = "send"
  /\ UNCHANGED <<hidl, answerVars, channelVars, held, taVars, outcome>>

\* An operation is over for its client after finish, and after an error.
OperationReturns ==
  /\ OwnAnswer /\ hidl.cmd \in {"update", "finish"}
  /\ ~TooLong
  /\ NoFault
  /\ hidlResult' = IF error = "OK" THEN "TA" ELSE "none"
  /\ held' = IF hidl.cmd = "update" /\ error = "OK" THEN held ELSE held \ {hidl.h}
  /\ kmPc' = "reply"
  /\ UNCHANGED <<callVars, error, op_handle, channelVars, taVars, outcome>>

\* Mutant of AbortReturns: the caller gets the answer of the nested abort.
AbortReturns_own_error ==
  /\ kmPc = "returned" /\ sending = "abort"
  /\ NoFault
  /\ held' = held \ {hidl.h}
  /\ kmPc' = "reply"
  /\ UNCHANGED <<callVars, answerVars, channelVars, taVars, outcome>>

\* abort, called by the client or by update and finish.
AbortReturns ==
  /\ kmPc = "returned" /\ sending = "abort"
  /\ NoFault
  /\ error' = IF hidl.cmd = "abort" THEN error ELSE "INVALID_INPUT_LENGTH"
  /\ held' = held \ {hidl.h}
  /\ kmPc' = "reply"
  /\ UNCHANGED <<callVars, hidlResult, op_handle, channelVars, taVars, outcome>>

Reply ==
  /\ kmPc = "reply"
  /\ NoFault
  /\ kmPc' = "idle" /\ hidl' = NoHidlCall
  /\ sending' = NoHidlCall.cmd
  /\ UNCHANGED <<answerVars, channelVars, held, taVars, outcome>>

Work == \/ InitializeIpc \/ Configured \/ KmRestart
        \/ bp_keymaster_send
        \/ DeviceReturns \/ BeginReturns \/ AbortTooLong \/ OperationReturns \/ AbortReturns
        \/ Reply

KmNext == Request \/ Local \/ Work \/ Crash

KmSpec == KmInit /\ [][KmNext]_kmVars

\* The thread is scheduled, and init restarts the service.
FairSpec == KmSpec /\ WF_kmVars(Work)

-----------------------------------------------------------------------------
\* update, finish, abort and the reset: between calls the TA keeps no operation
\* that the client does not hold; no lost answer, overlong request or reset
\* leaves one behind that nobody can end.
OperationHeld == kmPc = "idle" => taOps \subseteq held

\* A call is given results of the TA, or OK, only if the TA carried out its own
\* command: neither a reset nor the nested abort lends its success.
ResultIsTas ==
  kmPc = "reply" =>
    /\ error = "OK" /\ hidl.cmd \notin NoEntropy => outcome = "OK"
    /\ hidlResult = "TA" => outcome = "OK"

\* The reset in bp_keymaster_send and the restart by init: a client that keeps
\* calling with requests that fit is answered by the TA again and again.  A
\* connection without memory is got rid of only by the crash it leads to.
Recovers ==
  []<>(kmPc = "send" /\ sending = hidl.cmd /\ Fits) => []<>(kmPc = "reply" /\ outcome # "none")
=============================================================================
