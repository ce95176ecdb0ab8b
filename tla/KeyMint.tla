------------------------------ MODULE KeyMint ------------------------------
(***************************************************************************)
(* The KeyMint service of the 400 stack (common/400/keymint1.0): the       *)
(* binder calls of the device and of its operation objects, the lazy       *)
(* Initialize behind them, and the channel to the keymaster TA, which is   *)
(* reset whenever a call on it fails.                                      *)
(*                                                                         *)
(* The service has one binder thread (service.cpp), so one call is served  *)
(* at a time; a step is one call into the TEE client library with the code *)
(* around it.  The TA is external: it keeps the operations of a session    *)
(* until the session is closed, an error it returns for an operation ends  *)
(* that operation, its answers are well formed, and the codes it reports   *)
(* outside an answer are negative.                                         *)
(***************************************************************************)
EXTENDS Integers

CONSTANTS
  Obj,        \* operation objects (BeanpodKeyMintOperation) alive at a time
  NoObj,      \* the object of a call on the device
  Handle,     \* the operation handles of the TA
  MintFd,     \* descriptors a context may get; 0 is taken
  MaxMintFaults  \* how often the TEE, the client library or the process fails

ASSUME KeyMintAssumption ==
  /\ NoObj \notin Obj
  /\ Handle \subseteq Nat \ {0}
  /\ MintFd \subseteq Nat \ {0} /\ MintFd # {}
  /\ MaxMintFaults \in Nat

\* The calls that only forward a command, the ones that start, use and end an
\* operation, and the commands Initialize sends.
DeviceCall    == {"device", "no_request"}
OperationCall == {"update", "finish", "abort", "destroy"}
Config        == {"configure", "vendor_patchlevel", "boot_patchlevel"}
ClientCall    == DeviceCall \cup OperationCall \cup {"begin"}

\* What the service answers by itself: entropy of length 0, and what is refused
\* as unimplemented or, in computeSharedSecret, for the size of a nonce.
LocalCall == {"no_entropy", "refused"}

\* UpdateOperation, FinishOperation and AbortOperation lack INITIALIZE.
NeedsInitialize == DeviceCall \cup {"begin"}

\* response->error, told apart as far as the code does.
KmError == {"OK", "BEANPOD_KM_INVALID_INPUT_LENGTH", "INVALID_INPUT_LENGTH", "ERROR"}

\* What a connection is made of, in the order it is made.
Resource == {"context", "session", "inputSM", "outputSM"}

VARIABLES
  mintPc,       \* where the binder thread is
  mintCall,     \* the call it serves: command, object, request too big
  sending,      \* the command in ForwardCommand
  error,        \* response->error
  op_handle,    \* op_handle in the answer of the TA, read only when error is OK
  initialized, mintHandle_,
  live,         \* the resources of the connection that are in use
  objs,         \* operation objects that exist
  opHandle_,    \* their member
  teei,         \* the property vendor.soter.teei.init exists
  \* the TA's side
  taOps,        \* the operations of the session
  taConfig,     \* the configuration commands it has accepted from this process
  outcome,      \* history: what the TA made of the caller's command
  mintFaults

channelVars  == <<mintHandle_, live>>
taVars       == <<taOps, taConfig>>
objVars      == <<objs, opHandle_>>
mintCallVars == <<mintCall, sending>>
mintVars == <<mintPc, mintCallVars, error, op_handle, initialized, channelVars, objVars, teei,
              taVars, outcome, mintFaults>>

MintFault   == mintFaults < MaxMintFaults /\ mintFaults' = mintFaults + 1
NoMintFault == UNCHANGED mintFaults

NoMintCall == [cmd |-> "device", obj |-> NoObj, big |-> FALSE]

MintInit ==
  /\ mintPc = "idle" /\ mintCall = NoMintCall /\ sending = "device" /\ error = "OK" /\ op_handle = 0
  /\ initialized = FALSE
  /\ mintHandle_ = -1 /\ live = {}
  /\ objs = {} /\ opHandle_ = [o \in Obj |-> 0]
  /\ teei = FALSE
  /\ taOps = {} /\ taConfig = {}
  /\ outcome = "none"
  /\ mintFaults = 0

-----------------------------------------------------------------------------
(***************************************************************************)
(* The channel.                                                            *)
(***************************************************************************)
\* What bp_keymaster_connect has made when making r fails, and what it
\* releases on that path.
MadeBefore(r) ==
  CASE r = "context"  -> {}
    [] r = "session"  -> {"context"}
    [] r = "inputSM"  -> {"context", "session"}
    [] r = "outputSM" -> {"context", "session", "inputSM"}

ReleasedOnFailure(r) ==
  CASE r = "context"  -> {}
    [] r = "session"  -> {"context"}
    [] r = "inputSM"  -> {"session", "context"}
    [] r = "outputSM" -> {"inputSM", "session", "context"}

\* Mutant of bp_keymaster_connect: a failed allocation is cleaned up and then
\* not returned from, as in km4.1.
bp_keymaster_connect_falls_through(ok) ==
  \/ /\ mintHandle_ > 0 /\ ok
     /\ NoMintFault /\ UNCHANGED <<channelVars, taVars>>
  \/ /\ mintHandle_ <= 0 /\ ok
     /\ \/ NoMintFault /\ live' = Resource
        \/ MintFault /\ live' = {}
     /\ mintHandle_' \in MintFd
     /\ UNCHANGED taVars
  \/ /\ mintHandle_ <= 0 /\ ~ok
     /\ MintFault /\ UNCHANGED <<mintHandle_, live, taVars>>

\* Mutant of bp_keymaster_connect: mintHandle_ is taken from the cleared context
\* before the context is opened.
bp_keymaster_connect_early(ok) ==
  \/ /\ mintHandle_ > 0 /\ ok
     /\ NoMintFault /\ UNCHANGED <<channelVars, taVars>>
  \/ /\ mintHandle_ <= 0 /\ ok
     /\ NoMintFault /\ live' = Resource /\ mintHandle_' \in MintFd
     /\ UNCHANGED taVars
  \/ /\ mintHandle_ <= 0 /\ ~ok
     /\ MintFault /\ mintHandle_' = 0
     /\ UNCHANGED <<live, taVars>>

\* ok says whether it returns 0.  A descriptor that is in use is kept.
bp_keymaster_connect(ok) ==
  \/ /\ mintHandle_ > 0 /\ ok
     /\ NoMintFault /\ UNCHANGED <<channelVars, taVars>>
  \/ /\ mintHandle_ <= 0 /\ ok
     /\ NoMintFault
     /\ live' = Resource
     /\ mintHandle_' \in MintFd
     /\ UNCHANGED taVars
  \/ /\ mintHandle_ <= 0 /\ ~ok
     /\ MintFault
     /\ \E r \in Resource : live' = (live \cup MadeBefore(r)) \ ReleasedOnFailure(r)
     /\ UNCHANGED <<mintHandle_, taVars>>

\* Mutant of bp_keymaster_disconnect: mintHandle_ keeps its value.
bp_keymaster_disconnect_keeps_handle ==
  /\ IF mintHandle_ > 0
       THEN live' = {} /\ taOps' = {}
       ELSE UNCHANGED <<live, taOps>>
  /\ UNCHANGED <<mintHandle_, taConfig>>

\* The TA forgets the session with its operations.
bp_keymaster_disconnect ==
  /\ IF mintHandle_ > 0
       THEN live' = {} /\ taOps' = {}
       ELSE UNCHANGED <<live, taOps>>
  /\ mintHandle_' = -1
  /\ UNCHANGED taConfig

-----------------------------------------------------------------------------
(***************************************************************************)
(* The TA, external.                                                       *)
(***************************************************************************)
\* The operation the request names; 0 names none.
Target == IF mintCall.obj \in Obj THEN opHandle_[mintCall.obj] ELSE 0

\* The TA runs the command: e is the error of its answer.  A handle it hands
\* out is a random number, so it is none that anyone still holds.
TaRuns(e) ==
  \/ /\ sending \in Config
     /\ taConfig' = IF e = "OK" THEN taConfig \cup {sending} ELSE taConfig
     /\ UNCHANGED <<taOps, op_handle>>
  \/ /\ sending = "begin"
     /\ IF e = "OK"
          THEN \E h \in Handle \ (taOps \cup {opHandle_[o] : o \in objs}) :
                 taOps' = taOps \cup {h} /\ op_handle' = h
          ELSE UNCHANGED <<taOps, op_handle>>
     /\ UNCHANGED taConfig
  \/ /\ sending = "update"
     /\ e = "OK" => Target \in taOps
     /\ taOps' = IF e = "OK" THEN taOps ELSE taOps \ {Target}
     /\ UNCHANGED <<taConfig, op_handle>>
  \/ /\ sending \in {"finish", "abort"}
     /\ e = "OK" => Target \in taOps
     /\ taOps' = taOps \ {Target}
     /\ UNCHANGED <<taConfig, op_handle>>
  \/ /\ sending \in DeviceCall
     /\ UNCHANGED <<taVars, op_handle>>

-----------------------------------------------------------------------------
(***************************************************************************)
(* bp_keymaster_send, bp_keymaster_send_no_request and bp_keymaster_call.  *)
(***************************************************************************)
\* A request that does not fit the buffer is refused before it is sent.  The
\* commands of Initialize and abort are small.
TooBig ==
  /\ mintPc = "send" /\ sending = mintCall.cmd /\ mintCall.big
  /\ NoMintFault
  /\ error' = "BEANPOD_KM_INVALID_INPUT_LENGTH"
  /\ mintPc' = "returned"
  /\ UNCHANGED <<mintCallVars, op_handle, initialized, channelVars, objVars, teei, taVars, outcome>>

Fits == ~(sending = mintCall.cmd /\ mintCall.big)

\* bp_keymaster_call on a channel that is down.
MintNotConnected ==
  /\ mintPc = "send" /\ Fits
  /\ mintHandle_ < 0
  /\ NoMintFault
  /\ error' = "ERROR"
  /\ mintPc' = "disconnect"
  /\ UNCHANGED <<mintCallVars, op_handle, initialized, channelVars, objVars, teei, taVars, outcome>>

\* TEEC_InvokeCommand hands the driver the id of the session, and the driver
\* finds only a session that is open.
SessionOpen == "session" \in live

\* TEEC_InvokeCommand fails, before or after the TA has run the command, or
\* the TA reports a negative code outside its answer.  Either way the answer
\* is lost.  On a session that is closed it can only fail.
InvokeFails ==
  /\ mintPc = "send" /\ Fits
  /\ mintHandle_ >= 0
  /\ mintFaults' = IF SessionOpen THEN mintFaults + 1 ELSE mintFaults
  /\ mintFaults' <= MaxMintFaults
  /\ \/ UNCHANGED <<taVars, op_handle>>
     \/ \E e \in {"OK", "ERROR"} : SessionOpen /\ TaRuns(e)
  /\ error' = "ERROR"
  /\ mintPc' = "disconnect"
  /\ UNCHANGED <<mintCallVars, initialized, channelVars, objVars, teei, outcome>>

\* The TA answers.  That it refuses its configuration counts as a fault.
MintAnswered ==
  /\ mintPc = "send" /\ Fits
  /\ mintHandle_ >= 0 /\ SessionOpen
  /\ \E e \in {"OK", "ERROR"} :
       /\ IF sending \in Config /\ e # "OK" THEN MintFault ELSE NoMintFault
       /\ TaRuns(e)
       /\ error' = e
       /\ outcome' = IF sending = mintCall.cmd THEN e ELSE outcome
  /\ mintPc' = "returned"
  /\ UNCHANGED <<mintCallVars, initialized, channelVars, objVars, teei>>

\* The reset of the connection, whose result is ignored.
Disconnect ==
  /\ mintPc = "disconnect"
  /\ NoMintFault
  /\ bp_keymaster_disconnect
  /\ mintPc' = "reconnect"
  /\ UNCHANGED <<mintCallVars, error, op_handle, initialized, objVars, teei, outcome>>

MintReconnect ==
  /\ mintPc = "reconnect"
  /\ \E ok \in BOOLEAN : bp_keymaster_connect(ok)
  /\ mintPc' = "returned"
  /\ UNCHANGED <<mintCallVars, error, op_handle, initialized, objVars, teei, outcome>>

bp_keymaster_send == TooBig \/ MintNotConnected \/ InvokeFails \/ MintAnswered \/ Disconnect \/ MintReconnect

-----------------------------------------------------------------------------
(***************************************************************************)
(* BeanpodKeymaster::Initialize, run before a command by INITIALIZE.       *)
(***************************************************************************)
MintInitialize ==
  /\ mintPc = "initialize"
  /\ NoMintFault
  /\ mintPc' = IF initialized THEN "send" ELSE "connect"
  /\ UNCHANGED <<mintCallVars, error, op_handle, initialized, channelVars, objVars, teei, taVars, outcome>>

\* The wait for vendor.soter.teei.init, and the connection.
ConnectTa ==
  /\ mintPc = "connect" /\ teei
  /\ \E ok \in BOOLEAN :
       /\ bp_keymaster_connect(ok)
       /\ IF ok THEN mintPc' = "send" /\ sending' = "configure" /\ UNCHANGED error
                ELSE mintPc' = "reply" /\ error' = "ERROR" /\ UNCHANGED sending
  /\ UNCHANGED <<mintCall, op_handle, initialized, objVars, teei, outcome>>

NextConfig == [c \in Config |->
  IF c = "configure" THEN "vendor_patchlevel"
  ELSE IF c = "vendor_patchlevel" THEN "boot_patchlevel" ELSE mintCall.cmd]

\* Mutant of Configured: the flag is set before the patch levels are sent.
Configured_early ==
  /\ mintPc = "returned" /\ sending \in Config
  /\ NoMintFault
  /\ initialized' = (initialized \/ error = "OK")
  /\ IF error = "OK"
       THEN sending' = NextConfig[sending] /\ mintPc' = "send" /\ UNCHANGED error
       ELSE mintPc' = "reply" /\ error' = "ERROR" /\ UNCHANGED sending
  /\ UNCHANGED <<mintCall, op_handle, channelVars, objVars, teei, taVars, outcome>>

\* ConfigDeviceInfo and ConfigPatchLevel; after the last command the flag is
\* set and the caller's command follows.
Configured ==
  /\ mintPc = "returned" /\ sending \in Config
  /\ NoMintFault
  /\ IF error = "OK"
       THEN /\ initialized' = (initialized \/ sending = "boot_patchlevel")
            /\ sending' = NextConfig[sending]
            /\ mintPc' = "send"
            /\ UNCHANGED error
       ELSE /\ mintPc' = "reply" /\ error' = "ERROR"
            /\ UNCHANGED <<initialized, sending>>
  /\ UNCHANGED <<mintCall, op_handle, channelVars, objVars, teei, taVars, outcome>>

-----------------------------------------------------------------------------
(***************************************************************************)
(* The binder calls.                                                       *)
(***************************************************************************)
\* Only these requests carry data of the caller.
MayBeBig == {"device", "begin", "update", "finish"}

\* A call on the device, or on an operation object; "destroy" is the last
\* reference to an object going away.
MintRequest ==
  /\ mintPc = "idle"
  /\ NoMintFault
  /\ \E cmd \in ClientCall, big \in BOOLEAN, o \in Obj \cup {NoObj} :
       /\ big => cmd \in MayBeBig
       /\ o \in objs <=> cmd \in OperationCall
       /\ o \in Obj <=> cmd \in OperationCall \cup {"begin"}
       /\ mintCall' = [cmd |-> cmd, obj |-> o, big |-> big]
       /\ sending' = IF cmd = "destroy" THEN "abort" ELSE cmd
       /\ IF cmd = "destroy" /\ opHandle_[o] = 0
            THEN mintPc' = "reply" /\ objs' = objs \ {o}
            ELSE /\ mintPc' = IF cmd \in NeedsInitialize THEN "initialize" ELSE "send"
                 /\ UNCHANGED objs
  /\ outcome' = "none" /\ error' = "OK" /\ op_handle' = 0
  /\ UNCHANGED <<initialized, channelVars, opHandle_, teei, taVars>>

LocalReply ==
  /\ mintPc = "idle"
  /\ NoMintFault
  /\ \E cmd \in LocalCall :
       /\ mintCall' = [cmd |-> cmd, obj |-> NoObj, big |-> FALSE]
       /\ error' = IF cmd = "no_entropy" THEN "OK" ELSE "ERROR"
  /\ mintPc' = "reply" /\ outcome' = "none" /\ op_handle' = 0
  /\ UNCHANGED <<sending, initialized, channelVars, objVars, teei, taVars>>

\* A call on the device returns response.error.
DeviceReturns ==
  /\ mintPc = "returned" /\ sending = mintCall.cmd /\ mintCall.cmd \in DeviceCall
  /\ NoMintFault
  /\ mintPc' = "reply"
  /\ UNCHANGED <<mintCallVars, error, op_handle, initialized, channelVars, objVars, teei, taVars, outcome>>

\* begin makes the operation object.
BeginReturns ==
  /\ mintPc = "returned" /\ sending = "begin"
  /\ NoMintFault
  /\ IF error = "OK"
       THEN objs' = objs \cup {mintCall.obj} /\ opHandle_' = [opHandle_ EXCEPT ![mintCall.obj] = op_handle]
       ELSE UNCHANGED objVars
  /\ mintPc' = "reply"
  /\ UNCHANGED <<mintCallVars, error, op_handle, initialized, channelVars, teei, taVars, outcome>>

TooLong == error = "BEANPOD_KM_INVALID_INPUT_LENGTH"

\* The operation is aborted when its request was too long to send.
AbortTooLong ==
  /\ mintPc = "returned" /\ sending = mintCall.cmd /\ mintCall.cmd \in {"update", "finish"}
  /\ TooLong
  /\ NoMintFault
  /\ sending' = "abort" /\ mintPc' = "send"
  /\ UNCHANGED <<mintCall, error, op_handle, initialized, channelVars, objVars, teei, taVars, outcome>>

\* update also fails when the TA has consumed only part of the input.
UpdateReturns ==
  /\ mintPc = "returned" /\ sending = "update" /\ ~TooLong
  /\ NoMintFault
  /\ error' \in IF error = "OK" THEN {"OK", "ERROR"} ELSE {error}
  /\ mintPc' = "reply"
  /\ UNCHANGED <<mintCallVars, op_handle, initialized, channelVars, objVars, teei, taVars, outcome>>

\* Mutant of FinishReturns: a request that was too long is not aborted.
FinishReturns_no_abort ==
  /\ mintPc = "returned" /\ sending = "finish"
  /\ NoMintFault
  /\ opHandle_' = [opHandle_ EXCEPT ![mintCall.obj] = 0]
  /\ mintPc' = "reply"
  /\ UNCHANGED <<mintCallVars, error, op_handle, initialized, channelVars, objs, teei, taVars, outcome>>

FinishReturns ==
  /\ mintPc = "returned" /\ sending = "finish" /\ ~TooLong
  /\ NoMintFault
  /\ opHandle_' = [opHandle_ EXCEPT ![mintCall.obj] = 0]
  /\ mintPc' = "reply"
  /\ UNCHANGED <<mintCallVars, error, op_handle, initialized, channelVars, objs, teei, taVars, outcome>>

\* Mutant of AbortReturns: the caller gets the answer of the nested abort.
AbortReturns_own_error ==
  /\ mintPc = "returned" /\ sending = "abort"
  /\ NoMintFault
  /\ opHandle_' = [opHandle_ EXCEPT ![mintCall.obj] = 0]
  /\ objs' = IF mintCall.cmd = "destroy" THEN objs \ {mintCall.obj} ELSE objs
  /\ mintPc' = "reply"
  /\ UNCHANGED <<mintCallVars, error, op_handle, initialized, channelVars, teei, taVars, outcome>>

\* abort, called by the client, by update or finish, or by the destructor.
AbortReturns ==
  /\ mintPc = "returned" /\ sending = "abort"
  /\ NoMintFault
  /\ opHandle_' = [opHandle_ EXCEPT ![mintCall.obj] = 0]
  /\ objs' = IF mintCall.cmd = "destroy" THEN objs \ {mintCall.obj} ELSE objs
  /\ error' = IF mintCall.cmd \in {"update", "finish"} THEN "INVALID_INPUT_LENGTH" ELSE error
  /\ mintPc' = "reply"
  /\ UNCHANGED <<mintCallVars, op_handle, initialized, channelVars, teei, taVars, outcome>>

\* The answer goes out and the thread waits for the next call.
MintReply ==
  /\ mintPc = "reply"
  /\ NoMintFault
  /\ mintPc' = "idle" /\ mintCall' = NoMintCall /\ sending' = "device"
  /\ UNCHANGED <<error, op_handle, initialized, channelVars, objVars, teei, taVars, outcome>>

\* teei_daemon sets the property, to INIT_START, before the TEE is up; that it
\* exists is all Initialize waits for.
TeeiInit ==
  /\ ~teei
  /\ NoMintFault
  /\ teei' = TRUE
  /\ UNCHANGED <<mintPc, mintCallVars, error, op_handle, initialized, channelVars, objVars, taVars, outcome>>

\* The process dies; the kernel closes its session, init starts it again.
MintRestart ==
  /\ MintFault
  /\ mintPc' = "idle" /\ mintCall' = NoMintCall /\ sending' = "device" /\ error' = "OK" /\ op_handle' = 0
  /\ initialized' = FALSE /\ mintHandle_' = -1 /\ live' = {}
  /\ objs' = {} /\ opHandle_' = [o \in Obj |-> 0]
  /\ taOps' = {} /\ taConfig' = {} /\ outcome' = "none"
  /\ UNCHANGED teei

Work == \/ MintInitialize \/ ConnectTa \/ Configured
        \/ bp_keymaster_send
        \/ DeviceReturns \/ BeginReturns \/ AbortTooLong \/ UpdateReturns \/ FinishReturns \/ AbortReturns
        \/ MintReply

MintNext == MintRequest \/ LocalReply \/ Work \/ TeeiInit \/ MintRestart

MintSpec == MintInit /\ [][MintNext]_mintVars

\* A call that has started goes on: the thread is scheduled.
MintFairSpec == MintSpec /\ WF_mintVars(Work)

-----------------------------------------------------------------------------
\* The variables keep their types; in particular mintHandle_ is -1 or a descriptor.
TypeOK ==
  /\ mintPc \in {"idle", "initialize", "connect", "send", "disconnect", "reconnect", "returned", "reply"}
  /\ mintCall \in [cmd : ClientCall \cup LocalCall, obj : Obj \cup {NoObj}, big : BOOLEAN]
  /\ sending \in (ClientCall \ {"destroy"}) \cup Config
  /\ error \in KmError
  /\ op_handle \in Handle \cup {0}
  /\ initialized \in BOOLEAN /\ teei \in BOOLEAN
  /\ mintHandle_ \in MintFd \cup {-1} /\ live \subseteq Resource
  /\ objs \subseteq Obj /\ opHandle_ \in [Obj -> Handle \cup {0}]
  /\ taOps \subseteq Handle /\ taConfig \subseteq Config
  /\ outcome \in {"none", "OK", "ERROR"}
  /\ mintFaults \in 0 .. MaxMintFaults

\* bp_keymaster_connect and bp_keymaster_disconnect: mintHandle_ says exactly
\* whether the connection stands, with all its parts; a connection that is
\* down has left no part of it behind, however it failed.
ChannelIsWhole == live = IF mintHandle_ > 0 THEN Resource ELSE {}

\* BeanpodKeyMintOperation: between calls, every operation the TA keeps is the
\* operation of an object, so that the destructor will end it; no lost answer,
\* overlong request or reset leaves one behind.
OperationHasOwner ==
  mintPc = "idle" => taOps \subseteq {opHandle_[o] : o \in objs}

\* A call that returns OK had its own command carried out by the TA: neither a
\* reset, nor Initialize, nor the abort nested in update and finish lends its
\* success to the caller.  Adding no entropy is done by doing nothing.
OkMeansDone ==
  mintPc = "reply" /\ error = "OK" /\ mintCall.cmd \notin {"destroy", "no_entropy"} => outcome = "OK"

\* Initialize: no command on keys or operations is sent to a TA that has not
\* accepted its whole configuration from this process.
ServesOnlyConfigured ==
  mintPc = "send" /\ sending \notin Config => taConfig = Config

\* The reset in bp_keymaster_send: a client that keeps calling with requests
\* that fit is answered by the TA again and again, although a reconnection
\* that fails is not reported and the flag keeps Initialize from connecting.
MintRecovers ==
  []<>(mintPc = "send" /\ sending = mintCall.cmd /\ ~mintCall.big) => []<>(mintPc = "reply" /\ outcome # "none")

=============================================================================
