--------------------------- MODULE KeyMintProofs ---------------------------
(***************************************************************************)
(* The safety invariants of KeyMint, proved for every set of objects,      *)
(* handles and descriptors and any number of faults.                       *)
(***************************************************************************)
EXTENDS KeyMint, TLAPS

\* A command is under way in ForwardCommand.
Busy == mintPc \in {"send", "disconnect", "reconnect", "returned"}

\* The handles some object will end.
Owned == {opHandle_[o] : o \in objs}

\* Which command may be on the channel for which call, and on which object
\* the call is; only calls with data of the caller have long requests.
CallInv ==
  /\ mintPc \in {"initialize", "connect"} => mintCall.cmd \in NeedsInitialize /\ sending = mintCall.cmd
  /\ Busy => \/ sending = mintCall.cmd
             \/ sending \in Config /\ mintCall.cmd \in NeedsInitialize
             \/ sending = "abort" /\ mintCall.cmd \in {"update", "finish", "destroy"}
  /\ mintPc \notin {"idle", "reply"} =>
       /\ mintCall.cmd \in ClientCall
       /\ mintCall.cmd = "begin" => mintCall.obj \in Obj \ objs
       /\ mintCall.cmd \in OperationCall => mintCall.obj \in objs
  /\ mintCall.big => mintCall.cmd \in MayBeBig
  /\ mintPc \in {"disconnect", "reconnect"} => error = "ERROR"

\* How far Initialize has got when a command is under way.
ConfigBefore ==
  IF sending = "configure" THEN {}
  ELSE IF sending = "vendor_patchlevel" THEN {"configure"} ELSE {"configure", "vendor_patchlevel"}

ConfigInv ==
  /\ initialized => taConfig = Config
  /\ objs # {} => initialized
  /\ Busy /\ sending \notin Config => initialized
  /\ Busy /\ sending \in Config => ConfigBefore \subseteq taConfig
  /\ mintPc = "returned" /\ sending \in Config /\ error = "OK" => sending \in taConfig

\* OK is the answer of the TA to the command of the call.
OutcomeInv ==
  /\ mintPc = "returned" /\ error = "OK" /\ sending = mintCall.cmd => outcome = "OK"
  /\ OkMeansDone

\* The operation a begin has started is without an owner only until the answer
\* reaches the device object, or the session that holds it is closed.
OwnerInv ==
  /\ mintHandle_ <= 0 => taOps = {}
  /\ mintPc = "reconnect" => taOps = {}
  /\ \/ mintPc = "disconnect" /\ mintHandle_ > 0
     \/ taOps \subseteq Owned
     \/ /\ mintPc = "returned" /\ sending = "begin" /\ error = "OK"
        /\ taOps \subseteq Owned \cup {op_handle}
  /\ mintPc = "returned" /\ sending = "finish" /\ ~TooLong => Target \notin taOps
  /\ mintPc = "returned" /\ sending = "abort" => Target \notin taOps

\* The inductive invariant.
IInv == TypeOK /\ ChannelIsWhole /\ CallInv /\ ConfigInv /\ OutcomeInv /\ OwnerInv

USE DEF mintVars, mintCallVars, channelVars, taVars, objVars, MintFault, NoMintFault,
        DeviceCall, OperationCall, LocalCall, Config, ClientCall, NeedsInitialize

\* bp_keymaster_connect releases on a failing path all it has made.
LEMMA FailureReleasesAll == \A r \in Resource : MadeBefore(r) \subseteq ReleasedOnFailure(r)
  BY DEF MadeBefore, ReleasedOnFailure, Resource

\* What a connect does, whether it succeeds or not.
LEMMA ConnectIsWhole ==
  ASSUME TypeOK, ChannelIsWhole, \E ok \in BOOLEAN : bp_keymaster_connect(ok)
  PROVE  /\ mintHandle_' \in MintFd \cup {-1} /\ live' \subseteq Resource
         /\ ChannelIsWhole'
         /\ UNCHANGED <<taOps, taConfig>>
         /\ mintFaults' \in 0 .. MaxMintFaults
         /\ mintHandle_ > 0 => mintHandle_' > 0
<1>1. /\ mintHandle_ \in Int /\ mintFaults \in 0 .. MaxMintFaults
      /\ (mintHandle_ <= 0 => live = {}) /\ (mintHandle_ > 0 => live = Resource)
  BY KeyMintAssumption DEF TypeOK, ChannelIsWhole
<1>2. PICK ok \in BOOLEAN : bp_keymaster_connect(ok)
  OBVIOUS
<1>3. CASE mintHandle_ > 0
  BY <1>1, <1>2, <1>3, KeyMintAssumption DEF bp_keymaster_connect, ChannelIsWhole, TypeOK
<1>4. CASE mintHandle_ <= 0 /\ ok
  <2>1. live' = Resource /\ mintHandle_' \in MintFd /\ UNCHANGED <<taOps, taConfig, mintFaults>>
    BY <1>1, <1>2, <1>4, KeyMintAssumption DEF bp_keymaster_connect
  <2>2. mintHandle_' > 0
    BY <2>1, KeyMintAssumption
  <2> QED
    BY <1>1, <2>1, <2>2 DEF ChannelIsWhole
<1>5. CASE mintHandle_ <= 0 /\ ~ok
  <2>1. PICK r \in Resource : live' = (live \cup MadeBefore(r)) \ ReleasedOnFailure(r)
    BY <1>1, <1>2, <1>5 DEF bp_keymaster_connect
  <2>2. live' = {}
    BY <1>1, <1>5, <2>1, FailureReleasesAll
  <2> QED
    BY <1>1, <1>2, <1>5, <2>2, KeyMintAssumption DEF bp_keymaster_connect,
       ChannelIsWhole, TypeOK
<1> QED
  BY <1>1, <1>3, <1>4, <1>5

\* The service starts in the inductive invariant.
LEMMA InitIInv == MintInit => IInv
<1> SUFFICES ASSUME MintInit PROVE IInv
  OBVIOUS
<1>1. TypeOK
  <2>1. mintCall \in [cmd : ClientCall \cup LocalCall, obj : Obj \cup {NoObj}, big : BOOLEAN]
    BY DEF MintInit, NoMintCall, ClientCall, DeviceCall
  <2>2. opHandle_ \in [Obj -> Handle \cup {0}] /\ mintFaults \in 0 .. MaxMintFaults
    BY KeyMintAssumption DEF MintInit
  <2>3. sending \in (ClientCall \ {"destroy"}) \cup Config
    BY DEF MintInit, ClientCall, DeviceCall
  <2> QED
    BY <2>1, <2>2, <2>3 DEF MintInit, TypeOK, KmError
<1>2. ChannelIsWhole /\ CallInv /\ ConfigInv
  BY DEF MintInit, ChannelIsWhole, CallInv, ConfigInv, Busy, NoMintCall, MayBeBig
<1>3. OutcomeInv
  BY DEF MintInit, OutcomeInv, OkMeansDone
<1>4. OwnerInv
  BY DEF MintInit, OwnerInv
<1> QED
  BY <1>1, <1>2, <1>3, <1>4 DEF IInv

\* MintRequest: a call on the device or on an operation object.
LEMMA RequestKeeps == ASSUME IInv, MintRequest PROVE IInv'
<1>1. TypeOK'
  BY KeyMintAssumption DEF IInv, MintRequest, TypeOK, KmError, Resource
<1>2. ChannelIsWhole'
  BY KeyMintAssumption DEF IInv, MintRequest, ChannelIsWhole, TypeOK
<1>3. CallInv'
  BY DEF IInv, MintRequest, CallInv, TypeOK, Busy, MayBeBig
<1>4. ConfigInv'
  BY DEF IInv, MintRequest, ConfigInv, CallInv, TypeOK, Busy, ConfigBefore
<1>5. OutcomeInv'
  BY DEF IInv, MintRequest, OutcomeInv, OkMeansDone, CallInv, TypeOK, Busy, MayBeBig, TooLong
<1>6. OwnerInv'
  BY KeyMintAssumption DEF IInv, MintRequest, OwnerInv, CallInv, ChannelIsWhole, TypeOK,
     Owned, Target, TooLong, Busy, MayBeBig, Resource, Fits
<1> QED BY <1>1, <1>2, <1>3, <1>4, <1>5, <1>6 DEF IInv

\* LocalReply: a call the service answers by itself.
LEMMA LocalReplyKeeps == ASSUME IInv, LocalReply PROVE IInv'
<1>1. TypeOK'
  BY KeyMintAssumption DEF IInv, LocalReply, TypeOK, KmError, Resource
<1>2. ChannelIsWhole'
  BY KeyMintAssumption DEF IInv, LocalReply, ChannelIsWhole, TypeOK
<1>3. CallInv'
  BY DEF IInv, LocalReply, CallInv, TypeOK, Busy, MayBeBig
<1>4. ConfigInv'
  BY DEF IInv, LocalReply, ConfigInv, CallInv, TypeOK, Busy, ConfigBefore
<1>5. OutcomeInv'
  BY DEF IInv, LocalReply, OutcomeInv, OkMeansDone, CallInv, TypeOK, Busy, MayBeBig, TooLong
<1>6. OwnerInv'
  BY KeyMintAssumption DEF IInv, LocalReply, OwnerInv, CallInv, ChannelIsWhole, TypeOK,
     Owned, Target, TooLong, Busy, MayBeBig, Resource, Fits
<1> QED BY <1>1, <1>2, <1>3, <1>4, <1>5, <1>6 DEF IInv

\* MintInitialize: the flag decides whether the TA is connected first.
LEMMA InitializeKeeps == ASSUME IInv, MintInitialize PROVE IInv'
<1>1. TypeOK'
  BY KeyMintAssumption DEF IInv, MintInitialize, TypeOK, KmError, Resource
<1>2. ChannelIsWhole'
  BY KeyMintAssumption DEF IInv, MintInitialize, ChannelIsWhole, TypeOK
<1>3. CallInv'
  BY DEF IInv, MintInitialize, CallInv, TypeOK, Busy
<1>4. ConfigInv'
  BY DEF IInv, MintInitialize, ConfigInv, CallInv, TypeOK, Busy, ConfigBefore
<1>5. OutcomeInv'
  BY DEF IInv, MintInitialize, OutcomeInv, OkMeansDone, CallInv, TypeOK, Busy, TooLong
<1>6. OwnerInv'
  BY KeyMintAssumption DEF IInv, MintInitialize, OwnerInv, CallInv, ChannelIsWhole, TypeOK,
     Owned, Target, TooLong, Busy, Resource, Fits
<1> QED BY <1>1, <1>2, <1>3, <1>4, <1>5, <1>6 DEF IInv

\* ConnectTa: the wait for the TEE, and the connection.
LEMMA ConnectTaKeeps == ASSUME IInv, ConnectTa PROVE IInv'
<1>c. /\ mintHandle_' \in MintFd \cup {-1} /\ live' \subseteq Resource
      /\ ChannelIsWhole'
      /\ UNCHANGED <<taOps, taConfig>>
      /\ mintFaults' \in 0 .. MaxMintFaults
      /\ mintHandle_ > 0 => mintHandle_' > 0
  BY ConnectIsWhole DEF IInv, ConnectTa
<1>1. TypeOK'
  <2>1. (mintPc \in {"idle", "initialize", "connect", "send", "disconnect", "reconnect", "returned", "reply"})'
    BY KeyMintAssumption DEF ConnectTa, IInv, TypeOK, CallInv
  <2>2. (sending \in (ClientCall \ {"destroy"}) \cup Config)'
    BY KeyMintAssumption DEF ConnectTa, IInv, TypeOK, CallInv
  <2>3. (error \in KmError)'
    BY KeyMintAssumption DEF ConnectTa, IInv, TypeOK, KmError, Resource, CallInv
  <2> QED BY <2>1, <2>2, <2>3, <1>c DEF IInv, TypeOK, ConnectTa
<1>2. ChannelIsWhole'
  BY <1>c
<1>3. CallInv'
  BY <1>c DEF IInv, ConnectTa, CallInv, TypeOK, Busy
<1>4. ConfigInv'
  BY <1>c DEF IInv, ConnectTa, ConfigInv, CallInv, TypeOK, Busy, ConfigBefore
<1>5. OutcomeInv'
  BY <1>c DEF IInv, ConnectTa, OutcomeInv, OkMeansDone, CallInv, TypeOK, Busy, TooLong
<1>6. OwnerInv'
  BY KeyMintAssumption, <1>c DEF IInv, ConnectTa, OwnerInv, CallInv, ChannelIsWhole,
     TypeOK, Owned, Target, TooLong, Busy, Resource, Fits
<1> QED BY <1>1, <1>2, <1>3, <1>4, <1>5, <1>6 DEF IInv

\* Configured: the answers to the configuration commands.
LEMMA ConfiguredKeeps == ASSUME IInv, Configured PROVE IInv'
<1>1. TypeOK'
  <2>1. (mintPc \in {"idle", "initialize", "connect", "send", "disconnect", "reconnect", "returned", "reply"})'
  BY KeyMintAssumption DEF Configured, NextConfig, IInv, TypeOK, KmError, Resource, CallInv
  <2>2. (sending \in (ClientCall \ {"destroy"}) \cup Config)'
  BY KeyMintAssumption DEF Configured, NextConfig, IInv, TypeOK, KmError, Resource,
     CallInv, Busy
  <2>3. (error \in KmError)'
  BY KeyMintAssumption DEF Configured, NextConfig, IInv, TypeOK, KmError, Resource, CallInv
  <2>4. (initialized \in BOOLEAN /\ teei \in BOOLEAN)'
  BY KeyMintAssumption DEF Configured, NextConfig, IInv, TypeOK, KmError, Resource, CallInv
  <2> QED BY <2>1, <2>2, <2>3, <2>4 DEF IInv, TypeOK, Configured
<1>2. ChannelIsWhole'
  BY KeyMintAssumption DEF IInv, Configured, NextConfig, ChannelIsWhole, TypeOK
<1>3. CallInv'
  BY DEF IInv, Configured, NextConfig, CallInv, TypeOK, Busy
<1>4. ConfigInv'
  <2>1. CASE error # "OK"
    BY <2>1 DEF ConfigInv, ConfigBefore, IInv, Configured, CallInv, TypeOK, Busy, NoMintCall
  <2>2. CASE error = "OK" /\ sending # "boot_patchlevel"
    BY <2>2 DEF ConfigInv, ConfigBefore, NextConfig, IInv, Configured, CallInv, TypeOK,
       Busy, NoMintCall
  <2>3. CASE error = "OK" /\ sending = "boot_patchlevel"
    <3>1. /\ initialized' = TRUE /\ sending' = mintCall.cmd
          /\ mintPc' = "send" /\ UNCHANGED <<taConfig, objs>>
      BY <2>3 DEF Configured, NextConfig
    <3>2. taConfig = Config
      BY <2>3 DEF ConfigInv, ConfigBefore, IInv, Configured, TypeOK, Busy
    <3>3. sending' \notin Config
      BY <2>3, <3>1 DEF IInv, CallInv, Configured, Busy
    <3> QED
      BY <3>1, <3>2, <3>3 DEF ConfigInv
  <2> QED
    BY <2>1, <2>2, <2>3
<1>5. OutcomeInv'
  BY DEF IInv, Configured, NextConfig, OutcomeInv, OkMeansDone, CallInv, TypeOK, Busy,
     TooLong
<1>6. OwnerInv'
  BY KeyMintAssumption DEF IInv, Configured, NextConfig, OwnerInv, CallInv,
     ChannelIsWhole, TypeOK, Owned, Target, TooLong, Busy, Resource, Fits
<1> QED BY <1>1, <1>2, <1>3, <1>4, <1>5, <1>6 DEF IInv

\* TooBig: a request that does not fit the buffer.
LEMMA TooBigKeeps == ASSUME IInv, TooBig PROVE IInv'
<1>1. TypeOK'
  BY KeyMintAssumption DEF IInv, TooBig, TypeOK, KmError, Resource
<1>2. ChannelIsWhole'
  BY KeyMintAssumption DEF IInv, TooBig, ChannelIsWhole, TypeOK
<1>3. CallInv'
  BY DEF IInv, TooBig, CallInv, TypeOK, Busy, MayBeBig
<1>4. ConfigInv'
  BY DEF IInv, TooBig, ConfigInv, CallInv, TypeOK, Busy, ConfigBefore
<1>5. OutcomeInv'
  BY DEF IInv, TooBig, OutcomeInv, OkMeansDone, CallInv, TypeOK, Busy, MayBeBig, TooLong
<1>6. OwnerInv'
  BY KeyMintAssumption DEF IInv, TooBig, OwnerInv, CallInv, ChannelIsWhole, TypeOK,
     Owned, Target, TooLong, Busy, MayBeBig, Resource, Fits
<1> QED BY <1>1, <1>2, <1>3, <1>4, <1>5, <1>6 DEF IInv

\* MintNotConnected: a call on a channel that is down.
LEMMA NotConnectedKeeps == ASSUME IInv, MintNotConnected PROVE IInv'
<1>1. TypeOK'
  BY KeyMintAssumption DEF IInv, MintNotConnected, TypeOK, KmError, Resource
<1>2. ChannelIsWhole'
  BY KeyMintAssumption DEF IInv, MintNotConnected, ChannelIsWhole, TypeOK
<1>3. CallInv'
  BY DEF IInv, MintNotConnected, CallInv, TypeOK, Busy
<1>4. ConfigInv'
  BY DEF IInv, MintNotConnected, ConfigInv, CallInv, TypeOK, Busy, ConfigBefore
<1>5. OutcomeInv'
  BY DEF IInv, MintNotConnected, OutcomeInv, OkMeansDone, CallInv, TypeOK, Busy, TooLong
<1>6. OwnerInv'
  BY KeyMintAssumption DEF IInv, MintNotConnected, OwnerInv, CallInv, ChannelIsWhole,
     TypeOK, Owned, Target, TooLong, Busy, Resource, Fits
<1> QED BY <1>1, <1>2, <1>3, <1>4, <1>5, <1>6 DEF IInv

\* The TA hands out handles and keeps configurations of the right type.
LEMMA TaRunsType ==
  ASSUME op_handle \in Handle \cup {0}, taOps \subseteq Handle, taConfig \subseteq Config,
         sending \in (ClientCall \ {"destroy"}) \cup Config,
         UNCHANGED <<taVars, op_handle>> \/ \E e \in {"OK", "ERROR"} : TaRuns(e)
  PROVE  (op_handle \in Handle \cup {0} /\ taOps \subseteq Handle /\ taConfig \subseteq Config)'
<1>1. CASE UNCHANGED <<taVars, op_handle>>
  BY <1>1
<1>2. ASSUME NEW e \in {"OK", "ERROR"}, TaRuns(e)
      PROVE  (op_handle \in Handle \cup {0} /\ taOps \subseteq Handle /\ taConfig \subseteq Config)'
  BY <1>2 DEF TaRuns
<1> QED
  BY <1>1, <1>2

\* InvokeFails: a call whose answer is lost.
LEMMA InvokeFailsKeeps == ASSUME IInv, InvokeFails PROVE IInv'
<1>1. TypeOK'
  <2>1. UNCHANGED <<taVars, op_handle>> \/ \E e \in {"OK", "ERROR"} : TaRuns(e)
    BY DEF InvokeFails
  <2>2. /\ op_handle \in Handle \cup {0} /\ taOps \subseteq Handle /\ taConfig \subseteq Config
        /\ sending \in (ClientCall \ {"destroy"}) \cup Config
    BY DEF IInv, TypeOK
  <2>3. (op_handle \in Handle \cup {0} /\ taOps \subseteq Handle /\ taConfig \subseteq Config)'
    BY <2>1, <2>2, TaRunsType
  <2>4. (mintFaults \in 0 .. MaxMintFaults)'
    BY KeyMintAssumption DEF InvokeFails, IInv, TypeOK
  <2> QED
    BY <2>3, <2>4 DEF IInv, TypeOK, KmError, InvokeFails
<1>2. ChannelIsWhole'
  BY KeyMintAssumption DEF IInv, InvokeFails, TaRuns, SessionOpen, ChannelIsWhole, TypeOK
<1>3. CallInv'
  BY DEF IInv, InvokeFails, TaRuns, CallInv, TypeOK, Busy
<1>4. ConfigInv'
  <2>1. /\ UNCHANGED <<initialized, objs, sending>> /\ taConfig \subseteq taConfig'
        /\ mintPc = "send" /\ mintPc' = "disconnect"
    BY DEF InvokeFails, TaRuns
  <2>2. taConfig' \subseteq Config
    BY <1>1 DEF TypeOK
  <2> QED
    BY <2>1, <2>2 DEF IInv, ConfigInv, Busy, ConfigBefore
<1>5. OutcomeInv'
  BY DEF IInv, InvokeFails, TaRuns, OutcomeInv, OkMeansDone, CallInv, TypeOK, Busy, TooLong
<1>6. OwnerInv'
  <2>1. mintHandle_ \in Int /\ mintHandle_ > 0
    <3>1. mintHandle_ >= 0 /\ mintHandle_ \in MintFd \cup {-1}
      BY DEF InvokeFails, IInv, TypeOK
    <3> QED
      BY <3>1, KeyMintAssumption
  <2>2. mintPc' = "disconnect" /\ mintHandle_' = mintHandle_
    BY DEF InvokeFails
  <2> QED
    BY <2>1, <2>2 DEF OwnerInv
<1> QED BY <1>1, <1>2, <1>3, <1>4, <1>5, <1>6 DEF IInv

\* Answered: the answer of the TA.
LEMMA AnsweredKeeps == ASSUME IInv, MintAnswered PROVE IInv'
<1>1. TypeOK'
  <2>1. \E e \in {"OK", "ERROR"} : TaRuns(e)
    BY DEF MintAnswered
  <2>2. /\ op_handle \in Handle \cup {0} /\ taOps \subseteq Handle /\ taConfig \subseteq Config
        /\ sending \in (ClientCall \ {"destroy"}) \cup Config
    BY DEF IInv, TypeOK
  <2>3. (op_handle \in Handle \cup {0} /\ taOps \subseteq Handle /\ taConfig \subseteq Config)'
    BY <2>1, <2>2, TaRunsType
  <2>4. (mintFaults \in 0 .. MaxMintFaults)'
    BY KeyMintAssumption DEF MintAnswered, IInv, TypeOK
  <2> QED
    BY <2>3, <2>4 DEF IInv, TypeOK, KmError, MintAnswered
<1>2. ChannelIsWhole'
  BY KeyMintAssumption DEF IInv, MintAnswered, TaRuns, SessionOpen, ChannelIsWhole, TypeOK
<1>3. CallInv'
  BY DEF IInv, MintAnswered, TaRuns, CallInv, TypeOK, Busy
<1>4. ConfigInv'
  <2>1. PICK e \in {"OK", "ERROR"} : TaRuns(e) /\ error' = e
    BY DEF MintAnswered
  <2>2. mintPc = "send" /\ mintPc' = "returned" /\ UNCHANGED <<sending, initialized, objs>>
    BY DEF MintAnswered
  <2>3. IF sending \in Config /\ error' = "OK" THEN taConfig' = taConfig \cup {sending}
        ELSE taConfig' = taConfig
    BY <2>1 DEF TaRuns
  <2>4. taConfig \subseteq Config /\ ConfigInv
    BY DEF IInv, TypeOK
  <2> QED
    BY <2>2, <2>3, <2>4 DEF ConfigInv, Busy, ConfigBefore
<1>5. OutcomeInv'
  BY DEF IInv, MintAnswered, TaRuns, OutcomeInv, OkMeansDone, CallInv, TypeOK, Busy, TooLong
<1>6. OwnerInv'
  <2>1. /\ mintPc' = "returned" /\ mintHandle_ \in Int /\ mintHandle_ > 0 /\ mintHandle_' = mintHandle_
        /\ Owned' = Owned /\ Target' = Target
    <3>1. mintPc' = "returned" /\ mintHandle_' = mintHandle_ /\ UNCHANGED <<mintCall, objs, opHandle_>>
      BY DEF MintAnswered
    <3>2. Owned' = Owned
      BY <3>1 DEF Owned
    <3>3. Target' = Target
      BY <3>1 DEF Target
    <3>4. mintHandle_ \in Int /\ mintHandle_ >= 0
      BY KeyMintAssumption DEF MintAnswered, IInv, TypeOK
    <3>5. mintHandle_ > 0
      BY KeyMintAssumption, <3>4 DEF IInv, TypeOK
    <3> QED
      BY <3>1, <3>2, <3>3, <3>4, <3>5
  <2>2. taOps \subseteq Owned
    BY <2>1 DEF MintAnswered, IInv, OwnerInv
  <2>3. PICK e \in {"OK", "ERROR"} : TaRuns(e) /\ error' = e
    BY DEF MintAnswered
  <2>4. sending' = sending /\ sending \in (ClientCall \ {"destroy"}) \cup Config
    BY DEF MintAnswered, IInv, TypeOK
  <2>5. CASE sending = "begin"
    BY <2>1, <2>2, <2>3, <2>4, <2>5 DEF TaRuns, OwnerInv
  <2>6. CASE sending # "begin"
    <3>1. taOps' \subseteq taOps /\ (sending \in {"finish", "abort"} => Target \notin taOps')
      BY <2>3, <2>4, <2>6 DEF TaRuns
    <3> QED
      BY <2>1, <2>2, <2>4, <3>1 DEF OwnerInv
  <2> QED
    BY <2>5, <2>6
<1> QED BY <1>1, <1>2, <1>3, <1>4, <1>5, <1>6 DEF IInv

\* Disconnect: the first half of the reset.
LEMMA DisconnectKeeps == ASSUME IInv, Disconnect PROVE IInv'
<1>1. TypeOK'
  <2>1. (mintHandle_ \in MintFd \cup {-1} /\ live \subseteq Resource)'
  BY KeyMintAssumption DEF Disconnect, bp_keymaster_disconnect, IInv, TypeOK, KmError,
     Resource, CallInv
  <2>2. (taOps \subseteq Handle /\ taConfig \subseteq Config)'
  BY KeyMintAssumption DEF Disconnect, bp_keymaster_disconnect, IInv, TypeOK, KmError,
     Resource, CallInv
  <2> QED BY <2>1, <2>2 DEF IInv, TypeOK, Disconnect, bp_keymaster_disconnect
<1>2. ChannelIsWhole'
  BY KeyMintAssumption DEF IInv, Disconnect, bp_keymaster_disconnect, ChannelIsWhole, TypeOK
<1>3. CallInv'
  BY DEF IInv, Disconnect, bp_keymaster_disconnect, CallInv, TypeOK, Busy
<1>4. ConfigInv'
  BY DEF IInv, Disconnect, bp_keymaster_disconnect, ConfigInv, CallInv, TypeOK, Busy,
     ConfigBefore
<1>5. OutcomeInv'
  BY DEF IInv, Disconnect, bp_keymaster_disconnect, OutcomeInv, OkMeansDone, CallInv,
     TypeOK, Busy, TooLong
<1>6. OwnerInv'
  <2>1. mintHandle_ > 0 \/ mintHandle_ <= 0
    BY KeyMintAssumption DEF IInv, TypeOK
  <2>2. taOps' = {} /\ mintPc' = "reconnect"
    BY <2>1 DEF IInv, OwnerInv, Disconnect, bp_keymaster_disconnect
  <2> QED
    BY <2>2 DEF OwnerInv
<1> QED BY <1>1, <1>2, <1>3, <1>4, <1>5, <1>6 DEF IInv

\* MintReconnect: the second half of the reset.
LEMMA ReconnectKeeps == ASSUME IInv, MintReconnect PROVE IInv'
<1>c. /\ mintHandle_' \in MintFd \cup {-1} /\ live' \subseteq Resource
      /\ ChannelIsWhole'
      /\ UNCHANGED <<taOps, taConfig>>
      /\ mintFaults' \in 0 .. MaxMintFaults
      /\ mintHandle_ > 0 => mintHandle_' > 0
  BY ConnectIsWhole DEF IInv, MintReconnect
<1>1. TypeOK'
  <2>1. (mintPc \in {"idle", "initialize", "connect", "send", "disconnect", "reconnect", "returned", "reply"})'
    BY KeyMintAssumption DEF MintReconnect, IInv, TypeOK, CallInv
  <2> QED BY <2>1, <1>c DEF IInv, TypeOK, MintReconnect
<1>2. ChannelIsWhole'
  BY <1>c
<1>3. CallInv'
  BY <1>c DEF IInv, MintReconnect, CallInv, TypeOK, Busy
<1>4. ConfigInv'
  BY <1>c DEF IInv, MintReconnect, ConfigInv, CallInv, TypeOK, Busy, ConfigBefore
<1>5. OutcomeInv'
  BY <1>c DEF IInv, MintReconnect, OutcomeInv, OkMeansDone, CallInv, TypeOK, Busy, TooLong
<1>6. OwnerInv'
  BY KeyMintAssumption, <1>c DEF IInv, MintReconnect, OwnerInv, CallInv, ChannelIsWhole,
     TypeOK, Owned, Target, TooLong, Busy, Resource, Fits
<1> QED BY <1>1, <1>2, <1>3, <1>4, <1>5, <1>6 DEF IInv

\* DeviceReturns: a forwarded command returns.
LEMMA DeviceReturnsKeeps == ASSUME IInv, DeviceReturns PROVE IInv'
<1>1. TypeOK'
  BY KeyMintAssumption DEF IInv, DeviceReturns, TypeOK, KmError, Resource
<1>2. ChannelIsWhole'
  BY KeyMintAssumption DEF IInv, DeviceReturns, ChannelIsWhole, TypeOK
<1>3. CallInv'
  BY DEF IInv, DeviceReturns, CallInv, TypeOK, Busy
<1>4. ConfigInv'
  BY DEF IInv, DeviceReturns, ConfigInv, CallInv, TypeOK, Busy, ConfigBefore
<1>5. OutcomeInv'
  BY DEF IInv, DeviceReturns, OutcomeInv, OkMeansDone, CallInv, TypeOK, Busy, TooLong
<1>6. OwnerInv'
  <2>1. mintPc' \notin {"disconnect", "reconnect", "returned"} /\ taOps \subseteq Owned
    BY DEF IInv, DeviceReturns, OwnerInv
  <2>2. UNCHANGED <<mintHandle_, taOps, Owned>>
    BY DEF DeviceReturns, Owned
  <2> QED
    BY <2>1, <2>2 DEF IInv, OwnerInv
<1> QED BY <1>1, <1>2, <1>3, <1>4, <1>5, <1>6 DEF IInv

\* BeginReturns: begin makes the operation object.
LEMMA BeginReturnsKeeps == ASSUME IInv, BeginReturns PROVE IInv'
<1>1. TypeOK'
  <2>1. (objs \subseteq Obj /\ opHandle_ \in [Obj -> Handle \cup {0}])'
    BY KeyMintAssumption DEF BeginReturns, IInv, TypeOK, CallInv, Busy
  <2> QED BY <2>1 DEF IInv, TypeOK, BeginReturns
<1>2. ChannelIsWhole'
  BY KeyMintAssumption DEF IInv, BeginReturns, ChannelIsWhole, TypeOK
<1>3. CallInv'
  BY DEF IInv, BeginReturns, CallInv, TypeOK, Busy
<1>4. ConfigInv'
  BY DEF IInv, BeginReturns, ConfigInv, CallInv, TypeOK, Busy, ConfigBefore
<1>5. OutcomeInv'
  BY DEF IInv, BeginReturns, OutcomeInv, OkMeansDone, CallInv, TypeOK, Busy, TooLong
<1>6. OwnerInv'
  <2>1. mintCall.obj \in Obj \ objs
    BY DEF IInv, BeginReturns, CallInv, Busy
  <2>2. objs \subseteq Obj /\ opHandle_ \in [Obj -> Handle \cup {0}]
    BY DEF IInv, TypeOK
  <2>3. UNCHANGED <<mintHandle_, taOps>> /\ mintPc' = "reply"
    BY DEF BeginReturns
  <2>4. Owned' = IF error = "OK" THEN Owned \cup {op_handle} ELSE Owned
    BY <2>1, <2>2 DEF BeginReturns, Owned
  <2>5. taOps \subseteq Owned \/ (error = "OK" /\ taOps \subseteq Owned \cup {op_handle})
    BY DEF IInv, BeginReturns, OwnerInv
  <2> QED
    BY <2>3, <2>4, <2>5 DEF IInv, OwnerInv
<1> QED BY <1>1, <1>2, <1>3, <1>4, <1>5, <1>6 DEF IInv

\* AbortTooLong: an overlong update or finish aborts.
LEMMA AbortTooLongKeeps == ASSUME IInv, AbortTooLong PROVE IInv'
<1>1. TypeOK'
  BY KeyMintAssumption DEF IInv, AbortTooLong, TypeOK, KmError, Resource
<1>2. ChannelIsWhole'
  BY KeyMintAssumption DEF IInv, AbortTooLong, ChannelIsWhole, TypeOK
<1>3. CallInv'
  BY DEF IInv, AbortTooLong, CallInv, TypeOK, Busy, MayBeBig, TooLong
<1>4. ConfigInv'
  BY DEF IInv, AbortTooLong, ConfigInv, CallInv, TypeOK, Busy, ConfigBefore
<1>5. OutcomeInv'
  BY DEF IInv, AbortTooLong, OutcomeInv, OkMeansDone, CallInv, TypeOK, Busy, MayBeBig,
     TooLong
<1>6. OwnerInv'
  <2>1. mintPc' \notin {"disconnect", "reconnect", "returned"} /\ taOps \subseteq Owned
    BY DEF IInv, AbortTooLong, OwnerInv
  <2>2. UNCHANGED <<mintHandle_, taOps, Owned>>
    BY DEF AbortTooLong, Owned
  <2> QED
    BY <2>1, <2>2 DEF IInv, OwnerInv
<1> QED BY <1>1, <1>2, <1>3, <1>4, <1>5, <1>6 DEF IInv

\* UpdateReturns: update returns.
LEMMA UpdateReturnsKeeps == ASSUME IInv, UpdateReturns PROVE IInv'
<1>1. TypeOK'
  BY KeyMintAssumption DEF IInv, UpdateReturns, TypeOK, KmError, Resource
<1>2. ChannelIsWhole'
  BY KeyMintAssumption DEF IInv, UpdateReturns, ChannelIsWhole, TypeOK
<1>3. CallInv'
  BY DEF IInv, UpdateReturns, CallInv, TypeOK, Busy
<1>4. ConfigInv'
  BY DEF IInv, UpdateReturns, ConfigInv, CallInv, TypeOK, Busy, ConfigBefore
<1>5. OutcomeInv'
  BY DEF IInv, UpdateReturns, OutcomeInv, OkMeansDone, CallInv, TypeOK, Busy, TooLong
<1>6. OwnerInv'
  <2>1. mintPc' \notin {"disconnect", "reconnect", "returned"} /\ taOps \subseteq Owned
    BY DEF IInv, UpdateReturns, OwnerInv
  <2>2. UNCHANGED <<mintHandle_, taOps, Owned>>
    BY DEF UpdateReturns, Owned
  <2> QED
    BY <2>1, <2>2 DEF IInv, OwnerInv
<1> QED BY <1>1, <1>2, <1>3, <1>4, <1>5, <1>6 DEF IInv

\* FinishReturns: finish drops the handle.
LEMMA FinishReturnsKeeps == ASSUME IInv, FinishReturns PROVE IInv'
<1>1. TypeOK'
  <2>1. (objs \subseteq Obj /\ opHandle_ \in [Obj -> Handle \cup {0}])'
    BY KeyMintAssumption DEF FinishReturns, IInv, TypeOK, CallInv
  <2> QED BY <2>1 DEF IInv, TypeOK, FinishReturns
<1>2. ChannelIsWhole'
  BY KeyMintAssumption DEF IInv, FinishReturns, ChannelIsWhole, TypeOK
<1>3. CallInv'
  BY DEF IInv, FinishReturns, CallInv, TypeOK, Busy
<1>4. ConfigInv'
  <2>1. UNCHANGED <<initialized, taConfig, objs>> /\ mintPc' = "reply"
    BY DEF FinishReturns
  <2> QED
    BY <2>1 DEF IInv, ConfigInv, Busy
<1>5. OutcomeInv'
  BY DEF IInv, FinishReturns, OutcomeInv, OkMeansDone, CallInv, TypeOK, Busy, TooLong
<1>6. OwnerInv'
  <2>1. mintCall.obj \in objs /\ objs \subseteq Obj /\ opHandle_ \in [Obj -> Handle \cup {0}]
    BY DEF IInv, FinishReturns, CallInv, Busy, TypeOK
  <2>2. UNCHANGED <<mintHandle_, taOps>> /\ mintPc' = "reply"
    BY DEF FinishReturns
  <2>3. taOps \subseteq Owned /\ opHandle_[mintCall.obj] \notin taOps
    BY <2>1 DEF IInv, FinishReturns, OwnerInv, Target
  <2>4. Owned \subseteq Owned' \cup {opHandle_[mintCall.obj]}
    BY <2>1 DEF FinishReturns, Owned
  <2> QED
    BY <2>2, <2>3, <2>4 DEF IInv, OwnerInv
<1> QED BY <1>1, <1>2, <1>3, <1>4, <1>5, <1>6 DEF IInv

\* AbortReturns: abort drops the handle, the destructor the object.
LEMMA AbortReturnsKeeps == ASSUME IInv, AbortReturns PROVE IInv'
<1>1. TypeOK'
  <2>1. (objs \subseteq Obj /\ opHandle_ \in [Obj -> Handle \cup {0}])'
    BY DEF AbortReturns, IInv, TypeOK
  <2>2. (error \in KmError)'
    BY DEF AbortReturns, IInv, TypeOK, KmError
  <2> QED BY <2>1, <2>2 DEF IInv, TypeOK, AbortReturns
<1>2. ChannelIsWhole'
  BY KeyMintAssumption DEF IInv, AbortReturns, ChannelIsWhole, TypeOK
<1>3. CallInv'
  BY DEF IInv, AbortReturns, CallInv, TypeOK, Busy
<1>4. ConfigInv'
  <2>1. UNCHANGED <<initialized, taConfig>> /\ objs' \subseteq objs /\ mintPc' = "reply"
    BY DEF AbortReturns
  <2> QED
    BY <2>1 DEF IInv, ConfigInv, Busy
<1>5. OutcomeInv'
  BY DEF IInv, AbortReturns, OutcomeInv, OkMeansDone, CallInv, TypeOK, Busy, TooLong
<1>6. OwnerInv'
  <2>1. mintCall.obj \in objs /\ objs \subseteq Obj /\ opHandle_ \in [Obj -> Handle \cup {0}]
    BY DEF IInv, AbortReturns, CallInv, Busy, TypeOK
  <2>2. UNCHANGED <<mintHandle_, taOps>> /\ mintPc' = "reply"
    BY DEF AbortReturns
  <2>3. taOps \subseteq Owned /\ opHandle_[mintCall.obj] \notin taOps
    BY <2>1 DEF IInv, AbortReturns, OwnerInv, Target
  <2>4. Owned \subseteq Owned' \cup {opHandle_[mintCall.obj]}
    BY <2>1 DEF AbortReturns, Owned
  <2> QED
    BY <2>2, <2>3, <2>4 DEF IInv, OwnerInv
<1> QED BY <1>1, <1>2, <1>3, <1>4, <1>5, <1>6 DEF IInv

\* Reply: the answer goes out.
LEMMA ReplyKeeps == ASSUME IInv, MintReply PROVE IInv'
<1>1. TypeOK'
  BY KeyMintAssumption DEF IInv, MintReply, TypeOK, KmError, Resource, NoMintCall
<1>2. ChannelIsWhole'
  BY KeyMintAssumption DEF IInv, MintReply, ChannelIsWhole, TypeOK
<1>3. CallInv'
  BY DEF IInv, MintReply, CallInv, TypeOK, Busy, NoMintCall
<1>4. ConfigInv'
  BY DEF IInv, MintReply, ConfigInv, CallInv, TypeOK, Busy, ConfigBefore, NoMintCall
<1>5. OutcomeInv'
  BY DEF IInv, MintReply, OutcomeInv, OkMeansDone, CallInv, TypeOK, Busy, TooLong, NoMintCall
<1>6. OwnerInv'
  <2>1. mintPc' \notin {"disconnect", "reconnect", "returned"} /\ taOps \subseteq Owned
    BY DEF IInv, MintReply, OwnerInv
  <2>2. UNCHANGED <<mintHandle_, taOps, Owned>>
    BY DEF MintReply, Owned
  <2> QED
    BY <2>1, <2>2 DEF IInv, OwnerInv
<1> QED BY <1>1, <1>2, <1>3, <1>4, <1>5, <1>6 DEF IInv

\* TeeiInit: the TEE comes up.
LEMMA TeeiInitKeeps == ASSUME IInv, TeeiInit PROVE IInv'
<1>1. TypeOK'
  BY DEF IInv, TeeiInit, TypeOK
<1>2. ChannelIsWhole'
  BY KeyMintAssumption DEF IInv, TeeiInit, ChannelIsWhole, TypeOK
<1>3. CallInv'
  BY DEF IInv, TeeiInit, CallInv, TypeOK, Busy
<1>4. ConfigInv'
  BY DEF IInv, TeeiInit, ConfigInv, CallInv, TypeOK, Busy, ConfigBefore
<1>5. OutcomeInv'
  BY DEF IInv, TeeiInit, OutcomeInv, OkMeansDone, CallInv, TypeOK, Busy, TooLong
<1>6. OwnerInv'
  <2>1. UNCHANGED <<mintPc, sending, error, op_handle, mintHandle_, taOps>>
    BY DEF TeeiInit
  <2>2. UNCHANGED <<Owned, Target, TooLong>>
    BY DEF TeeiInit, Owned, Target, TooLong
  <2> QED
    BY <2>1, <2>2 DEF IInv, OwnerInv
<1> QED BY <1>1, <1>2, <1>3, <1>4, <1>5, <1>6 DEF IInv

\* MintRestart: the process dies.
LEMMA RestartKeeps == ASSUME IInv, MintRestart PROVE IInv'
<1>1. TypeOK'
  <2>1. (mintCall \in [cmd : ClientCall \cup LocalCall, obj : Obj \cup {NoObj}, big : BOOLEAN])'
    BY DEF MintRestart, NoMintCall
  <2>2. (objs \subseteq Obj /\ opHandle_ \in [Obj -> Handle \cup {0}])'
    BY DEF MintRestart
  <2>3. (taOps \subseteq Handle /\ taConfig \subseteq Config)'
    BY DEF MintRestart
  <2>4. (mintFaults \in 0 .. MaxMintFaults)'
    BY KeyMintAssumption DEF MintRestart, IInv, TypeOK
  <2> QED BY <2>1, <2>2, <2>3, <2>4 DEF IInv, TypeOK, KmError, MintRestart, NoMintCall
<1>2. ChannelIsWhole'
  BY KeyMintAssumption DEF IInv, MintRestart, ChannelIsWhole, TypeOK
<1>3. CallInv'
  BY DEF IInv, MintRestart, CallInv, TypeOK, Busy, NoMintCall
<1>4. ConfigInv'
  BY DEF IInv, MintRestart, ConfigInv, CallInv, TypeOK, Busy, ConfigBefore, NoMintCall
<1>5. OutcomeInv'
  BY DEF IInv, MintRestart, OutcomeInv, OkMeansDone, CallInv, TypeOK, Busy, TooLong, NoMintCall
<1>6. OwnerInv'
  BY KeyMintAssumption DEF IInv, MintRestart, OwnerInv, CallInv, ChannelIsWhole, TypeOK,
     Owned, Target, TooLong, Busy, NoMintCall, Resource, Fits
<1> QED BY <1>1, <1>2, <1>3, <1>4, <1>5, <1>6 DEF IInv

\* Every step keeps the inductive invariant.
LEMMA NextIInv == IInv /\ [MintNext]_mintVars => IInv'
<1> SUFFICES ASSUME IInv, [MintNext]_mintVars PROVE IInv'
  OBVIOUS
<1>1. CASE MintNext
BY <1>1, RequestKeeps, LocalReplyKeeps, InitializeKeeps, ConnectTaKeeps,
   ConfiguredKeeps, TooBigKeeps, NotConnectedKeeps, InvokeFailsKeeps, AnsweredKeeps,
   DisconnectKeeps, ReconnectKeeps,
     DeviceReturnsKeeps, BeginReturnsKeeps, AbortTooLongKeeps, UpdateReturnsKeeps,
     FinishReturnsKeeps, AbortReturnsKeeps, ReplyKeeps, TeeiInitKeeps, RestartKeeps
     DEF MintNext, Work, bp_keymaster_send
<1>2. CASE UNCHANGED mintVars
  <2>1. TypeOK' /\ ChannelIsWhole'
    <3>1. TypeOK'
      BY <1>2 DEF IInv, TypeOK
    <3>2. ChannelIsWhole'
      BY Zenon, <1>2 DEF IInv, ChannelIsWhole
    <3> QED
      BY <3>1, <3>2
  <2>2. CallInv'
    BY <1>2 DEF IInv, CallInv, Busy
  <2>3. ConfigInv' /\ OutcomeInv'
    BY <1>2 DEF IInv, ConfigInv, ConfigBefore, OutcomeInv, OkMeansDone, Busy, TooLong
  <2>4. OwnerInv'
    BY <1>2 DEF IInv, OwnerInv, Owned, Target, TooLong
  <2> QED
    BY <2>1, <2>2, <2>3, <2>4 DEF IInv
<1> QED
  BY <1>1, <1>2

\* The inductive invariant holds in every reachable state.
THEOREM Inductive == MintSpec => []IInv
  BY InitIInv, NextIInv, PTL DEF MintSpec

\* Every variable keeps its type; in particular mintHandle_, which bp_keymaster_call
\* compares with 0, is -1 or a descriptor.
THEOREM TypeSafe == MintSpec => []TypeOK
<1>1. IInv => TypeOK
  BY DEF IInv
<1> QED
  BY <1>1, Inductive, PTL

\* bp_keymaster_connect and bp_keymaster_disconnect: mintHandle_ is -1 or a
\* descriptor, and says exactly whether the whole connection stands.
THEOREM ChannelSafe == MintSpec => [](TypeOK /\ ChannelIsWhole)
<1>1. IInv => TypeOK /\ ChannelIsWhole
  BY DEF IInv
<1> QED
  BY <1>1, Inductive, PTL

\* BeanpodKeyMintOperation: between calls the TA keeps no operation that no
\* object owns.
THEOREM OwnerSafe == MintSpec => []OperationHasOwner
<1>1. IInv => OperationHasOwner
  BY DEF IInv, OwnerInv, Owned, OperationHasOwner
<1> QED
  BY <1>1, Inductive, PTL

\* ForwardCommand and the calls around it: OK is the TA's OK for this command.
THEOREM OkSafe == MintSpec => []OkMeansDone
<1>1. IInv => OkMeansDone
  BY DEF IInv, OutcomeInv
<1> QED
  BY <1>1, Inductive, PTL

\* Initialize: no command on keys or operations precedes the configuration.
THEOREM ConfiguredFirst == MintSpec => []ServesOnlyConfigured
<1>1. IInv => ServesOnlyConfigured
  BY DEF IInv, ConfigInv, Busy, ServesOnlyConfigured
<1> QED
  BY <1>1, Inductive, PTL

=============================================================================
