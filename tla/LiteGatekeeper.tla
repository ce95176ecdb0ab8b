--------------------------- MODULE LiteGatekeeper ---------------------------
(***************************************************************************)
(* The gatekeeper service of the lite stack (common/lite/gatekeeper): the  *)
(* device with its constructor and its HIDL calls, and the channel to the  *)
(* gatekeeper TA, one message each way, never reset.                       *)
(*                                                                         *)
(* The service has one thread.  External: the driver passes whole messages *)
(* in order; the TA answers every request it is sent, and a request to     *)
(* verify is answered with a token only if the password is right.          *)
(***************************************************************************)
EXTENDS Integers, Sequences

CONSTANTS
  MaxFaults   \* how often the driver fails

\* Assumed of the constants.
LiteGatekeeperAssumption == MaxFaults \in Nat

GK == {"ENROLL", "VERIFY"}

\* What a call hands over, told apart as far as the code and the TA do: a
\* mandatory buffer that is empty, a request too long to send, a password that
\* is right or not.
Request == [cmd : GK, empty : BOOLEAN, long : BOOLEAN, right : BOOLEAN]

Status == {"STATUS_OK", "STATUS_REENROLL", "ERROR_RETRY_TIMEOUT", "ERROR_GENERAL_FAILURE",
           "ERROR_NOT_IMPLEMENTED"}

VARIABLES
  pc,
  call,         \* the request of the HIDL call
  error_,       \* the member; set by the constructor and never again
  gkHandle_,    \* handle_ of trusty_gatekeeper_ipc.c: 0, or the connection
  status,       \* what the callback is given
  answer,       \* the message read in this call
  toTa, fromTa, \* the messages of the connection
  unread,       \* history: requests sent whose answer was not waited for
  faults

vars == <<pc, call, error_, gkHandle_, status, answer, toTa, fromTa, unread, faults>>

Fault   == faults < MaxFaults /\ faults' = faults + 1
NoFault == UNCHANGED faults

NoAnswer == [cmd |-> "NONE", error |-> "ERROR_INVALID", reenroll |-> FALSE]
NoCall   == [cmd |-> "VERIFY", empty |-> FALSE, long |-> FALSE, right |-> FALSE]

Init ==
  /\ pc = "start" /\ call = NoCall
  /\ error_ = 0 /\ gkHandle_ = 0 /\ status = "STATUS_OK" /\ answer = NoAnswer
  /\ toTa = <<>> /\ fromTa = <<>> /\ unread = 0
  /\ faults = 0

\* The constructor.  The service is registered whether it connects or not.  A
\* process that was started without a descriptor 0 gets it for the connection.
TrustyGateKeeperDevice ==
  /\ pc = "start"
  /\ \/ NoFault /\ error_' = 0 /\ gkHandle_' \in {0, 1}
     \/ Fault /\ error_' = -1 /\ UNCHANGED gkHandle_
  /\ pc' = "idle"
  /\ UNCHANGED <<call, status, answer, toTa, fromTa, unread>>

\* trusty_gatekeeper_call takes descriptor 0 for no connection.
NoHandle == gkHandle_ = 0

\* enroll and verify: without a connection, or without desiredPassword or
\* enrolledPasswordHandle, the call fails; so it does in Send with too long a
\* request, and in trusty_gatekeeper_call.
Refused(r) == error_ # 0 \/ r.empty \/ r.long \/ NoHandle

EnrollOrVerify ==
  /\ pc = "idle"
  /\ NoFault
  /\ \E r \in Request :
       /\ call' = r
       /\ IF Refused(r)
            THEN pc' = "reply" /\ status' = "ERROR_GENERAL_FAILURE"
            ELSE pc' = "write" /\ UNCHANGED status
  /\ answer' = NoAnswer
  /\ UNCHANGED <<error_, gkHandle_, toTa, fromTa, unread>>

\* deleteUser and deleteAllUsers.
Delete ==
  /\ pc = "idle"
  /\ NoFault
  /\ pc' = "reply" /\ status' = "ERROR_NOT_IMPLEMENTED" /\ answer' = NoAnswer
  /\ UNCHANGED <<call, error_, gkHandle_, toTa, fromTa, unread>>

-----------------------------------------------------------------------------
(***************************************************************************)
(* trusty_gatekeeper_call.                                                 *)
(***************************************************************************)
Fails == pc' = "reply" /\ status' = "ERROR_GENERAL_FAILURE"

\* Mutant of Write: a write is repeated although the message had gone out.
Write_repeats ==
  /\ pc = "write"
  /\ NoFault
  /\ \E n \in 1 .. 2 : toTa' = toTa \o [i \in 1 .. n |-> call]
  /\ pc' = "read"
  /\ UNCHANGED <<call, error_, gkHandle_, status, answer, fromTa, unread>>

Write ==
  /\ pc = "write"
  /\ NoFault
  /\ toTa' = Append(toTa, call)
  /\ pc' = "read"
  /\ UNCHANGED <<call, error_, gkHandle_, status, answer, fromTa, unread>>

WriteFails ==
  /\ pc = "write"
  /\ Fault
  /\ Fails
  /\ UNCHANGED <<call, error_, gkHandle_, answer, toTa, fromTa, unread>>

\* An answer to another command is an error, and gone.
Read ==
  /\ pc = "read" /\ fromTa # <<>>
  /\ NoFault
  /\ answer' = Head(fromTa) /\ fromTa' = Tail(fromTa)
  /\ IF Head(fromTa).cmd = call.cmd
       THEN pc' = "returned" /\ UNCHANGED status
       ELSE Fails
  /\ UNCHANGED <<call, error_, gkHandle_, toTa, unread>>

\* read is interrupted or fails; the answer comes all the same.
ReadFails ==
  /\ pc = "read"
  /\ Fault
  /\ Fails
  /\ unread' = unread + 1
  /\ UNCHANGED <<call, error_, gkHandle_, answer, toTa, fromTa>>

\* Send and the rest of enroll and verify: the answer's error decides.
Returns ==
  /\ pc = "returned"
  /\ NoFault
  /\ status' = IF answer.error = "ERROR_RETRY" THEN "ERROR_RETRY_TIMEOUT"
               ELSE IF answer.error # "ERROR_NONE" THEN "ERROR_GENERAL_FAILURE"
               ELSE IF call.cmd = "VERIFY" /\ answer.reenroll THEN "STATUS_REENROLL"
               ELSE "STATUS_OK"
  /\ pc' = "reply"
  /\ UNCHANGED <<call, error_, gkHandle_, answer, toTa, fromTa, unread>>

Reply ==
  /\ pc = "reply"
  /\ NoFault
  /\ pc' = "idle"
  /\ UNCHANGED <<call, error_, gkHandle_, status, answer, toTa, fromTa, unread>>

-----------------------------------------------------------------------------
\* External: the TA takes the next request and answers it.
TaAnswers ==
  /\ toTa # <<>>
  /\ NoFault
  /\ \E e \in {"ERROR_NONE", "ERROR_INVALID", "ERROR_RETRY"}, again \in BOOLEAN :
       /\ e = "ERROR_NONE" => Head(toTa).right
       /\ again => Head(toTa).cmd = "VERIFY" /\ e = "ERROR_NONE"
       /\ fromTa' = Append(fromTa, [cmd |-> Head(toTa).cmd, error |-> e, reenroll |-> again])
  /\ toTa' = Tail(toTa)
  /\ UNCHANGED <<pc, call, error_, gkHandle_, status, answer, unread>>

\* External: the process is started again, with a connection of its own.
Restart ==
  /\ Fault
  /\ pc' = "start" /\ call' = NoCall
  /\ error_' = 0 /\ gkHandle_' = 0 /\ status' = "STATUS_OK" /\ answer' = NoAnswer
  /\ toTa' = <<>> /\ fromTa' = <<>> /\ unread' = 0

Service == TrustyGateKeeperDevice \/ Write \/ WriteFails \/ Read \/ ReadFails \/ Returns \/ Reply

Next == EnrollOrVerify \/ Delete \/ Service \/ TaAnswers \/ Restart

Spec == Init /\ [][Next]_vars

\* The thread is scheduled, and the TA answers what it is sent.
FairSpec == Spec /\ WF_vars(Service) /\ WF_vars(TaAnswers)

-----------------------------------------------------------------------------
\* trusty_gatekeeper_call never waits for an answer that does not come.
EveryCallReturns == pc = "write" ~> pc \in {"idle", "start"}

\* trusty_gatekeeper_call: reads that failed, and nothing else, leave answers on
\* the connection, for good; on a connection without them a verify that
\* succeeds was asked about the right password, and on any a result handed to a
\* client is one for the command it called.
AnswersInStep ==
  /\ pc = "idle" => Len(toTa) + Len(fromTa) = unread
  /\ pc = "reply" /\ status \in {"STATUS_OK", "STATUS_REENROLL", "ERROR_RETRY_TIMEOUT"} =>
       answer.cmd = call.cmd
  /\ /\ pc = "reply" /\ unread = 0
     /\ call.cmd = "VERIFY" /\ status \in {"STATUS_OK", "STATUS_REENROLL"}
     => call.right

\* "Verifies provided_password matches enrolled_password_handle." (verify): a
\* verify that succeeds was asked about the right password.
VerifiedIsRight ==
  pc = "reply" /\ call.cmd = "VERIFY" /\ status \in {"STATUS_OK", "STATUS_REENROLL"} => call.right
=============================================================================
