---------------------------- MODULE TipcKeymaster ----------------------------
(***************************************************************************)
(* The channel of the lite Keymaster service                               *)
(* (common/lite/km4.1/common/beanpod_keymaster_ipc.cpp) over libtrusty.    *)
(* A request is sent in fragments, the stop bit set on all but the last;   *)
(* the answer comes in fragments, the stop bit set on the last; every      *)
(* error resets the connection.                                            *)
(*                                                                         *)
(* The service has one thread.  External: the Trusty driver passes whole   *)
(* messages in order and refuses to deliver one into too small a buffer;   *)
(* the TA joins the fragments of a connection and forgets them with it.    *)
(***************************************************************************)
EXTENDS Integers, Sequences

CONSTANTS
  Cmd,         \* commands
  MaxSend,     \* MAX_SEND_BUF_SIZE
  MaxBuffer,   \* KEYMASTER_MAX_BUFFER_LENGTH
  BpSendBuf,   \* BP_KEYMASTER_SEND_BUF_SIZE
  BpRecvBuf,   \* BP_KEYMASTER_RECV_BUF_SIZE
  MaxSize,     \* longest request and longest answer that are tried
  Fd,
  MaxCallFaults \* how often the driver or malloc fails

\* Assumed of the constants.
TipcKeymasterAssumption ==
  /\ {MaxSend, MaxBuffer, BpSendBuf, BpRecvBuf} \subseteq Nat \ {0}
  /\ MaxSize \in Nat /\ MaxCallFaults \in Nat
  /\ Fd \subseteq Nat /\ Fd # {}

Nothing == <<>>

VARIABLES
  callPc,
  cmd, in,     \* the command and the bytes of the request
  sent,        \* how many of the bytes have been sent
  out,         \* the bytes of the answer so far
  err,         \* what bp_keymaster_send reports
  handle_,
  fds,         \* descriptors of the device that are open
  toKm, fromKm,\* the messages of the connection
  joined,      \* external: the fragments the TA has joined so far
  ran,         \* history: the request the TA ran in this call, and its answer
  callFaults

channel == <<toKm, fromKm, joined>>
callVars == <<callPc, cmd, in, sent, out, err, handle_, fds, channel, ran, callFaults>>

CallFault   == callFaults < MaxCallFaults /\ callFaults' = callFaults + 1
NoCallFault == UNCHANGED callFaults

NoRun == [cmd |-> Nothing, req |-> Nothing, ans |-> Nothing]

CallInit ==
  /\ callPc = "start"
  /\ cmd \in Cmd /\ in = Nothing /\ sent = 0 /\ out = Nothing /\ err = "OK"
  /\ handle_ = -1 /\ fds = {}
  /\ toKm = Nothing /\ fromKm = Nothing /\ joined = Nothing
  /\ ran = NoRun
  /\ callFaults = 0

-----------------------------------------------------------------------------
\* The device is opened and connected to the port; it is closed again when the
\* port cannot be reached.  handle_ is bp_keymaster_connect's.
tipc_connect(ok) ==
  \/ ok /\ NoCallFault /\ \E fd \in Fd \ fds : fds' = fds \cup {fd} /\ handle_' = fd
  \/ ~ok /\ CallFault /\ UNCHANGED <<fds, handle_>>

\* main: the service ends when it cannot connect, and is started again.
Initialize ==
  /\ callPc = "start"
  /\ \E ok \in BOOLEAN : tipc_connect(ok) /\ callPc' = IF ok THEN "idle" ELSE "start"
  /\ UNCHANGED <<cmd, in, sent, out, err, channel, ran>>

-----------------------------------------------------------------------------
\* The bytes of a request are told apart by their place and by the call.
Other(b) == 1 - b
Bytes(tag, n) == [i \in 1 .. n |-> <<tag, i>>]
LastTag == IF in = Nothing THEN 0 ELSE in[1][1]

\* bp_keymaster_send, or bp_keymaster_send_no_request with an empty request.
Send ==
  /\ callPc = "idle"
  /\ NoCallFault
  /\ \E c \in Cmd, n \in 0 .. MaxSize :
       /\ cmd' = c /\ in' = Bytes(Other(LastTag), n)
       /\ IF n > BpSendBuf
            THEN err' = "INVALID_INPUT_LENGTH" /\ callPc' = "reply"
            ELSE err' = "OK" /\ callPc' = "write"
  /\ sent' = 0 /\ out' = Nothing /\ ran' = NoRun
  /\ UNCHANGED <<handle_, fds, channel>>

Remaining == Len(in) - sent

NotConnected ==
  /\ callPc = "write" /\ handle_ < 0
  /\ NoCallFault
  /\ callPc' = "reset"
  /\ UNCHANGED <<cmd, in, sent, out, err, handle_, fds, channel, ran>>

\* Mutant of WriteFragment: send_buf is not moved on.
WriteFragment_same ==
  /\ callPc = "write" /\ handle_ >= 0 /\ Remaining > MaxSend
  /\ NoCallFault
  /\ toKm' = Append(toKm, [cmd |-> cmd, stop |-> TRUE, payload |-> SubSeq(in, 1, MaxSend)])
  /\ sent' = sent + MaxSend
  /\ UNCHANGED <<callPc, cmd, in, out, err, handle_, fds, fromKm, joined, ran>>

WriteFragment ==
  /\ callPc = "write" /\ handle_ >= 0 /\ Remaining > MaxSend
  /\ NoCallFault
  /\ toKm' = Append(toKm, [cmd |-> cmd, stop |-> TRUE, payload |-> SubSeq(in, sent + 1, sent + MaxSend)])
  /\ sent' = sent + MaxSend
  /\ UNCHANGED <<callPc, cmd, in, out, err, handle_, fds, fromKm, joined, ran>>

WriteLast ==
  /\ callPc = "write" /\ handle_ >= 0 /\ Remaining <= MaxSend
  /\ NoCallFault
  /\ toKm' = Append(toKm, [cmd |-> cmd, stop |-> FALSE, payload |-> SubSeq(in, sent + 1, Len(in))])
  /\ sent' = Len(in)
  /\ callPc' = "read"
  /\ UNCHANGED <<cmd, in, out, err, handle_, fds, fromKm, joined, ran>>

\* malloc or write fails, perhaps between two fragments.
WriteCallFails ==
  /\ callPc = "write" /\ handle_ >= 0
  /\ CallFault
  /\ callPc' = "reset"
  /\ UNCHANGED <<cmd, in, sent, out, err, handle_, fds, channel, ran>>

\* The room readv is given; the header has its own.
Room == IF MaxBuffer < BpRecvBuf - Len(out) THEN MaxBuffer ELSE BpRecvBuf - Len(out)

ForThis(m) == m.resp /\ m.cmd = cmd

\* readv: a message that does not fit, or answers something else, is an error.
ReadFragment ==
  /\ callPc = "read" /\ fromKm # Nothing
  /\ NoCallFault
  /\ LET m == Head(fromKm) IN
       IF Len(m.payload) <= Room /\ ForThis(m)
         THEN /\ fromKm' = Tail(fromKm)
              /\ out' = out \o m.payload
              /\ callPc' = IF m.stop THEN "reply" ELSE "read"
         ELSE callPc' = "reset" /\ UNCHANGED <<fromKm, out>>
  /\ UNCHANGED <<cmd, in, sent, err, handle_, fds, toKm, joined, ran>>

\* readv is interrupted, fails, or returns less than a header.
ReadCallFails ==
  /\ callPc = "read"
  /\ CallFault
  /\ callPc' = "reset"
  /\ UNCHANGED <<cmd, in, sent, out, err, handle_, fds, channel, ran>>

\* Mutant of Reset: the connection is kept and the error reported.
Reset_keeps ==
  /\ callPc = "reset"
  /\ NoCallFault
  /\ err' = "ERROR" /\ callPc' = "reply"
  /\ UNCHANGED <<cmd, in, sent, out, handle_, fds, channel, ran>>

\* bp_keymaster_disconnect, in bp_keymaster_send.
Reset ==
  /\ callPc = "reset"
  /\ NoCallFault
  /\ fds' = fds \ {handle_} /\ handle_' = -1
  /\ toKm' = Nothing /\ fromKm' = Nothing /\ joined' = Nothing
  /\ err' = "ERROR" /\ callPc' = "connect"
  /\ UNCHANGED <<cmd, in, sent, out, ran>>

\* Mutant of Reconnect: the connection is not made again.
Reconnect_never ==
  /\ callPc = "connect"
  /\ NoCallFault
  /\ callPc' = "reply"
  /\ UNCHANGED <<cmd, in, sent, out, err, handle_, fds, channel, ran>>

\* bp_keymaster_connect, whose result is ignored.
Reconnect ==
  /\ callPc = "connect"
  /\ \E ok \in BOOLEAN : tipc_connect(ok)
  /\ callPc' = "reply"
  /\ UNCHANGED <<cmd, in, sent, out, err, channel, ran>>

ReplyCall ==
  /\ callPc = "reply"
  /\ NoCallFault
  /\ callPc' = "idle"
  /\ UNCHANGED <<cmd, in, sent, out, err, handle_, fds, channel, ran>>

-----------------------------------------------------------------------------
\* External: the answer a of length n to request r, cut into messages.
AnswerBytes(r, n) == [i \in 1 .. n |-> <<r, i>>]
Fragments(c, a) ==
  LET last == IF Len(a) = 0 THEN 1 ELSE (Len(a) + MaxBuffer - 1) \div MaxBuffer
      end(k) == IF k = last THEN Len(a) ELSE k * MaxBuffer
  IN  [k \in 1 .. last |-> [cmd |-> c, resp |-> TRUE, stop |-> k = last,
                            payload |-> SubSeq(a, (k - 1) * MaxBuffer + 1, end(k))]]

\* External: the TA takes the next message of the connection.
TaTakes ==
  /\ toKm # Nothing
  /\ NoCallFault
  /\ LET m == Head(toKm)
         r == joined \o m.payload
     IN  /\ toKm' = Tail(toKm)
         /\ IF m.stop
              THEN joined' = r /\ UNCHANGED <<fromKm, ran>>
              ELSE /\ joined' = Nothing
                   /\ \E n \in 0 .. MaxSize :
                        /\ fromKm' = fromKm \o Fragments(m.cmd, AnswerBytes(r, n))
                        /\ ran' = [cmd |-> m.cmd, req |-> r, ans |-> AnswerBytes(r, n)]
  /\ UNCHANGED <<callPc, cmd, in, sent, out, err, handle_, fds>>

bp_keymaster_call ==
  NotConnected \/ WriteFragment \/ WriteLast \/ WriteCallFails \/ ReadFragment \/ ReadCallFails

CallService == Initialize \/ bp_keymaster_call \/ Reset \/ Reconnect \/ ReplyCall

CallNext == Send \/ CallService \/ TaTakes

CallSpec == CallInit /\ [][CallNext]_callVars

\* The thread is scheduled, and the TA takes what it is sent.
CallFairSpec == CallSpec /\ WF_callVars(CallService) /\ WF_callVars(TaTakes)

-----------------------------------------------------------------------------
\* bp_keymaster_call: a call that is answered has all of the answer, in order,
\* that the TA gave to this request, never one to a call that failed before.
AnswerIsOwn ==
  callPc = "reply" /\ err = "OK" => ran.req = in /\ ran.cmd = cmd /\ out = ran.ans

\* The fragments: the TA runs only requests a caller made, joined from all
\* their fragments and no others, wherever a call before broke off.
RequestIsWhole == ran # NoRun => ran.cmd = cmd /\ ran.req = in

\* The reset: a client that keeps making calls that fit is answered again and
\* again, whatever broke before.
Recovers ==
  []<>(callPc = "write") => []<>(callPc = "reply" /\ ran # NoRun)

=============================================================================
