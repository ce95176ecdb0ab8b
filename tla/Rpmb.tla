-------------------------------- MODULE Rpmb --------------------------------
(***************************************************************************)
(* The RPMB requests of the lite storage proxy                             *)
(* (common/lite/storage/proxy/rpmb.c): one request of the TA becomes up to *)
(* three commands of one ioctl, a reliable write, a write and a read.      *)
(*                                                                         *)
(* Bytes of the payload are named by their offset.  The lengths are those  *)
(* of a 64-bit build, where the sum of the sizes does not wrap.            *)
(***************************************************************************)
EXTENDS Integers, Sequences, SequencesExt

CONSTANTS
  HeaderSize,      \* sizeof(struct storage_rpmb_send_req)
  MMC_BLOCK_SIZE,
  ReadBuf,         \* sizeof(read_buf)
  MaxRpmbSize,     \* largest size named in a request
  MaxLen           \* longest message

\* Assumed of the constants.
RpmbAssumption ==
  /\ {HeaderSize, MMC_BLOCK_SIZE, ReadBuf, MaxRpmbSize, MaxLen} \subseteq Nat \ {0}

\* reliable_write_size, write_size and read_size
Req == [relw : 0 .. MaxRpmbSize, w : 0 .. MaxRpmbSize, r : 0 .. MaxRpmbSize]

\* A command: what it does, where its data starts, how many blocks it has.
MmcCmd == [flag : {"RELW", "W", "R"}, data : 0 .. MaxLen, blocks : 0 .. MaxRpmbSize]

VARIABLES
  sendPc,
  rpmb_fd,
  req, req_len,
  write_buf,  \* offset in the payload
  cmds,       \* mmc.multi
  result,     \* msg->result
  answered,   \* bytes of read_buf in the answer
  deviceRan   \* history: the commands the device has run for this request

rpmbVars == <<sendPc, rpmb_fd, req, req_len, write_buf, cmds, result, answered, deviceRan>>

NoReq == [relw |-> 0, w |-> 0, r |-> 0]

RpmbInit ==
  /\ sendPc = "closed" /\ rpmb_fd = -1
  /\ req = NoReq /\ req_len = 0 /\ write_buf = 0 /\ cmds = <<>>
  /\ result = "STORAGE_NO_ERROR" /\ answered = 0 /\ deviceRan = <<>>

rpmb_open ==
  /\ sendPc = "closed"
  /\ \/ rpmb_fd' = 1 /\ sendPc' = "idle"
     \/ UNCHANGED <<rpmb_fd, sendPc>>
  /\ UNCHANGED <<req, req_len, write_buf, cmds, result, answered, deviceRan>>

rpmb_close ==
  /\ sendPc = "idle"
  /\ rpmb_fd' = -1 /\ sendPc' = "closed"
  /\ UNCHANGED <<req, req_len, write_buf, cmds, result, answered, deviceRan>>

\* A message from the TA.
Receive ==
  /\ sendPc = "idle"
  /\ req' \in Req /\ req_len' \in 0 .. MaxLen
  /\ sendPc' = "length"
  /\ UNCHANGED <<rpmb_fd, write_buf, cmds, result, answered, deviceRan>>

ErrResponse(e) ==
  /\ result' = e /\ answered' = 0 /\ sendPc' = "respond"
  /\ UNCHANGED <<write_buf, cmds>>

CheckLength ==
  /\ sendPc = "length"
  /\ IF req_len < HeaderSize \/ req_len # HeaderSize + req.relw + req.w
       THEN ErrResponse("STORAGE_ERR_NOT_VALID")
       ELSE sendPc' = "relw" /\ UNCHANGED <<write_buf, cmds, result, answered>>
  /\ UNCHANGED <<rpmb_fd, req, req_len, deviceRan>>

\* One command is added, or none when its size is 0.
Adds(flag, size, valid, next) ==
  IF size = 0 THEN sendPc' = next /\ UNCHANGED <<write_buf, cmds, result, answered>>
  ELSE IF ~valid THEN ErrResponse("STORAGE_ERR_NOT_VALID")
  ELSE /\ cmds' = Append(cmds, [flag |-> flag, data |-> IF flag = "R" THEN 0 ELSE write_buf,
                                blocks |-> size \div MMC_BLOCK_SIZE])
       /\ write_buf' = IF flag = "R" THEN write_buf ELSE write_buf + size
       /\ sendPc' = next
       /\ UNCHANGED <<result, answered>>

ReliableWriteCmd ==
  /\ sendPc = "relw"
  /\ Adds("RELW", req.relw, req.relw % MMC_BLOCK_SIZE = 0, "w")
  /\ UNCHANGED <<rpmb_fd, req, req_len, deviceRan>>

\* Mutant of WriteCmd: part of a block is rounded down.
WriteCmd_rounds ==
  /\ sendPc = "w"
  /\ Adds("W", req.w, TRUE, "r")
  /\ UNCHANGED <<rpmb_fd, req, req_len, deviceRan>>

WriteCmd ==
  /\ sendPc = "w"
  /\ Adds("W", req.w, req.w % MMC_BLOCK_SIZE = 0, "r")
  /\ UNCHANGED <<rpmb_fd, req, req_len, deviceRan>>

ReadCmd ==
  /\ sendPc = "r"
  /\ Adds("R", req.r, req.r % MMC_BLOCK_SIZE = 0 /\ req.r <= ReadBuf, "ioctl")
  /\ UNCHANGED <<rpmb_fd, req, req_len, deviceRan>>

\* MMC_IOC_MULTI_CMD runs the commands in order; it may fail after some.
Ioctl ==
  /\ sendPc = "ioctl"
  /\ \/ /\ deviceRan' = cmds
        /\ result' = "STORAGE_NO_ERROR" /\ answered' = req.r /\ sendPc' = "respond"
        /\ UNCHANGED <<write_buf, cmds>>
     \/ /\ \E n \in 0 .. Len(cmds) : deviceRan' = SubSeq(cmds, 1, n)
        /\ ErrResponse("STORAGE_ERR_GENERIC")
  /\ UNCHANGED <<rpmb_fd, req, req_len>>

\* ipc_respond; the variables of rpmb_send end with it.
Respond ==
  /\ sendPc = "respond"
  /\ sendPc' = "idle"
  /\ req' = NoReq /\ req_len' = 0 /\ write_buf' = 0 /\ cmds' = <<>>
  /\ result' = "STORAGE_NO_ERROR" /\ answered' = 0 /\ deviceRan' = <<>>
  /\ UNCHANGED rpmb_fd

rpmb_send == CheckLength \/ ReliableWriteCmd \/ WriteCmd \/ ReadCmd \/ Ioctl \/ Respond

RpmbNext == rpmb_open \/ rpmb_close \/ Receive \/ rpmb_send

RpmbSpec == RpmbInit /\ [][RpmbNext]_rpmbVars

-----------------------------------------------------------------------------
\* The bytes of the payload a command writes, in order.
PayloadBytes(c) == IF c.flag = "R" THEN <<>>
                   ELSE [i \in 1 .. c.blocks * MMC_BLOCK_SIZE |-> c.data + i - 1]

WrittenBytes(cs) == FlattenSeq([i \in DOMAIN cs |-> PayloadBytes(cs[i])])

\* rpmb_send: a request that succeeds has written every byte of its payload
\* once and in order, and no byte beyond the message; and the device never
\* reads beyond read_buf, nor is more than that answered.
TransferIsExact ==
  /\ sendPc = "respond" /\ result = "STORAGE_NO_ERROR" =>
       WrittenBytes(deviceRan) = [i \in 1 .. req_len - HeaderSize |-> i - 1]
  /\ answered <= ReadBuf
  /\ \A i \in DOMAIN deviceRan :
       deviceRan[i].flag = "R" => deviceRan[i].blocks * MMC_BLOCK_SIZE <= ReadBuf

=============================================================================
