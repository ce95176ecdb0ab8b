---------------------------- MODULE LiteKmSetKey ----------------------------
(***************************************************************************)
(* The keybox installation of the lite stack (common/lite/kmsetkey):       *)
(* attest_key_install hands the TA the decryption key, the length of the   *)
(* keybox, the keybox in messages of limited size, and the order to set    *)
(* it, on a connection of its own.                                         *)
(*                                                                         *)
(* External: the TA keeps what a connection has brought until it closes,   *)
(* flags the answer to a command as done when nothing more is due, and     *)
(* answers with neither flag what it refuses.                              *)
(***************************************************************************)
EXTENDS Integers, Sequences

CONSTANTS
  MaxPayload,       \* MAX_MSG_SIZE - IPC_MSG_SIZE - sizeof(struct kmsetkey_msg)
  MaxKey,           \* longest keybox tried
  MaxInstallFaults  \* how often the driver, malloc or the TA fails

\* Assumed of the constants.
LiteKmSetKeyAssumption ==
  MaxPayload \in Nat \ {0} /\ MaxKey \in Nat /\ MaxInstallFaults \in Nat

VARIABLES
  installPc,
  peakb,      \* the bytes of the keybox, told apart by call and place
  payload_offset,
  rc,
  handle,     \* of attest_key_install: the descriptor of the connection
  zeroFree,   \* whether the process has no descriptor 0 open
  ta,         \* external: what the connection has brought
  installed,  \* external: the keybox the TA has set
  late,       \* history: a fault hit this call, or its connection is descriptor 0
  installFaults

installVars ==
  <<installPc, peakb, payload_offset, rc, handle, zeroFree, ta, installed, late, installFaults>>

InstallFault ==
  installFaults < MaxInstallFaults /\ installFaults' = installFaults + 1 /\ late' = TRUE
NoInstallFault == UNCHANGED <<installFaults, late>>

Fresh == [decrypt |-> FALSE, len |-> 0, buf |-> <<>>]

InstallInit ==
  /\ installPc = "idle" /\ peakb = <<>> /\ payload_offset = 0 /\ rc = 0
  /\ handle = 0 /\ zeroFree \in BOOLEAN /\ ta = Fresh /\ installed = <<>>
  /\ late = FALSE /\ installFaults = 0

\* Keyboxes of two calls in a row differ in every byte.
Tag(k) == IF k = <<>> THEN 0 ELSE k[1][1]
Keybox(tag, n) == [i \in 1 .. n |-> <<tag, i>>]

\* attest_key_install, with nv_kmsetkey_open before it.
Install ==
  /\ installPc = "idle"
  /\ \E n \in 0 .. MaxKey : peakb' = Keybox(1 - Tag(peakb), n)
  /\ payload_offset' = 0 /\ rc' = 0 /\ late' = FALSE
  /\ installPc' = "connect"
  /\ UNCHANGED <<handle, zeroFree, ta, installed, installFaults>>

\* The connection gets the lowest descriptor that is free.
kmsetkey_connect ==
  /\ installPc = "connect"
  /\ \/ /\ handle' = (IF zeroFree THEN 0 ELSE 1) /\ zeroFree' = FALSE
        /\ late' = zeroFree
        /\ installPc' = "decrypt" /\ UNCHANGED <<rc, installFaults>>
     \/ InstallFault /\ rc' = -1 /\ installPc' = "return" /\ UNCHANGED <<handle, zeroFree>>
  /\ UNCHANGED <<peakb, payload_offset, ta, installed>>

\* kmsetkey_call fails: malloc, write or read does, or the answer is not the
\* one that is due.  The TA may have acted on the command all the same.  Each
\* call refuses a handle that is not positive; the first one then ends it all.
CallFails == rc' = -1 /\ installPc' = "exit"

\* done is the flag of the TA's answer, finish the one that is expected.
Answered(done, finish, next) ==
  IF done <=> finish THEN installPc' = next /\ rc' = 0 ELSE CallFails

decrypt_key_install ==
  /\ installPc = "decrypt"
  /\ \/ /\ handle > 0
        /\ NoInstallFault /\ ta' = [ta EXCEPT !.decrypt = TRUE] /\ Answered(TRUE, TRUE, "len")
     \/ /\ handle > 0
        /\ InstallFault /\ (UNCHANGED ta \/ ta' = [ta EXCEPT !.decrypt = TRUE]) /\ CallFails
     \/ handle <= 0 /\ NoInstallFault /\ UNCHANGED ta /\ CallFails
  /\ UNCHANGED <<peakb, payload_offset, handle, zeroFree, installed>>

SendLen ==
  /\ installPc = "len"
  /\ LET t == [ta EXCEPT !.len = Len(peakb), !.buf = <<>>] IN
       \/ NoInstallFault /\ ta' = t /\ Answered(TRUE, TRUE, "buf")
       \/ InstallFault /\ (UNCHANGED ta \/ ta' = t) /\ CallFails
  /\ UNCHANGED <<peakb, payload_offset, handle, zeroFree, installed>>

Rest == Len(peakb) - payload_offset

PayloadLen == IF Rest < MaxPayload THEN Rest ELSE MaxPayload

Finish == ~(payload_offset + PayloadLen < Len(peakb))

\* One turn of the loop over the keybox.
SendBuf ==
  /\ installPc = "buf" /\ payload_offset < Len(peakb)
  /\ LET m == SubSeq(peakb, payload_offset + 1, payload_offset + PayloadLen)
         t == [ta EXCEPT !.buf = @ \o m] IN
       \/ /\ NoInstallFault
          /\ ta' = t
          /\ Answered(Len(t.buf) >= t.len, Finish, "buf")
          /\ payload_offset' = payload_offset + PayloadLen
       \/ InstallFault /\ (UNCHANGED ta \/ ta' = t) /\ CallFails /\ UNCHANGED payload_offset
  /\ UNCHANGED <<peakb, handle, zeroFree, installed>>

EndOfLoop ==
  /\ installPc = "buf" /\ ~(payload_offset < Len(peakb))
  /\ NoInstallFault
  /\ installPc' = "set"
  /\ UNCHANGED <<peakb, payload_offset, rc, handle, zeroFree, ta, installed>>

\* Mutant of SetKey: the answer to the last command is not looked at.
SetKey_unchecked ==
  /\ installPc = "set"
  /\ \/ NoInstallFault /\ installed' = ta.buf
     \/ InstallFault /\ UNCHANGED installed
  /\ installPc' = "exit"
  /\ UNCHANGED <<peakb, payload_offset, rc, handle, zeroFree, ta>>

\* The TA refuses a keybox that is not there.
SetKey ==
  /\ installPc = "set"
  /\ LET ok == ta.decrypt /\ ta.len > 0 /\ Len(ta.buf) = ta.len IN
       \/ /\ NoInstallFault
          /\ installed' = (IF ok THEN ta.buf ELSE installed)
          /\ Answered(ok, TRUE, "exit")
       \/ InstallFault /\ (UNCHANGED installed \/ (ok /\ installed' = ta.buf)) /\ CallFails
  /\ UNCHANGED <<peakb, payload_offset, handle, zeroFree, ta>>

\* The label exit.  A connection on descriptor 0, which has brought the TA
\* nothing, stays open.
kmsetkey_disconnect ==
  /\ installPc = "exit"
  /\ NoInstallFault
  /\ handle' = 0 /\ ta' = Fresh
  /\ installPc' = "return"
  /\ UNCHANGED <<peakb, payload_offset, rc, zeroFree, installed>>

Return ==
  /\ installPc = "return"
  /\ NoInstallFault
  /\ installPc' = "idle"
  /\ UNCHANGED <<peakb, payload_offset, rc, handle, zeroFree, ta, installed>>

attest_key_install ==
  \/ kmsetkey_connect \/ decrypt_key_install \/ SendLen \/ SendBuf \/ EndOfLoop \/ SetKey
  \/ kmsetkey_disconnect \/ Return

InstallNext == Install \/ attest_key_install

InstallSpec == InstallInit /\ [][InstallNext]_installVars

-----------------------------------------------------------------------------

\* attest_key_install: what is reported as installed is the whole keybox of
\* this call; neither a lost answer nor an earlier attempt stands in for it.
\* And a keybox of any length is installed unless something fails or the
\* connection is descriptor 0, also when it fills its last message.
InstalledIsWhole ==
  installPc = "return" => /\ rc = 0 => installed = peakb
                          /\ ~late /\ peakb # <<>> => rc = 0

=============================================================================
