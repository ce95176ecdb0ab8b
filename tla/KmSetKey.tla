------------------------------ MODULE KmSetKey ------------------------------
(***************************************************************************)
(* The keybox tool of the 400 stack (common/400/km4.1/kmsetkey): one       *)
(* process imports a keybox and its model name into the TA (-i), another,  *)
(* started at boot or by hand, checks what the TA holds (-c).  Both report *)
(* through two system properties and know nothing of each other.           *)
(*                                                                         *)
(* A step is one session with the TA being opened, used or closed, or one  *)
(* property being set: what another process can come in between.  Lengths  *)
(* stand for the model names.                                              *)
(***************************************************************************)
EXTENDS Integers

CONSTANTS
  Importer, Checker,  \* processes started with -i and with -c
  TEE_PROP_VALUE_MAX, PROP_VALUE_MAX,
  KB_SIZE,            \* longest keybox
  MaxToolFaults       \* how often the TEE or a process fails

\* Assumed of the constants.
KmSetKeyAssumption ==
  /\ Importer \cap Checker = {}
  /\ TEE_PROP_VALUE_MAX \in Nat \ {0} /\ PROP_VALUE_MAX \in Nat
  /\ TEE_PROP_VALUE_MAX < PROP_VALUE_MAX
  /\ KB_SIZE \in Nat /\ MaxToolFaults \in Nat

Proc == Importer \cup Checker

\* A model name as a property holds it, with what is set when there is none.
ModelName(n) == <<"name", n>>
Fail    == <<"fail", 0>>
Unknown == <<"unknown", 0>>

SessionPart == {"context", "session", "memory"}

VARIABLES
  toolPc,
  toolRet,        \* what the function called last returned
  toolLive,       \* the parts of its session a process holds
  seen,           \* the key_status_t a checker has read
  productDevice,  \* length of ro.product.device, fixed at boot; 0 if not set
  keyStatus,      \* vendor.soter.teei.googlekey.status
  keyModel,       \* vendor.soter.teei.googlekey.model
  taKey,          \* external: the TA holds a keybox
  taModel,        \* external: length of the model name it holds
  overlap,        \* history: another process touched the TA or a property during this check
  toolFaults

keyboxVars ==
  <<toolPc, toolRet, toolLive, seen, productDevice, keyStatus, keyModel, taKey, taModel, overlap,
    toolFaults>>

ToolFault   == toolFaults < MaxToolFaults /\ toolFaults' = toolFaults + 1
NoToolFault == UNCHANGED toolFaults

NotSeen == [key |-> FALSE, len |-> 0]

KeyboxInit ==
  /\ toolPc = [p \in Proc |-> "idle"] /\ toolRet = [p \in Proc |-> 0]
  /\ toolLive = [p \in Proc |-> {}] /\ seen = [p \in Proc |-> NotSeen]
  /\ productDevice \in 0 .. PROP_VALUE_MAX - 1
  /\ keyStatus = "unset" /\ keyModel = Fail
  /\ taKey = FALSE /\ taModel = 0
  /\ overlap = [p \in Checker |-> FALSE]
  /\ toolFaults = 0

Goto(p, l) == toolPc' = [toolPc EXCEPT ![p] = l]
ToolReturns(p, r) == toolRet' = [toolRet EXCEPT ![p] = r]
Touches(p) == overlap' = [q \in Checker |-> overlap[q] \/ q # p]

\* property_value and the TA's copy of it end at the same place.
CutLen == IF productDevice < TEE_PROP_VALUE_MAX THEN productDevice ELSE TEE_PROP_VALUE_MAX - 1

-----------------------------------------------------------------------------
(***************************************************************************)
(* main, with the module's open and TEE_Alloc_KM_Buffer_And_Reset.         *)
(***************************************************************************)
\* The module may not be there to be opened.
OpenFails(p) == ToolFault /\ Goto(p, "exit") /\ ToolReturns(p, -1)

\* Both go on to the TA unless there is no memory for keymaster_buffer.
ut_ree_import_attest_keybox(p) ==
  \/ NoToolFault /\ Goto(p, "key") /\ ToolReturns(p, 0)
  \/ ToolFault /\ Goto(p, "exit") /\ ToolReturns(p, -1)

ut_ree_check_attest_keybox(p) ==
  \/ NoToolFault /\ Goto(p, "prepare") /\ ToolReturns(p, 0)
  \/ ToolFault /\ Goto(p, "exit") /\ ToolReturns(p, -1)

\* An import needs a keybox of a size that fits.
StartTool(p) ==
  /\ toolPc[p] = "idle"
  /\ \/ OpenFails(p)
     \/ p \in Checker /\ ut_ree_check_attest_keybox(p)
     \/ /\ p \in Importer
        /\ \E kb_len \in 0 .. KB_SIZE + 1 :
             IF kb_len = 0 \/ kb_len > KB_SIZE
               THEN NoToolFault /\ Goto(p, "exit") /\ ToolReturns(p, -3)
               ELSE ut_ree_import_attest_keybox(p)
  /\ overlap' = IF p \in Checker THEN [overlap EXCEPT ![p] = FALSE] ELSE overlap
  /\ UNCHANGED <<toolLive, seen, productDevice, keyStatus, keyModel, taKey, taModel>>

-----------------------------------------------------------------------------
(***************************************************************************)
(* A session with the TA: what ut_km_import_google_key,                    *)
(* ut_km_import_google_key_model and ut_km_check_google_key share.         *)
(***************************************************************************)
Opening == {"key", "model", "check"}
Using   == [l \in Opening |-> IF l = "key" THEN "key.use" ELSE
                             IF l = "model" THEN "model.use" ELSE "check.use"]
Closing == [l \in Opening |-> IF l = "key" THEN "key.close" ELSE
                             IF l = "model" THEN "model.close" ELSE "check.close"]

\* What was made before r could not be; the labels cleanup_1 to cleanup_3.
MadeBefore(r) ==
  IF r = "context" THEN {} ELSE IF r = "session" THEN {"context"} ELSE {"context", "session"}

CleanedUp(r) ==
  IF r = "context" THEN {} ELSE IF r = "session" THEN {"context"} ELSE {"session", "context"}

Open(p) ==
  \E l \in Opening :
    /\ toolPc[p] = l
    /\ \/ /\ NoToolFault
          /\ toolLive' = [toolLive EXCEPT ![p] = SessionPart]
          /\ Goto(p, Using[l]) /\ UNCHANGED toolRet
       \/ /\ ToolFault
          /\ \E r \in SessionPart :
               toolLive' = [toolLive EXCEPT ![p] = MadeBefore(r) \ CleanedUp(r)]
          /\ Goto(p, Closing[l]) /\ ToolReturns(p, -1)
    /\ UNCHANGED <<seen, productDevice, keyStatus, keyModel, taKey, taModel, overlap>>

\* cleanup_4 and the labels below it, on every way out of a whole session.
Close(p) ==
  /\ toolLive' = [toolLive EXCEPT ![p] = {}]

\* TEEC_InvokeCommand of an import.  The TA stores and answers, or refuses;
\* it may also store and the answer be lost.
InvokeImport(p) ==
  \E l \in {"key", "model"} :
    /\ toolPc[p] = Using[l]
    /\ \E stored \in BOOLEAN, r \in {0, -1} :
         /\ IF stored /\ r = 0 THEN NoToolFault ELSE ToolFault
         /\ r = 0 => stored
         /\ taKey' = (taKey \/ (stored /\ l = "key"))
         /\ taModel' = IF stored /\ l = "model" THEN CutLen ELSE taModel
         /\ ToolReturns(p, r)
    /\ Close(p)
    /\ Goto(p, Closing[l])
    /\ Touches(p)
    /\ UNCHANGED <<seen, productDevice, keyStatus, keyModel>>

-----------------------------------------------------------------------------
(***************************************************************************)
(* ut_km_import_google_key_and_model.                                      *)
(***************************************************************************)
\* A keybox that could not be written is reported; one without a model name
\* is stored and not reported.
KeyImported(p) ==
  /\ toolPc[p] = "key.close"
  /\ NoToolFault
  /\ IF toolRet[p] # 0
       THEN keyStatus' = "fail" /\ Goto(p, "exit") /\ UNCHANGED toolRet
       ELSE /\ UNCHANGED keyStatus
            /\ IF productDevice > 0 THEN Goto(p, "model") /\ UNCHANGED toolRet
               ELSE Goto(p, "exit") /\ ToolReturns(p, -2)
  /\ Touches(p)
  /\ UNCHANGED <<toolLive, seen, productDevice, keyModel, taKey, taModel>>

\* The status first, then the model.
ModelImported(p) ==
  /\ toolPc[p] = "model.close"
  /\ NoToolFault
  /\ IF toolRet[p] # 0
       THEN Goto(p, "exit") /\ UNCHANGED keyStatus
       ELSE Goto(p, "name") /\ keyStatus' = "ok"
  /\ Touches(p)
  /\ UNCHANGED <<toolRet, toolLive, seen, productDevice, keyModel, taKey, taModel>>

ReportImport(p) ==
  /\ toolPc[p] = "name"
  /\ NoToolFault
  /\ keyModel' = ModelName(CutLen)
  /\ Goto(p, "exit")
  /\ Touches(p)
  /\ UNCHANGED <<toolRet, toolLive, seen, productDevice, keyStatus, taKey, taModel>>

-----------------------------------------------------------------------------
(***************************************************************************)
(* ut_km_check_google_key.                                                 *)
(***************************************************************************)
\* Mutant of Prepare: the status is left as it was.
Prepare_keeps(p) ==
  /\ toolPc[p] = "prepare"
  /\ NoToolFault
  /\ Goto(p, "prepare.model")
  /\ Touches(p)
  /\ UNCHANGED <<toolRet, toolLive, seen, productDevice, keyStatus, keyModel, taKey, taModel>>

\* Until the TA has answered, both properties say that it failed.
Prepare(p) ==
  /\ toolPc[p] = "prepare"
  /\ NoToolFault
  /\ keyStatus' = "fail"
  /\ Goto(p, "prepare.model")
  /\ Touches(p)
  /\ UNCHANGED <<toolRet, toolLive, seen, productDevice, keyModel, taKey, taModel>>

PrepareModel(p) ==
  /\ toolPc[p] = "prepare.model"
  /\ NoToolFault
  /\ keyModel' = Fail
  /\ Goto(p, "check")
  /\ Touches(p)
  /\ UNCHANGED <<toolRet, toolLive, seen, productDevice, keyStatus, taKey, taModel>>

\* TEEC_InvokeCommand of a check: a copy of what the TA holds now.
InvokeCheck(p) ==
  /\ toolPc[p] = "check.use"
  /\ \/ NoToolFault /\ seen' = [seen EXCEPT ![p] = [key |-> taKey, len |-> taModel]]
        /\ Goto(p, "report") /\ UNCHANGED <<toolRet, toolLive>>
     \/ ToolFault /\ ToolReturns(p, -1) /\ Close(p) /\ Goto(p, "check.close") /\ UNCHANGED seen
  /\ UNCHANGED <<productDevice, keyStatus, keyModel, taKey, taModel, overlap>>

ReportStatus(p) ==
  /\ toolPc[p] = "report"
  /\ NoToolFault
  /\ IF seen[p].key THEN keyStatus' = "ok" /\ ToolReturns(p, 0)
                    ELSE keyStatus' = "fail" /\ ToolReturns(p, -1)
  /\ Goto(p, "report.model")
  /\ Touches(p)
  /\ UNCHANGED <<toolLive, seen, productDevice, keyModel, taKey, taModel>>

\* A comparison is 1 or 0, and that is what the second one looks at.
Truth(b) == IF b THEN 1 ELSE 0

\* TEE_PROP_VALUE_MAX-1 > google_key_model_info_len > 0
ValidLen(len) == Truth(TEE_PROP_VALUE_MAX - 1 > len) > 0

ReportModel(p) ==
  /\ toolPc[p] = "report.model"
  /\ NoToolFault
  /\ keyModel' = IF ~seen[p].key THEN Fail
              ELSE IF ValidLen(seen[p].len) THEN ModelName(seen[p].len) ELSE Unknown
  /\ Close(p)
  /\ Goto(p, "check.close")
  /\ Touches(p)
  /\ UNCHANGED <<toolRet, seen, productDevice, keyStatus, taKey, taModel>>

Checked(p) ==
  /\ toolPc[p] = "check.close"
  /\ NoToolFault
  /\ Goto(p, "exit")
  /\ UNCHANGED <<toolRet, toolLive, seen, productDevice, keyStatus, keyModel, taKey, taModel, overlap>>

-----------------------------------------------------------------------------
\* External: the tool is started again.
Again(p) ==
  /\ toolPc[p] = "exit"
  /\ NoToolFault
  /\ Goto(p, "idle") /\ ToolReturns(p, 0)
  /\ UNCHANGED <<toolLive, seen, productDevice, keyStatus, keyModel, taKey, taModel, overlap>>

\* External: a process is killed; the kernel closes its session.
Killed(p) ==
  /\ toolPc[p] \notin {"idle", "exit"}
  /\ ToolFault
  /\ Goto(p, "exit") /\ ToolReturns(p, -1) /\ Close(p)
  /\ UNCHANGED <<seen, productDevice, keyStatus, keyModel, taKey, taModel, overlap>>

Step(p) ==
  \/ Open(p) \/ InvokeImport(p) \/ KeyImported(p) \/ ModelImported(p) \/ ReportImport(p)
  \/ Prepare(p) \/ PrepareModel(p) \/ InvokeCheck(p) \/ ReportStatus(p)
  \/ ReportModel(p) \/ Checked(p)

KeyboxNext == \E p \in Proc : StartTool(p) \/ Step(p) \/ Again(p) \/ Killed(p)

KeyboxSpec == KeyboxInit /\ [][KeyboxNext]_keyboxVars

-----------------------------------------------------------------------------

\* What an import or a check reports is what the TA holds, in whatever order
\* imports and checks run, fail and are killed: the status is "ok" only when
\* there is a keybox; an import that succeeds has put the keybox and the model
\* name of this device into the TA; and a check that no other process ran into
\* leaves a status that agrees with what it returns and with the TA, also when
\* it could not ask the TA and an earlier run had left "ok".
ReportsAreTrue ==
  /\ keyStatus = "ok" => taKey
  /\ \A p \in Importer : toolPc[p] = "exit" /\ toolRet[p] = 0 =>
       taKey /\ taModel = CutLen
  /\ \A p \in Checker :
       toolPc[p] = "check.close" /\ ~overlap[p] =>
         (keyStatus = "ok" <=> toolRet[p] = 0) /\ (toolRet[p] = 0 => taKey)

=============================================================================
