-------------------------- MODULE Keymaster4Proofs --------------------------
(***************************************************************************)
(* The keymaster of the 400 stack: its safety invariants (Keymaster4), for *)
(* every set of handles and descriptors and any number of faults; the      *)
(* conversions of its parameters and tokens (KmParams), for every size of  *)
(* a word and every length; and the tool that gives its TA the attestation *)
(* keybox (KmSetKey), for any number of imports and checks at a time.      *)
(***************************************************************************)
EXTENDS Keymaster4, KmParams, KmSetKey, TLAPS

-----------------------------------------------------------------------------
(***************************************************************************)
(* KmSetKey.                                                               *)
(***************************************************************************)
\* Where the processes are.
ImporterAt == {"idle", "key", "key.use", "key.close", "model", "model.use", "model.close", "name",
               "exit"}
CheckerAt  == {"idle", "prepare", "prepare.model", "check", "check.use", "report", "report.model",
               "check.close", "exit"}

ToolType ==
  /\ toolPc \in [Proc -> ImporterAt \cup CheckerAt] /\ toolRet \in [Proc -> Int]
  /\ seen \in [Proc -> [key : BOOLEAN, len : Nat]] /\ overlap \in [Checker -> BOOLEAN]
  /\ taKey \in BOOLEAN /\ taModel \in Nat /\ productDevice \in Nat

\* What an import has behind it is in the TA.
ImporterInv(q) ==
  /\ toolPc[q] \in ImporterAt
  /\ toolPc[q] \in {"model", "model.use", "model.close", "name"} => taKey
  /\ toolPc[q] \in {"model", "model.use", "name"} => toolRet[q] = 0
  /\ toolPc[q] \in {"key.close", "exit"} /\ toolRet[q] = 0 => taKey
  /\ toolPc[q] \in {"model.close", "name", "exit"} /\ toolRet[q] = 0 => taModel = CutLen

\* What a check has read is still so, and the status is what it wrote last
\* unless another process has come in between.
CheckerInv(q) ==
  /\ toolPc[q] \in CheckerAt
  /\ toolPc[q] \in {"report", "report.model"} /\ seen[q].key => taKey
  /\ toolPc[q] = "report.model" /\ toolRet[q] = 0 => seen[q].key
  /\ toolPc[q] = "check.close" /\ toolRet[q] = 0 => taKey
  /\ ~overlap[q] =>
       /\ toolPc[q] \in {"prepare.model", "check", "check.use", "report"} => keyStatus = "fail"
       /\ toolPc[q] \in {"report.model", "check.close"} => (keyStatus = "ok" <=> toolRet[q] = 0)

\* The inductive invariant of the keybox tool.
KeyboxInv ==
  /\ ToolType
  /\ keyStatus = "ok" => taKey
  /\ \A q \in Importer : ImporterInv(q)
  /\ \A q \in Checker : CheckerInv(q)

\* What a step of p leaves to the other processes.
LeavesOthers(p) ==
  /\ productDevice' = productDevice /\ (taKey => taKey') /\ taModel' \in {taModel, CutLen}
  /\ \A q \in Proc \ {p} :
       toolPc'[q] = toolPc[q] /\ toolRet'[q] = toolRet[q] /\ seen'[q] = seen[q]
  /\ \A q \in Checker \ {p} : overlap'[q] \/ (overlap'[q] = overlap[q] /\ keyStatus' = keyStatus)

\* A step of p that keeps the types, the status true and the invariant of p.
KeepsOwn(p) ==
  /\ ToolType'
  /\ keyStatus' = "ok" => taKey'
  /\ p \in Importer => ImporterInv(p)'
  /\ p \in Checker => CheckerInv(p)'

\* The place where a name is cut is fixed with the name.
LEMMA CutIs ==
  ASSUME KmSetKeyAssumption, productDevice \in Nat
  PROVE  CutLen \in Nat /\ (productDevice' = productDevice => CutLen' = CutLen)
  BY DEF KmSetKeyAssumption, CutLen

\* A process keeps its invariant through the steps of the others.
LEMMA Frame ==
  ASSUME KmSetKeyAssumption, KeyboxInv, NEW p \in Proc, LeavesOthers(p), KeepsOwn(p)
  PROVE  KeyboxInv'
<1>1. CutLen' = CutLen
  BY CutIs DEF LeavesOthers, KeyboxInv, ToolType
<1>2. ASSUME NEW q \in Importer PROVE ImporterInv(q)'
  <2>1. CASE q = p
    BY <2>1 DEF KeepsOwn
  <2>2. CASE q # p
    <3>1. /\ toolPc'[q] = toolPc[q] /\ toolRet'[q] = toolRet[q] /\ (taKey => taKey')
          /\ taModel' \in {taModel, CutLen}
      BY <2>2 DEF LeavesOthers, Proc
    <3> QED
      BY <1>1, <3>1 DEF KeyboxInv, ImporterInv
  <2> QED
    BY <2>1, <2>2
<1>3. ASSUME NEW q \in Checker PROVE CheckerInv(q)'
  <2>1. CASE q = p
    BY <2>1, Zenon DEF KeepsOwn
  <2>2. CASE q # p
    <3>1. /\ toolPc'[q] = toolPc[q] /\ toolRet'[q] = toolRet[q] /\ (taKey => taKey')
          /\ seen'[q] = seen[q]
          /\ overlap'[q] \/ (overlap'[q] = overlap[q] /\ keyStatus' = keyStatus)
      BY <2>2 DEF LeavesOthers, Proc
    <3> QED
      BY <3>1 DEF KeyboxInv, CheckerInv
  <2> QED
    BY <2>1, <2>2
<1> QED
  BY <1>2, <1>3 DEF KeyboxInv, KeepsOwn

\* Goto and ToolReturns are about one process.
LEMMA GotoIs ==
  ASSUME ToolType, NEW p \in Proc, NEW at, Goto(p, at)
  PROVE  toolPc'[p] = at /\ \A q \in Proc \ {p} : toolPc'[q] = toolPc[q]
  BY DEF ToolType, Goto

\* What it is to set the return value of one process.
LEMMA ReturnsIs ==
  ASSUME ToolType, NEW p \in Proc, NEW v, ToolReturns(p, v)
  PROVE  /\ toolRet'[p] = v /\ (v \in Int => toolRet' \in [Proc -> Int])
         /\ \A q \in Proc \ {p} : toolRet'[q] = toolRet[q]
  BY DEF ToolType, ToolReturns

\* A process is at one of its labels.
LEMMA GotoType ==
  ASSUME ToolType, NEW p \in Proc, NEW at \in ImporterAt \cup CheckerAt, Goto(p, at)
  PROVE  toolPc' \in [Proc -> ImporterAt \cup CheckerAt]
  BY DEF ToolType, Goto

\* Touches is seen by every check but that of p.
LEMMA TouchesIs ==
  ASSUME ToolType, NEW p \in Proc, Touches(p)
  PROVE  /\ overlap' \in [Checker -> BOOLEAN]
         /\ \A q \in Checker \ {p} : overlap'[q]
         /\ p \in Checker => overlap'[p] = overlap[p]
  BY Zenon DEF ToolType, Touches

\* The labels of a session.
LEMMA SessionLabels ==
  /\ Using["key"] = "key.use" /\ Using["model"] = "model.use" /\ Using["check"] = "check.use"
  /\ Closing["key"] = "key.close" /\ Closing["model"] = "model.close"
  /\ Closing["check"] = "check.close"
  BY DEF Using, Closing, Opening

\* The processes and the TA at the start.
LEMMA KeyboxStarts == ASSUME KmSetKeyAssumption, KeyboxInit PROVE KeyboxInv
<1>1. ToolType
  <2>1. toolPc \in [Proc -> ImporterAt \cup CheckerAt] /\ toolRet \in [Proc -> Int]
    BY DEF KeyboxInit, ImporterAt
  <2>2. seen \in [Proc -> [key : BOOLEAN, len : Nat]] /\ overlap \in [Checker -> BOOLEAN]
    BY DEF KeyboxInit, NotSeen
  <2>3. taKey \in BOOLEAN
    BY Zenon DEF KeyboxInit
  <2>4. taModel \in Nat /\ productDevice \in Nat
    BY DEF KeyboxInit, KmSetKeyAssumption
  <2> QED
    BY <2>1, <2>2, <2>3, <2>4 DEF ToolType
<1>2. \A q \in Proc : toolPc[q] = "idle"
  BY DEF KeyboxInit
<1>3. \A q \in Importer : ImporterInv(q)
  BY <1>2 DEF ImporterInv, ImporterAt, Proc
<1>4. \A q \in Checker : CheckerInv(q)
  BY <1>2 DEF CheckerInv, CheckerAt, Proc
<1> QED
  BY <1>1, <1>3, <1>4 DEF KeyboxInv, KeyboxInit

\* What the steps of a process have in common.
LEMMA MovesOn ==
  ASSUME KmSetKeyAssumption, KeyboxInv, NEW p \in Proc,
         NEW at \in ImporterAt \cup CheckerAt, Goto(p, at),
         UNCHANGED toolRet \/ \E v \in Int : ToolReturns(p, v),
         \/ UNCHANGED <<overlap, keyStatus>>
         \/ Touches(p)
         \/ p \in Checker /\ overlap' = [overlap EXCEPT ![p] = FALSE] /\ UNCHANGED keyStatus,
         UNCHANGED productDevice, taKey' \in BOOLEAN, taKey => taKey',
         taModel' \in {taModel, CutLen},
         UNCHANGED seen \/ seen' = [seen EXCEPT ![p] = [key |-> taKey, len |-> taModel]]
  PROVE  LeavesOthers(p) /\ ToolType' /\ toolPc'[p] = at
<1> ToolType
  BY DEF KeyboxInv
<1>1. /\ toolPc'[p] = at /\ toolPc' \in [Proc -> ImporterAt \cup CheckerAt]
      /\ \A q \in Proc \ {p} : toolPc'[q] = toolPc[q]
  BY GotoIs, GotoType, Zenon
<1>2. /\ toolRet' \in [Proc -> Int]
      /\ \A q \in Proc \ {p} : toolRet'[q] = toolRet[q]
  BY ReturnsIs, Zenon DEF ToolType
<1>3. /\ seen' \in [Proc -> [key : BOOLEAN, len : Nat]]
      /\ \A q \in Proc \ {p} : seen'[q] = seen[q]
  BY DEF ToolType
<1>4. /\ overlap' \in [Checker -> BOOLEAN]
      /\ \A q \in Checker \ {p} :
           overlap'[q] \/ (overlap'[q] = overlap[q] /\ keyStatus' = keyStatus)
  <2>1. CASE UNCHANGED <<overlap, keyStatus>>
    BY <2>1 DEF ToolType
  <2>2. CASE Touches(p)
    BY <2>2, TouchesIs, Zenon DEF ToolType
  <2>3. CASE p \in Checker /\ overlap' = [overlap EXCEPT ![p] = FALSE] /\ UNCHANGED keyStatus
    BY <2>3 DEF ToolType
  <2> QED
    BY <2>1, <2>2, <2>3, Zenon
<1>5. taModel' \in Nat
  BY CutIs DEF ToolType
<1> QED
  BY <1>1, <1>2, <1>3, <1>4, <1>5 DEF LeavesOthers, ToolType

\* Every process is one or the other.
LEMMA OneOrOther ==
  ASSUME KmSetKeyAssumption, KeyboxInv, NEW p \in Proc
  PROVE  /\ toolPc[p] \in ImporterAt \ CheckerAt => p \in Importer /\ p \notin Checker
         /\ toolPc[p] \in CheckerAt \ ImporterAt => p \in Checker /\ p \notin Importer
         /\ p \in Importer => ImporterInv(p) /\ p \notin Checker
         /\ p \in Checker => CheckerInv(p) /\ p \notin Importer
  BY DEF KeyboxInv, ImporterInv, CheckerInv, Proc, KmSetKeyAssumption

\* StartTool, with the two functions it calls.
LEMMA StartKeeps ==
  ASSUME KmSetKeyAssumption, KeyboxInv, NEW p \in Proc, StartTool(p) PROVE KeyboxInv'
<1>1. /\ UNCHANGED <<seen, productDevice, keyStatus, taKey, taModel>>
      /\ overlap' = IF p \in Checker THEN [overlap EXCEPT ![p] = FALSE] ELSE overlap
  BY DEF StartTool
<1>2. PICK at \in {"key", "prepare", "exit"}, v \in Int :
        /\ Goto(p, at) /\ ToolReturns(p, v)
        /\ at = "exit" => v # 0
        /\ at = "key" => p \in Importer
        /\ at = "prepare" => p \in Checker
  <2>1. \/ p \in Importer /\ Goto(p, "key") /\ ToolReturns(p, 0)
        \/ p \in Checker /\ Goto(p, "prepare") /\ ToolReturns(p, 0)
        \/ Goto(p, "exit") /\ ToolReturns(p, -1)
        \/ Goto(p, "exit") /\ ToolReturns(p, -3)
    BY DEF StartTool, OpenFails, ut_ree_check_attest_keybox, ut_ree_import_attest_keybox
  <2> QED
    BY <2>1
<1>3. ToolType /\ at \in ImporterAt \cup CheckerAt
  BY DEF KeyboxInv, ImporterAt, CheckerAt
<1>4. LeavesOthers(p) /\ ToolType' /\ toolPc'[p] = at
  BY <1>1, <1>2, <1>3, MovesOn, Zenon DEF ToolType
<1>5. toolRet'[p] = v
  BY <1>2, <1>3, ReturnsIs, Zenon
<1>6. p \in Importer => ImporterInv(p)'
  BY <1>2, <1>4, <1>5, OneOrOther, Zenon DEF ImporterInv, ImporterAt
<1>7. p \in Checker => CheckerInv(p)'
  BY <1>2, <1>4, <1>5, OneOrOther, Zenon DEF CheckerInv, CheckerAt
<1>8. KeepsOwn(p)
  BY <1>1, <1>4, <1>6, <1>7, Zenon DEF KeepsOwn, KeyboxInv
<1> QED
  BY <1>4, <1>8, Frame

\* Open: a session is there as a whole, or the function returns without one.
LEMMA OpenKeeps ==
  ASSUME KmSetKeyAssumption, KeyboxInv, NEW p \in Proc, Open(p) PROVE KeyboxInv'
<1>1. UNCHANGED <<seen, productDevice, keyStatus, taKey, taModel, overlap>>
  BY Zenon DEF Open
<1>2. PICK l \in Opening :
        /\ toolPc[p] = l
        /\ \/ Goto(p, Using[l]) /\ UNCHANGED toolRet
           \/ Goto(p, Closing[l]) /\ ToolReturns(p, -1)
  BY Zenon DEF Open
<1>3. PICK at \in ImporterAt \cup CheckerAt :
        /\ Goto(p, at)
        /\ \/ UNCHANGED toolRet /\ at = Using[l]
           \/ ToolReturns(p, -1) /\ at = Closing[l]
  BY <1>2, SessionLabels, Zenon DEF Opening, ImporterAt, CheckerAt
<1>4. LeavesOthers(p) /\ ToolType' /\ toolPc'[p] = at
  BY <1>1, <1>3, MovesOn DEF KeyboxInv, ToolType
<1>5. \/ toolRet'[p] = toolRet[p] /\ at = Using[l]
      \/ toolRet'[p] = -1 /\ at = Closing[l]
  BY <1>3, ReturnsIs, Zenon DEF KeyboxInv
<1>6. p \in Importer => ImporterInv(p)'
  <2> SUFFICES ASSUME p \in Importer PROVE ImporterInv(p)'
    OBVIOUS
  <2>1. ImporterInv(p) /\ l \in {"key", "model"}
    BY <1>2, OneOrOther, Zenon DEF Opening, ImporterInv, ImporterAt
  <2>2. CutLen' = CutLen
    BY <1>1, CutIs, Zenon DEF KeyboxInv, ToolType
  <2> QED
    BY <1>1, <1>2, <1>4, <1>5, <2>1, <2>2, SessionLabels DEF ImporterInv, ImporterAt
<1>7. p \in Checker => CheckerInv(p)'
  <2> SUFFICES ASSUME p \in Checker PROVE CheckerInv(p)'
    OBVIOUS
  <2>1. CheckerInv(p) /\ l = "check"
    BY <1>2, OneOrOther, Zenon DEF Opening, CheckerInv, CheckerAt
  <2> QED
    BY <1>1, <1>2, <1>4, <1>5, <2>1, SessionLabels DEF CheckerInv, CheckerAt
<1>8. KeepsOwn(p)
  BY <1>1, <1>4, <1>6, <1>7, Zenon DEF KeepsOwn, KeyboxInv
<1> QED
  BY <1>4, <1>8, Frame, Zenon

\* InvokeImport: the TA has stored what the import returns 0 for.
LEMMA InvokeImportKeeps ==
  ASSUME KmSetKeyAssumption, KeyboxInv, NEW p \in Proc, InvokeImport(p) PROVE KeyboxInv'
<1>1. UNCHANGED <<seen, productDevice, keyStatus>> /\ Touches(p)
  BY Zenon DEF InvokeImport
<1>2. PICK l \in {"key", "model"}, stored \in BOOLEAN, v \in {0, -1} :
        /\ toolPc[p] = Using[l] /\ Goto(p, Closing[l]) /\ ToolReturns(p, v)
        /\ v = 0 => stored
        /\ taKey' = (taKey \/ (stored /\ l = "key"))
        /\ taModel' = IF stored /\ l = "model" THEN CutLen ELSE taModel
  BY Zenon DEF InvokeImport
<1>3. Closing[l] \in ImporterAt \cup CheckerAt /\ v \in Int
  BY SessionLabels DEF ImporterAt
<1>4. taKey' \in BOOLEAN /\ (taKey => taKey') /\ taModel' \in {taModel, CutLen}
  BY <1>2, Zenon
<1>5. LeavesOthers(p) /\ ToolType' /\ toolPc'[p] = Closing[l]
  BY <1>1, <1>2, <1>3, <1>4, MovesOn, Zenon
<1>6. toolRet'[p] = v
  BY <1>2, <1>3, ReturnsIs, Zenon DEF KeyboxInv
<1>7. p \in Importer /\ p \notin Checker /\ ImporterInv(p)
  BY <1>2, SessionLabels, OneOrOther, Zenon DEF ImporterAt, CheckerAt
<1>8. v = 0 => (l = "key" => taKey') /\ (l = "model" => taModel' = CutLen)
  BY <1>2, Zenon
<1>9. CutLen' = CutLen
  BY <1>1, CutIs, Zenon DEF KeyboxInv, ToolType
<1>10. ImporterInv(p)'
  BY <1>2, <1>4, <1>5, <1>6, <1>7, <1>8, <1>9, SessionLabels, Zenon DEF ImporterInv, ImporterAt
<1>11. KeepsOwn(p)
  BY <1>1, <1>4, <1>5, <1>7, <1>10, Zenon DEF KeepsOwn, KeyboxInv
<1> QED
  BY <1>5, <1>11, Frame, Zenon
\* The steps of ut_km_import_google_key_and_model after a session.
LEMMA ImportStepKeeps ==
  ASSUME KmSetKeyAssumption, KeyboxInv, NEW p \in Proc,
         KeyImported(p) \/ ModelImported(p) \/ ReportImport(p)
  PROVE  KeyboxInv'
<1>1. UNCHANGED <<seen, productDevice, taKey, taModel>> /\ Touches(p)
  BY Zenon DEF KeyImported, ModelImported, ReportImport
<1>2. toolPc[p] \in {"key.close", "model.close", "name"}
  BY Zenon DEF KeyImported, ModelImported, ReportImport
<1>3. p \in Importer /\ p \notin Checker /\ ImporterInv(p)
  BY <1>2, OneOrOther, Zenon DEF ImporterAt, CheckerAt
<1>4. PICK at \in {"model", "name", "exit"} :
        /\ Goto(p, at)
        /\ UNCHANGED toolRet \/ (ToolReturns(p, -2) /\ at = "exit")
        /\ at \in {"model", "name"} => toolRet[p] = 0 /\ UNCHANGED toolRet
        /\ at = "model" => toolPc[p] = "key.close"
        /\ at = "name" => toolPc[p] = "model.close"
        /\ at = "exit" /\ toolPc[p] = "key.close" => toolRet[p] # 0 \/ ToolReturns(p, -2)
  BY Zenon DEF KeyImported, ModelImported, ReportImport
<1>5. keyStatus' \in {keyStatus, "fail"} \/ toolPc[p] = "model.close"
  BY Zenon DEF KeyImported, ModelImported, ReportImport
<1>6. LeavesOthers(p) /\ ToolType' /\ toolPc'[p] = at
  BY <1>1, <1>4, MovesOn DEF KeyboxInv, ToolType, ImporterAt
<1>7. /\ toolRet'[p] = toolRet[p] \/ (toolRet'[p] = -2 /\ at = "exit")
      /\ at = "exit" /\ toolPc[p] = "key.close" => toolRet'[p] # 0
  BY <1>4, ReturnsIs DEF KeyboxInv
<1>8. CutLen' = CutLen
  BY <1>1, CutIs, Zenon DEF KeyboxInv, ToolType
<1>9. ImporterInv(p)'
  BY <1>1, <1>2, <1>3, <1>4, <1>6, <1>7, <1>8 DEF ImporterInv, ImporterAt
<1>10. keyStatus' = "ok" => taKey'
  BY <1>1, <1>3, <1>5, Zenon DEF ImporterInv, KeyboxInv
<1>11. KeepsOwn(p)
  BY <1>3, <1>6, <1>9, <1>10, Zenon DEF KeepsOwn
<1> QED
  BY <1>6, <1>11, Frame, Zenon

\* The steps of ut_km_check_google_key before it asks the TA.
LEMMA PrepareStepKeeps ==
  ASSUME KmSetKeyAssumption, KeyboxInv, NEW p \in Proc, Prepare(p) \/ PrepareModel(p)
  PROVE  KeyboxInv'
<1>1. UNCHANGED <<toolRet, seen, productDevice, taKey, taModel>> /\ Touches(p)
  BY Zenon DEF Prepare, PrepareModel
<1>2. PICK at \in {"prepare.model", "check"} :
        /\ Goto(p, at)
        /\ \/ toolPc[p] = "prepare" /\ at = "prepare.model" /\ keyStatus' = "fail"
           \/ toolPc[p] = "prepare.model" /\ at = "check" /\ UNCHANGED keyStatus
  BY Zenon DEF Prepare, PrepareModel
<1>3. p \in Checker /\ p \notin Importer /\ CheckerInv(p)
  BY <1>2, OneOrOther, Zenon DEF ImporterAt, CheckerAt
<1>4. LeavesOthers(p) /\ ToolType' /\ toolPc'[p] = at
  BY <1>1, <1>2, MovesOn, Zenon DEF KeyboxInv, ToolType, CheckerAt
<1>5. overlap'[p] = overlap[p]
  BY <1>1, <1>3, TouchesIs, Zenon DEF KeyboxInv
<1>6. CheckerInv(p)'
  BY <1>2, <1>3, <1>4, <1>5, Zenon DEF CheckerInv, CheckerAt
<1>7. KeepsOwn(p)
  BY <1>1, <1>2, <1>3, <1>4, <1>6, Zenon DEF KeepsOwn, KeyboxInv
<1> QED
  BY <1>4, <1>7, Frame, Zenon

\* InvokeCheck: what is read is what the TA holds.
LEMMA InvokeCheckKeeps ==
  ASSUME KmSetKeyAssumption, KeyboxInv, NEW p \in Proc, InvokeCheck(p) PROVE KeyboxInv'
<1>1. UNCHANGED <<productDevice, keyStatus, taKey, taModel, overlap>> /\ toolPc[p] = "check.use"
  BY Zenon DEF InvokeCheck
<1>2. PICK at \in {"report", "check.close"} :
        /\ Goto(p, at)
        /\ \/ /\ at = "report" /\ UNCHANGED toolRet
              /\ seen' = [seen EXCEPT ![p] = [key |-> taKey, len |-> taModel]]
           \/ at = "check.close" /\ ToolReturns(p, -1) /\ UNCHANGED seen
  BY Zenon DEF InvokeCheck
<1>3. p \in Checker /\ p \notin Importer /\ CheckerInv(p)
  BY <1>1, OneOrOther, Zenon DEF ImporterAt, CheckerAt
<1>4. LeavesOthers(p) /\ ToolType' /\ toolPc'[p] = at
  BY <1>1, <1>2, MovesOn DEF KeyboxInv, ToolType, CheckerAt
<1>5. \/ at = "report" /\ seen'[p].key = taKey
      \/ at = "check.close" /\ toolRet'[p] = -1
  BY <1>2, ReturnsIs DEF KeyboxInv, ToolType
<1>6. CheckerInv(p)'
  BY <1>1, <1>3, <1>4, <1>5 DEF CheckerInv, CheckerAt
<1>7. KeepsOwn(p)
  BY <1>1, <1>3, <1>4, <1>6, Zenon DEF KeepsOwn, KeyboxInv
<1> QED
  BY <1>4, <1>7, Frame, Zenon

\* ReportStatus: the status and what the check returns say the same.
LEMMA ReportStatusKeeps ==
  ASSUME KmSetKeyAssumption, KeyboxInv, NEW p \in Proc, ReportStatus(p) PROVE KeyboxInv'
<1>1. /\ UNCHANGED <<seen, productDevice, taKey, taModel>> /\ Touches(p)
      /\ toolPc[p] = "report" /\ Goto(p, "report.model")
  BY Zenon DEF ReportStatus
<1>2. PICK v \in {0, -1} :
        /\ ToolReturns(p, v)
        /\ \/ v = 0 /\ seen[p].key /\ keyStatus' = "ok"
           \/ v = -1 /\ keyStatus' = "fail"
  BY Zenon DEF ReportStatus
<1>3. p \in Checker /\ p \notin Importer /\ CheckerInv(p)
  BY <1>1, OneOrOther, Zenon DEF ImporterAt, CheckerAt
<1>4. LeavesOthers(p) /\ ToolType' /\ toolPc'[p] = "report.model"
  BY <1>1, <1>2, MovesOn DEF KeyboxInv, ToolType, CheckerAt
<1>5. toolRet'[p] = v
  BY <1>2, ReturnsIs, Zenon DEF KeyboxInv
<1>6. CheckerInv(p)'
  BY <1>1, <1>2, <1>3, <1>4, <1>5 DEF CheckerInv, CheckerAt
<1>7. KeepsOwn(p)
  BY <1>1, <1>2, <1>3, <1>4, <1>6, Zenon DEF KeepsOwn, CheckerInv
<1> QED
  BY <1>4, <1>7, Frame, Zenon

\* The steps of a check after that.
LEMMA CheckEndKeeps ==
  ASSUME KmSetKeyAssumption, KeyboxInv, NEW p \in Proc, ReportModel(p) \/ Checked(p)
  PROVE  KeyboxInv'
<1>1. /\ UNCHANGED <<toolRet, seen, productDevice, keyStatus, taKey, taModel>>
      /\ Touches(p) \/ UNCHANGED overlap
  BY Zenon DEF ReportModel, Checked
<1>2. PICK at \in {"check.close", "exit"} :
        /\ Goto(p, at)
        /\ \/ toolPc[p] = "report.model" /\ at = "check.close"
           \/ toolPc[p] = "check.close" /\ at = "exit"
  BY Zenon DEF ReportModel, Checked
<1>3. p \in Checker /\ p \notin Importer /\ CheckerInv(p)
  BY <1>2, OneOrOther, Zenon DEF ImporterAt, CheckerAt
<1>4. LeavesOthers(p) /\ ToolType' /\ toolPc'[p] = at
  BY <1>1, <1>2, MovesOn, Zenon DEF KeyboxInv, ToolType, CheckerAt
<1>5. overlap'[p] = overlap[p]
  BY <1>1, <1>3, TouchesIs, Zenon DEF KeyboxInv
<1>6. CheckerInv(p)'
  BY <1>1, <1>2, <1>3, <1>4, <1>5, Zenon DEF CheckerInv, CheckerAt
<1>7. KeepsOwn(p)
  BY <1>1, <1>3, <1>4, <1>6, Zenon DEF KeepsOwn, KeyboxInv
<1> QED
  BY <1>4, <1>7, Frame, Zenon

\* Again and Killed: a process is over, or may be started.
LEMMA OverKeeps ==
  ASSUME KmSetKeyAssumption, KeyboxInv, NEW p \in Proc, Again(p) \/ Killed(p) PROVE KeyboxInv'
<1>1. UNCHANGED <<seen, productDevice, keyStatus, taKey, taModel, overlap>>
  BY Zenon DEF Again, Killed
<1>2. PICK at \in {"idle", "exit"}, v \in {0, -1} :
        Goto(p, at) /\ ToolReturns(p, v) /\ (at = "exit" => v # 0)
  BY DEF Again, Killed
<1>3. LeavesOthers(p) /\ ToolType' /\ toolPc'[p] = at
  BY <1>1, <1>2, MovesOn DEF KeyboxInv, ToolType, CheckerAt
<1>4. toolRet'[p] = v
  BY <1>2, ReturnsIs, Zenon DEF KeyboxInv
<1>5. KeepsOwn(p)
  BY <1>1, <1>2, <1>3, <1>4, Zenon
     DEF KeepsOwn, KeyboxInv, ImporterInv, CheckerInv, ImporterAt, CheckerAt
<1> QED
  BY <1>3, <1>5, Frame, Zenon

\* Every step keeps the invariant of the keybox tool.
LEMMA KeyboxNextKeeps ==
  ASSUME KmSetKeyAssumption, KeyboxInv, [KeyboxNext]_keyboxVars PROVE KeyboxInv'
<1>1. CASE UNCHANGED keyboxVars
  <2>1. CutLen' = CutLen
    BY <1>1, CutIs, Zenon DEF keyboxVars, KeyboxInv, ToolType
  <2> QED
    BY <1>1, <2>1, Zenon DEF keyboxVars, KeyboxInv, ToolType, ImporterInv, CheckerInv
<1>2. CASE KeyboxNext
  BY Zenon, <1>2, StartKeeps, OpenKeeps, InvokeImportKeeps, ImportStepKeeps, PrepareStepKeeps,
     InvokeCheckKeeps, ReportStatusKeeps, CheckEndKeeps, OverKeeps DEF KeyboxNext, Step
<1> QED
  BY <1>1, <1>2, Zenon

\* What an import or a check reports is what the TA holds, for any number of
\* processes of either kind and wherever they fail or are killed.
THEOREM ReportsSafe == KmSetKeyAssumption => (KeyboxSpec => []ReportsAreTrue)
<1> SUFFICES ASSUME KmSetKeyAssumption PROVE KeyboxSpec => []ReportsAreTrue
  OBVIOUS
<1>1. KeyboxInit => KeyboxInv
  BY KeyboxStarts
<1>2. KeyboxInv /\ [KeyboxNext]_keyboxVars => KeyboxInv'
  BY KeyboxNextKeeps, Zenon
<1>3. KeyboxInv => ReportsAreTrue
  BY Zenon DEF KeyboxInv, ReportsAreTrue, ImporterInv, CheckerInv
<1> QED
  BY <1>1, <1>2, <1>3, PTL DEF KeyboxSpec

-----------------------------------------------------------------------------
(***************************************************************************)
(* KmParams.                                                               *)
(***************************************************************************)
\* The inductive invariant: the two conversions, and how far the bytes of the
\* field are turned round.
Turned(n, a, b) == [i \in 1 .. n |-> IF i < a \/ i > b THEN n + 1 - i ELSE i]
Swapped(s, a, b) == [s EXCEPT ![a] = s[b], ![b] = s[a]]
ParamsInv ==
  /\ keyParams \in Seq(Param)
  /\ paramsPc \in {"swap", "sent", "done"} =>
       params = [i \in DOMAIN keyParams |-> ToKm(keyParams[i])]
  /\ paramsPc = "done" => given = [i \in DOMAIN params |-> ToHidl(params[i])]
  /\ \E n \in Nat : /\ field = Turned(n, first, last)
                    /\ first \in Nat /\ last \in Int /\ first >= 1 /\ first + last = n + 1
  /\ paramsPc \in {"sent", "done"} => first >= last
  /\ paramsPc \in {"request", "swap", "sent", "done"}

\* A parameter comes back with the meaning it was given with, or with none if
\* it had none.
LEMMA MeaningKept ==
  ASSUME KmParamsAssumption, NEW p \in Param
  PROVE  /\ IsValid(ToHidl(ToKm(p))) <=> IsValid(p)
         /\ IsValid(p) => Meaning(ToHidl(ToKm(p))) = Meaning(p)
  <1> USE DEF IsValid, Meaning, Value, ToKm, ToHidl, longInteger, LongType, WordType
  <1>1. p.f \in Nat /\ p.tag \in Type /\ p.blob \in Blob \cup {NoBlob}
    BY DEF KmParamsAssumption, Param, DoubleWord
  <1>2. CASE p.tag \in WordType
    <2>1. integer(p.f) \in Nat /\ integer(integer(p.f)) = integer(p.f)
      BY <1>1 DEF integer, KmParamsAssumption
    <2>2. ToHidl(ToKm(p)) = [tag |-> p.tag, f |-> integer(p.f), blob |-> NoBlob]
      BY <1>2
    <2>3. p.blob = NoBlob
      BY <1>2 DEF Param
    <2> QED BY <1>2, <2>1, <2>2, <2>3
  <1>3. CASE p.tag \in LongType
    <2>1. p.blob = NoBlob
      BY <1>3 DEF Param
    <2> QED BY <1>3, <2>1
  <1>4. CASE p.tag = "KM_BOOL"
    <2>1. p.blob = NoBlob
      BY <1>4 DEF Param
    <2>2. boolValue(1)
      BY DEF boolValue
    <2> QED BY <1>4, <2>1, <2>2
  <1>5. CASE p.tag = "KM_BYTES"
    <2>1. p.f = 0
      BY <1>5 DEF Param
    <2> QED BY <1>5, <2>1
  <1>6. CASE p.tag = "KM_INVALID"
    BY <1>6
  <1> QED BY <1>1, <1>2, <1>3, <1>4, <1>5, <1>6 DEF Type

\* Two lists that agree on what is valid and on what it means say the same.
LEMMA SayTheSame ==
  ASSUME NEW ps, NEW qs, Len(ps) \in Nat, Len(qs) = Len(ps),
         \A n \in 1 .. Len(ps) : /\ IsValid(qs[n]) <=> IsValid(ps[n])
                                 /\ IsValid(ps[n]) => Meaning(qs[n]) = Meaning(ps[n])
  PROVE  Says(qs) = Says(ps)
  <1> DEFINE N == Len(ps)
             P(f) == [n \in 0 .. N |->
                        IF n = 0 THEN <<>>
                        ELSE IF IsValid(ps[n]) THEN Append(f[n - 1], Meaning(ps[n])) ELSE f[n - 1]]
             Q(f) == [n \in 0 .. N |->
                        IF n = 0 THEN <<>>
                        ELSE IF IsValid(qs[n]) THEN Append(f[n - 1], Meaning(qs[n])) ELSE f[n - 1]]
  <1>1. \A f : P(f) = Q(f)
    OBVIOUS
  <1>2. (CHOOSE f : f = P(f)) = (CHOOSE f : f = Q(f))
    BY <1>1, Zenon
  <1>3. Says(ps) = (CHOOSE f : f = P(f))[N]
    BY Zenon DEF Says
  <1>4. Says(qs) = (CHOOSE f : f = Q(f))[N]
    BY Zenon DEF Says
  <1> QED BY <1>2, <1>3, <1>4, Zenon

\* The swap of two bytes turns one more pair round.
LEMMA SwapTurns ==
  ASSUME NEW n \in Nat, NEW a \in Nat, NEW b \in Int, a >= 1, a < b, a + b = n + 1
  PROVE  Swapped(Turned(n, a, b), a, b) = Turned(n, a + 1, b - 1)
  <1> DEFINE s == Turned(n, a, b)
             t == Swapped(s, a, b)
  <1> USE DEF Turned, Swapped
  <1>1. a \in 1 .. n /\ b \in 1 .. n /\ a # b
    OBVIOUS
  <1>2. s[a] = a /\ s[b] = b
    BY <1>1
  <1>3. t = [i \in 1 .. n |-> IF i = b THEN a ELSE IF i = a THEN b ELSE s[i]]
    BY <1>1, <1>2
  <1>4. \A i \in 1 .. n : (IF i = b THEN a ELSE IF i = a THEN b ELSE s[i])
                          = IF i < a + 1 \/ i > b - 1 THEN n + 1 - i ELSE i
    BY <1>1
  <1> HIDE DEF t
  <1>5. t = [i \in 1 .. n |-> IF i < a + 1 \/ i > b - 1 THEN n + 1 - i ELSE i]
    BY <1>3, <1>4, Zenon
  <1> QED BY <1>5 DEF t

\* A conversion starts in the invariant.
LEMMA ParamsStart == ASSUME KmParamsAssumption, ParamsInit PROVE ParamsInv
  <1>1. keyParams \in Seq(Param)
    BY DEF ParamsInit, BoundedSeq, SeqOf, KmParamsAssumption
  <1>2. PICK n \in 1 .. MaxBytes : field = HostOrder(n)
    BY DEF ParamsInit
  <1>3. n \in Nat /\ n >= 1 /\ Len(field) = n
    BY <1>2 DEF HostOrder, KmParamsAssumption
  <1>4. first = 1 /\ last = n
    BY <1>3 DEF ParamsInit
  <1>5. field = Turned(n, first, last)
    BY <1>2, <1>3, <1>4 DEF HostOrder, Turned
  <1> QED BY <1>1, <1>3, <1>4, <1>5 DEF ParamsInv, ParamsInit

\* KmParamSet: the list that is made says what the request says.
LEMMA KmParamSetKeeps == ASSUME ParamsInv, KmParamSet PROVE ParamsInv'
  BY DEF ParamsInv, KmParamSet, Turned

\* SwapBytes: one more byte from either end has changed places.
LEMMA SwapBytesKeeps == ASSUME ParamsInv, SwapBytes PROVE ParamsInv'
  <1>1. CASE first < last
    <2>1. PICK n \in Nat : /\ field = Turned(n, first, last)
                           /\ first \in Nat /\ last \in Int /\ first >= 1 /\ first + last = n + 1
      BY DEF ParamsInv
    <2>3. /\ field' = [field EXCEPT ![first] = field[last], ![last] = field[first]]
          /\ first' = first + 1 /\ last' = last - 1
      BY <1>1 DEF SwapBytes
    <2>4. field' = Turned(n, first', last')
      <3>1. Swapped(Turned(n, first, last), first, last) = Turned(n, first + 1, last - 1)
        BY <1>1, <2>1, SwapTurns
      <3>2. field' = Swapped(field, first, last)
        BY <2>3, Zenon DEF Swapped
      <3> QED BY <2>1, <2>3, <3>1, <3>2, Zenon
    <2>5. first' \in Nat /\ last' \in Int /\ first' >= 1 /\ first' + last' = n + 1
      BY <2>1, <2>3
    <2> QED BY <1>1, <2>1, <2>4, <2>5, Zenon DEF ParamsInv, SwapBytes
  <1>2. CASE ~(first < last)
    <2>1. PICK n \in Nat : /\ field = Turned(n, first, last)
                           /\ first \in Nat /\ last \in Int /\ first >= 1 /\ first + last = n + 1
      BY DEF ParamsInv
    <2>2. first >= last
      BY <1>2, <2>1
    <2>3. UNCHANGED <<field, first, last>>
      BY <1>2 DEF SwapBytes
    <2>4. field' = Turned(n, first', last')
      BY <2>1, <2>3 DEF Turned
    <2> QED BY <1>2, <2>1, <2>2, <2>3, <2>4 DEF ParamsInv, SwapBytes
  <1> QED BY <1>1, <1>2

\* kmParamSet2Hidl: the list that comes back says the same.
LEMMA kmParamSet2HidlKeeps == ASSUME ParamsInv, kmParamSet2Hidl PROVE ParamsInv'
  BY DEF ParamsInv, kmParamSet2Hidl, Turned

\* Every step keeps the invariant.
LEMMA ParamsNextKeeps == ASSUME ParamsInv, [ParamsNext]_paramVars PROVE ParamsInv'
  <1>1. CASE UNCHANGED paramVars
    BY <1>1 DEF ParamsInv, paramVars, Turned
  <1> QED BY <1>1, KmParamSetKeeps, SwapBytesKeeps, kmParamSet2HidlKeeps, Zenon
          DEF ParamsNext, Done

\* What the invariant says once the conversions and the turn are over.
LEMMA ParamsOver == ASSUME KmParamsAssumption, ParamsInv PROVE RequestSurvives
  <1>1. ASSUME paramsPc = "done" PROVE Says(given) = Says(keyParams)
    <2>1. /\ given = [i \in DOMAIN keyParams |-> ToHidl(ToKm(keyParams[i]))]
          /\ Len(keyParams) \in Nat /\ DOMAIN keyParams = 1 .. Len(keyParams)
          /\ \A i \in 1 .. Len(keyParams) : keyParams[i] \in Param
      BY <1>1 DEF ParamsInv
    <2>2. Len(given) = Len(keyParams)
      BY <2>1
    <2> QED BY <2>1, <2>2, SayTheSame, MeaningKept
  <1>2. ASSUME paramsPc \in {"sent", "done"} PROVE field = Reverse(HostOrder(Len(field)))
    <2>1. PICK n \in Nat : /\ field = Turned(n, first, last)
                           /\ first \in Nat /\ last \in Int /\ first >= 1 /\ first + last = n + 1
      BY DEF ParamsInv
    <2>2. first >= last
      BY <1>2 DEF ParamsInv
    <2>4. field = [i \in 1 .. n |-> n + 1 - i]
      BY <2>1, <2>2 DEF Turned
    <2>5. Len(field) = n
      BY <2>4
    <2>6. Reverse(HostOrder(n)) = [i \in 1 .. n |-> n - i + 1]
      BY DEF Reverse, HostOrder
    <2> QED BY <2>4, <2>5, <2>6
  <1> QED BY <1>1, <1>2, Zenon DEF RequestSurvives

\* RequestSurvives, for every number of parameters, every word and every width
\* of a field: what a client says about a key comes back from the TA unchanged,
\* and the fields of a token are turned round.
THEOREM ParamsSafe == KmParamsAssumption => (ParamsSpec => []RequestSurvives)
  <1> SUFFICES ASSUME KmParamsAssumption PROVE ParamsSpec => []RequestSurvives
    OBVIOUS
  <1>1. ParamsInit => ParamsInv
    BY ParamsStart
  <1>2. ParamsInv /\ [ParamsNext]_paramVars => ParamsInv'
    BY ParamsNextKeeps
  <1>3. ParamsInv => RequestSurvives
    BY ParamsOver
  <1> QED BY <1>1, <1>2, <1>3, PTL DEF ParamsSpec

-----------------------------------------------------------------------------
(***************************************************************************)
(* Keymaster4.                                                             *)
(***************************************************************************)
\* A command is under way in ForwardCommand.
Busy == kmPc \in {"send", "disconnect", "reconnect", "returned"}

\* The channel is there as a whole or not at all, whatever handle_ says; the
\* TA has operations only while it is there.
ChannelInv ==
  /\ handle_ \in KmFd \cup {-1}
  /\ live = {} \/ live = Resource
  /\ handle_ <= 0 => live = {}
  /\ live = {} => taOps = {}

\* Which command may be on the channel for which call.
CallInv ==
  /\ Busy => \/ sending = "configure" /\ hidl = NoHidlCall
             \/ sending = hidl.cmd /\ hidl.cmd \in DeviceCall \cup OperationCall
             \/ sending = "abort" /\ hidl.cmd \in {"update", "finish"}
  /\ hidl.big => hidl.cmd \in MayBeBig
  /\ kmPc \in {"disconnect", "reconnect"} => error = "ERROR"
  /\ kmPc = "down" \/ Busy => hidlResult = "none"

\* OK is the answer of the TA to the command of the call.
OutcomeInv ==
  /\ kmPc = "returned" /\ error = "OK" /\ sending = hidl.cmd => outcome = "OK"
  /\ ResultIsTas

\* An operation is without a holder only until the answer to begin reaches
\* the client, or until the session that has it is closed.
Unowned ==
  \/ kmPc = "disconnect" /\ handle_ > 0
  \/ kmPc = "returned" /\ sending = "begin" /\ error = "OK" /\ taOps \subseteq held \cup {op_handle}

\* The operation of the call is over in the TA.
Ended == hidl.h \notin taOps

OwnerInv ==
  /\ taOps \subseteq held \/ Unowned
  /\ kmPc = "reconnect" => taOps = {}
  /\ kmPc = "returned" /\ sending = "finish" /\ ~TooLong => Ended
  /\ kmPc = "returned" /\ sending = "update" /\ ~TooLong /\ error # "OK" => Ended
  /\ kmPc = "returned" /\ sending = "abort" => Ended

\* The inductive invariant.
IInv == ChannelInv /\ CallInv /\ OutcomeInv /\ OwnerInv

USE DEF kmVars, callVars, answerVars, channelVars, taVars, Fault, NoFault, NoHidlCall,
        DeviceCall, OperationCall, NoResult, HmacCall, KeyCall, TokenCall, NoEntropy,
        Unimplemented

\* A channel that is there is not empty.
LEMMA ResourceThere == Resource # {}
  BY DEF Resource

\* What a connect does to the channel, whether it succeeds or not.
LEMMA ConnectKeeps ==
  ASSUME Keymaster4Assumption, ChannelInv, \E ok \in BOOLEAN : bp_keymaster_connect(ok),
         UNCHANGED taOps
  PROVE  ChannelInv'
<1>1. handle_ \in Int /\ \A fd \in KmFd : fd \in Int /\ fd > 0
  BY DEF Keymaster4Assumption, ChannelInv
<1>2. \/ UNCHANGED <<handle_, live>>
      \/ handle_' \in KmFd /\ (live' = Resource \/ live' = live)
  BY DEF bp_keymaster_connect
<1>3. CASE UNCHANGED <<handle_, live>>
  BY <1>3 DEF ChannelInv
<1>4. CASE handle_' \in KmFd /\ (live' = Resource \/ live' = live)
  <2>1. ~(handle_' <= 0)
    BY <1>1, <1>4
  <2> QED
    BY <1>4, <2>1, ResourceThere DEF ChannelInv
<1> QED
  BY <1>2, <1>3, <1>4

\* What a command does to the operations of the TA.
LEMMA TaRunsOps ==
  ASSUME NEW e, TaRuns(e)
  PROVE  /\ sending # "begin" => taOps' \subseteq taOps
         /\ sending = "begin" /\ e = "OK" => taOps' \subseteq taOps \cup {op_handle'}
         /\ sending = "begin" /\ e # "OK" => taOps' = taOps
         /\ sending \in {"finish", "abort"} => hidl.h \notin taOps'
         /\ sending = "update" /\ e # "OK" => hidl.h \notin taOps'
  BY DEF TaRuns

\* The service starts in the inductive invariant.
LEMMA InitIInv == KmInit => IInv
  BY DEF KmInit, IInv, ChannelInv, CallInv, OutcomeInv, OwnerInv, ResultIsTas, Busy, TooLong, Ended, MayBeBig

\* TooBig: a request too big for the shared memory is not sent.
LEMMA TooBigKeeps == ASSUME Keymaster4Assumption, IInv, TooBig PROVE IInv'
<1>1. ChannelInv'
  BY DEF Keymaster4Assumption, IInv, TooBig, ChannelInv
<1>2. CallInv'
  BY DEF IInv, TooBig, CallInv, Busy, MayBeBig
<1>3. OutcomeInv'
  BY DEF IInv, TooBig, OutcomeInv, CallInv, ResultIsTas, Busy
<1>4. OwnerInv'
  BY DEF IInv, TooBig, OwnerInv, CallInv, Unowned, Ended, Busy, TooLong, Fits, MayBeBig
<1> QED
  BY <1>1, <1>2, <1>3, <1>4 DEF IInv

\* NotConnected: without a connection nothing is sent.
LEMMA NotConnectedKeeps == ASSUME Keymaster4Assumption, IInv, NotConnected PROVE IInv'
<1>1. ChannelInv'
  BY DEF Keymaster4Assumption, IInv, NotConnected, ChannelInv
<1>2. CallInv'
  BY DEF IInv, NotConnected, CallInv, Busy, MayBeBig
<1>3. OutcomeInv'
  BY DEF IInv, NotConnected, OutcomeInv, CallInv, ResultIsTas, Busy
<1>4. OwnerInv'
  BY DEF IInv, NotConnected, OwnerInv, CallInv, Unowned, Ended, Busy, TooLong
<1> QED
  BY <1>1, <1>2, <1>3, <1>4 DEF IInv

\* WritesUnmapped: the request goes to memory that was never mapped.
LEMMA WritesUnmappedKeeps == ASSUME Keymaster4Assumption, IInv, WritesUnmapped PROVE IInv'
<1>1. ChannelInv'
  BY DEF Keymaster4Assumption, IInv, WritesUnmapped, ChannelInv
<1>2. CallInv'
  BY DEF IInv, WritesUnmapped, CallInv, Busy, MayBeBig
<1>3. OutcomeInv'
  BY DEF IInv, WritesUnmapped, OutcomeInv, CallInv, ResultIsTas, Busy
<1>4. OwnerInv'
  BY DEF IInv, WritesUnmapped, OwnerInv, CallInv, Unowned, Ended, Busy, TooLong
<1> QED
  BY <1>1, <1>2, <1>3, <1>4 DEF IInv

\* InvokeFails: the answer is lost.
LEMMA InvokeFailsKeeps == ASSUME Keymaster4Assumption, IInv, InvokeFails PROVE IInv'
<1>1. ChannelInv'
  <2>1. UNCHANGED <<handle_, live>> /\ live = Resource
    BY DEF InvokeFails
  <2> QED
    BY <2>1, ResourceThere DEF IInv, ChannelInv
<1>2. CallInv'
  BY DEF IInv, InvokeFails, CallInv, Busy, MayBeBig
<1>3. OutcomeInv'
  BY DEF IInv, InvokeFails, OutcomeInv, CallInv, ResultIsTas, Busy
<1>4. OwnerInv'
  <2>1. kmPc' = "disconnect" /\ handle_' = handle_ /\ handle_ >= 0
    BY DEF InvokeFails
  <2>2. handle_ > 0
    BY <2>1 DEF IInv, ChannelInv, Keymaster4Assumption
  <2> QED
    BY <2>1, <2>2 DEF OwnerInv, Unowned
<1> QED
  BY <1>1, <1>2, <1>3, <1>4 DEF IInv

\* Answered: the TA answers.
LEMMA AnsweredKeeps == ASSUME Keymaster4Assumption, IInv, Answered PROVE IInv'
<1>1. ChannelInv'
  <2>1. UNCHANGED <<handle_, live>> /\ live = Resource
    BY DEF Answered
  <2> QED
    BY <2>1, ResourceThere DEF IInv, ChannelInv
<1>2. CallInv'
  BY DEF IInv, Answered, CallInv, Busy, MayBeBig
<1>3. OutcomeInv'
  BY DEF IInv, Answered, OutcomeInv, CallInv, ResultIsTas, Busy
<1>4. OwnerInv'
  <2>1. kmPc = "send" /\ kmPc' = "returned" /\ UNCHANGED <<hidl, sending, held>>
    BY DEF Answered
  <2>2. PICK e \in {"OK", "ERROR"} : TaRuns(e) /\ error' = e
    BY DEF Answered
  <2>3. taOps \subseteq held
    BY <2>1 DEF IInv, OwnerInv, Unowned
  <2>4. (taOps \subseteq held \/ Unowned)'
    BY <2>1, <2>2, <2>3, TaRunsOps DEF Unowned
  <2> QED
    BY <2>1, <2>2, <2>4, TaRunsOps DEF OwnerInv, Ended
<1> QED
  BY <1>1, <1>2, <1>3, <1>4 DEF IInv

\* Disconnect: the session is closed, and the TA forgets its operations.
LEMMA DisconnectKeeps == ASSUME Keymaster4Assumption, IInv, Disconnect PROVE IInv'
<1>1. ChannelInv'
  <2>1. handle_' = -1 /\ ((live' = {} /\ taOps' = {}) \/ (handle_ <= 0 /\ UNCHANGED <<live, taOps>>))
    BY DEF Keymaster4Assumption, IInv, ChannelInv, Disconnect, bp_keymaster_disconnect
  <2> QED
    BY <2>1 DEF IInv, ChannelInv
<1>2. CallInv'
  BY DEF IInv, Disconnect, CallInv, Busy, MayBeBig
<1>3. OutcomeInv'
  BY DEF IInv, Disconnect, OutcomeInv, CallInv, ResultIsTas, Busy
<1>4. OwnerInv'
  <2>1. kmPc' = "reconnect"
    BY DEF Disconnect
  <2>2. taOps' = {}
    BY DEF Keymaster4Assumption, IInv, ChannelInv, Disconnect, bp_keymaster_disconnect
  <2> QED
    BY <2>1, <2>2 DEF OwnerInv
<1> QED
  BY <1>1, <1>2, <1>3, <1>4 DEF IInv

\* Reconnect: the connection is made again.
LEMMA ReconnectKeeps == ASSUME Keymaster4Assumption, IInv, Reconnect PROVE IInv'
<1>1. ChannelInv'
  <2>1. (\E ok \in BOOLEAN : bp_keymaster_connect(ok)) /\ UNCHANGED taOps
    BY DEF Reconnect
  <2> QED
    BY <2>1, ConnectKeeps DEF IInv
<1>2. CallInv'
  BY DEF IInv, Reconnect, CallInv, Busy, MayBeBig
<1>3. OutcomeInv'
  BY DEF IInv, Reconnect, OutcomeInv, CallInv, ResultIsTas, Busy
<1>4. OwnerInv'
  BY DEF IInv, Reconnect, OwnerInv, CallInv, Unowned, Ended, Busy, TooLong
<1> QED
  BY <1>1, <1>2, <1>3, <1>4 DEF IInv

\* Initialize: main connects and has the TA configured.
LEMMA InitializeKeeps == ASSUME Keymaster4Assumption, IInv, InitializeIpc PROVE IInv'
<1>1. ChannelInv'
  <2>1. (\E ok \in BOOLEAN : bp_keymaster_connect(ok)) /\ UNCHANGED taOps
    BY DEF InitializeIpc
  <2> QED
    BY <2>1, ConnectKeeps DEF IInv
<1>2. CallInv'
  BY DEF IInv, InitializeIpc, CallInv, Busy, MayBeBig
<1>3. OutcomeInv'
  BY DEF IInv, InitializeIpc, OutcomeInv, CallInv, ResultIsTas, Busy
<1>4. OwnerInv'
  BY DEF IInv, InitializeIpc, OwnerInv, CallInv, Unowned, Ended, Busy, TooLong
<1> QED
  BY <1>1, <1>2, <1>3, <1>4 DEF IInv

\* Configured: main registers the service or gives up.
LEMMA ConfiguredKeeps == ASSUME Keymaster4Assumption, IInv, Configured PROVE IInv'
<1>1. ChannelInv'
  BY DEF Keymaster4Assumption, IInv, Configured, ChannelInv
<1>2. CallInv'
  BY DEF IInv, Configured, CallInv, Busy, MayBeBig
<1>3. OutcomeInv'
  BY DEF IInv, Configured, OutcomeInv, CallInv, ResultIsTas, Busy
<1>4. OwnerInv'
  BY DEF IInv, Configured, OwnerInv, CallInv, Unowned, Ended, Busy, TooLong
<1> QED
  BY <1>1, <1>2, <1>3, <1>4 DEF IInv

\* Down: the process ends.
LEMMA DownKeeps == ASSUME Keymaster4Assumption, IInv, Down PROVE IInv'
<1>1. ChannelInv'
  BY DEF Keymaster4Assumption, IInv, Down, ChannelInv
<1>2. CallInv'
  BY DEF IInv, Down, CallInv, Busy, MayBeBig
<1>3. OutcomeInv'
  BY DEF IInv, Down, OutcomeInv, CallInv, ResultIsTas, Busy
<1>4. OwnerInv'
  BY DEF IInv, Down, OwnerInv, CallInv, Unowned, Ended, Busy, TooLong
<1> QED
  BY <1>1, <1>2, <1>3, <1>4 DEF IInv

\* Request: a call that is forwarded.
LEMMA RequestKeeps == ASSUME Keymaster4Assumption, IInv, Request PROVE IInv'
<1>1. ChannelInv'
  BY DEF Keymaster4Assumption, IInv, Request, ChannelInv
<1>2. CallInv'
  BY DEF IInv, Request, CallInv, Busy, MayBeBig
<1>3. OutcomeInv'
  BY DEF IInv, Request, OutcomeInv, CallInv, ResultIsTas, Busy
<1>4. OwnerInv'
  BY DEF IInv, Request, OwnerInv, CallInv, Unowned, Ended, Busy, TooLong
<1> QED
  BY <1>1, <1>2, <1>3, <1>4 DEF IInv

\* Local: a call answered without the TA.
LEMMA LocalKeeps == ASSUME Keymaster4Assumption, IInv, Local PROVE IInv'
<1>1. ChannelInv'
  BY DEF Keymaster4Assumption, IInv, Local, ChannelInv
<1>2. CallInv'
  BY DEF IInv, Local, CallInv, Busy, MayBeBig
<1>3. OutcomeInv'
  BY DEF IInv, Local, OutcomeInv, CallInv, ResultIsTas, Busy
<1>4. OwnerInv'
  BY DEF IInv, Local, OwnerInv, CallInv, Unowned, Ended, Busy, TooLong
<1> QED
  BY <1>1, <1>2, <1>3, <1>4 DEF IInv

\* DeviceReturns: the answer to a call on the device.
LEMMA DeviceReturnsKeeps == ASSUME Keymaster4Assumption, IInv, DeviceReturns PROVE IInv'
<1>1. ChannelInv'
  BY DEF Keymaster4Assumption, IInv, DeviceReturns, ChannelInv
<1>2. CallInv'
  BY DEF IInv, DeviceReturns, CallInv, Busy, MayBeBig
<1>3. OutcomeInv'
  BY DEF IInv, DeviceReturns, OwnAnswer, OutcomeInv, CallInv, ResultIsTas, Busy
<1>4. OwnerInv'
  BY DEF IInv, DeviceReturns, OwnAnswer, OwnerInv, Unowned
<1> QED
  BY <1>1, <1>2, <1>3, <1>4 DEF IInv

\* BeginReturns: begin hands the operation over.
LEMMA BeginReturnsKeeps == ASSUME Keymaster4Assumption, IInv, BeginReturns PROVE IInv'
<1>1. ChannelInv'
  BY DEF Keymaster4Assumption, IInv, BeginReturns, ChannelInv
<1>2. CallInv'
  BY DEF IInv, BeginReturns, CallInv, Busy, MayBeBig
<1>3. OutcomeInv'
  BY DEF IInv, BeginReturns, OwnAnswer, OutcomeInv, CallInv, ResultIsTas, Busy
<1>4. OwnerInv'
  BY DEF IInv, BeginReturns, OwnAnswer, OwnerInv, Unowned
<1> QED
  BY <1>1, <1>2, <1>3, <1>4 DEF IInv

\* AbortTooLong: update and finish abort the operation of an overlong request.
LEMMA AbortTooLongKeeps == ASSUME Keymaster4Assumption, IInv, AbortTooLong PROVE IInv'
<1>1. ChannelInv'
  BY DEF Keymaster4Assumption, IInv, AbortTooLong, ChannelInv
<1>2. CallInv'
  BY DEF IInv, AbortTooLong, OwnAnswer, CallInv, Busy, MayBeBig
<1>3. OutcomeInv'
  BY DEF IInv, AbortTooLong, OutcomeInv, CallInv, ResultIsTas, Busy
<1>4. OwnerInv'
  BY DEF IInv, AbortTooLong, OwnerInv, CallInv, Unowned, Ended, Busy, TooLong
<1> QED
  BY <1>1, <1>2, <1>3, <1>4 DEF IInv

\* OperationReturns: the answer to update and finish.
LEMMA OperationReturnsKeeps == ASSUME Keymaster4Assumption, IInv, OperationReturns PROVE IInv'
<1>1. ChannelInv'
  BY DEF Keymaster4Assumption, IInv, OperationReturns, ChannelInv
<1>2. CallInv'
  BY DEF IInv, OperationReturns, CallInv, Busy, MayBeBig
<1>3. OutcomeInv'
  BY DEF IInv, OperationReturns, OwnAnswer, OutcomeInv, CallInv, ResultIsTas, Busy
<1>4. OwnerInv'
  <2>1. kmPc' = "reply" /\ UNCHANGED taOps
    BY DEF OperationReturns
  <2>2. taOps \subseteq held
    BY DEF IInv, OperationReturns, OwnAnswer, OwnerInv, Unowned
  <2>3. taOps \subseteq held'
    BY <2>2 DEF IInv, OperationReturns, OwnAnswer, OwnerInv, Ended
  <2> QED
    BY <2>1, <2>3 DEF OwnerInv
<1> QED
  BY <1>1, <1>2, <1>3, <1>4 DEF IInv

\* AbortReturns: the answer to abort.
LEMMA AbortReturnsKeeps == ASSUME Keymaster4Assumption, IInv, AbortReturns PROVE IInv'
<1>1. ChannelInv'
  BY DEF Keymaster4Assumption, IInv, AbortReturns, ChannelInv
<1>2. CallInv'
  BY DEF IInv, AbortReturns, CallInv, Busy, MayBeBig
<1>3. OutcomeInv'
  BY DEF IInv, AbortReturns, OutcomeInv, CallInv, ResultIsTas, Busy
<1>4. OwnerInv'
  BY DEF IInv, AbortReturns, OwnerInv, CallInv, Unowned, Ended, Busy, TooLong
<1> QED
  BY <1>1, <1>2, <1>3, <1>4 DEF IInv

\* Reply: the callback returns.
LEMMA ReplyKeeps == ASSUME Keymaster4Assumption, IInv, Reply PROVE IInv'
<1>1. ChannelInv'
  BY DEF Keymaster4Assumption, IInv, Reply, ChannelInv
<1>2. CallInv'
  BY DEF IInv, Reply, CallInv, Busy, MayBeBig
<1>3. OutcomeInv'
  BY DEF IInv, Reply, OutcomeInv, CallInv, ResultIsTas, Busy
<1>4. OwnerInv'
  BY DEF IInv, Reply, OwnerInv, CallInv, Unowned, Ended, Busy, TooLong
<1> QED
  BY <1>1, <1>2, <1>3, <1>4 DEF IInv

\* Every step keeps the invariant.
LEMMA NextIInv == ASSUME Keymaster4Assumption, IInv, [KmNext]_kmVars PROVE IInv'
<1>1. CASE UNCHANGED kmVars
  <2>1. ChannelInv' /\ CallInv'
    BY <1>1 DEF IInv, ChannelInv, CallInv, Busy
  <2>2. OutcomeInv' /\ OwnerInv'
    BY <1>1 DEF IInv, OutcomeInv, OwnerInv, ResultIsTas, Unowned, Ended, TooLong
  <2> QED
    BY <2>1, <2>2 DEF IInv
<1>2. CASE Request \/ Local \/ Crash
  BY <1>2, RequestKeeps, LocalKeeps, DownKeeps DEF Crash
<1>3. CASE bp_keymaster_send
  BY <1>3, TooBigKeeps, NotConnectedKeeps, WritesUnmappedKeeps, InvokeFailsKeeps, AnsweredKeeps,
     DisconnectKeeps, ReconnectKeeps DEF bp_keymaster_send
<1>4. CASE Work /\ ~bp_keymaster_send
  BY <1>4, InitializeKeeps, ConfiguredKeeps, DownKeeps, DeviceReturnsKeeps, BeginReturnsKeeps,
     AbortTooLongKeeps, OperationReturnsKeeps, AbortReturnsKeeps, ReplyKeeps DEF Work, KmRestart
<1> QED
  BY <1>1, <1>2, <1>3, <1>4 DEF KmNext

\* The inductive invariant holds in every reachable state.
THEOREM Inductive == Keymaster4Assumption => (KmSpec => []IInv)
<1> SUFFICES ASSUME Keymaster4Assumption PROVE KmSpec => []IInv
  OBVIOUS
<1>1. IInv /\ [KmNext]_kmVars => IInv'
  BY NextIInv
<1> QED
  BY <1>1, InitIInv, PTL DEF KmSpec

\* Between calls the TA keeps no operation that the client does not hold:
\* what a lost answer leaves behind goes with the session that the reset in
\* bp_keymaster_send closes, and update and finish abort the operation of a
\* request too long to be sent.
THEOREM HeldSafe == Keymaster4Assumption => (KmSpec => []OperationHeld)
<1>1. IInv => OperationHeld
  BY DEF IInv, OwnerInv, Unowned, OperationHeld
<1> QED
  BY <1>1, Inductive, PTL

\* A call reports OK, or results of the TA, only if the TA carried out the
\* command of that very call.
THEOREM ResultSafe == Keymaster4Assumption => (KmSpec => []ResultIsTas)
<1>1. IInv => ResultIsTas
  BY DEF IInv, OutcomeInv
<1> QED
  BY <1>1, Inductive, PTL

=============================================================================
