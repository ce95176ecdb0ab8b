-------------------------- MODULE TransferProofs --------------------------
(***************************************************************************)
(* What requests carry, proved for data of every size: the parameters of   *)
(* an operation of the client library (TeecParams), for any set of         *)
(* parameters and any overlap of the two of a call, and the blocks of an   *)
(* RPMB request (Rpmb).                                                    *)
(***************************************************************************)
EXTENDS TeecParams, Rpmb, SequenceTheorems, TLAPS

-----------------------------------------------------------------------------
(***************************************************************************)
(* TeecParams.                                                             *)
(***************************************************************************)
\* A parameter as the caller has it, and after the TA has set its size.
AnyParam ==
  [kind : {"value", "whole", "partial", "temp"}, dir : SUBSET {"in", "out"},
   offset : 0 .. Size, size : 0 .. Size + 1]

TypeInv ==
  /\ registered \in BOOLEAN
  /\ op \in [Slot -> AnyParam]
  /\ ret \in [Slot -> 0 .. Size + 1]
  /\ value \in [own : {"old", "caller", "ta"}, passed : {"old", "caller", "ta"}]
  /\ pc \in {"called", "tee", "back", "done"}

\* What the caller had when it made the call is what it has until the results
\* are copied back; a block without a shadow is the TA's meanwhile.
CallInv ==
  /\ pc \in {"called", "tee"} \/ (pc = "done" /\ res = "failed") => before = Caller
  /\ pc = "back" =>
       /\ registered => before.buffer = buffer
       /\ before.tmpbuf = tmpbuf
       /\ \A n \in Slot : before.size[n] = op[n].size

\* The inductive invariant.
IInv == TypeInv /\ CallInv /\ TaSeesInput /\ OutputDelivered /\ RestKept

-----------------------------------------------------------------------------
\* What a copy leaves in a byte.
LEMMA CopyIntoAt ==
  ASSUME NEW dst, NEW src, NEW W, NEW i \in Index
  PROVE  CopyInto(dst, src, W)[i] = IF i \in W THEN src[i] ELSE dst[i]
  BY DEF CopyInto

\* A parameter that is an input shows the caller's bytes in its window; what
\* it does elsewhere is at most to show more of them.
LEMMA PreShadowShows ==
  ASSUME NEW p, NEW s, registered, NEW i \in Index
  PROVE  /\ PreShadow(p, s)[i] \in {s[i], buffer[i]}
         /\ /\ ~Refused(p) /\ p.kind \in {"whole", "partial"}
            /\ "in" \in Dir(p) /\ i \in Window(p)
            => PreShadow(p, s)[i] = buffer[i]
<1>1. teec_pre_process_whole(s)[i] = IF "in" \in flags THEN buffer[i] ELSE s[i]
  BY CopyIntoAt DEF teec_pre_process_whole
<1>2. teec_pre_process_partial(p, s)[i] =
        IF "in" \in p.dir /\ i \in Window(p) THEN buffer[i] ELSE s[i]
  BY CopyIntoAt DEF teec_pre_process_partial
<1> QED
  BY <1>1, <1>2 DEF PreShadow, Dir

\* When the loop over the parameters is done, the shadow shows the caller's
\* bytes in the window of every input.
LEMMA ShadowedShows ==
  ASSUME registered, \A n \in Slot : ~Refused(op[n]),
         NEW n \in Slot, op[n].kind \in {"whole", "partial"}, "in" \in Dir(op[n]),
         NEW i \in Index, i \in Window(op[n])
  PROVE  Shadowed(op)[i] = buffer[i]
<1> DEFINE s1 == PreShadow(op[1], shadow)
<1>1. 1 \in Slot /\ 2 \in Slot /\ (n = 1 \/ n = 2)
  BY DEF Slot
<1>2. Shadowed(op) = PreShadow(op[2], s1)
  BY <1>1 DEF Shadowed
<1>3. n = 1 => s1[i] = buffer[i]
  BY <1>1, PreShadowShows
<1>4. PreShadow(op[2], s1)[i] \in {s1[i], buffer[i]}
  <2> HIDE DEF s1
  <2> QED BY PreShadowShows
<1>5. n = 2 => PreShadow(op[2], s1)[i] = buffer[i]
  <2> HIDE DEF s1
  <2> QED BY <1>1, PreShadowShows
<1> QED
  BY <1>1, <1>2, <1>3, <1>4, <1>5

\* The call begins in the invariant.
LEMMA InitIInv == ASSUME TeecParamsAssumption, ParamsInit PROVE IInv
<1>1. TypeInv
  BY DEF ParamsInit, TypeInv, AnyParam, TeecParamsAssumption, Slot
<1>2. pc = "done" /\ res = "none"
  BY DEF ParamsInit
<1> QED
  BY <1>1, <1>2 DEF IInv, CallInv, TaSeesInput, OutputDelivered, RestKept

\* Prepare: the caller makes the next call.
LEMMA PrepareKeeps ==
  ASSUME TeecParamsAssumption, IInv, NEW o \in Operations, Prepare(o)
  PROVE  IInv'
<1>1. pc' = "called" /\ before' = Caller' /\ op' = o /\ UNCHANGED registered
  BY DEF Prepare
<1>2. o \in [Slot -> AnyParam]
  <2>1. o \in [Slot -> Param]
    BY DEF Operations
  <2>2. \A p \in Param : p \in AnyParam
    BY DEF TeecParamsAssumption, AnyParam
  <2> QED
    BY <2>1, <2>2
<1>3. TypeInv'
  BY <1>1, <1>2 DEF IInv, TypeInv, Prepare, TeecParamsAssumption
<1> QED
  BY <1>1, <1>3 DEF IInv, CallInv, TaSeesInput, OutputDelivered, RestKept

\* teec_pre_process_operation: the TA gets the caller's data, or the call ends.
LEMMA PreKeeps ==
  ASSUME TeecParamsAssumption, IInv, pre_process_operation
  PROVE  IInv'
<1>1. /\ UNCHANGED <<flags, registered, buffer, tmpbuf, op, ret, before>>
      /\ pc = "called" /\ value' = [value EXCEPT !.passed = value.own]
      /\ shadow' = Shadowed(op)
  BY DEF pre_process_operation
<1>2. \/ pc' = "done" /\ res' = "failed"
      \/ pc' = "tee" /\ \A n \in Slot : ~Refused(op[n])
  BY DEF pre_process_operation
<1>3. value.own = value'.own /\ value'.passed = value'.own
      /\ value' \in [own : {"old", "caller", "ta"}, passed : {"old", "caller", "ta"}]
  BY <1>1 DEF IInv, TypeInv
<1>4. TypeInv'
  BY <1>1, <1>2, <1>3 DEF IInv, TypeInv
<1>5. UNCHANGED Caller /\ before = Caller
  BY <1>1, <1>3 DEF Caller, IInv, CallInv
<1>6. CallInv'
  BY <1>1, <1>2, <1>5 DEF CallInv
<1>7. TaSeesInput'
  <2> SUFFICES ASSUME pc' = "tee", NEW n \in Slot
               PROVE  /\ "in" \in Dir(op[n]) /\ op[n].kind # "value" =>
                           \A i \in Window(op[n]) :
                             Shared(op[n])'[i] = IF op[n].kind = "temp" THEN tmpbuf[i] ELSE buffer[i]
                      /\ value'.passed = value'.own
    BY <1>1 DEF TaSeesInput, Dir, Window
  <2>1. ASSUME "in" \in Dir(op[n]), op[n].kind # "value", NEW i \in Window(op[n])
        PROVE  Shared(op[n])'[i] = IF op[n].kind = "temp" THEN tmpbuf[i] ELSE buffer[i]
    <3>0. i \in Index
      BY DEF Window
    <3>1. CASE op[n].kind = "temp"
      <4>1. tmpshm'[i] = tmpbuf[i]
        BY <3>0, <3>1, <2>1 DEF pre_process_operation
      <4> QED
        BY <1>1, <3>1, <4>1 DEF Shared
    <3>2. CASE op[n].kind # "temp" /\ registered
      <4>1. op[n].kind \in {"whole", "partial"}
        BY <2>1, <3>2 DEF IInv, TypeInv, AnyParam
      <4>2. Shadowed(op)[i] = buffer[i]
        BY <1>2, <2>1, <3>0, <3>2, <4>1, ShadowedShows
      <4> QED
        BY <1>1, <3>2, <4>2 DEF Shared
    <3>3. CASE op[n].kind # "temp" /\ ~registered
      BY <1>1, <3>3 DEF Shared
    <3> QED
      BY <3>1, <3>2, <3>3
  <2> QED
    BY <1>3, <2>1
<1>8. OutputDelivered' /\ RestKept'
  BY <1>2, <1>6 DEF OutputDelivered, RestKept, CallInv
<1> QED
  BY <1>4, <1>6, <1>7, <1>8 DEF IInv

\* TaRuns: the TA writes where the caller does not look, a block without a
\* shadow excepted.
LEMMA TaRunsKeeps == ASSUME TeecParamsAssumption, IInv, TaRuns PROVE IInv'
<1>1. /\ UNCHANGED <<flags, registered, tmpbuf, op, before, res>> /\ pc = "tee" /\ pc' = "back"
      /\ registered => buffer' = buffer
      /\ ret' \in [Slot -> 0 .. Size + 1]
      /\ value' \in {value, [value EXCEPT !.passed = "ta"]}
  BY DEF TaRuns
<1>2. TypeInv'
  BY <1>1 DEF IInv, TypeInv
<1>3. before.buffer = buffer /\ before.tmpbuf = tmpbuf /\ \A n \in Slot : before.size[n] = op[n].size
  BY <1>1 DEF IInv, CallInv, Caller
<1> QED
  BY <1>1, <1>2, <1>3 DEF IInv, CallInv, TaSeesInput, OutputDelivered, RestKept

\* ioctlFails: nothing has changed for the caller.
LEMMA IoctlFailsKeeps == ASSUME IInv, ioctlFails PROVE IInv'
<1>1. /\ UNCHANGED <<flags, registered, buffer, shadow, tmpbuf, tmpshm, value, op, ret, before>>
      /\ pc = "tee" /\ pc' = "done" /\ res' = "failed"
  BY DEF ioctlFails
<1>2. UNCHANGED Caller /\ before' = Caller
  BY <1>1 DEF Caller, IInv, CallInv
<1>3. TypeInv'
  BY <1>1 DEF IInv, TypeInv
<1> QED
  BY <1>1, <1>2, <1>3 DEF IInv, CallInv, TaSeesInput, OutputDelivered, RestKept

\* The bytes of the outputs of some kinds that are copied back.
AllBack(K) == UNION {Back(n) : n \in {m \in Slot : op[m].kind \in K}}

\* teec_post_process_operation, byte by byte: the loop over the parameters
\* takes each from where the TA wrote it, whichever parameter grants it.
LEMMA PostBytes ==
  ASSUME teec_post_process_operation, NEW i \in Index
  PROVE  /\ registered => buffer'[i] = IF i \in AllBack({"whole", "partial"}) THEN shadow[i] ELSE buffer[i]
         /\ ~registered => buffer' = buffer
         /\ tmpbuf'[i] = IF i \in AllBack({"temp"}) THEN tmpshm[i] ELSE tmpbuf[i]
<1>1. buffer' = post_process_partial(post_process_whole(buffer)) /\ tmpbuf' = post_process_tmpref(tmpbuf)
  BY DEF teec_post_process_operation
<1>2. tmpbuf'[i] = IF i \in AllBack({"temp"}) THEN tmpshm[i] ELSE tmpbuf[i]
  BY <1>1, CopyIntoAt DEF post_process_tmpref, AllBack
<1>3. ~registered => buffer' = buffer
  BY <1>1 DEF post_process_partial, post_process_whole
<1>4. ASSUME registered
      PROVE  buffer'[i] = IF i \in AllBack({"whole", "partial"}) THEN shadow[i] ELSE buffer[i]
  <2>1. post_process_whole(buffer)[i] = IF i \in AllBack({"whole"}) THEN shadow[i] ELSE buffer[i]
    BY <1>4, CopyIntoAt DEF post_process_whole, AllBack
  <2> DEFINE b == post_process_whole(buffer)
  <2>2. post_process_partial(b)[i] = IF i \in AllBack({"partial"}) THEN shadow[i] ELSE b[i]
    <3> HIDE DEF b
    <3> QED BY <1>4, CopyIntoAt DEF post_process_partial, AllBack
  <2>3. i \in AllBack({"whole", "partial"}) <=> i \in AllBack({"whole"}) \/ i \in AllBack({"partial"})
    BY DEF AllBack
  <2> QED
    BY <1>1, <2>1, <2>2, <2>3
<1> QED
  BY <1>2, <1>3, <1>4

\* After the loop a parameter differs from what it was at most in its size.
LEMMA PostParams ==
  ASSUME IInv, teec_post_process_operation, NEW n \in Slot
  PROVE  /\ op'[n].kind = op[n].kind /\ op'[n].offset = op[n].offset
         /\ Dir(op[n])' = Dir(op[n])
         /\ n \in Outputs <=> "out" \in Dir(op[n]) /\ op[n].kind # "value"
         /\ n \in Outputs => op'[n].size = ret[n]
         /\ op' \in [Slot -> AnyParam]
<1>1. /\ op' = [m \in Slot |-> IF m \in Outputs THEN [op[m] EXCEPT !.size = ret[m]] ELSE op[m]]
      /\ UNCHANGED flags
  BY DEF teec_post_process_operation
<1>2. op \in [Slot -> AnyParam] /\ ret \in [Slot -> 0 .. Size + 1]
  BY DEF IInv, TypeInv
<1>3. \A m \in Slot : /\ [op[m] EXCEPT !.size = ret[m]] \in AnyParam
                      /\ [op[m] EXCEPT !.size = ret[m]].kind = op[m].kind
                      /\ [op[m] EXCEPT !.size = ret[m]].dir = op[m].dir
                      /\ [op[m] EXCEPT !.size = ret[m]].offset = op[m].offset
                      /\ [op[m] EXCEPT !.size = ret[m]].size = ret[m]
  BY <1>2 DEF AnyParam
<1>4. op' \in [Slot -> AnyParam]
  BY <1>1, <1>2, <1>3
<1>5. /\ op'[n].kind = op[n].kind /\ op'[n].offset = op[n].offset /\ op'[n].dir = op[n].dir
      /\ n \in Outputs => op'[n].size = ret[n]
  BY <1>1, <1>3
<1>6. Dir(op[n])' = Dir(op[n])
  BY <1>1, <1>5 DEF Dir
<1> QED
  BY <1>4, <1>5, <1>6 DEF Outputs

\* teec_post_process_operation: what the TA reports is delivered.
LEMMA PostDelivers == ASSUME TeecParamsAssumption, IInv, teec_post_process_operation PROVE OutputDelivered'
<1>1. UNCHANGED <<flags, registered, shadow, tmpshm, ret, before>> /\ pc = "back"
  BY DEF teec_post_process_operation
<1>2. /\ \A n \in Slot : before.size[n] = op[n].size
      /\ op \in [Slot -> AnyParam] /\ ret \in [Slot -> 0 .. Size + 1] /\ Size \in Nat
  BY <1>1 DEF IInv, CallInv, TypeInv, TeecParamsAssumption
<1> SUFFICES ASSUME NEW n \in Slot, "out" \in Dir(op[n])', op'[n].kind # "value"
             PROVE  /\ op'[n].size = ret[n]
                    /\ \A i \in Index :
                       /\ op'[n].kind = "whole" /\ ret[n] <= Size /\ i <= ret[n]
                          => buffer'[i] = Shared(op[n])'[i]
                       /\ /\ op'[n].kind = "partial" /\ ret[n] <= before.size[n]
                          /\ i > op'[n].offset /\ i <= op'[n].offset + ret[n]
                          => buffer'[i] = Shared(op[n])'[i]
                       /\ op'[n].kind = "temp" /\ ret[n] <= before.size[n] /\ i <= ret[n]
                          => tmpbuf'[i] = tmpshm'[i]
  BY <1>1 DEF OutputDelivered
<1>3. n \in Outputs /\ op'[n].kind = op[n].kind /\ op'[n].offset = op[n].offset /\ op'[n].size = ret[n]
  BY PostParams
<1>4. ASSUME NEW i \in Index, op[n].kind = "whole", ret[n] <= Size, i <= ret[n]
      PROVE  i \in Back(n)
  BY <1>2, <1>3, <1>4 DEF Back, FitsIn, Index
<1>5. ASSUME NEW i \in Index, op[n].kind = "partial", ret[n] <= before.size[n],
             i > op[n].offset, i <= op[n].offset + ret[n]
      PROVE  i \in Back(n)
  BY <1>2, <1>3, <1>5 DEF Back, FitsIn
<1>6. ASSUME NEW i \in Index, op[n].kind = "temp", ret[n] <= before.size[n], i <= ret[n]
      PROVE  i \in Back(n)
  BY <1>2, <1>3, <1>6 DEF Back, FitsIn, Index
<1>7. ASSUME NEW i \in Index, i \in Back(n), op[n].kind \in {"whole", "partial"}
      PROVE  buffer'[i] = Shared(op[n])'[i]
  <2>1. Shared(op[n])' = IF registered THEN shadow ELSE buffer'
    BY <1>1, <1>3, <1>7 DEF Shared
  <2>2. i \in AllBack({"whole", "partial"})
    BY <1>7 DEF AllBack
  <2> QED
    BY <2>1, <2>2, PostBytes
<1>8. ASSUME NEW i \in Index, i \in Back(n), op[n].kind = "temp"
      PROVE  tmpbuf'[i] = tmpshm'[i]
  <2>1. i \in AllBack({"temp"})
    BY <1>8 DEF AllBack
  <2> QED
    BY <1>1, <2>1, PostBytes
<1> QED
  BY <1>3, <1>4, <1>5, <1>6, <1>7, <1>8

\* teec_post_process_operation: nothing else of the caller's is touched.
LEMMA PostKeepsRest == ASSUME TeecParamsAssumption, IInv, teec_post_process_operation PROVE RestKept'
<1>1. UNCHANGED <<flags, registered, ret, before>> /\ pc = "back" /\ res' = "returned"
  BY DEF teec_post_process_operation
<1>2. /\ \A n \in Slot : before.size[n] = op[n].size
      /\ registered => before.buffer = buffer
      /\ before.tmpbuf = tmpbuf
      /\ op \in [Slot -> AnyParam] /\ ret \in [Slot -> 0 .. Size + 1] /\ Size \in Nat
  BY <1>1 DEF IInv, CallInv, TypeInv, TeecParamsAssumption
<1>3. ASSUME NEW n \in Slot, NEW i \in Back(n)
      PROVE  i \in Granted(n)'
  <2>1. /\ i \in Index /\ n \in Outputs /\ FitsIn(op[n], ret[n])
        /\ i > (IF op[n].kind = "partial" THEN op[n].offset ELSE 0)
        /\ i <= (IF op[n].kind = "partial" THEN op[n].offset ELSE 0) + ret[n]
    BY DEF Back
  <2>2. "out" \in Dir(op[n])' /\ op'[n].kind = op[n].kind /\ op'[n].offset = op[n].offset
    BY <2>1, PostParams
  <2>3. op[n].kind \in {"whole", "partial", "temp"}
    BY <1>2, <2>1 DEF Outputs, AnyParam
  <2>4. i \in Int /\ ret[n] \in Int /\ op[n].offset \in Int /\ op[n].size \in Int
    BY <1>2, <2>1 DEF Index, AnyParam
  <2>5. CASE op[n].kind = "whole"
    BY <1>1, <2>1, <2>2, <2>4, <2>5 DEF Granted
  <2>6. CASE op[n].kind = "partial"
    BY <1>1, <1>2, <2>1, <2>2, <2>4, <2>6 DEF Granted, FitsIn
  <2>7. CASE op[n].kind = "temp"
    BY <1>1, <1>2, <2>1, <2>2, <2>4, <2>7 DEF Granted, FitsIn
  <2> QED
    BY <2>3, <2>5, <2>6, <2>7
<1>4. ASSUME NEW i \in Index, registered,
             \A n \in Slot : op'[n].kind \in {"whole", "partial"} => i \notin Granted(n)'
      PROVE  buffer'[i] = before.buffer[i]
  <2>1. i \notin AllBack({"whole", "partial"})
    BY <1>3, <1>4, PostParams DEF AllBack
  <2> QED
    BY <1>2, <1>4, <2>1, PostBytes
<1>5. ASSUME NEW i \in Index, \A n \in Slot : op'[n].kind = "temp" => i \notin Granted(n)'
      PROVE  tmpbuf'[i] = before.tmpbuf[i]
  <2>1. i \notin AllBack({"temp"})
    BY <1>3, <1>5, PostParams DEF AllBack
  <2> QED
    BY <1>2, <2>1, PostBytes
<1> QED
  BY <1>1, <1>4, <1>5 DEF RestKept

\* teec_post_process_operation keeps the invariant.
LEMMA PostKeeps == ASSUME TeecParamsAssumption, IInv, teec_post_process_operation PROVE IInv'
<1>1. pc' = "done" /\ res' = "returned" /\ UNCHANGED <<registered, ret>>
  BY DEF teec_post_process_operation
<1>2. value' \in [own : {"old", "caller", "ta"}, passed : {"old", "caller", "ta"}]
  BY DEF teec_post_process_operation, IInv, TypeInv
<1>3. op' \in [Slot -> AnyParam]
  BY PostParams DEF Slot
<1>4. TypeInv'
  BY <1>1, <1>2, <1>3 DEF IInv, TypeInv
<1> QED
  BY <1>1, <1>4, PostDelivers, PostKeepsRest DEF IInv, CallInv, TaSeesInput

\* Every step keeps the invariant.
LEMMA NextIInv == ASSUME TeecParamsAssumption, IInv, [ParamsNext]_paramsVars PROVE IInv'
<1>1. CASE UNCHANGED paramsVars
  <2>1. TypeInv' /\ CallInv' /\ TaSeesInput'
    BY <1>1 DEF paramsVars, IInv, TypeInv, CallInv, Caller, TaSeesInput, Dir, Window, Shared
  <2>2. \A n \in Slot : UNCHANGED <<Dir(op[n]), Shared(op[n]), Granted(n)>>
    BY <1>1 DEF paramsVars, Granted, Dir, Shared
  <2>3. OutputDelivered'
    BY <1>1, <2>2 DEF paramsVars, IInv, OutputDelivered
  <2>4. RestKept'
    BY <1>1, <2>2 DEF paramsVars, IInv, RestKept, Caller
  <2> QED
    BY <2>1, <2>3, <2>4 DEF IInv
<1> QED
  BY <1>1, PrepareKeeps, PreKeeps, TaRunsKeeps, IoctlFailsKeeps, PostKeeps DEF ParamsNext

\* The invariant holds in every reachable state.
THEOREM Inductive == TeecParamsAssumption => (ParamsSpec => []IInv)
<1> SUFFICES ASSUME TeecParamsAssumption PROVE ParamsSpec => []IInv
  OBVIOUS
<1>1. ParamsInit => IInv
  BY InitIInv
<1>2. IInv /\ [ParamsNext]_paramsVars => IInv'
  BY NextIInv
<1> QED
  BY <1>1, <1>2, PTL DEF ParamsSpec

\* teec_pre_process_operation: while the TA runs, every input parameter shows
\* it the caller's own bytes, whatever the parameters overlap and whatever
\* earlier calls left in the shadow.
THEOREM InputSafe == TeecParamsAssumption => (ParamsSpec => []TaSeesInput)
<1>1. IInv => TaSeesInput
  BY DEF IInv
<1> QED
  BY <1>1, Inductive, PTL

\* teec_post_process_operation: what the TA wrote in the part of an output that
\* it reports, and the size it reports, is what the caller finds.
THEOREM OutputSafe == TeecParamsAssumption => (ParamsSpec => []OutputDelivered)
<1>1. IInv => OutputDelivered
  BY DEF IInv
<1> QED
  BY <1>1, Inductive, PTL

\* Nothing of the caller's changes that no output grants, or that lies beyond
\* what the TA reports, and nothing at all in a call that failed.
THEOREM RestSafe == TeecParamsAssumption => (ParamsSpec => []RestKept)
<1>1. IInv => RestKept
  BY DEF IInv
<1> QED
  BY <1>1, Inductive, PTL

-----------------------------------------------------------------------------
(***************************************************************************)
(* Rpmb.                                                                   *)
(***************************************************************************)
\* The commands that the sizes of a request stand for.
MmcCommand(flag, data, size) ==
  [flag |-> flag, data |-> data, blocks |-> size \div MMC_BLOCK_SIZE]
RelwCmds == IF req.relw = 0 THEN <<>> ELSE <<MmcCommand("RELW", 0, req.relw)>>
WriteCmds == IF req.w = 0 THEN RelwCmds
             ELSE Append(RelwCmds, MmcCommand("W", req.relw, req.w))
AllCmds == IF req.r = 0 THEN WriteCmds ELSE Append(WriteCmds, MmcCommand("R", 0, req.r))

\* The sizes the checks of rpmb_send let through.
WholeWrites == req.relw % MMC_BLOCK_SIZE = 0 /\ req.w % MMC_BLOCK_SIZE = 0
ReadFits    == req.r % MMC_BLOCK_SIZE = 0 /\ req.r <= ReadBuf

\* The inductive invariant: how far the commands are, and what is known of the
\* sizes, at each step of rpmb_send.
RpmbInv ==
  /\ req \in Req /\ req_len \in Nat
  /\ sendPc # "respond" => deviceRan = <<>> /\ answered = 0
  /\ sendPc \in {"closed", "idle", "length", "relw"} => write_buf = 0 /\ cmds = <<>>
  /\ sendPc \in {"relw", "w", "r", "ioctl"} => req_len = HeaderSize + req.relw + req.w
  /\ sendPc = "w" =>
       write_buf = req.relw /\ cmds = RelwCmds /\ req.relw % MMC_BLOCK_SIZE = 0
  /\ sendPc = "r" => cmds = WriteCmds /\ WholeWrites
  /\ sendPc = "ioctl" => cmds = AllCmds /\ WholeWrites /\ ReadFits
  /\ sendPc \in {"closed", "idle", "length", "relw", "w", "r", "ioctl", "respond"}
  /\ TransferIsExact

\* A size that is a multiple of the block is that many blocks.
LEMMA WholeBlocks ==
  ASSUME NEW M \in Nat \ {0}, NEW s \in Nat, s % M = 0
  PROVE  s \div M \in Nat /\ (s \div M) * M = s
  OBVIOUS

\* FlattenSeq of one sequence, of two and of three.
LEMMA FlattenOne == ASSUME NEW x \in Seq(Nat) PROVE FlattenSeq(<<x>>) = x
  BY DEF FlattenSeq

\* Two sequences.
LEMMA FlattenTwo ==
  ASSUME NEW x \in Seq(Nat), NEW y \in Seq(Nat) PROVE FlattenSeq(<<x, y>>) = x \o y
  <1> DEFINE s == <<x, y>>
             step(f) == [i \in 1 .. 2 |-> IF i = 1 THEN s[i] ELSE f[i - 1] \o s[i]]
             w == [i \in 1 .. 2 |-> IF i = 1 THEN x ELSE x \o y]
             c == CHOOSE f : f = step(f)
  <1>1. w = step(w) OBVIOUS
  <1>2. c = step(c) BY <1>1
  <1>3. FlattenSeq(s) = c[2] BY DEF FlattenSeq
  <1>4. s[1] = x /\ s[2] = y OBVIOUS
  <1> HIDE DEF c, s
  <1>5. c[1] = s[1] /\ c[2] = c[1] \o s[2]
    <2>1. \A i \in 1 .. 2 : c[i] = IF i = 1 THEN s[i] ELSE c[i - 1] \o s[i]
      BY <1>2, Zenon
    <2>2. 1 \in 1 .. 2 /\ 2 \in 1 .. 2 /\ 2 # 1 /\ 2 - 1 = 1
      OBVIOUS
    <2>3. c[1] = s[1] BY <2>1, <2>2, Zenon
    <2>4. c[2] = c[1] \o s[2] BY <2>1, <2>2, Zenon
    <2> QED BY <2>3, <2>4
  <1>6. FlattenSeq(s) = x \o y BY <1>3, <1>4, <1>5, Zenon
  <1> QED BY <1>6 DEF s

\* Three sequences.
LEMMA FlattenThree ==
  ASSUME NEW x \in Seq(Nat), NEW y \in Seq(Nat), NEW z \in Seq(Nat)
  PROVE  FlattenSeq(<<x, y, z>>) = (x \o y) \o z
  <1> DEFINE s == <<x, y, z>>
             step(f) == [i \in 1 .. 3 |-> IF i = 1 THEN s[i] ELSE f[i - 1] \o s[i]]
             w == [i \in 1 .. 3 |-> IF i = 1 THEN x ELSE IF i = 2 THEN x \o y ELSE (x \o y) \o z]
             c == CHOOSE f : f = step(f)
  <1>1. w = step(w) OBVIOUS
  <1>2. c = step(c) BY <1>1
  <1>3. FlattenSeq(s) = c[3] BY DEF FlattenSeq
  <1>4. s[1] = x /\ s[2] = y /\ s[3] = z OBVIOUS
  <1> HIDE DEF c, s
  <1>5. c[1] = s[1] /\ c[2] = c[1] \o s[2] /\ c[3] = c[2] \o s[3]
    <2>1. \A i \in 1 .. 3 : c[i] = IF i = 1 THEN s[i] ELSE c[i - 1] \o s[i]
      BY <1>2, Zenon
    <2>2. /\ 1 \in 1 .. 3 /\ 2 \in 1 .. 3 /\ 3 \in 1 .. 3
          /\ 2 # 1 /\ 2 - 1 = 1 /\ 3 # 1 /\ 3 - 1 = 2
      OBVIOUS
    <2>3. c[1] = s[1] BY <2>1, <2>2, Zenon
    <2>4. c[2] = c[1] \o s[2] BY <2>1, <2>2, Zenon
    <2>5. c[3] = c[2] \o s[3] BY <2>1, <2>2, Zenon
    <2> QED BY <2>3, <2>4, <2>5
  <1>6. FlattenSeq(s) = (x \o y) \o z BY <1>3, <1>4, <1>5, Zenon
  <1> QED BY <1>6 DEF s

\* What up to three commands write.
LEMMA WrittenNone == WrittenBytes(<<>>) = <<>>
  BY DEF WrittenBytes, FlattenSeq

\* One command.
LEMMA WrittenOne ==
  ASSUME NEW c, PayloadBytes(c) \in Seq(Nat) PROVE WrittenBytes(<<c>>) = PayloadBytes(c)
  <1>1. [i \in DOMAIN <<c>> |-> PayloadBytes((<<c>>)[i])] = <<PayloadBytes(c)>>
    OBVIOUS
  <1> QED BY <1>1, FlattenOne DEF WrittenBytes

\* Two commands.
LEMMA WrittenTwo ==
  ASSUME NEW c, NEW d, PayloadBytes(c) \in Seq(Nat), PayloadBytes(d) \in Seq(Nat)
  PROVE  WrittenBytes(<<c, d>>) = PayloadBytes(c) \o PayloadBytes(d)
  <1>1. [i \in DOMAIN <<c, d>> |-> PayloadBytes((<<c, d>>)[i])] = <<PayloadBytes(c), PayloadBytes(d)>>
    OBVIOUS
  <1> QED BY <1>1, FlattenTwo, Zenon DEF WrittenBytes

\* The bytes n to n + k - 1 of the payload.
Stretch(n, k) == [i \in 1 .. k |-> n + i - 1]

\* A stretch of bytes is a sequence of numbers.
LEMMA StretchIs == ASSUME NEW n \in Nat, NEW k \in Nat PROVE Stretch(n, k) \in Seq(Nat)
  BY DEF Stretch

\* No bytes.
LEMMA StretchNone == ASSUME NEW n \in Nat PROVE Stretch(n, 0) = <<>>
  BY DEF Stretch

\* One stretch behind another.
LEMMA StretchMore ==
  ASSUME NEW n \in Nat, NEW k \in Nat PROVE Stretch(0, n) \o Stretch(n, k) = Stretch(0, n + k)
  BY DEF Stretch

\* Nothing added.
LEMMA NoMore == ASSUME NEW s \in Seq(Nat) PROVE s \o <<>> = s /\ <<>> \o s = s
  OBVIOUS

\* What a command of whole blocks writes.
LEMMA CommandWrites ==
  ASSUME RpmbAssumption, NEW f \in {"RELW", "W"}, NEW n \in Nat, NEW s \in Nat,
         s % MMC_BLOCK_SIZE = 0
  PROVE  PayloadBytes(MmcCommand(f, n, s)) = Stretch(n, s)
  <1>1. (s \div MMC_BLOCK_SIZE) * MMC_BLOCK_SIZE = s
    BY WholeBlocks DEF RpmbAssumption
  <1>2. MmcCommand(f, n, s).flag # "R" /\ MmcCommand(f, n, s).data = n
        /\ MmcCommand(f, n, s).blocks = s \div MMC_BLOCK_SIZE
    BY DEF MmcCommand
  <1> QED BY <1>1, <1>2, Zenon DEF PayloadBytes, Stretch

\* A read writes nothing.
LEMMA ReadWrites == ASSUME NEW s PROVE PayloadBytes(MmcCommand("R", 0, s)) = <<>>
  BY DEF PayloadBytes, MmcCommand

\* Up to three commands are a list of commands.
LEMMA CommandList ==
  ASSUME NEW S, NEW u \in S, NEW v \in S, NEW w \in S
  PROVE  <<>> \in Seq(S) /\ <<u>> \in Seq(S) /\ <<u, v>> \in Seq(S) /\ <<u, v, w>> \in Seq(S)
  <1>1. <<>> \in Seq(S) /\ <<u>> \in Seq(S) /\ <<u, v>> \in Seq(S)
    OBVIOUS
  <1>2. <<u, v, w>> \in Seq(S)
    OBVIOUS
  <1> QED BY <1>1, <1>2, Zenon

\* A second and a third command are added at the end.
LEMMA SecondCommand == ASSUME NEW u, NEW v PROVE Append(<<u>>, v) = <<u, v>>
  <1> DEFINE s == <<u>>
             t == <<u, v>>
             S == {u, v}
  <1>1. s \in Seq(S) /\ t \in Seq(S) /\ v \in S BY CommandList
  <1>2. Len(s) = 1 /\ s[1] = u OBVIOUS
  <1>3. Len(t) = 2 /\ t[1] = u /\ t[2] = v OBVIOUS
  <1> HIDE DEF s, t, S
  <1>4. /\ Append(s, v) \in Seq(S) /\ Len(Append(s, v)) = Len(s) + 1
        /\ \A i \in 1 .. Len(s) : Append(s, v)[i] = s[i]
        /\ Append(s, v)[Len(s) + 1] = v
    BY <1>1, AppendProperties
  <1>5. Len(Append(s, v)) = 2 /\ \A i \in 1 .. 2 : Append(s, v)[i] = t[i]
    BY <1>2, <1>3, <1>4
  <1>6. Append(s, v) = t BY <1>1, <1>3, <1>4, <1>5, SeqEqual
  <1> QED BY <1>6 DEF s, t

\* A third command.
LEMMA ThirdCommand == ASSUME NEW u, NEW v, NEW w PROVE Append(<<u, v>>, w) = <<u, v, w>>
  <1> DEFINE s == <<u, v>>
             t == <<u, v, w>>
             S == {u, v, w}
  <1>1. s \in Seq(S) /\ t \in Seq(S) /\ w \in S BY CommandList
  <1>2. Len(s) = 2 /\ s[1] = u /\ s[2] = v OBVIOUS
  <1>3. Len(t) = 3 /\ t[1] = u /\ t[2] = v /\ t[3] = w OBVIOUS
  <1> HIDE DEF s, t, S
  <1>4. /\ Append(s, w) \in Seq(S) /\ Len(Append(s, w)) = Len(s) + 1
        /\ \A i \in 1 .. Len(s) : Append(s, w)[i] = s[i]
        /\ Append(s, w)[Len(s) + 1] = w
    BY <1>1, AppendProperties
  <1>5. Len(Append(s, w)) = 3 /\ \A i \in 1 .. 3 : Append(s, w)[i] = t[i]
    BY <1>2, <1>3, <1>4
  <1>6. Append(s, w) = t BY <1>1, <1>3, <1>4, <1>5, SeqEqual
  <1> QED BY <1>6 DEF s, t

\* The commands, by which of the sizes are zero.
LEMMA AllCmdsAre ==
  ASSUME NEW c, c = MmcCommand("RELW", 0, req.relw),
         NEW d, d = MmcCommand("W", req.relw, req.w),
         NEW e, e = MmcCommand("R", 0, req.r)
  PROVE  AllCmds = IF req.relw = 0
                     THEN IF req.w = 0 THEN IF req.r = 0 THEN <<>> ELSE <<e>>
                          ELSE IF req.r = 0 THEN <<d>> ELSE <<d, e>>
                     ELSE IF req.w = 0 THEN IF req.r = 0 THEN <<c>> ELSE <<c, e>>
                          ELSE IF req.r = 0 THEN <<c, d>> ELSE <<c, d, e>>
  <1>1. AllCmds = IF req.r = 0 THEN WriteCmds ELSE Append(WriteCmds, e)
    BY Zenon DEF AllCmds
  <1>2. WriteCmds = IF req.w = 0 THEN RelwCmds ELSE Append(RelwCmds, d)
    BY Zenon DEF WriteCmds
  <1>3. RelwCmds = IF req.relw = 0 THEN <<>> ELSE <<c>>
    BY Zenon DEF RelwCmds
  <1>4. /\ Append(<<>>, d) = <<d>> /\ Append(<<>>, e) = <<e>> /\ Append(<<c>>, d) = <<c, d>>
        /\ Append(<<c>>, e) = <<c, e>> /\ Append(<<d>>, e) = <<d, e>>
        /\ Append(<<c, d>>, e) = <<c, d, e>>
    <2>1. Append(<<>>, d) = <<d>> /\ Append(<<>>, e) = <<e>>
      OBVIOUS
    <2> QED BY <2>1, SecondCommand, ThirdCommand, Zenon
  <1> QED BY <1>1, <1>2, <1>3, <1>4, Zenon

\* The commands of a request with whole blocks write its payload.
LEMMA AllWritten ==
  ASSUME RpmbAssumption, req \in Req, WholeWrites
  PROVE  WrittenBytes(AllCmds) = Stretch(0, req.relw + req.w)
  <1> DEFINE c == MmcCommand("RELW", 0, req.relw)
             d == MmcCommand("W", req.relw, req.w)
             e == MmcCommand("R", 0, req.r)
             x == Stretch(0, req.relw)
             y == Stretch(req.relw, req.w)
  <1>1. req.relw \in Nat /\ req.w \in Nat /\ req.r \in Nat
    BY DEF Req, RpmbAssumption
  <1>2. PayloadBytes(c) = x /\ PayloadBytes(d) = y /\ PayloadBytes(e) = <<>>
    BY <1>1, CommandWrites, ReadWrites, 0 \in Nat DEF WholeWrites
  <1>3. x \in Seq(Nat) /\ y \in Seq(Nat)
    BY <1>1, StretchIs, 0 \in Nat, Zenon
  <1>4. /\ x \o y = Stretch(0, req.relw + req.w)
        /\ req.relw = 0 => x = <<>>
        /\ req.w = 0 => y = <<>>
    BY <1>1, StretchMore, StretchNone, 0 \in Nat
  <1>5. /\ x \o <<>> = x /\ <<>> \o y = y /\ y \o <<>> = y /\ (x \o y) \o <<>> = x \o y
        /\ <<>> \o <<>> = <<>> /\ <<>> \in Seq(Nat)
    BY <1>3, NoMore
  <1>6. AllCmds = IF req.relw = 0
                    THEN IF req.w = 0 THEN IF req.r = 0 THEN <<>> ELSE <<e>>
                         ELSE IF req.r = 0 THEN <<d>> ELSE <<d, e>>
                    ELSE IF req.w = 0 THEN IF req.r = 0 THEN <<c>> ELSE <<c, e>>
                         ELSE IF req.r = 0 THEN <<c, d>> ELSE <<c, d, e>>
    BY AllCmdsAre, Zenon
  <1> HIDE DEF c, d, e, x, y
  <1>7. WrittenBytes(<<e>>) = <<>> /\ WrittenBytes(<<d>>) = y /\ WrittenBytes(<<c>>) = x
    BY <1>2, <1>3, <1>5, WrittenOne, Zenon
  <1>8. /\ WrittenBytes(<<d, e>>) = y \o <<>> /\ WrittenBytes(<<c, e>>) = x \o <<>>
        /\ WrittenBytes(<<c, d>>) = x \o y
    BY <1>2, <1>3, <1>5, WrittenTwo, Zenon
  <1>9. WrittenBytes(<<c, d, e>>) = (x \o y) \o <<>>
    <2>1. [i \in DOMAIN <<c, d, e>> |-> PayloadBytes((<<c, d, e>>)[i])] = <<x, y, <<>>>>
      BY <1>2
    <2>2. \A z \in Seq(Nat) : FlattenSeq(<<x, y, z>>) = (x \o y) \o z
      BY <1>3, FlattenThree, Zenon
    <2> QED BY <1>5, <2>1, <2>2, Zenon DEF WrittenBytes
  <1> QED BY <1>4, <1>5, <1>6, <1>7, <1>8, <1>9, WrittenNone, Zenon

\* The commands are a sequence of at most these three.
LEMMA AllCmdsSeq ==
  ASSUME NEW c, c = MmcCommand("RELW", 0, req.relw),
         NEW d, d = MmcCommand("W", req.relw, req.w),
         NEW e, e = MmcCommand("R", 0, req.r)
  PROVE  AllCmds \in Seq({c, d, e})
  <1>1. AllCmds = IF req.relw = 0
                    THEN IF req.w = 0 THEN IF req.r = 0 THEN <<>> ELSE <<e>>
                         ELSE IF req.r = 0 THEN <<d>> ELSE <<d, e>>
                    ELSE IF req.w = 0 THEN IF req.r = 0 THEN <<c>> ELSE <<c, e>>
                         ELSE IF req.r = 0 THEN <<c, d>> ELSE <<c, d, e>>
    BY AllCmdsAre, Zenon
  <1>2. c \in {c, d, e} /\ d \in {c, d, e} /\ e \in {c, d, e}
    OBVIOUS
  <1> QED BY <1>1, <1>2, CommandList, Zenon

\* The command that reads stays within read_buf, in all of the commands and in
\* those the device has run when it fails.
LEMMA ReadsFit ==
  ASSUME RpmbAssumption, req \in Req, ReadFits, NEW n \in 0 .. Len(AllCmds)
  PROVE  \A i \in DOMAIN SubSeq(AllCmds, 1, n) :
           LET m == SubSeq(AllCmds, 1, n)[i]
           IN  m.flag = "R" => m.blocks * MMC_BLOCK_SIZE <= ReadBuf
  <1> DEFINE c == MmcCommand("RELW", 0, req.relw)
             d == MmcCommand("W", req.relw, req.w)
             e == MmcCommand("R", 0, req.r)
             fits(m) == m.flag = "R" => m.blocks * MMC_BLOCK_SIZE <= ReadBuf
  <1>1. fits(c) /\ fits(d) /\ fits(e)
    <2>1. e.blocks = req.r \div MMC_BLOCK_SIZE /\ c.flag # "R" /\ d.flag # "R"
      BY DEF MmcCommand
    <2>2. (req.r \div MMC_BLOCK_SIZE) * MMC_BLOCK_SIZE = req.r
      <3>1. req.r \in Nat /\ MMC_BLOCK_SIZE \in Nat \ {0} /\ req.r % MMC_BLOCK_SIZE = 0
        BY DEF ReadFits, Req, RpmbAssumption
      <3> QED BY <3>1, WholeBlocks, Zenon
    <2> HIDE DEF c, d, e
    <2> QED BY <2>1, <2>2 DEF ReadFits
  <1>2. AllCmds \in Seq({c, d, e})
    BY AllCmdsSeq, Zenon
  <1> HIDE DEF c, d, e, fits
  <1>4. SubSeq(AllCmds, 1, n) \in Seq({c, d, e})
    BY <1>2
  <1>5. \A i \in DOMAIN SubSeq(AllCmds, 1, n) : SubSeq(AllCmds, 1, n)[i] \in {c, d, e}
    BY <1>4
  <1>6. \A i \in DOMAIN SubSeq(AllCmds, 1, n) : fits(SubSeq(AllCmds, 1, n)[i])
    BY <1>1, <1>5, Zenon
  <1> QED BY <1>6, Zenon DEF fits

\* rpmb_send starts in the invariant.
LEMMA RpmbStarts == ASSUME RpmbAssumption, RpmbInit PROVE RpmbInv
  BY DEF RpmbAssumption, RpmbInit, RpmbInv, NoReq, Req, TransferIsExact

\* The device is opened or closed, or a message arrives.
LEMMA OutsideKeeps ==
  ASSUME RpmbAssumption, RpmbInv, rpmb_open \/ rpmb_close \/ Receive PROVE RpmbInv'
  <1>1. CASE rpmb_open \/ rpmb_close
    BY <1>1 DEF RpmbAssumption, RpmbInv, rpmb_open, rpmb_close, TransferIsExact
  <1>2. CASE Receive
    BY <1>2 DEF RpmbAssumption, RpmbInv, Receive, TransferIsExact
  <1> QED BY <1>1, <1>2

\* rpmb_send: the length of the message is checked.
LEMMA CheckLengthKeeps == ASSUME RpmbAssumption, RpmbInv, CheckLength PROVE RpmbInv'
  BY DEF RpmbAssumption, RpmbInv, CheckLength, ErrResponse, TransferIsExact

\* A request that is refused has run nothing.
LEMMA RefusedKeeps ==
  ASSUME RpmbAssumption, RpmbInv, sendPc # "respond", NEW e, e # "STORAGE_NO_ERROR",
         ErrResponse(e), UNCHANGED <<req, req_len, deviceRan>>
  PROVE  RpmbInv'
  BY DEF RpmbAssumption, RpmbInv, ErrResponse, TransferIsExact

\* rpmb_send: the command of the reliable write.
LEMMA ReliableWriteKeeps == ASSUME RpmbAssumption, RpmbInv, ReliableWriteCmd PROVE RpmbInv'
  <1> USE DEF ReliableWriteCmd
  <1>1. CASE req.relw = 0
    <2>1. sendPc' = "w" /\ UNCHANGED <<write_buf, cmds, result, answered>>
      BY <1>1 DEF Adds
    <2>2. 0 % MMC_BLOCK_SIZE = 0
      BY DEF RpmbAssumption
    <2> QED BY <1>1, <2>1, <2>2 DEF RpmbInv, TransferIsExact, RelwCmds
  <1>2. CASE req.relw # 0 /\ req.relw % MMC_BLOCK_SIZE # 0
    BY <1>2, RefusedKeeps DEF Adds, RpmbInv
  <1>3. CASE req.relw # 0 /\ req.relw % MMC_BLOCK_SIZE = 0
    <2>1. 0 + req.relw = req.relw
      BY DEF RpmbInv, Req, RpmbAssumption
    <2>2. /\ cmds' = Append(cmds, MmcCommand("RELW", write_buf, req.relw))
          /\ write_buf' = write_buf + req.relw
          /\ sendPc' = "w" /\ UNCHANGED <<result, answered>>
      BY <1>3 DEF Adds, MmcCommand
    <2>3. write_buf = 0 /\ cmds = <<>>
      BY DEF RpmbInv
    <2>4. Append(<<>>, MmcCommand("RELW", 0, req.relw)) = <<MmcCommand("RELW", 0, req.relw)>>
      OBVIOUS
    <2>5. cmds' = RelwCmds'
      BY <1>3, <2>2, <2>3, <2>4, Zenon DEF RelwCmds, MmcCommand
    <2> QED BY <1>3, <2>1, <2>2, <2>3, <2>5 DEF RpmbInv, TransferIsExact
  <1> QED BY <1>1, <1>2, <1>3

\* rpmb_send: the command of the write, behind the reliable one.
LEMMA WriteCmdKeeps == ASSUME RpmbAssumption, RpmbInv, WriteCmd PROVE RpmbInv'
  <1> USE DEF WriteCmd
  <1>1. CASE req.w = 0
    <2>1. 0 % MMC_BLOCK_SIZE = 0
      BY DEF RpmbAssumption
    <2> QED BY <1>1, <2>1 DEF RpmbInv, Adds, TransferIsExact, WriteCmds, RelwCmds, WholeWrites
  <1>2. CASE req.w # 0 /\ req.w % MMC_BLOCK_SIZE # 0
    BY <1>2, RefusedKeeps DEF Adds, RpmbInv
  <1>3. CASE req.w # 0 /\ req.w % MMC_BLOCK_SIZE = 0
    BY <1>3 DEF RpmbInv, Adds, TransferIsExact, WriteCmds, RelwCmds, MmcCommand, WholeWrites
  <1> QED BY <1>1, <1>2, <1>3

\* rpmb_send: the command of the read.
LEMMA ReadCmdKeeps == ASSUME RpmbAssumption, RpmbInv, ReadCmd PROVE RpmbInv'
  <1> USE DEF ReadCmd
  <1>1. CASE req.r = 0
    <2>1. 0 % MMC_BLOCK_SIZE = 0 /\ 0 <= ReadBuf
      BY DEF RpmbAssumption
    <2>2. /\ sendPc' = "ioctl" /\ sendPc = "r"
          /\ UNCHANGED <<write_buf, cmds, result, answered, req, req_len, deviceRan>>
      BY <1>1 DEF Adds
    <2>3. ReadFits' /\ AllCmds' = WriteCmds
      BY <1>1, <2>1, <2>2 DEF ReadFits, AllCmds, WriteCmds, RelwCmds, MmcCommand
    <2>4. WholeWrites' = WholeWrites
      BY <2>2 DEF WholeWrites
    <2> QED BY <2>2, <2>3, <2>4 DEF RpmbInv, TransferIsExact
  <1>2. CASE req.r # 0 /\ ~ReadFits
    BY <1>2, RefusedKeeps DEF Adds, RpmbInv, ReadFits
  <1>3. CASE req.r # 0 /\ ReadFits
    BY <1>3 DEF RpmbInv, Adds, TransferIsExact, AllCmds, WriteCmds, RelwCmds, MmcCommand, WholeWrites, ReadFits
  <1> QED BY <1>1, <1>2, <1>3

\* The commands the device has run, all of them or those before it failed.
LEMMA IoctlKeeps == ASSUME RpmbAssumption, RpmbInv, Ioctl PROVE RpmbInv'
  <1> DEFINE fits(s) == \A i \in DOMAIN s : s[i].flag = "R" => s[i].blocks * MMC_BLOCK_SIZE <= ReadBuf
  <1>1. /\ sendPc = "ioctl" /\ cmds = AllCmds /\ WholeWrites /\ ReadFits /\ req \in Req
        /\ req_len = HeaderSize + req.relw + req.w /\ req_len \in Nat
    BY DEF RpmbInv, Ioctl
  <1>2. req.relw \in Nat /\ req.w \in Nat /\ req.r \in Nat /\ req.r <= ReadBuf
        /\ HeaderSize \in Nat /\ ReadBuf \in Nat
    BY <1>1 DEF Req, ReadFits, RpmbAssumption
  <1>3. sendPc' = "respond" /\ req' = req /\ req_len' = req_len
    BY DEF Ioctl, ErrResponse
  <1>4. ASSUME NEW n \in 0 .. Len(AllCmds) PROVE fits(SubSeq(AllCmds, 1, n))
    BY <1>1, ReadsFit, Zenon
  <1>5. CASE result' = "STORAGE_NO_ERROR" /\ deviceRan' = cmds /\ answered' = req.r
    <2>1. WrittenBytes(AllCmds) = Stretch(0, req_len - HeaderSize)
      <3>1. req_len - HeaderSize = req.relw + req.w
        BY <1>1, <1>2
      <3> QED BY <1>1, <3>1, AllWritten, Zenon
    <2>2. Stretch(0, req_len - HeaderSize) = [i \in 1 .. req_len - HeaderSize |-> i - 1]
      BY <1>1, <1>2 DEF Stretch
    <2>3. fits(AllCmds)
      <3>1. AllCmds = SubSeq(AllCmds, 1, Len(AllCmds)) /\ Len(AllCmds) \in 0 .. Len(AllCmds)
        <4>1. PICK S : AllCmds \in Seq(S)
          BY AllCmdsSeq, Zenon
        <4> QED BY <4>1, SubSeqFull, LenProperties
      <3> QED BY <1>4, <3>1, Zenon
    <2>4. TransferIsExact'
      BY <1>1, <1>2, <1>3, <1>5, <2>1, <2>2, <2>3, Zenon DEF TransferIsExact
    <2> QED BY <1>1, <1>3, <2>4 DEF RpmbInv
  <1>6. CASE result' = "STORAGE_ERR_GENERIC" /\ answered' = 0
             /\ \E n \in 0 .. Len(cmds) : deviceRan' = SubSeq(cmds, 1, n)
    <2>1. fits(deviceRan')
      BY <1>1, <1>4, <1>6, Zenon
    <2>2. 0 <= ReadBuf
      BY <1>2
    <2>3. TransferIsExact'
      BY <1>3, <1>6, <2>1, <2>2 DEF TransferIsExact
    <2> QED BY <1>1, <1>3, <2>3 DEF RpmbInv
  <1> QED BY <1>5, <1>6 DEF Ioctl, ErrResponse

\* rpmb_send answers, and waits for the next request.
LEMMA RespondKeeps == ASSUME RpmbAssumption, RpmbInv, Respond PROVE RpmbInv'
  BY DEF RpmbAssumption, RpmbInv, Respond, NoReq, Req, TransferIsExact

\* Every step keeps the invariant.
LEMMA RpmbNextKeeps ==
  ASSUME RpmbAssumption, RpmbInv, [RpmbNext]_rpmbVars PROVE RpmbInv'
  <1>1. CASE rpmb_send
    BY <1>1, CheckLengthKeeps, ReliableWriteKeeps, WriteCmdKeeps, ReadCmdKeeps, IoctlKeeps,
       RespondKeeps, Zenon DEF rpmb_send
  <1>2. CASE UNCHANGED rpmbVars
    BY <1>2 DEF RpmbInv, TransferIsExact, RelwCmds, WriteCmds, AllCmds, WholeWrites, ReadFits,
                rpmbVars
  <1> QED BY <1>1, <1>2, OutsideKeeps, Zenon DEF RpmbNext

\* TransferIsExact, for requests, messages and blocks of every size: what the
\* device has run when rpmb_send reports success is the whole payload, and it
\* never reads beyond read_buf.
THEOREM TransferSafe == RpmbAssumption => (RpmbSpec => []TransferIsExact)
  <1> SUFFICES ASSUME RpmbAssumption PROVE RpmbSpec => []TransferIsExact
    OBVIOUS
  <1>1. RpmbInit => RpmbInv
    BY RpmbStarts
  <1>2. RpmbInv /\ [RpmbNext]_rpmbVars => RpmbInv'
    BY RpmbNextKeeps
  <1>3. RpmbInv => TransferIsExact
    BY DEF RpmbInv
  <1> QED BY <1>1, <1>2, <1>3, PTL DEF RpmbSpec

=============================================================================
