----------------------------- MODULE TeecParams -----------------------------
(***************************************************************************)
(* What the parameters of an operation carry (tee_client_api.cpp): the     *)
(* library copies the caller's data to the memory the TA sees, and what    *)
(* the TA wrote back.  One shared block, registered (with a shadow) or     *)
(* allocated (mapped into both), one buffer for temporary references, and  *)
(* operations of two parameters that may overlap in the block.  The TA and *)
(* the driver are external: the TA writes what it likes into the windows   *)
(* of its output parameters, and reports any size.                         *)
(*                                                                         *)
(* A byte is told apart by who wrote it and where: the caller before this  *)
(* call, the TA during it, or an earlier call.                             *)
(***************************************************************************)
EXTENDS Integers, Sequences

CONSTANTS
  Size,   \* bytes in the block and in the temporary buffer
  Param   \* the parameters an operation may have

\* Assumed of the constants.
TeecParamsAssumption ==
  /\ Size \in Nat \ {0}
  /\ Param \subseteq [kind : {"value", "whole", "partial", "temp"}, dir : SUBSET {"in", "out"},
                      offset : 0 .. Size, size : 0 .. Size]
  /\ \A p \in Param : p.offset + p.size <= Size

Index == 1 .. Size
Slot  == 1 .. 2

VARIABLES
  flags,       \* shm->flags
  registered,  \* whether the block has a shadow buffer
  buffer,      \* the block as the caller sees it
  shadow,      \* shm->shadow_buffer
  tmpbuf,      \* the buffer of the caller's temporary reference
  tmpshm,      \* the library's copy of it
  value,       \* the value parameter: the caller's and the one passed
  op,          \* the parameters of the call
  pc,          \* "called", "tee" while the TA runs, "back", or "done"
  ret,         \* the sizes the TA reports
  before,      \* the caller's data when the call was made
  res          \* the outcome of the call

paramsVars == <<flags, registered, buffer, shadow, tmpbuf, tmpshm, value, op, pc, ret, before, res>>

Caller == [buffer |-> buffer, tmpbuf |-> tmpbuf, value |-> value.own,
           size |-> [n \in Slot |-> op[n].size]]

By(who) == [i \in Index |-> <<who, i>>]

\* Two temporary references would have a buffer each; one is enough here.
Operations == {o \in [Slot -> Param] :
                 /\ ~(o[1].kind = "temp" /\ o[2].kind = "temp")
                 /\ ~(o[1].kind = "value" /\ o[2].kind = "value")}

ParamsInit ==
  /\ flags \in SUBSET {"in", "out"}
  /\ registered \in BOOLEAN
  /\ buffer = By("old") /\ shadow = By("old") /\ tmpbuf = By("old") /\ tmpshm = By("old")
  /\ value = [own |-> "old", passed |-> "old"]
  /\ op = [n \in Slot |-> [kind |-> "value", dir |-> {}, offset |-> 0, size |-> 0]]
  /\ pc = "done" /\ ret = [n \in Slot |-> 0] /\ res = "none"
  /\ before = Caller

-----------------------------------------------------------------------------
\* The part of its memory a parameter names.
Window(p) == IF p.kind = "whole" THEN Index
             ELSE {i \in Index : i > p.offset /\ i <= p.offset + p.size}

\* The direction of a parameter; that of a whole reference is its block's.
Dir(p) == IF p.kind = "whole" THEN flags ELSE p.dir

\* Copy the window W of src over dst.
CopyInto(dst, src, W) == [i \in Index |-> IF i \in W THEN src[i] ELSE dst[i]]

teec_pre_process_whole(s) ==
  IF registered /\ "in" \in flags THEN CopyInto(s, buffer, Index) ELSE s

\* Mutant of teec_pre_process_partial: nothing is copied for INOUT.
teec_pre_process_partial_in_only(p, s) ==
  IF registered /\ p.dir = {"in"} THEN CopyInto(s, buffer, Window(p)) ELSE s

teec_pre_process_partial(p, s) ==
  IF registered /\ "in" \in p.dir THEN CopyInto(s, buffer, Window(p)) ELSE s

\* The parameters teec_pre_process_operation refuses.
Refused(p) == \/ p.kind = "whole" /\ flags = {}
              \/ p.kind = "partial" /\ ~(p.dir \subseteq flags)

PreShadow(p, s) ==
  IF Refused(p) THEN s
  ELSE IF p.kind = "whole" THEN teec_pre_process_whole(s)
  ELSE IF p.kind = "partial" THEN teec_pre_process_partial(p, s) ELSE s

\* The shadow after the parameters before the first one that is refused.
Shadowed(o) == IF Refused(o[1]) THEN shadow
               ELSE PreShadow(o[2], PreShadow(o[1], shadow))

\* The caller fills its buffers and makes the next call.
Prepare(o) ==
  /\ pc = "done"
  /\ op' = o /\ pc' = "called" /\ res' = "none" /\ ret' = [n \in Slot |-> 0]
  /\ buffer' = By("caller") /\ tmpbuf' = By("caller")
  /\ value' = [own |-> "caller", passed |-> "old"]
  /\ shadow' = By("old") /\ tmpshm' = By("old")
  /\ before' = Caller'
  /\ UNCHANGED <<flags, registered>>

\* A temporary reference is copied whatever its direction.  A parameter that
\* is refused ends the call.
pre_process_operation ==
  /\ pc = "called"
  /\ shadow' = Shadowed(op)
  /\ tmpshm' = [i \in Index |-> IF \E n \in Slot : op[n].kind = "temp" /\ i \in Window(op[n])
                                THEN tmpbuf[i] ELSE tmpshm[i]]
  /\ value' = [value EXCEPT !.passed = value.own]
  /\ \/ /\ \E n \in Slot : Refused(op[n])
        /\ pc' = "done" /\ res' = "failed"
     \/ /\ \A n \in Slot : ~Refused(op[n])
        /\ pc' = "tee" /\ UNCHANGED res
  /\ UNCHANGED <<flags, registered, buffer, tmpbuf, op, ret, before>>

\* The memory of parameter p as the TA sees it.
Shared(p) == IF p.kind = "temp" THEN tmpshm
             ELSE IF registered THEN shadow ELSE buffer

Outputs == {n \in Slot : "out" \in Dir(op[n]) /\ op[n].kind # "value"}
OutWindow(K) == UNION {Window(op[n]) : n \in {m \in Outputs : op[m].kind \in K}}

\* What the TA may make of the contents s: its own bytes anywhere in W.
Written(s, W) == {CopyInto(s, By("ta"), V) : V \in SUBSET W}

\* The TA's writes, and the sizes it reports; Size + 1 is "too small".
TaRuns ==
  /\ pc = "tee"
  /\ tmpshm' \in Written(tmpshm, OutWindow({"temp"}))
  /\ IF registered
     THEN shadow' \in Written(shadow, OutWindow({"whole", "partial"})) /\ UNCHANGED buffer
     ELSE buffer' \in Written(buffer, OutWindow({"whole", "partial"})) /\ UNCHANGED shadow
  /\ value' \in {value, [value EXCEPT !.passed = "ta"]}
  /\ ret' \in {r \in [Slot -> 0 .. Size + 1] : \A n \in Slot \ Outputs : r[n] = 0}
  /\ pc' = "back"
  /\ UNCHANGED <<flags, registered, tmpbuf, op, before, res>>

\* The ioctl itself fails: nothing is copied back.
ioctlFails ==
  /\ pc = "tee"
  /\ pc' = "done" /\ res' = "failed"
  /\ UNCHANGED <<flags, registered, buffer, shadow, tmpbuf, tmpshm, value, op, ret, before>>

\* Mutant of FitsIn: the reported size is not compared with the window.
FitsIn_any(p, r) == TRUE

\* What comes back fits in what the caller gave.
FitsIn(p, r) == r <= IF p.kind = "whole" THEN Size ELSE p.size

\* The bytes of parameter n that are copied back.
Back(n) == {i \in Index : /\ n \in Outputs /\ FitsIn(op[n], ret[n])
                          /\ i > (IF op[n].kind = "partial" THEN op[n].offset ELSE 0)
                          /\ i <= (IF op[n].kind = "partial" THEN op[n].offset ELSE 0) + ret[n]}

post_process_whole(b) ==
  IF registered THEN CopyInto(b, shadow, UNION {Back(n) : n \in {m \in Slot : op[m].kind = "whole"}})
  ELSE b

post_process_partial(b) ==
  IF registered THEN CopyInto(b, shadow, UNION {Back(n) : n \in {m \in Slot : op[m].kind = "partial"}})
  ELSE b

post_process_tmpref(t) ==
  CopyInto(t, tmpshm, UNION {Back(n) : n \in {m \in Slot : op[m].kind = "temp"}})

\* Mutant of teec_post_process_operation: the size of a parameter is only
\* updated when its data came back.
post_process_operation_size_if_fits ==
  /\ pc = "back"
  /\ buffer' = post_process_partial(post_process_whole(buffer))
  /\ tmpbuf' = post_process_tmpref(tmpbuf)
  /\ value' = IF \E n \in Slot : op[n].kind = "value" /\ "out" \in op[n].dir
              THEN [value EXCEPT !.own = value.passed] ELSE value
  /\ op' = [n \in Slot |-> IF n \in Outputs /\ FitsIn(op[n], ret[n])
                           THEN [op[n] EXCEPT !.size = ret[n]] ELSE op[n]]
  /\ pc' = "done" /\ res' = "returned"
  /\ UNCHANGED <<flags, registered, shadow, tmpshm, ret, before>>

\* The loop over the parameters.  The sources are the block's shadow and the
\* temporary copy, which it does not write, so its order does not matter.
teec_post_process_operation ==
  /\ pc = "back"
  /\ buffer' = post_process_partial(post_process_whole(buffer))
  /\ tmpbuf' = post_process_tmpref(tmpbuf)
  /\ value' = IF \E n \in Slot : op[n].kind = "value" /\ "out" \in op[n].dir
              THEN [value EXCEPT !.own = value.passed] ELSE value
  /\ op' = [n \in Slot |-> IF n \in Outputs THEN [op[n] EXCEPT !.size = ret[n]] ELSE op[n]]
  /\ pc' = "done" /\ res' = "returned"
  /\ UNCHANGED <<flags, registered, shadow, tmpshm, ret, before>>

ParamsNext ==
  \/ \E o \in Operations : Prepare(o)
  \/ pre_process_operation \/ TaRuns \/ ioctlFails \/ teec_post_process_operation

ParamsSpec == ParamsInit /\ [][ParamsNext]_paramsVars

-----------------------------------------------------------------------------
\* While the TA runs, every input parameter shows it the caller's own bytes,
\* whatever the other parameter and earlier calls did to the shadow.
TaSeesInput ==
  pc = "tee" => \A n \in Slot :
    /\ "in" \in Dir(op[n]) /\ op[n].kind # "value" =>
         \A i \in Window(op[n]) :
           Shared(op[n])[i] = IF op[n].kind = "temp" THEN tmpbuf[i] ELSE buffer[i]
    /\ op[n].kind = "value" => value.passed = value.own

\* After a call, what the TA wrote in the part of an output it reports is what
\* the caller finds there, with the size the TA reported, also for overlapping
\* parameters; and a size that does not fit is reported without the data.
OutputDelivered ==
  pc = "done" /\ res = "returned" => \A n \in Slot :
    "out" \in Dir(op[n]) /\ op[n].kind # "value" =>
      /\ op[n].size = ret[n]
      /\ \A i \in Index :
           /\ op[n].kind = "whole" /\ ret[n] <= Size /\ i <= ret[n] => buffer[i] = Shared(op[n])[i]
           /\ /\ op[n].kind = "partial" /\ ret[n] <= before.size[n]
              /\ i > op[n].offset /\ i <= op[n].offset + ret[n]
              => buffer[i] = Shared(op[n])[i]
           /\ op[n].kind = "temp" /\ ret[n] <= before.size[n] /\ i <= ret[n] => tmpbuf[i] = tmpshm[i]

\* The window an output parameter had when the call was made, cut to what the
\* TA reports.
Granted(n) == {i \in Index :
                 /\ "out" \in Dir(op[n])
                 /\ \/ op[n].kind = "whole" /\ i <= ret[n]
                    \/ /\ op[n].kind = "partial" /\ i > op[n].offset
                       /\ i <= op[n].offset + before.size[n] /\ i <= op[n].offset + ret[n]
                    \/ op[n].kind = "temp" /\ i <= before.size[n] /\ i <= ret[n]}

\* A byte of the caller's registered or temporary buffer that no output
\* parameter grants, or that lies beyond what the TA reports, keeps its value;
\* after a call that failed nothing of the caller's has changed.
RestKept ==
  pc = "done" =>
    /\ res = "failed" => Caller = before
    /\ res = "returned" => \A i \in Index :
         /\ registered /\ (\A n \in Slot : op[n].kind \in {"whole", "partial"} => i \notin Granted(n))
            => buffer[i] = before.buffer[i]
         /\ (\A n \in Slot : op[n].kind = "temp" => i \notin Granted(n))
            => tmpbuf[i] = before.tmpbuf[i]
=============================================================================
