---------------------------- MODULE MCTeeClient -----------------------------
(***************************************************************************)
(* The TEE client library, for model checking: what its calls do to        *)
(* contexts, sessions and memory (TeeClient), and what the parameters of   *)
(* an operation carry (TeecParams).  The two look at different data, and   *)
(* a behaviour runs one of them; the initial state says which.             *)
(***************************************************************************)
EXTENDS TeeClient, TeecParams, TLC

CONSTANT p

VARIABLE active  \* the component that runs

stackVars == <<active, vars, paramsVars>>

\* The parameters of an operation: every direction, and windows that overlap.
Dirs     == {{"in"}, {"out"}, {"in", "out"}}
MCParams ==
  [kind : {"value"}, dir : Dirs, offset : {0}, size : {0}]
  \cup [kind : {"whole"}, dir : {{}}, offset : {0}, size : {0}]
  \cup [kind : {"partial"}, dir : Dirs, offset : {0, 1}, size : {1}]
  \cup [kind : {"partial"}, dir : {{"out"}}, offset : {0}, size : {2}]
  \cup [kind : {"temp"}, dir : Dirs, offset : {0}, size : {1}]

\* The operation of the client: a temporary reference and a partial one.
MCTypes == (p :> <<"temp", "partial">>) @@ (NullOp :> <<>>)

ASSUME InstanceAssumption ==
  /\ TeeClientAssumption
  /\ TempFirst
  /\ IdsAreThere
  /\ TeecParamsAssumption

-----------------------------------------------------------------------------
\* One component runs; the others stay in one of their initial states.
StackInit ==
  /\ active \in {"client", "params"}
  /\ Init
  /\ ParamsInit
  /\ active # "params" => flags = {} /\ registered

\* A step of a component: it is the one that runs, and leaves the others alone.
OnlyClient == active = "client" /\ UNCHANGED <<active, paramsVars>>
OnlyParams == active = "params" /\ UNCHANGED <<active, vars>>

StackNext ==
  \/ OnlyClient /\ Next
  \/ OnlyParams /\ ParamsNext

StackSpec == StackInit /\ [][StackNext]_stackVars

=============================================================================
