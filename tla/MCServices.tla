----------------------------- MODULE MCServices -----------------------------
(***************************************************************************)
(* The services and the daemon of the 400 stack, for model checking; the   *)
(* client library and KeyMint have modules of their own.                   *)
(*                                                                         *)
(* Each component has state of its own: a process or, for KmParams and the *)
(* two parts of the daemon, data no other component here touches.  What    *)
(* one of them may do does not depend on the others, so that a behaviour   *)
(* runs one of them with all of its interleavings; the initial state says  *)
(* which.                                                                  *)
(***************************************************************************)
EXTENDS Gatekeeper, Keymaster4, KmParams, KmSetKey, TeeiProperty, TeeiBoot, TLC

CONSTANTS p, a, b, l

VARIABLE active  \* the component that runs

stackVars == <<active, allvars, kmVars, paramVars, keyboxVars, propertyVars, bootVars>>

GkTypes  == (p :> <<"whole">>) @@ (NullOp :> <<>>)
MCPrefix == l :> a

\* Command lines of the daemon, and the builds they are given to.
With(argv, drivers, minmem) == [argv |-> argv, drivers |-> drivers, minmem |-> minmem]
Setups == {With(<<"t", "r">>, TRUE, FALSE), With(<<"r", "odd">>, TRUE, FALSE),
           With(<<"h">>, TRUE, FALSE), With(<<"r", "t", "r", "t">>, TRUE, TRUE),
           With(<<"t">>, FALSE, FALSE), With(<<"t", "r", "t">>, TRUE, FALSE)}

ASSUME InstanceAssumption ==
  /\ TeeClientAssumption
  /\ TempFirst
  /\ GatekeeperAssumption
  /\ Keymaster4Assumption
  /\ KmParamsAssumption
  /\ KmSetKeyAssumption
  /\ TeeiPropertyAssumption
  /\ TeeiBootAssumption

-----------------------------------------------------------------------------
\* One component runs; the others stay in one of their initial states.
StackInit ==
  /\ active \in {"gatekeeper", "keymaster", "keyparams", "kmsetkey", "properties", "boot"}
  /\ GkInit
  /\ KmInit
  /\ ParamsInit
  /\ active # "keyparams" => keyParams = <<>> /\ last = 1
  /\ KeyboxInit
  /\ active # "kmsetkey" => productDevice = 0
  /\ PropertyInit
  /\ BootInit
  /\ active # "boot" => ~setup.drivers

\* A step of a component: it is the one that runs, and leaves the others alone.
OnlyGk ==
  /\ active = "gatekeeper"
  /\ UNCHANGED <<active, kmVars, paramVars, keyboxVars, propertyVars, bootVars>>
OnlyKm ==
  /\ active = "keymaster"
  /\ UNCHANGED <<active, allvars, paramVars, keyboxVars, propertyVars, bootVars>>
OnlyKp ==
  /\ active = "keyparams"
  /\ UNCHANGED <<active, allvars, kmVars, keyboxVars, propertyVars, bootVars>>
OnlySk ==
  /\ active = "kmsetkey"
  /\ UNCHANGED <<active, allvars, kmVars, paramVars, propertyVars, bootVars>>
OnlyPq ==
  /\ active = "properties"
  /\ UNCHANGED <<active, allvars, kmVars, paramVars, keyboxVars, bootVars>>
OnlyBt ==
  /\ active = "boot"
  /\ UNCHANGED <<active, allvars, kmVars, paramVars, keyboxVars, propertyVars>>

StackNext ==
  \/ OnlyGk /\ GkNext
  \/ OnlyKm /\ KmNext
  \/ OnlyKp /\ ParamsNext
  \/ OnlySk /\ KeyboxNext
  \/ OnlyPq /\ PropertyNext
  \/ OnlyBt /\ BootNext

\* Every thread of the process that runs is scheduled.  A process has one to
\* three of them: the daemon its main, vfs and property threads.
Thread1 == \/ OnlyGk /\ (Transfer \/ Returns)
           \/ OnlyKm /\ Work
           \/ OnlyPq /\ VfsStep
           \/ OnlyBt /\ main
Thread2 == (OnlyPq /\ SettingStep) \/ (OnlyBt /\ init_soter_fn)
Thread3 == OnlyBt /\ load_tee_fn
StackSpec ==
  /\ StackInit /\ [][StackNext]_stackVars
  /\ WF_stackVars(Thread1) /\ WF_stackVars(Thread2) /\ WF_stackVars(Thread3)

=============================================================================
