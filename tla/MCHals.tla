------------------------------- MODULE MCHals -------------------------------
(***************************************************************************)
(* The processes that serve a TA on a connection of their own, for model   *)
(* checking: those of the lite stack beside the storage proxy, and KeyMint *)
(* of the 400 stack.  They share no state, so that what one of them may do *)
(* does not depend on the others: a behaviour runs one of them, with all   *)
(* of its interleavings with its TA, and the initial state says which.     *)
(*                                                                         *)
(* KeyMint has two operation objects and three handles: one more than the  *)
(* objects can hold, so that a handle of a closed session can stay with an *)
(* object while the TA hands out others.                                   *)
(***************************************************************************)
EXTENDS TipcKeymaster, LiteGatekeeper, LiteKmSetKey, Rpmb, KeyMint

CONSTANT c1  \* one of the commands

VARIABLE active  \* the component that runs

stackVars == <<active, callVars, vars, installVars, rpmbVars, mintVars>>

ASSUME InstanceAssumption ==
  /\ TipcKeymasterAssumption
  /\ LiteGatekeeperAssumption
  /\ LiteKmSetKeyAssumption
  /\ RpmbAssumption

-----------------------------------------------------------------------------
\* One component runs; the others stay in one of their initial states.
StackInit ==
  /\ active \in {"keymaster", "gatekeeper", "kmsetkey", "rpmb", "keymint"}
  /\ CallInit
  /\ active # "keymaster" => cmd = c1
  /\ Init
  /\ InstallInit
  /\ active # "kmsetkey" => ~zeroFree
  /\ RpmbInit
  /\ MintInit

\* A step of a component: it is the one that runs, and leaves the others alone.
OnlyKm == active = "keymaster" /\ UNCHANGED <<active, vars, installVars, rpmbVars, mintVars>>
OnlyGk == active = "gatekeeper" /\ UNCHANGED <<active, callVars, installVars, rpmbVars, mintVars>>
OnlySk == active = "kmsetkey" /\ UNCHANGED <<active, callVars, vars, rpmbVars, mintVars>>
OnlyRp == active = "rpmb" /\ UNCHANGED <<active, callVars, vars, installVars, mintVars>>
OnlyMint == active = "keymint" /\ UNCHANGED <<active, callVars, vars, installVars, rpmbVars>>

StackNext ==
  \/ OnlyKm /\ CallNext
  \/ OnlyGk /\ Next
  \/ OnlySk /\ InstallNext
  \/ OnlyRp /\ RpmbNext
  \/ OnlyMint /\ MintNext

\* The thread of the process that runs is scheduled, and its TA takes what it is sent.
Thread == (OnlyKm /\ CallService) \/ (OnlyGk /\ Service) \/ (OnlyMint /\ Work)
Ta     == (OnlyKm /\ TaTakes) \/ (OnlyGk /\ TaAnswers)
StackSpec ==
  StackInit /\ [][StackNext]_stackVars /\ WF_stackVars(Thread) /\ WF_stackVars(Ta)

-----------------------------------------------------------------------------
\* bp_keymaster_send and trusty_gatekeeper_call: a client that keeps calling
\* the keymaster is answered again, and every call of the gatekeeper returns.
ServiceGoesOn == Recovers /\ EveryCallReturns
=============================================================================
