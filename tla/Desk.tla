-------------------------------- MODULE Desk ---------------------------------
(***************************************************************************)
(* ResearchSystem and the tools in one specification.  The computations of *)
(* DeskTools work on their inputs alone and touch nothing of the system,   *)
(* so it is enough to make the calls before the system takes its first     *)
(* step (bound), rather than in each of its states.                        *)
(***************************************************************************)
EXTENDS ResearchSystem, DeskTools

vars == <<systemVars, call>>

Init == SystemInit /\ CallInit

Next ==
  \/ SystemNext /\ call = NoCall /\ UNCHANGED call
  \/ SystemInit /\ ToolNext /\ UNCHANGED systemVars

Spec == Init /\ [][Next]_vars

FairSpec == Spec /\ SystemFairness

TypeOK == DeployTypeOK /\ LoadsTypeOK /\ WorkerTypeOK /\ call.tool \in {"none"} \cup DOMAIN Pool

=============================================================================
