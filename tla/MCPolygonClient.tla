-------------------------- MODULE MCPolygonClient ---------------------------
(***************************************************************************)
(* An instance of PolygonClient for TLC.  The tasks are interchangeable.   *)
(***************************************************************************)
EXTENDS PolygonClient, TLC

TaskSymmetry == Permutations(Tasks)

=============================================================================
