--------------------------- MODULE MCClusterNodes ---------------------------
(***************************************************************************)
(* The founder is not the node with the lowest id.                         *)
(***************************************************************************)
EXTENDS ClusterNodes

CONSTANT a
=============================================================================
