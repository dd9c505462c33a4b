----------------------- MODULE MCDeploymentDatabase -----------------------
(***************************************************************************)
(* Two deployments of one name: their saves write to the same directory    *)
(* and to the same info file.                                              *)
(***************************************************************************)
EXTENDS DeploymentDatabase, TLC

CONSTANTS d1, d2

OneName == d1 :> "face" @@ d2 :> "face"
=============================================================================
