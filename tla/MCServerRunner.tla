---------------------------- MODULE MCServerRunner ----------------------------
(***************************************************************************)
(* A usable "face" application, one that cannot be instantiated, and one   *)
(* of another name.                                                        *)
(***************************************************************************)
EXTENDS ServerRunner

CONSTANTS good, bad, other
=============================================================================
