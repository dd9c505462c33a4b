-------------------------- MODULE MCSchedulerNode --------------------------
(***************************************************************************)
(* A usable "face" application and one that cannot be instantiated.        *)
(***************************************************************************)
EXTENDS SchedulerNode

CONSTANTS good, bad

\* powermetrics, and a reporter that measures a CPU over the threshold.
ShippedAndLoaded ==
  {AppleWindow(900, 200, 50), [AppleWindow(900, 200, 50) EXCEPT !.cpu = 90]}
=============================================================================
