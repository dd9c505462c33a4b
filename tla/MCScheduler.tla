---------------------------- MODULE MCScheduler ----------------------------
(***************************************************************************)
(* Windows and symmetry for checking Scheduler on small instances.         *)
(***************************************************************************)
EXTENDS Scheduler, TLC

\* radeontop: computed length 0, rate NaN.  powermetrics within a second:
\* computed rate below 0, so the server is preferred.
Shipped == {RadeonWindow(0, 4000), AppleWindow(900, 200, 50)}

\* A reporter that does measure the CPU.
Loaded == [AppleWindow(900, 200, 50) EXCEPT !.cpu = 90]

\* Both loads over the threshold, or only that of the GPU, which does not count.
ShippedAndLoaded == {AppleWindow(900, 200, 90), Loaded}

\* Call slots are interchangeable, and so are deployment ids.
Symmetry == Permutations(Tasks) \cup Permutations(Deployments)
=============================================================================
