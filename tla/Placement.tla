----------------------------- MODULE Placement -----------------------------
(***************************************************************************)
(* What a scheduler promises about where applications run, without saying  *)
(* how: an application is started on a server, then that place is listed,  *)
(* and only listed places are given to clients.  Listings disappear all at *)
(* once or not at all; what runs and what was answered cannot be taken back*)
(***************************************************************************)
CONSTANTS Deployments, Servers

VARIABLES
  running,  \* <<d, s>>: d was started on s
  listed,   \* <<d, s>>: the scheduler knows that d runs on s
  answers   \* <<d, s>>: a client asking for d was sent to s

placement == <<running, listed, answers>>

Init ==
  /\ running = {}
  /\ listed = {}
  /\ answers = {}

Start(d, s) ==
  /\ running' = running \cup {<<d, s>>}
  /\ UNCHANGED <<listed, answers>>

List(d, s) ==
  /\ <<d, s>> \in running
  /\ listed' = listed \cup {<<d, s>>}
  /\ UNCHANGED <<running, answers>>

Answer(d, s) ==
  /\ <<d, s>> \in listed
  /\ answers' = answers \cup {<<d, s>>}
  /\ UNCHANGED <<running, listed>>

Forget ==
  /\ listed' = {}
  /\ UNCHANGED <<running, answers>>

Next ==
  \/ Forget
  \/ \E d \in Deployments, s \in Servers :
       Start(d, s) \/ List(d, s) \/ Answer(d, s)

Spec == Init /\ [][Next]_placement
=============================================================================
