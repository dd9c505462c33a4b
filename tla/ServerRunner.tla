---------------------------- MODULE ServerRunner ----------------------------
(***************************************************************************)
(* One node: the loop of ServerRunner, which starts one service after the  *)
(* other, the daemons of these services, and the channel between them.     *)
(*                                                                         *)
(* Each turn of the loop creates a daemon with a mutex of its own and      *)
(* serves it until a command arrives.  Dropping a service closes its       *)
(* listener; connections that were accepted are tasks of their own and go  *)
(* on using the daemon they were accepted for.                             *)
(*                                                                         *)
(* Of the database only the set of applications is kept here: how they are *)
(* saved is the subject of DeploymentDatabase, and the reporter that each  *)
(* service starts that of ClusterNodes.  Of the scheduler that an          *)
(* authoritative node hands from service to service only its mutex is      *)
(* kept, and of that only whether it is gone for good: SchedulerNode joins *)
(* the node to the scheduler itself.                                       *)
(***************************************************************************)
EXTENDS Integers, Sequences

CONSTANTS
  Tasks,        \* slots for calls to a daemon
  Deployments,  \* deployment ids
  Face,         \* the deployments whose application is named "face"
  Sound,        \* those whose binaries can be read and instantiated
  Free, None,   \* no holder of a mutex; no deployment
  MaxCalls,     \* bound: calls that reach the node
  MaxStarts     \* bound: starts of the process

ASSUME RunnerConstants ==
  /\ Face \subseteq Deployments /\ Sound \subseteq Deployments
  /\ None \notin Deployments /\ Free \notin Tasks
  /\ MaxCalls \in Nat /\ MaxStarts \in Nat

VARIABLES
  state,      \* DaemonState: "joining", "running", "authoritative"
  command,    \* the state that the start command asks for
  phase,      \* how far start_service has come
  offers,     \* service -> the deployment its router serves as "face", or None
  listened,   \* the services that have accepted connections
  held,       \* service -> holder of its daemon's mutex
  channel,    \* commands in the state channel, all of them Keep
  apps,       \* applications in the database
  acked,      \* deployments for which some spawn was answered
  blocked,    \* a scale-out task keeps the mutex of the scheduler on this node
  pc, arg,    \* progress of each call; the service and deployment it is for
  calls, starts

runner == <<state, command, phase, offers, listened>>
vars == <<runner, held, channel, apps, acked, blocked, pc, arg, calls, starts>>

gen == Len(offers)

Phases == {"connect", "create", "build", "listen", "exited"}

NoArg == [g |-> 0, d |-> None]

FirstPhase(s) == IF s = "joining" THEN "connect" ELSE "create"

Init ==
  /\ command \in {"joining", "authoritative"}
  /\ state = command
  /\ phase = FirstPhase(state)
  /\ offers = <<None>>
  /\ listened = {}
  /\ held = <<Free>>
  /\ channel = 0
  /\ apps = {}
  /\ acked = {}
  /\ blocked = FALSE
  /\ pc = [t \in Tasks |-> "idle"]
  /\ arg = [t \in Tasks |-> NoArg]
  /\ calls = 0
  /\ starts = 1

(***************************************************************************)
(* The loop of run_start.  A service that ends without an error does so    *)
(* only in join_cluster; one that ends with an error ends the process.     *)
(***************************************************************************)
NextService(s) ==
  /\ state' = s
  /\ phase' = FirstPhase(s)
  /\ offers' = Append(offers, None)
  /\ held' = Append(held, Free)

JoinSucceeds ==
  /\ phase = "connect"
  /\ NextService("running")
  /\ UNCHANGED <<command, listened, channel, apps, acked, pc, arg, blocked, calls, starts>>

\* A changed form: the command is taken and the service goes on.
ReceiveKeep_ignored ==
  /\ phase # "exited"
  /\ channel = 1
  /\ channel' = 0
  /\ UNCHANGED <<runner, held, apps, acked, pc, arg, blocked, calls, starts>>

\* StateCommand::Keep. 
ReceiveKeep ==
  /\ phase # "exited"
  /\ channel = 1
  /\ channel' = 0
  /\ NextService(state)
  /\ UNCHANGED <<command, listened, apps, acked, pc, arg, blocked, calls, starts>>

(***************************************************************************)
(* start_service, for a node that has joined or is the scheduler.          *)
(***************************************************************************)
\* start_authoritative asks the scheduler for its group before anything else.
\* lookup("face") takes whichever application of that name it comes upon.
LookupFace ==
  /\ phase = "create"
  /\ state = "authoritative" => ~ blocked
  /\ phase' = "build"
  /\ \E d \in IF apps \cap Face = {} THEN {None} ELSE apps \cap Face :
       offers' = [offers EXCEPT ![gen] = d]
  /\ UNCHANGED <<state, command, listened, held, channel, apps, acked, pc, arg, blocked, calls, starts>>

\* A changed form: an application that cannot be instantiated is left out.
Listen_lenient ==
  /\ phase = "build"
  /\ phase' = "listen"
  /\ listened' = listened \cup {gen}
  /\ UNCHANGED <<state, command, offers, held, channel, apps, acked, pc, arg, blocked, calls, starts>>

\* FaceServer::create, then serve.
Listen ==
  /\ phase = "build"
  /\ offers[gen] \in Sound \cup {None}
  /\ phase' = "listen"
  /\ listened' = listened \cup {gen}
  /\ UNCHANGED <<state, command, offers, held, channel, apps, acked, pc, arg, blocked, calls, starts>>

Exit ==
  /\ phase' = "exited"
  /\ listened' = {}
  /\ held' = [g \in DOMAIN held |-> Free]
  /\ channel' = 0
  /\ pc' = [t \in Tasks |-> "idle"]
  /\ arg' = [t \in Tasks |-> NoArg]
  /\ UNCHANGED <<state, command, offers, apps, acked, blocked, calls, starts>>

\* The scheduler does not answer, the application cannot be read or
\* instantiated, or the address cannot be bound.
ServiceFails == phase \in {"connect", "build"} /\ Exit

Crash == phase # "exited" /\ Exit

Start ==
  /\ phase = "exited"
  /\ starts < MaxStarts
  /\ starts' = starts + 1
  /\ state' = command
  /\ phase' = FirstPhase(command)
  /\ offers' = <<None>>
  /\ held' = <<Free>>
  /\ blocked' = FALSE
  /\ UNCHANGED <<command, listened, channel, apps, acked, pc, arg, calls>>

(***************************************************************************)
(* Calls to the daemon of service g.  spawn keeps the daemon's mutex until *)
(* add_instance has sent its command.                                      *)
(***************************************************************************)
Goto(t, from, to) ==
  /\ pc[t] = from
  /\ pc' = [pc EXCEPT ![t] = to]

Call(t, op, g, d) ==
  /\ calls < MaxCalls
  /\ calls' = calls + 1
  /\ Goto(t, "idle", op)
  /\ arg' = [arg EXCEPT ![t] = [g |-> g, d |-> d]]
  /\ UNCHANGED <<runner, held, channel, apps, acked, blocked, starts>>

\* A changed form: the guard is not dropped.
Return_keepsMutex(t, from) ==
  /\ Goto(t, from, "idle")
  /\ arg' = [arg EXCEPT ![t] = NoArg]
  /\ UNCHANGED held

\* A call that ends gives back the mutex if it holds it.
Return(t, from) ==
  /\ Goto(t, from, "idle")
  /\ arg' = [arg EXCEPT ![t] = NoArg]
  /\ held' = [held EXCEPT ![arg[t].g] = IF @ = t THEN Free ELSE @]

\* A changed form: the daemon's guard is kept while the call waits for the
\* scheduler's.
GetInfo_keepsGuard(t) ==
  /\ pc[t] = "get_info" /\ held[arg[t].g] = Free
  /\ IF state = "authoritative"
       THEN Goto(t, "get_info", "group") /\ held' = [held EXCEPT ![arg[t].g] = t]
                                        /\ UNCHANGED arg
       ELSE Return(t, "get_info")
  /\ UNCHANGED <<runner, channel, apps, acked, blocked, calls, starts>>

\* The daemon of the scheduler asks the scheduler for the group.
GetInfo(t) ==
  /\ pc[t] = "get_info" /\ held[arg[t].g] = Free
  /\ IF state = "authoritative"
       THEN Goto(t, "get_info", "group") /\ UNCHANGED <<held, arg>>
       ELSE Return(t, "get_info")
  /\ UNCHANGED <<runner, channel, apps, acked, blocked, calls, starts>>

GetGroup(t) ==
  /\ ~ blocked
  /\ Return(t, "group")
  /\ UNCHANGED <<runner, channel, apps, acked, blocked, calls, starts>>

SpawnLock(t) ==
  /\ Goto(t, "spawn", IF arg[t].d \in apps THEN "note" ELSE "save")
  /\ held[arg[t].g] = Free
  /\ held' = [held EXCEPT ![arg[t].g] = t]
  /\ UNCHANGED <<runner, channel, apps, acked, arg, blocked, calls, starts>>

Save(t) ==
  /\ Goto(t, "save", "note")
  /\ apps' = apps \cup {arg[t].d}
  /\ UNCHANGED <<runner, held, channel, acked, arg, blocked, calls, starts>>

SaveFails(t) ==
  /\ Return(t, "save")
  /\ UNCHANGED <<runner, channel, apps, acked, blocked, calls, starts>>

\* A changed form: the call is answered and no command sent.
NoteInstance_silent(t) ==
  /\ Return(t, "note")
  /\ acked' = acked \cup {arg[t].d}
  /\ UNCHANGED <<runner, channel, apps, blocked, calls, starts>>

Sent(t) ==
  /\ channel = 0
  /\ channel' = 1
  /\ acked' = acked \cup {arg[t].d}

\* A send that finds room does not wait.
NoteInstance(t) ==
  /\ IF channel = 0 /\ \A u \in Tasks : pc[u] # "send"
       THEN Return(t, "note") /\ Sent(t)
       ELSE Goto(t, "note", "send") /\ UNCHANGED <<arg, held, channel, acked>>
  /\ UNCHANGED <<runner, apps, blocked, calls, starts>>

SendKeep(t) ==
  /\ Return(t, "send")
  /\ Sent(t)
  /\ UNCHANGED <<runner, apps, blocked, calls, starts>>

CallerLeaves(t) ==
  /\ \E from \in {"get_info", "group", "spawn", "save", "note", "send"} : Return(t, from)
  /\ UNCHANGED <<runner, channel, apps, acked, blocked, calls, starts>>

\* deploy of the scheduler on this node saves an application and sends nothing.
\* It has read the runtime before it saves, so it may be older than the block.
DeployHere(d) ==
  /\ state = "authoritative"
  /\ listened # {}
  /\ calls < MaxCalls
  /\ calls' = calls + 1
  /\ apps' = apps \cup {d}
  /\ UNCHANGED <<runner, held, channel, acked, pc, arg, blocked, starts>>

\* A lookup through the listener finds its server overloaded: the task that it
\* leaves behind locks the runtime, and locks it again (see Scheduler).
ScaleOutBlocks ==
  /\ state = "authoritative"
  /\ listened # {} /\ apps # {}
  /\ ~ blocked /\ blocked' = TRUE
  /\ UNCHANGED <<runner, held, channel, apps, acked, pc, arg, calls, starts>>

Arrive(t) ==
  \E g \in listened :
    \/ Call(t, "get_info", g, None)
    \/ \E d \in Deployments : Call(t, "spawn", g, d)

Step(t) ==
  \/ GetInfo(t)   \/ GetGroup(t)
  \/ SpawnLock(t) \/ Save(t) \/ SaveFails(t)
  \/ NoteInstance(t) \/ SendKeep(t)

Service == LookupFace \/ Listen \/ JoinSucceeds \/ ServiceFails

Next ==
  \/ ReceiveKeep \/ Service \/ Crash \/ Start \/ ScaleOutBlocks
  \/ \E d \in Deployments : DeployHere(d)
  \/ \E t \in Tasks : Arrive(t) \/ Step(t) \/ CallerLeaves(t)

Spec == Init /\ [][Next]_vars

\* select polls both of its futures, so the loop goes on when a command is
\* there, and a service goes on until it listens or fails: unless it waits for
\* a mutex that is never given back, which no fairness helps.
FairSpec ==
  /\ Spec
  /\ WF_vars(ReceiveKeep) /\ WF_vars(Service)
  /\ \A t \in Tasks : WF_vars(Step(t))
-----------------------------------------------------------------------------
(***************************************************************************)
(* Properties.                                                             *)
(***************************************************************************)
Progress == {"idle", "get_info", "group", "spawn", "save", "note", "send"}

\* Types.  A mutex is held by a call to the service that it belongs to.
TypeOK ==
  /\ state \in {"joining", "running", "authoritative"}
  /\ command \in {"joining", "authoritative"}
  /\ phase \in Phases
  /\ offers \in Seq(Face \cup {None}) /\ offers # <<>>
  /\ listened \subseteq DOMAIN offers
  /\ held \in [DOMAIN offers -> Tasks \cup {Free}]
  /\ \A g \in DOMAIN offers : held[g] # Free => arg[held[g]].g = g
  /\ channel \in 0 .. 1
  /\ apps \subseteq Deployments
  /\ acked \subseteq Deployments
  /\ blocked \in BOOLEAN
  /\ pc \in [Tasks -> Progress]
  /\ arg \in [Tasks -> [g : Nat, d : Deployments \cup {None}]]
  /\ \A t \in Tasks : pc[t] # "idle" => arg[t].g \in listened
  /\ calls \in Nat /\ starts \in Nat

\* spawn says success before the service is restarted.  Still, whoever finds
\* the node listening with no command left in the channel finds a "face"
\* application there, if one was ever acknowledged: before or after restarts,
\* and with the look-up of a starting service overtaken by the spawn.
AckedIsOffered ==
  (phase = "listen" /\ channel = 0 /\ acked \cap Face # {}) => offers[gen] # None

\* Once it was acknowledged, a "face" application is served, or the process
\* ends (spawns come to an end, too: each restarts the service).  The service
\* of a scheduler that a scale-out has blocked waits for ever before it listens.
AckedServed ==
  acked \cap Face # {} ~>
    \/ phase = "listen" /\ offers[gen] # None
    \/ phase = "exited"
    \/ blocked /\ phase = "create"

\* A node that ended with nothing but unusable "face" applications in its
\* store never listens again, however often it is started.
Poisoned == apps \cap Face # {} /\ apps \cap Face \cap Sound = {}

StaysPoisoned == [](phase = "exited" /\ Poisoned => [](phase # "listen"))

\* Calls to a daemon end, also those to daemons whose service has been
\* replaced, although spawn waits for the runner with the mutex in its hand.
\* Only get_info may wait for ever, for the mutex of a blocked scheduler; as it
\* has let go of the daemon's, spawns end even then.
EveryCallReturns ==
  \A t \in Tasks : pc[t] # "idle" ~> pc[t] = "idle" \/ (blocked /\ pc[t] = "group")
-----------------------------------------------------------------------------
(***************************************************************************)
(* The inductive invariant: what a call past the mutex knows.              *)
(***************************************************************************)
\* Calls have the arguments that their code reads, and only one that is past
\* the mutex of its daemon holds it.
CallsFit ==
  /\ \A t \in Tasks : pc[t] \notin {"idle", "get_info", "group"} => arg[t].d \in Deployments
  /\ \A g \in DOMAIN held :
       held[g] # Free => pc[held[g]] \in {"save", "note", "send"}

\* An application is in the database before spawn notes the instance and sends
\* its command, so it is there for the service that the command starts.
SavedFirst ==
  /\ acked \subseteq apps
  /\ \A t \in Tasks : pc[t] \in {"note", "send"} => arg[t].d \in apps

\* A service that was looked up after the last command has what was answered.
LookedUp ==
  (phase \in {"build", "listen"} /\ channel = 0 /\ acked \cap Face # {})
    => offers[gen] # None

\* Nothing of a process that has ended goes on.
EndedIsQuiet ==
  phase = "exited" =>
    listened = {} /\ channel = 0 /\ \A t \in Tasks : pc[t] = "idle"

\* All of it: what each step of the node preserves.
IInv == TypeOK /\ CallsFit /\ SavedFirst /\ LookedUp /\ EndedIsQuiet

\* Where a poisoned node stays: what it looks up cannot be instantiated, and no
\* call can reach it.
Barred ==
  /\ Poisoned
  /\ phase # "listen" /\ listened = {} /\ channel = 0
  /\ \A t \in Tasks : pc[t] = "idle"
  /\ phase = "build" => offers[gen] \in Face \ Sound
=============================================================================
