---------------------------- MODULE SchedulerNode ----------------------------
(***************************************************************************)
(* The node of the scheduler: Scheduler and ServerRunner in one process.   *)
(*                                                                         *)
(* They meet in three places.  A deploy saves the application in the       *)
(* node's own database.  When the server it chooses is its own node, the   *)
(* handler calls the daemon that the node is serving, and the answer makes *)
(* the runner replace the service that the deploy itself came through.     *)
(* And the service that follows waits for the scheduler's mutex before it  *)
(* listens: what ServerRunner calls blocked is a task here, which holds it.*)
(*                                                                         *)
(* The same AuthoritativeScheduler is handed from service to service, and  *)
(* handlers go on when theirs is replaced.  Only the scheduler calls the   *)
(* daemon's spawn: the call of handler t is the call t of ServerRunner.    *)
(*                                                                         *)
(* The cluster is this node alone: other servers, which join, report and   *)
(* are chosen, are the subject of Scheduler.                               *)
(***************************************************************************)
EXTENDS Scheduler

CONSTANTS
  Face, Sound, MaxCalls   \* of ServerRunner

VARIABLES
  \* of ServerRunner; call and calling are its pc and arg
  state, command, phase, offers, listened, held, channel, apps, acked,
  call, calling, calls, starts

Run == INSTANCE ServerRunner WITH
         pc <- call, arg <- calling, blocked <- (lock # Free),
         None <- Nil, MaxStarts <- 1

ASSUME NodeConstants ==
  /\ Servers = {Self}
  /\ Face \subseteq Deployments /\ Sound \subseteq Deployments
  /\ MaxCalls \in Nat

scheduler == vars
runner == <<state, command, phase, offers, listened, held, channel, apps, acked,
            call, calling, calls, starts>>
nodeVars == <<scheduler, runner>>

NodeInit == Init /\ Run!Init /\ command = "authoritative"

Alive == phase # "exited"

(***************************************************************************)
(* Steps of the scheduler alone.                                           *)
(***************************************************************************)
\* Calls come through the listener, or a connection from before.
NodeArrive(t) ==
  /\ listened # {}
  /\ Arrive(t)
  /\ UNCHANGED runner

Handle(t) ==
  /\ Alive
  /\ \/ Report(t)
     \/ LookupRefused(t)   \/ LookupAnswer(t)
     \/ ScaleNotNeeded(t)  \/ ScaleOut(t)
     \/ DeployClone(t)     \/ DeploySaveFails(t)
     \/ Select(t)          \/ Commit(t)
  /\ UNCHANGED runner

(***************************************************************************)
(* The deploy and the node's own database and daemon.                      *)
(***************************************************************************)
\* deploy: save_deployment ends in the database of this node.
SaveHere(t) ==
  /\ DeploySave(t)
  /\ Run!DeployHere(arg[t].d)

ConnectHere(t) ==
  /\ phase = "listen"
  /\ pc[t] = "spawn"
  /\ UNCHANGED scheduler
  /\ Run!Call(t, "spawn", Run!gen, arg[t].d)

\* Between two services nobody listens.
RefusedHere(t) ==
  /\ Alive /\ phase # "listen"
  /\ pc[t] = "spawn" /\ call[t] = "idle"
  /\ SpawnFails(t)
  /\ UNCHANGED runner

\* The daemon has nothing to save: SaveHere has been there (see NodeTypeOK).
DaemonWorks(t) ==
  /\ UNCHANGED scheduler
  /\ Run!SpawnLock(t) \/ Run!SendKeep(t)

DaemonNotes(t) == SpawnTakesEffect(t) /\ Run!NoteInstance(t)

\* A changed form: the handler does not wait for the daemon's answer.
ConfirmedHere_early(t) ==
  /\ Alive
  /\ SpawnConfirmed(t)
  /\ UNCHANGED runner

ConfirmedHere(t) ==
  /\ Alive /\ call[t] = "idle"
  /\ SpawnConfirmed(t)
  /\ UNCHANGED runner

\* The handler of a caller that is gone takes the call it is waiting for along.
NodeCallerLeaves(t) ==
  /\ Alive
  /\ CallerLeaves(t)
  /\ IF call[t] = "idle" THEN UNCHANGED runner ELSE Run!CallerLeaves(t)

(***************************************************************************)
(* The runner.                                                             *)
(***************************************************************************)
ReceiveKeep == UNCHANGED scheduler /\ Run!ReceiveKeep

\* Not while a task holds the mutex of the scheduler (see Run!LookupFace).
LookupFace == UNCHANGED scheduler /\ Run!LookupFace

Serve == UNCHANGED scheduler /\ (Run!Listen \/ Run!ServiceFails)

NodeStep(t) ==
  \/ SaveHere(t)    \/ ConnectHere(t) \/ RefusedHere(t) \/ ConfirmedHere(t)
  \/ DaemonWorks(t) \/ DaemonNotes(t)
  \/ Handle(t)

Runs == ReceiveKeep \/ LookupFace \/ Serve

NodeNext ==
  \/ Runs
  \/ \E t \in Tasks : NodeArrive(t) \/ NodeCallerLeaves(t) \/ NodeStep(t)

NodeSpec == NodeInit /\ [][NodeNext]_nodeVars

\* As in the two modules: tasks that can go on do; the runner is one of them,
\* and goes on with its service or takes a command.
FairNodeSpec ==
  /\ NodeSpec
  /\ WF_nodeVars(Runs)
  /\ \A t \in Tasks : WF_nodeVars(NodeStep(t))
-----------------------------------------------------------------------------
(***************************************************************************)
(* Properties.                                                             *)
(***************************************************************************)
\* Types of both; a call to the daemon has a handler that waits for it, and
\* what the scheduler counts as saved is in the database, so that no call to
\* the daemon comes to save an application.
NodeTypeOK ==
  /\ TypeOK /\ Run!TypeOK
  /\ \A t \in Tasks :
       (Alive /\ call[t] # "idle") =>
         /\ call[t] \in {"spawn", "note", "send"}
         /\ pc[t] \in {"spawn", "spawned"}
         /\ arg[t].d = calling[t].d
  /\ saved \subseteq apps

Offering == phase = "listen" /\ offers[Run!gen] # Nil

\* A scale-out task waits for the mutex that it holds itself, which only an
\* overload brings about (BlockedOnlyByOverload).
Blocked == \E t \in Tasks : lock = t /\ pc[t] = "select"

\* When the scheduler lists an application named "face" at its own node and
\* the node listens with no command waiting, the application is offered there.
ListedIsOffered ==
  \A d \in DOMAIN instances \cap Face :
    (\E i \in DOMAIN instances[d] : instances[d][i] = Self)
      /\ phase = "listen" /\ channel = 0
        => offers[Run!gen] # Nil

\* From deploy to use: a client that was sent to this node for a "face"
\* application finds it offered in the end, unless the process ends or a
\* scale-out has blocked the scheduler.
AnsweredIsServed ==
  (\E d \in Face : <<d, Self>> \in answered) ~> (Offering \/ ~ Alive \/ Blocked)

\* The node comes to rest: its service is back after every deploy that replaced
\* it, although it waits for the mutex of the scheduler, whose handlers wait for
\* the daemon, whose calls wait for the runner; and deploys have ended, also
\* those whose answer comes back through a service that they replace.
Deploying == \E t \in Tasks : Deploys(t)

ComesToRest ==
  (phase # "listen" \/ Deploying)
    ~> ((phase = "listen" /\ ~ Deploying) \/ ~ Alive \/ Blocked)
-----------------------------------------------------------------------------
(***************************************************************************)
(* The inductive invariant: those of the two modules, and what they know   *)
(* of each other.                                                          *)
(***************************************************************************)
\* A call to the daemon is that of a handler which waits for it.
CallsMatch ==
  \A t \in Tasks :
    /\ call[t] \in {"idle", "spawn", "note", "send"}
    /\ call[t] \in {"spawn", "note"} => pc[t] = "spawn"
    /\ call[t] = "send" => pc[t] = "spawned"
    /\ call[t] # "idle" => arg[t].d = calling[t].d

\* A handler that goes on past its call has the daemon's answer, and so has
\* whatever is listed.
AckedBeforeListed ==
  Alive =>
    /\ DOMAIN instances \subseteq acked
    /\ \A t \in Tasks :
         (pc[t] = "spawned" /\ call[t] = "idle") \/ pc[t] = "commit" => arg[t].d \in acked

\* Whoever calls the scheduler has come through a listener of this process.
CallersHaveConnected ==
  Alive /\ listened = {} => \A t \in Tasks : pc[t] = "idle"

\* All of it: what each step of the node preserves.
NodeIInv ==
  /\ IInv /\ Run!IInv
  /\ CallsMatch /\ AckedBeforeListed /\ CallersHaveConnected
  /\ saved \subseteq apps
  /\ state = "authoritative"
  /\ phase = "listen" => Run!gen \in listened
=============================================================================
