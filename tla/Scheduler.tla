----------------------------- MODULE Scheduler -----------------------------
(***************************************************************************)
(* AuthoritativeScheduler: the scheduler service of one cluster.           *)
(*                                                                         *)
(* All handlers share one SchedulerRuntime behind one tokio Mutex.  Every  *)
(* call in flight is a task that runs from one await to the next; a stretch*)
(* of code that holds the mutex and does not await is one step guarded by  *)
(* lock = Free.  Only the task that lookup leaves behind holds the mutex   *)
(* across an await, so only it ever stores itself in lock.                 *)
(*                                                                         *)
(* The daemons that are told to spawn an instance and the download of an   *)
(* application are outside: a call to them succeeds, fails, or takes       *)
(* effect and loses its answer.                                            *)
(***************************************************************************)
EXTENDS MeanScheduler, IdMaps

CONSTANTS
  Tasks,        \* slots for calls in flight
  Servers,      \* server ids
  Self,         \* the server the scheduler runs on
  Deployments,  \* deployment ids that Uuid::new_v4 can draw
  Windows,      \* the MonitorWindows servers report
  Free, Nil,    \* no holder of the mutex; no argument
  MaxServers,   \* bound: joins are issued while the server list is shorter
  MaxWindows,   \* bound: reports are issued while a server has fewer windows
  MaxRestarts   \* bound: restarts of the scheduler process

ASSUME SchedulerConstants ==
  /\ Self \in Servers
  /\ Windows \subseteq MonitorWindow
  /\ Free \notin Tasks
  /\ Nil \notin Servers \cup Deployments \cup Windows
  /\ MaxServers \in Nat /\ MaxWindows \in Nat /\ MaxRestarts \in Nat

VARIABLES
  servers,      \* cluster.servers
  instances,    \* cluster.instances: deployment id -> the servers listed
  stats,        \* cluster.server_stats: server id -> windows reported
  deployments,  \* keys of runtime.deployments
  saved,        \* deployments this node's database has acknowledged to have saved
  lock,         \* holder of the runtime mutex across an await
  pc, arg,      \* progress of each task; its deployment, server and window
  created,      \* deployment ids drawn so far
  spawned,      \* <<d, s>>: server s was told to run d, and did
  answered,     \* <<d, s>>: some lookup of d was answered with s
  restarts      \* restarts so far

runtime == <<servers, instances, stats, deployments>>
history == <<created, spawned, answered, restarts>>
vars == <<runtime, saved, lock, pc, arg, history>>

Progress == {"idle", "join", "joined", "report", "lookup", "clone", "save",
             "select", "spawn", "spawned", "commit", "scale"}

NoArg == [d |-> Nil, s |-> Nil, w |-> Nil]

Init ==
  /\ servers = <<Self>>
  /\ instances = EmptyMap
  /\ stats = EmptyMap
  /\ deployments = {}
  /\ saved = {}
  /\ lock = Free
  /\ pc = [t \in Tasks |-> "idle"]
  /\ arg = [t \in Tasks |-> NoArg]
  /\ created = {}
  /\ spawned = {}
  /\ answered = {}
  /\ restarts = 0

(***************************************************************************)
(* Control of a task.  Goto keeps the argument; Return ends the task, which*)
(* also drops the mutex guard if the task holds one.                       *)
(***************************************************************************)
Goto(t, from, to) ==
  /\ pc[t] = from
  /\ pc' = [pc EXCEPT ![t] = to]

Call(t, op, a) == Goto(t, "idle", op) /\ arg' = [arg EXCEPT ![t] = a]

Return(t, from) ==
  /\ Goto(t, from, "idle")
  /\ arg' = [arg EXCEPT ![t] = NoArg]
  /\ lock' = IF lock = t THEN Free ELSE lock

(***************************************************************************)
(* Calls arriving.                                                         *)
(***************************************************************************)
CallJoin(t, s) ==
  /\ Len(servers) < MaxServers
  /\ s # Self
  /\ Call(t, "join", [NoArg EXCEPT !.s = s])
  /\ UNCHANGED <<runtime, saved, lock, history>>

\* A reporter may outlive the scheduler process it joined, so the sender of a
\* report need not be in servers.
CallReport(t, s, w) ==
  /\ s \in DOMAIN stats => Len(stats[s]) < MaxWindows
  /\ Call(t, "report", [NoArg EXCEPT !.s = s, !.w = w])
  /\ UNCHANGED <<runtime, saved, lock, history>>

CallLookup(t, d) ==
  /\ d \in created
  /\ Call(t, "lookup", [NoArg EXCEPT !.d = d])
  /\ UNCHANGED <<runtime, saved, lock, history>>

\* DeploymentInfo::new draws the id before anything is locked.
CallDeploy(t, d) ==
  /\ d \notin created
  /\ created' = created \cup {d}
  /\ Call(t, "clone", [NoArg EXCEPT !.d = d])
  /\ UNCHANGED <<runtime, saved, lock, spawned, answered, restarts>>

(***************************************************************************)
(* join: the server is pushed and the group is read under two separate     *)
(* acquisitions.  The group never changes while the runtime exists.        *)
(***************************************************************************)
JoinPush(t) ==
  /\ lock = Free
  /\ Goto(t, "join", "joined")
  /\ servers' = Append(servers, arg[t].s)
  /\ UNCHANGED <<instances, stats, deployments, saved, lock, arg, history>>

JoinReply(t) ==
  /\ lock = Free
  /\ Return(t, "joined")
  /\ UNCHANGED <<runtime, saved, history>>

\* A changed form: what other servers have reported is lost.
Report_alone(t) ==
  /\ lock = Free
  /\ Return(t, "report")
  /\ stats' = AppendAt(EmptyMap, arg[t].s, <<arg[t].w>>)
  /\ UNCHANGED <<servers, instances, deployments, saved, history>>

Report(t) ==
  /\ lock = Free
  /\ Return(t, "report")
  /\ stats' = AppendAt(stats, arg[t].s, <<arg[t].w>>)
  /\ UNCHANGED <<servers, instances, deployments, saved, history>>

(***************************************************************************)
(* lookup: decided on a copy of the runtime, without another await.  The   *)
(* task lives on as the detached scale-out task.                           *)
(***************************************************************************)
\* A changed form: schedules over every server that ever reported.
LookupStats_all(d) == stats

LookupStats(d) == CloneByIds(stats, Elements(instances[d]))

\* Empty: "Deployment not found" or "Failed to schedule".
LookupChoices(d) ==
  IF d \in DOMAIN instances THEN ScheduleChoices(LookupStats(d), "cpu") ELSE {}

LookupRefused(t) ==
  /\ lock = Free
  /\ Return(t, "lookup")
  /\ LookupChoices(arg[t].d) = {}
  /\ UNCHANGED <<runtime, saved, history>>

LookupAnswer(t) ==
  /\ lock = Free
  /\ Goto(t, "lookup", "scale")
  /\ \E s \in LookupChoices(arg[t].d) :
       /\ arg' = [arg EXCEPT ![t].s = s]
       /\ answered' = answered \cup {<<arg[t].d, s>>}
  /\ UNCHANGED <<runtime, saved, lock, created, spawned, restarts>>

\* The detached task takes the mutex and keeps the guard to its end.
NeedsInstance(d, s) ==
  s \in DOMAIN stats /\ NeedsScaleOut(stats[s]) /\ d \in deployments

ScaleNotNeeded(t) ==
  /\ lock = Free
  /\ ~ NeedsInstance(arg[t].d, arg[t].s)
  /\ Return(t, "scale")
  /\ UNCHANGED <<runtime, saved, history>>

\* A changed form: the guard is dropped before deploy_in_us is called.
ScaleOut_guardDropped(t) ==
  /\ lock = Free
  /\ NeedsInstance(arg[t].d, arg[t].s)
  /\ Goto(t, "scale", "select")
  /\ UNCHANGED <<runtime, saved, lock, arg, history>>

\* deploy_in_us is called with the guard alive: it starts by locking again.
ScaleOut(t) ==
  /\ lock = Free
  /\ NeedsInstance(arg[t].d, arg[t].s)
  /\ Goto(t, "scale", "select")
  /\ lock' = t
  /\ UNCHANGED <<runtime, saved, arg, history>>

(***************************************************************************)
(* deploy: save the application here, then deploy_in_us.                   *)
(***************************************************************************)
\* A changed form: the application is not saved on this node first.
DeployClone_unsaved(t) ==
  /\ lock = Free
  /\ Goto(t, "clone", "select")
  /\ UNCHANGED <<runtime, saved, lock, arg, history>>

DeployClone(t) ==
  /\ lock = Free
  /\ Goto(t, "clone", "save")
  /\ UNCHANGED <<runtime, saved, lock, arg, history>>

DeploySave(t) ==
  /\ Goto(t, "save", "select")
  /\ saved' = saved \cup {arg[t].d}
  /\ UNCHANGED <<runtime, lock, arg, history>>

DeploySaveFails(t) ==
  /\ Return(t, "save")
  /\ UNCHANGED <<runtime, saved, history>>

(***************************************************************************)
(* deploy_in_us.                                                           *)
(***************************************************************************)
\* unwrap_or evaluates its argument first: servers[0] is read on every path.
Targets == IF DOMAIN stats = {} THEN {servers[1]} ELSE ScheduleChoices(stats, "cpu")

\* A changed form: the mutex lets its holder in again.
Select_reentrant(t) ==
  /\ lock \in {Free, t}
  /\ Goto(t, "select", "spawn")
  /\ \E s \in Targets : arg' = [arg EXCEPT ![t].s = s]
  /\ UNCHANGED <<runtime, saved, lock, history>>

\* A changed form: the guard under which the server is chosen is not dropped.
Select_keepsGuard(t) ==
  /\ lock = Free
  /\ Goto(t, "select", "spawn")
  /\ \E s \in Targets : arg' = [arg EXCEPT ![t].s = s]
  /\ lock' = t
  /\ UNCHANGED <<runtime, saved, history>>

Select(t) ==
  /\ lock = Free
  /\ Goto(t, "select", "spawn")
  /\ \E s \in Targets : arg' = [arg EXCEPT ![t].s = s]
  /\ UNCHANGED <<runtime, saved, lock, history>>

\* The daemon adds the instance; its answer is still on the way.
SpawnTakesEffect(t) ==
  /\ Goto(t, "spawn", "spawned")
  /\ spawned' = spawned \cup {<<arg[t].d, arg[t].s>>}
  /\ UNCHANGED <<runtime, saved, lock, arg, created, answered, restarts>>

SpawnConfirmed(t) ==
  /\ Goto(t, "spawned", "commit")
  /\ UNCHANGED <<runtime, saved, lock, arg, history>>

\* The daemon cannot be reached, refuses, or its answer is lost.
SpawnFails(t) ==
  /\ \/ Return(t, "spawn")
     \/ Return(t, "spawned")
  /\ UNCHANGED <<runtime, saved, history>>

\* "Update deployments information and instances information atomicly"
Commit(t) ==
  /\ lock = Free
  /\ Return(t, "commit")
  /\ deployments' = deployments \cup {arg[t].d}
  /\ instances' = AppendAt(instances, arg[t].d, <<arg[t].s>>)
  /\ UNCHANGED <<servers, stats, saved, history>>

(***************************************************************************)
(* A caller that goes away drops its handler at an await.  The scale-out   *)
(* task belongs to no caller.                                              *)
(***************************************************************************)
CallerLeaves(t) ==
  /\ pc[t] # "scale"
  /\ lock # t
  /\ \E from \in Progress \ {"idle"} : Return(t, from)
  /\ UNCHANGED <<runtime, saved, history>>

\* A changed form of Restart: the node does not put itself on the list.
Restart_alone ==
  /\ restarts < MaxRestarts
  /\ restarts' = restarts + 1
  /\ servers' = <<>>
  /\ instances' = EmptyMap
  /\ stats' = EmptyMap
  /\ deployments' = {}
  /\ lock' = Free
  /\ pc' = [t \in Tasks |-> "idle"]
  /\ arg' = [t \in Tasks |-> NoArg]
  /\ UNCHANGED <<saved, created, spawned, answered>>

(***************************************************************************)
(* The scheduler process dies and is started again as a scheduler, with    *)
(* nothing of its runtime; calls in flight are lost with it.  What becomes *)
(* of the database is the subject of DeploymentDatabase.                   *)
(***************************************************************************)
Restart ==
  /\ restarts < MaxRestarts
  /\ restarts' = restarts + 1
  /\ servers' = <<Self>>
  /\ instances' = EmptyMap
  /\ stats' = EmptyMap
  /\ deployments' = {}
  /\ lock' = Free
  /\ pc' = [t \in Tasks |-> "idle"]
  /\ arg' = [t \in Tasks |-> NoArg]
  /\ UNCHANGED <<saved, created, spawned, answered>>

Arrive(t) ==
  \/ \E s \in Servers : CallJoin(t, s)
  \/ \E s \in Servers, w \in Windows : CallReport(t, s, w)
  \/ \E d \in Deployments : CallLookup(t, d)
  \/ \E d \in Deployments : CallDeploy(t, d)

Step(t) ==
  \/ JoinPush(t)         \/ JoinReply(t)   \/ Report(t)
  \/ LookupRefused(t)    \/ LookupAnswer(t)
  \/ ScaleNotNeeded(t)   \/ ScaleOut(t)
  \/ DeployClone(t)      \/ DeploySave(t)  \/ DeploySaveFails(t)
  \/ Select(t)           \/ SpawnTakesEffect(t)
  \/ SpawnConfirmed(t)   \/ SpawnFails(t)  \/ Commit(t)

Next == Restart \/ \E t \in Tasks : Arrive(t) \/ CallerLeaves(t) \/ Step(t)

Spec == Init /\ [][Next]_vars

\* Nothing makes a call arrive, a caller leave or the process die; the tokio
\* executor runs every task that can go on, and a call to a daemon or to the
\* download ends in an answer or an error.
FairSpec == Spec /\ \A t \in Tasks : WF_vars(Step(t))
-----------------------------------------------------------------------------
(***************************************************************************)
(* Properties.                                                             *)
(***************************************************************************)
Args == [d : Deployments \cup {Nil}, s : Servers \cup {Nil}, w : Windows \cup {Nil}]

\* Types.  The list of servers always begins with the scheduler itself, so
\* deploy_in_us may read servers[0] (scheduler.rs:101) on every path.
TypeOK ==
  /\ servers \in Seq(Servers) /\ servers # <<>> /\ servers[1] = Self
  /\ IsIdMap(instances, Deployments, Seq(Servers))
  /\ IsIdMap(stats, Servers, Seq(Windows))
  /\ deployments \subseteq Deployments
  /\ saved \subseteq Deployments
  /\ lock \in Tasks \cup {Free}
  /\ pc \in [Tasks -> Progress]
  /\ arg \in [Tasks -> Args]
  /\ created \subseteq Deployments
  /\ spawned \subseteq Deployments \X Servers
  /\ answered \subseteq Deployments \X Servers
  /\ restarts \in Nat

Listed == {p \in Deployments \X Servers :
             p[1] \in DOMAIN instances /\ p[2] \in Elements(instances[p[1]])}

P == INSTANCE Placement WITH running <- spawned, listed <- Listed, answers <- answered

\* The scheduler implements Placement: however deploys, lookups, lost answers,
\* departing callers and restarts interleave, a lookup is answered only with
\* a server that was told to run the deployment and confirmed it.
RefinesPlacement == P!Spec

\* Every deployment that can be looked up is in both registries and has one
\* instance, never two: the scale-out that would add one cannot complete.
OneInstanceEach ==
  /\ DOMAIN instances = deployments
  /\ \A d \in DOMAIN instances : Len(instances[d]) = 1

\* No server is told to run what the scheduler's own node has not saved,
\* whatever deploys run at once and wherever one was cut off (deploy awaits
\* save_deployment before deploy_in_us).
SavedBeforeSpawned == \A p \in spawned : p[1] \in saved

\* A deployment is listed before its server may have reported, and until then
\* lookups of it fail.  Once a server it is listed at has reported, they find
\* one, whatever is joined, reported and deployed, until a restart.
AnswerableOnceReported ==
  [][restarts' = restarts =>
       \A d \in DOMAIN instances :
         Elements(instances[d]) \cap DOMAIN stats # {} => LookupChoices(d)' # {}]_vars

\* The mutex stays taken only by a lookup whose target reported a last window
\* over the threshold, for a deployment that is registered.
BlockedOnlyByOverload ==
  lock # Free =>
    LET target == arg[lock].s
    IN  /\ pc[lock] = "select"
        /\ arg[lock].d \in deployments
        /\ target \in DOMAIN stats
        /\ stats[target] # <<>>
        /\ stats[target][Len(stats[target])].cpu > ScaleOutThreshold

\* Once the scale-out task keeps the mutex, nothing in the cluster's state
\* changes and the mutex is not released until the process is restarted.
FrozenUntilRestart ==
  [][lock # Free /\ restarts' = restarts => UNCHANGED <<runtime, lock>>]_vars

\* While no server reports a CPU load over the threshold - and both monitors
\* that exist report -1 - the mutex is never kept across an await.
NeverBlocked ==
  (\A w \in Windows : w.cpu <= ScaleOutThreshold) => lock = Free

\* Every call ends: it is answered, or fails.
EveryCallReturns == \A t \in Tasks : pc[t] # "idle" ~> pc[t] = "idle"

\* "Because we have Arc<Mutex<_>> inside Self, we can edit the inner data from
\* the clone." (scheduler.rs:275): a scale-out that was begun is carried out.
ScaleOutFinishes ==
  \A t \in Tasks : (lock = t /\ pc[t] = "select") ~> lock # t
-----------------------------------------------------------------------------
(***************************************************************************)
(* The inductive invariant: the properties above hold because of what each *)
(* call in flight knows.                                                   *)
(***************************************************************************)
\* t is a deploy handler: a scale-out task is past "scale" only with the mutex.
Deploys(t) ==
  /\ pc[t] \in {"clone", "save", "select", "spawn", "spawned", "commit"}
  /\ lock # t

\* A task has the arguments that its code reads.
ArgsFit ==
  \A t \in Tasks :
    /\ pc[t] \in {"lookup", "scale", "clone", "save", "select", "spawn", "spawned", "commit"}
         => arg[t].d \in Deployments
    /\ pc[t] \in {"join", "report", "scale", "spawn", "spawned", "commit"}
         => arg[t].s \in Servers
    /\ pc[t] = "report" => arg[t].w \in Windows

\* No two deploys in flight are about the same deployment, and none is about
\* one that is listed: DeploymentInfo::new draws a fresh id for each.
DeploysDistinct ==
  /\ DOMAIN instances \subseteq created
  /\ \A t \in Tasks : Deploys(t) => arg[t].d \in created \ DOMAIN instances
  /\ \A t, u \in Tasks :
       Deploys(t) /\ Deploys(u) /\ t # u => arg[t].d # arg[u].d

\* A deploy that has left add_app behind has its application in the database.
SavedFirst ==
  /\ SavedBeforeSpawned
  /\ \A t \in Tasks :
       Deploys(t) /\ pc[t] \notin {"clone", "save"} => arg[t].d \in saved

\* A place is listed, or about to be, only after the spawn took effect there.
SpawnedFirst ==
  /\ Listed \subseteq spawned
  /\ \A t \in Tasks :
       pc[t] \in {"spawned", "commit"} => <<arg[t].d, arg[t].s>> \in spawned

\* All of it: what each step of the scheduler preserves.
IInv ==
  /\ TypeOK /\ ArgsFit /\ BlockedOnlyByOverload
  /\ DeploysDistinct /\ OneInstanceEach /\ SavedFirst /\ SpawnedFirst
=============================================================================
