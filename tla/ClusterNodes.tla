---------------------------- MODULE ClusterNodes ----------------------------
(***************************************************************************)
(* Several nodes: the process of each with its services and the reporters  *)
(* that they start, the scheduler they report to, and the cluster state    *)
(* that comes back with each report.                                       *)
(*                                                                         *)
(* A node is its id and its address at once: it is started with the same   *)
(* --id and listens on the same host every time.  The network loses        *)
(* nothing; a call fails when nobody listens at its address or when the    *)
(* process at the other end dies.  Policy, windows and the mutex of the    *)
(* scheduler are the subject of Scheduler, the daemon's mutex and the      *)
(* store that of ServerRunner and DeploymentDatabase.                      *)
(***************************************************************************)
EXTENDS Integers, SequencesExt

CONSTANTS
  Nodes,        \* node ids, ordered as the ids are
  Founder,      \* the node that is started without a bootstrap address
  Deployments,  \* deployment ids
  None,         \* no cluster, no command
  MaxStarts,    \* bound: starts of all processes together
  MaxSpawns,    \* bound: calls of spawn
  MaxServices   \* bound: services of one process, and so its reporters

Clusters == [sched : Nodes, servers : Seq(Nodes), instances : SUBSET (Deployments \X Nodes)]

ASSUME NodesConstants ==
  /\ Nodes \subseteq Nat /\ Founder \in Nodes
  /\ None \notin Nodes \cup Clusters
  /\ MaxStarts \in Nat /\ MaxSpawns \in Nat /\ MaxServices \in Nat \ {0}

Slots == 1 .. MaxServices

VARIABLES
  proc,       \* "down", "joining", "joined" (reply on the way), "starting", "listening"
  boss,       \* the scheduler that the node's service knows, or asks to join
  cluster,    \* the Cluster of a node that is a scheduler, else None
  reported,   \* the keys of its server_stats
  command,    \* the state channel: a StateCommand, or None
  services,   \* services of this process so far that started a reporter
  reporters,  \* node -> slot -> the reporter started by that service
  deploying,  \* <<d, n, s>>: s had d spawned on n and has yet to record it
  used,       \* deployments drawn
  spawns,     \* calls of spawn so far
  starts      \* starts of each process

vars == <<proc, boss, cluster, reported, command, services, reporters,
          deploying, used, spawns, starts>>

(***************************************************************************)
(* Cluster and ClusterState.  An instance is the deployment and its place. *)
(***************************************************************************)
NewCluster(n) == [sched |-> n, servers |-> <<n>>, instances |-> {}]

Entries(servers, n) == Len(SelectSeq(servers, LAMBDA m : m = n))

\* Changed forms of ServersDiffer and ErrorFrom.
ServersDiffer_never(a, b) == FALSE
ErrorFrom_transport(failure) == "TransportError"

\* servers_differ compares the sorted ids, instances_differ only how many
\* deployments there are, group_differs the schedulers.
ServersDiffer(a, b) ==
  \E n \in Nodes : Entries(a, n) # Entries(b, n)

DeploymentsOf(c) == {i[1] : i \in c.instances}

SameNumber(A, B) ==
  \E f \in [A -> B] : /\ \A b \in B : \E a \in A : f[a] = b
                      /\ \A x, y \in A : x # y => f[x] # f[y]

ClusterDiffers(a, b) ==
  \/ a.sched # b.sched
  \/ ServersDiffer(a.servers, b.servers)
  \/ ~ SameNumber(DeploymentsOf(a), DeploymentsOf(b))

\* put_cluster: what is kept when current arrives.
PutCluster(last, current) ==
  IF last = None \/ ClusterDiffers(last, current) THEN current ELSE last

\* remove_server drops the first entry with the id.
RemoveServer(c, n) == [c EXCEPT !.servers = RemoveFirst(@, n)]

\* choose_scheduler: the lowest id in the list, also noted in the group.
ChooseScheduler(c) ==
  LET lowest == CHOOSE n \in ToSet(c.servers) : \A m \in ToSet(c.servers) : n <= m
  IN  [c EXCEPT !.sched = lowest]

\* From<Status>: every failed call is a RequestError.
ErrorFrom(failure) == "RequestError"

Keep == [kind |-> "keep", to |-> None]
BecomeScheduler(c) == [kind |-> "become", to |-> c]
UpdateJoining(n) == [kind |-> "join", to |-> n]

(***************************************************************************)
(* Reporters.                                                              *)
(***************************************************************************)
NoReporter == [at |-> "none", boss |-> None, last |-> None]

\* A changed form of NewReporter.
NewReporter_idle(s) == [NoReporter EXCEPT !.boss = s]

NewReporter(s) == [NoReporter EXCEPT !.at = "idle", !.boss = s]

Init ==
  /\ proc = [n \in Nodes |-> "down"]
  /\ boss = [n \in Nodes |-> Founder]
  /\ cluster = [n \in Nodes |-> None]
  /\ reported = [n \in Nodes |-> {}]
  /\ command = [n \in Nodes |-> None]
  /\ services = [n \in Nodes |-> 0]
  /\ reporters = [n \in Nodes |-> [k \in Slots |-> NoReporter]]
  /\ deploying = {}
  /\ used = {}
  /\ spawns = 0
  /\ starts = [n \in Nodes |-> 0]

Up(n) == proc[n] # "down"
MayStart == FoldFunction(+, 0, starts) < MaxStarts

Serves(n) == proc[n] = "listening" /\ cluster[n] # None

(***************************************************************************)
(* The loop of a node's runner.                                            *)
(***************************************************************************)
\* A changed form: the reporter is told its own server for the scheduler.
BeginService_toSelf(n, s) ==
  /\ services[n] < MaxServices
  /\ services' = [services EXCEPT ![n] = @ + 1]
  /\ reporters' = [reporters EXCEPT ![n][services'[n]] = NewReporter(n)]
  /\ proc' = [proc EXCEPT ![n] = "starting"]

\* start_running and start_authoritative begin with a reporter.
BeginService(n, s) ==
  /\ services[n] < MaxServices
  /\ services' = [services EXCEPT ![n] = @ + 1]
  /\ reporters' = [reporters EXCEPT ![n][services'[n]] = NewReporter(s)]
  /\ proc' = [proc EXCEPT ![n] = "starting"]

StartFounder ==
  /\ ~ Up(Founder)
  /\ MayStart
  /\ starts' = [starts EXCEPT ![Founder] = @ + 1]
  /\ cluster' = [cluster EXCEPT ![Founder] = NewCluster(Founder)]
  /\ BeginService(Founder, Founder)
  /\ UNCHANGED <<boss, reported, command, deploying, used, spawns>>

StartMember(n) ==
  /\ n # Founder /\ ~ Up(n)
  /\ MayStart
  /\ starts' = [starts EXCEPT ![n] = @ + 1]
  /\ proc' = [proc EXCEPT ![n] = "joining"]
  /\ UNCHANGED <<boss, cluster, reported, command, services, reporters, deploying, used, spawns>>

\* join: the server is added, and the group in the reply names the scheduler.
JoinAccepted(n) ==
  /\ proc[n] = "joining"
  /\ Serves(boss[n])
  /\ proc' = [proc EXCEPT ![n] = "joined"]
  /\ cluster' = [cluster EXCEPT ![boss[n]].servers = Append(@, n)]
  /\ boss' = [boss EXCEPT ![n] = cluster[@].sched]
  /\ UNCHANGED <<reported, command, services, reporters, deploying, used, spawns, starts>>

JoinReplied(n) ==
  /\ proc[n] = "joined"
  /\ BeginService(n, boss[n])
  /\ UNCHANGED <<boss, cluster, reported, command, deploying, used, spawns, starts>>

Listen(n) ==
  /\ proc[n] = "starting"
  /\ proc' = [proc EXCEPT ![n] = "listening"]
  /\ UNCHANGED <<boss, cluster, reported, command, services, reporters, deploying, used, spawns, starts>>

\* run_start: the service is dropped and the next one begins.  The reporters
\* that are there stay.
TakeCommand(n) ==
  LET c == command[n]
  IN  /\ c # None
      /\ command' = [command EXCEPT ![n] = None]
      /\ cluster' = IF c.kind = "become" THEN [cluster EXCEPT ![n] = c.to]
                    ELSE IF c.kind = "join" THEN [cluster EXCEPT ![n] = None] ELSE cluster
      /\ boss' = IF c.kind = "become" THEN [boss EXCEPT ![n] = c.to.sched]
                 ELSE IF c.kind = "join" THEN [boss EXCEPT ![n] = c.to] ELSE boss
      /\ IF c.kind = "join"
           THEN proc' = [proc EXCEPT ![n] = "joining"] /\ UNCHANGED <<services, reporters>>
           ELSE BeginService(n, boss'[n])
      /\ UNCHANGED <<reported, deploying, used, spawns, starts>>

\* The process ends: by an error of its join, or at any time.  Calls that it
\* was to answer fail.
Ends(n) ==
  /\ proc' = [proc EXCEPT ![n] = "down"]
  /\ cluster' = [cluster EXCEPT ![n] = None]
  /\ reported' = [reported EXCEPT ![n] = {}]
  /\ command' = [command EXCEPT ![n] = None]
  /\ services' = [services EXCEPT ![n] = 0]
  /\ boss' = [boss EXCEPT ![n] = Founder]
  /\ reporters' = [m \in Nodes |->
       IF m = n THEN [k \in Slots |-> NoReporter]
       ELSE [k \in Slots |->
               IF reporters[m][k].at = "calling" /\ reporters[m][k].boss = n
               THEN [reporters[m][k] EXCEPT !.at = "broken"] ELSE reporters[m][k]]]
  /\ deploying' = {x \in deploying : x[3] # n}
  /\ UNCHANGED <<used, spawns, starts>>

JoinFails(n) ==
  /\ \/ proc[n] = "joining" /\ ~ Serves(boss[n])
     \/ proc[n] = "joined" /\ ~ Up(boss[n])
  /\ Ends(n)

Crash(n) == Up(n) /\ Ends(n)

(***************************************************************************)
(* deploy on scheduler s: the target is one that has reported, or the      *)
(* first of the list; its daemon asks for a restart of its service.        *)
(* A deployment is new, or one that is scaled out.                         *)
(***************************************************************************)
DeployTargets(s) == IF reported[s] = {} THEN {cluster[s].servers[1]} ELSE reported[s]

Spawn(s, d) ==
  /\ Serves(s)
  /\ d \notin used \/ d \in DeploymentsOf(cluster[s])
  /\ spawns < MaxSpawns
  /\ spawns' = spawns + 1
  /\ used' = used \cup {d}
  /\ \E n \in DeployTargets(s) :
       /\ proc[n] = "listening"
       /\ command[n] = None
       /\ command' = [command EXCEPT ![n] = Keep]
       /\ deploying' = deploying \cup {<<d, n, s>>}
  /\ UNCHANGED <<proc, boss, cluster, reported, services, reporters, starts>>

Commit(s) ==
  \E x \in deploying :
    /\ x[3] = s
    /\ deploying' = deploying \ {x}
    /\ cluster' = [cluster EXCEPT ![s].instances = @ \cup {<<x[1], x[2]>>}]
    /\ UNCHANGED <<proc, boss, reported, command, services, reporters, used, spawns, starts>>

(***************************************************************************)
(* MetricsReporter: connect, report, and what follows the answer.  A       *)
(* failure that report returns ends the reporter: start unwraps it.        *)
(***************************************************************************)
Moves(n, k, from, r) ==
  /\ reporters[n][k].at = from
  /\ reporters' = [reporters EXCEPT ![n][k] = r]

Stopped == [NoReporter EXCEPT !.at = "stopped"]

Connect(n, k) ==
  /\ Moves(n, k, "idle",
           IF Serves(reporters[n][k].boss) THEN [reporters[n][k] EXCEPT !.at = "calling"]
                                           ELSE Stopped)
  /\ UNCHANGED <<proc, boss, cluster, reported, command, services, deploying, used, spawns, starts>>

Report(n, k) ==
  LET r == reporters[n][k]
      s == r.boss
  IN  /\ Moves(n, k, "calling", [r EXCEPT !.at = "idle", !.last = PutCluster(@, cluster[s])])
      /\ reported' = [reported EXCEPT ![s] = @ \cup {n}]
      /\ UNCHANGED <<proc, boss, cluster, command, services, deploying, used, spawns, starts>>

\* The call failed after the connection was there: elect a scheduler, or give up.
ReportFails(n, k) ==
  LET r    == reporters[n][k]
      rest == RemoveServer(r.last, r.last.sched)
      next == ChooseScheduler(rest)
  IN  /\ IF ErrorFrom("Status") = "TransportError" /\ r.last # None /\ rest.servers # <<>>
           THEN /\ Moves(n, k, "broken", [r EXCEPT !.at = "idle"])
                /\ command[n] = None
                /\ command' = [command EXCEPT ![n] =
                     IF next.sched = n THEN BecomeScheduler(next) ELSE UpdateJoining(next.sched)]
           ELSE /\ Moves(n, k, "broken", Stopped)
                /\ UNCHANGED command
      /\ UNCHANGED <<proc, boss, cluster, reported, services, deploying, used, spawns, starts>>

Runs(n) ==
  \/ JoinAccepted(n) \/ JoinReplied(n) \/ JoinFails(n)
  \/ Listen(n)       \/ TakeCommand(n) \/ Commit(n)

Reports(n, k) == Connect(n, k) \/ Report(n, k) \/ ReportFails(n, k)

Next ==
  \/ StartFounder
  \/ \E n \in Nodes :
       \/ StartMember(n) \/ Crash(n) \/ Runs(n)
       \/ \E d \in Deployments : Spawn(n, d)
       \/ \E k \in Slots : Reports(n, k)

Spec == Init /\ [][Next]_vars

\* A started process goes on; monitors deliver windows for ever.
FairSpec ==
  /\ Spec
  /\ \A n \in Nodes : WF_vars(Runs(n))
  /\ \A n \in Nodes, k \in Slots : WF_vars(Reports(n, k))
-----------------------------------------------------------------------------
(***************************************************************************)
(* Properties.                                                             *)
(***************************************************************************)
Commands ==
  {Keep} \cup [kind : {"become"}, to : Clusters] \cup [kind : {"join"}, to : Nodes]

Reporters ==
  [at   : {"none", "idle", "calling", "broken", "stopped"},
   boss : Nodes \cup {None},
   last : Clusters \cup {None}]

\* Types.  Every service has started its reporter, and whoever keeps or is sent
\* a cluster finds a server on its list.
TypeOK ==
  /\ proc \in [Nodes -> {"down", "joining", "joined", "starting", "listening"}]
  /\ boss \in [Nodes -> Nodes]
  /\ cluster \in [Nodes -> Clusters \cup {None}]
  /\ \A n \in Nodes : cluster[n] # None => cluster[n].servers # <<>>
  /\ reported \in [Nodes -> SUBSET Nodes]
  /\ command \in [Nodes -> Commands \cup {None}]
  /\ services \in [Nodes -> 0 .. MaxServices]
  /\ reporters \in [Nodes -> [Slots -> Reporters]]
  /\ \A n \in Nodes, k \in Slots :
       LET r == reporters[n][k]
       IN  /\ r.at = "none" <=> k > services[n]
           /\ r.at \in {"idle", "calling", "broken"} => r.boss \in Nodes
           /\ r.last # None => r.last.servers # <<>>
  /\ deploying \subseteq Deployments \X Nodes \X Nodes
  /\ used \subseteq Deployments
  /\ spawns \in 0 .. MaxSpawns
  /\ starts \in [Nodes -> Nat]

Schedulers == {n \in Nodes : Up(n) /\ cluster[n] # None}

\* Whatever dies and is started again: no two nodes schedule at once.
OneScheduler == \A m, n \in Schedulers : m = n

\* Deploying to other nodes and restarting them costs no member its reporter:
\* only the scheduler's own restarts do.
Undisturbed ==
  /\ starts[Founder] <= 1 /\ services[Founder] <= 1
  /\ starts[Founder] = 1 => Up(Founder)

ReportersSurvive ==
  Undisturbed => \A n \in Nodes \ {Founder}, k \in Slots : reporters[n][k].at # "stopped"

\* A running member gets known to a scheduler that is not restarted, however
\* often the member's own service is and whoever joins or leaves meanwhile.
MembersGetKnown ==
  []Undisturbed => \A n \in Nodes \ {Founder} :
                     proc[n] = "listening" ~> n \in reported[Founder] \/ ~ Up(n)

\* Put_cluster drops what it takes for the same.  In the end every reporter that
\* is still there has the servers, with repetitions, that its scheduler has.
CaughtUp(r) ==
  r.at \in {"none", "stopped"} \/
    (/\ r.last # None /\ cluster[r.boss] # None
     /\ \A n \in Nodes : Entries(r.last.servers, n) = Entries(cluster[r.boss].servers, n))

ServersCatchUp == \A n \in Nodes, k \in Slots : <>[]CaughtUp(reporters[n][k])
-----------------------------------------------------------------------------
(***************************************************************************)
(* The inductive invariant.                                                *)
(***************************************************************************)
\* Nobody is ever elected: a failed report never counts as a TransportError, so
\* no node is told to become scheduler or to join another, and whatever anyone
\* knows of a scheduler is the founder.
NobodyElected ==
  /\ \A n \in Nodes :
       /\ command[n] \in {None, Keep} /\ boss[n] = Founder
       /\ cluster[n] # None => n = Founder /\ cluster[n].sched = Founder
       /\ \A k \in Slots :
            LET r == reporters[n][k]
            IN  /\ r.boss \in {Founder, None}
                /\ r.at \in {"idle", "calling", "broken"} => r.boss = Founder
                /\ r.at = "calling" => cluster[Founder] # None
  /\ \A x \in deploying : x[3] = Founder /\ cluster[Founder] # None

\* How far a process has come shows in its services and in what it has been
\* told; the founder does not join.
ProcessStages ==
  /\ \A n \in Nodes :
       /\ proc[n] \in {"starting", "listening"} <=> services[n] > 0
       /\ command[n] # None => proc[n] = "listening"
  /\ proc[Founder] \notin {"joining", "joined"}
  /\ Up(Founder) => starts[Founder] > 0

\* A member has been admitted by the founder, which goes on serving.
MembersFollow ==
  Undisturbed =>
    \A n \in Nodes \ {Founder} :
      /\ proc[n] \in {"joined", "starting", "listening"} => Serves(Founder)
      /\ \A k \in Slots : reporters[n][k].at \notin {"broken", "stopped"}

\* All of it: what each step of a node preserves.
IInv == TypeOK /\ NobodyElected /\ ProcessStages /\ MembersFollow
=============================================================================
