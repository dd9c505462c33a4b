------------------------- MODULE ClusterNodesProofs -------------------------
(***************************************************************************)
(* One scheduler, and members whose reporters survive: for any number of   *)
(* nodes, starts, crashes, deployments and services.                       *)
(***************************************************************************)
EXTENDS ClusterNodes, TLAPS

LEMMA ConstantsFit ==
  /\ Founder \in Nodes /\ None \notin Nodes /\ None \notin Clusters
  /\ MaxServices \in Nat /\ MaxServices > 0
BY NodesConstants

(***************************************************************************)
(* Reporters.                                                              *)
(***************************************************************************)
LEMMA ReporterForms ==
  /\ NoReporter \in Reporters /\ Stopped \in Reporters
  /\ NoReporter.at = "none" /\ NoReporter.last = None /\ NoReporter.boss = None
  /\ Stopped.at = "stopped" /\ Stopped.last = None /\ Stopped.boss = None
  /\ \A s \in Nodes : /\ NewReporter(s) \in Reporters /\ NewReporter(s).at = "idle"
                      /\ NewReporter(s).boss = s /\ NewReporter(s).last = None
BY DEF NoReporter, Stopped, NewReporter, Reporters

LEMMA InitIInv == Init => IInv
<1> SUFFICES ASSUME Init PROVE IInv
  OBVIOUS
<1> USE ConstantsFit DEF Init
<1>1. TypeOK
  <2>1. \A k \in Slots : k > 0
    BY DEF Slots
  <2>2. spawns \in 0 .. MaxSpawns
    BY NodesConstants
  <2>3. \A n \in Nodes, k \in Slots : reporters[n][k] = NoReporter
    OBVIOUS
  <2>4. reporters \in [Nodes -> [Slots -> Reporters]]
    BY ReporterForms
  <2>5. \A n \in Nodes, k \in Slots :
          LET r == reporters[n][k]
          IN  /\ r.at = "none" <=> k > services[n]
              /\ r.at \in {"idle", "calling", "broken"} => r.boss \in Nodes
              /\ r.last # None => r.last.servers # <<>>
    BY <2>1, <2>3, ReporterForms
  <2> QED
    BY <2>2, <2>4, <2>5 DEF TypeOK
<1>2. NobodyElected
  BY ReporterForms DEF NobodyElected
<1>3. ProcessStages
  BY DEF ProcessStages, Up
<1>4. MembersFollow
  BY ReporterForms DEF MembersFollow
<1> QED
  BY <1>1, <1>2, <1>3, <1>4 DEF IInv

\* A reporter that moves on keeps the invariant if where it gets to fits.
LEMMA ReporterMoves ==
  ASSUME IInv, NEW n \in Nodes, NEW k \in Slots, NEW r \in Reporters,
         reporters' = [reporters EXCEPT ![n][k] = r],
         reported' \in [Nodes -> SUBSET Nodes],
         reporters[n][k].at # "none", r.at # "none",
         r.boss \in {Founder, None},
         r.at \in {"idle", "calling", "broken"} => r.boss = Founder,
         r.at = "calling" => cluster[Founder] # None,
         r.last # None => r.last.servers # <<>>,
         Undisturbed /\ n # Founder => r.at \notin {"broken", "stopped"},
         UNCHANGED <<proc, boss, cluster, command, services, deploying, used, spawns, starts>>
  PROVE  IInv'
<1>1. /\ reporters' \in [Nodes -> [Slots -> Reporters]]
      /\ reporters'[n][k] = r
      /\ \A m \in Nodes, j \in Slots : m # n \/ j # k => reporters'[m][j] = reporters[m][j]
  BY DEF IInv, TypeOK
<1>2. TypeOK'
  <2>1. \A m \in Nodes, j \in Slots : (reporters'[m][j].at = "none") <=> j > services'[m]
    BY <1>1 DEF IInv, TypeOK
  <2>2. \A m \in Nodes, j \in Slots :
          reporters'[m][j].at \in {"idle", "calling", "broken"} => reporters'[m][j].boss \in Nodes
    BY <1>1, ConstantsFit DEF IInv, TypeOK
  <2>3. \A m \in Nodes, j \in Slots :
          reporters'[m][j].last # None => reporters'[m][j].last.servers # <<>>
    BY <1>1 DEF IInv, TypeOK
  <2> QED
    BY <1>1, <2>1, <2>2, <2>3 DEF IInv, TypeOK
<1>3. NobodyElected'
  BY <1>1 DEF IInv, NobodyElected
<1>4. ProcessStages'
  BY DEF IInv, ProcessStages, Up
<1>5. MembersFollow'
  BY <1>1 DEF IInv, MembersFollow, Undisturbed, Up, Serves
<1> QED
  BY <1>2, <1>3, <1>4, <1>5 DEF IInv

LEMMA ConnectStep ==
  ASSUME IInv, NEW n \in Nodes, NEW k \in Slots, Connect(n, k)
  PROVE  IInv'
<1> DEFINE r == reporters[n][k]
           s == IF Serves(r.boss) THEN [r EXCEPT !.at = "calling"] ELSE Stopped
<1>1. /\ r.at = "idle" /\ reporters' = [reporters EXCEPT ![n][k] = s]
      /\ UNCHANGED <<proc, boss, cluster, reported, command, services, deploying, used, spawns, starts>>
  BY DEF Connect, Moves
<1>2. /\ r \in Reporters /\ r.boss = Founder
      /\ r.last # None => r.last.servers # <<>>
      /\ reported \in [Nodes -> SUBSET Nodes]
  BY <1>1 DEF IInv, TypeOK, NobodyElected
<1>3. CASE Serves(r.boss)
  <2> DEFINE t == [r EXCEPT !.at = "calling"]
  <2>1. t \in Reporters /\ t.at = "calling" /\ t.boss = Founder /\ t.last = r.last
    BY <1>2 DEF Reporters
  <2>2. cluster[Founder] # None
    BY <1>2, <1>3 DEF Serves
  <2>3. reporters' = [reporters EXCEPT ![n][k] = t]
    BY <1>1, <1>3
  <2> HIDE DEF t
  <2> QED
    BY <1>1, <1>2, <2>1, <2>2, <2>3, ReporterMoves
<1>4. CASE ~ Serves(r.boss)
  <2>1. reporters' = [reporters EXCEPT ![n][k] = Stopped]
    BY <1>1, <1>4
  <2>2. ~ (Undisturbed /\ n # Founder)
    <3> SUFFICES ASSUME Undisturbed, n # Founder PROVE FALSE
      OBVIOUS
    <3>1. services[n] > 0
      BY <1>1 DEF IInv, TypeOK, Slots
    <3>2. proc[n] \in {"starting", "listening"}
      BY <3>1 DEF IInv, ProcessStages
    <3> QED
      BY <1>2, <1>4, <3>2 DEF IInv, MembersFollow
  <2> QED
    BY <1>1, <1>2, <2>1, <2>2, ReporterForms, ReporterMoves
<1> QED
  BY <1>3, <1>4

LEMMA ReportStep ==
  ASSUME IInv, NEW n \in Nodes, NEW k \in Slots, Report(n, k)
  PROVE  IInv'
<1> DEFINE r == reporters[n][k]
           t == [r EXCEPT !.at = "idle", !.last = PutCluster(@, cluster[r.boss])]
<1>1. /\ r.at = "calling" /\ reporters' = [reporters EXCEPT ![n][k] = t]
      /\ reported' = [reported EXCEPT ![r.boss] = @ \cup {n}]
      /\ UNCHANGED <<proc, boss, cluster, command, services, deploying, used, spawns, starts>>
  BY DEF Report, Moves
<1>2. /\ r \in Reporters /\ r.boss = Founder /\ cluster[Founder] # None
      /\ r.last # None => r.last.servers # <<>>
  BY <1>1 DEF IInv, TypeOK, NobodyElected
<1>3. cluster[Founder] \in Clusters /\ cluster[Founder].servers # <<>>
  BY <1>2, ConstantsFit DEF IInv, TypeOK
<1>4. reported' \in [Nodes -> SUBSET Nodes]
  BY <1>1 DEF IInv, TypeOK
<1>5. PutCluster(r.last, cluster[r.boss]) \in {r.last, cluster[Founder]}
  BY <1>2 DEF PutCluster
<1>6. /\ t \in Reporters /\ t.at = "idle" /\ t.boss = Founder
      /\ t.last = PutCluster(r.last, cluster[r.boss])
  BY <1>2, <1>3, <1>5 DEF Reporters
<1>7. t.last # None => t.last.servers # <<>>
  BY <1>2, <1>3, <1>5, <1>6
<1> HIDE DEF t
<1> QED
  BY <1>1, <1>4, <1>6, <1>7, ReporterMoves

\* ErrorFrom is never a TransportError, so the reporter gives up.
LEMMA ReportFailsStep ==
  ASSUME IInv, NEW n \in Nodes, NEW k \in Slots, ReportFails(n, k)
  PROVE  IInv'
<1>1. ErrorFrom("Status") # "TransportError"
  BY DEF ErrorFrom
<1>2. Moves(n, k, "broken", Stopped) /\ UNCHANGED command
  BY <1>1 DEF ReportFails
<1>3. UNCHANGED <<proc, boss, cluster, reported, services, deploying, used, spawns, starts>>
  BY DEF ReportFails
<1>4. /\ reporters[n][k].at = "broken"
      /\ reporters' = [reporters EXCEPT ![n][k] = Stopped]
  BY <1>2 DEF Moves
<1>5. ~ (Undisturbed /\ n # Founder)
  BY <1>4 DEF IInv, MembersFollow
<1>6. reported' \in [Nodes -> SUBSET Nodes]
  BY <1>3 DEF IInv, TypeOK
<1> QED
  BY <1>2, <1>3, <1>4, <1>5, <1>6, ReporterForms, ReporterMoves

(***************************************************************************)
(* Processes that start, and the founder's cluster.                        *)
(***************************************************************************)
\* While a process goes on as before, the founder's most of all, a step that
\* changes no reporter keeps the invariant if what it leaves fits.
LEMMA OthersStay ==
  ASSUME IInv, TypeOK',
         UNCHANGED <<reporters, services>>,
         \A n \in Nodes : command'[n] \in {None, Keep} /\ boss'[n] = Founder,
         \A n \in Nodes : cluster'[n] # None <=> cluster[n] # None,
         \A n \in Nodes : cluster'[n] # None => cluster'[n].sched = Founder,
         \A x \in deploying' : x[3] = Founder /\ cluster[Founder] # None,
         \A n \in Nodes : proc'[n] \in {"starting", "listening"} <=> services[n] > 0,
         \A n \in Nodes : command'[n] # None => proc'[n] = "listening",
         proc'[Founder] \notin {"joining", "joined"},
         proc[Founder] = "listening" => proc'[Founder] = "listening",
         Up(Founder)' <=> Up(Founder), starts'[Founder] = starts[Founder],
         \A n \in Nodes \ {Founder} :
           proc'[n] \in {"joined", "starting", "listening"} =>
             Serves(Founder) \/ proc[n] \in {"joined", "starting", "listening"}
  PROVE  IInv'
<1>1. NobodyElected'
  <2>1. cluster'[Founder] # None <=> cluster[Founder] # None
    BY ConstantsFit
  <2>2. \A n \in Nodes : cluster'[n] # None => n = Founder /\ cluster'[n].sched = Founder
    BY DEF IInv, NobodyElected
  <2>3. \A n \in Nodes, k \in Slots :
          LET r == reporters'[n][k]
          IN  /\ r.boss \in {Founder, None}
              /\ r.at \in {"idle", "calling", "broken"} => r.boss = Founder
              /\ r.at = "calling" => cluster'[Founder] # None
    BY <2>1 DEF IInv, NobodyElected
  <2>4. \A x \in deploying' : x[3] = Founder /\ cluster'[Founder] # None
    BY <2>1
  <2> QED
    BY <2>2, <2>3, <2>4 DEF NobodyElected
<1>2. ProcessStages'
  BY DEF IInv, ProcessStages
<1>3. Undisturbed' <=> Undisturbed
  BY DEF Undisturbed
<1>4. Serves(Founder) => Serves(Founder)'
  BY ConstantsFit DEF Serves
<1>5. MembersFollow'
  BY <1>3, <1>4 DEF IInv, MembersFollow
<1> QED
  BY <1>1, <1>2, <1>5 DEF IInv

LEMMA StartMemberStep ==
  ASSUME IInv, NEW n \in Nodes, StartMember(n)
  PROVE  IInv'
<1>1. /\ n # Founder /\ proc[n] = "down"
      /\ starts' = [starts EXCEPT ![n] = @ + 1]
      /\ proc' = [proc EXCEPT ![n] = "joining"]
      /\ UNCHANGED <<boss, cluster, reported, command, services, reporters, deploying, used, spawns>>
  BY DEF StartMember, Up
<1>2. TypeOK'
  BY <1>1 DEF IInv, TypeOK
<1>3. \A m \in Nodes : m # n => proc'[m] = proc[m]
  BY <1>1 DEF IInv, TypeOK
<1>4. proc'[n] = "joining" /\ starts'[Founder] = starts[Founder]
  BY <1>1, ConstantsFit DEF IInv, TypeOK
<1>5. /\ \A m \in Nodes : proc'[m] \in {"starting", "listening"} <=> services[m] > 0
      /\ \A m \in Nodes : command'[m] # None => proc'[m] = "listening"
  BY <1>1, <1>3, <1>4 DEF IInv, ProcessStages
<1>6. proc'[Founder] = proc[Founder]
  BY <1>1, <1>3, ConstantsFit
<1>7. proc'[Founder] \notin {"joining", "joined"} /\ (Up(Founder)' <=> Up(Founder))
  BY <1>6 DEF IInv, ProcessStages, Up
<1>8. \A m \in Nodes \ {Founder} :
        proc'[m] \in {"joined", "starting", "listening"} =>
          proc[m] \in {"joined", "starting", "listening"}
  BY <1>3, <1>4
<1>9. /\ \A m \in Nodes : command'[m] \in {None, Keep} /\ boss'[m] = Founder
      /\ \A m \in Nodes : cluster'[m] # None => cluster'[m].sched = Founder
      /\ \A x \in deploying' : x[3] = Founder /\ cluster[Founder] # None
  BY <1>1 DEF IInv, NobodyElected
<1> QED
  BY <1>1, <1>2, <1>4, <1>5, <1>6, <1>7, <1>8, <1>9, OthersStay

LEMMA ListenStep ==
  ASSUME IInv, NEW n \in Nodes, Listen(n)
  PROVE  IInv'
<1>1. /\ proc[n] = "starting"
      /\ proc' = [proc EXCEPT ![n] = "listening"]
      /\ UNCHANGED <<boss, cluster, reported, command, services, reporters, deploying, used, spawns, starts>>
  BY DEF Listen
<1>2. TypeOK'
  BY <1>1 DEF IInv, TypeOK
<1>3. /\ \A m \in Nodes : m # n => proc'[m] = proc[m]
      /\ proc'[n] = "listening"
  BY <1>1 DEF IInv, TypeOK
<1> QED
  BY <1>1, <1>2, <1>3, ConstantsFit, OthersStay DEF IInv, NobodyElected, ProcessStages, Up

LEMMA JoinAcceptedStep ==
  ASSUME IInv, NEW n \in Nodes, JoinAccepted(n)
  PROVE  IInv'
<1> DEFINE c == cluster[Founder]
           more == [c EXCEPT !.servers = Append(@, n)]
<1>1. boss[n] = Founder /\ cluster \in [Nodes -> Clusters \cup {None}]
  BY DEF IInv, TypeOK, NobodyElected
<1>2. /\ proc[n] = "joining" /\ Serves(Founder) /\ proc' = [proc EXCEPT ![n] = "joined"]
      /\ cluster' = [cluster EXCEPT ![Founder] = more]
      /\ boss' = [boss EXCEPT ![n] = c.sched]
      /\ UNCHANGED <<reported, command, services, reporters, deploying, used, spawns, starts>>
  BY <1>1, ConstantsFit DEF JoinAccepted
<1>3. /\ c \in Clusters /\ c # None /\ c.sched = Founder /\ proc[Founder] = "listening"
      /\ n # Founder
  BY <1>1, <1>2, ConstantsFit DEF IInv, NobodyElected, Serves
<1>4. more \in Clusters /\ more.sched = Founder /\ more.servers # <<>> /\ more # None
  <2>1. c.servers \in Seq(Nodes)
    BY <1>3 DEF Clusters
  <2>2. Append(c.servers, n) \in Seq(Nodes) /\ Append(c.servers, n) # <<>>
    BY <2>1
  <2>3. more \in Clusters /\ more.sched = Founder /\ more.servers = Append(c.servers, n)
    BY <1>3, <2>2 DEF Clusters
  <2> QED
    BY <2>2, <2>3, ConstantsFit
<1> HIDE DEF c, more
<1>5. /\ \A m \in Nodes : m # Founder => cluster'[m] = cluster[m]
      /\ cluster'[Founder] = more /\ cluster' \in [Nodes -> Clusters \cup {None}]
  BY <1>1, <1>2, <1>4, ConstantsFit
<1>6. /\ \A m \in Nodes : m # n => proc'[m] = proc[m]
      /\ proc'[n] = "joined"
      /\ proc' \in [Nodes -> {"down", "joining", "joined", "starting", "listening"}]
  BY <1>2 DEF IInv, TypeOK
<1>7. boss' = boss
  BY <1>1, <1>2, <1>3 DEF IInv, TypeOK
<1>8. TypeOK'
  BY <1>2, <1>4, <1>5, <1>6, <1>7, SMTT(30) DEF IInv, TypeOK
<1>9. /\ \A m \in Nodes : cluster'[m] # None <=> cluster[m] # None
      /\ \A m \in Nodes : cluster'[m] # None => cluster'[m].sched = Founder
  BY <1>3, <1>4, <1>5 DEF IInv, NobodyElected, c
<1>10. /\ \A m \in Nodes : command'[m] \in {None, Keep} /\ boss'[m] = Founder
       /\ \A x \in deploying' : x[3] = Founder /\ cluster[Founder] # None
  BY <1>2, <1>7 DEF IInv, NobodyElected
<1>11. /\ \A m \in Nodes : proc'[m] \in {"starting", "listening"} <=> services[m] > 0
       /\ \A m \in Nodes : command'[m] # None => proc'[m] = "listening"
  BY <1>2, <1>6 DEF IInv, ProcessStages
<1>12. proc'[Founder] = proc[Founder]
  BY <1>3, <1>6, ConstantsFit
<1>13. \A m \in Nodes \ {Founder} :
         proc'[m] \in {"joined", "starting", "listening"} =>
           Serves(Founder) \/ proc[m] \in {"joined", "starting", "listening"}
  BY <1>2
<1>14. proc'[Founder] \notin {"joining", "joined"} /\ (Up(Founder)' <=> Up(Founder))
  BY <1>3, <1>12 DEF Up
<1> QED
  BY <1>2, <1>8, <1>9, <1>10, <1>11, <1>12, <1>13, <1>14, OthersStay

LEMMA SpawnStep ==
  ASSUME IInv, NEW s \in Nodes, NEW d \in Deployments, Spawn(s, d)
  PROVE  IInv'
<1>1. s = Founder /\ cluster[Founder] # None
  BY DEF Spawn, Serves, IInv, NobodyElected
<1>2. DeployTargets(s) \subseteq Nodes
  <2>1. cluster[s].servers \in Seq(Nodes) /\ cluster[s].servers # <<>>
    BY <1>1 DEF IInv, TypeOK, Clusters
  <2>2. cluster[s].servers[1] \in Nodes
    BY <2>1
  <2> QED
    BY <2>2 DEF DeployTargets, IInv, TypeOK
<1> PICK n \in DeployTargets(s) :
      /\ proc[n] = "listening" /\ command[n] = None
      /\ command' = [command EXCEPT ![n] = Keep]
      /\ deploying' = deploying \cup {<<d, n, s>>}
  BY DEF Spawn
<1>3. /\ n \in Nodes /\ spawns < MaxSpawns /\ spawns' = spawns + 1 /\ used' = used \cup {d}
      /\ UNCHANGED <<proc, boss, cluster, reported, services, reporters, starts>>
  BY <1>2 DEF Spawn
<1>4. /\ command'[n] = Keep /\ \A m \in Nodes : m # n => command'[m] = command[m]
      /\ command' \in [Nodes -> Commands \cup {None}]
  BY <1>3 DEF IInv, TypeOK, Commands
<1>5. spawns' \in 0 .. MaxSpawns
  BY <1>3, NodesConstants DEF IInv, TypeOK
<1>6. deploying' \subseteq Deployments \X Nodes \X Nodes
  BY <1>3 DEF IInv, TypeOK
<1>7. TypeOK'
  BY <1>3, <1>4, <1>5, <1>6, SMTT(30) DEF IInv, TypeOK
<1>8. /\ \A m \in Nodes : command'[m] \in {None, Keep} /\ boss'[m] = Founder
      /\ \A m \in Nodes : cluster'[m] # None => cluster'[m].sched = Founder
      /\ \A x \in deploying' : x[3] = Founder /\ cluster[Founder] # None
  BY <1>1, <1>3, <1>4 DEF IInv, NobodyElected
<1>9. /\ \A m \in Nodes : proc'[m] \in {"starting", "listening"} <=> services[m] > 0
      /\ \A m \in Nodes : command'[m] # None => proc'[m] = "listening"
      /\ proc'[Founder] \notin {"joining", "joined"}
  BY <1>3, <1>4 DEF IInv, ProcessStages
<1>10. Up(Founder)' <=> Up(Founder)
  BY <1>3 DEF Up
<1> QED
  BY <1>3, <1>7, <1>8, <1>9, <1>10, OthersStay

LEMMA CommitStep ==
  ASSUME IInv, NEW s \in Nodes, Commit(s)
  PROVE  IInv'
<1> PICK x \in deploying :
      /\ x[3] = s /\ deploying' = deploying \ {x}
      /\ cluster' = [cluster EXCEPT ![s].instances = @ \cup {<<x[1], x[2]>>}]
      /\ UNCHANGED <<proc, boss, reported, command, services, reporters, used, spawns, starts>>
  BY DEF Commit
<1>1. /\ s = Founder /\ cluster[s] # None /\ cluster[s] \in Clusters
      /\ x[1] \in Deployments /\ x[2] \in Nodes
      /\ cluster[s].sched = Founder /\ cluster[s].servers # <<>>
  BY DEF IInv, NobodyElected, TypeOK
<1> DEFINE more == [cluster[s] EXCEPT !.instances = @ \cup {<<x[1], x[2]>>}]
<1>2. /\ more \in Clusters /\ more.sched = Founder /\ more.servers = cluster[s].servers
      /\ cluster' = [cluster EXCEPT ![s] = more]
  BY <1>1 DEF Clusters
<1> HIDE DEF more
<1>3. more # None
  BY <1>2, ConstantsFit
<1>4. /\ cluster'[s] = more /\ \A m \in Nodes : m # s => cluster'[m] = cluster[m]
      /\ cluster' \in [Nodes -> Clusters \cup {None}]
  <2>1. cluster \in [Nodes -> Clusters \cup {None}]
    BY DEF IInv, TypeOK
  <2> QED
    BY <1>2, <2>1
<1>5. TypeOK'
  <2>1. \A m \in Nodes : cluster'[m] # None => cluster'[m].servers # <<>>
    BY <1>1, <1>2, <1>4 DEF IInv, TypeOK
  <2> QED
    BY <1>4, <2>1 DEF IInv, TypeOK
<1>6. /\ \A m \in Nodes : command'[m] \in {None, Keep} /\ boss'[m] = Founder
      /\ \A y \in deploying' : y[3] = Founder /\ cluster[Founder] # None
  BY DEF IInv, NobodyElected
<1>7. /\ \A m \in Nodes : cluster'[m] # None <=> cluster[m] # None
      /\ \A m \in Nodes : cluster'[m] # None => cluster'[m].sched = Founder
  BY <1>1, <1>2, <1>3, <1>4 DEF IInv, NobodyElected
<1>8. /\ \A m \in Nodes : proc'[m] \in {"starting", "listening"} <=> services[m] > 0
      /\ \A m \in Nodes : command'[m] # None => proc'[m] = "listening"
      /\ proc'[Founder] \notin {"joining", "joined"} /\ (Up(Founder)' <=> Up(Founder))
  BY DEF IInv, ProcessStages, Up
<1> QED
  BY <1>5, <1>6, <1>7, <1>8, OthersStay

(***************************************************************************)
(* A service begins.                                                       *)
(***************************************************************************)
LEMMA BeginServiceTypes ==
  ASSUME TypeOK, NEW n \in Nodes, BeginService(n, Founder)
  PROVE  /\ services' \in [Nodes -> 0 .. MaxServices] /\ services'[n] = services[n] + 1
         /\ \A m \in Nodes : m # n => services'[m] = services[m]
         /\ proc' = [proc EXCEPT ![n] = "starting"]
         /\ reporters' \in [Nodes -> [Slots -> Reporters]]
         /\ \A m \in Nodes, j \in Slots :
              IF m = n /\ j = services'[n] THEN reporters'[m][j] = NewReporter(Founder)
                                           ELSE reporters'[m][j] = reporters[m][j]
         /\ \A m \in Nodes, j \in Slots :
              LET r == reporters'[m][j]
              IN  /\ r.at = "none" <=> j > services'[m]
                  /\ r.at \in {"idle", "calling", "broken"} => r.boss \in Nodes
                  /\ r.last # None => r.last.servers # <<>>
<1> DEFINE k == services[n] + 1
<1> USE ConstantsFit
<1>1. /\ services[n] \in 0 .. MaxServices /\ services[n] < MaxServices
      /\ services' = [services EXCEPT ![n] = k]
      /\ reporters' = [reporters EXCEPT ![n][services'[n]] = NewReporter(Founder)]
      /\ proc' = [proc EXCEPT ![n] = "starting"]
  BY DEF BeginService, TypeOK
<1>2. k \in Slots /\ k \in 0 .. MaxServices
  BY <1>1 DEF Slots
<1>3. /\ services' \in [Nodes -> 0 .. MaxServices] /\ services'[n] = k
      /\ \A m \in Nodes : m # n => services'[m] = services[m]
  BY <1>1, <1>2 DEF TypeOK
<1>4. reporters' = [reporters EXCEPT ![n][k] = NewReporter(Founder)]
  BY <1>1, <1>3
<1> HIDE DEF k
<1>5. /\ reporters' \in [Nodes -> [Slots -> Reporters]]
      /\ \A m \in Nodes, j \in Slots :
           IF m = n /\ j = k THEN reporters'[m][j] = NewReporter(Founder)
                             ELSE reporters'[m][j] = reporters[m][j]
  BY <1>2, <1>4, ReporterForms DEF TypeOK
<1>6. \A m \in Nodes, j \in Slots : (reporters'[m][j].at = "none") <=> j > services'[m]
  <2> SUFFICES ASSUME NEW m \in Nodes, NEW j \in Slots
               PROVE  (reporters'[m][j].at = "none") <=> j > services'[m]
    OBVIOUS
  <2>1. CASE m = n /\ j = k
    BY <1>3, <1>5, <2>1, ReporterForms DEF Slots
  <2>2. CASE m = n /\ j # k
    <3>1. reporters'[m][j] = reporters[n][j] /\ m = n
      BY <1>5, <2>2
    <3>2. reporters[n][j].at = "none" <=> j > services[n]
      BY DEF TypeOK
    <3>3. services'[m] = services[n] + 1 /\ services[n] \in Nat
      BY <1>1, <1>3, <3>1 DEF k
    <3>4. j # services[n] + 1 /\ j \in Nat
      BY <2>2 DEF k, Slots
    <3>5. j > services'[m] <=> j > services[n]
      BY <3>3, <3>4
    <3> QED
      BY <3>1, <3>2, <3>5
  <2>3. CASE m # n
    BY <1>3, <1>5, <2>3 DEF TypeOK
  <2> QED
    BY <2>1, <2>2, <2>3
<1>7. \A m \in Nodes, j \in Slots :
        /\ reporters'[m][j].at \in {"idle", "calling", "broken"} => reporters'[m][j].boss \in Nodes
        /\ reporters'[m][j].last # None => reporters'[m][j].last.servers # <<>>
  <2> SUFFICES ASSUME NEW m \in Nodes, NEW j \in Slots
               PROVE  LET r == reporters'[m][j]
                      IN  /\ r.at \in {"idle", "calling", "broken"} => r.boss \in Nodes
                          /\ r.last # None => r.last.servers # <<>>
    OBVIOUS
  <2>1. CASE reporters'[m][j] = NewReporter(Founder)
    BY <2>1, ReporterForms
  <2>2. CASE reporters'[m][j] = reporters[m][j]
    BY <2>2 DEF TypeOK
  <2> QED
    BY <1>5, <2>1, <2>2
<1> QED
  BY <1>1, <1>3, <1>5, <1>6, <1>7 DEF k

LEMMA BeginServiceStep ==
  ASSUME IInv, NEW n \in Nodes, BeginService(n, Founder),
         command'[n] = None, command' \in [Nodes -> Commands \cup {None}],
         \A m \in Nodes : m # n => command'[m] = command[m],
         cluster' \in [Nodes -> Clusters \cup {None}],
         \A m \in Nodes : m # Founder => cluster'[m] = cluster[m],
         cluster[Founder] # None => cluster'[Founder] # None,
         cluster'[Founder] # None =>
           cluster'[Founder].sched = Founder /\ cluster'[Founder].servers # <<>>,
         starts' \in [Nodes -> Nat],
         n # Founder => UNCHANGED <<cluster, starts>> /\ proc[n] \in {"joined", "listening"},
         n = Founder => /\ starts'[Founder] > 0
                        /\ Undisturbed' => Undisturbed /\ proc[Founder] = "down",
         UNCHANGED <<boss, reported, deploying, used, spawns>>
  PROVE  IInv'
<1>1. /\ services' \in [Nodes -> 0 .. MaxServices] /\ services'[n] = services[n] + 1
      /\ \A m \in Nodes : m # n => services'[m] = services[m]
      /\ reporters' \in [Nodes -> [Slots -> Reporters]]
      /\ \A m \in Nodes, j \in Slots :
           reporters'[m][j] \in {NewReporter(Founder), reporters[m][j]}
      /\ \A m \in Nodes : m # n => \A j \in Slots : reporters'[m][j] = reporters[m][j]
  BY BeginServiceTypes DEF IInv
<1>2. \A m \in Nodes, j \in Slots :
        LET r == reporters'[m][j]
        IN  /\ r.at = "none" <=> j > services'[m]
            /\ r.at \in {"idle", "calling", "broken"} => r.boss \in Nodes
            /\ r.last # None => r.last.servers # <<>>
  BY BeginServiceTypes DEF IInv
<1>3. /\ proc'[n] = "starting" /\ \A m \in Nodes : m # n => proc'[m] = proc[m]
      /\ proc' \in [Nodes -> {"down", "joining", "joined", "starting", "listening"}]
  <2>1. proc' = [proc EXCEPT ![n] = "starting"]
    BY BeginServiceTypes DEF IInv
  <2>2. proc \in [Nodes -> {"down", "joining", "joined", "starting", "listening"}]
    BY DEF IInv, TypeOK
  <2> QED
    BY <2>1, <2>2
<1>4. services[n] \in Nat
  BY ConstantsFit DEF IInv, TypeOK
<1>5. TypeOK'
  <2>1. \A m \in Nodes : cluster'[m] # None => cluster'[m].servers # <<>>
    BY DEF IInv, TypeOK
  <2> QED
    BY <1>1, <1>2, <1>3, <2>1 DEF IInv, TypeOK
<1>6. NobodyElected'
  <2>1. \A m \in Nodes : /\ command'[m] \in {None, Keep} /\ boss'[m] = Founder
                         /\ cluster'[m] # None => m = Founder /\ cluster'[m].sched = Founder
    BY DEF IInv, NobodyElected
  <2>2. \A m \in Nodes, j \in Slots :
          LET r == reporters'[m][j]
          IN  /\ r.boss \in {Founder, None}
              /\ r.at \in {"idle", "calling", "broken"} => r.boss = Founder
              /\ r.at = "calling" => cluster'[Founder] # None
    BY <1>1, ReporterForms, ConstantsFit, SMTT(30) DEF IInv, NobodyElected
  <2>3. \A x \in deploying' : x[3] = Founder /\ cluster'[Founder] # None
    BY DEF IInv, NobodyElected
  <2> QED
    BY <2>1, <2>2, <2>3 DEF NobodyElected
<1>7. ProcessStages'
  <2>1. \A m \in Nodes : proc'[m] \in {"starting", "listening"} <=> services'[m] > 0
    <3>1. proc'[n] \in {"starting", "listening"} /\ services'[n] > 0
      BY <1>1, <1>3, <1>4
    <3>2. \A m \in Nodes : proc[m] \in {"starting", "listening"} <=> services[m] > 0
      BY DEF IInv, ProcessStages
    <3> QED
      BY <1>1, <1>3, <3>1, <3>2
  <2>2. \A m \in Nodes : command'[m] # None => proc'[m] = "listening"
    BY <1>3 DEF IInv, ProcessStages
  <2>3. proc'[Founder] \notin {"joining", "joined"}
    BY <1>3, ConstantsFit DEF IInv, ProcessStages
  <2>4. Up(Founder)' => starts'[Founder] > 0
    BY <1>3, ConstantsFit DEF IInv, ProcessStages, Up
  <2> QED
    BY <2>1, <2>2, <2>3, <2>4 DEF ProcessStages
<1>8. CASE n # Founder
  <2>1. /\ starts' = starts /\ cluster' = cluster /\ services'[Founder] = services[Founder]
        /\ proc'[Founder] = proc[Founder]
    BY <1>1, <1>3, <1>8, ConstantsFit
  <2>2. /\ Undisturbed' <=> Undisturbed
        /\ Serves(Founder)' <=> Serves(Founder)
    BY <2>1 DEF Undisturbed, Up, Serves
  <2>3. Undisturbed => Serves(Founder)
    BY <1>8 DEF IInv, MembersFollow
  <2>4. Undisturbed => \A m \in Nodes \ {Founder}, j \in Slots :
                         reporters'[m][j].at \notin {"broken", "stopped"}
    <3>1. NewReporter(Founder).at \notin {"broken", "stopped"}
      BY ReporterForms, ConstantsFit
    <3>2. Undisturbed => \A m \in Nodes \ {Founder}, j \in Slots :
                           reporters[m][j].at \notin {"broken", "stopped"}
      BY DEF IInv, MembersFollow
    <3> QED
      BY <1>1, <3>1, <3>2, ZenonT(60)
  <2>5. MembersFollow'
    BY <2>2, <2>3, <2>4 DEF MembersFollow
  <2> QED
    BY <1>5, <1>6, <1>7, <2>5 DEF IInv
<1>9. CASE n = Founder
  <2>1. Undisturbed' => \A m \in Nodes \ {Founder} :
                          proc[m] \notin {"joined", "starting", "listening"}
    BY <1>9 DEF IInv, MembersFollow, Serves
  <2>2. \A m \in Nodes \ {Founder} : /\ proc'[m] = proc[m]
                                     /\ \A j \in Slots : reporters'[m][j] = reporters[m][j]
    BY <1>1, <1>3, <1>9
  <2>3. Undisturbed' => Undisturbed
    BY <1>9
  <2>4. MembersFollow'
    BY <2>1, <2>2, <2>3 DEF IInv, MembersFollow
  <2> QED
    BY <1>5, <1>6, <1>7, <2>4 DEF IInv
<1> QED
  BY <1>8, <1>9

LEMMA StartFounderStep ==
  ASSUME IInv, StartFounder
  PROVE  IInv'
<1> USE ConstantsFit
<1>1. /\ proc[Founder] = "down" /\ BeginService(Founder, Founder)
      /\ starts' = [starts EXCEPT ![Founder] = @ + 1]
      /\ cluster' = [cluster EXCEPT ![Founder] = NewCluster(Founder)]
      /\ UNCHANGED <<boss, reported, command, deploying, used, spawns>>
  BY DEF StartFounder, Up
<1>2. /\ NewCluster(Founder) \in Clusters /\ NewCluster(Founder).sched = Founder
      /\ NewCluster(Founder).servers # <<>>
  BY DEF NewCluster, Clusters
<1>3. /\ cluster' \in [Nodes -> Clusters \cup {None}] /\ cluster'[Founder] = NewCluster(Founder)
      /\ \A m \in Nodes : m # Founder => cluster'[m] = cluster[m]
  <2>1. cluster \in [Nodes -> Clusters \cup {None}]
    BY DEF IInv, TypeOK
  <2> QED
    BY <1>1, <1>2, <2>1
<1>4. /\ starts' \in [Nodes -> Nat] /\ starts[Founder] \in Nat
      /\ starts'[Founder] = starts[Founder] + 1
  BY <1>1 DEF IInv, TypeOK
<1>5. command[Founder] = None /\ services[Founder] <= 1
  <2>1. services[Founder] \in Nat
    BY DEF IInv, TypeOK
  <2>2. ~ services[Founder] > 0 /\ command[Founder] = None
    BY <1>1 DEF IInv, ProcessStages
  <2> QED
    BY <2>1, <2>2
<1>6. Undisturbed' => Undisturbed
  BY <1>4, <1>5 DEF Undisturbed
<1>7. cluster'[Founder] # None
  BY <1>2, <1>3
<1>8. command' \in [Nodes -> Commands \cup {None}]
  BY <1>1 DEF IInv, TypeOK
<1> QED
  BY <1>1, <1>2, <1>3, <1>4, <1>5, <1>6, <1>7, <1>8, BeginServiceStep

LEMMA JoinRepliedStep ==
  ASSUME IInv, NEW n \in Nodes, JoinReplied(n)
  PROVE  IInv'
<1>1. /\ proc[n] = "joined" /\ BeginService(n, boss[n])
      /\ UNCHANGED <<boss, cluster, reported, command, deploying, used, spawns, starts>>
  BY DEF JoinReplied
<1>2. boss[n] = Founder /\ n # Founder /\ command[n] = None
  BY <1>1 DEF IInv, NobodyElected, ProcessStages
<1>3. /\ command \in [Nodes -> Commands \cup {None}]
      /\ cluster \in [Nodes -> Clusters \cup {None}]
      /\ starts \in [Nodes -> Nat]
      /\ cluster[Founder] # None => /\ cluster[Founder].sched = Founder
                                    /\ cluster[Founder].servers # <<>>
  BY ConstantsFit DEF IInv, TypeOK, NobodyElected
<1> QED
  BY <1>1, <1>2, <1>3, BeginServiceStep

\* The founder's second service is what disturbs its members.
LEMMA TakeCommandStep ==
  ASSUME IInv, NEW n \in Nodes, TakeCommand(n)
  PROVE  IInv'
<1>1. command[n] = Keep /\ boss[n] = Founder /\ proc[n] = "listening"
  BY DEF TakeCommand, IInv, NobodyElected, ProcessStages
<1>2. Keep.kind = "keep"
  BY DEF Keep
<1>3. /\ command' = [command EXCEPT ![n] = None] /\ BeginService(n, boss[n])
      /\ UNCHANGED <<boss, cluster, reported, deploying, used, spawns, starts>>
  BY <1>1, <1>2 DEF TakeCommand
<1>4. /\ command \in [Nodes -> Commands \cup {None}]
      /\ cluster \in [Nodes -> Clusters \cup {None}]
      /\ starts \in [Nodes -> Nat]
      /\ cluster[Founder] # None => /\ cluster[Founder].sched = Founder
                                    /\ cluster[Founder].servers # <<>>
  BY ConstantsFit DEF IInv, TypeOK, NobodyElected
<1>5. /\ command' \in [Nodes -> Commands \cup {None}] /\ command'[n] = None
      /\ \A m \in Nodes : m # n => command'[m] = command[m]
  BY <1>3, <1>4
<1>6. n = Founder => starts'[Founder] > 0 /\ ~ Undisturbed'
  <2> SUFFICES ASSUME n = Founder PROVE starts'[Founder] > 0 /\ ~ Undisturbed'
    OBVIOUS
  <2>1. services[n] \in Nat /\ services[n] > 0
    BY <1>1, ConstantsFit DEF IInv, TypeOK, ProcessStages
  <2>2. services'[n] = services[n] + 1
    BY <1>1, <1>3, BeginServiceTypes DEF IInv
  <2>3. ~ Undisturbed'
    BY <2>1, <2>2 DEF Undisturbed
  <2>4. starts[Founder] > 0
    BY <1>1 DEF IInv, ProcessStages, Up
  <2> QED
    BY <1>3, <2>3, <2>4
<1> QED
  BY <1>1, <1>3, <1>4, <1>5, <1>6, BeginServiceStep

(***************************************************************************)
(* A process ends.                                                         *)
(***************************************************************************)
LEMMA EndsStep ==
  ASSUME IInv, NEW n \in Nodes, Up(n), Ends(n)
  PROVE  IInv'
<1> USE ConstantsFit
<1>1. /\ proc' = [proc EXCEPT ![n] = "down"] /\ cluster' = [cluster EXCEPT ![n] = None]
      /\ reported' = [reported EXCEPT ![n] = {}] /\ command' = [command EXCEPT ![n] = None]
      /\ services' = [services EXCEPT ![n] = 0] /\ boss' = [boss EXCEPT ![n] = Founder]
      /\ deploying' = {x \in deploying : x[3] # n}
      /\ UNCHANGED <<used, spawns, starts>>
  BY DEF Ends
<1>2. /\ reporters' \in [Nodes -> [Slots -> Reporters]]
      /\ \A k \in Slots : reporters'[n][k] = NoReporter
      /\ \A m \in Nodes \ {n}, k \in Slots :
           reporters'[m][k] =
             IF reporters[m][k].at = "calling" /\ reporters[m][k].boss = n
             THEN [reporters[m][k] EXCEPT !.at = "broken"] ELSE reporters[m][k]
  <2>1. \A r \in Reporters : [r EXCEPT !.at = "broken"] \in Reporters
    BY DEF Reporters
  <2>2. \A m \in Nodes, k \in Slots : reporters[m][k] \in Reporters
    BY DEF IInv, TypeOK
  <2> QED
    BY <2>1, <2>2, ReporterForms DEF Ends
<1>3. \A m \in Nodes \ {n}, k \in Slots :
        /\ reporters'[m][k].boss = reporters[m][k].boss
        /\ reporters'[m][k].last = reporters[m][k].last
        /\ IF reporters[m][k].at = "calling" /\ reporters[m][k].boss = n
             THEN reporters'[m][k].at = "broken"
             ELSE reporters'[m][k].at = reporters[m][k].at
  <2> SUFFICES ASSUME NEW m \in Nodes \ {n}, NEW k \in Slots
               PROVE  /\ reporters'[m][k].boss = reporters[m][k].boss
                      /\ reporters'[m][k].last = reporters[m][k].last
                      /\ IF reporters[m][k].at = "calling" /\ reporters[m][k].boss = n
                           THEN reporters'[m][k].at = "broken"
                           ELSE reporters'[m][k].at = reporters[m][k].at
    OBVIOUS
  <2>1. reporters[m][k] \in Reporters
    BY DEF IInv, TypeOK
  <2>2. \A r \in Reporters : LET b == [r EXCEPT !.at = "broken"]
                             IN  b.at = "broken" /\ b.boss = r.boss /\ b.last = r.last
    BY DEF Reporters
  <2> QED
    BY <1>2, <2>1, <2>2
<1>4. /\ proc'[n] = "down" /\ cluster'[n] = None /\ command'[n] = None /\ services'[n] = 0
      /\ boss'[n] = Founder
      /\ \A m \in Nodes \ {n} : /\ proc'[m] = proc[m] /\ cluster'[m] = cluster[m]
                                /\ command'[m] = command[m] /\ services'[m] = services[m]
                                /\ boss'[m] = boss[m]
  BY <1>1 DEF IInv, TypeOK
<1>5. \A m \in Nodes, k \in Slots :
        LET r == reporters[m][k]
        IN  /\ r.at = "none" <=> k > services[m]
            /\ r.at \in {"idle", "calling", "broken"} => r.boss \in Nodes
            /\ r.last # None => r.last.servers # <<>>
  BY DEF IInv, TypeOK
<1>6. TypeOK'
  <2>1. \A m \in Nodes, k \in Slots : (reporters'[m][k].at = "none") <=> k > services'[m]
    <3> SUFFICES ASSUME NEW m \in Nodes, NEW k \in Slots
                 PROVE  (reporters'[m][k].at = "none") <=> k > services'[m]
      OBVIOUS
    <3>1. CASE m = n
      BY <1>2, <1>4, <3>1, ReporterForms DEF Slots
    <3>2. CASE m # n
      BY <1>3, <1>4, <1>5, <3>2
    <3> QED
      BY <3>1, <3>2
  <2>2. \A m \in Nodes, k \in Slots :
          /\ reporters'[m][k].at \in {"idle", "calling", "broken"} => reporters'[m][k].boss \in Nodes
          /\ reporters'[m][k].last # None => reporters'[m][k].last.servers # <<>>
    <3> SUFFICES ASSUME NEW m \in Nodes, NEW k \in Slots
                 PROVE  LET r == reporters'[m][k]
                        IN  /\ r.at \in {"idle", "calling", "broken"} => r.boss \in Nodes
                            /\ r.last # None => r.last.servers # <<>>
      OBVIOUS
    <3>1. CASE m = n
      BY <1>2, <3>1, ReporterForms
    <3>2. CASE m # n
      BY <1>3, <1>5, <3>2
    <3> QED
      BY <3>1, <3>2
  <2>3. /\ proc' \in [Nodes -> {"down", "joining", "joined", "starting", "listening"}]
        /\ boss' \in [Nodes -> Nodes] /\ cluster' \in [Nodes -> Clusters \cup {None}]
        /\ reported' \in [Nodes -> SUBSET Nodes]
        /\ command' \in [Nodes -> Commands \cup {None}]
        /\ services' \in [Nodes -> 0 .. MaxServices]
    BY <1>1 DEF IInv, TypeOK
  <2>4. \A m \in Nodes : cluster'[m] # None => cluster'[m].servers # <<>>
    BY <1>4 DEF IInv, TypeOK
  <2>5. /\ deploying' \subseteq Deployments \X Nodes \X Nodes
        /\ used' \subseteq Deployments /\ spawns' \in 0 .. MaxSpawns
        /\ starts' \in [Nodes -> Nat]
    BY <1>1 DEF IInv, TypeOK
  <2> QED
    BY <1>2, <2>1, <2>2, <2>3, <2>4, <2>5 DEF TypeOK
<1>7. NobodyElected'
  <2>1. \A m \in Nodes : /\ command'[m] \in {None, Keep} /\ boss'[m] = Founder
                         /\ cluster'[m] # None => m = Founder /\ cluster'[m].sched = Founder
    BY <1>4 DEF IInv, NobodyElected
  <2>2. \A m \in Nodes, k \in Slots :
          LET r == reporters'[m][k]
          IN  /\ r.boss \in {Founder, None}
              /\ r.at \in {"idle", "calling", "broken"} => r.boss = Founder
              /\ r.at = "calling" => cluster'[Founder] # None
    <3> SUFFICES ASSUME NEW m \in Nodes, NEW k \in Slots
                 PROVE  LET r == reporters'[m][k]
                        IN  /\ r.boss \in {Founder, None}
                            /\ r.at \in {"idle", "calling", "broken"} => r.boss = Founder
                            /\ r.at = "calling" => cluster'[Founder] # None
      OBVIOUS
    <3>1. CASE m = n
      BY <1>2, <3>1, ReporterForms
    <3>2. CASE m # n
      BY <1>3, <1>4, <3>2 DEF IInv, NobodyElected
    <3> QED
      BY <3>1, <3>2
  <2>3. \A x \in deploying' : x[3] = Founder /\ cluster'[Founder] # None
    BY <1>1, <1>4 DEF IInv, NobodyElected
  <2> QED
    BY <2>1, <2>2, <2>3 DEF NobodyElected
<1>8. ProcessStages'
  BY <1>1, <1>4 DEF IInv, ProcessStages, Up
<1>9. MembersFollow'
  <2>1. CASE n = Founder
    <3>1. starts'[Founder] = starts[Founder] /\ starts[Founder] \in Nat /\ starts[Founder] > 0
      BY <1>1, <2>1 DEF IInv, TypeOK, ProcessStages
    <3>2. ~ Undisturbed'
      BY <1>4, <2>1, <3>1 DEF Undisturbed, Up
    <3> QED
      BY <3>2 DEF MembersFollow
  <2>2. CASE n # Founder
    <3>1. /\ starts'[Founder] = starts[Founder] /\ services'[Founder] = services[Founder]
          /\ proc'[Founder] = proc[Founder] /\ cluster'[Founder] = cluster[Founder]
      BY <1>1, <1>4, <2>2
    <3>2. /\ Undisturbed' <=> Undisturbed
          /\ Serves(Founder)' <=> Serves(Founder)
      BY <3>1 DEF Undisturbed, Up, Serves
    <3>3. \A m \in Nodes \ {Founder} :
            proc'[m] \in {"joined", "starting", "listening"} =>
              proc[m] \in {"joined", "starting", "listening"}
      BY <1>4
    <3>4. \A m \in Nodes \ {n}, k \in Slots : reporters'[m][k].at = reporters[m][k].at
      BY <1>3, <2>2 DEF IInv, NobodyElected
    <3>5. \A k \in Slots : reporters'[n][k].at = "none"
      BY <1>2, ReporterForms
    <3> QED
      BY <3>2, <3>3, <3>4, <3>5 DEF IInv, MembersFollow
  <2> QED
    BY <2>1, <2>2
<1> QED
  BY <1>6, <1>7, <1>8, <1>9 DEF IInv

LEMMA NextIInv ==
  ASSUME IInv, [Next]_vars
  PROVE  IInv'
<1>1. CASE StartFounder
  BY <1>1, StartFounderStep
<1>2. ASSUME NEW n \in Nodes, StartMember(n) \/ Crash(n)
      PROVE  IInv'
  BY <1>2, StartMemberStep, EndsStep DEF Crash
<1>3. ASSUME NEW n \in Nodes, Runs(n)
      PROVE  IInv'
  <2>1. CASE JoinFails(n)
    BY <2>1, EndsStep DEF JoinFails, Up
  <2> QED
    BY <1>3, <2>1, JoinAcceptedStep, JoinRepliedStep, ListenStep, TakeCommandStep, CommitStep
       DEF Runs
<1>4. ASSUME NEW n \in Nodes, NEW d \in Deployments, Spawn(n, d)
      PROVE  IInv'
  BY <1>4, SpawnStep
<1>5. ASSUME NEW n \in Nodes, NEW k \in Slots, Reports(n, k)
      PROVE  IInv'
  BY <1>5, ConnectStep, ReportStep, ReportFailsStep DEF Reports
<1>6. CASE UNCHANGED vars
  BY <1>6 DEF vars, IInv, TypeOK, NobodyElected, ProcessStages, MembersFollow, Undisturbed, Up, Serves
<1> QED
  BY <1>1, <1>2, <1>3, <1>4, <1>5, <1>6 DEF Next

(***************************************************************************)
(* The theorems.                                                           *)
(***************************************************************************)
\* Every step of every node preserves the invariant.
THEOREM Invariance == Spec => []IInv
BY InitIInv, NextIInv, PTL DEF Spec

\* Types; every service of a process has started its reporter.
THEOREM TypeCorrect == Spec => []TypeOK
BY Invariance, PTL DEF IInv

\* However many nodes die and are started again, and whatever their reporters
\* make of it, two nodes never schedule at once: only the founder ever does.
THEOREM OneSchedulerAlways == Spec => []OneScheduler
<1>1. IInv => OneScheduler
  BY DEF IInv, NobodyElected, OneScheduler, Schedulers
<1> QED
  BY <1>1, Invariance, PTL

\* As long as the founder is not restarted and its service not replaced, no
\* member loses a reporter, however often the member's service is replaced and
\* whoever joins, crashes or comes back.
THEOREM ReportersSurviveAlways == Spec => []ReportersSurvive
<1>1. IInv => ReportersSurvive
  BY DEF IInv, MembersFollow, ReportersSurvive
<1> QED
  BY <1>1, Invariance, PTL
=============================================================================
