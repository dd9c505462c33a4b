-------------------------- MODULE SchedulerProofs --------------------------
(***************************************************************************)
(* Theorems about Scheduler, for every number of servers, deployments and  *)
(* calls in flight and for every kind of window.                           *)
(***************************************************************************)
EXTENDS Scheduler, SequenceTheorems, FiniteSetTheorems, TLAPS

Policy == INSTANCE MeanSchedulerProofs

(***************************************************************************)
(* What the updates of an IdMap keep, for any keys and values.             *)
(***************************************************************************)
LEMMA EmptyMapIsMap ==
  ASSUME NEW K, NEW V
  PROVE  IsIdMap(EmptyMap, K, V) /\ DOMAIN EmptyMap = {}
BY DEF IsIdMap, EmptyMap

\* insert_instance and insert_stats: the entry of k grows by items.
LEMMA AppendAtMap ==
  ASSUME NEW K, NEW V, NEW m, IsIdMap(m, K, Seq(V)), NEW k \in K, NEW items \in Seq(V)
  PROVE  IsIdMap(AppendAt(m, k, items), K, Seq(V))
<1> DEFINE new == IF k \in DOMAIN m THEN m[k] \o items ELSE items
           SV  == Seq(V)
<1>1. new \in SV
  BY ConcatProperties DEF IsIdMap
<1>2. AppendAt(m, k, items) = Put(m, k, new)
  BY DEF AppendAt
<1>3. IsIdMap(m, K, SV)
  OBVIOUS
<1> SUFFICES IsIdMap(Put(m, k, new), K, SV)
  BY <1>2
<1> HIDE DEF new, SV
<1> QED
  BY <1>1, <1>3 DEF IsIdMap, Put

\* schedule returns a server of the map it is given.
LEMMA ChoicesInDomain ==
  ASSUME NEW m, NEW resource
  PROVE  ScheduleChoices(m, resource) \subseteq DOMAIN m
BY DEF ScheduleChoices

\* A lookup is answered with a server that is listed for the deployment.
LEMMA LookupChoicesListed ==
  ASSUME NEW d, NEW s \in LookupChoices(d)
  PROVE  d \in DOMAIN instances /\ s \in Elements(instances[d]) /\ s \in DOMAIN stats
<1>1. d \in DOMAIN instances
  BY DEF LookupChoices
<1>2. s \in DOMAIN LookupStats(d)
  BY <1>1, ChoicesInDomain DEF LookupChoices
<1> QED
  BY <1>1, <1>2 DEF LookupStats, CloneByIds

(***************************************************************************)
(* Which steps write what.                                                 *)
(***************************************************************************)
LEMMA InstancesWriters ==
  [Next]_vars => \/ UNCHANGED <<instances, deployments>>
                 \/ Restart
                 \/ \E t \in Tasks : Commit(t)
<1> USE DEF runtime, history
<1>1. ASSUME NEW t \in Tasks, Arrive(t) \/ CallerLeaves(t)
      PROVE  UNCHANGED <<instances, deployments>>
  BY <1>1 DEF Arrive, CallJoin, CallReport, CallLookup, CallDeploy, CallerLeaves
<1>2. ASSUME NEW t \in Tasks, Step(t)
      PROVE  UNCHANGED <<instances, deployments>> \/ Commit(t)
  BY <1>2 DEF Step, JoinPush, JoinReply, Report, LookupRefused, LookupAnswer,
       ScaleNotNeeded, ScaleOut, DeployClone, DeploySave, DeploySaveFails, Select,
       SpawnTakesEffect, SpawnConfirmed, SpawnFails
<1> QED
  BY <1>1, <1>2 DEF Next, vars

LEMMA StatsWriters ==
  [Next]_vars => \/ UNCHANGED stats
                 \/ Restart
                 \/ \E t \in Tasks : Report(t)
<1> USE DEF runtime, history
<1>1. ASSUME NEW t \in Tasks, Arrive(t) \/ CallerLeaves(t)
      PROVE  UNCHANGED stats
  BY <1>1 DEF Arrive, CallJoin, CallReport, CallLookup, CallDeploy, CallerLeaves
<1>2. ASSUME NEW t \in Tasks, Step(t)
      PROVE  UNCHANGED stats \/ Report(t)
  BY <1>2 DEF Step, JoinPush, JoinReply, LookupRefused, LookupAnswer,
       ScaleNotNeeded, ScaleOut, DeployClone, DeploySave, DeploySaveFails, Select,
       SpawnTakesEffect, SpawnConfirmed, SpawnFails, Commit
<1> QED
  BY <1>1, <1>2 DEF Next, vars

(***************************************************************************)
(* Types, and the arguments a task carries.                                *)
(***************************************************************************)
LEMMA NoArgType == NoArg \in Args
BY DEF NoArg, Args

LEMMA InitIInv == Init => IInv
<1> SUFFICES ASSUME Init PROVE IInv
  OBVIOUS
<1> USE DEF Init
<1>1. TypeOK
  BY SchedulerConstants, EmptyMapIsMap, NoArgType DEF TypeOK, Progress
<1>2. ArgsFit /\ BlockedOnlyByOverload /\ DeploysDistinct /\ SavedFirst
  BY EmptyMapIsMap DEF ArgsFit, BlockedOnlyByOverload, DeploysDistinct, Deploys,
       SavedFirst, SavedBeforeSpawned
<1>3. OneInstanceEach /\ SpawnedFirst
  BY EmptyMapIsMap DEF OneInstanceEach, SpawnedFirst, Listed
<1> QED
  BY <1>1, <1>2, <1>3 DEF IInv

\* A call that arrives has the arguments its handler reads.
LEMMA ArrivalTypes ==
  ASSUME TypeOK, ArgsFit, NEW t \in Tasks, Arrive(t)
  PROVE  TypeOK' /\ ArgsFit'
<1> USE DEF runtime, history, Call, Goto, TypeOK, ArgsFit, Progress, Args, NoArg
<1>1. ASSUME NEW s \in Servers, CallJoin(t, s)
      PROVE  TypeOK' /\ ArgsFit'
  BY <1>1 DEF CallJoin
<1>2. ASSUME NEW s \in Servers, NEW w \in Windows, CallReport(t, s, w)
      PROVE  TypeOK' /\ ArgsFit'
  BY <1>2 DEF CallReport
<1>3. ASSUME NEW d \in Deployments, CallLookup(t, d)
      PROVE  TypeOK' /\ ArgsFit'
  BY <1>3 DEF CallLookup
<1>4. ASSUME NEW d \in Deployments, CallDeploy(t, d)
      PROVE  TypeOK' /\ ArgsFit'
  BY <1>4 DEF CallDeploy
<1> QED
  BY <1>1, <1>2, <1>3, <1>4 DEF Arrive

\* A task that returns, or a caller that leaves, frees its slot.
LEMMA ReturnTypes ==
  ASSUME TypeOK, ArgsFit, NEW t \in Tasks, NEW from, Return(t, from),
         UNCHANGED <<servers, instances, deployments, saved, history>>,
         IsIdMap(stats', Servers, Seq(Windows))
  PROVE  TypeOK' /\ ArgsFit'
BY DEF history, Return, Goto, TypeOK, ArgsFit, Progress, Args, NoArg

LEMMA StepTypes ==
  ASSUME TypeOK, ArgsFit, NEW t \in Tasks, Step(t)
  PROVE  TypeOK' /\ ArgsFit'
<1> USE DEF runtime, history, Goto
<1>1. CASE JoinPush(t)
  <2>1. servers' \in Seq(Servers) /\ servers' # <<>> /\ servers'[1] = Self
    BY <1>1, AppendProperties DEF JoinPush, TypeOK, ArgsFit
  <2> QED
    BY <1>1, <2>1 DEF JoinPush, TypeOK, ArgsFit, Progress
<1>2. CASE JoinReply(t) \/ LookupRefused(t) \/ ScaleNotNeeded(t) \/ DeploySaveFails(t)
  BY <1>2, ReturnTypes
     DEF JoinReply, LookupRefused, ScaleNotNeeded, DeploySaveFails, TypeOK
<1>3. CASE Report(t)
  <2>1. <<arg[t].w>> \in Seq(Windows) /\ arg[t].s \in Servers
    BY <1>3 DEF Report, Return, ArgsFit
  <2>2. IsIdMap(stats', Servers, Seq(Windows))
    BY <1>3, <2>1, AppendAtMap DEF Report, TypeOK
  <2> QED
    BY <1>3, <2>2, ReturnTypes DEF Report
<1>4. CASE LookupAnswer(t)
  <2> PICK s \in LookupChoices(arg[t].d) :
             /\ arg' = [arg EXCEPT ![t].s = s]
             /\ answered' = answered \cup {<<arg[t].d, s>>}
    BY <1>4 DEF LookupAnswer
  <2>1. s \in Servers
    BY LookupChoicesListed DEF TypeOK, IsIdMap
  <2>2. arg[t].d \in Deployments
    BY <1>4 DEF LookupAnswer, ArgsFit
  <2> QED
    BY <1>4, <2>1, <2>2 DEF LookupAnswer, TypeOK, ArgsFit, Progress, Args
<1>5. CASE ScaleOut(t) \/ DeployClone(t) \/ DeploySave(t)
  BY <1>5 DEF ScaleOut, DeployClone, DeploySave, TypeOK, ArgsFit, Progress
<1>6. CASE Select(t)
  <2> PICK s \in Targets : arg' = [arg EXCEPT ![t].s = s]
    BY <1>6 DEF Select
  <2>1. s \in Servers
    BY ChoicesInDomain DEF Targets, TypeOK, IsIdMap
  <2> QED
    BY <1>6, <2>1 DEF Select, TypeOK, ArgsFit, Progress, Args
<1>7. CASE SpawnTakesEffect(t) \/ SpawnConfirmed(t)
  BY <1>7 DEF SpawnTakesEffect, SpawnConfirmed, TypeOK, ArgsFit, Progress
<1>8. CASE SpawnFails(t)
  BY <1>8, ReturnTypes DEF SpawnFails, TypeOK
<1>9. CASE Commit(t)
  <2>1. arg[t].d \in Deployments /\ <<arg[t].s>> \in Seq(Servers)
    BY <1>9 DEF Commit, Return, ArgsFit
  <2>2. IsIdMap(instances', Deployments, Seq(Servers))
    BY <1>9, <2>1, AppendAtMap DEF Commit, TypeOK
  <2> QED
    BY <1>9, <2>1, <2>2 DEF Commit, Return, TypeOK, ArgsFit, Progress, Args, NoArg
<1> QED
  BY <1>1, <1>2, <1>3, <1>4, <1>5, <1>6, <1>7, <1>8, <1>9 DEF Step

\* Nothing but the database and the history survives a restart.
LEMMA RestartTypes ==
  ASSUME TypeOK, Restart
  PROVE  TypeOK' /\ ArgsFit'
BY SchedulerConstants, EmptyMapIsMap, NoArgType
   DEF Restart, TypeOK, ArgsFit, Progress

LEMMA NextTypes ==
  ASSUME TypeOK, ArgsFit, [Next]_vars
  PROVE  TypeOK' /\ ArgsFit'
<1>1. ASSUME NEW t \in Tasks, CallerLeaves(t)
      PROVE  TypeOK' /\ ArgsFit'
  BY <1>1, ReturnTypes DEF CallerLeaves, TypeOK, runtime
<1>2. CASE UNCHANGED vars
  BY <1>2 DEF vars, runtime, history, TypeOK, ArgsFit
<1> QED
  BY <1>1, <1>2, ArrivalTypes, StepTypes, RestartTypes DEF Next

(***************************************************************************)
(* The mutex.                                                              *)
(***************************************************************************)
\* Only the scale-out task stores itself in lock.
LEMMA LockTakers ==
  ASSUME lock = Free, [Next]_vars, lock' # Free
  PROVE  \E t \in Tasks : ScaleOut(t)
<1> USE DEF runtime, history
<1>1. ASSUME NEW t \in Tasks, Arrive(t) \/ CallerLeaves(t)
      PROVE  FALSE
  BY <1>1 DEF Arrive, CallJoin, CallReport, CallLookup, CallDeploy, CallerLeaves, Return
<1>2. ASSUME NEW t \in Tasks, Step(t)
      PROVE  ScaleOut(t)
  BY <1>2 DEF Step, JoinPush, JoinReply, Report, LookupRefused, LookupAnswer,
       ScaleNotNeeded, DeployClone, DeploySave, DeploySaveFails, Select,
       SpawnTakesEffect, SpawnConfirmed, SpawnFails, Commit, Return
<1> QED
  BY <1>1, <1>2 DEF Next, vars, Restart

\* While the mutex is kept, its holder waits for itself and every other task
\* for the holder, or works outside of the runtime.
LEMMA HolderStays ==
  ASSUME TypeOK, BlockedOnlyByOverload, lock # Free, [Next]_vars, ~ Restart
  PROVE  /\ UNCHANGED <<runtime, lock>>
         /\ pc'[lock] = pc[lock]
         /\ arg'[lock] = arg[lock]
<1> USE DEF runtime, history, Goto, Call, Return
<1>1. lock \in Tasks /\ pc[lock] = "select"
  BY DEF TypeOK, BlockedOnlyByOverload
<1>2. CASE UNCHANGED vars
  BY <1>2 DEF vars
<1>3. ASSUME NEW t \in Tasks, Arrive(t)
      PROVE  /\ UNCHANGED <<runtime, lock>>
             /\ pc'[lock] = pc[lock]
             /\ arg'[lock] = arg[lock]
  BY <1>1, <1>3 DEF Arrive, CallJoin, CallReport, CallLookup, CallDeploy, TypeOK
<1>4. ASSUME NEW t \in Tasks, CallerLeaves(t)
      PROVE  /\ UNCHANGED <<runtime, lock>>
             /\ pc'[lock] = pc[lock]
             /\ arg'[lock] = arg[lock]
  BY <1>1, <1>4 DEF CallerLeaves, TypeOK
<1>5. ASSUME NEW t \in Tasks, Step(t)
      PROVE  /\ UNCHANGED <<runtime, lock>>
             /\ pc'[lock] = pc[lock]
             /\ arg'[lock] = arg[lock]
  <2>1. \/ DeploySave(t) \/ DeploySaveFails(t) \/ SpawnTakesEffect(t)
        \/ SpawnConfirmed(t) \/ SpawnFails(t)
    BY <1>5 DEF Step, JoinPush, JoinReply, Report, LookupRefused, LookupAnswer,
         ScaleNotNeeded, ScaleOut, DeployClone, Select, Commit
  <2> QED
    BY <1>1, <2>1 DEF DeploySave, DeploySaveFails, SpawnTakesEffect,
         SpawnConfirmed, SpawnFails, TypeOK
<1> QED
  BY <1>2, <1>3, <1>4, <1>5 DEF Next

LEMMA NextBlocked ==
  ASSUME TypeOK, ArgsFit, BlockedOnlyByOverload, [Next]_vars
  PROVE  BlockedOnlyByOverload'
<1>1. CASE lock # Free /\ ~ Restart
  BY <1>1, HolderStays DEF BlockedOnlyByOverload, runtime
<1>2. CASE lock # Free /\ Restart
  BY <1>2 DEF BlockedOnlyByOverload, Restart
<1>3. CASE lock = Free /\ lock' # Free
  <2> PICK t \in Tasks : ScaleOut(t)
    BY <1>3, LockTakers
  <2>1. NeedsInstance(arg[t].d, arg[t].s)
    BY DEF ScaleOut
  <2>2. lock' = t /\ pc'[t] = "select" /\ UNCHANGED <<arg, stats, deployments>>
    BY DEF ScaleOut, Goto, runtime, TypeOK
  <2> QED
    BY <2>1, <2>2 DEF NeedsInstance, NeedsScaleOut, BlockedOnlyByOverload
<1>4. CASE lock' = Free
  BY <1>4 DEF BlockedOnlyByOverload
<1> QED
  BY <1>1, <1>2, <1>3, <1>4

(***************************************************************************)
(* Deploys in flight.                                                      *)
(***************************************************************************)
\* Histories and the database only grow.
LEMMA HistoryGrows ==
  ASSUME [Next]_vars
  PROVE  /\ created \subseteq created'
         /\ saved \subseteq saved'
         /\ spawned \subseteq spawned'
<1> USE DEF runtime, history
<1>1. ASSUME NEW t \in Tasks, Arrive(t) \/ CallerLeaves(t)
      PROVE  created \subseteq created' /\ saved \subseteq saved' /\ spawned \subseteq spawned'
  BY <1>1 DEF Arrive, CallJoin, CallReport, CallLookup, CallDeploy, CallerLeaves
<1>2. ASSUME NEW t \in Tasks, Step(t)
      PROVE  created \subseteq created' /\ saved \subseteq saved' /\ spawned \subseteq spawned'
  BY <1>2 DEF Step, JoinPush, JoinReply, Report, LookupRefused, LookupAnswer,
       ScaleNotNeeded, ScaleOut, DeployClone, DeploySave, DeploySaveFails, Select,
       SpawnTakesEffect, SpawnConfirmed, SpawnFails, Commit
<1> QED
  BY <1>1, <1>2 DEF Next, vars, Restart

\* A deploy begins with a call, keeps its deployment, and leaves add_app only
\* after the save.
LEMMA DeploysKeep ==
  ASSUME TypeOK, BlockedOnlyByOverload, [Next]_vars, NEW u \in Tasks, Deploys(u)'
  PROVE  \/ \E d \in Deployments : CallDeploy(u, d)
         \/ /\ Deploys(u)
            /\ arg'[u].d = arg[u].d
            /\ pc'[u] \notin {"clone", "save"} =>
                 pc[u] \notin {"clone", "save"} \/ arg[u].d \in saved'
<1> USE DEF runtime, history, Goto, Call, Return
<1>1. CASE UNCHANGED vars \/ Restart
  BY <1>1 DEF vars, Deploys, Restart
<1>2. ASSUME NEW t \in Tasks, Arrive(t), ~ \E d \in Deployments : CallDeploy(u, d)
      PROVE  Deploys(u) /\ UNCHANGED <<pc[u], arg[u]>>
  <2>1. t # u
    BY <1>2 DEF Arrive, CallJoin, CallReport, CallLookup, Deploys, TypeOK
  <2> QED
    BY <1>2, <2>1 DEF Arrive, CallJoin, CallReport, CallLookup, CallDeploy, Deploys, TypeOK
<1>3. ASSUME NEW t \in Tasks, CallerLeaves(t)
      PROVE  Deploys(u) /\ UNCHANGED <<pc[u], arg[u]>>
  BY <1>3 DEF CallerLeaves, Deploys, TypeOK
<1>4. ASSUME NEW t \in Tasks, t # u, Step(t)
      PROVE  Deploys(u) /\ UNCHANGED <<pc[u], arg[u]>>
  <2>1. UNCHANGED <<pc[u], arg[u]>>
    BY <1>4 DEF Step, JoinPush, JoinReply, Report, LookupRefused, LookupAnswer,
         ScaleNotNeeded, ScaleOut, DeployClone, DeploySave, DeploySaveFails, Select,
         SpawnTakesEffect, SpawnConfirmed, SpawnFails, Commit, TypeOK
  <2>2. lock = u => lock' = u
    <3> SUFFICES ASSUME lock = u PROVE lock' = u
      OBVIOUS
    <3>1. lock # Free
      BY SchedulerConstants
    <3>2. ~ Restart
      BY <1>4, <2>1, <3>1 DEF Restart, Deploys
    <3> QED
      BY <3>1, <3>2, HolderStays
  <2> QED
    BY <2>1, <2>2 DEF Deploys
<1>5. ASSUME Step(u)
      PROVE  /\ Deploys(u)
             /\ arg'[u].d = arg[u].d
             /\ pc'[u] \notin {"clone", "save"} =>
                  pc[u] \notin {"clone", "save"} \/ arg[u].d \in saved'
  <2>1. \/ DeployClone(u) \/ DeploySave(u) \/ Select(u)
        \/ SpawnTakesEffect(u) \/ SpawnConfirmed(u)
    BY <1>5 DEF Step, JoinPush, JoinReply, Report, LookupRefused, LookupAnswer,
         ScaleNotNeeded, ScaleOut, DeploySaveFails, SpawnFails, Commit, Deploys, TypeOK
  <2>2. UNCHANGED lock
    BY <2>1 DEF DeployClone, DeploySave, Select, SpawnTakesEffect, SpawnConfirmed
  <2> QED
    BY <2>1, <2>2 DEF DeployClone, DeploySave, Select, SpawnTakesEffect,
         SpawnConfirmed, Deploys, TypeOK, Args
<1> QED
  BY <1>1, <1>2, <1>3, <1>4, <1>5 DEF Next

\* Committing lists one more deployment, with one place.
LEMMA CommitLists ==
  ASSUME TypeOK, ArgsFit, BlockedOnlyByOverload, DeploysDistinct,
         NEW t \in Tasks, Commit(t)
  PROVE  /\ Deploys(t)
         /\ DOMAIN instances' = DOMAIN instances \cup {arg[t].d}
         /\ instances'[arg[t].d] = <<arg[t].s>>
         /\ \A d \in DOMAIN instances : instances'[d] = instances[d]
<1>1. Deploys(t)
  BY SchedulerConstants DEF Commit, Return, Goto, Deploys
<1>2. arg[t].d \in Deployments \ DOMAIN instances /\ <<arg[t].s>> \in Seq(Servers)
  BY <1>1 DEF Commit, Return, Goto, ArgsFit, DeploysDistinct
<1>3. instances' = Put(instances, arg[t].d, <<arg[t].s>>)
  BY <1>2 DEF Commit, AppendAt
<1> QED
  BY <1>1, <1>2, <1>3 DEF Put

LEMMA NextDistinct ==
  ASSUME TypeOK, ArgsFit, BlockedOnlyByOverload, DeploysDistinct, [Next]_vars
  PROVE  DeploysDistinct'
<1>1. ASSUME NEW u \in Tasks, Deploys(u)'
      PROVE  \/ Deploys(u) /\ arg'[u].d = arg[u].d
             \/ \E d \in Deployments \ created :
                  /\ arg'[u].d = d /\ created' = created \cup {d}
                  /\ UNCHANGED instances
                  /\ \A v \in Tasks \ {u} : pc'[v] = pc[v] /\ arg'[v] = arg[v]
                  /\ lock' = lock
  BY <1>1, DeploysKeep
     DEF CallDeploy, Call, Goto, NoArg, TypeOK, runtime
<1>2. DOMAIN instances' \subseteq created'
  <2>1. CASE UNCHANGED instances \/ Restart
    BY <2>1, HistoryGrows, EmptyMapIsMap DEF Restart, DeploysDistinct
  <2>2. ASSUME NEW t \in Tasks, Commit(t)
        PROVE  DOMAIN instances' \subseteq created'
    <3>1. Deploys(t) /\ DOMAIN instances' = DOMAIN instances \cup {arg[t].d}
      BY <2>2, CommitLists
    <3>2. arg[t].d \in created
      BY <3>1 DEF DeploysDistinct
    <3> QED
      BY <3>1, <3>2, HistoryGrows DEF DeploysDistinct
  <2> QED
    BY <2>1, <2>2, InstancesWriters
<1>3. ASSUME NEW u \in Tasks, Deploys(u)'
      PROVE  arg'[u].d \in created' \ DOMAIN instances'
  <2>1. CASE Deploys(u) /\ arg'[u].d = arg[u].d
    <3>1. arg[u].d \in created /\ arg[u].d \notin DOMAIN instances
      BY <2>1 DEF DeploysDistinct
    <3>2. arg[u].d \in created'
      BY <3>1, HistoryGrows
    <3> SUFFICES arg[u].d \notin DOMAIN instances'
      BY <2>1, <3>2
    <3>3. ASSUME NEW t \in Tasks, Commit(t)
          PROVE  arg[u].d \notin DOMAIN instances'
      <4>1. t # u
        BY <1>3, <3>3 DEF Commit, Return, Goto, Deploys, TypeOK
      <4>2. DOMAIN instances' = DOMAIN instances \cup {arg[t].d} /\ Deploys(t)
        BY <3>3, CommitLists
      <4>3. arg[t].d # arg[u].d
        BY <2>1, <4>1, <4>2 DEF DeploysDistinct
      <4> QED
        BY <3>1, <4>2, <4>3
    <3>4. CASE Restart
      BY <3>4, EmptyMapIsMap DEF Restart
    <3>5. CASE UNCHANGED instances
      BY <3>1, <3>5
    <3> QED
      BY <3>3, <3>4, <3>5, InstancesWriters
  <2>2. CASE ~ (Deploys(u) /\ arg'[u].d = arg[u].d)
    <3> PICK d \in Deployments \ created :
               arg'[u].d = d /\ created' = created \cup {d} /\ UNCHANGED instances
      BY <1>1, <1>3, <2>2
    <3> QED
      BY DEF DeploysDistinct
  <2> QED
    BY <2>1, <2>2
<1>4. ASSUME NEW t \in Tasks, NEW u \in Tasks, Deploys(t)', Deploys(u)', t # u
      PROVE  arg'[t].d # arg'[u].d
  <2>1. CASE /\ Deploys(t) /\ arg'[t].d = arg[t].d
             /\ Deploys(u) /\ arg'[u].d = arg[u].d
    BY <1>4, <2>1 DEF DeploysDistinct
  <2>2. ASSUME NEW v \in Tasks, NEW w \in Tasks, Deploys(v)', Deploys(w)', v # w,
               ~ (Deploys(v) /\ arg'[v].d = arg[v].d)
        PROVE  arg'[v].d # arg'[w].d
    <3> PICK d \in Deployments \ created :
               /\ arg'[v].d = d
               /\ pc'[w] = pc[w] /\ arg'[w] = arg[w]
               /\ lock' = lock
      BY <1>1, <2>2
    <3>1. Deploys(w)
      BY <2>2 DEF Deploys
    <3> QED
      BY <3>1 DEF DeploysDistinct
  <2> QED
    BY <1>4, <2>1, <2>2
<1> QED
  BY <1>2, <1>3, <1>4 DEF DeploysDistinct

LEMMA NextOneInstance ==
  ASSUME TypeOK, ArgsFit, BlockedOnlyByOverload, DeploysDistinct, OneInstanceEach,
         [Next]_vars
  PROVE  OneInstanceEach'
<1>1. CASE UNCHANGED <<instances, deployments>>
  BY <1>1 DEF OneInstanceEach
<1>2. CASE Restart
  BY <1>2, EmptyMapIsMap DEF Restart, OneInstanceEach
<1>3. ASSUME NEW t \in Tasks, Commit(t)
      PROVE  OneInstanceEach'
  <2>1. DOMAIN instances' = deployments'
    BY <1>3, CommitLists DEF Commit, OneInstanceEach
  <2>2. Len(<<arg[t].s>>) = 1
    OBVIOUS
  <2>3. \A d \in DOMAIN instances' :
          d \in DOMAIN instances \/ instances'[d] = <<arg[t].s>>
    BY <1>3, CommitLists
  <2>4. \A d \in DOMAIN instances : instances'[d] = instances[d]
    BY <1>3, CommitLists
  <2>5. \A d \in DOMAIN instances' : Len(instances'[d]) = 1
    BY <2>2, <2>3, <2>4 DEF OneInstanceEach
  <2> QED
    BY <2>1, <2>5 DEF OneInstanceEach
<1> QED
  BY <1>1, <1>2, <1>3, InstancesWriters

\* A spawn takes effect for a deploy in flight only.
LEMMA SpawnedWriters ==
  [Next]_vars => UNCHANGED spawned \/ \E t \in Tasks : SpawnTakesEffect(t)
<1> USE DEF runtime, history
<1>1. ASSUME NEW t \in Tasks, Arrive(t) \/ CallerLeaves(t)
      PROVE  UNCHANGED spawned
  BY <1>1 DEF Arrive, CallJoin, CallReport, CallLookup, CallDeploy, CallerLeaves
<1>2. ASSUME NEW t \in Tasks, Step(t)
      PROVE  UNCHANGED spawned \/ SpawnTakesEffect(t)
  BY <1>2 DEF Step, JoinPush, JoinReply, Report, LookupRefused, LookupAnswer,
       ScaleNotNeeded, ScaleOut, DeployClone, DeploySave, DeploySaveFails, Select,
       SpawnConfirmed, SpawnFails, Commit
<1> QED
  BY <1>1, <1>2 DEF Next, vars, Restart

\* Only a lookup that finds a server adds to the answers.
LEMMA AnsweredWriters ==
  [Next]_vars => UNCHANGED answered \/ \E t \in Tasks : LookupAnswer(t)
<1> USE DEF runtime, history
<1>1. ASSUME NEW t \in Tasks, Arrive(t) \/ CallerLeaves(t)
      PROVE  UNCHANGED answered
  BY <1>1 DEF Arrive, CallJoin, CallReport, CallLookup, CallDeploy, CallerLeaves
<1>2. ASSUME NEW t \in Tasks, Step(t)
      PROVE  UNCHANGED answered \/ LookupAnswer(t)
  BY <1>2 DEF Step, JoinPush, JoinReply, Report, LookupRefused,
       ScaleNotNeeded, ScaleOut, DeployClone, DeploySave, DeploySaveFails, Select,
       SpawnTakesEffect, SpawnConfirmed, SpawnFails, Commit
<1> QED
  BY <1>1, <1>2 DEF Next, vars, Restart

LEMMA NextSaved ==
  ASSUME TypeOK, BlockedOnlyByOverload, SavedFirst, [Next]_vars
  PROVE  SavedFirst'
<1>1. SavedBeforeSpawned'
  <2>1. ASSUME NEW t \in Tasks, SpawnTakesEffect(t)
        PROVE  SavedBeforeSpawned'
    <3>1. Deploys(t) /\ pc[t] = "spawn"
      BY <2>1, SchedulerConstants
         DEF SpawnTakesEffect, Goto, Deploys, BlockedOnlyByOverload
    <3>2. arg[t].d \in saved
      BY <3>1 DEF SavedFirst
    <3> QED
      BY <2>1, <3>2, HistoryGrows DEF SpawnTakesEffect, SavedFirst, SavedBeforeSpawned
  <2> QED
    BY <2>1, SpawnedWriters, HistoryGrows DEF SavedFirst, SavedBeforeSpawned
<1>2. ASSUME NEW u \in Tasks, Deploys(u)', pc'[u] \notin {"clone", "save"}
      PROVE  arg'[u].d \in saved'
  <2>1. ~ \E d \in Deployments : CallDeploy(u, d)
    BY <1>2 DEF CallDeploy, Call, Goto, TypeOK
  <2> QED
    BY <1>2, <2>1, DeploysKeep, HistoryGrows DEF SavedFirst
<1> QED
  BY <1>1, <1>2 DEF SavedFirst

\* A task is past the effect of its spawn only through that effect.
LEMMA SpawnedKeep ==
  ASSUME TypeOK, [Next]_vars, NEW u \in Tasks, pc'[u] \in {"spawned", "commit"}
  PROVE  \/ SpawnTakesEffect(u)
         \/ pc[u] \in {"spawned", "commit"} /\ arg'[u] = arg[u]
<1> USE DEF runtime, history, Goto, Call, Return
<1>1. CASE UNCHANGED vars \/ Restart
  BY <1>1 DEF vars, Restart
<1>2. ASSUME NEW t \in Tasks, Arrive(t)
      PROVE  UNCHANGED <<pc[u], arg[u]>>
  BY <1>2 DEF Arrive, CallJoin, CallReport, CallLookup, CallDeploy, TypeOK
<1>3. ASSUME NEW t \in Tasks, CallerLeaves(t)
      PROVE  UNCHANGED <<pc[u], arg[u]>>
  BY <1>3 DEF CallerLeaves, TypeOK
<1>4. ASSUME NEW t \in Tasks, t # u, Step(t)
      PROVE  UNCHANGED <<pc[u], arg[u]>>
  BY <1>4 DEF Step, JoinPush, JoinReply, Report, LookupRefused, LookupAnswer,
       ScaleNotNeeded, ScaleOut, DeployClone, DeploySave, DeploySaveFails, Select,
       SpawnTakesEffect, SpawnConfirmed, SpawnFails, Commit, TypeOK
<1>5. ASSUME Step(u)
      PROVE  SpawnTakesEffect(u) \/ (pc[u] = "spawned" /\ arg'[u] = arg[u])
  BY <1>5 DEF Step, JoinPush, JoinReply, Report, LookupRefused, LookupAnswer,
       ScaleNotNeeded, ScaleOut, DeployClone, DeploySave, DeploySaveFails, Select,
       SpawnConfirmed, SpawnFails, Commit, TypeOK
<1> QED
  BY <1>1, <1>2, <1>3, <1>4, <1>5 DEF Next

\* Committing lists the place of the task that commits.
LEMMA CommitPlace ==
  ASSUME TypeOK, ArgsFit, BlockedOnlyByOverload, DeploysDistinct,
         NEW t \in Tasks, Commit(t)
  PROVE  /\ arg[t].d \in Deployments /\ arg[t].s \in Servers
         /\ Listed' = Listed \cup {<<arg[t].d, arg[t].s>>}
<1>1. arg[t].d \in Deployments /\ arg[t].s \in Servers
  BY DEF Commit, Return, Goto, ArgsFit
<1>2. arg[t].d \notin DOMAIN instances
  BY CommitLists DEF DeploysDistinct
<1>3. Elements(instances'[arg[t].d]) = {arg[t].s}
  <2>1. instances'[arg[t].d] = <<arg[t].s>>
    BY CommitLists
  <2>2. Elements(<<arg[t].s>>) = {arg[t].s}
    BY DEF Elements
  <2> QED
    BY <2>1, <2>2
<1>4. ASSUME NEW d \in Deployments, NEW s \in Servers
      PROVE  <<d, s>> \in Listed' <=>
               <<d, s>> \in Listed \/ (d = arg[t].d /\ s = arg[t].s)
  <2>1. <<d, s>> \in Listed' <=>
          d \in DOMAIN instances' /\ s \in Elements(instances'[d])
    BY DEF Listed
  <2>2. <<d, s>> \in Listed <=>
          d \in DOMAIN instances /\ s \in Elements(instances[d])
    BY DEF Listed
  <2>3. DOMAIN instances' = DOMAIN instances \cup {arg[t].d}
    BY CommitLists
  <2>4. d \in DOMAIN instances => instances'[d] = instances[d]
    BY CommitLists
  <2>5. CASE d = arg[t].d
    BY <1>2, <1>3, <2>1, <2>2, <2>3, <2>5
  <2>6. CASE d # arg[t].d
    BY <2>1, <2>2, <2>3, <2>4, <2>6
  <2> QED
    BY <2>5, <2>6
<1>5. Listed \subseteq Deployments \X Servers /\ Listed' \subseteq Deployments \X Servers
  BY DEF Listed
<1> QED
  BY <1>1, <1>4, <1>5

\* The places listed change only by a commit, which adds its own, and by a
\* restart, which forgets all.
LEMMA ListedSteps ==
  ASSUME TypeOK, ArgsFit, BlockedOnlyByOverload, DeploysDistinct, [Next]_vars
  PROVE  \/ UNCHANGED Listed
         \/ Listed' = {} /\ Restart
         \/ \E t \in Tasks : /\ Commit(t)
                             /\ Listed' = Listed \cup {<<arg[t].d, arg[t].s>>}
<1>1. CASE UNCHANGED <<instances, deployments>>
  BY <1>1 DEF Listed
<1>2. CASE Restart
  BY <1>2, EmptyMapIsMap DEF Restart, Listed
<1> QED
  BY <1>1, <1>2, CommitPlace, InstancesWriters

LEMMA NextSpawned ==
  ASSUME TypeOK, ArgsFit, BlockedOnlyByOverload, DeploysDistinct, SpawnedFirst,
         [Next]_vars
  PROVE  SpawnedFirst'
<1>1. Listed' \subseteq spawned'
  <2>1. Listed \subseteq spawned /\ spawned \subseteq spawned'
    BY HistoryGrows DEF SpawnedFirst
  <2>2. CASE UNCHANGED Listed \/ Listed' = {}
    BY <2>1, <2>2
  <2>3. ASSUME NEW t \in Tasks, Commit(t),
               Listed' = Listed \cup {<<arg[t].d, arg[t].s>>}
        PROVE  Listed' \subseteq spawned'
    <3>1. <<arg[t].d, arg[t].s>> \in spawned
      BY <2>3 DEF Commit, Return, Goto, SpawnedFirst
    <3> QED
      BY <2>1, <2>3, <3>1
  <2> QED
    BY <2>2, <2>3, ListedSteps
<1>2. ASSUME NEW u \in Tasks, pc'[u] \in {"spawned", "commit"}
      PROVE  <<arg'[u].d, arg'[u].s>> \in spawned'
  <2>1. CASE SpawnTakesEffect(u)
    BY <2>1 DEF SpawnTakesEffect
  <2>2. CASE pc[u] \in {"spawned", "commit"} /\ arg'[u] = arg[u]
    BY <2>2, HistoryGrows DEF SpawnedFirst
  <2> QED
    BY <1>2, <2>1, <2>2, SpawnedKeep
<1> QED
  BY <1>1, <1>2 DEF SpawnedFirst

(***************************************************************************)
(* The theorems.                                                           *)
(***************************************************************************)
\* Every step of the scheduler preserves the invariant.
LEMMA NextIInv ==
  ASSUME IInv, [Next]_vars
  PROVE  IInv'
BY NextTypes, NextBlocked, NextDistinct, NextOneInstance, NextSaved, NextSpawned DEF IInv

THEOREM Invariance == Spec => []IInv
BY InitIInv, NextIInv, PTL DEF Spec

\* State and arguments keep their types, and the list of servers, which
\* deploy_in_us indexes at 0, begins with the scheduler's own server.
THEOREM TypeCorrect == Spec => []TypeOK
BY Invariance, PTL DEF IInv

\* Whatever the load, the restarts and the lost answers, a deployment never
\* gets a second instance: the scale-out of lookup cannot complete.
THEOREM OneInstanceAlways == Spec => []OneInstanceEach
BY Invariance, PTL DEF IInv

\* An application that was started anywhere was saved by the scheduler first.
THEOREM SavedBeforeSpawnedAlways == Spec => []SavedBeforeSpawned
BY Invariance, PTL DEF IInv, SavedFirst

\* Nothing but an overloaded target can make a task keep the mutex.
THEOREM BlockedOnlyByOverloadAlways == Spec => []BlockedOnlyByOverload
BY Invariance, PTL DEF IInv

\* If every window any server reports has a CPU load of at most the threshold
\* (the shipped monitors report -1) the mutex is never kept across an await.
THEOREM NeverBlockedAlways == Spec => []NeverBlocked
<1>1. IInv => NeverBlocked
  <2> SUFFICES ASSUME IInv, \A w \in Windows : w.cpu <= ScaleOutThreshold, lock # Free
               PROVE  FALSE
    BY DEF NeverBlocked
  <2> DEFINE ws == stats[arg[lock].s]
  <2>1. ws \in Seq(Windows) /\ ws # <<>> /\ ws[Len(ws)].cpu > ScaleOutThreshold
    BY DEF IInv, BlockedOnlyByOverload, TypeOK, IsIdMap
  <2>2. ws[Len(ws)] \in Windows
    BY <2>1, EmptySeq, ElementOfSeq
  <2>3. ws[Len(ws)].cpu \in Int
    BY <2>2, SchedulerConstants DEF MonitorWindow
  <2> QED
    BY <2>1, <2>2, <2>3 DEF ScaleOutThreshold
<1> QED
  BY <1>1, Invariance, PTL

\* A task that keeps the mutex is never woken again: the cluster's state is
\* what it was until the process is restarted.
THEOREM FrozenUntilRestartAlways == Spec => FrozenUntilRestart
<1>1. ASSUME IInv, [Next]_vars
      PROVE  [lock # Free /\ restarts' = restarts => UNCHANGED <<runtime, lock>>]_vars
  <2> SUFFICES ASSUME lock # Free, restarts' = restarts
               PROVE  UNCHANGED <<runtime, lock>>
    OBVIOUS
  <2>1. ~ Restart
    BY <1>1 DEF Restart, IInv, TypeOK
  <2> QED
    BY <1>1, <2>1, HolderStays DEF IInv
<1> QED
  BY <1>1, Invariance, PTL DEF Spec, FrozenUntilRestart

\* The policy that MeanSchedulerProofs is about is the scheduler's.
LEMMA SamePolicy ==
  ASSUME NEW m, NEW resource
  PROVE  ScheduleChoices(m, resource) = Policy!ScheduleChoices(m, resource)
BY DEF ScheduleChoices, UtilizedRate, SumOfAll, MulAsPercent, Truncate, WindowNanos,
       SubtractWindow, RateLess, ZeroRate,
       Policy!ScheduleChoices, Policy!UtilizedRate, Policy!SumOfAll,
       Policy!MulAsPercent, Policy!Truncate, Policy!WindowNanos,
       Policy!SubtractWindow, Policy!RateLess, Policy!ZeroRate

LEMMA SameFinite ==
  ASSUME NEW S, IsFiniteSet(S)
  PROVE  Policy!IsFiniteSet(S)
BY DEF IsFiniteSet, Policy!IsFiniteSet

LEMMA UnitsHere == Policy!TimeUnits
BY TimeUnits DEF Policy!TimeUnits

\* Among reported windows the policy finds a server, unless there is none.
LEMMA ReportedIsChosen ==
  ASSUME NEW m, IsIdMap(m, Servers, Seq(Windows)), IsFiniteSet(DOMAIN m), DOMAIN m # {}
  PROVE  ScheduleChoices(m, "cpu") # {}
<1>1. ASSUME NEW w \in Windows
      PROVE  Policy!Measured(w)
  <2>1. w \in MonitorWindow
    BY SchedulerConstants
  <2>2. ASSUME NEW t \in Timestamp
        PROVE  t.seconds \in Int /\ t.nanos \in Int
    <3>1. t.seconds \in 0 .. 59 /\ t.nanos \in 0 .. NanosPerSecond - 1
      BY DEF Timestamp
    <3>2. \A i : i \in 0 .. 59 => i \in Int
      OBVIOUS
    <3>3. \A i : i \in 0 .. NanosPerSecond - 1 => i \in Int
      BY TimeUnits
    <3> QED
      BY <3>1, <3>2, <3>3
  <2> QED
    BY <2>1, <2>2 DEF MonitorWindow, Policy!Measured
<1>2. ASSUME NEW s \in DOMAIN m
      PROVE  Policy!Rate(m, "cpu")[s] \in Policy!Rates
  <2>1. m[s] \in Seq(Windows)
    BY DEF IsIdMap
  <2>2. /\ Len(m[s]) \in Nat /\ DOMAIN m[s] = 1 .. Len(m[s])
        /\ \A i \in 1 .. Len(m[s]) : Policy!Measured(m[s][i])
    BY <1>1, <2>1
  <2>3. Policy!UtilizedRate(m[s], "cpu") \in Policy!Rates
    BY <2>2, UnitsHere, Policy!RateType
  <2> QED
    BY <2>3 DEF Policy!Rate
<1> QED
  BY <1>2, SamePolicy, SameFinite, UnitsHere, Policy!ChoicesExist

\* Once a deployment can be looked up it stays so, until a restart: it keeps
\* its place, its server's reports are kept, and the policy refuses nobody.
THEOREM AnswerableOnceReportedAlways == Spec => AnswerableOnceReported
<1>1. ASSUME IInv, IInv', [Next]_vars, restarts' = restarts,
             NEW d \in DOMAIN instances, Elements(instances[d]) \cap DOMAIN stats # {}
      PROVE  LookupChoices(d)' # {}
  <2>1. ~ Restart
    BY <1>1 DEF Restart, IInv, TypeOK
  <2>2. d \in DOMAIN instances' /\ instances'[d] = instances[d]
    BY <1>1, <2>1, InstancesWriters, CommitLists DEF IInv
  <2>3. DOMAIN stats \subseteq DOMAIN stats'
    BY <2>1, <1>1, StatsWriters DEF Report, AppendAt, Put
  <2> DEFINE m == LookupStats(d)'
  <2>4. DOMAIN m = DOMAIN stats' \cap Elements(instances[d])
        /\ \A s \in DOMAIN m : m[s] = stats'[s]
    BY <2>2 DEF LookupStats, CloneByIds
  <2>5. IsIdMap(m, Servers, Seq(Windows))
    <3>1. m = [s \in DOMAIN m |-> m[s]]
      BY DEF LookupStats, CloneByIds
    <3> HIDE DEF m
    <3> QED
      BY <1>1, <2>4, <3>1 DEF IInv, TypeOK, IsIdMap
  <2>6. IsFiniteSet(DOMAIN m) /\ DOMAIN m # {}
    <3>1. Elements(instances[d]) = {instances[d][1]}
      <4>1. instances[d] \in Seq(Servers) /\ Len(instances[d]) = 1
        BY <1>1 DEF IInv, TypeOK, IsIdMap, OneInstanceEach
      <4>2. DOMAIN instances[d] = {1}
        BY <4>1
      <4> QED
        BY <4>2 DEF Elements
    <3>2. DOMAIN m = {instances[d][1]}
      <4> HIDE DEF m
      <4> QED
        BY <1>1, <2>3, <2>4, <3>1
    <3> HIDE DEF m
    <3> QED
      BY <3>2, FS_Singleton
  <2>7. ScheduleChoices(m, "cpu") # {}
    <3> HIDE DEF m
    <3> QED
      BY <2>5, <2>6, ReportedIsChosen
  <2> QED
    BY <2>2, <2>7 DEF LookupChoices
<1>2. ASSUME IInv, IInv', [Next]_vars
      PROVE  [restarts' = restarts =>
                \A d \in DOMAIN instances :
                  Elements(instances[d]) \cap DOMAIN stats # {} => LookupChoices(d)' # {}]_vars
  BY <1>1, <1>2
<1> QED
  BY <1>2, Invariance, PTL DEF Spec, AnswerableOnceReported

\* The scheduler implements Placement: no client is sent to a server that was
\* not told to run the deployment and did.
THEOREM Refinement == Spec => RefinesPlacement
<1>1. Init => P!Init
  BY EmptyMapIsMap DEF Init, P!Init, Listed
<1>2. ASSUME IInv, [Next]_vars
      PROVE  [P!Next]_(P!placement)
  <2> USE DEF runtime, history
  <2>1. ASSUME NEW t \in Tasks, SpawnTakesEffect(t)
        PROVE  P!Next
    <3>1. arg[t].d \in Deployments /\ arg[t].s \in Servers
      BY <1>2, <2>1 DEF SpawnTakesEffect, Goto, IInv, ArgsFit
    <3>2. P!Start(arg[t].d, arg[t].s)
      BY <2>1 DEF SpawnTakesEffect, P!Start, Listed
    <3> QED
      BY <3>1, <3>2 DEF P!Next
  <2>2. ASSUME NEW t \in Tasks, LookupAnswer(t)
        PROVE  P!Next
    <3> PICK s \in LookupChoices(arg[t].d) : answered' = answered \cup {<<arg[t].d, s>>}
      BY <2>2 DEF LookupAnswer
    <3>1. arg[t].d \in DOMAIN instances /\ s \in Elements(instances[arg[t].d])
      BY LookupChoicesListed
    <3>2. arg[t].d \in Deployments
      BY <1>2, <3>1 DEF IInv, TypeOK, IsIdMap
    <3>3. s \in Servers
      BY <1>2, LookupChoicesListed DEF IInv, TypeOK, IsIdMap
    <3>4. <<arg[t].d, s>> \in Listed
      BY <3>1, <3>2, <3>3 DEF Listed
    <3>5. P!Answer(arg[t].d, s)
      BY <2>2, <3>4 DEF LookupAnswer, P!Answer, Listed
    <3> QED
      BY <3>2, <3>3, <3>5 DEF P!Next
  <2>3. ASSUME NEW t \in Tasks, Commit(t)
        PROVE  P!Next
    <3>1. /\ arg[t].d \in Deployments /\ arg[t].s \in Servers
          /\ Listed' = Listed \cup {<<arg[t].d, arg[t].s>>}
      BY <1>2, <2>3, CommitPlace DEF IInv
    <3>2. <<arg[t].d, arg[t].s>> \in spawned
      BY <1>2, <2>3 DEF Commit, Return, Goto, IInv, SpawnedFirst
    <3>3. P!List(arg[t].d, arg[t].s)
      BY <2>3, <3>1, <3>2 DEF Commit, P!List
    <3> QED
      BY <3>1, <3>3 DEF P!Next
  <2>4. CASE Restart
    BY <2>4, EmptyMapIsMap DEF Restart, Listed, P!Next, P!Forget
  <2>5. CASE UNCHANGED <<spawned, answered, instances, deployments>>
    BY <2>5 DEF P!placement, Listed
  <2> QED
    BY <1>2, <2>1, <2>2, <2>3, <2>4, <2>5,
       SpawnedWriters, AnsweredWriters, InstancesWriters
<1> QED
  BY <1>1, <1>2, Invariance, PTL DEF Spec, RefinesPlacement, P!Spec
=============================================================================
