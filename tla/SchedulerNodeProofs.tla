------------------------- MODULE SchedulerNodeProofs -------------------------
(***************************************************************************)
(* The scheduler's node does what Scheduler and ServerRunner say, each of  *)
(* its half, so that what is proved of them holds here; and the two halves *)
(* agree on what is acknowledged and listed.                               *)
(***************************************************************************)
EXTENDS SchedulerNode, SchedulerProofs

RunP == INSTANCE ServerRunnerProofs WITH
          pc <- call, arg <- calling, blocked <- (lock # Free),
          None <- Nil, MaxStarts <- 1

(***************************************************************************)
(* The results about ServerRunner, for the runner of this node.            *)
(***************************************************************************)
LEMMA RunnerConstantsHere == RunP!RunnerConstants
BY NodeConstants, SchedulerConstants DEF RunP!RunnerConstants

LEMMA SameInit == Run!Init <=> RunP!Init
BY DEF Run!Init, RunP!Init, Run!FirstPhase, RunP!FirstPhase, Run!NoArg, RunP!NoArg

LEMMA SameNext == [Run!Next]_Run!vars => [RunP!Next]_RunP!vars
<1> USE DEF Run!vars, RunP!vars, Run!runner, RunP!runner, Run!gen, RunP!gen,
            Run!NoArg, RunP!NoArg, Run!FirstPhase, RunP!FirstPhase,
            Run!NextService, RunP!NextService, Run!Exit, RunP!Exit,
            Run!Goto, RunP!Goto, Run!Return, RunP!Return, Run!Sent, RunP!Sent
<1>1. CASE Run!ReceiveKeep \/ Run!Crash \/ Run!Start \/ Run!ScaleOutBlocks
  BY <1>1 DEF Run!ReceiveKeep, RunP!ReceiveKeep, Run!Crash, RunP!Crash, Run!Start, RunP!Start,
              Run!ScaleOutBlocks, RunP!ScaleOutBlocks, RunP!Next
<1>2. CASE Run!Service
  BY <1>2 DEF Run!Service, RunP!Service, Run!LookupFace, RunP!LookupFace, Run!Listen, RunP!Listen,
              Run!JoinSucceeds, RunP!JoinSucceeds, Run!ServiceFails, RunP!ServiceFails, RunP!Next
<1>3. ASSUME NEW d \in Deployments, Run!DeployHere(d)
      PROVE  RunP!Next
  BY <1>3 DEF Run!DeployHere, RunP!DeployHere, RunP!Next
<1>4. ASSUME NEW t \in Tasks, Run!Arrive(t)
      PROVE  RunP!Next
  BY <1>4 DEF Run!Arrive, RunP!Arrive, Run!Call, RunP!Call, RunP!Next
<1>5. ASSUME NEW t \in Tasks, Run!Step(t)
      PROVE  RunP!Next
  BY <1>5 DEF Run!Step, RunP!Step, Run!GetInfo, RunP!GetInfo, Run!GetGroup, RunP!GetGroup,
              Run!SpawnLock, RunP!SpawnLock,
              Run!Save, RunP!Save, Run!SaveFails, RunP!SaveFails,
              Run!NoteInstance, RunP!NoteInstance, Run!SendKeep, RunP!SendKeep, RunP!Next
<1>6. ASSUME NEW t \in Tasks, Run!CallerLeaves(t)
      PROVE  RunP!Next
  BY <1>6 DEF Run!CallerLeaves, RunP!CallerLeaves, RunP!Next
<1> QED
  BY <1>1, <1>2, <1>3, <1>4, <1>5, <1>6 DEF Run!Next

LEMMA SameIInv == Run!IInv <=> RunP!IInv
<1>1. Run!TypeOK <=> RunP!TypeOK
  BY DEF Run!TypeOK, RunP!TypeOK, Run!Phases, RunP!Phases, Run!Progress, RunP!Progress
<1>2. Run!CallsFit <=> RunP!CallsFit
  BY DEF Run!CallsFit, RunP!CallsFit
<1>3. Run!SavedFirst <=> RunP!SavedFirst
  BY DEF Run!SavedFirst, RunP!SavedFirst
<1>4. Run!LookedUp <=> RunP!LookedUp
  BY DEF Run!LookedUp, RunP!LookedUp, Run!gen, RunP!gen
<1>5. Run!EndedIsQuiet <=> RunP!EndedIsQuiet
  BY DEF Run!EndedIsQuiet, RunP!EndedIsQuiet
<1> QED
  BY <1>1, <1>2, <1>3, <1>4, <1>5 DEF Run!IInv, RunP!IInv

LEMMA SameIInvNext == Run!IInv' <=> RunP!IInv'
BY SameIInv, PTL

LEMMA RunnerInit == Run!Init => Run!IInv
BY SameInit, SameIInv, RunP!InitIInv, RunnerConstantsHere

LEMMA RunnerNext ==
  ASSUME Run!IInv, [Run!Next]_Run!vars
  PROVE  Run!IInv'
<1>1. RunP!IInv /\ [RunP!Next]_RunP!vars
  BY SameIInv, SameNext
<1>2. RunP!IInv'
  BY <1>1, RunP!NextIInv, RunnerConstantsHere
<1> QED
  BY <1>2, SameIInvNext

(***************************************************************************)
(* Each step of the node is one of the scheduler, or leaves it alone; and  *)
(* one of the runner, or leaves that alone.                                *)
(***************************************************************************)
LEMMA NodeStepsOfScheduler == [NodeNext]_nodeVars => [Next]_vars
<1>1. CASE Runs
  BY <1>1 DEF Runs, ReceiveKeep, LookupFace, Serve, scheduler
<1>2. ASSUME NEW t \in Tasks, NodeArrive(t) \/ NodeCallerLeaves(t)
      PROVE  Next
  BY <1>2 DEF NodeArrive, NodeCallerLeaves, Next
<1>3. ASSUME NEW t \in Tasks, NodeStep(t)
      PROVE  [Next]_vars
  <2>1. CASE ConnectHere(t) \/ DaemonWorks(t)
    BY <2>1 DEF ConnectHere, DaemonWorks, scheduler
  <2>2. CASE ~ (ConnectHere(t) \/ DaemonWorks(t))
    <3>1. Step(t)
      BY <1>3, <2>2 DEF NodeStep, SaveHere, RefusedHere, ConfirmedHere, DaemonNotes, Handle, Step
    <3> QED
      BY <3>1 DEF Next
  <2> QED
    BY <2>1, <2>2
<1>4. CASE UNCHANGED nodeVars
  BY <1>4 DEF nodeVars, scheduler
<1> QED
  BY <1>1, <1>2, <1>3, <1>4 DEF NodeNext

\* Only ScaleOut takes the mutex for longer than its step, and who has it keeps it.
LEMMA LockStays ==
  ASSUME IInv, NEW t \in Tasks,
         Arrive(t) \/ CallerLeaves(t) \/ (Step(t) /\ ~ ScaleOut(t))
  PROVE  lock' = lock
<1>1. lock = t => pc[t] = "select"
  BY SchedulerConstants DEF IInv, BlockedOnlyByOverload
<1>2. CASE Arrive(t)
  BY <1>2 DEF Arrive, CallJoin, CallReport, CallLookup, CallDeploy
<1>3. CASE CallerLeaves(t)
  BY <1>3 DEF CallerLeaves, Return
<1>4. CASE DeploySaveFails(t) \/ SpawnFails(t)
  BY <1>1, <1>4 DEF DeploySaveFails, SpawnFails, Return, Goto
<1>5. CASE JoinReply(t) \/ Report(t) \/ LookupRefused(t) \/ ScaleNotNeeded(t) \/ Commit(t)
  BY <1>5 DEF JoinReply, Report, LookupRefused, ScaleNotNeeded, Commit, Return
<1>6. CASE JoinPush(t) \/ LookupAnswer(t) \/ DeployClone(t) \/ DeploySave(t) \/ Select(t)
           \/ SpawnTakesEffect(t) \/ SpawnConfirmed(t)
  BY <1>6 DEF JoinPush, LookupAnswer, DeployClone, DeploySave, Select, SpawnTakesEffect,
              SpawnConfirmed
<1> QED
  BY <1>2, <1>3, <1>4, <1>5, <1>6 DEF Step

\* What a scale-out does to the runner is to block it.
LEMMA ScaleOutIsBlock ==
  ASSUME NodeIInv, Alive, NEW t \in Tasks, ScaleOut(t), UNCHANGED runner
  PROVE  Run!ScaleOutBlocks
<1>1. lock = Free /\ lock' # Free
  BY SchedulerConstants DEF ScaleOut
<1>2. state = "authoritative" /\ listened # {}
  BY DEF ScaleOut, Goto, NodeIInv, CallersHaveConnected
<1>3. apps # {}
  <2>1. arg[t].d \in DOMAIN instances
    BY DEF ScaleOut, NeedsInstance, NodeIInv, IInv, OneInstanceEach
  <2> QED
    BY <2>1 DEF NodeIInv, AckedBeforeListed, Run!IInv, Run!SavedFirst
<1> QED
  BY <1>1, <1>2, <1>3 DEF Run!ScaleOutBlocks, runner, Run!runner

LEMMA NodeStepsOfRunner ==
  ASSUME NodeIInv, [NodeNext]_nodeVars
  PROVE  [Run!Next]_Run!vars
<1>0. IInv
  BY DEF NodeIInv
<1> USE DEF runner, Run!runner, Run!vars
<1>1. CASE Runs
  BY <1>1 DEF Runs, ReceiveKeep, LookupFace, Serve, Run!Service, Run!Next
<1>2. ASSUME NEW t \in Tasks, NodeArrive(t) \/ NodeCallerLeaves(t)
      PROVE  [Run!Next]_Run!vars
  <2>1. lock' = lock
    BY <1>0, <1>2, LockStays DEF NodeArrive, NodeCallerLeaves
  <2> QED
    BY <1>2, <2>1 DEF NodeArrive, NodeCallerLeaves, Run!Next
<1>3. ASSUME NEW t \in Tasks, NodeStep(t)
      PROVE  [Run!Next]_Run!vars
  <2>1. CASE SaveHere(t)
    <3>1. arg[t].d \in Deployments
      BY <2>1 DEF SaveHere, DeploySave, Goto, NodeIInv, IInv, ArgsFit
    <3> QED
      BY <2>1, <3>1 DEF SaveHere, Run!Next
  <2>2. CASE ConnectHere(t)
    <3>1. arg[t].d \in Deployments
      BY <2>2 DEF ConnectHere, NodeIInv, IInv, ArgsFit
    <3>2. Run!gen \in listened
      BY <2>2 DEF ConnectHere, NodeIInv
    <3>3. Run!Arrive(t)
      BY <2>2, <3>1, <3>2 DEF ConnectHere, Run!Arrive
    <3> QED
      BY <3>3 DEF Run!Next
  <2>3. CASE DaemonWorks(t) \/ DaemonNotes(t)
    BY <2>3 DEF DaemonWorks, DaemonNotes, Run!Step, Run!Next
  <2>4. CASE RefusedHere(t) \/ ConfirmedHere(t) \/ (Handle(t) /\ ~ ScaleOut(t))
    <3>1. Step(t) /\ ~ ScaleOut(t)
      BY <2>4 DEF RefusedHere, ConfirmedHere, Handle, Step, SpawnFails, SpawnConfirmed,
                  ScaleOut, Return, Goto
    <3>2. lock' = lock
      BY <1>0, <3>1, LockStays
    <3> QED
      BY <2>4, <3>2 DEF RefusedHere, ConfirmedHere, Handle
  <2>5. CASE Handle(t) /\ ScaleOut(t)
    BY <2>5, ScaleOutIsBlock DEF Handle, Run!Next
  <2> QED
    BY <1>3, <2>1, <2>2, <2>3, <2>4, <2>5 DEF NodeStep
<1>4. CASE UNCHANGED nodeVars
  BY <1>4 DEF nodeVars, scheduler, vars
<1> QED
  BY <1>1, <1>2, <1>3, <1>4 DEF NodeNext

(***************************************************************************)
(* What the two halves know of each other.                                 *)
(***************************************************************************)
\* A step of task t, and of its call, keeps what the others know; what is to be
\* seen of t afterwards is what the step has to show.
LEMMA OneTaskMoves ==
  ASSUME NodeIInv, NEW t \in Tasks, IInv', Run!IInv',
         \A u \in Tasks \ {t} : pc'[u] = pc[u] /\ arg'[u] = arg[u],
         \A u \in Tasks \ {t} : call'[u] = call[u] /\ calling'[u] = calling[u],
         UNCHANGED <<state, phase, offers>>, listened \subseteq listened',
         pc[t] # "idle" \/ listened # {},
         acked \subseteq acked', saved' \subseteq apps',
         call'[t] \in {"idle", "spawn", "note", "send"},
         call'[t] \in {"spawn", "note"} => pc'[t] = "spawn",
         call'[t] = "send" => pc'[t] = "spawned",
         call'[t] # "idle" => arg'[t].d = calling'[t].d,
         Alive /\ ((pc'[t] = "spawned" /\ call'[t] = "idle") \/ pc'[t] = "commit")
           => arg'[t].d \in acked',
         DOMAIN instances' \subseteq
           DOMAIN instances \cup (IF pc[t] = "commit" THEN {arg[t].d} ELSE {})
  PROVE  NodeIInv'
<1>1. CallsMatch'
  <2> SUFFICES ASSUME NEW u \in Tasks
               PROVE  /\ call'[u] \in {"idle", "spawn", "note", "send"}
                      /\ call'[u] \in {"spawn", "note"} => pc'[u] = "spawn"
                      /\ call'[u] = "send" => pc'[u] = "spawned"
                      /\ call'[u] # "idle" => arg'[u].d = calling'[u].d
    BY DEF CallsMatch
  <2>1. CASE u = t
    BY <2>1
  <2>2. CASE u # t
    BY <2>2 DEF NodeIInv, CallsMatch
  <2> QED
    BY <2>1, <2>2
<1>2. AckedBeforeListed'
  <2> SUFFICES ASSUME Alive
               PROVE  /\ DOMAIN instances' \subseteq acked'
                      /\ \A u \in Tasks :
                           (pc'[u] = "spawned" /\ call'[u] = "idle") \/ pc'[u] = "commit"
                             => arg'[u].d \in acked'
    BY DEF AckedBeforeListed, Alive
  <2>1. DOMAIN instances' \subseteq acked'
    BY DEF NodeIInv, AckedBeforeListed
  <2>2. ASSUME NEW u \in Tasks, (pc'[u] = "spawned" /\ call'[u] = "idle") \/ pc'[u] = "commit"
        PROVE  arg'[u].d \in acked'
    <3>1. CASE u = t
      BY <2>2, <3>1
    <3>2. CASE u # t
      BY <2>2, <3>2 DEF NodeIInv, AckedBeforeListed
    <3> QED
      BY <3>1, <3>2
  <2> QED
    BY <2>1, <2>2
<1>3. CallersHaveConnected'
  BY DEF NodeIInv, CallersHaveConnected, Alive
<1>4. phase' = "listen" => Run!gen' \in listened'
  BY DEF NodeIInv, Run!gen
<1> QED
  BY <1>1, <1>2, <1>3, <1>4 DEF NodeIInv

LEMMA HandleMoves ==
  ASSUME TypeOK, NEW t \in Tasks, Handle(t)
  PROVE  /\ pc[t] \notin {"idle", "spawn", "spawned"} /\ pc'[t] \notin {"spawned", "commit"}
         /\ \A u \in Tasks \ {t} : pc'[u] = pc[u] /\ arg'[u] = arg[u]
         /\ saved' = saved
         /\ DOMAIN instances' \subseteq
              DOMAIN instances \cup (IF pc[t] = "commit" THEN {arg[t].d} ELSE {})
<1> USE DEF TypeOK, Goto, Return, runtime, history
<1>1. CASE Report(t) \/ LookupRefused(t) \/ ScaleNotNeeded(t) \/ DeploySaveFails(t)
  BY <1>1 DEF Report, LookupRefused, ScaleNotNeeded, DeploySaveFails
<1>2. CASE LookupAnswer(t) \/ ScaleOut(t) \/ DeployClone(t) \/ Select(t)
  BY <1>2 DEF LookupAnswer, ScaleOut, DeployClone, Select
<1>3. CASE Commit(t)
  <2>1. /\ pc[t] = "commit" /\ pc' = [pc EXCEPT ![t] = "idle"]
        /\ arg' = [arg EXCEPT ![t] = NoArg] /\ saved' = saved
        /\ instances' = AppendAt(instances, arg[t].d, <<arg[t].s>>)
    BY <1>3 DEF Commit
  <2>2. DOMAIN instances' = DOMAIN instances \cup {arg[t].d}
    BY <2>1 DEF AppendAt, Put
  <2> QED
    BY <2>1, <2>2
<1> QED
  BY <1>1, <1>2, <1>3 DEF Handle

LEMMA NodeInitIInv == NodeInit => NodeIInv
<1> SUFFICES ASSUME NodeInit PROVE NodeIInv
  OBVIOUS
<1>1. IInv /\ Run!IInv
  BY InitIInv, RunnerInit DEF NodeInit
<1>2. /\ \A t \in Tasks : pc[t] = "idle" /\ call[t] = "idle"
      /\ DOMAIN instances = {} /\ saved = {} /\ phase \in {"connect", "create"}
      /\ state = "authoritative"
  BY EmptyMapIsMap DEF NodeInit, Init, Run!Init, Run!FirstPhase
<1> QED
  BY <1>1, <1>2 DEF NodeIInv, CallsMatch, AckedBeforeListed, CallersHaveConnected

\* What the scheduler's steps keep, and the runner's, the node's keep.
LEMMA NodeKeepsBoth ==
  ASSUME NodeIInv, [NodeNext]_nodeVars
  PROVE  IInv' /\ Run!IInv'
<1>1. [Next]_vars /\ [Run!Next]_Run!vars
  BY NodeStepsOfScheduler, NodeStepsOfRunner
<1> QED
  BY <1>1, NextIInv, RunnerNext DEF NodeIInv

\* The runner's own steps leave a process listening only with its listener.
LEMMA RunsStep ==
  ASSUME NodeIInv, IInv', Run!IInv', Runs
  PROVE  NodeIInv'
<1>1. UNCHANGED <<pc, arg, instances, saved>>
  BY DEF Runs, ReceiveKeep, LookupFace, Serve, scheduler, vars, runtime
<1>2. /\ acked' = acked /\ apps' = apps /\ state' = state
      /\ \/ /\ UNCHANGED <<call, calling>>
            /\ listened \subseteq listened'
            /\ Alive /\ (phase' = "listen" => Run!gen' \in listened')
         \/ ~ Alive' /\ phase' # "listen" /\ \A t \in Tasks : call'[t] = "idle"
  <2>1. CASE Run!ReceiveKeep
    BY <2>1 DEF Run!ReceiveKeep, Run!NextService, Run!FirstPhase, Alive
  <2>2. CASE Run!LookupFace
    BY <2>2 DEF Run!LookupFace, Alive
  <2>3. CASE Run!Listen
    BY <2>3 DEF Run!Listen, Run!gen, Alive
  <2>4. CASE Run!ServiceFails
    BY <2>4 DEF Run!ServiceFails, Run!Exit, Alive
  <2> QED
    BY <2>1, <2>2, <2>3, <2>4 DEF Runs, ReceiveKeep, LookupFace, Serve
<1>3. CallsMatch'
  BY <1>1, <1>2 DEF NodeIInv, CallsMatch
<1>4. AckedBeforeListed'
  BY <1>1, <1>2 DEF NodeIInv, AckedBeforeListed
<1>5. CallersHaveConnected'
  BY <1>1, <1>2 DEF NodeIInv, CallersHaveConnected, Alive
<1> QED
  BY <1>1, <1>2, <1>3, <1>4, <1>5 DEF NodeIInv

LEMMA NodeArriveStep ==
  ASSUME NodeIInv, IInv', Run!IInv', NEW t \in Tasks, NodeArrive(t)
  PROVE  NodeIInv'
<1>1. /\ pc[t] = "idle" /\ pc'[t] \in {"join", "report", "lookup", "clone"}
      /\ \A u \in Tasks \ {t} : pc'[u] = pc[u] /\ arg'[u] = arg[u]
      /\ UNCHANGED <<instances, saved>>
  BY DEF NodeArrive, Arrive, CallJoin, CallReport, CallLookup, CallDeploy, Call, Goto,
         runtime, NodeIInv, IInv, TypeOK
<1>2. UNCHANGED <<state, phase, offers, listened, acked, apps, call, calling>>
  BY DEF NodeArrive, runner
<1>3. call[t] = "idle" /\ listened # {}
  BY <1>1 DEF NodeIInv, CallsMatch, NodeArrive
<1> QED
  BY <1>1, <1>2, <1>3, OneTaskMoves DEF NodeIInv

LEMMA NodeCallerLeavesStep ==
  ASSUME NodeIInv, IInv', Run!IInv', NEW t \in Tasks, NodeCallerLeaves(t)
  PROVE  NodeIInv'
<1>1. /\ pc[t] # "idle" /\ pc'[t] = "idle"
      /\ \A u \in Tasks \ {t} : pc'[u] = pc[u] /\ arg'[u] = arg[u]
      /\ UNCHANGED <<instances, saved>>
  BY DEF NodeCallerLeaves, CallerLeaves, Return, Goto, runtime, NodeIInv, IInv, TypeOK
<1>2. /\ UNCHANGED <<state, phase, offers, listened, acked, apps>> /\ call'[t] = "idle"
      /\ \A u \in Tasks \ {t} : call'[u] = call[u] /\ calling'[u] = calling[u]
  BY DEF NodeCallerLeaves, Run!CallerLeaves, Run!Return, Run!Goto, Run!runner, runner,
         NodeIInv, Run!IInv, Run!TypeOK
<1> QED
  BY <1>1, <1>2, OneTaskMoves DEF NodeIInv

LEMMA HandleStep ==
  ASSUME NodeIInv, IInv', Run!IInv', NEW t \in Tasks, Handle(t)
  PROVE  NodeIInv'
<1>1. UNCHANGED <<state, phase, offers, listened, acked, apps, call, calling>>
  BY DEF Handle, runner
<1>2. /\ pc[t] \notin {"idle", "spawn", "spawned"} /\ pc'[t] \notin {"spawned", "commit"}
      /\ \A u \in Tasks \ {t} : pc'[u] = pc[u] /\ arg'[u] = arg[u]
      /\ saved' = saved
      /\ DOMAIN instances' \subseteq
           DOMAIN instances \cup (IF pc[t] = "commit" THEN {arg[t].d} ELSE {})
  BY HandleMoves DEF NodeIInv, IInv
<1>3. call[t] = "idle"
  BY <1>2 DEF NodeIInv, CallsMatch
<1> QED
  BY <1>1, <1>2, <1>3, OneTaskMoves DEF NodeIInv

LEMMA SaveHereStep ==
  ASSUME NodeIInv, IInv', Run!IInv', NEW t \in Tasks, SaveHere(t)
  PROVE  NodeIInv'
<1>1. /\ pc[t] = "save" /\ pc'[t] = "select" /\ arg' = arg
      /\ \A u \in Tasks \ {t} : pc'[u] = pc[u]
      /\ saved' = saved \cup {arg[t].d} /\ instances' = instances
  BY DEF SaveHere, DeploySave, Goto, runtime, NodeIInv, IInv, TypeOK
<1>2. /\ UNCHANGED <<state, phase, offers, listened, acked, call, calling>>
      /\ apps' = apps \cup {arg[t].d}
  BY DEF SaveHere, Run!DeployHere, Run!runner
<1>3. call[t] = "idle"
  BY <1>1 DEF NodeIInv, CallsMatch
<1>4. saved' \subseteq apps'
  BY <1>1, <1>2 DEF NodeIInv
<1> QED
  BY <1>1, <1>2, <1>3, <1>4, OneTaskMoves

LEMMA ConnectHereStep ==
  ASSUME NodeIInv, IInv', Run!IInv', NEW t \in Tasks, ConnectHere(t)
  PROVE  NodeIInv'
<1>1. pc[t] = "spawn" /\ UNCHANGED <<pc, arg, instances, saved>>
  BY DEF ConnectHere, scheduler, vars, runtime
<1>2. /\ UNCHANGED <<state, phase, offers, listened, acked, apps>>
      /\ call'[t] = "spawn" /\ calling'[t].d = arg[t].d
      /\ \A u \in Tasks \ {t} : call'[u] = call[u] /\ calling'[u] = calling[u]
  BY DEF ConnectHere, Run!Call, Run!Goto, Run!runner, NodeIInv, Run!IInv, Run!TypeOK
<1> QED
  BY <1>1, <1>2, OneTaskMoves DEF NodeIInv

LEMMA RefusedHereStep ==
  ASSUME NodeIInv, IInv', Run!IInv', NEW t \in Tasks, RefusedHere(t)
  PROVE  NodeIInv'
<1>1. /\ call[t] = "idle" /\ pc[t] # "idle" /\ pc'[t] = "idle"
      /\ \A u \in Tasks \ {t} : pc'[u] = pc[u] /\ arg'[u] = arg[u]
      /\ UNCHANGED <<instances, saved>>
  BY DEF RefusedHere, SpawnFails, Return, Goto, runtime, NodeIInv, IInv, TypeOK
<1>2. UNCHANGED <<state, phase, offers, listened, acked, apps, call, calling>>
  BY DEF RefusedHere, runner
<1> QED
  BY <1>1, <1>2, OneTaskMoves DEF NodeIInv

\* The call has come to its end, with the application acknowledged.
LEMMA ConfirmedHereStep ==
  ASSUME NodeIInv, IInv', Run!IInv', NEW t \in Tasks, ConfirmedHere(t)
  PROVE  NodeIInv'
<1>1. /\ call[t] = "idle" /\ pc[t] = "spawned" /\ pc'[t] = "commit" /\ arg' = arg
      /\ \A u \in Tasks \ {t} : pc'[u] = pc[u]
      /\ UNCHANGED <<instances, saved>>
  BY DEF ConfirmedHere, SpawnConfirmed, Goto, runtime, NodeIInv, IInv, TypeOK
<1>2. UNCHANGED <<state, phase, offers, listened, acked, apps, call, calling>>
  BY DEF ConfirmedHere, runner
<1>3. Alive => arg[t].d \in acked
  BY <1>1 DEF NodeIInv, AckedBeforeListed
<1> QED
  BY <1>1, <1>2, <1>3, OneTaskMoves DEF NodeIInv

\* The daemon finds the application: the deploy has saved it here before.
LEMMA SpawnLockStep ==
  ASSUME NodeIInv, IInv', Run!IInv', NEW t \in Tasks, Run!SpawnLock(t), UNCHANGED scheduler
  PROVE  NodeIInv'
<1>1. UNCHANGED <<pc, arg, instances, saved>>
  BY DEF scheduler, vars, runtime
<1>2. /\ call[t] = "spawn" /\ pc[t] = "spawn" /\ calling[t].d = arg[t].d
      /\ UNCHANGED <<state, phase, offers, listened, acked, apps, calling>>
  BY DEF Run!SpawnLock, Run!Goto, Run!runner, NodeIInv, CallsMatch
<1>3. Deploys(t)
  <2>1. lock # t
    BY <1>2, SchedulerConstants DEF NodeIInv, IInv, BlockedOnlyByOverload
  <2> QED
    BY <1>2, <2>1 DEF Deploys
<1>4. calling[t].d \in apps
  BY <1>2, <1>3 DEF NodeIInv, IInv, SavedFirst
<1>5. call'[t] = "note" /\ \A u \in Tasks \ {t} : call'[u] = call[u]
  BY <1>4 DEF Run!SpawnLock, Run!Goto, NodeIInv, Run!IInv, Run!TypeOK
<1> QED
  BY <1>1, <1>2, <1>5, OneTaskMoves DEF NodeIInv

LEMMA SendKeepStep ==
  ASSUME NodeIInv, IInv', Run!IInv', NEW t \in Tasks, Run!SendKeep(t), UNCHANGED scheduler
  PROVE  NodeIInv'
<1>1. UNCHANGED <<pc, arg, instances, saved>>
  BY DEF scheduler, vars, runtime
<1>2. /\ call[t] = "send" /\ call'[t] = "idle" /\ acked' = acked \cup {calling[t].d}
      /\ \A u \in Tasks \ {t} : call'[u] = call[u] /\ calling'[u] = calling[u]
      /\ UNCHANGED <<state, phase, offers, listened, apps>>
  BY DEF Run!SendKeep, Run!Return, Run!Sent, Run!Goto, Run!runner, NodeIInv, Run!IInv, Run!TypeOK
<1>3. pc[t] = "spawned" /\ arg[t].d \in acked'
  BY <1>2 DEF NodeIInv, CallsMatch
<1> QED
  BY <1>1, <1>2, <1>3, OneTaskMoves DEF NodeIInv

LEMMA DaemonNotesStep ==
  ASSUME NodeIInv, IInv', Run!IInv', NEW t \in Tasks, DaemonNotes(t)
  PROVE  NodeIInv'
<1>1. /\ pc[t] = "spawn" /\ pc'[t] = "spawned" /\ arg' = arg
      /\ \A u \in Tasks \ {t} : pc'[u] = pc[u]
      /\ UNCHANGED <<instances, saved>>
  BY DEF DaemonNotes, SpawnTakesEffect, Goto, runtime, NodeIInv, IInv, TypeOK
<1>2. /\ call[t] = "note" /\ UNCHANGED <<state, phase, offers, listened, apps>>
      /\ \A u \in Tasks \ {t} : call'[u] = call[u] /\ calling'[u] = calling[u]
      /\ \/ call'[t] = "idle" /\ acked' = acked \cup {calling[t].d}
         \/ call'[t] = "send" /\ UNCHANGED <<acked, calling>>
  BY DEF DaemonNotes, Run!NoteInstance, Run!Return, Run!Sent, Run!Goto, Run!runner,
         NodeIInv, Run!IInv, Run!TypeOK
<1>3. arg[t].d = calling[t].d
  BY <1>2 DEF NodeIInv, CallsMatch
<1> QED
  BY <1>1, <1>2, <1>3, OneTaskMoves DEF NodeIInv

LEMMA NodeNextIInv ==
  ASSUME NodeIInv, [NodeNext]_nodeVars
  PROVE  NodeIInv'
<1>1. IInv' /\ Run!IInv'
  BY NodeKeepsBoth
<1>2. CASE Runs
  BY <1>1, <1>2, RunsStep
<1>3. ASSUME NEW t \in Tasks, NodeArrive(t) \/ NodeCallerLeaves(t)
      PROVE  NodeIInv'
  BY <1>1, <1>3, NodeArriveStep, NodeCallerLeavesStep
<1>4. ASSUME NEW t \in Tasks, NodeStep(t)
      PROVE  NodeIInv'
  BY <1>1, <1>4, SaveHereStep, ConnectHereStep, RefusedHereStep, ConfirmedHereStep,
     SpawnLockStep, SendKeepStep, DaemonNotesStep, HandleStep DEF NodeStep, DaemonWorks
<1>5. CASE UNCHANGED nodeVars
  <2>1. UNCHANGED <<pc, arg, instances, saved, state, phase, offers, listened, acked, apps, call, calling>>
    BY <1>5 DEF nodeVars, scheduler, vars, runtime, runner
  <2> QED
    BY <1>1, <2>1 DEF NodeIInv, CallsMatch, AckedBeforeListed, CallersHaveConnected, Alive, Run!gen
<1> QED
  BY <1>2, <1>3, <1>4, <1>5 DEF NodeNext

(***************************************************************************)
(* The theorems.                                                           *)
(***************************************************************************)
\* Every step of the node preserves the invariant.
THEOREM NodeInvariance == NodeSpec => []NodeIInv
BY NodeInitIInv, NodeNextIInv, PTL DEF NodeSpec

\* Types of both halves; a call to the node's daemon is that of a handler which
\* waits for it, and never comes to save an application.
THEOREM NodeTypeCorrect == NodeSpec => []NodeTypeOK
<1>1. NodeIInv => NodeTypeOK
  BY DEF NodeIInv, IInv, Run!IInv, CallsMatch, NodeTypeOK
<1> QED
  BY <1>1, NodeInvariance, PTL

\* When the scheduler lists a "face" application at its own node, and the node
\* listens with no command waiting, the application is offered there: the two
\* halves never disagree for longer than a restart of the service takes.
THEOREM ListedIsOfferedAlways == NodeSpec => []ListedIsOffered
<1>1. NodeIInv => ListedIsOffered
  <2> SUFFICES ASSUME NodeIInv, NEW d \in DOMAIN instances \cap Face,
                      phase = "listen", channel = 0
               PROVE  offers[Run!gen] # Nil
    BY DEF ListedIsOffered
  <2>1. d \in acked \cap Face
    BY DEF NodeIInv, AckedBeforeListed, Alive
  <2> QED
    BY <2>1 DEF NodeIInv, Run!IInv, Run!LookedUp
<1> QED
  BY <1>1, NodeInvariance, PTL

\* Seen from its callers, the node is a scheduler as Scheduler specifies it:
\* its runner, its daemon and its database only choose among the outcomes that
\* Scheduler allows them.  So it has what is proved of every Scheduler.
THEOREM ImplementsScheduler == NodeSpec => Spec
BY NodeStepsOfScheduler, PTL DEF NodeSpec, NodeInit, Spec

\* And its runner is that of ServerRunner: a deploy on the scheduler's own node
\* does nothing to it that a call from elsewhere could not do.
THEOREM ImplementsRunner == NodeSpec => Run!Spec
<1>1. NodeInit => Run!Init
  BY DEF NodeInit
<1>2. NodeIInv /\ [NodeNext]_nodeVars => [Run!Next]_Run!vars
  BY NodeStepsOfRunner
<1> QED
  BY <1>1, <1>2, NodeInvariance, PTL DEF NodeSpec, Run!Spec
=============================================================================
