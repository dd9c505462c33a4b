------------------------- MODULE ServerRunnerProofs -------------------------
(***************************************************************************)
(* Theorems about ServerRunner, for every set of applications and every    *)
(* number of calls, restarts of the service and starts of the process.     *)
(***************************************************************************)
EXTENDS ServerRunner, SequenceTheorems, TLAPS

(***************************************************************************)
(* The services: sequences with an entry for each that was started.        *)
(***************************************************************************)
LEMMA LastService ==
  ASSUME TypeOK
  PROVE  /\ gen \in DOMAIN offers
         /\ DOMAIN offers = 1 .. gen
         /\ offers[gen] \in Face \cup {None}
         /\ \A d \in Face \cup {None} :
              LET new == [offers EXCEPT ![gen] = d]
              IN  /\ new \in Seq(Face \cup {None}) /\ new # <<>>
                  /\ Len(new) = gen /\ DOMAIN new = DOMAIN offers
                  /\ new[gen] = d
<1>1. offers \in Seq(Face \cup {None}) /\ offers # <<>>
  BY DEF TypeOK
<1>2. gen \in Nat /\ gen # 0 /\ DOMAIN offers = 1 .. gen
  BY <1>1, LenProperties, EmptySeq DEF gen
<1>3. gen \in 1 .. gen
  BY <1>2
<1>4. offers[gen] \in Face \cup {None}
  BY <1>1, <1>2, <1>3, ElementOfSeq DEF gen
<1>5. ASSUME NEW d \in Face \cup {None}
      PROVE  LET new == [offers EXCEPT ![gen] = d]
             IN  /\ new \in Seq(Face \cup {None}) /\ new # <<>>
                 /\ Len(new) = gen /\ DOMAIN new = DOMAIN offers
                 /\ new[gen] = d
  <2> DEFINE new == [offers EXCEPT ![gen] = d]
  <2>1. new \in Seq(Face \cup {None}) /\ Len(new) = gen /\ DOMAIN new = DOMAIN offers
    BY <1>1, <1>2, <1>3, ExceptSeq DEF gen
  <2>2. new[gen] = d
    BY <1>2, <1>3
  <2>3. new # <<>>
    BY <2>1, <1>2
  <2> QED
    BY <2>1, <2>2, <2>3
<1> QED
  BY <1>2, <1>3, <1>4, <1>5

LEMMA NextServiceTypes ==
  ASSUME TypeOK, NEW s, NextService(s), UNCHANGED <<listened, arg>>
  PROVE  /\ offers' \in Seq(Face \cup {None}) /\ offers' # <<>>
         /\ listened' \subseteq DOMAIN offers'
         /\ held' \in [DOMAIN offers' -> Tasks \cup {Free}]
         /\ \A g \in DOMAIN held' : held'[g] # Free => g \in DOMAIN held /\ held'[g] = held[g]
<1>1. offers \in Seq(Face \cup {None}) /\ Len(offers) \in Nat /\ DOMAIN offers = 1 .. Len(offers)
  BY LenProperties DEF TypeOK
<1>2. /\ offers' \in Seq(Face \cup {None}) /\ Len(offers') = Len(offers) + 1
      /\ offers' # <<>>
  BY <1>1, AppendProperties DEF NextService
<1>3. DOMAIN offers' = 1 .. Len(offers) + 1
  BY <1>2, LenProperties
<1>4. held \in Seq(Tasks \cup {Free}) /\ Len(held) = Len(offers)
  BY <1>1, IsASeq, LenProperties DEF TypeOK
<1>5. /\ held' \in Seq(Tasks \cup {Free}) /\ Len(held') = Len(offers) + 1
      /\ \A i \in 1 .. Len(offers) : held'[i] = held[i]
      /\ held'[Len(offers) + 1] = Free
  BY <1>4, AppendProperties DEF NextService
<1>6. held' \in [1 .. Len(offers) + 1 -> Tasks \cup {Free}]
  BY <1>5, LenProperties, SeqDef
<1>7. DOMAIN held = 1 .. Len(offers)
  BY <1>1 DEF TypeOK
<1>8. listened \subseteq 1 .. Len(offers)
  BY <1>1 DEF TypeOK
<1> QED
  BY <1>1, <1>2, <1>3, <1>5, <1>6, <1>7, <1>8

(***************************************************************************)
(* Initial states.                                                         *)
(***************************************************************************)
LEMMA InitIInv == Init => IInv
<1> SUFFICES ASSUME Init PROVE IInv
  OBVIOUS
<1> USE RunnerConstants DEF Init
<1>1. TypeOK
  <2>1. offers \in Seq(Face \cup {None}) /\ offers # <<>> /\ DOMAIN offers = {1}
    OBVIOUS
  <2>2. held \in [DOMAIN offers -> Tasks \cup {Free}] /\ \A g \in DOMAIN offers : held[g] = Free
    BY <2>1
  <2>3. blocked \in BOOLEAN
    OBVIOUS
  <2> QED
    BY <2>1, <2>2, <2>3 DEF TypeOK, FirstPhase, Phases, Progress, NoArg
<1>2. CallsFit
  BY DEF CallsFit
<1>3. SavedFirst /\ LookedUp /\ EndedIsQuiet
  BY DEF SavedFirst, LookedUp, EndedIsQuiet, FirstPhase
<1> QED
  BY <1>1, <1>2, <1>3 DEF IInv

(***************************************************************************)
(* The runner.                                                             *)
(***************************************************************************)
\* A new service, after join_cluster or for a command: nothing is looked up yet.
LEMMA NextServiceStep ==
  ASSUME IInv, NEW s \in {"joining", "running", "authoritative"}, NextService(s),
         channel' \in 0 .. 1, phase # "exited",
         UNCHANGED <<command, listened, apps, acked, pc, arg, blocked, calls, starts>>
  PROVE  IInv'
<1>1. TypeOK'
  <2>1. /\ offers' \in Seq(Face \cup {None}) /\ offers' # <<>>
        /\ listened' \subseteq DOMAIN offers'
        /\ held' \in [DOMAIN offers' -> Tasks \cup {Free}]
    BY NextServiceTypes DEF IInv
  <2>2. \A g \in DOMAIN offers' : held'[g] # Free => arg[held'[g]].g = g
    BY <2>1, NextServiceTypes DEF IInv, TypeOK
  <2>3. state' \in {"joining", "running", "authoritative"} /\ phase' \in Phases
    BY DEF NextService, FirstPhase, Phases
  <2> QED
    BY <2>1, <2>2, <2>3 DEF IInv, TypeOK
<1>2. CallsFit'
  BY NextServiceTypes DEF IInv, CallsFit
<1>3. SavedFirst' /\ LookedUp' /\ EndedIsQuiet'
  BY DEF IInv, SavedFirst, LookedUp, EndedIsQuiet, NextService, FirstPhase
<1> QED
  BY <1>1, <1>2, <1>3 DEF IInv

\* The look-up finds a "face" application if there is one.
LEMMA LookupFaceStep ==
  ASSUME IInv, LookupFace
  PROVE  IInv'
<1> PICK d \in IF apps \cap Face = {} THEN {None} ELSE apps \cap Face :
           offers' = [offers EXCEPT ![gen] = d]
  BY DEF LookupFace
<1>1. /\ d \in Face \cup {None}
      /\ apps \cap Face # {} => d # None
  BY RunnerConstants
<1>2. /\ offers' \in Seq(Face \cup {None}) /\ offers' # <<>>
      /\ gen' = gen /\ DOMAIN offers' = DOMAIN offers /\ offers'[gen] = d
  BY <1>1, LastService DEF IInv, gen
<1>3. TypeOK'
  BY <1>2 DEF LookupFace, IInv, TypeOK, Phases
<1>4. CallsFit' /\ SavedFirst'
  BY DEF LookupFace, IInv, CallsFit, SavedFirst
<1>5. LookedUp' /\ EndedIsQuiet'
  BY <1>1, <1>2 DEF LookupFace, IInv, SavedFirst, LookedUp, EndedIsQuiet
<1> QED
  BY <1>3, <1>4, <1>5 DEF IInv

LEMMA ListenStep ==
  ASSUME IInv, Listen
  PROVE  IInv'
<1>1. TypeOK'
  BY LastService DEF Listen, IInv, TypeOK, Phases
<1>2. CallsFit' /\ SavedFirst'
  BY DEF Listen, IInv, CallsFit, SavedFirst
<1>3. LookedUp' /\ EndedIsQuiet'
  BY DEF Listen, IInv, LookedUp, EndedIsQuiet, gen
<1> QED
  BY <1>1, <1>2, <1>3 DEF IInv

\* The store is what is left of a process that ends.
LEMMA ExitStep ==
  ASSUME IInv, Exit
  PROVE  IInv'
<1>1. TypeOK'
  BY DEF Exit, IInv, TypeOK, Phases, Progress, NoArg
<1>2. CallsFit'
  BY DEF Exit, IInv, CallsFit, TypeOK
<1>3. SavedFirst' /\ LookedUp' /\ EndedIsQuiet'
  BY DEF Exit, IInv, SavedFirst, LookedUp, EndedIsQuiet
<1> QED
  BY <1>1, <1>2, <1>3 DEF IInv

LEMMA StartStep ==
  ASSUME IInv, Start
  PROVE  IInv'
<1>1. listened = {} /\ \A t \in Tasks : pc[t] = "idle"
  BY DEF Start, IInv, EndedIsQuiet
<1>2. offers' \in Seq(Face \cup {None}) /\ offers' # <<>> /\ DOMAIN offers' = {1}
  BY DEF Start
<1>3. held' \in [DOMAIN offers' -> Tasks \cup {Free}] /\ \A g \in DOMAIN held' : held'[g] = Free
  BY <1>2 DEF Start
<1>4. TypeOK'
  <2>1. blocked' \in BOOLEAN
    BY DEF Start
  <2> QED
    BY <1>1, <1>2, <1>3, <2>1 DEF Start, IInv, TypeOK, FirstPhase, Phases
<1>5. CallsFit' /\ SavedFirst' /\ LookedUp' /\ EndedIsQuiet'
  BY <1>1, <1>3 DEF Start, IInv, CallsFit, SavedFirst, LookedUp, EndedIsQuiet, FirstPhase
<1> QED
  BY <1>4, <1>5 DEF IInv

(***************************************************************************)
(* Calls.  A step of a call leaves the services alone, so that what is left*)
(* to show about it concerns mutexes, arguments and applications.          *)
(***************************************************************************)
LEMMA CallTypes ==
  ASSUME TypeOK, UNCHANGED runner,
         held' \in [DOMAIN offers -> Tasks \cup {Free}],
         \A g \in DOMAIN offers : held'[g] # Free => arg'[held'[g]].g = g,
         channel' \in 0 .. 1,
         apps' \subseteq Deployments, acked' \subseteq Deployments,
         pc' \in [Tasks -> Progress],
         arg' \in [Tasks -> [g : Nat, d : Deployments \cup {None}]],
         \A t \in Tasks : pc'[t] # "idle" => arg'[t].g \in listened,
         blocked' \in BOOLEAN, calls' \in Nat, starts' \in Nat
  PROVE  TypeOK'
BY DEF TypeOK, runner

\* The call has reached the daemon of a service; no mutex is its own yet.
LEMMA ArriveStep ==
  ASSUME IInv, NEW t \in Tasks, Arrive(t)
  PROVE  IInv'
<1> PICK op \in {"get_info", "spawn"}, g \in listened, d \in Deployments \cup {None} :
           Call(t, op, g, d) /\ (op = "spawn" => d \in Deployments)
  BY DEF Arrive
<1>1. listened # {} /\ phase # "exited"
  BY DEF IInv, EndedIsQuiet
<1>2. g \in Nat
  BY LastService DEF IInv, TypeOK
<1>3. \A x \in DOMAIN held : held[x] # t
  BY RunnerConstants DEF Call, Goto, IInv, CallsFit
<1>4. TypeOK'
  BY <1>2, <1>3, CallTypes DEF Call, Goto, IInv, TypeOK, Progress
<1>5. CallsFit' /\ SavedFirst'
  BY <1>3 DEF Call, Goto, IInv, CallsFit, SavedFirst, TypeOK
<1>6. LookedUp' /\ EndedIsQuiet'
  BY <1>1 DEF Call, runner, IInv, LookedUp, EndedIsQuiet, gen
<1> QED
  BY <1>4, <1>5, <1>6 DEF IInv

\* However a call ends, it leaves no mutex behind.
LEMMA ReturnFrees ==
  ASSUME IInv, NEW t \in Tasks, NEW from, Return(t, from)
  PROVE  /\ held' \in [DOMAIN offers -> Tasks \cup {Free}]
         /\ \A g \in DOMAIN offers : held'[g] \in {Free, held[g]} /\ held'[g] # t
BY RunnerConstants DEF Return, Goto, IInv, TypeOK

LEMMA ReturnStep ==
  ASSUME IInv, NEW t \in Tasks, NEW from, from # "idle", Return(t, from),
         UNCHANGED <<runner, apps, blocked, calls, starts>>,
         channel' \in 0 .. 1,
         acked' \subseteq apps,
         (acked' = acked /\ channel' = channel) \/ channel' = 1
  PROVE  IInv'
<1>1. phase # "exited"
  BY DEF Return, Goto, IInv, EndedIsQuiet
<1>2. TypeOK'
  <2>1. /\ pc' \in [Tasks -> Progress]
        /\ arg' \in [Tasks -> [g : Nat, d : Deployments \cup {None}]]
        /\ \A u \in Tasks : pc'[u] # "idle" => arg'[u].g \in listened
    BY DEF Return, Goto, IInv, TypeOK, Progress, NoArg
  <2>2. \A g \in DOMAIN offers : held'[g] # Free => arg'[held'[g]].g = g
    BY ReturnFrees DEF Return, IInv, TypeOK
  <2>3. /\ apps' \subseteq Deployments /\ acked' \subseteq Deployments
          /\ blocked' \in BOOLEAN /\ calls' \in Nat /\ starts' \in Nat
    BY DEF IInv, TypeOK
  <2> QED
    BY <2>1, <2>2, <2>3, ReturnFrees, CallTypes DEF IInv
<1>3. CallsFit' /\ SavedFirst'
  <2>1. \A u \in Tasks \ {t} : pc'[u] = pc[u] /\ arg'[u] = arg[u]
    BY DEF Return, Goto, IInv, TypeOK
  <2>2. pc'[t] = "idle"
    BY DEF Return, Goto, IInv, TypeOK
  <2>3. DOMAIN held' = DOMAIN held /\ DOMAIN held = DOMAIN offers
    BY ReturnFrees DEF IInv, TypeOK
  <2>4. \A g \in DOMAIN held : held[g] \in Tasks \cup {Free}
    BY DEF IInv, TypeOK
  <2> QED
    BY <2>1, <2>2, <2>3, <2>4, ReturnFrees DEF IInv, CallsFit, SavedFirst
<1>4. LookedUp' /\ EndedIsQuiet'
  BY <1>1 DEF runner, IInv, LookedUp, EndedIsQuiet, gen
<1> QED
  BY <1>2, <1>3, <1>4 DEF IInv

\* spawn takes the mutex of its own daemon, and skips the save only of what is
\* saved already.
LEMMA SpawnLockStep ==
  ASSUME IInv, NEW t \in Tasks, SpawnLock(t)
  PROVE  IInv'
<1>1. phase # "exited"
  BY DEF SpawnLock, Goto, IInv, EndedIsQuiet
<1>2. TypeOK'
  BY CallTypes DEF SpawnLock, Goto, IInv, TypeOK, Progress
<1>3. CallsFit' /\ SavedFirst'
  BY DEF SpawnLock, Goto, IInv, CallsFit, SavedFirst, TypeOK
<1>4. LookedUp' /\ EndedIsQuiet'
  BY <1>1 DEF SpawnLock, runner, IInv, LookedUp, EndedIsQuiet, gen
<1> QED
  BY <1>2, <1>3, <1>4 DEF IInv

LEMMA SaveStep ==
  ASSUME IInv, NEW t \in Tasks, Save(t)
  PROVE  IInv'
<1>1. phase # "exited" /\ arg[t].d \in Deployments
  BY DEF Save, Goto, IInv, EndedIsQuiet, CallsFit
<1>2. TypeOK'
  BY <1>1, CallTypes DEF Save, Goto, IInv, TypeOK, Progress
<1>3. CallsFit' /\ SavedFirst'
  BY <1>1 DEF Save, Goto, IInv, CallsFit, SavedFirst, TypeOK
<1>4. LookedUp' /\ EndedIsQuiet'
  BY <1>1 DEF Save, runner, IInv, LookedUp, EndedIsQuiet, gen
<1> QED
  BY <1>2, <1>3, <1>4 DEF IInv

\* A call that has to wait keeps what it has: the mutex, for room in the channel;
\* nothing, for the scheduler's group.
LEMMA CallWaits ==
  ASSUME IInv, NEW t \in Tasks, Goto(t, "note", "send") \/ Goto(t, "get_info", "group"),
         UNCHANGED <<runner, held, channel, apps, acked, arg, blocked, calls, starts>>
  PROVE  IInv'
<1>1. phase # "exited"
  BY DEF Goto, IInv, EndedIsQuiet
<1>2. TypeOK'
  BY CallTypes DEF Goto, IInv, TypeOK, Progress
<1>3. CallsFit' /\ SavedFirst'
  BY DEF Goto, IInv, CallsFit, SavedFirst, TypeOK
<1>4. LookedUp' /\ EndedIsQuiet'
  BY <1>1 DEF runner, IInv, LookedUp, EndedIsQuiet, gen
<1> QED
  BY <1>2, <1>3, <1>4 DEF IInv

\* spawn is answered when its command is in the channel, not when the service
\* that the command asks for is there.
LEMMA AnswerStep ==
  ASSUME IInv, NEW t \in Tasks, NEW from \in {"note", "send"}, Return(t, from), Sent(t),
         UNCHANGED <<runner, apps, blocked, calls, starts>>
  PROVE  IInv'
<1>1. acked' \subseteq apps /\ channel' = 1
  BY DEF Sent, Return, Goto, IInv, SavedFirst
<1> QED
  BY <1>1, ReturnStep

LEMMA DeployHereStep ==
  ASSUME IInv, NEW d \in Deployments, DeployHere(d)
  PROVE  IInv'
<1>1. phase # "exited"
  BY DEF DeployHere, IInv, EndedIsQuiet
<1>2. TypeOK'
  BY CallTypes DEF DeployHere, runner, IInv, TypeOK
<1>3. CallsFit' /\ SavedFirst' /\ LookedUp' /\ EndedIsQuiet'
  BY <1>1 DEF DeployHere, runner, IInv, CallsFit, SavedFirst, LookedUp, EndedIsQuiet, gen
<1> QED
  BY <1>2, <1>3 DEF IInv

LEMMA ScaleOutBlocksStep ==
  ASSUME IInv, ScaleOutBlocks
  PROVE  IInv'
<1>1. TypeOK'
  BY CallTypes DEF ScaleOutBlocks, IInv, TypeOK
<1>2. CallsFit' /\ SavedFirst' /\ LookedUp' /\ EndedIsQuiet'
  BY DEF ScaleOutBlocks, runner, IInv, CallsFit, SavedFirst, LookedUp, EndedIsQuiet, gen
<1> QED
  BY <1>1, <1>2 DEF IInv

LEMMA CallSteps ==
  ASSUME IInv, NEW t \in Tasks, Arrive(t) \/ Step(t) \/ CallerLeaves(t)
  PROVE  IInv'
<1>1. CASE GetInfo(t) \/ GetGroup(t)
  BY <1>1, ReturnStep, CallWaits DEF GetInfo, GetGroup, IInv, TypeOK, SavedFirst
<1>2. CASE SaveFails(t)
  BY <1>2, ReturnStep DEF SaveFails, IInv, TypeOK, SavedFirst
<1>3. CASE CallerLeaves(t)
  <2> PICK from \in {"get_info", "group", "spawn", "save", "note", "send"} : Return(t, from)
    BY <1>3 DEF CallerLeaves
  <2> QED
    BY <1>3, ReturnStep DEF CallerLeaves, IInv, TypeOK, SavedFirst
<1>4. CASE NoteInstance(t)
  BY <1>4, AnswerStep, CallWaits DEF NoteInstance
<1>5. CASE SendKeep(t)
  BY <1>5, AnswerStep DEF SendKeep
<1> QED
  BY <1>1, <1>2, <1>3, <1>4, <1>5, ArriveStep, SpawnLockStep, SaveStep DEF Step

(***************************************************************************)
(* The theorems.                                                           *)
(***************************************************************************)
\* Every step of the node preserves the invariant.
LEMMA NextIInv ==
  ASSUME IInv, [Next]_vars
  PROVE  IInv'
<1>1. CASE ReceiveKeep
  BY <1>1, NextServiceStep DEF ReceiveKeep, IInv, TypeOK
<1>2. CASE JoinSucceeds
  BY <1>2, NextServiceStep DEF JoinSucceeds, IInv, TypeOK
<1>3. CASE Crash \/ ServiceFails
  BY <1>3, ExitStep DEF Crash, ServiceFails
<1>4. CASE UNCHANGED vars
  BY <1>4 DEF vars, runner, IInv, TypeOK, CallsFit, SavedFirst, LookedUp, EndedIsQuiet, gen
<1> QED
  BY <1>1, <1>2, <1>3, <1>4, LookupFaceStep, ListenStep, StartStep, DeployHereStep,
     ScaleOutBlocksStep, CallSteps
     DEF Next, Service

THEOREM Invariance == Spec => []IInv
BY InitIInv, NextIInv, PTL DEF Spec

\* Types; the mutex of a daemon is held by one of its own calls.
THEOREM TypeCorrect == Spec => []TypeOK
BY Invariance, PTL DEF IInv

\* A node that listens with no command left in its channel offers a "face"
\* application if it has ever acknowledged one, before or after any number of
\* crashes and restarts.
THEOREM AckedIsOfferedAlways == Spec => []AckedIsOffered
<1>1. IInv => AckedIsOffered
  BY DEF IInv, LookedUp, AckedIsOffered
<1> QED
  BY <1>1, Invariance, PTL

\* A poisoned node does not come back: nothing can remove the application that
\* its start-up fails on, and no call can reach it to add another.
LEMMA BarredStays ==
  ASSUME IInv, Barred, [Next]_vars
  PROVE  Barred'
<1> USE DEF Barred, Poisoned
<1>1. CASE LookupFace
  <2> PICK d \in IF apps \cap Face = {} THEN {None} ELSE apps \cap Face :
             offers' = [offers EXCEPT ![gen] = d]
    BY <1>1 DEF LookupFace
  <2>1. d \in Face \ Sound
    OBVIOUS
  <2>2. offers'[gen'] = d
    BY <2>1, LastService DEF IInv, gen
  <2> QED
    BY <1>1, <2>1, <2>2 DEF LookupFace
<1>2. CASE JoinSucceeds \/ Start
  BY <1>2 DEF JoinSucceeds, Start, NextService, FirstPhase
<1>3. CASE Crash \/ ServiceFails
  BY <1>3 DEF Crash, ServiceFails, Exit
<1>4. ~ Listen
  BY RunnerConstants DEF Listen
<1>5. ~ ReceiveKeep /\ ~ ScaleOutBlocks /\ \A d \in Deployments : ~ DeployHere(d)
  BY DEF ReceiveKeep, ScaleOutBlocks, DeployHere
<1>6. \A t \in Tasks : ~ Arrive(t)
  BY DEF Arrive
<1>7. \A t \in Tasks : ~ Step(t) /\ ~ CallerLeaves(t)
  BY DEF Step, GetInfo, GetGroup, SpawnLock, Save, SaveFails, NoteInstance, SendKeep, CallerLeaves,
         Return, Goto
<1>8. CASE UNCHANGED vars
  BY <1>8 DEF vars, runner, gen
<1> QED
  BY <1>1, <1>2, <1>3, <1>4, <1>5, <1>6, <1>7, <1>8 DEF Next, Service

THEOREM StaysPoisonedAlways == Spec => StaysPoisoned
<1>1. IInv /\ phase = "exited" /\ Poisoned => Barred
  BY DEF IInv, EndedIsQuiet, Barred
<1>2. IInv /\ Barred /\ [Next]_vars => Barred'
  BY BarredStays
<1>3. Barred => phase # "listen"
  BY DEF Barred
<1> QED
  BY <1>1, <1>2, <1>3, Invariance, PTL DEF Spec, StaysPoisoned
=============================================================================
