---------------------- MODULE DeploymentDatabaseProofs ----------------------
(***************************************************************************)
(* Theorems about DeploymentDatabase, for every set of deployments, every  *)
(* assignment of names to them and every number of calls and of crashes.   *)
(***************************************************************************)
EXTENDS DeploymentDatabase, SequenceTheorems, FiniteSetTheorems, TLAPS

(***************************************************************************)
(* What the updates of an IdMap keep, for any keys and values.             *)
(***************************************************************************)
LEMMA EmptyMapIsMap ==
  ASSUME NEW K, NEW V
  PROVE  IsIdMap(EmptyMap, K, V) /\ DOMAIN EmptyMap = {}
BY DEF IsIdMap, EmptyMap

\* insert of a hash map: the entry of k is v, and the others are what they were.
LEMMA PutMap ==
  ASSUME NEW K, NEW V, NEW m, IsIdMap(m, K, V), NEW k \in K, NEW v \in V
  PROVE  /\ IsIdMap(Put(m, k, v), K, V)
         /\ DOMAIN Put(m, k, v) = DOMAIN m \cup {k}
         /\ Put(m, k, v)[k] = v
         /\ \A x \in DOMAIN m \ {k} : Put(m, k, v)[x] = m[x]
BY DEF IsIdMap, Put

\* insert_instance and insert_stats: the entry of k grows by items.
LEMMA AppendAtMap ==
  ASSUME NEW K, NEW V, NEW m, IsIdMap(m, K, Seq(V)), NEW k \in K, NEW items \in Seq(V)
  PROVE  IsIdMap(AppendAt(m, k, items), K, Seq(V))
<1> DEFINE new == IF k \in DOMAIN m THEN m[k] \o items ELSE items
           SV  == Seq(V)
<1>1. new \in SV
  BY ConcatProperties DEF IsIdMap
<1>2. AppendAt(m, k, items) = Put(m, k, new)
  BY DEF AppendAt
<1>3. IsIdMap(m, K, SV)
  OBVIOUS
<1> SUFFICES IsIdMap(Put(m, k, new), K, SV)
  BY <1>2
<1> HIDE DEF new, SV
<1> QED
  BY <1>1, <1>3 DEF IsIdMap, Put

\* What is in a concatenation was in one of its parts.
LEMMA ConcatElements ==
  ASSUME NEW V, NEW s \in Seq(V), NEW u \in Seq(V)
  PROVE  Elements(s \o u) = Elements(s) \cup Elements(u)
<1>1. /\ s \o u \in Seq(V) /\ Len(s \o u) = Len(s) + Len(u)
      /\ \A i \in 1 .. Len(s) + Len(u) : (s \o u)[i] = IF i <= Len(s) THEN s[i] ELSE u[i - Len(s)]
  BY ConcatProperties
<1>2. /\ Len(s) \in Nat /\ DOMAIN s = 1 .. Len(s)
      /\ Len(u) \in Nat /\ DOMAIN u = 1 .. Len(u)
      /\ DOMAIN (s \o u) = 1 .. Len(s) + Len(u)
  BY <1>1, LenProperties
<1>3. \A i \in DOMAIN s : i \in DOMAIN (s \o u) /\ (s \o u)[i] = s[i]
  BY <1>1, <1>2
<1>4. \A i \in DOMAIN u : Len(s) + i \in DOMAIN (s \o u) /\ (s \o u)[Len(s) + i] = u[i]
  BY <1>1, <1>2
<1>5. \A i \in DOMAIN (s \o u) :
         (i \in DOMAIN s /\ (s \o u)[i] = s[i])
           \/ (i - Len(s) \in DOMAIN u /\ (s \o u)[i] = u[i - Len(s)])
  BY <1>1, <1>2
<1>6. Elements(s) \subseteq Elements(s \o u)
  BY <1>3 DEF Elements
<1>7. Elements(u) \subseteq Elements(s \o u)
  BY <1>4 DEF Elements
<1>8. Elements(s \o u) \subseteq Elements(s) \cup Elements(u)
  BY <1>5 DEF Elements
<1> QED
  BY <1>6, <1>7, <1>8

LEMMA SingletonElements ==
  ASSUME NEW x
  PROVE  Elements(<<x>>) = {x}
BY DEF Elements

\* The last of the versions, or the last window, is one of them.
LEMMA LastElement ==
  ASSUME NEW V, NEW s \in Seq(V), s # <<>>
  PROVE  s[Len(s)] \in V /\ s[Len(s)] \in Elements(s)
<1>1. Len(s) \in Nat \ {0} /\ DOMAIN s = 1 .. Len(s)
  BY LenProperties, EmptySeq
<1>2. Len(s) \in DOMAIN s
  BY <1>1
<1> QED
  BY <1>1, <1>2, ElementOfSeq DEF Elements

LEMMA NameInNames ==
  ASSUME NEW d \in Deployments
  PROVE  NameOf[d] \in Names
BY DEF Names

LEMMA NoArgType == NoArg \in [op  : {"add_app", "add_instance"},
                              d   : Deployments \cup {None},
                              dir : Dirs \cup {None}]
BY DEF NoArg

LEMMA InitIInv == Init => IInv
<1> SUFFICES ASSUME Init PROVE IInv
  OBVIOUS
<1> USE DEF Init
<1>1. TypeOK
  <2>1. \A n \in Names : IsIdMap(dirs[n], Dirs, {"partial", "full"})
    BY EmptyMapIsMap
  <2>2. DiskTypes
    BY <2>1 DEF DiskTypes
  <2>3. IsIdMap(apps, Deployments, Seq(Dirs)) /\ DOMAIN apps = {}
    BY EmptyMapIsMap
  <2>4. MemoryTypes
    BY <2>3, EmptySeq DEF MemoryTypes
  <2>5. CallTypes
    BY NoArgType DEF CallTypes, Progress
  <2>6. HistoryTypes
    BY DEF HistoryTypes
  <2> QED
    BY <2>2, <2>4, <2>5, <2>6 DEF TypeOK
<1>2. DiskFits
  <2>1. \A n \in Names : DOMAIN dirs[n] = {}
    BY EmptyMapIsMap
  <2> QED
    BY <2>1, FS_EmptySet, DatabaseConstants DEF DiskFits
<1>3. InstancesHaveApps
  BY DEF InstancesHaveApps, Elements
<1>4. CallsFit /\ StoppedIsEmpty /\ FirstSaveAlone /\ DurableOnceAcknowledged
  BY DEF CallsFit, StoppedIsEmpty, FirstSaveAlone, Saves, DurableOnceAcknowledged
<1>5. FilesFirst
  BY EmptyMapIsMap DEF FilesFirst
<1> QED
  BY <1>1, <1>2, <1>3, <1>4, <1>5 DEF IInv

(***************************************************************************)
(* Steps of a call that write no file and nothing in memory.               *)
(***************************************************************************)
LEMMA QuietStep ==
  ASSUME IInv, NEW t \in Tasks, up, UNCHANGED <<disk, up, memory, found, overlaid, done, begun>>,
         CallTypes', HistoryTypes',
         pc'[t] \in {"idle", "check", "download", "push", "send"},
         \A u \in Tasks \ {t} : pc'[u] = pc[u] /\ arg'[u] = arg[u],
         pc'[t] # "idle" => arg'[t].d \in Deployments,
         pc'[t] = "push" => arg'[t].d \in DOMAIN apps
  PROVE  IInv'
<1> USE DEF disk, memory, Name
<1>1. TypeOK'
  BY DEF IInv, TypeOK, DiskTypes, MemoryTypes
<1>2. CallsFit'
  BY DEF IInv, CallsFit
<1>3. DiskFits' /\ StoppedIsEmpty' /\ InstancesHaveApps' /\ DurableOnceAcknowledged'
  BY DEF IInv, DiskFits, StoppedIsEmpty, InstancesHaveApps, DurableOnceAcknowledged
<1>4. FilesFirst'
  BY DEF IInv, FilesFirst, Readability
<1>5. FirstSaveAlone'
  BY DEF IInv, FirstSaveAlone, Saves
<1> QED
  BY <1>1, <1>2, <1>3, <1>4, <1>5 DEF IInv

LEMMA CallStep ==
  ASSUME IInv, NEW t \in Tasks, NEW op \in {"add_app", "add_instance"}, NEW d \in Deployments,
         Call(t, op, d)
  PROVE  IInv'
<1>1. CallTypes'
  BY DEF Call, Goto, IInv, TypeOK, CallTypes, Progress, NoArg
<1>2. HistoryTypes'
  BY DEF Call, signals, IInv, TypeOK, HistoryTypes
<1> QED
  BY <1>1, <1>2, QuietStep DEF Call, Goto, IInv, TypeOK, CallTypes

LEMMA CheckAppStep ==
  ASSUME IInv, NEW t \in Tasks, CheckApp(t)
  PROVE  IInv'
<1>1. CallTypes' /\ HistoryTypes'
  BY DEF CheckApp, Goto, history, signals, IInv, TypeOK, CallTypes, HistoryTypes, Progress
<1>2. up /\ arg[t].d \in Deployments
  BY DEF CheckApp, Goto, IInv, CallsFit
<1> QED
  BY <1>1, <1>2, QuietStep DEF CheckApp, Goto, history, IInv, TypeOK, CallTypes

\* However a call ends, what it wrote stays.
LEMMA FinishStep ==
  ASSUME IInv, NEW t \in Tasks, NEW from, from # "idle", Finish(t, from),
         UNCHANGED <<disk, up, memory, found, overlaid, done, begun>>,
         channel' \in 0 .. 1, HistoryTypes'
  PROVE  IInv'
<1>1. CallTypes'
  BY NoArgType DEF Finish, Goto, IInv, TypeOK, CallTypes, Progress
<1>2. up
  BY DEF Finish, Goto, IInv, CallsFit
<1> QED
  BY <1>1, <1>2, QuietStep DEF Finish, Goto, IInv, TypeOK, CallTypes

LEMMA EndSteps ==
  ASSUME IInv, NEW t \in Tasks, AddAppFails(t) \/ SendKeep(t) \/ CallerLeaves(t)
  PROVE  IInv'
<1> USE DEF history, signals, IInv, TypeOK, CallTypes, HistoryTypes
<1>1. CASE AddAppFails(t)
  BY <1>1, FinishStep DEF AddAppFails, Finish
<1>2. CASE SendKeep(t)
  BY <1>2, FinishStep DEF SendKeep
<1>3. CASE CallerLeaves(t)
  BY <1>3, FinishStep DEF CallerLeaves
<1> QED
  BY <1>1, <1>2, <1>3

(***************************************************************************)
(* Steps of a save.                                                        *)
(***************************************************************************)
\* A save under name n is begun: it is the first, or the others no longer count.
LEMMA DownloadStep ==
  ASSUME IInv, NEW t \in Tasks, Download(t)
  PROVE  IInv'
<1> USE DEF Download, Goto, disk, memory, signals, Name
<1> PICK dir \in Dirs : arg' = [arg EXCEPT ![t].dir = dir]
  OBVIOUS
<1>1. up /\ arg[t].d \in Deployments /\ NameOf[arg[t].d] \in Names
  BY NameInNames DEF IInv, CallsFit
<1>2. /\ pc'[t] = "open" /\ arg'[t].d = arg[t].d /\ arg'[t].dir = dir
      /\ \A u \in Tasks \ {t} : pc'[u] = pc[u] /\ arg'[u] = arg[u]
  BY DEF IInv, TypeOK, CallTypes
<1>3. TypeOK'
  <2>1. DiskTypes' /\ MemoryTypes'
    BY DEF IInv, TypeOK, DiskTypes, MemoryTypes
  <2>2. CallTypes'
    BY DEF IInv, TypeOK, CallTypes, Progress
  <2>3. HistoryTypes'
    BY <1>1 DEF IInv, TypeOK, HistoryTypes
  <2> QED
    BY <2>1, <2>2, <2>3 DEF IInv, TypeOK
<1>4. CallsFit'
  BY <1>1, <1>2 DEF IInv, CallsFit
<1>5. DiskFits' /\ StoppedIsEmpty' /\ InstancesHaveApps'
  BY DEF IInv, DiskFits, StoppedIsEmpty, InstancesHaveApps
<1>6. FilesFirst'
  BY <1>2 DEF IInv, FilesFirst, Readability
<1>7. FirstSaveAlone' /\ DurableOnceAcknowledged'
  <2>1. \A n \in Names : begun[n] \in Nat
    BY DEF IInv, TypeOK, HistoryTypes
  <2>2. begun'[NameOf[arg[t].d]] = begun[NameOf[arg[t].d]] + 1
    BY <1>1, <2>1 DEF IInv, TypeOK, HistoryTypes
  <2>3. \A n \in Names \ {NameOf[arg[t].d]} : begun'[n] = begun[n]
    BY DEF IInv, TypeOK, HistoryTypes
  <2>4. \A d \in done : NameOf[d] \in Names
    BY NameInNames DEF IInv, TypeOK, HistoryTypes
  <2>5. FirstSaveAlone'
    BY <1>1, <1>2, <2>1, <2>2, <2>3 DEF IInv, FirstSaveAlone, Saves
  <2>6. DurableOnceAcknowledged'
    BY <1>1, <2>1, <2>2, <2>3, <2>4 DEF IInv, FirstSaveAlone, DurableOnceAcknowledged
  <2> QED
    BY <2>5, <2>6
<1> QED
  BY <1>3, <1>4, <1>5, <1>6, <1>7 DEF IInv

\* What a step does to the directory that a save writes to.
LEMMA PutDir ==
  ASSUME IInv, NEW t \in Tasks, arg[t].d \in Deployments, arg[t].dir \in Dirs,
         NEW v \in {"partial", "full"},
         dirs' = [dirs EXCEPT ![Name(t)] = Put(@, arg[t].dir, v)]
  PROVE  /\ Name(t) \in Names
         /\ \A n \in Names : IsIdMap(dirs'[n], Dirs, {"partial", "full"})
         /\ \A n \in Names \ {Name(t)} : dirs'[n] = dirs[n]
         /\ DOMAIN dirs'[Name(t)] = DOMAIN dirs[Name(t)] \cup {arg[t].dir}
         /\ dirs'[Name(t)][arg[t].dir] = v
         /\ \A x \in DOMAIN dirs[Name(t)] \ {arg[t].dir} : dirs'[Name(t)][x] = dirs[Name(t)][x]
         /\ \A n \in Names : IsFiniteSet(DOMAIN dirs'[n]) /\ DOMAIN dirs[n] \subseteq DOMAIN dirs'[n]
<1> DEFINE n0 == Name(t)  m == dirs[n0]  k == arg[t].dir
<1>1. n0 \in Names
  BY NameInNames DEF Name
<1>2. IsIdMap(m, Dirs, {"partial", "full"}) /\ IsFiniteSet(DOMAIN m)
  BY <1>1 DEF IInv, TypeOK, DiskTypes, DiskFits
<1>3. dirs'[n0] = Put(m, k, v) /\ \A n \in Names \ {n0} : dirs'[n] = dirs[n]
  BY <1>1 DEF IInv, TypeOK, DiskTypes
<1> HIDE DEF m, k
<1>4. /\ IsIdMap(Put(m, k, v), Dirs, {"partial", "full"})
      /\ DOMAIN Put(m, k, v) = DOMAIN m \cup {k}
      /\ Put(m, k, v)[k] = v
      /\ \A x \in DOMAIN m \ {k} : Put(m, k, v)[x] = m[x]
  <2>1. k \in Dirs
    BY DEF k
  <2> QED
    BY <1>2, <2>1, PutMap
<1>5. IsFiniteSet(DOMAIN m \cup {k})
  BY <1>2, FS_AddElement
<1>6. \A n \in Names \ {n0} : /\ IsIdMap(dirs'[n], Dirs, {"partial", "full"})
                              /\ IsFiniteSet(DOMAIN dirs'[n])
  BY <1>3 DEF IInv, TypeOK, DiskTypes, DiskFits
<1>7. \A n \in Names : DOMAIN dirs[n] \subseteq DOMAIN dirs'[n]
  BY <1>3, <1>4 DEF m
<1>8. \A n \in Names : IsIdMap(dirs'[n], Dirs, {"partial", "full"}) /\ IsFiniteSet(DOMAIN dirs'[n])
  BY <1>3, <1>4, <1>5, <1>6
<1> QED
  BY <1>1, <1>3, <1>4, <1>7, <1>8 DEF m, k

\* Directories are only added, so versions and the places of saves stay valid.
LEMMA DirsGrow ==
  ASSUME IInv, NEW t \in Tasks, arg[t].d \in Deployments, arg[t].dir \in Dirs, up,
         NEW v \in {"partial", "full"}, NEW from, from # "idle", NEW to \in {"files", "info"},
         dirs' = [dirs EXCEPT ![Name(t)] = Put(@, arg[t].dir, v)], Goto(t, from, to),
         UNCHANGED <<info, up, memory, channel, arg>>, HistoryTypes'
  PROVE  TypeOK' /\ CallsFit' /\ DiskFits' /\ StoppedIsEmpty' /\ InstancesHaveApps'
<1> USE DEF memory
<1>1. \A d \in DOMAIN apps : NameOf[d] \in Names
  BY NameInNames DEF IInv, TypeOK, MemoryTypes, IsIdMap
<1>2. DiskTypes' /\ MemoryTypes'
  BY <1>1, PutDir DEF IInv, TypeOK, DiskTypes, MemoryTypes
<1>3. CallTypes'
  BY DEF Goto, IInv, TypeOK, CallTypes, Progress
<1>4. CallsFit'
  <2>1. \A u \in Tasks : arg[u].d \in Deployments => Name(u) \in Names
    BY NameInNames DEF Name
  <2>2. /\ \A n \in Names : DOMAIN dirs[n] \subseteq DOMAIN dirs'[n]
        /\ Name(t) \in Names /\ arg[t].dir \in DOMAIN dirs'[Name(t)]
    BY PutDir
  <2>3. /\ \A u \in Tasks \ {t} : pc'[u] = pc[u]
        /\ pc'[t] = to /\ pc[t] # "idle" /\ \A u \in Tasks : Name(u)' = Name(u)
    BY DEF Goto, IInv, TypeOK, CallTypes, Name
  <2> QED
    BY <2>1, <2>2, <2>3 DEF IInv, CallsFit
<1>5. DiskFits'
  BY PutDir DEF IInv, DiskFits
<1>6. StoppedIsEmpty' /\ InstancesHaveApps'
  BY DEF IInv, StoppedIsEmpty, InstancesHaveApps
<1> QED
  BY <1>2, <1>3, <1>4, <1>5, <1>6 DEF IInv, TypeOK

\* The directory is there and not yet complete; if it was there before, what it
\* held can no longer be relied on.
LEMMA OpenDirStep ==
  ASSUME IInv, NEW t \in Tasks, OpenDir(t)
  PROVE  IInv'
<1> DEFINE n0 == Name(t)  k == arg[t].dir
<1>1. up /\ arg[t].d \in Deployments /\ arg[t].dir \in Dirs
  BY DEF OpenDir, Goto, IInv, CallsFit
<1>2. n0 \in Names
  BY <1>1, PutDir DEF OpenDir
<1>3. HistoryTypes'
  BY <1>1, <1>2 DEF OpenDir, signals, IInv, TypeOK, HistoryTypes
<1>4. TypeOK' /\ CallsFit' /\ DiskFits' /\ StoppedIsEmpty' /\ InstancesHaveApps'
  BY <1>1, <1>3, DirsGrow DEF OpenDir
<1>5. \A n \in Names : \A x \in DOMAIN dirs[n] : Readability(n, x) => Readability(n, x)'
  <2> SUFFICES ASSUME NEW n \in Names, NEW x \in DOMAIN dirs[n], Readability(n, x)
               PROVE  Readability(n, x)'
    OBVIOUS
  <2>1. CASE n = n0 /\ x = k
    BY <2>1 DEF OpenDir, Readability
  <2>2. CASE ~ (n = n0 /\ x = k)
    <3>1. /\ n # n0 => dirs'[n] = dirs[n]
          /\ \A y \in DOMAIN dirs[n0] \ {k} : dirs'[n0][y] = dirs[n0][y]
      BY <1>1, PutDir DEF OpenDir
    <3> HIDE DEF n0, k
    <3>2. dirs'[n][x] = dirs[n][x]
      BY <2>2, <3>1
    <3> QED
      BY <3>2 DEF OpenDir, Readability
  <2> QED
    BY <2>1, <2>2
<1>6. FilesFirst'
  <2>1. ASSUME NEW u \in Tasks, pc'[u] \in {"info", "torn", "insert"}
        PROVE  Readability(Name(u), arg[u].dir)'
    <3>1. pc[u] = pc'[u] /\ arg'[u] = arg[u]
      BY <2>1 DEF OpenDir, Goto, IInv, TypeOK, CallTypes
    <3>2. Name(u) \in Names /\ arg[u].dir \in DOMAIN dirs[Name(u)] /\ Readability(Name(u), arg[u].dir)
      BY <2>1, <3>1, NameInNames DEF IInv, CallsFit, FilesFirst, Name
    <3> QED
      BY <1>5, <3>1, <3>2 DEF Readability, Name
  <2>2. ASSUME NEW d \in DOMAIN apps, NEW x \in Elements(apps[d])
        PROVE  Readability(NameOf[d], x)' \/ <<NameOf[d], x>> \in found
    <3>1. NameOf[d] \in Names /\ x \in DOMAIN dirs[NameOf[d]]
      BY NameInNames DEF IInv, TypeOK, MemoryTypes, IsIdMap
    <3> QED
      BY <1>5, <3>1 DEF IInv, FilesFirst
  <2> QED
    BY <2>1, <2>2 DEF FilesFirst, OpenDir, memory
<1>7. FirstSaveAlone' /\ DurableOnceAcknowledged'
  <2>1. Saves(t, n0)
    BY DEF OpenDir, Goto, Saves
  <2>2. /\ \A u \in Tasks \ {t} : pc'[u] = pc[u]
        /\ pc'[t] = "files" /\ arg' = arg /\ begun' = begun /\ done' = done /\ info' = info
    BY DEF OpenDir, Goto, IInv, TypeOK, CallTypes
  <2>3. \A n \in Names \ {n0} : dirs'[n] = dirs[n]
    BY <1>1, PutDir DEF OpenDir
  <2>4. \A d \in done : NameOf[d] \in Names
    BY NameInNames DEF IInv, TypeOK, HistoryTypes
  <2>5. begun[n0] # 1 \/ \A d \in done : NameOf[d] # n0
    BY <1>2, <2>1 DEF IInv, FirstSaveAlone
  <2>6. DurableOnceAcknowledged'
    BY <2>2, <2>3, <2>4, <2>5 DEF IInv, DurableOnceAcknowledged
  <2>7. FirstSaveAlone'
    BY <1>2, <2>1, <2>2, <2>3 DEF IInv, FirstSaveAlone, Saves, Name
  <2> QED
    BY <2>6, <2>7
<1> QED
  BY <1>4, <1>6, <1>7 DEF IInv

LEMMA WriteFilesStep ==
  ASSUME IInv, NEW t \in Tasks, WriteFiles(t)
  PROVE  IInv'
<1> DEFINE n0 == Name(t)  k == arg[t].dir
<1>1. up /\ arg[t].d \in Deployments /\ arg[t].dir \in Dirs
  BY DEF WriteFiles, Goto, IInv, CallsFit
<1>2. n0 \in Names /\ dirs'[n0][k] = "full"
  BY <1>1, PutDir DEF WriteFiles
<1>3. HistoryTypes'
  BY DEF WriteFiles, history, signals, IInv, TypeOK, HistoryTypes
<1>4. TypeOK' /\ CallsFit' /\ DiskFits' /\ StoppedIsEmpty' /\ InstancesHaveApps'
  BY <1>1, <1>3, DirsGrow DEF WriteFiles
<1>5. \A n \in Names : \A x \in DOMAIN dirs[n] :
         dirs'[n][x] = dirs[n][x] \/ dirs'[n][x] = "full"
  <2>1. /\ \A n \in Names \ {n0} : dirs'[n] = dirs[n]
        /\ \A y \in DOMAIN dirs[n0] \ {k} : dirs'[n0][y] = dirs[n0][y]
    BY <1>1, PutDir DEF WriteFiles
  <2> HIDE DEF n0, k
  <2> QED
    BY <1>2, <2>1
<1>6. overlaid' = overlaid /\ found' = found /\ apps' = apps /\ arg' = arg
  BY DEF WriteFiles, history, memory
<1>7. /\ \A u \in Tasks \ {t} : pc'[u] = pc[u]
      /\ pc'[t] = "info" /\ begun' = begun /\ done' = done /\ info' = info
  BY DEF WriteFiles, Goto, history, IInv, TypeOK, CallTypes
<1>8. FilesFirst'
  <2>1. ASSUME NEW u \in Tasks \ {t}, pc'[u] \in {"info", "torn", "insert"}
        PROVE  Readability(Name(u), arg[u].dir)'
    <3>1. Name(u) \in Names /\ arg[u].dir \in DOMAIN dirs[Name(u)] /\ Readability(Name(u), arg[u].dir)
      BY <1>7, <2>1, NameInNames DEF IInv, CallsFit, FilesFirst, Name
    <3> QED
      BY <1>5, <1>6, <3>1 DEF Readability, Name
  <2>2. Readability(n0, k)'
    BY <1>2, <1>6 DEF Readability, Name
  <2>3. ASSUME NEW d \in DOMAIN apps, NEW x \in Elements(apps[d])
        PROVE  Readability(NameOf[d], x)' \/ <<NameOf[d], x>> \in found
    <3>1. NameOf[d] \in Names /\ x \in DOMAIN dirs[NameOf[d]]
      BY NameInNames DEF IInv, TypeOK, MemoryTypes, IsIdMap
    <3> QED
      BY <1>5, <1>6, <3>1 DEF IInv, FilesFirst, Readability
  <2> QED
    BY <1>6, <2>1, <2>2, <2>3 DEF FilesFirst
<1>9. FirstSaveAlone' /\ DurableOnceAcknowledged'
  <2>1. Saves(t, n0)
    BY DEF WriteFiles, Goto, Saves
  <2>2. \A n \in Names \ {n0} : dirs'[n] = dirs[n]
    BY <1>1, PutDir DEF WriteFiles
  <2>3. \A d \in done : NameOf[d] \in Names
    BY NameInNames DEF IInv, TypeOK, HistoryTypes
  <2>4. begun[n0] # 1 \/ \A d \in done : NameOf[d] # n0
    BY <1>2, <2>1 DEF IInv, FirstSaveAlone
  <2>5. DurableOnceAcknowledged'
    BY <1>7, <2>2, <2>3, <2>4 DEF IInv, DurableOnceAcknowledged
  <2>6. FirstSaveAlone'
    BY <1>2, <1>6, <1>7, <2>1, <2>2 DEF IInv, FirstSaveAlone, Saves, Name
  <2> QED
    BY <2>5, <2>6
<1> QED
  BY <1>4, <1>8, <1>9 DEF IInv

\* The info file of a name changes only in a save under that name, which is
\* then the only one or one of several.
LEMMA InfoStep ==
  ASSUME IInv, NEW t \in Tasks, NEW from \in {"info", "torn"}, NEW to \in {"torn", "insert"},
         Goto(t, from, to), NEW i \in Deployments \cup {Torn},
         info' = [info EXCEPT ![Name(t)] = i],
         i \in Deployments => i = arg[t].d, to = "insert" => i = arg[t].d,
         UNCHANGED <<dirs, up, memory, channel, arg, history>>
  PROVE  IInv'
<1> USE DEF memory, history, signals
<1> DEFINE n0 == Name(t)
<1>1. up /\ arg[t].d \in Deployments /\ n0 \in Names /\ n0 = NameOf[arg[t].d]
  BY NameInNames DEF Goto, IInv, CallsFit, Name
<1>2. /\ \A u \in Tasks \ {t} : pc'[u] = pc[u]
      /\ pc'[t] = to /\ pc[t] = from
  BY DEF Goto, IInv, TypeOK, CallTypes
<1>3. info'[n0] = i /\ \A n \in Names \ {n0} : info'[n] = info[n]
  BY <1>1 DEF IInv, TypeOK, DiskTypes
<1>4. TypeOK'
  <2>1. DiskTypes'
    BY DEF IInv, TypeOK, DiskTypes
  <2>2. MemoryTypes' /\ HistoryTypes'
    BY DEF IInv, TypeOK, MemoryTypes, HistoryTypes
  <2>3. CallTypes'
    BY DEF Goto, IInv, TypeOK, CallTypes, Progress
  <2> QED
    BY <2>1, <2>2, <2>3 DEF IInv, TypeOK
<1>5. CallsFit'
  BY <1>1, <1>2 DEF IInv, CallsFit, Name
<1>6. DiskFits'
  BY <1>1, <1>3 DEF IInv, DiskFits
<1>7. StoppedIsEmpty' /\ InstancesHaveApps'
  BY DEF IInv, StoppedIsEmpty, InstancesHaveApps
<1>8. FilesFirst'
  BY <1>2 DEF IInv, FilesFirst, Readability, Name
<1>9. FirstSaveAlone' /\ DurableOnceAcknowledged'
  <2>1. Saves(t, n0)
    BY <1>2 DEF Saves
  <2>2. \A d \in done : NameOf[d] \in Names
    BY NameInNames DEF IInv, TypeOK, HistoryTypes
  <2>3. begun[n0] # 1 \/ \A d \in done : NameOf[d] # n0
    BY <1>1, <2>1 DEF IInv, FirstSaveAlone
  <2>4. DurableOnceAcknowledged'
    BY <1>3, <2>2, <2>3 DEF IInv, DurableOnceAcknowledged
  <2>5. FirstSaveAlone'
    BY <1>1, <1>2, <1>3, <2>1 DEF IInv, FirstSaveAlone, Saves, Name
  <2> QED
    BY <2>4, <2>5
<1> QED
  BY <1>4, <1>5, <1>6, <1>7, <1>8, <1>9 DEF IInv

LEMMA InfoSteps ==
  ASSUME IInv, NEW t \in Tasks, TruncateInfo(t) \/ FillInfo(t)
  PROVE  IInv'
<1>1. CASE TruncateInfo(t)
  BY <1>1, InfoStep, DatabaseConstants DEF TruncateInfo
<1>2. CASE FillInfo(t)
  <2>1. arg[t].d \in Deployments
    BY <1>2 DEF FillInfo, Goto, IInv, CallsFit
  <2> QED
    BY <1>2, <2>1, InfoStep DEF FillInfo
<1> QED
  BY <1>1, <1>2

(***************************************************************************)
(* Steps on the map in memory.                                             *)
(***************************************************************************)
\* add_app ends: the version that it has saved is the last one of its id.
LEMMA InsertStep ==
  ASSUME IInv, NEW t \in Tasks, Insert(t)
  PROVE  IInv'
<1> USE DEF disk, signals
<1> DEFINE d0 == arg[t].d  k == arg[t].dir  n0 == Name(t)
<1>1. /\ up /\ d0 \in Deployments /\ n0 \in Names /\ n0 = NameOf[d0]
      /\ k \in Dirs /\ k \in DOMAIN dirs[n0]
  BY NameInNames DEF Insert, Goto, IInv, CallsFit, Name
<1>2. /\ \A u \in Tasks \ {t} : pc'[u] = pc[u] /\ arg'[u] = arg[u]
      /\ pc[t] = "insert" /\ pc'[t] \in {"idle", "push"}
      /\ pc'[t] = "push" => arg'[t] = arg[t]
  BY DEF Insert, Goto, IInv, TypeOK, CallTypes
<1>3. /\ IsIdMap(apps', Deployments, Seq(Dirs))
      /\ DOMAIN apps' = DOMAIN apps \cup {d0}
      /\ d0 \in DOMAIN apps => apps'[d0] = apps[d0] \o <<k>>
      /\ d0 \notin DOMAIN apps => apps'[d0] = <<k>>
      /\ \A x \in DOMAIN apps \ {d0} : apps'[x] = apps[x]
  <2> DEFINE items == <<k>>
  <2>1. IsIdMap(apps, Deployments, Seq(Dirs)) /\ apps' = AppendAt(apps, d0, items)
    BY DEF Insert, IInv, TypeOK, MemoryTypes
  <2>2. items \in Seq(Dirs) /\ d0 \in Deployments
    BY <1>1
  <2> SUFFICES /\ IsIdMap(apps', Deployments, Seq(Dirs))
               /\ DOMAIN apps' = DOMAIN apps \cup {d0}
               /\ d0 \in DOMAIN apps => apps'[d0] = apps[d0] \o items
               /\ d0 \notin DOMAIN apps => apps'[d0] = items
               /\ \A x \in DOMAIN apps \ {d0} : apps'[x] = apps[x]
    OBVIOUS
  <2> HIDE DEF d0, items
  <2>3. IsIdMap(apps', Deployments, Seq(Dirs))
    BY <2>1, <2>2, AppendAtMap
  <2> QED
    BY <2>1, <2>3 DEF AppendAt, Put
<1>4. /\ apps'[d0] # <<>>
      /\ d0 \in DOMAIN apps => Elements(apps'[d0]) = Elements(apps[d0]) \cup {k}
      /\ d0 \notin DOMAIN apps => Elements(apps'[d0]) = {k}
  <2>1. CASE d0 \in DOMAIN apps
    <3>1. apps[d0] \in Seq(Dirs) /\ <<k>> \in Seq(Dirs)
      <4>1. apps[d0] \in Seq(Dirs)
        BY <2>1 DEF IInv, TypeOK, MemoryTypes, IsIdMap
      <4>2. <<k>> \in Seq(Dirs)
        BY <1>1
      <4> QED
        BY <4>1, <4>2
    <3>2. Elements(apps'[d0]) = Elements(apps[d0]) \cup {k}
      <4>1. Elements(apps[d0] \o <<k>>) = Elements(apps[d0]) \cup Elements(<<k>>)
        BY <3>1, ConcatElements, ZenonT(60)
      <4> QED
        BY <1>3, <2>1, <4>1, SingletonElements
    <3>3. Elements(<<>>) = {}
      BY DEF Elements
    <3> QED
      BY <2>1, <3>2, <3>3
  <2>2. CASE d0 \notin DOMAIN apps
    BY <1>3, <2>2, SingletonElements
  <2> QED
    BY <2>1, <2>2
<1>5. TypeOK'
  <2>1. MemoryTypes'
    BY <1>1, <1>3, <1>4, ZenonT(60) DEF Insert, IInv, TypeOK, MemoryTypes
  <2>2. DiskTypes'
    BY DEF Insert, IInv, TypeOK, DiskTypes
  <2>3. CallTypes'
    BY NoArgType DEF Insert, Goto, IInv, TypeOK, CallTypes, Progress
  <2>4. HistoryTypes'
    BY <1>1 DEF Insert, IInv, TypeOK, HistoryTypes
  <2> QED
    BY <2>1, <2>2, <2>3, <2>4 DEF Insert, IInv, TypeOK
<1>6. CallsFit'
  BY <1>1, <1>2, <1>3 DEF Insert, IInv, CallsFit, Name
<1>7. DiskFits' /\ StoppedIsEmpty' /\ InstancesHaveApps'
  BY <1>1, <1>3 DEF Insert, IInv, DiskFits, StoppedIsEmpty, InstancesHaveApps
<1>8. FilesFirst'
  <2>1. Readability(n0, k)
    BY <1>2 DEF IInv, FilesFirst
  <2>2. \A u \in Tasks : pc'[u] \in {"info", "torn", "insert"} => Readability(Name(u), arg[u].dir)'
    BY <1>2 DEF Insert, IInv, FilesFirst, Readability, Name
  <2>3. ASSUME NEW d \in DOMAIN apps', NEW x \in Elements(apps'[d])
        PROVE  Readability(NameOf[d], x) \/ <<NameOf[d], x>> \in found
    BY <1>1, <1>3, <1>4, <2>1 DEF IInv, FilesFirst
  <2> QED
    BY <2>2, <2>3 DEF Insert, FilesFirst, Readability
<1>9. FirstSaveAlone' /\ DurableOnceAcknowledged'
  <2>1. Saves(t, n0)
    BY <1>2 DEF Saves
  <2>2. begun[n0] = 1 =>
          /\ \A u \in Tasks : Saves(u, n0) => u = t
          /\ \A d \in done : NameOf[d] # n0
          /\ dirs[n0][k] = "full" /\ info[n0] = d0
    BY <1>1, <1>2, <2>1 DEF IInv, FirstSaveAlone
  <2>3. \A u \in Tasks, n \in Names : Saves(u, n)' => Saves(u, n) /\ u # t
    BY <1>2 DEF Saves, Name
  <2>4. begun[n0] # 0
    BY <1>1, <2>1 DEF IInv, FirstSaveAlone
  <2>5. DurableOnceAcknowledged'
    BY <1>1, <2>2 DEF Insert, IInv, DurableOnceAcknowledged
  <2>6. FirstSaveAlone'
    BY <1>1, <1>2, <2>2, <2>3, <2>4 DEF Insert, IInv, FirstSaveAlone
  <2> QED
    BY <2>5, <2>6
<1> QED
  BY <1>5, <1>6, <1>7, <1>8, <1>9 DEF IInv

LEMMA PushInstanceStep ==
  ASSUME IInv, NEW t \in Tasks, PushInstance(t)
  PROVE  IInv'
<1> USE DEF disk
<1>1. up /\ arg[t].d \in Deployments /\ arg[t].d \in DOMAIN apps
  BY DEF PushInstance, Finish, Goto, IInv, CallsFit
<1>2. /\ \A u \in Tasks \ {t} : pc'[u] = pc[u] /\ arg'[u] = arg[u]
      /\ pc[t] = "push" /\ pc'[t] \in {"idle", "send"}
      /\ pc'[t] = "send" => arg'[t] = arg[t]
  BY DEF PushInstance, Finish, Goto, IInv, TypeOK, CallTypes
<1>3. instances' = Append(instances, arg[t].d) /\ instances \in Seq(Deployments)
  BY DEF PushInstance, IInv, TypeOK, MemoryTypes
<1>4. /\ instances' \in Seq(Deployments)
      /\ Elements(instances') = Elements(instances) \cup {arg[t].d}
  <2>1. instances' = instances \o <<arg[t].d>>
    BY <1>1, <1>3, AppendIsConcat
  <2>2. <<arg[t].d>> \in Seq(Deployments)
    BY <1>1
  <2>3. /\ instances \o <<arg[t].d>> \in Seq(Deployments)
        /\ Elements(instances \o <<arg[t].d>>) = Elements(instances) \cup Elements(<<arg[t].d>>)
    BY <1>3, <2>2, ConcatElements, ConcatProperties, ZenonT(60)
  <2> QED
    BY <2>1, <2>3, SingletonElements
<1>5. TypeOK'
  <2>1. DiskTypes' /\ HistoryTypes'
    BY DEF PushInstance, IInv, TypeOK, DiskTypes, HistoryTypes
  <2>2. MemoryTypes'
    BY <1>4 DEF PushInstance, IInv, TypeOK, MemoryTypes
  <2>3. CallTypes'
    BY NoArgType DEF PushInstance, Finish, Goto, IInv, TypeOK, CallTypes, Progress
  <2> QED
    BY <2>1, <2>2, <2>3 DEF PushInstance, IInv, TypeOK
<1>6. CallsFit'
  BY <1>1, <1>2 DEF PushInstance, IInv, CallsFit, Name
<1>7. DiskFits' /\ StoppedIsEmpty' /\ InstancesHaveApps' /\ DurableOnceAcknowledged'
  BY <1>1, <1>4 DEF PushInstance, IInv, DiskFits, StoppedIsEmpty, InstancesHaveApps,
       DurableOnceAcknowledged
<1>8. FilesFirst' /\ FirstSaveAlone'
  BY <1>2 DEF PushInstance, IInv, FilesFirst, FirstSaveAlone, Readability, Saves, Name
<1> QED
  BY <1>5, <1>6, <1>7, <1>8 DEF IInv

(***************************************************************************)
(* The runner, and the process.                                            *)
(***************************************************************************)
LEMMA RunnerReceivesStep ==
  ASSUME IInv, RunnerReceives
  PROVE  IInv'
<1> USE DEF RunnerReceives, disk, memory
<1>1. TypeOK'
  <2>1. DiskTypes' /\ MemoryTypes' /\ CallTypes'
    BY DEF IInv, TypeOK, DiskTypes, MemoryTypes, CallTypes
  <2>2. HistoryTypes'
    BY DEF IInv, TypeOK, HistoryTypes
  <2> QED
    BY <2>1, <2>2 DEF IInv, TypeOK
<1>2. CallsFit' /\ DiskFits' /\ StoppedIsEmpty' /\ InstancesHaveApps' /\ DurableOnceAcknowledged'
  BY DEF IInv, CallsFit, DiskFits, StoppedIsEmpty, InstancesHaveApps, DurableOnceAcknowledged, Name
<1>3. FilesFirst' /\ FirstSaveAlone'
  BY DEF IInv, FilesFirst, FirstSaveAlone, Readability, Saves, Name
<1> QED
  BY <1>1, <1>2, <1>3 DEF IInv, TypeOK

\* What is on the disk at a crash is what the next process finds there.
LEMMA CrashStep ==
  ASSUME IInv, Crash
  PROVE  IInv'
<1> USE DEF Crash, disk
<1>1. DOMAIN apps' = {} /\ IsIdMap(apps', Deployments, Seq(Dirs))
  BY EmptyMapIsMap
<1>2. DiskTypes' /\ HistoryTypes'
  <2>1. DiskTypes'
    BY DEF IInv, TypeOK, DiskTypes
  <2>2. crashes' \in Nat
    BY DEF IInv, TypeOK, HistoryTypes
  <2>3. HistoryTypes'
    BY <2>2 DEF IInv, TypeOK, HistoryTypes
  <2> QED
    BY <2>1, <2>3
<1>3. MemoryTypes'
  BY <1>1, EmptySeq DEF MemoryTypes
<1>4. CallTypes'
  BY NoArgType DEF CallTypes, Progress
<1>5. CallsFit'
  BY DEF CallsFit
<1>6. DiskFits' /\ StoppedIsEmpty' /\ DurableOnceAcknowledged'
  BY DEF IInv, DiskFits, StoppedIsEmpty, DurableOnceAcknowledged
<1>7. InstancesHaveApps'
  BY DEF InstancesHaveApps, Elements
<1>8. FilesFirst'
  BY <1>1 DEF FilesFirst
<1>9. FirstSaveAlone'
  BY DEF IInv, FirstSaveAlone, Saves
<1> QED
  BY <1>2, <1>3, <1>4, <1>5, <1>6, <1>7, <1>8, <1>9 DEF IInv, TypeOK

\* The versions of an id are the directories under its name, in any order.
LEMMA VersionsOf ==
  ASSUME NEW d, IsFiniteSet(DOMAIN dirs[NameOf[d]]), DOMAIN dirs[NameOf[d]] # {},
         NEW v \in Versions(d)
  PROVE  /\ v \in Seq(DOMAIN dirs[NameOf[d]])
         /\ v # <<>>
         /\ Elements(v) \subseteq DOMAIN dirs[NameOf[d]]
<1> DEFINE S == DOMAIN dirs[NameOf[d]]
<1>1. Cardinality(S) \in Nat \ {0}
  BY FS_CardinalityType, FS_EmptySet
<1>2. v \in [1 .. Cardinality(S) -> S]
  BY DEF Versions, SetToSeqs
<1> HIDE DEF S
<1>3. v \in Seq(S) /\ Len(v) = Cardinality(S)
  BY <1>1, <1>2
<1>4. v # <<>>
  BY <1>1, <1>3
<1>5. Elements(v) \subseteq S
  BY <1>2 DEF Elements
<1> QED
  BY <1>3, <1>4, <1>5 DEF S

\* default() reads the whole store before any call is served.
LEMMA StartStep ==
  ASSUME IInv, Start
  PROVE  IInv'
<1> USE DEF Start, disk, signals
<1> DEFINE ids == {info[n] : n \in {x \in Names : Present(x)}}
<1> PICK m \in [ids -> UNION {Versions(d) : d \in ids}] :
           (\A d \in ids : m[d] \in Versions(d)) /\ apps' = m
  OBVIOUS
<1>1. \A d \in ids : d \in Deployments /\ NameOf[d] \in Names /\ DOMAIN dirs[NameOf[d]] # {}
  BY DEF Readable, Present, IInv, DiskFits
<1>2. \A d \in ids : IsFiniteSet(DOMAIN dirs[NameOf[d]]) /\ DOMAIN dirs[NameOf[d]] \subseteq Dirs
  BY <1>1 DEF IInv, DiskFits, TypeOK, DiskTypes, IsIdMap
<1>3. \A d \in ids : /\ m[d] \in Seq(Dirs) /\ m[d] # <<>>
                    /\ Elements(m[d]) \subseteq DOMAIN dirs[NameOf[d]]
  <2> TAKE d \in ids
  <2>1. /\ m[d] \in Seq(DOMAIN dirs[NameOf[d]]) /\ m[d] # <<>>
        /\ Elements(m[d]) \subseteq DOMAIN dirs[NameOf[d]]
    BY <1>1, <1>2, VersionsOf
  <2> QED
    BY <1>2, <2>1, SeqMonotonic
<1> HIDE DEF ids
<1>4. DOMAIN apps' = ids /\ IsIdMap(apps', Deployments, Seq(Dirs))
  BY <1>1, <1>3 DEF IsIdMap
<1>5. \A t \in Tasks : pc[t] = "idle"
  BY DEF IInv, CallsFit
<1>6. TypeOK'
  <2>1. MemoryTypes'
    BY <1>3, <1>4 DEF IInv, TypeOK, MemoryTypes
  <2>2. DiskTypes' /\ CallTypes'
    BY DEF IInv, TypeOK, DiskTypes, CallTypes
  <2>3. found' \subseteq Names \X Dirs
    <3>1. \A n \in Names : DOMAIN dirs[n] \subseteq Dirs
      BY DEF IInv, TypeOK, DiskTypes, IsIdMap
    <3> QED
      BY <3>1
  <2>4. HistoryTypes'
    BY <2>3 DEF IInv, TypeOK, HistoryTypes
  <2> QED
    BY <2>1, <2>2, <2>4 DEF TypeOK
<1>7. CallsFit' /\ DiskFits' /\ StoppedIsEmpty' /\ DurableOnceAcknowledged'
  BY <1>5 DEF IInv, CallsFit, DiskFits, StoppedIsEmpty, DurableOnceAcknowledged
<1>8. InstancesHaveApps'
  BY DEF IInv, StoppedIsEmpty, InstancesHaveApps, Elements
<1>9. FilesFirst'
  <2>1. ASSUME NEW d \in ids, NEW x \in Elements(m[d])
        PROVE  <<NameOf[d], x>> \in found'
    <3>1. NameOf[d] \in Names /\ x \in DOMAIN dirs[NameOf[d]]
      BY <1>1, <1>3
    <3> QED
      BY <3>1
  <2> QED
    BY <1>4, <1>5, <2>1 DEF FilesFirst
<1>10. FirstSaveAlone'
  BY <1>5 DEF IInv, FirstSaveAlone, Saves
<1> QED
  BY <1>6, <1>7, <1>8, <1>9, <1>10 DEF IInv

(***************************************************************************)
(* The theorems.                                                           *)
(***************************************************************************)
\* Every step of the database preserves the invariant.
LEMMA NextIInv ==
  ASSUME IInv, [Next]_vars
  PROVE  IInv'
<1>1. CASE UNCHANGED vars
  <2> USE <1>1 DEF vars, disk, memory, history, signals
  <2>1. DiskTypes' /\ MemoryTypes' /\ CallTypes' /\ HistoryTypes'
    BY DEF IInv, TypeOK, DiskTypes, MemoryTypes, CallTypes, HistoryTypes
  <2>2. CallsFit' /\ DiskFits' /\ StoppedIsEmpty' /\ InstancesHaveApps' /\ DurableOnceAcknowledged'
    BY DEF IInv, CallsFit, DiskFits, StoppedIsEmpty, InstancesHaveApps, DurableOnceAcknowledged, Name
  <2>3. FilesFirst' /\ FirstSaveAlone'
    BY DEF IInv, FilesFirst, FirstSaveAlone, Readability, Saves, Name
  <2> QED
    BY <2>1, <2>2, <2>3 DEF IInv, TypeOK
<1>2. ASSUME NEW t \in Tasks, Step(t)
      PROVE  IInv'
  BY <1>2, CheckAppStep, DownloadStep, OpenDirStep, WriteFilesStep, InfoSteps, InsertStep,
     PushInstanceStep, EndSteps DEF Step
<1> QED
  BY <1>1, <1>2, RunnerReceivesStep, CrashStep, StartStep, CallStep, EndSteps DEF Next

THEOREM Invariance == Spec => []IInv
BY InitIInv, NextIInv, PTL DEF Spec

\* Types; no application in memory is without a version, and no version without
\* its directory.
THEOREM TypeCorrect == Spec => []TypeOK
BY Invariance, PTL DEF IInv

\* However the checks, saves and notes of calls interleave, an instance is noted
\* only for an application that is registered.
THEOREM InstancesHaveAppsAlways == Spec => []InstancesHaveApps
BY Invariance, PTL DEF IInv

\* Once add_app has returned, neither a crash at any point nor any number of other
\* calls takes the application or its info file away, but for a second save under
\* its name.
THEOREM DurableOnceAcknowledgedAlways == Spec => []DurableOnceAcknowledged
BY Invariance, PTL DEF IInv

\* The version that common_services opens was written completely, if it was
\* saved by this process and no save has been made over it.
THEOREM ServableUnlessFoundAlways == Spec => []ServableUnlessFound
<1>1. IInv => ServableUnlessFound
  <2> SUFFICES ASSUME IInv, NEW n \in Names, NEW d \in Lookup(n)
               PROVE  CanGet(d) \/ <<n, Last(apps[d])>> \in found \cup overlaid
    BY DEF ServableUnlessFound
  <2>1. d \in DOMAIN apps /\ NameOf[d] = n
    BY DEF Lookup
  <2>2. apps[d] \in Seq(Dirs) /\ apps[d] # <<>>
    BY <2>1 DEF IInv, TypeOK, MemoryTypes, IsIdMap
  <2>3. Last(apps[d]) \in Elements(apps[d])
    BY <2>2, LastElement DEF Last
  <2> QED
    BY <2>1, <2>3 DEF IInv, FilesFirst, Readability, CanGet
<1> QED
  BY <1>1, Invariance, PTL
=============================================================================
