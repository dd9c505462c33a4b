------------------------ MODULE DeploymentDatabase ------------------------
(***************************************************************************)
(* The store of applications on one node: a directory per application name *)
(* with one subdirectory per saved version and an info file, and the map   *)
(* of applications that the process keeps beside it.                       *)
(*                                                                         *)
(* The map is behind a mutex that is never held across an await, so each   *)
(* use of it is one step.  Nothing guards the files: several calls write   *)
(* at once, and the process may die between any two writes.                *)
(*                                                                         *)
(* The server at the other end of a download is outside: it answers with   *)
(* an archive that unpacks, with anything else, or not at all.  The        *)
(* receiver of the state channel is ServerRunner.                          *)
(***************************************************************************)
EXTENDS IdMaps, SequencesExt

CONSTANTS
  Tasks,        \* slots for calls in flight
  Deployments,  \* deployment ids
  NameOf,       \* the name each deployment was given
  Times,        \* the seconds on the clock
  None, Torn,   \* no info file; an info file that does not decode
  MaxCalls,     \* bound: calls
  MaxCrashes    \* bound: crashes

ASSUME DatabaseConstants ==
  /\ NameOf = [d \in Deployments |-> NameOf[d]]
  /\ {None, Torn} \cap Deployments = {}
  /\ MaxCalls \in Nat /\ MaxCrashes \in Nat

Names == {NameOf[d] : d \in Deployments}

\* SavedDeployment: the directory name is made of the second and the hash.
Dirs == [at : Times, tgz : {"archive", "garbage"}]

VARIABLES
  info,       \* name -> what apps/<name>/info.laqista holds
  dirs,       \* name -> the subdirectories, "full" when every file is written
  up,         \* the process is running
  apps,       \* inner.apps: id -> the versions saved (the info is the id's own)
  instances,  \* inner.instances
  channel,    \* StateCommand::Keep messages in the state channel
  pc, arg,    \* progress of each call; its operation, deployment, directory
  found,      \* <<name, dir>>: read from the disk by the running process
  overlaid,   \* <<name, dir>>: written to by a second save
  unheard,    \* an instance was noted since the runner last received one
  abandoned,  \* a caller left while its instance waited for the channel
  done,       \* deployments whose add_app returned Ok, ever
  begun,      \* name -> saves begun, ever
  calls, crashes

disk == <<info, dirs>>
memory == <<apps, instances>>
signals == <<unheard, abandoned>>
history == <<found, overlaid, signals, done, begun, calls, crashes>>
vars == <<disk, up, memory, channel, pc, arg, history>>

Progress == {"idle", "check", "download", "open", "files", "info", "torn",
             "insert", "push", "send"}

NoArg == [op |-> "add_app", d |-> None, dir |-> None]

Init ==
  /\ info = [n \in Names |-> None]
  /\ dirs = [n \in Names |-> EmptyMap]
  /\ up = TRUE
  /\ apps = EmptyMap
  /\ instances = <<>>
  /\ channel = 0
  /\ pc = [t \in Tasks |-> "idle"]
  /\ arg = [t \in Tasks |-> NoArg]
  /\ found = {}
  /\ overlaid = {}
  /\ unheard = FALSE
  /\ abandoned = FALSE
  /\ done = {}
  /\ begun = [n \in Names |-> 0]
  /\ calls = 0
  /\ crashes = 0

Goto(t, from, to) ==
  /\ pc[t] = from
  /\ pc' = [pc EXCEPT ![t] = to]

Name(t) == NameOf[arg[t].d]

(***************************************************************************)
(* Calls: deploy calls add_app, spawn calls add_instance.                  *)
(***************************************************************************)
Call(t, op, d) ==
  /\ up
  /\ calls < MaxCalls
  /\ calls' = calls + 1
  /\ Goto(t, "idle", IF op = "add_app" THEN "download" ELSE "check")
  /\ arg' = [arg EXCEPT ![t] = [NoArg EXCEPT !.op = op, !.d = d]]
  /\ UNCHANGED <<disk, up, memory, channel, found, overlaid, signals, done, begun, crashes>>

\* A changed form: add_instance takes the app to be there.
CheckApp_trusting(t) ==
  /\ Goto(t, "check", "push")
  /\ UNCHANGED <<disk, up, memory, channel, arg, history>>

\* add_instance asks for the app under one lock and acts on the answer later.
CheckApp(t) ==
  /\ Goto(t, "check", IF arg[t].d \in DOMAIN apps THEN "push" ELSE "download")
  /\ UNCHANGED <<disk, up, memory, channel, arg, history>>

(***************************************************************************)
(* add_app: download, save, insert.                                        *)
(***************************************************************************)
\* The status of the response is not looked at: an error page is a body, too.
Download(t) ==
  /\ Goto(t, "download", "open")
  /\ \E dir \in Dirs : arg' = [arg EXCEPT ![t].dir = dir]
  /\ begun' = [begun EXCEPT ![Name(t)] = @ + 1]
  /\ UNCHANGED <<disk, up, memory, channel, found, overlaid, signals, done, calls, crashes>>

\* open_dir, and the first file truncated if the directory was there.
OpenDir(t) ==
  /\ Goto(t, "open", "files")
  /\ dirs' = [dirs EXCEPT ![Name(t)] = Put(@, arg[t].dir, "partial")]
  /\ overlaid' = IF arg[t].dir \in DOMAIN dirs[Name(t)]
                   THEN overlaid \cup {<<Name(t), arg[t].dir>>}
                   ELSE overlaid
  /\ UNCHANGED <<info, up, memory, channel, arg, found, signals, done, begun, calls, crashes>>

\* Changed forms: an error while unpacking is not passed on; the app is
\* inserted without its info file.
WriteFiles_errorDropped(t) ==
  /\ Goto(t, "files", "info")
  /\ dirs' = [dirs EXCEPT ![Name(t)] =
                Put(@, arg[t].dir, IF arg[t].dir.tgz = "archive" THEN "full" ELSE "partial")]
  /\ UNCHANGED <<info, up, memory, channel, arg, history>>

WriteFiles_noInfo(t) ==
  /\ Goto(t, "files", "insert")
  /\ arg[t].dir.tgz = "archive"
  /\ dirs' = [dirs EXCEPT ![Name(t)] = Put(@, arg[t].dir, "full")]
  /\ UNCHANGED <<info, up, memory, channel, arg, history>>

WriteFiles(t) ==
  /\ Goto(t, "files", "info")
  /\ arg[t].dir.tgz = "archive"
  /\ dirs' = [dirs EXCEPT ![Name(t)] = Put(@, arg[t].dir, "full")]
  /\ UNCHANGED <<info, up, memory, channel, arg, history>>

\* fs::write truncates the file, then fills it.
TruncateInfo(t) ==
  /\ Goto(t, "info", "torn")
  /\ info' = [info EXCEPT ![Name(t)] = Torn]
  /\ UNCHANGED <<dirs, up, memory, channel, arg, history>>

FillInfo(t) ==
  /\ Goto(t, "torn", "insert")
  /\ info' = [info EXCEPT ![Name(t)] = arg[t].d]
  /\ UNCHANGED <<dirs, up, memory, channel, arg, history>>

\* Whatever fails leaves behind what was written up to there.
AddAppFails(t) ==
  /\ \E from \in {"download", "open", "files", "info", "torn"} : Goto(t, from, "idle")
  /\ arg' = [arg EXCEPT ![t] = NoArg]
  /\ UNCHANGED <<disk, up, memory, channel, history>>

Insert(t) ==
  /\ Goto(t, "insert", IF arg[t].op = "add_app" THEN "idle" ELSE "push")
  /\ apps' = AppendAt(apps, arg[t].d, <<arg[t].dir>>)
  /\ done' = done \cup {arg[t].d}
  /\ arg' = IF arg[t].op = "add_app" THEN [arg EXCEPT ![t] = NoArg] ELSE arg
  /\ UNCHANGED <<disk, up, instances, channel, found, overlaid, signals, begun, calls, crashes>>

(***************************************************************************)
(* The rest of add_instance: note the instance, ask for a restart of the   *)
(* service.  The channel holds one command; send waits for room.           *)
(***************************************************************************)
Finish(t, from) == Goto(t, from, "idle") /\ arg' = [arg EXCEPT ![t] = NoArg]

\* A changed form: the instance is noted and nobody told.
PushInstance_silent(t) ==
  /\ Finish(t, "push")
  /\ instances' = Append(instances, arg[t].d)
  /\ unheard' = TRUE
  /\ UNCHANGED <<disk, up, apps, channel, found, overlaid, abandoned, done, begun, calls, crashes>>

\* The push and the first attempt to send are not separated by a wait: a call
\* stays here only if the channel is full or others wait for it already.
PushInstance(t) ==
  /\ instances' = Append(instances, arg[t].d)
  /\ unheard' = TRUE
  /\ IF channel = 0 /\ \A u \in Tasks : pc[u] # "send"
       THEN Finish(t, "push") /\ channel' = 1
       ELSE Goto(t, "push", "send") /\ UNCHANGED <<arg, channel>>
  /\ UNCHANGED <<disk, up, apps, found, overlaid, abandoned, done, begun, calls, crashes>>

\* A changed form: the channel has no capacity limit.
SendKeep_unbounded(t) ==
  /\ Finish(t, "send")
  /\ channel' = channel + 1
  /\ UNCHANGED <<disk, up, memory, history>>

SendKeep(t) ==
  /\ channel = 0
  /\ Finish(t, "send")
  /\ channel' = 1
  /\ UNCHANGED <<disk, up, memory, history>>

\* tonic drops the handler of a caller that is gone, wherever it waits; the
\* steps of save do not wait.
CallerLeaves(t) ==
  /\ \E from \in {"check", "download", "insert", "push", "send"} : Finish(t, from)
  /\ abandoned' = (abandoned \/ pc[t] = "send")
  /\ UNCHANGED <<disk, up, memory, channel, found, overlaid, unheard, done, begun, calls, crashes>>

RunnerReceives ==
  /\ channel = 1
  /\ channel' = 0
  /\ unheard' = FALSE
  /\ UNCHANGED <<disk, up, memory, pc, arg, found, overlaid, abandoned, done, begun, calls, crashes>>

(***************************************************************************)
(* The process stops at any point and is started again.                    *)
(***************************************************************************)
Crash ==
  /\ up
  /\ crashes < MaxCrashes
  /\ crashes' = crashes + 1
  /\ up' = FALSE
  /\ apps' = EmptyMap
  /\ instances' = <<>>
  /\ channel' = 0
  /\ pc' = [t \in Tasks |-> "idle"]
  /\ arg' = [t \in Tasks |-> NoArg]
  /\ found' = {}
  /\ unheard' = FALSE
  /\ abandoned' = FALSE
  /\ UNCHANGED <<disk, overlaid, done, begun, calls>>

Present(n) == DOMAIN dirs[n] # {}

\* read_apps gives up on the first directory whose info is missing or torn,
\* and default() unwraps.
Readable == \A n \in Names : Present(n) => info[n] \in Deployments

\* Every subdirectory counts as a version, in the order read_dir lists them.
\* Of the ids that shared a name only the one in the info file comes back.
Versions(d) == SetToSeqs(DOMAIN dirs[NameOf[d]])

Start ==
  /\ ~ up
  /\ Readable
  /\ up' = TRUE
  /\ LET ids == {info[n] : n \in {x \in Names : Present(x)}}
     IN  \E m \in [ids -> UNION {Versions(d) : d \in ids}] :
           /\ \A d \in ids : m[d] \in Versions(d)
           /\ apps' = m
  /\ found' = UNION {{n} \X DOMAIN dirs[n] : n \in Names}
  /\ UNCHANGED <<disk, instances, channel, pc, arg, overlaid, signals, done, begun, calls, crashes>>

Step(t) ==
  \/ CheckApp(t)
  \/ Download(t)     \/ OpenDir(t)   \/ WriteFiles(t)
  \/ TruncateInfo(t) \/ FillInfo(t)  \/ AddAppFails(t) \/ Insert(t)
  \/ PushInstance(t) \/ SendKeep(t)

Next ==
  \/ RunnerReceives \/ Crash \/ Start
  \/ \E t \in Tasks :
       \/ \E d \in Deployments, op \in {"add_app", "add_instance"} : Call(t, op, d)
       \/ CallerLeaves(t) \/ Step(t)

Spec == Init /\ [][Next]_vars

\* Downloads end, tasks run, and the runner comes back to the channel.
FairSpec == Spec /\ WF_vars(RunnerReceives) /\ \A t \in Tasks : WF_vars(Step(t))
-----------------------------------------------------------------------------
(***************************************************************************)
(* Properties.                                                             *)
(***************************************************************************)
Lookup(n) == {d \in DOMAIN apps : NameOf[d] = n}

\* get reads the last version of the list.
CanGet(d) == dirs[NameOf[d]][Last(apps[d])] = "full"

DiskTypes ==
  /\ info \in [Names -> Deployments \cup {None, Torn}]
  /\ dirs = [n \in Names |-> dirs[n]]
  /\ \A n \in Names : IsIdMap(dirs[n], Dirs, {"partial", "full"})

MemoryTypes ==
  /\ IsIdMap(apps, Deployments, Seq(Dirs))
  /\ \A d \in DOMAIN apps : /\ apps[d] # <<>>
                           /\ Elements(apps[d]) \subseteq DOMAIN dirs[NameOf[d]]
  /\ instances \in Seq(Deployments)

CallTypes ==
  /\ channel \in 0 .. 1
  /\ pc \in [Tasks -> Progress]
  /\ arg \in [Tasks -> [op  : {"add_app", "add_instance"},
                       d   : Deployments \cup {None},
                       dir : Dirs \cup {None}]]

HistoryTypes ==
  /\ found \subseteq Names \X Dirs /\ overlaid \subseteq Names \X Dirs
  /\ done \subseteq Deployments
  /\ begun \in [Names -> Nat]
  /\ unheard \in BOOLEAN /\ abandoned \in BOOLEAN
  /\ calls \in Nat /\ crashes \in Nat

\* Types; every app in memory has a version, and its versions are on disk, so
\* "Deployment not found for app" cannot happen; the channel holds one command.
TypeOK ==
  /\ up \in BOOLEAN
  /\ DiskTypes /\ MemoryTypes /\ CallTypes /\ HistoryTypes

\* An instance is only noted for an application that is registered, although
\* the check, the save and the note are under different locks.
InstancesHaveApps == Elements(instances) \subseteq DOMAIN apps

\* Whatever saves, failures and crashes came before: what common_services
\* looks up by name it can read.  There are two exceptions: a version that was
\* read from the disk at the start, where a crash or a failed save may have left
\* half of it, and one that a second save of the same archive in the same second
\* has written over.
ServableUnlessFound ==
  up => \A n \in Names : \A d \in Lookup(n) :
          CanGet(d) \/ <<n, Last(apps[d])>> \in found \cup overlaid

\* An application whose add_app returned is on disk with its info, ready for
\* the next start, as long as no second save under its name was begun.
DurableOnceAcknowledged ==
  \A d \in done :
    begun[NameOf[d]] = 1 =>
      /\ info[NameOf[d]] = d
      /\ \E x \in DOMAIN dirs[NameOf[d]] : dirs[NameOf[d]][x] = "full"

\* Every instance noted makes the runner restart the service, though the channel
\* has room for one command only and one command stands for any number of
\* instances - unless a caller left while it waited for the channel.
InstancesSignalled == unheard ~> (~ unheard \/ abandoned)

\* "Self::read_dir(root, tx).unwrap()" (database.rs:65): whatever a process
\* that stopped has left on the disk, the next one can read.
StartSucceeds == ~ up => Readable
-----------------------------------------------------------------------------
(***************************************************************************)
(* The inductive invariant: how far each save has come.                    *)
(***************************************************************************)
\* A call has the arguments that its code reads, and the directory it writes to
\* once it was made.
CallsFit ==
  \A t \in Tasks :
    /\ pc[t] # "idle" => up /\ arg[t].d \in Deployments
    /\ pc[t] \in {"open", "files", "info", "torn", "insert"} => arg[t].dir \in Dirs
    /\ pc[t] \in {"files", "info", "torn", "insert"} => arg[t].dir \in DOMAIN dirs[Name(t)]
    /\ pc[t] = "push" => arg[t].d \in DOMAIN apps

\* On the disk there are finitely many directories, and the id in an info file is
\* of the name it is under.
DiskFits ==
  /\ \A n \in Names : IsFiniteSet(DOMAIN dirs[n])
  /\ \A n \in Names : info[n] \in Deployments => NameOf[info[n]] = n

\* Nothing of a process that has stopped is left in memory.
StoppedIsEmpty == ~ up => apps = EmptyMap /\ instances = <<>>

Readability(n, dir) == dirs[n][dir] = "full" \/ <<n, dir>> \in overlaid

\* A save goes on to its info file, and into the map, with all files written; a
\* version in the map came from such a save or was found on the disk.
FilesFirst ==
  /\ \A t \in Tasks :
       pc[t] \in {"info", "torn", "insert"} => Readability(Name(t), arg[t].dir)
  /\ \A d \in DOMAIN apps : \A x \in Elements(apps[d]) :
       Readability(NameOf[d], x) \/ <<NameOf[d], x>> \in found

Saves(t, n) == pc[t] \in {"open", "files", "info", "torn", "insert"} /\ Name(t) = n

\* The first save under a name has its files and its info file to itself for as
\* long as no other is begun, and what it returned is what is there.
FirstSaveAlone ==
  \A n \in Names :
    /\ begun[n] = 0 =>
         /\ \A t \in Tasks : ~ Saves(t, n)
         /\ \A d \in done : NameOf[d] # n
    /\ begun[n] = 1 =>
         /\ \A t, u \in Tasks : Saves(t, n) /\ Saves(u, n) => t = u
         /\ \A t \in Tasks : Saves(t, n) =>
              /\ \A d \in done : NameOf[d] # n
              /\ pc[t] \in {"info", "torn", "insert"} => dirs[n][arg[t].dir] = "full"
              /\ pc[t] = "insert" => info[n] = arg[t].d

\* All of it: what each step of the database preserves.
IInv ==
  /\ TypeOK /\ CallsFit /\ DiskFits /\ StoppedIsEmpty /\ InstancesHaveApps
  /\ FilesFirst /\ FirstSaveAlone /\ DurableOnceAcknowledged
=============================================================================
