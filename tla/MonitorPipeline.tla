--------------------------- MODULE MonitorPipeline ---------------------------
(***************************************************************************)
(* The reporters of one node, each with its monitor: a child process that  *)
(* prints samples into a pipe, the task that reads and parses them, the    *)
(* channel with room for one window, and the task that reports them.       *)
(*                                                                         *)
(* Every service that the node starts has such a pipeline, and none is     *)
(* ever cancelled (see ClusterNodes).  The reading task uses a blocking    *)
(* read: while it waits for a line it keeps a worker thread of tokio.  All *)
(* other tasks, the handlers of calls among them, need a worker thread     *)
(* that is free for as long as a step takes.                               *)
(***************************************************************************)
EXTENDS RadeonLine, PlistReader, Sequences

CONSTANTS
  Monitors,    \* the pipelines of this node
  Workers,     \* tokio's worker threads
  PipeSize,    \* bound: samples in the pipe
  Sources,     \* what tools print: [system, usual, odd, services], with the
               \* sample that the tool prints again and again, one that it may
               \* print, too, and a bound: the services that the node starts
  None         \* no window

ASSUME PipelineConstants ==
  /\ Workers \in Nat \ {0} /\ PipeSize \in Nat \ {0}
  /\ None \notin MonitorWindow

ASSUME SourcesPrint ==
  \A from \in Sources : \A s \in {from.usual, from.odd} :
    \/ from.system = "radeon" /\ IsLine(s)
    \/ from.system = "apple" /\ IsPlist(s.lines)

VARIABLES
  source,    \* the tool of this node
  windows,   \* what its samples are read as, worked out once and for all
  child,     \* the process: "none", "silent", "printing", "exited", "killed"
  pipe,      \* what it has printed and nobody has read: "header", "usual", "odd"
  task,      \* the monitor's task: "none", "ready", "header", "read", "send", "ended"
  hand,      \* the window that a task in "send" holds
  queue,     \* the channel
  reporter,  \* "none", "waiting", "reporting", "stopped"
  call       \* a call to one of the node's services waits to be handled

tool == <<source, windows>>
vars == <<tool, child, pipe, task, hand, queue, reporter, call>>

\* The windows that a sample may become; none if it cannot be read.
ReadWindows(sample) ==
  IF source.system = "radeon" THEN MetricsLine(sample) ELSE ReadPlist(sample.lines)

Init ==
  /\ source \in Sources
  /\ windows = [s \in {"usual", "odd"} |-> ReadWindows(source[s])]
  /\ child = [m \in Monitors |-> "none"]
  /\ pipe = [m \in Monitors |-> <<>>]
  /\ task = [m \in Monitors |-> "none"]
  /\ hand = [m \in Monitors |-> None]
  /\ queue = [m \in Monitors |-> <<>>]
  /\ reporter = [m \in Monitors |-> "none"]
  /\ call = FALSE

(***************************************************************************)
(* Worker threads.                                                         *)
(***************************************************************************)
Blocking == {m \in Monitors : task[m] \in {"header", "read"}}

WorkerFree == Cardinality(Blocking) < Workers

Goto(m, from, to) ==
  /\ task[m] = from
  /\ task' = [task EXCEPT ![m] = to]

(***************************************************************************)
(* A service starts: MetricsReporter::new spawns the monitor's task, and   *)
(* start_reporter that of the reporter.  The runner itself is the main     *)
(* task, which has a thread of its own.                                    *)
(***************************************************************************)
StartReporter(m) ==
  /\ Cardinality({n \in Monitors : task[n] # "none"}) < source.services
  /\ Goto(m, "none", "ready")
  /\ reporter' = [reporter EXCEPT ![m] = "waiting"]
  /\ UNCHANGED <<tool, child, pipe, hand, queue, call>>

\* The task runs for the first time and starts the tool; if it cannot, expect
\* ends the task.
StartTool(m) ==
  /\ WorkerFree
  /\ \/ /\ Goto(m, "ready", IF source.system = "radeon" THEN "header" ELSE "read")
        /\ child' = [child EXCEPT ![m] = IF source.system = "radeon" THEN "silent" ELSE "printing"]
     \/ /\ Goto(m, "ready", "ended")
        /\ UNCHANGED child
  /\ UNCHANGED <<tool, pipe, hand, queue, reporter, call>>

(***************************************************************************)
(* The tool.                                                               *)
(***************************************************************************)
PrintHeader(m) ==
  /\ child[m] = "silent"
  /\ child' = [child EXCEPT ![m] = "printing"]
  /\ pipe' = [pipe EXCEPT ![m] = Append(@, "header")]
  /\ UNCHANGED <<tool, task, hand, queue, reporter, call>>

PrintSample(m) ==
  /\ child[m] = "printing"
  /\ task[m] # "ended"
  /\ Len(pipe[m]) < PipeSize
  /\ \E s \in {"usual", "odd"} : pipe' = [pipe EXCEPT ![m] = Append(@, s)]
  /\ UNCHANGED <<tool, child, task, hand, queue, reporter, call>>

\* The task that ended has closed its end of the pipe: SIGPIPE.
PipeBreaks(m) ==
  /\ child[m] \in {"silent", "printing"}
  /\ task[m] = "ended"
  /\ child' = [child EXCEPT ![m] = "killed"]
  /\ pipe' = [pipe EXCEPT ![m] = <<>>]
  /\ UNCHANGED <<tool, task, hand, queue, reporter, call>>

ToolExits(m) ==
  /\ child[m] \in {"silent", "printing"}
  /\ child' = [child EXCEPT ![m] = "exited"]
  /\ UNCHANGED <<tool, pipe, task, hand, queue, reporter, call>>

(***************************************************************************)
(* The monitor's task.                                                     *)
(***************************************************************************)
\* skip_header; anything else in its place is a panic.
SkipHeader(m) ==
  /\ pipe[m] # <<>>
  /\ Goto(m, "header", IF Head(pipe[m]) = "header" THEN "read" ELSE "ended")
  /\ pipe' = [pipe EXCEPT ![m] = Tail(@)]
  /\ UNCHANGED <<tool, child, hand, queue, reporter, call>>

\* next() is None, and the loop over the reader ends; the task with it.
ReadFails(m) ==
  /\ Goto(m, "read", "ended")
  /\ pipe[m] # <<>>
  /\ windows[Head(pipe[m])] = {}
  /\ pipe' = [pipe EXCEPT ![m] = Tail(@)]
  /\ UNCHANGED <<tool, child, hand, queue, reporter, call>>

EndOfOutput(m) ==
  /\ child[m] = "exited"
  /\ pipe[m] = <<>>
  /\ \E from \in {"header", "read"} : Goto(m, from, "ended")
  /\ UNCHANGED <<tool, child, pipe, hand, queue, reporter, call>>

\* Changed forms: a channel without a limit, of which the last window is kept
\* here; and a task that does not care whether somebody receives.
ReadSample_unbounded(m) ==
  /\ task[m] = "read" /\ pipe[m] # <<>>
  /\ \E w \in windows[Head(pipe[m])] :
       IF reporter[m] = "stopped"
         THEN Goto(m, "read", "ended") /\ UNCHANGED <<queue, hand>>
         ELSE /\ queue' = [queue EXCEPT ![m] = <<w>>]
              /\ UNCHANGED <<task, hand>>
  /\ pipe' = [pipe EXCEPT ![m] = Tail(@)]
  /\ UNCHANGED <<tool, child, reporter, call>>

ReadSample_careless(m) ==
  /\ task[m] = "read" /\ pipe[m] # <<>>
  /\ \E w \in windows[Head(pipe[m])] :
       CASE reporter[m] = "stopped" -> UNCHANGED <<task, queue, hand>>
         [] reporter[m] # "stopped" /\ queue[m] = <<>> ->
              queue' = [queue EXCEPT ![m] = <<w>>] /\ UNCHANGED <<task, hand>>
         [] OTHER -> /\ task' = [task EXCEPT ![m] = "send"]
                     /\ hand' = [hand EXCEPT ![m] = w]
                     /\ UNCHANGED queue
  /\ pipe' = [pipe EXCEPT ![m] = Tail(@)]
  /\ UNCHANGED <<tool, child, reporter, call>>

\* With room in the channel send does not wait, and the task goes on to the
\* next read with its worker.  Without, it waits and the worker is free.  When
\* the receiver is gone, send fails, and expect ends the task.
ReadSample(m) ==
  /\ task[m] = "read" /\ pipe[m] # <<>>
  /\ \E w \in windows[Head(pipe[m])] :
       \/ /\ reporter[m] = "stopped"
          /\ Goto(m, "read", "ended")
          /\ UNCHANGED <<queue, hand>>
       \/ /\ reporter[m] # "stopped" /\ queue[m] = <<>>
          /\ queue' = [queue EXCEPT ![m] = <<w>>]
          /\ UNCHANGED <<task, hand>>
       \/ /\ reporter[m] # "stopped" /\ queue[m] # <<>>
          /\ Goto(m, "read", "send")
          /\ hand' = [hand EXCEPT ![m] = w]
          /\ UNCHANGED queue
  /\ pipe' = [pipe EXCEPT ![m] = Tail(@)]
  /\ UNCHANGED <<tool, child, reporter, call>>

\* The task that waited runs again.
SendWaiting(m) ==
  /\ WorkerFree
  /\ \/ /\ reporter[m] = "stopped"
        /\ Goto(m, "send", "ended")
        /\ UNCHANGED queue
     \/ /\ reporter[m] # "stopped" /\ queue[m] = <<>>
        /\ Goto(m, "send", "read")
        /\ queue' = [queue EXCEPT ![m] = <<hand[m]>>]
  /\ hand' = [hand EXCEPT ![m] = None]
  /\ UNCHANGED <<tool, child, pipe, reporter, call>>

(***************************************************************************)
(* The reporter's task.                                                    *)
(***************************************************************************)
\* A changed form: the reporter asks first whether the sender is still there.
Take_fromLiving(m) ==
  /\ WorkerFree
  /\ reporter[m] = "waiting" /\ queue[m] # <<>> /\ task[m] # "ended"
  /\ queue' = [queue EXCEPT ![m] = <<>>]
  /\ reporter' = [reporter EXCEPT ![m] = "reporting"]
  /\ UNCHANGED <<tool, child, pipe, task, hand, call>>

\* When the channel is closed and empty, recv is None, which the branch of
\* select does not match: the reporter waits for a token nobody cancels.
Take(m) ==
  /\ WorkerFree
  /\ reporter[m] = "waiting" /\ queue[m] # <<>>
  /\ queue' = [queue EXCEPT ![m] = <<>>]
  /\ reporter' = [reporter EXCEPT ![m] = "reporting"]
  /\ UNCHANGED <<tool, child, pipe, task, hand, call>>

ReportDone(m) ==
  /\ WorkerFree
  /\ reporter[m] = "reporting"
  /\ reporter' = [reporter EXCEPT ![m] = "waiting"]
  /\ UNCHANGED <<tool, child, pipe, task, hand, queue, call>>

\* expect: the task ends, and the receiver with what was in the channel.
ReportFails(m) ==
  /\ WorkerFree
  /\ reporter[m] = "reporting"
  /\ reporter' = [reporter EXCEPT ![m] = "stopped"]
  /\ queue' = [queue EXCEPT ![m] = <<>>]
  /\ UNCHANGED <<tool, child, pipe, task, hand, call>>

(***************************************************************************)
(* Anything else the node has to do.                                       *)
(***************************************************************************)
CallArrives == ~ call /\ call' = TRUE /\ UNCHANGED <<tool, child, pipe, task, hand, queue, reporter>>

HandleCall ==
  /\ WorkerFree
  /\ call
  /\ call' = FALSE
  /\ UNCHANGED <<tool, child, pipe, task, hand, queue, reporter>>

Tool(m) == PrintHeader(m) \/ PrintSample(m) \/ PipeBreaks(m) \/ ToolExits(m)

Reads(m) == SkipHeader(m) \/ ReadSample(m) \/ ReadFails(m) \/ EndOfOutput(m)

MonitorRuns(m) == StartTool(m) \/ SendWaiting(m)

ReporterRuns(m) == Take(m) \/ ReportDone(m) \/ ReportFails(m)

Next ==
  \/ CallArrives \/ HandleCall
  \/ \E m \in Monitors :
       StartReporter(m) \/ Tool(m) \/ Reads(m) \/ MonitorRuns(m) \/ ReporterRuns(m)

Spec == Init /\ [][Next]_vars

(***************************************************************************)
(* A tool goes on printing or exits: radeontop and powermetrics print once *)
(* a second.  A line that is there is read.  A worker that becomes free    *)
(* takes the tasks that are ready in their order, so a task that is ready  *)
(* again and again gets its turn, although workers are free only between   *)
(* two reads; a report is answered or fails.                               *)
(***************************************************************************)
FairSpec ==
  /\ Spec
  /\ SF_vars(HandleCall)
  /\ \A m \in Monitors :
       /\ WF_vars(Tool(m)) /\ WF_vars(Reads(m))
       /\ SF_vars(MonitorRuns(m)) /\ SF_vars(ReporterRuns(m))
-----------------------------------------------------------------------------
(***************************************************************************)
(* Properties.                                                             *)
(***************************************************************************)
InFlight(m) ==
  {queue[m][i] : i \in DOMAIN queue[m]} \cup (IF task[m] = "send" THEN {hand[m]} ELSE {})

\* Types.  Only a task that waits holds a window, and it waits for room.
TypeOK ==
  /\ source \in Sources
  /\ \A s \in {"usual", "odd"} : windows[s] \subseteq MonitorWindow
  /\ child \in [Monitors -> {"none", "silent", "printing", "exited", "killed"}]
  /\ pipe \in [Monitors -> Seq({"header", "usual", "odd"})]
  /\ queue \in [Monitors -> Seq(MonitorWindow)]
  /\ hand \in [Monitors -> MonitorWindow \cup {None}]
  /\ \A m \in Monitors :
       /\ Len(pipe[m]) <= PipeSize /\ Len(queue[m]) <= 1
       /\ hand[m] = None <=> task[m] # "send"
  /\ task \in [Monitors -> {"none", "ready", "header", "read", "send", "ended"}]
  /\ reporter \in [Monitors -> {"none", "waiting", "reporting", "stopped"}]
  /\ call \in BOOLEAN

Samples == {source.usual, source.odd}

\* A window carries what some sample says: the GPU load to within a hundredth
\* (radeontop) or one (powermetrics) percent, rounded down, and the second in
\* which it was printed - never the load of another gauge or a load that is
\* off by a factor, whatever the sample looks like otherwise.
CarriesRadeon(w, line) ==
  /\ Printed(line) - 10 * w.gpu \in 0 .. 19
  /\ w.start.seconds = line.secs % 60

CarriesPlist(w, lines) ==
  /\ (100 - PrintedIdle(lines)) - w.gpu \in 0 .. 1
  /\ \E i \in DOMAIN lines :
       lines[i].key = "timestamp" /\ w.end = DatetimeToProst(lines[i].value)

SaysWhatWasPrinted ==
  \A m \in Monitors : \A w \in InFlight(m) : \E s \in Samples :
    IF source.system = "radeon"
      THEN WellPrinted(s) /\ CarriesRadeon(w, s)
      ELSE WellFormed(s.lines) /\ CarriesPlist(w, s.lines)

\* As long as the tool runs and reports get through, the monitor goes on
\* however the gauges that nobody needs are printed after the needed ones
\* ("mclk inf%"), and with powermetrics' second idle_ratio.
Harmless(s) ==
  IF source.system = "radeon" THEN WellPrinted(s) /\ NothingLong(s) ELSE WellFormed(s.lines)

EndsOnlyForAReason ==
  \A m \in Monitors :
    (task[m] = "ended" /\ child[m] \in {"printing", "killed"} /\ reporter[m] # "stopped") =>
      \E s \in Samples : ~ Harmless(s)

\* A reporter whose report failed is gone at once; its tool and the worker
\* that its monitor blocks are given back, too.
FailedReporterFreesWorker ==
  \A m \in Monitors :
    reporter[m] = "stopped" ~> (task[m] = "ended" /\ child[m] \in {"exited", "killed"})

\* A pipeline of which neither half has ended reports for ever, with any
\* number of other pipelines on the node and few workers; and what is in the
\* channel when its monitor ends is still reported.
KeepsReporting ==
  \A m \in Monitors :
    (task[m] = "read" \/ queue[m] # <<>>)
      ~> (\/ reporter[m] \in {"reporting", "stopped"}
          \/ task[m] = "ended" /\ queue[m] = <<>>)

\* A call to the node is handled, even if there are as many monitors as worker
\* threads and each blocks one: a monitor whose second window finds no room in
\* the channel lets go of its thread.
CallsHandled == call ~> ~ call
-----------------------------------------------------------------------------
(***************************************************************************)
(* The inductive invariant.                                                *)
(***************************************************************************)
\* radeontop's header is read before anything else; a child that is silent has
\* a reader; and one that was killed or never started has none.
Ordered(c, t, p) ==
  /\ t \in {"none", "ready"} => c = "none"
  /\ c = "none" => t \in {"none", "ready", "ended"}
  /\ c = "killed" => t = "ended"
  /\ c = "silent" => t = "header"
  /\ c \in {"none", "silent"} => p = <<>>
  /\ t = "header" /\ p = <<>> => c \in {"silent", "exited"}
  /\ t = "header" /\ p # <<>> => p[1] = "header"
  /\ \A i \in DOMAIN p : p[i] = "header" => i = 1 /\ t = "header"

InOrder == \A m \in Monitors : Ordered(child[m], task[m], pipe[m])

\* What is on its way was read from a sample of this tool.
FromSamples ==
  /\ windows = [s \in {"usual", "odd"} |-> ReadWindows(source[s])]
  /\ \A m \in Monitors : InFlight(m) \subseteq windows["usual"] \cup windows["odd"]

IInv == TypeOK /\ InOrder /\ FromSamples /\ EndsOnlyForAReason
=============================================================================
