-------------------------- MODULE MCMeanScheduler --------------------------
(***************************************************************************)
(* Drives MeanScheduler over every StatsMap that a few reports can build.  *)
(***************************************************************************)
EXTENDS MeanScheduler, IdMaps, FiniteSets

CONSTANTS
  Servers,    \* the ids that report
  MaxWindows  \* bound: windows kept per server

VARIABLE stats

\* One second from mid-second, and one that crosses into the next minute.
RadeonWindows == {RadeonWindow(2, 500), RadeonWindow(60 * NanosPerSecond - 1, 6000)}

\* Within a second, across a second boundary (the computed length is then
\* negative), and a longer one with the GPU idle.
AppleWindows == {AppleWindow(NanosPerSecond - 1, 2, 50),
                 AppleWindow(NanosPerSecond + 1, 2, 100),
                 AppleWindow(NanosPerSecond - 1, 3, 0)}

\* What a reporter that measures the CPU would send through the same call.
CpuWindows == {[AppleWindow(NanosPerSecond - 1, 2, 50) EXCEPT !.cpu = 90]}

Windows == RadeonWindows \cup AppleWindows \cup CpuWindows

Init == stats = EmptyMap

Report(s, w) ==
  LET before == IF s \in DOMAIN stats THEN stats[s] ELSE <<>>
  IN  /\ Len(before) < MaxWindows
      /\ stats' = Put(stats, s, Append(before, w))

\* A restarted scheduler begins with an empty map.
Forget == stats # EmptyMap /\ stats' = EmptyMap

Next == Forget \/ \E s \in Servers, w \in Windows : Report(s, w)

Spec == Init /\ [][Next]_stats

\* ScheduleChoices is exactly what the loop of schedule and schedule_gpu can
\* return over all iteration orders of the map.
LoopMatchesChoices ==
  \A resource \in {"cpu", "gpu"} :
    ScheduleChoices(stats, resource) =
      {ScheduleLoop(stats, resource, order) :
         order \in IF DOMAIN stats = {} THEN {} ELSE SetToSeqs(DOMAIN stats)}

\* "subtract_window computes subtract `end` - `start`. The result is returned in
\* nanoseconds." (utils.rs:43-44): so it should be at least for a window within
\* one minute, of which the Timestamps tell which of the two is later.
Nanos(timestamp) == timestamp.seconds * NanosPerSecond + timestamp.nanos

WindowsMeasureTime ==
  \A s \in DOMAIN stats : \A i \in DOMAIN stats[s] :
    LET w == stats[s][i]
    IN  Nanos(w.start) <= Nanos(w.end) =>
          WindowNanos(w) = Nanos(w.end) - Nanos(w.start)
=============================================================================
