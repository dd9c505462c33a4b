--------------------------- MODULE MeanScheduler ---------------------------
(***************************************************************************)
(* MeanScheduler: which server the cluster picks for a deployment or a     *)
(* lookup, given the windows each server has reported (a StatsMap, here a  *)
(* function from server ids to sequences of MonitorWindows).               *)
(*                                                                         *)
(* Rates are 64-bit floats in the program.  Here a rate is an exact        *)
(* fraction; 0/0 stands for NaN and n/0 for an infinity, and RateLess      *)
(* orders them as the floats are ordered by "<".                           *)
(***************************************************************************)
EXTENDS Monitor, Sequences, SequencesExt

\* SCALEOUT_THREASHOLD
ScaleOutThreshold == 70

\* Division that truncates toward zero, as the cast "as i64" does.
Truncate(a, b) == IF a >= 0 THEN a \div b ELSE -((-a) \div b)

MulAsPercent(x, percent) == Truncate(x * percent, 100)

WindowNanos(w) == SubtractWindow(w.end, w.start)

SumOfAll(seq) ==
  LET upTo[n \in 0 .. Len(seq)] == IF n = 0 THEN 0 ELSE upTo[n - 1] + seq[n]
  IN  upTo[Len(seq)]

\* cpu_utilized_rate and gpu_utilized_rate; resource is "cpu" or "gpu".
UtilizedRate(ws, resource) ==
  LET total    == SumOfAll([i \in DOMAIN ws |-> WindowNanos(ws[i])])
      utilized == SumOfAll([i \in DOMAIN ws |->
                           MulAsPercent(WindowNanos(ws[i]), ws[i][resource])])
  IN  IF total < 0 THEN [num |-> -utilized, den |-> -total]
                   ELSE [num |-> utilized, den |-> total]

ZeroRate == [num |-> 0, den |-> 1]

RateLess(a, b) == a.num * b.den < b.num * a.den

\* A changed form of ScheduleLoop: a tie also moves on, as "<=" would.
ScheduleLoop_lastOfTies(stats, resource, order) ==
  LET rate == [s \in DOMAIN stats |-> UtilizedRate(stats[s], resource)]
      best[i \in 0 .. Len(order)] ==
        IF i = 0 THEN [server |-> order[1], rate |-> ZeroRate]
        ELSE IF RateLess(best[i - 1].rate, rate[order[i]]) THEN best[i - 1]
        ELSE [server |-> order[i], rate |-> rate[order[i]]]
  IN  best[Len(order)].server

\* The body of schedule / schedule_gpu for one iteration order of the map:
\* start from the first server at rate 0, move on strict improvement only.
ScheduleLoop(stats, resource, order) ==
  LET rate == [s \in DOMAIN stats |-> UtilizedRate(stats[s], resource)]
      best[i \in 0 .. Len(order)] ==
        IF i = 0 THEN [server |-> order[1], rate |-> ZeroRate]
        ELSE IF RateLess(rate[order[i]], best[i - 1].rate)
             THEN [server |-> order[i], rate |-> rate[order[i]]]
        ELSE best[i - 1]
  IN  best[Len(order)].server

\* The servers schedule may return: HashMap iteration has no fixed order.
\* With no negative rate no server is ever preferred, so any may be first.
\* The set is empty (None) exactly when the map is.
ScheduleChoices(stats, resource) ==
  LET rated    == {<<s, UtilizedRate(stats[s], resource)>> : s \in DOMAIN stats}
      negative == {p \in rated : RateLess(p[2], ZeroRate)}
      lowest   == {p \in negative : \A q \in negative : ~ RateLess(q[2], p[2])}
  IN  IF negative = {} THEN DOMAIN stats ELSE {p[1] : p \in lowest}

\* A changed form of NeedsScaleOut: the GPU is read.
NeedsScaleOut_gpu(ws) == ws # <<>> /\ ws[Len(ws)].gpu > ScaleOutThreshold

\* needs_scale_out looks at the last window only; no window, no scale-out.
NeedsScaleOut(ws) == ws # <<>> /\ ws[Len(ws)].cpu > ScaleOutThreshold
=============================================================================
