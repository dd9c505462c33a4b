------------------------- MODULE MCMonitorPipeline -------------------------
(***************************************************************************)
(* A radeontop with two needed gauges, an id before and a clock after them;*)
(* a powermetrics with the three keys that are used.  Each comes with all  *)
(* samples that differ from the usual one in one place.                    *)
(***************************************************************************)
EXTENDS MonitorPipeline

Percent(int, frac, digits, unit) ==
  [form |-> "percent", int |-> int, frac |-> frac, digits |-> digits, unit |-> unit]

Forms == {[form |-> "id"], [form |-> "word"],
          [form |-> "bare", digits |-> 2], [form |-> "bare", digits |-> 4],
          Percent(7, 5, 1, "none"), Percent(7, 509, 3, "none"), Percent(7, 5090, 4, "none"),
          Percent(7, 29, 2, "unknown"), Percent(7, 50, 2, "long")}

Gauge(name, value) == [name |-> name, value |-> value]

UsualLine ==
  [secs |-> 61, micros |-> 3,
   items |-> <<Gauge("bus", [form |-> "id"]), Gauge("gpu", Percent(5, 0, 2, "none")),
               Gauge("vram", Percent(19, 57, 2, "mb")), Gauge("mclk", Percent(38, 53, 2, "ghz"))>>]

OddLines ==
  {[UsualLine EXCEPT !.items[i].value = f] : i \in DOMAIN UsualLine.items, f \in Forms}
    \cup {[UsualLine EXCEPT !.items[i].name = "sclk"] : i \in DOMAIN UsualLine.items}

Field(key, value) == [nul |-> FALSE, key |-> key, value |-> value]

UsualPlist ==
  <<[nul |-> TRUE, key |-> "xml", value |-> 0], Field("elapsed_ns", 2), Field("timestamp", 613),
    Field("idle_ratio", 70), Field("idle_ratio", 0)>>

OddPlists ==
  {[UsualPlist EXCEPT ![i].key = "thermal"] : i \in DOMAIN UsualPlist}
    \cup {[UsualPlist EXCEPT ![i].nul = ~ @] : i \in DOMAIN UsualPlist}
    \cup {[UsualPlist EXCEPT ![i].key = "timestamp"] : i \in {4, 5}}
    \cup {[UsualPlist EXCEPT ![4].value = v] : v \in {0, 100}}

RadeonTop(odd, services) ==
  [system |-> "radeon", usual |-> UsualLine, odd |-> odd, services |-> services]

PowerMetrics(odd, services) ==
  [system |-> "apple", usual |-> [lines |-> UsualPlist], odd |-> [lines |-> odd], services |-> services]

\* One service with each of the odd samples; two with a clock of "inf%" and
\* with a load that cannot be read.
AllSources ==
  {RadeonTop(s, 1) : s \in OddLines} \cup {PowerMetrics(s, 1) : s \in OddPlists}
    \cup {RadeonTop([UsualLine EXCEPT !.items[i].value = [form |-> "word"]], 2) : i \in {2, 4}}
=============================================================================
