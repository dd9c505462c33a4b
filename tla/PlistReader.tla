----------------------------- MODULE PlistReader -----------------------------
(***************************************************************************)
(* What the reader makes of one sample of powermetrics: the lines up to    *)
(* "</plist>", of which only those with a key of interest are kept here.   *)
(* A line has a key, a value, and perhaps a NUL in front: powermetrics     *)
(* puts one between two samples.                                           *)
(*                                                                         *)
(* powermetrics prints idle_ratio twice, and a plist with a key twice does *)
(* not deserialize.                                                        *)
(***************************************************************************)
EXTENDS Monitor, Sequences

CONSTANT PlistKeys  \* the keys of PowerMetrics and Gpu

ASSUME PlistKeysRead == {"idle_ratio", "elapsed_ns", "timestamp"} \subseteq PlistKeys

\* A sample as it is printed: an XML declaration comes first.
IsPlist(lines) ==
  /\ lines \in Seq([nul : BOOLEAN, key : STRING, value : Int])
  /\ lines # <<>> => lines[1].key \notin PlistKeys

\* The reader looks for lines that begin with the key, and keeps the first.
Recognised(line) == line.key = "idle_ratio" /\ ~ line.nul

Kept(lines) ==
  {i \in DOMAIN lines : Recognised(lines[i]) => \A j \in 1 .. i - 1 : ~ Recognised(lines[j])}

\* plist::from_bytes, after a NUL at the very beginning was cut off: every
\* field once, and no NUL further on.
Deserializes(lines) ==
  /\ \A i \in Kept(lines) \ {1} : ~ lines[i].nul
  /\ \A k \in PlistKeys : \E i \in Kept(lines) :
       {j \in Kept(lines) : lines[j].key = k} = {i}

ValueOf(lines, k) == lines[CHOOSE i \in Kept(lines) : lines[i].key = k].value

\* 1 - idle_ratio in percent; the cast of the float cuts off.
GpuPercent(idle) ==
  IF idle \in {0, 100} THEN {100 - idle} ELSE {100 - idle, 99 - idle}

\* The windows that the sample may become; none if it cannot be read.
ReadPlist(lines) ==
  IF ~ Deserializes(lines)
    THEN {}
    ELSE {AppleWindow(ValueOf(lines, "timestamp"), ValueOf(lines, "elapsed_ns"), g) :
            g \in GpuPercent(ValueOf(lines, "idle_ratio"))}
-----------------------------------------------------------------------------
(***************************************************************************)
(* The reference: what the sample says.                                    *)
(***************************************************************************)
Keys(lines) == {lines[i].key : i \in DOMAIN lines}

\* Complete, with no key of these twice but idle_ratio, and a NUL at most in
\* front.
WellFormed(lines) ==
  /\ PlistKeys \subseteq Keys(lines)
  /\ \A i, j \in DOMAIN lines :
       i # j /\ lines[i].key = lines[j].key /\ lines[i].key \in PlistKeys =>
         lines[i].key = "idle_ratio"
  /\ \A i \in DOMAIN lines : lines[i].nul => i = 1

\* What was idle according to the first of the lines that say so.
PrintedIdle(lines) ==
  lines[CHOOSE i \in DOMAIN lines :
          /\ lines[i].key = "idle_ratio"
          /\ \A j \in 1 .. i - 1 : lines[j].key # "idle_ratio"].value
=============================================================================
