------------------------ MODULE MonitorPipelineProofs ------------------------
(***************************************************************************)
(* Theorems about MonitorPipeline, for any number of monitors and workers  *)
(* and for all that the tools may print; and about what the two parsers    *)
(* make of every line and of every sample.                                 *)
(***************************************************************************)
EXTENDS MonitorPipeline, WellFoundedInduction, TLAPS

(***************************************************************************)
(* Numbers.                                                                *)
(***************************************************************************)
LEMMA LeastNatural ==
  ASSUME NEW T \in SUBSET Nat, T # {}
  PROVE  \E x \in T : \A y \in T : x <= y
<1>1. PICK x \in T : \A y \in T : ~ (<<y, x>> \in OpToRel(<, Nat))
  BY WFMin, NatLessThanWellFounded
<1>2. \A y \in T : ~ (y < x)
  BY <1>1 DEF OpToRel
<1> QED
  BY <1>2

\* A set of positions has a last one.
LEMMA MaxPosition ==
  ASSUME NEW n \in Nat, NEW T \in SUBSET (1 .. n), T # {}
  PROVE  Max(T) \in T /\ \A y \in T : y <= Max(T)
<1> DEFINE U == {k \in Nat : n - k \in T}
<1>1. U \subseteq Nat
  OBVIOUS
<1>2. U # {}
  <2>1. PICK y \in T : TRUE
    OBVIOUS
  <2>2. n - y \in Nat /\ n - (n - y) = y
    OBVIOUS
  <2> QED
    BY <2>1, <2>2
<1>3. PICK u \in U : \A v \in U : u <= v
  <2> HIDE DEF U
  <2> QED
    BY <1>1, <1>2, LeastNatural
<1>4. ASSUME NEW y \in T
      PROVE  n - u >= y
  <2>1. n - y \in U
    <3>1. n - y \in Nat /\ n - (n - y) = y
      OBVIOUS
    <3> QED
      BY <3>1
  <2>2. u \in Nat /\ y \in 1 .. n /\ u <= n - y
    BY <1>1, <1>3, <2>1
  <2> QED
    BY <2>2
<1>5. n - u \in T /\ \A y \in T : n - u >= y
  BY <1>4
<1>6. Max(T) \in T /\ \A y \in T : Max(T) >= y
  BY <1>5 DEF Max
<1> QED
  BY <1>6

\* Quotient and remainder are what they are put together from.
LEMMA QuotientOf ==
  ASSUME NEW p \in Nat \ {0}, NEW q \in Int, NEW r \in 0 .. p - 1
  PROVE  (q * p + r) \div p = q
<1> DEFINE x == q * p + r
           d == x \div p
<1>1. x \in Int
  OBVIOUS
<1> HIDE DEF x
<1>2. d \in Int /\ d * p <= x /\ x < (d + 1) * p
  BY <1>1
<1> HIDE DEF d
<1>3. ASSUME d < q
      PROVE  FALSE
  <2>1. (d + 1) * p <= q * p
    BY <1>2, <1>3
  <2> QED
    BY <1>1, <1>2, <2>1 DEF x
<1>4. ASSUME d > q
      PROVE  FALSE
  <2>1. (q + 1) * p <= d * p /\ (q + 1) * p = q * p + p
    BY <1>2, <1>4
  <2> QED
    BY <1>1, <1>2, <2>1 DEF x
<1> QED
  BY <1>2, <1>3, <1>4 DEF d, x

\* A point in time becomes a Timestamp, of the second in which it lies.
LEMMA ProstTypes ==
  ASSUME NEW t \in Int
  PROVE  DatetimeToProst(t) \in Timestamp
<1>1. NanosPerSecond \in Nat \ {0}
  BY TimeUnits
<1>2. t \div NanosPerSecond \in Int /\ t % NanosPerSecond \in 0 .. NanosPerSecond - 1
  BY <1>1
<1>3. (t \div NanosPerSecond) % 60 \in 0 .. 59
  BY <1>2
<1> QED
  BY <1>2, <1>3 DEF DatetimeToProst, Timestamp

(***************************************************************************)
(* radeontop's lines.                                                      *)
(***************************************************************************)
\* Each gauge that was parsed is in the map; no other is.
LEMMA MapOfGauges ==
  ASSUME NEW line, IsLine(line)
  PROVE  LET items == line.items
             map   == UtilizationMap(items)
         IN  /\ DOMAIN map = {items[i].name : i \in Listed(items)}
             /\ \A i \in Listed(items) : map[items[i].name] = items[i].value
<1> DEFINE items == line.items
           map   == UtilizationMap(items)
<1>1. /\ DOMAIN items = 1 .. Len(items) /\ Len(items) \in Nat
      /\ \A i, j \in DOMAIN items : items[i].name = items[j].name => i = j
  BY DEF IsLine
<1>2. Listed(items) \subseteq DOMAIN items
  BY DEF Listed, Reached
<1> HIDE DEF items
<1>3. DOMAIN map = {items[i].name : i \in Listed(items)}
  BY DEF UtilizationMap
<1>4. ASSUME NEW i \in Listed(items)
      PROVE  map[items[i].name] = items[i].value
  <2> DEFINE same == {j \in Listed(items) : items[j].name = items[i].name}
  <2>1. same = {i}
    BY <1>1, <1>2
  <2>2. Max(same) = i
    <3>1. same \in SUBSET (1 .. Len(items)) /\ same # {}
      BY <1>1, <1>2, <2>1
    <3>2. Max(same) \in same
      BY <1>1, <3>1, MaxPosition
    <3> QED
      BY <2>1, <3>2
  <2>3. items[i].name \in {items[j].name : j \in Listed(items)}
    OBVIOUS
  <2>4. map[items[i].name] =
          items[Max({j \in Listed(items) : items[j].name = items[i].name})].value
    BY <2>3 DEF UtilizationMap
  <2> QED
    BY <2>2, <2>4
<1> QED
  BY <1>3, <1>4 DEF items

\* A value that the list goes on behind.
LEMMA GaugeForms ==
  ASSUME NEW line, IsLine(line), NEW i \in DOMAIN line.items
  PROVE  LET v == line.items[i].value
         IN  /\ v \in GaugeValue
             /\ v.form \in {"percent", "id", "bare", "word"}
             /\ v.form = "percent" =>
                  /\ v.int \in Nat /\ v.frac \in Nat /\ v.digits \in Nat \ {0}
                  /\ v.unit \in {"none", "mb", "ghz", "unknown", "long"}
             /\ Panics(v) <=> ~ Short(v)
<1> DEFINE v == line.items[i].value
<1>1. v \in GaugeValue
  <2> DEFINE G == [name : STRING, value : GaugeValue]
             items == line.items
  <2>1. items \in Seq(G) /\ i \in DOMAIN items
    BY DEF IsLine
  <2>2. line.items[i] \in G
    <3> HIDE DEF G, items
    <3>1. items[i] \in G
      BY <2>1
    <3> QED
      BY <3>1 DEF items
  <2> QED
    BY <2>2
<1> HIDE DEF v
<1>2. /\ v.form \in {"percent", "id", "bare", "word"}
      /\ v.form = "percent" =>
           /\ v.int \in Nat /\ v.frac \in Nat /\ v.digits \in Nat \ {0}
           /\ v.unit \in {"none", "mb", "ghz", "unknown", "long"}
  BY <1>1 DEF GaugeValue
<1>3. Panics(v) <=> ~ Short(v)
  <2>1. v.form \in {"percent", "bare"} => v.digits \in Nat
    BY <1>1 DEF GaugeValue
  <2>2. v.form \in {"percent", "bare"} => (v.digits > 3 <=> ~ (v.digits <= 3))
    BY <2>1
  <2> QED
    BY <2>2 DEF Panics, Short
<1> QED
  BY <1>1, <1>2, <1>3 DEF v

\* A line that is read is one that was printed well.
LEMMA ReadIsWellPrinted ==
  ASSUME NEW line, IsLine(line), MetricsLine(line) # {}
  PROVE  WellPrinted(line)
<1> DEFINE items  == line.items
           needed == {i \in DOMAIN items : items[i].name \in NeededGauges}
           map    == UtilizationMap(items)
<1>1. /\ \A i \in Reached(items) : ~ Panics(items[i].value)
      /\ \A k \in NeededGauges : k \in DOMAIN map /\ map[k].form = "percent"
  BY DEF MetricsLine, HasGauges
<1>2. /\ DOMAIN items = 1 .. Len(items) /\ Len(items) \in Nat
      /\ \A i, j \in DOMAIN items : items[i].name = items[j].name => i = j
  BY DEF IsLine
<1>3. /\ DOMAIN map = {items[i].name : i \in Listed(items)}
      /\ \A i \in Listed(items) : map[items[i].name] = items[i].value
  BY MapOfGauges
<1>4. \A i \in DOMAIN items :
        LET v == items[i].value
        IN  /\ v.form \in {"percent", "id", "bare", "word"}
            /\ Panics(v) <=> ~ Short(v)
  BY GaugeForms
<1> HIDE DEF map
<1>5. /\ Listed(items) \subseteq Reached(items) /\ Reached(items) \subseteq DOMAIN items
      /\ \A i \in Reached(items), j \in DOMAIN items :
           j < i => UsesAll(items[j].value) /\ j \in Reached(items)
  <2>1. Listed(items) \subseteq Reached(items) /\ Reached(items) \subseteq DOMAIN items
    BY DEF Listed, Reached
  <2>2. ASSUME NEW i \in Reached(items), NEW j \in DOMAIN items, j < i
        PROVE  UsesAll(items[j].value) /\ j \in Reached(items)
    <3>1. i \in DOMAIN items /\ \A k \in 1 .. i - 1 : UsesAll(items[k].value)
      BY DEF Reached
    <3>2. j \in 1 .. i - 1 /\ \A k \in 1 .. j - 1 : k \in 1 .. i - 1
      BY <1>2, <2>2, <3>1
    <3> QED
      BY <3>1, <3>2 DEF Reached
  <2> QED
    BY <2>1, <2>2
<1> HIDE DEF items
<1>6. NeededGauges \subseteq {items[i].name : i \in needed}
  BY <1>1, <1>3, <1>5
<1>7. \A i \in needed : i \in Listed(items) /\ items[i].value.form = "percent"
  BY <1>1, <1>2, <1>3, <1>5
<1>8. \A i \in needed : items[i].value.form = "percent" /\ Short(items[i].value)
  BY <1>1, <1>4, <1>5, <1>7
<1>9. ASSUME NEW i \in 1 .. Max(needed) - 1
      PROVE  \/ items[i].value.form = "id"
             \/ /\ items[i].value.form = "percent"
                /\ items[i].value.unit # "unknown" /\ Short(items[i].value)
  <2>1. needed \in SUBSET (1 .. Len(items)) /\ needed # {}
    BY <1>2, <1>6, GpuIsNeeded
  <2>2. Max(needed) \in needed
    BY <1>2, <2>1, MaxPosition
  <2>3. Max(needed) \in Reached(items) /\ i \in DOMAIN items /\ i < Max(needed)
    BY <1>2, <1>5, <1>7, <2>1, <2>2
  <2>4. UsesAll(items[i].value) /\ i \in Reached(items)
    BY <1>5, <2>3
  <2> QED
    BY <1>1, <1>4, <2>3, <2>4 DEF UsesAll
<1> QED
  BY <1>6, <1>8, <1>9 DEF WellPrinted, items

\* Whatever else is in a line that was printed well, it is read.
LEMMA WellPrintedIsRead ==
  ASSUME NEW line, IsLine(line), WellPrinted(line), NothingLong(line)
  PROVE  MetricsLine(line) # {}
<1> DEFINE items  == line.items
           needed == {i \in DOMAIN items : items[i].name \in NeededGauges}
           map    == UtilizationMap(items)
<1>1. /\ NeededGauges \subseteq {items[i].name : i \in needed}
      /\ \A i \in needed : items[i].value.form = "percent" /\ Short(items[i].value)
      /\ \A i \in 1 .. Max(needed) - 1 : UsesAll(items[i].value)
  BY DEF WellPrinted, UsesAll
<1>2. DOMAIN items = 1 .. Len(items) /\ Len(items) \in Nat
  BY DEF IsLine
<1>3. /\ DOMAIN map = {items[i].name : i \in Listed(items)}
      /\ \A i \in Listed(items) : map[items[i].name] = items[i].value
  BY MapOfGauges
<1>4. \A i \in DOMAIN items : ~ Panics(items[i].value)
  BY GaugeForms DEF NothingLong
<1> HIDE DEF map, items
<1>5. ASSUME NEW i \in needed
      PROVE  i \in Listed(items)
  <2>1. needed \in SUBSET (1 .. Len(items))
    BY <1>2
  <2>2. i <= Max(needed) /\ Max(needed) \in 1 .. Len(items)
    BY <1>2, <2>1, MaxPosition
  <2>3. \A j \in 1 .. i - 1 : j \in 1 .. Max(needed) - 1
    BY <1>2, <2>1, <2>2
  <2>4. i \in Reached(items)
    BY <1>1, <2>3 DEF Reached
  <2> QED
    BY <1>1, <2>4 DEF Listed, Parses
<1>6. HasGauges(map)
  BY <1>1, <1>3, <1>5 DEF HasGauges
<1>7. \A i \in Reached(items) : ~ Panics(items[i].value)
  BY <1>4 DEF Reached
<1>8. GpuHundredths(map["gpu"]) # {}
  BY DEF GpuHundredths
<1> QED
  BY <1>6, <1>7, <1>8 DEF MetricsLine, map, items

\* The load in a window is the one that the line says, rounded down to less than
\* two hundredths, and the second is that of the line.
LEMMA RadeonWindowsCarry ==
  ASSUME NEW line, IsLine(line), NEW w \in MetricsLine(line)
  PROVE  w \in MonitorWindow /\ CarriesRadeon(w, line)
<1> DEFINE items == line.items
           map   == UtilizationMap(items)
           g     == CHOOSE j \in DOMAIN items : items[j].name = "gpu"
           v     == items[g].value
           exact == v.int * 100 + FractionalPart(v)
           t     == RadeonTime(line)
<1>1. WellPrinted(line)
  BY ReadIsWellPrinted
<1>2. HasGauges(map) /\ \E x \in GpuHundredths(map["gpu"]) : w = RadeonWindow(t, x)
  BY DEF MetricsLine
<1>3. /\ DOMAIN map = {items[i].name : i \in Listed(items)}
      /\ \A i \in Listed(items) : map[items[i].name] = items[i].value
  BY MapOfGauges
<1>4. /\ DOMAIN items = 1 .. Len(items)
      /\ \A i, j \in DOMAIN items : items[i].name = items[j].name => i = j
      /\ line.secs \in Nat /\ line.micros \in 0 .. NanosPerSecond - 1
  BY DEF IsLine
<1>5. \A i \in DOMAIN items : items[i].name = "gpu" => items[i].value.form = "percent"
                                                       /\ Short(items[i].value)
  BY <1>1, GpuIsNeeded DEF WellPrinted
<1>6. map["gpu"] = v /\ g \in DOMAIN items /\ v.form = "percent" /\ Short(v)
  <2> HIDE DEF map, items
  <2>1. "gpu" \in DOMAIN map
    BY <1>2, GpuIsNeeded DEF HasGauges
  <2>2. PICK i \in Listed(items) : items[i].name = "gpu"
    BY <1>3, <2>1
  <2>3. i \in DOMAIN items
    BY <2>2 DEF Listed, Reached
  <2>4. g \in DOMAIN items /\ items[g].name = "gpu"
    BY <2>2, <2>3
  <2>5. g = i
    BY <1>4, <2>2, <2>3, <2>4
  <2> QED
    BY <1>3, <1>5, <2>2, <2>3, <2>5
<1>7. v.int \in Nat /\ v.frac \in Nat /\ v.digits \in 1 .. 3
  <2>1. g \in DOMAIN line.items /\ line.items[g].value.form = "percent"
    BY <1>6
  <2> HIDE DEF g
  <2>2. v.int \in Nat /\ v.frac \in Nat /\ v.digits \in Nat \ {0}
    BY <2>1, GaugeForms
  <2> HIDE DEF v
  <2>3. v.digits <= 3
    BY <1>6 DEF Short
  <2> QED
    BY <2>2, <2>3
<1>8. PICK x \in GpuHundredths(v) : w = RadeonWindow(t, x)
  BY <1>2, <1>6
<1>9. t \in Int /\ t + NanosPerSecond \in Int
  BY <1>4, TimeUnits DEF RadeonTime
<1> HIDE DEF v, g, map, items
<1>10. /\ FractionalPart(v) \in Nat /\ exact \in Nat /\ Printed(line) \in Nat
       /\ Printed(line) - 10 * exact \in 0 .. 9
  <2>1. Printed(line) = v.int * 1000
          + v.frac * (CASE v.digits = 1 -> 100 [] v.digits = 2 -> 10 [] v.digits = 3 -> 1)
    BY DEF Printed, v, g, items
  <2>2. CASE v.digits = 1
    BY <1>7, <2>1, <2>2 DEF FractionalPart
  <2>3. CASE v.digits = 2
    BY <1>7, <2>1, <2>3 DEF FractionalPart
  <2>4. CASE v.digits = 3
    <3> DEFINE n == v.int  f == v.frac
    <3>1. Printed(line) = n * 1000 + f /\ FractionalPart(v) = f \div 10
      BY <1>7, <2>1, <2>4 DEF FractionalPart
    <3>2. n \in Nat /\ f \in Nat
      BY <1>7
    <3> HIDE DEF n, f
    <3>3. f \div 10 \in Nat /\ f - 10 * (f \div 10) \in 0 .. 9
      BY <3>2
    <3>4. exact = n * 100 + f \div 10
      BY <3>1 DEF n
    <3> QED
      BY <3>1, <3>2, <3>3, <3>4
  <2> QED
    BY <1>7, <2>1, <2>2, <2>3, <2>4
<1>11. x \in Int /\ (x = exact \/ x = exact - 1)
  BY <1>7, <1>8, <1>10 DEF GpuHundredths
<1>12. Printed(line) - 10 * x \in 0 .. 19
  <2> HIDE DEF exact
  <2> QED
    BY <1>10, <1>11
<1>13. DatetimeToProst(t).seconds = line.secs % 60
  <2> DEFINE N == NanosPerSecond
             q == line.secs
             r == line.micros
  <2>1. N \in Nat \ {0} /\ q \in Int /\ r \in 0 .. N - 1 /\ t = q * N + r
    BY <1>4, TimeUnits DEF RadeonTime
  <2> HIDE DEF N, q, r, t
  <2>2. (q * N + r) \div N = q
    BY <2>1, QuotientOf
  <2>3. t \div NanosPerSecond = line.secs
    BY <2>1, <2>2 DEF N, q
  <2> QED
    BY <2>3 DEF DatetimeToProst
<1>14. DatetimeToProst(t) \in Timestamp /\ DatetimeToProst(t + NanosPerSecond) \in Timestamp
  BY <1>9, ProstTypes
<1>15. w.gpu = x /\ w.start = DatetimeToProst(t)
  BY <1>8 DEF RadeonWindow
<1>16. w \in MonitorWindow
  BY <1>8, <1>11, <1>14 DEF RadeonWindow, MonitorWindow
<1> QED
  BY <1>12, <1>13, <1>15, <1>16 DEF CarriesRadeon

(***************************************************************************)
(* powermetrics' samples.                                                  *)
(***************************************************************************)
LEMMA PlistTypes ==
  ASSUME NEW lines, IsPlist(lines)
  PROVE  /\ DOMAIN lines = 1 .. Len(lines) /\ Len(lines) \in Nat
         /\ \A i \in DOMAIN lines : lines[i].value \in Int
         /\ 1 \in DOMAIN lines => lines[1].key \notin PlistKeys
         /\ Kept(lines) \subseteq DOMAIN lines
<1> DEFINE G == [nul : BOOLEAN, key : STRING, value : Int]
<1>1. lines \in Seq(G)
  BY DEF IsPlist
<1>2. \A i \in DOMAIN lines : lines[i] \in G
  <2> HIDE DEF G
  <2> QED
    BY <1>1
<1>3. \A i \in DOMAIN lines : lines[i].value \in Int
  BY <1>2
<1>4. DOMAIN lines = 1 .. Len(lines) /\ Len(lines) \in Nat
  <2> HIDE DEF G
  <2> QED
    BY <1>1
<1>5. 1 \in DOMAIN lines => lines[1].key \notin PlistKeys
  BY <1>4 DEF IsPlist
<1> QED
  BY <1>3, <1>4, <1>5 DEF Kept

\* What a line in front of idle_ratio would have to be for the reader not to
\* keep the first of them.
LEMMA IdleKept ==
  ASSUME NEW lines, IsPlist(lines), Deserializes(lines)
  PROVE  \E i \in Kept(lines) :
           /\ {j \in Kept(lines) : lines[j].key = "idle_ratio"} = {i}
           /\ lines[i].key = "idle_ratio"
           /\ \A j \in 1 .. i - 1 : lines[j].key # "idle_ratio"
<1>1. PICK i \in Kept(lines) : {j \in Kept(lines) : lines[j].key = "idle_ratio"} = {i}
  BY PlistKeysRead DEF Deserializes
<1>2. i \in DOMAIN lines /\ lines[i].key = "idle_ratio" /\ i # 1 /\ ~ lines[i].nul
  BY <1>1, PlistTypes, PlistKeysRead DEF Deserializes
<1>3. Recognised(lines[i])
  BY <1>2 DEF Recognised
<1>4. ASSUME NEW j \in 1 .. i - 1, lines[j].key = "idle_ratio"
      PROVE  FALSE
  <2>1. ~ Recognised(lines[j])
    BY <1>3 DEF Kept
  <2>2. j \in DOMAIN lines /\ j # i
    BY <1>2, PlistTypes
  <2>3. j \in Kept(lines)
    BY <2>1, <2>2 DEF Kept
  <2> QED
    BY <1>1, <1>4, <2>2, <2>3
<1> QED
  BY <1>1, <1>2, <1>4

LEMMA DeserializedIsWellFormed ==
  ASSUME NEW lines, IsPlist(lines), Deserializes(lines)
  PROVE  WellFormed(lines)
<1>1. PlistKeys \subseteq Keys(lines)
  BY PlistTypes DEF Deserializes, Keys
<1>2. ASSUME NEW i \in DOMAIN lines, NEW j \in DOMAIN lines, i # j,
             lines[i].key = lines[j].key, lines[i].key \in PlistKeys,
             lines[i].key # "idle_ratio"
      PROVE  FALSE
  <2>1. i \in Kept(lines) /\ j \in Kept(lines)
    BY <1>2 DEF Kept, Recognised
  <2> QED
    BY <1>2, <2>1 DEF Deserializes
<1>3. ASSUME NEW i \in DOMAIN lines, lines[i].nul
      PROVE  i = 1
  <2>1. i \in Kept(lines)
    BY <1>3 DEF Kept, Recognised
  <2> QED
    BY <1>3, <2>1 DEF Deserializes
<1> QED
  BY <1>1, <1>2, <1>3 DEF WellFormed

LEMMA WellFormedDeserializes ==
  ASSUME NEW lines, IsPlist(lines), WellFormed(lines)
  PROVE  Deserializes(lines)
<1>1. \A i \in Kept(lines) \ {1} : ~ lines[i].nul
  BY PlistTypes DEF WellFormed
<1>2. ASSUME NEW k \in PlistKeys, k # "idle_ratio"
      PROVE  \E i \in Kept(lines) : {j \in Kept(lines) : lines[j].key = k} = {i}
  <2>1. PICK i \in DOMAIN lines : lines[i].key = k
    BY DEF WellFormed, Keys
  <2>2. i \in Kept(lines)
    BY <1>2, <2>1 DEF Kept, Recognised
  <2>3. ASSUME NEW j \in Kept(lines), lines[j].key = k
        PROVE  j = i
    BY <1>2, <2>1, <2>3, PlistTypes DEF WellFormed
  <2> QED
    BY <2>1, <2>2, <2>3
<1>3. \E i \in Kept(lines) : {j \in Kept(lines) : lines[j].key = "idle_ratio"} = {i}
  <2> DEFINE idle == {i \in DOMAIN lines : lines[i].key = "idle_ratio"}
  <2>1. idle \in SUBSET Nat /\ idle # {}
    BY PlistTypes, PlistKeysRead DEF WellFormed, Keys
  <2>2. PICK i \in idle : \A j \in idle : i <= j
    <3> HIDE DEF idle
    <3> QED
      BY <2>1, LeastNatural
  <2>3. \A j \in idle : j \in 1 .. Len(lines) /\ j # 1 /\ Recognised(lines[j])
    BY PlistTypes, PlistKeysRead DEF WellFormed, Recognised
  <2>4. \A j \in 1 .. i - 1 : ~ Recognised(lines[j])
    <3>1. ASSUME NEW j \in 1 .. i - 1, Recognised(lines[j])
          PROVE  FALSE
      <4>1. j \in DOMAIN lines
        BY <2>3, PlistTypes
      <4>2. j \in idle
        BY <3>1, <4>1 DEF Recognised
      <4>3. i \in Nat /\ j \in Nat /\ i <= j /\ j <= i - 1
        BY <2>1, <2>2, <3>1, <4>2
      <4> QED
        BY <4>3
    <3> QED
      BY <3>1
  <2>5. i \in Kept(lines)
    BY <2>4 DEF Kept
  <2>6. ASSUME NEW j \in Kept(lines), lines[j].key = "idle_ratio"
        PROVE  j = i
    <3>1. j \in idle /\ Recognised(lines[j]) /\ Recognised(lines[i])
      BY <2>3, <2>6, PlistTypes
    <3>2. i \in 1 .. Len(lines) /\ j \in 1 .. Len(lines) /\ i <= j
      BY <2>2, <2>3, <3>1
    <3>3. ~ (i < j)
      BY <3>1, <3>2 DEF Kept
    <3> QED
      BY <3>2, <3>3
  <2> QED
    BY <2>5, <2>6
<1> QED
  BY <1>1, <1>2, <1>3 DEF Deserializes

\* The load in a window is what the first idle_ratio leaves, rounded down to
\* less than two percent, and the end is what the sample says.
LEMMA AppleWindowsCarry ==
  ASSUME NEW lines, IsPlist(lines), NEW w \in ReadPlist(lines)
  PROVE  w \in MonitorWindow /\ CarriesPlist(w, lines)
<1> DEFINE t == ValueOf(lines, "timestamp")
           elapsed == ValueOf(lines, "elapsed_ns")
           idle == ValueOf(lines, "idle_ratio")
<1>1. Deserializes(lines)
  BY DEF ReadPlist
<1>2. PICK g \in GpuPercent(idle) : w = AppleWindow(t, elapsed, g)
  BY <1>1 DEF ReadPlist
<1>3. ASSUME NEW k \in PlistKeys
      PROVE  /\ ValueOf(lines, k) \in Int
             /\ \E i \in DOMAIN lines : lines[i].key = k /\ lines[i].value = ValueOf(lines, k)
  <2> DEFINE c == CHOOSE i \in Kept(lines) : lines[i].key = k
  <2>1. \E i \in Kept(lines) : lines[i].key = k
    BY <1>1 DEF Deserializes
  <2>2. c \in Kept(lines) /\ lines[c].key = k
    BY <2>1
  <2>3. ValueOf(lines, k) = lines[c].value
    BY DEF ValueOf
  <2> HIDE DEF c
  <2> QED
    BY <2>2, <2>3, PlistTypes
<1>4. t \in Int /\ elapsed \in Int /\ idle \in Int
  BY <1>3, PlistKeysRead
<1>5. idle = PrintedIdle(lines)
  <2>1. PICK i \in Kept(lines) :
               /\ {j \in Kept(lines) : lines[j].key = "idle_ratio"} = {i}
               /\ lines[i].key = "idle_ratio"
               /\ \A j \in 1 .. i - 1 : lines[j].key # "idle_ratio"
    BY <1>1, IdleKept
  <2>2. idle = lines[i].value
    BY <2>1 DEF ValueOf
  <2> DEFINE First(j) == /\ lines[j].key = "idle_ratio"
                         /\ \A k \in 1 .. j - 1 : lines[k].key # "idle_ratio"
             c == CHOOSE j \in DOMAIN lines : First(j)
  <2>3. i \in DOMAIN lines /\ First(i)
    BY <2>1, PlistTypes
  <2>4. c \in DOMAIN lines /\ First(c)
    BY <2>3
  <2> HIDE DEF c
  <2>5. c = i
    <3>1. c \in 1 .. Len(lines) /\ i \in 1 .. Len(lines)
      BY <2>3, <2>4, PlistTypes
    <3>2. c \notin 1 .. i - 1 /\ i \notin 1 .. c - 1
      BY <2>3, <2>4
    <3> QED
      BY <3>1, <3>2
  <2> QED
    BY <2>2, <2>5 DEF PrintedIdle, c
<1> HIDE DEF t, elapsed, idle
<1>6. g \in Int /\ (100 - idle) - g \in 0 .. 1
  BY <1>4 DEF GpuPercent
<1>7. DatetimeToProst(t) \in Timestamp /\ DatetimeToProst(t - elapsed) \in Timestamp
  BY <1>4, ProstTypes
<1>8. w.gpu = g /\ w.end = DatetimeToProst(t)
  BY <1>2 DEF AppleWindow
<1>9. w \in MonitorWindow
  BY <1>2, <1>6, <1>7 DEF AppleWindow, MonitorWindow
<1>10. \E i \in DOMAIN lines : lines[i].key = "timestamp" /\ lines[i].value = t
  BY <1>3, PlistKeysRead DEF t
<1> QED
  BY <1>5, <1>6, <1>8, <1>9, <1>10 DEF CarriesPlist

(***************************************************************************)
(* The pipeline.                                                           *)
(***************************************************************************)
LEMMA SamplesRead ==
  ASSUME source \in Sources, NEW k \in {"usual", "odd"}
  PROVE  /\ source[k] \in Samples
         /\ ReadWindows(source[k]) \subseteq MonitorWindow
         /\ Harmless(source[k]) => ReadWindows(source[k]) # {}
         /\ \A w \in ReadWindows(source[k]) :
              IF source.system = "radeon"
                THEN WellPrinted(source[k]) /\ CarriesRadeon(w, source[k])
                ELSE WellFormed(source[k].lines) /\ CarriesPlist(w, source[k].lines)
<1> DEFINE s == source[k]
<1>1. s \in {source.usual, source.odd}
  OBVIOUS
<1>2. \/ source.system = "radeon" /\ IsLine(s)
      \/ source.system = "apple" /\ IsPlist(s.lines)
  BY <1>1, SourcesPrint
<1> HIDE DEF s
<1>3. CASE source.system = "radeon" /\ IsLine(s)
  <2>1. ReadWindows(s) = MetricsLine(s) /\ (Harmless(s) <=> WellPrinted(s) /\ NothingLong(s))
    BY <1>3 DEF ReadWindows, Harmless
  <2>2. Harmless(s) => ReadWindows(s) # {}
    BY <1>3, <2>1, WellPrintedIsRead
  <2>3. \A w \in ReadWindows(s) : WellPrinted(s) /\ CarriesRadeon(w, s) /\ w \in MonitorWindow
    BY <1>3, <2>1, ReadIsWellPrinted, RadeonWindowsCarry
  <2> QED
    BY <1>1, <1>3, <2>2, <2>3 DEF Samples, s
<1>4. CASE source.system = "apple" /\ IsPlist(s.lines)
  <2>1. ReadWindows(s) = ReadPlist(s.lines) /\ (Harmless(s) <=> WellFormed(s.lines))
    BY <1>4 DEF ReadWindows, Harmless
  <2>2. Harmless(s) => ReadWindows(s) # {}
    <3>1. ASSUME Deserializes(s.lines)
          PROVE  ReadPlist(s.lines) # {}
      BY <3>1 DEF ReadPlist, GpuPercent
    <3> QED
      BY <1>4, <2>1, <3>1, WellFormedDeserializes
  <2>3. \A w \in ReadWindows(s) :
          WellFormed(s.lines) /\ CarriesPlist(w, s.lines) /\ w \in MonitorWindow
    <3>1. ReadPlist(s.lines) # {} => Deserializes(s.lines)
      BY DEF ReadPlist
    <3> QED
      BY <1>4, <2>1, <3>1, DeserializedIsWellFormed, AppleWindowsCarry
  <2> QED
    BY <1>1, <1>4, <2>2, <2>3 DEF Samples, s
<1> QED
  BY <1>2, <1>3, <1>4

LEMMA InitIInv == Init => IInv
<1> SUFFICES ASSUME Init PROVE IInv
  OBVIOUS
<1>1. \A k \in {"usual", "odd"} : windows[k] \subseteq MonitorWindow
  BY SamplesRead DEF Init
<1>2. TypeOK
  <2> DEFINE P == Seq({"header", "usual", "odd"})  Q == Seq(MonitorWindow)
  <2>1. <<>> \in P /\ <<>> \in Q /\ Len(<<>>) = 0
    OBVIOUS
  <2> HIDE DEF P, Q
  <2>2. pipe \in [Monitors -> P] /\ queue \in [Monitors -> Q]
    BY <2>1 DEF Init
  <2>3. hand \in [Monitors -> MonitorWindow \cup {None}]
    BY DEF Init
  <2>4. \A m \in Monitors : /\ Len(pipe[m]) <= PipeSize /\ Len(queue[m]) <= 1
                            /\ hand[m] = None /\ task[m] = "none"
    BY <2>1, PipelineConstants DEF Init
  <2>5. /\ source \in Sources /\ call \in BOOLEAN
        /\ child \in [Monitors -> {"none", "silent", "printing", "exited", "killed"}]
        /\ task \in [Monitors -> {"none", "ready", "header", "read", "send", "ended"}]
        /\ reporter \in [Monitors -> {"none", "waiting", "reporting", "stopped"}]
    BY DEF Init
  <2> QED
    BY <1>1, <2>2, <2>3, <2>4, <2>5 DEF TypeOK, P, Q
<1>3. InOrder
  BY DEF Init, InOrder, Ordered
<1>4. FromSamples
  BY DEF Init, FromSamples, InFlight
<1>5. EndsOnlyForAReason
  BY DEF Init, EndsOnlyForAReason
<1> QED
  BY <1>2, <1>3, <1>4, <1>5 DEF IInv

\* A step of one pipeline leaves the others alone.
LEMMA OneMoves ==
  ASSUME IInv, NEW m \in Monitors, TypeOK', UNCHANGED tool,
         \A n \in Monitors \ {m} :
           /\ child'[n] = child[n] /\ pipe'[n] = pipe[n] /\ task'[n] = task[n]
           /\ hand'[n] = hand[n] /\ queue'[n] = queue[n] /\ reporter'[n] = reporter[n],
         Ordered(child'[m], task'[m], pipe'[m]),
         InFlight(m)' \subseteq windows["usual"] \cup windows["odd"],
         task'[m] = "ended" /\ child'[m] \in {"printing", "killed"} /\ reporter'[m] # "stopped"
           => \E s \in Samples : ~ Harmless(s)
  PROVE  IInv'
<1>1. windows' = windows /\ source' = source
  BY DEF tool
<1>2. InOrder'
  BY DEF IInv, InOrder
<1>3. FromSamples'
  <2>1. \A s : ReadWindows(source[s])' = ReadWindows(source[s])
    BY <1>1 DEF ReadWindows
  <2>2. \A n \in Monitors \ {m} : InFlight(n)' = InFlight(n)
    BY DEF InFlight
  <2> QED
    BY <1>1, <2>1, <2>2 DEF IInv, FromSamples
<1>4. EndsOnlyForAReason'
  <2>1. Samples' = Samples /\ \A s : Harmless(s)' <=> Harmless(s)
    BY <1>1 DEF Samples, Harmless
  <2> QED
    BY <1>1, <2>1 DEF IInv, EndsOnlyForAReason
<1> QED
  BY <1>2, <1>3, <1>4 DEF IInv

\* What a pipeline may hold.
LEMMA QueueOfOne ==
  ASSUME NEW S, NEW w \in S
  PROVE  /\ <<w>> \in Seq(S) /\ Len(<<w>>) = 1
         /\ {<<w>>[i] : i \in DOMAIN <<w>>} = {w}
<1>1. <<w>> \in Seq(S) /\ Len(<<w>>) = 1
  OBVIOUS
<1>2. DOMAIN <<w>> = {1} /\ <<w>>[1] = w
  OBVIOUS
<1> QED
  BY <1>1, <1>2

LEMMA PipeGrows ==
  ASSUME NEW S, NEW p \in Seq(S), NEW x \in S
  PROVE  /\ Append(p, x) \in Seq(S) /\ Len(Append(p, x)) = Len(p) + 1 /\ Append(p, x) # <<>>
         /\ p # <<>> => Append(p, x)[1] = p[1]
         /\ p = <<>> => Append(p, x) = <<x>>
         /\ \A i \in DOMAIN Append(p, x) :
              (i \in DOMAIN p /\ Append(p, x)[i] = p[i]) \/ Append(p, x)[i] = x
<1> DEFINE q == Append(p, x)
<1>1. /\ q \in Seq(S) /\ Len(q) = Len(p) + 1 /\ Len(p) \in Nat
      /\ DOMAIN p = 1 .. Len(p) /\ DOMAIN q = 1 .. Len(q)
      /\ \A i \in 1 .. Len(p) : q[i] = p[i]
      /\ q[Len(p) + 1] = x
  OBVIOUS
<1>2. p # <<>> => Len(p) >= 1
  OBVIOUS
<1>3. p = <<>> => q = <<x>>
  OBVIOUS
<1> HIDE DEF q
<1>4. Len(<<>>) = 0
  OBVIOUS
<1> QED
  BY <1>1, <1>2, <1>3, <1>4 DEF q

LEMMA PipeShrinks ==
  ASSUME NEW S, NEW p \in Seq(S), p # <<>>
  PROVE  /\ Tail(p) \in Seq(S) /\ Len(Tail(p)) = Len(p) - 1 /\ Len(p) >= 1
         /\ Head(p) \in S /\ Head(p) = p[1] /\ 1 \in DOMAIN p
         /\ \A i \in DOMAIN Tail(p) : i + 1 \in DOMAIN p /\ Tail(p)[i] = p[i + 1] /\ i + 1 # 1
<1> DEFINE q == Tail(p)
<1>1. /\ q \in Seq(S) /\ Len(q) = Len(p) - 1 /\ Len(p) \in Nat /\ Len(p) >= 1
      /\ DOMAIN p = 1 .. Len(p) /\ DOMAIN q = 1 .. Len(q)
      /\ Head(p) \in S /\ Head(p) = p[1]
  OBVIOUS
<1>2. \A i \in 1 .. Len(p) - 1 : q[i] = p[i + 1]
  OBVIOUS
<1> HIDE DEF q
<1> QED
  BY <1>1, <1>2 DEF q

LEMMA StartReporterStep ==
  ASSUME IInv, NEW m \in Monitors, StartReporter(m)
  PROVE  IInv'
<1> USE DEF StartReporter, Goto
<1>1. TypeOK'
  BY DEF IInv, TypeOK, tool
<1>2. Ordered(child'[m], task'[m], pipe'[m])
  BY DEF IInv, TypeOK, InOrder, Ordered
<1>3. InFlight(m)' \subseteq windows["usual"] \cup windows["odd"]
  BY DEF IInv, TypeOK, FromSamples, InFlight
<1>4. task'[m] # "ended" /\ UNCHANGED tool
  BY DEF IInv, TypeOK
<1>5. \A n \in Monitors \ {m} :
        /\ child'[n] = child[n] /\ pipe'[n] = pipe[n] /\ task'[n] = task[n]
        /\ hand'[n] = hand[n] /\ queue'[n] = queue[n] /\ reporter'[n] = reporter[n]
  BY DEF IInv, TypeOK
<1> QED
  BY <1>1, <1>2, <1>3, <1>4, <1>5, OneMoves

LEMMA StartToolStep ==
  ASSUME IInv, NEW m \in Monitors, StartTool(m)
  PROVE  IInv'
<1> USE DEF StartTool, Goto
<1>1. TypeOK'
  <2>1. task' \in [Monitors -> {"none", "ready", "header", "read", "send", "ended"}]
    BY DEF IInv, TypeOK
  <2>2. child' \in [Monitors -> {"none", "silent", "printing", "exited", "killed"}]
    BY DEF IInv, TypeOK
  <2>3. \A n \in Monitors : task'[n] = "send" <=> task[n] = "send"
    BY DEF IInv, TypeOK
  <2> QED
    BY <2>1, <2>2, <2>3 DEF IInv, TypeOK, tool
<1>2. Ordered(child'[m], task'[m], pipe'[m]) /\ child'[m] \notin {"killed"}
      /\ (task'[m] = "ended" => child'[m] = "none")
  BY DEF IInv, TypeOK, InOrder, Ordered
<1>3. InFlight(m)' \subseteq windows["usual"] \cup windows["odd"]
  BY DEF IInv, TypeOK, FromSamples, InFlight
<1>4. UNCHANGED tool
  OBVIOUS
<1>5. \A n \in Monitors \ {m} :
        /\ child'[n] = child[n] /\ pipe'[n] = pipe[n] /\ task'[n] = task[n]
        /\ hand'[n] = hand[n] /\ queue'[n] = queue[n] /\ reporter'[n] = reporter[n]
  BY DEF IInv, TypeOK
<1> QED
  BY <1>1, <1>2, <1>3, <1>4, <1>5, OneMoves

LEMMA PrintStep ==
  ASSUME IInv, NEW m \in Monitors, PrintHeader(m) \/ PrintSample(m)
  PROVE  IInv'
<1> DEFINE P == {"header", "usual", "odd"}
<1>1. /\ UNCHANGED <<tool, task, hand, queue, reporter, call>>
      /\ child' = [child EXCEPT ![m] = "printing"]
      /\ \E x \in P : /\ pipe' = [pipe EXCEPT ![m] = Append(@, x)]
                      /\ x = "header" => child[m] = "silent"
                      /\ child[m] = "silent" => x = "header"
  <2>1. CASE PrintHeader(m)
    BY <2>1 DEF PrintHeader
  <2>2. CASE PrintSample(m)
    <3>1. child' = [child EXCEPT ![m] = "printing"]
      BY <2>2 DEF PrintSample, IInv, TypeOK
    <3> QED
      BY <2>2, <3>1 DEF PrintSample
  <2> QED
    BY <2>1, <2>2
<1>2. PICK x \in P : /\ pipe' = [pipe EXCEPT ![m] = Append(@, x)]
                     /\ x = "header" => child[m] = "silent"
                     /\ child[m] = "silent" => x = "header"
  BY <1>1
<1>3. /\ (PrintSample(m) => Len(pipe[m]) < PipeSize /\ task[m] # "ended" /\ child[m] = "printing")
      /\ (PrintHeader(m) => child[m] = "silent")
  BY DEF PrintSample, PrintHeader
<1>4. pipe[m] \in Seq(P) /\ pipe \in [Monitors -> Seq(P)]
  BY DEF IInv, TypeOK
<1>5. Ordered(child[m], task[m], pipe[m])
  BY DEF IInv, InOrder
<1>6. /\ Append(pipe[m], x) \in Seq(P) /\ Len(Append(pipe[m], x)) = Len(pipe[m]) + 1
      /\ Append(pipe[m], x) # <<>>
      /\ pipe[m] # <<>> => Append(pipe[m], x)[1] = pipe[m][1]
      /\ pipe[m] = <<>> => Append(pipe[m], x) = <<x>>
      /\ \A i \in DOMAIN Append(pipe[m], x) :
           \/ i \in DOMAIN pipe[m] /\ Append(pipe[m], x)[i] = pipe[m][i]
           \/ Append(pipe[m], x)[i] = x
  <2> HIDE DEF P
  <2> QED
    BY <1>4, PipeGrows
<1>7. child[m] = "silent" => pipe[m] = <<>> /\ task[m] = "header"
  BY <1>5 DEF Ordered
<1>8. Len(pipe[m]) + 1 <= PipeSize /\ task[m] # "ended" /\ child[m] \in {"silent", "printing"}
  <2>1. CASE PrintSample(m)
    BY <1>3, <1>4, <2>1, PipelineConstants
  <2>2. CASE PrintHeader(m)
    <3>1. Len(pipe[m]) = 0
      BY <1>3, <1>7, <2>2
    <3> QED
      BY <1>3, <1>7, <2>2, <3>1, PipelineConstants
  <2> QED
    BY <2>1, <2>2
<1> DEFINE q == Append(pipe[m], x)
<1>9. pipe'[m] = q /\ child'[m] = "printing" /\ task'[m] = task[m]
  BY <1>1, <1>2, <1>4 DEF IInv, TypeOK
<1>10. \A n \in Monitors \ {m} :
         /\ child'[n] = child[n] /\ pipe'[n] = pipe[n] /\ task'[n] = task[n]
         /\ hand'[n] = hand[n] /\ queue'[n] = queue[n] /\ reporter'[n] = reporter[n]
  BY <1>1, <1>2, <1>4 DEF IInv, TypeOK
<1> HIDE DEF q, P
<1>11. pipe' \in [Monitors -> Seq(P)]
  BY <1>2, <1>4, <1>6
<1>12. TypeOK'
  <2>1. \A n \in Monitors : Len(pipe'[n]) <= PipeSize
    <3>1. Len(q) <= PipeSize
      BY <1>6, <1>8 DEF q
    <3>2. \A n \in Monitors \ {m} : Len(pipe'[n]) <= PipeSize
      BY <1>10 DEF IInv, TypeOK
    <3> QED
      BY <1>9, <3>1, <3>2
  <2>2. child' \in [Monitors -> {"none", "silent", "printing", "exited", "killed"}]
    BY <1>1 DEF IInv, TypeOK
  <2> QED
    BY <1>1, <1>11, <2>1, <2>2 DEF IInv, TypeOK, tool, P
<1>13. Ordered(child'[m], task'[m], pipe'[m])
  <2>1. CASE child[m] = "silent"
    <3>1. q = <<"header">> /\ task[m] = "header"
      BY <1>2, <1>6, <1>7, <2>1 DEF q
    <3>2. q # <<>> /\ q[1] = "header" /\ DOMAIN q = {1}
      BY <3>1
    <3> QED
      BY <1>9, <3>1, <3>2 DEF Ordered
  <2>2. CASE child[m] = "printing"
    <3>1. x # "header"
      BY <1>2, <2>2
    <3>2. task[m] \notin {"none", "ready"}
      BY <1>5, <2>2 DEF Ordered
    <3>3. task[m] = "header" => q[1] = "header" /\ q # <<>>
      BY <1>5, <1>6, <2>2 DEF Ordered, q
    <3>4. \A i \in DOMAIN q : q[i] = "header" => i = 1 /\ task[m] = "header"
      BY <1>5, <1>6, <3>1 DEF Ordered, q
    <3> QED
      BY <1>9, <3>2, <3>3, <3>4 DEF Ordered
  <2> QED
    BY <1>8, <2>1, <2>2
<1>14. InFlight(m)' \subseteq windows["usual"] \cup windows["odd"]
  BY <1>1 DEF IInv, FromSamples, InFlight
<1> QED
  BY <1>1, <1>8, <1>9, <1>10, <1>12, <1>13, <1>14, OneMoves

LEMMA ChildEndsStep ==
  ASSUME IInv, NEW m \in Monitors, PipeBreaks(m) \/ ToolExits(m)
  PROVE  IInv'
<1> DEFINE P == {"header", "usual", "odd"}
<1>1. /\ UNCHANGED <<tool, task, hand, queue, reporter, call>>
      /\ \/ /\ child' = [child EXCEPT ![m] = "exited"] /\ pipe' = pipe
            /\ child[m] \in {"silent", "printing"}
         \/ /\ child' = [child EXCEPT ![m] = "killed"] /\ pipe' = [pipe EXCEPT ![m] = <<>>]
            /\ task[m] = "ended" /\ child[m] \in {"silent", "printing"}
  BY DEF PipeBreaks, ToolExits
<1>2. Ordered(child[m], task[m], pipe[m])
  BY DEF IInv, InOrder
<1>3. pipe \in [Monitors -> Seq(P)]
  BY DEF IInv, TypeOK
<1>4. <<>> \in Seq(P) /\ Len(<<>>) = 0 /\ 0 <= PipeSize
  BY PipelineConstants
<1> HIDE DEF P
<1>5. TypeOK'
  <2>1. child' \in [Monitors -> {"none", "silent", "printing", "exited", "killed"}]
    BY <1>1 DEF IInv, TypeOK
  <2>2. pipe' \in [Monitors -> Seq(P)] /\ \A n \in Monitors : Len(pipe'[n]) <= PipeSize
    BY <1>1, <1>3, <1>4 DEF IInv, TypeOK
  <2> QED
    BY <1>1, <2>1, <2>2 DEF IInv, TypeOK, tool, P
<1>6. /\ task'[m] = task[m]
      /\ \/ child'[m] = "exited" /\ pipe'[m] = pipe[m]
         \/ child'[m] = "killed" /\ pipe'[m] = <<>> /\ task[m] = "ended"
  BY <1>1, <1>3 DEF IInv, TypeOK
<1>7. Ordered(child'[m], task'[m], pipe'[m])
  BY <1>1, <1>2, <1>6 DEF Ordered
<1>8. InFlight(m)' \subseteq windows["usual"] \cup windows["odd"]
  BY <1>1 DEF IInv, FromSamples, InFlight
<1>9. \A n \in Monitors \ {m} :
        /\ child'[n] = child[n] /\ pipe'[n] = pipe[n] /\ task'[n] = task[n]
        /\ hand'[n] = hand[n] /\ queue'[n] = queue[n] /\ reporter'[n] = reporter[n]
  BY <1>1, <1>3 DEF IInv, TypeOK
<1>10. task'[m] = "ended" /\ child'[m] \in {"printing", "killed"} /\ reporter'[m] # "stopped"
         => \E s \in Samples : ~ Harmless(s)
  <2>1. child[m] = "silent" => task[m] = "header"
    BY <1>2 DEF Ordered
  <2> QED
    BY <1>1, <1>6, <2>1 DEF IInv, EndsOnlyForAReason
<1> QED
  BY <1>1, <1>5, <1>7, <1>8, <1>9, <1>10, OneMoves

\* A task that reads takes the first of what is in the pipe.
LEMMA HeadRead ==
  ASSUME IInv, NEW m \in Monitors, pipe[m] # <<>>,
         pipe' = [pipe EXCEPT ![m] = Tail(@)]
  PROVE  /\ pipe' \in [Monitors -> Seq({"header", "usual", "odd"})]
         /\ \A n \in Monitors : Len(pipe'[n]) <= PipeSize
         /\ \A n \in Monitors \ {m} : pipe'[n] = pipe[n]
         /\ \A i \in DOMAIN pipe'[m] : pipe'[m][i] # "header"
         /\ Head(pipe[m]) \in {"header", "usual", "odd"}
         /\ task[m] = "header" => Head(pipe[m]) = "header"
         /\ task[m] # "header" => Head(pipe[m]) # "header"
         /\ child[m] \notin {"none", "silent"}
<1> DEFINE P == {"header", "usual", "odd"}
           p == pipe[m]
<1>1. p \in Seq(P) /\ pipe \in [Monitors -> Seq(P)] /\ Len(p) <= PipeSize /\ Ordered(child[m], task[m], p)
  BY DEF IInv, TypeOK, InOrder
<1>2. p # <<>> /\ pipe' = [pipe EXCEPT ![m] = Tail(p)]
  OBVIOUS
<1> HIDE DEF P, p
<1>3. /\ Tail(p) \in Seq(P) /\ Len(Tail(p)) = Len(p) - 1 /\ Len(p) >= 1
      /\ Head(p) \in P /\ Head(p) = p[1] /\ 1 \in DOMAIN p
      /\ \A i \in DOMAIN Tail(p) : i + 1 \in DOMAIN p /\ Tail(p)[i] = p[i + 1] /\ i + 1 # 1
  BY <1>1, <1>2, PipeShrinks
<1>4. pipe' \in [Monitors -> Seq(P)] /\ pipe'[m] = Tail(p)
  BY <1>1, <1>2, <1>3
<1>5. Len(pipe'[m]) <= PipeSize
  BY <1>1, <1>3, <1>4, PipelineConstants
<1>6. \A n \in Monitors \ {m} : pipe'[n] = pipe[n]
  BY <1>1, <1>2
<1>7. \A n \in Monitors : Len(pipe'[n]) <= PipeSize
  BY <1>5, <1>6 DEF IInv, TypeOK
<1>8. \A i \in DOMAIN pipe'[m] : pipe'[m][i] # "header"
  BY <1>1, <1>3, <1>4 DEF Ordered
<1>9. /\ task[m] = "header" => Head(p) = "header"
      /\ task[m] # "header" => Head(p) # "header"
      /\ child[m] \notin {"none", "silent"}
  BY <1>1, <1>2, <1>3 DEF Ordered
<1> QED
  BY <1>3, <1>4, <1>6, <1>7, <1>8, <1>9 DEF P, p

LEMMA SkipHeaderStep ==
  ASSUME IInv, NEW m \in Monitors, SkipHeader(m)
  PROVE  IInv'
<1>1. /\ pipe[m] # <<>> /\ pipe' = [pipe EXCEPT ![m] = Tail(@)]
      /\ task[m] = "header"
      /\ UNCHANGED <<tool, child, hand, queue, reporter, call>>
  BY DEF SkipHeader, Goto
<1>2. task' = [task EXCEPT ![m] = "read"]
  BY <1>1, HeadRead DEF SkipHeader, Goto
<1>3. task'[m] = "read" /\ \A n \in Monitors \ {m} : task'[n] = task[n]
  BY <1>2 DEF IInv, TypeOK
<1>4. TypeOK'
  <2>1. task' \in [Monitors -> {"none", "ready", "header", "read", "send", "ended"}]
    BY <1>2 DEF IInv, TypeOK
  <2>2. \A n \in Monitors : task'[n] = "send" <=> task[n] = "send"
    BY <1>1, <1>3
  <2> QED
    BY <1>1, <2>1, <2>2, HeadRead DEF IInv, TypeOK, tool
<1>5. Ordered(child'[m], task'[m], pipe'[m])
  <2>1. /\ child'[m] = child[m] /\ child[m] \notin {"none", "silent"}
        /\ \A i \in DOMAIN pipe'[m] : pipe'[m][i] # "header"
    BY <1>1, HeadRead
  <2>2. child[m] # "killed"
    BY <1>1 DEF IInv, InOrder, Ordered
  <2> QED
    BY <1>3, <2>1, <2>2 DEF Ordered
<1>6. InFlight(m)' \subseteq windows["usual"] \cup windows["odd"]
  BY <1>1, <1>3 DEF IInv, FromSamples, InFlight
<1>7. \A n \in Monitors \ {m} : pipe'[n] = pipe[n]
  BY <1>1, HeadRead
<1> QED
  BY <1>1, <1>3, <1>4, <1>5, <1>6, <1>7, OneMoves

LEMMA EndOfOutputStep ==
  ASSUME IInv, NEW m \in Monitors, EndOfOutput(m)
  PROVE  IInv'
<1>1. /\ child[m] = "exited" /\ pipe[m] = <<>> /\ task[m] \in {"header", "read"}
      /\ task' = [task EXCEPT ![m] = "ended"]
      /\ UNCHANGED <<tool, child, pipe, hand, queue, reporter, call>>
  BY DEF EndOfOutput, Goto
<1>2. task'[m] = "ended" /\ \A n \in Monitors \ {m} : task'[n] = task[n]
  BY <1>1 DEF IInv, TypeOK
<1>3. TypeOK'
  <2>1. task' \in [Monitors -> {"none", "ready", "header", "read", "send", "ended"}]
    BY <1>1 DEF IInv, TypeOK
  <2>2. \A n \in Monitors : task'[n] = "send" <=> task[n] = "send"
    BY <1>1, <1>2
  <2> QED
    BY <1>1, <2>1, <2>2 DEF IInv, TypeOK, tool
<1>4. Ordered(child'[m], task'[m], pipe'[m])
  BY <1>1, <1>2 DEF IInv, InOrder, Ordered
<1>5. InFlight(m)' \subseteq windows["usual"] \cup windows["odd"]
  BY <1>1, <1>2 DEF IInv, FromSamples, InFlight
<1> QED
  BY <1>1, <1>2, <1>3, <1>4, <1>5, OneMoves

\* The task ends when a sample cannot be read: then it is not a harmless one.
LEMMA ReadFailsStep ==
  ASSUME IInv, NEW m \in Monitors, ReadFails(m)
  PROVE  IInv'
<1>1. /\ pipe[m] # <<>> /\ pipe' = [pipe EXCEPT ![m] = Tail(@)]
      /\ task[m] = "read" /\ task' = [task EXCEPT ![m] = "ended"]
      /\ windows[Head(pipe[m])] = {}
      /\ UNCHANGED <<tool, child, hand, queue, reporter, call>>
  BY DEF ReadFails, Goto
<1>2. task'[m] = "ended" /\ \A n \in Monitors \ {m} : task'[n] = task[n]
  BY <1>1 DEF IInv, TypeOK
<1>3. TypeOK'
  <2>1. task' \in [Monitors -> {"none", "ready", "header", "read", "send", "ended"}]
    BY <1>1 DEF IInv, TypeOK
  <2>2. \A n \in Monitors : task'[n] = "send" <=> task[n] = "send"
    BY <1>1, <1>2
  <2> QED
    BY <1>1, <2>1, <2>2, HeadRead DEF IInv, TypeOK, tool
<1>4. Ordered(child'[m], task'[m], pipe'[m])
  BY <1>1, <1>2, HeadRead DEF IInv, InOrder, Ordered
<1>5. InFlight(m)' \subseteq windows["usual"] \cup windows["odd"]
  BY <1>1, <1>2 DEF IInv, FromSamples, InFlight
<1>6. \E s \in Samples : ~ Harmless(s)
  <2>1. PICK k \in {"usual", "odd"} : k = Head(pipe[m])
    BY <1>1, HeadRead
  <2>2. ReadWindows(source[k]) = {}
    BY <1>1, <2>1 DEF IInv, FromSamples
  <2> QED
    BY <2>2, SamplesRead DEF IInv, TypeOK
<1>7. \A n \in Monitors \ {m} : pipe'[n] = pipe[n]
  BY <1>1, HeadRead
<1> QED
  BY <1>1, <1>2, <1>3, <1>4, <1>5, <1>6, <1>7, OneMoves

LEMMA ReadSampleStep ==
  ASSUME IInv, NEW m \in Monitors, ReadSample(m)
  PROVE  IInv'
<1> DEFINE k == Head(pipe[m])
           all == windows["usual"] \cup windows["odd"]
<1>1. /\ pipe[m] # <<>> /\ pipe' = [pipe EXCEPT ![m] = Tail(@)] /\ task[m] = "read"
      /\ UNCHANGED <<tool, child, reporter, call>>
  BY DEF ReadSample
<1>2. PICK w \in windows[k] :
        \/ /\ reporter[m] = "stopped"
           /\ task' = [task EXCEPT ![m] = "ended"]
           /\ UNCHANGED <<queue, hand>>
        \/ /\ reporter[m] # "stopped" /\ queue[m] = <<>>
           /\ queue' = [queue EXCEPT ![m] = <<w>>]
           /\ UNCHANGED <<task, hand>>
        \/ /\ reporter[m] # "stopped" /\ queue[m] # <<>>
           /\ task' = [task EXCEPT ![m] = "send"]
           /\ hand' = [hand EXCEPT ![m] = w]
           /\ UNCHANGED queue
  BY DEF ReadSample, Goto
<1>3. w \in all /\ w \in MonitorWindow /\ w # None
  <2>1. k \in {"usual", "odd"}
    BY <1>1, HeadRead
  <2>2. windows[k] \subseteq MonitorWindow
    <3> HIDE DEF k
    <3> QED
      BY <2>1 DEF IInv, TypeOK
  <2>3. w \in all
    BY <2>1
  <2>4. w # None
    BY <2>2, PipelineConstants
  <2> QED
    BY <2>2, <2>3, <2>4
<1>4. <<w>> \in Seq(MonitorWindow) /\ Len(<<w>>) = 1 /\ {<<w>>[i] : i \in DOMAIN <<w>>} = {w}
  <2> HIDE DEF MonitorWindow
  <2> QED
    BY <1>3, QueueOfOne
<1>5. InFlight(m) \subseteq all
  BY DEF IInv, FromSamples
<1>6. \A n \in Monitors \ {m} :
        /\ child'[n] = child[n] /\ pipe'[n] = pipe[n] /\ task'[n] = task[n]
        /\ hand'[n] = hand[n] /\ queue'[n] = queue[n] /\ reporter'[n] = reporter[n]
  BY <1>1, <1>2, HeadRead DEF IInv, TypeOK
<1> HIDE DEF k, all
<1>7. Ordered(child'[m], task'[m], pipe'[m])
  <2>1. task'[m] \in {"read", "send", "ended"}
    BY <1>1, <1>2 DEF IInv, TypeOK
  <2> QED
    BY <1>1, <2>1, HeadRead DEF IInv, InOrder, Ordered
<1>8. /\ pipe' \in [Monitors -> Seq({"header", "usual", "odd"})]
      /\ \A n \in Monitors : Len(pipe'[n]) <= PipeSize
  BY <1>1, HeadRead
<1>9. /\ hand \in [Monitors -> MonitorWindow \cup {None}]
      /\ queue \in [Monitors -> Seq(MonitorWindow)]
      /\ task \in [Monitors -> {"none", "ready", "header", "read", "send", "ended"}]
      /\ \A n \in Monitors : Len(queue[n]) <= 1 /\ (hand[n] = None <=> task[n] # "send")
  BY DEF IInv, TypeOK
<1>10. /\ InFlight(m)' \subseteq all /\ hand' \in [Monitors -> MonitorWindow \cup {None}]
       /\ queue' \in [Monitors -> Seq(MonitorWindow)]
       /\ task' \in [Monitors -> {"none", "ready", "header", "read", "send", "ended"}]
       /\ Len(queue'[m]) <= 1 /\ (hand'[m] = None <=> task'[m] # "send")
  <2>1. CASE reporter[m] = "stopped"
    <3>1. task' = [task EXCEPT ![m] = "ended"] /\ UNCHANGED <<queue, hand>>
      BY <1>2, <2>1
    <3>2. InFlight(m)' \subseteq InFlight(m)
      BY <1>9, <3>1 DEF InFlight
    <3> QED
      BY <1>1, <1>5, <1>9, <3>1, <3>2
  <2>2. CASE reporter[m] # "stopped" /\ queue[m] = <<>>
    <3>1. queue' = [queue EXCEPT ![m] = <<w>>] /\ UNCHANGED <<task, hand>>
      BY <1>2, <2>2
    <3>2. queue'[m] = <<w>> /\ queue' \in [Monitors -> Seq(MonitorWindow)]
      BY <1>4, <1>9, <3>1
    <3>3. InFlight(m)' = {w}
      BY <1>1, <1>4, <3>1, <3>2 DEF InFlight
    <3> QED
      BY <1>3, <1>4, <1>9, <3>1, <3>2, <3>3
  <2>3. CASE reporter[m] # "stopped" /\ queue[m] # <<>>
    <3>1. /\ task' = [task EXCEPT ![m] = "send"] /\ hand' = [hand EXCEPT ![m] = w]
          /\ UNCHANGED queue
      BY <1>2, <2>3
    <3>2. task'[m] = "send" /\ hand'[m] = w
      BY <1>9, <3>1
    <3>3. InFlight(m)' \subseteq InFlight(m) \cup {w}
      BY <3>1, <3>2 DEF InFlight
    <3> QED
      BY <1>3, <1>5, <1>9, <3>1, <3>2, <3>3
  <2> QED
    BY <2>1, <2>2, <2>3
<1>11. TypeOK'
  <2>1. \A n \in Monitors : /\ Len(queue'[n]) <= 1
                            /\ hand'[n] = None <=> task'[n] # "send"
    BY <1>6, <1>9, <1>10
  <2> QED
    BY <1>1, <1>8, <1>10, <2>1 DEF IInv, TypeOK, tool
<1>12. task'[m] = "ended" => reporter'[m] = "stopped"
  BY <1>1, <1>2, <1>9
<1> QED
  BY <1>1, <1>6, <1>7, <1>10, <1>11, <1>12, OneMoves DEF all

LEMMA SendWaitingStep ==
  ASSUME IInv, NEW m \in Monitors, SendWaiting(m)
  PROVE  IInv'
<1> DEFINE w == hand[m]
           all == windows["usual"] \cup windows["odd"]
<1>1. /\ task[m] = "send" /\ hand' = [hand EXCEPT ![m] = None]
      /\ UNCHANGED <<tool, child, pipe, reporter, call>>
      /\ \/ /\ reporter[m] = "stopped"
            /\ task' = [task EXCEPT ![m] = "ended"] /\ UNCHANGED queue
         \/ /\ reporter[m] # "stopped"
            /\ task' = [task EXCEPT ![m] = "read"] /\ queue' = [queue EXCEPT ![m] = <<w>>]
  BY DEF SendWaiting, Goto
<1>2. /\ hand \in [Monitors -> MonitorWindow \cup {None}]
      /\ queue \in [Monitors -> Seq(MonitorWindow)]
      /\ task \in [Monitors -> {"none", "ready", "header", "read", "send", "ended"}]
      /\ \A n \in Monitors : Len(queue[n]) <= 1 /\ (hand[n] = None <=> task[n] # "send")
  BY DEF IInv, TypeOK
<1>3. InFlight(m) \subseteq all /\ w \in InFlight(m) /\ w \in MonitorWindow
  BY <1>1, <1>2 DEF IInv, FromSamples, InFlight
<1>4. <<w>> \in Seq(MonitorWindow) /\ Len(<<w>>) = 1 /\ {<<w>>[i] : i \in DOMAIN <<w>>} = {w}
  <2> HIDE DEF MonitorWindow, w
  <2> QED
    BY <1>3, QueueOfOne
<1>5. \A n \in Monitors \ {m} :
        /\ child'[n] = child[n] /\ pipe'[n] = pipe[n] /\ task'[n] = task[n]
        /\ hand'[n] = hand[n] /\ queue'[n] = queue[n] /\ reporter'[n] = reporter[n]
  BY <1>1, <1>2
<1> HIDE DEF w, all
<1>6. /\ task'[m] \in {"ended", "read"} /\ hand'[m] = None
      /\ task'[m] = "ended" => reporter'[m] = "stopped"
      /\ queue'[m] = queue[m] \/ queue'[m] = <<w>>
      /\ queue' \in [Monitors -> Seq(MonitorWindow)]
      /\ task' \in [Monitors -> {"none", "ready", "header", "read", "send", "ended"}]
      /\ hand' \in [Monitors -> MonitorWindow \cup {None}]
  BY <1>1, <1>2, <1>4
<1>7. InFlight(m)' \subseteq all
  <2>1. InFlight(m)' = {queue'[m][i] : i \in DOMAIN queue'[m]}
    BY <1>6 DEF InFlight
  <2>2. {queue[m][i] : i \in DOMAIN queue[m]} \subseteq InFlight(m)
    BY DEF InFlight
  <2> QED
    BY <1>3, <1>4, <1>6, <2>1, <2>2
<1>8. TypeOK'
  <2>1. \A n \in Monitors : Len(queue'[n]) <= 1
    <3>1. Len(queue[m]) <= 1 /\ Len(<<w>>) <= 1
      BY <1>2, <1>4
    <3>2. Len(queue'[m]) <= 1
      BY <1>6, <3>1
    <3>3. \A n \in Monitors \ {m} : Len(queue'[n]) <= 1
      BY <1>2, <1>5
    <3> QED
      BY <3>2, <3>3
  <2>2. \A n \in Monitors : hand'[n] = None <=> task'[n] # "send"
    BY <1>2, <1>5, <1>6
  <2> QED
    BY <1>1, <1>6, <2>1, <2>2 DEF IInv, TypeOK, tool
<1>9. Ordered(child'[m], task'[m], pipe'[m])
  BY <1>1, <1>6 DEF IInv, InOrder, Ordered
<1> QED
  BY <1>1, <1>5, <1>6, <1>7, <1>8, <1>9, OneMoves DEF all

LEMMA ReporterStep ==
  ASSUME IInv, NEW m \in Monitors, ReporterRuns(m)
  PROVE  IInv'
<1> DEFINE Q == Seq(MonitorWindow)
<1>1. /\ UNCHANGED <<tool, child, pipe, task, hand, call>>
      /\ queue' = queue \/ queue' = [queue EXCEPT ![m] = <<>>]
      /\ \E r \in {"waiting", "reporting", "stopped"} : reporter' = [reporter EXCEPT ![m] = r]
      /\ reporter[m] # "stopped"
  BY DEF ReporterRuns, Take, ReportDone, ReportFails
<1>2. queue \in [Monitors -> Q]
  BY DEF IInv, TypeOK
<1>3. <<>> \in Q /\ Len(<<>>) = 0 /\ {<<>>[i] : i \in DOMAIN <<>>} = {}
  OBVIOUS
<1> HIDE DEF Q
<1>4. TypeOK'
  <2>1. reporter' \in [Monitors -> {"none", "waiting", "reporting", "stopped"}]
    BY <1>1 DEF IInv, TypeOK
  <2>2. queue' \in [Monitors -> Q] /\ \A n \in Monitors : Len(queue'[n]) <= 1
    <3>1. \A n \in Monitors : Len(queue[n]) <= 1
      BY DEF IInv, TypeOK
    <3>2. queue' \in [Monitors -> Q]
      BY <1>1, <1>2, <1>3
    <3>3. \A n \in Monitors : queue'[n] = queue[n] \/ queue'[n] = <<>>
      BY <1>1, <1>2
    <3> QED
      BY <1>3, <3>1, <3>2, <3>3
  <2> QED
    BY <1>1, <2>1, <2>2 DEF IInv, TypeOK, tool, Q
<1>5. \A n \in Monitors \ {m} :
        /\ child'[n] = child[n] /\ pipe'[n] = pipe[n] /\ task'[n] = task[n]
        /\ hand'[n] = hand[n] /\ queue'[n] = queue[n] /\ reporter'[n] = reporter[n]
  BY <1>1, <1>2 DEF IInv, TypeOK
<1>6. queue'[m] = queue[m] \/ queue'[m] = <<>>
  BY <1>1, <1>2
<1>7. InFlight(m)' \subseteq windows["usual"] \cup windows["odd"]
  <2>1. InFlight(m)' \subseteq InFlight(m)
    BY <1>1, <1>3, <1>6 DEF InFlight
  <2> QED
    BY <2>1 DEF IInv, FromSamples
<1>8. Ordered(child'[m], task'[m], pipe'[m])
  BY <1>1 DEF IInv, InOrder
<1>9. task'[m] = "ended" /\ child'[m] \in {"printing", "killed"} /\ reporter'[m] # "stopped"
        => \E s \in Samples : ~ Harmless(s)
  BY <1>1 DEF IInv, EndsOnlyForAReason
<1> QED
  BY <1>1, <1>4, <1>5, <1>7, <1>8, <1>9, OneMoves

LEMMA CallStep ==
  ASSUME IInv, UNCHANGED <<tool, child, pipe, task, hand, queue, reporter>>, call' \in BOOLEAN
  PROVE  IInv'
<1>1. windows' = windows /\ source' = source
  BY DEF tool
<1>2. TypeOK'
  BY <1>1 DEF IInv, TypeOK
<1>3. InOrder'
  BY DEF IInv, InOrder
<1>4. FromSamples'
  <2>1. \A s : ReadWindows(source[s])' = ReadWindows(source[s])
    BY <1>1 DEF ReadWindows
  <2>2. \A n \in Monitors : InFlight(n)' = InFlight(n)
    BY DEF InFlight
  <2> QED
    BY <1>1, <2>1, <2>2 DEF IInv, FromSamples
<1>5. EndsOnlyForAReason'
  <2>1. Samples' = Samples /\ \A s : Harmless(s)' <=> Harmless(s)
    BY <1>1 DEF Samples, Harmless
  <2> QED
    BY <2>1 DEF IInv, EndsOnlyForAReason
<1> QED
  BY <1>2, <1>3, <1>4, <1>5 DEF IInv

LEMMA NextIInv == IInv /\ [Next]_vars => IInv'
<1> SUFFICES ASSUME IInv, [Next]_vars
             PROVE  IInv'
  OBVIOUS
<1>1. CASE CallArrives \/ HandleCall
  BY <1>1, CallStep DEF CallArrives, HandleCall
<1>2. ASSUME NEW m \in Monitors, StartReporter(m)
      PROVE  IInv'
  BY <1>2, StartReporterStep
<1>3. ASSUME NEW m \in Monitors, Tool(m)
      PROVE  IInv'
  BY <1>3, PrintStep, ChildEndsStep DEF Tool
<1>4. ASSUME NEW m \in Monitors, Reads(m)
      PROVE  IInv'
  BY <1>4, SkipHeaderStep, ReadSampleStep, ReadFailsStep, EndOfOutputStep DEF Reads
<1>5. ASSUME NEW m \in Monitors, MonitorRuns(m)
      PROVE  IInv'
  BY <1>5, StartToolStep, SendWaitingStep DEF MonitorRuns
<1>6. ASSUME NEW m \in Monitors, ReporterRuns(m)
      PROVE  IInv'
  BY <1>6, ReporterStep
<1>7. CASE UNCHANGED vars
  <2>1. call' \in BOOLEAN
    BY <1>7 DEF vars, IInv, TypeOK
  <2> QED
    BY <1>7, <2>1, CallStep DEF vars
<1> QED
  BY <1>1, <1>2, <1>3, <1>4, <1>5, <1>6, <1>7 DEF Next

(***************************************************************************)
(* The theorems.                                                           *)
(***************************************************************************)
\* Every step of a pipeline preserves the invariant.
THEOREM Invariance == Spec => []IInv
<1>1. Init => IInv
  BY InitIInv
<1>2. IInv /\ [Next]_vars => IInv'
  BY NextIInv
<1> QED
  BY <1>1, <1>2, PTL DEF Spec

\* Types; the pipe and the channel never hold more than there is room for, and
\* only a task that waits holds a window.
THEOREM TypeCorrect == Spec => []TypeOK
<1>1. IInv => TypeOK
  BY DEF IInv
<1> QED
  BY <1>1, Invariance, PTL

\* Whatever the tools print, a window on its way to the scheduler carries the
\* load and the second that some sample says.
THEOREM SaysWhatWasPrintedAlways == Spec => []SaysWhatWasPrinted
<1>1. ASSUME IInv, NEW m \in Monitors, NEW w \in InFlight(m)
      PROVE  \E s \in Samples :
               IF source.system = "radeon"
                 THEN WellPrinted(s) /\ CarriesRadeon(w, s)
                 ELSE WellFormed(s.lines) /\ CarriesPlist(w, s.lines)
  <2>1. PICK k \in {"usual", "odd"} : w \in windows[k]
    BY <1>1 DEF IInv, FromSamples
  <2>2. w \in ReadWindows(source[k]) /\ source \in Sources
    BY <1>1, <2>1 DEF IInv, FromSamples, TypeOK
  <2> QED
    BY <2>2, SamplesRead
<1>2. IInv => SaysWhatWasPrinted
  BY <1>1 DEF SaysWhatWasPrinted
<1> QED
  BY <1>2, Invariance, PTL

\* A monitor whose tool runs and whose reports get through ends only because of
\* a sample that is not harmless.
THEOREM EndsOnlyForAReasonAlways == Spec => []EndsOnlyForAReason
<1>1. IInv => EndsOnlyForAReason
  BY DEF IInv
<1> QED
  BY <1>1, Invariance, PTL
=============================================================================
