----------------------------- MODULE RadeonLine -----------------------------
(***************************************************************************)
(* What the parser makes of one line of radeontop, such as                 *)
(*                                                                         *)
(*   1730461004.264057: bus 02, gpu 5.00%, vram 0.52% 10.61mb, mclk inf%   *)
(*                                                                         *)
(* A line is a time and a list of gauges.  A gauge is a name and a value   *)
(* of one of these forms:                                                  *)
(*                                                                         *)
(*   percent  digits, a point, digits and "%", then perhaps a number with  *)
(*            a unit: "mb" and "ghz" are known, "long" is a number with    *)
(*            more than three decimals                                     *)
(*   id       hexadecimal digits                                           *)
(*   bare     a number that is not a percentage, such as 5%, 5.00 or       *)
(*            0.3550, with its decimals behind a point, if any: its first  *)
(*            digits are read as an id and the rest is left over           *)
(*   word     anything that does not start with a hexadecimal digit        *)
(*                                                                         *)
(* Numbers fit in 64 bits.                                                 *)
(***************************************************************************)
EXTENDS Monitor, FiniteSetsExt, Sequences

CONSTANT NeededGauges  \* what radeon_from_map asks for: gpu, ee, ..., gtt

ASSUME GpuIsNeeded == "gpu" \in NeededGauges

GaugeValue ==
  [form : {"percent"}, int : Nat, frac : Nat, digits : Nat \ {0},
   unit : {"none", "mb", "ghz", "unknown", "long"}]
    \cup [form : {"bare"}, digits : Nat]
    \cup [form : {"id", "word"}]

\* A line as it is printed: each gauge once.
IsLine(line) ==
  /\ line.secs \in Nat /\ line.micros \in 0 .. NanosPerSecond - 1
  /\ line.items \in Seq([name : STRING, value : GaugeValue])
  /\ \A i, j \in DOMAIN line.items :
       line.items[i].name = line.items[j].name => i = j

(***************************************************************************)
(* One gauge.                                                              *)
(***************************************************************************)
\* A changed form: one decimal is taken for hundredths.
FractionalPart_unscaled(v) ==
  CASE v.digits <= 2 -> v.frac
    [] v.digits = 3  -> v.frac \div 10

\* The decimals in hundredths.  For more than three the code is unreachable!().
FractionalPart(v) ==
  CASE v.digits = 1 -> v.frac * 10
    [] v.digits = 2 -> v.frac
    [] v.digits = 3 -> v.frac \div 10

\* Every number is read with its decimals before the "%" or the unit is looked
\* for, so that one without them is no safer.
Panics(v) ==
  \/ v.form \in {"percent", "bare"} /\ v.digits > 3
  \/ v.form = "percent" /\ v.unit = "long"

Parses(v) == v.form # "word"

\* Nothing of the gauge is left over, so that the separator comes next.
UsesAll(v) == v.form = "id" \/ (v.form = "percent" /\ v.unit # "unknown")

(***************************************************************************)
(* The list: separated_list1 ends, without an error, at the first gauge    *)
(* that does not parse or leaves something over.  What comes later is lost.*)
(***************************************************************************)
Reached(items) ==
  {i \in DOMAIN items : \A j \in 1 .. i - 1 : UsesAll(items[j].value)}

\* A changed form: one gauge that does not parse spoils the line.
Listed_strict(items) ==
  IF \A i \in DOMAIN items : Parses(items[i].value) THEN Reached(items) ELSE {}

Listed(items) == {i \in Reached(items) : Parses(items[i].value)}

\* Collected into a map: the last gauge of a name wins.
UtilizationMap(items) ==
  [n \in {items[i].name : i \in Listed(items)} |->
     items[Max({i \in Listed(items) : items[i].name = n})].value]

(***************************************************************************)
(* The sample.  A key that is missing is an error, an id in its place      *)
(* unimplemented!().                                                       *)
(***************************************************************************)
HasGauges(map) ==
  \A k \in NeededGauges : k \in DOMAIN map /\ map[k].form = "percent"

\* frac * 0.01 and its sum with int are rounded floats, and the cast cuts
\* off: what is not a whole percentage may come out one hundredth lower.
GpuHundredths(v) ==
  LET exact == v.int * 100 + FractionalPart(v)
  IN  IF FractionalPart(v) = 0 THEN {exact} ELSE {exact, exact - 1}

\* The microseconds are passed to from_timestamp as nanoseconds.
RadeonTime(line) == line.secs * NanosPerSecond + line.micros

\* The windows that the line may become; none if it cannot be read.
MetricsLine(line) ==
  LET map == UtilizationMap(line.items)
  IN  IF (\E i \in Reached(line.items) : Panics(line.items[i].value)) \/ ~ HasGauges(map)
        THEN {}
        ELSE {RadeonWindow(RadeonTime(line), g) : g \in GpuHundredths(map["gpu"])}
-----------------------------------------------------------------------------
(***************************************************************************)
(* The reference: what the line says.                                      *)
(***************************************************************************)
\* radeontop prints each gauge once.  Thousandths of a percent.
Printed(line) ==
  LET i == CHOOSE j \in DOMAIN line.items : line.items[j].name = "gpu"
      v == line.items[i].value
  IN  v.int * 1000 + v.frac * (CASE v.digits = 1 -> 100 [] v.digits = 2 -> 10 [] v.digits = 3 -> 1)

\* Numbers have up to three decimals.
Short(v) ==
  /\ v.form \in {"percent", "bare"} => v.digits <= 3
  /\ v.form = "percent" => v.unit # "long"

\* The gauges that are needed are percentages; the others before the last of
\* these are at least ids or percentages.
WellPrinted(line) ==
  LET items  == line.items
      needed == {i \in DOMAIN items : items[i].name \in NeededGauges}
  IN  /\ NeededGauges \subseteq {items[i].name : i \in needed}
      /\ \A i \in needed : items[i].value.form = "percent" /\ Short(items[i].value)
      /\ \A i \in 1 .. Max(needed) - 1 :
           \/ items[i].value.form = "id"
           \/ /\ items[i].value.form = "percent"
              /\ items[i].value.unit # "unknown" /\ Short(items[i].value)

\* Nor is any other number longer, a percentage or not.
NothingLong(line) == \A i \in DOMAIN line.items : Short(line.items[i].value)
=============================================================================
