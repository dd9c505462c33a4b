------------------------------ MODULE Monitor ------------------------------
(***************************************************************************)
(* What a monitor hands to the reporter: a window of time with the load    *)
(* measured over it, and the length the scheduler computes for it.         *)
(*                                                                         *)
(* A point in time is a natural number of nanoseconds.  The protocol's     *)
(* Timestamp keeps only the second of the minute and the nanosecond of the *)
(* second.                                                                 *)
(***************************************************************************)
EXTENDS Integers

CONSTANTS
  NanosPerSecond, \* 10^9 in the program; scaled down for TLC
  SecondWeight    \* what one second counts for in subtract_window: 2^32

ASSUME TimeUnits ==
  /\ NanosPerSecond \in Nat \ {0}
  /\ SecondWeight \in Nat \ {0}

Timestamp == [seconds : 0 .. 59, nanos : 0 .. NanosPerSecond - 1]

\* A window as the proto carries it.  The RAM and VRAM gauges are always -1
\* and nothing reads them.
MonitorWindow == [start : Timestamp, end : Timestamp, cpu : Int, gpu : Int]

\* A changed form: the second of the epoch.
DatetimeToProst_unix(t) ==
  [seconds |-> t \div NanosPerSecond, nanos |-> t % NanosPerSecond]

\* datetime_to_prost takes DateTime::second(), not the Unix time.
DatetimeToProst(t) ==
  [seconds |-> (t \div NanosPerSecond) % 60, nanos |-> t % NanosPerSecond]

\* The length of a window.  Both sides weigh end.seconds, so seconds cancel.
SubtractWindow(end, start) ==
  (end.nanos + end.seconds * SecondWeight)
    - (start.nanos + end.seconds * SecondWeight)

\* radeontop: one sample a second, the GPU load in hundredths of a percent.
RadeonWindow(t, gpu) ==
  [start |-> DatetimeToProst(t),
   end   |-> DatetimeToProst(t + NanosPerSecond),
   cpu   |-> -1,
   gpu   |-> gpu]

\* powermetrics: the sample says when it ended and how long it took.
AppleWindow(t, elapsed, gpu) ==
  [start |-> DatetimeToProst(t - elapsed),
   end   |-> DatetimeToProst(t),
   cpu   |-> -1,
   gpu   |-> gpu]
=============================================================================
