---------------------------------- MODULE Rates ----------------------------------
(***************************************************************************)
(* The constants of a per-location rate limit "Count / Per s" in integer   *)
(* credit: a line costs Unit, a tick brings Rate, the burst is Cap.        *)
(***************************************************************************)
EXTENDS Naturals

CONSTANTS
  Count,      \* lines per period, and the burst
  Per,        \* per_seconds, in ticks; 0 is "no refill"
  MaxTime,    \* bound: ticks of the clock
  MaxRebuilds \* bound: times the limit is set up anew in the window observed

ASSUME BucketAssumption == {Count, Per, MaxTime, MaxRebuilds} \subseteq Nat

Unit == IF Per > 0 THEN Per ELSE 1
Rate == IF Per > 0 THEN Count ELSE 0
Cap == Count * Unit

Lesser(a, b) == IF a < b THEN a ELSE b
===============================================================================
