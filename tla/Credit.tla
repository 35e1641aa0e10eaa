--------------------------------- MODULE Credit ---------------------------------
(***************************************************************************)
(* The token bucket of one location (src/cricket/mush/actions.py): what it *)
(* keeps, what that is worth when allow asks, and what it promises.  The   *)
(* steps are those of TokenBucket.  Tokens are counted in 1/Unit: the      *)
(* rounding of the floats of the code is left out.                         *)
(***************************************************************************)
EXTENDS Rates

VARIABLES
  now,      \* time.monotonic
  tokens,   \* _tokens
  last,     \* _last
  sent,     \* history: lines sent since start
  start,    \* history: the beginning of the window observed
  rebuilds  \* history: buckets built anew since start

\* Mutant of Refilled: the tokens are not capped.
RefilledUncapped == tokens + (now - last) * Rate

\* The first half of allow: what the elapsed time has earned.
Refilled == Lesser(Cap, tokens + (now - last) * Rate)

-------------------------------------------------------------------------------
(* Properties *)

\* Over any stretch of time the lines sent to the location are at most a burst
\* and what the rate earns, plus one more burst for each profile reload: the
\* limit is not one across reloads.
WithinRate ==
  sent * Unit <= (1 + rebuilds) * Cap + (now - start) * Rate

\* The inductive form: what is sent and what is left are paid for.
CreditPaid ==
  sent * Unit + Refilled <= (1 + rebuilds) * Cap + (now - start) * Rate

\* The lazy bucket is the allowance that grows by itself: a call, refused ones
\* too, neither loses nor wins credit.
Limit == INSTANCE RateLimit WITH level <- Refilled
KeepsTheLimit == Limit!Spec
===============================================================================
