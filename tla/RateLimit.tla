------------------------------- MODULE RateLimit -------------------------------
(***************************************************************************)
(* What a per-location rate limit "Count / Per s" promises: an allowance   *)
(* that grows with the time that passes, whether or not anyone asks, up to *)
(* a burst of Count lines, and pays for each line sent.  Everything is in  *)
(* integer credit: a line costs Unit, a tick brings Rate.  The constants   *)
(* are those of the bucket that implements it, with its assumption.        *)
(***************************************************************************)
EXTENDS Rates

VARIABLES
  now,      \* the clock
  level,    \* the credit available now
  sent,     \* lines let through in the window observed
  start,    \* when that window began
  rebuilds  \* times the limit was set up anew in that window

Init ==
  /\ now = 0 /\ start = 0 /\ sent = 0 /\ rebuilds = 0
  /\ level = Cap

\* The allowance grows by itself.
Tick ==
  /\ now < MaxTime
  /\ now' = now + 1
  /\ level' = Lesser(Cap, level + Rate)
  /\ UNCHANGED <<sent, start, rebuilds>>

Pass ==
  /\ level >= Unit
  /\ level' = level - Unit
  /\ sent' = sent + 1
  /\ UNCHANGED <<now, start, rebuilds>>

\* A line is refused only for want of credit, and costs nothing.
Refuse ==
  /\ level < Unit
  /\ UNCHANGED <<now, level, sent, start, rebuilds>>

Rebuild ==
  /\ rebuilds < MaxRebuilds
  /\ rebuilds' = rebuilds + 1
  /\ level' = Cap
  /\ UNCHANGED <<now, sent, start>>

\* The observer picks another window to count in.
Watch ==
  /\ start' = now /\ sent' = 0 /\ rebuilds' = 0
  /\ UNCHANGED <<now, level>>

Next == Tick \/ Pass \/ Refuse \/ Rebuild \/ Watch
vars == <<now, level, sent, start, rebuilds>>
Spec == Init /\ [][Next]_vars
===============================================================================
