------------------------------ MODULE TokenBucket ------------------------------
(***************************************************************************)
(* The steps of the token bucket of one location (src/cricket/mush/        *)
(* actions.py), built again with every profile reload (Bot._build_actions  *)
(* of src/cricket/daemon.py).  The bucket keeps the credit as of the last  *)
(* call of allow and computes the refill lazily.                           *)
(***************************************************************************)
EXTENDS Credit

vars == <<now, tokens, last, sent, start, rebuilds>>

TypeOK ==
  /\ {now, last, sent, start, rebuilds} \subseteq Nat
  /\ tokens \in 0..Cap
  /\ last <= now /\ start <= now
  /\ rebuilds <= MaxRebuilds

Init ==
  /\ now = 0 /\ last = 0 /\ start = 0 /\ sent = 0 /\ rebuilds = 0
  /\ tokens = Cap

Tick ==
  /\ now < MaxTime
  /\ now' = now + 1
  /\ UNCHANGED <<tokens, last, sent, start, rebuilds>>

\* Mutant of Allow: _last does not move, so the refill is earned again.
AllowEarnsTwice ==
  /\ Refilled >= Unit
  /\ tokens' = Refilled - Unit
  /\ sent' = sent + 1
  /\ UNCHANGED <<now, last, start, rebuilds>>

\* allow returns True and the line is sent.
Allow ==
  /\ Refilled >= Unit
  /\ tokens' = Refilled - Unit
  /\ last' = now
  /\ sent' = sent + 1
  /\ UNCHANGED <<now, start, rebuilds>>

\* Mutant of Refuse: a refused call moves _last and forgets the refill.
RefuseForgets ==
  /\ Refilled < Unit
  /\ last' = now
  /\ UNCHANGED <<now, tokens, sent, start, rebuilds>>

\* allow returns False: the refill is kept.
Refuse ==
  /\ Refilled < Unit
  /\ tokens' = Refilled
  /\ last' = now
  /\ UNCHANGED <<now, sent, start, rebuilds>>

\* A reload makes a new bucket, which is full.
Rebuild ==
  /\ rebuilds < MaxRebuilds
  /\ rebuilds' = rebuilds + 1
  /\ tokens' = Cap /\ last' = now
  /\ UNCHANGED <<now, sent, start>>

\* The observer begins to count at any moment.
Watch ==
  /\ start' = now /\ sent' = 0 /\ rebuilds' = 0
  /\ UNCHANGED <<now, tokens, last>>

Next == Tick \/ Allow \/ Refuse \/ Rebuild \/ Watch
Spec == Init /\ [][Next]_vars
===============================================================================
