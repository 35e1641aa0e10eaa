-------------------------------- MODULE Workers ---------------------------------
(***************************************************************************)
(* What the threads of the supervisor (src/cricket/supervisor.py) and its  *)
(* worker process share, and what it promises of the workers.  The steps   *)
(* are those of Supervisor.                                                *)
(***************************************************************************)
EXTENDS Naturals

CONSTANTS MaxExits,     \* bound: workers that may end on their own account
          MaxCommands,  \* bound: restart/stop commands served in one behaviour
          MaxBackoff    \* ceiling of the crash backoff (30 s in the code)

ASSUME SupervisorAssumption ==
  /\ MaxExits \in Nat
  /\ MaxCommands \in Nat
  /\ MaxBackoff \in Nat \ {0}

VARIABLES
  mpc,         \* program counter of the main loop
  spc,         \* program counter of the socket thread
  child,       \* _child: number of the worker last spawned, 0 for None
  proc,        \* state of that worker process: "none", "up", "signalled", "dead"
  code,        \* exit status of that worker once dead
  stopFlag,    \* _stop
  restartFlag, \* _restart
  victim,      \* _terminate_child's local `child`, in the socket thread
  backoff,     \* run's local `backoff`
  interrupts,  \* the Ctrl-Cs taken: the first is caught by supervise(), no other
  stray,       \* a worker runs that _child does not name: Ctrl-C inside Popen
  served,      \* number of commands accepted so far (for the bound)
  asked,       \* history: child at the time of the last restart command
  missed       \* history: a stop looked for its victim just before a spawn

(* Exit statuses the main loop tells apart: 0, RESTART_CODE and the rest.  *)
(* An exception that escapes the connection task ends Bot.run with status  *)
(* 0 all the same, so "clean" and "escaped" are both status 0: they differ *)
(* in what happened, never in what the supervisor sees.                    *)
RESTART_CODE == "42"
ZeroStatus == {"clean", "escaped"}
ExitStatus == ZeroStatus \cup {RESTART_CODE, "crash", "signal"}

MainPC == {"check", "spawn", "wait", "decide", "settle", "backoff", "final",
           "finalGrace", "done"}
SockPC == {"accept", "lookup", "grace", "gone"}

\* The types; the backoff stays below its ceiling.
WorkersTypeOK ==
  /\ mpc \in MainPC
  /\ spc \in SockPC
  /\ child \in Nat
  /\ proc \in {"none", "up", "signalled", "dead"}
  /\ code \in ExitStatus \cup {"none"}
  /\ stopFlag \in BOOLEAN
  /\ restartFlag \in BOOLEAN
  /\ victim \in Nat
  /\ backoff \in 1..MaxBackoff
  /\ interrupts \in 0..2 /\ stray \in BOOLEAN
  /\ served \in 0..MaxCommands
  /\ asked \in Nat
  /\ missed \in BOOLEAN

Alive == proc \in {"up", "signalled"}

-------------------------------------------------------------------------------
(* Properties *)

\* When the supervisor returns, the worker it ran is no longer running, through
\* `stop`, a clean end or Ctrl-C wherever it falls; a second Ctrl-C abandons the
\* last _terminate_child, and the worker with it.
NoWorkerLeftBehind ==
  [][mpc' = "done" => ~Alive' \/ interrupts' = 2]_<<mpc, proc, interrupts>>

\* A worker is spawned only once the one before it is dead, so the
\* single-instance guard on port 4250 never trips (docs/OPERATIONS.md:60-61); and
\* none beside a stray one, which is left when Ctrl-C falls inside Popen.
OneWorkerAtATime == [][~Alive /\ ~stray]_child

\* There is one worker or none: none beside the one before, none left behind.
NoStrayWorker == OneWorkerAtATime /\ NoWorkerLeftBehind
===============================================================================
