------------------------------ MODULE Supervisor ------------------------------
(***************************************************************************)
(* The foreground supervisor (src/cricket/supervisor.py) and the way the   *)
(* worker process it runs can end (src/cricket/daemon.py, Bot.run).        *)
(*                                                                         *)
(* Two threads share _child, _stop and _restart: the main loop             *)
(* (Supervisor.run) and the socket thread that serves the out-of-band      *)
(* commands (Supervisor._serve_socket).  The worker is a third actor: it   *)
(* exits on its own, crashes, asks for its own restart, or dies of the     *)
(* signal the supervisor sends.  What they share is in Workers; a step of  *)
(* a thread is what it does between two points where another may run.      *)
(***************************************************************************)
EXTENDS Workers

mainVars == <<mpc, backoff, interrupts, stray>>
sockVars == <<spc, victim, served, asked, missed>>
procVars == <<child, proc, code>>
flagVars == <<stopFlag, restartFlag>>
vars == <<mpc, backoff, interrupts, stray, spc, victim, served, asked, missed,
          child, proc, code, stopFlag, restartFlag>>
ctrlVars == <<interrupts, stray>>

Init ==
  /\ mpc = "check" /\ backoff = 1 /\ interrupts = 0 /\ stray = FALSE
  /\ spc = "accept" /\ victim = 0 /\ served = 0 /\ asked = 0 /\ missed = FALSE
  /\ child = 0 /\ proc = "none" /\ code = "none"
  /\ stopFlag = FALSE /\ restartFlag = FALSE

-------------------------------------------------------------------------------
(* Mutants: plausible slips in the actions below; no action uses them. *)

\* the loop is left without the last _terminate_child
FinalTerminateSkipped ==
  /\ mpc = "final"
  /\ mpc' = "done"
  /\ UNCHANGED <<backoff, ctrlVars, procVars, sockVars, flagVars>>

\* wait() returns before the worker is dead (a wait with a timeout)
WaitTimesOut ==
  /\ mpc = "wait"
  /\ mpc' = "decide"
  /\ UNCHANGED <<backoff, ctrlVars, procVars, sockVars, flagVars>>

\* only SIGTERM is sent to a worker that a command wants dead, never SIGKILL
\* (a hung worker stays), and the socket thread waits for it
GraceWithoutKill ==
  /\ spc = "grace"
  /\ proc # "signalled"
  /\ spc' = "accept"
  /\ UNCHANGED <<victim, served, asked, missed, mainVars, procVars, flagVars>>

\* any exit that is not a restart ends the loop
DecideStopsOnCrash ==
  /\ mpc = "decide"
  /\ mpc' = IF ~stopFlag /\ (restartFlag \/ code = RESTART_CODE)
            THEN "settle" ELSE "final"
  /\ UNCHANGED <<backoff, ctrlVars, procVars, sockVars, flagVars>>

\* the ceiling of the backoff is forgotten
BackedOffUncapped ==
  /\ mpc = "backoff"
  /\ mpc' = "check"
  /\ backoff' = 2 * backoff
  /\ UNCHANGED <<ctrlVars, procVars, sockVars, flagVars>>

\* the flag is consumed by a restart decision that never looked at it
DecideForgetsStop ==
  /\ mpc = "decide"
  /\ mpc' = IF code \in ZeroStatus /\ ~restartFlag THEN "final" ELSE "settle"
  /\ stopFlag' = FALSE
  /\ UNCHANGED <<backoff, ctrlVars, procVars, sockVars, restartFlag>>

\* Ctrl-C just leaves
InterruptLeaves ==
  /\ interrupts = 0 /\ mpc # "done"
  /\ interrupts' = 1
  /\ stopFlag' = TRUE
  /\ mpc' = "done"
  /\ UNCHANGED <<backoff, stray, procVars, sockVars, restartFlag>>

-------------------------------------------------------------------------------
(* The main loop *)

\* `while not self._stop`: the flag is read here, before _spawn takes the lock.
CheckStop ==
  /\ mpc = "check"
  /\ mpc' = IF stopFlag THEN "final" ELSE "spawn"
  /\ UNCHANGED <<backoff, ctrlVars, procVars, sockVars, flagVars>>

\* _spawn, under the lock: forget any restart asked for so far, start a worker.
Spawn ==
  /\ mpc = "spawn"
  /\ restartFlag' = FALSE
  /\ child' = child + 1
  /\ proc' = "up"
  /\ code' = "none"
  /\ mpc' = "wait"
  /\ UNCHANGED <<backoff, ctrlVars, sockVars, stopFlag>>

\* child.wait() returns.
WaitReturns ==
  /\ mpc = "wait"
  /\ proc = "dead"
  /\ mpc' = "decide"
  /\ UNCHANGED <<backoff, ctrlVars, procVars, sockVars, flagVars>>

\* Both flags are read under the lock, then the exit status decides.
Decide ==
  /\ mpc = "decide"
  /\ \/ /\ stopFlag
        /\ mpc' = "final"
        /\ UNCHANGED backoff
     \/ /\ ~stopFlag
        /\ restartFlag \/ code = RESTART_CODE
        /\ mpc' = "settle"
        /\ backoff' = 1
     \/ /\ ~stopFlag /\ ~restartFlag
        /\ code \in ZeroStatus
        /\ mpc' = "final"
        /\ UNCHANGED backoff
     \/ /\ ~stopFlag /\ ~restartFlag
        /\ code \notin ZeroStatus \cup {RESTART_CODE}
        /\ mpc' = "backoff"
        /\ UNCHANGED backoff
  /\ UNCHANGED <<ctrlVars, procVars, sockVars, flagVars>>

\* time.sleep(0.4), then `continue`.
Settled ==
  /\ mpc = "settle"
  /\ mpc' = "check"
  /\ UNCHANGED <<backoff, ctrlVars, procVars, sockVars, flagVars>>

\* time.sleep(backoff), then the backoff doubles up to its ceiling.
BackedOff ==
  /\ mpc = "backoff"
  /\ mpc' = "check"
  /\ backoff' = IF 2 * backoff > MaxBackoff THEN MaxBackoff ELSE 2 * backoff
  /\ UNCHANGED <<ctrlVars, procVars, sockVars, flagVars>>

\* The last _terminate_child, after the loop: poll, then SIGTERM.
FinalTerminate ==
  /\ mpc = "final"
  /\ IF Alive
     THEN /\ proc' = "signalled"
          /\ mpc' = "finalGrace"
     ELSE /\ mpc' = "done"
          /\ UNCHANGED proc
  /\ UNCHANGED <<backoff, ctrlVars, child, code, sockVars, flagVars>>

\* Polling finds the worker dead within the grace time, or it is killed.
FinalGrace ==
  /\ mpc = "finalGrace"
  /\ proc' = "dead"
  /\ code' = IF proc = "dead" THEN code ELSE "signal"
  /\ mpc' = "done"
  /\ UNCHANGED <<backoff, ctrlVars, child, sockVars, flagVars>>

\* The first Ctrl-C, wherever the main thread is: supervise() catches it and calls
\* _terminate_child, again if it was there.
Interrupt ==
  /\ interrupts = 0 /\ mpc # "done"
  /\ interrupts' = 1
  /\ stopFlag' = TRUE
  /\ mpc' = "final"
  /\ UNCHANGED <<backoff, stray, procVars, sockVars, restartFlag>>

\* It falls inside _spawn, between the fork and the assignment: a worker runs that
\* nothing names, and _child is still the one before it.
InterruptInSpawn ==
  /\ interrupts = 0 /\ mpc = "spawn"
  /\ interrupts' = 1 /\ stray' = TRUE
  /\ stopFlag' = TRUE /\ restartFlag' = FALSE
  /\ mpc' = "final"
  /\ UNCHANGED <<backoff, procVars, sockVars>>

\* Another Ctrl-C, in the handler of the first (its _terminate_child polls and
\* sleeps): nothing catches it and the process ends.
InterruptAgain ==
  /\ interrupts = 1 /\ mpc \in {"final", "finalGrace"}
  /\ interrupts' = 2
  /\ mpc' = "done"
  /\ UNCHANGED <<backoff, stray, procVars, sockVars, flagVars>>

CtrlC == Interrupt \/ InterruptInSpawn \/ InterruptAgain

-------------------------------------------------------------------------------
(* The socket thread: one command at a time, answered before the next; it is a   *)
(* daemon thread and ends with the process.                                      *)

\* The accept loop ends once _stop is set.
SockLoopEnds ==
  /\ spc = "accept" /\ mpc # "done"
  /\ stopFlag
  /\ spc' = "gone"
  /\ UNCHANGED <<victim, served, asked, missed, mainVars, procVars, flagVars>>

\* _handle_cmd("restart"): the flag first, under the lock.
RecvRestart ==
  /\ spc = "accept" /\ mpc # "done"
  /\ served < MaxCommands
  /\ restartFlag' = TRUE
  /\ asked' = child
  /\ served' = served + 1
  /\ spc' = "lookup"
  /\ UNCHANGED <<victim, missed, mainVars, procVars, stopFlag>>

\* _handle_cmd("stop")
RecvStop ==
  /\ spc = "accept" /\ mpc # "done"
  /\ served < MaxCommands
  /\ stopFlag' = TRUE
  /\ served' = served + 1
  /\ spc' = "lookup"
  /\ UNCHANGED <<victim, asked, missed, mainVars, procVars, restartFlag>>

\* _terminate_child: read _child under the lock; nothing to do unless it runs.
LookupVictim ==
  /\ spc = "lookup" /\ mpc # "done"
  /\ victim' = child
  /\ missed' = (missed \/ (stopFlag /\ mpc = "spawn"))
  /\ IF Alive
     THEN /\ proc' = "signalled"
          /\ spc' = "grace"
     ELSE /\ spc' = "accept"
          /\ UNCHANGED proc
  /\ UNCHANGED <<served, asked, child, code, mainVars, flagVars>>

\* The polling loop: the worker has died, or the grace time is over and it is
\* killed; then the command is answered.
GraceOver ==
  /\ spc = "grace" /\ mpc # "done"
  /\ IF victim = child /\ proc = "signalled"
     THEN proc' = "dead" /\ code' = "signal"
     ELSE UNCHANGED <<proc, code>>
  /\ spc' = "accept"
  /\ UNCHANGED <<victim, served, asked, missed, child, mainVars, flagVars>>

-------------------------------------------------------------------------------
(* The worker process *)

WorkerExit(status) ==
  /\ proc = "up"
  /\ child <= MaxExits
  /\ proc' = "dead"
  /\ code' = status
  /\ UNCHANGED <<child, mainVars, sockVars, flagVars>>

\* Bot.request_restart: exit status 42.
WorkerAsksRestart == WorkerExit(RESTART_CODE)

\* Bot.run returns 0: the connection was closed on purpose.
WorkerEnds == WorkerExit("clean")

\* An exception leaves Connection.run or serve_forever: asyncio.wait returns,
\* the exception is suppressed, _exit_code is still 0.
WorkerTaskFails == WorkerExit("escaped")

\* The interpreter dies: an exception before the gather, a kill from outside.
WorkerCrashes == WorkerExit("crash")

\* The worker obeys SIGTERM.
WorkerTerminated ==
  /\ proc = "signalled"
  /\ proc' = "dead"
  /\ code' = "signal"
  /\ UNCHANGED <<child, mainVars, sockVars, flagVars>>

-------------------------------------------------------------------------------
Main == CheckStop \/ Spawn \/ WaitReturns \/ Decide \/ Settled \/ BackedOff
        \/ FinalTerminate \/ FinalGrace
Command == RecvRestart \/ RecvStop
Sock == SockLoopEnds \/ LookupVictim \/ GraceOver
Worker == WorkerAsksRestart \/ WorkerEnds \/ WorkerTaskFails \/ WorkerCrashes
          \/ WorkerTerminated

Next == Main \/ CtrlC \/ Command \/ Sock \/ Worker

\* Both threads run; operators, interrupts and worker deaths are not promised.
Fairness == WF_vars(Main) /\ WF_vars(Sock)

Spec == Init /\ [][Next]_vars
FairSpec == Spec /\ Fairness

-------------------------------------------------------------------------------
(* Properties *)

\* A `restart` is served, hung worker or not, wherever the main loop was: a
\* worker younger than the command runs, unless the supervisor has stopped.
RestartServed ==
  \A n \in 0..MaxExits + MaxCommands :
    (restartFlag /\ asked = n) ~> (child > n \/ mpc = "done")

\* A crashed worker is replaced, unless someone asked the supervisor to stop.
CrashRespawned ==
  \A n \in 1..MaxExits :
    (child = n /\ proc = "dead" /\ code = "crash") ~> (child > n \/ stopFlag)

\* A worker that a command or a crash took away is followed by another.
WorkerComesBack == RestartServed /\ CrashRespawned

\* `stop` ends the supervisor, except when the socket thread looked for its
\* victim after the main loop read _stop and before it took the lock to spawn.
StopServedUnlessMissed == stopFlag ~> (mpc = "done" \/ missed)

\* supervisor.py:142 of an exit nobody asked for: "Unexpected exit (crash):
\* respawn with backoff".
UnexpectedExitRespawned ==
  \A n \in 1..MaxExits :
    (child = n /\ proc = "dead" /\ code = "escaped") ~> (child > n \/ stopFlag)

===============================================================================
