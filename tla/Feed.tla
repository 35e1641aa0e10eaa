---------------------------------- MODULE Feed ----------------------------------
(***************************************************************************)
(* The two loopback sockets of the worker and the console that uses them:  *)
(* the control socket (control.py), one request and one answer, and the    *)
(* activity stream (activity.py, stream_server.py), every event to whoever *)
(* is subscribed; the trace they have in common with the persona           *)
(* (trace.py); and cricket-ctl (ctl.py), a terminal that sends commands    *)
(* and a tail that follows the stream from worker to worker.               *)
(*                                                                         *)
(* Events are numbered as they are published.  A command is one of three:  *)
(* "mute" stands for what is done at once, "pose" waits for the model,     *)
(* "restart" ends the worker a little later.  An answer is what its text   *)
(* says: the `ok` beside it is true of any handler that returns, also of   *)
(* one that did not do what it was asked ("declined").                     *)
(* The supervisor (see Supervisor) is here what starts the next worker.    *)
(***************************************************************************)
EXTENDS Integers, Sequences, SequencesExt, FiniteSetsExt

CONSTANTS
  Terminals,    \* bound: how many terminals send commands
  MaxWorkers,   \* bound: workers one after another
  MaxEvents,    \* bound: events published
  MaxRequests   \* bound: commands typed

ASSUME FeedAssumption ==
  Terminals \in Nat /\ MaxWorkers \in Nat \ {0} /\ MaxEvents \in Nat /\ MaxRequests \in Nat

Commands == {"mute", "pose", "restart"}
Answers == {"done", "declined", "failed"}

VARIABLES
  waits,     \* a server that closes waits for its connections (Python 3.12 and later)
  worker,    \* "up", "ending" (its tasks cancelled), "down"
  number,    \* which worker it is
  due,       \* a restart is scheduled
  requests,  \* the commands typed, each with the worker it went to and what became of it
  trace,     \* the trace file: records, a record cut short having no line end
  events,    \* how many there were
  made,      \* history: those of them that are generations
  tail,      \* "apart", "linked" (accepted by the system), "on", "cut" (the worker is gone)
  wire,      \* events pushed to the tail and not read
  buf,       \* the event the tail has read one half of, or 0
  enabled,   \* "tail on"
  shown,     \* what the tail has printed
  since      \* history: the first event the tail owes, 0 while it is off

console == <<tail, wire, buf, enabled, shown, since>>
vars == <<waits, worker, number, due, requests, trace, events, made, console>>

Init ==
  /\ waits \in BOOLEAN /\ worker = "up" /\ number = 1 /\ due = FALSE
  /\ requests = <<>> /\ trace = <<>> /\ events = 0 /\ made = {}
  /\ tail = "apart" /\ wire = <<>> /\ buf = 0 /\ enabled \in BOOLEAN
  /\ shown = <<>> /\ since = IF enabled THEN 1 ELSE 0

Waiting == {r \in DOMAIN requests : requests[r].out = "waiting"}
\* The requests a worker has in hand, and the connections it has open.
InHand == {r \in DOMAIN requests : requests[r].state \in {"sent", "running"}}
Open == InHand \cup {r \in Waiting : requests[r].worker = number}

-------------------------------------------------------------------------------
(* Events *)

\* publish_event, to whoever is subscribed
Pushed(n) == IF tail = "on" THEN Append(wire, n) ELSE wire

\* _load_generations: the lines that can be read; a record that follows one cut
\* short is on its line and goes with it.
Generations ==
  {trace[i].id : i \in {j \in DOMAIN trace : trace[j].whole /\ (j > 1 => trace[j - 1].whole)}}

\* A line heard or sent.
Publish ==
  /\ worker = "up" /\ events < MaxEvents
  /\ events' = events + 1 /\ wire' = Pushed(events')
  /\ UNCHANGED <<waits, worker, number, due, requests, trace, made, tail, buf, enabled, shown, since>>

-------------------------------------------------------------------------------
(* The control socket *)

\* A terminal sends a command, or is told that there is no connection.
Request(cmd) ==
  /\ Len(requests) < MaxRequests
  /\ Cardinality(Waiting) < Terminals
  /\ cmd = "restart" => number < MaxWorkers
  /\ requests' = Append(requests,
       [cmd |-> cmd, did |-> FALSE, sent |-> FALSE,
        worker |-> IF worker = "up" THEN number ELSE 0,
        state |-> IF worker = "up" THEN "sent" ELSE "refused",
        out |-> IF worker = "up" THEN "waiting" ELSE "error"])
  /\ UNCHANGED <<waits, worker, number, due, trace, events, made, console>>

\* mutant: the command is a task of its own and the answer does not wait for it
DispatchAtOnce(r) ==
  /\ worker # "down" /\ requests[r].state = "sent"
  /\ requests' = [requests EXCEPT ![r].state = "done", ![r].did = requests[r].cmd # "pose"]
  /\ due' = (due \/ requests[r].cmd = "restart")
  /\ UNCHANGED <<waits, worker, number, trace, events, made, console>>

\* _handle_request: what does not wait is done and answered.
Dispatch(r) ==
  /\ worker # "down" /\ requests[r].state = "sent"
  /\ requests' = IF requests[r].cmd = "pose" THEN [requests EXCEPT ![r].state = "running"]
                 ELSE [requests EXCEPT ![r].state = "done", ![r].did = TRUE]
  /\ due' = (due \/ requests[r].cmd = "restart")
  /\ UNCHANGED <<waits, worker, number, trace, events, made, console>>

\* The handler returns having done nothing: the usage, no room, a consent asked for
\* or still awaited.
Declined(r) ==
  /\ worker # "down" /\ requests[r].state = "sent" /\ requests[r].cmd # "restart"
  /\ requests' = [requests EXCEPT ![r].state = "declined"]
  /\ UNCHANGED <<waits, worker, number, due, trace, events, made, console>>

\* TurnTracer.emit: the record, then the event.
Emitted ==
  /\ events < MaxEvents
  /\ events' = events + 1 /\ made' = made \cup {events'} /\ wire' = Pushed(events')
  /\ trace' = Append(trace, [id |-> events', whole |-> TRUE])

\* mutant: whatever the model answers, the pose is reported
SilentReported(r) ==
  /\ worker # "down" /\ requests[r].state = "running"
  /\ Emitted
  /\ requests' = [requests EXCEPT ![r].state = "done"]
  /\ UNCHANGED <<waits, worker, number, due, tail, buf, enabled, shown, since>>

\* The model has answered nothing: traced all the same, "persona stayed silent."
Silent(r) ==
  /\ worker # "down" /\ requests[r].state = "running"
  /\ Emitted
  /\ requests' = [requests EXCEPT ![r].state = "declined"]
  /\ UNCHANGED <<waits, worker, number, due, tail, buf, enabled, shown, since>>

\* The model has answered: traced, then published, then sent to the game, where it
\* arrives if the link is still being served.
Composed(r) ==
  /\ worker # "down" /\ requests[r].state = "running"
  /\ Emitted
  /\ requests' = [requests EXCEPT ![r].state = "done", ![r].did = TRUE, ![r].sent = worker = "up"]
  /\ UNCHANGED <<waits, worker, number, due, tail, buf, enabled, shown, since>>

\* The model, or the trace, fails: "Error: ..." is the answer.
Failed(r) ==
  /\ worker # "down" /\ requests[r].state = "running"
  /\ requests' = [requests EXCEPT ![r].state = "failed"]
  /\ UNCHANGED <<waits, worker, number, due, trace, events, made, console>>

\* _send_command returns the answer, whichever worker is there by now.
Reply(r) ==
  /\ requests[r].out = "waiting" /\ requests[r].state \in Answers
  /\ requests' = [requests EXCEPT ![r].out = requests[r].state]
  /\ UNCHANGED <<waits, worker, number, due, trace, events, made, console>>

\* The connection ends without a line: "no response" (or half an answer, which is
\* no JSON and ends the terminal).
NoReply(r) ==
  /\ requests[r].out = "waiting" /\ requests[r].state = "lost"
  /\ requests' = [requests EXCEPT ![r].out = "no response"]
  /\ UNCHANGED <<waits, worker, number, due, trace, events, made, console>>

\* Thirty seconds without an answer; the command goes on.
TimedOut(r) ==
  /\ requests[r].out = "waiting" /\ requests[r].state # "lost"
  /\ requests' = [requests EXCEPT ![r].out = "error"]
  /\ UNCHANGED <<waits, worker, number, due, trace, events, made, console>>

-------------------------------------------------------------------------------
(* The worker ends, and the next one *)

\* request_restart, 0.3 s after the answer: the link and the control socket end.
Restart ==
  /\ worker = "up" /\ due
  /\ worker' = "ending" /\ due' = FALSE
  /\ UNCHANGED <<waits, number, requests, trace, events, made, console>>

\* What was in hand is lost with the worker, what was not yet sent too; the
\* sockets carry what the system has.
Ends ==
  /\ worker' = "down" /\ due' = FALSE
  /\ \E unsent \in SUBSET {r \in Waiting \ InHand : requests[r].worker = number} :
       requests' = [r \in DOMAIN requests |->
                      IF r \in InHand \cup unsent
                      THEN [requests[r] EXCEPT !.state = "lost"] ELSE requests[r]]
  /\ IF tail = "on"
     THEN /\ tail' = "cut"
          /\ \E n \in 0..Len(wire) : wire' = SubSeq(wire, 1, n)
     ELSE tail' = (IF tail = "linked" THEN "apart" ELSE tail) /\ UNCHANGED wire
  /\ UNCHANGED <<waits, number, buf, enabled, shown, since>>

\* mutant: a worker that is left with its commands at hand
EndedLeavingThem ==
  /\ worker = "ending"
  /\ worker' = "down" /\ due' = FALSE
  /\ tail' = (IF tail = "on" THEN "cut" ELSE IF tail = "linked" THEN "apart" ELSE tail)
  /\ UNCHANGED <<waits, number, requests, trace, events, made, wire, buf, enabled, shown, since>>

\* run() returns once the connections are closed, or, before 3.12, at once.
Ended ==
  /\ worker = "ending" /\ (waits => Open = {})
  /\ Ends
  /\ UNCHANGED <<trace, events, made>>

\* The worker dies, or is terminated, at any time.
Killed ==
  /\ worker # "down" /\ number < MaxWorkers
  /\ Ends
  /\ UNCHANGED <<trace, events, made>>

\* mutant: the viewers are told first
KilledHavingPublished ==
  /\ worker # "down" /\ number < MaxWorkers
  /\ (\E r \in InHand : requests[r].state = "running") /\ events < MaxEvents
  /\ events' = events + 1 /\ made' = made \cup {events'}
  /\ worker' = "down" /\ due' = FALSE
  /\ requests' = [r \in DOMAIN requests |->
                    IF r \in InHand THEN [requests[r] EXCEPT !.state = "lost"] ELSE requests[r]]
  /\ tail' = (IF tail = "on" THEN "cut" ELSE IF tail = "linked" THEN "apart" ELSE tail)
  /\ wire' = Pushed(events')
  /\ UNCHANGED <<waits, number, trace, buf, enabled, shown, since>>

\* It dies in TurnTracer.emit: the record is on disk, whole or not, and no viewer
\* has been told.
KilledTracing ==
  /\ worker # "down" /\ number < MaxWorkers
  /\ (\E r \in InHand : requests[r].state = "running") /\ events < MaxEvents
  /\ events' = events + 1 /\ made' = made \cup {events'}
  /\ \E whole \in BOOLEAN : trace' = Append(trace, [id |-> events', whole |-> whole])
  /\ Ends

\* The supervisor's respawn
Spawn ==
  /\ worker = "down" /\ number < MaxWorkers
  /\ worker' = "up" /\ number' = number + 1
  /\ UNCHANGED <<waits, due, requests, trace, events, made, console>>

-------------------------------------------------------------------------------
(* The tail *)

rest == <<waits, worker, number, due, requests, trace, events, made>>

\* The system accepts the connection before the worker does.
Link ==
  /\ tail = "apart" /\ worker # "down"
  /\ tail' = "linked"
  /\ UNCHANGED <<rest, wire, buf, enabled, shown, since>>

\* _on_client: what was published before is not seen.
Subscribe ==
  /\ tail = "linked"
  /\ tail' = "on" /\ since' = IF enabled THEN events + 1 ELSE 0
  /\ UNCHANGED <<rest, wire, buf, enabled, shown>>

\* recv gives some lines, and perhaps one half of another.  A line that begins
\* with the half of another is no JSON.
Receive ==
  /\ wire # <<>>
  /\ \E n \in 0..Len(wire) : \E half \in BOOLEAN :
       /\ half => n < Len(wire)
       /\ n = 0 => half
       /\ LET lines == SubSeq(wire, 1, n)
              sound == IF n > 0 /\ buf \notin {0, wire[1]} THEN Tail(lines) ELSE lines
          IN  shown' = IF enabled THEN shown \o sound ELSE shown
       /\ wire' = SubSeq(wire, n + 1, Len(wire))
       /\ buf' = IF half /\ (n > 0 \/ buf = 0) THEN wire[n + 1] ELSE IF n > 0 THEN 0 ELSE buf
  /\ UNCHANGED <<rest, tail, enabled, since>>

\* mutant: the buffer is made once, not once a connection
HangUpWithHalf ==
  /\ tail = "cut" /\ wire = <<>>
  /\ tail' = "apart"
  /\ UNCHANGED <<rest, wire, buf, enabled, shown, since>>

\* mutant: the tail ends with the stream
HangUpForGood ==
  /\ tail = "cut" /\ wire = <<>>
  /\ tail' = "cut" /\ buf' = 0
  /\ UNCHANGED <<rest, wire, enabled, shown, since>>

\* The end of the stream: in two seconds the tail tries again.
HangUp ==
  /\ tail = "cut" /\ wire = <<>>
  /\ tail' = "apart" /\ buf' = 0
  /\ UNCHANGED <<rest, wire, enabled, shown, since>>

\* "tail on", "tail off"
Toggle ==
  /\ enabled' = ~enabled
  /\ since' = IF enabled THEN 0 ELSE IF wire = <<>> THEN events + 1 ELSE wire[1]
  /\ UNCHANGED <<rest, tail, wire, buf, shown>>

-------------------------------------------------------------------------------
Typed == \E cmd \in Commands : Request(cmd)
Served ==
  \E r \in DOMAIN requests :
    Dispatch(r) \/ Declined(r) \/ Composed(r) \/ Silent(r) \/ Failed(r)
Returned == \E r \in DOMAIN requests : Reply(r) \/ NoReply(r) \/ TimedOut(r)

Next ==
  \/ Publish \/ Typed \/ Served \/ Returned
  \/ Restart \/ Ended \/ Killed \/ KilledTracing \/ Spawn
  \/ Link \/ Subscribe \/ Receive \/ HangUp \/ Toggle

\* The loop runs its timers and tasks, the model answers or fails, a terminal
\* waits thirty seconds at most, the supervisor respawns, the tail tries again.
Fairness ==
  /\ WF_vars(Served) /\ WF_vars(Returned)
  /\ WF_vars(Restart) /\ WF_vars(Ended) /\ WF_vars(Spawn)
  /\ WF_vars(Link) /\ WF_vars(Subscribe) /\ WF_vars(Receive) /\ WF_vars(HangUp)

Spec == Init /\ [][Next]_vars /\ Fairness

-------------------------------------------------------------------------------
(* Properties *)

\* The types; a worker that is gone
\* has nothing in hand and no restart to come.
TypeOK ==
  /\ worker \in {"up", "ending", "down"} /\ number \in 1..MaxWorkers /\ events \in 0..MaxEvents
  /\ tail \in {"apart", "linked", "on", "cut"} /\ buf \in 0..MaxEvents
  /\ tail \in {"apart", "linked"} => wire = <<>>
  /\ due => worker # "down"
  /\ Cardinality(Waiting) <= Terminals
  /\ \A r \in InHand : worker # "down" /\ requests[r].worker = number
  /\ made \subseteq 1..events /\ {trace[i].id : i \in DOMAIN trace} \subseteq made

\* "Any client that connects receives every subsequent activity event"
\* (stream_server.py:1), "so live viewers see generations as they happen -- in
\* addition to the durable JSONL" (trace.py:29): while it is on, the tail prints
\* all events from the first it owes, once each and in order, up to where the
\* worker died, whatever earlier connections ended with; and a generation it has
\* printed is in the trace, where `prompt` finds it unless the record before it was
\* cut short.
TailFaithful ==
  LET passed == shown \o wire
  IN  /\ \A i \in 2..Len(passed) : passed[i - 1] < passed[i]
      /\ enabled => \E m \in since - 1..events :
                      /\ {n \in ToSet(passed) : n >= since} = since..m
                      /\ ToSet(wire) \subseteq since..m
                      /\ tail = "on" => m = events
      /\ \A n \in ToSet(shown) \cap made :
           \E i \in DOMAIN trace :
             trace[i].id = n /\ (n \in Generations \/ (i > 1 /\ ~trace[i - 1].whole))

\* What a terminal is told is so: that a command is done, that it was carried out
\* (and, if its worker still serves the game, sent there); that it failed, was
\* refused or was not done ("awaiting consent for ...", "persona stayed silent."),
\* that it was not; "no response", that its worker is gone.  A time-out says nothing.
AnswersHold ==
  \A r \in DOMAIN requests :
    LET q == requests[r]
    IN  /\ q.out = "done" => q.did /\ (q.cmd = "pose" /\ q.worker = number /\ worker = "up" => q.sent)
        /\ q.out \in {"failed", "declined"} \/ q.state = "refused" => ~q.did
        /\ q.out = "no response" => q.worker < number \/ worker = "down"

\* "Reconnects if the daemon restarts" (ctl.py:38): a restart that was accepted
\* takes place, with commands in hand and terminals that wait, and the tail is on
\* the next worker.
RestartThenTail ==
  \A n \in 1..(MaxWorkers - 1) : number = n /\ due ~> number > n /\ tail = "on"
===============================================================================
