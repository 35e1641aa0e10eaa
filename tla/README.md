# Cricket: a TLA+ verification

Cricket is a bot that lives on a MUSH: it chats on channels, plays a character
in roleplay scenes through a language model, and is watched and configured from
a web panel. This directory holds TLA+ models of it, TLC configurations that
check them on small instances, and TLAPS proofs of what matters most. Every
definition is translated from the source under `src/cricket/` and, for the rented
GPU box, `src/cloud/`; the comment before each action names the function it stands
for, and `PROJECT.json` gives the lines.

    tlc -config SceneTail.cfg MCScene       # model-check
    tlapm SceneProofs.tla                   # prove

1. [The system](#1-the-system)
2. [Modules](#2-modules)
3. [Runs](#3-runs)
4. [Proofs](#4-proofs)
5. [What the code does that its documents do not say](#5-what-the-code-does-that-its-documents-do-not-say)
6. [Not modelled](#6-not-modelled)
7. [Plan](#7-plan)

## 1. The system

Two processes. The **supervisor** (`cricket supervise`) starts the **worker**
(`cricket run`), waits for it, and starts it again. In the worker one asyncio loop carries the link to
the MUSH, the router, the commands and the control socket; the web panel is a
threaded HTTP server beside the loop; two SQLite files persist profiles and
memory. Every line heard and every command is a task of its own, so a handler
runs undisturbed up to its first `await`, and the only awaits that matter are
those of the language model, which may answer at any time, in any order, or
never. A console (`cricket ctl`) attaches to the worker from a process of its own.
Apart from the bot, the cloud command line rents and returns a GPU box.

| component | state | operations | speaks with | what is hard | what makes it correct |
|---|---|---|---|---|---|
| Supervisor (`supervisor.py`, exits in `daemon.py`) | `_child`, `_stop`, `_restart`, backoff | run loop; socket thread: restart, stop; Ctrl-C | worker by SIGTERM/SIGKILL and exit status | three actors race over three fields; hung workers | never two workers, none left behind (but by a Ctrl-C inside the spawn or a second one: section 5), every restart and crash ends in a fresh worker, a stop stops |
| Connection (`mush/connection.py`, `ws_connection.py`, framing in `protocol.py`) | outbound queue, writer task, half line, framing flag, backoff | connect, login, send, write, read, close | server; router by `_on_line`/`_on_event`; probe output sets `current_room` | link lost at any point; state that outlives a link | login first and in order on each link; world lines once, in order; the link and the room come back |
| Scene (`router.py`, `commands/builtins.py`) | per room: tail, ledger, present set, nudges, consent, recall | hear, trim, distil, nudge, ask/ok/deny consent, pose, clear, `!rp on/off` | model (three kinds of await); memory store; connection | overlapping tasks over shared dictionaries | the tail is the latest of the scene; what leaves it is distilled once; no threatening pose without a recent consent |
| Chat (`router.py`, `daemon.py`) | `recent`, `muted`, `harass`, actors table, applied profile | channel line: command, remark or turn; connect notice; mute; rename | model; memory store; rate limit | turns that overlap; names that change; profile switched live | the persona is told what was said; a mute ends the chat; only admins are obeyed |
| Rate limit (`mush/actions.py`) | tokens, last | allow | chat, commands | refused calls, boundaries, rebuilds | no stretch of time sees more than its rate |
| Profiles (`profiles/store.py`, `http_api.py`, `daemon.py`) | rows, active row, derived runtime, scheduled coroutines | put, delete, activate, reload, seed, status | panel threads marshal onto the loop | lookups outside transactions, time-outs, crashes | one active row; runtime ends up that of the active row |
| Memory (`memory/store.py`) | memory and events tables, masks | log, save, recall, mask, delete, purge | loop and panel threads share one connection | statements of two threads interleave in one transaction | what returned is durable; masked stays masked; a purge leaves nothing it found |
| Persona and lore (`persona/llm.py`, `lore/`) | the active profile, dossiers, wiki index; `scene_owners`, recall | a turn: retrieve, plan, compose, clean; distil a block, a scene, a note | model; files that others rewrite; scene and chat, which hand it turns | names in many forms, from several places; a model that stops anywhere | a pose is grounded in those present and in no OOC facet; nobody who poses is puppeted; what goes out is fit to say |
| Control socket, stream, console (`control.py`, `activity.py`, `stream_server.py`, `trace.py`, `ctl.py`) | connections, subscribers, the trace file; the tail's buffer | request, dispatch, answer, time out; publish, trace, follow, reconnect | the worker that ends, and the next | a peer that dies or gives up between any two steps | what an answer says is so; the tail misses and repeats nothing; a restart happens and is survived |
| Cloud box (`cloud/`) | AWS: instances, key pair, group, bucket; the box: its job's files; laptop: `.pem`, state file, staging | provision, teardown, guard, sync-up, sync-down, run | AWS; another terminal | commands cut between two calls, or overtaking each other | no instance is left that no one sees; the box opens; an archive is whole |
| Tools, evaluations | | | | see [6](#6-not-modelled) | |

## 2. Modules

| module | what it models | lines of state |
|---|---|---|
| `Scene` | one room's scene, `MCScene` its alphabets | `rp_enabled`, `scene_queues`, `scene_ledger`, `scene_owners`, `suggestions`, `pending_consent`, `consent_granted`, `pending_recall` as `rp`, `queue`, `ledger`, `owners`, `nudges`, `pending`, `granted`, `recall` |
| `Workers`; `Supervisor` | what the threads of the supervisor and its worker share, and what is promised of the workers; the steps of main loop, socket thread and worker, each a program counter | `mpc`, `spc`, `proc` |
| `Connection` | `run()`, the writer task and the server, over either transport | `rpc`, `outq`, `writer`, `buf`, `echo`, `room`; `sock`, `wire`, `session` belong to the server |
| `RateLimit`; `Credit`, `TokenBucket` | the promise of a limit; the lazy bucket that keeps it, its state and its steps; `Rates` the constants all take | `tokens`, `last`; `level` in the promise |
| `Profiles` | database, request threads, loop, crashes | `rows`, `active`, `applied`, `jobs`, `pc` |
| `Memory` | two tables, what is committed of them, the statements each thread has left | `db`, `disk`, `todo` |
| `Chat` | channels, turns, names, mute; `MCChat` its profiles | `doc`, `setup`, `actors`, `recent`, `turns`, `muted` |
| `Lore` | operators: who is named in a text, which facet of which dossier, what the wiki index has | files and index as constants and arguments |
| `Utterance` | operators: a line of the model cleaned, a distilled note read | a line as a sequence of marks |
| `Order` | operators: places kept, first occurrences, joins, sorts, by enumerating sets of places and without recursion, so that what they return can be proved; `Lore`, `Utterance` and `Persona` are written with it | |
| `Persona` | turns over `Lore` and `Utterance`; `MCPersona` its cast, pages and lines | `profile`, `files`, `owners`, `recall`; `turn` and `prompt` are the locals of `respond` |
| `Feed` | control socket, bus, stream, trace, console and tail, from worker to worker | `requests` (one per connection), `trace`, `wire`, `buf`, `enabled`, `shown` |
| `Cloud` | two terminals that run the cloud commands, each a row of AWS calls; `MCCloud` its symmetry | `box`, `keyPair`, `sg`, `bucket`, `object`, `files`; `pem`, `state`, `staging`; `pc`, `my` |
| `SceneProofs`, `MemoryProofs`, `ChatProofs`, `ProfilesProofs`, `CloudProofs` | theorems about the module of that name | |
| `WorkerProofs` | theorems about `Feed`, and about `Supervisor` as an instance `Sup` over the state of `Workers`, which the feed does not touch | |
| `PersonaProofs` | theorems about `Persona`, and what the operators of `Order`, `Lore` and `Utterance` return | |
| `LinkProofs` | theorems about `Connection`, and about `TokenBucket` as an instance `Bucket` over the state of `Credit`, which the link does not touch | |

**Who owns what.** The modules divide the worker's state; where two meet, one
models the other's part as a choice. `Scene` saves a summary (`saved`);
`Memory` says what the store does with it, and there `!rp off` saves any part
of the scene. `Chat` lets the rate limit drop any answer; `TokenBucket` says
when it does. `Chat` treats a reconnect as the setup commands taking effect;
`Connection` says that they come after the login, in order. `Profiles` treats a
document as a version; `Chat` says what switching one does to the channels.
`Scene` and `Chat` let the model answer anything; `Persona` says what it was asked
and what is made of the answer, for a turn whose context they would have built.
`Supervisor` says when a worker is replaced; in `Feed` it is replaced whenever it
is down. `Feed` takes a command to be one of three kinds, and its answer to be that it was
done, was declined (usage, no room, consent asked for or awaited, a silent persona) or
failed; when each comes is in the module of what it changes.

**How code becomes actions.** A handler without an await is one action. A
handler with an await is two: `PoseStart` takes everything `_trigger_rp` does up
to `await respond`, and `PoseSpeaks` or `PoseSilent` what it does after. What a
handler read before its await and uses after it is kept in the record of the
task: `poses[i].last` is the last block of the list the pose took, which another
command may have replaced since (`Detached`). A thread's method is a sequence of
steps: a program counter in `Supervisor` and `Profiles`, the statements left in
`Memory`.

**Abstractions.** A line is its number. It weighs one unit of the byte budget, so
`Budget` is `rp_context_bytes` counted in lines; a block may have many lines, so
a continuation overruns the budget as it does in the code. A character is the
rank of its name, because the gate takes the first in sorted order. A nudge or
a seed is what the gate reads of it: the characters named and whether the text is
mortal. A profile document is a version in `Profiles`; in `Chat` it is locations
with their mode and admins, and `harass`. In `Persona` a text is a sequence of
words, each with its letters in lower case and whether it is capitalized, because
names are found by words, case and order; a dossier is its sections and their
sizes, a page what the index says of it; in `Utterance` a line is a sequence of
marks (words, sentence ends, the two quotes, asterisks, template tokens), because
cleaning looks at nothing else (asterisks one by one: the client
removes every `**` before `_clean_output` sees the line). In `Feed` an event is its number and a record of
the trace is whole or cut short. Time is discrete in `TokenBucket`
and absent elsewhere: a grace time or a backoff ends when it ends. Tokens are
integers, in units of `1/per` of a token, so no rounding occurs; the code's floats
agree with them up to rounding. Names for externals (the server, a rename, the
clock, SQLite's rollback) are marked external in `PROJECT.json`.

History variables (marked *history* where they are declared) record what the
code forgets, such as the lines handed to the distiller; no guard reads one.

**Mutants.** A definition such as `EndSceneKeepsGrant` or `QueuedAhead`, placed
before the one it is named after, is a slip that code could have. No action uses
it. Put in place of its neighbour it must break the property it is listed with,
which shows that the property can fail.

## 3. Runs

Every constant named *bound* exists for TLC only; the other constants are the
code's own.

| run | checks | bounds |
|---|---|---|
| `scene_tail` | `TailSound` (`TailIsLatest`, `BlocksAlternate`, `TailWithinBudget`), `HandedOnce` (`MemoryKept`, `DistilledOnce`) | 2 posers and an unattributed one, 4 lines, budget 3, 2 blocks, 1 pose in flight |
| `scene_consent` | `AsksRightly` (`ConsentConcernsAPlayer`, `AskedAgainOnlyIfReplaced`), `ConsentIsRecent` | 2 characters, 2 threats, 2 nudges, 2 poses, 1 line |
| `supervisor` | `NoStrayWorker` (`OneWorkerAtATime`, `NoWorkerLeftBehind`), `WorkerComesBack` (`RestartServed`, `CrashRespawned`), `StopServedUnlessMissed` | 3 workers that end by themselves, 3 commands, 2 Ctrl-C, backoff up to 3 |
| `connection` | `StreamsInOrder` (`CommandsInOrder`, `HeardInOrder`, `OnlyTheBannerIsGlued`), `WorldLinesRouted`, `LinkRestored` (`Reconnects`, `RoomFound`) | both transports, 2 lines, 1 command, 1 lost link, 1 move |
| `token_bucket` | `WithinRate`, `KeepsTheLimit` (refinement) | 2 lines per 3 ticks, 6 ticks, 2 reloads |
| `profiles` | `OneOrExplained` (`OneActive`, `BlankExplained`), `ActivationsSettle`, `AnswersComeTrue` (`AnsweredWhenApplied`, `RequestsEnd`) | 3 requests, 2 names, 2 versions, 1 reload, 1 crash |
| `memory` | `Durable`, `MaskKept`, `PurgeExcises` | loop and 1 panel thread, 1 rule, 2 lines, 3 operations, 1 crash |
| `chat` | `TellsTheLatest`, `MuteEndsTheChat`, `ObeysAdmins` | 2 characters, 3 names, 2 channels, 2 profiles, memory of 2 lines, 3 lines, 2 operations |
| `persona` | `InScope`, `PosersProtected`, `CastGrounded`, `LineIsFit` | 4 dossiers in 2 states, 5 pages, 2 profiles, tails of up to 2 poses (and of 5), 18 chat turns, lines of up to 4 marks of every kind, lists of 3 and 1 names |
| `feed` | `TailFaithful`, `AnswersHold`, `RestartThenTail` | 2 consoles, 2 commands, 2 workers, 2 events |
| `cloud` | `NothingLeftUnseen`, `SavedBoxOpens`, `ResultsTrusted` | 2 terminals (alike), 4 commands, 2 boxes, 2 contents, 1 fault |

A property with others in brackets is their conjunction, with a mutant for each.
Each run but `scene_consent` and `token_bucket` also checks the module's type
invariant. What each shows:

* **scene_tail.** Whatever is heard, posed on, cleared and trimmed, the tail is
  the latest lines of the scene without a hole, in blocks of alternating
  posers, one block over budget at most; and a line that leaves it has been
  handed to the distiller, once. Four lines over a budget of three and two blocks
  make both trims happen, a continuation that overruns, and an unattributed line.
  One pose in flight is enough for the stale list: another command replaces the
  list under it, and lines are heard into the new one. `MemoryKept` and
  `DistilledOnce` except exactly the steps in which the code loses or repeats a
  block (section 5).
* **scene_consent.** Two characters are what it takes for the gate to ask one and
  the pose to threaten the other; two poses, for a grant to be read by one and
  consumed by the other. Nobody is asked, and nobody holds the grant, who is not on
  the do-not-puppet set. One who has agreed may be asked again: the room keeps one grant,
  and another's ok replaces it (`builtins.py:235`). `agreed`, a history of the oks given in
  this scene since a pose last spoke, shows that nothing else makes it happen, and
  that a threatening pose starts only after an ok of one of those it threatens that
  is of this scene and that no pose which spoke has spent: an ok is not carried over a
  scene's end, a late distillation or the panel's switch, nor used twice.
* **supervisor.** All interleavings of the three actors. A restart is served at
  any moment, also by a worker that ignores SIGTERM; a stop is, unless it falls
  between the check of `_stop` and the spawn (`missed`). Ctrl-C comes at any step of the
  main loop, inside the spawn and inside the handler of the first one too; in these two
  places a worker is left (`stray`, `interrupts = 2`), and nowhere else. Three workers and three
  commands let a command arrive in every state of the main loop, twice.
* **connection.** One lost link separates a connection from the next, which is
  all a leftover can cross, and the loss may come at any line, in the middle of
  a line, or as a reset that discards what is unread. Two lines and a command
  let the loss fall inside the framing and between two lines.
* **token_bucket.** With a period that does not divide the burst, the credit takes
  every residue. `WithinRate` counts over any window, which the observer (`Watch`)
  opens at any time.
* **profiles.** Three requests are what a race of two activations with an edit or a
  removal takes. A crash may fall between any two transactions, the seeding's
  included.
* **memory.** A thread may run between any two statements of another. Two
  threads are enough for each property, which are about one method and whatever
  interferes.
* **chat.** Three lines are enough for two turns that overlap and answer in the
  other order, with a memory of two that forgets; two characters and three names
  for an admin who takes a new name while another takes the old one, and for a channel
  title that reads like the name of an admin.

* **persona.** Two of the four dossiers share a first name, the heading of one is
  not the name of its file, one has no facets and one character has no dossier; the
  pages half match each other's titles. So a name finds no dossier, one, or one of
  two, in every position: as a speaker, in a pose, in a chat line, in the memory
  lines. A dossier loses a facet, another is removed and the profile changes while
  the model is at work. A pose is prompted with no OOC facet and a chat line with no
  IC one, whatever was in the files; everyone who poses or is posed with by full name
  is on the do-not-puppet list while it has room; a speaker whose name is one
  character's brings that dossier. Four marks are what it takes to open a quote,
  close it, end a sentence and break off: after any of those lines quotes are in
  pairs, and a pose whose first quote opens, with something after it, still has a
  spoken line.
* **feed.** Two commands are one in hand while another restarts the worker; two
  workers are what half a line or half a record can cross; two events, one before
  and one after. The tail prints what it owes, once and in order; a generation seen
  is found in the trace unless it follows a record cut short; a text that reports a
  command done means it was carried out, one that reports a failure or that it was
  declined means it was not (the flag `ok` is true of both, `registry.py:73`, and says
  less), and "no response" means the worker is gone; a time-out says nothing, and the
  command typed again is done twice; an accepted
  restart ends in a new worker with the tail on it, also where the server waits for
  the connections it has (Python 3.12 and later, `waits`).
* **cloud.** Four commands are a provision, what a run needs and a run, or two
  provisions, a teardown and a guard, in any overlap; one fault is a command cut between
  any two of its calls, a spot box reclaimed, or the key file lost. Two boxes are one for
  each provision, two contents what it takes to tell an archive from the one stored
  over it. Terminals are alike (`Symmetry`), and what an ended command knew is left out of
  the state that is compared (`View`), because no step reads it again and no property
  looks at it: a property of a step looks at the commands that are running.

**Violation.** One run checks a sentence of the repository and TLC finds a
behaviour of the code against it; the finding in `PROJECT.json` quotes it. The
other sentences of this kind that were met are in section 5.

| run | says | does |
|---|---|---|
| `supervisor_task_failure` | `supervisor.py:142`, unexpected exits are respawned | an exception out of the connection task ends the worker with status 0, which is taken for a clean end |

**Fairness.** `Supervisor`: the main loop and the socket thread are threads of
an operating system that schedules them (`WF` of each); operators, Ctrl-C and the
deaths of workers are not promised. A command that came is finished because its
client waits and the grace time ends. `Connection`: the loop runs its tasks (`WF`
of `run()` and of the writer), and the server does not refuse for ever (`SF` of
`Open`, because a refused attempt disables it until the backoff ends).
`Profiles`: a request's thread is scheduled, and one that waits on the loop times
out at the latest (`WF` of the thread); nothing is assumed of the loop, which a
long lookup can block, so `RequestsEnd` holds by the time-out alone. `Feed`: the
loop runs its tasks and timers, and a command ends because the model answers or its
client raises after 120 s (`WF` of `Served`, `Restart`, `Ended`); a console stops
waiting after 30 s (`WF` of `Returned`); the supervisor respawns (`WF` of `Spawn`, as
`Supervisor` shows); the tail is a thread that tries again (`WF` of its steps).
That anyone types, turns the tail on or kills a worker is not promised. `Scene`,
`Memory`, `Chat`, `Persona`, `Cloud`: safety only; the model may never answer, and
a command may be cut anywhere.

Deadlock is checked except where the system may rest: a supervisor that has
stopped, a bot shut down, requests all answered, lines and operations used up.

## 4. Proofs

| theorem | states |
|---|---|
| `SceneProofs!TypeCorrect` | the scene's state keeps its types |
| `SceneProofs!GateAsksRightly` | `AsksRightly`, always |
| `SceneProofs!ConsentRecent` | `ConsentIsRecent`, at every step |
| `SceneProofs!TailIsSound` | `TailSound`, always: the latest of the scene, blocks of alternating posers, budget and cap |
| `SceneProofs!LinesHandedOnce` | `HandedOnce`, at every step |
| `WorkerProofs!WorkersTyped` | the shared fields keep their types |
| `WorkerProofs!OneWorkerOrNone` | `NoStrayWorker`: never two workers, none left behind, but by the two Ctrl-C it names |
| `LinkProofs!Typing` | the link's state keeps its types |
| `LinkProofs!InOrder` | `StreamsInOrder`, always: commands, world lines and what is left of half a line |
| `LinkProofs!Routing` | `WorldLinesRouted`, at every step |
| `LinkProofs!BucketTyped` | the bucket keeps its types |
| `LinkProofs!RateRespected` | `WithinRate`, always |
| `LinkProofs!BucketIsTheLimit` | the bucket implements `RateLimit` |
| `MemoryProofs!TypeCorrect` | the tables and pending statements keep their types |
| `MemoryProofs!WhatReturnsIsDurable` | `Durable`, always |
| `MemoryProofs!MasksHold` | `MaskKept`, at every step |
| `MemoryProofs!PurgesExcise` | `PurgeExcises`, at every step |
| `ChatProofs!Typing` | channels, turns and names keep their types |
| `ChatProofs!MuteHolds` | `MuteEndsTheChat`, at every step |
| `ChatProofs!OnlyAdminsObeyed` | `ObeysAdmins`, at every step, with the three exceptions it names |
| `ChatProofs!ToldTheLatest` | `TellsTheLatest`, always |
| `WorkerProofs!Typing` | requests, trace, wire and tail keep their types |
| `WorkerProofs!ToldTheTruth` | `AnswersHold`, always: of the text, not of `ok` |
| `WorkerProofs!StreamFaithful` | `TailFaithful`, always |
| `ProfilesProofs!Typing` | rows, threads and coroutines keep their types |
| `ProfilesProofs!OneProfile` | `OneOrExplained`, always |
| `ProfilesProofs!RuntimeSettles` | `ActivationsSettle`, always |
| `ProfilesProofs!AnswersAreTrue` | `AnsweredWhenApplied`, at every step: the safety half of `AnswersComeTrue` |
| `PersonaProofs!PersonaTyped` | profile, dossiers, turn and prompt keep their types, and what is put in the prompt its limits |
| `PersonaProofs!WhatGoesOut` | `LineIsFit`, always |
| `PersonaProofs!FacetsKeptApart` | `InScope`, always: facets, pages, charter and claims, not what the context says |
| `PersonaProofs!NobodyPuppeted` | `PosersProtected`, always |
| `PersonaProofs!SpeakersGrounded` | `CastGrounded`, at every step |
| `CloudProofs!Typing` | AWS, laptop and terminals keep their types |
| `CloudProofs!NothingLeft` | `NothingLeftUnseen`, at every step: of instances, and of what a guard calls clean |
| `CloudProofs!SavedOpens` | `SavedBoxOpens`, at every step |
| `CloudProofs!Trusted` | `ResultsTrusted`, at every step |

They hold for every value of the constants that the named assumptions allow:
`SceneAssumption` (characters are positive numbers, budget and caps positive),
`ConnectionAssumption` (no room is none or junk, a positive backoff),
`BucketAssumption` (naturals), `MemoryAssumption` (threads and keys are told
apart), `FeedAssumption` (naturals, at least one worker), `SupervisorAssumption`
(naturals, a positive ceiling), `ChatAssumption` (shapes of lines and profiles),
`ProfilesAssumption` (the default is a name, "no profile" is none),
`CloudAssumption` (contents and bounds are numbers; `NothingLeft` needs none of it),
`LoreAssumption` (words are ordered and each has its bare form, a bare word is its
own bare form; the stems are finitely many sequences of words; a stem has a title,
not an empty one), `PersonaAssumption` (shapes of dossiers, scenes, chat turns and
distillates; a chat turn brings no claims; the words of the labels the code itself
puts in a pose's context are words).
The bounds stay as parameters, so the theorems hold for behaviours of any length,
and neither the terminals of `Cloud` nor the panels of `Memory` need be finitely
many.

**Consent.** `AsksRightly` is inductive together with `GrantIsAgreed`: the grant the
room holds is one of the oks, and where there is none no ok is kept. `ConsentOk` copies
`pending` to the grant, so that the grant concerns a player needs that the request did;
`OwnersKept` says the present set only grows until a scene ends, where request, grant
and oks are cleared with it. That a pose starts under a recent ok (`ConsentRecent`)
follows from `GrantIsAgreed`: the gate reads the grant, the property the history, and
that the two agree is what every other action has to keep, which a grant that a pose or
a scene's end forgot to clear would break.

**Tail.** `TailInv` says of the tail that its blocks follow each other, that each has
a first line, and that after a line that is there none is missing up to the last
one heard (`Tiles`); and that all blocks but the last have been handed to the
distiller, the last not (`HandedBut`). That is what a trim relies on: it may drop
any block but the last without losing a line, and the last is handed over when the
next begins. The trim counts the positions at which the rest is too heavy and
drops that many blocks. It is right because a later position leaves less, so these
positions are the first ones and the count is where they end; `TrimmedFits` proves
it from the cardinality of unions of blocks. A line heard and a pose that comes back
to the list it took both append a line, to the last block (`GrownBlock`) or in a new
one (`NewBlock`); a pose whose list was replaced touches the tail no more, and is the
exception `HandedOnce` names.

**Supervisor.** A worker is alive only while the main loop waits for it, or is past
its end after Ctrl-C (`MayRun`), or was abandoned by the second one; a stray one only once
the loop is past its end, where nothing is spawned; the socket thread signals and buries but wakes
nobody, and `Spawn` is in none of those places.

**Link.** `Phase` ties the link to the reading loop. `Waiting` numbers what the queue
of a link that is up still holds on from what the server received, so nothing of an
earlier link can be among it. `Halves` says that half a line is the last of a
dropped link, so what is left in the buffer meets only the banner of the next one,
which the server sends before anything else. `Ordered` puts what was heard, what the
buffer keeps and what is on the wire into the order of the world, which carries over
a reconnect because what the server says later is later. `Framed` says that what
opens the framing is followed by what closes it: `Answered` needs `Waiting` for that,
since the server frames an output only when both sentinels were received, and they
are ahead in the queue of any command with output. That the framing can still be
open at a world line is left to one thing, an earlier link cut within it, which is
the exception `WorldLinesRouted` names.

**Bucket.** `WithinRate` alone is not inductive: it says nothing of credit not yet
spent. `CreditPaid` adds `Refilled`, what the bucket would hold if asked now. The
products with `Rate` are beyond the SMT solver's linear arithmetic, so `Earned`,
`EarnedByTick` and `EarnedAtOnce` state the three facts about them the proof needs.
For the refinement `level` is mapped to `Refilled`, so a tick of the abstract
allowance is a tick of the clock and a refused call is a stutter; the lemma
behind it is that refilling in two parts, capped each time, is refilling once.

**Memory.** `Durable` needs that every thread's statements left end with a commit
(`EndsInCommit`): the statement that runs last before all is quiet is then a
commit, whichever thread's. `MaskKept` needs `NewLine`: a log statement inserts
under a number no event has had, so it cannot unmask one; the panel's threads log
nothing (their methods are sequences over `Quiet`), and between the call and the
statement no other thread can make an event of that number.

`PurgeExcises` follows a purge through its four statements (`Purging`): what it has
deleted of memory stays deleted while it deletes the events. That would fail if
another thread could save the same again. `ScenesNew` excludes it: a summary is
saved under a key once, of lines no row, on disk or in the tables, or in what a
purge found, has told of; the lines of the running scene and of the one being saved
are such. A line logged meanwhile has a number the purge did not find (`FoundOK`).

**Chat.** A turn is of a line heard before the mute, if there is one (`Asked`),
because nobody is asked while it lasts and it begins after the lines heard so far.
That the actors table has the names last seen and no two characters share one
(`Known`) is what leaves a renamed admin as the only stranger a channel obeys. The
latest of a sequence is put position by position (`Ends`), where one more line
is arithmetic (`LatestOfOneMore`); what a turn was given stays the latest of what
had been said, since what is said later does not change that (`SaidBefore`). The types rest on the
same facts: a sequence that is the latest of another is no longer than the cap
(`LatestFits`).

**Feed.** `AnswersHold` looks only at what a terminal was told and is not inductive.
`Sound` says what is known of a request in each of its states: one in hand is at
the present worker and has done nothing; one that is lost is of a worker that is
gone; one that is done was sent if its worker still serves. An answer is the
state it was read in, and `Ends` loses a request only if its terminal
still waits or has given up, so what was answered before stays so
(`InvEnds`). A pose that was declined, before the model was asked or after, is in a
state of its own, from which nothing is done. `InvSpawn` needs that no request is of a worker to come.

`TailFaithful` is about what was shown and what is on the wire together. `InOrder`
says that the two go on from each other and that the wire is an interval, which ends
at the newest event while the tail is on; `NoGap` that nothing from the first event
owed is passed over; `HalfRead` that half a line in the buffer is of the next event
of the wire, which is why a read that completes it shows that event once; `Traced`
that a generation was written to the trace before it was published. A record cut short
by a crash swallows the one after it (`CutShort`), which is the exception the
property names.

**Profiles.** `One` adds to `OneOrExplained` what a daemon that starts relies on: the
seeded row is there before it is made active, and rows without an active one are
explained also while the daemon is down, since the next start does not seed again.
`Settled` says when the runtime may be another row's than the active: while an
activation is committed and not yet handed to the loop, or a reload waits in
`jobs`. Each reload reads the active row when it runs, so the last of them agrees
whatever order they came in; a reload that leaves the queue agrees by itself and
the `rp` coroutines leave it in place (`Unscheduled`). `AnsweredWhenApplied` needs
`Committed`: a coroutine in the loop is of a thread that waits or has given up, so
the commit it is answered for is no later than the one it reads; only a reload has
one of its own.

**Cloud.** What a watching command knows (`Knows`: a teardown past its wait, that no
instance is left, whatever AWS refused to delete since; a guard, that what it has
not seen is not there) stays so because only a provision makes anything and none
runs beside. That needs `Aware`: two commands that run know of each other, and
whoever is at a step of a provision is one. `OthersKnow` does the terminals that
did not move, once for all the steps.

The types bound what can be made: `Room` adds to the keys and groups that exist those
the provisions under way may still make, two for each command started, and a step
takes from the one what it gives to the other. `SavedBoxOpens` follows a provision
that nothing runs beside (`Kept`): the pair is its own, then the `.pem` is its half,
then the box has it. Where it starts, `Settled` says that pair and `.pem` belong
together, unless a provision is between the two calls or an earlier one was cut
there (`torn`). A command that changes any of this is beside the provision, so it is
not on its own (`NotAlone`). `ResultsTrusted` carries a digest from
where it is computed to where it is compared: the staging file is what was hashed
until it is uploaded (`Packed`), so what is in the bucket is what its digest says
(`Whole`), so a sync-down holds the digest of the archive that was there when it asked
(`Asked`), and what it fetched after is that archive if the digests agree. A job has on
its box what it fetched and made of it, and is not said to have succeeded before that is
stored (`Stored`). A second sync-up, or a second job on the box, that comes between a
digest and its upload breaks the chain; `mixed` remembers that it happened.

**Persona.** A turn composes filters, sorts, joins and removals of duplicates. As
folds they would be inductions over data, out of reach; `Order` defines each by the
set of places it keeps and an order on them. `Enumerated` shows, from the cardinality
of initial segments, that a finite set in a strict total order is enumerated once,
ascending; `AtIs`, `FirstsIs`, `JoinedIs` and `InOrderIs` follow, and say which items
are in the result and which comes before which. All else is reasoned from them.

`WhatGoesOut` needs of the state only that what was said is `Clean` of some line. The
stages of `Clean` are followed one by one (`StrippedIs`, `UnstarredIs`, `TrimmedIs`,
`UnwrappedIs`, `BalancedIs`). Once the asterisks are gone, what they hand on is `Kept`: the first quote opens,
and something that is no quote follows. That the trim keeps it is the point: it cuts
at a sentence end only if a quote is left; that quote is then the line's first, and as no
sentence ends with a quote that opens, what follows it is left too.

The other three need `Consistent`: while the model is asked, the prompt is `Messages`
of the turn in hand, made of some profile and some dossiers that may have been
rewritten since (`Prompted`), and the turn is one the program builds, of a finite set
of claims (`GoodTurn`), as the present set it copies is finite. So what was read
before the await and is used after it is all in one formula, and `InScope` and
`PosersProtected` are then facts about one prompt: `MemoriesAre` for the facets and
the side, `ClaimedIs`, `FullNameMentioned` and `ListedIs` for the list, which is cut
only where it is full. `RespondGrounded` follows a speaker's name from
the context through the removal of duplicates (`FirstIs`: what is kept of a name is
its first spelling, and the speakers come first), the names resolved (`LoneMentioned`)
and the cast (`CastIs`) to the dossier retrieved (`RetrieveIs`), which the stem
misses only for lack of room.

**What stays with TLC.** Liveness (`WorkerComesBack`, `StopServedUnlessMissed`,
`LinkRestored`, `RestartThenTail`, and `RequestsEnd` in `AnswersComeTrue`), because
fairness and ENABLED are out of the prover's reach. Every other invariant and action
property of the runs is a theorem. What a recursive function returns is not proved
for every input, an induction over data: the lengths of phrases, the sizes of sections
and the register of a tail stay unexpanded in the proofs of `Persona`, which hold
whatever they are. No module declares a RECURSIVE operator.

## 5. What the code does that its documents do not say

Met while modelling. Each is in the models as the code has it, and the properties
are stated so as to hold with it; where a property excepts a case, it names it.

*Scene.* (`builtins.py` unless said.) A pose that returns wipes the tail and hands
over the last block of the list it took at its start; if `!clearqueue`, another
pose or `!rp off` replaced that list meanwhile, the block is distilled twice and
the new tail is lost undistilled (374-377, 390). It also wipes nudges captured
while it was at the model, unseen (392). A pose in flight is emitted while a
consent request is pending (303; `RP-DESIGN.md:84`). Denying consent leaves the
nudge, so the next pose asks again (248-249). An ok overwrites another's, whose giver is
then asked again (235). Only the first threatened name is
asked (46-48), though the text that is posed threatens all (300-301). A
distillation that outlives its scene drops its ledger entry, and its actors join
the present set of the next scene (`router.py` 400, 415-420). `!rp off` with a
ledger saves the ledger and not the tail (102-112); while it waits for the
summariser without one, an `!rp on` that comes is undone at the end, with what was
heard since (115-132). The panel's switch sets the flag only (`daemon.py` 164-167).
`!consent-ok` is for the target, but a channel obeys admins only (624-625;
`RP-DESIGN.md:85-88`).

*Supervisor.* A stop served between the check and the spawn kills nobody and the
fresh worker runs until it ends by itself (120). The backoff is reset by a restart
or never (145). A client of the control socket that says nothing blocks later
commands (100). Ctrl-C between the fork and the assignment in `_spawn` leaves a worker that
nothing names (45), and a second one, while the handler of the first waits for the worker
to end (60-63, 163), leaves that.

*Connection.* `_buffer` outlives its link: the half line is glued to the first
line of the next, always the banner (`OnlyTheBannerIsGlued`), unless the half line
was command output, when `current_room` may be set to the two together until the
probe. The parser is one per process (`daemon.py` 95), not "One instance per
connection" (`protocol.py` 98). The setup commands are listed once
(`daemon.py` 291, 302), so a channel that a profile added later is not joined "on
each (re)connect" (250). `strip_telnet` sees chunks cut anywhere, so half a telnet
sequence is read as text. Moving without a probe leaves `current_room` stale.
Commands still queued when a link is lost are discarded, poses already in the tail
among them. `connected` stays true on telnet while the link is down.

*Profiles.* A PUT of the active profile is not applied until a reload, though
`DESIGN.md:82-83` speaks of an edit or activation. A time-out answers 500 though
the coroutine is applied later. Deleting a row between `set_active`'s lookup and
its transaction leaves no active profile; a first start that dies between seeding
and activating does too, for ever. `status_snapshot` iterates over the loop's
dictionaries from the HTTP thread and fails if a room is added (170, 179). The
identity and harass of the last profile stay in force when none is active (132).

*Memory.* (`store.py`.) A summary saved over a masked row stays masked (154,
200-202), and so does a rule learnt again after `rules clear`. A mask or a purge does
not reach the lines the running scene keeps: poses are prompted with them, and
`!rp off` saves them (244, 291). Summary and cast are two transactions.

*Chat.* An answer the limit dropped, or that went to a page, is remembered as said
(`router.py` 219-220). A mute does not survive the worker, and is not read by
`!pose` or by a turn that is already at the model (195, 217). Grants overwrite each
other, so an operator whom a location lists is an ADMIN (`daemon.py` 108-119). No
page carries a dbref, so no command in a page passes (`protocol.py` 147-153), and
`grant_name` has no caller. "Authorization gates on dbref, not name" (`auth.py` 3-5), but a
channel line also passes by its speaker's name: the one a listed admin was last seen
with, and has given up since, is obeyed from whoever bears it, on ws too, where the
speaker's own dbref does not overrule it (`router.py` 266-284); and where no dbref comes
with a line, its first word is the name (`protocol.py` 142-145), so a channel title that
reads like an admin's is. A grant for "the next pose" (`daemon.py` 73) serves
every pose that starts before the first one returns, for it is popped after the
await (`builtins.py` 393-394).

*Persona and lore.* (`llm.py`, `loader.py`, `wiki.py`.) Of the shipped dossiers,
`ak`, `darth-malign`, `ikihsa-enbzik` and `v1c3` have a heading whose kebab is not
the name of the file, so a turn that is told the heading finds no dossier, and no
nearest one either, though `loader.py` 197 calls the name "ready to pass into
retrieve()". `wiki.topics` may give one page's blurb under another's title. The bot
is in the cast of its own prompt when it is named there, and an actor whose first name
is the bot's passes the filter onto the list of those not to be puppeted. That list
is cut to the first ten in sorted order. `!pose` with no tail quotes a line of the
memory as the most recent beat. "Johanna's" is not a mention of Johanna. In chat, a line
of several quotes keeps its first and last one stripped, and a stray closing quote makes
the cut drop the last line spoken. The embedding of a query blocks the loop for
as long as it takes. The name of the model that is kept with a turn is that of the
build, not of the answer.

*Activity feed, control socket, console.* A console that waited 30 s has not
cancelled what it sent, so a retry does it twice (`ctl.py` 26). `ok` is what any handler
that returns is answered with (`registry.py` 73), also "persona stayed silent." and
"awaiting consent ..." (`builtins.py` 305-319, 367-369). Half an answer is no
JSON, which is not an `OSError`: the console exits (31). From Python 3.12 on, which
`OPERATIONS.md:120` runs, closing the control server waits for the connections it
has, so a restart is held up by a command in hand, or for ever by a client
that connects and says nothing; a pose composed then is answered "posed" though
the link is gone. A record of the trace cut short by a kill takes the next
worker's first record with it. `prompt N` counts from the newest, so a generation
that comes meanwhile shifts it. An `OSError` in the trace loses the turn. A viewer
that stops reading is buffered without a bound (`stream_server.py` 26).

*Cloud.* Re-running `provision` (`provision.py` 3: "re-running is safe") reuses a
torn `.pem` for ever. The root volume carries no tag, so the guard sees instances
and none of the volumes, keys or buckets. A second provision overwrites the first
box in the state file. Two sync-ups share one staging file, and the box does not
compare what it fetched with the manifest. `teardown` deletes the key pair and not
the file, goes on and clears the state file if AWS refuses to delete the pair
(`teardown.py` 47-51), and
does not wait for a box that was already going down, so the
security group may survive it. `run` polls for ever if the box vanishes (37),
and its job is hung up with its terminal when it is cut. A download whose object has no
digest is accepted as it is (`transfer.py` 58-65), though the same file calls it "verified
on download" (5). Two jobs on one box share its files.

## 6. Not modelled

* **Bytes.** `strip_telnet`, UTF-8 decoding, the regexes of `protocol.py`,
  Markdown, the wording of prompts and of command output: conversions that no
  property here reads.
* **The model and the index.** What the model answers is a choice. The ranking of
  vectors (`lore/vector.py`) is floats; `Persona` takes what it returns to be any one of
  the dossiers.
* **Profile documents** (`profiles/model.py`): parsing, migration, validation. `Chat`
  uses what they derive.
* **Commands that only print** or send one line (`help`, `look`, `goto`,
  `emote`, `learned`, `models`), the panel's GET routes and its page.
* **Configuration and command line.** Read once at the start.
* **What a viewer costs.** The unbounded buffer of a viewer that stops, and a client
  of the control socket that connects and sends nothing: memory and an outside
  party's silence, with no state to relate them to.
* **What a job on the box computes**, and the adapter `infer.sh` may fetch beside its
  payload: `Cloud` follows the payload to the result it becomes.
* **Session server** (`tools/mush_session_server.py`): state worth a model; planned.
* **Other tools, evaluations, data, knowledge.** Scripts and assets outside the
  running bot, sequential from input to output.

## 7. Plan

Done, in the order in which they matter: `Scene`, `Supervisor`, `Connection`,
`TokenBucket`, `Profiles`, `Memory`, `Chat`, `Persona` with `Lore` and `Utterance`,
`Feed`, `Cloud`; theorems on all of them.

Next modules:

1. `ConsentGate`: the promise that a threatening pose goes under the consent of the
   character it threatens, as an abstract specification that `Scene` implements
   with `pending`, `granted` and `owners` mapped.
2. `Telnet`: chunks of bytes cut anywhere, `strip_telnet` and the line buffer,
   against the reference that strips the whole stream at once.
3. Pages, `!help` and `_addressed_command` in `Chat`; the kv scope in `Memory`.
4. The session server.

Next theorems: that `Scene` implements `ConsentGate`; that the framing and the room a
login leaves are those of the link (`RoomFound` without its fairness); that a word which is
one character's alone, and not only the full name, puts that character on the list.
