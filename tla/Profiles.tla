-------------------------------- MODULE Profiles --------------------------------
(***************************************************************************)
(* The profile database and the runtime derived from it: the HTTP panel's  *)
(* threads, the event loop they marshal onto, and a daemon that may die    *)
(* between any two steps.  (src/cricket/http_api.py,                       *)
(* src/cricket/profiles/store.py, and _apply_active_profile,               *)
(* reload_active_profile, set_rp, status_snapshot of                       *)
(* src/cricket/daemon.py.)                                                 *)
(*                                                                         *)
(* Each HTTP request has a thread of its own.  A method of ConfigStore is  *)
(* one transaction, except set_active, which looks the name up before its  *)
(* transaction begins, and seed_default_if_empty, which is three.  A       *)
(* document is its version number; a request with an invalid body changes  *)
(* nothing and is left out.  mute and rp are marshalled alike: rp stands   *)
(* for both.                                                               *)
(***************************************************************************)
EXTENDS Naturals, Sequences, FiniteSets

CONSTANTS
  Names,      \* profile names
  Default,    \* the name the daemon seeds
  NoProfile,  \* no profile is active
  Requests,   \* HTTP requests in one behaviour
  MaxDocs,    \* bound: versions of a document
  MaxRooms,   \* bound: rooms the daemon knows
  MaxReloads, \* bound: `reload` commands
  MaxCrashes  \* bound: deaths of the daemon

ASSUME ProfilesAssumption ==
  /\ Default \in Names /\ NoProfile \notin Names
  /\ {MaxDocs, MaxRooms, MaxReloads, MaxCrashes} \subseteq Nat
  /\ MaxDocs > 0

VARIABLES
  rows,     \* the profiles table: version of each document, 0 for no row
  active,   \* the rows with is_active = 1
  bot,      \* the daemon: "down", "seeded" (row put, not active yet) or "up"
  applied,  \* active_profile and active_profile_doc
  jobs,     \* coroutines scheduled on the loop by run_coroutine_threadsafe
  rooms,    \* keys of rp_enabled and scene_queues
  pc,       \* where the thread of each request is
  name,     \* the profile a request is about
  answer,   \* what a request was answered: status and the snapshot's profile
  size,     \* keys counted when a snapshot began to iterate
  nReloads, nCrashes, \* counters for the bounds
  commits,  \* history: activations committed
  seen,     \* history: commits when the profile was last applied
  mine,     \* history: the commit of each activation
  unsettled, \* history: the active row was edited or removed since it was applied
  blanked   \* history: why there may be no active profile

reqVars == <<pc, name, answer, size, mine>>
dbVars == <<rows, active, commits>>
runVars == <<applied, seen, unsettled>>
vars == <<reqVars, dbVars, runVars, bot, jobs, rooms, nReloads, nCrashes, blanked>>

NoAnswer == [status |-> "none", profile |-> NoProfile]
Blank == [name |-> NoProfile, doc |-> 0]
\* A profile has a name and a document, or is none.
Profile == {Blank} \cup [name : Names, doc : 1..MaxDocs]
Job == [kind : {"reload", "rp"}, by : Requests]

TypeOK ==
  /\ rows \in [Names -> 0..MaxDocs]
  /\ active \subseteq Names
  /\ bot \in {"down", "seeded", "up"}
  /\ applied \in Profile
  /\ jobs \in Seq(Job)
  /\ rooms \in 0..MaxRooms
  /\ pc \in [Requests -> {"new", "commit", "marshal", "wait", "iterate", "done"}]
  /\ name \in [Requests -> Names]
  /\ answer \in [Requests -> [status : {"none", "ok", "error", "timeout", "lost"},
                              profile : Names \cup {NoProfile}]]
  /\ size \in [Requests -> 0..MaxRooms]
  /\ {nReloads, nCrashes, commits, seen} \subseteq Nat
  /\ mine \in [Requests -> Nat]
  /\ unsettled \in BOOLEAN
  /\ blanked \in BOOLEAN

Init ==
  /\ rows = [n \in Names |-> 0] /\ active = {}
  /\ bot = "down" /\ applied = Blank
  /\ jobs = <<>> /\ rooms = 0
  /\ pc = [q \in Requests |-> "new"]
  /\ name \in [Requests -> Names]
  /\ answer = [q \in Requests |-> NoAnswer]
  /\ size = [q \in Requests |-> 0]
  /\ nReloads = 0 /\ nCrashes = 0
  /\ commits = 0 /\ seen = 0 /\ mine = [q \in Requests |-> 0]
  /\ unsettled = FALSE /\ blanked = FALSE

-------------------------------------------------------------------------------
(* The daemon *)

\* What ConfigStore.active returns.
Active == IF active = {} THEN Blank
          ELSE LET n == CHOOSE n \in active : TRUE IN [name |-> n, doc |-> rows[n]]

\* Mutant of Apply: with no profile active, the old document is kept.
ApplyKeepsDoc ==
  /\ applied' = IF active = {} THEN [applied EXCEPT !.name = NoProfile] ELSE Active
  /\ seen' = commits
  /\ unsettled' = FALSE

\* _apply_active_profile, with its read of the database.
Apply ==
  /\ applied' = Active
  /\ seen' = commits
  /\ unsettled' = FALSE

\* Bot.__init__ on an empty table: the default row is put ...
Seed ==
  /\ bot = "down" /\ \A n \in Names : rows[n] = 0
  /\ bot' = "seeded"
  /\ rows' = [rows EXCEPT ![Default] = 1]
  /\ UNCHANGED <<reqVars, active, commits, runVars, jobs, rooms, nReloads, nCrashes,
                 blanked>>

\* ... and, in another transaction, made active, and the daemon goes on.
SeedActivate ==
  /\ bot = "seeded"
  /\ bot' = "up"
  /\ active' = {Default}
  /\ commits' = commits + 1
  /\ applied' = [name |-> Default, doc |-> rows[Default]]
  /\ seen' = commits' /\ unsettled' = FALSE
  /\ blanked' = FALSE
  /\ UNCHANGED <<reqVars, rows, jobs, rooms, nReloads, nCrashes>>

\* Bot.__init__ with rows in the table: what is active is applied.
Start ==
  /\ bot = "down" /\ \E n \in Names : rows[n] > 0
  /\ bot' = "up"
  /\ Apply
  /\ UNCHANGED <<reqVars, dbVars, jobs, rooms, nReloads, nCrashes, blanked>>

\* The daemon dies: threads, coroutines and the runtime are gone, the database
\* is as of the last commit.
Crash ==
  /\ bot # "down" /\ nCrashes < MaxCrashes
  /\ nCrashes' = nCrashes + 1
  /\ bot' = "down" /\ applied' = Blank
  /\ jobs' = <<>> /\ rooms' = 0
  /\ pc' = [q \in Requests |-> IF pc[q] = "new" THEN "new" ELSE "done"]
  /\ answer' = [q \in Requests |->
       IF pc[q] \in {"new", "done"} THEN answer[q]
       ELSE [status |-> "lost", profile |-> NoProfile]]
  /\ blanked' = (blanked \/ bot = "seeded")
  /\ UNCHANGED <<dbVars, name, size, mine, seen, unsettled, nReloads>>

\* cmd_reload, on the loop.
Reload ==
  /\ bot = "up" /\ nReloads < MaxReloads
  /\ nReloads' = nReloads + 1
  /\ Apply
  /\ UNCHANGED <<reqVars, dbVars, bot, jobs, rooms, nCrashes, blanked>>

\* The first coroutine scheduled runs to its end on the loop, and its thread, if
\* it still waits, gets the snapshot.
LoopRuns ==
  /\ bot = "up" /\ jobs # <<>>
  /\ jobs' = Tail(jobs)
  /\ IF Head(jobs).kind = "reload"
     THEN Apply /\ UNCHANGED rooms
     ELSE /\ rooms' \in {rooms} \cup ({rooms + 1} \cap 0..MaxRooms)
          /\ UNCHANGED runVars
  /\ LET q == Head(jobs).by
     IN  IF pc[q] = "wait"
         THEN /\ pc' = [pc EXCEPT ![q] = "done"]
              /\ answer' = [answer EXCEPT ![q] =
                              [status |-> "ok", profile |-> applied'.name]]
         ELSE UNCHANGED <<pc, answer>>
  /\ UNCHANGED <<dbVars, name, size, mine, bot, nReloads, nCrashes, blanked>>

-------------------------------------------------------------------------------
(* The requests *)

Reply(q, status) ==
  /\ pc' = [pc EXCEPT ![q] = "done"]
  /\ answer' = [answer EXCEPT ![q] = [status |-> status, profile |-> NoProfile]]

\* PUT /api/profiles/name: the document only, in the thread.
Put(q) ==
  /\ bot = "up" /\ pc[q] = "new" /\ rows[name[q]] < MaxDocs
  /\ rows' = [rows EXCEPT ![name[q]] = @ + 1]
  /\ unsettled' = (unsettled \/ name[q] \in active)
  /\ Reply(q, "ok")
  /\ UNCHANGED <<active, commits, applied, seen, name, size, mine, bot, jobs, rooms,
                 nReloads, nCrashes, blanked>>

\* DELETE /api/profiles/name: the active row too.
Delete(q) ==
  /\ bot = "up" /\ pc[q] = "new"
  /\ rows' = [rows EXCEPT ![name[q]] = 0]
  /\ active' = active \ {name[q]}
  /\ unsettled' = (unsettled \/ name[q] \in active)
  /\ blanked' = (blanked \/ name[q] \in active)
  /\ Reply(q, "ok")
  /\ UNCHANGED <<commits, applied, seen, name, size, mine, bot, jobs, rooms,
                 nReloads, nCrashes>>

\* POST /api/profiles/name/activate: set_active looks the row up ...
Activate(q) ==
  /\ bot = "up" /\ pc[q] = "new"
  /\ IF rows[name[q]] = 0 THEN Reply(q, "error")
     ELSE /\ pc' = [pc EXCEPT ![q] = "commit"]
          /\ UNCHANGED answer
  /\ UNCHANGED <<dbVars, runVars, name, size, mine, bot, jobs, rooms, nReloads,
                 nCrashes, blanked>>

\* Mutant of Activated: is_active is not cleared first.
ActivatedToo(n) == active \cup {n}

\* Mutant of Activated: the rows are cleared last.
ActivatedNone(n) == {}

\* The rows active after both UPDATEs of set_active: none, if the row was
\* deleted meanwhile.
Activated(n) == IF rows[n] > 0 THEN {n} ELSE {}

\* Mutant of Commit: the answer does not wait for the loop.
CommitAnswers(q) ==
  /\ pc[q] = "commit"
  /\ Reply(q, "ok")
  /\ active' = Activated(name[q])
  /\ commits' = commits + 1
  /\ mine' = [mine EXCEPT ![q] = commits']
  /\ jobs' = Append(jobs, [kind |-> "reload", by |-> q])
  /\ blanked' = (rows[name[q]] = 0)
  /\ UNCHANGED <<rows, runVars, name, size, bot, rooms, nReloads, nCrashes>>

\* ... its transaction ...
Commit(q) ==
  /\ pc[q] = "commit"
  /\ pc' = [pc EXCEPT ![q] = "marshal"]
  /\ active' = Activated(name[q])
  /\ commits' = commits + 1
  /\ mine' = [mine EXCEPT ![q] = commits']
  /\ blanked' = (rows[name[q]] = 0)
  /\ UNCHANGED <<rows, runVars, name, answer, size, bot, jobs, rooms, nReloads, nCrashes>>

\* ... then the reload is scheduled on the loop.
Marshal(q) ==
  /\ pc[q] = "marshal"
  /\ pc' = [pc EXCEPT ![q] = "wait"]
  /\ jobs' = Append(jobs, [kind |-> "reload", by |-> q])
  /\ UNCHANGED <<dbVars, runVars, name, answer, size, mine, bot, rooms, nReloads,
                 nCrashes, blanked>>

\* POST /api/rp (or mute).
SetRp(q) ==
  /\ bot = "up" /\ pc[q] = "new"
  /\ pc' = [pc EXCEPT ![q] = "wait"]
  /\ jobs' = Append(jobs, [kind |-> "rp", by |-> q])
  /\ UNCHANGED <<dbVars, runVars, name, answer, size, mine, bot, rooms, nReloads,
                 nCrashes, blanked>>

\* Mutant of Timeout: the coroutine is cancelled.
TimeoutCancels(q) ==
  /\ pc[q] = "wait"
  /\ Reply(q, "timeout")
  /\ jobs' = SelectSeq(jobs, LAMBDA j : j.by # q)
  /\ UNCHANGED <<dbVars, runVars, name, size, mine, bot, rooms, nReloads, nCrashes,
                 blanked>>

\* Mutant of Timeout: the thread waits for ever.
TimeoutNever(q) == FALSE

\* result(timeout=5) gives up; the coroutine stays scheduled.
Timeout(q) ==
  /\ pc[q] = "wait"
  /\ Reply(q, "timeout")
  /\ UNCHANGED <<dbVars, runVars, name, size, mine, bot, jobs, rooms, nReloads,
                 nCrashes, blanked>>

\* GET /api/status: status_snapshot iterates over the loop's dicts from the
\* thread ...
Status(q) ==
  /\ bot = "up" /\ pc[q] = "new"
  /\ pc' = [pc EXCEPT ![q] = "iterate"]
  /\ size' = [size EXCEPT ![q] = rooms]
  /\ UNCHANGED <<dbVars, runVars, name, answer, mine, bot, jobs, rooms, nReloads,
                 nCrashes, blanked>>

\* ... and fails if a key was added meanwhile.
StatusEnds(q) ==
  /\ pc[q] = "iterate"
  /\ Reply(q, IF rooms = size[q] THEN "ok" ELSE "error")
  /\ UNCHANGED <<dbVars, runVars, name, size, mine, bot, jobs, rooms, nReloads,
                 nCrashes, blanked>>

-------------------------------------------------------------------------------
Request(q) == Put(q) \/ Delete(q) \/ Activate(q) \/ SetRp(q) \/ Status(q)
Thread(q) == Commit(q) \/ Marshal(q) \/ StatusEnds(q) \/ Timeout(q)
Daemon == Seed \/ SeedActivate \/ Start \/ LoopRuns
Next ==
  \/ Daemon \/ Crash \/ Reload
  \/ \E q \in Requests : Request(q) \/ Thread(q)

\* Threads are scheduled, and one that waits times out at the latest.  The loop
\* may be busy for as long as it likes: a semantic lookup blocks it.
Fairness == \A q \in Requests : WF_vars(Thread(q))

Spec == Init /\ [][Next]_vars
FairSpec == Spec /\ Fairness

-------------------------------------------------------------------------------
(* Properties *)

\* At most one row is active, and it is a row (store.py:5), whatever requests
\* race and wherever the daemon dies.
OneActive ==
  /\ Cardinality(active) <= 1
  /\ \A n \in active : rows[n] > 0

\* No activation is on its way to the loop.
Quiet == bot = "up" /\ jobs = <<>> /\ \A q \in Requests : pc[q] \notin {"commit", "marshal"}

\* Once the activations in flight are done, the runtime is that of the row that
\* is active, in whatever order they committed and ran, those that timed out or
\* lost their row included: only an edit or removal of that row itself parts
\* them.
ActivationsSettle == Quiet /\ ~unsettled => applied = Active

\* An activation answered 200 has been applied: the runtime was derived from
\* the database after that activation's commit.
AnsweredWhenApplied ==
  [][\A q \in Requests :
       answer[q].status = "none" /\ answer'[q].status = "ok"
         => seen' >= mine'[q]]_vars

\* A daemon never runs without a profile unless the active one was deleted, an
\* activation lost its row, or a first start died half way through the seeding.
BlankExplained == bot = "up" /\ active = {} => blanked

\* There is one active profile, or none for a reason.
OneOrExplained == OneActive /\ BlankExplained

\* Every request is answered, or dies with the daemon, however busy the loop is.
RequestsEnd == \A q \in Requests : pc[q] # "new" ~> pc[q] = "done"

\* Every request is answered, and a 200 to an activation is true.
AnswersComeTrue == AnsweredWhenApplied /\ RequestsEnd
===============================================================================
