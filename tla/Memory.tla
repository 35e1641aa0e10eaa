--------------------------------- MODULE Memory ---------------------------------
(***************************************************************************)
(* The memory store: one SQLite connection that the event loop and the     *)
(* HTTP panel's threads share without a lock.  (src/cricket/memory/        *)
(* store.py; its callers in src/cricket/http_api.py,                       *)
(* src/cricket/commands/builtins.py and src/cricket/router.py.)            *)
(*                                                                         *)
(* Each method is a few statements, each followed by a commit, and another *)
(* thread may run between any two of them; the transaction is the          *)
(* connection's, so a commit makes durable what any thread has executed.   *)
(* The daemon may die at any point: what was not committed is gone.        *)
(*                                                                         *)
(* One room.  An event is the number of its line; a summary or a cast is   *)
(* the lines of the scene it was made of.  The actors table, which only    *)
(* the loop touches, and the kv scope, which nobody writes, are left out;  *)
(* Scene models what the waits of `!rp off` do to the scene.               *)
(***************************************************************************)
EXTENDS Naturals, Sequences

CONSTANTS
  Panels,    \* the panel's request threads
  Rules,     \* keys of the standing directives the model may distil
  MaxLines,  \* bound: lines heard
  MaxOps,    \* bound: rules learnt, cleared, and surgery, on any thread
  MaxCrashes \* bound: deaths of the daemon

ASSUME MemoryAssumption ==
  /\ {MaxLines, MaxOps, MaxCrashes} \subseteq Nat
  /\ {"loop", "summary", "cast"} \cap (Panels \cup Rules) = {}

VARIABLES
  db,       \* the tables as the connection sees them
  disk,     \* the tables as of the last commit
  todo,     \* statements left of the method each thread is in
  rp,       \* rp_enabled[room]
  scene,    \* the lines of scene_queues[room] and scene_ledger[room]
  recalled, \* the lines pending_recall[room] tells of
  nLines, nOps, nCrashes, \* counters for the bounds
  found     \* history: what the purge a thread is in found when it began

tables == <<db, disk, todo>>
room == <<rp, scene, recalled>>
vars == <<tables, room, nLines, nOps, nCrashes, found>>

Thread == {"loop"} \cup Panels
Ids == 1..MaxLines
Scene == {"summary", "cast"}  \* keys of the rows of scope "scene"
Key == Scene \cup Rules       \* the rules are those of scope "directive"

\* What a method may be asked to touch: a scope, or one key of it.
Groups == {Scene, Rules} \cup {{k} : k \in Key}

\* A row of the memory table, of the lines its value tells of: {0} for a rule,
\* whose value is its key.  NoRow is no row.
NoRow == [of |-> {}, masked |-> FALSE]
Row == {NoRow} \cup [of : (SUBSET Ids) \ {{}}, masked : BOOLEAN]
Rule == {NoRow} \cup [of : {{0}}, masked : BOOLEAN]

Absent == "absent"
Event == {Absent, "plain", "masked"}

IsTables(d) ==
  /\ d \in [mem : [Key -> Row \cup Rule], events : [Ids -> Event]]
  /\ \A k \in Scene : d.mem[k] \in Row
  /\ \A k \in Rules : d.mem[k] \in Rule

NothingFound == [mem |-> [k \in Key |-> {}], events |-> {}]

\* A statement of a method, or the commit after it.
Commit == [op |-> "commit"]
Statement ==
  [op : {"log"}, id : Ids]
  \cup [op : {"remember"}, key : Scene, lines : (SUBSET Ids) \ {{}}]
  \cup [op : {"remember"}, key : Rules, lines : {{0}}]
  \cup [op : {"mask"}, keys : SUBSET Key, b : BOOLEAN]
  \cup [op : {"maskEvent"}, id : Ids, b : BOOLEAN]
  \cup [op : {"delete"}, keys : SUBSET Key]
  \cup [op : {"deleteEvents"}] \cup {Commit}

TypeOK ==
  /\ todo \in [Thread -> Seq(Statement)]
  /\ IsTables(db) /\ IsTables(disk)
  /\ rp \in BOOLEAN
  /\ scene \subseteq Ids /\ recalled \subseteq Ids
  /\ nLines \in 0..MaxLines /\ nOps \in 0..MaxOps /\ nCrashes \in 0..MaxCrashes

Init ==
  /\ db = [mem |-> [k \in Key |-> NoRow], events |-> [i \in Ids |-> Absent]]
  /\ disk = db
  /\ todo = [t \in Thread |-> <<>>]
  /\ rp = FALSE /\ scene = {} /\ recalled = {}
  /\ nLines = 0 /\ nOps = 0 /\ nCrashes = 0
  /\ found = [t \in Thread |-> NothingFound]

-------------------------------------------------------------------------------
(* The statements, and the methods that are made of them *)

\* Mutant of Upserted: the row is replaced, its mask with it.
UpsertReplaces(mem, k, lines) == [mem EXCEPT ![k] = [of |-> lines, masked |-> FALSE]]

\* INSERT, or UPDATE of the value alone: a masked row stays masked.
Upserted(mem, k, lines) == [mem EXCEPT ![k] = [of |-> lines, masked |-> @.masked]]

\* Mutant of Masked: a mask is kept of rows there are not.
MaskedUpserts(mem, keys, b) ==
  [k \in Key |-> IF k \in keys THEN [mem[k] EXCEPT !.masked = b] ELSE mem[k]]

\* UPDATE of the rows there are.
Masked(mem, keys, b) ==
  [k \in Key |->
    IF k \in keys /\ mem[k] # NoRow THEN [mem[k] EXCEPT !.masked = b] ELSE mem[k]]

\* The tables after statement s.
Executed(d, s) ==
  CASE s.op = "log" -> [d EXCEPT !.events[s.id] = "plain"]
    [] s.op = "remember" -> [d EXCEPT !.mem = Upserted(@, s.key, s.lines)]
    [] s.op = "mask" -> [d EXCEPT !.mem = Masked(@, s.keys, s.b)]
    [] s.op = "delete" ->
         [d EXCEPT !.mem = [k \in Key |-> IF k \in s.keys THEN NoRow ELSE @[k]]]
    [] s.op = "maskEvent" ->
         [d EXCEPT !.events[s.id] =
            IF @ = Absent THEN @ ELSE IF s.b THEN "masked" ELSE "plain"]
    [] s.op = "deleteEvents" -> [d EXCEPT !.events = [i \in Ids |-> Absent]]

Log(id) == <<[op |-> "log", id |-> id], Commit>>
Remember(k, lines) == <<[op |-> "remember", key |-> k, lines |-> lines], Commit>>
MaskMemory(keys, b) == <<[op |-> "mask", keys |-> keys, b |-> b], Commit>>
MaskEvent(id, b) == <<[op |-> "maskEvent", id |-> id, b |-> b], Commit>>
DeleteMemory(keys) == <<[op |-> "delete", keys |-> keys], Commit>>

\* save_scene_summary: the summary, then the cast.
SaveScene(lines) == Remember("summary", lines) \o Remember("cast", lines)

\* Mutants of PurgeScene: the cast stays; purge_location does not commit.
PurgeSummary == DeleteMemory({"summary"}) \o <<[op |-> "deleteEvents"], Commit>>
PurgeUncommitted == DeleteMemory(Scene) \o <<[op |-> "deleteEvents"]>>

\* delete_memory, then purge_location.
PurgeScene == DeleteMemory(Scene) \o <<[op |-> "deleteEvents"], Commit>>

\* recall_scene_summary, {} for None.
Recall(d) == IF d.mem["summary"].masked THEN {} ELSE d.mem["summary"].of

\* Thread t enters a method.
Call(t, statements) ==
  /\ todo[t] = <<>>
  /\ todo' = [todo EXCEPT ![t] = statements]
  /\ UNCHANGED <<db, disk>>

\* The next statement or commit of the method thread t is in.
Step(t) ==
  /\ todo[t] # <<>>
  /\ IF Head(todo[t]) = Commit
     THEN disk' = db /\ UNCHANGED db
     ELSE db' = Executed(db, Head(todo[t])) /\ UNCHANGED disk
  /\ todo' = [todo EXCEPT ![t] = Tail(@)]
  /\ found' = IF Len(todo[t]) = 1 THEN [found EXCEPT ![t] = NothingFound] ELSE found
  /\ UNCHANGED <<room, nLines, nOps, nCrashes>>

-------------------------------------------------------------------------------
(* The event loop *)

\* _handle_room: the line is logged, and kept if roleplay is on.
Hear ==
  /\ nLines < MaxLines
  /\ nLines' = nLines + 1
  /\ Call("loop", Log(nLines'))
  /\ scene' = IF rp THEN scene \cup {nLines'} ELSE scene
  /\ UNCHANGED <<rp, recalled, nOps, nCrashes, found>>

\* `!rp on`
RpOn ==
  /\ Call("loop", <<>>)
  /\ rp' = TRUE
  /\ recalled' = IF Recall(db) # {} THEN Recall(db) ELSE recalled
  /\ UNCHANGED <<scene, nLines, nOps, nCrashes, found>>

\* `!rp off`: a summary of the scene is saved, unless nothing was said or the
\* model gave none, and the scene is forgotten.
RpOff ==
  /\ \E lines \in SUBSET scene :
       Call("loop", IF lines = {} THEN <<>> ELSE SaveScene(lines))
  /\ rp' = FALSE /\ scene' = {} /\ recalled' = {}
  /\ UNCHANGED <<nLines, nOps, nCrashes, found>>

\* Bot.set_rp, for the panel: the flag alone.
SetRp ==
  /\ todo["loop"] = <<>>
  /\ rp' = ~rp
  /\ UNCHANGED <<tables, scene, recalled, nLines, nOps, nCrashes, found>>

\* save_directive, when the nudges of a pose have been distilled.
Learn(r) ==
  /\ Call("loop", Remember(r, {0}))
  /\ UNCHANGED found

\* clear_directives (`rules clear`)
ClearRules ==
  /\ Call("loop", MaskMemory(Rules, TRUE))
  /\ UNCHANGED found

-------------------------------------------------------------------------------
(* Surgery, by a command on the loop or a request of the panel *)

\* `mem mask|unmask`; /api/memory/mask, which reaches any key
Mask(t, keys, b) ==
  /\ t = "loop" => keys = Scene
  /\ Call(t, MaskMemory(keys, b))
  /\ UNCHANGED found

\* `audit mask|unmask`, /api/events/id/mask
MaskLine(t, id, b) ==
  /\ Call(t, MaskEvent(id, b))
  /\ UNCHANGED found

\* DELETE /api/memory with a scope
Delete(t, keys) ==
  /\ t \in Panels
  /\ Call(t, DeleteMemory(keys))
  /\ UNCHANGED found

\* `mem purge`, DELETE /api/memory with a room
Purge(t) ==
  /\ Call(t, PurgeScene)
  /\ found' = [found EXCEPT ![t] =
       [mem |-> [k \in Key |-> IF k \in Scene THEN db.mem[k].of ELSE {}],
        events |-> {i \in Ids : db.events[i] # Absent}]]

Surgery(t) ==
  \/ \E keys \in Groups, b \in BOOLEAN : Mask(t, keys, b)
  \/ \E id \in Ids, b \in BOOLEAN : MaskLine(t, id, b)
  \/ \E keys \in Groups : Delete(t, keys)
  \/ Purge(t)

Operate ==
  /\ nOps < MaxOps
  /\ nOps' = nOps + 1
  /\ \/ ClearRules
     \/ \E r \in Rules : Learn(r)
     \/ \E t \in Thread : Surgery(t)
  /\ UNCHANGED <<room, nLines, nCrashes>>

\* The daemon dies; the supervisor brings it back with an empty scene.
Crash ==
  /\ nCrashes < MaxCrashes
  /\ nCrashes' = nCrashes + 1
  /\ db' = disk
  /\ todo' = [t \in Thread |-> <<>>]
  /\ rp' = FALSE /\ scene' = {} /\ recalled' = {}
  /\ found' = [t \in Thread |-> NothingFound]
  /\ UNCHANGED <<disk, nLines, nOps>>

Next ==
  \/ Hear \/ RpOn \/ RpOff \/ SetRp
  \/ Operate
  \/ Crash
  \/ \E t \in Thread : Step(t)

Spec == Init /\ [][Next]_vars

-------------------------------------------------------------------------------
(* Properties *)

\* Between methods there is nothing a crash would lose: every method commits
\* what it executes, whichever thread's commit comes first.
Durable == (\A t \in Thread : todo[t] = <<>>) => disk = db

Unmasks(s) == s.op \in {"mask", "maskEvent"} /\ ~s.b

\* No statement of any thread but an unmasking lets masked memory, a masked
\* rule or a masked event show again, whatever is saved over it.
MaskKept ==
  [][\A t \in Thread :
       Step(t) /\ ~Unmasks(Head(todo[t])) =>
         /\ \A k \in Key : db.mem[k].masked => db'.mem[k].masked \/ db'.mem[k] = NoRow
         /\ \A i \in Ids : db.events[i] = "masked" => db'.events[i] # "plain"]_vars

\* When a purge returns, nothing it found is left, in the tables or on disk: a
\* line logged or a scene saved by another thread meanwhile is all that may be.
PurgeExcises ==
  [][\A t \in Thread :
       Step(t) /\ Len(todo[t]) = 1 => \A d \in {db', disk'} :
         /\ \A k \in Key : found[t].mem[k] # {} => d.mem[k].of # found[t].mem[k]
         /\ \A i \in found[t].events : d.events[i] = Absent]_vars
===============================================================================
