--------------------------------- MODULE Scene ---------------------------------
(***************************************************************************)
(* One room's roleplay scene, from `!rp on` to `!rp off`: the verbatim     *)
(* tail, the distilled ledger, the do-not-puppet set, the OOC nudges, the  *)
(* consent gate and the poses.  (src/cricket/router.py,                    *)
(* src/cricket/commands/builtins.py, the per-room state of                 *)
(* src/cricket/daemon.py.)                                                 *)
(*                                                                         *)
(* Every heard line and every command runs as a task of its own on one     *)
(* event loop, so a handler is atomic except where it awaits the model:    *)
(* a pose (Persona.respond), a distillation (distill_block) and the        *)
(* summary at the end of a scene (summarize_scene) each take two steps or  *)
(* more, and anything may run in between.                                  *)
(*                                                                         *)
(* Abstractions.  A line is its arrival number; it weighs one unit of the  *)
(* byte budget.  A character is the rank of its name in sorted order, so   *)
(* `sorted(controlled)` is the order of numbers.  A nudge or a seed is     *)
(* what the gate reads of it: the characters it names and whether it       *)
(* matches the mortal-intent pattern.  The standing rules distilled from   *)
(* nudges live in the memory store, not here.                              *)
(***************************************************************************)
EXTENDS Naturals, Sequences, SequencesExt, FiniteSets

CONSTANTS
  Posers,           \* who may pose in the room, the bot excluded
  Nobody,           \* the poser of an unattributed line (no name, no dbref)
  Chars,            \* characters a distillation may report as acting
  Texts,            \* what a nudge or a `!say` seed may say
  Plain,            \* the text of a bare `!pose`: nothing
  Poses,            \* bound: the poses that may be in flight together
  MaxLines,         \* bound: lines heard in one behaviour
  MaxNudges,        \* bound: nudges captured in one behaviour
  Budget,           \* rp_context_bytes, in lines
  SCENE_QUEUE_CAP,  \* ceiling on blocks in the tail
  NudgeCap          \* nudges kept (5 in the code)

None == 0
Text == [about: SUBSET Chars, lethal: BOOLEAN]

ASSUME SceneAssumption ==
  /\ Chars \subseteq Nat \ {None}
  /\ Texts \subseteq Text
  /\ Plain = [about |-> {}, lethal |-> FALSE]
  /\ {MaxLines, MaxNudges} \subseteq Nat
  /\ {Budget, SCENE_QUEUE_CAP, NudgeCap} \subseteq Nat \ {0}

VARIABLES
  rp,        \* rp_enabled[room]
  keyed,     \* scene_queues has a list for the room
  queue,     \* scene_queues[room]: the verbatim tail, a sequence of blocks
  ledger,    \* scene_ledger[room]: the lines each entry was distilled from
  owners,    \* scene_owners[room]: the do-not-puppet set
  nudges,    \* suggestions[room]
  pending,   \* pending_consent[room]: the target asked, or None
  granted,   \* consent_granted[room]: the target that agreed, or None
  saved,     \* the room's scene summary in the store: the lines it tells of
  recall,    \* pending_recall[room]: the summary put before the next poses
  distills,  \* the distillation tasks, in creation order
  poses,     \* the poses awaiting Persona.respond
  off,       \* the lines `!rp off` is having summarised, {} if it is not
  nLines,    \* lines taken into the tail so far
  nNudges,   \* nudges captured so far
  given,     \* history: lines handed to _ledger_block
  agreed,    \* history: who said ok since the scene began or a pose spoke
  base       \* history: nLines when the last scene ended

tailVars == <<rp, keyed, queue, nLines, base>>
ledgerVars == <<ledger, owners, distills, given>>
gateVars == <<pending, granted, agreed>>
nudgeVars == <<nudges, nNudges>>
memVars == <<saved, recall, off>>
vars == <<rp, keyed, queue, ledger, owners, nudges, pending, granted, agreed,
          saved, recall, distills, poses, off, nLines, nNudges, given, base>>

Poser == Posers \cup {Nobody}
Lines == (SUBSET Nat) \ {{}}
Block == [by: Poser, lines: Lines]
NudgeRec == [id: Nat, about: SUBSET Chars, lethal: BOOLEAN]
Task == [lines: Lines, st: {"queued", "writing", "orphan"}]

(* A pose in flight: `live` while the list it took from scene_queues is    *)
(* still the room's, else `last` is the last block of that list; `mortal`  *)
(* is history: the controlled characters its texts threaten.               *)
PoseRec == [on: BOOLEAN, live: BOOLEAN, last: SUBSET Nat, mortal: SUBSET Chars]
Idle == [on |-> FALSE, live |-> FALSE, last |-> {}, mortal |-> {}]

\* Types; no block, distillation or ledger entry is of no line.
TypeOK ==
  /\ rp \in BOOLEAN /\ keyed \in BOOLEAN
  /\ queue \in Seq(Block)
  /\ ledger \in Seq(Lines)
  /\ owners \in SUBSET Chars
  /\ nudges \in Seq(NudgeRec)
  /\ pending \in Chars \cup {None}
  /\ granted \in Chars \cup {None} /\ agreed \in SUBSET Chars
  /\ {saved, recall, off, given} \subseteq SUBSET Nat
  /\ distills \in Seq(Task)
  /\ poses \in [Poses -> PoseRec]
  /\ {nLines, nNudges, base} \subseteq Nat

Init ==
  /\ rp = FALSE /\ keyed = FALSE
  /\ queue = <<>> /\ ledger = <<>> /\ owners = {} /\ nudges = <<>>
  /\ pending = None /\ granted = None /\ agreed = {}
  /\ saved = {} /\ recall = {} /\ off = {}
  /\ distills = <<>>
  /\ poses = [i \in Poses |-> Idle]
  /\ nLines = 0 /\ nNudges = 0 /\ given = {} /\ base = 0

-------------------------------------------------------------------------------
(* The tail *)

LinesOf(q) == UNION {q[k].lines : k \in DOMAIN q}
Weight(q) == Cardinality(LinesOf(q))

\* mutant: the trim always leaves two blocks
OverweightButTwo(q) ==
  {k \in 1..Len(q) - 2 : Weight(SubSeq(q, k, Len(q))) > Budget}

\* _trim_scene_bytes: drop the head while what is left, of two blocks or more,
\* weighs too much; then the ceiling on the number of blocks.
Overweight(q) == {k \in 1..Len(q) - 1 : Weight(SubSeq(q, k, Len(q))) > Budget}
Dropped(q) ==
  LET d == Cardinality(Overweight(q))
  IN  IF Len(q) - d > SCENE_QUEUE_CAP THEN Len(q) - SCENE_QUEUE_CAP ELSE d
\* mutant: the newest blocks are dropped, not the oldest
TrimmedAtTheEnd(q) == SubSeq(q, 1, Len(q) - Dropped(q))

\* What the trim leaves.
Trimmed(q) == SubSeq(q, Dropped(q) + 1, Len(q))

\* mutant: a block takes one continuation line only
SamePoserTwice(block, p) ==
  p # Nobody /\ block.by = p /\ Cardinality(block.lines) = 1

\* _same_poser: unattributed lines never continue a block.
SamePoser(block, p) == p # Nobody /\ block.by = p

\* The last block of a tail, as lines; {} when the tail is empty.
LastLines(q) == IF q = <<>> THEN {} ELSE Last(q).lines

\* mutant: one-liners are not worth a distillation
HandedIfLong(lines) ==
  IF Cardinality(lines) > 1
  THEN /\ distills' = Append(distills, [lines |-> lines, st |-> "queued"])
       /\ given' = given \cup lines
  ELSE UNCHANGED <<distills, given>>

\* _ledger_block: schedule the distillation of a block.
Handed(lines) ==
  /\ distills' = Append(distills, [lines |-> lines, st |-> "queued"])
  /\ given' = given \cup lines
NothingHanded == UNCHANGED <<distills, given>>

\* scene_queues[room] = []: poses in flight keep the list they took.
Detached(ps, q) ==
  [i \in Poses |-> IF ps[i].live
                   THEN [ps[i] EXCEPT !.live = FALSE, !.last = LastLines(q)]
                   ELSE ps[i]]

\* _handle_room, for a line of someone present in the room.
Hear(p) ==
  /\ rp
  /\ nLines < MaxLines
  /\ nLines' = nLines + 1
  /\ keyed' = TRUE
  /\ IF queue # <<>> /\ SamePoser(Last(queue), p)
     THEN /\ queue' = Trimmed(Append(Front(queue),
                        [Last(queue) EXCEPT !.lines = @ \cup {nLines'}]))
          /\ NothingHanded
     ELSE /\ queue' = Trimmed(Append(queue, [by |-> p, lines |-> {nLines'}]))
          /\ IF queue # <<>> THEN Handed(Last(queue).lines) ELSE NothingHanded
  /\ UNCHANGED <<rp, base, ledger, owners, gateVars, nudgeVars, memVars, poses>>

\* !clearqueue
ClearQueue ==
  /\ keyed' = TRUE
  /\ queue' = <<>>
  /\ poses' = Detached(poses, queue)
  /\ UNCHANGED <<rp, nLines, base, ledgerVars, gateVars, nudgeVars, memVars>>

-------------------------------------------------------------------------------
(* The ledger: _distill_to_ledger, one task per block *)

\* Tasks start in the order they were created; the ledger list is taken here.
DistillStart ==
  \E k \in DOMAIN distills :
    /\ distills[k].st = "queued"
    /\ \A j \in 1..k - 1 : distills[j].st # "queued"
    /\ distills' = [distills EXCEPT ![k].st = "writing"]
    /\ UNCHANGED <<tailVars, ledger, owners, given, gateVars, nudgeVars,
                   memVars, poses>>

\* The model answers, in any order: an entry or none (an empty note, an
\* exception), written to the list taken at the start; the actors go to the
\* room's present set.
DistillEnd(k, entry, actors) ==
  /\ distills[k].st # "queued"
  /\ ledger' = IF entry /\ distills[k].st = "writing"
               THEN Append(ledger, distills[k].lines) ELSE ledger
  /\ owners' = owners \cup actors
  /\ distills' = RemoveAt(distills, k)
  /\ UNCHANGED <<tailVars, given, gateVars, nudgeVars, memVars, poses>>

-------------------------------------------------------------------------------
(* Nudges and the consent gate *)

\* _capture_suggestion
Nudge(text) ==
  /\ rp
  /\ nNudges < MaxNudges
  /\ nNudges' = nNudges + 1
  /\ LET all == Append(nudges, [id |-> nNudges', about |-> text.about,
                                lethal |-> text.lethal])
     IN  nudges' = IF Len(all) > NudgeCap
                   THEN SubSeq(all, Len(all) - NudgeCap + 1, Len(all)) ELSE all
  /\ UNCHANGED <<tailVars, ledgerVars, gateVars, memVars, poses>>

\* _mortal_intent: the pattern and the names are looked for in all the texts
\* together.
Targets(seed) ==
  LET texts == Range(nudges) \cup {seed}
      named == UNION {t.about : t \in texts}
  IN  IF \E t \in texts : t.lethal THEN owners \cap named ELSE {}

\* The name _mortal_intent returns is the first in sorted order.
IsFirst(t, S) == t \in S /\ \A u \in S : t <= u

\* _trigger_rp up to its second return: consent is asked, the pose blocked.
AskConsent(seed) ==
  /\ pending = None
  /\ \E t \in Targets(seed) :
       /\ IsFirst(t, Targets(seed))
       /\ granted # t
       /\ pending' = t
  /\ UNCHANGED <<tailVars, ledgerVars, nudgeVars, memVars, poses, granted, agreed>>

\* mutant: the request stays open after the answer
ConsentOkStaysPending ==
  /\ pending # None
  /\ granted' = pending
  /\ agreed' = agreed \cup {pending}
  /\ UNCHANGED <<tailVars, ledgerVars, nudgeVars, memVars, poses, pending>>

\* Who may answer (_consent_authorized: the target or an admin) is left open.
ConsentOk ==
  /\ pending # None
  /\ granted' = pending
  /\ agreed' = agreed \cup {pending}
  /\ pending' = None
  /\ UNCHANGED <<tailVars, ledgerVars, nudgeVars, memVars, poses>>

ConsentDeny ==
  /\ pending # None
  /\ pending' = None
  /\ UNCHANGED <<tailVars, ledgerVars, nudgeVars, memVars, poses, granted, agreed>>

-------------------------------------------------------------------------------
(* Poses: _trigger_rp *)

\* mutant: the gate only refuses while a request is open
PoseStartUngated(i, seed) ==
  /\ pending = None
  /\ ~poses[i].on
  /\ poses' = [poses EXCEPT ![i] =
       [on |-> TRUE, live |-> keyed, last |-> {}, mortal |-> Targets(seed)]]
  /\ UNCHANGED <<tailVars, ledgerVars, gateVars, nudgeVars, memVars>>

\* Up to `await respond`: the gate lets the pose through, the prompt is built.
PoseStart(i, seed) ==
  /\ pending = None
  /\ Targets(seed) # {} => IsFirst(granted, Targets(seed))
  /\ ~poses[i].on
  /\ poses' = [poses EXCEPT ![i] =
       [on |-> TRUE, live |-> keyed, last |-> {}, mortal |-> Targets(seed)]]
  /\ UNCHANGED <<tailVars, ledgerVars, gateVars, nudgeVars, memVars>>

\* respond returned None or raised: nothing is consumed.
PoseSilent(i) ==
  /\ poses[i].on
  /\ poses' = [poses EXCEPT ![i] = Idle]
  /\ UNCHANGED <<tailVars, ledgerVars, gateVars, nudgeVars, memVars>>

\* mutant: the scene just acted on is not consumed
PoseSpeaksKeepsTail(i) ==
  /\ poses[i].on
  /\ LET last == IF poses[i].live THEN LastLines(queue) ELSE poses[i].last
     IN  IF last # {} THEN Handed(last) ELSE NothingHanded
  /\ nudges' = <<>>
  /\ granted' = None /\ agreed' = {}
  /\ poses' = [poses EXCEPT ![i] = Idle]
  /\ UNCHANGED <<tailVars, ledger, owners, nNudges, pending, memVars>>

\* mutant: a pose on an empty list hands a block over all the same
PoseSpeaksOfNothing(i) ==
  /\ poses[i].on
  /\ LET last == IF poses[i].live THEN LastLines(queue) ELSE poses[i].last
     IN  Handed(last)
  /\ keyed' = TRUE
  /\ queue' = <<>>
  /\ nudges' = <<>>
  /\ granted' = None /\ agreed' = {}
  /\ poses' = [Detached(poses, queue) EXCEPT ![i] = Idle]
  /\ UNCHANGED <<rp, nLines, base, ledger, owners, nNudges, pending, memVars>>

\* mutant: the one-time grant is not consumed
PoseSpeaksKeepsGrant(i) ==
  /\ poses[i].on
  /\ LET last == IF poses[i].live THEN LastLines(queue) ELSE poses[i].last
     IN  IF last # {} THEN Handed(last) ELSE NothingHanded
  /\ keyed' = TRUE
  /\ queue' = <<>>
  /\ nudges' = <<>>
  /\ UNCHANGED granted /\ agreed' = {}
  /\ poses' = [Detached(poses, queue) EXCEPT ![i] = Idle]
  /\ UNCHANGED <<rp, nLines, base, ledger, owners, nNudges, pending, memVars>>

\* respond returned a pose: it is emitted, the last block of the list taken at
\* the start goes to the ledger, then tail, nudges and grant are consumed.
PoseSpeaks(i) ==
  /\ poses[i].on
  /\ LET last == IF poses[i].live THEN LastLines(queue) ELSE poses[i].last
     IN  IF last # {} THEN Handed(last) ELSE NothingHanded
  /\ keyed' = TRUE
  /\ queue' = <<>>
  /\ nudges' = <<>>
  /\ granted' = None /\ agreed' = {}
  /\ poses' = [Detached(poses, queue) EXCEPT ![i] = Idle]
  /\ UNCHANGED <<rp, nLines, base, ledger, owners, nNudges, pending, memVars>>

-------------------------------------------------------------------------------
(* Scene boundaries: _set_rp and Bot.set_rp *)

RpOn ==
  /\ rp' = TRUE
  /\ keyed' = TRUE
  /\ recall' = IF saved # {} THEN saved ELSE recall
  /\ UNCHANGED <<queue, nLines, base, ledgerVars, gateVars, nudgeVars, saved,
                 off, poses>>

\* mutant: an open consent request survives the scene
EndSceneKeepsPending ==
  /\ rp' = FALSE /\ keyed' = TRUE
  /\ queue' = <<>> /\ ledger' = <<>> /\ owners' = {} /\ nudges' = <<>>
  /\ granted' = None /\ agreed' = {} /\ recall' = {}
  /\ poses' = Detached(poses, queue)
  /\ distills' = [k \in DOMAIN distills |->
                    IF distills[k].st = "writing"
                    THEN [distills[k] EXCEPT !.st = "orphan"] ELSE distills[k]]
  /\ base' = nLines
  /\ UNCHANGED <<nLines, nNudges, given, pending>>

\* mutant: a grant survives the scene
EndSceneKeepsGrant ==
  /\ rp' = FALSE /\ keyed' = TRUE
  /\ queue' = <<>> /\ ledger' = <<>> /\ owners' = {} /\ nudges' = <<>>
  /\ pending' = None /\ UNCHANGED granted /\ agreed' = {} /\ recall' = {}
  /\ poses' = Detached(poses, queue)
  /\ distills' = [k \in DOMAIN distills |->
                    IF distills[k].st = "writing"
                    THEN [distills[k] EXCEPT !.st = "orphan"] ELSE distills[k]]
  /\ base' = nLines
  /\ UNCHANGED <<nLines, nNudges, given>>

\* What _set_rp clears once the summary is saved.
EndScene ==
  /\ rp' = FALSE /\ keyed' = TRUE
  /\ queue' = <<>> /\ ledger' = <<>> /\ owners' = {} /\ nudges' = <<>>
  /\ pending' = None /\ granted' = None /\ agreed' = {} /\ recall' = {}
  /\ poses' = Detached(poses, queue)
  /\ distills' = [k \in DOMAIN distills |->
                    IF distills[k].st = "writing"
                    THEN [distills[k] EXCEPT !.st = "orphan"] ELSE distills[k]]
  /\ base' = nLines
  /\ UNCHANGED <<nLines, nNudges, given>>

\* `!rp off` with a ledger, or with nothing to summarise: no await.
RpOff ==
  /\ ledger # <<>> \/ queue = <<>>
  /\ saved' = IF ledger # <<>> THEN UNION Range(ledger) ELSE saved
  /\ EndScene
  /\ UNCHANGED off

\* `!rp off` with only a tail: the summarizer is awaited (one at a time).
RpOffStart ==
  /\ ledger = <<>> /\ queue # <<>>
  /\ off = {}
  /\ off' = LinesOf(queue)
  /\ keyed' = TRUE
  /\ UNCHANGED <<rp, queue, nLines, base, ledgerVars, gateVars, nudgeVars, saved,
                 recall, poses>>

\* It answers, or fails and no summary is saved.
RpOffEnd(summarized) ==
  /\ off # {}
  /\ saved' = IF summarized THEN off ELSE saved
  /\ off' = {}
  /\ EndScene

\* POST /api/rp: the flag alone.
HttpRp(enabled) ==
  /\ rp' = enabled
  /\ keyed' = TRUE
  /\ UNCHANGED <<queue, nLines, base, ledgerVars, gateVars, nudgeVars, memVars,
                 poses>>

-------------------------------------------------------------------------------
Next ==
  \/ \E p \in Poser : Hear(p)
  \/ ClearQueue
  \/ DistillStart
  \/ \E k \in DOMAIN distills, entry \in BOOLEAN, actors \in SUBSET Chars :
       DistillEnd(k, entry, actors)
  \/ \E text \in Texts : Nudge(text)
  \/ \E seed \in Texts \cup {Plain} : AskConsent(seed)
  \/ ConsentOk
  \/ ConsentDeny
  \/ \E i \in Poses, seed \in Texts \cup {Plain} : PoseStart(i, seed)
  \/ \E i \in Poses : PoseSilent(i) \/ PoseSpeaks(i)
  \/ RpOn
  \/ RpOff
  \/ RpOffStart
  \/ \E summarized \in BOOLEAN : RpOffEnd(summarized)
  \/ \E enabled \in BOOLEAN : HttpRp(enabled)

Spec == Init /\ [][Next]_vars

-------------------------------------------------------------------------------
(* Properties *)

Heard == 1..nLines
Lost == Heard \ (LinesOf(queue) \cup given)
Stale(i) == poses[i].on /\ ~poses[i].live

\* Whatever is heard, posed, cleared or trimmed, the tail is the latest lines
\* of the present scene, in order and without a hole.
TailIsLatest ==
  /\ \A j, k \in DOMAIN queue : j < k =>
       \A a \in queue[j].lines, b \in queue[k].lines : a < b
  /\ queue # <<>> => \E m \in base + 1..nLines : LinesOf(queue) = m..nLines

\* A change of poser closes the block: no two neighbours in the tail have the
\* same poser (docs/RP-DESIGN.md, block grouping).
BlocksAlternate ==
  \A k \in 1..Len(queue) - 1 :
    queue[k].by = queue[k + 1].by => queue[k].by = Nobody

\* The tail respects the byte budget, one whole block excepted, and the
\* ceiling on blocks; a merged line may overrun it as much as a new block.
TailWithinBudget ==
  /\ Len(queue) <= SCENE_QUEUE_CAP
  /\ Len(queue) > 1 => Weight(queue) <= Budget

\* What every pose is prompted with: the latest of the scene, in alternating
\* blocks, within the budget.
TailSound == TailIsLatest /\ BlocksAlternate /\ TailWithinBudget

\* "The ledger retains their substance" (router.py:360-361): a heard line that
\* is in neither the tail nor the hands of the distiller was dropped by
\* !clearqueue, by the end of the scene, or by a pose whose list another
\* command had replaced while it was in flight.  Trimming never loses one.
KeepsMemory ==
  \/ Lost' \subseteq Lost
  \/ ClearQueue \/ RpOff \/ \E summarized \in BOOLEAN : RpOffEnd(summarized)
  \/ \E i \in Poses : Stale(i) /\ PoseSpeaks(i)
MemoryKept == [][KeepsMemory]_vars

\* No line is distilled twice, except by such a pose.
HandsNew ==
  Len(distills') > Len(distills) =>
    \/ Last(distills').lines \cap given = {}
    \/ \E i \in Poses : Stale(i) /\ PoseSpeaks(i)
DistilledOnce == [][HandsNew]_vars

\* A line heard is distilled once: neither lost on the way out of the tail nor
\* handed over again, but by a command or a stale pose.
HandedOnce == MemoryKept /\ DistilledOnce

\* Consent is only ever asked of, or held for, a character on the present
\* do-not-puppet set, across late distillations, HTTP switches and new scenes.
ConsentConcernsAPlayer == {pending, granted} \subseteq owners \cup {None}

\* A player who has said ok in this scene, since the last pose that spoke, is
\* asked again only when another's ok has replaced the one grant the room holds
\* (builtins.py:235).
AskedAgainOnlyIfReplaced ==
  pending # None /\ pending \in agreed => granted \notin {None, pending}

\* Who is asked for consent is a player of the scene, and not one whose own ok is
\* the grant that counts.
AsksRightly == ConsentConcernsAPlayer /\ AskedAgainOnlyIfReplaced

\* A pose that threatens a player starts only if one of those it threatens said
\* ok in this scene (the end is `!rp off`, not the panel's switch) and no pose has
\* spoken since: a consent is spent by the first pose to return, whichever it is,
\* though several may have started under it.
ConsentIsRecent ==
  [][\A i \in Poses :
       ~poses[i].on /\ poses'[i].on /\ poses'[i].mortal # {} =>
         poses'[i].mortal \cap agreed # {}]_vars

===============================================================================
