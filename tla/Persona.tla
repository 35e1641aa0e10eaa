--------------------------------- MODULE Persona ---------------------------------
(***************************************************************************)
(* The persona (src/cricket/persona/llm.py): from a turn of the router or  *)
(* of !pose to the prompt, with or without a planning pass, and from what  *)
(* the model writes to a line; and its smaller calls, which distil a block *)
(* of the scene, a finished scene and the director's notes into what later *)
(* turns are given.                                                        *)
(*                                                                         *)
(* One turn is followed at a time: turns share nothing but what is read    *)
(* here.  While the model writes, the panel edits the profile, dossiers    *)
(* are rewritten, distillations come back and the scene ends.  The model   *)
(* and the search by meaning are external: they may answer anything.       *)
(***************************************************************************)
EXTENDS Lore, Utterance

CONSTANTS
  Bot,          \* bot_identity.name
  Profiles,     \* bound: what the active profile may be
  Dossiers,     \* bound: what the dossiers may hold
  Scenes,       \* bound: what the scene may hold when !pose or !say comes, and its words
  Chats,        \* bound: the chat turns there may be
  Recalls,      \* bound: what the summary of an earlier scene may say
  Distillates,  \* bound: what the model may make of a block
  Lines,        \* bound: what the model may write
  Writes(_, _), \* bound: which of it in a turn
  MaxClaimed,   \* names on the do-not-puppet list (10 in the code)
  MaxUnknown    \* blurbs of strangers (3)

Line == [speaker : Text, dbref : BOOLEAN, text : Text, length : Nat]
Turn == [mode : {"chat", "rp"}, context : Seq(Line), speaker : Text, text : Text,
         claimed : SUBSET Text]

ASSUME PersonaAssumption ==
  /\ MaxClaimed \in Nat /\ MaxUnknown \in Nat
  /\ {"memory", "rules"} \subseteq Tokens
  /\ \A doc \in Profiles : doc.thinking \in BOOLEAN
  /\ Dossiers \subseteq [Stems -> Seq(Section)]
  /\ Scenes \subseteq [tail : Seq(Line), seed : Text]
  /\ Chats \subseteq {t \in Turn : t.mode = "chat" /\ t.claimed = {}}
  /\ Recalls \subseteq Text
  /\ Distillates \subseteq Seq([kind : {"frame", "note", "actors"}, names : Seq(Text)])
  /\ Lines \subseteq Seq(Mark)

VARIABLES
  profile,   \* the active profile
  files,     \* the dossiers on disk
  owners,    \* scene_owners of the room
  recall,    \* the summary of the last scene there, or nothing
  rule,      \* a standing directive is kept
  phase,     \* "plan" and "compose": what the model is asked for; "said", "idle"
  turn,      \* the turn in hand
  prompt,    \* what the model is asked
  said       \* the line: as the model wrote it and as it goes out

vars == <<profile, files, owners, recall, rule, phase, turn, prompt, said>>

Name(t) == <<[t |-> t, up |-> TRUE]>>
Memory == <<[t |-> "memory", up |-> FALSE]>>
NoTurn == [mode |-> "", context |-> <<>>, speaker |-> <<>>, text |-> <<>>, claimed |-> {}]
NoPrompt == [profile |-> 0]
Silence == [raw |-> <<>>, line |-> <<>>, mode |-> ""]

Init ==
  /\ profile \in Profiles /\ files \in Dossiers
  /\ owners = {} /\ recall = <<>> /\ rule = FALSE
  /\ phase = "idle" /\ turn = NoTurn /\ prompt = NoPrompt /\ said = Silence

-------------------------------------------------------------------------------
(* What is retrieved for a turn *)

\* The speakers of the turn, those who have a name.
Speakers(t) ==
  LET all == [i \in DOMAIN t.context |-> t.context[i].speaker] \o <<t.speaker>>
  IN  At(all, {i \in DOMAIN all : all[i] # <<>>})

\* No name twice, upper and lower case alike; whoever is named in a name with it.
Distinct(names) == Firsts(names, [i \in DOMAIN names |-> Lower(names[i])])
Resolved(names) == names \o Joined([i \in DOMAIN names |-> Mentioned(names[i])])

\* mutant: the speakers as they call themselves
CastAsPosed(t) == Distinct(Speakers(t))

\* The speakers, whoever is named in the line or in the scene, and the full names
\* of all those.
Cast(t) ==
  LET named == Mentioned(t.text)
               \o Joined([i \in DOMAIN t.context |-> Mentioned(t.context[i].text)])
  IN  Distinct(Resolved(Distinct(Speakers(t) \o named)))

\* The names of a set, the bot's aside, in order, and the first of them.
Listed(names) ==
  LET others == {n \in names : n # <<>> /\ Lower(n) # Bot}
  IN  Upto(MaxClaimed, InOrder(others, [n \in others |-> [i \in DOMAIN n |-> Rank[n[i]]]]))

\* mutant: whoever spoke last is the one to leave alone
ClaimedByLast(t) ==
  LET posed == {i \in DOMAIN t.context : t.context[i].dbref}
  IN  Listed((IF posed = {} THEN {} ELSE {t.context[Max(posed)].speaker}) \cup t.claimed)

\* The do-not-puppet set: who posed, whom a pose names, whom the distillations
\* saw act.
Claimed(t) ==
  LET posed == {i \in DOMAIN t.context : t.context[i].dbref}
  IN  Listed({t.context[i].speaker : i \in posed}
             \cup (UNION {ToSet(Mentioned(t.context[i].text)) : i \in posed})
             \cup t.claimed)

\* mutant: counted after one is taken
UnknownOneMore(fs, cast) ==
  Upto(MaxUnknown + 1, At(cast, {i \in DOMAIN cast : ~HasDossier(fs, cast[i])
                                                     /\ SummaryFor(cast[i]) # {}}))

\* A blurb for those present who have no dossier.
Unknown(fs, cast) ==
  Upto(MaxUnknown, At(cast, {i \in DOMAIN cast :
    /\ Lower(cast[i]) \notin {<<"memory">>, <<"scene">>}
    /\ cast[i][1].up /\ (Len(cast[i]) > 1 \/ Width[cast[i][1].t] >= 3)
    /\ ~HasDossier(fs, cast[i]) /\ SummaryFor(cast[i]) # {}}))

\* _retrieve_memories, once the cast is known; hit is what the search by meaning
\* would find.
About(fs, t, cast, hit) ==
  LET rp == t.mode = "rp"
      found == Retrieve(fs, cast, IF rp THEN "ic" ELSE "ooc")
      topics == IF rp THEN <<>> ELSE Topics(t.text, {Lower(cast[i]) : i \in DOMAIN cast} \cup {Bot})
      fallback == ~rp /\ Mentioned(t.text) = <<>> /\ topics = <<>> /\ Phrases(t.text) # <<>>
  IN  [dossiers |-> found.block, full |-> found.full,
       shared |-> IF rp THEN SharedHistory(cast) ELSE <<>>,
       claimed |-> IF rp THEN Claimed(t) ELSE <<>>,
       unknown |-> IF rp THEN Unknown(fs, cast) ELSE <<>>,
       topics |-> topics,
       closest |-> IF fallback THEN UNION {SummaryFor(h.title) : h \in hit} ELSE {}]

Memories(fs, t, hit) == About(fs, t, Cast(t), hit)

\* The scale of the last four poses of the others, for the bot to match.
Register(t) ==
  LET others == At(t.context, {i \in DOMAIN t.context :
                  /\ t.context[i].text # <<>>
                  /\ Lower(t.context[i].speaker) \notin {Bot, <<>>, <<"memory">>}})
      last == SubSeq(others, IF Len(others) > 4 THEN Len(others) - 3 ELSE 1, Len(others))
      mean == IF last = <<>> THEN 0
              ELSE FoldLeft(LAMBDA n, l : n + l.length, 0, last) \div Len(last)
  IN  IF mean >= 350 THEN "long" ELSE IF mean >= 150 THEN "paragraph" ELSE "quick"

\* _build_messages: the system block, and the live message after it.
Messages(t, doc, memories, plan, ask) ==
  [profile |-> doc.id, charter |-> t.mode = "rp", memories |-> memories,
   callout |-> IF t.mode # "rp" THEN t.text
               ELSE IF t.context = <<>> THEN <<>> ELSE Last(t.context).text,
   register |-> IF t.mode = "rp" THEN Register(t) ELSE "",
   plan |-> plan, ask |-> ask]

Compose(t) == IF t.mode = "rp" THEN "pose" ELSE "line"

-------------------------------------------------------------------------------
(* Turns *)

\* respond: all that is read is read before the model is asked.
Respond(t, hit) ==
  /\ phase = "idle"
  /\ turn' = t
  /\ LET memories == Memories(files, t, hit)
     IN  prompt' = Messages(t, profile, memories, FALSE,
                            IF profile.thinking THEN "plan" ELSE Compose(t))
  /\ phase' = IF profile.thinking THEN "plan" ELSE "compose"
  /\ UNCHANGED <<profile, files, owners, recall, rule, said>>

\* A line of a channel; the search by meaning finds a page, or fails.
ChatTurn ==
  \E t \in Chats : \E hit \in {{}} \cup {{Index[i]} : i \in DOMAIN Index} : Respond(t, hit)

\* _trigger_rp: what is remembered goes before the scene (the ledger and the
\* nudges are lines of this kind too).
PoseTurn ==
  \E scene \in Scenes :
    LET note(text) == [speaker |-> Memory, dbref |-> FALSE, text |-> text, length |-> 0]
        memory == (IF rule THEN <<note(Name("rules"))>> ELSE <<>>)
                  \o (IF recall # <<>> THEN <<note(recall)>> ELSE <<>>)
    IN  Respond([mode |-> "rp", context |-> memory \o scene.tail, speaker |-> <<>>,
             text |-> scene.seed, claimed |-> owners], {})

\* _think: the plan, or nothing if the model failed, goes into the same turn.
Planned ==
  /\ phase = "plan"
  /\ phase' = "compose"
  /\ \E plan \in BOOLEAN : prompt' = [prompt EXCEPT !.plan = plan, !.ask = Compose(turn)]
  /\ UNCHANGED <<profile, files, owners, recall, rule, turn, said>>

\* The line, cleaned.
Composed ==
  /\ phase = "compose"
  /\ phase' = "said" /\ prompt' = NoPrompt
  /\ \E raw \in {r \in Lines : Writes(turn, r)} :
       said' = [raw |-> raw, line |-> Clean(raw, turn.mode), mode |-> turn.mode]
  /\ UNCHANGED <<profile, files, owners, recall, rule, turn>>

Done ==
  /\ phase' = "idle" /\ turn' = NoTurn /\ prompt' = NoPrompt /\ said' = Silence
  /\ UNCHANGED <<profile, files, owners, recall, rule>>

\* The caller has the line, or None if nothing was left of it.
Answered == phase = "said" /\ Done

\* The model does not answer: the turn fails.
Failed == phase = "compose" /\ Done

-------------------------------------------------------------------------------
(* The smaller calls, each answered as it comes *)

\* distill_block: the characters seen to act join the owners of the room.
Distilled ==
  /\ \E out \in Distillates : owners' = owners \cup ParseDistill(out, Bot).actors
  /\ UNCHANGED <<profile, files, recall, rule, phase, turn, prompt, said>>

\* summarize_scene, when the scene is over; a scene without lines has none.
SceneOver ==
  /\ owners' = {}
  /\ recall' \in Recalls \cup {recall}
  /\ UNCHANGED <<profile, files, rule, phase, turn, prompt, said>>

\* distill_feedback: a rule, or NONE and nothing is kept.
Directed ==
  /\ ~rule /\ rule' = TRUE
  /\ UNCHANGED <<profile, files, owners, recall, phase, turn, prompt, said>>

\* The panel and the lore maintainer, at any time.
Edited ==
  /\ profile' \in Profiles /\ files' \in Dossiers
  /\ (profile' = profile \/ files' = files)
  /\ UNCHANGED <<owners, recall, rule, phase, turn, prompt, said>>

Next ==
  \/ ChatTurn \/ PoseTurn \/ Planned \/ Composed \/ Answered \/ Failed
  \/ Distilled \/ SceneOver \/ Directed \/ Edited

Spec == Init /\ [][Next]_vars

-------------------------------------------------------------------------------
(* Properties *)

Asking == phase \in {"plan", "compose"}

\* The types, and what is asked for in each phase.
TypeOK ==
  /\ profile \in Profiles /\ files \in Dossiers /\ rule \in BOOLEAN
  /\ phase \in {"idle", "plan", "compose", "said"}
  /\ phase = "idle" <=> turn = NoTurn
  /\ phase # "said" => said = Silence
  /\ ~Asking => prompt = NoPrompt
  /\ Asking =>
       /\ turn \in Turn
       /\ prompt.ask = IF phase = "plan" THEN "plan" ELSE Compose(turn)
       /\ Len(prompt.memories.claimed) <= MaxClaimed
       /\ Len(prompt.memories.unknown) <= MaxUnknown
       /\ Len(prompt.memories.shared) <= 4 /\ Len(prompt.memories.topics) <= 2
       /\ \A name \in ToSet(prompt.memories.claimed) : Lower(name) # Bot

SectionsOf(memories) ==
  UNION {{s.facet : s \in ToSet(memories.dossiers[i].text)} : i \in DOMAIN memories.dossiers}

\* "IC stays canon-grounded" (llm.py:391), "never leak the other facet"
\* (loader.py:56): a pose is prompted with no OOC facet and no page of the wiki
\* but the blurbs of those present and the shared logs; a line of chat with no IC
\* facet, no charter and none of the scene's claims.
InScope ==
  Asking =>
    LET m == prompt.memories
    IN  IF turn.mode = "rp"
        THEN "ooc" \notin SectionsOf(m) /\ m.topics = <<>> /\ m.closest = {} /\ prompt.charter
        ELSE "ic" \notin SectionsOf(m) /\ m.shared = <<>> /\ m.claimed = <<>>
             /\ m.unknown = <<>> /\ ~prompt.charter

\* "Cricket must never pose for these" (llm.py:343): everyone who poses in the
\* scene and every character whose full name a pose has is on the do-not-puppet
\* list of the prompt, unless the list is full or the pose names too many.
PosersProtected ==
  Asking /\ turn.mode = "rp" =>
    LET listed(name) == Lower(name) = Bot \/ name \in ToSet(prompt.memories.claimed)
    IN  \/ Len(prompt.memories.claimed) = MaxClaimed
        \/ \A l \in ToSet(turn.context) : l.dbref =>
             /\ l.speaker = <<>> \/ listed(l.speaker)
             /\ Cardinality({s \in Stems : Occurs(s, l.text)}) <= MaxNames =>
                  \A s \in Stems : Len(s) > 1 /\ Occurs(s, l.text) => listed(Title[s])

\* "So PRESENT characters' dossiers actually inject" (llm.py:310): a speaker known
\* by the name of a file, or by one word that is one character's alone and that
\* nobody else there writes with small letters, brings that dossier, if its
\* heading is the name of its file, it had something to say, and there was room.
CastGrounded ==
  [][phase = "idle" /\ phase' # "idle" =>
       \A l \in ToSet(turn'.context) : \A s \in Stems :
         /\ \/ Lower(l.speaker) = s
            \/ /\ Len(l.speaker) = 1 /\ l.speaker[1].up /\ l.speaker[1].t \notin NameStop
               /\ NamedBy(l.speaker[1].t) = {s}
               /\ \A k \in ToSet(turn'.context) :
                    Lower(k.speaker) = Lower(l.speaker) => k.speaker = l.speaker
         /\ Kebab(Title[s]) = s
         /\ Facet(files[s], IF turn'.mode = "rp" THEN "ic" ELSE "ooc") # <<>>
         /\ ~prompt'.memories.full
         => \E i \in DOMAIN prompt'.memories.dossiers : prompt'.memories.dossiers[i].stem = s]_vars

\* The quote at i opens, and something is said in it: more than asterisks.
Opens(line, i) ==
  /\ line[i] = "open"
  /\ \E j \in (i + 1)..Len(line) :
       line[j] \notin Quote \cup {"*"} /\ \A k \in (i + 1)..(j - 1) : line[k] = "*"
\* The first quote of the line is one that opens, around something.
Speaks(line) ==
  \E i \in DOMAIN line : Opens(line, i) /\ \A j \in 1..(i - 1) : line[j] \notin Quote
Spoken(line) == \E i \in DOMAIN line : Opens(line, i)

\* What goes out has its quotes in pairs, no asterisk and nothing of the template,
\* and a pose whose first quote opens on something still has a spoken line:
\* trimming it to its last whole sentence never takes the only one.
LineIsFit ==
  /\ Quotes(said.line) % 2 = 0
  /\ ToSet(said.line) \cap {"*", "<|im_end|>", "user"} = {}
  /\ said.mode = "rp" /\ Speaks(Stripped(said.raw)) => Spoken(said.line)
===============================================================================
