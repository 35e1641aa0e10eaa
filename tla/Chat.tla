---------------------------------- MODULE Chat ----------------------------------
(***************************************************************************)
(* The chat side of the router: channel lines become commands, remarks to  *)
(* remember or turns of the persona, each in a task of its own; who is     *)
(* obeyed, what the persona is told was said, and the operator's mute.     *)
(* (_handle_channel, _handle_connect, _control_level, _dispatch_response,  *)
(* _remember_recent and _remember_own of src/cricket/router.py;            *)
(* set_muted, _apply_active_profile and _setup_commands of                 *)
(* src/cricket/daemon.py.)                                                 *)
(*                                                                         *)
(* A task runs at once up to its first await, the call of the persona, so  *)
(* only a turn has two steps.  TokenBucket models the rate limit, which is *)
(* a choice here, Scene what the bang commands do, Connection the setup    *)
(* commands' way to the server.  The bot ignores its own lines and joining *)
(* notices, and a page that is not a call for help: no page carries a      *)
(* dbref, so its sender is never an admin.                                 *)
(***************************************************************************)
EXTENDS Naturals, Sequences

CONSTANTS
  Players,      \* dbrefs of the characters on the channels
  Names,        \* names they may bear
  Nobody,       \* no name: a character not in the actors table
  Channels,
  Docs,         \* profile documents
  Lines,        \* bound: the lines anyone says
  GlobalAdmins, \* operators, wizards and admins of config.toml
  Cap,          \* RECENT_CAP
  MaxLines,     \* bound: lines heard and connections noticed
  MaxOps        \* bound: names changed, profiles applied, mutes, reconnects, restarts

\* A location; "none" is a channel that is not one, or of mode "rp".
Location == [mode : {"chat", "control", "none"}, enabled : BOOLEAN,
             always : BOOLEAN, admins : SUBSET (Players \cup Names)]

\* A line: what it says, and whether it begins with the bot's name or with one
\* of the location's prefixes.  "mute" and "unmute" are commands without the
\* sigil, "bang" is any with it, "help" is !help.  A titled line has a word before
\* its speaker's name.
Line == [says : {"talk", "help", "mute", "unmute", "bang"},
         named : BOOLEAN, prefixed : BOOLEAN, titled : BOOLEAN]

ASSUME ChatAssumption ==
  /\ Lines \subseteq Line
  /\ Docs \subseteq [at : [Channels -> Location], harass : BOOLEAN]
  /\ GlobalAdmins \subseteq Players
  /\ Players \cap Names = {} /\ Nobody \notin Names
  /\ {Cap, MaxLines, MaxOps} \subseteq Nat

VARIABLES
  ws,      \* the transport: a line carries its speaker's dbref on ws, not on tcp
  name,    \* the world: the name each character bears
  joined,  \* the world: the channels the bot has on
  doc,     \* the applied profile: locations, auth
  setup,   \* the profile the setup commands were made of
  actors,  \* the actors table
  muted, harass,
  recent,  \* recent[channel]
  turns,   \* turns the persona is at
  nLines, nOps, \* counters for the bounds
  seen,    \* history: the name each character bore when last seen
  told,    \* history: all that was ever to be remembered, by channel
  ran,     \* history: who was obeyed where, if the last step was a command
  said,    \* history: the line answered aloud, if the last step was an answer, or 0
  mutedAt  \* history: the last line before the mute

config == <<ws, doc, setup, harass>>
people == <<name, actors, seen>>
talk == <<recent, turns, told>>
mute == <<muted, mutedAt>>
vars == <<config, people, talk, mute, joined, nLines, nOps, ran, said>>

\* What is remembered: line n, or the bot's own answer to it.
Entry == [n : 1..MaxLines, own : BOOLEAN]
NoOne == [by |-> Nobody, as |-> Nobody, ch |-> ""]
Channel == Channels \cup {"(connect)"}
Turn == [n : 1..MaxLines, ch : Channel, context : Seq(Entry), at : Nat]

TypeOK ==
  /\ name \in [Players -> Names]
  /\ ws \in BOOLEAN /\ joined \subseteq Channels
  /\ doc \in Docs /\ setup \in Docs
  /\ actors \in [Players -> Names \cup {Nobody}]
  /\ muted \in BOOLEAN /\ harass \in BOOLEAN
  /\ \A ch \in Channels : recent[ch] \in Seq(Entry) /\ Len(recent[ch]) <= Cap
  /\ turns \subseteq Turn
  /\ nLines \in 0..MaxLines /\ nOps \in 0..MaxOps

Injective(f) == \A p, q \in DOMAIN f : f[p] = f[q] => p = q

Init ==
  /\ name \in {f \in [Players -> Names] : Injective(f)}
  /\ ws \in BOOLEAN /\ joined \in SUBSET Channels
  /\ doc \in Docs /\ setup = doc /\ harass = doc.harass
  /\ actors = [p \in Players |-> Nobody] /\ seen = actors
  /\ muted = FALSE /\ mutedAt = 0
  /\ recent = [ch \in Channels |-> <<>>] /\ told = recent
  /\ turns = {}
  /\ nLines = 0 /\ nOps = 0
  /\ ran = NoOne /\ said = 0

-------------------------------------------------------------------------------
(* Who is obeyed *)

\* Allowlist.level_for: the global lists and those of every location, by dbref.
IsAdmin(p) == p \in GlobalAdmins \cup UNION {doc.at[ch].admins : ch \in Channels}

\* The names _control_level accepts on a channel: those listed, and those the
\* actors table has for the dbrefs listed.
AdminNames(ch) ==
  LET listed == doc.at[ch].admins
  IN  (listed \cap Names) \cup ({actors[a] : a \in listed \cap Players} \ {Nobody})

\* Whose line it is read as: on tcp the first word of a pose is taken for the name,
\* on ws the server says.
ReadAs(p, line) == IF ~ws /\ line.titled THEN Names ELSE {name[p]}

\* _control_level is not None, of p's line read as n's.
Authorized(p, n, ch) ==
  \/ ws /\ IsAdmin(p)
  \/ n \in AdminNames(ch)

-------------------------------------------------------------------------------
(* What is remembered *)

\* Mutant of Latest: a list one line too long is let be.
LatestLate(s) == IF Len(s) > Cap + 1 THEN SubSeq(s, Len(s) - Cap + 1, Len(s)) ELSE s

\* The last Cap of a sequence.
Latest(s) == IF Len(s) > Cap THEN SubSeq(s, Len(s) - Cap + 1, Len(s)) ELSE s

\* _remember_recent and _remember_own
Remember(ch, e) ==
  /\ recent' = [recent EXCEPT ![ch] = Latest(Append(@, e))]
  /\ told' = [told EXCEPT ![ch] = Append(@, e)]

\* A line is heard, in a task of its own.
Hear ==
  /\ nLines < MaxLines
  /\ nLines' = nLines + 1
  /\ UNCHANGED <<config, people, joined, nOps>>

Enabled(ch) == ch \in joined /\ doc.at[ch].mode # "none" /\ doc.at[ch].enabled
Mode(ch) == doc.at[ch].mode

\* The line calls for help; it is a command of a kind the channel takes.
Helped(ch, line) == line.says = "help" /\ (Mode(ch) = "chat" \/ line.named)
Commands(ch, line) ==
  \/ Mode(ch) = "chat" /\ line.says = "bang"
  \/ Mode(ch) = "control" /\ line.named /\ line.says \in {"mute", "unmute", "bang"}

SetMuted(b) ==
  /\ muted' = b
  /\ mutedAt' = IF b /\ ~muted THEN nLines' ELSE mutedAt

\* An authorized command: the persona's turn, if it takes one, is Scene's.
Obey(p, n, ch, line) ==
  /\ Hear /\ Enabled(ch) /\ ~Helped(ch, line)
  /\ Commands(ch, line) /\ Authorized(p, n, ch)
  /\ ran' = [by |-> p, as |-> n, ch |-> ch] /\ said' = 0
  /\ IF line.says = "bang" THEN UNCHANGED mute ELSE SetMuted(line.says = "mute")
  /\ UNCHANGED talk

\* Mutant of Chats: the mute is left to the commands.
ChatsMuted(p, n, ch, line) ==
  /\ Enabled(ch) /\ Mode(ch) = "chat" /\ ~Helped(ch, line)
  /\ ~(Commands(ch, line) /\ Authorized(p, n, ch))

\* The line is chat the persona may hear of: a command of someone who may not
\* command is chat too.
Chats(p, n, ch, line) ==
  /\ Enabled(ch) /\ Mode(ch) = "chat" /\ ~Helped(ch, line)
  /\ ~(Commands(ch, line) /\ Authorized(p, n, ch))
  /\ ~muted

Engaged(ch, line) == doc.at[ch].always \/ line.prefixed

\* Nobody spoke to the bot: the line is remembered.
Remark(p, n, ch, line) ==
  /\ Hear /\ Chats(p, n, ch, line) /\ ~Engaged(ch, line)
  /\ Remember(ch, [n |-> nLines', own |-> FALSE])
  /\ ran' = NoOne /\ said' = 0
  /\ UNCHANGED <<turns, mute>>

\* Mutant of Context: the list itself, which the line is added to.
ContextAndLine(ch) == Latest(Append(recent[ch], [n |-> nLines + 1, own |-> FALSE]))

\* A copy of what was said before the line.
Context(ch) == recent[ch]

\* Someone spoke to the bot: the turn is given what was said before the line,
\* the line is remembered, and the persona is asked.
Ask(p, n, ch, line) ==
  /\ Hear /\ Chats(p, n, ch, line) /\ Engaged(ch, line)
  /\ turns' = turns \cup {[n |-> nLines', ch |-> ch, context |-> Context(ch),
                           at |-> Len(told[ch])]}
  /\ Remember(ch, [n |-> nLines', own |-> FALSE])
  /\ ran' = NoOne /\ said' = 0
  /\ UNCHANGED mute

\* Help is paged; any other line is ignored: the channel is not the bot's, or
\* the line not for it, or it is muted.
Ignore(p, n, ch, line) ==
  /\ Hear
  /\ \/ ~Enabled(ch)
     \/ Helped(ch, line)
     \/ ~(Commands(ch, line) /\ Authorized(p, n, ch)) /\ (Mode(ch) = "control" \/ muted)
  /\ ran' = NoOne /\ said' = 0
  /\ UNCHANGED <<talk, mute>>

\* _handle_connect: a newcomer is greeted, in a turn without context.
Greet ==
  /\ Hear /\ ~muted /\ harass
  /\ turns' = turns \cup {[n |-> nLines', ch |-> "(connect)", context |-> <<>>, at |-> 0]}
  /\ ran' = NoOne /\ said' = 0
  /\ UNCHANGED <<recent, told, mute>>

\* The persona answers nothing, or fails.
Silence(t) ==
  /\ t \in turns /\ turns' = turns \ {t}
  /\ ran' = NoOne /\ said' = 0
  /\ UNCHANGED <<config, people, recent, told, mute, joined, nLines, nOps>>

\* The persona answers: the answer is said, unless the rate limit drops it, and
\* remembered on its channel in either case.  A greeting is paged.
Answer(t) ==
  /\ t \in turns /\ turns' = turns \ {t}
  /\ IF t.ch = "(connect)"
     THEN said' = t.n /\ UNCHANGED <<recent, told>>
     ELSE /\ said' \in {0, t.n}
          /\ Remember(t.ch, [n |-> t.n, own |-> TRUE])
  /\ ran' = NoOne
  /\ UNCHANGED <<config, people, mute, joined, nLines, nOps>>

-------------------------------------------------------------------------------
(* The operator and the world *)

Operate ==
  /\ nOps < MaxOps
  /\ nOps' = nOps + 1
  /\ ran' = NoOne /\ said' = 0
  /\ UNCHANGED nLines

\* A character takes a name nobody has.
Rename(p) ==
  /\ Operate
  /\ \E n \in Names \ {name[q] : q \in Players} : name' = [name EXCEPT ![p] = n]
  /\ UNCHANGED <<actors, seen, config, talk, mute, joined>>

\* Mutant of Upserted: a character's first name is kept.
UpsertedOnce(ps) ==
  [p \in Players |-> IF p \in ps /\ actors[p] = Nobody THEN name[p] ELSE actors[p]]

\* upsert_actor of characters seen with their names.
Upserted(ps) == [p \in Players |-> IF p \in ps THEN name[p] ELSE actors[p]]

See(ps) ==
  /\ actors' = Upserted(ps)
  /\ seen' = [p \in Players |-> IF p \in ps THEN name[p] ELSE seen[p]]
  /\ UNCHANGED name

\* _handle_room: a character is seen in the room.
SeeInRoom(p) ==
  /\ actors[p] # name[p]
  /\ See({p})
  /\ ran' = NoOne /\ said' = 0
  /\ UNCHANGED <<config, talk, mute, joined, nLines, nOps>>

\* The channels a profile is to join.
Wanted(d) == {ch \in Channels : d.at[ch].mode # "none"}

\* The link is up, again: the setup commands join the channels and resolve the
\* admins of the profile that was active when the daemon started.
Connect ==
  /\ Operate
  /\ joined' = joined \cup Wanted(setup)
  /\ See((UNION {setup.at[ch].admins : ch \in Channels}) \cap Players)
  /\ UNCHANGED <<config, talk, mute>>

\* The panel, the console
Mute ==
  /\ Operate
  /\ SetMuted(~muted)
  /\ UNCHANGED <<config, people, talk, joined>>

SetHarass ==
  /\ Operate
  /\ harass' = ~harass
  /\ UNCHANGED <<ws, doc, setup, people, talk, mute, joined>>

\* reload_active_profile, `reload`
Apply(d) ==
  /\ Operate
  /\ doc' = d /\ harass' = d.harass
  /\ UNCHANGED <<ws, setup, people, talk, mute, joined>>

\* The worker is respawned: only the tables are left, and the world.
Restart ==
  /\ Operate
  /\ setup' = doc /\ harass' = doc.harass
  /\ muted' = FALSE /\ mutedAt' = 0
  /\ recent' = [ch \in Channels |-> <<>>] /\ told' = recent'
  /\ turns' = {}
  /\ UNCHANGED <<ws, doc, people, joined>>

Next ==
  \/ \E p \in Players, ch \in Channels, line \in Lines : \E n \in ReadAs(p, line) :
       Obey(p, n, ch, line) \/ Remark(p, n, ch, line) \/ Ask(p, n, ch, line) \/ Ignore(p, n, ch, line)
  \/ Greet
  \/ \E t \in turns : Silence(t) \/ Answer(t)
  \/ \E p \in Players : Rename(p) \/ SeeInRoom(p)
  \/ Connect \/ Mute \/ SetHarass \/ Restart
  \/ \E d \in Docs : Apply(d)

Spec == Init /\ [][Next]_vars

-------------------------------------------------------------------------------
(* Properties *)

IsLatest(r, s) ==
  \E k \in 0..Len(s) : r = SubSeq(s, k + 1, Len(s)) /\ (k = 0 \/ Len(r) = Cap)

\* However lines, overlapping turns and late answers are interleaved, a channel
\* remembers the latest of what was said, and a turn was given exactly the
\* latest of what had been said before its line.
TellsTheLatest ==
  /\ \A ch \in Channels : IsLatest(recent[ch], told[ch])
  /\ \A t \in turns :
       t.ch # "(connect)" => IsLatest(t.context, SubSeq(told[t.ch], 1, t.at))

\* What is answered aloud while the bot is muted is only what had been asked
\* before it was: the mute ends the chat, on every channel and from every side.
MuteEndsTheChat == [][muted /\ said' # 0 => said' <= mutedAt]_vars

\* Whoever is obeyed on a channel is an admin ("Authorization gates on dbref, not
\* name", auth.py:3), with the three exceptions that _control_level's names make
\* (router.py:266-284): the channel lists the name itself, whoever bears it; the
\* name is the one a listed admin was last seen with, and he has another by now,
\* which on ws the speaker's own dbref does not overrule; on tcp it is a title, no
\* name of the speaker's (protocol.py:142-145).
ObeysAdmins ==
  [][ran' # NoOne =>
       LET p == ran'.by
           listed == doc.at[ran'.ch].admins
       IN  \/ p \in listed
           \/ ws /\ IsAdmin(p)
           \/ ran'.as \in listed
           \/ \E a \in listed \cap Players :
                /\ ran'.as = seen[a]
                /\ name[a] # seen[a] \/ (~ws /\ name[p] # ran'.as)]_vars
===============================================================================
