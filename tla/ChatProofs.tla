------------------------------- MODULE ChatProofs -------------------------------
(***************************************************************************)
(* Theorems about Chat: a mute ends the chat, only admins are obeyed, and  *)
(* what the persona is told is the latest of what was said, within its     *)
(* cap, for any characters, channels, profiles and lines.                  *)
(***************************************************************************)
EXTENDS Chat, SequenceTheorems, TLAPS

-------------------------------------------------------------------------------
(* The mute *)

\* A turn is of a line heard, and of one before the mute if there is one.
Asked ==
  /\ nLines \in Nat /\ mutedAt \in Nat
  /\ \A t \in turns : t.n \in Nat /\ t.n <= nLines /\ (muted => t.n <= mutedAt)

\* Turns end, lines are heard, and the mute is set or not: what was asked before
\* stays so.
LEMMA AskedBefore ==
  ASSUME Asked, turns' \subseteq turns, nLines' \in {nLines, nLines + 1},
         UNCHANGED mute \/ SetMuted(TRUE) \/ SetMuted(FALSE)
  PROVE  Asked'
<1>1. nLines' \in Nat /\ nLines' >= nLines
  BY DEF Asked
<1>2. mutedAt' \in Nat
  BY <1>1 DEF Asked, mute, SetMuted
<1>3. ASSUME NEW t \in turns' PROVE t.n \in Nat /\ t.n <= nLines' /\ (muted' => t.n <= mutedAt')
  <2>1. t.n \in Nat /\ t.n <= nLines /\ (muted => t.n <= mutedAt)
    BY DEF Asked
  <2>2. t.n <= nLines'
    BY <1>1, <2>1 DEF Asked
  <2>3. CASE UNCHANGED mute
    BY <2>1, <2>2, <2>3 DEF mute
  <2>4. CASE SetMuted(TRUE)
    BY <2>1, <2>2, <2>4 DEF SetMuted
  <2>5. CASE SetMuted(FALSE)
    BY <2>1, <2>2, <2>5 DEF SetMuted
  <2>. QED  BY <2>3, <2>4, <2>5
<1>. QED  BY <1>1, <1>2, <1>3 DEF Asked

\* Whoever is asked is asked unmuted.
LEMMA AskedNow ==
  ASSUME Asked, ~muted, NEW u, u.n = nLines', turns' = turns \cup {u}, nLines' = nLines + 1,
         UNCHANGED mute
  PROVE  Asked'
<1>1. nLines' \in Nat /\ nLines' >= nLines /\ mutedAt' \in Nat /\ ~muted'
  BY DEF Asked, mute
<1>2. ASSUME NEW t \in turns' PROVE t.n \in Nat /\ t.n <= nLines'
  <2>1. CASE t = u
    BY <1>1, <2>1
  <2>2. CASE t \in turns
    <3>1. t.n \in Nat /\ t.n <= nLines
      BY <2>2 DEF Asked
    <3>. QED  BY <1>1, <3>1 DEF Asked
  <2>. QED  BY <2>1, <2>2
<1>. QED  BY <1>1, <1>2 DEF Asked

LEMMA AskedInductive == Asked /\ [Next]_vars => Asked'
<1> SUFFICES ASSUME Asked, [Next]_vars PROVE Asked'
  OBVIOUS
<1>1. ASSUME NEW p \in Players, NEW ch \in Channels, NEW line \in Lines, NEW n, Obey(p, n, ch, line)
      PROVE  Asked'
  <2>1. turns' = turns /\ nLines' = nLines + 1
    BY <1>1 DEF Obey, Hear, talk
  <2>2. UNCHANGED mute \/ SetMuted(TRUE) \/ SetMuted(FALSE)
    BY <1>1 DEF Obey
  <2>. QED  BY <2>1, <2>2, AskedBefore
<1>2. ASSUME NEW p \in Players, NEW ch \in Channels, NEW line \in Lines, NEW n, Ask(p, n, ch, line)
      PROVE  Asked'
  <2> DEFINE u == [n |-> nLines', ch |-> ch, context |-> Context(ch), at |-> Len(told[ch])]
  <2>1. u.n = nLines' /\ turns' = turns \cup {u} /\ ~muted /\ nLines' = nLines + 1 /\ UNCHANGED mute
    BY <1>2 DEF Ask, Chats, Hear
  <2> HIDE DEF u
  <2>. QED  BY <2>1, AskedNow
<1>3. ASSUME NEW p \in Players, NEW ch \in Channels, NEW line \in Lines, NEW n,
             Remark(p, n, ch, line) \/ Ignore(p, n, ch, line)
      PROVE  Asked'
  <2>1. turns' = turns /\ nLines' = nLines + 1 /\ UNCHANGED mute
    BY <1>3 DEF Remark, Ignore, Hear, talk
  <2>. QED  BY <2>1, AskedBefore
<1>4. CASE Greet
  <2> DEFINE u == [n |-> nLines', ch |-> "(connect)", context |-> <<>>, at |-> 0]
  <2>1. u.n = nLines' /\ turns' = turns \cup {u} /\ ~muted /\ nLines' = nLines + 1 /\ UNCHANGED mute
    BY <1>4 DEF Greet, Hear
  <2> HIDE DEF u
  <2>. QED  BY <2>1, AskedNow
<1>5. ASSUME NEW t \in turns, Silence(t) \/ Answer(t)
      PROVE  Asked'
  <2>1. turns' \subseteq turns /\ nLines' = nLines /\ UNCHANGED mute
    BY <1>5 DEF Silence, Answer, mute
  <2>. QED  BY <2>1, AskedBefore
<1>6. CASE Mute
  <2>1. turns' = turns /\ nLines' = nLines /\ mutedAt' = (IF ~muted THEN nLines' ELSE mutedAt)
        /\ muted' = ~muted
    BY <1>6 DEF Mute, Operate, talk, SetMuted
  <2>2. SetMuted(TRUE) \/ SetMuted(FALSE)
    BY <1>6 DEF Mute, SetMuted
  <2>. QED  BY <2>1, <2>2, AskedBefore
<1>7. CASE Restart
  BY <1>7 DEF Restart, Operate, Asked
<1>8. CASE \/ \E p \in Players : Rename(p) \/ SeeInRoom(p)
           \/ Connect \/ SetHarass
           \/ \E d \in Docs : Apply(d)
  <2>1. turns' = turns /\ nLines' = nLines /\ UNCHANGED mute
    BY <1>8 DEF Rename, SeeInRoom, See, Connect, SetHarass, Apply, Operate, talk, mute
  <2>. QED  BY <2>1, AskedBefore
<1>9. CASE UNCHANGED vars
  BY <1>9, AskedBefore DEF vars, talk
<1>. QED  BY <1>1, <1>2, <1>3, <1>4, <1>5, <1>6, <1>7, <1>8, <1>9 DEF Next

\* Only an answer is said, and it is the answer of a turn.
LEMMA SaidByAnswer ==
  ASSUME Next, said' # 0
  PROVE  \E t \in turns : Answer(t)
<1>1. ASSUME NEW p, NEW n, NEW ch, NEW line,
             Obey(p, n, ch, line) \/ Remark(p, n, ch, line) \/ Ask(p, n, ch, line) \/ Ignore(p, n, ch, line)
      PROVE  FALSE
  BY <1>1 DEF Obey, Remark, Ask, Ignore
<1>2. CASE \/ Greet \/ Connect \/ Mute \/ SetHarass \/ Restart
           \/ (\E p \in Players : Rename(p) \/ SeeInRoom(p)) \/ \E d \in Docs : Apply(d)
  BY <1>2 DEF Greet, Operate, Rename, SeeInRoom, Connect, Mute, SetHarass, Restart, Apply
<1>3. CASE \E t \in turns : Silence(t) \/ Answer(t)
  BY <1>3 DEF Silence
<1>. QED  BY <1>1, <1>2, <1>3 DEF Next

\* What is answered aloud under a mute (daemon.py, set_muted) is the answer to a
\* line of before it, on every channel, from every side and at every interleaving
\* of turns.
THEOREM MuteHolds == Spec => MuteEndsTheChat
<1>1. Init => Asked
  BY DEF Init, Asked
<1>2. Asked /\ [Next]_vars => [muted /\ said' # 0 => said' <= mutedAt]_vars
  <2>1. ASSUME Asked, Next, muted, said' # 0 PROVE said' <= mutedAt
    <3>1. PICK t \in turns : Answer(t)
      BY <2>1, SaidByAnswer
    <3>2. said' = t.n
      BY <2>1, <3>1 DEF Answer
    <3>. QED  BY <2>1, <3>2 DEF Asked
  <2>. QED  BY <2>1
<1>. QED  BY <1>1, <1>2, AskedInductive, PTL DEF Spec, MuteEndsTheChat

-------------------------------------------------------------------------------
(* Who is obeyed *)

\* The actors table has the names last seen, and no two characters bear one name.
Known == name \in [Players -> Names] /\ Injective(name) /\ actors = seen

LEMMA KnownInductive == Known /\ [Next]_vars => Known'
<1> SUFFICES ASSUME Known, [Next]_vars PROVE Known'
  OBVIOUS
<1>1. ASSUME NEW p \in Players, Rename(p) PROVE Known'
  <2>1. PICK n \in Names \ {name[q] : q \in Players} : name' = [name EXCEPT ![p] = n]
    BY <1>1 DEF Rename
  <2>2. name' \in [Players -> Names] /\ actors' = seen'
    BY <1>1, <2>1 DEF Rename, Known
  <2>3. Injective(name')
    BY <2>1 DEF Injective, Known
  <2>. QED  BY <2>2, <2>3 DEF Known, Injective
<1>2. ASSUME NEW ps, See(ps) PROVE Known'
  BY <1>2 DEF See, Upserted, Known, Injective
<1>3. ASSUME UNCHANGED people PROVE Known'
  BY <1>3 DEF people, Known, Injective
<1>4. CASE \/ \E p \in Players, ch \in Channels, line \in Lines : \E n \in ReadAs(p, line) :
                Obey(p, n, ch, line) \/ Remark(p, n, ch, line) \/ Ask(p, n, ch, line) \/ Ignore(p, n, ch, line)
           \/ Greet
  BY <1>3, <1>4 DEF Obey, Remark, Ask, Ignore, Greet, Hear
<1>5. CASE \/ \E t \in turns : Silence(t) \/ Answer(t)
           \/ Mute \/ SetHarass \/ Restart
           \/ \E d \in Docs : Apply(d)
  BY <1>3, <1>5 DEF Silence, Answer, Mute, SetHarass, Restart, Apply
<1>6. CASE (\E p \in Players : SeeInRoom(p)) \/ Connect
  BY <1>2, <1>6 DEF SeeInRoom, Connect
<1>7. CASE UNCHANGED vars
  BY <1>3, <1>7 DEF vars
<1>. QED  BY <1>1, <1>4, <1>5, <1>6, <1>7 DEF Next

\* Only a command is obeyed.
LEMMA RanByObey ==
  ASSUME Next, ran' # NoOne
  PROVE  \E p \in Players, ch \in Channels, line \in Lines : \E n \in ReadAs(p, line) :
           Authorized(p, n, ch) /\ ran' = [by |-> p, as |-> n, ch |-> ch]
<1>1. CASE \E p \in Players, ch \in Channels, line \in Lines : \E n \in ReadAs(p, line) : Obey(p, n, ch, line)
  BY <1>1 DEF Obey
<1>2. CASE \E p \in Players, ch \in Channels, line \in Lines : \E n \in ReadAs(p, line) :
             Remark(p, n, ch, line) \/ Ask(p, n, ch, line) \/ Ignore(p, n, ch, line)
  BY <1>2 DEF Remark, Ask, Ignore
<1>3. CASE Greet \/ Mute \/ SetHarass \/ Restart \/ \E d \in Docs : Apply(d)
  BY <1>3 DEF Greet, Operate, Mute, SetHarass, Restart, Apply
<1>4. CASE \E t \in turns : Silence(t) \/ Answer(t)
  BY <1>4 DEF Silence, Answer
<1>5. CASE Connect \/ \E p \in Players : Rename(p) \/ SeeInRoom(p)
  BY <1>5 DEF Connect, Operate, Rename, SeeInRoom
<1>. QED  BY <1>1, <1>2, <1>3, <1>4, <1>5 DEF Next

\* Whoever is obeyed on a channel (router.py, _control_level) is an admin of it, has
\* his line read under a name that it lists, or under the name that an admin was last
\* seen with: of one since renamed, or, on tcp, of one whose name is not the speaker's
\* but begins his line.
THEOREM OnlyAdminsObeyed == Spec => ObeysAdmins
<1> DEFINE Excused(p, n, ch) ==
      LET listed == doc.at[ch].admins
      IN  \/ p \in listed
          \/ ws /\ IsAdmin(p)
          \/ n \in listed
          \/ \E a \in listed \cap Players :
               /\ n = seen[a]
               /\ name[a] # seen[a] \/ (~ws /\ name[p] # n)
<1>1. Init => Known
  BY DEF Init, Known
<1>2. ASSUME Known, NEW p \in Players, NEW ch, NEW line, NEW n \in ReadAs(p, line),
             Authorized(p, n, ch)
      PROVE  Excused(p, n, ch)
  <2>1. CASE ws /\ IsAdmin(p)
    BY <2>1
  <2>2. CASE n \in doc.at[ch].admins \cap Names
    BY <2>2
  <2>3. CASE n \in {actors[a] : a \in doc.at[ch].admins \cap Players}
    <3>1. PICK a \in doc.at[ch].admins \cap Players : n = seen[a]
      BY <1>2, <2>3 DEF Known
    <3>2. n = name[p] \/ ~ws
      BY DEF ReadAs
    <3>3. CASE name[a] = seen[a] /\ n = name[p]
      <4>1. a = p
        BY <1>2, <3>1, <3>3 DEF Known, Injective
      <4>. QED  BY <3>1, <4>1
    <3>. QED  BY <3>1, <3>2, <3>3
  <2>. QED  BY <1>2, <2>1, <2>2, <2>3 DEF Authorized, AdminNames
<1>3. Known /\ [Next]_vars => [ran' # NoOne => Excused(ran'.by, ran'.as, ran'.ch)]_vars
  <2>1. ASSUME Known, Next, ran' # NoOne PROVE Excused(ran'.by, ran'.as, ran'.ch)
    <3>0. PICK p \in Players, ch \in Channels, line \in Lines :
            \E n \in ReadAs(p, line) :
              Authorized(p, n, ch) /\ ran' = [by |-> p, as |-> n, ch |-> ch]
      BY <2>1, RanByObey
    <3>1. PICK n \in ReadAs(p, line) : Authorized(p, n, ch) /\ ran' = [by |-> p, as |-> n, ch |-> ch]
      BY <3>0
    <3>2. ran'.by = p /\ ran'.as = n /\ ran'.ch = ch
      BY <3>1
    <3>3. Excused(p, n, ch)
      BY <1>2, <2>1, <3>1
    <3>. QED  BY <3>2, <3>3
  <2>. QED  BY <2>1
<1>. QED  BY <1>1, <1>3, KnownInductive, PTL DEF Spec, ObeysAdmins

-------------------------------------------------------------------------------
(* What is remembered *)

\* IsLatest, position by position.
Ends(r, s) ==
  /\ Len(r) <= Len(s) /\ (Len(r) = Len(s) \/ Len(r) = Cap)
  /\ \A i \in 1..Len(r) : r[i] = s[i + (Len(s) - Len(r))]

LEMMA LatestEnds ==
  ASSUME NEW S, NEW r \in Seq(S), NEW s \in Seq(S)
  PROVE  IsLatest(r, s) <=> Ends(r, s)
<1>1. Len(r) \in Nat /\ Len(s) \in Nat /\ \A i \in 1..Len(s) : s[i] \in S
  BY LenProperties, ElementOfSeq
<1>2. ASSUME NEW k \in 0..Len(s)
      PROVE  /\ SubSeq(s, k + 1, Len(s)) \in Seq(S)
             /\ Len(SubSeq(s, k + 1, Len(s))) = Len(s) - k
             /\ \A i \in 1..(Len(s) - k) : SubSeq(s, k + 1, Len(s))[i] = s[i + k]
  <2>1. k + 1 \in Int /\ Len(s) \in Int /\ \A i \in (k + 1)..Len(s) : s[i] \in S
    BY <1>1
  <2>2. /\ SubSeq(s, k + 1, Len(s)) \in Seq(S)
        /\ Len(SubSeq(s, k + 1, Len(s))) = IF k + 1 <= Len(s) THEN Len(s) - (k + 1) + 1 ELSE 0
        /\ \A i \in 1..(Len(s) - (k + 1) + 1) : SubSeq(s, k + 1, Len(s))[i] = s[k + 1 + i - 1]
    BY <2>1, SubSeqProperties
  <2>3. Len(SubSeq(s, k + 1, Len(s))) = Len(s) - k
    BY <1>1, <2>2
  <2>4. ASSUME NEW i \in 1..(Len(s) - k) PROVE SubSeq(s, k + 1, Len(s))[i] = s[i + k]
    <3>1. i \in 1..(Len(s) - (k + 1) + 1) /\ k + 1 + i - 1 = i + k
      BY <1>1
    <3>. QED  BY <2>2, <3>1
  <2>. QED  BY <2>2, <2>3, <2>4
<1>3. ASSUME IsLatest(r, s) PROVE Ends(r, s)
  <2>1. PICK k \in 0..Len(s) : r = SubSeq(s, k + 1, Len(s)) /\ (k = 0 \/ Len(r) = Cap)
    BY <1>3 DEF IsLatest
  <2>2. Len(r) = Len(s) - k /\ \A i \in 1..Len(r) : r[i] = s[i + k]
    BY <1>2, <2>1
  <2>3. Len(s) - Len(r) = k
    BY <1>1, <2>2
  <2>4. Len(r) <= Len(s) /\ (Len(r) = Len(s) \/ Len(r) = Cap)
    BY <1>1, <2>1, <2>2
  <2>. QED  BY <2>2, <2>3, <2>4 DEF Ends
<1>4. ASSUME Ends(r, s) PROVE IsLatest(r, s)
  <2> DEFINE k == Len(s) - Len(r)
             t == SubSeq(s, k + 1, Len(s))
  <2>1. k \in 0..Len(s) /\ (k = 0 \/ Len(r) = Cap) /\ Len(s) - k = Len(r)
    BY <1>1, <1>4 DEF Ends
  <2>2. t \in Seq(S) /\ Len(t) = Len(r) /\ \A i \in 1..Len(r) : t[i] = s[i + k]
    BY <1>2, <2>1
  <2>3. \A i \in 1..Len(r) : r[i] = t[i]
    BY <1>4, <2>2 DEF Ends
  <2>4. r = t
    BY <2>2, <2>3, SeqEqual
  <2>. QED  BY <2>1, <2>4 DEF IsLatest
<1>. QED  BY <1>3, <1>4

LEMMA NothingIsLatest == <<>> \in Seq(Nat) /\ IsLatest(<<>>, <<>>)
<1>1. <<>> \in Seq(Nat) /\ Len(<<>>) = 0
  BY EmptySeq
<1>2. Ends(<<>>, <<>>)
  BY <1>1 DEF Ends
<1>. QED  BY <1>1, <1>2, LatestEnds

\* One more is said: of what is remembered with it, the latest is remembered.
LEMMA LatestOfOneMore ==
  ASSUME NEW S, NEW r \in Seq(S), NEW s \in Seq(S), NEW e \in S, Cap \in Nat, IsLatest(r, s)
  PROVE  Latest(Append(r, e)) \in Seq(S) /\ IsLatest(Latest(Append(r, e)), Append(s, e))
<1> DEFINE a == Append(r, e)
           b == Append(s, e)
<1>1. /\ Len(r) \in Nat /\ Len(s) \in Nat
      /\ a \in Seq(S) /\ Len(a) = Len(r) + 1
      /\ b \in Seq(S) /\ Len(b) = Len(s) + 1
      /\ a[Len(r) + 1] = e /\ b[Len(s) + 1] = e
      /\ \A i \in 1..Len(r) : a[i] = r[i]
      /\ \A i \in 1..Len(s) : b[i] = s[i]
  BY LenProperties, AppendProperties
<1>2. Ends(r, s)
  BY LatestEnds
<1> HIDE DEF a, b
<1>3. ASSUME NEW i \in 1..Len(a) PROVE a[i] = b[i + (Len(b) - Len(a))]
  <2>1. CASE i = Len(r) + 1
    <3>1. i + (Len(b) - Len(a)) = Len(s) + 1
      BY <1>1, <2>1
    <3>. QED  BY <1>1, <2>1, <3>1
  <2>2. CASE i \in 1..Len(r)
    <3>1. i + (Len(b) - Len(a)) = i + (Len(s) - Len(r))
      BY <1>1
    <3>2. i + (Len(s) - Len(r)) \in 1..Len(s)
      BY <1>1, <1>2, <2>2 DEF Ends
    <3>3. a[i] = r[i] /\ r[i] = s[i + (Len(s) - Len(r))]
      BY <1>1, <1>2, <2>2 DEF Ends
    <3>. QED  BY <1>1, <3>1, <3>2, <3>3
  <2>. QED  BY <1>1, <2>1, <2>2
<1>4. CASE Len(a) > Cap
  <2> DEFINE m == Len(a) - Cap
             l == SubSeq(a, Len(a) - Cap + 1, Len(a))
  <2>1. m \in Nat /\ \A i \in (m + 1)..Len(a) : a[i] \in S
    BY <1>1, <1>4, ElementOfSeq
  <2>2. l \in Seq(S) /\ Len(l) = Cap /\ \A i \in 1..Cap : l[i] = a[i + m]
    <3>1. /\ l \in Seq(S)
          /\ Len(l) = IF m + 1 <= Len(a) THEN Len(a) - (m + 1) + 1 ELSE 0
          /\ \A i \in 1..(Len(a) - (m + 1) + 1) : l[i] = a[m + 1 + i - 1]
      <4>1. m + 1 \in Int /\ Len(a) \in Int
        BY <1>1, <2>1
      <4> HIDE DEF m
      <4>2. l = SubSeq(a, m + 1, Len(a))
        BY DEF m
      <4> HIDE DEF l
      <4>. QED  BY <2>1, <4>1, <4>2, SubSeqProperties
    <3>2. Len(a) - (m + 1) + 1 = Cap /\ (m + 1 <= Len(a) \/ Cap = 0)
      BY <1>1, <1>4
    <3>3. Len(l) = Cap
      BY <1>1, <3>1, <3>2
    <3>4. ASSUME NEW i \in 1..Cap PROVE l[i] = a[i + m]
      <4>1. m + 1 + i - 1 = i + m
        BY <2>1
      <4>. QED  BY <3>1, <3>2, <4>1
    <3>. QED  BY <3>1, <3>3, <3>4
  <2>3. Latest(a) = l
    BY <1>4 DEF Latest
  <2> HIDE DEF l
  <2>4. ASSUME NEW i \in 1..Cap PROVE l[i] = b[i + (Len(b) - Len(l))]
    <3>1. i + m \in 1..Len(a)
      BY <1>1, <1>4, <2>1
    <3>2. a[i + m] = b[i + m + (Len(b) - Len(a))]
      BY <1>3, <3>1
    <3>3. i + m + (Len(b) - Len(a)) = i + (Len(b) - Len(l))
      BY <1>1, <2>2
    <3>. QED  BY <2>2, <3>2, <3>3
  <2>5. Ends(l, b)
    BY <1>1, <1>2, <1>4, <2>2, <2>4 DEF Ends
  <2>. QED  BY <1>1, <2>2, <2>3, <2>5, LatestEnds DEF a, b
<1>5. CASE ~(Len(a) > Cap)
  <2>1. Latest(a) = a
    BY <1>5 DEF Latest
  <2>2. Len(r) = Len(s)
    BY <1>1, <1>2, <1>5 DEF Ends
  <2>3. Ends(a, b)
    BY <1>1, <1>3, <2>2 DEF Ends
  <2>. QED  BY <1>1, <2>1, <2>3, LatestEnds DEF a, b
<1>. QED  BY <1>4, <1>5

Said == [n : Nat, own : BOOLEAN]

\* Each channel remembers the latest of what was said, each turn was given the
\* latest of what had been.
Remembered ==
  /\ recent \in [Channels -> Seq(Said)] /\ told \in [Channels -> Seq(Said)]
  /\ \A ch \in Channels : IsLatest(recent[ch], told[ch])
  /\ \A t \in turns : t.ch # "(connect)" =>
       /\ t.ch \in Channels /\ t.at \in 0..Len(told[t.ch])
       /\ IsLatest(t.context, SubSeq(told[t.ch], 1, t.at))

\* What comes later does not change what had been said.
LEMMA SaidBefore ==
  ASSUME NEW S, NEW s \in Seq(S), NEW e \in S, NEW n \in 0..Len(s)
  PROVE  SubSeq(Append(s, e), 1, n) = SubSeq(s, 1, n) /\ n \in 0..Len(Append(s, e))
<1>1. /\ Len(s) \in Nat /\ Append(s, e) \in Seq(S) /\ Len(Append(s, e)) = Len(s) + 1
      /\ \A i \in 1..Len(s) : Append(s, e)[i] = s[i]
  BY LenProperties, AppendProperties
<1>2. \A i \in 1..n : s[i] \in S /\ Append(s, e)[i] = s[i]
  BY <1>1, ElementOfSeq
<1> DEFINE a == SubSeq(Append(s, e), 1, n)
           b == SubSeq(s, 1, n)
<1>3. n \in Int /\ 1 \in Int /\ n - 1 + 1 = n
  BY <1>1
<1>4. b \in Seq(S) /\ Len(b) = n /\ \A i \in 1..n : b[i] = s[i]
  <2>1. b \in Seq(S) /\ Len(b) = (IF 1 <= n THEN n - 1 + 1 ELSE 0)
        /\ \A i \in 1..(n - 1 + 1) : b[i] = s[1 + i - 1]
    BY <1>2, <1>3, SubSeqProperties
  <2> HIDE DEF b
  <2>. QED  BY <1>1, <1>3, <2>1
<1>5. a \in Seq(S) /\ Len(a) = n /\ \A i \in 1..n : a[i] = s[i]
  <2>1. a \in Seq(S) /\ Len(a) = (IF 1 <= n THEN n - 1 + 1 ELSE 0)
        /\ \A i \in 1..(n - 1 + 1) : a[i] = Append(s, e)[1 + i - 1]
    BY <1>2, <1>3, SubSeqProperties
  <2> HIDE DEF a
  <2>. QED  BY <1>1, <1>2, <1>3, <2>1
<1>6. a = b
  <2> HIDE DEF a, b
  <2>. QED  BY <1>4, <1>5, SeqEqual
<1>. QED  BY <1>1, <1>6

\* One more is said on a channel, and remembered.
LEMMA RememberedOnOne ==
  ASSUME Remembered, Cap \in Nat, NEW ch \in Channels, NEW e \in Said, Remember(ch, e)
  PROVE  /\ recent' \in [Channels -> Seq(Said)] /\ told' \in [Channels -> Seq(Said)]
         /\ \A c \in Channels : IsLatest(recent'[c], told'[c])
         /\ \A c \in Channels : \A n \in 0..Len(told[c]) :
              SubSeq(told'[c], 1, n) = SubSeq(told[c], 1, n) /\ n \in 0..Len(told'[c])
<1>1. /\ recent' = [recent EXCEPT ![ch] = Latest(Append(recent[ch], e))]
      /\ told' = [told EXCEPT ![ch] = Append(told[ch], e)]
  BY DEF Remember
<1>2. recent[ch] \in Seq(Said) /\ told[ch] \in Seq(Said) /\ IsLatest(recent[ch], told[ch])
  BY DEF Remembered
<1>3. /\ Latest(Append(recent[ch], e)) \in Seq(Said) /\ Append(told[ch], e) \in Seq(Said)
      /\ IsLatest(Latest(Append(recent[ch], e)), Append(told[ch], e))
  BY <1>2, LatestOfOneMore, AppendProperties
<1>4. /\ recent' \in [Channels -> Seq(Said)] /\ told' \in [Channels -> Seq(Said)]
      /\ recent'[ch] = Latest(Append(recent[ch], e)) /\ told'[ch] = Append(told[ch], e)
      /\ \A c \in Channels \ {ch} : recent'[c] = recent[c] /\ told'[c] = told[c]
  BY <1>1, <1>3 DEF Remembered
<1>5. ASSUME NEW c \in Channels PROVE IsLatest(recent'[c], told'[c])
  BY <1>3, <1>4 DEF Remembered
<1>6. ASSUME NEW c \in Channels, NEW n \in 0..Len(told[c])
      PROVE  SubSeq(told'[c], 1, n) = SubSeq(told[c], 1, n) /\ n \in 0..Len(told'[c])
  <2>1. CASE c = ch
    <3>1. n \in 0..Len(told[ch])
      BY <1>6, <2>1
    <3>2. SubSeq(Append(told[ch], e), 1, n) = SubSeq(told[ch], 1, n) /\ n \in 0..Len(Append(told[ch], e))
      BY <1>2, <3>1, SaidBefore
    <3>. QED  BY <1>4, <2>1, <3>2
  <2>2. CASE c # ch
    BY <1>4, <1>6, <2>2
  <2>. QED  BY <2>1, <2>2
<1>. QED  BY <1>4, <1>5, <1>6

LEMMA RememberedInductive == ChatAssumption /\ Asked /\ Remembered /\ [Next]_vars => Remembered'
<1> SUFFICES ASSUME ChatAssumption, Asked, Remembered, [Next]_vars PROVE Remembered'
  OBVIOUS
<1>1. Cap \in Nat /\ nLines \in Nat /\ nLines + 1 \in Nat
  BY DEF ChatAssumption, Asked
<1>2. ASSUME NEW ch \in Channels, NEW e \in Said, Remember(ch, e), turns' \subseteq turns
      PROVE  Remembered'
  <2>1. ASSUME NEW t \in turns', t.ch # "(connect)"
        PROVE  /\ t.ch \in Channels /\ t.at \in 0..Len(told'[t.ch])
               /\ IsLatest(t.context, SubSeq(told'[t.ch], 1, t.at))
    <3>1. /\ t.ch \in Channels /\ t.at \in 0..Len(told[t.ch])
          /\ IsLatest(t.context, SubSeq(told[t.ch], 1, t.at))
      BY <1>2, <2>1 DEF Remembered
    <3>2. \A c \in Channels : \A n \in 0..Len(told[c]) :
            SubSeq(told'[c], 1, n) = SubSeq(told[c], 1, n) /\ n \in 0..Len(told'[c])
      BY <1>1, <1>2, RememberedOnOne
    <3>. QED  BY <3>1, <3>2
  <2>. QED  BY <1>1, <1>2, <2>1, RememberedOnOne DEF Remembered, IsLatest
<1>3. ASSUME recent' = recent, told' = told,
             \A t \in turns' : t.ch # "(connect)" => t \in turns
      PROVE  Remembered'
  BY <1>3 DEF Remembered, IsLatest
<1>4. ASSUME NEW p \in Players, NEW ch \in Channels, NEW line \in Lines, NEW n, Remark(p, n, ch, line)
      PROVE  Remembered'
  <2>1. Remember(ch, [n |-> nLines + 1, own |-> FALSE]) /\ turns' = turns
    BY <1>4 DEF Remark, Hear
  <2>2. [n |-> nLines + 1, own |-> FALSE] \in Said
    BY <1>1 DEF Said
  <2>. QED  BY <1>2, <2>1, <2>2
<1>5. ASSUME NEW p \in Players, NEW ch \in Channels, NEW line \in Lines, NEW n, Ask(p, n, ch, line)
      PROVE  Remembered'
  <2> DEFINE e == [n |-> nLines + 1, own |-> FALSE]
             u == [n |-> nLines + 1, ch |-> ch, context |-> recent[ch], at |-> Len(told[ch])]
  <2>1. Remember(ch, e) /\ turns' = turns \cup {u}
    BY <1>5 DEF Ask, Hear, Context
  <2>2. e \in Said
    BY <1>1 DEF Said
  <2>3. u.ch = ch /\ u.at = Len(told[ch]) /\ u.context = recent[ch]
    OBVIOUS
  <2> HIDE DEF e, u
  <2>4. told[ch] \in Seq(Said) /\ Len(told[ch]) \in Nat /\ IsLatest(recent[ch], told[ch])
    BY LenProperties DEF Remembered
  <2>5. ASSUME NEW t \in turns', t.ch # "(connect)"
        PROVE  /\ t.ch \in Channels /\ t.at \in 0..Len(told'[t.ch])
               /\ IsLatest(t.context, SubSeq(told'[t.ch], 1, t.at))
    <3>1. /\ t.ch \in Channels /\ t.at \in 0..Len(told[t.ch])
          /\ IsLatest(t.context, SubSeq(told[t.ch], 1, t.at))
      <4>1. CASE t = u
        <5>1. SubSeq(told[ch], 1, Len(told[ch])) = told[ch] /\ Len(told[ch]) \in 0..Len(told[ch])
          BY <2>4, SubSeqFull
        <5>. QED  BY <2>3, <2>4, <4>1, <5>1
      <4>2. CASE t \in turns
        BY <2>5, <4>2 DEF Remembered
      <4>. QED  BY <2>1, <4>1, <4>2
    <3>2. \A c \in Channels : \A k \in 0..Len(told[c]) :
            SubSeq(told'[c], 1, k) = SubSeq(told[c], 1, k) /\ k \in 0..Len(told'[c])
      BY <1>1, <2>1, <2>2, RememberedOnOne
    <3>. QED  BY <3>1, <3>2
  <2>. QED  BY <1>1, <2>1, <2>2, <2>5, RememberedOnOne DEF Remembered, IsLatest
<1>6. ASSUME NEW t \in turns, Answer(t)
      PROVE  Remembered'
  <2>1. turns' \subseteq turns
    BY <1>6 DEF Answer
  <2>2. CASE t.ch = "(connect)"
    BY <1>3, <1>6, <2>1, <2>2 DEF Answer
  <2>3. CASE t.ch # "(connect)"
    <3>1. t.ch \in Channels /\ Remember(t.ch, [n |-> t.n, own |-> TRUE])
      BY <1>6, <2>3 DEF Answer, Remembered
    <3>2. [n |-> t.n, own |-> TRUE] \in Said
      BY DEF Said, Asked
    <3>. QED  BY <1>2, <2>1, <3>1, <3>2
  <2>. QED  BY <2>2, <2>3
<1>7. CASE Restart
  <2>1. /\ recent' = [ch \in Channels |-> <<>>] /\ told' = recent' /\ turns' = {}
    BY <1>7 DEF Restart
  <2>2. IsLatest(<<>>, <<>>)
    BY NothingIsLatest
  <2>. QED  BY <2>1, <2>2, EmptySeq DEF Remembered, IsLatest
<1>8. CASE Greet
  BY <1>3, <1>8 DEF Greet
<1>9. CASE \/ \E p \in Players, ch \in Channels, line \in Lines :
              \E n \in ReadAs(p, line) : Obey(p, n, ch, line) \/ Ignore(p, n, ch, line)
           \/ \E t \in turns : Silence(t)
           \/ \E p \in Players : Rename(p) \/ SeeInRoom(p)
           \/ Connect \/ Mute \/ SetHarass
           \/ \E d \in Docs : Apply(d)
           \/ UNCHANGED vars
  BY <1>3, <1>9 DEF Obey, Ignore, Silence, Rename, SeeInRoom, Connect, Mute, SetHarass, Apply, talk,
                    vars
<1>. QED  BY <1>4, <1>5, <1>6, <1>7, <1>8, <1>9 DEF Next

\* A channel remembers the latest of what was said on it (router.py,
\* _remember_recent), and a turn is given exactly the latest of what had been said
\* before its line, for any cap and however turns overlap.
THEOREM ToldTheLatest == Spec => []TellsTheLatest
<1>1. Init => Asked /\ Remembered
  <2>1. IsLatest(<<>>, <<>>)
    BY NothingIsLatest
  <2>. QED  BY <2>1, EmptySeq DEF Init, Asked, Remembered
<1>2. Remembered => TellsTheLatest
  BY DEF Remembered, TellsTheLatest
<1>3. Asked /\ Remembered /\ [Next]_vars => Asked' /\ Remembered'
  BY AskedInductive, RememberedInductive, ChatAssumption
<1>. QED  BY <1>1, <1>2, <1>3, PTL DEF Spec

-------------------------------------------------------------------------------
(* The types *)

\* However much is said, no channel remembers more than the cap.
LEMMA LatestFits ==
  ASSUME NEW S, NEW r \in Seq(S), NEW e \in S, Cap \in Nat
  PROVE  Latest(Append(r, e)) \in Seq(S) /\ Len(Latest(Append(r, e))) <= Cap
<1> DEFINE a == Append(r, e)
<1>1. a \in Seq(S) /\ Len(a) \in Nat
  BY AppendProperties, LenProperties
<1> HIDE DEF a
<1>2. CASE Len(a) > Cap
  <2> DEFINE m == Len(a) - Cap + 1
             l == SubSeq(a, m, Len(a))
  <2>1. m \in Int /\ Len(a) \in Int /\ m >= 1 /\ \A i \in m..Len(a) : a[i] \in S
    BY <1>1, <1>2, ElementOfSeq
  <2>2. l \in Seq(S) /\ Len(l) = (IF m <= Len(a) THEN Len(a) - m + 1 ELSE 0)
    <3> HIDE DEF m
    <3>. QED  BY <2>1, SubSeqProperties
  <2>3. Latest(a) = l
    BY <1>2 DEF Latest
  <2> HIDE DEF l
  <2>4. Len(l) <= Cap
    BY <1>1, <1>2, <2>2
  <2>. QED  BY <2>2, <2>3, <2>4 DEF a
<1>3. CASE ~(Len(a) > Cap)
  <2>1. Latest(a) = a
    BY <1>3 DEF Latest
  <2>. QED  BY <1>1, <1>3, <2>1 DEF a
<1>. QED  BY <1>2, <1>3

LEMMA Bounds == Cap \in Nat /\ MaxLines \in Nat /\ MaxOps \in Nat
BY ChatAssumption DEF ChatAssumption

\* TypeOK, by what the steps change.
Settings == ws \in BOOLEAN /\ doc \in Docs /\ setup \in Docs /\ harass \in BOOLEAN
Persons == name \in [Players -> Names] /\ actors \in [Players -> Names \cup {Nobody}]
Heard == muted \in BOOLEAN /\ nLines \in 0..MaxLines
Talked ==
  /\ \A ch \in Channels : recent[ch] \in Seq(Entry) /\ Len(recent[ch]) <= Cap
  /\ turns \subseteq Turn

LEMMA TypeParts ==
  TypeOK <=> Settings /\ Persons /\ Heard /\ Talked /\ joined \subseteq Channels /\ nOps \in 0..MaxOps
BY DEF TypeOK, Settings, Persons, Heard, Talked

\* One more entry is remembered.
LEMMA TalkedMore ==
  ASSUME Remembered, Talked, NEW ch \in Channels, NEW e \in Entry, Remember(ch, e),
         turns' \subseteq Turn
  PROVE  Talked'
<1>1. recent' = [recent EXCEPT ![ch] = Latest(Append(recent[ch], e))] /\ DOMAIN recent = Channels
  BY DEF Remember, Remembered
<1>2. recent[ch] \in Seq(Entry)
  BY DEF Talked
<1>3. Latest(Append(recent[ch], e)) \in Seq(Entry) /\ Len(Latest(Append(recent[ch], e))) <= Cap
  BY <1>2, Bounds, LatestFits
<1>4. ASSUME NEW c \in Channels PROVE recent'[c] \in Seq(Entry) /\ Len(recent'[c]) <= Cap
  BY <1>1, <1>3 DEF Talked
<1>. QED  BY <1>4 DEF Talked

LEMMA TypeLine ==
  ASSUME Remembered, TypeOK, NEW p \in Players, NEW ch \in Channels, NEW line \in Lines, NEW n,
         Obey(p, n, ch, line) \/ Remark(p, n, ch, line) \/ Ask(p, n, ch, line) \/ Ignore(p, n, ch, line)
  PROVE  TypeOK'
<1>0. Settings /\ Persons /\ Heard /\ Talked /\ joined \subseteq Channels /\ nOps \in 0..MaxOps
  BY TypeParts
<1>1. /\ Hear /\ nLines' \in 0..MaxLines /\ nLines' \in 1..MaxLines
  <2>1. Hear
    BY DEF Obey, Remark, Ask, Ignore
  <2>. QED  BY <1>0, <2>1, Bounds DEF Heard, Hear
<1>2. Settings' /\ Persons' /\ (joined \subseteq Channels)' /\ (nOps \in 0..MaxOps)'
  BY <1>0, <1>1 DEF Hear, Settings, Persons, config, people
<1>3. muted' \in BOOLEAN
  BY <1>0 DEF Obey, Remark, Ask, Ignore, SetMuted, mute, Heard
<1>4. Talked'
  <2> DEFINE e == [n |-> nLines', own |-> FALSE]
  <2>1. e \in Entry
    BY <1>1 DEF Entry
  <2>2. CASE Obey(p, n, ch, line) \/ Ignore(p, n, ch, line)
    BY <1>0, <2>2 DEF Obey, Ignore, talk, Talked
  <2>3. CASE Remark(p, n, ch, line)
    <3>1. Remember(ch, e) /\ turns' \subseteq Turn
      BY <1>0, <2>3 DEF Remark, Talked
    <3> HIDE DEF e
    <3>. QED  BY <1>0, <2>1, <3>1, TalkedMore
  <2>4. CASE Ask(p, n, ch, line)
    <3> DEFINE u == [n |-> nLines', ch |-> ch, context |-> Context(ch), at |-> Len(told[ch])]
    <3>1. Remember(ch, e) /\ turns' = turns \cup {u}
      BY <2>4 DEF Ask
    <3>2. Context(ch) \in Seq(Entry) /\ Len(told[ch]) \in Nat
      BY <1>0, LenProperties DEF Context, Talked, Remembered
    <3>3. u \in Turn
      BY <1>1, <3>2 DEF Turn, Channel
    <3>4. turns' \subseteq Turn
      BY <1>0, <3>1, <3>3 DEF Talked
    <3> HIDE DEF e, u
    <3>. QED  BY <1>0, <2>1, <3>1, <3>4, TalkedMore
  <2>. QED  BY <2>2, <2>3, <2>4
<1>. QED  BY <1>1, <1>2, <1>3, <1>4, TypeParts DEF Heard, Settings, Persons, Talked, TypeOK

LEMMA TypeTurn ==
  ASSUME Remembered, TypeOK, Greet \/ \E t \in turns : Silence(t) \/ Answer(t)
  PROVE  TypeOK'
<1>0. Settings /\ Persons /\ Heard /\ Talked /\ joined \subseteq Channels /\ nOps \in 0..MaxOps
  BY TypeParts
<1>1. Settings' /\ Persons' /\ (joined \subseteq Channels)' /\ (nOps \in 0..MaxOps)'
  BY <1>0 DEF Greet, Silence, Answer, Hear, Settings, Persons, config, people
<1>2. Heard'
  <2>1. muted' = muted
    BY DEF Greet, Silence, Answer, mute
  <2>2. nLines' = nLines \/ (nLines < MaxLines /\ nLines' = nLines + 1)
    BY DEF Greet, Silence, Answer, Hear
  <2>. QED  BY <1>0, <2>1, <2>2, Bounds DEF Heard
<1>3. Talked'
  <2>1. CASE Greet
    <3> DEFINE u == [n |-> nLines', ch |-> "(connect)", context |-> <<>>, at |-> 0]
    <3>1. nLines' \in 1..MaxLines
      BY <1>0, <2>1, Bounds DEF Greet, Hear, Heard
    <3>2. u \in Turn
      BY <3>1, EmptySeq DEF Turn, Channel
    <3>. QED  BY <1>0, <2>1, <3>2 DEF Greet, Talked
  <2>2. ASSUME NEW t \in turns, Silence(t) PROVE Talked'
    BY <1>0, <2>2 DEF Silence, Talked
  <2>3. ASSUME NEW t \in turns, Answer(t) PROVE Talked'
    <3>1. t \in Turn /\ turns' \subseteq Turn
      BY <1>0, <2>3 DEF Answer, Talked
    <3>2. CASE t.ch = "(connect)"
      BY <1>0, <2>3, <3>1, <3>2 DEF Answer, Talked
    <3>3. CASE t.ch # "(connect)"
      <4>1. t.ch \in Channels /\ [n |-> t.n, own |-> TRUE] \in Entry
        BY <3>1, <3>3 DEF Turn, Channel, Entry
      <4>2. Remember(t.ch, [n |-> t.n, own |-> TRUE])
        BY <2>3, <3>3 DEF Answer
      <4>. QED  BY <1>0, <3>1, <4>1, <4>2, TalkedMore
    <3>. QED  BY <3>2, <3>3
  <2>. QED  BY <2>1, <2>2, <2>3
<1>. QED  BY <1>1, <1>2, <1>3 DEF Heard, Settings, Persons, Talked, TypeOK

LEMMA TypeWorld ==
  ASSUME Remembered, TypeOK,
         \/ \E p \in Players : Rename(p) \/ SeeInRoom(p)
         \/ Connect \/ Mute \/ SetHarass \/ Restart
         \/ \E d \in Docs : Apply(d)
  PROVE  TypeOK'
<1>0. Settings /\ Persons /\ Heard /\ Talked /\ joined \subseteq Channels /\ nOps \in 0..MaxOps
  BY TypeParts
<1>1. nLines' = nLines /\ nOps' \in 0..MaxOps
  <2>1. nLines' = nLines /\ (nOps' = nOps \/ (nOps < MaxOps /\ nOps' = nOps + 1))
    BY DEF Rename, SeeInRoom, Connect, Mute, SetHarass, Restart, Apply, Operate
  <2>. QED  BY <1>0, <2>1, Bounds
<1>2. Heard'
  BY <1>0, <1>1 DEF Rename, SeeInRoom, Connect, Mute, SetHarass, Restart, Apply, SetMuted, mute, Heard
<1>3. Settings'
  <2>1. \A d \in Docs : d.harass \in BOOLEAN
    BY ChatAssumption DEF ChatAssumption
  <2>. QED  BY <1>0, <2>1
            DEF Rename, SeeInRoom, Connect, Mute, SetHarass, Restart, Apply, config, Settings
<1>4. Persons'
  <2>1. ASSUME NEW ps, See(ps) PROVE Persons'
    BY <1>0, <2>1 DEF See, Upserted, Persons
  <2>2. ASSUME NEW p \in Players, Rename(p) PROVE Persons'
    BY <1>0, <2>2 DEF Rename, Persons
  <2>3. CASE Mute \/ SetHarass \/ Restart \/ \E d \in Docs : Apply(d)
    BY <1>0, <2>3 DEF Mute, SetHarass, Restart, Apply, people, Persons
  <2>. QED  BY <2>1, <2>2, <2>3 DEF SeeInRoom, Connect
<1>5. Talked'
  <2>1. CASE Restart
    <3>1. recent' = [ch \in Channels |-> <<>>] /\ turns' = {}
      BY <2>1 DEF Restart
    <3>2. <<>> \in Seq(Entry) /\ Len(<<>>) = 0
      BY EmptySeq
    <3>. QED  BY <3>1, <3>2, Bounds DEF Talked
  <2>2. CASE ~Restart
    <3>1. recent' = recent /\ turns' = turns
      BY <2>2 DEF Rename, SeeInRoom, Connect, Mute, SetHarass, Apply, talk
    <3>. QED  BY <1>0, <3>1 DEF Talked
  <2>. QED  BY <2>1, <2>2
<1>6. joined' \subseteq Channels
  BY <1>0 DEF Rename, SeeInRoom, Connect, Mute, SetHarass, Restart, Apply, Wanted
<1>. QED  BY <1>1, <1>2, <1>3, <1>4, <1>5, <1>6 DEF Heard, Settings, Persons, Talked, TypeOK

LEMMA TypeInductive == Remembered /\ TypeOK /\ [Next]_vars => TypeOK'
<1>1. ASSUME TypeOK, UNCHANGED vars PROVE TypeOK'
  BY <1>1 DEF TypeOK, vars, config, people, talk, mute
<1>. QED  BY <1>1, TypeLine, TypeTurn, TypeWorld DEF Next

LEMMA TypeInit == Init => TypeOK
<1> SUFFICES ASSUME Init PROVE TypeOK
  OBVIOUS
<1>1. <<>> \in Seq(Entry) /\ Len(<<>>) = 0
  BY EmptySeq
<1>2. Settings
  BY ChatAssumption DEF ChatAssumption, Init, Settings
<1>3. Persons /\ Heard
  <2>1. name \in [Players -> Names] /\ actors \in [Players -> Names \cup {Nobody}]
    BY Zenon DEF Init
  <2>2. muted \in BOOLEAN
    BY Zenon DEF Init
  <2>3. nLines \in 0..MaxLines
    BY Bounds DEF Init
  <2>. QED  BY <2>1, <2>2, <2>3, Zenon DEF Persons, Heard
<1>4. Talked
  BY <1>1, Bounds DEF Init, Talked
<1>5. joined \subseteq Channels /\ nOps \in 0..MaxOps
  BY Bounds DEF Init
<1>. QED  BY <1>2, <1>3, <1>4, <1>5, TypeParts

\* Every variable keeps its type: in particular no channel remembers more than
\* RECENT_CAP lines (router.py), whatever overlaps.
THEOREM Typing == Spec => []TypeOK
<1>1. Init => Asked /\ Remembered
  <2>1. IsLatest(<<>>, <<>>)
    BY NothingIsLatest
  <2>. QED  BY <2>1, EmptySeq DEF Init, Asked, Remembered
<1>2. Asked /\ Remembered /\ [Next]_vars => Asked' /\ Remembered'
  BY AskedInductive, RememberedInductive, ChatAssumption
<1>. QED  BY <1>1, <1>2, TypeInit, TypeInductive, PTL DEF Spec
===============================================================================
