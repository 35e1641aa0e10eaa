------------------------------ MODULE SceneProofs ------------------------------
(***************************************************************************)
(* Theorems about Scene: its typing, the consent gate and the memory of a  *)
(* scene, for every number of lines, nudges, poses and characters.         *)
(***************************************************************************)
EXTENDS Scene, SequenceTheorems, FiniteSetTheorems, TLAPS

-------------------------------------------------------------------------------
(* Lemmas on sequences *)

LEMMA RemoveAtSeq ==
  ASSUME NEW S, NEW s \in Seq(S), NEW k \in DOMAIN s
  PROVE  RemoveAt(s, k) \in Seq(S)
BY SubSeqProperties, ConcatProperties DEF RemoveAt

LEMMA RemoveAtLen ==
  ASSUME NEW S, NEW s \in Seq(S), NEW k \in 1..Len(s)
  PROVE  Len(RemoveAt(s, k)) <= Len(s)
<1>1. Len(s) \in Nat
  BY LenProperties
<1>2. \A i \in 1..k - 1 : s[i] \in S
  BY <1>1, ElementOfSeq
<1>3. \A i \in k + 1..Len(s) : s[i] \in S
  BY <1>1, ElementOfSeq
<1> DEFINE u == SubSeq(s, 1, k - 1)
           v == SubSeq(s, k + 1, Len(s))
<1>4. u \in Seq(S) /\ Len(u) = IF 1 <= k - 1 THEN k - 1 - 1 + 1 ELSE 0
  BY <1>1, <1>2, SubSeqProperties
<1>5. v \in Seq(S) /\ Len(v) = IF k + 1 <= Len(s) THEN Len(s) - (k + 1) + 1 ELSE 0
  BY <1>1, <1>3, SubSeqProperties
<1>6. RemoveAt(s, k) = u \o v
  BY DEF RemoveAt
<1> HIDE DEF u, v
<1>7. Len(u \o v) = Len(u) + Len(v)
  BY <1>4, <1>5, ConcatProperties
<1>8. Len(u) = k - 1 /\ Len(v) = Len(s) - k
  BY <1>1, <1>4, <1>5
<1>9. Len(u \o v) = (k - 1) + (Len(s) - k)
  BY <1>7, <1>8
<1>10. (k - 1) + (Len(s) - k) <= Len(s)
  BY <1>1
<1> QED
  BY <1>6, <1>9, <1>10

\* A function on the domain of a sequence is a sequence.
LEMMA SameDomainSeq ==
  ASSUME NEW S, NEW T, NEW s \in Seq(S), NEW f \in [DOMAIN s -> T]
  PROVE  f \in Seq(T) /\ Len(f) = Len(s)
BY SeqDef, LenProperties

LEMMA PartOfSeq ==
  ASSUME NEW S, NEW s \in Seq(S), NEW m \in Nat \ {0}, NEW n \in 0..Len(s)
  PROVE  /\ SubSeq(s, m, n) \in Seq(S)
         /\ m <= n => Len(SubSeq(s, m, n)) = n - m + 1
         /\ m > n => Len(SubSeq(s, m, n)) = 0
         /\ \A k \in 1..n - m + 1 : SubSeq(s, m, n)[k] = s[k + m - 1]
<1>1. Len(s) \in Nat /\ n \in Int /\ m \in Int
  BY LenProperties
<1>2. \A k \in m..n : s[k] \in S
  BY <1>1, ElementOfSeq
<1>3. /\ SubSeq(s, m, n) \in Seq(S)
      /\ Len(SubSeq(s, m, n)) = IF m <= n THEN n - m + 1 ELSE 0
      /\ \A k \in 1..n - m + 1 : SubSeq(s, m, n)[k] = s[m + k - 1]
  BY <1>1, <1>2, SubSeqProperties
<1> QED
  BY <1>1, <1>3

LEMMA FrontLast ==
  ASSUME NEW S, NEW s \in Seq(S), s # <<>>
  PROVE  /\ Front(s) \in Seq(S) /\ Len(Front(s)) = Len(s) - 1
         /\ Last(s) \in S
         /\ \A k \in 1..Len(s) - 1 : Front(s)[k] = s[k]
<1>1. Len(s) \in Nat \ {0}
  BY EmptySeq
<1>2. Last(s) \in S
  BY <1>1, ElementOfSeq DEF Last
<1>3. PICK n \in Nat : Len(s) = n + 1
  BY <1>1
<1>4. Front(s) = SubSeq(s, 1, n)
  BY <1>3 DEF Front
<1>5. /\ SubSeq(s, 1, n) \in Seq(S)
      /\ 1 <= n => Len(SubSeq(s, 1, n)) = n
      /\ 1 > n => Len(SubSeq(s, 1, n)) = 0
      /\ \A k \in 1..n : SubSeq(s, 1, n)[k] = s[k]
  BY <1>3, PartOfSeq
<1> QED
  BY <1>2, <1>3, <1>4, <1>5

LEMMA DroppedType ==
  ASSUME NEW q \in Seq(Block)
  PROVE  Dropped(q) \in Nat /\ (q # <<>> => Dropped(q) < Len(q))
<1> DEFINE n == Len(q) - 1
<1>1. Len(q) \in Nat /\ (q # <<>> => Len(q) > 0)
  BY EmptySeq, LenProperties
<1>2. n \in Int /\ (Len(q) = 0 => n < 1)
  BY <1>1
<1>3. Overweight(q) \in SUBSET (1..n)
  BY DEF Overweight
<1>4. IsFiniteSet(1..n) /\ Cardinality(1..n) = IF 1 > n THEN 0 ELSE n - 1 + 1
  <2> HIDE DEF n
  <2> QED BY <1>2, FS_Interval
<1>5. /\ Cardinality(Overweight(q)) \in Nat
      /\ Cardinality(Overweight(q)) <= Cardinality(1..n)
  <2> HIDE DEF n
  <2> QED BY <1>3, <1>4, FS_Subset, FS_CardinalityType
<1>6. q # <<>> => Cardinality(Overweight(q)) <= Len(q) - 1
  BY <1>1, <1>4, <1>5
<1> QED
  BY <1>1, <1>5, <1>6, SceneAssumption DEF Dropped

LEMMA TrimmedType ==
  ASSUME NEW q \in Seq(Block)
  PROVE  /\ Trimmed(q) \in Seq(Block)
         /\ q # <<>> => Trimmed(q) # <<>> /\ Last(Trimmed(q)) = Last(q)
<1>1. Len(q) \in Nat /\ (q # <<>> => Len(q) > 0) /\ Dropped(q) \in Nat
      /\ (q # <<>> => Dropped(q) < Len(q))
  BY EmptySeq, LenProperties, DroppedType
<1>2. \A k \in Dropped(q) + 1..Len(q) : q[k] \in Block
  BY <1>1, ElementOfSeq
<1>3. /\ Trimmed(q) \in Seq(Block)
      /\ Len(Trimmed(q)) = IF Dropped(q) + 1 <= Len(q) THEN Len(q) - Dropped(q) ELSE 0
      /\ \A k \in 1..Len(q) - Dropped(q) : Trimmed(q)[k] = q[Dropped(q) + k]
  BY <1>1, <1>2, SubSeqProperties DEF Trimmed
<1> QED
  BY <1>1, <1>3, EmptySeq DEF Last

LEMMA LinesType ==
  ASSUME NEW q \in Seq(Block)
  PROVE  LinesOf(q) \in SUBSET Nat /\ LastLines(q) \in SUBSET Nat
<1>1. \A k \in DOMAIN q : q[k] \in Block
  BY ElementOfSeq, LenProperties
<1>2. q # <<>> => Last(q) \in Block
  BY FrontLast
<1> QED
  BY <1>1, <1>2 DEF LinesOf, LastLines, Block, Lines

LEMMA LastLinesType ==
  ASSUME NEW q \in Seq(Block), q # <<>>
  PROVE  LastLines(q) \in Lines
<1>1. Last(q) \in Block
  BY FrontLast
<1> QED
  BY <1>1 DEF LastLines, Block

LEMMA DetachedType ==
  ASSUME NEW ps \in [Poses -> PoseRec], NEW q \in Seq(Block)
  PROVE  Detached(ps, q) \in [Poses -> PoseRec]
<1>1. LastLines(q) \in SUBSET Nat
  BY LinesType
<1> QED
  BY <1>1 DEF Detached, PoseRec

\* _ledger_block and the absence of it keep the distillations well typed.
LEMMA HandedType ==
  ASSUME distills \in Seq(Task), given \in SUBSET Nat, NEW lines \in Lines,
         Handed(lines) \/ NothingHanded
  PROVE  distills' \in Seq(Task) /\ given' \in SUBSET Nat
<1> DEFINE task == [lines |-> lines, st |-> "queued"]
<1>1. task \in Task
  BY DEF Task
<1>2. Append(distills, task) \in Seq(Task)
  BY <1>1, AppendProperties
<1>3. given \cup lines \in SUBSET Nat
  BY DEF Lines
<1>4. CASE Handed(lines)
  BY <1>2, <1>3, <1>4 DEF Handed
<1>5. CASE NothingHanded
  BY <1>5 DEF NothingHanded
<1> QED
  BY <1>4, <1>5

LEMMA NothingKeepsType ==
  ASSUME distills \in Seq(Task), given \in SUBSET Nat, NothingHanded
  PROVE  distills' \in Seq(Task) /\ given' \in SUBSET Nat
BY DEF NothingHanded

-------------------------------------------------------------------------------
(* Typing *)

LEMMA TypeInit == Init => TypeOK
<1> SUFFICES ASSUME Init PROVE TypeOK
  OBVIOUS
<1>1. Idle \in PoseRec
  BY DEF Idle, PoseRec
<1>2. poses \in [Poses -> PoseRec]
  BY <1>1 DEF Init
<1>3. queue \in Seq(Block) /\ ledger \in Seq(Lines)
      /\ nudges \in Seq(NudgeRec) /\ distills \in Seq(Task)
  BY EmptySeq DEF Init
<1>4. {saved, recall, off, given} \subseteq SUBSET Nat
  BY DEF Init
<1>5. rp \in BOOLEAN /\ keyed \in BOOLEAN
  BY DEF Init
<1>6. /\ owners \in SUBSET Chars
      /\ pending \in Chars \cup {None} /\ granted \in Chars \cup {None}
      /\ agreed \in SUBSET Chars
      /\ {nLines, nNudges, base} \subseteq Nat
  BY DEF Init
<1> QED
  BY <1>2, <1>3, <1>4, <1>5, <1>6 DEF TypeOK

\* Taking a heard line into the tail.
LEMMA TypeHear ==
  ASSUME TypeOK, NEW p \in Poser, Hear(p)
  PROVE  TypeOK'
<1> USE DEF TypeOK
<1>1. nLines' \in Nat /\ queue \in Seq(Block)
  BY DEF Hear
<1>2. CASE queue # <<>> /\ SamePoser(Last(queue), p)
  <2> DEFINE grown == [Last(queue) EXCEPT !.lines = @ \cup {nLines'}]
  <2>1. Front(queue) \in Seq(Block) /\ Last(queue) \in Block
    BY <1>1, <1>2, FrontLast
  <2>2. grown \in Block
    BY <1>1, <2>1 DEF Block, Lines
  <2>3. Append(Front(queue), grown) \in Seq(Block)
    BY <2>1, <2>2, AppendProperties
  <2>4. queue' = Trimmed(Append(Front(queue), grown)) /\ NothingHanded
    BY <1>2 DEF Hear
  <2>5. queue' \in Seq(Block)
    BY <2>3, <2>4, TrimmedType
  <2> QED
    BY <1>1, <2>4, <2>5
       DEF Hear, NothingHanded, gateVars, nudgeVars, memVars
<1>3. CASE ~(queue # <<>> /\ SamePoser(Last(queue), p))
  <2> DEFINE block == [by |-> p, lines |-> {nLines'}]
  <2>1. block \in Block
    BY <1>1 DEF Block, Lines
  <2>2. Append(queue, block) \in Seq(Block)
    BY <1>1, <2>1, AppendProperties
  <2>3. queue' \in Seq(Block)
    BY <1>3, <2>2, TrimmedType DEF Hear
  <2>4. queue # <<>> => Last(queue).lines \in Lines
    BY <1>1, LastLinesType DEF LastLines
  <2>5. distills' \in Seq(Task) /\ given' \in SUBSET Nat
    <3>1. CASE queue # <<>>
      BY <1>3, <2>4, <3>1, HandedType DEF Hear
    <3>2. CASE queue = <<>>
      BY <1>3, <3>2 DEF Hear, NothingHanded
    <3> QED
      BY <3>1, <3>2
  <2> QED
    BY <1>1, <2>3, <2>5 DEF Hear, gateVars, nudgeVars, memVars
<1> QED
  BY <1>2, <1>3

\* An answered or failed distillation, or a started one.
LEMMA TypeDistill ==
  ASSUME TypeOK,
         DistillStart \/ \E k \in DOMAIN distills, entry \in BOOLEAN,
                            actors \in SUBSET Chars : DistillEnd(k, entry, actors)
  PROVE  TypeOK'
<1> USE DEF TypeOK
<1>1. \A k \in DOMAIN distills : k \in 1..Len(distills) /\ distills[k] \in Task
  BY LenProperties, ElementOfSeq
<1>2. CASE DistillStart
  <2>1. PICK k \in DOMAIN distills :
          distills' = [distills EXCEPT ![k].st = "writing"]
    BY <1>2 DEF DistillStart
  <2>2. [distills[k] EXCEPT !.st = "writing"] \in Task
    BY <1>1, <2>1 DEF Task
  <2>3. distills' = [distills EXCEPT ![k] = [distills[k] EXCEPT !.st = "writing"]]
    BY <2>1
  <2>4. distills' \in Seq(Task)
    BY <1>1, <2>2, <2>3, ExceptSeq
  <2> QED
    BY <1>2, <2>4 DEF DistillStart, tailVars, gateVars, nudgeVars, memVars
<1>3. CASE \E k \in DOMAIN distills, entry \in BOOLEAN,
              actors \in SUBSET Chars : DistillEnd(k, entry, actors)
  <2>1. PICK k \in DOMAIN distills, entry \in BOOLEAN, actors \in SUBSET Chars :
          DistillEnd(k, entry, actors)
    BY <1>3
  <2>2. distills' \in Seq(Task)
    BY <2>1, RemoveAtSeq DEF DistillEnd
  <2>3. distills[k].lines \in Lines
    BY <1>1 DEF Task
  <2>4. ledger' \in Seq(Lines)
    BY <2>1, <2>3, AppendProperties DEF DistillEnd
  <2> QED
    BY <2>1, <2>2, <2>4 DEF DistillEnd, tailVars, gateVars, nudgeVars, memVars
<1> QED
  BY <1>2, <1>3

LEMMA TypeNudge ==
  ASSUME TypeOK, NEW text \in Texts, Nudge(text)
  PROVE  TypeOK'
<1> USE DEF TypeOK
<1> DEFINE all == Append(nudges, [id |-> nNudges', about |-> text.about,
                                  lethal |-> text.lethal])
<1>1. nNudges' \in Nat
  BY DEF Nudge
<1>2. [id |-> nNudges', about |-> text.about, lethal |-> text.lethal] \in NudgeRec
  BY <1>1, SceneAssumption DEF Text, NudgeRec
<1>3. all \in Seq(NudgeRec) /\ Len(all) \in Nat /\ NudgeCap \in Nat
  BY <1>2, AppendProperties, LenProperties, SceneAssumption
<1>4. Len(all) > NudgeCap =>
        SubSeq(all, Len(all) - NudgeCap + 1, Len(all)) \in Seq(NudgeRec)
  <2> HIDE DEF all
  <2> SUFFICES ASSUME Len(all) > NudgeCap
               PROVE  SubSeq(all, Len(all) - NudgeCap + 1, Len(all)) \in Seq(NudgeRec)
    OBVIOUS
  <2>1. Len(all) - NudgeCap + 1 \in Nat \ {0} /\ Len(all) \in 0..Len(all)
    BY <1>3
  <2> QED
    BY <1>3, <2>1, PartOfSeq
<1>5. nudges' \in Seq(NudgeRec)
  BY <1>3, <1>4 DEF Nudge
<1> QED
  BY <1>1, <1>5 DEF Nudge, tailVars, ledgerVars, gateVars, memVars

LEMMA TargetsType == TypeOK => \A seed : Targets(seed) \in SUBSET Chars
BY DEF TypeOK, Targets

LEMMA TypeGate ==
  ASSUME TypeOK,
         ConsentOk \/ ConsentDeny \/ \E seed : AskConsent(seed)
  PROVE  TypeOK'
<1>1. \A seed : Targets(seed) \in SUBSET Chars
  BY TargetsType
<1>2. /\ pending' \in Chars \cup {None} /\ granted' \in Chars \cup {None}
      /\ agreed' \in SUBSET Chars
  BY <1>1 DEF TypeOK, ConsentOk, ConsentDeny, AskConsent
<1> QED
  BY <1>2 DEF TypeOK, ConsentOk, ConsentDeny, AskConsent, tailVars, ledgerVars,
              nudgeVars, memVars

LEMMA TypePoseStart ==
  ASSUME TypeOK, NEW i \in Poses, NEW seed, PoseStart(i, seed)
  PROVE  TypeOK'
<1>3. Targets(seed) \in SUBSET Chars
  BY TargetsType
<1> DEFINE pose == [on |-> TRUE, live |-> keyed, last |-> {},
                    mortal |-> Targets(seed)]
<1>4. pose \in PoseRec
  BY <1>3 DEF PoseRec, TypeOK
<1>5. poses' = [poses EXCEPT ![i] = pose]
  BY DEF PoseStart
<1>6. poses' \in [Poses -> PoseRec]
  BY <1>4, <1>5 DEF TypeOK
<1> QED
  BY <1>6 DEF TypeOK, PoseStart, tailVars, ledgerVars, gateVars, nudgeVars, memVars

LEMMA TypePoseEnd ==
  ASSUME TypeOK, NEW i \in Poses, PoseSilent(i) \/ PoseSpeaks(i)
  PROVE  TypeOK'
<1>1. Idle \in PoseRec
  BY DEF Idle, PoseRec
<1>2. CASE PoseSilent(i)
  <2>1. poses' \in [Poses -> PoseRec]
    BY <1>1, <1>2 DEF TypeOK, PoseSilent
  <2> QED
    BY <1>2, <2>1 DEF TypeOK, PoseSilent, tailVars, ledgerVars, gateVars,
                      nudgeVars, memVars
<1>3. CASE PoseSpeaks(i)
  <2> DEFINE last == IF poses[i].live THEN LastLines(queue) ELSE poses[i].last
  <2>1. Detached(poses, queue) \in [Poses -> PoseRec]
    BY DetachedType DEF TypeOK
  <2>2. poses' \in [Poses -> PoseRec]
    BY <1>1, <1>3, <2>1 DEF PoseSpeaks
  <2>3. last \in SUBSET Nat
    BY LinesType DEF TypeOK, PoseRec
  <2>4. NothingHanded \/ (last \in Lines /\ Handed(last))
    BY <1>3, <2>3 DEF PoseSpeaks, Lines
  <2>5. distills' \in Seq(Task) /\ given' \in SUBSET Nat
    <3> HIDE DEF last
    <3> QED BY <2>4, HandedType, NothingKeepsType DEF TypeOK
  <2>6. queue' \in Seq(Block) /\ nudges' \in Seq(NudgeRec)
    BY <1>3, EmptySeq DEF PoseSpeaks
  <2> QED
    BY <1>3, <2>2, <2>5, <2>6 DEF TypeOK, PoseSpeaks, memVars
<1> QED
  BY <1>2, <1>3

LEMMA TypeEndScene ==
  ASSUME TypeOK, EndScene
  PROVE  /\ rp' \in BOOLEAN /\ keyed' \in BOOLEAN
         /\ queue' \in Seq(Block) /\ ledger' \in Seq(Lines)
         /\ owners' \in SUBSET Chars /\ nudges' \in Seq(NudgeRec)
         /\ pending' \in Chars \cup {None} /\ granted' \in Chars \cup {None}
         /\ agreed' \in SUBSET Chars
         /\ {recall', given'} \subseteq SUBSET Nat
         /\ distills' \in Seq(Task) /\ poses' \in [Poses -> PoseRec]
         /\ {nLines', nNudges', base'} \subseteq Nat
<1> USE DEF EndScene
<1>1. queue' \in Seq(Block) /\ ledger' \in Seq(Lines) /\ nudges' \in Seq(NudgeRec)
  BY EmptySeq
<1>2. poses' \in [Poses -> PoseRec]
  BY DetachedType DEF TypeOK
<1>3. \A k \in DOMAIN distills : distills[k] \in Task
  BY LenProperties, ElementOfSeq DEF TypeOK
<1>4. \A k \in DOMAIN distills : [distills[k] EXCEPT !.st = "orphan"] \in Task
  BY <1>3 DEF Task
<1>5. distills' \in [DOMAIN distills -> Task]
  BY <1>3, <1>4
<1>6. distills' \in Seq(Task)
  BY <1>5, SameDomainSeq DEF TypeOK
<1>7. {recall', given'} \subseteq SUBSET Nat
  BY DEF TypeOK
<1>8. rp' \in BOOLEAN /\ keyed' \in BOOLEAN /\ owners' \in SUBSET Chars
  OBVIOUS
<1>9. pending' \in Chars \cup {None} /\ granted' \in Chars \cup {None}
      /\ agreed' \in SUBSET Chars /\ {nLines', nNudges', base'} \subseteq Nat
  BY DEF TypeOK
<1> QED
  BY <1>1, <1>2, <1>6, <1>7, <1>8, <1>9

LEMMA TypeBoundary ==
  ASSUME TypeOK,
         \/ ClearQueue \/ RpOn \/ RpOff \/ RpOffStart
         \/ \E summarized \in BOOLEAN : RpOffEnd(summarized)
         \/ \E enabled \in BOOLEAN : HttpRp(enabled)
  PROVE  TypeOK'
<1>1. CASE ClearQueue
  <2>1. queue' \in Seq(Block) /\ poses' \in [Poses -> PoseRec]
    BY <1>1, EmptySeq, DetachedType DEF TypeOK, ClearQueue
  <2> QED
    BY <1>1, <2>1 DEF TypeOK, ClearQueue, ledgerVars, gateVars, nudgeVars, memVars
<1>2. CASE RpOn
  BY <1>2 DEF TypeOK, RpOn, ledgerVars, gateVars, nudgeVars
<1>3. CASE RpOff
  <2>1. \A k \in DOMAIN ledger : ledger[k] \in SUBSET Nat
    BY LenProperties, ElementOfSeq DEF TypeOK, Lines
  <2>2. saved' \in SUBSET Nat /\ off' \in SUBSET Nat
    BY <1>3, <2>1 DEF RpOff, Range, TypeOK
  <2> QED
    BY <1>3, <2>2, TypeEndScene DEF RpOff, TypeOK
<1>4. CASE RpOffStart
  <2>1. off' \in SUBSET Nat
    BY <1>4, LinesType DEF RpOffStart, TypeOK
  <2> QED
    BY <1>4, <2>1 DEF RpOffStart, TypeOK, ledgerVars, gateVars, nudgeVars
<1>5. CASE \E summarized \in BOOLEAN : RpOffEnd(summarized)
  <2>1. saved' \in SUBSET Nat /\ off' \in SUBSET Nat
    BY <1>5 DEF RpOffEnd, TypeOK
  <2> QED
    BY <1>5, <2>1, TypeEndScene DEF RpOffEnd, TypeOK
<1>6. CASE \E enabled \in BOOLEAN : HttpRp(enabled)
  BY <1>6 DEF TypeOK, HttpRp, ledgerVars, gateVars, nudgeVars, memVars
<1> QED
  BY <1>1, <1>2, <1>3, <1>4, <1>5, <1>6

LEMMA TypeStep == TypeOK /\ [Next]_vars => TypeOK'
<1> SUFFICES ASSUME TypeOK, [Next]_vars PROVE TypeOK'
  OBVIOUS
<1>1. CASE UNCHANGED vars
  BY <1>1 DEF TypeOK, vars
<1>2. CASE \E p \in Poser : Hear(p)
  BY <1>2, TypeHear
<1>3. CASE DistillStart \/ \E k \in DOMAIN distills, entry \in BOOLEAN,
                              actors \in SUBSET Chars : DistillEnd(k, entry, actors)
  BY <1>3, TypeDistill
<1>4. CASE \E text \in Texts : Nudge(text)
  BY <1>4, TypeNudge
<1>5. CASE ConsentOk \/ ConsentDeny
           \/ \E seed \in Texts \cup {Plain} : AskConsent(seed)
  BY <1>5, TypeGate
<1>6. CASE \E i \in Poses, seed \in Texts \cup {Plain} : PoseStart(i, seed)
  BY <1>6, TypePoseStart
<1>7. CASE \E i \in Poses : PoseSilent(i) \/ PoseSpeaks(i)
  BY <1>7, TypePoseEnd
<1>8. CASE \/ ClearQueue \/ RpOn \/ RpOff \/ RpOffStart
           \/ \E summarized \in BOOLEAN : RpOffEnd(summarized)
           \/ \E enabled \in BOOLEAN : HttpRp(enabled)
  BY <1>8, TypeBoundary
<1> QED
  BY <1>1, <1>2, <1>3, <1>4, <1>5, <1>6, <1>7, <1>8 DEF Next

\* The scene's state keeps its shape under every interleaving of its tasks.
THEOREM TypeCorrect == Spec => []TypeOK
<1> QED
  BY TypeInit, TypeStep, PTL DEF Spec

-------------------------------------------------------------------------------
(* The consent gate *)

\* The history of the oks and the grant go together: the grant is one of them, and
\* none is left where no grant is.
GrantIsAgreed ==
  IF granted = None THEN agreed = {} ELSE granted \in agreed

\* The conjuncts hold each other up: whoever is asked is a player of the scene and
\* does not hold the grant, and so is whoever the grant names.
ConsentInv ==
  TypeOK /\ ConsentConcernsAPlayer /\ AskedAgainOnlyIfReplaced /\ GrantIsAgreed

LEMMA ConsentInit == Init => ConsentInv
BY TypeInit DEF Init, ConsentInv, ConsentConcernsAPlayer, AskedAgainOnlyIfReplaced,
                GrantIsAgreed

\* Emptying the tail starts and ends no pose.
LEMMA DetachedGate ==
  ASSUME NEW ps \in [Poses -> PoseRec], NEW q, NEW i \in Poses
  PROVE  Detached(ps, q)[i].on = ps[i].on
BY DEF Detached, PoseRec

LEMMA OwnersKept ==
  ASSUME TypeOK, [Next]_vars, ~RpOff, ~\E summarized \in BOOLEAN : RpOffEnd(summarized)
  PROVE  owners \subseteq owners'
BY DEF Next, vars, Hear, ClearQueue, DistillStart, DistillEnd, Nudge, AskConsent,
       ConsentOk, ConsentDeny, PoseStart, PoseSilent, PoseSpeaks, RpOn, RpOffStart,
       HttpRp, ledgerVars

LEMMA ConsentStep == ConsentInv /\ [Next]_vars => ConsentInv'
<1> SUFFICES ASSUME ConsentInv, [Next]_vars PROVE ConsentInv'
  OBVIOUS
<1> DEFINE ends == RpOff \/ \E summarized \in BOOLEAN : RpOffEnd(summarized)
<1>1. TypeOK /\ TypeOK'
  BY TypeStep DEF ConsentInv
<1>2. ConsentConcernsAPlayer'
  <2>1. CASE ends
    BY <2>1 DEF RpOff, RpOffEnd, EndScene, ConsentConcernsAPlayer
  <2>2. CASE ~ends
    <3>1. owners \subseteq owners'
      BY <1>1, <2>2, OwnersKept
    <3>2. {pending, granted} \subseteq owners \cup {None}
      BY DEF ConsentInv, ConsentConcernsAPlayer
    <3>3. \A seed : Targets(seed) \subseteq owners
      BY DEF Targets
    <3>4. pending' \in {pending, None} \/ \E seed : pending' \in Targets(seed)
      BY <2>2 DEF Next, vars, Hear, ClearQueue, DistillStart, DistillEnd, Nudge,
                  AskConsent, ConsentOk, ConsentDeny, PoseStart, PoseSilent,
                  PoseSpeaks, RpOn, RpOffStart, HttpRp, gateVars
    <3>5. granted' \in {granted, pending, None}
      BY <2>2 DEF Next, vars, Hear, ClearQueue, DistillStart, DistillEnd, Nudge,
                  AskConsent, ConsentOk, ConsentDeny, PoseStart, PoseSilent,
                  PoseSpeaks, RpOn, RpOffStart, HttpRp, gateVars
    <3> QED
      BY <3>1, <3>2, <3>3, <3>4, <3>5 DEF ConsentConcernsAPlayer
  <2> QED
    BY <2>1, <2>2
<1>3. \/ UNCHANGED gateVars
      \/ ConsentOk
      \/ pending' = None /\ UNCHANGED <<granted, agreed>>
      \/ granted' = None /\ agreed' = {} /\ pending' \in {pending, None}
      \/ \E seed : AskConsent(seed)
  BY DEF Next, vars, Hear, ClearQueue, DistillStart, DistillEnd, Nudge,
         ConsentDeny, PoseStart, PoseSilent, PoseSpeaks, RpOn,
         RpOff, RpOffStart, RpOffEnd, EndScene, HttpRp, gateVars
<1>4. AskedAgainOnlyIfReplaced' /\ GrantIsAgreed'
  <2>1. CASE UNCHANGED gateVars
    BY <2>1 DEF ConsentInv, AskedAgainOnlyIfReplaced, GrantIsAgreed, gateVars
  <2>2. CASE ConsentOk
    BY <2>2 DEF ConsentInv, AskedAgainOnlyIfReplaced, GrantIsAgreed, ConsentOk
  <2>3. CASE pending' = None /\ UNCHANGED <<granted, agreed>>
    BY <2>3 DEF ConsentInv, AskedAgainOnlyIfReplaced, GrantIsAgreed
  <2>4. CASE granted' = None /\ agreed' = {} /\ pending' \in {pending, None}
    BY <2>4 DEF AskedAgainOnlyIfReplaced, GrantIsAgreed
  <2>5. CASE \E seed : AskConsent(seed)
    BY <2>5 DEF ConsentInv, AskedAgainOnlyIfReplaced, GrantIsAgreed, AskConsent
  <2> QED
    BY <1>3, <2>1, <2>2, <2>3, <2>4, <2>5
<1> QED
  BY <1>1, <1>2, <1>4 DEF ConsentInv

LEMMA ConsentAlways == Spec => []ConsentInv
BY ConsentInit, ConsentStep, PTL DEF Spec

\* Whatever the interleaving, nobody outside the present do-not-puppet set is asked
\* for consent or holds a grant, and a player who has agreed is asked again only when
\* another's ok has replaced his (cmd_consent_ok keeps one grant).
THEOREM GateAsksRightly == Spec => []AsksRightly
<1>1. ConsentInv => AsksRightly
  BY DEF ConsentInv, AsksRightly
<1> QED
  BY <1>1, ConsentAlways, PTL

\* A pose that starts (_trigger_rp) threatens nobody, or one who agreed.
LEMMA StartsUnderConsent ==
  ASSUME ConsentInv, [Next]_vars, NEW i \in Poses, ~poses[i].on, poses'[i].on,
         poses'[i].mortal # {}
  PROVE  poses'[i].mortal \cap agreed # {}
<1>1. poses \in [Poses -> PoseRec]
  BY DEF ConsentInv, TypeOK
<1>2. PICK j \in Poses, seed \in Texts \cup {Plain} : PoseStart(j, seed)
  <2>1. Detached(poses, queue)[i].on = poses[i].on
    BY <1>1, DetachedGate, Zenon
  <2>2. CASE \E j \in Poses : PoseSilent(j)
    BY <1>1, <2>2 DEF PoseSilent, Idle
  <2>3. CASE \E j \in Poses : PoseSpeaks(j)
    <3>1. PICK j \in Poses : PoseSpeaks(j)
      BY <2>3
    <3>2. Detached(poses, queue) \in [Poses -> PoseRec]
      BY DetachedType DEF ConsentInv, TypeOK
    <3>3. poses'[i] = Idle \/ poses'[i] = Detached(poses, queue)[i]
      BY <3>1, <3>2 DEF PoseSpeaks
    <3> QED  BY <2>1, <3>3 DEF Idle
  <2>4. CASE poses' = Detached(poses, queue) \/ UNCHANGED poses
    BY <2>1, <2>4
  <2>5. \/ \E j \in Poses, seed \in Texts \cup {Plain} : PoseStart(j, seed)
        \/ \E j \in Poses : PoseSilent(j)
        \/ \E j \in Poses : PoseSpeaks(j)
        \/ poses' = Detached(poses, queue) \/ UNCHANGED poses
    BY DEF Next, vars, Hear, ClearQueue, DistillStart, DistillEnd, Nudge,
           AskConsent, ConsentOk, ConsentDeny, RpOn, RpOff, RpOffStart, RpOffEnd,
           EndScene, HttpRp
  <2> QED  BY <2>2, <2>3, <2>4, <2>5
<1>3. i = j /\ poses'[i].mortal = Targets(seed)
  BY <1>1, <1>2 DEF PoseStart
<1>4. granted \in Targets(seed) /\ granted # None
  <2>1. Targets(seed) \subseteq Chars /\ None \notin Chars
    BY TargetsType, SceneAssumption DEF ConsentInv
  <2> QED  BY <1>2, <1>3, <2>1 DEF PoseStart, IsFirst
<1> QED
  BY <1>3, <1>4 DEF ConsentInv, GrantIsAgreed

\* A pose that threatens a player starts only after the ok of one it threatens, in
\* this scene and since the last pose that spoke.
THEOREM ConsentRecent == Spec => ConsentIsRecent
<1>1. ConsentInv /\ [Next]_vars =>
        [\A i \in Poses : ~poses[i].on /\ poses'[i].on /\ poses'[i].mortal # {} =>
           poses'[i].mortal \cap agreed # {}]_vars
  BY StartsUnderConsent
<1> QED
  BY <1>1, ConsentAlways, PTL DEF Spec, ConsentIsRecent

-------------------------------------------------------------------------------
(* The tail *)

\* A tail q of lines up to n: blocks in order, each with a first line, and no
\* line missing after one that is there.
Tiles(q, n) ==
  /\ \A k \in 1..Len(q) :
       /\ q[k].lines \subseteq base + 1..n
       /\ \E a \in q[k].lines : \A b \in q[k].lines : a <= b
       /\ \A a \in q[k].lines : \A b \in a..n : b \in LinesOf(q)
  /\ \A j, k \in 1..Len(q) : j < k => \A a \in q[j].lines, b \in q[k].lines : a < b

\* A change of poser closes the block.
Alternates(q) == \A k \in 1..Len(q) - 1 : q[k].by = q[k + 1].by => q[k].by = Nobody

\* All blocks but the last are with the distiller (g), and the last is not.
HandedBut(q, g) ==
  /\ \A k \in 1..Len(q) - 1 : q[k].lines \subseteq g
  /\ q # <<>> => q[Len(q)].lines \cap g = {}

\* Lines are heard before they are handed over or kept by a pose.
Numbered ==
  /\ base <= nLines
  /\ given \subseteq 1..nLines
  /\ \A i \in Poses : poses[i].last \subseteq 1..nLines

\* The inductive invariant of the tail.
TailInv ==
  /\ TypeOK /\ Numbered
  /\ Tiles(queue, nLines) /\ Alternates(queue) /\ HandedBut(queue, given)
  /\ TailWithinBudget

\* Blocks one by one, in the domain TLAPS knows.
LEMMA BlockAt ==
  ASSUME NEW q \in Seq(Block)
  PROVE  /\ Len(q) \in Nat /\ DOMAIN q = 1..Len(q) /\ (q = <<>> <=> Len(q) = 0)
         /\ \A k \in 1..Len(q) : q[k] \in Block /\ q[k].lines \in SUBSET Nat
         /\ \A a : a \in LinesOf(q) <=> \E k \in 1..Len(q) : a \in q[k].lines
<1>1. Len(q) \in Nat /\ DOMAIN q = 1..Len(q) /\ (q = <<>> <=> Len(q) = 0)
  BY LenProperties, EmptySeq
<1>2. \A k \in 1..Len(q) : q[k] \in Block
  BY ElementOfSeq
<1> QED
  BY <1>1, <1>2 DEF Block, Lines, LinesOf

LEMMA SuffixAt ==
  ASSUME NEW q \in Seq(Block), NEW d \in 0..Len(q)
  PROVE  LET r == SubSeq(q, d + 1, Len(q))
         IN  /\ r \in Seq(Block) /\ Len(r) = Len(q) - d
             /\ \A k \in 1..Len(r) : r[k] = q[k + d] /\ k + d \in 1..Len(q)
<1>1. Len(q) \in Nat /\ d + 1 \in Nat \ {0} /\ Len(q) \in 0..Len(q)
  BY LenProperties
<1> DEFINE r == SubSeq(q, d + 1, Len(q))
<1>2. /\ r \in Seq(Block)
      /\ d + 1 <= Len(q) => Len(r) = Len(q) - (d + 1) + 1
      /\ d + 1 > Len(q) => Len(r) = 0
      /\ \A k \in 1..Len(q) - (d + 1) + 1 : r[k] = q[k + (d + 1) - 1]
  BY <1>1, PartOfSeq
<1>3. Len(r) = Len(q) - d
  BY <1>1, <1>2
<1> HIDE DEF r
<1>4. ASSUME NEW k \in 1..Len(r) PROVE r[k] = q[k + d] /\ k + d \in 1..Len(q)
  <2>1. k \in 1..Len(q) - (d + 1) + 1 /\ k + (d + 1) - 1 = k + d
    BY <1>1, <1>3
  <2> QED  BY <1>1, <1>2, <1>3, <2>1
<1> QED
  BY <1>2, <1>3, <1>4 DEF r

\* Dropping blocks from the head keeps the shape of a tail.
LEMMA SuffixTiles ==
  ASSUME NEW q \in Seq(Block), NEW d \in 0..Len(q), NEW n \in Nat, NEW g, base \in Nat,
         Tiles(q, n), Alternates(q), HandedBut(q, g)
  PROVE  LET r == SubSeq(q, d + 1, Len(q))
         IN  Tiles(r, n) /\ Alternates(r) /\ HandedBut(r, g)
<1> DEFINE r == SubSeq(q, d + 1, Len(q))
<1>1. /\ r \in Seq(Block) /\ Len(r) = Len(q) - d /\ Len(q) \in Nat /\ Len(r) \in Nat
      /\ \A k \in 1..Len(r) : r[k] = q[k + d] /\ k + d \in 1..Len(q)
  BY SuffixAt, LenProperties
<1>2. \A k \in 1..Len(q) : q[k].lines \in SUBSET Nat
  BY BlockAt
<1>3. \A a : a \in LinesOf(q) <=> \E k \in 1..Len(q) : a \in q[k].lines
  BY BlockAt
<1> HIDE DEF r
<1>4. \A a : a \in LinesOf(r) <=> \E k \in 1..Len(r) : a \in r[k].lines
  BY <1>1, BlockAt
<1>5. Tiles(r, n)
  <2>1. \A j, k \in 1..Len(r) : j < k => \A a \in r[j].lines, b \in r[k].lines : a < b
    <3> SUFFICES ASSUME NEW j \in 1..Len(r), NEW k \in 1..Len(r), j < k
                 PROVE  \A a \in r[j].lines, b \in r[k].lines : a < b
      OBVIOUS
    <3>1. j + d < k + d /\ j + d \in 1..Len(q) /\ k + d \in 1..Len(q)
      BY <1>1
    <3> QED  BY <1>1, <3>1 DEF Tiles
  <2>2. ASSUME NEW k \in 1..Len(r), NEW a \in r[k].lines, NEW b \in a..n
        PROVE  b \in LinesOf(r)
    <3>1. k + d \in 1..Len(q) /\ a \in q[k + d].lines /\ a \in Nat /\ b >= a
      BY <1>1, <1>2
    <3>2. PICK j \in 1..Len(q) : b \in q[j].lines
      BY <1>3, <3>1 DEF Tiles
    <3>3. j >= k + d
      <4>1. j < k + d => b < a
        BY <3>1, <3>2 DEF Tiles
      <4> QED  BY <1>1, <3>1, <3>2, <4>1
    <3>4. j - d \in 1..Len(r) /\ (j - d) + d = j
      BY <1>1, <3>3
    <3>5. r[j - d] = q[j]
      BY <1>1, <3>4
    <3> QED  BY <1>4, <3>2, <3>4, <3>5
  <2>3. \A k \in 1..Len(r) :
          /\ r[k].lines \subseteq base + 1..n
          /\ \E a \in r[k].lines : \A b \in r[k].lines : a <= b
    BY <1>1 DEF Tiles
  <2> QED
    BY <2>1, <2>2, <2>3 DEF Tiles
<1>6. Alternates(r)
  <2> SUFFICES ASSUME NEW k \in 1..Len(r) - 1 PROVE r[k].by = r[k + 1].by => r[k].by = Nobody
    BY DEF Alternates
  <2>1. k \in 1..Len(r) /\ k + 1 \in 1..Len(r)
    BY <1>1
  <2>2. r[k] = q[k + d] /\ r[k + 1] = q[(k + 1) + d] /\ (k + 1) + d = (k + d) + 1
    BY <1>1, <2>1
  <2>3. k + d \in 1..Len(q) - 1
    BY <1>1, <2>1
  <2> QED  BY <2>2, <2>3 DEF Alternates
<1>7. HandedBut(r, g)
  <2>1. ASSUME NEW k \in 1..Len(r) - 1 PROVE r[k].lines \subseteq g
    <3>1. k \in 1..Len(r) /\ k + d \in 1..Len(q) - 1
      BY <1>1
    <3> QED  BY <1>1, <3>1 DEF HandedBut
  <2>2. ASSUME r # <<>> PROVE r[Len(r)].lines \cap g = {}
    <3>1. Len(r) \in 1..Len(r) /\ Len(r) + d = Len(q) /\ q # <<>>
      BY <1>1, <2>2, BlockAt
    <3>2. r[Len(r)] = q[Len(q)]
      BY <1>1, <3>1
    <3> QED  BY <3>1, <3>2 DEF HandedBut
  <2> QED  BY <2>1, <2>2 DEF HandedBut
<1> QED
  BY <1>5, <1>6, <1>7 DEF r

\* _trim_scene_bytes counts the positions at which the rest is too heavy: the first
\* position it leaves is none of them, since what is left from there weighs no more
\* than what is left from any position before.
LEMMA TrimmedFits ==
  ASSUME NEW q \in Seq(Block), IsFiniteSet(LinesOf(q))
  PROVE  /\ Len(Trimmed(q)) <= SCENE_QUEUE_CAP
         /\ Len(Trimmed(q)) > 1 => Weight(Trimmed(q)) <= Budget
<1> DEFINE d == Dropped(q)
<1>1. /\ Len(q) \in Nat /\ d \in Nat /\ (q # <<>> => d < Len(q)) /\ SCENE_QUEUE_CAP \in Nat /\ Budget \in Nat
      /\ (q = <<>> <=> Len(q) = 0) /\ SCENE_QUEUE_CAP > 0
  BY DroppedType, BlockAt, SceneAssumption
<1>2. Overweight(q) \in SUBSET (1..Len(q) - 1) /\ IsFiniteSet(1..Len(q) - 1)
  <2>1. Len(q) - 1 \in Int /\ 1 \in Int
    BY <1>1
  <2>2. Overweight(q) \in SUBSET (1..Len(q) - 1)
    BY DEF Overweight
  <2> QED  BY <2>1, <2>2, FS_Interval
<1>3. IsFiniteSet(Overweight(q)) /\ Cardinality(Overweight(q)) \in Nat
  BY <1>2, FS_Subset, FS_CardinalityType
<1>4. d >= Cardinality(Overweight(q)) /\ (Len(q) - d <= SCENE_QUEUE_CAP)
  BY <1>1, <1>3 DEF Dropped
<1> HIDE DEF d
<1>5. CASE q = <<>>
  <2>1. Trimmed(q) = <<>>
    BY <1>1, <1>5, SubSeqEmpty DEF Trimmed, d
  <2> QED  BY <1>1, <2>1, EmptySeq
<1>6. CASE q # <<>>
  <2>1. d \in 0..Len(q) /\ Trimmed(q) = SubSeq(q, d + 1, Len(q))
    BY <1>1, <1>6 DEF Trimmed, d
  <2>2. Len(Trimmed(q)) = Len(q) - d
    BY <2>1, SuffixAt
  <2>3. ASSUME Len(Trimmed(q)) > 1 PROVE Weight(Trimmed(q)) <= Budget
    <3>1. d + 1 \in 1..Len(q) - 1
      BY <1>1, <2>1, <2>2, <2>3
    <3>2. ASSUME Weight(Trimmed(q)) > Budget PROVE FALSE
      <4>1. ASSUME NEW j \in 1..d + 1 PROVE j \in Overweight(q)
        <5> DEFINE r == SubSeq(q, j, Len(q))
                   s == SubSeq(q, d + 1, Len(q))
        <5>1. j \in 1..Len(q) - 1 /\ j - 1 \in 0..Len(q) /\ (j - 1) + 1 = j /\ d - (j - 1) \in Nat
          BY <1>1, <3>1
        <5>2. /\ r \in Seq(Block) /\ Len(r) = Len(q) - (j - 1)
              /\ \A k \in 1..Len(r) : r[k] = q[k + (j - 1)] /\ k + (j - 1) \in 1..Len(q)
          BY <5>1, SuffixAt
        <5>3. /\ s \in Seq(Block) /\ Len(s) = Len(q) - d
              /\ \A k \in 1..Len(s) : s[k] = q[k + d] /\ k + d \in 1..Len(q)
          BY <2>1, SuffixAt
        <5> HIDE DEF r, s
        <5>4. LinesOf(r) \subseteq LinesOf(q)
          BY <5>2, BlockAt
        <5>5. LinesOf(s) \subseteq LinesOf(r)
          <6> SUFFICES ASSUME NEW k \in 1..Len(s), NEW a \in s[k].lines PROVE a \in LinesOf(r)
            BY <5>3, BlockAt
          <6>1. k + (d - (j - 1)) \in 1..Len(r) /\ (k + (d - (j - 1))) + (j - 1) = k + d
            BY <1>1, <5>1, <5>2, <5>3
          <6>2. r[k + (d - (j - 1))] = s[k]
            BY <5>2, <5>3, <6>1
          <6> QED  BY <5>2, <6>1, <6>2, BlockAt
        <5>6. IsFiniteSet(LinesOf(r)) /\ Weight(s) <= Weight(r)
          BY <5>4, <5>5, FS_Subset DEF Weight
        <5>7. Weight(s) \in Nat /\ Weight(r) \in Nat /\ Weight(s) > Budget
          BY <2>1, <3>2, <5>5, <5>6, FS_Subset, FS_CardinalityType DEF Weight, s
        <5>8. Weight(r) > Budget
          BY <1>1, <5>6, <5>7
        <5> QED  BY <5>1, <5>8 DEF Overweight, r
      <4>2. IsFiniteSet(1..d + 1) /\ Cardinality(1..d + 1) = d + 1
        <5>1. 1 \in Int /\ d + 1 \in Int /\ ~(1 > d + 1) /\ (d + 1) - 1 + 1 = d + 1
          BY <1>1
        <5> QED  BY <5>1, FS_Interval
      <4>3. Cardinality(1..d + 1) <= Cardinality(Overweight(q))
        BY <1>3, <4>1, FS_Subset
      <4> QED  BY <1>1, <1>3, <1>4, <4>2, <4>3
    <3>3. Weight(Trimmed(q)) \in Nat
      <4>1. /\ Trimmed(q) \in Seq(Block)
            /\ \A k \in 1..Len(Trimmed(q)) : Trimmed(q)[k] = q[k + d] /\ k + d \in 1..Len(q)
        BY <2>1, SuffixAt
      <4>2. LinesOf(Trimmed(q)) \subseteq LinesOf(q)
        BY <4>1, BlockAt
      <4> QED  BY <4>2, FS_Subset, FS_CardinalityType DEF Weight
    <3> QED  BY <1>1, <3>2, <3>3
  <2> QED  BY <1>4, <2>2, <2>3
<1> QED
  BY <1>5, <1>6

\* A line heard: the tail before it is trimmed, g with the distiller.
Grown(q, g) ==
  /\ q \in Seq(Block) /\ q # <<>> /\ Tiles(q, nLines') /\ Alternates(q) /\ HandedBut(q, g)
  /\ LinesOf(queue) \cup {nLines'} \subseteq LinesOf(q)

\* It continues the last block.
LEMMA GrownBlock ==
  ASSUME TailInv, NEW p, queue # <<>>, SamePoser(Last(queue), p), nLines' = nLines + 1,
         NEW q, q = Append(Front(queue), [Last(queue) EXCEPT !.lines = @ \cup {nLines'}])
  PROVE  Grown(q, given)
<1> DEFINE grown == [Last(queue) EXCEPT !.lines = @ \cup {nLines'}]
           n == Len(queue)
<1>1. /\ queue \in Seq(Block) /\ {nLines, base} \subseteq Nat /\ nLines' \in Nat /\ nLines < nLines'
      /\ base <= nLines /\ n \in Nat \ {0} /\ given \subseteq 1..nLines
  BY EmptySeq DEF TailInv, TypeOK, Numbered
<1>2. \A k \in 1..n : queue[k] \in Block /\ queue[k].lines \in SUBSET Nat
  BY <1>1, BlockAt
<1>3. /\ Last(queue) = queue[n] /\ Front(queue) \in Seq(Block) /\ Len(Front(queue)) = n - 1
      /\ \A k \in 1..n - 1 : Front(queue)[k] = queue[k]
  BY <1>1, FrontLast DEF Last
<1>4. grown \in Block /\ grown.by = queue[n].by /\ grown.lines = queue[n].lines \cup {nLines'}
  <2>1. n \in 1..n /\ queue[n] \in Block
    BY <1>1, <1>2
  <2>2. grown = [queue[n] EXCEPT !.lines = @ \cup {nLines'}]
    BY <1>3
  <2>3. queue[n].lines \cup {nLines'} \in SUBSET Nat
    BY <1>1, <1>2, <2>1
  <2> HIDE DEF n, grown
  <2> QED  BY <2>1, <2>2, <2>3 DEF Block, Lines
<1> HIDE DEF grown, n
<1>5. /\ q \in Seq(Block) /\ q # <<>> /\ Len(q) = n /\ q[n] = grown
      /\ \A k \in 1..n - 1 : q[k] = queue[k]
  <2>1. /\ q \in Seq(Block) /\ q # <<>> /\ Len(q) = (n - 1) + 1
        /\ \A k \in 1..n - 1 : q[k] = Front(queue)[k]
        /\ q[(n - 1) + 1] = grown
    BY <1>3, <1>4, AppendProperties DEF grown
  <2>2. (n - 1) + 1 = n
    BY <1>1
  <2> QED  BY <1>3, <2>1, <2>2
<1>6. \A k \in 1..n : /\ q[k].by = queue[k].by
                      /\ queue[k].lines \subseteq q[k].lines
                      /\ q[k].lines \subseteq queue[k].lines \cup {nLines'}
                      /\ k # n => q[k].lines = queue[k].lines
  <2> SUFFICES ASSUME NEW k \in 1..n
               PROVE  /\ q[k].by = queue[k].by /\ queue[k].lines \subseteq q[k].lines
                      /\ q[k].lines \subseteq queue[k].lines \cup {nLines'}
                      /\ k # n => q[k].lines = queue[k].lines
    OBVIOUS
  <2>1. k = n \/ k \in 1..n - 1
    BY <1>1
  <2> QED  BY <1>4, <1>5, <2>1
<1>7. LinesOf(queue) \cup {nLines'} \subseteq LinesOf(q)
  <2>1. nLines' \in q[n].lines /\ n \in 1..n
    BY <1>1, <1>4, <1>5
  <2>2. \A a \in LinesOf(queue) : \E k \in 1..n : a \in queue[k].lines
    BY <1>1, BlockAt DEF n
  <2>3. \A a : (\E k \in 1..n : a \in q[k].lines) => a \in LinesOf(q)
    BY <1>5, BlockAt
  <2>4. ASSUME NEW a \in LinesOf(queue) PROVE a \in LinesOf(q)
    <3>1. PICK k \in 1..n : a \in queue[k].lines
      BY <2>2
    <3>2. a \in q[k].lines
      BY <1>6, <3>1
    <3> QED  BY <2>3, <3>2
  <2> QED  BY <2>1, <2>3, <2>4
<1>8. /\ \A k \in 1..n : /\ queue[k].lines \subseteq base + 1..nLines
                         /\ \E a \in queue[k].lines : \A b \in queue[k].lines : a <= b
                         /\ \A a \in queue[k].lines : \A b \in a..nLines : b \in LinesOf(queue)
      /\ \A j, k \in 1..n : j < k => \A a \in queue[j].lines, b \in queue[k].lines : a < b
  BY DEF TailInv, Tiles, n
<1>9. Tiles(q, nLines')
  <2>1. ASSUME NEW k \in 1..n
        PROVE  /\ q[k].lines \subseteq base + 1..nLines'
               /\ \E a \in q[k].lines : \A b \in q[k].lines : a <= b
    <3>1. \A a \in queue[k].lines : a < nLines' /\ a \in base + 1..nLines'
      BY <1>1, <1>8
    <3>2. nLines' \in base + 1..nLines'
      BY <1>1
    <3>3. PICK a \in queue[k].lines : \A b \in queue[k].lines : a <= b
      BY <1>8
    <3>4. a \in q[k].lines /\ a <= nLines'
      <4>1. a \in q[k].lines
        BY <1>6, <3>3
      <4>2. a < nLines' /\ a \in Nat /\ nLines' \in Nat
        BY <1>1, <1>2, <3>1, <3>3
      <4>3. a <= nLines'
        BY <4>2
      <4> QED  BY <4>1, <4>3
    <3>5. ASSUME NEW b \in q[k].lines PROVE a <= b
      <4>1. b \in queue[k].lines \/ b = nLines'
        BY <1>6
      <4> QED  BY <3>3, <3>4, <4>1
    <3>6. q[k].lines \subseteq base + 1..nLines'
      BY <1>6, <3>1, <3>2
    <3> QED  BY <3>4, <3>5, <3>6
  <2>2. ASSUME NEW k \in 1..n, NEW a \in q[k].lines, NEW b \in a..nLines'
        PROVE  b \in LinesOf(q)
    <3>1. CASE b = nLines'
      BY <1>7, <3>1
    <3>2. CASE b # nLines'
      <4>1. a # nLines'
        BY <1>1, <3>2
      <4>2. a \in queue[k].lines /\ a \in Nat
        BY <1>2, <1>6, <4>1
      <4>3. b \in a..nLines
        BY <1>1, <3>2, <4>2
      <4> QED  BY <1>7, <1>8, <4>2, <4>3
    <3> QED  BY <3>1, <3>2
  <2>3. ASSUME NEW j \in 1..n, NEW k \in 1..n, j < k, NEW a \in q[j].lines, NEW b \in q[k].lines
        PROVE  a < b
    <3>1. a \in queue[j].lines /\ a < nLines'
      <4>1. j # n
        BY <1>1, <2>3
      <4>2. a \in queue[j].lines
        BY <1>6, <2>3, <4>1
      <4>3. a \in base + 1..nLines
        BY <1>8, <4>2
      <4> QED  BY <1>1, <4>2, <4>3
    <3>2. b \in queue[k].lines \/ b = nLines'
      BY <1>6, <2>3
    <3>3. b \in queue[k].lines => a < b
      BY <1>8, <2>3, <3>1
    <3> QED  BY <3>1, <3>2, <3>3
  <2>4. 1..Len(q) = 1..n
    BY <1>5
  <2>5. \A k \in 1..Len(q) :
          /\ q[k].lines \subseteq base + 1..nLines'
          /\ \E a \in q[k].lines : \A b \in q[k].lines : a <= b
          /\ \A a \in q[k].lines : \A b \in a..nLines' : b \in LinesOf(q)
    BY <2>1, <2>2, <2>4
  <2>6. \A j, k \in 1..Len(q) : j < k => \A a \in q[j].lines, b \in q[k].lines : a < b
    <3> SUFFICES ASSUME NEW j \in 1..Len(q), NEW k \in 1..Len(q), j < k,
                        NEW a \in q[j].lines, NEW b \in q[k].lines
                 PROVE  a < b
      OBVIOUS
    <3>1. j \in 1..n /\ k \in 1..n
      BY <2>4
    <3> QED  BY <2>3, <3>1
  <2> QED  BY <2>5, <2>6 DEF Tiles
<1>10. Alternates(q)
  <2> SUFFICES ASSUME NEW k \in 1..n - 1 PROVE q[k].by = q[k + 1].by => q[k].by = Nobody
    BY <1>5 DEF Alternates
  <2>1. k \in 1..n /\ k + 1 \in 1..n
    BY <1>1
  <2> QED  BY <1>6, <2>1 DEF TailInv, Alternates, n
<1>11. HandedBut(q, given)
  <2>1. ASSUME NEW k \in 1..n - 1 PROVE q[k].lines \subseteq given
    BY <1>5, <2>1 DEF TailInv, HandedBut, n
  <2>2. queue[n].lines \cap given = {} /\ nLines' \notin given
    BY <1>1, EmptySeq DEF TailInv, HandedBut, n
  <2>3. q[n].lines \cap given = {}
    BY <1>4, <1>5, <2>2
  <2> QED  BY <1>5, <2>1, <2>3 DEF HandedBut
<1> QED
  BY <1>5, <1>7, <1>9, <1>10, <1>11 DEF Grown

\* It is the first of a block, and the block before it is handed over.
LEMMA NewBlock ==
  ASSUME TailInv, NEW p \in Poser, ~(queue # <<>> /\ SamePoser(Last(queue), p)), nLines' = nLines + 1,
         NEW q, q = Append(queue, [by |-> p, lines |-> {nLines'}]),
         NEW g, g = IF queue # <<>> THEN given \cup Last(queue).lines ELSE given
  PROVE  Grown(q, g)
<1> DEFINE block == [by |-> p, lines |-> {nLines'}]
           n == Len(queue)
<1>1. /\ queue \in Seq(Block) /\ {nLines, base} \subseteq Nat /\ nLines' \in Nat /\ nLines < nLines'
      /\ base <= nLines /\ n \in Nat /\ given \subseteq 1..nLines /\ (queue # <<>> => n # 0)
  BY EmptySeq DEF TailInv, TypeOK, Numbered
<1>2. \A k \in 1..n : queue[k] \in Block /\ queue[k].lines \in SUBSET Nat
  BY <1>1, BlockAt
<1>3. block \in Block /\ block.by = p /\ block.lines = {nLines'}
  BY <1>1 DEF Block, Lines
<1> HIDE DEF block
<1>4. /\ q \in Seq(Block) /\ q # <<>> /\ Len(q) = n + 1 /\ q[n + 1] = block
      /\ \A k \in 1..n : q[k] = queue[k]
  BY <1>1, <1>3, AppendProperties DEF block
<1>5. Last(queue) = queue[n]
  BY DEF Last
<1> HIDE DEF n
<1>6. \A k \in 1..n + 1 : k \in 1..n \/ k = n + 1
  BY <1>1
<1>7. LinesOf(queue) \cup {nLines'} \subseteq LinesOf(q)
  <2>1. nLines' \in q[n + 1].lines /\ n + 1 \in 1..n + 1 /\ \A k \in 1..n : k \in 1..n + 1
    BY <1>1, <1>3, <1>4
  <2>2. \A a \in LinesOf(queue) : \E k \in 1..n : a \in queue[k].lines
    BY <1>1, BlockAt DEF n
  <2>3. \A a : (\E k \in 1..n + 1 : a \in q[k].lines) => a \in LinesOf(q)
    BY <1>4, BlockAt
  <2>4. nLines' \in LinesOf(q)
    BY <2>1, <2>3
  <2>5. ASSUME NEW a \in LinesOf(queue) PROVE a \in LinesOf(q)
    <3>1. PICK k \in 1..n : a \in queue[k].lines
      BY <2>2
    <3>2. k \in 1..n + 1 /\ a \in q[k].lines
      BY <1>4, <2>1, <3>1
    <3> QED  BY <2>3, <3>2
  <2> QED  BY <2>4, <2>5
<1>8. /\ \A k \in 1..n : /\ queue[k].lines \subseteq base + 1..nLines
                         /\ \E a \in queue[k].lines : \A b \in queue[k].lines : a <= b
                         /\ \A a \in queue[k].lines : \A b \in a..nLines : b \in LinesOf(queue)
      /\ \A j, k \in 1..n : j < k => \A a \in queue[j].lines, b \in queue[k].lines : a < b
  BY DEF TailInv, Tiles, n
<1>9. Tiles(q, nLines')
  <2>1. ASSUME NEW k \in 1..n + 1
        PROVE  /\ q[k].lines \subseteq base + 1..nLines'
               /\ \E a \in q[k].lines : \A b \in q[k].lines : a <= b
    <3>1. CASE k = n + 1
      <4>1. q[k].lines = {nLines'} /\ nLines' <= nLines' /\ nLines' \in base + 1..nLines'
        BY <1>1, <1>3, <1>4, <3>1
      <4> QED  BY <4>1
    <3>2. CASE k \in 1..n
      <4>1. \A a \in base + 1..nLines : a \in base + 1..nLines'
        BY <1>1
      <4> QED  BY <1>4, <1>8, <3>2, <4>1
    <3> QED  BY <1>6, <3>1, <3>2
  <2>2. ASSUME NEW k \in 1..n + 1, NEW a \in q[k].lines, NEW b \in a..nLines'
        PROVE  b \in LinesOf(q)
    <3>1. CASE b = nLines'
      BY <1>7, <3>1
    <3>2. CASE b # nLines'
      <4>1. a # nLines'
        BY <1>1, <3>2
      <4>2. k \in 1..n /\ a \in queue[k].lines
        BY <1>3, <1>4, <1>6, <4>1
      <4>3. b \in a..nLines
        BY <1>1, <1>2, <3>2, <4>2
      <4> QED  BY <1>7, <1>8, <4>2, <4>3
    <3> QED  BY <3>1, <3>2
  <2>3. ASSUME NEW j \in 1..n + 1, NEW k \in 1..n + 1, j < k, NEW a \in q[j].lines, NEW b \in q[k].lines
        PROVE  a < b
    <3>1. j \in 1..n /\ a \in queue[j].lines /\ a \in base + 1..nLines
      BY <1>1, <1>4, <1>8, <2>3
    <3>2. CASE k = n + 1
      BY <1>1, <1>3, <1>4, <3>1, <3>2
    <3>3. CASE k \in 1..n
      BY <1>4, <1>8, <2>3, <3>1, <3>3
    <3> QED  BY <1>6, <3>2, <3>3
  <2>4. 1..Len(q) = 1..n + 1
    BY <1>4
  <2>5. \A k \in 1..Len(q) :
          /\ q[k].lines \subseteq base + 1..nLines'
          /\ \E a \in q[k].lines : \A b \in q[k].lines : a <= b
          /\ \A a \in q[k].lines : \A b \in a..nLines' : b \in LinesOf(q)
    BY <2>1, <2>2, <2>4
  <2>6. \A j, k \in 1..Len(q) : j < k => \A a \in q[j].lines, b \in q[k].lines : a < b
    <3> SUFFICES ASSUME NEW j \in 1..Len(q), NEW k \in 1..Len(q), j < k,
                        NEW a \in q[j].lines, NEW b \in q[k].lines
                 PROVE  a < b
      OBVIOUS
    <3>1. j \in 1..n + 1 /\ k \in 1..n + 1
      BY <2>4
    <3> QED  BY <2>3, <3>1
  <2> QED  BY <2>5, <2>6 DEF Tiles
<1>10. Alternates(q)
  <2> SUFFICES ASSUME NEW k \in 1..n PROVE q[k].by = q[k + 1].by => q[k].by = Nobody
    BY <1>1, <1>4 DEF Alternates
  <2>1. CASE k = n
    <3>1. queue # <<>> /\ q[k + 1].by = p /\ q[k].by = queue[n].by
      BY <1>1, <1>3, <1>4, <2>1, EmptySeq DEF n
    <3> QED  BY <1>5, <3>1 DEF SamePoser
  <2>2. CASE k # n
    <3>1. k \in 1..n - 1 /\ k + 1 \in 1..n
      BY <1>1, <2>2
    <3> QED  BY <1>4, <3>1 DEF TailInv, Alternates, n
  <2> QED  BY <2>1, <2>2
<1>11. HandedBut(q, g)
  <2>1. ASSUME NEW k \in 1..n PROVE q[k].lines \subseteq g
    <3>0. queue # <<>>
      BY <1>1, EmptySeq DEF n
    <3>1. CASE k = n
      BY <1>4, <1>5, <3>0, <3>1
    <3>2. CASE k # n
      <4>1. k \in 1..n - 1
        BY <1>1, <3>2
      <4> QED  BY <1>4, <3>0, <4>1 DEF TailInv, HandedBut, n
    <3> QED  BY <3>1, <3>2
  <2>2. nLines' \notin g
    <3>1. queue # <<>> => queue[n].lines \subseteq base + 1..nLines
      BY <1>1, <1>8
    <3> QED  BY <1>1, <1>5, <3>1
  <2>3. (n + 1) - 1 = n
    BY <1>1
  <2> QED  BY <1>3, <1>4, <2>1, <2>2, <2>3 DEF HandedBut
<1> QED
  BY <1>4, <1>7, <1>9, <1>10, <1>11 DEF Grown

LEMMA EmptyTail ==
  /\ \A n, g : Tiles(<<>>, n) /\ Alternates(<<>>) /\ HandedBut(<<>>, g)
  /\ Len(<<>>) = 0 /\ LinesOf(<<>>) = {} /\ LastLines(<<>>) = {}
BY EmptySeq DEF Tiles, Alternates, HandedBut, LinesOf, LastLines

\* The last block of the tail is of lines heard.
LEMMA LastHeard ==
  ASSUME TailInv
  PROVE  /\ LastLines(queue) \subseteq 1..nLines
         /\ LastLines(queue) \cap given = {}
         /\ LinesOf(queue) \subseteq given \cup LastLines(queue)
<1>1. queue \in Seq(Block) /\ base \in Nat /\ nLines \in Nat
  BY DEF TailInv, TypeOK
<1>2. CASE queue = <<>>
  BY <1>2, EmptyTail
<1>3. CASE queue # <<>>
  <2>1. Len(queue) \in Nat \ {0} /\ LastLines(queue) = queue[Len(queue)].lines
    BY <1>1, <1>3, EmptySeq DEF LastLines, Last
  <2>2. queue[Len(queue)].lines \subseteq base + 1..nLines
    BY <2>1 DEF TailInv, Tiles
  <2>3. \A k \in 1..Len(queue) : k = Len(queue) \/ k \in 1..Len(queue) - 1
    BY <2>1
  <2>4. LinesOf(queue) \subseteq given \cup LastLines(queue)
    BY <1>1, <2>1, <2>3, BlockAt DEF TailInv, HandedBut
  <2> QED  BY <1>1, <1>3, <2>1, <2>2, <2>4 DEF TailInv, HandedBut
<1> QED
  BY <1>2, <1>3

LEMMA TailHear ==
  ASSUME TailInv, NEW p \in Poser, Hear(p)
  PROVE  TailInv' /\ Lost' \subseteq Lost /\ HandsNew
<1>1. /\ nLines' = nLines + 1 /\ UNCHANGED <<base, poses>> /\ TypeOK /\ TypeOK'
      /\ {base, nLines} \subseteq Nat /\ nLines' \in Nat /\ base <= nLines
      /\ given \subseteq 1..nLines /\ LastLines(queue) \subseteq 1..nLines
      /\ queue \in Seq(Block) /\ distills \in Seq(Task)
  BY TypeHear, LastHeard DEF TailInv, TypeOK, Numbered, Hear
<1>2. \E q : /\ queue' = Trimmed(q) /\ Grown(q, given')
             /\ given' \in {given, given \cup LastLines(queue)} /\ HandsNew
  <2>1. CASE queue # <<>> /\ SamePoser(Last(queue), p)
    <3> DEFINE q == Append(Front(queue), [Last(queue) EXCEPT !.lines = @ \cup {nLines'}])
    <3>1. queue' = Trimmed(q) /\ given' = given /\ distills' = distills
      BY <2>1 DEF Hear, NothingHanded
    <3>2. Grown(q, given)
      BY <1>1, <2>1, GrownBlock
    <3>3. HandsNew
      BY <1>1, <3>1, LenProperties DEF HandsNew
    <3> QED  BY <3>1, <3>2, <3>3
  <2>2. CASE ~(queue # <<>> /\ SamePoser(Last(queue), p))
    <3> DEFINE q == Append(queue, [by |-> p, lines |-> {nLines'}])
    <3>1. queue' = Trimmed(q) /\ (IF queue # <<>> THEN Handed(Last(queue).lines) ELSE NothingHanded)
      BY <2>2 DEF Hear
    <3>2. given' = IF queue # <<>> THEN given \cup Last(queue).lines ELSE given
      BY <3>1 DEF Handed, NothingHanded
    <3>3. Grown(q, given')
      BY <1>1, <2>2, <3>2, NewBlock
    <3>4. HandsNew
      <4>1. CASE queue = <<>>
        BY <1>1, <3>1, <4>1, LenProperties DEF NothingHanded, HandsNew
      <4>2. CASE queue # <<>>
        <5>1. [lines |-> Last(queue).lines, st |-> "queued"] \in Task
          BY <1>1, <4>2, LastLinesType DEF Task, LastLines
        <5>2. Last(distills').lines = LastLines(queue)
          BY <1>1, <3>1, <4>2, <5>1, AppendProperties DEF Handed, Last, LastLines
        <5> QED  BY <5>2, LastHeard DEF HandsNew
      <4> QED  BY <4>1, <4>2
    <3> QED  BY <3>1, <3>2, <3>3, <3>4 DEF LastLines
  <2> QED  BY <2>1, <2>2
<1>3. PICK q : /\ queue' = Trimmed(q) /\ Grown(q, given')
               /\ given' \in {given, given \cup LastLines(queue)} /\ HandsNew
  BY <1>2
<1> DEFINE d == Dropped(q)
<1>4. /\ q \in Seq(Block) /\ q # <<>> /\ Tiles(q, nLines') /\ Alternates(q) /\ HandedBut(q, given')
      /\ LinesOf(queue) \cup {nLines'} \subseteq LinesOf(q)
  BY <1>3 DEF Grown
<1>5. d \in Nat /\ d < Len(q) /\ d \in 0..Len(q) /\ Len(q) \in Nat /\ queue' = SubSeq(q, d + 1, Len(q))
  BY <1>3, <1>4, DroppedType, BlockAt DEF Trimmed
<1> HIDE DEF d
<1>6. Tiles(queue', nLines') /\ Alternates(queue') /\ HandedBut(queue', given')
  BY <1>1, <1>4, <1>5, SuffixTiles
<1>7. \A a \in LinesOf(q) : a \in 1..nLines'
  <2>1. \A k \in 1..Len(q) : q[k].lines \subseteq base + 1..nLines'
    BY <1>4 DEF Tiles
  <2>2. base \in Nat /\ nLines' \in Nat
    BY <1>1
  <2>3. \A a \in base + 1..nLines' : a \in 1..nLines'
    BY <2>2
  <2>. QED  BY <1>4, <2>1, <2>3, BlockAt
<1>8. TailWithinBudget'
  <2>1. IsFiniteSet(1..nLines')
    BY <1>1, FS_Interval
  <2>2. IsFiniteSet(LinesOf(q))
    BY <1>7, <2>1, FS_Subset
  <2> QED  BY <1>3, <1>4, <2>2, TrimmedFits DEF TailWithinBudget
<1>9. Numbered'
  <2>1. \A a \in 1..nLines : a \in 1..nLines'
    BY <1>1
  <2>2. base' <= nLines' /\ given' \subseteq 1..nLines'
    BY <1>1, <1>3, <2>1
  <2>3. \A i \in Poses : poses'[i].last \subseteq 1..nLines'
    BY <1>1, <2>1 DEF TailInv, Numbered
  <2> QED  BY <2>2, <2>3 DEF Numbered
<1>10. TailInv'
  <2>1. Tiles(queue, nLines)'
    BY <1>1, <1>6 DEF Tiles
  <2>2. Alternates(queue)' /\ HandedBut(queue, given)'
    BY <1>6 DEF Alternates, HandedBut
  <2> QED  BY <1>1, <1>8, <1>9, <2>1, <2>2 DEF TailInv
<1>11. LinesOf(q) \subseteq LinesOf(queue') \cup given'
  <2> SUFFICES ASSUME NEW k \in 1..Len(q), NEW a \in q[k].lines PROVE a \in LinesOf(queue') \cup given'
    BY <1>4, BlockAt
  <2>1. CASE k <= d
    <3>1. k \in 1..Len(q) - 1
      BY <1>5, <2>1
    <3> QED  BY <1>4, <3>1 DEF HandedBut
  <2>2. CASE k > d
    <3>1. /\ queue' \in Seq(Block) /\ Len(queue') = Len(q) - d
          /\ \A j \in 1..Len(queue') : queue'[j] = q[j + d]
      BY <1>4, <1>5, SuffixAt
    <3>2. k - d \in 1..Len(queue') /\ (k - d) + d = k
      BY <1>5, <2>2, <3>1
    <3>3. queue'[k - d] = q[k]
      BY <3>1, <3>2
    <3> QED  BY <3>1, <3>2, <3>3, BlockAt
  <2> QED  BY <1>5, <2>1, <2>2
<1>12. Lost' \subseteq Lost
  <2> SUFFICES ASSUME NEW a \in 1..nLines', a \notin LinesOf(queue'), a \notin given'
               PROVE  a \in 1..nLines /\ a \notin LinesOf(queue) /\ a \notin given
    BY DEF Lost, Heard
  <2>1. a \notin LinesOf(q) /\ a # nLines' /\ a \notin LinesOf(queue)
    BY <1>4, <1>11
  <2> QED  BY <1>1, <1>3, <2>1
<1> QED
  BY <1>3, <1>10, <1>12

\* What empties the tail: it is handed over, or given up.
LEMMA TailEmptied ==
  ASSUME TailInv, TypeOK', queue' = <<>>, nLines' = nLines, base' \in {base, nLines},
         given' \subseteq 1..nLines,
         \A i \in Poses : poses'[i].last \subseteq 1..nLines
  PROVE  TailInv'
<1>1. base' <= nLines' /\ SCENE_QUEUE_CAP \in Nat /\ SCENE_QUEUE_CAP > 0
  <2>1. base <= nLines /\ nLines \in Nat
    BY DEF TailInv, Numbered, TypeOK
  <2>2. SCENE_QUEUE_CAP \in Nat \ {0}
    BY SceneAssumption
  <2> QED  BY <2>1, <2>2
<1>2. Tiles(queue, nLines)' /\ Alternates(queue)' /\ HandedBut(queue, given)'
  BY EmptyTail DEF Tiles, Alternates, HandedBut
<1>3. TailWithinBudget'
  BY <1>1, EmptyTail DEF TailWithinBudget
<1> QED
  BY <1>1, <1>2, <1>3 DEF TailInv, Numbered

\* What leaves the tail as it is, and the lines with it.
LEMMA TailUntouched ==
  ASSUME TailInv, TypeOK', UNCHANGED <<queue, nLines, base, given>>,
         \A i \in Poses : poses'[i].last \in {poses[i].last, {}}
  PROVE  TailInv' /\ Lost' = Lost
BY DEF TailInv, Numbered, Tiles, Alternates, HandedBut, TailWithinBudget, Weight, LinesOf, Lost, Heard

\* The poses in flight keep lines of the tail, or what they kept before.
LEMMA DetachedLast ==
  ASSUME TailInv, NEW i \in Poses
  PROVE  Detached(poses, queue)[i].last \subseteq 1..nLines
<1>1. poses[i] \in PoseRec /\ poses[i].last \subseteq 1..nLines /\ LastLines(queue) \subseteq 1..nLines
  BY LastHeard DEF TailInv, TypeOK, Numbered
<1> QED
  BY <1>1 DEF Detached, PoseRec

LEMMA TailPoseSpeaks ==
  ASSUME TailInv, TypeOK', NEW i \in Poses, PoseSpeaks(i)
  PROVE  TailInv' /\ (Stale(i) \/ Lost' \subseteq Lost) /\ (Stale(i) \/ HandsNew)
<1> DEFINE last == IF poses[i].live THEN LastLines(queue) ELSE poses[i].last
<1>1. /\ IF last # {} THEN Handed(last) ELSE NothingHanded
      /\ queue' = <<>> /\ poses' = [Detached(poses, queue) EXCEPT ![i] = Idle]
      /\ UNCHANGED <<nLines, base>> /\ poses[i].on /\ TypeOK
  BY DEF PoseSpeaks, TailInv
<1>2. last \subseteq 1..nLines /\ given \subseteq 1..nLines
  BY LastHeard DEF TailInv, Numbered
<1>3. last \in SUBSET Nat /\ distills \in Seq(Task)
  BY <1>1, <1>2 DEF TypeOK
<1> HIDE DEF last
<1>4. given' = given \cup last /\ (distills' = distills
          \/ (last # {} /\ distills' = Append(distills, [lines |-> last, st |-> "queued"])))
  BY <1>1 DEF Handed, NothingHanded
<1>5. TailInv'
  <2>1. ASSUME NEW j \in Poses PROVE poses'[j].last \subseteq 1..nLines
    <3>1. Detached(poses, queue) \in [Poses -> PoseRec]
      BY <1>1, DetachedType DEF TypeOK
    <3>2. poses'[j] = IF j = i THEN Idle ELSE Detached(poses, queue)[j]
      BY <1>1, <3>1
    <3> QED  BY <3>2, DetachedLast DEF Idle
  <2>2. given' \subseteq 1..nLines
    BY <1>2, <1>4
  <2> QED  BY <1>1, <2>1, <2>2, TailEmptied
<1>6. ASSUME ~Stale(i) PROVE Lost' \subseteq Lost /\ HandsNew
  <2>1. last = LastLines(queue)
    BY <1>1, <1>6 DEF Stale, last
  <2>2. LinesOf(queue) \subseteq given' /\ last \cap given = {} /\ given \subseteq given'
    BY <1>4, <2>1, LastHeard
  <2>3. HandsNew
    <3>1. CASE distills' = distills
      BY <1>3, <3>1, LenProperties DEF HandsNew
    <3>2. CASE last # {} /\ distills' = Append(distills, [lines |-> last, st |-> "queued"])
      <4>1. [lines |-> last, st |-> "queued"] \in Task
        BY <1>3, <3>2 DEF Task, Lines
      <4>2. Last(distills').lines = last
        BY <1>3, <3>2, <4>1, AppendProperties DEF Last
      <4> QED  BY <2>2, <4>2 DEF HandsNew
    <3> QED  BY <1>4, <3>1, <3>2
  <2> QED  BY <1>1, <2>2, <2>3 DEF Lost, Heard
<1> QED
  BY <1>5, <1>6

\* The end of a scene and !clearqueue give the tail up.
LEMMA TailEnds ==
  ASSUME TailInv, TypeOK', EndScene \/ ClearQueue
  PROVE  TailInv' /\ HandsNew
<1>1. /\ queue' = <<>> /\ nLines' = nLines /\ base' \in {base, nLines} /\ given' = given
      /\ poses' = Detached(poses, queue)
  BY DEF EndScene, ClearQueue, ledgerVars
<1>2. TailInv'
  BY <1>1, DetachedLast, TailEmptied DEF TailInv, Numbered
<1>3. Len(distills') = Len(distills) /\ Len(distills) \in Nat
  <2>1. distills \in Seq(Task)
    BY DEF TailInv, TypeOK
  <2>2. CASE EndScene
    <3>0. \A k \in DOMAIN distills : distills[k] \in Task
      BY <2>1, ElementOfSeq, LenProperties
    <3>1. \A k \in DOMAIN distills : [distills[k] EXCEPT !.st = "orphan"] \in Task
      BY <3>0 DEF Task
    <3>2. distills' \in [DOMAIN distills -> Task]
      BY <2>2, <3>0, <3>1 DEF EndScene
    <3> QED  BY <2>1, <3>2, SameDomainSeq, LenProperties
  <2>3. CASE ClearQueue
    BY <2>1, <2>3, LenProperties DEF ClearQueue, ledgerVars
  <2> QED  BY <2>2, <2>3
<1> QED
  BY <1>2, <1>3 DEF HandsNew

\* A distillation starts or ends.
LEMMA TailDistill ==
  ASSUME TailInv, TypeOK',
         DistillStart \/ \E k \in DOMAIN distills, entry \in BOOLEAN,
                            actors \in SUBSET Chars : DistillEnd(k, entry, actors)
  PROVE  TailInv' /\ Lost' = Lost /\ HandsNew
<1>1. UNCHANGED <<queue, nLines, base, given, poses>>
  BY DEF DistillStart, DistillEnd, tailVars
<1>2. distills \in Seq(Task) /\ Len(distills) \in Nat /\ DOMAIN distills = 1..Len(distills)
      /\ \A k \in 1..Len(distills) : distills[k] \in Task
  BY LenProperties, ElementOfSeq DEF TailInv, TypeOK
<1>3. Len(distills') <= Len(distills)
  <2>1. CASE DistillStart
    <3>1. PICK k \in 1..Len(distills) : distills' = [distills EXCEPT ![k].st = "writing"]
      BY <1>2, <2>1 DEF DistillStart
    <3>2. [distills[k] EXCEPT !.st = "writing"] \in Task
      BY <1>2 DEF Task
    <3>3. distills' = [distills EXCEPT ![k] = [distills[k] EXCEPT !.st = "writing"]]
      BY <3>1
    <3> QED  BY <1>2, <3>2, <3>3, ExceptSeq
  <2>2. CASE \E k \in DOMAIN distills, entry \in BOOLEAN,
               actors \in SUBSET Chars : DistillEnd(k, entry, actors)
    <3>1. PICK k \in 1..Len(distills) : distills' = RemoveAt(distills, k)
      BY <1>2, <2>2 DEF DistillEnd
    <3> QED  BY <1>2, <3>1, RemoveAtLen
  <2> QED  BY <2>1, <2>2
<1>4. HandsNew
  <2>1. Len(distills') \in Nat
    BY LenProperties DEF TypeOK
  <2> QED  BY <1>2, <1>3, <2>1 DEF HandsNew
<1> QED
  BY <1>1, <1>4, TailUntouched

LEMMA TailInit == Init => TailInv
<1> SUFFICES ASSUME Init PROVE TailInv
  OBVIOUS
<1>1. TypeOK /\ SCENE_QUEUE_CAP \in Nat \ {0}
  BY TypeInit, SceneAssumption
<1>2. Numbered
  BY DEF Init, Numbered, Idle
<1>3. TailWithinBudget
  BY <1>1, EmptyTail DEF Init, TailWithinBudget
<1> QED
  BY <1>1, <1>2, <1>3, EmptyTail DEF Init, TailInv

LEMMA TailStep == TailInv /\ [Next]_vars => TailInv' /\ [KeepsMemory]_vars /\ [HandsNew]_vars
<1> SUFFICES ASSUME TailInv, [Next]_vars PROVE TailInv' /\ [KeepsMemory]_vars /\ [HandsNew]_vars
  OBVIOUS
<1> USE DEF KeepsMemory
<1>0. TypeOK' /\ TypeOK /\ poses \in [Poses -> PoseRec]
  BY TypeStep DEF TailInv, TypeOK
\* A step that leaves tail, lines and distillations alone.
<1>1. ASSUME UNCHANGED <<queue, nLines, base, given, distills>>,
             \A i \in Poses : poses'[i].last \in {poses[i].last, {}}
      PROVE  TailInv' /\ KeepsMemory /\ HandsNew
  <2>1. HandsNew
    BY <1>0, <1>1, LenProperties DEF HandsNew, TypeOK
  <2> QED  BY <1>0, <1>1, <2>1, TailUntouched
<1>2. CASE UNCHANGED vars
  BY <1>1, <1>2 DEF vars
<1>3. CASE \E p \in Poser : Hear(p)
  BY <1>3, TailHear
<1>4. CASE ClearQueue
  BY <1>0, <1>4, TailEnds
<1>5. CASE DistillStart \/ \E k \in DOMAIN distills, entry \in BOOLEAN,
                              actors \in SUBSET Chars : DistillEnd(k, entry, actors)
  BY <1>0, <1>5, TailDistill
<1>6. CASE \E text \in Texts : Nudge(text)
  BY <1>1, <1>6 DEF Nudge, tailVars, ledgerVars
<1>7. CASE ConsentOk \/ ConsentDeny \/ \E seed \in Texts \cup {Plain} : AskConsent(seed)
  BY <1>1, <1>7 DEF ConsentOk, ConsentDeny, AskConsent, tailVars, ledgerVars
<1>8. CASE \E i \in Poses, seed \in Texts \cup {Plain} : PoseStart(i, seed)
  <2>1. PICK i \in Poses, seed \in Texts \cup {Plain} : PoseStart(i, seed)
    BY <1>8
  <2>2. \A j \in Poses : poses'[j].last \in {poses[j].last, {}}
    BY <1>0, <2>1 DEF PoseStart
  <2> QED  BY <1>1, <2>1, <2>2 DEF PoseStart, tailVars, ledgerVars
<1>9. CASE \E i \in Poses : PoseSilent(i)
  <2>1. PICK i \in Poses : PoseSilent(i)
    BY <1>9
  <2>2. \A j \in Poses : poses'[j].last \in {poses[j].last, {}}
    BY <1>0, <2>1 DEF PoseSilent, Idle
  <2> QED  BY <1>1, <2>1, <2>2 DEF PoseSilent, tailVars, ledgerVars
<1>10. CASE \E i \in Poses : PoseSpeaks(i)
  BY <1>0, <1>10, TailPoseSpeaks DEF HandsNew
<1>11. CASE RpOff \/ \E summarized \in BOOLEAN : RpOffEnd(summarized)
  <2>1. EndScene
    BY <1>11 DEF RpOff, RpOffEnd
  <2> QED  BY <1>0, <1>11, <2>1, TailEnds
<1>12. CASE RpOn \/ RpOffStart \/ \E enabled \in BOOLEAN : HttpRp(enabled)
  BY <1>1, <1>12 DEF RpOn, RpOffStart, HttpRp, ledgerVars
<1> QED
  BY <1>2, <1>3, <1>4, <1>5, <1>6, <1>7, <1>8, <1>9, <1>10, <1>11, <1>12 DEF Next

\* A tail of that shape is the latest of the scene: its first line is the first
\* of its first block.
LEMMA TailOfInv == TailInv => TailSound
<1> SUFFICES ASSUME TailInv PROVE TailSound
  OBVIOUS
<1>1. queue \in Seq(Block) /\ base \in Nat /\ nLines \in Nat /\ Tiles(queue, nLines)
  BY DEF TailInv, TypeOK
<1>2. DOMAIN queue = 1..Len(queue) /\ Len(queue) \in Nat /\ (queue # <<>> => Len(queue) > 0)
  BY <1>1, BlockAt
<1>3. ASSUME queue # <<>> PROVE \E m \in base + 1..nLines : LinesOf(queue) = m..nLines
  <2>1. 1 \in 1..Len(queue)
    BY <1>2, <1>3
  <2>2. PICK m \in queue[1].lines : \A b \in queue[1].lines : m <= b
    BY <1>1, <2>1 DEF Tiles
  <2>3. m \in base + 1..nLines /\ m \in Nat
    BY <1>1, <2>1 DEF Tiles
  <2>4. ASSUME NEW a \in LinesOf(queue) PROVE a \in m..nLines
    <3>1. PICK k \in 1..Len(queue) : a \in queue[k].lines
      BY <1>1, BlockAt
    <3>2. a \in base + 1..nLines
      BY <1>1, <3>1 DEF Tiles
    <3>3. k = 1 => m <= a
      BY <2>2, <3>1
    <3>4. k # 1 => m < a
      <4>1. k # 1 => 1 < k
        BY <1>2
      <4> QED  BY <1>1, <2>1, <3>1, <4>1 DEF Tiles
    <3> QED  BY <1>1, <2>3, <3>2, <3>3, <3>4
  <2>5. \A b \in m..nLines : b \in LinesOf(queue)
    BY <1>1, <2>1 DEF Tiles
  <2> QED  BY <2>3, <2>4, <2>5
<1>4. TailIsLatest
  BY <1>1, <1>2, <1>3 DEF TailIsLatest, Tiles
<1> QED
  BY <1>4 DEF TailSound, TailInv, Alternates, BlocksAlternate

\* The tail a pose is prompted with (router.py, _handle_room and
\* _trim_scene_bytes) is the latest of the present scene without a hole, in
\* alternating blocks, within budget and cap, for any number of lines and poses.
THEOREM TailIsSound == Spec => []TailSound
BY TailInit, TailStep, TailOfInv, PTL DEF Spec

\* A heard line is distilled once (_ledger_block): what leaves the tail is with the
\* distiller and is not handed over again, but for !clearqueue, the end of a scene
\* and a pose whose list was replaced while it was at the model.
THEOREM LinesHandedOnce == Spec => HandedOnce
BY TailInit, TailStep, PTL DEF Spec, HandedOnce, MemoryKept, DistilledOnce
===============================================================================
