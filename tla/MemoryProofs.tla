------------------------------ MODULE MemoryProofs ------------------------------
(***************************************************************************)
(* What the memory store keeps, for every set of panel threads, rules and  *)
(* bounds: its types, the durability of what returned, the masks, and what *)
(* a purge leaves.                                                         *)
(***************************************************************************)
EXTENDS Memory, SequenceTheorems, TLAPS

\* A method that has begun ends with a commit.
EndsInCommit(s) == s # <<>> => s[Len(s)] = Commit

-------------------------------------------------------------------------------
(* The methods *)

LEMMA PairOf ==
  ASSUME NEW s \in Statement
  PROVE  /\ <<s, Commit>> \in Seq(Statement)
         /\ EndsInCommit(<<s, Commit>>)
  BY DEF EndsInCommit, Statement

\* Two methods in a row.
LEMMA TwoInARow ==
  ASSUME NEW a \in Seq(Statement), NEW b \in Seq(Statement), b # <<>>, EndsInCommit(b)
  PROVE  a \o b \in Seq(Statement) /\ EndsInCommit(a \o b)
  <1>1. a \o b \in Seq(Statement) /\ Len(a \o b) = Len(a) + Len(b)
    BY ConcatProperties
  <1>2. Len(a) \in Nat /\ Len(b) \in Nat /\ Len(b) > 0
    BY EmptySeq, LenProperties
  <1>3. (a \o b)[Len(a \o b)] = b[Len(b)]
    BY <1>1, <1>2
  <1>4. QED
    BY <1>1, <1>3 DEF EndsInCommit

LEMMA Methods ==
  /\ \A id \in Ids : Log(id) \in Seq(Statement) /\ EndsInCommit(Log(id))
  /\ \A k \in Rules : Remember(k, {0}) \in Seq(Statement) /\ EndsInCommit(Remember(k, {0}))
  /\ \A keys \in SUBSET Key, b \in BOOLEAN :
       MaskMemory(keys, b) \in Seq(Statement) /\ EndsInCommit(MaskMemory(keys, b))
  /\ \A id \in Ids, b \in BOOLEAN :
       MaskEvent(id, b) \in Seq(Statement) /\ EndsInCommit(MaskEvent(id, b))
  /\ \A keys \in SUBSET Key :
       DeleteMemory(keys) \in Seq(Statement) /\ EndsInCommit(DeleteMemory(keys))
  <1>1. \A id \in Ids : [op |-> "log", id |-> id] \in Statement
    BY DEF Statement
  <1>2. \A k \in Rules : [op |-> "remember", key |-> k, lines |-> {0}] \in Statement
    BY DEF Statement
  <1>3. \A keys \in SUBSET Key, b \in BOOLEAN :
          [op |-> "mask", keys |-> keys, b |-> b] \in Statement
    BY DEF Statement
  <1>4. \A id \in Ids, b \in BOOLEAN : [op |-> "maskEvent", id |-> id, b |-> b] \in Statement
    BY DEF Statement
  <1>5. \A keys \in SUBSET Key : [op |-> "delete", keys |-> keys] \in Statement
    BY DEF Statement
  <1>6. QED
    BY <1>1, <1>2, <1>3, <1>4, <1>5, PairOf
       DEF Log, Remember, MaskMemory, MaskEvent, DeleteMemory

LEMMA SaveIsAMethod ==
  ASSUME NEW lines \in SUBSET Ids, lines # {}
  PROVE  SaveScene(lines) \in Seq(Statement) /\ EndsInCommit(SaveScene(lines))
  <1>1. ASSUME NEW k \in Scene
        PROVE  [op |-> "remember", key |-> k, lines |-> lines] \in Statement
    <2>1. lines \in (SUBSET Ids) \ {{}}
      OBVIOUS
    <2>2. [op |-> "remember", key |-> k, lines |-> lines]
            \in [op : {"remember"}, key : Scene, lines : (SUBSET Ids) \ {{}}]
      BY <2>1
    <2>3. QED
      BY <2>2 DEF Statement
  <1>2. \A k \in Scene :
          Remember(k, lines) \in Seq(Statement) /\ EndsInCommit(Remember(k, lines))
    BY <1>1, PairOf DEF Remember
  <1>3. Remember("cast", lines) # <<>>
    BY DEF Remember
  <1>4. QED
    BY <1>2, <1>3, TwoInARow DEF SaveScene, Scene

LEMMA PurgeIsAMethod ==
  PurgeScene \in Seq(Statement) /\ EndsInCommit(PurgeScene)
  <1>1. DeleteMemory(Scene) \in Seq(Statement)
    BY Methods DEF Key
  <1>2. [op |-> "deleteEvents"] \in Statement
    BY DEF Statement
  <1>3. /\ <<[op |-> "deleteEvents"], Commit>> \in Seq(Statement)
        /\ EndsInCommit(<<[op |-> "deleteEvents"], Commit>>)
    BY <1>2, PairOf
  <1>4. <<[op |-> "deleteEvents"], Commit>> # <<>>
    OBVIOUS
  <1>5. QED
    BY <1>1, <1>3, <1>4, TwoInARow DEF PurgeScene

-------------------------------------------------------------------------------
(* The statements *)

LEMMA KeysApart == Scene \cap Rules = {} /\ Scene \cup Rules = Key
  BY MemoryAssumption DEF Scene, Key

LEMMA RowShape ==
  ASSUME NEW r \in Row \cup Rule
  PROVE  r.masked \in BOOLEAN
  <1>1. CASE r = NoRow
    BY <1>1 DEF NoRow
  <1>2. CASE r \in [of : (SUBSET Ids) \ {{}}, masked : BOOLEAN]
    BY <1>2
  <1>3. CASE r \in [of : {{0}}, masked : BOOLEAN]
    BY <1>3
  <1>4. QED
    BY <1>1, <1>2, <1>3 DEF Row, Rule

LEMMA UpsertedType ==
  ASSUME NEW d, IsTables(d), NEW s \in Statement, s.op = "remember"
  PROVE  IsTables([d EXCEPT !.mem = Upserted(@, s.key, s.lines)])
  <1> DEFINE e == [d EXCEPT !.mem = Upserted(@, s.key, s.lines)]
  <1>1. \/ s.key \in Scene /\ s.lines \in (SUBSET Ids) \ {{}}
        \/ s.key \in Rules /\ s.lines = {0}
    BY DEF Statement, Commit
  <1>2. s.key \in Key /\ d.mem[s.key] \in Row \cup Rule
    BY <1>1, KeysApart DEF IsTables
  <1>3. d.mem[s.key].masked \in BOOLEAN
    BY <1>2, RowShape
  <1> DEFINE r == [of |-> s.lines, masked |-> d.mem[s.key].masked]
  <1>4. (s.key \in Scene => r \in Row) /\ (s.key \in Rules => r \in Rule)
    BY <1>1, <1>3, KeysApart DEF Row, Rule
  <1>5. e = [mem |-> [d.mem EXCEPT ![s.key] = r], events |-> d.events]
    BY DEF Upserted, IsTables
  <1>6. QED
    BY <1>1, <1>2, <1>4, <1>5, KeysApart DEF IsTables

LEMMA MaskedType ==
  ASSUME NEW d, IsTables(d), NEW s \in Statement, s.op = "mask"
  PROVE  IsTables([d EXCEPT !.mem = Masked(@, s.keys, s.b)])
  <1>1. s.b \in BOOLEAN
    BY DEF Statement, Commit
  <1>2. \A k \in Key : Masked(d.mem, s.keys, s.b)[k]
                         \in {d.mem[k], [d.mem[k] EXCEPT !.masked = s.b]}
    BY DEF Masked
  <1>3. \A k \in Scene : Masked(d.mem, s.keys, s.b)[k] \in Row
    BY <1>1, KeysApart DEF Masked, IsTables, Row, NoRow
  <1>4. \A k \in Rules : Masked(d.mem, s.keys, s.b)[k] \in Rule
    BY <1>1, KeysApart DEF Masked, IsTables, Rule, NoRow
  <1>5. Masked(d.mem, s.keys, s.b) \in [Key -> Row \cup Rule]
    BY <1>3, <1>4, KeysApart DEF Masked
  <1>6. [d EXCEPT !.mem = Masked(@, s.keys, s.b)]
          = [mem |-> Masked(d.mem, s.keys, s.b), events |-> d.events]
    BY DEF IsTables
  <1>7. QED
    BY <1>3, <1>4, <1>5, <1>6 DEF IsTables

\* Every statement keeps the types of the tables.
LEMMA ExecutedType ==
  ASSUME NEW d, IsTables(d), NEW s \in Statement, s # Commit
  PROVE  IsTables(Executed(d, s))
  <1>1. CASE s.op = "log"
    <2>1. s.id \in Ids
      BY <1>1 DEF Statement, Commit
    <2>2. Executed(d, s) = [d EXCEPT !.events[s.id] = "plain"]
      BY <1>1 DEF Executed
    <2>3. QED
      BY <2>1, <2>2 DEF IsTables, Event
  <1>2. CASE s.op = "remember"
    BY <1>2, UpsertedType DEF Executed
  <1>3. CASE s.op = "mask"
    BY <1>3, MaskedType DEF Executed
  <1>4. CASE s.op = "delete"
    <2> DEFINE m == [k \in Key |-> IF k \in s.keys THEN NoRow ELSE d.mem[k]]
    <2>1. Executed(d, s) = [mem |-> m, events |-> d.events]
      BY <1>4 DEF Executed, IsTables
    <2>2. NoRow \in Row /\ NoRow \in Rule
      BY DEF Row, Rule
    <2>3. (\A k \in Scene : m[k] \in Row) /\ (\A k \in Rules : m[k] \in Rule)
      BY <2>2, KeysApart DEF IsTables
    <2>4. m \in [Key -> Row \cup Rule]
      BY <2>3, KeysApart
    <2>5. QED
      BY <2>1, <2>3, <2>4 DEF IsTables
  <1>5. CASE s.op = "maskEvent"
    <2>1. s.id \in Ids
      BY <1>5 DEF Statement, Commit
    <2>2. Executed(d, s) =
            [d EXCEPT !.events[s.id] =
               IF @ = Absent THEN @ ELSE IF s.b THEN "masked" ELSE "plain"]
      BY <1>5 DEF Executed
    <2>3. QED
      BY <2>1, <2>2 DEF IsTables, Event
  <1>6. CASE s.op = "deleteEvents"
    <2>1. Executed(d, s) = [d EXCEPT !.events = [i \in Ids |-> Absent]]
      BY <1>6 DEF Executed
    <2>2. QED
      BY <2>1 DEF IsTables, Event
  <1>7. s.op \in {"log", "remember", "mask", "delete", "maskEvent", "deleteEvents"}
    BY DEF Statement
  <1>8. QED
    BY <1>1, <1>2, <1>3, <1>4, <1>5, <1>6, <1>7

-------------------------------------------------------------------------------
(* What a step of a thread does *)

\* A step takes the first statement off the method; a statement that is not a
\* commit leaves a method that ends with one.
LEMMA StepTakesTheHead ==
  ASSUME NEW s \in Seq(Statement), s # <<>>
  PROVE  /\ Head(s) \in Statement
         /\ Tail(s) \in Seq(Statement)
         /\ EndsInCommit(s) => EndsInCommit(Tail(s))
         /\ EndsInCommit(s) /\ Head(s) # Commit => Tail(s) # <<>>
  <1>1. Head(s) \in Statement /\ Tail(s) \in Seq(Statement) /\ Len(Tail(s)) = Len(s) - 1
    BY HeadTailProperties
  <1>2. Len(s) \in Nat \ {0}
    BY EmptySeq, LenProperties
  <1>3. \A i \in 1..Len(Tail(s)) : Tail(s)[i] = s[i + 1]
    BY HeadTailProperties
  <1>4. Head(s) = s[1]
    OBVIOUS
  <1>5. Tail(s) # <<>> => Len(s) > 1 /\ Tail(s)[Len(Tail(s))] = s[Len(s)]
    <2> SUFFICES ASSUME Tail(s) # <<>> PROVE Len(s) > 1 /\ Tail(s)[Len(Tail(s))] = s[Len(s)]
      OBVIOUS
    <2>1. Len(Tail(s)) > 0
      BY <1>1, EmptySeq, LenProperties
    <2>2. QED
      BY <1>1, <1>2, <1>3, <2>1
  <1>6. Tail(s) = <<>> => Len(s) = 1
    <2>1. Tail(s) = <<>> => Len(Tail(s)) = 0
      BY <1>1, EmptySeq
    <2>2. \A m, n \in Nat : m = n - 1 /\ m = 0 => n = 1
      OBVIOUS
    <2>3. Len(Tail(s)) \in Nat /\ Len(s) \in Nat
      BY <1>1, LenProperties
    <2>4. QED
      BY <1>1, <2>1, <2>2, <2>3, Zenon
  <1>7. QED
    BY <1>1, <1>4, <1>5, <1>6 DEF EndsInCommit

\* Types, and that what was begun ends with a commit, which will make durable
\* whatever is not yet.
IInv ==
  /\ TypeOK
  /\ \A t \in Thread : EndsInCommit(todo[t])
  /\ Durable

\* A thread that enters a method keeps the invariant of the tables.
LEMMA CallKeeps ==
  ASSUME IInv, NEW t \in Thread, NEW s \in Seq(Statement), EndsInCommit(s), Call(t, s)
  PROVE  /\ todo' \in [Thread -> Seq(Statement)]
         /\ \A u \in Thread : EndsInCommit(todo'[u])
         /\ IsTables(db)' /\ IsTables(disk)'
         /\ Durable'
  <1>1. todo' = [todo EXCEPT ![t] = s] /\ todo[t] = <<>> /\ db' = db /\ disk' = disk
    BY DEF Call
  <1>2. todo' \in [Thread -> Seq(Statement)] /\ \A u \in Thread : EndsInCommit(todo'[u])
    BY <1>1 DEF IInv, TypeOK
  <1>3. (\A u \in Thread : todo'[u] = <<>>) => (\A u \in Thread : todo[u] = <<>>)
    BY <1>1 DEF IInv, TypeOK
  <1>4. QED
    BY <1>1, <1>2, <1>3 DEF IInv, TypeOK, Durable, IsTables

LEMMA RecallType ==
  ASSUME IsTables(db)
  PROVE  Recall(db) \subseteq Ids
  <1>1. db.mem["summary"] \in Row
    BY DEF IsTables, Scene
  <1>2. CASE db.mem["summary"] = NoRow
    BY <1>2 DEF Recall, NoRow
  <1>3. CASE db.mem["summary"] \in [of : (SUBSET Ids) \ {{}}, masked : BOOLEAN]
    BY <1>3 DEF Recall
  <1>4. QED
    BY <1>1, <1>2, <1>3 DEF Row

LEMMA InitKeeps == Init => IInv
  <1> SUFFICES ASSUME Init PROVE IInv
    OBVIOUS
  <1>1. <<>> \in Seq(Statement) /\ EndsInCommit(<<>>)
    BY DEF EndsInCommit
  <1>2. NoRow \in Row /\ NoRow \in Rule /\ NoRow \in Row \cup Rule
    BY DEF Row, Rule
  <1>3. IsTables(db) /\ IsTables(disk)
    BY <1>2, KeysApart DEF Init, IsTables, Event
  <1>4. TypeOK
    <2>1. todo \in [Thread -> Seq(Statement)]
      BY <1>1 DEF Init
    <2>2. 0 \in 0..MaxLines /\ 0 \in 0..MaxOps /\ 0 \in 0..MaxCrashes
      BY MemoryAssumption
    <2>3. QED
      BY <1>3, <2>1, <2>2 DEF Init, TypeOK
  <1>5. QED
    BY <1>1, <1>4 DEF Init, IInv, Durable

LEMMA LoopIsAThread == "loop" \in Thread
  BY DEF Thread

LEMMA StepKeeps ==
  ASSUME IInv, NEW t \in Thread, Step(t)
  PROVE  IInv'
  <1> DEFINE s == todo[t]
  <1>1. s \in Seq(Statement) /\ s # <<>> /\ EndsInCommit(s)
    BY DEF Step, IInv, TypeOK
  <1>2. /\ Head(s) \in Statement /\ Tail(s) \in Seq(Statement)
        /\ EndsInCommit(Tail(s))
        /\ Head(s) # Commit => Tail(s) # <<>>
    BY <1>1, StepTakesTheHead
  <1>3. todo' = [todo EXCEPT ![t] = Tail(s)]
    BY DEF Step
  <1>4. /\ todo' \in [Thread -> Seq(Statement)]
        /\ \A u \in Thread : EndsInCommit(todo'[u])
    BY <1>2, <1>3 DEF IInv, TypeOK
  <1>5. UNCHANGED <<room, nLines, nOps, nCrashes>>
    BY DEF Step
  <1>6. IsTables(db)' /\ IsTables(disk)' /\ Durable'
    <2>1. CASE Head(s) = Commit
      <3>1. db' = db /\ disk' = db
        BY <2>1 DEF Step
      <3>2. QED
        BY <3>1 DEF IInv, TypeOK, IsTables, Durable
    <2>2. CASE Head(s) # Commit
      <3>1. db' = Executed(db, Head(s)) /\ disk' = disk
        BY <2>2 DEF Step
      <3>2. IsTables(db')
        BY <1>2, <2>2, <3>1, ExecutedType DEF IInv, TypeOK
      <3>3. todo'[t] # <<>>
        BY <1>2, <1>3, <2>2 DEF IInv, TypeOK
      <3>4. QED
        BY <3>1, <3>2, <3>3 DEF IInv, TypeOK, IsTables, Durable
    <2>3. QED
      BY <2>1, <2>2
  <1>7. TypeOK'
    BY <1>4, <1>5, <1>6 DEF IInv, TypeOK, room
  <1>8. QED
    BY <1>4, <1>6, <1>7 DEF IInv

LEMMA HearKeeps ==
  ASSUME IInv, Hear
  PROVE  IInv'
  <1>1. nLines' = nLines + 1 /\ nLines' \in 0..MaxLines /\ nLines' \in Ids
    BY MemoryAssumption DEF Hear, IInv, TypeOK, Ids
  <1>2. Log(nLines') \in Seq(Statement) /\ EndsInCommit(Log(nLines'))
    BY <1>1, Methods
  <1>3. /\ todo' \in [Thread -> Seq(Statement)]
        /\ \A u \in Thread : EndsInCommit(todo'[u])
        /\ IsTables(db)' /\ IsTables(disk)' /\ Durable'
    BY <1>2, CallKeeps, LoopIsAThread DEF Hear
  <1>4. scene' \subseteq Ids
    BY <1>1 DEF Hear, IInv, TypeOK
  <1>5. TypeOK'
    BY <1>1, <1>3, <1>4 DEF Hear, IInv, TypeOK
  <1>6. QED
    BY <1>3, <1>5 DEF IInv

LEMMA RpOnKeeps ==
  ASSUME IInv, RpOn
  PROVE  IInv'
  <1>1. <<>> \in Seq(Statement) /\ EndsInCommit(<<>>)
    BY DEF EndsInCommit
  <1>2. /\ todo' \in [Thread -> Seq(Statement)]
        /\ \A u \in Thread : EndsInCommit(todo'[u])
        /\ IsTables(db)' /\ IsTables(disk)' /\ Durable'
    BY <1>1, CallKeeps, LoopIsAThread DEF RpOn
  <1>3. recalled' \subseteq Ids
    BY RecallType DEF RpOn, IInv, TypeOK
  <1>4. TypeOK'
    BY <1>2, <1>3 DEF RpOn, IInv, TypeOK
  <1>5. QED
    BY <1>2, <1>4 DEF IInv

LEMMA RpOffKeeps ==
  ASSUME IInv, RpOff
  PROVE  IInv'
  <1>1. PICK lines \in SUBSET scene :
          Call("loop", IF lines = {} THEN <<>> ELSE SaveScene(lines))
    BY DEF RpOff
  <1> DEFINE s == IF lines = {} THEN <<>> ELSE SaveScene(lines)
  <1>2. s \in Seq(Statement) /\ EndsInCommit(s)
    <2>1. <<>> \in Seq(Statement) /\ EndsInCommit(<<>>)
      BY DEF EndsInCommit
    <2>2. lines \in SUBSET Ids
      BY DEF IInv, TypeOK
    <2>3. QED
      BY <2>1, <2>2, SaveIsAMethod
  <1>3. /\ todo' \in [Thread -> Seq(Statement)]
        /\ \A u \in Thread : EndsInCommit(todo'[u])
        /\ IsTables(db)' /\ IsTables(disk)' /\ Durable'
    BY <1>1, <1>2, CallKeeps, LoopIsAThread
  <1>4. TypeOK'
    BY <1>3 DEF RpOff, IInv, TypeOK
  <1>5. QED
    BY <1>3, <1>4 DEF IInv

LEMMA SetRpKeeps ==
  ASSUME IInv, SetRp
  PROVE  IInv'
  BY DEF SetRp, IInv, TypeOK, tables, IsTables, Durable

LEMMA OperateKeeps ==
  ASSUME IInv, Operate
  PROVE  IInv'
  <1>1. nOps' \in 0..MaxOps /\ UNCHANGED <<room, nLines, nCrashes>>
    BY MemoryAssumption DEF Operate, IInv, TypeOK
  <1>2. ASSUME NEW t \in Thread, NEW s \in Seq(Statement), EndsInCommit(s), Call(t, s)
        PROVE  IInv'
    <2>1. /\ todo' \in [Thread -> Seq(Statement)]
          /\ \A u \in Thread : EndsInCommit(todo'[u])
          /\ IsTables(db)' /\ IsTables(disk)' /\ Durable'
      BY <1>2, CallKeeps
    <2>2. TypeOK'
      BY <1>1, <2>1 DEF IInv, TypeOK, room
    <2>3. QED
      BY <2>1, <2>2 DEF IInv
  <1>3. Scene \in SUBSET Key /\ Rules \in SUBSET Key /\ \A keys \in Groups : keys \in SUBSET Key
    BY KeysApart DEF Groups
  <1>4. CASE ClearRules
    BY <1>2, <1>3, <1>4, Methods, LoopIsAThread DEF ClearRules
  <1>5. ASSUME NEW r \in Rules, Learn(r)
        PROVE  IInv'
    BY <1>2, <1>5, Methods, LoopIsAThread DEF Learn
  <1>6. ASSUME NEW t \in Thread, Surgery(t)
        PROVE  IInv'
    <2>1. ASSUME NEW keys \in Groups, NEW b \in BOOLEAN, Mask(t, keys, b)
          PROVE  IInv'
      BY <1>2, <1>3, <2>1, Methods DEF Mask
    <2>2. ASSUME NEW id \in Ids, NEW b \in BOOLEAN, MaskLine(t, id, b)
          PROVE  IInv'
      BY <1>2, <2>2, Methods DEF MaskLine
    <2>3. ASSUME NEW keys \in Groups, Delete(t, keys)
          PROVE  IInv'
      BY <1>2, <1>3, <2>3, Methods DEF Delete
    <2>4. CASE Purge(t)
      BY <1>2, <2>4, PurgeIsAMethod DEF Purge
    <2>5. QED
      BY <1>6, <2>1, <2>2, <2>3, <2>4 DEF Surgery
  <1>7. QED
    BY <1>4, <1>5, <1>6 DEF Operate

LEMMA CrashKeeps ==
  ASSUME IInv, Crash
  PROVE  IInv'
  <1>1. <<>> \in Seq(Statement) /\ EndsInCommit(<<>>)
    BY DEF EndsInCommit
  <1>2. nCrashes' \in 0..MaxCrashes
    BY MemoryAssumption DEF Crash, IInv, TypeOK
  <1>3. todo' \in [Thread -> Seq(Statement)]
    BY <1>1 DEF Crash
  <1>4. TypeOK'
    BY <1>2, <1>3 DEF Crash, IInv, TypeOK, IsTables
  <1>5. QED
    BY <1>1, <1>4 DEF Crash, IInv, Durable

LEMMA NextKeeps == IInv /\ [Next]_vars => IInv'
  <1> SUFFICES ASSUME IInv, [Next]_vars PROVE IInv'
    OBVIOUS
  <1>1. CASE UNCHANGED vars
    BY <1>1 DEF vars, tables, room, IInv, TypeOK, IsTables, Durable
  <1>2. ASSUME NEW t \in Thread, Step(t) PROVE IInv'
    BY <1>2, StepKeeps
  <1>3. QED
    BY <1>1, <1>2, HearKeeps, RpOnKeeps, RpOffKeeps, SetRpKeeps, OperateKeeps, CrashKeeps
       DEF Next

\* The store keeps its types under every interleaving of the loop, the panel's
\* threads and crashes of the daemon.
THEOREM TypeCorrect == Spec => []TypeOK
  <1>1. IInv => TypeOK
    BY DEF IInv
  <1>2. QED
    BY InitKeeps, NextKeeps, <1>1, PTL DEF Spec

\* Once every method has returned there is nothing a crash would lose.
THEOREM WhatReturnsIsDurable == Spec => []Durable
  <1>1. IInv => Durable
    BY DEF IInv
  <1>2. QED
    BY InitKeeps, NextKeeps, <1>1, PTL DEF Spec

-------------------------------------------------------------------------------
(* Masks *)

\* Nothing masked in d shows in e.
StillMasked(d, e) ==
  /\ \A k \in Key : d.mem[k].masked => e.mem[k].masked \/ e.mem[k] = NoRow
  /\ \A i \in Ids : d.events[i] = "masked" => e.events[i] # "plain"

\* A statement that is not an unmasking keeps what is masked so.  The line a
\* statement logs is a new one; here only that it is not masked is asked.
LEMMA ExecutedKeepsMasks ==
  ASSUME NEW d, IsTables(d), NEW s \in Statement, s # Commit, ~Unmasks(s),
         s.op = "log" => d.events[s.id] # "masked"
  PROVE  StillMasked(d, Executed(d, s))
  <1>0. d.mem \in [Key -> Row \cup Rule] /\ d.events \in [Ids -> Event]
    BY DEF IsTables
  <1>1. CASE s.op = "log"
    <2>1. Executed(d, s) = [d EXCEPT !.events[s.id] = "plain"]
      BY <1>1 DEF Executed
    <2>2. QED
      BY <1>0, <1>1, <2>1 DEF IsTables, StillMasked
  <1>2. CASE s.op = "remember"
    <2>1. Executed(d, s) = [d EXCEPT !.mem = Upserted(@, s.key, s.lines)]
      BY <1>2 DEF Executed
    <2>2. QED
      BY <1>0, <2>1 DEF IsTables, StillMasked, Upserted
  <1>3. CASE s.op = "mask"
    <2>1. Executed(d, s) = [d EXCEPT !.mem = Masked(@, s.keys, s.b)]
      BY <1>3 DEF Executed
    <2>2. s.b = TRUE
      BY <1>3 DEF Unmasks, Statement, Commit
    <2>3. \A k \in Key : d.mem[k] # NoRow /\ k \in s.keys => [d.mem[k] EXCEPT !.masked = s.b].masked
      BY <1>0, <2>2 DEF Row, Rule
    <2>4. QED
      BY <1>0, <2>1, <2>2, <2>3 DEF IsTables, StillMasked, Masked
  <1>4. CASE s.op = "delete"
    <2>1. Executed(d, s) =
            [d EXCEPT !.mem = [k \in Key |-> IF k \in s.keys THEN NoRow ELSE @[k]]]
      BY <1>4 DEF Executed
    <2>2. QED
      BY <1>0, <2>1 DEF IsTables, StillMasked
  <1>5. CASE s.op = "maskEvent"
    <2>1. Executed(d, s) =
            [d EXCEPT !.events[s.id] =
               IF @ = Absent THEN @ ELSE IF s.b THEN "masked" ELSE "plain"]
      BY <1>5 DEF Executed
    <2>2. s.b = TRUE
      BY <1>5 DEF Unmasks, Statement, Commit
    <2>3. QED
      BY <1>0, <2>1, <2>2 DEF IsTables, StillMasked, Absent
  <1>6. CASE s.op = "deleteEvents"
    <2>1. Executed(d, s) = [d EXCEPT !.events = [i \in Ids |-> Absent]]
      BY <1>6 DEF Executed
    <2>2. QED
      BY <1>0, <2>1 DEF IsTables, StillMasked, Absent
  <1>7. s.op \in {"log", "remember", "mask", "delete", "maskEvent", "deleteEvents"}
    BY DEF Statement
  <1>8. QED
    BY <1>1, <1>2, <1>3, <1>4, <1>5, <1>6, <1>7

\* The statements that log nothing, and the methods that consist of them.
Quiet == {s \in Statement : s.op # "log"}

\* A line is logged once, under a number no event has had: panels log nothing,
\* and the number the loop is about to log is still absent.
NewLine ==
  /\ \A i \in Ids : i > nLines => db.events[i] = Absent /\ disk.events[i] = Absent
  /\ \A t \in Panels : todo[t] \in Seq(Quiet)
  /\ \/ todo["loop"] \in Seq(Quiet)
     \/ nLines \in Ids /\ todo["loop"] = Log(nLines) /\ db.events[nLines] = Absent

LEMMA QuietPair ==
  ASSUME NEW s \in Statement, s.op # "log"
  PROVE  <<s, Commit>> \in Seq(Quiet)
  <1>1. s \in Quiet /\ Commit \in Quiet
    BY DEF Quiet, Commit, Statement
  <1>2. QED
    BY <1>1

LEMMA QuietMethods ==
  /\ \A k \in Rules : Remember(k, {0}) \in Seq(Quiet)
  /\ \A keys \in SUBSET Key, b \in BOOLEAN : MaskMemory(keys, b) \in Seq(Quiet)
  /\ \A id \in Ids, b \in BOOLEAN : MaskEvent(id, b) \in Seq(Quiet)
  /\ \A keys \in SUBSET Key : DeleteMemory(keys) \in Seq(Quiet)
  /\ \A lines \in (SUBSET Ids) \ {{}} : SaveScene(lines) \in Seq(Quiet)
  /\ PurgeScene \in Seq(Quiet)
  <1>1. \A k \in Rules : [op |-> "remember", key |-> k, lines |-> {0}] \in Statement
    BY DEF Statement
  <1>2. \A k \in Scene, lines \in (SUBSET Ids) \ {{}} :
          [op |-> "remember", key |-> k, lines |-> lines] \in Statement
    BY DEF Statement
  <1>3. \A keys \in SUBSET Key, b \in BOOLEAN :
          [op |-> "mask", keys |-> keys, b |-> b] \in Statement
    BY DEF Statement
  <1>4. \A id \in Ids, b \in BOOLEAN : [op |-> "maskEvent", id |-> id, b |-> b] \in Statement
    BY DEF Statement
  <1>5. \A keys \in SUBSET Key : [op |-> "delete", keys |-> keys] \in Statement
    BY DEF Statement
  <1>6. [op |-> "deleteEvents"] \in Statement
    BY DEF Statement
  <1>7. \A k \in Scene, lines \in (SUBSET Ids) \ {{}} : Remember(k, lines) \in Seq(Quiet)
    BY <1>2, QuietPair DEF Remember
  <1>8. \A lines \in (SUBSET Ids) \ {{}} : SaveScene(lines) \in Seq(Quiet)
    BY <1>7, ConcatProperties DEF SaveScene, Scene
  <1>9. \A keys \in SUBSET Key : DeleteMemory(keys) \in Seq(Quiet)
    BY <1>5, QuietPair DEF DeleteMemory
  <1>10. PurgeScene \in Seq(Quiet)
    BY <1>6, <1>9, QuietPair, ConcatProperties DEF PurgeScene, Key
  <1>11. QED
    BY <1>1, <1>3, <1>4, <1>8, <1>9, <1>10, QuietPair DEF Remember, MaskMemory, MaskEvent

\* A quiet statement makes no event of an absent line.
LEMMA QuietAddsNoEvent ==
  ASSUME NEW d, IsTables(d), NEW s \in Quiet, s # Commit, NEW i \in Ids, d.events[i] = Absent
  PROVE  Executed(d, s).events[i] = Absent
  <1>1. s.op \in {"remember", "mask", "delete", "maskEvent", "deleteEvents"}
    BY DEF Quiet, Statement
  <1>2. CASE s.op = "maskEvent"
    BY <1>2 DEF Executed, IsTables
  <1>3. CASE s.op = "deleteEvents"
    BY <1>3 DEF Executed, IsTables
  <1>4. CASE s.op \in {"remember", "mask", "delete"}
    BY <1>4 DEF Executed, IsTables
  <1>5. QED
    BY <1>1, <1>2, <1>3, <1>4

\* What a thread that enters a quiet method changes of NewLine: nothing.
LEMMA QuietCall ==
  ASSUME TypeOK, NewLine, NEW t \in Thread, NEW s \in Seq(Quiet), Call(t, s),
         nLines' = nLines
  PROVE  NewLine'
  <1>1. todo[t] = <<>> /\ todo' = [todo EXCEPT ![t] = s] /\ db' = db /\ disk' = disk
    BY DEF Call
  <1>2. \A u \in Thread : u # t => todo'[u] = todo[u]
    BY <1>1 DEF TypeOK
  <1>3. todo'[t] = s
    BY <1>1 DEF TypeOK
  <1>4. \A u \in Panels : todo'[u] \in Seq(Quiet)
    BY <1>2, <1>3 DEF NewLine, Thread
  <1>5. \/ todo'["loop"] \in Seq(Quiet)
        \/ todo'["loop"] = todo["loop"]
    BY <1>2, <1>3, LoopIsAThread
  <1>6. QED
    BY <1>1, <1>4, <1>5 DEF NewLine

\* The loop's and the panel's steps: what a step executes, and what is left.
LEMMA StepKeepsNewLine ==
  ASSUME IInv, NewLine, NEW t \in Thread, Step(t)
  PROVE  NewLine'
  <1> DEFINE s == todo[t]
  <1>1. s # <<>> /\ todo' = [todo EXCEPT ![t] = Tail(s)] /\ nLines' = nLines
    BY DEF Step
  <1>2. todo'[t] = Tail(s) /\ \A u \in Thread : u # t => todo'[u] = todo[u]
    BY <1>1 DEF IInv, TypeOK
  <1>3. Thread = {"loop"} \cup Panels /\ "loop" \notin Panels
    BY MemoryAssumption DEF Thread
  <1>4. CASE s \in Seq(Quiet)
    <2>1. Head(s) \in Quiet /\ Tail(s) \in Seq(Quiet)
      BY <1>1, <1>4, HeadTailProperties
    <2>2. ASSUME NEW i \in Ids, db.events[i] = Absent
          PROVE  db'.events[i] = Absent
      <3>1. CASE Head(s) = Commit
        BY <2>2, <3>1 DEF Step
      <3>2. CASE Head(s) # Commit
        <4>1. db' = Executed(db, Head(s))
          BY <3>2 DEF Step
        <4>2. QED
          BY <2>1, <2>2, <3>2, <4>1, QuietAddsNoEvent DEF IInv, TypeOK
      <3>3. QED
        BY <3>1, <3>2
    <2>3. disk' = disk \/ disk' = db
      BY DEF Step
    <2>4. \A i \in Ids : i > nLines => db'.events[i] = Absent /\ disk'.events[i] = Absent
      BY <2>2, <2>3 DEF NewLine
    <2>5. \A u \in Panels : todo'[u] \in Seq(Quiet)
      BY <1>2, <1>3, <2>1 DEF NewLine
    <2>6. \/ todo'["loop"] \in Seq(Quiet)
          \/ nLines \in Ids /\ todo'["loop"] = Log(nLines) /\ db'.events[nLines] = Absent
      BY <1>2, <1>3, <2>1, <2>2 DEF NewLine
    <2>7. QED
      BY <1>1, <2>4, <2>5, <2>6 DEF NewLine
  <1>5. CASE t = "loop" /\ nLines \in Ids /\ s = Log(nLines)
    <2>1. Head(s) = [op |-> "log", id |-> nLines] /\ Tail(s) = <<Commit>>
      BY <1>5 DEF Log
    <2>2. Head(s) # Commit
      BY <2>1 DEF Commit
    <2>3. db' = [db EXCEPT !.events[nLines] = "plain"] /\ disk' = disk
      BY <2>1, <2>2 DEF Step, Executed
    <2>4. \A i \in Ids : i > nLines => db'.events[i] = Absent /\ disk'.events[i] = Absent
      <3>1. nLines \in Int /\ \A i \in Ids : i \in Int /\ (i > nLines => i # nLines)
        BY <1>5 DEF Ids
      <3>2. db.events \in [Ids -> Event]
        BY DEF IInv, TypeOK, IsTables
      <3>3. QED
        BY <2>3, <3>1, <3>2 DEF NewLine, IInv, TypeOK, IsTables
    <2>5. <<Commit>> \in Seq(Quiet)
      BY DEF Quiet, Commit, Statement
    <2>6. \A u \in Panels : todo'[u] = todo[u]
      BY <1>2, <1>3, <1>5
    <2>7. QED
      BY <1>1, <1>2, <1>5, <2>1, <2>4, <2>5, <2>6 DEF NewLine
  <1>6. QED
    BY <1>3, <1>4, <1>5 DEF NewLine

LEMMA OperateKeepsNewLine ==
  ASSUME IInv, NewLine, Operate
  PROVE  NewLine'
  <1>1. nLines' = nLines
    BY DEF Operate
  <1>2. ASSUME NEW t \in Thread, NEW s \in Seq(Quiet), Call(t, s)
        PROVE  NewLine'
    BY <1>1, <1>2, QuietCall DEF IInv
  <1>3. Scene \in SUBSET Key /\ Rules \in SUBSET Key /\ \A keys \in Groups : keys \in SUBSET Key
    BY KeysApart DEF Groups
  <1>4. CASE ClearRules
    BY <1>2, <1>3, <1>4, QuietMethods, LoopIsAThread DEF ClearRules
  <1>5. ASSUME NEW r \in Rules, Learn(r)
        PROVE  NewLine'
    BY <1>2, <1>5, QuietMethods, LoopIsAThread DEF Learn
  <1>6. ASSUME NEW t \in Thread, Surgery(t)
        PROVE  NewLine'
    <2>1. ASSUME NEW keys \in Groups, NEW b \in BOOLEAN, Mask(t, keys, b)
          PROVE  NewLine'
      BY <1>2, <1>3, <2>1, QuietMethods DEF Mask
    <2>2. ASSUME NEW id \in Ids, NEW b \in BOOLEAN, MaskLine(t, id, b)
          PROVE  NewLine'
      BY <1>2, <2>2, QuietMethods DEF MaskLine
    <2>3. ASSUME NEW keys \in Groups, Delete(t, keys)
          PROVE  NewLine'
      BY <1>2, <1>3, <2>3, QuietMethods DEF Delete
    <2>4. CASE Purge(t)
      BY <1>2, <2>4, QuietMethods DEF Purge
    <2>5. QED
      BY <1>6, <2>1, <2>2, <2>3, <2>4 DEF Surgery
  <1>7. QED
    BY <1>4, <1>5, <1>6 DEF Operate

LEMMA NextKeepsNewLine == IInv /\ NewLine /\ [Next]_vars => NewLine'
  <1> SUFFICES ASSUME IInv, NewLine, [Next]_vars PROVE NewLine'
    OBVIOUS
  <1>1. CASE UNCHANGED vars
    BY <1>1 DEF vars, tables, NewLine
  <1>2. CASE Hear
    <2>1. /\ nLines' = nLines + 1 /\ nLines' \in Ids /\ nLines \in Nat
          /\ todo' = [todo EXCEPT !["loop"] = Log(nLines')] /\ db' = db /\ disk' = disk
      BY <1>2, MemoryAssumption DEF Hear, Call, IInv, TypeOK, Ids
    <2>2. todo'["loop"] = Log(nLines') /\ \A u \in Panels : todo'[u] = todo[u]
      BY <2>1, MemoryAssumption DEF IInv, TypeOK, Thread
    <2>3. \A i \in Ids : i >= nLines' => i > nLines
      BY <2>1 DEF Ids
    <2>4. \A i \in Ids : i > nLines' => i >= nLines'
      BY <2>1 DEF Ids
    <2>5. QED
      BY <2>1, <2>2, <2>3, <2>4 DEF NewLine
  <1>3. CASE RpOn
    <2>1. Call("loop", <<>>) /\ nLines' = nLines
      BY <1>3 DEF RpOn
    <2>2. <<>> \in Seq(Quiet)
      OBVIOUS
    <2>3. QED
      BY <2>1, <2>2, QuietCall, LoopIsAThread DEF IInv
  <1>4. CASE RpOff
    <2>1. PICK lines \in SUBSET scene :
            Call("loop", IF lines = {} THEN <<>> ELSE SaveScene(lines))
      BY <1>4 DEF RpOff
    <2> DEFINE s == IF lines = {} THEN <<>> ELSE SaveScene(lines)
    <2>2. s \in Seq(Quiet)
      BY QuietMethods DEF IInv, TypeOK
    <2>3. QED
      BY <1>4, <2>1, <2>2, QuietCall, LoopIsAThread DEF RpOff, IInv
  <1>5. CASE SetRp
    BY <1>5 DEF SetRp, tables, NewLine
  <1>6. CASE Crash
    <2>1. \A t \in Thread : todo'[t] \in Seq(Quiet)
      <3>1. todo' = [t \in Thread |-> <<>>]
        BY <1>6 DEF Crash
      <3>2. <<>> \in Seq(Quiet)
        OBVIOUS
      <3>3. QED
        BY <3>1, <3>2
    <2>2. db' = disk /\ disk' = disk /\ nLines' = nLines
      BY <1>6 DEF Crash
    <2>3. QED
      BY <2>1, <2>2 DEF NewLine, Thread
  <1>7. QED
    BY <1>1, <1>2, <1>3, <1>4, <1>5, <1>6, OperateKeepsNewLine, StepKeepsNewLine DEF Next

LEMMA InitNewLine == Init => NewLine
  BY LoopIsAThread DEF Init, NewLine, Thread

\* Saving over a masked row, learning a masked rule again, logging, deleting:
\* nothing that any thread executes but an unmasking shows what is masked.
THEOREM MasksHold == Spec => MaskKept
  <1>1. ASSUME IInv, NewLine, NEW t \in Thread, Step(t), ~Unmasks(Head(todo[t]))
        PROVE  StillMasked(db, db')
    <2>1. Head(todo[t]) \in Statement
      BY <1>1, StepTakesTheHead DEF Step, IInv, TypeOK
    <2>2. CASE Head(todo[t]) = Commit
      BY <1>1, <2>2 DEF Step, StillMasked, IInv, TypeOK
    <2>3. CASE Head(todo[t]) # Commit
      <3>1. db' = Executed(db, Head(todo[t]))
        BY <1>1, <2>3 DEF Step
      <3>2. Head(todo[t]).op = "log" => db.events[Head(todo[t]).id] = Absent
        <4>1. CASE todo[t] \in Seq(Quiet)
          <5>1. Head(todo[t]) \in Quiet
            BY <1>1, <4>1, HeadTailProperties DEF Step
          <5>2. QED
            BY <5>1 DEF Quiet
        <4>2. CASE todo[t] = Log(nLines) /\ db.events[nLines] = Absent
          BY <4>2 DEF Log
        <4>3. QED
          BY <1>1, <4>1, <4>2 DEF NewLine, Thread
      <3>3. QED
        BY <1>1, <2>1, <2>3, <3>1, <3>2, ExecutedKeepsMasks DEF IInv, TypeOK, Absent
    <2>4. QED
      BY <2>2, <2>3
  <1>2. IInv /\ NewLine /\ [Next]_vars =>
          [\A t \in Thread :
             Step(t) /\ ~Unmasks(Head(todo[t])) =>
               /\ \A k \in Key : db.mem[k].masked => db'.mem[k].masked \/ db'.mem[k] = NoRow
               /\ \A i \in Ids : db.events[i] = "masked" => db'.events[i] # "plain"]_vars
    BY <1>1 DEF StillMasked
  <1>3. QED
    BY <1>2, InitNewLine, InitKeeps, NextKeeps, NextKeepsNewLine, PTL DEF Spec, MaskKept

-------------------------------------------------------------------------------
(* What a purge leaves *)

DeleteAll == [op |-> "deleteEvents"]
Save(k, lines) == [op |-> "remember", key |-> k, lines |-> lines]

\* The statements that save no scene.
Silent == {s \in Statement : s.op = "remember" => s.key \in Rules}

\* Line i is told of in a row under key k, in the tables, on disk or among what a
\* purge found.
Told(k, i) ==
  \/ i \in db.mem[k].of
  \/ i \in disk.mem[k].of
  \/ \E t \in Thread : i \in found[t].mem[k]

\* Lines whose scene may be saved under k as something that never was there.
Untold(k, lines) == \A i \in lines : i \in Ids /\ i <= nLines /\ ~Told(k, i)

\* A scene is saved once under each key: no line of the running scene, nor of the
\* one that is being saved, has been told of there.
ScenesNew ==
  /\ \A k \in Scene : Untold(k, scene)
  /\ \A k \in Scene, i \in Ids : Told(k, i) => i <= nLines
  /\ \A t \in Panels : todo[t] \in Seq(Silent)
  /\ \/ todo["loop"] \in Seq(Silent)
     \/ \E lines \in (SUBSET Ids) \ {{}} :
          /\ Untold("cast", lines) /\ lines \cap scene = {}
          /\ \/ todo["loop"] = SaveScene(lines) /\ Untold("summary", lines)
             \/ todo["loop"] = <<Commit, Save("cast", lines), Commit>>
             \/ todo["loop"] = <<Save("cast", lines), Commit>>

MemoryGone(t) == \A k \in Scene : found[t].mem[k] # {} => db.mem[k].of # found[t].mem[k]
EventsGone(t) == \A i \in found[t].events : db.events[i] = Absent

\* How far a purge has come.
Purging(t) ==
  \/ found[t] = NothingFound
  \/ todo[t] = PurgeScene
  \/ todo[t] \in {<<Commit, DeleteAll, Commit>>, <<DeleteAll, Commit>>} /\ MemoryGone(t)
  \/ todo[t] = <<Commit>> /\ MemoryGone(t) /\ EventsGone(t)

FoundOK ==
  /\ found \in [Thread -> [mem : [Key -> SUBSET Ids], events : SUBSET Ids]]
  /\ \A t \in Thread :
       /\ \A k \in Rules : found[t].mem[k] = {}
       /\ \A i \in found[t].events : i <= nLines /\ (todo["loop"] = Log(nLines) => i # nLines)

PurgeInv == FoundOK /\ ScenesNew /\ \A t \in Thread : Purging(t)

LEMMA TwoPairs ==
  ASSUME NEW a, NEW b, NEW c, NEW d
  PROVE  <<a, b>> \o <<c, d>> = <<a, b, c, d>>
  <1> DEFINE S == {a, b, c, d}
             r == <<a, b>> \o <<c, d>>
  <1>1. <<a, b>> \in Seq(S) /\ <<c, d>> \in Seq(S) /\ <<a, b, c, d>> \in Seq(S)
    OBVIOUS
  <1>2. /\ Len(<<a, b>>) = 2 /\ <<a, b>>[1] = a /\ <<a, b>>[2] = b
        /\ Len(<<c, d>>) = 2 /\ <<c, d>>[1] = c /\ <<c, d>>[2] = d
        /\ Len(<<a, b, c, d>>) = 4 /\ <<a, b, c, d>>[1] = a /\ <<a, b, c, d>>[2] = b
        /\ <<a, b, c, d>>[3] = c /\ <<a, b, c, d>>[4] = d
    OBVIOUS
  <1>3. r \in Seq(S) /\ Len(r) = 4 /\ r[1] = a /\ r[2] = b /\ r[3] = c /\ r[4] = d
    BY <1>1, <1>2, ConcatProperties
  <1> HIDE DEF r
  <1>4. \A i \in 1..4 : i = 1 \/ i = 2 \/ i = 3 \/ i = 4
    OBVIOUS
  <1>5. \A i \in 1..Len(r) : r[i] = <<a, b, c, d>>[i]
    BY <1>2, <1>3, <1>4
  <1>6. r = <<a, b, c, d>>
    BY <1>1, <1>2, <1>3, <1>5, SeqEqual
  <1>7. QED
    BY <1>6 DEF r

LEMMA PurgeSteps ==
  /\ PurgeScene = <<[op |-> "delete", keys |-> Scene], Commit, DeleteAll, Commit>>
  /\ \A lines : SaveScene(lines) = <<Save("summary", lines), Commit, Save("cast", lines), Commit>>
  <1>1. PurgeScene = <<[op |-> "delete", keys |-> Scene], Commit>> \o <<DeleteAll, Commit>>
    BY DEF PurgeScene, DeleteMemory, DeleteAll
  <1>2. \A lines : SaveScene(lines) = <<Save("summary", lines), Commit>> \o <<Save("cast", lines), Commit>>
    BY DEF SaveScene, Remember, Save
  <1>3. QED
    BY <1>1, <1>2, TwoPairs

LEMMA SilentPair ==
  ASSUME NEW s \in Silent
  PROVE  <<s, Commit>> \in Seq(Silent)
  <1>1. Commit \in Silent
    BY DEF Silent, Commit, Statement
  <1>2. QED
    BY <1>1

LEMMA SilentMethods ==
  /\ <<>> \in Seq(Silent)
  /\ \A id \in Ids : Log(id) \in Seq(Silent)
  /\ \A k \in Rules : Remember(k, {0}) \in Seq(Silent)
  /\ \A keys \in SUBSET Key, b \in BOOLEAN : MaskMemory(keys, b) \in Seq(Silent)
  /\ \A id \in Ids, b \in BOOLEAN : MaskEvent(id, b) \in Seq(Silent)
  /\ \A keys \in SUBSET Key : DeleteMemory(keys) \in Seq(Silent)
  /\ PurgeScene \in Seq(Silent)
  <1>1. \A id \in Ids : [op |-> "log", id |-> id] \in Silent
    BY DEF Statement, Silent
  <1>2. \A k \in Rules : [op |-> "remember", key |-> k, lines |-> {0}] \in Silent
    BY DEF Statement, Silent
  <1>3. \A keys \in SUBSET Key, b \in BOOLEAN : [op |-> "mask", keys |-> keys, b |-> b] \in Silent
    BY DEF Statement, Silent
  <1>4. \A id \in Ids, b \in BOOLEAN : [op |-> "maskEvent", id |-> id, b |-> b] \in Silent
    BY DEF Statement, Silent
  <1>5. \A keys \in SUBSET Key : [op |-> "delete", keys |-> keys] \in Silent
    BY DEF Statement, Silent
  <1>6. DeleteAll \in Silent
    BY DEF Statement, Silent, DeleteAll
  <1>7. PurgeScene \in Seq(Silent)
    BY <1>5, <1>6, SilentPair, ConcatProperties DEF PurgeScene, DeleteMemory, DeleteAll, Key
  <1>8. <<>> \in Seq(Silent)
    OBVIOUS
  <1>9. QED
    BY <1>1, <1>2, <1>3, <1>4, <1>5, <1>7, <1>8, SilentPair
       DEF Log, Remember, MaskMemory, MaskEvent, DeleteMemory

\* A silent statement leaves a row of the scene with its lines, or no row.
LEMMA SilentTells ==
  ASSUME NEW d, IsTables(d), NEW s \in Silent, s # Commit, NEW k \in Scene
  PROVE  Executed(d, s).mem[k].of \in {d.mem[k].of, {}}
  <1>1. d.mem \in [Key -> Row \cup Rule] /\ k \in Key /\ d = [mem |-> d.mem, events |-> d.events]
    BY KeysApart DEF IsTables
  <1>2. s.op \in {"log", "remember", "mask", "delete", "maskEvent", "deleteEvents"}
    BY DEF Silent, Statement
  <1>3. CASE s.op = "remember"
    <2>1. s.key # k
      BY <1>3, KeysApart DEF Silent
    <2>2. QED
      BY <1>1, <1>3, <2>1 DEF Executed, Upserted
  <1>4. CASE s.op = "mask"
    <2>1. Executed(d, s).mem[k] \in {d.mem[k], [d.mem[k] EXCEPT !.masked = s.b]}
      BY <1>1, <1>4 DEF Executed, Masked
    <2>2. [d.mem[k] EXCEPT !.masked = s.b].of = d.mem[k].of
      BY <1>1 DEF Row, Rule, NoRow
    <2>3. QED
      BY <2>1, <2>2
  <1>5. CASE s.op = "delete"
    <2>1. Executed(d, s).mem[k] \in {d.mem[k], NoRow}
      BY <1>1, <1>5 DEF Executed
    <2>2. QED
      BY <2>1 DEF NoRow
  <1>6. CASE s.op \in {"log", "maskEvent", "deleteEvents"}
    BY <1>1, <1>6 DEF Executed
  <1>7. QED
    BY <1>2, <1>3, <1>4, <1>5, <1>6

\* Saving a scene changes one row, and no event.
LEMMA SaveTells ==
  ASSUME NEW d, IsTables(d), NEW k \in Scene, NEW lines
  PROVE  LET e == Executed(d, Save(k, lines))
         IN  /\ e.events = d.events /\ e.mem[k].of = lines
             /\ \A j \in Key : j # k => e.mem[j] = d.mem[j]
  <1>1. d.mem \in [Key -> Row \cup Rule] /\ k \in Key /\ d = [mem |-> d.mem, events |-> d.events]
    BY KeysApart DEF IsTables
  <1>2. Executed(d, Save(k, lines)) = [d EXCEPT !.mem = Upserted(@, k, lines)]
    BY DEF Executed, Save
  <1>3. QED
    BY <1>1, <1>2 DEF Upserted

\* No statement but a log makes an event of an absent line.
LEMMA ExecutedAddsNoEvent ==
  ASSUME NEW d, IsTables(d), NEW s \in Statement, s # Commit, NEW i \in Ids, d.events[i] = Absent,
         s.op = "log" => s.id # i
  PROVE  Executed(d, s).events[i] = Absent
  <1>1. CASE s.op = "log"
    BY <1>1 DEF Executed, IsTables
  <1>2. CASE s.op # "log"
    <2>1. s \in Quiet
      BY <1>2 DEF Quiet
    <2>2. QED
      BY <2>1, QuietAddsNoEvent
  <1>3. QED
    BY <1>1, <1>2

\* What tells of no more lines keeps what is to be saved new.
LEMMA UntoldKept ==
  ASSUME NEW k \in Scene, NEW lines, Untold(k, lines), nLines \in Nat, nLines' \in Nat, nLines <= nLines',
         \A i \in Ids : Told(k, i)' => Told(k, i)
  PROVE  Untold(k, lines)'
  BY DEF Untold, Ids

LEMMA QuietIsNoLog ==
  ASSUME NEW s \in Seq(Quiet)
  PROVE  s # Log(nLines)
  <1>1. s # <<>> => Head(s) \in Quiet
    BY HeadTailProperties
  <1>2. Log(nLines) # <<>> /\ Head(Log(nLines)).op = "log"
    BY DEF Log
  <1>3. QED
    BY <1>1, <1>2 DEF Quiet

\* A thread between methods is in no purge.
LEMMA IdleFoundNothing ==
  ASSUME PurgeInv, NEW t \in Thread, todo[t] = <<>>
  PROVE  found[t] = NothingFound
  <1>1. /\ PurgeScene # <<>> /\ <<Commit, DeleteAll, Commit>> # <<>>
        /\ <<DeleteAll, Commit>> # <<>> /\ <<Commit>> # <<>>
    BY PurgeSteps
  <1>2. QED
    BY <1>1 DEF PurgeInv, Purging

\* A thread enters a method that saves no scene.
LEMMA PurgeInvCall ==
  ASSUME IInv, PurgeInv, NEW t \in Thread, NEW s \in Seq(Silent), Call(t, s), s # Log(nLines),
         UNCHANGED <<scene, nLines, found>>
  PROVE  PurgeInv'
  <1>1. todo[t] = <<>> /\ todo' = [todo EXCEPT ![t] = s] /\ db' = db /\ disk' = disk
    BY DEF Call
  <1>2. todo'[t] = s /\ \A u \in Thread : u # t => todo'[u] = todo[u]
    BY <1>1 DEF IInv, TypeOK
  <1>3. FoundOK'
    <2>1. todo'["loop"] = Log(nLines) => todo["loop"] = Log(nLines)
      BY <1>2, LoopIsAThread
    <2>2. QED
      BY <1>1, <2>1 DEF PurgeInv, FoundOK
  <1>4. ScenesNew'
    <2>1. \A k, i : Told(k, i)' <=> Told(k, i)
      BY <1>1 DEF Told
    <2>2. \A k, lines : Untold(k, lines)' <=> Untold(k, lines)
      BY <2>1 DEF Untold
    <2>3. \A u \in Panels : todo'[u] \in Seq(Silent)
      BY <1>2 DEF PurgeInv, ScenesNew, Thread
    <2>4. \/ todo'["loop"] \in Seq(Silent)
          \/ todo'["loop"] = todo["loop"]
      BY <1>2, LoopIsAThread
    <2>5. QED
      BY <2>1, <2>2, <2>3, <2>4 DEF PurgeInv, ScenesNew
  <1>5. ASSUME NEW u \in Thread PROVE Purging(u)'
    <2>1. CASE u # t
      BY <1>1, <1>2, <2>1 DEF PurgeInv, Purging, MemoryGone, EventsGone
    <2>2. CASE u = t
      <3>2. found[t] = NothingFound
        BY <1>1, IdleFoundNothing
      <3>3. NothingFound' = NothingFound
        BY DEF NothingFound
      <3>4. QED
        BY <2>2, <3>2, <3>3 DEF Purging
    <2>3. QED
      BY <2>1, <2>2
  <1>6. QED
    BY <1>3, <1>4, <1>5 DEF PurgeInv

\* A purge begins: it finds what the tables tell.
LEMMA PurgeInvPurge ==
  ASSUME IInv, NewLine, PurgeInv, NEW t \in Thread, Purge(t), UNCHANGED <<scene, nLines>>
  PROVE  PurgeInv'
  <1> DEFINE f == [mem |-> [k \in Key |-> IF k \in Scene THEN db.mem[k].of ELSE {}],
                   events |-> {i \in Ids : db.events[i] # Absent}]
  <1>1. /\ todo[t] = <<>> /\ todo' = [todo EXCEPT ![t] = PurgeScene] /\ db' = db /\ disk' = disk
        /\ found' = [found EXCEPT ![t] = f]
    BY DEF Purge, Call
  <1>2. todo'[t] = PurgeScene /\ \A u \in Thread : u # t => todo'[u] = todo[u]
    BY <1>1 DEF IInv, TypeOK
  <1>3. \A k \in Scene : k \in Key /\ db.mem[k].of \in SUBSET Ids
    <2>1. \A k \in Scene : db.mem[k] \in Row /\ k \in Key
      BY KeysApart DEF IInv, TypeOK, IsTables
    <2>2. \A r \in Row : r.of \in SUBSET Ids
      BY DEF Row, NoRow
    <2>3. QED
      BY <2>1, <2>2
  <1>4. f \in [mem : [Key -> SUBSET Ids], events : SUBSET Ids]
    BY <1>3
  <1>5. /\ \A k \in Scene : f.mem[k] = db.mem[k].of
        /\ \A k \in Rules : f.mem[k] = {}
        /\ f.events = {i \in Ids : db.events[i] # Absent}
    BY <1>3, KeysApart
  <1>6. found'[t] = f /\ \A u \in Thread : u # t => found'[u] = found[u]
    BY <1>1 DEF PurgeInv, FoundOK
  <1> HIDE DEF f
  <1>7. FoundOK'
    <2>1. found' \in [Thread -> [mem : [Key -> SUBSET Ids], events : SUBSET Ids]]
      BY <1>1, <1>4 DEF PurgeInv, FoundOK
    <2>2. todo'["loop"] = Log(nLines) => todo["loop"] = Log(nLines)
      <3>1. PurgeScene # Log(nLines)
        BY QuietMethods, QuietIsNoLog
      <3>2. QED
        BY <1>2, <3>1, LoopIsAThread
    <2>3. ASSUME NEW i \in f.events PROVE i <= nLines /\ (todo["loop"] = Log(nLines) => i # nLines)
      <3>1. i \in Ids /\ db.events[i] # Absent
        BY <1>5
      <3>2. nLines \in Nat /\ i \in Nat /\ ~(i > nLines)
        BY <3>1, MemoryAssumption DEF NewLine, IInv, TypeOK, Ids
      <3>3. todo["loop"] \in Seq(Quiet) => todo["loop"] # Log(nLines)
        BY QuietIsNoLog
      <3>4. QED
        BY <3>1, <3>2, <3>3 DEF NewLine
    <2>4. QED
      BY <1>1, <1>5, <1>6, <2>1, <2>2, <2>3 DEF PurgeInv, FoundOK
  <1>8. \A k \in Scene, i \in Ids : Told(k, i)' => Told(k, i)
    BY <1>1, <1>5, <1>6 DEF Told
  <1>9. nLines \in Nat /\ nLines' \in Nat /\ nLines <= nLines'
    BY MemoryAssumption DEF IInv, TypeOK
  <1>10. \A k \in Scene : \A lines : Untold(k, lines) => Untold(k, lines)'
    BY <1>8, <1>9, UntoldKept
  <1>11. ScenesNew'
    <2>1. \A u \in Panels : todo'[u] \in Seq(Silent)
      BY <1>2, SilentMethods DEF PurgeInv, ScenesNew, Thread
    <2>2. \/ todo'["loop"] \in Seq(Silent)
          \/ todo'["loop"] = todo["loop"]
      BY <1>2, SilentMethods, LoopIsAThread
    <2>3. "cast" \in Scene /\ "summary" \in Scene
      BY DEF Scene
    <2>4. QED
      BY <1>8, <1>10, <2>1, <2>2, <2>3 DEF PurgeInv, ScenesNew
  <1>12. ASSUME NEW u \in Thread PROVE Purging(u)'
    <2>1. CASE u # t
      <3>1. found'[u] = found[u] /\ todo'[u] = todo[u] /\ db' = db
        BY <1>1, <1>2, <1>6, <2>1
      <3>2. (MemoryGone(u)' <=> MemoryGone(u)) /\ (EventsGone(u)' <=> EventsGone(u))
        BY <3>1 DEF MemoryGone, EventsGone
      <3>3. Purging(u)
        BY DEF PurgeInv
      <3>4. QED
        BY <3>1, <3>2, <3>3 DEF Purging, NothingFound
    <2>2. CASE u = t
      BY <1>2, <2>2 DEF Purging
    <2>3. QED
      BY <2>1, <2>2
  <1>13. QED
    BY <1>7, <1>11, <1>12 DEF PurgeInv

LEMMA PurgeInvOperate ==
  ASSUME IInv, NewLine, PurgeInv, Operate
  PROVE  PurgeInv'
  <1>1. UNCHANGED <<scene, nLines>>
    BY DEF Operate, room
  <1>2. ASSUME NEW t \in Thread, NEW s \in Seq(Silent), s \in Seq(Quiet), Call(t, s), UNCHANGED found
        PROVE  PurgeInv'
    BY <1>1, <1>2, PurgeInvCall, QuietIsNoLog
  <1>3. Scene \in SUBSET Key /\ Rules \in SUBSET Key /\ \A keys \in Groups : keys \in SUBSET Key
    BY KeysApart DEF Groups
  <1>4. CASE ClearRules
    BY <1>2, <1>3, <1>4, QuietMethods, SilentMethods, LoopIsAThread DEF ClearRules
  <1>5. ASSUME NEW r \in Rules, Learn(r)
        PROVE  PurgeInv'
    BY <1>2, <1>5, QuietMethods, SilentMethods, LoopIsAThread DEF Learn
  <1>6. ASSUME NEW t \in Thread, Surgery(t)
        PROVE  PurgeInv'
    <2>1. ASSUME NEW keys \in Groups, NEW b \in BOOLEAN, Mask(t, keys, b)
          PROVE  PurgeInv'
      BY <1>2, <1>3, <2>1, QuietMethods, SilentMethods DEF Mask
    <2>2. ASSUME NEW id \in Ids, NEW b \in BOOLEAN, MaskLine(t, id, b)
          PROVE  PurgeInv'
      BY <1>2, <2>2, QuietMethods, SilentMethods DEF MaskLine
    <2>3. ASSUME NEW keys \in Groups, Delete(t, keys)
          PROVE  PurgeInv'
      BY <1>2, <1>3, <2>3, QuietMethods, SilentMethods DEF Delete
    <2>4. CASE Purge(t)
      BY <1>1, <2>4, PurgeInvPurge
    <2>5. QED
      BY <1>6, <2>1, <2>2, <2>3, <2>4 DEF Surgery
  <1>7. QED
    BY <1>4, <1>5, <1>6 DEF Operate

\* What the loop does between its methods.
LEMMA PurgeInvHear ==
  ASSUME IInv, NewLine, PurgeInv, Hear
  PROVE  PurgeInv'
  <1>1. /\ nLines' = nLines + 1 /\ nLines' \in Ids /\ nLines \in Nat
        /\ todo["loop"] = <<>> /\ todo' = [todo EXCEPT !["loop"] = Log(nLines')]
        /\ db' = db /\ disk' = disk /\ found' = found
        /\ scene' \in {scene, scene \cup {nLines'}}
    BY MemoryAssumption DEF Hear, Call, IInv, TypeOK, Ids
  <1>2. todo'["loop"] = Log(nLines') /\ \A u \in Thread : u # "loop" => todo'[u] = todo[u]
    BY <1>1, LoopIsAThread DEF IInv, TypeOK
  <1>3. \A i \in Ids : i <= nLines => i <= nLines' /\ i # nLines'
    BY <1>1 DEF Ids
  <1>4. FoundOK'
    <2>1. \A t \in Thread : found[t].events \subseteq Ids
      BY DEF PurgeInv, FoundOK
    <2>2. QED
      BY <1>1, <1>3, <2>1 DEF PurgeInv, FoundOK
  <1>5. \A k, i : Told(k, i)' <=> Told(k, i)
    BY <1>1 DEF Told
  <1>6. ScenesNew'
    <2>1. ASSUME NEW k \in Scene, NEW i \in scene' PROVE i \in Ids /\ i <= nLines' /\ ~Told(k, i)
      <3>1. CASE i \in scene
        BY <1>3, <3>1 DEF PurgeInv, ScenesNew, Untold
      <3>2. CASE i = nLines'
        <4>1. ~(i <= nLines) /\ i <= nLines' /\ i \in Ids
          BY <1>1, <3>2
        <4>2. QED
          BY <4>1 DEF PurgeInv, ScenesNew
      <3>3. QED
        BY <1>1, <3>1, <3>2
    <2>2. \A k \in Scene : Untold(k, scene)'
      BY <1>5, <2>1 DEF Untold
    <2>3. \A k \in Scene, i \in Ids : Told(k, i)' => i <= nLines'
      BY <1>3, <1>5 DEF PurgeInv, ScenesNew
    <2>4. \A u \in Panels : todo'[u] \in Seq(Silent)
      BY <1>2, MemoryAssumption DEF PurgeInv, ScenesNew, Thread
    <2>5. todo'["loop"] \in Seq(Silent)
      BY <1>1, <1>2, SilentMethods
    <2>6. QED
      BY <2>2, <2>3, <2>4, <2>5 DEF ScenesNew
  <1>7. ASSUME NEW u \in Thread PROVE Purging(u)'
    <2>1. (MemoryGone(u)' <=> MemoryGone(u)) /\ (EventsGone(u)' <=> EventsGone(u))
      BY <1>1 DEF MemoryGone, EventsGone
    <2>2. CASE u # "loop"
      <3>1. todo'[u] = todo[u] /\ found'[u] = found[u] /\ Purging(u)
        BY <1>1, <1>2, <2>2 DEF PurgeInv
      <3>2. QED
        BY <2>1, <3>1 DEF Purging, NothingFound
    <2>3. CASE u = "loop"
      <3>1. found[u] = NothingFound
        BY <1>1, <2>3, IdleFoundNothing
      <3>2. QED
        BY <1>1, <3>1 DEF Purging, NothingFound
    <2>4. QED
      BY <2>2, <2>3
  <1>8. QED
    BY <1>4, <1>6, <1>7 DEF PurgeInv

LEMMA PurgeInvRpOff ==
  ASSUME IInv, PurgeInv, RpOff
  PROVE  PurgeInv'
  <1>1. PICK lines \in SUBSET scene :
          Call("loop", IF lines = {} THEN <<>> ELSE SaveScene(lines))
    BY DEF RpOff
  <1>2. scene' = {} /\ nLines' = nLines /\ found' = found
    BY DEF RpOff
  <1>3. CASE lines = {}
    <2>1. Call("loop", <<>>) /\ <<>> \in Seq(Silent) /\ <<>> # Log(nLines)
      BY <1>1, <1>3, SilentMethods DEF Log
    <2>2. todo["loop"] = <<>> /\ todo' = [todo EXCEPT !["loop"] = <<>>] /\ db' = db /\ disk' = disk
      BY <2>1 DEF Call
    <2>3. todo' = todo
      BY <2>2, LoopIsAThread DEF IInv, TypeOK
    <2>4. \A k, i : Told(k, i)' <=> Told(k, i)
      BY <1>2, <2>2 DEF Told
    <2>5. \A k, s : Untold(k, s)' <=> Untold(k, s)
      BY <1>2, <2>4 DEF Untold
    <2>6. \A k \in Scene : Untold(k, {})
      BY DEF Untold
    <2>7. ScenesNew'
      BY <1>2, <2>3, <2>4, <2>5, <2>6 DEF PurgeInv, ScenesNew
    <2>8. FoundOK' /\ \A t \in Thread : Purging(t)'
      BY <1>2, <2>2, <2>3 DEF PurgeInv, FoundOK, Purging, MemoryGone, EventsGone, NothingFound
    <2>9. QED
      BY <2>7, <2>8 DEF PurgeInv
  <1>4. CASE lines # {}
    <2>1. /\ todo["loop"] = <<>> /\ todo' = [todo EXCEPT !["loop"] = SaveScene(lines)]
          /\ db' = db /\ disk' = disk
      BY <1>1, <1>4 DEF Call
    <2>2. todo'["loop"] = SaveScene(lines) /\ \A u \in Thread : u # "loop" => todo'[u] = todo[u]
      BY <2>1, LoopIsAThread DEF IInv, TypeOK
    <2>3. lines \in (SUBSET Ids) \ {{}}
      BY <1>4 DEF IInv, TypeOK
    <2>4. \A k, i : Told(k, i)' <=> Told(k, i)
      BY <1>2, <2>1 DEF Told
    <2>5. \A k, s : Untold(k, s)' <=> Untold(k, s)
      BY <1>2, <2>4 DEF Untold
    <2>6. \A k \in Scene : Untold(k, {}) /\ Untold(k, lines)
      BY DEF PurgeInv, ScenesNew, Untold
    <2>7. ScenesNew'
      <3>1. \A u \in Panels : todo'[u] \in Seq(Silent)
        BY <2>2, MemoryAssumption DEF PurgeInv, ScenesNew, Thread
      <3>2. \A k \in Scene, i \in Ids : Told(k, i)' => i <= nLines'
        BY <1>2, <2>4 DEF PurgeInv, ScenesNew
      <3>3. lines \cap scene' = {} /\ "cast" \in Scene /\ "summary" \in Scene
        BY <1>2 DEF Scene
      <3>4. QED
        BY <1>2, <2>2, <2>3, <2>5, <2>6, <3>1, <3>2, <3>3 DEF ScenesNew
    <2>8. FoundOK'
      <3>1. SaveScene(lines) # Log(nLines)
        BY <2>3, QuietMethods, QuietIsNoLog
      <3>2. QED
        BY <1>2, <2>2, <3>1 DEF PurgeInv, FoundOK
    <2>9. ASSUME NEW u \in Thread PROVE Purging(u)'
      <3>1. (MemoryGone(u)' <=> MemoryGone(u)) /\ (EventsGone(u)' <=> EventsGone(u))
        BY <1>2, <2>1 DEF MemoryGone, EventsGone
      <3>2. CASE u # "loop"
        <4>1. todo'[u] = todo[u] /\ found'[u] = found[u] /\ Purging(u)
          BY <1>2, <2>2, <3>2 DEF PurgeInv
        <4>2. QED
          BY <3>1, <4>1 DEF Purging, NothingFound
      <3>3. CASE u = "loop"
        <4>1. found[u] = NothingFound
          BY <2>1, <3>3, IdleFoundNothing
        <4>2. QED
          BY <1>2, <4>1 DEF Purging, NothingFound
      <3>4. QED
        BY <3>2, <3>3
    <2>10. QED
      BY <2>7, <2>8, <2>9 DEF PurgeInv
  <1>5. QED
    BY <1>3, <1>4

LEMMA PurgeInvCrash ==
  ASSUME IInv, PurgeInv, Crash
  PROVE  PurgeInv'
  <1>1. /\ db' = disk /\ disk' = disk /\ scene' = {} /\ nLines' = nLines
        /\ todo' = [t \in Thread |-> <<>>] /\ found' = [t \in Thread |-> NothingFound]
    BY DEF Crash
  <1>2. /\ NothingFound \in [mem : [Key -> SUBSET Ids], events : SUBSET Ids]
        /\ NothingFound.events = {} /\ \A k \in Key : NothingFound.mem[k] = {}
    BY DEF NothingFound
  <1>3. \A k \in Scene \cup Rules : k \in Key
    BY KeysApart
  <1>4. FoundOK'
    BY <1>1, <1>2, <1>3 DEF FoundOK
  <1>5. \A k \in Scene, i \in Ids : Told(k, i)' => Told(k, i)
    BY <1>1, <1>2, <1>3 DEF Told
  <1>6. ScenesNew'
    <2>1. \A k \in Scene : Untold(k, scene)'
      BY <1>1 DEF Untold
    <2>2. \A u \in Thread : todo'[u] \in Seq(Silent)
      BY <1>1, SilentMethods
    <2>3. QED
      BY <1>1, <1>5, <2>1, <2>2, LoopIsAThread DEF PurgeInv, ScenesNew, Thread
  <1>7. \A u \in Thread : Purging(u)'
    BY <1>1 DEF Purging, NothingFound
  <1>8. QED
    BY <1>4, <1>6, <1>7 DEF PurgeInv

\* What a step of a thread does to the rows of the scene: they stay, or go, or tell
\* of a scene that was told of nowhere.
LEMMA StepTells ==
  ASSUME IInv, PurgeInv, NEW t \in Thread, Step(t), NEW k \in Scene
  PROVE  \/ db'.mem[k].of \in {db.mem[k].of, {}}
         \/ \E lines \in (SUBSET Ids) \ {{}} :
              /\ t = "loop" /\ Head(todo[t]) = Save(k, lines)
              /\ db'.mem[k].of = lines /\ Untold(k, lines)
  <1> DEFINE s == todo[t]
             StaysOrGoes == db'.mem[k].of \in {db.mem[k].of, {}}
             IsNew == \E lines \in (SUBSET Ids) \ {{}} :
                        /\ t = "loop" /\ Head(s) = Save(k, lines)
                        /\ db'.mem[k].of = lines /\ Untold(k, lines)
  <1>1. s # <<>> /\ IsTables(db)
    BY DEF Step, IInv, TypeOK
  <1>2. CASE Head(s) = Commit
    BY <1>2 DEF Step
  <1>3. CASE s \in Seq(Silent) /\ Head(s) # Commit
    <2>1. Head(s) \in Silent
      BY <1>1, <1>3, HeadTailProperties
    <2>2. db' = Executed(db, Head(s))
      BY <1>3 DEF Step
    <2>3. QED
      BY <1>1, <1>3, <2>1, <2>2, SilentTells
  <1>4. ASSUME NEW lines \in (SUBSET Ids) \ {{}}, NEW j \in Scene, t = "loop", Head(s) = Save(j, lines),
               Untold(j, lines)
        PROVE  StaysOrGoes \/ IsNew
    <2>1. db' = Executed(db, Save(j, lines))
      BY <1>4 DEF Step, Save, Commit
    <2>2. k \in Key
      BY KeysApart
    <2>3. CASE j = k
      BY <1>1, <1>4, <2>1, <2>3, SaveTells
    <2>4. CASE j # k
      <3>1. db'.mem[k] = db.mem[k]
        BY <1>1, <2>1, <2>2, <2>4, SaveTells
      <3>2. QED
        BY <3>1
    <2>5. QED
      BY <2>3, <2>4
  <1>5. \/ s \in Seq(Silent)
        \/ Head(s) = Commit
        \/ \E lines \in (SUBSET Ids) \ {{}}, j \in Scene :
             t = "loop" /\ Head(s) = Save(j, lines) /\ Untold(j, lines)
    <2>1. CASE t \in Panels
      BY <2>1 DEF PurgeInv, ScenesNew
    <2>2. CASE t = "loop"
      <3>1. ASSUME NEW lines \in (SUBSET Ids) \ {{}}, s = SaveScene(lines), Untold("summary", lines)
            PROVE  Head(s) = Save("summary", lines) /\ "summary" \in Scene
        BY <3>1, PurgeSteps DEF Scene
      <3>2. ASSUME NEW lines \in (SUBSET Ids) \ {{}}, s = <<Commit, Save("cast", lines), Commit>>
            PROVE  Head(s) = Commit
        BY <3>2
      <3>3. ASSUME NEW lines \in (SUBSET Ids) \ {{}}, s = <<Save("cast", lines), Commit>>
            PROVE  Head(s) = Save("cast", lines) /\ "cast" \in Scene
        BY <3>3 DEF Scene
      <3>4. QED
        BY <2>2, <3>1, <3>2, <3>3 DEF PurgeInv, ScenesNew
    <2>3. QED
      BY <2>1, <2>2 DEF Thread
  <1>6. QED
    BY <1>2, <1>3, <1>4, <1>5

\* What a purge found gone stays gone.
LEMMA GoneForGood ==
  ASSUME IInv, NewLine, PurgeInv, NEW t \in Thread, Step(t), NEW u \in Thread
  PROVE  /\ \A k \in Scene : found[u].mem[k] # {} /\ db.mem[k].of # found[u].mem[k]
                               => db'.mem[k].of # found[u].mem[k]
         /\ \A i \in found[u].events : db.events[i] = Absent => db'.events[i] = Absent
  <1>1. ASSUME NEW k \in Scene, found[u].mem[k] # {}, db.mem[k].of # found[u].mem[k]
        PROVE  db'.mem[k].of # found[u].mem[k]
    <2>1. CASE db'.mem[k].of \in {db.mem[k].of, {}}
      BY <1>1, <2>1
    <2>2. ASSUME NEW lines \in (SUBSET Ids) \ {{}}, db'.mem[k].of = lines, Untold(k, lines)
          PROVE  db'.mem[k].of # found[u].mem[k]
      <3>1. PICK i \in lines : TRUE
        BY <2>2
      <3>2. i \notin found[u].mem[k]
        BY <2>2, <3>1 DEF Untold, Told
      <3>3. QED
        BY <2>2, <3>1, <3>2
    <2>3. QED
      BY <2>1, <2>2, StepTells
  <1>2. ASSUME NEW i \in found[u].events, db.events[i] = Absent
        PROVE  db'.events[i] = Absent
    <2> DEFINE h == Head(todo[t])
    <2>1. i \in Ids
      BY DEF PurgeInv, FoundOK
    <2>2. CASE h = Commit
      BY <1>2, <2>2 DEF Step
    <2>3. CASE h # Commit
      <3>1. h \in Statement /\ db' = Executed(db, h) /\ todo[t] # <<>>
        BY <2>3, StepTakesTheHead DEF Step, IInv, TypeOK
      <3>2. h.op = "log" => h.id # i
        <4>1. CASE todo[t] \in Seq(Quiet)
          <5>1. h \in Quiet
            BY <3>1, <4>1, HeadTailProperties
          <5>2. QED
            BY <5>1 DEF Quiet
        <4>2. CASE t = "loop" /\ todo[t] = Log(nLines)
          <5>1. h.id = nLines
            BY <4>2 DEF Log
          <5>2. i # nLines
            BY <4>2 DEF PurgeInv, FoundOK
          <5>3. QED
            BY <5>1, <5>2
        <4>3. QED
          BY <4>1, <4>2 DEF NewLine, Thread
      <3>3. QED
        BY <1>2, <2>1, <2>3, <3>1, <3>2, ExecutedAddsNoEvent DEF IInv, TypeOK
    <2>4. QED
      BY <2>2, <2>3
  <1>3. QED
    BY <1>1, <1>2

\* How a step changes what it does not execute.
LEMMA StepFrame ==
  ASSUME IInv, PurgeInv, NEW t \in Thread, Step(t)
  PROVE  /\ todo[t] # <<>> /\ todo'[t] = Tail(todo[t])
         /\ \A u \in Thread : u # t => todo'[u] = todo[u] /\ found'[u] = found[u]
         /\ found'[t] = (IF Len(todo[t]) = 1 THEN NothingFound ELSE found[t])
         /\ found' \in [Thread -> [mem : [Key -> SUBSET Ids], events : SUBSET Ids]]
         /\ scene' = scene /\ nLines' = nLines
  <1>1. /\ todo[t] # <<>> /\ todo' = [todo EXCEPT ![t] = Tail(@)]
        /\ found' = IF Len(todo[t]) = 1 THEN [found EXCEPT ![t] = NothingFound] ELSE found
        /\ scene' = scene /\ nLines' = nLines
    BY DEF Step, room
  <1>2. NothingFound \in [mem : [Key -> SUBSET Ids], events : SUBSET Ids]
    BY DEF NothingFound
  <1>3. /\ todo \in [Thread -> Seq(Statement)]
        /\ found \in [Thread -> [mem : [Key -> SUBSET Ids], events : SUBSET Ids]]
    BY DEF IInv, TypeOK, PurgeInv, FoundOK
  <1>4. QED
    BY <1>1, <1>2, <1>3

LEMMA FoundStep ==
  ASSUME IInv, NewLine, PurgeInv, NEW t \in Thread, Step(t)
  PROVE  FoundOK'
  <1>1. /\ todo[t] # <<>> /\ todo'[t] = Tail(todo[t])
        /\ \A u \in Thread : u # t => todo'[u] = todo[u] /\ found'[u] = found[u]
        /\ found'[t] = (IF Len(todo[t]) = 1 THEN NothingFound ELSE found[t])
        /\ found' \in [Thread -> [mem : [Key -> SUBSET Ids], events : SUBSET Ids]]
        /\ scene' = scene /\ nLines' = nLines
    BY StepFrame
  <1>2. todo'["loop"] = Log(nLines) => todo["loop"] = Log(nLines)
    <2>1. CASE t = "loop" /\ todo[t] \in Seq(Quiet)
      <3>1. Tail(todo[t]) \in Seq(Quiet)
        BY <1>1, <2>1, HeadTailProperties
      <3>2. QED
        BY <1>1, <2>1, <3>1, QuietIsNoLog
    <2>2. CASE t = "loop" /\ todo[t] = Log(nLines)
      BY <2>2
    <2>3. CASE t # "loop"
      BY <1>1, <2>3, LoopIsAThread
    <2>4. QED
      BY <2>1, <2>2, <2>3 DEF NewLine
  <1>3. NothingFound.events = {} /\ \A k \in Rules : NothingFound.mem[k] = {}
    BY KeysApart DEF NothingFound
  <1>4. ASSUME NEW u \in Thread
        PROVE  /\ \A k \in Rules : found'[u].mem[k] = {}
               /\ \A i \in found'[u].events : i <= nLines /\ (todo["loop"] = Log(nLines) => i # nLines)
    <2>1. found'[u] \in {found[u], NothingFound}
      BY <1>1
    <2>2. QED
      BY <1>3, <2>1 DEF PurgeInv, FoundOK
  <1>5. QED
    BY <1>1, <1>2, <1>4 DEF FoundOK

LEMMA ScenesStep ==
  ASSUME IInv, NewLine, PurgeInv, NEW t \in Thread, Step(t)
  PROVE  ScenesNew'
  <1> DEFINE s == todo[t]
  <1>1. /\ s # <<>> /\ todo'[t] = Tail(s)
        /\ \A u \in Thread : u # t => todo'[u] = todo[u] /\ found'[u] = found[u]
        /\ found'[t] = (IF Len(s) = 1 THEN NothingFound ELSE found[t])
        /\ scene' = scene /\ nLines' = nLines
    BY StepFrame
  <1>2. nLines \in Nat /\ \A k \in Scene : k \in Key
    BY KeysApart, MemoryAssumption DEF IInv, TypeOK
  <1>3. \A u \in Thread, k \in Scene : found'[u].mem[k] \subseteq found[u].mem[k]
    BY <1>1, <1>2 DEF NothingFound
  <1>4. ASSUME NEW k \in Scene, NEW i \in Ids, Told(k, i)'
        PROVE  \/ Told(k, i)
               \/ \E lines \in (SUBSET Ids) \ {{}} :
                    /\ t = "loop" /\ Head(s) = Save(k, lines) /\ Untold(k, lines)
                    /\ i \in lines
    <2>1. CASE i \in db'.mem[k].of
      BY <2>1, StepTells DEF Told
    <2>2. CASE i \in disk'.mem[k].of
      BY <2>2 DEF Step, Told
    <2>3. CASE \E u \in Thread : i \in found'[u].mem[k]
      BY <1>3, <2>3 DEF Told
    <2>4. QED
      BY <1>4, <2>1, <2>2, <2>3 DEF Told
  <1>5. \A k \in Scene, i \in Ids : Told(k, i)' => i <= nLines'
    BY <1>1, <1>4 DEF PurgeInv, ScenesNew, Untold
  <1>6. ASSUME NEW k \in Scene, NEW lines, Untold(k, lines),
               \A new \in (SUBSET Ids) \ {{}} : Head(s) = Save(k, new) /\ t = "loop" => new \cap lines = {}
        PROVE  Untold(k, lines)'
    <2>1. ASSUME NEW i \in lines PROVE i \in Ids /\ i <= nLines' /\ ~Told(k, i)'
      <3>1. i \in Ids /\ i <= nLines /\ ~Told(k, i)
        BY <1>6 DEF Untold
      <3>2. QED
        BY <1>1, <1>4, <1>6, <3>1
    <2>2. Ids' = Ids
      BY DEF Ids
    <2>3. QED
      BY <2>1, <2>2 DEF Untold
  <1>7. \A u \in Panels : todo'[u] \in Seq(Silent)
    <2>1. ASSUME NEW u \in Panels PROVE todo'[u] \in Seq(Silent)
      <3>1. todo[u] \in Seq(Silent) /\ u \in Thread
        BY DEF PurgeInv, ScenesNew, Thread
      <3>2. CASE u = t
        BY <1>1, <3>1, <3>2, HeadTailProperties
      <3>3. QED
        BY <1>1, <3>1, <3>2
    <2>2. QED
      BY <2>1
  <1>8. "summary" \in Scene /\ "cast" \in Scene
    BY DEF Scene
  <1>9. \A k \in Scene : \A new : \A j, lines : Save(k, new) = Save(j, lines) => j = k /\ lines = new
    BY DEF Save
  <1>10. CASE t # "loop" \/ s \in Seq(Silent) \/ Head(s) = Commit
    <2>1. ~\E k \in Scene, new \in (SUBSET Ids) \ {{}} : Head(s) = Save(k, new) /\ t = "loop"
      <3>1. s \in Seq(Silent) => Head(s) \in Silent
        BY <1>1, HeadTailProperties
      <3>2. \A k \in Scene : \A new : Save(k, new) \notin Silent /\ Save(k, new) # Commit
        BY KeysApart DEF Silent, Save, Commit
      <3>3. QED
        BY <1>10, <3>1, <3>2
    <2>2. \A k \in Scene : \A lines : Untold(k, lines) => Untold(k, lines)'
      BY <1>6, <2>1
    <2>3. CASE todo["loop"] \in Seq(Silent)
      <3>1. todo'["loop"] \in Seq(Silent)
        <4>1. CASE t = "loop"
          BY <1>1, <2>3, <4>1, HeadTailProperties
        <4>2. QED
          BY <1>1, <2>3, <4>1, LoopIsAThread
      <3>2. QED
        BY <1>1, <1>5, <1>7, <2>2, <3>1 DEF PurgeInv, ScenesNew
    <2>4. CASE t # "loop"
      <3>1. todo'["loop"] = todo["loop"]
        BY <1>1, <2>4, LoopIsAThread
      <3>2. QED
        BY <1>1, <1>5, <1>7, <1>8, <2>2, <3>1 DEF PurgeInv, ScenesNew
    <2>5. ASSUME t = "loop", NEW lines \in (SUBSET Ids) \ {{}}, Untold("cast", lines), lines \cap scene = {},
                 s = <<Commit, Save("cast", lines), Commit>>
          PROVE  ScenesNew'
      <3>1. todo'["loop"] = <<Save("cast", lines), Commit>>
        BY <1>1, <2>5
      <3>2. QED
        BY <1>1, <1>5, <1>7, <1>8, <2>2, <2>5, <3>1 DEF PurgeInv, ScenesNew
    <2>6. ASSUME NEW lines, s = SaveScene(lines) \/ s = <<Save("cast", lines), Commit>>
          PROVE  \E k \in Scene : Head(s) = Save(k, lines)
      BY <1>8, <2>6, PurgeSteps
    <2>7. QED
      BY <2>1, <2>3, <2>4, <2>5, <2>6 DEF PurgeInv, ScenesNew
  <1>11. ASSUME t = "loop", NEW lines \in (SUBSET Ids) \ {{}}, NEW j \in Scene, lines \cap scene = {},
                Head(s) = Save(j, lines)
         PROVE  \A k \in Scene : Untold(k, scene)'
    <2>1. ASSUME NEW k \in Scene PROVE Untold(k, scene)'
      <3>1. Untold(k, scene)
        BY DEF PurgeInv, ScenesNew
      <3>2. \A new \in (SUBSET Ids) \ {{}} : Head(s) = Save(k, new) /\ t = "loop" => new \cap scene = {}
        BY <1>9, <1>11
      <3>3. QED
        BY <1>1, <1>6, <3>1, <3>2 DEF Untold
    <2>2. QED
      BY <2>1
  <1>12. ASSUME t = "loop", NEW lines \in (SUBSET Ids) \ {{}}, Untold("cast", lines), lines \cap scene = {},
                s = SaveScene(lines)
         PROVE  ScenesNew'
    <2>1. Head(s) = Save("summary", lines) /\ todo'["loop"] = <<Commit, Save("cast", lines), Commit>>
      <3>1. s = <<Save("summary", lines), Commit, Save("cast", lines), Commit>>
        BY <1>12, PurgeSteps
      <3>2. Head(s) = Save("summary", lines) /\ Tail(s) = <<Commit, Save("cast", lines), Commit>>
        BY <3>1
      <3>3. QED
        BY <1>1, <1>12, <3>2
    <2>2. "summary" # "cast"
      OBVIOUS
    <2>3. Untold("cast", lines)'
      BY <1>6, <1>8, <1>9, <1>12, <2>1, <2>2
    <2>4. \A k \in Scene : Untold(k, scene)'
      BY <1>8, <1>11, <1>12, <2>1
    <2>5. QED
      BY <1>1, <1>5, <1>7, <1>12, <2>1, <2>3, <2>4 DEF ScenesNew
  <1>13. ASSUME t = "loop", NEW lines \in (SUBSET Ids) \ {{}}, lines \cap scene = {},
                s = <<Save("cast", lines), Commit>>
         PROVE  ScenesNew'
    <2>1. Head(s) = Save("cast", lines) /\ todo'["loop"] = <<Commit>>
      BY <1>1, <1>13
    <2>2. <<Commit>> \in Seq(Silent)
      BY DEF Silent, Commit, Statement
    <2>3. \A k \in Scene : Untold(k, scene)'
      BY <1>8, <1>11, <1>13, <2>1
    <2>4. QED
      BY <1>5, <1>7, <2>1, <2>2, <2>3 DEF ScenesNew
  <1>14. QED
    <2>1. CASE t = "loop" /\ s \notin Seq(Silent)
      <3>1. PICK lines \in (SUBSET Ids) \ {{}} :
              /\ Untold("cast", lines) /\ lines \cap scene = {}
              /\ \/ s = SaveScene(lines)
                 \/ s = <<Commit, Save("cast", lines), Commit>>
                 \/ s = <<Save("cast", lines), Commit>>
        BY <2>1 DEF PurgeInv, ScenesNew
      <3>2. CASE s = <<Commit, Save("cast", lines), Commit>>
        BY <1>10, <3>2
      <3>3. QED
        BY <1>12, <1>13, <2>1, <3>1, <3>2
    <2>2. QED
      BY <1>10, <2>1

LEMMA PurgingStep ==
  ASSUME IInv, NewLine, PurgeInv, NEW t \in Thread, Step(t), NEW u \in Thread
  PROVE  Purging(u)'
  <1> DEFINE s == todo[t]
  <1>1. /\ s # <<>> /\ todo'[t] = Tail(s)
        /\ \A v \in Thread : v # t => todo'[v] = todo[v] /\ found'[v] = found[v]
        /\ found'[t] = (IF Len(s) = 1 THEN NothingFound ELSE found[t])
    BY StepFrame
  <1>2. NothingFound' = NothingFound
    BY DEF NothingFound
  <1>3. found'[u] = found[u] => (MemoryGone(u) => MemoryGone(u)') /\ (EventsGone(u) => EventsGone(u)')
    BY GoneForGood DEF MemoryGone, EventsGone
  <1>4. CASE u # t
    <2>1. todo'[u] = todo[u] /\ found'[u] = found[u] /\ Purging(u)
      BY <1>1, <1>4 DEF PurgeInv
    <2>2. QED
      BY <1>2, <1>3, <2>1 DEF Purging
  <1>5. CASE u = t /\ found[t] = NothingFound
    BY <1>1, <1>2, <1>5 DEF Purging
  <1>6. CASE u = t /\ s = PurgeScene
    <2>1. /\ Head(s) = [op |-> "delete", keys |-> Scene] /\ Len(s) # 1
          /\ Tail(s) = <<Commit, DeleteAll, Commit>>
      BY <1>6, PurgeSteps
    <2>2. db' = [db EXCEPT !.mem = [k \in Key |-> IF k \in Scene THEN NoRow ELSE @[k]]]
      BY <2>1 DEF Step, Commit, Executed
    <2>3. \A k \in Scene : db'.mem[k].of = {}
      BY <2>2, KeysApart DEF IInv, TypeOK, IsTables, NoRow
    <2>4. found'[u] = found[u] /\ todo'[u] = <<Commit, DeleteAll, Commit>>
      BY <1>1, <1>6, <2>1
    <2>5. MemoryGone(u)'
      BY <2>3, <2>4 DEF MemoryGone
    <2>6. QED
      BY <2>4, <2>5 DEF Purging
  <1>7. CASE u = t /\ s = <<Commit, DeleteAll, Commit>> /\ MemoryGone(t)
    <2>1. Len(s) # 1 /\ Tail(s) = <<DeleteAll, Commit>>
      BY <1>7
    <2>2. QED
      BY <1>1, <1>3, <1>7, <2>1 DEF Purging
  <1>8. CASE u = t /\ s = <<DeleteAll, Commit>> /\ MemoryGone(t)
    <2>1. Len(s) # 1 /\ Tail(s) = <<Commit>> /\ Head(s) = DeleteAll
      BY <1>8
    <2>2. db' = [db EXCEPT !.events = [i \in Ids |-> Absent]]
      BY <2>1 DEF Step, Commit, Executed, DeleteAll
    <2>3. \A i \in Ids : db'.events[i] = Absent
      BY <2>2 DEF IInv, TypeOK, IsTables
    <2>4. found'[u] = found[u] /\ todo'[u] = <<Commit>> /\ found[u].events \subseteq Ids
      BY <1>1, <1>8, <2>1 DEF PurgeInv, FoundOK
    <2>5. MemoryGone(u)' /\ EventsGone(u)'
      BY <1>3, <1>8, <2>3, <2>4 DEF EventsGone
    <2>6. QED
      BY <2>4, <2>5 DEF Purging
  <1>9. CASE u = t /\ s = <<Commit>>
    <2>1. Len(s) = 1
      BY <1>9
    <2>2. QED
      BY <1>1, <1>2, <1>9, <2>1 DEF Purging
  <1>10. QED
    BY <1>4, <1>5, <1>6, <1>7, <1>8, <1>9 DEF PurgeInv, Purging

LEMMA NextKeepsPurgeInv == IInv /\ NewLine /\ PurgeInv /\ [Next]_vars => PurgeInv'
  <1> SUFFICES ASSUME IInv, NewLine, PurgeInv, [Next]_vars PROVE PurgeInv'
    OBVIOUS
  <1>1. CASE UNCHANGED <<db, disk, todo, scene, nLines, found>>
    BY <1>1 DEF PurgeInv, FoundOK, ScenesNew, Untold, Told, Purging, MemoryGone, EventsGone
  <1>2. CASE UNCHANGED vars \/ SetRp
    BY <1>1, <1>2 DEF vars, tables, room, SetRp
  <1>3. CASE RpOn
    <2>1. Call("loop", <<>>) /\ UNCHANGED <<scene, nLines, found>> /\ <<>> # Log(nLines)
      BY <1>3 DEF RpOn, Log
    <2>2. QED
      BY <2>1, PurgeInvCall, SilentMethods, LoopIsAThread
  <1>4. ASSUME NEW t \in Thread, Step(t) PROVE PurgeInv'
    BY <1>4, FoundStep, ScenesStep, PurgingStep DEF PurgeInv
  <1>5. QED
    BY <1>2, <1>3, <1>4, PurgeInvHear, PurgeInvRpOff, PurgeInvOperate, PurgeInvCrash DEF Next

\* When a purge returns, nothing it found is left, in the tables or on disk, whatever
\* the other threads logged, saved, masked or deleted while it was at it.
THEOREM PurgesExcise == Spec => PurgeExcises
  <1>1. Init => PurgeInv
    <2> SUFFICES ASSUME Init PROVE PurgeInv
      OBVIOUS
    <2>1. /\ db = disk /\ disk = [mem |-> [k \in Key |-> NoRow], events |-> [i \in Ids |-> Absent]]
          /\ todo = [t \in Thread |-> <<>>] /\ found = [t \in Thread |-> NothingFound] /\ scene = {}
      BY DEF Init
    <2>2. /\ NothingFound \in [mem : [Key -> SUBSET Ids], events : SUBSET Ids]
          /\ NothingFound.events = {} /\ \A k \in Key : NothingFound.mem[k] = {}
      BY DEF NothingFound
    <2>3. \A k \in Scene \cup Rules : k \in Key
      BY KeysApart
    <2>4. FoundOK
      BY <2>1, <2>2, <2>3 DEF FoundOK
    <2>5. \A k \in Scene, i \in Ids : ~Told(k, i)
      BY <2>1, <2>2, <2>3 DEF Told, NoRow
    <2>6. ScenesNew
      BY <2>1, <2>5, SilentMethods, LoopIsAThread DEF ScenesNew, Untold, Thread
    <2>7. \A t \in Thread : Purging(t)
      BY <2>1 DEF Purging
    <2>8. QED
      BY <2>4, <2>6, <2>7 DEF PurgeInv
  <1>2. ASSUME IInv, NewLine, PurgeInv, NEW t \in Thread, Step(t), Len(todo[t]) = 1, NEW d \in {db', disk'}
        PROVE  /\ \A k \in Key : found[t].mem[k] # {} => d.mem[k].of # found[t].mem[k]
               /\ \A i \in found[t].events : d.events[i] = Absent
    <2>1. CASE found[t] = NothingFound
      BY <2>1 DEF NothingFound
    <2>2. CASE found[t] # NothingFound
      <3>1. /\ Len(PurgeScene) # 1 /\ Len(<<Commit, DeleteAll, Commit>>) # 1
            /\ Len(<<DeleteAll, Commit>>) # 1 /\ Head(<<Commit>>) = Commit
        BY PurgeSteps
      <3>2. todo[t] = <<Commit>> /\ MemoryGone(t) /\ EventsGone(t)
        BY <1>2, <2>2, <3>1 DEF PurgeInv, Purging
      <3>3. db' = db /\ disk' = db
        <4>1. Head(todo[t]) = Commit
          BY <3>1, <3>2
        <4>2. QED
          BY <1>2, <4>1 DEF Step
      <3>4. \A k \in Key : found[t].mem[k] # {} => k \in Scene
        <4>1. \A k \in Rules : found[t].mem[k] = {}
          BY <1>2 DEF PurgeInv, FoundOK
        <4>2. QED
          BY <4>1, KeysApart
      <3>5. QED
        BY <1>2, <3>2, <3>3, <3>4 DEF MemoryGone, EventsGone
    <2>3. QED
      BY <2>1, <2>2
  <1>3. IInv /\ NewLine /\ PurgeInv /\ [Next]_vars =>
          [\A t \in Thread :
             Step(t) /\ Len(todo[t]) = 1 => \A d \in {db', disk'} :
               /\ \A k \in Key : found[t].mem[k] # {} => d.mem[k].of # found[t].mem[k]
               /\ \A i \in found[t].events : d.events[i] = Absent]_vars
    BY <1>2
  <1>4. Init => NewLine
    BY InitNewLine
  <1>5. QED
    BY <1>1, <1>3, <1>4, InitKeeps, NextKeeps, NextKeepsNewLine, NextKeepsPurgeInv, PTL
       DEF Spec, PurgeExcises
===============================================================================
