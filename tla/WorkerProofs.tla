------------------------------ MODULE WorkerProofs -----------------------------
(***************************************************************************)
(* Theorems about the worker process seen from outside.  Feed: what a      *)
(* terminal is told of its commands, and what goes down the activity       *)
(* stream.  Supervisor (here Sup; its state is that of Workers): its       *)
(* typing, and that no two workers run and none is left behind.  Whatever  *)
(* number of terminals, workers, events, commands and exits.               *)
(***************************************************************************)
EXTENDS Feed, Workers, SequenceTheorems, FiniteSetTheorems, TLAPS

Sup == INSTANCE Supervisor

(* The sockets of the worker *)

RequestRecord ==
  [cmd : Commands, did : BOOLEAN, sent : BOOLEAN, worker : Nat,
   state : {"refused", "sent", "running", "lost"} \cup Answers,
   out : {"waiting", "error", "no response"} \cup Answers]

\* What is known of a request by what became of it.
Sound(q) ==
  /\ q.worker <= number
  /\ q.state \in {"refused", "sent", "running", "failed", "declined"} => ~q.did
  /\ q.state \in {"sent", "running"} => worker # "down" /\ q.worker = number
  /\ q.state = "done" => q.did /\ (q.cmd = "pose" /\ q.worker = number /\ worker = "up" => q.sent)
  /\ q.state = "lost" => q.worker < number \/ worker = "down"
  /\ q.state = "running" => q.cmd = "pose"
  /\ q.out \in Answers => q.state = q.out
  /\ q.out = "no response" => q.state = "lost"

\* The inductive invariant.
Inv ==
  /\ number \in Nat
  /\ requests \in Seq(RequestRecord)
  /\ \A r \in DOMAIN requests : Sound(requests[r])

-------------------------------------------------------------------------------
(* One request changes *)

LEMMA FieldsExcept ==
  ASSUME NEW s \in Seq(RequestRecord), NEW r \in DOMAIN s, NEW q \in RequestRecord
  PROVE  /\ [s EXCEPT ![r] = q] \in Seq(RequestRecord)
         /\ DOMAIN [s EXCEPT ![r] = q] = DOMAIN s
         /\ \A k \in DOMAIN s : [s EXCEPT ![r] = q][k] = IF k = r THEN q ELSE s[k]
<1>1. s[r] \in RequestRecord
  BY ElementOfSeq, LenProperties
<1>. QED  BY ExceptSeq, LenProperties

\* A step that changes one request, soundly, keeps the invariant.
LEMMA OneChanges ==
  ASSUME Inv, NEW r \in DOMAIN requests, NEW q \in RequestRecord,
         requests' = [requests EXCEPT ![r] = q], UNCHANGED <<number, worker>>, Sound(q)
  PROVE  Inv'
<1>1. requests' \in Seq(RequestRecord) /\ DOMAIN requests' = DOMAIN requests
  BY FieldsExcept DEF Inv
<1>2. ASSUME NEW k \in DOMAIN requests' PROVE Sound(requests[k])'
  <2>1. requests'[k] = IF k = r THEN q ELSE requests[k]
    BY FieldsExcept, <1>1 DEF Inv
  <2>2. Sound(q) /\ Sound(requests[k])
    BY <1>1 DEF Inv
  <2>3. CASE k = r
    BY <2>1, <2>2, <2>3 DEF Sound
  <2>4. CASE k # r
    BY <2>1, <2>2, <2>4 DEF Sound
  <2>. QED  BY <2>3, <2>4
<1>. QED  BY <1>1, <1>2 DEF Inv

LEMMA RequestTyped ==
  ASSUME Inv, NEW r \in DOMAIN requests
  PROVE  requests[r] \in RequestRecord /\ Sound(requests[r])
BY ElementOfSeq, LenProperties DEF Inv

-------------------------------------------------------------------------------
(* The steps *)

LEMMA InvRequest ==
  ASSUME Inv, NEW cmd \in Commands, Request(cmd)
  PROVE  Inv'
<1> DEFINE q == [cmd |-> cmd, did |-> FALSE, sent |-> FALSE,
                 worker |-> IF worker = "up" THEN number ELSE 0,
                 state |-> IF worker = "up" THEN "sent" ELSE "refused",
                 out |-> IF worker = "up" THEN "waiting" ELSE "error"]
<1>1. requests' = Append(requests, q) /\ UNCHANGED <<number, worker>>
  BY DEF Request
<1>2. q \in RequestRecord /\ Sound(q)
  <2>1. number \in Nat
    BY DEF Inv
  <2>2. CASE worker = "up"
    BY <2>1, <2>2 DEF RequestRecord, Sound, Answers
  <2>3. CASE worker # "up"
    BY <2>1, <2>3 DEF RequestRecord, Sound, Answers
  <2>. QED  BY <2>2, <2>3
<1> HIDE DEF q
<1>3. requests' \in Seq(RequestRecord)
  BY <1>1, <1>2, AppendProperties DEF Inv
<1>4. ASSUME NEW k \in DOMAIN requests' 
      PROVE  requests'[k] = q \/ (k \in DOMAIN requests /\ requests'[k] = requests[k])
  <2>1. requests \in Seq(RequestRecord)
    BY DEF Inv
  <2>2. /\ Len(requests) \in Nat /\ DOMAIN requests = 1..Len(requests)
        /\ DOMAIN requests' = 1..(Len(requests) + 1)
        /\ requests'[Len(requests) + 1] = q
        /\ \A i \in 1..Len(requests) : requests'[i] = requests[i]
    BY <1>1, <1>2, <2>1, AppendProperties, LenProperties
  <2>. QED  BY <2>2
<1>5. ASSUME NEW k \in DOMAIN requests' PROVE Sound(requests[k])'
  <2>1. CASE requests'[k] = q
    BY <1>1, <1>2, <2>1 DEF Sound
  <2>2. CASE k \in DOMAIN requests /\ requests'[k] = requests[k]
    <3>1. Sound(requests[k])
      BY <2>2 DEF Inv
    <3>. QED  BY <1>1, <2>2, <3>1 DEF Sound
  <2>. QED  BY <1>4, <2>1, <2>2
<1>. QED  BY <1>1, <1>3, <1>5 DEF Inv

LEMMA InvServed ==
  ASSUME Inv, Served
  PROVE  Inv'
<1>1. PICK r \in DOMAIN requests :
        Dispatch(r) \/ Declined(r) \/ Composed(r) \/ Silent(r) \/ Failed(r)
  BY DEF Served
<1> DEFINE q == requests[r]
<1>2. q \in RequestRecord /\ Sound(q)
  BY RequestTyped
<1>3. CASE Dispatch(r)
  <2>1. CASE q.cmd = "pose"
    <3>1. requests' = [requests EXCEPT ![r] = [q EXCEPT !.state = "running"]]
      BY <1>3, <2>1 DEF Dispatch
    <3>2. [q EXCEPT !.state = "running"] \in RequestRecord /\ Sound([q EXCEPT !.state = "running"])
      BY <1>2, <1>3, <2>1 DEF RequestRecord, Sound, Answers, Dispatch
    <3>. QED  BY <1>3, <3>1, <3>2, OneChanges DEF Dispatch
  <2>2. CASE q.cmd # "pose"
    <3> DEFINE p == [q EXCEPT !.state = "done", !.did = TRUE]
    <3>1. requests' = [requests EXCEPT ![r] = p]
      BY <1>3, <2>2 DEF Dispatch
    <3>2. p \in RequestRecord /\ Sound(p)
      BY <1>2, <1>3, <2>2 DEF RequestRecord, Sound, Answers, Dispatch
    <3>. QED  BY <1>3, <3>1, <3>2, OneChanges DEF Dispatch
  <2>. QED  BY <2>1, <2>2
<1>4. CASE Composed(r)
  <2> DEFINE p == [q EXCEPT !.state = "done", !.did = TRUE, !.sent = (worker = "up")]
  <2>1. requests' = [requests EXCEPT ![r] = p]
    BY <1>4 DEF Composed
  <2>2. p \in RequestRecord /\ Sound(p)
    BY <1>2, <1>4 DEF RequestRecord, Sound, Answers, Composed
  <2>. QED  BY <1>4, <2>1, <2>2, OneChanges DEF Composed
<1>5. CASE Failed(r)
  <2> DEFINE p == [q EXCEPT !.state = "failed"]
  <2>1. requests' = [requests EXCEPT ![r] = p]
    BY <1>5 DEF Failed
  <2>2. p \in RequestRecord /\ Sound(p)
    BY <1>2, <1>5 DEF RequestRecord, Sound, Answers, Failed
  <2>. QED  BY <1>5, <2>1, <2>2, OneChanges DEF Failed
<1>6. CASE Declined(r) \/ Silent(r)
  <2> DEFINE p == [q EXCEPT !.state = "declined"]
  <2>1. requests' = [requests EXCEPT ![r] = p] /\ UNCHANGED <<number, worker>>
    BY <1>6 DEF Declined, Silent
  <2>2. q.state \in {"sent", "running"}
    BY <1>6 DEF Declined, Silent
  <2>3. p \in RequestRecord /\ Sound(p)
    BY <1>2, <2>2 DEF RequestRecord, Sound, Answers
  <2>. QED  BY <2>1, <2>3, OneChanges
<1>. QED  BY <1>1, <1>3, <1>4, <1>5, <1>6

LEMMA InvReturned ==
  ASSUME Inv, Returned
  PROVE  Inv'
<1>1. PICK r \in DOMAIN requests : Reply(r) \/ NoReply(r) \/ TimedOut(r)
  BY DEF Returned
<1> DEFINE q == requests[r]
           told(out) == [q EXCEPT !.out = out]
<1>2. q \in RequestRecord /\ Sound(q)
  BY RequestTyped
<1>3. PICK out \in Answers \cup {"no response", "error"} :
        /\ requests' = [requests EXCEPT ![r] = told(out)] /\ UNCHANGED <<number, worker>>
        /\ out \in Answers => out = q.state
        /\ out = "no response" => q.state = "lost"
  <2>1. CASE Reply(r)
    <3>1. q.state \in Answers /\ q.state # "no response"
      BY <2>1 DEF Reply, Answers
    <3>2. requests' = [requests EXCEPT ![r] = told(q.state)] /\ UNCHANGED <<number, worker>>
      BY <2>1 DEF Reply
    <3>. QED  BY <3>1, <3>2
  <2>2. CASE NoReply(r)
    <3>1. requests' = [requests EXCEPT ![r] = told("no response")] /\ UNCHANGED <<number, worker>>
      BY <2>2 DEF NoReply
    <3>. QED  BY <2>2, <3>1 DEF NoReply, Answers
  <2>3. CASE TimedOut(r)
    <3>1. requests' = [requests EXCEPT ![r] = told("error")] /\ UNCHANGED <<number, worker>>
      BY <2>3 DEF TimedOut
    <3>. QED  BY <3>1 DEF Answers
  <2>. QED  BY <1>1, <2>1, <2>2, <2>3
<1>4. told(out) \in RequestRecord /\ Sound(told(out))
  BY <1>2, <1>3 DEF RequestRecord, Sound, Answers
<1>. QED  BY <1>3, <1>4, OneChanges

\* A worker that ends loses what it had in hand, and no request is at it any more.
LEMMA InvEnds ==
  ASSUME Inv, Ends
  PROVE  Inv'
<1>1. PICK unsent \in SUBSET {r \in Waiting \ InHand : requests[r].worker = number} :
        requests' = [r \in DOMAIN requests |->
                       IF r \in InHand \cup unsent
                       THEN [requests[r] EXCEPT !.state = "lost"] ELSE requests[r]]
  BY DEF Ends
<1>2. number' = number /\ worker' = "down"
  BY DEF Ends
<1>3. ASSUME NEW r \in DOMAIN requests
      PROVE  requests'[r] \in RequestRecord /\ Sound(requests[r])'
  <2>1. requests[r] \in RequestRecord /\ Sound(requests[r])
    BY RequestTyped
  <2>2. CASE r \in InHand \cup unsent
    <3>1. requests[r].out \notin Answers
      BY <2>1, <2>2 DEF InHand, Waiting, Sound, Answers
    <3>2. requests'[r] = [requests[r] EXCEPT !.state = "lost"]
      BY <1>1, <2>2
    <3>. QED  BY <1>2, <2>1, <3>1, <3>2 DEF RequestRecord, Sound
  <2>3. CASE r \notin InHand \cup unsent
    <3>1. requests'[r] = requests[r] /\ requests[r].state \notin {"sent", "running"}
      BY <1>1, <2>3 DEF InHand
    <3>. QED  BY <1>2, <2>1, <3>1 DEF RequestRecord, Sound
  <2>. QED  BY <2>2, <2>3
<1>4. DOMAIN requests' = DOMAIN requests
  BY <1>1
<1>5. requests' \in Seq(RequestRecord)
  <2>1. DOMAIN requests = 1..Len(requests) /\ Len(requests) \in Nat
    BY LenProperties DEF Inv
  <2>2. requests' = [r \in 1..Len(requests) |-> requests'[r]]
    BY <1>1, <2>1
  <2>3. \A r \in 1..Len(requests) : requests'[r] \in RequestRecord
    BY <1>3, <2>1
  <2>. QED  BY <2>1, <2>2, <2>3, IsASeq
<1>. QED  BY <1>2, <1>3, <1>4, <1>5 DEF Inv

LEMMA InvSpawn ==
  ASSUME Inv, Spawn
  PROVE  Inv'
<1>1. ASSUME NEW r \in DOMAIN requests' PROVE Sound(requests[r])'
  <2>1. requests[r] \in RequestRecord /\ Sound(requests[r])
    BY RequestTyped DEF Spawn
  <2>2. requests' = requests /\ worker = "down" /\ worker' = "up" /\ number' = number + 1
    BY DEF Spawn
  <2>3. number \in Nat /\ requests[r].worker \in Nat
    BY <2>1 DEF Inv, RequestRecord
  <2>4. requests[r].worker <= number' /\ requests[r].worker < number' /\ requests[r].worker # number'
    <3>1. requests[r].worker <= number
      BY <2>1 DEF Sound
    <3>. QED  BY <2>2, <2>3, <3>1
  <2>5. requests[r].state \notin {"sent", "running"}
    BY <2>1, <2>2 DEF Sound
  <2>. QED  BY <2>1, <2>2, <2>4, <2>5, Zenon DEF Sound
<1>. QED  BY <1>1 DEF Spawn, Inv

LEMMA InvUnread ==
  ASSUME Inv, UNCHANGED <<requests, number>>, worker' = worker \/ (worker = "up" /\ worker' = "ending")
  PROVE  Inv'
BY DEF Inv, Sound

LEMMA InvInductive == Inv /\ [Next]_vars => Inv'
<1> SUFFICES ASSUME Inv, [Next]_vars PROVE Inv'
  OBVIOUS
<1>1. CASE Typed
  BY <1>1, InvRequest DEF Typed
<1>2. CASE Served
  BY <1>2, InvServed
<1>3. CASE Returned
  BY <1>3, InvReturned
<1>4. CASE Ended \/ Killed \/ KilledTracing
  BY <1>4, InvEnds DEF Ended, Killed, KilledTracing
<1>5. CASE Spawn
  BY <1>5, InvSpawn
<1>6. CASE Publish \/ Restart
  BY <1>6, InvUnread DEF Publish, Restart
<1>7. CASE Link \/ Subscribe \/ Receive \/ HangUp \/ Toggle
  BY <1>7, InvUnread DEF Link, Subscribe, Receive, HangUp, Toggle, rest
<1>8. CASE UNCHANGED vars
  BY <1>8, InvUnread DEF vars
<1>. QED  BY <1>1, <1>2, <1>3, <1>4, <1>5, <1>6, <1>7, <1>8 DEF Next

LEMMA InitInv == Init => Inv
BY EmptySeq DEF Init, Inv

\* What a terminal is told of its command (ctl.py:26, control.py) is so: that it is
\* done, that it was carried out; that it failed or was not done, that it was not;
\* "no response", that its worker is gone; whatever crashes, restarts and time-outs
\* came between.
THEOREM ToldTheTruth == Spec => []AnswersHold
<1>1. Inv => AnswersHold
  <2> SUFFICES ASSUME Inv, NEW r \in DOMAIN requests
               PROVE  LET q == requests[r]
                      IN  /\ q.out = "done" => q.did /\ (q.cmd = "pose" /\ q.worker = number /\ worker = "up" => q.sent)
                          /\ q.out \in {"failed", "declined"} \/ q.state = "refused" => ~q.did
                          /\ q.out = "no response" => q.worker < number \/ worker = "down"
    BY DEF AnswersHold
  <2>. QED  BY DEF Inv, Sound, Answers
<1>. QED  BY InitInv, <1>1, InvInductive, PTL DEF Spec

-------------------------------------------------------------------------------
(* The activity stream *)

Seen == ToSet(shown) \cup ToSet(wire)

TailShape ==
  /\ events \in Nat /\ buf \in Nat /\ since \in Nat /\ enabled \in BOOLEAN
  /\ shown \in Seq(Nat) /\ wire \in Seq(Nat)

\* What went down the stream: one after the other, none twice.
InOrder ==
  /\ \A n \in Seen : n \in 1..events
  /\ \A i, j \in 1..Len(shown) : i < j => shown[i] < shown[j]
  /\ \A i \in 1..Len(shown), j \in 1..Len(wire) : shown[i] < wire[j]
  /\ \A i \in 1..Len(wire) : wire[i] = wire[1] + i - 1
  /\ tail = "on" /\ wire # <<>> => wire[Len(wire)] = events

\* The half line the tail keeps is of the event that comes next, until the stream
\* ends.
HalfRead ==
  /\ tail \in {"apart", "linked"} => wire = <<>> /\ buf = 0
  /\ buf = 0 \/ (wire # <<>> /\ buf = wire[1]) \/ (tail = "cut" /\ wire = <<>>)

\* Nothing owed is passed over.
NoGap ==
  enabled => /\ since \in 1..events + 1
             /\ \A a \in Seen : \A n \in since..a : n \in Seen
             /\ wire # <<>> => since <= wire[1]
             /\ tail = "on" => \A n \in since..events : n \in Seen

\* A generation that went down the stream was traced before.
Traced ==
  /\ made \subseteq 1..events /\ trace \in Seq([id : Nat, whole : BOOLEAN])
  /\ \A n \in Seen \cap made : \E i \in 1..Len(trace) : trace[i].id = n /\ trace[i].whole

TailInv == TailShape /\ InOrder /\ HalfRead /\ NoGap /\ Traced

LEMMA Members ==
  ASSUME NEW s \in Seq(Nat)
  PROVE  /\ Len(s) \in Nat /\ (s = <<>> <=> Len(s) = 0)
         /\ \A i \in 1..Len(s) : s[i] \in Nat
         /\ \A n : n \in ToSet(s) <=> \E i \in 1..Len(s) : s[i] = n
<1>1. DOMAIN s = 1..Len(s) /\ Len(s) \in Nat /\ (s = <<>> <=> Len(s) = 0)
  BY LenProperties, EmptySeq
<1>2. \A i \in 1..Len(s) : s[i] \in Nat
  BY ElementOfSeq
<1>. QED  BY <1>1, <1>2 DEF ToSet

LEMMA Part ==
  ASSUME NEW s \in Seq(Nat), NEW m \in 0..Len(s), NEW n \in m..Len(s)
  PROVE  LET r == SubSeq(s, m + 1, n)
         IN  /\ r \in Seq(Nat) /\ Len(r) = n - m
             /\ \A i \in 1..Len(r) : r[i] = s[m + i] /\ m + i \in 1..Len(s)
<1>1. Len(s) \in Nat /\ m + 1 \in Int /\ n \in Int
  BY LenProperties
<1>2. \A i \in m + 1..n : s[i] \in Nat
  BY <1>1, ElementOfSeq
<1> DEFINE r == SubSeq(s, m + 1, n)
<1>3. /\ r \in Seq(Nat) /\ Len(r) = IF m + 1 <= n THEN n - (m + 1) + 1 ELSE 0
      /\ \A i \in 1..n - (m + 1) + 1 : r[i] = s[(m + 1) + i - 1]
  BY <1>1, <1>2, SubSeqProperties
<1> HIDE DEF r
<1>4. Len(r) = n - m
  BY <1>1, <1>3
<1>5. ASSUME NEW i \in 1..Len(r) PROVE r[i] = s[m + i] /\ m + i \in 1..Len(s)
  <2>1. i \in 1..n - (m + 1) + 1 /\ (m + 1) + i - 1 = m + i
    BY <1>1, <1>4
  <2>2. r[i] = s[(m + 1) + i - 1]
    BY <1>3, <2>1
  <2>3. m + i \in 1..Len(s)
    BY <1>1, <1>4
  <2>. QED  BY <2>1, <2>2, <2>3
<1>. QED  BY <1>3, <1>4, <1>5 DEF r

LEMMA SeenAt ==
  ASSUME TailInv
  PROVE  \A n : n \in Seen <=> \/ \E i \in 1..Len(shown) : shown[i] = n
                               \/ \E i \in 1..Len(wire) : wire[i] = n
BY Members DEF TailInv, TailShape, Seen

\* What is on the wire is a row of events.
LEMMA Row ==
  ASSUME TailInv
  PROVE  /\ Len(wire) \in Nat /\ (wire = <<>> <=> Len(wire) = 0)
         /\ \A i \in 1..Len(wire) : wire[i] \in 1..events /\ wire[i] = wire[1] + i - 1
         /\ \A i \in 1..Len(shown) : shown[i] \in 1..events
         /\ wire # <<>> => wire[1] \in 1..events /\ 1 \in 1..Len(wire) /\ Len(wire) \in 1..Len(wire)
<1>1. wire \in Seq(Nat) /\ shown \in Seq(Nat)
  BY DEF TailInv, TailShape
<1>2. /\ Len(wire) \in Nat /\ (wire = <<>> <=> Len(wire) = 0)
      /\ (wire # <<>> => 1 \in 1..Len(wire) /\ Len(wire) \in 1..Len(wire))
  BY <1>1, Members
<1>3. \A i \in 1..Len(wire) : wire[i] \in Seen
  BY <1>1, Members DEF Seen
<1>4. \A i \in 1..Len(shown) : shown[i] \in Seen
  BY <1>1, Members DEF Seen
<1>. QED  BY <1>2, <1>3, <1>4 DEF TailInv, InOrder

\* An event is published.
LEMMA Published ==
  ASSUME TailInv, events' = events + 1, wire' = Pushed(events'),
         UNCHANGED <<tail, buf, enabled, shown, since>>
  PROVE  /\ TailShape' /\ InOrder' /\ HalfRead' /\ NoGap'
         /\ Seen' \subseteq Seen \cup {events'} /\ events' \notin Seen
<1>1. /\ events \in Nat /\ events' \in Nat /\ wire \in Seq(Nat) /\ shown \in Seq(Nat)
      /\ buf \in Nat /\ since \in Nat /\ enabled \in BOOLEAN
  BY DEF TailInv, TailShape
<1>2. events' \notin Seen
  BY <1>1 DEF TailInv, InOrder
<1>3. CASE tail # "on"
  <2>1. wire' = wire /\ Seen' = Seen
    BY <1>3 DEF Pushed, Seen
  <2>2. TailShape' /\ HalfRead'
    BY <1>1, <2>1 DEF TailInv, TailShape, HalfRead
  <2>3. \A n \in 1..events : n \in 1..events'
    BY <1>1
  <2>4. InOrder'
    BY <1>3, <2>1, <2>3 DEF TailInv, InOrder
  <2>5. NoGap'
    <3>1. \A n \in 1..events + 1 : n \in 1..events' + 1
      BY <1>1
    <3>. QED  BY <1>3, <2>1, <3>1 DEF TailInv, NoGap
  <2>. QED  BY <1>2, <2>1, <2>2, <2>4, <2>5
<1>4. CASE tail = "on"
  <2> DEFINE k == Len(wire)
  <2>1. /\ wire' = Append(wire, events') /\ wire' \in Seq(Nat) /\ wire' # <<>> /\ Len(wire') = k + 1
        /\ \A i \in 1..k : wire'[i] = wire[i]
        /\ wire'[k + 1] = events' /\ k \in Nat
    BY <1>1, <1>4, AppendProperties, LenProperties DEF Pushed
  <2>2. /\ (k = 0 <=> wire = <<>>) /\ (k # 0 => wire[k] = events /\ wire[k] = wire[1] + k - 1 /\ wire[1] \in 1..events)
    BY <1>4, Row DEF TailInv, InOrder
  <2>3. \A i \in 1..k : wire[i] = wire[1] + i - 1 /\ wire[i] \in 1..events
    BY Row
  <2>4. \A i \in 1..Len(shown) : shown[i] \in 1..events
    BY Row
  <2> HIDE DEF k
  <2>5. \A i \in 1..k + 1 : i \in 1..k \/ i = k + 1
    BY <2>1
  <2>6. wire'[1] = IF k = 0 THEN events' ELSE wire[1]
    BY <2>1
  <2>7. \A n : n \in Seen' <=> n \in Seen \/ n = events'
    <3>1. \A n : n \in ToSet(wire') <=> n \in ToSet(wire) \/ n = events'
      <4>1. \A n : n \in ToSet(wire') <=> \E i \in 1..k + 1 : wire'[i] = n
        BY <2>1, Members
      <4>2. \A n : n \in ToSet(wire) <=> \E i \in 1..k : wire[i] = n
        BY <1>1, Members DEF k
      <4>3. \A i \in 1..k : i \in 1..k + 1
        BY <2>1
      <4>4. k + 1 \in 1..k + 1
        BY <2>1
      <4>. QED  BY <2>1, <2>5, <4>1, <4>2, <4>3, <4>4
    <3>. QED  BY <3>1 DEF Seen
  <2>8. TailShape'
    BY <1>1, <2>1 DEF TailShape
  <2>9. InOrder'
    <3>1. \A n \in Seen' : n \in 1..events'
      BY <1>1, <2>7 DEF TailInv, InOrder
    <3>2. ASSUME NEW i \in 1..Len(shown), NEW j \in 1..k + 1 PROVE shown[i] < wire'[j]
      <4>1. CASE j = k + 1
        BY <1>1, <2>1, <2>4, <4>1
      <4>2. CASE j \in 1..k
        BY <2>1, <4>2 DEF TailInv, InOrder, k
      <4>. QED  BY <2>5, <4>1, <4>2
    <3>3. ASSUME NEW i \in 1..k + 1 PROVE wire'[i] = wire'[1] + i - 1
      <4>1. CASE k = 0
        <5>1. i = 1 /\ wire'[1] = events'
          BY <2>1, <2>6, <4>1
        <5>. QED  BY <1>1, <5>1
      <4>2. CASE k # 0 /\ i = k + 1
        <5>1. wire'[i] = events + 1
          BY <1>1, <2>1, <4>2
        <5>2. wire'[1] = wire[1] /\ wire[1] \in Nat /\ events = wire[1] + k - 1
          <6>1. wire'[1] = wire[1] /\ wire[1] \in 1..events /\ wire[k] = events
            BY <2>2, <2>6, <4>2
          <6>2. wire[k] = wire[1] + k - 1
            BY <2>2, <4>2
          <6>. QED  BY <6>1, <6>2
        <5>3. ASSUME NEW w \in Nat, events = w + k - 1 PROVE events + 1 = w + i - 1
          BY <2>1, <4>2, <5>3
        <5>. QED  BY <5>1, <5>2, <5>3
      <4>3. CASE k # 0 /\ i \in 1..k
        BY <2>1, <2>3, <2>6, <4>3
      <4>. QED  BY <2>5, <4>1, <4>2, <4>3
    <3>4. \A i, j \in 1..Len(shown) : i < j => shown[i] < shown[j]
      BY DEF TailInv, InOrder
    <3>. QED  BY <2>1, <3>1, <3>2, <3>3, <3>4 DEF InOrder
  <2>10. HalfRead'
    <3>1. wire = <<>> => buf = 0
      BY <1>4 DEF TailInv, HalfRead
    <3>2. buf = 0 \/ (k # 0 /\ buf = wire[1])
      BY <1>4, <2>2, <3>1 DEF TailInv, HalfRead
    <3>. QED  BY <1>4, <2>1, <2>6, <3>2 DEF HalfRead
  <2>11. NoGap'
    <3> SUFFICES ASSUME enabled
                 PROVE  /\ since \in 1..events' + 1
                        /\ \A a \in Seen' : \A n \in since..a : n \in Seen'
                        /\ since <= wire'[1]
                        /\ \A n \in since..events' : n \in Seen'
      BY <2>1 DEF NoGap
    <3>1. /\ since \in 1..events + 1 /\ (wire # <<>> => since <= wire[1])
          /\ \A n \in since..events : n \in Seen
      BY <1>4 DEF TailInv, NoGap
    <3>2. \A n \in since..events' : n \in Seen'
      BY <1>1, <2>7, <3>1
    <3>3. \A a \in Seen' : a <= events' /\ a \in Nat
      BY <1>1, <2>7 DEF TailInv, InOrder
    <3>4. \A a \in Seen' : \A n \in since..a : n \in since..events'
      BY <1>1, <3>3
    <3>5. since <= wire'[1]
      BY <1>1, <2>2, <2>6, <3>1
    <3>6. since \in 1..events' + 1
      BY <1>1, <3>1
    <3>. QED  BY <3>2, <3>4, <3>5, <3>6
  <2>. QED  BY <1>2, <2>7, <2>8, <2>9, <2>10, <2>11
<1>. QED  BY <1>3, <1>4

LEMMA Later ==
  ASSUME NEW m \in Nat, NEW n \in Nat, m <= n
  PROVE  \A x : (x \in 1..m => x \in 1..n) /\ (x \in 1..m + 1 => x \in 1..n + 1)
OBVIOUS

\* The worker ends and the wire is cut short.
LEMMA CutShort ==
  ASSUME TailInv, tail = "on", tail' = "cut", NEW n \in 0..Len(wire), wire' = SubSeq(wire, 1, n),
         events' \in Nat, events <= events', UNCHANGED <<buf, enabled, shown, since>>
  PROVE  TailShape' /\ InOrder' /\ HalfRead' /\ NoGap' /\ Seen' \subseteq Seen
<1>1. /\ events \in Nat /\ wire \in Seq(Nat) /\ shown \in Seq(Nat)
      /\ buf \in Nat /\ since \in Nat /\ enabled \in BOOLEAN /\ Len(wire) \in Nat
  BY Members DEF TailInv, TailShape
<1>2. /\ wire' \in Seq(Nat) /\ Len(wire') = n
      /\ \A i \in 1..n : wire'[i] = wire[i] /\ i \in 1..Len(wire)
  <2>1. 0 \in 0..Len(wire) /\ n \in 0..Len(wire) /\ 0 + 1 = 1 /\ n - 0 = n
    BY <1>1
  <2>2. /\ wire' \in Seq(Nat) /\ Len(wire') = n - 0
        /\ \A i \in 1..Len(wire') : wire'[i] = wire[0 + i] /\ 0 + i \in 1..Len(wire)
    BY <1>1, <2>1, Part
  <2>3. \A i \in 1..n : 0 + i = i
    BY <1>1
  <2>. QED  BY <2>1, <2>2, <2>3
<1>3. wire' = <<>> <=> n = 0
  BY <1>2, Members
<1>4. \A a : a \in Seen' <=> (\E i \in 1..Len(shown) : shown[i] = a) \/ (\E i \in 1..n : wire'[i] = a)
  <2>1. \A s \in Seq(Nat) : \A a : a \in ToSet(s) <=> \E i \in 1..Len(s) : s[i] = a
    BY Members
  <2>2. \A a : a \in ToSet(shown) <=> \E i \in 1..Len(shown) : shown[i] = a
    BY <1>1, Members
  <2>3. \A a : a \in ToSet(wire') <=> \E i \in 1..n : wire'[i] = a
    <3> DEFINE w == wire'
    <3>1. w \in Seq(Nat) /\ Len(w) = n
      BY <1>2
    <3> HIDE DEF w
    <3>2. \A a : a \in ToSet(w) <=> \E i \in 1..Len(w) : w[i] = a
      BY <2>1, <3>1
    <3>3. \A a : a \in ToSet(w) <=> \E i \in 1..n : w[i] = a
      BY <3>1, <3>2
    <3>. QED  BY <3>3 DEF w
  <2>. QED  BY <2>2, <2>3 DEF Seen
<1>5. Seen' \subseteq Seen
  BY <1>2, <1>4, SeenAt
<1>6. /\ \A i \in 1..Len(wire) : wire[i] \in 1..events /\ wire[i] = wire[1] + i - 1
      /\ \A i \in 1..Len(shown) : shown[i] \in 1..events
  BY Row
<1>7. n # 0 => 1 \in 1..n /\ wire'[1] = wire[1] /\ wire # <<>>
  BY <1>1, <1>2, Row
<1>8. TailShape'
  BY <1>1, <1>2 DEF TailShape
<1>9. InOrder'
  <2>1. \A a \in Seen' : a \in 1..events'
    BY <1>1, <1>5 DEF TailInv, InOrder
  <2>2. /\ \A i, j \in 1..Len(shown) : i < j => shown[i] < shown[j]
        /\ \A i \in 1..Len(shown), j \in 1..Len(wire) : shown[i] < wire[j]
    BY DEF TailInv, InOrder
  <2>3. ASSUME NEW i \in 1..n PROVE wire'[i] = wire'[1] + i - 1
    <3>1. wire'[1] = wire[1]
      BY <1>1, <1>7
    <3>. QED  BY <1>2, <1>6, <3>1
  <2>. QED  BY <1>2, <2>1, <2>2, <2>3 DEF InOrder
<1>10. HalfRead'
  <2>1. buf = 0 \/ buf = wire[1]
    BY DEF TailInv, HalfRead
  <2>. QED  BY <1>3, <1>7, <2>1 DEF HalfRead
<1>11. NoGap'
  <2> SUFFICES ASSUME enabled
               PROVE  /\ since \in 1..events' + 1
                      /\ \A a \in Seen' : \A b \in since..a : b \in Seen'
                      /\ wire' # <<>> => since <= wire'[1]
    BY DEF NoGap
  <2>1. /\ since \in 1..events + 1 /\ (wire # <<>> => since <= wire[1])
        /\ \A a \in Seen : \A b \in since..a : b \in Seen
    BY DEF TailInv, NoGap
  <2>2. ASSUME NEW a \in Seen', NEW b \in since..a PROVE b \in Seen'
    <3>1. b \in Seen /\ a \in 1..events /\ b <= a
      BY <1>1, <1>5, <2>1 DEF TailInv, InOrder
    <3>2. CASE \E i \in 1..Len(shown) : shown[i] = b
      BY <1>4, <3>2
    <3>3. ASSUME NEW j \in 1..Len(wire), wire[j] = b PROVE b \in Seen'
      <4>1. PICK i : (i \in 1..Len(shown) /\ shown[i] = a) \/ (i \in 1..n /\ wire'[i] = a)
        BY <1>4
      <4>2. ~(i \in 1..Len(shown) /\ shown[i] = a)
        BY <1>6, <3>1, <3>3 DEF TailInv, InOrder
      <4>3. i \in 1..n /\ wire[i] = a /\ i \in 1..Len(wire)
        BY <1>2, <4>1, <4>2
      <4>4. b = wire[1] + j - 1 /\ a = wire[1] + i - 1
        BY <1>6, <3>3, <4>3
      <4>5. j <= i
        <5>1. i \in Nat /\ j \in Nat /\ wire[1] \in Int
          BY <1>1, <4>3, ElementOfSeq
        <5>2. \A w \in Int : w + j - 1 <= w + i - 1 => j <= i
          BY <5>1
        <5>. QED  BY <3>1, <4>4, <5>1, <5>2
      <4>6. j \in 1..n
        BY <4>3, <4>5
      <4>. QED  BY <1>2, <1>4, <3>3, <4>6
    <3>. QED  BY <3>1, <3>2, <3>3, SeenAt
  <2>3. since \in 1..events' + 1
    BY <1>1, <2>1, Later
  <2>4. wire' # <<>> => since <= wire'[1]
    BY <1>3, <1>7, <2>1
  <2>. QED  BY <2>2, <2>3, <2>4
<1>. QED  BY <1>5, <1>8, <1>9, <1>10, <1>11

\* A record is added.
LEMMA Recorded ==
  ASSUME TailInv, events' = events + 1, made' = made \cup {events'}, NEW whole \in BOOLEAN,
         trace' = Append(trace, [id |-> events', whole |-> whole]),
         \A b \in Seen' \cap made' : b \in Seen \cap made \/ (whole /\ b = events')
  PROVE  Traced'
<1> DEFINE q == [id |-> events', whole |-> whole]
<1>1. events \in Nat /\ events' \in Nat /\ made \subseteq 1..events
  BY DEF TailInv, TailShape, Traced
<1>2. q \in [id : Nat, whole : BOOLEAN] /\ q.id = events' /\ q.whole = whole
  BY <1>1
<1> HIDE DEF q
<1>3. /\ trace' \in Seq([id : Nat, whole : BOOLEAN]) /\ Len(trace') = Len(trace) + 1
      /\ \A i \in 1..Len(trace) : trace'[i] = trace[i] /\ i \in 1..Len(trace) + 1
      /\ trace'[Len(trace) + 1] = q /\ Len(trace) + 1 \in 1..Len(trace) + 1
  <2>1. trace \in Seq([id : Nat, whole : BOOLEAN]) /\ trace' = Append(trace, q)
    BY DEF TailInv, Traced, q
  <2>. QED  BY <1>2, <2>1, AppendProperties, LenProperties
<1>4. made' \subseteq 1..events'
  BY <1>1
<1>5. ASSUME NEW b \in Seen' \cap made'
      PROVE  \E i \in 1..Len(trace') : trace'[i].id = b /\ trace'[i].whole
  <2>1. CASE b \in Seen \cap made
    <3>1. PICK i \in 1..Len(trace) : trace[i].id = b /\ trace[i].whole
      BY <2>1 DEF TailInv, Traced
    <3>. QED  BY <1>3, <3>1
  <2>2. CASE whole /\ b = events'
    BY <1>2, <1>3, <2>2
  <2>. QED  BY <2>1, <2>2
<1>. QED  BY <1>3, <1>4, <1>5 DEF Traced

\* What the tail reads of the wire it has shown, if it is on.
LEMMA InvReceive ==
  ASSUME TailInv, Receive
  PROVE  TailInv'
<1>1. PICK n \in 0..Len(wire), half \in BOOLEAN :
        /\ wire # <<>> /\ (half => n < Len(wire)) /\ (n = 0 => half)
        /\ shown' = (IF enabled
                     THEN shown \o (IF n > 0 /\ buf \notin {0, wire[1]}
                                    THEN Tail(SubSeq(wire, 1, n)) ELSE SubSeq(wire, 1, n))
                     ELSE shown)
        /\ wire' = SubSeq(wire, n + 1, Len(wire))
        /\ buf' = (IF half /\ (n > 0 \/ buf = 0) THEN wire[n + 1] ELSE IF n > 0 THEN 0 ELSE buf)
        /\ UNCHANGED <<events, made, trace, tail, enabled, since>>
  BY DEF Receive, rest
<1> DEFINE k == Len(wire)
           l == Len(shown)
           read == SubSeq(wire, 1, n)
           left == SubSeq(wire, n + 1, k)
<1>2. /\ events \in Nat /\ wire \in Seq(Nat) /\ shown \in Seq(Nat)
      /\ buf \in Nat /\ since \in Nat /\ enabled \in BOOLEAN
  BY DEF TailInv, TailShape
<1>3. k \in Nat /\ l \in Nat /\ k # 0 /\ n \in Nat /\ n <= k
  BY <1>1, <1>2, Members
<1>4. /\ left \in Seq(Nat) /\ Len(left) = k - n
      /\ \A i \in 1..k - n : left[i] = wire[n + i] /\ n + i \in 1..k
  <2>1. n \in 0..k /\ k \in n..k
    BY <1>3
  <2>2. /\ left \in Seq(Nat) /\ Len(left) = k - n
        /\ \A i \in 1..Len(left) : left[i] = wire[n + i] /\ n + i \in 1..k
    BY <1>2, <2>1, Part
  <2>. QED  BY <2>2
<1>5. /\ read \in Seq(Nat) /\ Len(read) = n
      /\ \A i \in 1..n : read[i] = wire[i] /\ i \in 1..k
  <2>1. 0 \in 0..k /\ n \in 0..k /\ 0 + 1 = 1 /\ n - 0 = n
    BY <1>3
  <2>2. /\ read \in Seq(Nat) /\ Len(read) = n - 0
        /\ \A i \in 1..Len(read) : read[i] = wire[0 + i] /\ 0 + i \in 1..k
    BY <1>2, <2>1, Part
  <2>3. \A i \in 1..n : 0 + i = i
    BY <1>3
  <2>. QED  BY <2>1, <2>2, <2>3
<1>6. /\ wire' = left
      /\ shown' = (IF enabled THEN shown \o read ELSE shown)
      /\ buf' = 0 \/ (k - n > 0 /\ buf' = left[1])
  <2>1. buf = 0 \/ buf = wire[1]
    BY <1>1 DEF TailInv, HalfRead
  <2>2. shown' = (IF enabled THEN shown \o read ELSE shown)
    BY <1>1, <2>1
  <2>3. CASE half /\ (n > 0 \/ buf = 0)
    <3>1. n < k /\ buf' = wire[n + 1]
      BY <1>1, <2>3
    <3>2. 1 \in 1..k - n
      BY <1>3, <3>1
    <3>. QED  BY <1>1, <1>3, <1>4, <2>2, <3>1, <3>2
  <2>4. CASE ~(half /\ (n > 0 \/ buf = 0)) /\ n > 0
    BY <1>1, <2>2, <2>4
  <2>5. CASE n = 0 /\ buf # 0
    <3>1. half /\ buf' = buf /\ buf = wire[1]
      BY <1>1, <2>1, <2>5
    <3>2. 1 \in 1..k - n /\ n + 1 = 1 /\ k - n > 0
      BY <1>3, <2>5
    <3> HIDE DEF left
    <3>3. left[1] = wire[n + 1]
      BY <1>4, <3>2
    <3>4. left[1] = wire[1]
      BY <3>2, <3>3
    <3>. QED  BY <1>1, <2>2, <3>1, <3>2, <3>4 DEF left
  <2>. QED  BY <1>1, <1>3, <2>3, <2>4, <2>5
<1>7. /\ \A i \in 1..k : wire[i] \in 1..events /\ wire[i] = wire[1] + i - 1
      /\ \A i \in 1..l : shown[i] \in 1..events
      /\ wire[1] \in 1..events
      /\ tail = "on" => wire[k] = events
  BY <1>1, Row DEF TailInv, InOrder
<1>8. /\ \A i, j \in 1..l : i < j => shown[i] < shown[j]
      /\ \A i \in 1..l, j \in 1..k : shown[i] < wire[j]
  BY DEF TailInv, InOrder
<1>9. \A a : a \in Seen <=> (\E i \in 1..l : shown[i] = a) \/ (\E i \in 1..k : wire[i] = a)
  BY SeenAt
<1>10. \A i, j \in 1..k : i < j => wire[i] < wire[j]
  <2>1. ASSUME NEW i \in 1..k, NEW j \in 1..k, i < j PROVE wire[i] < wire[j]
    <3>1. i \in Nat /\ j \in Nat /\ wire[1] \in Nat
      BY <1>2, <1>7
    <3>2. \A w \in Nat : w + i - 1 < w + j - 1
      BY <2>1, <3>1
    <3>. QED  BY <1>7, <3>1, <3>2
  <2>. QED  BY <2>1
<1>11. /\ shown' \in Seq(Nat)
       /\ Len(shown') = IF enabled THEN l + n ELSE l
       /\ \A i \in 1..l : shown'[i] = shown[i]
       /\ enabled => \A i \in 1..n : shown'[l + i] = wire[i]
  <2>1. CASE ~enabled
    BY <1>2, <1>3, <1>6, <2>1
  <2>2. CASE enabled
    <3>1. shown' = shown \o read
      BY <1>6, <2>2
    <3> HIDE DEF read
    <3>2. /\ shown' \in Seq(Nat) /\ Len(shown') = l + n
          /\ \A i \in 1..l + n : shown'[i] = IF i <= l THEN shown[i] ELSE read[i - l]
      <4>1. /\ shown' \in Seq(Nat) /\ Len(shown') = Len(shown) + Len(read)
            /\ \A i \in 1..Len(shown) + Len(read) :
                 shown'[i] = IF i <= Len(shown) THEN shown[i] ELSE read[i - Len(shown)]
        BY <1>2, <1>5, <3>1, ConcatProperties
      <4>. QED  BY <1>2, <1>5, <4>1
    <3>3. ASSUME NEW i \in 1..n PROVE shown'[l + i] = wire[i]
      <4>1. l + i \in 1..l + n /\ ~(l + i <= l) /\ (l + i) - l = i
        BY <1>3
      <4>. QED  BY <1>5, <3>2, <4>1
    <3>4. \A i \in 1..l : i \in 1..l + n /\ i <= l
      BY <1>3
    <3>. QED  BY <2>2, <3>2, <3>3, <3>4
  <2>. QED  BY <1>2, <2>1, <2>2
<1> HIDE DEF k, l, read, left
<1>12. /\ wire' \in Seq(Nat) /\ Len(wire') = k - n
       /\ \A i \in 1..k - n : wire'[i] = wire[n + i] /\ n + i \in 1..k
       /\ wire' = <<>> <=> k - n = 0
  BY <1>4, <1>6, Members
<1>13. ASSUME NEW i \in 1..Len(shown')
       PROVE  \/ i \in 1..l /\ shown'[i] = shown[i]
              \/ enabled /\ i - l \in 1..n /\ i - l \in 1..k /\ shown'[i] = wire[i - l] /\ i > l
  <2>1. CASE i \in 1..l
    BY <1>11, <2>1
  <2>2. CASE i \notin 1..l
    <3>1. enabled /\ i - l \in 1..n /\ l + (i - l) = i /\ i > l
      BY <1>3, <1>11, <2>2
    <3>2. i - l \in 1..k
      BY <1>3, <3>1
    <3>. QED  BY <1>11, <3>1, <3>2
  <2>. QED  BY <2>1, <2>2
<1>14. \A a : a \in Seen' <=> (\E i \in 1..Len(shown') : shown'[i] = a) \/ (\E i \in 1..k - n : wire'[i] = a)
  <2> DEFINE s == shown'
             w == wire'
  <2>1. s \in Seq(Nat) /\ w \in Seq(Nat) /\ Len(w) = k - n
    BY <1>11, <1>12
  <2> HIDE DEF s, w
  <2>2. \A a : a \in ToSet(s) <=> \E i \in 1..Len(s) : s[i] = a
    BY <2>1, Members
  <2>3. \A a : a \in ToSet(w) <=> \E i \in 1..k - n : w[i] = a
    BY <2>1, Members
  <2>. QED  BY <2>2, <2>3 DEF Seen, s, w
<1>15. Seen' \subseteq Seen
  <2>1. ASSUME NEW a \in Seen' PROVE a \in Seen
    <3>1. ASSUME NEW i \in 1..Len(shown'), shown'[i] = a PROVE a \in Seen
      BY <1>9, <1>13, <3>1
    <3>2. ASSUME NEW i \in 1..k - n, wire'[i] = a PROVE a \in Seen
      BY <1>9, <1>12, <3>2
    <3>. QED  BY <1>14, <3>1, <3>2
  <2>. QED  BY <2>1
<1>16. enabled => Seen \subseteq Seen'
  <2>1. ASSUME enabled, NEW a \in Seen PROVE a \in Seen'
    <3>1. ASSUME NEW i \in 1..l, shown[i] = a PROVE a \in Seen'
      <4>1. i \in 1..Len(shown')
        BY <1>3, <1>11, <2>1
      <4>. QED  BY <1>11, <1>14, <3>1, <4>1
    <3>2. ASSUME NEW i \in 1..k, wire[i] = a, i <= n PROVE a \in Seen'
      <4>1. i \in 1..n /\ l + i \in 1..Len(shown')
        BY <1>3, <1>11, <2>1, <3>2
      <4>. QED  BY <1>11, <1>14, <2>1, <3>2, <4>1
    <3>3. ASSUME NEW i \in 1..k, wire[i] = a, i > n PROVE a \in Seen'
      <4>1. i - n \in 1..k - n /\ n + (i - n) = i
        BY <1>3, <3>3
      <4>2. wire'[i - n] = wire[n + (i - n)]
        BY <1>12, <4>1
      <4>. QED  BY <1>14, <3>3, <4>1, <4>2
    <3>4. \A i \in 1..k : i <= n \/ i > n
      BY <1>3
    <3>. QED  BY <1>9, <3>1, <3>2, <3>3, <3>4
  <2>. QED  BY <2>1
<1>17. TailShape'
  <2>1. buf' \in Nat
    <3>1. k - n > 0 => 1 \in 1..k - n
      BY <1>3
    <3>2. k - n > 0 => left[1] \in Nat
      BY <1>2, <1>4, <1>7, <3>1
    <3>. QED  BY <1>6, <3>2
  <2>. QED  BY <1>1, <1>2, <1>11, <1>12, <2>1 DEF TailShape
<1>18. InOrder'
  <2>1. \A a \in Seen' : a \in 1..events'
    BY <1>1, <1>15 DEF TailInv, InOrder
  <2>2. ASSUME NEW i \in 1..Len(shown'), NEW j \in 1..Len(shown'), i < j PROVE shown'[i] < shown'[j]
    <3>1. CASE i \in 1..l /\ j \in 1..l
      BY <1>8, <1>11, <2>2, <3>1
    <3>2. CASE i \in 1..l /\ j \notin 1..l
      BY <1>8, <1>11, <1>13, <3>2
    <3>3. CASE i \notin 1..l
      <4>1. j \notin 1..l
        BY <1>3, <2>2, <3>3
      <4>2. i - l < j - l
        BY <1>3, <2>2
      <4>. QED  BY <1>10, <1>13, <3>3, <4>1, <4>2
    <3>. QED  BY <3>1, <3>2, <3>3
  <2>3. ASSUME NEW i \in 1..Len(shown'), NEW j \in 1..k - n PROVE shown'[i] < wire'[j]
    <3>1. wire'[j] = wire[n + j] /\ n + j \in 1..k
      BY <1>12
    <3>2. CASE i \in 1..l
      BY <1>8, <1>11, <3>1, <3>2
    <3>3. CASE i \notin 1..l
      <4>1. shown'[i] = wire[i - l] /\ i - l \in 1..n /\ i - l \in 1..k
        BY <1>13, <3>3
      <4>2. i - l < n + j
        BY <1>3, <4>1
      <4>. QED  BY <1>10, <3>1, <4>1, <4>2
    <3>. QED  BY <3>2, <3>3
  <2>4. ASSUME NEW i \in 1..k - n PROVE wire'[i] = wire'[1] + i - 1
    <3>1. 1 \in 1..k - n /\ wire[1] \in Int
      BY <1>3, <1>7
    <3>2. wire'[i] = wire[1] + (n + i) - 1 /\ wire'[1] = wire[1] + (n + 1) - 1
      BY <1>7, <1>12, <3>1
    <3>3. \A w \in Int : w + (n + i) - 1 = w + (n + 1) - 1 + i - 1
      BY <1>3
    <3>. QED  BY <3>1, <3>2, <3>3
  <2>5. ASSUME tail' = "on", wire' # <<>> PROVE wire'[Len(wire')] = events'
    <3>1. Len(wire') \in 1..k - n /\ n + Len(wire') = k
      BY <1>3, <1>12, <2>5
    <3>2. wire'[Len(wire')] = wire[n + Len(wire')]
      BY <1>12, <3>1
    <3>. QED  BY <1>1, <1>7, <2>5, <3>1, <3>2
  <2>. QED  BY <1>12, <2>1, <2>2, <2>3, <2>4, <2>5 DEF InOrder
<1>19. HalfRead'
  <2>1. k - n > 0 => 1 \in 1..k - n
    BY <1>3
  <2>2. k - n > 0 => left[1] = wire'[1] /\ wire' # <<>>
    BY <1>6, <1>12, <2>1
  <2>3. tail \notin {"apart", "linked"}
    BY <1>1 DEF TailInv, HalfRead
  <2>. QED  BY <1>1, <1>6, <2>2, <2>3 DEF HalfRead
<1>20. NoGap'
  <2> SUFFICES ASSUME enabled
               PROVE  /\ since \in 1..events + 1
                      /\ \A a \in Seen' : \A b \in since..a : b \in Seen'
                      /\ wire' # <<>> => since <= wire'[1]
                      /\ tail = "on" => \A b \in since..events : b \in Seen'
    BY <1>1 DEF NoGap
  <2>1. /\ since \in 1..events + 1 /\ since <= wire[1]
        /\ \A a \in Seen : \A b \in since..a : b \in Seen
        /\ tail = "on" => \A b \in since..events : b \in Seen
    BY <1>1 DEF TailInv, NoGap
  <2>2. Seen' = Seen
    BY <1>15, <1>16
  <2>3. wire' # <<>> => since <= wire'[1]
    <3>1. wire' # <<>> => 1 \in 1..k - n
      BY <1>3, <1>12
    <3>2. wire' # <<>> => wire'[1] = wire[1] + (n + 1) - 1
      BY <1>7, <1>12, <3>1
    <3>3. wire[1] \in Int /\ since \in Int
      BY <1>2, <1>7
    <3>4. \A w \in Int : since <= w => since <= w + (n + 1) - 1
      BY <1>3, <3>3
    <3>. QED  BY <2>1, <3>2, <3>3, <3>4
  <2>. QED  BY <2>1, <2>2, <2>3
<1>21. Traced'
  BY <1>1, <1>15 DEF TailInv, Traced
<1>. QED  BY <1>17, <1>18, <1>19, <1>20, <1>21 DEF TailInv

\* The control socket, and a worker that begins or ends: the wire stays, or is cut
\* short.
LEMMA TailKept ==
  ASSUME TailInv, UNCHANGED <<trace, made, events, wire, buf, enabled, shown, since>>,
         tail' = tail \/ (tail = "on" /\ tail' = "cut") \/ (tail = "linked" /\ tail' = "apart")
                      \/ (tail = "apart" /\ tail' = "linked")
  PROVE  TailInv'
<1>1. Seen' = Seen
  BY DEF Seen
<1>2. TailShape'
  BY DEF TailInv, TailShape
<1>3. InOrder'
  BY <1>1 DEF TailInv, InOrder
<1>4. HalfRead'
  BY DEF TailInv, HalfRead
<1>5. NoGap'
  BY <1>1 DEF TailInv, NoGap
<1>6. Traced'
  BY <1>1 DEF TailInv, Traced
<1>. QED  BY <1>2, <1>3, <1>4, <1>5, <1>6 DEF TailInv

\* The worker ends, having traced another generation or not.
LEMMA TailCut ==
  ASSUME TailInv, Ends, events' \in Nat, events <= events',
         \/ UNCHANGED <<events, made, trace>>
         \/ /\ events' = events + 1 /\ made' = made \cup {events'}
            /\ \E whole \in BOOLEAN : trace' = Append(trace, [id |-> events', whole |-> whole])
  PROVE  TailInv'
<1>1. UNCHANGED <<buf, enabled, shown, since>> /\ events \in Nat
  BY DEF Ends, TailInv, TailShape
<1>2. /\ TailShape' /\ InOrder' /\ HalfRead' /\ NoGap'
      /\ Seen' \subseteq Seen
  <2>1. CASE tail = "on"
    <3>1. PICK n \in 0..Len(wire) : wire' = SubSeq(wire, 1, n) /\ tail' = "cut"
      BY <2>1 DEF Ends
    <3>. QED  BY <1>1, <2>1, <3>1, CutShort
  <2>2. CASE tail # "on"
    <3>1. wire' = wire /\ tail' = (IF tail = "linked" THEN "apart" ELSE tail)
      BY <2>2 DEF Ends
    <3>2. Seen' = Seen
      BY <1>1, <3>1 DEF Seen
    <3>3. \A a : (a \in 1..events => a \in 1..events') /\ (a \in 1..events + 1 => a \in 1..events' + 1)
      BY <1>1, Later
    <3>4. TailShape'
      BY <1>1, <3>1 DEF TailInv, TailShape
    <3>5. InOrder'
      BY <1>1, <2>2, <3>1, <3>2, <3>3 DEF TailInv, InOrder
    <3>6. HalfRead'
      BY <1>1, <2>2, <3>1 DEF TailInv, HalfRead
    <3>7. NoGap'
      BY <1>1, <2>2, <3>1, <3>2, <3>3 DEF TailInv, NoGap
    <3>. QED  BY <3>2, <3>4, <3>5, <3>6, <3>7
  <2>. QED  BY <2>1, <2>2
<1>3. Traced'
  <2>1. CASE UNCHANGED <<events, made, trace>>
    BY <1>2, <2>1 DEF TailInv, Traced
  <2>2. ASSUME events' = events + 1, made' = made \cup {events'}, NEW whole \in BOOLEAN,
               trace' = Append(trace, [id |-> events', whole |-> whole])
        PROVE  Traced'
    <3>1. events' \notin Seen'
      BY <1>1, <1>2, <2>2 DEF TailInv, InOrder
    <3>2. \A b \in Seen' \cap made' : b \in Seen \cap made
      BY <1>2, <2>2, <3>1
    <3>. QED  BY <1>1, <2>2, <3>2, Recorded
  <2>. QED  BY <2>1, <2>2
<1>. QED  BY <1>2, <1>3 DEF TailInv

LEMMA InvTailStep ==
  ASSUME TailInv, [Next]_vars
  PROVE  TailInv'
<1>1. events \in Nat /\ events + 1 \in Nat /\ events <= events + 1 /\ events <= events
  BY DEF TailInv, TailShape
<1>2. CASE Publish
  <2>1. /\ TailShape' /\ InOrder' /\ HalfRead' /\ NoGap'
        /\ Seen' \subseteq Seen \cup {events'} /\ events' \notin Seen
    BY <1>2, Published DEF Publish
  <2>2. events' \notin made /\ made \subseteq 1..events'
    <3>1. made \subseteq 1..events /\ events' = events + 1
      BY <1>2 DEF Publish, TailInv, Traced
    <3>. QED  BY <1>1, <3>1
  <2>3. Traced'
    BY <1>2, <2>1, <2>2 DEF Publish, TailInv, Traced
  <2>. QED  BY <2>1, <2>3 DEF TailInv
<1>3. ASSUME NEW r \in DOMAIN requests, Composed(r) \/ Silent(r) PROVE TailInv'
  <2>1. /\ TailShape' /\ InOrder' /\ HalfRead' /\ NoGap'
        /\ Seen' \subseteq Seen \cup {events'} /\ events' \notin Seen
    BY <1>3, Published DEF Composed, Silent, Emitted
  <2>2. /\ events' = events + 1 /\ made' = made \cup {events'}
        /\ trace' = Append(trace, [id |-> events', whole |-> TRUE])
    BY <1>3 DEF Composed, Silent, Emitted
  <2>3. Traced'
    <3>1. \A b \in Seen' \cap made' : b \in Seen \cap made \/ b = events'
      BY <2>1, <2>2
    <3>. QED  BY <1>1, <2>2, <3>1, Recorded
  <2>. QED  BY <2>1, <2>3 DEF TailInv
<1>4. CASE Typed \/ Returned \/ Restart \/ Spawn \/ UNCHANGED vars
  BY <1>4, TailKept
     DEF Typed, Request, Returned, Reply, NoReply, TimedOut, Restart, Spawn, vars, console
<1>5. ASSUME NEW r \in DOMAIN requests, Dispatch(r) \/ Declined(r) \/ Failed(r) PROVE TailInv'
  BY <1>5, TailKept DEF Dispatch, Declined, Failed, console
<1>6. CASE Ended \/ Killed
  BY <1>1, <1>6, TailCut DEF Ended, Killed
<1>7. CASE KilledTracing
  BY <1>1, <1>7, TailCut DEF KilledTracing
<1>8. CASE Link
  BY <1>8, TailKept DEF Link, rest
<1>9. CASE Subscribe
  <2>1. /\ UNCHANGED <<events, made, trace, wire, buf, enabled, shown>> /\ wire = <<>> /\ buf = 0
        /\ tail' = "on" /\ since' = IF enabled THEN events + 1 ELSE 0
    BY <1>9 DEF Subscribe, rest, TailInv, HalfRead
  <2>2. Seen' = Seen
    BY <2>1 DEF Seen
  <2>3. TailShape' /\ HalfRead'
    BY <1>1, <2>1 DEF TailInv, TailShape, HalfRead
  <2>4. InOrder' /\ Traced'
    BY <2>1, <2>2 DEF TailInv, InOrder, Traced
  <2>5. NoGap'
    <3>1. \A a \in Seen : a \in 1..events
      BY DEF TailInv, InOrder
    <3>2. \A a \in 1..events : \A n \in events + 1..a : n \in Seen
      BY <1>1
    <3>3. (\A n \in events + 1..events : n \in Seen) /\ events + 1 \in 1..events + 1
      BY <1>1
    <3>. QED  BY <2>1, <2>2, <3>1, <3>2, <3>3 DEF NoGap
  <2>. QED  BY <2>3, <2>4, <2>5 DEF TailInv
<1>10. CASE Receive
  BY <1>10, InvReceive
<1>11. CASE HangUp
  <2>1. /\ UNCHANGED <<events, made, trace, wire, enabled, shown, since>> /\ wire = <<>>
        /\ tail' = "apart" /\ buf' = 0
    BY <1>11 DEF HangUp, rest
  <2>2. Seen' = Seen
    BY <2>1 DEF Seen
  <2>3. TailShape' /\ HalfRead'
    BY <1>1, <2>1 DEF TailInv, TailShape, HalfRead
  <2>4. InOrder' /\ Traced' /\ NoGap'
    BY <2>1, <2>2 DEF TailInv, InOrder, Traced, NoGap
  <2>. QED  BY <2>3, <2>4 DEF TailInv
<1>12. CASE Toggle
  <2>1. /\ UNCHANGED <<events, made, trace, tail, wire, buf, shown>> /\ enabled' = ~enabled
        /\ since' = IF enabled THEN 0 ELSE IF wire = <<>> THEN events + 1 ELSE wire[1]
    BY <1>12 DEF Toggle, rest
  <2>2. Seen' = Seen
    BY <2>1 DEF Seen
  <2>3. wire # <<>> => wire[1] \in 1..events /\ wire[1] \in Nat
    BY <1>1, Row
  <2>4. TailShape'
    BY <1>1, <2>1, <2>3 DEF TailInv, TailShape
  <2>5. InOrder' /\ HalfRead' /\ Traced'
    BY <2>1, <2>2 DEF TailInv, InOrder, HalfRead, Traced
  <2>6. NoGap'
    <3>1. CASE enabled
      BY <2>1, <3>1 DEF NoGap, TailInv, TailShape
    <3>2. CASE ~enabled /\ wire = <<>>
      <4>1. \A a \in Seen : a \in 1..events
        BY DEF TailInv, InOrder
      <4>2. \A a \in 1..events : \A n \in events + 1..a : n \in Seen
        BY <1>1
      <4>3. (\A n \in events + 1..events : n \in Seen) /\ events + 1 \in 1..events + 1
        BY <1>1
      <4>. QED  BY <2>1, <2>2, <3>2, <4>1, <4>2, <4>3 DEF NoGap
    <3>3. CASE ~enabled /\ wire # <<>>
      <4> DEFINE k == Len(wire)
      <4>1. /\ k \in Nat /\ k \in 1..k /\ 1 \in 1..k /\ wire[1] \in 1..events
            /\ \A i \in 1..k : wire[i] = wire[1] + i - 1 /\ wire[i] \in 1..events
        BY <3>3, Row
      <4>2. /\ \A i \in 1..Len(shown) : shown[i] < wire[1] /\ shown[i] \in 1..events
            /\ tail = "on" => wire[k] = events
        BY <3>3, <4>1, Row DEF TailInv, InOrder
      <4> HIDE DEF k
      <4>3. \A n \in wire[1]..wire[k] : n \in Seen
        <5>1. ASSUME NEW n \in wire[1]..wire[k] PROVE \E i \in 1..k : wire[i] = n
          <6> DEFINE w == wire[1]
          <6>1. w \in Nat /\ n \in Int /\ w <= n /\ n <= w + k - 1
            BY <4>1
          <6> HIDE DEF w
          <6>2. n - w + 1 \in 1..k /\ w + (n - w + 1) - 1 = n
            BY <4>1, <6>1
          <6>3. wire[n - w + 1] = w + (n - w + 1) - 1
            BY <4>1, <6>2 DEF w
          <6>. QED  BY <6>2, <6>3
        <5>. QED  BY <5>1, SeenAt DEF k
      <4>4. ASSUME NEW a \in Seen, NEW n \in wire[1]..a PROVE n \in Seen
        <5>1. CASE \E i \in 1..Len(shown) : shown[i] = a
          BY <1>1, <4>1, <4>2, <5>1
        <5>2. ASSUME NEW i \in 1..k, wire[i] = a PROVE n \in Seen
          <6>1. wire[i] <= wire[k]
            <7>1. wire[1] \in Nat /\ i \in Nat /\ i <= k
              BY <1>1, <4>1
            <7>2. \A w \in Nat : w + i - 1 <= w + k - 1
              BY <4>1, <7>1
            <7>. QED  BY <4>1, <7>1, <7>2
          <6>2. n \in wire[1]..wire[k]
            BY <1>1, <4>1, <5>2, <6>1
          <6>. QED  BY <4>3, <6>2
        <5>. QED  BY <5>1, <5>2, SeenAt DEF k
      <4>5. wire[1] \in 1..events + 1 /\ wire[1] <= wire[1]
        BY <1>1, <4>1
      <4>6. tail = "on" => \A n \in wire[1]..events : n \in Seen
        BY <4>2, <4>3
      <4>. QED  BY <2>1, <2>2, <3>3, <4>4, <4>5, <4>6 DEF NoGap
    <3>. QED  BY <3>1, <3>2, <3>3 DEF TailInv, TailShape
  <2>. QED  BY <2>4, <2>5, <2>6 DEF TailInv
<1>. QED
  BY <1>2, <1>3, <1>4, <1>5, <1>6, <1>7, <1>8, <1>9, <1>10, <1>11, <1>12 DEF Next, Served

\* The last event that went down the stream is the greatest.
LEMMA LastSeen ==
  ASSUME TailInv, Seen # {}
  PROVE  \E m \in Seen : \A n \in Seen : n <= m
<1> DEFINE k == Len(wire)
           l == Len(shown)
<1>1. /\ k \in Nat /\ l \in Nat
      /\ \A i \in 1..k : wire[i] \in Nat
      /\ \A i \in 1..l : shown[i] \in Nat
  BY Members DEF TailInv, TailShape
<1>2. /\ \A i, j \in 1..l : i < j => shown[i] < shown[j]
      /\ \A i \in 1..l, j \in 1..k : shown[i] < wire[j]
      /\ \A i \in 1..k : wire[i] = wire[1] + i - 1
  BY DEF TailInv, InOrder
<1>3. \A n : n \in Seen <=> (\E i \in 1..l : shown[i] = n) \/ (\E i \in 1..k : wire[i] = n)
  BY SeenAt
<1> HIDE DEF k, l
<1>4. CASE k > 0
  <2>1. k \in 1..k /\ 1 \in 1..k
    BY <1>1, <1>4
  <2>2. ASSUME NEW i \in 1..k PROVE wire[i] <= wire[k]
    <3>1. \A w \in Nat : w + i - 1 <= w + k - 1
      BY <1>1
    <3>. QED  BY <1>1, <1>2, <2>1, <3>1
  <2>3. \A i \in 1..l : shown[i] <= wire[k]
    BY <1>1, <1>2, <2>1
  <2>. QED  BY <1>3, <2>1, <2>2, <2>3
<1>5. CASE k = 0 /\ l > 0
  <2>1. l \in 1..l /\ \A i \in 1..l : i < l \/ i = l
    BY <1>1, <1>5
  <2>2. \A i \in 1..l : shown[i] <= shown[l]
    BY <1>1, <1>2, <2>1
  <2>3. \A i \in 1..k : FALSE
    BY <1>5
  <2>. QED  BY <1>3, <2>1, <2>2, <2>3
<1>6. CASE k = 0 /\ l = 0
  <2>1. \A i : i \notin 1..k /\ i \notin 1..l
    BY <1>6
  <2>. QED  BY <1>3, <2>1
<1>. QED  BY <1>1, <1>4, <1>5, <1>6

\* How far the stream has come: to what is last on the wire, or else was shown last.
LEMMA OwedInv ==
  ASSUME TailInv, enabled
  PROVE  \E m \in since - 1..events :
           /\ {n \in Seen : n >= since} = since..m
           /\ ToSet(wire) \subseteq since..m
           /\ tail = "on" => m = events
<1>1. /\ events \in Nat /\ since \in 1..events + 1
      /\ \A a \in Seen : a \in 1..events /\ \A n \in since..a : n \in Seen
      /\ tail = "on" => \A n \in since..events : n \in Seen
  BY DEF TailInv, TailShape, InOrder, NoGap
<1>2. \A a \in ToSet(wire) : a \in Seen /\ a >= since
  <2>1. ASSUME NEW i \in 1..Len(wire) PROVE wire[i] >= since
    <3>1. wire # <<>> /\ wire[i] \in 1..events /\ wire[i] = wire[1] + i - 1 /\ wire[1] \in 1..events
      <4>1. Len(wire) \in Nat /\ (wire = <<>> <=> Len(wire) = 0)
        BY Row
      <4>2. wire # <<>>
        BY <4>1
      <4>. QED  BY <4>2, Row
    <3>2. since <= wire[1]
      BY <3>1 DEF TailInv, NoGap
    <3>3. \A w \in Nat : since <= w => w + i - 1 >= since
      BY <1>1
    <3>. QED  BY <1>1, <3>1, <3>2, <3>3
  <2>2. wire \in Seq(Nat)
    BY DEF TailInv, TailShape
  <2>3. \A a : a \in ToSet(wire) <=> \E i \in 1..Len(wire) : wire[i] = a
    BY <2>2, Members
  <2>. QED  BY <2>1, <2>3 DEF Seen
<1>3. CASE \A a \in Seen : a < since
  <2>1. since - 1 \in since - 1..events
    BY <1>1
  <2>2. {n \in Seen : n >= since} = since..since - 1
    BY <1>1, <1>3
  <2>3. ToSet(wire) \subseteq since..since - 1
    BY <1>1, <1>2, <1>3
  <2>4. tail = "on" => since - 1 = events
    <3>1. CASE tail = "on" /\ since <= events
      BY <1>1, <1>3, <3>1
    <3>. QED  BY <1>1, <3>1
  <2>. QED  BY <2>1, <2>2, <2>3, <2>4
<1>4. CASE \E a \in Seen : a >= since
  <2>1. PICK m \in Seen : \A n \in Seen : n <= m
    BY <1>4, LastSeen
  <2>2. \A n \in Seen : n <= m
    BY <2>1
  <2>3. m \in Seen /\ m >= since /\ m \in 1..events /\ m \in since - 1..events
    <3>1. PICK a \in Seen : a >= since
      BY <1>4
    <3>2. m \in 1..events /\ a \in 1..events /\ a <= m
      BY <1>1, <2>1, <3>1
    <3>. QED  BY <1>1, <3>1, <3>2
  <2>4. {n \in Seen : n >= since} = since..m
    <3>1. \A n \in {b \in Seen : b >= since} : n \in since..m
      BY <1>1, <2>2, <2>3
    <3>2. \A n \in since..m : n \in Seen /\ n >= since
      BY <1>1, <2>3
    <3>. QED  BY <3>1, <3>2
  <2>5. ToSet(wire) \subseteq since..m
    BY <1>2, <2>4
  <2>6. tail = "on" => m = events
    <3>1. tail = "on" => events \in Seen /\ events >= since
      BY <1>1, <2>3
    <3>. QED  BY <1>1, <2>2, <2>3, <3>1
  <2>. QED  BY <2>3, <2>4, <2>5, <2>6
<1>5. \A a \in Seen : a < since \/ a >= since
  BY <1>1
<1>. QED  BY <1>3, <1>4, <1>5

LEMMA TailInvIsFaithful ==
  ASSUME TailInv
  PROVE  TailFaithful
<1> DEFINE passed == shown \o wire
           k == Len(wire)
           l == Len(shown)
<1>1. shown \in Seq(Nat) /\ wire \in Seq(Nat) /\ k \in Nat /\ l \in Nat
  BY Members DEF TailInv, TailShape
<1>2. /\ passed \in Seq(Nat) /\ Len(passed) = l + k
      /\ \A i \in 1..l + k : passed[i] = IF i <= l THEN shown[i] ELSE wire[i - l]
  BY <1>1, ConcatProperties
<1> HIDE DEF passed, k, l
<1>3. \A n : n \in ToSet(passed) <=> n \in Seen
  <2>1. \A n : n \in ToSet(passed) <=> \E i \in 1..l + k : passed[i] = n
    BY <1>2, Members
  <2>2. \A n : n \in Seen <=> (\E i \in 1..l : shown[i] = n) \/ (\E i \in 1..k : wire[i] = n)
    BY SeenAt DEF k, l
  <2>3. \A i \in 1..l : i \in 1..l + k /\ passed[i] = shown[i]
    BY <1>1, <1>2
  <2>4. ASSUME NEW i \in 1..k PROVE l + i \in 1..l + k /\ passed[l + i] = wire[i]
    <3>1. l + i \in 1..l + k /\ ~(l + i <= l) /\ (l + i) - l = i
      BY <1>1
    <3>. QED  BY <1>2, <3>1
  <2>5. ASSUME NEW i \in 1..l + k
        PROVE  (i \in 1..l /\ passed[i] = shown[i]) \/ (i - l \in 1..k /\ passed[i] = wire[i - l])
    BY <1>1, <1>2
  <2>. QED  BY <2>1, <2>2, <2>3, <2>4, <2>5
<1>4. ASSUME NEW i \in 2..Len(passed) PROVE passed[i - 1] < passed[i]
  <2>1. i - 1 \in 1..l + k /\ i \in 1..l + k
    BY <1>1, <1>2
  <2>2. /\ \A a, b \in 1..l : a < b => shown[a] < shown[b]
        /\ \A a \in 1..l, b \in 1..k : shown[a] < wire[b]
        /\ \A a \in 1..k : wire[a] = wire[1] + a - 1
    BY DEF TailInv, InOrder, k, l
  <2>3. CASE i <= l
    <3>1. i - 1 \in 1..l /\ i \in 1..l /\ i - 1 < i /\ i - 1 <= l
      BY <1>1, <2>1, <2>3
    <3>2. passed[i - 1] = shown[i - 1] /\ passed[i] = shown[i]
      BY <1>2, <2>1, <2>3, <3>1
    <3>. QED  BY <2>2, <3>1, <3>2
  <2>4. CASE i = l + 1
    <3>1. i - 1 \in 1..l /\ i - 1 <= l /\ i - l = 1 /\ 1 \in 1..k /\ ~(i <= l)
      BY <1>1, <2>1, <2>4
    <3>2. passed[i - 1] = shown[i - 1] /\ passed[i] = wire[1]
      BY <1>2, <2>1, <3>1
    <3>. QED  BY <2>2, <3>1, <3>2
  <2>5. CASE i > l + 1
    <3>1. /\ ~(i - 1 <= l) /\ ~(i <= l) /\ i - l \in 1..k
          /\ (i - 1) - l \in 1..k /\ 1 \in 1..k
      BY <1>1, <2>1, <2>5
    <3>2. passed[i - 1] = wire[1] + ((i - 1) - l) - 1 /\ passed[i] = wire[1] + (i - l) - 1
      BY <1>2, <2>1, <2>2, <3>1
    <3>3. wire[1] \in Nat
      BY <1>1, <3>1, ElementOfSeq DEF k
    <3>4. \A w \in Nat : w + ((i - 1) - l) - 1 < w + (i - l) - 1
      BY <1>1
    <3>. QED  BY <3>2, <3>3, <3>4
  <2>. QED  BY <1>1, <2>3, <2>4, <2>5
<1>5. ASSUME enabled
      PROVE  \E m \in since - 1..events :
               /\ {n \in ToSet(passed) : n >= since} = since..m
               /\ ToSet(wire) \subseteq since..m
               /\ tail = "on" => m = events
  <2>1. ToSet(passed) = Seen
    BY <1>3
  <2>. QED  BY <1>5, <2>1, OwedInv
<1>6. ASSUME NEW n \in ToSet(shown) \cap made
      PROVE  \E i \in DOMAIN trace :
               trace[i].id = n /\ (n \in Generations \/ (i > 1 /\ ~trace[i - 1].whole))
  <2>1. PICK i \in 1..Len(trace) : trace[i].id = n /\ trace[i].whole
    BY DEF TailInv, Traced, Seen
  <2>2. DOMAIN trace = 1..Len(trace) /\ Len(trace) \in Nat
    BY LenProperties DEF TailInv, Traced
  <2>3. CASE i > 1 /\ ~trace[i - 1].whole
    BY <2>1, <2>2, <2>3
  <2>4. CASE ~(i > 1 /\ ~trace[i - 1].whole)
    <3>1. i > 1 => trace[i - 1].whole = TRUE
      <4>1. ASSUME i > 1 PROVE trace[i - 1] \in [id : Nat, whole : BOOLEAN]
        <5>1. i - 1 \in 1..Len(trace)
          BY <2>2, <4>1
        <5>2. trace \in Seq([id : Nat, whole : BOOLEAN])
          BY DEF TailInv, Traced
        <5>. QED  BY <5>1, <5>2, ElementOfSeq
      <4>. QED  BY <2>4, <4>1
    <3>2. i \in {j \in DOMAIN trace : trace[j].whole /\ (j > 1 => trace[j - 1].whole)}
      BY <2>1, <2>2, <3>1
    <3>3. n \in Generations
      BY <2>1, <3>2 DEF Generations
    <3>. QED  BY <2>1, <2>2, <3>3
  <2>. QED  BY <2>3, <2>4
<1>. QED  BY <1>4, <1>5, <1>6 DEF TailFaithful, passed

LEMMA InitTail == Init => TailInv
<1> SUFFICES ASSUME Init PROVE TailInv
  OBVIOUS
<1>1. /\ events = 0 /\ buf = 0 /\ wire = <<>> /\ shown = <<>> /\ made = {} /\ trace = <<>>
      /\ tail = "apart" /\ enabled \in BOOLEAN /\ since = IF enabled THEN 1 ELSE 0
  BY DEF Init
<1>2. Seen = {}
  BY <1>1 DEF Seen, ToSet
<1>3. Len(<<>>) = 0 /\ <<>> \in Seq(Nat) /\ <<>> \in Seq([id : Nat, whole : BOOLEAN])
  BY EmptySeq
<1>4. TailShape
  BY <1>1, <1>3 DEF TailShape
<1>5. InOrder /\ HalfRead /\ NoGap /\ Traced
  BY <1>1, <1>2, <1>3 DEF InOrder, HalfRead, NoGap, Traced
<1>. QED  BY <1>4, <1>5 DEF TailInv

\* While it is on, the tail prints every event from the first it owes, once and in
\* order, up to where the worker died; and what it has printed of the model's lines
\* is in the trace.
THEOREM StreamFaithful == Spec => []TailFaithful
<1>1. TailInv /\ [Next]_vars => TailInv'
  BY InvTailStep
<1>2. TailInv => TailFaithful
  BY TailInvIsFaithful
<1>. QED  BY <1>1, <1>2, InitTail, PTL DEF Spec

\* The half that is kept is of what comes next on the wire.
LEMMA ReadHalf ==
  ASSUME TailInv, Receive
  PROVE  buf' = 0 \/ (wire' # <<>> /\ buf' = wire'[1])
<1>1. TailInv'
  BY InvReceive
<1>2. PICK n \in 0..Len(wire), half \in BOOLEAN :
        /\ (half => n < Len(wire)) /\ (n = 0 => half)
        /\ wire' = SubSeq(wire, n + 1, Len(wire))
        /\ buf' = (IF half /\ (n > 0 \/ buf = 0) THEN wire[n + 1] ELSE IF n > 0 THEN 0 ELSE buf)
  BY DEF Receive
<1>3. wire \in Seq(Nat) /\ Len(wire) \in Nat /\ n \in 0..Len(wire) /\ Len(wire) \in n..Len(wire)
  BY Members DEF TailInv, TailShape
<1>4. wire' \in Seq(Nat) /\ Len(wire') = Len(wire) - n
  BY <1>2, <1>3, Part
<1>5. half => wire' # <<>>
  <2>1. half => Len(wire') # 0
    BY <1>2, <1>3, <1>4
  <2>. QED  BY <1>4, <2>1, EmptySeq
<1>6. buf' = 0 \/ half
  BY <1>2, <1>3
<1>. QED  BY <1>1, <1>5, <1>6 DEF TailInv, HalfRead

-------------------------------------------------------------------------------
(* The types *)

\* Whoever waits, waited before, or has just typed a command.
LEMMA WaitingStep ==
  ASSUME Inv, Next
  PROVE  \/ UNCHANGED Waiting
         \/ Waiting' \subseteq Waiting
         \/ Typed /\ Waiting' \subseteq Waiting \cup {Len(requests) + 1}
<1>1. requests \in Seq(RequestRecord) /\ DOMAIN requests = 1..Len(requests) /\ Len(requests) \in Nat
  BY LenProperties DEF Inv
<1>2. ASSUME NEW cmd \in Commands, Request(cmd)
      PROVE  Waiting' \subseteq Waiting \cup {Len(requests) + 1}
  <2> DEFINE q == [cmd |-> cmd, did |-> FALSE, sent |-> FALSE,
                   worker |-> IF worker = "up" THEN number ELSE 0,
                   state |-> IF worker = "up" THEN "sent" ELSE "refused",
                   out |-> IF worker = "up" THEN "waiting" ELSE "error"]
  <2>1. requests' = Append(requests, q)
    BY <1>2 DEF Request
  <2>2. q \in RequestRecord
    BY DEF Inv, RequestRecord
  <2> HIDE DEF q
  <2>3. /\ DOMAIN requests' = 1..Len(requests) + 1
        /\ \A i \in 1..Len(requests) : requests'[i] = requests[i]
    BY <1>1, <2>1, <2>2, AppendProperties, LenProperties
  <2>. QED  BY <1>1, <2>3 DEF Waiting
<1>3. ASSUME NEW r \in DOMAIN requests, NEW q \in RequestRecord, requests' = [requests EXCEPT ![r] = q],
             q.out = "waiting" => requests[r].out = "waiting"
      PROVE  Waiting' \subseteq Waiting
  BY <1>1, <1>3 DEF Waiting
<1>4. ASSUME NEW r \in DOMAIN requests,
             Dispatch(r) \/ Declined(r) \/ Composed(r) \/ Silent(r) \/ Failed(r)
      PROVE  Waiting' \subseteq Waiting
  <2>1. requests[r] \in RequestRecord
    BY RequestTyped
  <2>2. PICK q \in RequestRecord : requests' = [requests EXCEPT ![r] = q] /\ q.out = requests[r].out
    <3> DEFINE p == requests[r]
               running == [p EXCEPT !.state = "running"]
               done == [p EXCEPT !.state = "done", !.did = TRUE]
               sent == [p EXCEPT !.state = "done", !.did = TRUE, !.sent = (worker = "up")]
               declined == [p EXCEPT !.state = "declined"]
               failed == [p EXCEPT !.state = "failed"]
    <3>1. /\ running \in RequestRecord /\ running.out = p.out /\ done \in RequestRecord /\ done.out = p.out
          /\ sent \in RequestRecord /\ sent.out = p.out /\ failed \in RequestRecord /\ failed.out = p.out
          /\ declined \in RequestRecord /\ declined.out = p.out
      BY <2>1 DEF RequestRecord, Answers
    <3>2. \/ requests' = [requests EXCEPT ![r] = running] \/ requests' = [requests EXCEPT ![r] = done]
          \/ requests' = [requests EXCEPT ![r] = sent] \/ requests' = [requests EXCEPT ![r] = failed]
          \/ requests' = [requests EXCEPT ![r] = declined]
      BY <1>4 DEF Dispatch, Declined, Composed, Silent, Failed
    <3> HIDE DEF running, done, sent, declined, failed
    <3>. QED  BY <3>1, <3>2
  <2>. QED  BY <1>3, <2>2
<1>5. ASSUME NEW r \in DOMAIN requests, Reply(r) \/ NoReply(r) \/ TimedOut(r)
      PROVE  Waiting' \subseteq Waiting
  <2>1. PICK q : requests' = [requests EXCEPT ![r] = q]
    BY <1>5 DEF Reply, NoReply, TimedOut
  <2>2. r \in Waiting
    BY <1>5 DEF Reply, NoReply, TimedOut, Waiting
  <2>. QED  BY <1>1, <2>1, <2>2 DEF Waiting
<1>6. CASE Ends
  BY <1>6 DEF Ends, Waiting
<1>7. CASE Publish \/ Restart \/ Spawn \/ Link \/ Subscribe \/ Receive \/ HangUp \/ Toggle
  <2>1. requests' = requests
    BY <1>7 DEF Publish, Restart, Spawn, Link, Subscribe, Receive, HangUp, Toggle, rest
  <2>. QED  BY <2>1 DEF Waiting
<1>. QED
  BY <1>2, <1>4, <1>5, <1>6, <1>7 DEF Next, Typed, Served, Returned, Ended, Killed, KilledTracing

LEMMA TypeStep ==
  ASSUME Inv, Inv', TailInv, TailInv', TypeOK, [Next]_vars
  PROVE  TypeOK'
<1>1. /\ worker' \in {"up", "ending", "down"} /\ number' \in 1..MaxWorkers
      /\ tail' \in {"apart", "linked", "on", "cut"} /\ (due' => worker' # "down")
  <2>1. number \in Nat /\ MaxWorkers \in Nat
    BY FeedAssumption DEF Inv
  <2>2. CASE Ended \/ Killed \/ KilledTracing
    BY <2>2 DEF Ended, Killed, KilledTracing, Ends, TypeOK
  <2>3. CASE Publish \/ Restart
    BY <2>3 DEF Publish, Restart, console, TypeOK
  <2>8. CASE Typed \/ Returned
    <3>1. UNCHANGED <<worker, number, due, tail>>
      BY <2>8 DEF Typed, Request, Returned, Reply, NoReply, TimedOut, console
    <3>. QED  BY <3>1 DEF TypeOK
  <2>7. CASE Served
    <3>1. PICK r \in DOMAIN requests :
            Dispatch(r) \/ Declined(r) \/ Composed(r) \/ Silent(r) \/ Failed(r)
      BY <2>7 DEF Served
    <3>. QED  BY <3>1 DEF Dispatch, Declined, Composed, Silent, Failed, console, TypeOK
  <2>4. CASE Spawn
    BY <2>1, <2>4 DEF Spawn, console, TypeOK
  <2>5. CASE Link \/ Subscribe \/ Receive \/ HangUp \/ Toggle
    BY <2>5 DEF Link, Subscribe, Receive, HangUp, Toggle, rest, TypeOK
  <2>6. CASE UNCHANGED vars
    BY <2>6 DEF vars, console, TypeOK
  <2>. QED  BY <2>2, <2>3, <2>4, <2>5, <2>6, <2>7, <2>8 DEF Next
<1>2. /\ events' \in 0..MaxEvents
      /\ {trace'[i].id : i \in DOMAIN trace'} \subseteq made'
  <2>1. events \in Nat /\ MaxEvents \in Nat /\ events <= MaxEvents
    BY FeedAssumption DEF TailInv, TailShape, TypeOK
  <2>2. ASSUME events < MaxEvents, events' = events + 1, made' = made \cup {events'},
               NEW whole \in BOOLEAN, trace' = Append(trace, [id |-> events', whole |-> whole])
        PROVE  <1>2!1 /\ <1>2!2
    <3> DEFINE q == [id |-> events', whole |-> whole]
    <3>1. trace \in Seq([id : Nat, whole : BOOLEAN]) /\ q \in [id : Nat, whole : BOOLEAN] /\ q.id = events'
      BY <2>1, <2>2 DEF TailInv, Traced
    <3>2. trace' = Append(trace, q)
      BY <2>2
    <3> HIDE DEF q
    <3>3. /\ DOMAIN trace' = 1..Len(trace) + 1 /\ Len(trace) \in Nat /\ DOMAIN trace = 1..Len(trace)
          /\ \A i \in 1..Len(trace) : trace'[i] = trace[i]
          /\ trace'[Len(trace) + 1] = q
      BY <3>1, <3>2, AppendProperties, LenProperties
    <3>4. \A i \in DOMAIN trace : trace[i].id \in made
      BY DEF TypeOK
    <3>5. ASSUME NEW i \in DOMAIN trace' PROVE trace'[i].id \in made'
      <4>1. CASE i \in 1..Len(trace)
        BY <2>2, <3>3, <3>4, <4>1
      <4>2. CASE i = Len(trace) + 1
        BY <2>2, <3>1, <3>3, <4>2
      <4>. QED  BY <3>3, <4>1, <4>2
    <3>. QED  BY <2>1, <2>2, <3>5
  <2>3. ASSUME UNCHANGED <<trace, made>>, events' = events \/ (events < MaxEvents /\ events' = events + 1)
        PROVE  <1>2!1 /\ <1>2!2
    BY <2>1, <2>3 DEF TypeOK
  <2>4. CASE Publish \/ Typed \/ Returned \/ Restart \/ Spawn \/ Link \/ Subscribe \/ Receive \/ HangUp \/ Toggle
             \/ Ended \/ Killed \/ UNCHANGED vars
    BY <2>3, <2>4 DEF Publish, Typed, Request, Returned, Reply, NoReply, TimedOut, Restart, Spawn,
                      Link, Subscribe, Receive, HangUp, Toggle, rest, console, Ended, Killed, vars
  <2>5. ASSUME NEW r \in DOMAIN requests, Dispatch(r) \/ Declined(r) \/ Failed(r)
        PROVE  <1>2!1 /\ <1>2!2
    BY <2>3, <2>5 DEF Dispatch, Declined, Failed
  <2>6. ASSUME NEW r \in DOMAIN requests, Composed(r) \/ Silent(r) PROVE <1>2!1 /\ <1>2!2
    BY <2>2, <2>6 DEF Composed, Silent, Emitted
  <2>7. CASE KilledTracing
    BY <2>2, <2>7 DEF KilledTracing
  <2>. QED  BY <2>4, <2>5, <2>6, <2>7 DEF Next, Served
<1>3. buf' \in 0..MaxEvents
  <2>1. events' \in Nat /\ MaxEvents \in Nat /\ events' <= MaxEvents /\ buf' \in Nat
    BY <1>2, FeedAssumption DEF TailInv, TailShape
  <2>2. CASE wire' # <<>> /\ buf' = wire'[1]
    <3>1. wire'[1] \in Seen'
      <4>1. wire' \in Seq(Nat) /\ 1 \in 1..Len(wire')
        BY <2>2, Members DEF TailInv, TailShape
      <4>. QED  BY <4>1, Members DEF Seen
    <3>. QED  BY <2>1, <2>2, <3>1 DEF TailInv, InOrder
  <2>3. CASE buf' = buf
    BY <2>3 DEF TypeOK
  <2>4. CASE buf' = 0
    BY <2>1, <2>4
  <2>5. CASE Receive
    <3>1. buf = 0 \/ buf = wire[1]
      BY <2>5 DEF Receive, TailInv, HalfRead
    <3>2. tail' = tail /\ wire # <<>>
      BY <2>5 DEF Receive
    <3>3. buf' = 0 \/ (wire' # <<>> /\ buf' = wire'[1])
      BY <2>5, ReadHalf
    <3>. QED  BY <2>2, <2>4, <3>3
  <2>6. CASE ~Receive
    <3>1. buf' = buf \/ buf' = 0
      BY <2>6 DEF Next, Publish, Typed, Request, Returned, Reply, NoReply, TimedOut, Restart, Spawn,
                  Link, Subscribe, HangUp, Toggle, rest, console, Ended, Killed, KilledTracing, Ends,
                  Served, Dispatch, Declined, Composed, Silent, Failed, vars
    <3>. QED  BY <2>3, <2>4, <3>1
  <2>. QED  BY <2>5, <2>6
<1>4. Cardinality(Waiting)' <= Terminals
  <2>1. Terminals \in Nat /\ Cardinality(Waiting) <= Terminals
    BY FeedAssumption DEF TypeOK
  <2>2. IsFiniteSet(Waiting) /\ Cardinality(Waiting) \in Nat
    <3>1. DOMAIN requests = 1..Len(requests) /\ Len(requests) \in Nat
      BY LenProperties DEF Inv
    <3>2. IsFiniteSet(DOMAIN requests)
      BY <3>1, FS_Interval
    <3>. QED  BY <3>2, FS_Subset, FS_CardinalityType DEF Waiting
  <2>3. CASE Waiting' \subseteq Waiting
    <3>1. Cardinality(Waiting') <= Cardinality(Waiting) /\ Cardinality(Waiting') \in Nat
      BY <2>2, <2>3, FS_Subset, FS_CardinalityType
    <3>. QED  BY <2>1, <2>2, <3>1
  <2>4. CASE Typed /\ Waiting' \subseteq Waiting \cup {Len(requests) + 1}
    <3> DEFINE W == Waiting \cup {Len(requests) + 1}
    <3>1. Cardinality(Waiting) < Terminals
      BY <2>4 DEF Typed, Request
    <3>2. IsFiniteSet(W) /\ Cardinality(W) <= Cardinality(Waiting) + 1 /\ Cardinality(W) \in Nat
      BY <2>2, FS_AddElement, FS_CardinalityType
    <3> HIDE DEF W
    <3>3. Cardinality(Waiting') <= Cardinality(W) /\ Cardinality(Waiting') \in Nat
      BY <2>4, <3>2, FS_Subset, FS_CardinalityType DEF W
    <3>. QED  BY <2>1, <2>2, <3>1, <3>2, <3>3
  <2>5. CASE UNCHANGED vars
    BY <2>5 DEF vars, TypeOK, Waiting
  <2>. QED  BY <2>3, <2>4, <2>5, WaitingStep
<1>5. \A r \in InHand' : worker' # "down" /\ requests'[r].worker = number'
  BY DEF Inv, InHand, Sound
<1>6. made' \subseteq 1..events' /\ (tail' \in {"apart", "linked"} => wire' = <<>>)
  BY DEF TailInv, Traced, HalfRead
<1>. QED  BY <1>1, <1>2, <1>3, <1>4, <1>5, <1>6 DEF TypeOK

\* The types; a worker that is gone has nothing in hand and no restart to come; a
\* terminal types one command at a time.
THEOREM Typing == Spec => []TypeOK
<1>1. Init => Inv /\ TailInv /\ TypeOK
  <2> SUFFICES ASSUME Init PROVE TypeOK
    BY InitInv, InitTail
  <2>1. /\ requests = <<>> /\ trace = <<>> /\ DOMAIN requests = {} /\ DOMAIN trace = {}
        /\ worker = "up" /\ number = 1 /\ due = FALSE /\ events = 0 /\ made = {} /\ buf = 0
        /\ tail = "apart" /\ wire = <<>>
    BY DEF Init
  <2>2. Waiting = {} /\ InHand = {}
    BY <2>1 DEF Waiting, InHand
  <2>3. Cardinality({}) = 0
    BY FS_EmptySet
  <2>. QED  BY <2>1, <2>2, <2>3, FeedAssumption DEF TypeOK
<1>2. Inv /\ TailInv /\ TypeOK /\ [Next]_vars => (Inv /\ TailInv /\ TypeOK)'
  BY InvInductive, InvTailStep, TypeStep
<1>. QED  BY <1>1, <1>2, PTL DEF Spec

-------------------------------------------------------------------------------
(* The supervisor *)

\* Where the main loop is when a worker may be alive: it waits for one, or was
\* interrupted while it did.
MayRun == {"wait", "final", "finalGrace"}

\* The inductive invariant: in every other place there is none, unless a second
\* Ctrl-C ended the supervisor; and no worker is spawned any more beside a stray.
LifeInv ==
  /\ WorkersTypeOK
  /\ Alive => mpc \in MayRun \/ (mpc = "done" /\ interrupts = 2)
  /\ stray => mpc \in {"final", "finalGrace", "done"}

\* The steps of the main loop.
LEMMA LifeMain == ASSUME LifeInv, Sup!Main PROVE LifeInv'
<1> USE SupervisorAssumption
    DEF SupervisorAssumption, LifeInv, MayRun, Alive, Sup!Alive, WorkersTypeOK,
        Sup!procVars, Sup!sockVars, Sup!flagVars, Sup!ctrlVars
<1>1. CASE Sup!CheckStop
  BY <1>1 DEF Sup!CheckStop, MainPC
<1>2. CASE Sup!Spawn
  <2>1. child' \in Nat /\ proc' = "up" /\ mpc' = "wait"
    BY <1>2 DEF Sup!Spawn
  <2>2. UNCHANGED <<spc, stopFlag, victim, backoff, served, asked, missed, interrupts, stray>>
        /\ restartFlag' = FALSE /\ code' = "none" /\ ~stray
    BY <1>2 DEF Sup!Spawn
  <2>3. WorkersTypeOK'
    BY <2>1, <2>2 DEF MainPC
  <2>. QED  BY <2>1, <2>2, <2>3
<1>3. CASE Sup!WaitReturns
  BY <1>3 DEF Sup!WaitReturns, MainPC
<1>4. CASE Sup!Decide
  BY <1>4 DEF Sup!Decide, MainPC
<1>5. CASE Sup!Settled
  BY <1>5 DEF Sup!Settled, MainPC
<1>6. CASE Sup!BackedOff
  BY <1>6 DEF Sup!BackedOff, MainPC
<1>7. CASE Sup!FinalTerminate
  BY <1>7 DEF Sup!FinalTerminate, MainPC
<1>8. CASE Sup!FinalGrace
  BY <1>8 DEF Sup!FinalGrace, MainPC, ExitStatus, ZeroStatus
<1>. QED  BY <1>1, <1>2, <1>3, <1>4, <1>5, <1>6, <1>7, <1>8 DEF Sup!Main

\* The first Ctrl-C leaves the loop with its worker, for the last _terminate_child,
\* the second leaves that.
LEMMA LifeInterrupt == ASSUME LifeInv, Sup!CtrlC PROVE LifeInv'
<1> USE DEF LifeInv, MayRun, Alive, WorkersTypeOK, Sup!procVars, Sup!sockVars, Sup!flagVars,
            MainPC
<1>1. \/ mpc' = "final" /\ interrupts' = 1 /\ mpc # "done" /\ interrupts = 0
      \/ mpc' = "done" /\ interrupts' = 2 /\ mpc \in {"final", "finalGrace"}
  BY DEF Sup!CtrlC, Sup!Interrupt, Sup!InterruptInSpawn, Sup!InterruptAgain
<1>2. /\ UNCHANGED <<backoff, child, proc, code, spc, victim, served, asked, missed>>
      /\ stopFlag' \in BOOLEAN /\ restartFlag' \in BOOLEAN /\ stray' \in BOOLEAN
  BY DEF Sup!CtrlC, Sup!Interrupt, Sup!InterruptInSpawn, Sup!InterruptAgain
<1>. QED  BY <1>1, <1>2

\* The socket thread wakes no worker.
LEMMA LifeSock == ASSUME LifeInv, Sup!Command \/ Sup!Sock PROVE LifeInv'
<1> USE SupervisorAssumption
    DEF SupervisorAssumption, LifeInv, MayRun, Alive, Sup!Alive, WorkersTypeOK,
        Sup!mainVars, Sup!procVars, Sup!sockVars, Sup!flagVars
<1>1. CASE Sup!Command
  <2>1. served' \in 0..MaxCommands /\ asked' \in Nat
    BY <1>1 DEF Sup!Command, Sup!RecvRestart, Sup!RecvStop
  <2>2. spc' \in SockPC /\ restartFlag' \in BOOLEAN /\ stopFlag' \in BOOLEAN
    BY <1>1 DEF Sup!Command, Sup!RecvRestart, Sup!RecvStop, SockPC
  <2>3. UNCHANGED <<mpc, child, proc, code, victim, backoff, missed, interrupts, stray>>
    BY <1>1 DEF Sup!Command, Sup!RecvRestart, Sup!RecvStop
  <2>. QED  BY <2>1, <2>2, <2>3
<1>2. CASE Sup!SockLoopEnds
  BY <1>2 DEF Sup!SockLoopEnds, SockPC
<1>3. CASE Sup!LookupVictim
  BY <1>3 DEF Sup!LookupVictim, SockPC
<1>4. CASE Sup!GraceOver
  BY <1>4 DEF Sup!GraceOver, SockPC, ExitStatus, ZeroStatus
<1>. QED  BY <1>1, <1>2, <1>3, <1>4 DEF Sup!Sock

LEMMA LifeWorker == ASSUME LifeInv, Sup!Worker PROVE LifeInv'
<1>1. /\ UNCHANGED <<child, Sup!mainVars, Sup!sockVars, Sup!flagVars>> /\ proc' = "dead"
      /\ code' \in ExitStatus
  BY DEF Sup!Worker, Sup!WorkerAsksRestart, Sup!WorkerEnds, Sup!WorkerTaskFails,
         Sup!WorkerCrashes, Sup!WorkerExit, Sup!WorkerTerminated, ExitStatus, Sup!RESTART_CODE, RESTART_CODE, ZeroStatus
<1>. QED  BY <1>1 DEF LifeInv, Alive, WorkersTypeOK, Sup!mainVars, Sup!sockVars, Sup!flagVars

LEMMA LifeInductive == LifeInv /\ [Sup!Next]_(Sup!vars) => LifeInv'
<1>1. ASSUME LifeInv, UNCHANGED Sup!vars PROVE LifeInv'
  BY <1>1 DEF LifeInv, Alive, WorkersTypeOK, MayRun, Sup!vars
<1>. QED  BY <1>1, LifeMain, LifeInterrupt, LifeSock, LifeWorker DEF Sup!Next

LEMMA LifeInit == Sup!Init => LifeInv
<1> SUFFICES ASSUME Sup!Init PROVE LifeInv
  OBVIOUS
<1>1. backoff \in 1..MaxBackoff /\ served \in 0..MaxCommands
      /\ interrupts \in 0..2 /\ stray = FALSE
  BY SupervisorAssumption DEF Sup!Init
<1>2. ~Alive
  BY DEF Sup!Init, Alive
<1>. QED  BY <1>1, <1>2 DEF Sup!Init, LifeInv, WorkersTypeOK, MainPC, SockPC

-------------------------------------------------------------------------------
\* The shared fields keep their types: the backoff never exceeds its ceiling
\* (supervisor.py, run), no more commands are served than came.
THEOREM WorkersTyped == Sup!Spec => []WorkersTypeOK
<1>1. LifeInv => WorkersTypeOK
  BY DEF LifeInv
<1>. QED  BY <1>1, LifeInit, LifeInductive, PTL DEF Sup!Spec

\* No worker is spawned beside the one before it or beside a stray one, and the one
\* the supervisor knows of is not left when it returns, through stop, restarts,
\* crashes and a Ctrl-C at any moment, in any order; only a second Ctrl-C leaves it
\* (supervisor.py, run, _terminate_child and supervise).
THEOREM OneWorkerOrNone == Sup!Spec => NoStrayWorker
<1>1. LifeInv' => [mpc' = "done" => ~Alive' \/ interrupts' = 2]_<<mpc, proc, interrupts>>
  BY DEF LifeInv, MayRun
<1>2. LifeInv /\ [Sup!Next]_(Sup!vars) => [~Alive /\ ~stray]_child
  <2>1. ASSUME LifeInv, Sup!Next, child' # child PROVE ~Alive /\ ~stray
    <3>1. Sup!Spawn
      BY <2>1 DEF Sup!Next, Sup!Main, Sup!CheckStop, Sup!WaitReturns, Sup!Decide, Sup!Settled,
        Sup!BackedOff, Sup!FinalTerminate, Sup!FinalGrace, Sup!CtrlC, Sup!Interrupt,
        Sup!InterruptInSpawn, Sup!InterruptAgain, Sup!Command,
        Sup!RecvRestart, Sup!RecvStop, Sup!Sock, Sup!SockLoopEnds, Sup!LookupVictim,
        Sup!GraceOver, Sup!Worker, Sup!WorkerAsksRestart, Sup!WorkerEnds, Sup!WorkerTaskFails, Sup!WorkerCrashes, Sup!WorkerExit, Sup!WorkerTerminated, Sup!procVars
    <3>. QED  BY <2>1, <3>1 DEF Sup!Spawn, LifeInv, MayRun
  <2>2. UNCHANGED Sup!vars => UNCHANGED child
    BY DEF Sup!vars
  <2>. QED  BY <2>1, <2>2
<1>. QED  BY <1>1, <1>2, LifeInit, LifeInductive, PTL DEF Sup!Spec, NoStrayWorker, OneWorkerAtATime,
      NoWorkerLeftBehind
===============================================================================
