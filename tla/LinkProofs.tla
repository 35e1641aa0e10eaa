------------------------------- MODULE LinkProofs -------------------------------
(***************************************************************************)
(* Theorems about the way to the MUSH and back, for any bounds: the link   *)
(* (Connection), and the limit on the lines sent down it to one location   *)
(* (TokenBucket, here Bucket; its state is that of Credit, which shares    *)
(* nothing with the link).                                                 *)
(***************************************************************************)
EXTENDS Connection, Credit, SequenceTheorems, TLAPS

Bucket == INSTANCE TokenBucket

-------------------------------------------------------------------------------
(* The inductive invariant of the link *)

\* A line the router takes, in the form the transport trusts.
Spoken(line) == line.kind = IF transport = "ws" THEN "event" ELSE "world"

\* What a line may hold: a frame of JSON is whole, a world line of the world's lines.
Sound(line) ==
  /\ line \in Line
  /\ line.kind = "room" => line.id \in Rooms
  /\ line.kind = "event" => transport = "ws" /\ ~line.half
  /\ Spoken(line) => line.id \in 0..nLines
Sounds ==
  /\ \A k \in 1..Len(wire) : Sound(wire[k])
  /\ buf # NoLine => Sound(buf)

\* A link belongs to the reading loop, and an earlier framing to an earlier link.
Phase ==
  /\ sock # "down" => rpc = "read" /\ hasq
  /\ rpc # "read" => wire = <<>>
  /\ echoOf <= conn

\* What the queue of a link that is up still holds goes on from what was received:
\* the rest of the login, then what send took.
Nth(k) == IF k <= 4 THEN Login[k] ELSE "say"
Waiting ==
  sock = "up" =>
    /\ accepted = Len(got) + Len(outq) /\ accepted >= 4
    /\ \A k \in 1..Len(outq) :
         outq[k].conn = conn /\ outq[k].n = Len(got) + k /\ outq[k].cmd = Nth(Len(got) + k)
    /\ (session.prefix <=> Len(got) >= 2) /\ (session.suffix <=> Len(got) >= 3)

\* Half a line is the last of a link that was dropped; what it leaves in the buffer
\* meets nothing or the banner of the next link.
Halves ==
  /\ \A k \in 1..Len(wire) : wire[k].half => k = Len(wire) /\ sock = "eof"
  /\ buf # NoLine => ~(buf.kind = "event")
  /\ buf # NoLine /\ rpc = "read" =>
       IF wire = <<>> THEN sock # "up" ELSE wire[1].kind = "banner"

\* The world lines heard, kept in the buffer and on the wire are in the order of
\* the world.
Ordered ==
  /\ \A j, k \in 1..Len(heard) : j < k => heard[j] < heard[k]
  /\ \A j \in 1..Len(heard) : heard[j] <= nLines
  /\ \A k \in 1..Len(wire) : Spoken(wire[k]) =>
       /\ \A j \in 1..Len(heard) : heard[j] < wire[k].id
       /\ buf # NoLine /\ Spoken(buf) => buf.id < wire[k].id
  /\ \A j, k \in 1..Len(wire) :
       j < k /\ Spoken(wire[j]) /\ Spoken(wire[k]) => wire[j].id < wire[k].id
  /\ buf # NoLine /\ Spoken(buf) => \A j \in 1..Len(heard) : heard[j] < buf.id

\* The output of a command is in one piece: what opens the framing is followed by
\* what closes it, on the wire and for a reader within it.
Inside == {"room", "end"}
Framed ==
  /\ \A k \in 1..Len(wire) : wire[k].kind \in {"begin", "room"} =>
       IF k = Len(wire) THEN sock # "up" ELSE wire[k + 1].kind \in Inside
  /\ echo /\ echoOf = conn /\ rpc = "read" =>
       IF wire = <<>> THEN sock # "up" ELSE wire[1].kind \in Inside

Commands == CommandsInOrder /\ Waiting
Stream == Sounds /\ Halves /\ Ordered /\ Framed
Inv == TypeOK /\ Phase /\ Commands /\ Stream

-------------------------------------------------------------------------------
(* Phases *)

LEMMA InitPhase == Init => Phase
BY DEF Init, Phase

LEMMA PhaseStep ==
  ASSUME TypeOK, Phase, [Next]_vars
  PROVE  Phase'
<1>0. conn \in Nat /\ echoOf \in Nat
  BY DEF TypeOK
<1>1. CASE Open
  BY <1>0, <1>1 DEF Open, Phase
<1>2. CASE Read
  <2>1. echoOf' \in {conn, echoOf}
    BY <1>2 DEF Read, Parse
  <2>. QED  BY <1>0, <1>2, <2>1 DEF Read, Phase, queueVars, serverVars
<1>3. CASE OpenFails \/ HandshakeRefused \/ Slept \/ ReadEnds \/ WsClosed \/ Shutdown
  BY <1>3 DEF OpenFails, HandshakeRefused, Slept, ReadEnds, WsClosed, Shutdown, Phase, queueVars,
     readVars, linkVars, serverVars
<1>4. CASE Send
  BY <1>4 DEF Send, Phase, readVars, linkVars, serverVars
<1>5. CASE Write
  BY <1>5 DEF Write, Served, Phase, readVars
<1>6. CASE WorldLine \/ Drop
  BY <1>6 DEF WorldLine, Drop, Phase, queueVars, readVars
<1>7. CASE Move
  BY <1>7 DEF Move, Phase, queueVars, readVars, linkVars
<1>8. CASE UNCHANGED vars
  BY <1>8 DEF vars, Phase, queueVars, readVars, linkVars, serverVars
<1>. QED  BY <1>1, <1>2, <1>3, <1>4, <1>5, <1>6, <1>7, <1>8 DEF Next, Run, Server

-------------------------------------------------------------------------------
(* Commands *)

LEMMA LoginLength == Len(Login) = 4 /\ \A k \in 1..4 : Login[k] \in {"connect", "prefix", "suffix", "probe"}
BY DEF Login

LEMMA LoginQueued ==
  ASSUME NEW c \in Nat
  PROVE  /\ LoginQueue(c) \in Seq(Cmd) /\ Len(LoginQueue(c)) = 4
         /\ \A k \in 1..4 : LoginQueue(c)[k] = [conn |-> c, n |-> k, cmd |-> Nth(k)]
<1>1. DOMAIN Login = 1..4
  BY DEF Login
<1>2. \A k \in 1..4 : [conn |-> c, n |-> k, cmd |-> Login[k]] \in Cmd
  BY LoginLength DEF Cmd
<1>3. LoginQueue(c) = [k \in 1..4 |-> [conn |-> c, n |-> k, cmd |-> Login[k]]]
  BY <1>1 DEF LoginQueue
<1>4. LoginQueue(c) \in Seq(Cmd) /\ Len(LoginQueue(c)) = 4
  BY <1>2, <1>3
<1>. QED  BY <1>3, <1>4 DEF Nth

LEMMA CommandsStep ==
  ASSUME TypeOK, Phase, Commands, [Next]_vars
  PROVE  Commands'
<1>0. /\ got \in Seq(Cmd) /\ outq \in Seq(Cmd) /\ conn \in Nat /\ accepted \in Nat
      /\ DOMAIN got = 1..Len(got)
  BY DEF TypeOK
<1>1. CASE Open
  <2>1. conn' \in Nat
    BY <1>0, <1>1 DEF Open
  <2>2. outq' = LoginQueue(conn') /\ accepted' = Len(outq') /\ got' = <<>>
        /\ session' = NewSession
    BY <1>1 DEF Open
  <2>3. CommandsInOrder'
    BY <2>2 DEF CommandsInOrder
  <2>4. Len(outq') = 4 /\ \A k \in 1..4 : outq'[k] = [conn |-> conn', n |-> k, cmd |-> Nth(k)]
    BY <2>1, <2>2, LoginQueued
  <2>5. Len(got') = 0 /\ ~session'.prefix /\ ~session'.suffix
    BY <2>2 DEF NewSession
  <2>6. ASSUME NEW k \in 1..4
        PROVE  outq'[k].conn = conn' /\ outq'[k].n = 0 + k /\ outq'[k].cmd = Nth(0 + k)
    BY <2>4
  <2>7. accepted' = 0 + 4 /\ Len(got') = 0 /\ Len(outq') = 4
    BY <2>2, <2>4
  <2>8. (session'.prefix <=> 0 >= 2) /\ (session'.suffix <=> 0 >= 3)
    BY <2>5
  <2>9. Waiting'
    BY <2>6, <2>7, <2>8 DEF Waiting
  <2>. QED  BY <2>3, <2>9 DEF Commands
<1>2. ASSUME UNCHANGED <<got, conn>>, sock' # "up" \/ UNCHANGED <<sock, outq, accepted, session>>
      PROVE  Commands'
  <2>1. CommandsInOrder'
    BY <1>2 DEF CommandsInOrder, Commands
  <2>2. Waiting'
    BY <1>2 DEF Waiting, Commands
  <2>. QED  BY <2>1, <2>2 DEF Commands
<1>3. CASE Send
  <2>1. UNCHANGED <<got, conn, sock, session>>
    BY <1>3 DEF Send, linkVars
  <2>2. CASE hasq /\ sock = "up"
    <3> DEFINE q == [conn |-> conn, n |-> accepted + 1, cmd |-> "say"]
    <3>1. accepted' = accepted + 1 /\ outq' = Append(outq, q)
      BY <1>3, <2>2 DEF Send, Queued
    <3>2. q \in Cmd
      BY <1>0 DEF Cmd
    <3>3. /\ Len(outq') = Len(outq) + 1
          /\ \A k \in 1..Len(outq') : outq'[k] = IF k <= Len(outq) THEN outq[k] ELSE q
      BY <1>0, <3>1, <3>2, AppendProperties
    <3>4. accepted = Len(got) + Len(outq) /\ accepted >= 4 /\ Len(got) \in Nat /\ Len(outq) \in Nat
      BY <1>0, <2>2 DEF Commands, Waiting
    <3>5. \A k \in 1..Len(outq) : outq[k].conn = conn /\ outq[k].n = Len(got) + k
                                  /\ outq[k].cmd = Nth(Len(got) + k)
      BY <2>2 DEF Commands, Waiting
    <3>6. ASSUME NEW k \in 1..Len(outq')
          PROVE  outq'[k].conn = conn /\ outq'[k].n = Len(got) + k /\ outq'[k].cmd = Nth(Len(got) + k)
      <4>1. CASE k <= Len(outq)
        BY <3>3, <3>4, <3>5, <4>1
      <4>2. CASE ~(k <= Len(outq))
        <5>1. k = Len(outq) + 1 /\ outq'[k] = q
          BY <3>3, <3>4, <4>2
        <5>2. Nth(Len(got) + k) = "say" /\ accepted + 1 = Len(got) + k
          BY <3>4, <5>1 DEF Nth
        <5>. QED  BY <5>1, <5>2
      <4>. QED  BY <4>1, <4>2
    <3>7. Waiting'
      BY <2>1, <2>2, <3>1, <3>3, <3>4, <3>6 DEF Waiting, Commands
    <3>8. CommandsInOrder'
      BY <2>1 DEF CommandsInOrder, Commands
    <3>. QED  BY <3>7, <3>8 DEF Commands
  <2>3. CASE ~hasq \/ sock # "up"
    BY <1>2, <1>3, <2>1, <2>3 DEF Send
  <2>. QED  BY <2>2, <2>3
<1>4. CASE Write
  <2>1. CASE sock # "up"
    <3>1. UNCHANGED <<got, conn, sock>>
      BY <1>4, <2>1 DEF Write
    <3>. QED  BY <1>2, <2>1, <3>1
  <2>2. CASE sock = "up"
    <3> DEFINE h == Head(outq)  n == Len(got) + 1
    <3>1. /\ outq # <<>> /\ outq' = Tail(outq) /\ got' = Append(got, h) /\ Served(h.cmd)
          /\ UNCHANGED <<sock, conn, accepted>>
      BY <1>4, <2>2 DEF Write
    <3>2. accepted = Len(got) + Len(outq) /\ accepted >= 4 /\ Len(got) \in Nat /\ Len(outq) \in Nat \ {0}
      BY <1>0, <2>2, <3>1 DEF Commands, Waiting
    <3>3. \A k \in 1..Len(outq) : outq[k].conn = conn /\ outq[k].n = Len(got) + k
                                  /\ outq[k].cmd = Nth(Len(got) + k)
      BY <2>2 DEF Commands, Waiting
    <3>4. h = outq[1] /\ h \in Cmd
      BY <1>0, <3>1
    <3>5. h.conn = conn /\ h.n = n /\ h.cmd = Nth(n)
      BY <3>2, <3>3, <3>4
    <3>6. /\ got' \in Seq(Cmd) /\ Len(got') = n
          /\ \A k \in 1..n : got'[k] = IF k <= Len(got) THEN got[k] ELSE h
      BY <1>0, <3>1, <3>4, AppendProperties
    <3>7. CommandsInOrder'
      <4>1. ASSUME NEW k \in 1..n
            PROVE  got'[k].conn = conn /\ got'[k].n = k /\ (k <= 4 => got'[k].cmd = Login[k])
        <5>1. CASE k <= Len(got)
          <6>1. k \in 1..Len(got) /\ got'[k] = got[k]
            BY <3>2, <3>6, <5>1
          <6>2. k \in DOMAIN got /\ Len(Login) = 4
            BY <1>0, <6>1, LoginLength
          <6>. QED  BY <6>1, <6>2 DEF Commands, CommandsInOrder
        <5>2. CASE ~(k <= Len(got))
          <6>1. k = n /\ got'[k] = h
            BY <3>2, <3>6, <5>2
          <6>. QED  BY <3>5, <6>1 DEF Nth
        <5>. QED  BY <5>1, <5>2
      <4>2. DOMAIN got' = 1..n
        BY <3>6
      <4>. QED  BY <3>1, <4>1, <4>2, LoginLength DEF CommandsInOrder
    <3>8. /\ Len(outq') = Len(outq) - 1
          /\ \A k \in 1..Len(outq') : outq'[k] = outq[k + 1]
      BY <1>0, <3>1, HeadTailProperties
    <3>9. \A k \in 1..Len(outq') : outq'[k].conn = conn /\ outq'[k].n = n + k
                                   /\ outq'[k].cmd = Nth(n + k)
      <4>1. \A k \in 1..Len(outq') : k + 1 \in 1..Len(outq) /\ Len(got) + (k + 1) = n + k
        BY <3>2, <3>8
      <4> HIDE DEF n
      <4>2. ASSUME NEW k \in 1..Len(outq')
            PROVE  outq'[k].conn = conn /\ outq'[k].n = n + k /\ outq'[k].cmd = Nth(n + k)
        <5>1. k + 1 \in 1..Len(outq) /\ Len(got) + (k + 1) = n + k /\ outq'[k] = outq[k + 1]
          BY <3>8, <4>1
        <5>2. outq[k + 1].conn = conn /\ outq[k + 1].n = Len(got) + (k + 1)
              /\ outq[k + 1].cmd = Nth(Len(got) + (k + 1))
          BY <3>3, <5>1
        <5>. QED  BY <5>1, <5>2
      <4>. QED  BY <4>2
    <3>10. (session'.prefix <=> n >= 2) /\ (session'.suffix <=> n >= 3)
      <4>1. (session.prefix <=> Len(got) >= 2) /\ (session.suffix <=> Len(got) >= 3)
        BY <2>2 DEF Commands, Waiting
      <4>2. session \in [in : BOOLEAN, prefix : BOOLEAN, suffix : BOOLEAN]
        BY DEF TypeOK
      <4>3. CASE n = 1
        <5>1. h.cmd = "connect"
          BY <3>5, <4>3 DEF Nth, Login
        <5>2. session' = [session EXCEPT !.in = TRUE]
          BY <3>1, <5>1 DEF Served
        <5>3. ~session.prefix /\ ~session.suffix
          BY <3>2, <4>1, <4>3
        <5>4. ~session'.prefix /\ ~session'.suffix
          BY <4>2, <5>2, <5>3
        <5>. QED  BY <4>3, <5>4
      <4>4. CASE n = 2
        <5>1. h.cmd = "prefix"
          BY <3>5, <4>4 DEF Nth, Login
        <5>2. session' = [session EXCEPT !.prefix = TRUE]
          BY <3>1, <5>1 DEF Served
        <5>3. ~session.prefix /\ ~session.suffix
          BY <3>2, <4>1, <4>4
        <5>4. session'.prefix /\ ~session'.suffix
          BY <4>2, <5>2, <5>3
        <5>. QED  BY <4>4, <5>4
      <4>5. CASE n = 3
        <5>1. h.cmd = "suffix"
          BY <3>5, <4>5 DEF Nth, Login
        <5>2. session' = [session EXCEPT !.suffix = TRUE]
          BY <3>1, <5>1 DEF Served
        <5>3. session.prefix /\ ~session.suffix
          BY <3>2, <4>1, <4>5
        <5>4. session'.prefix /\ session'.suffix
          BY <4>2, <5>2, <5>3
        <5>. QED  BY <4>5, <5>4
      <4>6. CASE n >= 4
        <5>1. h.cmd \in {"probe", "say"}
          BY <3>2, <3>5, <4>6 DEF Nth, Login
        <5>2. session' = session
          BY <3>1, <5>1 DEF Served
        <5>. QED  BY <3>2, <4>1, <4>2, <4>6, <5>2
      <4>. QED  BY <3>2, <4>3, <4>4, <4>5, <4>6
    <3>11. accepted' = Len(got') + Len(outq') /\ accepted' >= 4
      BY <3>1, <3>2, <3>6, <3>8
    <3>12. Waiting'
      BY <3>1, <3>6, <3>9, <3>10, <3>11 DEF Waiting
    <3>. QED  BY <3>7, <3>12 DEF Commands
  <2>. QED  BY <2>1, <2>2
<1>5. CASE Read
  BY <1>2, <1>5 DEF Read, queueVars
<1>6. CASE OpenFails \/ HandshakeRefused \/ Slept \/ WsClosed \/ Move
  BY <1>2, <1>6 DEF OpenFails, HandshakeRefused, Slept, WsClosed, Move, queueVars, linkVars
<1>7. CASE ReadEnds \/ Shutdown \/ Drop
  BY <1>2, <1>7 DEF ReadEnds, Shutdown, Drop
<1>8. CASE WorldLine
  BY <1>2, <1>8 DEF WorldLine, queueVars
<1>9. CASE UNCHANGED vars
  BY <1>2, <1>9 DEF vars, queueVars, linkVars
<1>. QED  BY <1>1, <1>3, <1>4, <1>5, <1>6, <1>7, <1>8, <1>9 DEF Next, Run, Server

-------------------------------------------------------------------------------
(* Types *)

LEMMA WireTyped ==
  ASSUME TypeOK
  PROVE  /\ wire \in Seq(Line) /\ heard \in Seq(Nat) /\ Len(wire) \in Nat /\ Len(heard) \in Nat
         /\ nLines \in Nat /\ conn \in Nat /\ echoOf \in Nat
BY DEF TypeOK

\* The line that is read.
LEMMA FirstLine ==
  ASSUME TypeOK, Sounds, wire # <<>>
  PROVE  /\ Len(wire) >= 1 /\ Head(wire) = wire[1] /\ Head(wire) \in Line /\ Sound(Head(wire))
         /\ Tail(wire) \in Seq(Line) /\ Len(Tail(wire)) = Len(wire) - 1
         /\ \A k \in 1..Len(Tail(wire)) : k + 1 \in 1..Len(wire) /\ Tail(wire)[k] = wire[k + 1]
<1>1. wire \in Seq(Line)
  BY DEF TypeOK
<1>2. Len(wire) \in Nat \ {0}
  BY <1>1, EmptySeq
<1>3. Head(wire) = wire[1] /\ 1 \in 1..Len(wire)
  BY <1>1, <1>2
<1>4. Sound(wire[1])
  BY <1>3 DEF Sounds
<1>5. Tail(wire) \in Seq(Line) /\ Len(Tail(wire)) = Len(wire) - 1
      /\ \A k \in 1..Len(Tail(wire)) : Tail(wire)[k] = wire[k + 1]
  BY <1>1, HeadTailProperties
<1>6. \A k \in 1..Len(Tail(wire)) : k + 1 \in 1..Len(wire)
  BY <1>2, <1>5
<1>. QED  BY <1>2, <1>3, <1>4, <1>5, <1>6 DEF Sound

LEMMA NoLineIsNone == NoLine.kind = "none" /\ NoLine.half = FALSE /\ NoLine \notin Line
BY DEF NoLine, Line

LEMMA FullTyped ==
  ASSUME NEW kind \in {"banner", "world", "event", "begin", "room", "end"}, NEW id \in Nat \cup Rooms
  PROVE  /\ Full(kind, id) \in Line
         /\ Full(kind, id).kind = kind /\ Full(kind, id).id = id /\ Full(kind, id).half = FALSE
BY DEF Full, Line

\* A line by name, whatever later becomes of what it was made from.
LEMMA ALine ==
  ASSUME NEW kind \in {"banner", "world", "event", "begin", "room", "end"}, NEW id \in Nat \cup Rooms
  PROVE  \E l \in Line : l = Full(kind, id) /\ l.kind = kind /\ l.id = id /\ ~l.half
BY FullTyped

\* What the server answers is framed, for the sentinels come before any command
\* with output.
LEMMA Answered ==
  ASSUME TypeOK, Commands, sock = "up", outq # <<>>, Served(Head(outq).cmd)
  PROVE  \/ wire' = wire
         \/ wire' = wire \o <<Full("begin", 0), Full("end", 0)>>
         \/ wire' = wire \o <<Full("begin", 0), Full("room", here), Full("end", 0)>>
<1>1. /\ wire \in Seq(Line) /\ outq \in Seq(Cmd) /\ here \in Rooms /\ Len(got) \in Nat
  BY DEF TypeOK
<1>2. Full("begin", 0) \in Line /\ Full("end", 0) \in Line /\ Full("room", here) \in Line
  BY <1>1, FullTyped
<1>3. Head(outq) = outq[1] /\ 1 \in 1..Len(outq)
  BY <1>1, EmptySeq
<1>4. /\ Head(outq).cmd = Nth(Len(got) + 1)
      /\ (session.prefix <=> Len(got) >= 2) /\ (session.suffix <=> Len(got) >= 3)
  BY <1>3 DEF Commands, Waiting
<1>5. CASE Head(outq).cmd \in {"connect", "prefix", "suffix"}
  BY <1>5 DEF Served
<1>6. CASE Head(outq).cmd \notin {"connect", "prefix", "suffix"}
  <2>1. Len(got) >= 3
    BY <1>1, <1>4, <1>6 DEF Nth, Login
  <2>2. session.prefix /\ session.suffix
    BY <1>1, <1>4, <2>1
  <2>3. wire' = wire \o <<Full("begin", 0)>> \o Lines(Head(outq).cmd, here) \o <<Full("end", 0)>>
    BY <1>6, <2>2 DEF Served
  <2>4. CASE Head(outq).cmd = "probe"
    <3>1. wire' = wire \o <<Full("begin", 0)>> \o <<Full("room", here)>> \o <<Full("end", 0)>>
      BY <2>3, <2>4 DEF Lines
    <3>. QED  BY <1>1, <1>2, <3>1
  <2>5. CASE Head(outq).cmd # "probe"
    <3>1. wire' = wire \o <<Full("begin", 0)>> \o <<>> \o <<Full("end", 0)>>
      BY <2>3, <2>5 DEF Lines
    <3>. QED  BY <1>1, <1>2, <3>1
  <2>. QED  BY <2>4, <2>5
<1>. QED  BY <1>5, <1>6

\* Lines that join the wire.
LEMMA Joined ==
  ASSUME TypeOK, NEW p \in Seq(Line), wire' = wire \o p
  PROVE  /\ wire' \in Seq(Line) /\ Len(wire') = Len(wire) + Len(p) /\ Len(p) \in Nat
         /\ \A k \in 1..Len(wire') : IF k <= Len(wire) THEN k \in 1..Len(wire) /\ wire'[k] = wire[k]
                                     ELSE k - Len(wire) \in 1..Len(p) /\ wire'[k] = p[k - Len(wire)]
<1>1. wire \in Seq(Line) /\ Len(wire) \in Nat
  BY WireTyped
<1>2. /\ wire' \in Seq(Line) /\ Len(wire') = Len(wire) + Len(p) /\ Len(p) \in Nat
      /\ \A k \in 1..Len(wire) + Len(p) : wire'[k] = IF k <= Len(wire) THEN wire[k] ELSE p[k - Len(wire)]
  BY <1>1, ConcatProperties
<1>. QED  BY <1>1, <1>2

\* A dropped link leaves the first lines of the wire, the last perhaps cut.
LEMMA Cut ==
  ASSUME TypeOK, Sounds, Drop
  PROVE  /\ sock = "up" /\ sock' \in {"eof", "reset"}
         /\ \/ wire' = wire /\ sock' = "reset"
            \/ /\ sock' = "eof"
               /\ wire' \in Seq(Line) /\ Len(wire') <= Len(wire)
               /\ \A k \in 1..Len(wire') :
                    /\ k \in 1..Len(wire) /\ wire'[k] \in Line
                    /\ wire'[k].kind = wire[k].kind /\ wire'[k].id = wire[k].id
                    /\ wire'[k].half => wire[k].half \/ (k = Len(wire') /\ wire[k].kind # "event")
<1>1. wire \in Seq(Line) /\ Len(wire) \in Nat /\ \A k \in 1..Len(wire) : wire[k] \in Line
  BY WireTyped DEF Sounds, Sound
<1>2. CASE sock' = "reset" /\ wire' = wire
  BY <1>2 DEF Drop
<1>3. CASE sock' = "eof"
  <2>1. PICK n \in 0..Len(wire) :
          \/ wire' = SubSeq(wire, 1, n)
          \/ /\ n > 0 /\ wire[n].kind # "event"
             /\ wire' = [SubSeq(wire, 1, n) EXCEPT ![n].half = TRUE]
    BY <1>3 DEF Drop
  <2> DEFINE w == SubSeq(wire, 1, n)
  <2>2. w \in Seq(Line) /\ Len(w) = n /\ \A k \in 1..n : w[k] = wire[k] /\ k \in 1..Len(wire)
    <3>1. \A k \in 1..n : k \in 1..Len(wire) /\ wire[k] \in Line
      BY <1>1
    <3>2. w \in Seq(Line) /\ Len(w) = (IF 1 <= n THEN n - 1 + 1 ELSE 0)
          /\ \A k \in 1..(n - 1 + 1) : w[k] = wire[1 + k - 1]
      BY <1>1, <3>1, SubSeqProperties
    <3>. QED  BY <1>1, <3>1, <3>2
  <2>3. CASE wire' = w
    BY <1>1, <1>3, <2>2, <2>3 DEF Drop
  <2>4. CASE n > 0 /\ wire[n].kind # "event" /\ wire' = [w EXCEPT ![n].half = TRUE]
    <3> DEFINE h == [w[n] EXCEPT !.half = TRUE]
    <3>1. n \in 1..Len(w) /\ w[n] = wire[n] /\ wire[n] \in Line
      BY <1>1, <2>2, <2>4
    <3>2. h \in Line /\ h.kind = wire[n].kind /\ h.id = wire[n].id
      BY <3>1 DEF Line
    <3>3. wire' = [w EXCEPT ![n] = h]
      BY <2>4
    <3> HIDE DEF w, h
    <3>4. /\ wire' \in Seq(Line) /\ Len(wire') = n
          /\ \A k \in 1..n : wire'[k] = IF k = n THEN h ELSE w[k]
      BY <2>2, <3>1, <3>2, <3>3, ExceptSeq
    <3>5. ASSUME NEW k \in 1..Len(wire')
          PROVE  /\ k \in 1..Len(wire) /\ wire'[k] \in Line
                 /\ wire'[k].kind = wire[k].kind /\ wire'[k].id = wire[k].id
                 /\ wire'[k].half => wire[k].half \/ (k = Len(wire') /\ wire[k].kind # "event")
      <4>1. CASE k = n
        BY <2>4, <3>1, <3>2, <3>4, <4>1, <1>1, <2>2
      <4>2. CASE k # n
        BY <1>1, <2>2, <3>4, <4>2
      <4>. QED  BY <4>1, <4>2
    <3>. QED  BY <1>1, <1>3, <3>4, <3>5 DEF Drop
  <2>. QED  BY <2>1, <2>3, <2>4
<1>. QED  BY <1>2, <1>3 DEF Drop

\* A line that is read, and what it does to the reader.
LEMMA Reading ==
  ASSUME TypeOK, Stream, Read
  PROVE  LET line == Head(wire) IN
         /\ wire # <<>> /\ wire' = Tail(wire) /\ rpc = "read" /\ sock # "reset"
         /\ UNCHANGED <<transport, rpc, sock, nLines, conn>>
         /\ buf = NoLine \/ line.kind = "banner"
         /\ \/ /\ line.kind = "event" /\ ~line.half /\ transport = "ws"
               /\ heard' = Append(heard, line.id) /\ UNCHANGED <<buf, echo, echoOf, room>>
            \/ /\ line.kind # "event" /\ line.half /\ wire' = <<>> /\ sock = "eof"
               /\ buf' = (IF buf = NoLine THEN line ELSE buf)
               /\ UNCHANGED <<heard, echo, echoOf, room>>
            \/ /\ line.kind # "event" /\ ~line.half /\ buf' = NoLine /\ Parse(line)
<1>1. wire # <<>> /\ wire' = Tail(wire) /\ rpc = "read" /\ sock # "reset"
      /\ UNCHANGED <<transport, rpc, sock, nLines, conn>>
  BY DEF Read, serverVars
<1>2. /\ Len(wire) >= 1 /\ Len(wire) \in Nat /\ Head(wire) = wire[1] /\ Sound(Head(wire))
      /\ Tail(wire) \in Seq(Line) /\ Len(Tail(wire)) = Len(wire) - 1
  BY <1>1, FirstLine, WireTyped DEF Stream
<1>3. buf = NoLine \/ Head(wire).kind = "banner"
  BY <1>1, <1>2 DEF Stream, Halves
<1>4. CASE Head(wire).kind = "event"
  BY <1>1, <1>2, <1>3, <1>4 DEF Read, Sound
<1>5. CASE Head(wire).kind # "event" /\ Head(wire).half
  <2>0. 1 \in 1..Len(wire) /\ wire[1].half
    BY <1>2, <1>5
  <2>1. Len(wire) = 1 /\ sock = "eof"
    BY <2>0 DEF Stream, Halves
  <2>2. wire' = <<>>
    BY <1>1, <1>2, <2>1, EmptySeq
  <2>. QED  BY <1>1, <1>3, <1>5, <2>1, <2>2 DEF Read, Remainder
<1>6. CASE Head(wire).kind # "event" /\ ~Head(wire).half
  BY <1>1, <1>3, <1>6 DEF Read, Remainder
<1>. QED  BY <1>1, <1>3, <1>4, <1>5, <1>6

\* A whole line through the parser: one the buffer spoilt opens and closes nothing
\* and may pass for what was begun before, one that was not is what it is.
LEMMA Parsing ==
  ASSUME TypeOK, Stream, Read, NEW line, line = Head(wire), Parse(line)
  PROVE  /\ \/ /\ buf # NoLine /\ UNCHANGED <<echo, echoOf>>
               /\ heard' = heard \/ (Spoken(buf) /\ heard' = Append(heard, buf.id))
               /\ room' \in {room, Junk} \/ (buf.kind = "room" /\ room' = buf.id)
            \/ /\ buf = NoLine /\ echo' = Framing(line.kind)
               /\ echoOf' = (IF line.kind = "begin" THEN conn ELSE echoOf)
               /\ heard' = heard \/ (Spoken(line) /\ heard' = Append(heard, line.id))
               /\ room' = room \/ (line.kind = "room" /\ room' = line.id)
<1>1. CASE buf # NoLine
  BY <1>1 DEF Parse, Routed, Spoken
<1>2. CASE buf = NoLine
  BY <1>2 DEF Parse, Routed, Spoken
<1>. QED  BY <1>1, <1>2

LEMMA TypeStep ==
  ASSUME TypeOK, Phase, Commands, Stream, [Next]_vars
  PROVE  TypeOK'
<1>0. /\ outq \in Seq(Cmd) /\ got \in Seq(Cmd) /\ wire \in Seq(Line) /\ heard \in Seq(Nat)
      /\ {conn, nSends, nLines, nMoves, nDrops, accepted, echoOf} \subseteq Nat
      /\ MaxBackoff \in Nat \ {0} /\ here \in Rooms /\ backoff \in 1..MaxBackoff
  BY ConnectionAssumption DEF TypeOK
<1>a. conn \in Nat /\ accepted \in Nat /\ nLines \in Nat
  BY <1>0
<1>1. CASE Open
  <2>1. conn' \in Nat /\ outq' = LoginQueue(conn') /\ accepted' = Len(outq')
    BY <1>a, <1>1 DEF Open
  <2>a. LoginQueue(conn') \in Seq(Cmd) /\ Len(LoginQueue(conn')) = 4
    BY <2>1, LoginQueued
  <2>2. outq' \in Seq(Cmd) /\ accepted' \in Nat
    BY <2>1, <2>a
  <2>3. Full("banner", 0) \in Line
    BY FullTyped
  <2>4. wire' \in Seq(Line) /\ got' \in Seq(Cmd) /\ backoff' \in 1..MaxBackoff
    BY <1>0, <1>1, <2>3 DEF Open
  <2>5. {conn, nSends, nLines, nMoves, nDrops, accepted, echoOf}' \subseteq Nat
    BY <1>0, <1>1, <2>1, <2>2 DEF Open
  <2>6. buf' \in Line \cup {NoLine} /\ session' \in [in : BOOLEAN, prefix : BOOLEAN, suffix : BOOLEAN]
    BY <1>1 DEF Open, TypeOK, NewSession
  <2>. QED  BY <1>1, <2>2, <2>4, <2>5, <2>6 DEF Open, TypeOK
<1>2. CASE Slept
  <2>1. backoff' \in 1..MaxBackoff
    BY <1>0, <1>2 DEF Slept, Doubled
  <2>. QED  BY <1>2, <2>1 DEF Slept, TypeOK, queueVars, readVars, linkVars, serverVars
<1>3. CASE OpenFails \/ HandshakeRefused
  BY <1>3 DEF OpenFails, HandshakeRefused, TypeOK, queueVars, readVars, linkVars, serverVars
<1>b. CASE WsClosed
  BY <1>b DEF WsClosed, TypeOK, queueVars, readVars, linkVars, serverVars
<1>4. CASE ReadEnds \/ Shutdown
  <2>a. outq' = <<>> /\ wire' = <<>>
    BY <1>4 DEF ReadEnds, Shutdown
  <2>1. outq' \in Seq(Cmd) /\ wire' \in Seq(Line)
    BY <2>a, EmptySeq
  <2>. QED  BY <1>4, <2>1 DEF ReadEnds, Shutdown, TypeOK, readVars, serverVars
<1>5. CASE Read
  <2> DEFINE line == Head(wire)
  <2>1. /\ wire # <<>> /\ wire' = Tail(wire)
        /\ \/ /\ line.kind = "event" /\ transport = "ws"
              /\ heard' = Append(heard, line.id) /\ UNCHANGED <<buf, echo, echoOf, room>>
           \/ /\ buf' = (IF buf = NoLine THEN line ELSE buf)
              /\ UNCHANGED <<heard, echo, echoOf, room>>
           \/ /\ buf' = NoLine /\ Parse(line)
    BY <1>5, Reading
  <2>2. line \in Line /\ Sound(line) /\ wire' \in Seq(Line)
    BY <2>1, FirstLine DEF Stream
  <2>3. /\ Spoken(line) => line.id \in Nat
        /\ buf # NoLine /\ Spoken(buf) => buf.id \in Nat
        /\ line.kind = "room" => line.id \in Rooms
        /\ buf # NoLine /\ buf.kind = "room" => buf.id \in Rooms
    BY <1>a, <2>2 DEF Stream, Sounds, Sound
  <2>4. \A v \in Nat : Append(heard, v) \in Seq(Nat)
    BY <1>0
  <2> HIDE DEF line
  <2>5. /\ buf' \in Line \cup {NoLine} /\ echo' \in BOOLEAN /\ room' \in Rooms \cup {NoRoom, Junk}
        /\ heard' \in Seq(Nat) /\ echoOf' \in Nat
    <3>1. /\ buf \in Line \cup {NoLine} /\ echo \in BOOLEAN /\ room \in Rooms \cup {NoRoom, Junk}
          /\ echoOf \in Nat /\ conn \in Nat /\ heard \in Seq(Nat)
      BY <1>0 DEF TypeOK
    <3>2. CASE line.kind = "event" /\ transport = "ws"
               /\ heard' = Append(heard, line.id) /\ UNCHANGED <<buf, echo, echoOf, room>>
      BY <2>3, <2>4, <3>1, <3>2 DEF Spoken
    <3>3. CASE buf' = (IF buf = NoLine THEN line ELSE buf) /\ UNCHANGED <<heard, echo, echoOf, room>>
      BY <2>2, <3>1, <3>3
    <3>4. CASE buf' = NoLine /\ Parse(line)
      <4>1. \/ /\ buf # NoLine /\ UNCHANGED <<echo, echoOf>>
               /\ heard' = heard \/ (Spoken(buf) /\ heard' = Append(heard, buf.id))
               /\ room' \in {room, Junk} \/ (buf.kind = "room" /\ room' = buf.id)
            \/ /\ buf = NoLine /\ echo' = Framing(line.kind)
               /\ echoOf' = (IF line.kind = "begin" THEN conn ELSE echoOf)
               /\ heard' = heard \/ (Spoken(line) /\ heard' = Append(heard, line.id))
               /\ room' = room \/ (line.kind = "room" /\ room' = line.id)
        BY <1>5, <3>4, Parsing DEF line
      <4>2. Framing(line.kind) \in BOOLEAN
        BY <3>1 DEF Framing
      <4>. QED  BY <2>3, <2>4, <3>1, <3>4, <4>1, <4>2
    <3>. QED  BY <2>1, <3>2, <3>3, <3>4
  <2>6. {conn, nSends, nLines, nMoves, nDrops, accepted, echoOf}' \subseteq Nat
    BY <1>0, <1>5, <2>5 DEF Read, queueVars, serverVars
  <2>. QED  BY <1>5, <2>2, <2>5, <2>6 DEF Read, TypeOK, queueVars, serverVars
<1>6. CASE Send
  <2>1. outq' \in Seq(Cmd) /\ accepted' \in Nat
    <3>1. [conn |-> conn, n |-> accepted + 1, cmd |-> "say"] \in Cmd
      BY <1>a DEF Cmd
    <3>2. CASE hasq
      <4>1. accepted' = accepted + 1 /\ outq' = Append(outq, [conn |-> conn, n |-> accepted + 1, cmd |-> "say"])
        BY <1>6, <3>2 DEF Send, Queued
      <4>. QED  BY <1>0, <1>a, <3>1, <4>1, AppendProperties
    <3>3. CASE ~hasq
      BY <1>0, <1>a, <1>6, <3>3 DEF Send
    <3>. QED  BY <3>2, <3>3
  <2>2. {conn, nSends, nLines, nMoves, nDrops, accepted, echoOf}' \subseteq Nat
    BY <1>0, <1>6, <2>1 DEF Send, readVars, serverVars
  <2>. QED  BY <1>6, <2>1, <2>2 DEF Send, TypeOK, readVars, linkVars, serverVars
<1>7. CASE Write
  <2>1. outq' \in Seq(Cmd) /\ Head(outq) \in Cmd
    BY <1>0, <1>7 DEF Write
  <2>2. got' \in Seq(Cmd) /\ wire' \in Seq(Line) /\ moved' \in BOOLEAN /\ writer' \in {"idle", "broken"}
        /\ session' \in [in : BOOLEAN, prefix : BOOLEAN, suffix : BOOLEAN]
    <3>1. CASE sock # "up"
      BY <1>7, <3>1 DEF Write, TypeOK
    <3>2. CASE sock = "up"
      <4>a. got' = Append(got, Head(outq)) /\ writer' = writer /\ writer = "idle"
        BY <1>7, <3>2 DEF Write
      <4>1. got' \in Seq(Cmd) /\ writer' = writer /\ writer = "idle"
        BY <1>0, <2>1, <4>a, AppendProperties
      <4>2. Served(Head(outq).cmd) /\ outq # <<>>
        BY <1>7, <3>2 DEF Write
      <4>3. Full("begin", 0) \in Line /\ Full("end", 0) \in Line /\ Full("room", here) \in Line
        BY <1>0, FullTyped
      <4>b. /\ <<Full("begin", 0), Full("end", 0)>> \in Seq(Line)
            /\ <<Full("begin", 0), Full("room", here), Full("end", 0)>> \in Seq(Line)
        BY <4>3
      <4>c. \/ wire' = wire
            \/ wire' = wire \o <<Full("begin", 0), Full("end", 0)>>
            \/ wire' = wire \o <<Full("begin", 0), Full("room", here), Full("end", 0)>>
        BY <3>2, <4>2, Answered
      <4>4. wire' \in Seq(Line)
        BY <1>0, <4>b, <4>c, ConcatProperties
      <4>5. moved' \in BOOLEAN /\ session' \in [in : BOOLEAN, prefix : BOOLEAN, suffix : BOOLEAN]
        BY <4>2 DEF Served, TypeOK
      <4>. QED  BY <4>1, <4>4, <4>5
    <3>. QED  BY <3>1, <3>2
  <2>3. {conn, nSends, nLines, nMoves, nDrops, accepted, echoOf}' \subseteq Nat
    BY <1>0, <1>7 DEF Write, readVars
  <2>. QED  BY <1>7, <2>1, <2>2, <2>3 DEF Write, TypeOK, readVars
<1>8. CASE WorldLine
  <2>1. nLines' = nLines + 1 /\ nLines' \in Nat
    BY <1>a, <1>8 DEF WorldLine
  <2>2. Full("event", nLines') \in Line /\ Full("world", nLines') \in Line
    BY <2>1, FullTyped
  <2>3. wire' \in Seq(Line)
    BY <1>0, <1>8, <2>2 DEF WorldLine
  <2>4. {conn, nSends, nLines, nMoves, nDrops, accepted, echoOf}' \subseteq Nat
    BY <1>0, <1>8, <2>1 DEF WorldLine, queueVars, readVars
  <2>. QED  BY <1>8, <2>3, <2>4 DEF WorldLine, TypeOK, queueVars, readVars
<1>9. CASE Move
  <2>1. {conn, nSends, nLines, nMoves, nDrops, accepted, echoOf}' \subseteq Nat
    BY <1>0, <1>9 DEF Move, queueVars, readVars
  <2>. QED  BY <1>9, <2>1 DEF Move, TypeOK, queueVars, readVars, linkVars
<1>10. CASE Drop
  <2>1. wire' \in Seq(Line) /\ sock' \in {"eof", "reset"}
    BY <1>0, <1>10, Cut DEF Stream
  <2>2. {conn, nSends, nLines, nMoves, nDrops, accepted, echoOf}' \subseteq Nat
    BY <1>0, <1>10 DEF Drop, queueVars, readVars
  <2>. QED  BY <1>10, <2>1, <2>2 DEF Drop, TypeOK, queueVars, readVars
<1>11. CASE UNCHANGED vars
  BY <1>11 DEF vars, TypeOK, queueVars, readVars, linkVars, serverVars
<1>. QED  BY <1>1, <1>2, <1>3, <1>b, <1>4, <1>5, <1>6, <1>7, <1>8, <1>9, <1>10, <1>11
          DEF Next, Run, Server

-------------------------------------------------------------------------------
(* The stream *)

\* Nothing of it moves.
LEMMA StreamStays ==
  ASSUME Stream, UNCHANGED <<transport, wire, buf, heard, echo, echoOf, conn, nLines, sock>>,
         rpc' = "read" => rpc = "read"
  PROVE  Stream'
<1>1. \A line : Sound(line)' <=> Sound(line)
  BY DEF Sound, Spoken
<1>2. Sounds'
  BY <1>1 DEF Stream, Sounds
<1>3. Halves' /\ Framed'
  BY DEF Stream, Halves, Framed
<1>4. Ordered'
  BY DEF Stream, Ordered, Spoken
<1>. QED  BY <1>2, <1>3, <1>4 DEF Stream

\* The wire is gone and the reader with it.
LEMMA StreamEmptied ==
  ASSUME Stream, UNCHANGED <<transport, buf, heard, echo, echoOf, conn, nLines>>,
         wire' = <<>>, rpc' # "read"
  PROVE  Stream'
<1>1. Sounds'
  BY DEF Stream, Sounds, Sound, Spoken
<1>2. Halves' /\ Framed'
  BY DEF Stream, Halves, Framed
<1>3. Ordered'
  BY DEF Stream, Ordered, Spoken
<1>. QED  BY <1>1, <1>2, <1>3 DEF Stream

\* A new link: what is left of the last one is in the buffer, and in the framing
\* under the number of that link.
LEMMA StreamOpen ==
  ASSUME TypeOK, Phase, Stream, Open
  PROVE  Stream'
<1> DEFINE b == Full("banner", 0)
<1>1. b \in Line /\ b.kind = "banner" /\ b.half = FALSE
  BY DEF Full, Line
<1>2. wire' = <<b>> /\ UNCHANGED <<transport, echo, echoOf, heard, nLines>> /\ buf' \in {NoLine, buf}
      /\ conn' = conn + 1 /\ sock' = "up"
  BY DEF Open
<1>3. Len(wire') = 1 /\ wire'[1] = b /\ wire' # <<>>
  BY <1>2
<1> HIDE DEF b
<1>4. Sounds'
  BY <1>1, <1>2, <1>3 DEF Stream, Sounds, Sound, Spoken
<1>5. Halves'
  BY <1>1, <1>2, <1>3 DEF Stream, Halves
<1>6. Ordered'
  BY <1>1, <1>2, <1>3 DEF Stream, Ordered, Spoken
<1>7. Framed'
  BY <1>1, <1>2, <1>3, WireTyped DEF Stream, Framed, Phase
<1>. QED  BY <1>4, <1>5, <1>6, <1>7 DEF Stream

\* Whole lines join the wire of a link that is up: at most the last of them is the
\* world's, which is then the latest, and the framing is closed within them.
LEMMA StreamGrows ==
  ASSUME TypeOK, Stream, NEW p \in Seq(Line), p # <<>>, wire' = wire \o p,
         UNCHANGED <<transport, buf, heard, echo, echoOf, conn, sock, rpc>>, sock = "up",
         nLines' \in Nat, nLines' >= nLines,
         \A k \in 1..Len(p) :
           /\ Sound(p[k])' /\ ~p[k].half
           /\ Spoken(p[k]) => p[k].id > nLines /\ (\A j \in 1..Len(p) : Spoken(p[j]) => j = k)
           /\ p[k].kind \in {"begin", "room"} => k + 1 \in 1..Len(p) /\ p[k + 1].kind \in Inside
  PROVE  Stream'
<1> DEFINE n == Len(wire)  m == Len(p)
<1>0. n \in Nat /\ m \in Nat \ {0} /\ nLines \in Nat /\ \A j \in 1..Len(heard) : heard[j] \in Nat
  BY WireTyped, EmptySeq
<1>1. /\ wire' \in Seq(Line) /\ Len(wire') = n + m
      /\ \A k \in 1..Len(wire') : IF k <= n THEN k \in 1..n /\ wire'[k] = wire[k]
                                  ELSE k - n \in 1..m /\ wire'[k] = p[k - n]
  BY Joined
<1>2. \A k \in 1..m :
           /\ Sound(p[k])' /\ ~p[k].half
           /\ Spoken(p[k]) => p[k].id > nLines /\ (\A j \in 1..m : Spoken(p[j]) => j = k)
           /\ p[k].kind \in {"begin", "room"} => k + 1 \in 1..m /\ p[k + 1].kind \in Inside
  OBVIOUS
<1>3. \A line : /\ Spoken(line)' <=> Spoken(line)
                /\ Sound(line) => Sound(line)'
  BY <1>0 DEF Sound, Spoken
<1>4. wire' # <<>> /\ (wire # <<>> => wire'[1] = wire[1] /\ 1 \in 1..n)
  BY <1>0, <1>1, EmptySeq, WireTyped
<1>5. \A k \in 1..n : Sound(wire[k])
  BY DEF Stream, Sounds
<1> HIDE DEF n, m
<1>6. Sounds'
  <2>1. ASSUME NEW k \in 1..Len(wire') PROVE Sound(wire[k])'
    BY <1>1, <1>2, <1>3, <1>5
  <2>2. buf' # NoLine => Sound(buf)'
    BY <1>3 DEF Stream, Sounds
  <2>. QED  BY <2>1, <2>2 DEF Sounds
<1>7. Halves'
  <2>1. ASSUME NEW k \in 1..Len(wire') PROVE ~wire'[k].half
    <3>1. CASE k <= n
      BY <1>1, <3>1 DEF Stream, Halves, n
    <3>2. CASE ~(k <= n)
      BY <1>1, <1>2, <3>2
    <3>. QED  BY <3>1, <3>2
  <2>2. buf' # NoLine /\ rpc' = "read" => wire'[1].kind = "banner"
    BY <1>4 DEF Stream, Halves
  <2>. QED  BY <1>4, <2>1, <2>2 DEF Stream, Halves
<1>8. Framed'
  <2>1. ASSUME NEW k \in 1..Len(wire'), wire'[k].kind \in {"begin", "room"}
        PROVE  k # Len(wire') /\ wire'[k + 1].kind \in Inside
    <3>1. CASE k <= n
      <4>1. k \in 1..n /\ wire'[k] = wire[k]
        BY <1>1, <3>1
      <4>2. k # n /\ wire[k + 1].kind \in Inside
        BY <2>1, <4>1 DEF Stream, Framed, n
      <4>3. k + 1 \in 1..n /\ k + 1 \in 1..Len(wire') /\ k # Len(wire')
        BY <1>0, <1>1, <4>1, <4>2
      <4>4. wire'[k + 1] = wire[k + 1]
        BY <1>1, <4>3
      <4>. QED  BY <4>2, <4>3, <4>4
    <3>2. CASE ~(k <= n)
      <4>1. k - n \in 1..m /\ wire'[k] = p[k - n]
        BY <1>1, <3>2
      <4>2. (k - n) + 1 \in 1..m /\ p[(k - n) + 1].kind \in Inside
        BY <1>2, <2>1, <4>1
      <4>3. k + 1 \in 1..Len(wire') /\ ~(k + 1 <= n) /\ (k + 1) - n = (k - n) + 1 /\ k # Len(wire')
        BY <1>0, <1>1, <3>2, <4>2
      <4>4. wire'[k + 1] = p[(k - n) + 1]
        BY <1>1, <4>3
      <4>. QED  BY <4>2, <4>3, <4>4
    <3>. QED  BY <3>1, <3>2
  <2>2. echo' /\ echoOf' = conn' /\ rpc' = "read" => wire'[1].kind \in Inside
    BY <1>4 DEF Stream, Framed
  <2>. QED  BY <1>4, <2>1, <2>2 DEF Framed
<1>9. Ordered'
  <2>1. \A j \in 1..Len(heard) : heard[j] <= nLines'
    BY <1>0 DEF Stream, Ordered
  <2>2. buf # NoLine /\ Spoken(buf) => buf.id \in 0..nLines
    BY DEF Stream, Sounds, Sound
  <2>3. ASSUME NEW k \in 1..Len(wire'), Spoken(wire'[k])
        PROVE  /\ \A j \in 1..Len(heard) : heard[j] < wire'[k].id
               /\ buf # NoLine /\ Spoken(buf) => buf.id < wire'[k].id
               /\ \A i \in 1..Len(wire') : i < k /\ Spoken(wire'[i]) => wire'[i].id < wire'[k].id
    <3>1. CASE k <= n
      <4>1. k \in 1..n /\ wire'[k] = wire[k]
        BY <1>1, <3>1
      <4>2. ASSUME NEW i \in 1..Len(wire'), i < k, Spoken(wire'[i])
            PROVE  wire'[i].id < wire'[k].id
        <5>1. i \in 1..n /\ wire'[i] = wire[i]
          BY <1>0, <1>1, <3>1, <4>1, <4>2
        <5>. QED  BY <2>3, <4>1, <4>2, <5>1 DEF Stream, Ordered, n
      <4>. QED  BY <2>3, <4>1, <4>2 DEF Stream, Ordered, n
    <3>2. CASE ~(k <= n)
      <4>1. PICK x \in 1..m : x = k - n /\ wire'[k] = p[x]
        BY <1>1, <3>2
      <4>2. /\ wire'[k].id > nLines /\ wire'[k].id \in Nat
            /\ \A j \in 1..m : Spoken(p[j]) => j = x
        <5>1. Sound(p[x])' /\ Spoken(p[x])'
          BY <1>2, <1>3, <2>3, <4>1
        <5>2. p[x].id \in 0..nLines'
          BY <5>1 DEF Sound
        <5>. QED  BY <1>2, <2>3, <4>1, <5>2
      <4>3. ASSUME NEW i \in 1..Len(wire'), i < k, Spoken(wire'[i])
            PROVE  wire'[i].id < wire'[k].id
        <5>1. CASE i <= n
          <6>1. wire[i].id \in 0..nLines /\ wire'[i] = wire[i]
            BY <1>1, <1>5, <4>3, <5>1 DEF Sound
          <6>2. \A c \in Nat : c > nLines => \A a \in 0..nLines : a < c
            BY <1>0
          <6>. QED  BY <4>2, <6>1, <6>2
        <5>2. CASE ~(i <= n)
          <6>1. i - n \in 1..m /\ wire'[i] = p[i - n]
            BY <1>1, <5>2
          <6>2. Spoken(p[i - n])
            BY <1>3, <4>3, <6>1
          <6>3. i - n = x
            BY <4>2, <6>1, <6>2
          <6>. QED  BY <1>0, <1>1, <3>2, <4>1, <4>3, <5>2, <6>3
        <5>. QED  BY <5>1, <5>2
      <4>4. \A j \in 1..Len(heard) : heard[j] <= nLines
        BY DEF Stream, Ordered
      <4>5. \A v \in 0..nLines : v < wire'[k].id
        BY <1>0, <4>2
      <4>6. \A j \in 1..Len(heard) : heard[j] < wire'[k].id
        BY <1>0, <4>2, <4>4
      <4>. QED  BY <2>2, <4>3, <4>5, <4>6
    <3>. QED  BY <3>1, <3>2
  <2>4. /\ \A j, k \in 1..Len(heard) : j < k => heard[j] < heard[k]
        /\ buf # NoLine /\ Spoken(buf) => \A j \in 1..Len(heard) : heard[j] < buf.id
    BY DEF Stream, Ordered
  <2>. QED  BY <1>3, <2>1, <2>3, <2>4 DEF Ordered
<1>. QED  BY <1>6, <1>7, <1>8, <1>9 DEF Stream

LEMMA StreamDrop ==
  ASSUME TypeOK, Stream, Drop
  PROVE  Stream'
<1>0. UNCHANGED <<transport, buf, heard, echo, echoOf, conn, nLines, rpc>>
  BY DEF Drop, queueVars, readVars
<1>1. CASE wire' = wire /\ sock' = "reset"
  <2>1. sock = "up"
    BY DEF Drop
  <2>2. \A k \in 1..Len(wire) : ~wire[k].half
    BY <2>1 DEF Stream, Halves
  <2>3. Sounds' /\ Ordered'
    BY <1>0, <1>1 DEF Stream, Sounds, Sound, Ordered, Spoken
  <2>4. Halves'
    BY <1>0, <1>1, <2>1, <2>2 DEF Stream, Halves
  <2>5. Framed'
    BY <1>0, <1>1, <2>1 DEF Stream, Framed
  <2>. QED  BY <2>3, <2>4, <2>5 DEF Stream
<1>2. CASE sock' = "eof" /\ ~(wire' = wire /\ sock' = "reset")
  <2>1. /\ sock = "up"
        /\ wire' \in Seq(Line) /\ Len(wire') <= Len(wire)
        /\ \A k \in 1..Len(wire') :
             /\ k \in 1..Len(wire) /\ wire'[k] \in Line
             /\ wire'[k].kind = wire[k].kind /\ wire'[k].id = wire[k].id
             /\ wire'[k].half => wire[k].half \/ (k = Len(wire') /\ wire[k].kind # "event")
    BY <1>2, Cut DEF Stream
  <2>2. Len(wire') \in Nat /\ Len(wire) \in Nat /\ (wire' = <<>> \/ 1 \in 1..Len(wire'))
    BY <2>1, EmptySeq, WireTyped
  <2>3. \A k \in 1..Len(wire') : wire'[k].half => k = Len(wire') /\ wire[k].kind # "event"
    BY <2>1 DEF Stream, Halves
  <2>4. Sounds'
    <3>1. ASSUME NEW k \in 1..Len(wire') PROVE Sound(wire[k])'
      <4>1. Sound(wire[k])
        BY <2>1 DEF Stream, Sounds
      <4>. QED  BY <1>0, <2>1, <2>3, <4>1 DEF Sound, Spoken
    <3>2. buf' # NoLine => Sound(buf)'
      BY <1>0 DEF Stream, Sounds, Sound, Spoken
    <3>. QED  BY <3>1, <3>2 DEF Sounds
  <2>5. Halves'
    <3>1. wire' # <<>> => wire # <<>> /\ wire'[1].kind = wire[1].kind
      BY <2>1, <2>2, EmptySeq
    <3>2. buf # NoLine /\ rpc = "read" /\ wire' # <<>> => wire[1].kind = "banner"
      BY <3>1 DEF Stream, Halves
    <3>. QED  BY <1>0, <1>2, <2>3, <3>1, <3>2 DEF Stream, Halves
  <2>6. Framed'
    <3>1. ASSUME NEW k \in 1..Len(wire'), wire'[k].kind \in {"begin", "room"}, k # Len(wire')
          PROVE  wire'[k + 1].kind \in Inside
      <4>1. k + 1 \in 1..Len(wire') /\ k \in 1..Len(wire) /\ k # Len(wire)
        BY <2>1, <2>2, <3>1
      <4>2. wire[k + 1].kind \in Inside
        BY <2>1, <3>1, <4>1 DEF Stream, Framed
      <4>. QED  BY <2>1, <4>1, <4>2
    <3>2. wire' # <<>> => wire # <<>> /\ wire'[1].kind = wire[1].kind
      BY <2>1, <2>2, EmptySeq
    <3>3. echo /\ echoOf = conn /\ rpc = "read" /\ wire' # <<>> => wire[1].kind \in Inside
      BY <3>2 DEF Stream, Framed
    <3>. QED  BY <1>0, <1>2, <3>1, <3>2, <3>3 DEF Framed
  <2>7. Ordered'
    BY <1>0, <2>1 DEF Stream, Ordered, Spoken
  <2>. QED  BY <2>4, <2>5, <2>6, <2>7 DEF Stream
<1>. QED  BY <1>1, <1>2, Cut DEF Stream

\* One line leaves the wire.
LEMMA StreamRead ==
  ASSUME TypeOK, Phase, Stream, Read
  PROVE  Stream'
<1> DEFINE line == Head(wire)  n == Len(wire')
<1>1. /\ wire # <<>> /\ wire' = Tail(wire) /\ rpc = "read" /\ sock # "reset"
      /\ UNCHANGED <<transport, rpc, sock, nLines, conn>>
      /\ buf = NoLine \/ line.kind = "banner"
      /\ \/ /\ line.kind = "event" /\ ~line.half /\ transport = "ws"
            /\ heard' = Append(heard, line.id) /\ UNCHANGED <<buf, echo, echoOf, room>>
         \/ /\ line.kind # "event" /\ line.half /\ wire' = <<>> /\ sock = "eof"
            /\ buf' = (IF buf = NoLine THEN line ELSE buf)
            /\ UNCHANGED <<heard, echo, echoOf, room>>
         \/ /\ line.kind # "event" /\ ~line.half /\ buf' = NoLine /\ Parse(line)
  BY Reading
<1>2. /\ Len(wire) >= 1 /\ line = wire[1] /\ line \in Line /\ Sound(line) /\ 1 \in 1..Len(wire)
      /\ n = Len(wire) - 1 /\ Len(wire) \in Nat /\ wire' \in Seq(Line)
      /\ \A k \in 1..n : k + 1 \in 1..Len(wire) /\ wire'[k] = wire[k + 1]
  BY <1>1, FirstLine, WireTyped DEF Stream
<1>3. n \in Nat /\ (wire' = <<>> \/ (1 \in 1..n /\ wire'[1] = wire[2] /\ Len(wire) # 1))
  BY <1>2, EmptySeq
<1>4. /\ heard \in Seq(Nat) /\ Len(heard) \in Nat /\ nLines \in Nat
      /\ \A j \in 1..Len(heard) : heard[j] \in Nat
  BY WireTyped
<1> HIDE DEF n, line
<1>5. /\ \A j, k \in 1..Len(wire) :
           j < k /\ Spoken(wire[j]) /\ Spoken(wire[k]) => wire[j].id < wire[k].id
      /\ \A k \in 1..Len(wire) : Spoken(wire[k]) => \A j \in 1..Len(heard) : heard[j] < wire[k].id
      /\ \A j, k \in 1..Len(heard) : j < k => heard[j] < heard[k]
      /\ \A j \in 1..Len(heard) : heard[j] <= nLines
  BY DEF Stream, Ordered
<1>6. \A l : Spoken(l)' <=> Spoken(l)
  BY <1>1 DEF Spoken
<1>7. \A l : Sound(l)' <=> Sound(l)
  BY <1>1 DEF Sound, Spoken
<1>8. Sounds'
  <2>1. \A k \in 1..n : Sound(wire[k + 1])
    BY <1>2 DEF Stream, Sounds
  <2>2. ASSUME NEW k \in 1..Len(wire') PROVE Sound(wire[k])'
    <3>1. wire'[k] = wire[k + 1] /\ Sound(wire[k + 1])
      BY <1>2, <2>1 DEF n
    <3>. QED  BY <1>7, <3>1
  <2>3. buf' # NoLine => Sound(buf)'
    <3>1. buf' \in {NoLine, buf, line}
      BY <1>1
    <3>2. buf # NoLine => Sound(buf)
      BY DEF Stream, Sounds
    <3>. QED  BY <1>2, <1>7, <3>1, <3>2
  <2>. QED  BY <2>2, <2>3 DEF Sounds
\* The later lines of the world come after any that is heard now.
<1>9. ASSUME NEW v \in 0..nLines, heard' = Append(heard, v), buf' = NoLine \/ ~Spoken(buf)',
             \A j \in 1..Len(heard) : heard[j] < v,
             \A k \in 2..Len(wire) : Spoken(wire[k]) => v < wire[k].id
      PROVE  Ordered'
  <2>1. /\ Len(heard') = Len(heard) + 1
        /\ \A j \in 1..Len(heard') : heard'[j] = IF j <= Len(heard) THEN heard[j] ELSE v
    BY <1>4, <1>9, AppendProperties
  <2>2. \A j, k \in 1..Len(heard') : j < k => heard'[j] < heard'[k]
    <3>1. ASSUME NEW j \in 1..Len(heard'), NEW k \in 1..Len(heard'), j < k
          PROVE  heard'[j] < heard'[k]
      <4>1. j \in 1..Len(heard) /\ heard'[j] = heard[j]
        BY <1>4, <2>1, <3>1
      <4>2. (k \in 1..Len(heard) /\ heard'[k] = heard[k]) \/ heard'[k] = v
        BY <1>4, <2>1, <3>1
      <4>. QED  BY <1>5, <1>9, <3>1, <4>1, <4>2
    <3>. QED  BY <3>1
  <2>3. \A j \in 1..Len(heard') : heard'[j] <= nLines'
    <3>1. ASSUME NEW j \in 1..Len(heard') PROVE heard'[j] <= nLines'
      <4>1. (j \in 1..Len(heard) /\ heard'[j] = heard[j]) \/ heard'[j] = v
        BY <1>4, <2>1
      <4>. QED  BY <1>1, <1>4, <1>5, <1>9, <4>1
    <3>. QED  BY <3>1
  <2>4. ASSUME NEW k \in 1..Len(wire'), Spoken(wire'[k])
        PROVE  \A j \in 1..Len(heard') : heard'[j] < wire'[k].id
    <3>1. k + 1 \in 1..Len(wire) /\ k + 1 \in 2..Len(wire) /\ wire'[k] = wire[k + 1]
      BY <1>2, <1>3 DEF n
    <3>2. \A j \in 1..Len(heard') : heard'[j] = v \/ (j \in 1..Len(heard) /\ heard'[j] = heard[j])
      BY <1>4, <2>1
    <3>. QED  BY <1>5, <1>9, <2>4, <3>1, <3>2
  <2>5. ASSUME NEW j \in 1..Len(wire'), NEW k \in 1..Len(wire'), j < k, Spoken(wire'[j]), Spoken(wire'[k])
        PROVE  wire'[j].id < wire'[k].id
    <3>1. /\ j + 1 \in 1..Len(wire) /\ wire'[j] = wire[j + 1]
          /\ k + 1 \in 1..Len(wire) /\ wire'[k] = wire[k + 1] /\ j + 1 < k + 1
      BY <1>2, <1>3, <2>5 DEF n
    <3>. QED  BY <1>5, <2>5, <3>1
  <2>. QED  BY <1>6, <1>9, <2>2, <2>3, <2>4, <2>5 DEF Ordered
<1>10. ASSUME heard' = heard,
              buf' = NoLine \/ buf' = buf \/ (wire' = <<>> /\ buf' = line)
       PROVE  Ordered'
  <2>1. ASSUME NEW k \in 1..Len(wire'), Spoken(wire'[k])
        PROVE  /\ \A j \in 1..Len(heard) : heard[j] < wire'[k].id
               /\ buf' # NoLine /\ Spoken(buf') => buf'.id < wire'[k].id
    <3>1. k + 1 \in 1..Len(wire) /\ wire'[k] = wire[k + 1] /\ wire' # <<>>
      BY <1>2, <1>3, EmptySeq DEF n
    <3>2. buf # NoLine /\ Spoken(buf) => buf.id < wire[k + 1].id
      BY <2>1, <3>1 DEF Stream, Ordered
    <3>. QED  BY <1>5, <1>10, <2>1, <3>1, <3>2
  <2>2. ASSUME NEW j \in 1..Len(wire'), NEW k \in 1..Len(wire'), j < k, Spoken(wire'[j]), Spoken(wire'[k])
        PROVE  wire'[j].id < wire'[k].id
    <3>1. /\ j + 1 \in 1..Len(wire) /\ wire'[j] = wire[j + 1]
          /\ k + 1 \in 1..Len(wire) /\ wire'[k] = wire[k + 1] /\ j + 1 < k + 1
      BY <1>2, <1>3, <2>2 DEF n
    <3>. QED  BY <1>5, <2>2, <3>1
  <2>3. buf' # NoLine /\ Spoken(buf') => \A j \in 1..Len(heard) : heard[j] < buf'.id
    <3>1. Spoken(line) => \A j \in 1..Len(heard) : heard[j] < line.id
      BY <1>2, <1>5
    <3>2. buf # NoLine /\ Spoken(buf) => \A j \in 1..Len(heard) : heard[j] < buf.id
      BY DEF Stream, Ordered
    <3>. QED  BY <1>10, <3>1, <3>2
  <2>4. \A j \in 1..Len(heard') : heard'[j] <= nLines'
    BY <1>1, <1>5, <1>10
  <2>. QED  BY <1>5, <1>6, <1>10, <2>1, <2>2, <2>3, <2>4 DEF Ordered
<1>11. \A k \in 1..n : wire'[k].half => k = n /\ sock' = "eof"
  BY <1>1, <1>2, <1>3 DEF Stream, Halves
<1>12. \A k \in 1..n : wire'[k].kind \in {"begin", "room"} =>
         IF k = n THEN sock' # "up" ELSE wire'[k + 1].kind \in Inside
  <2>1. ASSUME NEW k \in 1..n, wire'[k].kind \in {"begin", "room"}
        PROVE  IF k = n THEN sock' # "up" ELSE wire'[k + 1].kind \in Inside
    <3>1. k + 1 \in 1..Len(wire) /\ wire'[k] = wire[k + 1] /\ (k = n <=> k + 1 = Len(wire))
      BY <1>2, <1>3
    <3>2. IF k + 1 = Len(wire) THEN sock # "up" ELSE wire[(k + 1) + 1].kind \in Inside
      BY <2>1, <3>1 DEF Stream, Framed
    <3>3. k # n => k + 1 \in 1..n /\ wire'[k + 1] = wire[(k + 1) + 1]
      BY <1>2, <1>3
    <3>. QED  BY <1>1, <3>1, <3>2, <3>3
  <2>. QED  BY <2>1
\* A line within the framing is followed by another.
<1>13. line.kind \in {"begin", "room"} => IF wire' = <<>> THEN sock' # "up" ELSE wire'[1].kind \in Inside
  <2>1. line.kind \in {"begin", "room"} => IF 1 = Len(wire) THEN sock # "up" ELSE wire[1 + 1].kind \in Inside
    BY <1>2 DEF Stream, Framed
  <2>2. wire' = <<>> <=> Len(wire) = 1
    BY <1>2, <1>3, EmptySeq DEF n
  <2>. QED  BY <1>1, <1>3, <2>1, <2>2
<1>14. echo /\ echoOf = conn => line.kind \in Inside /\ buf = NoLine
  BY <1>1, <1>2 DEF Stream, Framed, Inside
<1>15. CASE /\ line.kind = "event" /\ ~line.half /\ transport = "ws"
            /\ heard' = Append(heard, line.id) /\ UNCHANGED <<buf, echo, echoOf, room>>
  <2>1. buf = NoLine
    BY <1>1, <1>15
  <2>2. Spoken(line)
    BY <1>15 DEF Spoken
  <2>3. line.id \in 0..nLines
    BY <1>2, <2>2 DEF Sound
  <2>4. \A k \in 2..Len(wire) : Spoken(wire[k]) => line.id < wire[k].id
    BY <1>2, <1>5, <2>2
  <2>5. Ordered'
    BY <1>2, <1>5, <1>9, <1>15, <2>1, <2>2, <2>3, <2>4
  <2>6. Halves'
    BY <1>11, <1>15, <2>1 DEF Halves, n
  <2>7. ~(echo /\ echoOf = conn)
    BY <1>14, <1>15 DEF Inside
  <2>8. Framed'
    BY <1>1, <1>12, <1>15, <2>7 DEF Framed, n
  <2>. QED  BY <1>8, <2>5, <2>6, <2>8 DEF Stream
<1>16. CASE /\ line.kind # "event" /\ line.half /\ wire' = <<>> /\ sock = "eof"
            /\ buf' = (IF buf = NoLine THEN line ELSE buf)
            /\ UNCHANGED <<heard, echo, echoOf, room>>
  <2>1. Ordered'
    BY <1>10, <1>16
  <2>2. Halves'
    <3>1. buf # NoLine => buf.kind # "event"
      BY DEF Stream, Halves
    <3>. QED  BY <1>1, <1>11, <1>16, <3>1 DEF Halves, n
  <2>3. Framed'
    BY <1>1, <1>12, <1>16 DEF Framed, n
  <2>. QED  BY <1>8, <2>1, <2>2, <2>3 DEF Stream
<1>17. CASE line.kind # "event" /\ ~line.half /\ buf' = NoLine /\ Parse(line)
  <2>1. \/ /\ buf # NoLine /\ UNCHANGED <<echo, echoOf>>
           /\ heard' = heard \/ (Spoken(buf) /\ heard' = Append(heard, buf.id))
        \/ /\ buf = NoLine /\ echo' = Framing(line.kind)
           /\ echoOf' = (IF line.kind = "begin" THEN conn ELSE echoOf)
           /\ heard' = heard \/ (Spoken(line) /\ heard' = Append(heard, line.id))
    BY <1>17, Parsing DEF line
  <2>2. Ordered'
    <3>1. CASE heard' = heard
      BY <1>10, <1>17, <3>1
    <3>2. CASE buf # NoLine /\ Spoken(buf) /\ heard' = Append(heard, buf.id)
      <4>1. /\ \A j \in 1..Len(heard) : heard[j] < buf.id
            /\ \A k \in 1..Len(wire) : Spoken(wire[k]) => buf.id < wire[k].id
            /\ buf.id \in 0..nLines
        BY <3>2 DEF Stream, Ordered, Sounds, Sound
      <4>2. \A k \in 2..Len(wire) : Spoken(wire[k]) => buf.id < wire[k].id
        BY <1>2, <4>1
      <4>. QED  BY <1>9, <1>17, <3>2, <4>1, <4>2
    <3>3. CASE Spoken(line) /\ heard' = Append(heard, line.id)
      <4>1. line.id \in 0..nLines
        BY <1>2, <3>3 DEF Sound
      <4>2. \A k \in 2..Len(wire) : Spoken(wire[k]) => line.id < wire[k].id
        BY <1>2, <1>5, <3>3
      <4>. QED  BY <1>2, <1>5, <1>9, <1>17, <3>3, <4>1, <4>2
    <3>. QED  BY <2>1, <3>1, <3>2, <3>3
  <2>3. Halves'
    BY <1>11, <1>17 DEF Halves, n
  <2>4. echo' /\ echoOf' = conn' => IF wire' = <<>> THEN sock' # "up" ELSE wire'[1].kind \in Inside
    <3>1. CASE buf # NoLine /\ UNCHANGED <<echo, echoOf>>
      BY <1>1, <1>14, <3>1
    <3>2. CASE /\ buf = NoLine /\ echo' = Framing(line.kind)
               /\ echoOf' = (IF line.kind = "begin" THEN conn ELSE echoOf)
      <4>1. CASE line.kind = "begin"
        BY <1>13, <4>1
      <4>2. CASE line.kind = "end"
        BY <3>2, <4>2 DEF Framing
      <4>3. CASE line.kind \notin {"begin", "end"}
        BY <1>1, <1>13, <1>14, <3>2, <4>3 DEF Framing, Inside
      <4>. QED  BY <4>1, <4>2, <4>3
    <3>. QED  BY <2>1, <3>1, <3>2
  <2>5. Framed'
    BY <1>12, <2>4 DEF Framed, n
  <2>. QED  BY <1>8, <2>2, <2>3, <2>5 DEF Stream
<1>. QED  BY <1>1, <1>15, <1>16, <1>17

\* The pieces that join the wire.
LEMMA StreamWrite ==
  ASSUME TypeOK, Commands, Stream, Write
  PROVE  Stream'
<1>0. UNCHANGED <<transport, buf, heard, echo, echoOf, conn, sock, rpc, nLines>> /\ here \in Rooms
  BY DEF Write, readVars, TypeOK
<1>1. CASE wire' = wire
  BY <1>0, <1>1, StreamStays
<1>2. CASE wire' # wire
  <2>a. PICK b \in Line : b = Full("begin", 0) /\ b.kind = "begin" /\ ~b.half
    BY ALine
  <2>b. PICK r \in Line : r = Full("room", here) /\ r.kind = "room" /\ ~r.half /\ r.id \in Rooms
    <3>1. here \in Nat \cup Rooms /\ here \in Rooms
      BY <1>0
    <3>2. PICK r \in Line : r = Full("room", here) /\ r.kind = "room" /\ r.id = here /\ ~r.half
      BY <3>1, ALine
    <3>. QED  BY <3>1, <3>2
  <2>c. PICK e \in Line : e = Full("end", 0) /\ e.kind = "end" /\ ~e.half
    BY ALine
  <2>1. sock = "up" /\ \/ wire' = wire \o <<b, e>>
                       \/ wire' = wire \o <<b, r, e>>
    BY <1>2, <2>a, <2>b, <2>c, Answered DEF Write
  <2>2. /\ b.kind = "begin" /\ ~b.half
        /\ r.kind = "room" /\ ~r.half /\ r.id \in Rooms
        /\ e.kind = "end" /\ ~e.half
    BY <2>a, <2>b, <2>c
  <2>3. \A l \in {b, r, e} : Sound(l)' /\ ~Spoken(l)
    BY <2>2 DEF Sound, Spoken
  <2>4. nLines \in Nat /\ nLines' \in Nat /\ nLines' >= nLines
    BY <1>0, WireTyped
  <2>5. CASE wire' = wire \o <<b, e>>
    <3>1. PICK p \in Seq(Line) : p = <<b, e>>
      <4>1. <<b, e>> \in Seq(Line)
        OBVIOUS
      <4>. QED  BY <4>1
    <3>2. p # <<>> /\ Len(p) = 2 /\ p[1] = b /\ p[2] = e /\ wire' = wire \o p
      BY <3>1, <2>5
    <3>3. ASSUME NEW k \in 1..Len(p)
          PROVE  /\ Sound(p[k])' /\ ~p[k].half
                 /\ Spoken(p[k]) => p[k].id > nLines /\ (\A j \in 1..Len(p) : Spoken(p[j]) => j = k)
                 /\ p[k].kind \in {"begin", "room"} => k + 1 \in 1..Len(p) /\ p[k + 1].kind \in Inside
      <4>1. CASE k = 1
        BY <2>2, <2>3, <3>2, <4>1 DEF Inside
      <4>2. CASE k = 2
        BY <2>2, <2>3, <3>2, <4>2 DEF Inside
      <4>. QED  BY <3>2, <4>1, <4>2
    <3>. QED  BY <1>0, <2>1, <2>4, <3>2, <3>3, StreamGrows
  <2>6. CASE wire' = wire \o <<b, r, e>>
    <3>1. PICK p \in Seq(Line) : p = <<b, r, e>>
      <4>1. <<b, r, e>> \in Seq(Line)
        OBVIOUS
      <4>. QED  BY <4>1
    <3>2. p # <<>> /\ Len(p) = 3 /\ p[1] = b /\ p[2] = r /\ p[3] = e /\ wire' = wire \o p
      BY <3>1, <2>6
    <3>3. ASSUME NEW k \in 1..Len(p)
          PROVE  /\ Sound(p[k])' /\ ~p[k].half
                 /\ Spoken(p[k]) => p[k].id > nLines /\ (\A j \in 1..Len(p) : Spoken(p[j]) => j = k)
                 /\ p[k].kind \in {"begin", "room"} => k + 1 \in 1..Len(p) /\ p[k + 1].kind \in Inside
      <4>1. CASE k = 1
        BY <2>2, <2>3, <3>2, <4>1 DEF Inside
      <4>2. CASE k = 2
        BY <2>2, <2>3, <3>2, <4>2 DEF Inside
      <4>3. CASE k = 3
        BY <2>2, <2>3, <3>2, <4>3 DEF Inside
      <4>. QED  BY <3>2, <4>1, <4>2, <4>3
    <3>. QED  BY <1>0, <2>1, <2>4, <3>2, <3>3, StreamGrows
  <2>. QED  BY <2>1, <2>5, <2>6
<1>. QED  BY <1>1, <1>2

LEMMA StreamWorld ==
  ASSUME TypeOK, Stream, WorldLine
  PROVE  Stream'
<1>0. /\ UNCHANGED <<transport, buf, heard, echo, echoOf, conn, sock, rpc>> /\ sock = "up"
      /\ nLines \in Nat /\ nLines' = nLines + 1 /\ transport \in {"tcp", "ws"}
  BY WireTyped DEF WorldLine, queueVars, readVars, TypeOK
<1>a. PICK w \in Line : w = Full("world", nLines + 1) /\ w.kind = "world" /\ ~w.half /\ w.id = nLines + 1
  BY <1>0, ALine
<1>b. PICK f \in Line : f = Full("event", nLines + 1) /\ f.kind = "event" /\ ~f.half /\ f.id = nLines + 1
  BY <1>0, ALine
<1>1. /\ w.kind = "world" /\ ~w.half /\ w.id = nLines + 1
      /\ f.kind = "event" /\ ~f.half /\ f.id = nLines + 1
  BY <1>a, <1>b
<1>2. CASE transport = "ws"
  <2>1. wire' = wire \o <<f, w>>
    BY <1>0, <1>2, <1>a, <1>b DEF WorldLine
  <2>a. PICK p \in Seq(Line) : p = <<f, w>>
    <3>1. <<f, w>> \in Seq(Line)
      OBVIOUS
    <3>. QED  BY <3>1
  <2>2. p # <<>> /\ Len(p) = 2 /\ p[1] = f /\ p[2] = w /\ wire' = wire \o p
    BY <2>1, <2>a
  <2>3. Sound(f)' /\ Sound(w)' /\ Spoken(f) /\ ~Spoken(w)
    BY <1>0, <1>1, <1>2 DEF Sound, Spoken
  <2>4. f.id > nLines
    BY <1>0, <1>1
  <2>5. ASSUME NEW k \in 1..Len(p)
        PROVE  /\ Sound(p[k])' /\ ~p[k].half
               /\ Spoken(p[k]) => p[k].id > nLines /\ (\A j \in 1..Len(p) : Spoken(p[j]) => j = k)
               /\ p[k].kind \in {"begin", "room"} => k + 1 \in 1..Len(p) /\ p[k + 1].kind \in Inside
    <3>1. CASE k = 1
      BY <1>1, <2>2, <2>3, <2>4, <3>1
    <3>2. CASE k = 2
      BY <1>1, <2>2, <2>3, <3>2
    <3>. QED  BY <2>2, <3>1, <3>2
  <2>6. nLines' \in Nat /\ nLines' >= nLines
    BY <1>0
  <2>. QED  BY <1>0, <2>2, <2>5, <2>6, StreamGrows
<1>3. CASE transport = "tcp"
  <2>1. wire' = wire \o <<w>>
    BY <1>0, <1>3, <1>a DEF WorldLine
  <2>a. PICK p \in Seq(Line) : p = <<w>>
    <3>1. <<w>> \in Seq(Line)
      OBVIOUS
    <3>. QED  BY <3>1
  <2>2. p # <<>> /\ Len(p) = 1 /\ p[1] = w /\ wire' = wire \o p
    BY <2>1, <2>a
  <2>3. Sound(w)'
    BY <1>0, <1>1, <1>3 DEF Sound, Spoken
  <2>4. w.id > nLines
    BY <1>0, <1>1
  <2>5. ASSUME NEW k \in 1..Len(p)
        PROVE  /\ Sound(p[k])' /\ ~p[k].half
               /\ Spoken(p[k]) => p[k].id > nLines /\ (\A j \in 1..Len(p) : Spoken(p[j]) => j = k)
               /\ p[k].kind \in {"begin", "room"} => k + 1 \in 1..Len(p) /\ p[k + 1].kind \in Inside
    <3>1. k = 1 /\ p[k] = w
      BY <2>2
    <3>. QED  BY <1>1, <2>2, <2>3, <2>4, <3>1
  <2>6. nLines' \in Nat /\ nLines' >= nLines
    BY <1>0
  <2>. QED  BY <1>0, <2>2, <2>5, <2>6, StreamGrows
<1>. QED  BY <1>0, <1>2, <1>3

LEMMA StreamStep ==
  ASSUME TypeOK, Phase, Commands, Stream, [Next]_vars
  PROVE  Stream'
<1>1. CASE OpenFails \/ HandshakeRefused \/ Slept \/ WsClosed
  BY <1>1, StreamStays DEF OpenFails, HandshakeRefused, Slept, WsClosed, readVars, linkVars, serverVars
<1>2. CASE ReadEnds \/ Shutdown
  BY <1>2, StreamEmptied DEF ReadEnds, Shutdown, readVars, serverVars
<1>3. CASE Send
  BY <1>3, StreamStays DEF Send, readVars, linkVars, serverVars
<1>4. CASE Move
  BY <1>4, StreamStays DEF Move, readVars, linkVars
<1>5. CASE UNCHANGED vars
  BY <1>5, StreamStays DEF vars, readVars, linkVars, serverVars
<1>. QED  BY <1>1, <1>2, <1>3, <1>4, <1>5, StreamOpen, StreamRead, StreamWrite, StreamWorld, StreamDrop
          DEF Next, Run, Server

-------------------------------------------------------------------------------
(* The link *)

LEMMA InitInv == Init => Inv
<1> SUFFICES ASSUME Init PROVE Inv
  OBVIOUS
<1>1. TypeOK
  <2>1. {conn, nSends, nLines, nMoves, nDrops, accepted, echoOf} \subseteq Nat /\ 1 \in 1..MaxBackoff
    BY ConnectionAssumption DEF Init
  <2>2. outq \in Seq(Cmd) /\ got \in Seq(Cmd) /\ wire \in Seq(Line) /\ heard \in Seq(Nat)
    BY EmptySeq DEF Init
  <2>. QED  BY <2>1, <2>2 DEF Init, TypeOK, NewSession
<1>2. Commands
  BY DEF Init, Commands, CommandsInOrder, Waiting
<1>3. Stream
  BY DEF Init, Stream, Sounds, Halves, Ordered, Framed
<1>. QED  BY <1>1, <1>2, <1>3, InitPhase DEF Inv

LEMMA InvStep == Inv /\ [Next]_vars => Inv'
BY TypeStep, PhaseStep, CommandsStep, StreamStep DEF Inv

LEMMA Linked == Spec => []Inv
BY InitInv, InvStep, PTL DEF Spec

\* The state of the link keeps its types.
THEOREM Typing == Spec => []TypeOK
<1>1. Inv => TypeOK
  BY DEF Inv
<1>. QED  BY <1>1, Linked, PTL

\* On every link the server receives the login and then what was accepted on that
\* link, in order and without a gap; the router hears the lines of the world in the
\* order of the world, none twice; and what a link left in the buffer meets nothing
\* of the next but its banner.
THEOREM InOrder == Spec => []StreamsInOrder
<1>1. Inv => StreamsInOrder
  <2> SUFFICES ASSUME Inv PROVE StreamsInOrder
    OBVIOUS
  <2>1. CommandsInOrder
    BY DEF Inv, Commands
  <2>2. HeardInOrder
    <3>1. DOMAIN heard = 1..Len(heard)
      BY WireTyped DEF Inv
    <3>2. \A j, k \in 1..Len(heard) : j < k => heard[j] < heard[k]
      BY DEF Inv, Stream, Ordered
    <3>. QED  BY <3>1, <3>2 DEF HeardInOrder
  <2>3. OnlyTheBannerIsGlued
    BY FirstLine DEF Inv, Stream, Halves, OnlyTheBannerIsGlued
  <2>. QED  BY <2>1, <2>2, <2>3 DEF StreamsInOrder
<1>. QED  BY <1>1, Linked, PTL

\* A complete line of the world is routed when it is read, unless an earlier link
\* left the framing open.
THEOREM Routing == Spec => WorldLinesRouted
<1> DEFINE Heeded == Read /\ IsSpeech(Head(wire)) => Len(heard') > Len(heard) \/ (echo /\ echoOf # conn)
<1>1. Inv => Heeded
  <2> SUFFICES ASSUME Inv, Read, IsSpeech(Head(wire)), ~(echo /\ echoOf # conn)
               PROVE  Len(heard') > Len(heard)
    OBVIOUS
  <2> DEFINE line == Head(wire)
  <2>1. /\ wire # <<>> /\ rpc = "read"
        /\ buf = NoLine \/ line.kind = "banner"
        /\ \/ line.kind = "event" /\ heard' = Append(heard, line.id)
           \/ line.kind # "event" /\ line.half
           \/ line.kind # "event" /\ ~line.half /\ Parse(line)
    BY Reading DEF Inv
  <2>2. ~line.half /\ Spoken(line) /\ line = wire[1] /\ Sound(line)
    BY <2>1, FirstLine DEF IsSpeech, Spoken, Inv, Stream
  <2>3. /\ line.id \in Nat /\ heard \in Seq(Nat) /\ Len(heard) \in Nat
    BY <2>2, WireTyped DEF Inv, Sound
  <2>4. ~(echo /\ echoOf = conn)
    BY <2>1, <2>2 DEF Inv, Stream, Framed, Spoken, Inside
  <2>5. line.kind # "event" => Routed(line.kind) /\ buf = NoLine
    BY <2>1, <2>2, <2>4 DEF Routed, Spoken
  <2> HIDE DEF line
  <2>6. heard' = Append(heard, line.id)
    BY <2>1, <2>2, <2>5 DEF Parse
  <2>. QED  BY <2>3, <2>6
<1>2. Inv /\ [Next]_vars => [Heeded]_vars
  BY <1>1
<1>. QED  BY <1>2, Linked, PTL DEF Spec, WorldLinesRouted

-------------------------------------------------------------------------------
(* What Credit says of the bucket's state, Bucket says of the same. *)

LEMMA SameCredit ==
  /\ Unit = Bucket!Unit /\ Rate = Bucket!Rate /\ Cap = Bucket!Cap
  /\ Refilled = Bucket!Refilled /\ Refilled' = Bucket!Refilled'
<1>1. Unit = Bucket!Unit /\ Rate = Bucket!Rate /\ Cap = Bucket!Cap
  BY DEF Unit, Rate, Cap, Bucket!Unit, Bucket!Rate, Bucket!Cap
<1>2. \A a, b : Lesser(a, b) = Bucket!Lesser(a, b)
  BY DEF Lesser, Bucket!Lesser
<1>. QED  BY <1>1, <1>2 DEF Refilled, Bucket!Refilled

-------------------------------------------------------------------------------
(* The credit, with multiplication by Rate kept out of the step proofs. *)

LEMMA Constants ==
  Bucket!Unit \in Nat \ {0} /\ Bucket!Rate \in Nat /\ Bucket!Cap \in Nat
  BY BucketAssumption DEF Bucket!Unit, Bucket!Rate, Bucket!Cap

\* What the time from a to b earns.
LEMMA Earned ==
  ASSUME NEW a \in Nat, NEW b \in Nat, a <= b
  PROVE  (b - a) * Bucket!Rate \in Nat
  <1>1. b - a \in Nat
    OBVIOUS
  <1>2. QED
    BY <1>1, Constants

\* A tick earns Rate.
LEMMA EarnedByTick ==
  ASSUME NEW a \in Nat, NEW b \in Nat, a <= b
  PROVE  ((b + 1) - a) * Bucket!Rate = (b - a) * Bucket!Rate + Bucket!Rate
  <1>1. b - a \in Nat /\ (b + 1) - a = (b - a) + 1
    OBVIOUS
  <1>2. ((b - a) + 1) * Bucket!Rate = (b - a) * Bucket!Rate + Bucket!Rate
    BY <1>1, Constants
  <1>3. QED
    BY <1>1, <1>2

\* No time earns nothing.
LEMMA EarnedAtOnce ==
  ASSUME NEW a \in Nat
  PROVE  (a - a) * Bucket!Rate = 0
  <1>1. a - a = 0
    OBVIOUS
  <1>2. QED
    BY <1>1, Constants

\* Capping twice, with credit added in between, is capping once.
LEMMA CapOnce ==
  ASSUME NEW c \in Nat, NEW x \in Nat, NEW r \in Nat
  PROVE  Bucket!Lesser(c, Bucket!Lesser(c, x) + r) = Bucket!Lesser(c, x + r)
  BY DEF Bucket!Lesser

LEMMA RefilledBounds ==
  ASSUME Bucket!TypeOK
  PROVE  Bucket!Refilled \in 0..Bucket!Cap
  <1>1. (now - last) * Bucket!Rate \in Nat
    BY Earned DEF Bucket!TypeOK
  <1>2. QED
    BY <1>1, Constants DEF Bucket!Refilled, Bucket!Lesser, Bucket!TypeOK

-------------------------------------------------------------------------------
(* Types *)

LEMMA BucketInit == Bucket!Init => Bucket!TypeOK
  BY BucketAssumption, Constants DEF Bucket!Init, Bucket!TypeOK

LEMMA BucketStep ==
  ASSUME Bucket!TypeOK, [Bucket!Next]_(Bucket!vars)
  PROVE  Bucket!TypeOK'
  <1>1. Bucket!Refilled \in 0..Bucket!Cap
    BY RefilledBounds
  <1>2. CASE Bucket!Tick
    BY <1>2 DEF Bucket!Tick, Bucket!TypeOK
  <1>3. CASE Bucket!Allow
    <2>1. Bucket!Refilled - Bucket!Unit \in 0..Bucket!Cap
      BY <1>1, <1>3, Constants DEF Bucket!Allow
    <2>2. QED
      BY <1>3, <2>1 DEF Bucket!Allow, Bucket!TypeOK
  <1>4. CASE Bucket!Refuse
    BY <1>1, <1>4 DEF Bucket!Refuse, Bucket!TypeOK
  <1>5. CASE Bucket!Rebuild
    BY <1>5, Constants, BucketAssumption DEF Bucket!Rebuild, Bucket!TypeOK
  <1>6. CASE Bucket!Watch
    BY <1>6, BucketAssumption DEF Bucket!Watch, Bucket!TypeOK
  <1>7. CASE UNCHANGED Bucket!vars
    BY <1>7 DEF Bucket!vars, Bucket!TypeOK
  <1>8. QED
    BY <1>2, <1>3, <1>4, <1>5, <1>6, <1>7 DEF Bucket!Next

\* The bucket never holds more than its capacity nor owes a token, and its
\* clock readings never lie in the future.
THEOREM BucketTyped == Bucket!Spec => []Bucket!TypeOK
  <1>1. QED
    BY BucketInit, BucketStep, PTL DEF Bucket!Spec

-------------------------------------------------------------------------------
(* How each step moves the credit *)

\* The credit available grows with the clock, up to the capacity.
LEMMA TickRefills ==
  ASSUME Bucket!TypeOK, Bucket!Tick
  PROVE  Bucket!Refilled' = Bucket!Lesser(Bucket!Cap, Bucket!Refilled + Bucket!Rate)
  <1> DEFINE x == tokens + (now - last) * Bucket!Rate
  <1>0. (now - last) * Bucket!Rate \in Nat
    BY Earned DEF Bucket!TypeOK
  <1>1. (now - last) * Bucket!Rate \in Nat /\ x \in Nat
    BY <1>0, Constants DEF Bucket!TypeOK
  <1>2. (now' - last') * Bucket!Rate = (now - last) * Bucket!Rate + Bucket!Rate
    BY EarnedByTick DEF Bucket!Tick, Bucket!TypeOK
  <1>3. Bucket!Refilled' = Bucket!Lesser(Bucket!Cap, x + Bucket!Rate)
    BY <1>1, <1>2, Constants DEF Bucket!Tick, Bucket!Refilled, Bucket!TypeOK
  <1>4. Bucket!Lesser(Bucket!Cap, Bucket!Lesser(Bucket!Cap, x) + Bucket!Rate) = Bucket!Lesser(Bucket!Cap, x + Bucket!Rate)
    BY <1>1, Constants, CapOnce
  <1>5. QED
    BY <1>3, <1>4 DEF Bucket!Refilled

\* A bucket whose clock was just read has its tokens as credit.
LEMMA FreshRefill ==
  ASSUME last' = now, now' = now, now \in Nat, tokens' \in 0..Bucket!Cap
  PROVE  Bucket!Refilled' = tokens'
  <1>1. (now' - last') * Bucket!Rate = 0
    <2>1. now' - last' = now - now
      OBVIOUS
    <2>2. (now - now) * Bucket!Rate = 0
      BY EarnedAtOnce
    <2>3. QED
      BY <2>1, <2>2
  <1>2. Bucket!Refilled' = Bucket!Lesser(Bucket!Cap, tokens' + (now' - last') * Bucket!Rate)
    BY DEF Bucket!Refilled
  <1>3. \A c \in Nat : \A t \in 0..c : Bucket!Lesser(c, t + 0) = t
    BY DEF Bucket!Lesser
  <1>4. Bucket!Lesser(Bucket!Cap, tokens' + 0) = tokens'
    BY <1>3, Constants
  <1>5. QED
    BY <1>1, <1>2, <1>4, Zenon

-------------------------------------------------------------------------------
(* The rate *)

LEMMA CreditInit == Bucket!Init => Bucket!CreditPaid
  <1> SUFFICES ASSUME Bucket!Init PROVE Bucket!CreditPaid
    OBVIOUS
  <1>1. (now - last) * Bucket!Rate = 0 /\ (now - start) * Bucket!Rate = 0
    BY EarnedAtOnce DEF Bucket!Init
  <1>2. Bucket!Refilled = Bucket!Cap
    BY <1>1, Constants DEF Bucket!Init, Bucket!Refilled, Bucket!Lesser
  <1>3. QED
    BY <1>1, <1>2, Constants DEF Bucket!Init, Bucket!CreditPaid

LEMMA CreditStep ==
  ASSUME Bucket!TypeOK, Bucket!CreditPaid, [Bucket!Next]_(Bucket!vars)
  PROVE  Bucket!CreditPaid'
  <1> DEFINE e == (now - start) * Bucket!Rate
             bursts == (1 + rebuilds) * Bucket!Cap
             cost == sent * Bucket!Unit
  <1>1. e \in Nat /\ bursts \in Nat /\ cost \in Nat /\ Bucket!Refilled \in 0..Bucket!Cap
    BY Earned, Constants, RefilledBounds DEF Bucket!TypeOK
  <1>2. cost + Bucket!Refilled <= bursts + e
    BY DEF Bucket!CreditPaid
  <1>3. Bucket!TypeOK'
    BY BucketStep
  <1>4. CASE Bucket!Tick
    <2>1. (now' - start') * Bucket!Rate = e + Bucket!Rate
      BY <1>4, EarnedByTick DEF Bucket!Tick, Bucket!TypeOK
    <2>2. Bucket!Refilled' <= Bucket!Refilled + Bucket!Rate
      BY <1>1, <1>4, TickRefills, Constants DEF Bucket!Lesser
    <2>3. Bucket!Refilled' \in Nat
      BY <1>1, <1>4, TickRefills, Constants DEF Bucket!Lesser
    <2>4. sent' * Bucket!Unit = cost /\ (1 + rebuilds') * Bucket!Cap = bursts
      BY <1>4 DEF Bucket!Tick
    <2> HIDE DEF e, bursts, cost
    <2>5. QED
      BY <1>1, <1>2, <2>1, <2>2, <2>3, <2>4, Constants DEF Bucket!CreditPaid
  <1>5. CASE Bucket!Allow
    <2>1. Bucket!Refilled' = Bucket!Refilled - Bucket!Unit
      BY <1>1, <1>3, <1>5, FreshRefill, Constants DEF Bucket!Allow, Bucket!TypeOK
    <2>2. sent' * Bucket!Unit = cost + Bucket!Unit
      BY <1>5, Constants DEF Bucket!Allow, Bucket!TypeOK
    <2>3. (now' - start') * Bucket!Rate = e /\ (1 + rebuilds') * Bucket!Cap = bursts
      BY <1>5 DEF Bucket!Allow
    <2> HIDE DEF e, bursts, cost
    <2>4. QED
      BY <1>1, <1>2, <2>1, <2>2, <2>3, Constants DEF Bucket!CreditPaid
  <1>6. CASE Bucket!Refuse
    <2>1. Bucket!Refilled' = Bucket!Refilled
      BY <1>3, <1>6, FreshRefill DEF Bucket!Refuse, Bucket!TypeOK
    <2>2. QED
      BY <1>2, <1>6, <2>1 DEF Bucket!Refuse, Bucket!CreditPaid
  <1>7. CASE Bucket!Rebuild
    <2>1. Bucket!Refilled' = Bucket!Cap
      BY <1>3, <1>7, FreshRefill DEF Bucket!Rebuild, Bucket!TypeOK
    <2>2. (1 + rebuilds') * Bucket!Cap = bursts + Bucket!Cap
      BY <1>7, Constants DEF Bucket!Rebuild, Bucket!TypeOK
    <2>3. sent' * Bucket!Unit = cost /\ (now' - start') * Bucket!Rate = e
      BY <1>7 DEF Bucket!Rebuild
    <2> HIDE DEF e, bursts, cost
    <2>4. QED
      BY <1>1, <1>2, <2>1, <2>2, <2>3, Constants DEF Bucket!CreditPaid
  <1>8. CASE Bucket!Watch
    <2>1. Bucket!Refilled' = Bucket!Refilled
      BY <1>8 DEF Bucket!Watch, Bucket!Refilled
    <2>2. sent' * Bucket!Unit = 0 /\ (now' - start') * Bucket!Rate = 0 /\ (1 + rebuilds') * Bucket!Cap = Bucket!Cap
      BY <1>8, EarnedAtOnce, Constants DEF Bucket!Watch, Bucket!TypeOK
    <2>3. QED
      BY <1>1, <2>1, <2>2, Constants DEF Bucket!CreditPaid
  <1>9. CASE UNCHANGED Bucket!vars
    BY <1>2, <1>9 DEF Bucket!vars, Bucket!CreditPaid, Bucket!Refilled
  <1>10. QED
    BY <1>4, <1>5, <1>6, <1>7, <1>8, <1>9 DEF Bucket!Next

LEMMA CreditBoundsRate ==
  ASSUME Bucket!TypeOK, Bucket!CreditPaid
  PROVE  Bucket!WithinRate
  <1> DEFINE e == (now - start) * Bucket!Rate
             bursts == (1 + rebuilds) * Bucket!Cap
             cost == sent * Bucket!Unit
  <1>1. e \in Nat /\ bursts \in Nat /\ cost \in Nat /\ Bucket!Refilled \in 0..Bucket!Cap
    BY Earned, Constants, RefilledBounds DEF Bucket!TypeOK
  <1>2. cost + Bucket!Refilled <= bursts + e
    BY DEF Bucket!CreditPaid
  <1> HIDE DEF e, bursts, cost
  <1>3. cost <= bursts + e
    BY <1>1, <1>2, Constants
  <1>4. QED
    BY <1>3 DEF Bucket!WithinRate, e, bursts, cost

\* Over any stretch of time a location is sent at most a burst, what its rate
\* earns, and a burst for each profile reload in it.
THEOREM RateRespected == Bucket!Spec => []WithinRate
  <1>1. Bucket!TypeOK /\ Bucket!CreditPaid => WithinRate
    BY CreditBoundsRate, SameCredit DEF WithinRate, Bucket!WithinRate
  <1>2. Bucket!Init => Bucket!CreditPaid
    BY CreditInit
  <1>3. Bucket!TypeOK /\ Bucket!CreditPaid /\ [Bucket!Next]_(Bucket!vars) => Bucket!CreditPaid'
    BY CreditStep
  <1>4. QED
    BY <1>1, <1>2, <1>3, BucketTyped, PTL DEF Bucket!Spec

-------------------------------------------------------------------------------
(* The refinement *)

LEMMA SameLimit == Limit!Unit = Bucket!Unit /\ Limit!Rate = Bucket!Rate /\ Limit!Cap = Bucket!Cap
  BY DEF Limit!Unit, Limit!Rate, Limit!Cap, Bucket!Unit, Bucket!Rate, Bucket!Cap

LEMMA LimitInit == Bucket!Init => Limit!Init
  <1> SUFFICES ASSUME Bucket!Init PROVE Limit!Init
    OBVIOUS
  <1>1. (now - last) * Bucket!Rate = 0
    BY EarnedAtOnce DEF Bucket!Init
  <1>2. Bucket!Refilled = Bucket!Cap
    BY <1>1, Constants DEF Bucket!Init, Bucket!Refilled, Bucket!Lesser
  <1>3. QED
    BY <1>2, SameLimit, SameCredit DEF Bucket!Init, Limit!Init

\* Each step of the bucket is the step of the allowance of the same name.
LEMMA LimitStep ==
  ASSUME Bucket!TypeOK, [Bucket!Next]_(Bucket!vars)
  PROVE  [Limit!Next]_(Limit!vars)
  <1>1. Bucket!TypeOK'
    BY BucketStep
  <1>2. CASE Bucket!Tick
    <2>1. Bucket!Refilled' = Limit!Lesser(Limit!Cap, Bucket!Refilled + Limit!Rate)
      BY <1>2, TickRefills, SameLimit, SameCredit DEF Bucket!Lesser, Limit!Lesser
    <2>2. QED
      BY <1>2, <2>1, SameLimit, SameCredit DEF Bucket!Tick, Limit!Tick, Limit!Next
  <1>3. CASE Bucket!Allow
    <2>1. Bucket!Refilled' = Bucket!Refilled - Bucket!Unit
      BY <1>1, <1>3, FreshRefill DEF Bucket!Allow, Bucket!TypeOK
    <2>2. QED
      BY <1>3, <2>1, SameLimit, SameCredit DEF Bucket!Allow, Limit!Pass, Limit!Next
  <1>4. CASE Bucket!Refuse
    <2>1. Bucket!Refilled' = Bucket!Refilled
      BY <1>1, <1>4, FreshRefill DEF Bucket!Refuse, Bucket!TypeOK
    <2>2. QED
      BY <1>4, <2>1, SameLimit, SameCredit DEF Bucket!Refuse, Limit!Refuse, Limit!Next
  <1>5. CASE Bucket!Rebuild
    <2>1. Bucket!Refilled' = Bucket!Cap
      BY <1>1, <1>5, FreshRefill DEF Bucket!Rebuild, Bucket!TypeOK
    <2>2. QED
      BY <1>5, <2>1, SameLimit, SameCredit DEF Bucket!Rebuild, Limit!Rebuild, Limit!Next
  <1>6. CASE Bucket!Watch
    <2>1. Bucket!Refilled' = Bucket!Refilled
      BY <1>6 DEF Bucket!Watch, Bucket!Refilled
    <2>2. QED
      BY <1>6, <2>1, SameCredit DEF Bucket!Watch, Limit!Watch, Limit!Next
  <1>7. CASE UNCHANGED Bucket!vars
    BY <1>7 DEF Bucket!vars, Limit!vars, Refilled
  <1>8. QED
    BY <1>2, <1>3, <1>4, <1>5, <1>6, <1>7 DEF Bucket!Next

\* The bucket that computes its refill when asked, a refusal included, is the
\* allowance that grows by itself.
THEOREM BucketIsTheLimit == Bucket!Spec => KeepsTheLimit
  <1>1. QED
    BY LimitInit, LimitStep, BucketTyped, PTL DEF Bucket!Spec, KeepsTheLimit, Limit!Spec
===============================================================================
