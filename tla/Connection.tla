------------------------------ MODULE Connection ------------------------------
(***************************************************************************)
(* The link to the MUSH over either transport, up to the parser: connect,  *)
(* log in, write, read, lose the link, back off and connect again.         *)
(* (src/cricket/mush/connection.py, src/cricket/mush/ws_connection.py, the *)
(* command-echo framing of src/cricket/mush/protocol.py, and _on_line,     *)
(* _on_event, _handle_command_echo of src/cricket/daemon.py.)              *)
(*                                                                         *)
(* Three tasks share the link: run() (connect and read), the writer task   *)
(* that drains the outbound queue, and whoever calls send (handlers and    *)
(* the keepalive).  The server is external: it handles a command at once,  *)
(* puts its output in one piece on the wire, greets each connection with a *)
(* banner, and may drop the link at any point, in the middle of a line     *)
(* too, or reset it, which discards what was not yet read.                 *)
(*                                                                         *)
(* A line is its kind and number.  The telnet transport is "tcp": all      *)
(* lines come through the parser.  On "ws" each line of the world comes    *)
(* twice, as a JSON frame and as a text line.  The setup commands are      *)
(* reduced to the room probe, the only one whose answer the daemon reads.  *)
(***************************************************************************)
EXTENDS Naturals, Sequences

CONSTANTS
  Rooms,       \* rooms the bot may be in
  NoRoom,      \* current_room before the first probe is answered
  Junk,        \* current_room when it is the start of one line and another line
  MaxLines,    \* bound: world lines the server sends
  MaxSends,    \* bound: commands from handlers and the keepalive
  MaxDrops,    \* bound: links lost
  MaxMoves,    \* bound: times the bot is moved to another room
  MaxBackoff   \* ceiling of the reconnect backoff (60 s)

ASSUME ConnectionAssumption ==
  /\ NoRoom \notin Rooms /\ Junk \notin Rooms
  /\ {MaxLines, MaxSends, MaxDrops, MaxMoves} \subseteq Nat
  /\ MaxBackoff \in Nat \ {0}

VARIABLES
  transport, \* config.mush.transport
  rpc,       \* run(): "connect", "read", "closing" (ws only), "sleep", "ended",
             \* or "escaped": an exception left it
  backoff,   \* run's local
  outq,      \* _outq: the commands queued
  hasq,      \* _outq is not None
  writer,    \* the writer task: "none", "idle", or "broken" (its loop has ended)
  buf,       \* the unfinished line kept in _buffer or _textbuf, if any
  echo,      \* Parser._in_command_echo
  room,      \* Bot.current_room
  sock,      \* the link: "down", "up", "eof" (dropped by the server) or "reset"
  wire,      \* lines sent by the server and not read yet
  session,   \* what the server knows of this link: logged in, output framed
  here,      \* the room the bot stands in
  conn,      \* number of this connection
  nSends, nLines, nMoves, nDrops, \* counters for the bounds
  accepted,  \* commands accepted by send on this connection
  got,       \* history: commands the server received on this connection
  heard,     \* history: world lines given to router.handle
  echoOf,    \* history: the connection whose output set `echo` last
  moved      \* history: the bot was moved since this connection was made, or since
             \* the server answered its probe

linkVars == <<sock, wire, session, got>>
queueVars == <<outq, hasq, writer, accepted>>
readVars == <<buf, echo, room, heard, echoOf>>
serverVars == <<here, moved, nLines, nMoves, nDrops>>
vars == <<transport, rpc, backoff, queueVars, readVars, linkVars, serverVars,
          conn, nSends>>

(* _login: the name, the two sentinels, then the setup commands.           *)
Login == <<"connect", "prefix", "suffix", "probe">>
Cmd == [conn : Nat, n : Nat, cmd : {"connect", "prefix", "suffix", "probe", "say"}]
Line == [kind : {"banner", "world", "event", "begin", "room", "end"}, id : Nat \cup Rooms,
         half : BOOLEAN]
NoLine == [kind |-> "none", id |-> 0, half |-> FALSE]

Full(kind, id) == [kind |-> kind, id |-> id, half |-> FALSE]
NewSession == [in |-> FALSE, prefix |-> FALSE, suffix |-> FALSE]

TypeOK ==
  /\ transport \in {"tcp", "ws"}
  /\ rpc \in {"connect", "read", "closing", "sleep", "ended", "escaped"}
  /\ backoff \in 1..MaxBackoff
  /\ outq \in Seq(Cmd) /\ got \in Seq(Cmd)
  /\ hasq \in BOOLEAN
  /\ writer \in {"none", "idle", "broken"}
  /\ buf \in Line \cup {NoLine}
  /\ echo \in BOOLEAN /\ moved \in BOOLEAN
  /\ room \in Rooms \cup {NoRoom, Junk}
  /\ sock \in {"down", "up", "eof", "reset"}
  /\ wire \in Seq(Line)
  /\ session \in [in : BOOLEAN, prefix : BOOLEAN, suffix : BOOLEAN]
  /\ here \in Rooms
  /\ heard \in Seq(Nat)
  /\ {conn, nSends, nLines, nMoves, nDrops, accepted, echoOf} \subseteq Nat

Init ==
  /\ transport \in {"tcp", "ws"}
  /\ rpc = "connect" /\ backoff = 1
  /\ outq = <<>> /\ hasq = FALSE /\ writer = "none"
  /\ buf = NoLine /\ echo = FALSE /\ room = NoRoom
  /\ sock = "down" /\ wire = <<>> /\ session = NewSession
  /\ here \in Rooms /\ moved = FALSE
  /\ conn = 0 /\ accepted = 0 /\ got = <<>> /\ heard = <<>> /\ echoOf = 0
  /\ nSends = 0 /\ nLines = 0 /\ nMoves = 0 /\ nDrops = 0

-------------------------------------------------------------------------------
(* run(): connecting *)

\* Mutant of LoginQueue: the setup commands are sent on the first connection only.
LoginQueueOnce(c) ==
  [n \in (IF c = 1 THEN DOMAIN Login ELSE 1..3) |->
     [conn |-> c, n |-> n, cmd |-> Login[n]]]

\* What _login queues on connection c.
LoginQueue(c) == [n \in DOMAIN Login |-> [conn |-> c, n |-> n, cmd |-> Login[n]]]

\* The connection is made: a fresh queue and writer task, then _login.
Open ==
  /\ rpc = "connect"
  /\ rpc' = "read" /\ backoff' = 1
  /\ conn' = conn + 1
  /\ sock' = "up" /\ wire' = <<Full("banner", 0)>>
  /\ session' = NewSession /\ got' = <<>>
  /\ hasq' = TRUE /\ writer' = "idle"
  /\ outq' = LoginQueue(conn') /\ accepted' = Len(outq')
  /\ buf' = IF transport = "ws" THEN NoLine ELSE buf
  /\ moved' = FALSE
  /\ UNCHANGED <<transport, echo, room, heard, echoOf, here, nLines, nMoves, nDrops,
                 nSends>>

\* Mutant of OpenFails: the exception is not caught.
OpenFailsEscapes ==
  /\ rpc = "connect"
  /\ rpc' = "escaped"
  /\ UNCHANGED <<transport, backoff, queueVars, readVars, linkVars, serverVars,
                 conn, nSends>>

\* OSError (or a timeout): the loop backs off.
OpenFails ==
  /\ rpc = "connect"
  /\ rpc' = "sleep"
  /\ UNCHANGED <<transport, backoff, queueVars, readVars, linkVars, serverVars,
                 conn, nSends>>

\* The port answers but not with a WebSocket handshake: the library's
\* InvalidHandshake is none of the exceptions run() catches.
HandshakeRefused ==
  /\ rpc = "connect" /\ transport = "ws"
  /\ rpc' = "escaped"
  /\ UNCHANGED <<transport, backoff, queueVars, readVars, linkVars, serverVars,
                 conn, nSends>>

\* Mutant of Doubled: no ceiling.
DoubledUncapped(b) == 2 * b

Doubled(b) == IF 2 * b > MaxBackoff THEN MaxBackoff ELSE 2 * b

\* asyncio.sleep(backoff)
Slept ==
  /\ rpc = "sleep"
  /\ rpc' = "connect"
  /\ backoff' = Doubled(backoff)
  /\ UNCHANGED <<transport, queueVars, readVars, linkVars, serverVars, conn, nSends>>

-------------------------------------------------------------------------------
(* run(): reading *)

\* Mutant of Framing: the suffix sentinel does not close it.
FramingLeftOpen(kind) == echo \/ kind = "begin"

\* _in_command_echo after a line of this kind.
Framing(kind) ==
  CASE kind = "begin" -> TRUE
    [] kind = "end" -> FALSE
    [] OTHER -> echo

\* Mutant of Routed: the text lines are routed on both transports.
RoutedTwice(kind) == kind = "world" /\ ~echo

\* A text line that goes to the router.
Routed(kind) == kind = "world" /\ ~echo /\ transport # "ws"

\* The parser and the daemon on one complete line.  A line that starts with
\* what an earlier connection left in the buffer is no sentinel; it may pass for
\* a message of that earlier speaker or, inside the framing, for an answer.
Parse(line) ==
  LET glued == buf # NoLine
      text == IF glued THEN buf ELSE line
  IN  /\ echo' = IF glued THEN echo ELSE Framing(text.kind)
      /\ echoOf' = IF text.kind = "begin" /\ ~glued THEN conn ELSE echoOf
      /\ room' \in IF ~(echo /\ text.kind = "room") THEN {room}
                   ELSE {text.id} \cup (IF glued THEN {room, Junk} ELSE {})
      /\ heard' \in IF ~Routed(text.kind) THEN {heard}
                    ELSE {Append(heard, text.id)} \cup (IF glued THEN {heard} ELSE {})

\* Mutant of Remainder: a complete line leaves what was kept before it.
RemainderKept(line) == IF line.half /\ buf = NoLine THEN line ELSE buf

\* What the buffer keeps after a line: half a line, for when the rest comes.
Remainder(line) ==
  IF ~line.half THEN NoLine
  ELSE IF buf = NoLine THEN line
  ELSE buf

\* One line of the telnet stream, or one text line or JSON frame of the
\* WebSocket.
Read ==
  /\ rpc = "read" /\ sock # "reset" /\ wire # <<>>
  /\ LET line == Head(wire)
     IN  IF line.kind = "event"
         THEN /\ heard' = Append(heard, line.id)
              /\ UNCHANGED <<buf, echo, echoOf, room>>
         ELSE /\ buf' = Remainder(line)
              /\ IF line.half THEN UNCHANGED <<echo, echoOf, room, heard>> ELSE Parse(line)
  /\ wire' = Tail(wire)
  /\ UNCHANGED <<transport, rpc, backoff, queueVars, sock, session, got,
                 serverVars, conn, nSends>>

\* The end of the stream, or ConnectionReset: _teardown_writer, and on "ws"
\* the closing handshake is awaited.
ReadEnds ==
  /\ rpc = "read"
  /\ sock = "reset" \/ (sock = "eof" /\ wire = <<>>)
  /\ writer' = "none" /\ hasq' = FALSE /\ outq' = <<>>
  /\ sock' = "down" /\ wire' = <<>>
  /\ rpc' = IF transport = "ws" THEN "closing" ELSE "sleep"
  /\ UNCHANGED <<transport, backoff, accepted, readVars, session, got, serverVars,
                 conn, nSends>>

WsClosed ==
  /\ rpc = "closing"
  /\ rpc' = "sleep"
  /\ UNCHANGED <<transport, backoff, queueVars, readVars, linkVars, serverVars,
                 conn, nSends>>

\* Bot.run cancels run(), waits for it, then calls close.
Shutdown ==
  /\ rpc \in {"connect", "read", "closing", "sleep"}
  /\ rpc' = "ended"
  /\ writer' = "none" /\ hasq' = FALSE /\ outq' = <<>>
  /\ sock' = "down" /\ wire' = <<>>
  /\ UNCHANGED <<transport, backoff, accepted, readVars, session, got, serverVars,
                 conn, nSends>>

-------------------------------------------------------------------------------
(* send and the writer task *)

\* Mutant of Queued: the command overtakes those queued.
QueuedAhead(cmd) == <<cmd>> \o outq

Queued(cmd) == Append(outq, cmd)

\* A handler or the keepalive calls send: queued, or dropped while there is no
\* queue.
Send ==
  /\ nSends < MaxSends
  /\ nSends' = nSends + 1
  /\ IF hasq
     THEN /\ accepted' = accepted + 1
          /\ outq' = Queued([conn |-> conn, n |-> accepted', cmd |-> "say"])
     ELSE UNCHANGED <<accepted, outq>>
  /\ UNCHANGED <<transport, rpc, backoff, hasq, writer, readVars, linkVars,
                 serverVars, conn>>

Lines(kind, id) == IF kind = "probe" THEN <<Full("room", id)>> ELSE <<>>

\* What the server does with a command: output is framed once both sentinels
\* are set; `connect`, OUTPUTPREFIX and OUTPUTSUFFIX are silent.
Served(cmd) ==
  /\ session' = CASE cmd = "connect" -> [session EXCEPT !.in = TRUE]
                  [] cmd = "prefix" -> [session EXCEPT !.prefix = TRUE]
                  [] cmd = "suffix" -> [session EXCEPT !.suffix = TRUE]
                  [] OTHER -> session
  /\ wire' = IF cmd \in {"connect", "prefix", "suffix"} THEN wire
             ELSE wire \o (IF session.prefix THEN <<Full("begin", 0)>> ELSE <<>>)
                       \o Lines(cmd, here)
                       \o (IF session.suffix THEN <<Full("end", 0)>> ELSE <<>>)
  /\ moved' = IF cmd = "probe" THEN FALSE ELSE moved

\* The writer task takes the oldest command.  On a dropped link the write is
\* lost unseen or raises OSError, which ends the loop and leaves the queue.
Write ==
  /\ writer = "idle" /\ outq # <<>>
  /\ outq' = Tail(outq)
  /\ \/ /\ sock = "up"
        /\ got' = Append(got, Head(outq))
        /\ Served(Head(outq).cmd)
        /\ UNCHANGED writer
     \/ /\ sock # "up"
        /\ writer' \in {"idle", "broken"}
        /\ UNCHANGED <<got, session, wire, moved>>
  /\ UNCHANGED <<transport, rpc, backoff, hasq, accepted, readVars, sock, here,
                 nLines, nMoves, nDrops, conn, nSends>>

-------------------------------------------------------------------------------
(* The server *)

\* Someone speaks where the bot hears it.
WorldLine ==
  /\ sock = "up" /\ session.in
  /\ nLines < MaxLines
  /\ nLines' = nLines + 1
  /\ wire' = wire \o IF transport = "ws" THEN <<Full("event", nLines'), Full("world", nLines')>>
                                         ELSE <<Full("world", nLines')>>
  /\ UNCHANGED <<transport, rpc, backoff, queueVars, readVars, sock, session, got,
                 here, moved, nMoves, nDrops, conn, nSends>>

Move ==
  /\ nMoves < MaxMoves
  /\ nMoves' = nMoves + 1
  /\ here' \in Rooms \ {here}
  /\ moved' = TRUE
  /\ UNCHANGED <<transport, rpc, backoff, queueVars, readVars, linkVars, nLines,
                 nDrops, conn, nSends>>

\* The link is dropped, the last lines sent not having left, and perhaps one of
\* them cut (a JSON frame never is).
Drop ==
  /\ sock = "up"
  /\ nDrops < MaxDrops
  /\ nDrops' = nDrops + 1
  /\ \/ sock' = "reset" /\ UNCHANGED wire
     \/ /\ sock' = "eof"
        /\ \E k \in 0..Len(wire) :
             \/ wire' = SubSeq(wire, 1, k)
             \/ /\ k > 0
                /\ wire[k].kind # "event"
                /\ wire' = [SubSeq(wire, 1, k) EXCEPT ![k].half = TRUE]
  /\ UNCHANGED <<transport, rpc, backoff, queueVars, readVars, session, got, here,
                 moved, nLines, nMoves, conn, nSends>>

-------------------------------------------------------------------------------
Run == Open \/ OpenFails \/ HandshakeRefused \/ Slept \/ Read \/ ReadEnds \/ WsClosed
Server == WorldLine \/ Move \/ Drop
Next == Run \/ Shutdown \/ Send \/ Write \/ Server

\* The event loop runs its tasks, and a server that is away comes back: it
\* cannot refuse every attempt for ever.
Fairness == WF_vars(Run) /\ WF_vars(Write) /\ SF_vars(Open)

Spec == Init /\ [][Next]_vars
FairSpec == Spec /\ Fairness

-------------------------------------------------------------------------------
(* Properties *)

\* Whatever is queued, lost and queued again, the server receives on each
\* connection the login first and then the commands accepted on that same
\* connection, in order and without a gap: none survives a reconnect.
CommandsInOrder ==
  \A k \in DOMAIN got :
    /\ got[k].conn = conn /\ got[k].n = k
    /\ k <= Len(Login) => got[k].cmd = Login[k]

\* World lines reach the router in the order of the world, none twice, across
\* reconnects and half-delivered lines.
HeardInOrder == \A j, k \in DOMAIN heard : j < k => heard[j] < heard[k]

\* What an earlier connection left in the buffer only ever spoils the banner:
\* no sentinel and no line of the world is glued to it.
OnlyTheBannerIsGlued ==
  buf # NoLine /\ rpc = "read" /\ wire # <<>> => Head(wire).kind = "banner"

\* What each side has of the other is whole, in order and once, whatever the
\* connections before left in a queue or a buffer.
StreamsInOrder == CommandsInOrder /\ HeardInOrder /\ OnlyTheBannerIsGlued

\* A complete line of the world, in the form the transport trusts.
IsSpeech(line) ==
  ~line.half /\ line.kind = IF transport = "ws" THEN "event" ELSE "world"

\* A complete world line that is read is routed, unless the framing was left
\* open by an earlier connection.
WorldLinesRouted ==
  [][Read /\ IsSpeech(Head(wire))
       => Len(heard') > Len(heard) \/ (echo /\ echoOf # conn)]_vars

\* A lost link is made again, for ever, unless the bot is shut down or the
\* exception of a refused WebSocket handshake ends run().
Reconnects ==
  rpc = "sleep" ~> rpc \in {"read", "ended"} \/ (transport = "ws" /\ rpc = "escaped")

\* On a connection that lasts, the probe of the login brings current_room to
\* the room the bot stood in when the server answered it, whatever the
\* connection before left in the buffer and the framing.
RoomFound ==
  \A c \in 1..MaxDrops + 1 :
    (conn = c /\ rpc = "read")
      ~> (room = here \/ moved \/ conn # c \/ rpc # "read" \/ sock # "up")

\* A lost link is made again and the bot knows again where it stands.
LinkRestored == Reconnects /\ RoomFound
===============================================================================
