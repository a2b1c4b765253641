------------------------------ MODULE Download ------------------------------
(***************************************************************************)
(* How a client gets the arena of the server it wants to play on: the      *)
(* screen downArena (screen/downArena.c) asks the game server by UDP for   *)
(* the name of its arena and, when it does not have it, fetches the file   *)
(* from the download server (base/downServer.c) by TCP.  Both keep what    *)
(* they send and receive in buffers (base/buffer.c).  The lines and the    *)
(* bytes of the file are symbols; TCP cuts their sequence anywhere.        *)
(***************************************************************************)
EXTENDS Screens

CONSTANTS
    Size,           \* bytes of the arena file
    Block,          \* DOWN_SERVER_SEND_FILE_BUFFER
    Chunk,          \* what one read takes, STR_PROTO_SIZE - 1
    ClientBuffer,   \* DOWN_ARENA_BUFFER_SIZE
    MaxReads,       \* DOWN_ARENA_COUNT_READ_SOCKET
    MaxSendMsg      \* DOWN_ARENA_MAX_SEND_MSG_STATUS

ASSUME DownloadAssumption ==
    /\ Size \in Nat \ {0} /\ Block \in Nat \ {0} /\ Chunk \in Nat \ {0}
    /\ MaxReads \in Nat \ {0} /\ MaxSendMsg \in Nat /\ ClientBuffer \in Nat

VARIABLES
    up,             \* whether the server runs
    mail,           \* UDP: "status" on its way to the server, "answer" on its way back
    d,              \* the statics of downArena.c
    reads,          \* reads of this tick
    disk,           \* {} or {what the arena file in the home directory holds}
    known,          \* whether listArenaFile has the arena of the server
    upstream, downstream,   \* the TCP connection, in its two directions
    s               \* the record of the client in the download server

peers == <<up, mail, upstream, downstream, s>>
download == <<peers, d, reads, disk, known>>

Content == [i \in 1 .. Size |-> i]
Newline == 0
Ok == -1
Error == -2
GetArena == -3

NoDownload == [status |-> "none", udp |-> FALSE, count |-> 0, conn |-> FALSE,
               rbuf |-> <<>>, sbuf |-> <<>>, file |-> FALSE, size |-> 0, offset |-> 0]
NoClient == [there |-> FALSE, rbuf |-> <<>>, sbuf |-> <<>>, file |-> FALSE, sent |-> 0,
             closed |-> FALSE]

AtMost(n, m) == IF n < m THEN n ELSE m

\* closeConnectFromDownServer.  Sessions of the server share nothing: one that is left
\* is not followed any further.
Closed(r) == [r EXCEPT !.conn = FALSE, !.rbuf = <<>>, !.sbuf = <<>>]
Hangs(r) == r.conn /\ s' = NoClient /\ upstream' = <<>> /\ downstream' = <<>>
HangsUp(r) == Hangs(r) \/ (~r.conn /\ UNCHANGED <<s, upstream, downstream>>)

-----------------------------------------------------------------------------
(* The client.                                                              *)

\* sendStatusToGameServer: the counter is raised twice.
Asks(r) == IF r.count > MaxSendMsg THEN r ELSE [r EXCEPT !.count = @ + 2]
Asked(r, m) == IF r.count > MaxSendMsg THEN m ELSE m \cup {"status"}

\* down_arena_start: the counter and the file of an earlier visit stay.
DownStart ==
    LET r == [d EXCEPT !.status = "none"] IN
      \/ /\ d' = Asks([r EXCEPT !.udp = TRUE]) /\ mail' = Asked(d, mail)
         /\ UNCHANGED <<up, upstream, downstream, s, reads, disk, known>>
      \/ /\ d' = [r EXCEPT !.udp = FALSE]
         /\ UNCHANGED <<peers, reads, disk, known>>

\* Without a socket the first event runs into the assertions of sock_udp_read.
LacksSocket == d.status = "none" /\ ~d.udp

\* sock_tcp_connect may fail, and does without a server.
SockTcpConnect(ok) == ok => up

\* connectToDownServer.
Connects(r) ==
    \E ok \in BOOLEAN :
      /\ SockTcpConnect(ok)
      /\ IF ok
         THEN /\ d' = [r EXCEPT !.conn = TRUE, !.file = FALSE, !.count = 0,
                                !.rbuf = <<>>, !.sbuf = <<GetArena, Newline>>]
              /\ s' = [NoClient EXCEPT !.there = TRUE]
              /\ upstream' = <<>> /\ downstream' = <<>>
         ELSE d' = r /\ UNCHANGED <<s, upstream, downstream>>

\* readArenaFromStatus: the line with the arena may be cut off by the length of a read.
ReadsStatus(r) ==
    LET answered == [r EXCEPT !.status = "got"]
        closed == [answered EXCEPT !.udp = FALSE] IN
      \/ d' = answered /\ UNCHANGED <<future, s, upstream, downstream>>
      \/ known /\ ScreenSet("world") /\ d' = closed /\ UNCHANGED <<s, upstream, downstream>>
      \/ ~known /\ Connects(closed) /\ UNCHANGED future

\* eventStatus, each tick until there is an answer.
EventStatus ==
    /\ screen = "downArena" /\ Runs("event") /\ ~LacksSocket
    /\ IF d.status # "none" THEN UNCHANGED <<d, mail, future, s, upstream, downstream>>
       ELSE \E late \in BOOLEAN :
              LET r == IF late THEN Asks(d) ELSE d
                  m == IF late THEN Asked(d, mail) ELSE mail IN
                \/ d' = r /\ mail' = m /\ UNCHANGED <<future, s, upstream, downstream>>
                \/ "answer" \in mail /\ mail' = m \ {"answer"} /\ ReadsStatus(r)
    /\ at' = "recv" /\ reads' = 0
    /\ UNCHANGED <<phase, screen, hot, rest, up, disk, known>>

HasLine(b) == Newline \in ToSet(b)
LineOf(b) == SubSeq(b, 1, SelectInSeq(b, LAMBDA c : c = Newline))
AfterLine(b) == SubSeq(b, Len(LineOf(b)) + 1, Len(b))

\* Mutant: the offset of an earlier file is kept.
EventProtoResumed(r, line) ==
    \/ /\ line[1] = Ok
       /\ d' = [r EXCEPT !.file = TRUE, !.size = Size] /\ disk' = {<<>>}
    \/ /\ line[1] = Ok
       /\ d' = [r EXCEPT !.size = Size] /\ UNCHANGED disk
    \/ line[1] # Ok /\ d' = r /\ UNCHANGED disk

\* eventProto: OK opens the file, if that is possible; all else is ignored.
EventProto(r, line) ==
    \/ /\ line[1] = Ok
       /\ d' = [r EXCEPT !.file = TRUE, !.size = Size, !.offset = 0] /\ disk' = {<<>>}
    \/ /\ line[1] = Ok
       /\ d' = [r EXCEPT !.size = Size, !.offset = 0] /\ UNCHANGED disk
    \/ line[1] # Ok /\ d' = r /\ UNCHANGED disk

\* downArenaFile writes all that the buffer holds.
DownArenaFile(r) ==
    /\ d' = [r EXCEPT !.rbuf = <<>>, !.offset = @ + Len(r.rbuf)]
    /\ disk' = {data \o r.rbuf : data \in disk}

\* The loop over the reads goes on or ends.
Again(more) ==
    /\ reads' = reads + 1
    /\ at' = IF more /\ reads' < MaxReads THEN "recv" ELSE "finish"

Received(bytes) ==
    LET r == [d EXCEPT !.rbuf = @ \o bytes] IN
      IF Len(r.rbuf) > ClientBuffer
      THEN d' = Closed(d) /\ HangsUp(d) /\ Again(FALSE) /\ UNCHANGED disk
      ELSE /\ UNCHANGED <<s, upstream>> /\ downstream' = SubSeq(downstream, Len(bytes) + 1, Len(downstream))
           /\ IF ~d.file /\ HasLine(r.rbuf)
              THEN EventProto([r EXCEPT !.rbuf = AfterLine(@)], LineOf(r.rbuf)) /\ Again(bytes # <<>>)
              ELSE IF d.file THEN DownArenaFile(r) /\ Again(r.rbuf # <<>>)
              ELSE d' = r /\ Again(FALSE) /\ UNCHANGED disk

\* What a read may give; at the end of the stream nothing.
Readable == {SubSeq(downstream, 1, k) : k \in 1 .. AtMost(Chunk, Len(downstream))}
            \cup {b \in {<<>>} : downstream = <<>> /\ s.closed}

\* One eventRecvBuffer.
EventRecvBuffer ==
    /\ screen = "downArena" /\ Runs("recv")
    /\ IF ~d.conn \/ Readable = {}
       THEN at' = "finish" /\ UNCHANGED <<d, disk, reads, s, upstream, downstream>>
       ELSE \E bytes \in Readable : Received(bytes)
    /\ UNCHANGED <<phase, screen, future, hot, rest, up, mail, known>>

Complete == d.file /\ d.size = d.offset /\ d.size > 0

\* eventSendBuffer; the kernel takes a part.
EventSendBuffer ==
    IF d.conn /\ d.sbuf # <<>>
    THEN \E k \in 1 .. Len(d.sbuf) :
           /\ upstream' = IF s.closed THEN upstream ELSE upstream \o SubSeq(d.sbuf, 1, k)
           /\ d' = [d EXCEPT !.sbuf = SubSeq(@, k + 1, Len(@))]
    ELSE UNCHANGED <<upstream, d>>

\* The rest of down_arena_event: the buffer, the end of a download, the Back button.
Finish ==
    /\ screen = "downArena" /\ Runs("finish")
    /\ IF Complete
       THEN d' = [Closed(d) EXCEPT !.file = FALSE] /\ HangsUp(d) /\ known' = TRUE
       ELSE EventSendBuffer /\ UNCHANGED <<s, downstream, known>>
    /\ \E back \in BOOLEAN :
         future' = IF back THEN "mainMenu" ELSE IF Complete THEN "world" ELSE future
    /\ at' = "keys" /\ reads' = 0
    /\ UNCHANGED <<phase, screen, hot, rest, up, mail, disk>>

\* Mutant: a file that is not complete stays.
DownStopAsIs ==
    /\ d' = [Closed(d) EXCEPT !.udp = FALSE] /\ HangsUp(d) /\ mail' = {}
    /\ UNCHANGED <<up, reads, disk, known>>

\* down_arena_stop.  With the socket goes all that was on its way to it.
DownStop ==
    /\ disk' = IF d.file THEN {} ELSE disk
    /\ d' = [Closed(d) EXCEPT !.udp = FALSE] /\ HangsUp(d) /\ mail' = {}
    /\ UNCHANGED <<up, reads, known>>

-----------------------------------------------------------------------------
(* The network and the server.                                              *)

Tick == <<phase, screen, future, at, hot, rest>>
Visitor == <<d, reads, disk, known>>

LosesMail ==
    /\ \E x \in mail : mail' = mail \ {x}
    /\ UNCHANGED <<Tick, Visitor, up, upstream, downstream, s>>

\* proto_recv_status_server.
AnswersStatus ==
    /\ up /\ "status" \in mail
    /\ mail' = (mail \ {"status"}) \cup {"answer"}
    /\ UNCHANGED <<Tick, Visitor, up, upstream, downstream, s>>

\* proto_getarena: the arena, or its file, may be missing.
ProtoGetArena(c) ==
    {[c EXCEPT !.file = TRUE, !.sbuf = @ \o <<Ok, Newline>>], [c EXCEPT !.sbuf = @ \o <<Error, Newline>>]}

\* eventReadClient, with the line of a request.
ReadsClient(c, bytes) ==
    LET r == [c EXCEPT !.rbuf = @ \o bytes] IN
      IF ~HasLine(r.rbuf) THEN {r}
      ELSE LET q == [r EXCEPT !.rbuf = AfterLine(@)] IN
             IF LineOf(r.rbuf)[1] = GetArena /\ ~r.file THEN ProtoGetArena(q) ELSE {q}

\* sendFile: when nothing is left to read, or it fails, the client is a zombie.
SendFile(c) ==
    LET count == AtMost(Block, Size - c.sent) IN
      IF ~c.file \/ c.sbuf # <<>> THEN {c}
      ELSE {[c EXCEPT !.closed = TRUE]} \cup
           {[c EXCEPT !.sbuf = SubSeq(Content, c.sent + 1, c.sent + count), !.sent = @ + count] :
              n \in {count} \ {0}}

\* eventWriteClient, when down_server_set_select has found something to write before.
Writes(c) == IF s.sbuf = <<>> THEN {0} ELSE 1 .. Len(c.sbuf)

\* down_server_select_socket for this client.
ServerRound ==
    /\ up /\ s.there /\ ~s.closed
    /\ \E taken \in 0 .. AtMost(Chunk, Len(upstream)) :
         /\ taken = 0 => upstream = <<>>
         /\ upstream' = SubSeq(upstream, taken + 1, Len(upstream))
         /\ \E c \in ReadsClient(s, SubSeq(upstream, 1, taken)) :
              \E k \in Writes(c) :
                /\ downstream' = downstream \o SubSeq(c.sbuf, 1, k)
                /\ s' \in SendFile([c EXCEPT !.sbuf = SubSeq(@, k + 1, Len(@))])
    /\ UNCHANGED <<Tick, Visitor, up, mail>>

ServerDies ==
    /\ up /\ up' = FALSE
    /\ s' = [s EXCEPT !.closed = s.there]
    /\ UNCHANGED <<Tick, Visitor, mail, upstream, downstream>>

DownloadInit ==
    /\ mail = {} /\ d = NoDownload /\ reads = 0 /\ disk = {} /\ known \in BOOLEAN
    /\ upstream = <<>> /\ downstream = <<>> /\ s = NoClient

\* The program ends; what it has written so far is on the disk.
DownloadQuit ==
    /\ d' = NoDownload /\ HangsUp(d) /\ mail' = {} /\ reads' = 0
    /\ UNCHANGED <<up, disk, known>>

Downloading == d.conn /\ d.file

\* The server has ended before it had written the whole file.
BrokenOff == ~up \/ (s.closed /\ s.sent < Size)
=============================================================================
