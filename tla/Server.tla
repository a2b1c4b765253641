------------------------------- MODULE Server -------------------------------
(***************************************************************************)
(* The sessions of the game server (base/server.c, base/udp_server.c,      *)
(* base/protect.c and the session handlers of base/proto.c).               *)
(*                                                                         *)
(* The server lists one session per UDP port it hears from.  A session     *)
(* gets a tux by "hello", becomes a zombie when the player leaves, is      *)
(* refused or cannot be reached, and is removed, with its tux, by the      *)
(* periodic delZombieCLient.  One thread runs everything: datagrams are    *)
(* read into the inboxes, every inbox is worked off, then timers fire.     *)
(*                                                                         *)
(* A session is named by the address whose datagram created it.  Commands  *)
(* and messages are kinds: "play" is any command that needs a tux and      *)
(* leaves the session as it is (ping, event, chat, module), "status" any   *)
(* that needs no tux, "any" is any message that tells its receiver nothing *)
(* but that the server is there.                                           *)
(***************************************************************************)
EXTENDS Integers, Sequences, FiniteSets

CONSTANTS
    Client,         \* addresses datagrams come from
    Port,           \* address -> port: all that findUdpClient compares
    MaxClients,     \* server_set_max_clients
    Timeout,        \* PROTECT_PING_INTERVAL_TIMEOUT, in clock ticks
    HostPlays,      \* the server has a player of its own (no PUBLIC_SERVER)
    MaxInbox,       \* bound: datagrams read in one turn
    MaxTux          \* bound: tuxes created for players

ASSUME ServerAssumption ==
    /\ DOMAIN Port = Client
    /\ IsFiniteSet(Client)
    /\ MaxClients \in Nat /\ Timeout \in Nat /\ MaxInbox \in Nat /\ MaxTux \in Nat
    /\ HostPlays \in BOOLEAN

VARIABLES
    turn,           \* of server_event: "read", then "work", or "quit" for good
    status,         \* session -> "none" (not listed), "ok" or "zombie"
    seat,           \* session -> its tux
    silent,         \* session -> time since its last good command
    inbox,          \* session -> listRecvMsg
    outbox,         \* session -> kinds in listSendMsg
    spaceTux,       \* the tuxes of the arena
    tuxes,          \* number of tuxes made for players
    view,           \* session -> tuxes it knows of once it handles its messages
    written,        \* session -> kinds the last step gave to the socket
    failed          \* sessions whose socket refused a write of the last step

sessionVars == <<turn, status, seat, silent, inbox, outbox, spaceTux, tuxes, view>>
vars == <<sessionVars, written, failed>>

Cmd == {"status", "hello", "oldhello", "play", "check", "end"}
TuxlessCmd == {"status", "hello", "oldhello"}       \* .tux = 0 in proto_cmd_list
Kind == {"init", "any", "refuse", "end"}

NoTux == -1
HostTux == 0
Tux == 0 .. MaxTux
Host == IF HostPlays THEN {HostTux} ELSE {}
MaxSilent == Timeout + 1        \* ages saturate just above the timeout

TypeOK ==
    /\ turn \in {"read", "work", "quit"}
    /\ status \in [Client -> {"none", "ok", "zombie"}]
    /\ seat \in [Client -> Tux \cup {NoTux}]
    /\ silent \in [Client -> 0 .. MaxSilent]
    /\ inbox \in [Client -> Seq(Cmd)]
    /\ outbox \in [Client -> SUBSET Kind]
    /\ spaceTux \in SUBSET Tux
    /\ tuxes \in 0 .. MaxTux
    /\ view \in [Client -> SUBSET Tux]
    /\ written \in [Client -> SUBSET Kind]
    /\ failed \in SUBSET Client
    /\ \A c \in Client : status[c] = "none" =>
         seat[c] = NoTux /\ inbox[c] = <<>> /\ outbox[c] = {} /\ view[c] = {}

-----------------------------------------------------------------------------
Listed == {c \in Client : status[c] # "none"}
HasTux(c) == seat[c] # NoTux
Seated == {c \in Listed : HasTux(c)}
Receivers == {c \in Listed : status[c] = "ok"}      \* addMsgClient skips zombies
Players == Seated \cap Receivers                    \* PROTO_SEND_ALL

\* findUdpClient: the listed session with the port of this address.
SessionsAt(a) == {c \in Listed : Port[c] = Port[a]}

Init ==
    /\ turn = "read"
    /\ status = [c \in Client |-> "none"]
    /\ seat = [c \in Client |-> NoTux]
    /\ silent = [c \in Client |-> 0]
    /\ inbox = [c \in Client |-> <<>>]
    /\ outbox = [c \in Client |-> {}]
    /\ spaceTux = Host
    /\ tuxes = 0
    /\ view = [c \in Client |-> {}]
    /\ written = [c \in Client |-> {}]
    /\ failed = {}

WritesNothing == written' = [c \in Client |-> {}] /\ failed' = {}

Nothing == [c \in Client |-> {}]

\* check_front_event for the sessions of who: what a queue holds goes to the socket,
\* then the last word said to it.  A zombie is written nothing; a client becomes one
\* at the first write the socket refuses, so no more than a part of its queue is
\* written then, and never the last word (server_send_client).
Walk(who, queue, last) ==
    /\ failed' \in SUBSET {c \in who : status[c] = "ok" /\ queue[c] \cup last[c] # {}}
    /\ \E part \in [failed' -> SUBSET {"init", "any"}] :
         written' = [c \in Client |->
            IF c \notin who \/ status[c] # "ok" THEN {}
            ELSE IF c \in failed' THEN queue[c] \cap part[c]
            ELSE queue[c] \cup last[c]]

-----------------------------------------------------------------------------
(***************************************************************************)
(* Reading a datagram from address a (client_eventUdpSelect).              *)
(***************************************************************************)
ReadKnown(a, m) ==
    \E c \in SessionsAt(a) :
        /\ Len(inbox[c]) < MaxInbox
        /\ inbox' = [inbox EXCEPT ![c] = Append(@, m)]
        /\ UNCHANGED <<turn, status, seat, silent, outbox, spaceTux, tuxes, view>>

\* server_new_any_client: nothing is left of an earlier session.
Opened(a, st, box) ==
    /\ status' = [status EXCEPT ![a] = st]
    /\ seat' = [seat EXCEPT ![a] = NoTux]
    /\ silent' = [silent EXCEPT ![a] = 0]
    /\ inbox' = [inbox EXCEPT ![a] = box]
    /\ outbox' = [outbox EXCEPT ![a] = {}]
    /\ view' = [view EXCEPT ![a] = {}]
    /\ UNCHANGED <<turn, spaceTux, tuxes>>

ReadNew(a, m) ==
    /\ MaxInbox > 0
    /\ SessionsAt(a) = {}
    /\ Opened(a, "ok", <<m>>)

Read(a, m) ==
    /\ turn = "read"
    /\ ReadKnown(a, m) \/ ReadNew(a, m)
    /\ WritesNothing

\* The read returns no data: the session, new or old, becomes a zombie.
ReadFails(a) ==
    /\ turn = "read"
    /\ \/ /\ SessionsAt(a) = {}
          /\ Opened(a, "zombie", <<>>)
       \/ \E c \in SessionsAt(a) :
            /\ status' = [status EXCEPT ![c] = "zombie"]
            /\ UNCHANGED <<turn, seat, silent, inbox, outbox, spaceTux, tuxes, view>>
    /\ WritesNothing

-----------------------------------------------------------------------------
(***************************************************************************)
(* Working off one line of an inbox (client_eventWorkRecvList).            *)
(***************************************************************************)
\* The next line of c's inbox is m, and it is dealt with.
TakeLine(c, m) ==
    /\ turn = "work"
    /\ c \in Listed
    /\ inbox[c] # <<>>
    /\ Head(inbox[c]) = m
    /\ inbox' = [inbox EXCEPT ![c] = Tail(@)]

Refresh(c) == silent' = [silent EXCEPT ![c] = 0]

\* Mutant: rereshLastPing also for a command that does not fit.
BadCommandRefreshes(c, m) ==
    /\ TakeLine(c, m)
    /\ m \in TuxlessCmd <=> HasTux(c)
    /\ outbox' = [outbox EXCEPT ![c] = IF c \in Receivers THEN @ \cup {"any"} ELSE @]
    /\ Refresh(c)
    /\ UNCHANGED <<turn, status, seat, spaceTux, tuxes, view>>
    /\ WritesNothing

\* findCmdProto finds no command that fits: "error", and no refresh.
BadCommand(c, m) ==
    /\ TakeLine(c, m)
    /\ m \in TuxlessCmd <=> HasTux(c)
    /\ outbox' = [outbox EXCEPT ![c] = IF c \in Receivers THEN @ \cup {"any"} ELSE @]
    /\ UNCHANGED <<turn, status, seat, silent, spaceTux, tuxes, view>>
    /\ WritesNothing

\* "status", "list" and "echo" are answered; a "hello" without a name is not.
RecvStatus(c) ==
    /\ TakeLine(c, "status")
    /\ ~HasTux(c)
    /\ Refresh(c)
    /\ \/ outbox' = outbox
       \/ c \in Receivers /\ outbox' = [outbox EXCEPT ![c] = @ \cup {"any"}]
    /\ UNCHANGED <<turn, status, seat, spaceTux, tuxes, view>>
    /\ WritesNothing

\* Mutant: the new player is not counted.
FullLate == Cardinality(spaceTux) > MaxClients

Full == Cardinality(spaceTux) + 1 > MaxClients

\* "hello" on a full server or from another version: the queue is written at
\* once, the error last, and the session is a zombie.
Refuse(c, m) ==
    /\ TakeLine(c, m)
    /\ ~HasTux(c)
    /\ m = "oldhello" \/ (m = "hello" /\ Full)
    /\ Walk({c}, outbox, [d \in Client |-> {"refuse"}])
    /\ outbox' = [outbox EXCEPT ![c] = @ \cap {"init"}]
    /\ status' = [status EXCEPT ![c] = "zombie"]
    /\ Refresh(c)
    /\ UNCHANGED <<turn, seat, spaceTux, tuxes, view>>

\* Mutant: the players already there are not told.
AcceptQuietly(c) ==
    /\ TakeLine(c, "hello")
    /\ ~HasTux(c)
    /\ ~Full
    /\ tuxes < MaxTux
    /\ tuxes' = tuxes + 1
    /\ seat' = [seat EXCEPT ![c] = tuxes + 1]
    /\ spaceTux' = spaceTux \cup {tuxes + 1}
    /\ view' = [view EXCEPT ![c] = IF c \in Receivers
         THEN Host \cup {seat[e] : e \in Seated} \cup {tuxes + 1} ELSE @]
    /\ outbox' = [outbox EXCEPT ![c] = IF c \in Receivers THEN @ \cup {"init", "any"} ELSE @]
    /\ Refresh(c)
    /\ UNCHANGED <<turn, status>>
    /\ WritesNothing

\* proto_recv_hello_server and sendInfoCreateClient: everybody with a tux hears
\* of the new one, the new player hears of every tux, its own included.
Accept(c) ==
    /\ TakeLine(c, "hello")
    /\ ~HasTux(c)
    /\ ~Full
    /\ tuxes < MaxTux
    /\ tuxes' = tuxes + 1
    /\ seat' = [seat EXCEPT ![c] = tuxes + 1]
    /\ spaceTux' = spaceTux \cup {tuxes + 1}
    /\ view' = [d \in Client |->
         IF d = c THEN IF c \in Receivers
                       THEN Host \cup {seat[e] : e \in Seated} \cup {tuxes + 1}
                       ELSE view[c]
         ELSE IF d \in Players THEN view[d] \cup {tuxes + 1}
         ELSE view[d]]
    /\ outbox' = [d \in Client |->
         IF d = c THEN IF c \in Receivers THEN outbox[c] \cup {"init", "any"} ELSE outbox[c]
         ELSE IF d \in Players THEN outbox[d] \cup {"any"}
         ELSE outbox[d]]
    /\ Refresh(c)
    /\ UNCHANGED <<turn, status>>
    /\ WritesNothing

\* What a player does may be told to others: "event", "chat" and the rest.
Play(c) ==
    /\ TakeLine(c, "play")
    /\ HasTux(c)
    /\ Refresh(c)
    /\ \E who \in SUBSET Players :
         outbox' = [d \in Client |-> IF d \in who THEN outbox[d] \cup {"any"} ELSE outbox[d]]
    /\ UNCHANGED <<turn, status, seat, spaceTux, tuxes, view>>
    /\ WritesNothing

\* proto_recv_check_server, for the id of "init" or of another message.
RecvCheck(c) ==
    /\ TakeLine(c, "check")
    /\ HasTux(c)
    /\ Refresh(c)
    /\ outbox' \in {outbox, [outbox EXCEPT ![c] = @ \ {"init"}]}
    /\ UNCHANGED <<turn, status, seat, spaceTux, tuxes, view>>
    /\ WritesNothing

RecvEnd(c) ==
    /\ TakeLine(c, "end")
    /\ HasTux(c)
    /\ status' = [status EXCEPT ![c] = "zombie"]
    /\ Refresh(c)
    /\ UNCHANGED <<turn, seat, outbox, spaceTux, tuxes, view>>
    /\ WritesNothing

(***************************************************************************)
(* check_front_event, once the inbox is empty.  "init" stays for another   *)
(* write unless it has been written too often (module CheckFront).         *)
(***************************************************************************)
Flushing(c) ==
    /\ turn = "work"
    /\ c \in Listed
    /\ inbox[c] = <<>>
    /\ outbox[c] # {}
    /\ \E kept \in SUBSET (outbox[c] \cap {"init"}) : outbox' = [outbox EXCEPT ![c] = kept]
    /\ Walk({c}, outbox, Nothing)
    /\ UNCHANGED <<turn, seat, silent, inbox, spaceTux, tuxes, view>>

Flush(c) ==
    /\ Flushing(c)
    /\ failed' = {}
    /\ UNCHANGED status

FlushFails(c) ==
    /\ Flushing(c)
    /\ failed' = {c}
    /\ status' = [status EXCEPT ![c] = "zombie"]

-----------------------------------------------------------------------------
(***************************************************************************)
(* The timers, which fire when every inbox has been worked off.            *)
(***************************************************************************)
WorkedOff == turn = "work" /\ \A c \in Client : inbox[c] = <<>>

\* Mutant: only a session with a tux is watched.
IsDownSeated(c) == HasTux(c) /\ silent[c] > Timeout

IsDown(c) == silent[c] > Timeout
Gone == {c \in Listed : status[c] = "zombie" \/ IsDown(c)}

\* Mutant: the client is a zombie before its queue is written.
SilentUntold == {}

Silent == {c \in Gone : IsDown(c)}

\* A player that is gone may still be told of a departure dealt with before it.
LastNews(c) == IF c \in Players /\ Gone \cap Seated # {c} THEN {"any"} ELSE {}

\* A silent client is told "end", behind what its queue holds.
Farewell ==
    \E first \in SUBSET Silent :
        Walk(Silent, [c \in Client |-> outbox[c] \cup IF c \in first THEN {} ELSE LastNews(c)],
             [c \in Client |-> {"end"}])

\* Mutant: the session leaves the list and is not destroyed.
DelZombieClientLeaks ==
    /\ WorkedOff
    /\ Gone # {}
    /\ Farewell
    /\ status' = [c \in Client |-> IF c \in Gone THEN "none" ELSE status[c]]
    /\ UNCHANGED <<turn, seat, silent, inbox, outbox, spaceTux, tuxes, view>>

\* delZombieCLient: a silent client is told "end" before it becomes a zombie;
\* every zombie's tux is deleted from the others' arenas and from this one.
DelZombieClient ==
    /\ WorkedOff
    /\ Gone # {}
    /\ LET left == {seat[c] : c \in Gone \cap Seated}
           told == Players \ Gone IN
         /\ view' = [c \in Client |->
              IF c \in Gone THEN {} ELSE IF c \in told THEN view[c] \ left ELSE view[c]]
         /\ spaceTux' = spaceTux \ left
         /\ outbox' = [c \in Client |->
              IF c \in Gone THEN {} ELSE IF c \in told /\ left # {} THEN outbox[c] \cup {"any"}
              ELSE outbox[c]]
    /\ Farewell
    /\ status' = [c \in Client |-> IF c \in Gone THEN "none" ELSE status[c]]
    /\ seat' = [c \in Client |-> IF c \in Gone THEN NoTux ELSE seat[c]]
    /\ silent' = [c \in Client |-> IF c \in Gone THEN 0 ELSE silent[c]]
    /\ UNCHANGED <<turn, inbox, tuxes>>

\* eventPeriodicSyncClient: "newtux" of each player to those it is near to.
PeriodicSync ==
    /\ WorkedOff
    /\ \E near \in [Players -> SUBSET (Host \cup {seat[d] : d \in Seated})] :
         /\ view' = [c \in Client |-> IF c \in Players THEN view[c] \cup near[c] ELSE view[c]]
         /\ outbox' = [c \in Client |->
              IF c \in Players /\ near[c] # {} THEN outbox[c] \cup {"any"} ELSE outbox[c]]
    /\ UNCHANGED <<turn, status, seat, silent, inbox, spaceTux, tuxes>>
    /\ WritesNothing

\* eventSendPingClients.
PingClients ==
    /\ WorkedOff
    /\ outbox' = [c \in Client |->
         IF c \in Players THEN outbox[c] \cup {"any"} ELSE outbox[c]]
    /\ UNCHANGED <<turn, status, seat, silent, inbox, spaceTux, tuxes, view>>
    /\ WritesNothing

\* server_quit: "end" to the players, then every session is destroyed, which
\* writes what its queue holds.
ServerQuit ==
    /\ WorkedOff
    /\ turn' = "quit"
    /\ Walk(Client, outbox, [c \in Client |-> IF c \in Players THEN {"end"} ELSE {}])
    /\ spaceTux' = spaceTux \ {seat[c] : c \in Seated}
    /\ status' = [c \in Client |-> "none"]
    /\ seat' = [c \in Client |-> NoTux]
    /\ silent' = [c \in Client |-> 0]
    /\ outbox' = [c \in Client |-> {}]
    /\ view' = [c \in Client |-> {}]
    /\ UNCHANGED <<inbox, tuxes>>

-----------------------------------------------------------------------------
\* server_event: the inboxes are worked off when no more is read, and read again
\* when the timers have had their turn.
BeginWork ==
    /\ turn = "read"
    /\ turn' = "work"
    /\ UNCHANGED <<status, seat, silent, inbox, outbox, spaceTux, tuxes, view>>
    /\ WritesNothing

EndTurn ==
    /\ WorkedOff
    /\ turn' = "read"
    /\ UNCHANGED <<status, seat, silent, inbox, outbox, spaceTux, tuxes, view>>
    /\ WritesNothing

\* The clock.
Tick ==
    /\ silent' = [c \in Client |->
         IF c \in Listed /\ silent[c] < MaxSilent THEN silent[c] + 1 ELSE silent[c]]
    /\ UNCHANGED <<turn, status, seat, inbox, outbox, spaceTux, tuxes, view>>
    /\ WritesNothing

\* A step outside the server.
Outside == UNCHANGED sessionVars /\ WritesNothing

Handle(c) ==
    \/ \E m \in Cmd : BadCommand(c, m) \/ Refuse(c, m)
    \/ RecvStatus(c)
    \/ Accept(c)
    \/ Play(c)
    \/ RecvCheck(c)
    \/ RecvEnd(c)

Timer == DelZombieClient \/ PeriodicSync \/ PingClients

Next ==
    \/ \E c \in Client :
         \/ \E m \in Cmd : Read(c, m)
         \/ ReadFails(c)
         \/ Handle(c)
         \/ Flush(c)
         \/ FlushFails(c)
    \/ Timer
    \/ BeginWork
    \/ EndTurn
    \/ ServerQuit
    \/ Tick
    \/ Outside

Spec == Init /\ [][Next]_vars

-----------------------------------------------------------------------------
\* findUdpClient has one session to find: a port never has two.
OneSessionPerPort ==
    \A c, d \in Listed : Port[c] = Port[d] => c = d

\* A tux of the arena is the host's or belongs to exactly one listed session: no
\* tux outlives its session and no session plays a tux that is not there.
OwnedTuxes ==
    /\ spaceTux = Host \cup {seat[c] : c \in Seated}
    /\ \A c, d \in Seated : seat[c] = seat[d] => c = d

\* Joins, departures and time-outs in any order: a player who handles the
\* messages queued for it knows of every tux of the arena and of no other
\* (sendInfoCreateClient and delZombieCLient together).
PlayersAgree == \A c \in Players : view[c] = spaceTux

\* The server never seats more players than it has places for, the host's own
\* place included.
SeatsBounded ==
    Cardinality(spaceTux) <= MaxClients \/ spaceTux = Host

\* To its players the server is the lobby of module Lobby: sessions that come and go,
\* zombies, refusals, time-outs and failed writes never give a place there is not, two
\* places to one port, a tux that was somebody's before, or another tux to a player.
Room == INSTANCE Lobby WITH
    players <- [c \in Seated |-> seat[c]],
    made <- tuxes
KeepsLobby == Room!Spec

\* A session that is removed while its client counts as alive has been sent
\* "end", unless the whole server quits before it got a tux, and a refused "hello"
\* has been answered by the error: but for the one whose socket refused a write of
\* that very walk over its queue, who may be dropped without a word.
ToldWhy ==
    [][\A c \in Client :
        status[c] = "ok" /\ c \notin failed' =>
            /\ status'[c] = "none" /\ (turn' # "quit" \/ HasTux(c)) => "end" \in written'[c]
            /\ status'[c] = "zombie" /\ inbox'[c] # inbox[c] /\ ~HasTux(c)
                 => "refuse" \in written'[c]]_vars
=============================================================================
