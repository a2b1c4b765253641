---------------------------- MODULE ServerProofs ----------------------------
(***************************************************************************)
(* What the sessions keep, whatever the clients send and whenever it is    *)
(* read: the types, one session per port, and the agreement between the    *)
(* sessions, the arena and what every player has been told.  The same      *)
(* among the processes of module Session, whom they keep out, what both    *)
(* promise to those who play, and how those who are gone fade.             *)
(***************************************************************************)
EXTENDS Session, FiniteSetTheorems, TLAPS

(***************************************************************************)
(* Part 1: types.                                                          *)
(***************************************************************************)
USE DEF NoTux, HostTux

\* The initial state has the right types.
LEMMA TypeInit == Init => TypeOK
  BY ServerAssumption DEF Init, TypeOK, Host, Tux, MaxSilent, Cmd, Kind

\* A session that is read into keeps the types.
LEMMA TypeRead ==
    ASSUME TypeOK, NEW a \in Client, NEW m \in Cmd, Read(a, m)
    PROVE  TypeOK'
<1>1. CASE ReadKnown(a, m)
  BY <1>1 DEF Read, ReadKnown, TypeOK, SessionsAt, Listed, WritesNothing
<1>2. CASE ReadNew(a, m)
  <2>1. <<m>> \in Seq(Cmd)
    OBVIOUS
  <2>2. 0 \in 0 .. MaxSilent
    BY ServerAssumption DEF MaxSilent
  <2>3. QED
    BY <1>2, <2>1, <2>2 DEF Read, ReadNew, Opened, TypeOK, WritesNothing
<1>3. QED
  BY <1>1, <1>2 DEF Read

\* So does a read that fails.
LEMMA TypeReadFails ==
    ASSUME TypeOK, NEW a \in Client, ReadFails(a)
    PROVE  TypeOK'
<1>1. 0 \in 0 .. MaxSilent
  BY ServerAssumption DEF MaxSilent
<1>2. CASE SessionsAt(a) = {} /\ Opened(a, "zombie", <<>>)
  BY <1>1, <1>2 DEF ReadFails, Opened, TypeOK, WritesNothing
<1>3. CASE \E c \in SessionsAt(a) :
             /\ status' = [status EXCEPT ![c] = "zombie"]
             /\ UNCHANGED <<turn, seat, silent, inbox, outbox, spaceTux, tuxes, view>>
  BY <1>3 DEF ReadFails, TypeOK, SessionsAt, Listed, WritesNothing
<1>4. QED
  BY <1>2, <1>3 DEF ReadFails

\* Taking a line leaves an inbox of commands; a refreshed clock is a clock.
LEMMA TypeTakeLine ==
    ASSUME TypeOK, NEW c \in Client, NEW m, TakeLine(c, m)
    PROVE  /\ inbox' \in [Client -> Seq(Cmd)]
           /\ status[c] # "none"
           /\ \A d \in Client : status[d] = "none" => inbox'[d] = inbox[d]
           /\ Refresh(c) => silent' \in [Client -> 0 .. MaxSilent]
<1>1. inbox[c] \in Seq(Cmd) /\ inbox[c] # <<>>
  BY DEF TypeOK, TakeLine
<1>2. Tail(inbox[c]) \in Seq(Cmd)
  BY <1>1
<1>3. 0 \in 0 .. MaxSilent
  BY ServerAssumption DEF MaxSilent
<1>4. QED
  BY <1>1, <1>2, <1>3 DEF TypeOK, TakeLine, Refresh, Listed

\* What a walk over some queues writes: nothing elsewhere, what the queues held and the
\* last words at most, and the last word wherever no write failed.
LEMMA WalkWrites ==
    ASSUME NEW who \in SUBSET Client, NEW queue \in [Client -> SUBSET Kind],
           NEW last \in [Client -> SUBSET Kind], Walk(who, queue, last)
    PROVE  /\ written' \in [Client -> SUBSET Kind] /\ failed' \in SUBSET Client
           /\ \A c \in Client : /\ written'[c] \subseteq queue[c] \cup last[c]
                                /\ c \notin who => written'[c] = {}
                                /\ c \in who /\ status[c] = "ok" /\ c \notin failed'
                                     => last[c] \subseteq written'[c]
<1>1. PICK part \in [failed' -> SUBSET {"init", "any"}] :
         written' = [c \in Client |->
            IF c \notin who \/ status[c] # "ok" THEN {}
            ELSE IF c \in failed' THEN queue[c] \cap part[c]
            ELSE queue[c] \cup last[c]]
  BY DEF Walk
<1>2. failed' \in SUBSET Client
  BY DEF Walk
<1>3. ASSUME NEW c \in Client
      PROVE  /\ written'[c] \subseteq queue[c] \cup last[c]
             /\ written'[c] \in SUBSET Kind
             /\ c \notin who => written'[c] = {}
             /\ c \in who /\ status[c] = "ok" /\ c \notin failed' => last[c] \subseteq written'[c]
  BY <1>1, <1>3
<1>4. written' \in [Client -> SUBSET Kind]
  BY <1>1, <1>3
<1> QED
  BY <1>2, <1>3, <1>4

\* A refused client is written its queue and then the error, unless a write fails.
LEMMA RefuseWrites ==
    ASSUME TypeOK, NEW c \in Client, NEW m, Refuse(c, m)
    PROVE  /\ written' \in [Client -> SUBSET Kind] /\ failed' \in SUBSET Client
           /\ \A d \in Client : written'[d] \subseteq outbox[d] \cup {"refuse"}
           /\ status[c] = "ok" /\ c \notin failed' => "refuse" \in written'[c]
<1> DEFINE last == [d \in Client |-> {"refuse"}]
<1>1. outbox \in [Client -> SUBSET Kind] /\ last \in [Client -> SUBSET Kind] /\ {c} \in SUBSET Client
  BY DEF TypeOK, Kind
<1>2. Walk({c}, outbox, last)
  BY DEF Refuse
<1>3. \A d \in Client : last[d] = {"refuse"}
  OBVIOUS
<1> HIDE DEF last
<1>4. /\ written' \in [Client -> SUBSET Kind] /\ failed' \in SUBSET Client
      /\ \A d \in Client : written'[d] \subseteq outbox[d] \cup last[d]
      /\ status[c] = "ok" /\ c \notin failed' => last[c] \subseteq written'[c]
  BY <1>1, <1>2, WalkWrites
<1> QED
  BY <1>3, <1>4

\* A queue in its turn: nothing but what it holds.
LEMMA FlushWrites ==
    ASSUME TypeOK, NEW c \in Client, Flush(c) \/ FlushFails(c)
    PROVE  /\ written' \in [Client -> SUBSET Kind] /\ failed' \in SUBSET Client
           /\ \A d \in Client : written'[d] \subseteq outbox[d]
<1>1. outbox \in [Client -> SUBSET Kind] /\ Nothing \in [Client -> SUBSET Kind] /\ {c} \in SUBSET Client
  BY DEF TypeOK, Kind, Nothing
<1>2. Walk({c}, outbox, Nothing)
  BY DEF Flush, FlushFails, Flushing
<1>3. \A d \in Client : Nothing[d] = {}
  BY DEF Nothing
<1> QED
  BY <1>1, <1>2, <1>3, WalkWrites

\* Silent clients are written their queues and then "end", unless a write fails.
LEMMA FarewellWrites ==
    ASSUME TypeOK, Farewell
    PROVE  /\ written' \in [Client -> SUBSET Kind] /\ failed' \in SUBSET Client
           /\ \A c \in Client : /\ written'[c] \subseteq outbox[c] \cup {"any", "end"}
                                /\ c \in Silent /\ status[c] = "ok" /\ c \notin failed'
                                     => "end" \in written'[c]
<1> DEFINE last == [c \in Client |-> {"end"}]
           queue(first) == [c \in Client |-> outbox[c] \cup IF c \in first THEN {} ELSE LastNews(c)]
<1>1. PICK first \in SUBSET Silent : Walk(Silent, queue(first), last)
  BY DEF Farewell
<1>2. queue(first) \in [Client -> SUBSET Kind] /\ last \in [Client -> SUBSET Kind]
  BY DEF TypeOK, Kind, LastNews
<1>3. \A c \in Client : last[c] = {"end"} /\ queue(first)[c] \subseteq outbox[c] \cup {"any"}
  BY DEF LastNews
<1>4. Silent \in SUBSET Client
  BY DEF Silent, Gone, Listed
<1> DEFINE held == queue(first)
<1>5. held \in [Client -> SUBSET Kind] /\ Walk(Silent, held, last)
  BY <1>1, <1>2
<1>6. \A c \in Client : held[c] \subseteq outbox[c] \cup {"any"}
  BY <1>3
<1> HIDE DEF last, held
<1>7. /\ written' \in [Client -> SUBSET Kind] /\ failed' \in SUBSET Client
      /\ \A c \in Client : /\ written'[c] \subseteq held[c] \cup last[c]
                           /\ c \in Silent /\ status[c] = "ok" /\ c \notin failed'
                                => last[c] \subseteq written'[c]
  BY <1>2, <1>4, <1>5, WalkWrites
<1> QED
  BY <1>3, <1>6, <1>7

\* So are the players when the server quits.
LEMMA QuitWrites ==
    ASSUME TypeOK, ServerQuit
    PROVE  /\ written' \in [Client -> SUBSET Kind] /\ failed' \in SUBSET Client
           /\ \A c \in Client : /\ written'[c] \subseteq outbox[c] \cup {"end"}
                                /\ c \in Players /\ c \notin failed' => "end" \in written'[c]
<1> DEFINE last == [c \in Client |-> IF c \in Players THEN {"end"} ELSE {}]
<1>1. outbox \in [Client -> SUBSET Kind] /\ last \in [Client -> SUBSET Kind]
  BY DEF TypeOK, Kind
<1>2. Walk(Client, outbox, last)
  BY DEF ServerQuit
<1>3. \A c \in Client : last[c] \subseteq {"end"} /\ (c \in Players => "end" \in last[c])
  OBVIOUS
<1>4. \A c \in Players : status[c] = "ok" /\ c \in Client
  BY DEF Players, Receivers, Seated, Listed
<1> HIDE DEF last
<1>5. /\ written' \in [Client -> SUBSET Kind] /\ failed' \in SUBSET Client
      /\ \A c \in Client : /\ written'[c] \subseteq outbox[c] \cup last[c]
                           /\ status[c] = "ok" /\ c \notin failed' => last[c] \subseteq written'[c]
  BY <1>1, <1>2, WalkWrites
<1> QED
  BY <1>3, <1>4, <1>5

\* Every handler keeps the types.
LEMMA TypeHandle ==
    ASSUME TypeOK, NEW c \in Client, Handle(c)
    PROVE  TypeOK'
<1>1. ASSUME NEW m \in Cmd, BadCommand(c, m) PROVE TypeOK'
  BY <1>1, TypeTakeLine DEF BadCommand, TypeOK, Kind, WritesNothing
<1>2. ASSUME NEW m \in Cmd, Refuse(c, m) PROVE TypeOK'
  <2>1. written' \in [Client -> SUBSET Kind] /\ failed' \in SUBSET Client
    BY <1>2, RefuseWrites
  <2>2. QED
    BY <1>2, <2>1, TypeTakeLine DEF Refuse, TypeOK, Kind
<1>3. CASE Accept(c)
  <2>1. tuxes + 1 \in 0 .. MaxTux /\ tuxes + 1 \in Tux
    BY <1>3, ServerAssumption DEF Accept, TypeOK, Tux
  <2>2. Host \cup {seat[e] : e \in Seated} \subseteq Tux
    BY ServerAssumption DEF Host, Tux, Seated, Listed, HasTux, TypeOK
  <2>3. view' \in [Client -> SUBSET Tux]
    BY <1>3, <2>1, <2>2 DEF Accept, TypeOK
  <2>4. outbox' \in [Client -> SUBSET Kind]
    BY <1>3 DEF Accept, TypeOK, Kind
  <2>5. \A d \in Client : status[d] = "none" => view'[d] = view[d] /\ outbox'[d] = outbox[d]
    BY <1>3 DEF Accept, Receivers, Players, Listed, TakeLine
  <2>6. QED
    BY <1>3, <2>1, <2>3, <2>4, <2>5, TypeTakeLine DEF Accept, TypeOK, WritesNothing
<1>4. CASE Play(c)
  <2>1. PICK who \in SUBSET Players :
          outbox' = [d \in Client |-> IF d \in who THEN outbox[d] \cup {"any"} ELSE outbox[d]]
    BY <1>4 DEF Play
  <2>2. \A d \in Client : status[d] = "none" => outbox'[d] = outbox[d]
    BY <2>1 DEF Players, Receivers, Listed
  <2>3. outbox' \in [Client -> SUBSET Kind]
    BY <2>1 DEF TypeOK, Kind
  <2>4. QED
    BY <1>4, <2>2, <2>3, TypeTakeLine DEF Play, TypeOK, WritesNothing
<1>5. CASE RecvCheck(c)
  <2>1. outbox \in [Client -> SUBSET Kind]
    BY DEF TypeOK
  <2>2. outbox' = outbox \/ outbox' = [outbox EXCEPT ![c] = @ \ {"init"}]
    BY <1>5 DEF RecvCheck
  <2>3. outbox' \in [Client -> SUBSET Kind]
    BY <2>1, <2>2
  <2>4. \A d \in Client : status[d] = "none" => outbox'[d] \subseteq outbox[d]
    BY <2>1, <2>2
  <2>5. QED
    BY <1>5, <2>3, <2>4, TypeTakeLine DEF RecvCheck, TypeOK, WritesNothing
<1>6. CASE RecvEnd(c)
  BY <1>6, TypeTakeLine DEF RecvEnd, TypeOK, WritesNothing
<1>7. CASE RecvStatus(c)
  <2>1. \/ outbox' = outbox
        \/ c \in Receivers /\ outbox' = [outbox EXCEPT ![c] = @ \cup {"any"}]
    BY <1>7 DEF RecvStatus
  <2>2. outbox \in [Client -> SUBSET Kind] /\ "any" \in Kind
    BY DEF TypeOK, Kind
  <2>3. outbox' \in [Client -> SUBSET Kind]
    BY <2>1, <2>2
  <2>4. \A d \in Client : status[d] = "none" => outbox'[d] = outbox[d]
    BY <2>1, <2>2 DEF Receivers
  <2>5. QED
    BY <1>7, <2>3, <2>4, TypeTakeLine DEF RecvStatus, TypeOK, WritesNothing
<1>8. QED
  BY <1>1, <1>2, <1>3, <1>4, <1>5, <1>6, <1>7 DEF Handle

\* Writing a queue keeps the types, whether or not the write fails.
LEMMA TypeFlush ==
    ASSUME TypeOK, NEW c \in Client, Flush(c) \/ FlushFails(c)
    PROVE  TypeOK'
<1>1. outbox' \in [Client -> SUBSET Kind]
  <2>1. Flushing(c)
    BY DEF Flush, FlushFails
  <2>2. PICK kept \in SUBSET (outbox[c] \cap {"init"}) : outbox' = [outbox EXCEPT ![c] = kept]
    BY <2>1 DEF Flushing
  <2>3. outbox \in [Client -> SUBSET Kind]
    BY DEF TypeOK
  <2>4. kept \in SUBSET Kind
    BY <2>2, <2>3
  <2>5. QED
    BY <2>2, <2>3, <2>4
<1>2. written' \in [Client -> SUBSET Kind] /\ failed' \in SUBSET Client
  BY FlushWrites
<1>3. status[c] # "none" /\ \A d \in Client : d # c => outbox'[d] = outbox[d]
  BY DEF Flush, FlushFails, Flushing, TypeOK, Listed
<1>4. status' \in [Client -> {"none", "ok", "zombie"}]
      /\ \A d \in Client : status'[d] = "none" <=> status[d] = "none"
  BY <1>3 DEF Flush, FlushFails, TypeOK
<1>5. QED
  <2>1. UNCHANGED <<turn, seat, silent, inbox, spaceTux, tuxes, view>>
    BY DEF Flush, FlushFails, Flushing
  <2>2. ASSUME NEW d \in Client, status'[d] = "none"
        PROVE  outbox'[d] = outbox[d] /\ status[d] = "none"
    BY <1>3, <1>4, <2>2
  <2>3. QED
    BY <1>1, <1>2, <1>4, <2>1, <2>2 DEF TypeOK

\* So do the timers.
LEMMA TypeTimer ==
    ASSUME TypeOK, Timer
    PROVE  TypeOK'
<1>1. CASE DelZombieClient
  <2>1. 0 \in 0 .. MaxSilent
    BY ServerAssumption DEF MaxSilent
  <2>3. written' \in [Client -> SUBSET Kind] /\ failed' \in SUBSET Client
    BY <1>1, FarewellWrites DEF DelZombieClient
  <2>4. view' \in [Client -> SUBSET Tux] /\ spaceTux' \in SUBSET Tux
    BY <1>1 DEF DelZombieClient, TypeOK
  <2>5. outbox' \in [Client -> SUBSET Kind]
    BY <1>1 DEF DelZombieClient, TypeOK, Kind
  <2>6. status' \in [Client -> {"none", "ok", "zombie"}]
        /\ seat' \in [Client -> Tux \cup {NoTux}]
        /\ silent' \in [Client -> 0 .. MaxSilent]
    BY <1>1, <2>1 DEF DelZombieClient, TypeOK
  <2>7. ASSUME NEW c \in Client, status'[c] = "none"
        PROVE  seat'[c] = NoTux /\ inbox'[c] = <<>> /\ outbox'[c] = {} /\ view'[c] = {}
    <3>1. CASE c \in Gone
      BY <1>1, <3>1 DEF DelZombieClient, WorkedOff
    <3>2. CASE c \notin Gone
      <4>1. status[c] = "none"
        BY <1>1, <2>7, <3>2 DEF DelZombieClient
      <4>2. c \notin Players
        BY <4>1 DEF Players, Receivers, Listed
      <4>3. QED
        BY <1>1, <3>2, <4>1, <4>2 DEF DelZombieClient, TypeOK
    <3>3. QED
      BY <3>1, <3>2
  <2>8. UNCHANGED <<turn, inbox, tuxes>>
    BY <1>1 DEF DelZombieClient
  <2>9. QED
    BY <2>3, <2>4, <2>5, <2>6, <2>7, <2>8 DEF TypeOK
<1>2. CASE PeriodicSync
  <2>1. Host \cup {seat[d] : d \in Seated} \subseteq Tux
    BY ServerAssumption DEF Host, Tux, Seated, Listed, HasTux, TypeOK
  <2>2. PICK near \in [Players -> SUBSET (Host \cup {seat[d] : d \in Seated})] :
         /\ view' = [c \in Client |-> IF c \in Players THEN view[c] \cup near[c] ELSE view[c]]
         /\ outbox' = [c \in Client |->
              IF c \in Players /\ near[c] # {} THEN outbox[c] \cup {"any"} ELSE outbox[c]]
    BY <1>2 DEF PeriodicSync
  <2>3. view' \in [Client -> SUBSET Tux] /\ outbox' \in [Client -> SUBSET Kind]
    BY <2>1, <2>2 DEF TypeOK, Kind
  <2>4. \A c \in Client : status[c] = "none" => view'[c] = view[c] /\ outbox'[c] = outbox[c]
    BY <2>2 DEF Players, Receivers
  <2>5. QED
    BY <1>2, <2>3, <2>4 DEF PeriodicSync, TypeOK, WritesNothing
<1>3. CASE PingClients
  <2>1. \A c \in Client : status[c] = "none" => outbox'[c] = outbox[c]
    BY <1>3 DEF PingClients, Players, Receivers
  <2>2. QED
    BY <1>3, <2>1 DEF PingClients, TypeOK, Kind, WritesNothing
<1>4. QED
  BY <1>1, <1>2, <1>3 DEF Timer

\* So do quitting, the clock and the turns of the loop.
LEMMA TypeRest ==
    ASSUME TypeOK, BeginWork \/ EndTurn \/ ServerQuit \/ Tick \/ Outside
    PROVE  TypeOK'
<1>1. CASE BeginWork \/ EndTurn \/ Outside
  BY <1>1 DEF BeginWork, EndTurn, Outside, sessionVars, TypeOK, WritesNothing
<1>2. CASE ServerQuit
  <2>1. 0 \in 0 .. MaxSilent
    BY ServerAssumption DEF MaxSilent
  <2>2. written' \in [Client -> SUBSET Kind] /\ failed' \in SUBSET Client
    BY <1>2, QuitWrites
  <2>3. QED
    BY <1>2, <2>1, <2>2 DEF ServerQuit, TypeOK, WorkedOff
<1>3. CASE Tick
  <2>1. \A n \in 0 .. MaxSilent : n < MaxSilent => n + 1 \in 0 .. MaxSilent
    BY ServerAssumption DEF MaxSilent
  <2>2. silent' \in [Client -> 0 .. MaxSilent]
    BY <1>3, <2>1 DEF Tick, TypeOK
  <2>3. QED
    BY <1>3, <2>2 DEF Tick, TypeOK, WritesNothing
<1>4. QED
  BY <1>1, <1>2, <1>3

\* Every step keeps the types.
LEMMA TypeStep == TypeOK /\ [Next]_vars => TypeOK'
<1> SUFFICES ASSUME TypeOK, [Next]_vars PROVE TypeOK'
  OBVIOUS
<1>1. ASSUME NEW a \in Client, NEW m \in Cmd, Read(a, m) PROVE TypeOK'
  BY <1>1, TypeRead
<1>2. ASSUME NEW a \in Client, ReadFails(a) PROVE TypeOK'
  BY <1>2, TypeReadFails
<1>3. ASSUME NEW c \in Client, Handle(c) PROVE TypeOK'
  BY <1>3, TypeHandle
<1>4. ASSUME NEW c \in Client, Flush(c) \/ FlushFails(c) PROVE TypeOK'
  BY <1>4, TypeFlush
<1>5. CASE Timer
  BY <1>5, TypeTimer
<1>6. CASE BeginWork \/ EndTurn \/ ServerQuit \/ Tick \/ Outside
  BY <1>6, TypeRest
<1>7. CASE UNCHANGED vars
  BY <1>7 DEF vars, sessionVars, TypeOK
<1>8. QED
  BY <1>1, <1>2, <1>3, <1>4, <1>5, <1>6, <1>7 DEF Next

\* The sessions, their queues, the arena and the clocks always have the values
\* that the rest of the server takes them to have; a session that is not listed
\* holds nothing.
THEOREM ServerTypeCorrect == Spec => []TypeOK
<1>1. Init => TypeOK
  BY TypeInit
<1>2. TypeOK /\ [Next]_vars => TypeOK'
  BY TypeStep
<1>3. QED
  BY <1>1, <1>2, PTL DEF Spec

(***************************************************************************)
(* Part 2: the agreement of sessions, arena and players.  The invariant    *)
(* adds to the three properties that a tux's number has been issued: so    *)
(* the next number is nobody's, and the host's tux is not a player's.      *)
(***************************************************************************)
SeatsIssued == \A c \in Client : HasTux(c) => seat[c] \in 1 .. tuxes

Agreement == SeatsIssued /\ OneSessionPerPort /\ OwnedTuxes /\ PlayersAgree

\* The empty server agrees with itself.
LEMMA AgreementInit == Init => Agreement
  BY DEF Init, Agreement, SeatsIssued, HasTux, OneSessionPerPort, OwnedTuxes, PlayersAgree,
         Listed, Seated, Players

\* A step may make zombies; it changes nothing else that matters.
LEMMA AgreementZombies ==
    ASSUME Agreement,
           UNCHANGED <<seat, spaceTux, tuxes, view>>,
           \A c \in Client : status'[c] = status[c]
                          \/ (status[c] # "none" /\ status'[c] = "zombie")
    PROVE  Agreement'
<1>1. Listed' = Listed /\ Seated' = Seated /\ Players' \subseteq Players /\ Host' = Host
  BY DEF Listed, Seated, HasTux, Players, Receivers, Host
<1>2. SeatsIssued' /\ OneSessionPerPort' /\ PlayersAgree'
  BY <1>1 DEF Agreement, SeatsIssued, HasTux, OneSessionPerPort, PlayersAgree
<1>3. OwnedTuxes'
  BY <1>1 DEF Agreement, OwnedTuxes
<1>4. QED
  BY <1>2, <1>3 DEF Agreement

\* A new session has no tux, and no other session has its port.
LEMMA AgreementOpened ==
    ASSUME TypeOK, Agreement, NEW a \in Client, NEW st \in {"ok", "zombie"}, NEW box,
           SessionsAt(a) = {}, Opened(a, st, box)
    PROVE  Agreement'
<1>1. /\ a \notin Listed
      /\ \A c \in Listed : Port[c] # Port[a]
  BY DEF SessionsAt
<1>2. status[a] = "none" /\ seat[a] = NoTux
  BY <1>1 DEF Listed, TypeOK
<1>3. /\ seat' = seat /\ spaceTux' = spaceTux /\ tuxes' = tuxes /\ Host' = Host
      /\ \A c \in Client : c # a => view'[c] = view[c]
  BY <1>2 DEF Opened, TypeOK, Host
<1>4. Listed' = Listed \cup {a}
  BY DEF Opened, Listed, TypeOK
<1>5. Seated' = Seated
  BY <1>2, <1>3, <1>4 DEF Seated, HasTux
<1>6. a \notin Players' /\ Players' \subseteq Players
  BY <1>1, <1>2, <1>3, <1>5 DEF Players, Receivers, Opened, TypeOK, Seated, HasTux, Listed
<1>7. SeatsIssued'
  BY <1>3 DEF Agreement, SeatsIssued, HasTux
<1>8. OneSessionPerPort'
  BY <1>1, <1>4 DEF Agreement, OneSessionPerPort
<1>9. OwnedTuxes'
  BY <1>3, <1>5 DEF Agreement, OwnedTuxes
<1>10. PlayersAgree'
  BY <1>3, <1>6 DEF Agreement, PlayersAgree, Players, Receivers, Listed
<1>11. QED
  BY <1>7, <1>8, <1>9, <1>10 DEF Agreement

\* "hello": the new number goes to the session, the arena and every view.
LEMMA AgreementAccept ==
    ASSUME TypeOK, Agreement, NEW c \in Client, Accept(c)
    PROVE  Agreement'
<1> DEFINE new == tuxes + 1
<1>1. /\ c \in Listed /\ seat[c] = NoTux /\ c \notin Seated
      /\ tuxes' = new /\ seat' = [seat EXCEPT ![c] = new] /\ spaceTux' = spaceTux \cup {new}
      /\ status' = status /\ Listed' = Listed /\ Receivers' = Receivers /\ Host' = Host
  BY DEF Accept, TakeLine, HasTux, Seated, Listed, Receivers, Host
<1>2. tuxes \in Nat /\ new # NoTux /\ seat'[c] = new
  BY <1>1 DEF TypeOK
<1>3. \A d \in Client : d # c => seat'[d] = seat[d]
  BY <1>1 DEF TypeOK
<1>4. Seated' = Seated \cup {c}
  BY <1>1, <1>2, <1>3 DEF Seated, HasTux, Listed
<1>5. \A d \in Seated : seat[d] \in 1 .. tuxes /\ d # c /\ d \in Client
  BY <1>1 DEF Agreement, SeatsIssued, Seated, Listed
<1>6. SeatsIssued'
  BY <1>1, <1>2, <1>3 DEF Agreement, SeatsIssued, HasTux
<1>7. OneSessionPerPort'
  BY <1>1 DEF Agreement, OneSessionPerPort
<1>8. {seat'[d] : d \in Seated'} = {seat[d] : d \in Seated} \cup {new}
  BY <1>2, <1>3, <1>4, <1>5
<1>9. OwnedTuxes'
  <2>1. spaceTux' = Host' \cup {seat'[d] : d \in Seated'}
    BY <1>1, <1>8 DEF Agreement, OwnedTuxes
  <2>2. ASSUME NEW d \in Seated', NEW e \in Seated', seat'[d] = seat'[e] PROVE d = e
    BY <1>2, <1>3, <1>4, <1>5, <2>2 DEF Agreement, OwnedTuxes
  <2>3. QED
    BY <2>1, <2>2 DEF OwnedTuxes
<1>10. PlayersAgree'
  <2>1. ASSUME NEW d \in Players' PROVE view'[d] = spaceTux'
    <3>1. d \in Client /\ d \in Receivers /\ d \in Seated'
      BY <1>1 DEF Players, Receivers, Listed
    <3>2. CASE d = c
      BY <1>1, <3>1, <3>2 DEF Accept, Agreement, OwnedTuxes
    <3>3. CASE d # c
      <4>1. d \in Players
        BY <1>4, <3>1, <3>3 DEF Players
      <4>2. view'[d] = view[d] \cup {new}
        BY <3>1, <3>3, <4>1 DEF Accept
      <4>3. QED
        BY <1>1, <4>1, <4>2 DEF Agreement, PlayersAgree
    <3>4. QED
      BY <3>2, <3>3
  <2>2. QED
    BY <2>1 DEF PlayersAgree
<1>11. QED
  BY <1>6, <1>7, <1>9, <1>10 DEF Agreement

\* Removing zombies: their tuxes leave the arena and the views of the others.
LEMMA AgreementDelZombie ==
    ASSUME TypeOK, Agreement, DelZombieClient
    PROVE  Agreement'
<1> DEFINE left == {seat[c] : c \in Gone \cap Seated}
<1>1. /\ spaceTux' = spaceTux \ left /\ tuxes' = tuxes /\ Host' = Host
      /\ \A c \in Client : c \in Gone => status'[c] = "none" /\ seat'[c] = NoTux
      /\ \A c \in Client : c \notin Gone => status'[c] = status[c] /\ seat'[c] = seat[c]
      /\ \A c \in Players \ Gone : view'[c] = view[c] \ left
  BY DEF DelZombieClient, Host, Players, Receivers, Listed
<1>2. Listed' = Listed \ Gone /\ Receivers' = Receivers \ Gone
  BY <1>1 DEF Listed, Receivers
<1>3. Seated' = Seated \ Gone
  BY <1>1, <1>2 DEF Seated, HasTux, Listed
<1>4. Players' = Players \ Gone
  BY <1>2, <1>3 DEF Players
<1>5. \A c \in Seated : seat[c] \in 1 .. tuxes /\ c \in Client
  BY DEF Agreement, SeatsIssued, Seated, Listed
<1>6. SeatsIssued'
  BY <1>1 DEF Agreement, SeatsIssued, HasTux
<1>7. OneSessionPerPort'
  BY <1>2 DEF Agreement, OneSessionPerPort
<1>8. OwnedTuxes'
  <2>1. {seat'[c] : c \in Seated'} = {seat[c] : c \in Seated \ Gone}
    BY <1>1, <1>3, <1>5
  <2>2. Host \cap left = {}
    BY <1>5 DEF Host
  <2>3. {seat[c] : c \in Seated} \ left = {seat[c] : c \in Seated \ Gone}
    BY DEF Agreement, OwnedTuxes
  <2>4. spaceTux' = Host' \cup {seat'[c] : c \in Seated'}
    BY <1>1, <2>1, <2>2, <2>3 DEF Agreement, OwnedTuxes
  <2>5. \A c, d \in Seated' : seat'[c] = seat'[d] => c = d
    BY <1>1, <1>3, <1>5 DEF Agreement, OwnedTuxes
  <2>6. QED
    BY <2>4, <2>5 DEF OwnedTuxes
<1>9. PlayersAgree'
  BY <1>1, <1>4 DEF Agreement, PlayersAgree
<1>10. QED
  BY <1>6, <1>7, <1>8, <1>9 DEF Agreement

\* The periodic "newtux" tells of tuxes the players know of.
LEMMA AgreementSync ==
    ASSUME TypeOK, Agreement, PeriodicSync
    PROVE  Agreement'
<1>1. UNCHANGED <<status, seat, spaceTux, tuxes>>
  BY DEF PeriodicSync
<1>2. PICK near \in [Players -> SUBSET (Host \cup {seat[d] : d \in Seated})] :
         view' = [c \in Client |-> IF c \in Players THEN view[c] \cup near[c] ELSE view[c]]
  BY DEF PeriodicSync
<1>3. \A c \in Players : near[c] \subseteq spaceTux /\ c \in Client
  BY <1>2 DEF Agreement, OwnedTuxes, Players, Receivers, Listed
<1>4. \A c \in Players : view'[c] = view[c]
  BY <1>2, <1>3 DEF Agreement, PlayersAgree
<1>5. /\ Listed' = Listed /\ Seated' = Seated /\ Players' = Players /\ Host' = Host
  BY <1>1 DEF Listed, Seated, HasTux, Players, Receivers, Host
<1>6. PlayersAgree'
  BY <1>1, <1>4, <1>5 DEF Agreement, PlayersAgree
<1>7. SeatsIssued' /\ OneSessionPerPort'
  BY <1>1, <1>5 DEF Agreement, SeatsIssued, HasTux, OneSessionPerPort
<1>8. OwnedTuxes'
  BY <1>1, <1>5 DEF Agreement, OwnedTuxes
<1>9. QED
  BY <1>6, <1>7, <1>8 DEF Agreement

\* Quitting leaves the host alone in the arena.
LEMMA AgreementQuit ==
    ASSUME TypeOK, Agreement, ServerQuit
    PROVE  Agreement'
<1>1. \A c \in Client : status'[c] = "none" /\ seat'[c] = NoTux
  BY DEF ServerQuit
<1>2. Listed' = {} /\ Seated' = {} /\ Players' = {} /\ Host' = Host
  BY <1>1 DEF Listed, Seated, Players, Host
<1>3. \A c \in Seated : seat[c] \in 1 .. tuxes
  BY DEF Agreement, SeatsIssued, Seated, Listed
<1>4. Host \cap {seat[c] : c \in Seated} = {}
  BY <1>3 DEF Host
<1>5. spaceTux' = Host
  BY <1>4 DEF ServerQuit, Agreement, OwnedTuxes
<1>6. SeatsIssued' /\ OneSessionPerPort' /\ PlayersAgree'
  BY <1>1, <1>2 DEF SeatsIssued, HasTux, OneSessionPerPort, PlayersAgree
<1>7. OwnedTuxes'
  BY <1>2, <1>5 DEF OwnedTuxes
<1>8. QED
  BY <1>6, <1>7 DEF Agreement

\* Every step keeps the agreement.
LEMMA AgreementStep == TypeOK /\ Agreement /\ [Next]_vars => Agreement'
<1> SUFFICES ASSUME TypeOK, Agreement, [Next]_vars PROVE Agreement'
  OBVIOUS
<1>1. ASSUME NEW a \in Client, NEW m \in Cmd, Read(a, m) PROVE Agreement'
  <2>1. CASE ReadKnown(a, m)
    BY <2>1, AgreementZombies DEF ReadKnown
  <2>2. CASE ReadNew(a, m)
    BY <2>2, AgreementOpened DEF ReadNew
  <2>3. QED
    BY <1>1, <2>1, <2>2 DEF Read
<1>2. ASSUME NEW a \in Client, ReadFails(a) PROVE Agreement'
  <2>1. CASE SessionsAt(a) = {} /\ Opened(a, "zombie", <<>>)
    BY <2>1, AgreementOpened
  <2>2. ASSUME NEW c \in SessionsAt(a),
               status' = [status EXCEPT ![c] = "zombie"],
               UNCHANGED <<turn, seat, silent, inbox, outbox, spaceTux, tuxes, view>>
        PROVE  Agreement'
    BY <2>2, AgreementZombies DEF SessionsAt, Listed, TypeOK
  <2>3. QED
    BY <1>2, <2>1, <2>2 DEF ReadFails
<1>3. ASSUME NEW c \in Client, Handle(c) PROVE Agreement'
  <2>1. ASSUME NEW m \in Cmd, BadCommand(c, m) \/ Refuse(c, m) PROVE Agreement'
    BY <2>1, AgreementZombies DEF BadCommand, Refuse, TakeLine, Listed, TypeOK
  <2>2. CASE Accept(c)
    BY <2>2, AgreementAccept
  <2>3. CASE Play(c) \/ RecvCheck(c) \/ RecvStatus(c)
    BY <2>3, AgreementZombies DEF Play, RecvCheck, RecvStatus
  <2>4. CASE RecvEnd(c)
    BY <2>4, AgreementZombies DEF RecvEnd, TakeLine, Listed, TypeOK
  <2>5. QED
    BY <1>3, <2>1, <2>2, <2>3, <2>4 DEF Handle
<1>4. ASSUME NEW c \in Client, Flush(c) \/ FlushFails(c) PROVE Agreement'
  BY <1>4, AgreementZombies DEF Flush, FlushFails, Flushing, Listed, TypeOK
<1>5. CASE Timer
  BY <1>5, AgreementDelZombie, AgreementSync, AgreementZombies DEF Timer, PingClients
<1>6. CASE BeginWork \/ EndTurn \/ Tick \/ Outside
  BY <1>6, AgreementZombies DEF BeginWork, EndTurn, Tick, Outside, sessionVars
<1>7. CASE ServerQuit
  BY <1>7, AgreementQuit
<1>8. CASE UNCHANGED vars
  BY <1>8, AgreementZombies DEF vars, sessionVars
<1>9. QED
  BY <1>1, <1>2, <1>3, <1>4, <1>5, <1>6, <1>7, <1>8 DEF Next

\* Whatever the clients send, however it is batched and whoever falls silent:
\* a port has one session, a tux of the arena is the host's or one session's, and
\* each player has been told of exactly the tuxes that are there.
THEOREM SessionsAgree == Spec => [](OneSessionPerPort /\ OwnedTuxes /\ PlayersAgree)
<1>1. Init => TypeOK /\ Agreement
  BY TypeInit, AgreementInit
<1>2. TypeOK /\ Agreement /\ [Next]_vars => TypeOK' /\ Agreement'
  BY TypeStep, AgreementStep
<1>3. TypeOK /\ Agreement => OneSessionPerPort /\ OwnedTuxes /\ PlayersAgree
  BY DEF Agreement
<1>4. QED
  BY <1>1, <1>2, <1>3, PTL DEF Spec

(***************************************************************************)
(* Part 3: the places, and the last word to a client.                      *)
(***************************************************************************)
\* No step seats one player too many.
LEMMA SeatsStep ==
    ASSUME TypeOK, Agreement, SeatsBounded, [Next]_vars, Agreement'
    PROVE  SeatsBounded'
<1>1. IsFiniteSet(spaceTux)
  <2>1. IsFiniteSet(Tux)
    BY FS_Interval, ServerAssumption DEF Tux
  <2>2. QED
    BY <2>1, FS_Subset DEF TypeOK
<1>2. Host' = Host /\ Host \subseteq spaceTux'
  BY DEF Agreement, OwnedTuxes, Host
<1>3. CASE spaceTux' \subseteq spaceTux
  <2>1. Cardinality(spaceTux') <= Cardinality(spaceTux)
    BY <1>1, <1>3, FS_Subset
  <2>2. Cardinality(spaceTux') \in Nat /\ Cardinality(spaceTux) \in Nat
    BY <1>1, <1>3, FS_Subset, FS_CardinalityType
  <2>3. CASE spaceTux = Host
    <3>1. spaceTux' = Host'
      BY <1>2, <1>3, <2>3
    <3>2. QED
      BY <3>1 DEF SeatsBounded
  <2>4. CASE Cardinality(spaceTux) <= MaxClients
    <3>1. Cardinality(spaceTux') <= MaxClients
      BY <2>1, <2>2, <2>4, ServerAssumption
    <3>2. QED
      BY <3>1 DEF SeatsBounded
  <2>5. QED
    BY <2>3, <2>4 DEF SeatsBounded
<1>4. ASSUME NEW c \in Client, Accept(c) PROVE SeatsBounded'
  <2>1. spaceTux' = spaceTux \cup {tuxes + 1} /\ ~Full
    BY <1>4 DEF Accept
  <2>2. Cardinality(spaceTux) \in Nat
    BY <1>1, FS_CardinalityType
  <2>3. Cardinality(spaceTux') <= Cardinality(spaceTux) + 1
    BY <1>1, <2>1, <2>2, FS_AddElement
  <2>4. Cardinality(spaceTux') \in Nat
    BY <1>1, <2>1, FS_AddElement, FS_CardinalityType
  <2>5. QED
    BY <2>1, <2>2, <2>3, <2>4, ServerAssumption DEF Full, SeatsBounded
<1>5. (\E c \in Client : Accept(c)) \/ spaceTux' \subseteq spaceTux
  BY DEF Next, vars, sessionVars, Read, ReadKnown, ReadNew, ReadFails, Opened, Handle, BadCommand,
         RecvStatus, Refuse, Play, RecvCheck, RecvEnd, Flush, FlushFails, Flushing, Timer, DelZombieClient,
         PeriodicSync, PingClients, BeginWork, EndTurn, ServerQuit, Tick, Outside
<1>6. QED
  BY <1>3, <1>4, <1>5

\* The arena never holds more tuxes than the server has places, the host's
\* included (or there is no room for anybody but the host).
THEOREM SeatsAreBounded == Spec => []SeatsBounded
<1>1. Init => TypeOK /\ Agreement /\ SeatsBounded
  BY TypeInit, AgreementInit DEF Init, SeatsBounded
<1>2. TypeOK /\ Agreement /\ SeatsBounded /\ [Next]_vars => TypeOK' /\ Agreement' /\ SeatsBounded'
  BY TypeStep, AgreementStep, SeatsStep
<1>3. QED
  BY <1>1, <1>2, PTL DEF Spec

\* One step of ToldWhy, for one client.
Told(c) ==
    status[c] = "ok" /\ c \notin failed' =>
        /\ status'[c] = "none" /\ (turn' # "quit" \/ HasTux(c)) => "end" \in written'[c]
        /\ status'[c] = "zombie" /\ inbox'[c] # inbox[c] /\ ~HasTux(c)
             => "refuse" \in written'[c]

\* A session that keeps its status, or becomes a zombie without a line of its
\* inbox being taken, asks for nothing.
LEMMA ToldUnchanged ==
    ASSUME NEW c \in Client,
           \/ status'[c] = status[c]
           \/ status'[c] = "zombie" /\ inbox'[c] = inbox[c]
    PROVE  Told(c)
  BY DEF Told

\* Every step keeps the last word to every client.
LEMMA ToldStep ==
    ASSUME TypeOK, [Next]_vars, NEW c \in Client
    PROVE  Told(c)
<1>1. ASSUME NEW a \in Client, NEW m \in Cmd, Read(a, m) PROVE Told(c)
  <2>1. status'[c] = status[c] \/ status[c] = "none"
    BY <1>1 DEF Read, ReadKnown, ReadNew, Opened, SessionsAt, Listed, TypeOK
  <2>2. QED
    BY <2>1, ToldUnchanged DEF Told
<1>2. ASSUME NEW a \in Client, ReadFails(a) PROVE Told(c)
  <2>1. CASE SessionsAt(a) = {} /\ Opened(a, "zombie", <<>>)
    <3>1. status'[c] = status[c] \/ status[c] = "none"
      BY <2>1 DEF Opened, SessionsAt, Listed, TypeOK
    <3>2. QED
      BY <3>1, ToldUnchanged DEF Told
  <2>2. ASSUME NEW d \in SessionsAt(a),
               status' = [status EXCEPT ![d] = "zombie"],
               UNCHANGED <<turn, seat, silent, inbox, outbox, spaceTux, tuxes, view>>
        PROVE  Told(c)
    BY <2>2, ToldUnchanged DEF TypeOK
  <2>3. QED
    BY <1>2, <2>1, <2>2 DEF ReadFails
<1>3. ASSUME NEW d \in Client, Handle(d) PROVE Told(c)
  <2>1. ASSUME NEW m \in Cmd, Refuse(d, m) PROVE Told(c)
    <3>1. CASE c = d
      BY <2>1, <3>1, RefuseWrites DEF Refuse, Told, TypeOK
    <3>2. CASE c # d
      BY <2>1, <3>2, ToldUnchanged DEF Refuse, TypeOK
    <3>3. QED
      BY <3>1, <3>2
  <2>2. CASE RecvEnd(d)
    <3>1. CASE c = d
      BY <2>2, <3>1 DEF RecvEnd, Told, TypeOK
    <3>2. CASE c # d
      BY <2>2, <3>2, ToldUnchanged DEF RecvEnd, TypeOK
    <3>3. QED
      BY <3>1, <3>2
  <2>3. CASE (\E m \in Cmd : BadCommand(d, m)) \/ Accept(d) \/ Play(d) \/ RecvCheck(d)
          \/ RecvStatus(d)
    BY <2>3, ToldUnchanged DEF BadCommand, Accept, Play, RecvCheck, RecvStatus
  <2>4. QED
    BY <1>3, <2>1, <2>2, <2>3 DEF Handle
<1>4. ASSUME NEW d \in Client, Flush(d) \/ FlushFails(d) PROVE Told(c)
  BY <1>4, ToldUnchanged DEF Flush, FlushFails, Flushing, TypeOK
<1>5. CASE DelZombieClient
  <2>1. CASE c \in Gone
    <3>1. status[c] = "ok" /\ c \notin failed' => "end" \in written'[c]
      BY <1>5, <2>1, FarewellWrites DEF DelZombieClient, Gone, Silent
    <3>2. status'[c] = "none"
      BY <1>5, <2>1 DEF DelZombieClient
    <3>3. QED
      BY <3>1, <3>2 DEF Told
  <2>2. CASE c \notin Gone
    BY <1>5, <2>2, ToldUnchanged DEF DelZombieClient
  <2>3. QED
    BY <2>1, <2>2
<1>6. CASE ServerQuit
  <2>1. status'[c] = "none" /\ turn' = "quit"
    BY <1>6 DEF ServerQuit
  <2>2. status[c] = "ok" /\ HasTux(c) => c \in Players
    BY DEF Players, Seated, Receivers, Listed
  <2>3. status[c] = "ok" /\ HasTux(c) /\ c \notin failed' => "end" \in written'[c]
    BY <1>6, <2>2, QuitWrites
  <2>4. QED
    BY <2>1, <2>3 DEF Told
<1>7. CASE PeriodicSync \/ PingClients \/ BeginWork \/ EndTurn \/ Tick \/ Outside
  BY <1>7, ToldUnchanged DEF PeriodicSync, PingClients, BeginWork, EndTurn, Tick, Outside, sessionVars
<1>8. CASE UNCHANGED vars
  BY <1>8, ToldUnchanged DEF vars, sessionVars
<1>9. QED
  BY <1>1, <1>2, <1>3, <1>4, <1>5, <1>6, <1>7, <1>8 DEF Next, Timer

\* A client the server stops listening to has been written the reason: "end"
\* when it was silent or the server quits, the error when it was refused.  The one
\* exception is the client whose socket refuses a write of the very walk over its queue
\* that ends with the reason.
THEOREM ClientsAreTold == Spec => ToldWhy
<1>1. TypeOK /\ [Next]_vars => [\A c \in Client : Told(c)]_vars
  BY ToldStep
<1>2. QED
  BY <1>1, ServerTypeCorrect, PTL DEF Spec, ToldWhy, Told

(***************************************************************************)
(* Part 4: the server among processes and datagrams (module Session).      *)
(***************************************************************************)

\* What the server does besides working off a line.
Rest ==
    \/ \E d \in Client : Flush(d) \/ FlushFails(d)
    \/ Timer \/ BeginWork \/ EndTurn \/ ServerQuit

\* A step of all is one of a process, the network, the clock or the server; what the
\* server writes in it is on its way, whether or not a write fails.
LEMMA SessionParts ==
    ASSUME [SessionNext]_allVars
    PROVE  \/ \E d \in Client : Process(d) \/ Network(d)
           \/ Carried /\ (UNCHANGED faults \/ Fault) /\ ((\E d \in Client : Handle(d)) \/ Rest)
           \/ TimePasses
           \/ UNCHANGED allVars
  BY DEF SessionNext, Served, WriteFails, Rest, Timer

\* What the processes and the network do is outside the server.
LEMMA SessionIsServerStep ==
    ASSUME SessionTypeOK, [SessionNext]_allVars
    PROVE  [Next]_vars
<1>1. ASSUME Outside PROVE [Next]_vars
  BY <1>1 DEF Next
<1>2. ASSUME NEW c \in Client, Process(c) PROVE [Next]_vars
  BY <1>1, <1>2 DEF Process, ClientInit, ClientPing, ClientHears, ClientRecvInit, ClientRecvEnd,
                    ClientGivesUp, ClientQuits, ClientDies
<1>3. ASSUME NEW c \in Client, Network(c) PROVE [Next]_vars
  <2>1. up[c] \subseteq Cmd
    BY DEF SessionTypeOK
  <2>2. ASSUME NEW m \in up[c], Arrive(c, m) PROVE [Next]_vars
    BY <2>1, <2>2 DEF Arrive, Next
  <2>3. ASSUME NEW m \in up[c], LoseUp(c, m) PROVE [Next]_vars
    BY <1>1, <2>3 DEF LoseUp
  <2>4. ASSUME NEW k \in down[c], LoseDown(c, k) PROVE [Next]_vars
    BY <1>1, <2>4 DEF LoseDown
  <2> QED
    BY <1>3, <2>2, <2>3, <2>4 DEF Network
<1>4. CASE UNCHANGED allVars
  BY <1>4 DEF allVars
<1>5. CASE TimePasses \/ (\E c \in Client : Handle(c)) \/ Rest
  BY <1>5 DEF TimePasses, Rest, Next
<1> QED
  BY <1>2, <1>3, <1>4, <1>5, SessionParts

\* What a step of the server leaves to the network is of the right kind.
LEMMA SessionTypeStep ==
    ASSUME SessionTypeOK, [SessionNext]_allVars
    PROVE  SessionTypeOK'
<1>1. TypeOK'
  BY SessionIsServerStep, TypeStep DEF SessionTypeOK
<1>2. /\ proc \in [Client -> {"off", "joining", "playing", "over"}]
      /\ unheard \in [Client -> 0 .. MaxUnheard]
      /\ up \in [Client -> SUBSET Cmd] /\ down \in [Client -> SUBSET Kind]
      /\ faults \in 0 .. MaxFaults /\ MaxFaults \in Nat /\ MaxUnheard \in Nat
  BY SessionAssumption DEF SessionTypeOK, MaxUnheard
<1>3. written' \in [Client -> SUBSET Kind]
  BY <1>1 DEF TypeOK
<1>4. Fault => faults' \in 0 .. MaxFaults
  BY <1>2 DEF Fault
<1>5. ASSUME Carried, UNCHANGED faults \/ Fault PROVE SessionTypeOK'
  <2>1. down' \in [Client -> SUBSET Kind]
    BY <1>2, <1>3, <1>5 DEF Carried
  <2> QED
    BY <1>1, <1>2, <1>4, <1>5, <2>1 DEF Carried, SessionTypeOK
<1>6. ASSUME NEW c \in Client, Process(c) PROVE SessionTypeOK'
  <2>1. proc' \in [Client -> {"off", "joining", "playing", "over"}]
    BY <1>2, <1>6 DEF Process, ClientInit, ClientPing, ClientHears, ClientRecvInit, ClientRecvEnd,
                      ClientGivesUp, ClientQuits, ClientDies, GoesOver
  <2>2. unheard' \in [Client -> 0 .. MaxUnheard]
    BY <1>2, <1>6 DEF Process, ClientInit, ClientPing, ClientHears, ClientRecvInit, ClientRecvEnd,
                      ClientGivesUp, ClientQuits, ClientDies, GoesOver, Heard
  <2>3. up' \in [Client -> SUBSET Cmd]
    BY <1>2, <1>6 DEF Process, ClientInit, ClientPing, ClientHears, ClientRecvInit, ClientRecvEnd,
                      ClientGivesUp, ClientQuits, ClientDies, GoesOver, Cmd
  <2>4. down' \in [Client -> SUBSET Kind] /\ UNCHANGED faults
    BY <1>2, <1>6 DEF Process, ClientInit, ClientPing, ClientHears, ClientRecvInit, ClientRecvEnd,
                      ClientGivesUp, ClientQuits, ClientDies
  <2> QED
    BY <1>1, <1>2, <2>1, <2>2, <2>3, <2>4 DEF SessionTypeOK
<1>7. ASSUME NEW c \in Client, Network(c) PROVE SessionTypeOK'
  <2>1. ASSUME NEW m \in up[c], Arrive(c, m) PROVE SessionTypeOK'
    BY <1>1, <1>2, <1>4, <2>1 DEF Arrive, SessionTypeOK
  <2>2. ASSUME NEW m \in up[c], LoseUp(c, m) PROVE SessionTypeOK'
    BY <1>1, <1>2, <2>2 DEF LoseUp, SessionTypeOK
  <2>3. ASSUME NEW k \in down[c], LoseDown(c, k) PROVE SessionTypeOK'
    BY <1>1, <1>2, <2>3 DEF LoseDown, SessionTypeOK
  <2> QED
    BY <1>7, <2>1, <2>2, <2>3 DEF Network
<1>8. CASE TimePasses
  <2>1. unheard' \in [Client -> 0 .. MaxUnheard]
    BY <1>2, <1>8 DEF TimePasses
  <2> QED
    BY <1>1, <1>2, <1>8, <2>1 DEF TimePasses, SessionTypeOK
<1>9. CASE UNCHANGED allVars
  BY <1>1, <1>9 DEF allVars, processVars, SessionTypeOK
<1> QED
  BY <1>5, <1>6, <1>7, <1>8, <1>9, SessionParts

\* Processes, datagrams and faults keep their types, among any processes.
THEOREM SessionTypeCorrect == SessionSpec => []SessionTypeOK
<1>1. SessionInit => SessionTypeOK
  BY TypeInit, SessionAssumption DEF SessionInit, SessionTypeOK, MaxUnheard
<1>2. SessionTypeOK /\ [SessionNext]_allVars => SessionTypeOK'
  BY SessionTypeStep
<1> QED
  BY <1>1, <1>2, PTL DEF SessionSpec

\* The server among its players does nothing that Server does not allow, so what is
\* proved of Server above holds of the composition.
THEOREM SessionServes == SessionSpec => Spec
<1>1. SessionInit => Init
  BY DEF SessionInit
<1>2. SessionTypeOK /\ [SessionNext]_allVars => [Next]_vars
  BY SessionIsServerStep
<1> QED
  BY <1>1, <1>2, SessionTypeCorrect, PTL DEF SessionSpec, Spec

\* An address at whose port there are only processes of another version, and a session
\* there: nothing in it leads to a tux.
AllOld(c) == \A d \in Client : Port[d] = Port[c] => d \in OldClient

Out(c) == seat[c] = NoTux /\ "init" \notin outbox[c]

Barred(c) == Out(c) /\ \A i \in DOMAIN inbox[c] : inbox[c][i] # "hello"

\* What such a process says is no "hello" of this version, and it hears no "init".
TurnedAway(c) ==
    Barred(c) /\ "hello" \notin up[c] /\ "init" \notin down[c] /\ proc[c] # "playing"

OldKeptOut == \A c \in Client : AllOld(c) => TurnedAway(c)

\* Reading at the port brings no "hello" if none is on its way.
LEMMA BarredRead ==
    ASSUME TypeOK, NEW a \in Client, NEW m \in Cmd, Read(a, m) \/ ReadFails(a),
           NEW c \in Client, Barred(c), Port[a] = Port[c] => m # "hello" \/ ReadFails(a)
    PROVE  Barred(c)'
<1>0. inbox \in [Client -> Seq(Cmd)] /\ inbox[c] \in Seq(Cmd)
  BY DEF TypeOK
<1>1. CASE inbox'[c] = inbox[c] /\ seat'[c] = seat[c] /\ outbox'[c] = outbox[c]
  BY <1>1 DEF Barred, Out
<1>2. ASSUME NEW st, NEW box, Opened(a, st, box), c = a, \A i \in DOMAIN box : box[i] # "hello" PROVE Barred(c)'
  BY <1>2 DEF Barred, Out, Opened, TypeOK
<1>3. ASSUME NEW st, NEW box, Opened(a, st, box), c # a PROVE Barred(c)'
  BY <1>1, <1>3 DEF Opened, TypeOK
<1>4. CASE ReadFails(a)
  <2>1. \A i \in DOMAIN <<>> : <<>>[i] # "hello"
    OBVIOUS
  <2> QED
    BY <1>1, <1>2, <1>3, <1>4, <2>1 DEF ReadFails
<1>5. CASE Read(a, m) /\ ~ReadFails(a)
  <2>1. CASE ReadNew(a, m)
    <3>1. c = a => \A i \in DOMAIN <<m>> : <<m>>[i] # "hello"
      BY <1>5
    <3> QED
      BY <1>2, <1>3, <2>1, <3>1 DEF ReadNew
  <2>2. CASE ReadKnown(a, m)
    <3>1. PICK d \in SessionsAt(a) :
            inbox' = [inbox EXCEPT ![d] = Append(@, m)] /\ UNCHANGED <<seat, outbox>>
      BY <2>2 DEF ReadKnown
    <3>2. CASE d # c
      BY <1>0, <1>1, <3>1, <3>2
    <3>3. CASE d = c
      <4>1. m # "hello" /\ inbox'[c] = Append(inbox[c], m)
        BY <1>0, <1>5, <3>1, <3>3 DEF SessionsAt
      <4>2. \A i \in DOMAIN Append(inbox[c], m) : i \in DOMAIN inbox[c] \/ Append(inbox[c], m)[i] = m
        BY <1>0
      <4>3. \A i \in DOMAIN inbox[c] : Append(inbox[c], m)[i] = inbox[c][i]
        BY <1>0
      <4> QED
        BY <3>1, <4>1, <4>2, <4>3 DEF Barred, Out
    <3> QED
      BY <3>2, <3>3
  <2> QED
    BY <1>5, <2>1, <2>2 DEF Read
<1> QED
  BY <1>4, <1>5

\* Who is out stays out, and is sent no "init", as long as no "hello" of his is accepted.
LEMMA OutHandle ==
    ASSUME TypeOK, NEW d \in Client, Handle(d), NEW c \in Client, Out(c), ~(c = d /\ Accept(d))
    PROVE  Out(c)' /\ "init" \notin written'[c]
<1>0. outbox \in [Client -> SUBSET Kind] /\ seat \in [Client -> Tux \cup {NoTux}]
  BY DEF TypeOK
<1>1. ASSUME NEW k \in Cmd, BadCommand(d, k) PROVE Out(c)' /\ "init" \notin written'[c]
  BY <1>0, <1>1 DEF BadCommand, Out, WritesNothing
<1>2. ASSUME NEW k \in Cmd, Refuse(d, k) PROVE Out(c)' /\ "init" \notin written'[c]
  BY <1>0, <1>2, RefuseWrites DEF Refuse, Out
<1>3. CASE RecvStatus(d)
  <2>1. UNCHANGED seat /\ WritesNothing
    BY <1>3 DEF RecvStatus
  <2>2. outbox' = outbox \/ outbox' = [outbox EXCEPT ![d] = @ \cup {"any"}]
    BY <1>3 DEF RecvStatus
  <2> QED
    BY <1>0, <2>1, <2>2 DEF Out, WritesNothing
<1>4. CASE Accept(d)
  BY <1>0, <1>4 DEF Accept, Out, WritesNothing
<1>5. CASE Play(d)
  BY <1>0, <1>5 DEF Play, Out, WritesNothing
<1>6. CASE RecvCheck(d)
  BY <1>0, <1>6 DEF RecvCheck, Out, WritesNothing
<1>7. CASE RecvEnd(d)
  BY <1>0, <1>7 DEF RecvEnd, Out, WritesNothing
<1> QED
  BY <1>1, <1>2, <1>3, <1>4, <1>5, <1>6, <1>7 DEF Handle

\* Without a "hello" no line of its inbox gives the session a tux.
LEMMA BarredHandle ==
    ASSUME TypeOK, NEW d \in Client, Handle(d), NEW c \in Client, Barred(c)
    PROVE  Barred(c)' /\ "init" \notin written'[c]
<1>0. inbox \in [Client -> Seq(Cmd)] /\ outbox \in [Client -> SUBSET Kind] /\ seat \in [Client -> Tux \cup {NoTux}]
  BY DEF TypeOK
<1>1. PICK m \in Cmd : TakeLine(d, m)
  BY DEF Handle, BadCommand, Refuse, RecvStatus, Accept, Play, RecvCheck, RecvEnd, Cmd
<1>2. \A i \in DOMAIN inbox'[c] : inbox'[c][i] # "hello"
  <2>1. CASE c # d
    BY <1>0, <1>1, <2>1 DEF TakeLine, Barred
  <2>2. CASE c = d
    <3>1. inbox'[c] = Tail(inbox[c]) /\ inbox[c] \in Seq(Cmd) /\ inbox[c] # <<>>
      BY <1>0, <1>1, <2>2 DEF TakeLine
    <3>2. \A i \in DOMAIN Tail(inbox[c]) : i + 1 \in DOMAIN inbox[c] /\ Tail(inbox[c])[i] = inbox[c][i + 1]
      BY <3>1
    <3> QED
      BY <3>1, <3>2 DEF Barred
  <2> QED
    BY <2>1, <2>2
<1>3. ~(c = d /\ Accept(d))
  <2>1. ASSUME c = d, Accept(d) PROVE FALSE
    <3>1. inbox[c] \in Seq(Cmd) /\ inbox[c] # <<>> /\ Head(inbox[c]) = "hello"
      BY <1>0, <2>1 DEF Accept, TakeLine
    <3>2. 1 \in DOMAIN inbox[c] /\ inbox[c][1] = "hello"
      BY <3>1
    <3> QED
      BY <3>2 DEF Barred
  <2> QED
    BY <2>1
<1>4. Out(c)' /\ "init" \notin written'[c]
  BY <1>3, OutHandle DEF Barred
<1> QED
  BY <1>2, <1>4 DEF Barred

\* Nor does writing its queue, a timer, the clock or the end of the server.
LEMMA OutRest ==
    ASSUME TypeOK, NEW c \in Client, Out(c),
           \/ \E d \in Client : Flush(d) \/ FlushFails(d)
           \/ Timer \/ BeginWork \/ EndTurn \/ ServerQuit \/ Tick \/ Outside
    PROVE  UNCHANGED inbox /\ Out(c)' /\ "init" \notin written'[c]
<1>0. outbox \in [Client -> SUBSET Kind] /\ seat \in [Client -> Tux \cup {NoTux}]
  BY DEF TypeOK
<1>1. ASSUME NEW d \in Client, Flush(d) \/ FlushFails(d) PROVE UNCHANGED inbox /\ Out(c)' /\ "init" \notin written'[c]
  <2>1. PICK kept \in SUBSET (outbox[d] \cap {"init"}) : outbox' = [outbox EXCEPT ![d] = kept]
    BY <1>1 DEF Flush, FlushFails, Flushing
  <2>2. UNCHANGED <<seat, inbox>> /\ written'[c] \subseteq outbox[c]
    BY <1>1, FlushWrites DEF Flush, FlushFails, Flushing
  <2> QED
    BY <1>0, <2>1, <2>2 DEF Out
<1>2. CASE DelZombieClient
  <2>1. UNCHANGED inbox /\ seat'[c] = NoTux
    BY <1>2 DEF DelZombieClient, Out
  <2>2. "init" \notin outbox'[c]
    BY <1>2 DEF DelZombieClient, Out
  <2>3. "init" \notin written'[c]
    BY <1>2, FarewellWrites DEF DelZombieClient, Out
  <2> QED
    BY <2>1, <2>2, <2>3 DEF Out
<1>3. CASE PeriodicSync \/ PingClients
  BY <1>3 DEF PeriodicSync, PingClients, Out, WritesNothing
<1>4. CASE ServerQuit
  BY <1>4, QuitWrites DEF ServerQuit, Out
<1>5. CASE BeginWork \/ EndTurn \/ Tick \/ Outside
  BY <1>5 DEF BeginWork, EndTurn, Tick, Outside, sessionVars, Out, WritesNothing
<1> QED
  BY <1>1, <1>2, <1>3, <1>4, <1>5 DEF Timer

\* So a session that is barred stays barred.
LEMMA BarredRest ==
    ASSUME TypeOK, NEW c \in Client, Barred(c),
           \/ \E d \in Client : Flush(d) \/ FlushFails(d)
           \/ Timer \/ BeginWork \/ EndTurn \/ ServerQuit \/ Tick \/ Outside
    PROVE  Barred(c)' /\ "init" \notin written'[c]
  BY OutRest DEF Barred

\* One step, at one such address.
LEMMA TurnedAwayStep ==
    ASSUME SessionTypeOK, OldKeptOut, [SessionNext]_allVars, NEW c \in Client, AllOld(c)
    PROVE  TurnedAway(c)'
<1>0. /\ TypeOK /\ Barred(c) /\ c \in OldClient
      /\ "hello" \notin up[c] /\ "init" \notin down[c] /\ proc[c] # "playing"
      /\ proc \in [Client -> {"off", "joining", "playing", "over"}]
      /\ up \in [Client -> SUBSET Cmd] /\ down \in [Client -> SUBSET Kind]
  BY DEF OldKeptOut, TurnedAway, AllOld, SessionTypeOK
<1>1. ASSUME Barred(c)', "init" \notin written'[c], Carried PROVE TurnedAway(c)'
  BY <1>0, <1>1 DEF Carried, TurnedAway
<1>2. ASSUME Outside PROVE Barred(c)'
  BY <1>0, <1>2, BarredRest
<1>3. ASSUME NEW d \in Client, Process(d) PROVE TurnedAway(c)'
  <2>1. Barred(c)'
    BY <1>2, <1>3 DEF Process, ClientInit, ClientPing, ClientHears, ClientRecvInit, ClientRecvEnd,
                      ClientGivesUp, ClientQuits, ClientDies
  <2>2. "hello" \notin up'[c]
    BY <1>0, <1>3 DEF Process, ClientInit, ClientPing, ClientHears, ClientRecvInit, ClientRecvEnd,
                      ClientGivesUp, ClientQuits, ClientDies, GoesOver
  <2>3. "init" \notin down'[c]
    BY <1>0, <1>3 DEF Process, ClientInit, ClientPing, ClientHears, ClientRecvInit, ClientRecvEnd,
                      ClientGivesUp, ClientQuits, ClientDies
  <2>4. proc'[c] # "playing"
    BY <1>0, <1>3 DEF Process, ClientInit, ClientPing, ClientHears, ClientRecvInit, ClientRecvEnd,
                      ClientGivesUp, ClientQuits, ClientDies, GoesOver
  <2> QED
    BY <2>1, <2>2, <2>3, <2>4 DEF TurnedAway
<1>4. ASSUME NEW d \in Client, Network(d) PROVE TurnedAway(c)'
  <2>1. ASSUME NEW m \in up[d], Arrive(d, m) PROVE TurnedAway(c)'
    <3>1. m \in Cmd /\ (Read(d, m) \/ ReadFails(d))
      BY <1>0, <2>1 DEF Arrive
    <3>2. Port[d] = Port[c] => m # "hello"
      <4>1. ASSUME Port[d] = Port[c] PROVE AllOld(d)
        BY <4>1 DEF AllOld
      <4> QED
        BY <4>1 DEF OldKeptOut, TurnedAway
    <3>3. Barred(c)'
      BY <1>0, <3>1, <3>2, BarredRead
    <3> QED
      BY <1>0, <2>1, <3>3 DEF Arrive, TurnedAway
  <2>2. ASSUME NEW m \in up[d], LoseUp(d, m) PROVE TurnedAway(c)'
    BY <1>0, <1>2, <2>2 DEF LoseUp, TurnedAway
  <2>3. ASSUME NEW k \in down[d], LoseDown(d, k) PROVE TurnedAway(c)'
    BY <1>0, <1>2, <2>3 DEF LoseDown, TurnedAway
  <2> QED
    BY <1>4, <2>1, <2>2, <2>3 DEF Network
<1>5. ASSUME NEW d \in Client, Carried, Handle(d) PROVE TurnedAway(c)'
  BY <1>0, <1>1, <1>5, BarredHandle
<1>6. CASE Carried /\ Rest
  BY <1>0, <1>1, <1>6, BarredRest DEF Rest
<1>8. CASE TimePasses
  BY <1>0, <1>8, BarredRest DEF TimePasses, TurnedAway
<1>9. CASE UNCHANGED allVars
  BY <1>0, <1>9 DEF allVars, vars, sessionVars, processVars, TurnedAway, Barred, Out
<1> QED
  BY <1>3, <1>4, <1>5, <1>6, <1>8, <1>9, SessionParts

\* A process of another version is never let into the game, unless one of this version
\* shares its port: its session gets no tux, it is sent no "init" and does not play
\* (proto_recv_hello_server), whatever is lost, delayed or overtaken.
THEOREM OldNeverPlay ==
    SessionSpec => [](\A c \in Client : AllOld(c) => ~HasTux(c) /\ proc[c] # "playing")
<1>1. SessionInit => OldKeptOut
  BY DEF SessionInit, Init, OldKeptOut, TurnedAway, Barred, Out
<1>2. ASSUME SessionTypeOK, OldKeptOut, [SessionNext]_allVars PROVE OldKeptOut'
  BY <1>2, TurnedAwayStep DEF OldKeptOut, AllOld
<1>3. OldKeptOut => \A c \in Client : AllOld(c) => ~HasTux(c) /\ proc[c] # "playing"
  BY DEF OldKeptOut, TurnedAway, Barred, Out, HasTux
<1> QED
  BY <1>1, <1>2, <1>3, SessionTypeCorrect, PTL DEF SessionSpec

(***************************************************************************)
(* Part 5: the server is a lobby.                                          *)
(***************************************************************************)
\* A session that is not listed has no tux: the seated are those with a tux.
LEMMA SeatedHave ==
    /\ TypeOK => Seated = {c \in Client : seat[c] # NoTux}
    /\ TypeOK' => Seated' = {c \in Client : seat'[c] # NoTux}
  BY DEF TypeOK, Seated, Listed, HasTux

\* Handing out the tuxes of an arena: one to a session, and the host has its own.
LEMMA PlacesTaken ==
    ASSUME TypeOK, Agreement
    PROVE  /\ IsFiniteSet(Seated) /\ IsFiniteSet(Host)
           /\ Cardinality(Seated) \in Nat /\ Cardinality(Host) \in Nat
           /\ Cardinality(spaceTux) = Cardinality(Host) + Cardinality(Seated)
<1> DEFINE theirs == {seat[c] : c \in Seated}
           f == [c \in Seated |-> seat[c]]
<1>1. IsFiniteSet(Seated) /\ Cardinality(Seated) \in Nat
  <2>1. Seated \in SUBSET Client
    BY DEF Seated, Listed
  <2>2. IsFiniteSet(Seated)
    BY <2>1, ServerAssumption, FS_Subset
  <2> QED
    BY <2>2, FS_CardinalityType
<1>2. IsFiniteSet(Host) /\ Cardinality(Host) \in Nat
  <2>1. Host = {} \/ Host = {HostTux}
    BY DEF Host
  <2>2. IsFiniteSet({}) /\ IsFiniteSet({HostTux})
    BY FS_EmptySet, FS_Singleton
  <2>3. IsFiniteSet(Host)
    BY <2>1, <2>2
  <2> QED
    BY <2>3, FS_CardinalityType
<1>3. IsFiniteSet(theirs) /\ Cardinality(theirs) = Cardinality(Seated)
  <2>1. f \in Bijection(Seated, theirs)
    <3>1. f \in [Seated -> theirs] /\ \A t \in theirs : \E c \in Seated : f[c] = t
      OBVIOUS
    <3>2. \A c, d \in Seated : f[c] = f[d] => c = d
      BY DEF Agreement, OwnedTuxes
    <3> QED
      BY <3>1, <3>2 DEF Bijection, Injection, Surjection, IsInjective
  <2>2. ExistsBijection(Seated, theirs)
    BY <2>1 DEF ExistsBijection
  <2> QED
    BY <1>1, <2>2, FS_Bijection
<1>4. Host \cap theirs = {}
  <2>1. \A c \in Seated : seat[c] \in 1 .. tuxes
    BY DEF Agreement, SeatsIssued, Seated, Listed
  <2>2. \A t \in Host : t = 0
    BY DEF Host
  <2>3. \A t \in theirs : t # 0
    BY <2>1 DEF TypeOK
  <2> QED
    BY <2>2, <2>3
<1>5. spaceTux = Host \cup theirs
  BY DEF Agreement, OwnedTuxes
<1> HIDE DEF theirs, f
<1>6. Cardinality(Host \cup theirs) = Cardinality(Host) + Cardinality(theirs) - Cardinality(Host \cap theirs)
  BY <1>2, <1>3, FS_Union
<1>7. Cardinality(Host \cap theirs) = 0
  BY <1>4, FS_EmptySet
<1> QED
  BY <1>1, <1>2, <1>3, <1>5, <1>6, <1>7

\* What the lobby sees of the server depends on nothing but the tuxes of the sessions.
LEMMA LobbyStutters ==
    ASSUME TypeOK, TypeOK', UNCHANGED <<seat, tuxes>>
    PROVE  UNCHANGED Room!vars
<1>1. Seated' = Seated
  BY SeatedHave DEF NoTux
<1> QED
  BY <1>1 DEF Room!vars

\* A "hello" that is taken in is a player that joins: a place is left, nobody plays
\* from its port, and its tux is a new one.
LEMMA LobbyJoin ==
    ASSUME TypeOK, Agreement, TypeOK', NEW c \in Client, Accept(c)
    PROVE  Room!Join(c)
<1>1. /\ seat' = [seat EXCEPT ![c] = tuxes + 1] /\ tuxes' = tuxes + 1
      /\ c \in Listed /\ ~HasTux(c) /\ ~Full
  BY DEF Accept, TakeLine
<1>2. seat \in [Client -> Tux \cup {NoTux}] /\ tuxes \in Nat
  BY DEF TypeOK
<1>3. c \notin Seated
  BY <1>1 DEF Seated
<1>4. Seated' = Seated \cup {c}
  <2>1. Seated = {d \in Client : seat[d] # NoTux} /\ Seated' = {d \in Client : seat'[d] # NoTux}
    BY SeatedHave DEF NoTux
  <2>2. tuxes + 1 # NoTux
    BY <1>2 DEF NoTux
  <2> QED
    BY <1>1, <1>2, <2>1, <2>2
<1>5. \A d \in Seated : Port[d] # Port[c]
  BY <1>1, <1>3 DEF Agreement, OneSessionPerPort, Seated
<1>6. Cardinality(Seated) < MaxClients - Cardinality(Host)
  BY <1>1, PlacesTaken, ServerAssumption DEF Full
<1>7. [d \in Seated' |-> seat'[d]] =
        [d \in Seated \cup {c} |-> IF d = c THEN tuxes + 1 ELSE seat[d]]
  <2>1. \A d \in Seated \cup {c} : d \in Client /\ seat'[d] = IF d = c THEN tuxes + 1 ELSE seat[d]
    BY <1>1, <1>2 DEF Seated, Listed
  <2> QED
    BY <1>4, <2>1
<1>10. \A S : Room!Cardinality(S) = Cardinality(S)
  BY DEF Room!Cardinality, Cardinality
<1> DEFINE p == [d \in Seated |-> seat[d]]
<1>8. [d \in Seated \cup {c} |-> IF d = c THEN tuxes + 1 ELSE p[d]] =
        [d \in Seated \cup {c} |-> IF d = c THEN tuxes + 1 ELSE seat[d]]
  BY <1>3
<1>9. DOMAIN p = Seated
  OBVIOUS
<1> QED
  BY <1>1, <1>3, <1>5, <1>6, <1>7, <1>8, <1>9, <1>10 DEF Room!Join, Room!Present, Room!Places

\* Sessions that are removed are players that leave, or no players at all.
LEMMA LobbyLeave ==
    ASSUME TypeOK, TypeOK', tuxes' = tuxes, NEW gone \in SUBSET Client,
           seat' = [c \in Client |-> IF c \in gone THEN NoTux ELSE seat[c]]
    PROVE  \E some \in SUBSET Room!Present : Room!Leave(some)
<1> DEFINE p == [d \in Seated |-> seat[d]]
<1>1. Seated' = Seated \ gone
  <2>1. Seated = {d \in Client : seat[d] # NoTux} /\ Seated' = {d \in Client : seat'[d] # NoTux}
    BY SeatedHave DEF NoTux
  <2> QED
    BY <2>1
<1>2. DOMAIN p = Seated
  OBVIOUS
<1>3. [d \in Seated' |-> seat'[d]] = [d \in Seated \ (gone \cap Seated) |-> p[d]]
  <2>1. \A d \in Seated \ gone : d \in Client /\ seat'[d] = p[d]
    BY DEF Seated, Listed
  <2>2. Seated \ (gone \cap Seated) = Seated \ gone
    OBVIOUS
  <2> QED
    BY <1>1, <2>1, <2>2
<1>4. Room!Leave(gone \cap Seated)
  BY <1>2, <1>3 DEF Room!Leave, Room!Present
<1>5. gone \cap Seated \in SUBSET Room!Present
  BY <1>2 DEF Room!Present
<1> QED
  BY <1>4, <1>5 DEF Room!Leave, Room!Present

\* Every step of the server is a step of the lobby, or none of its business.
LEMMA LobbyStep ==
    ASSUME TypeOK, Agreement, TypeOK', [Next]_vars
    PROVE  [Room!Next]_(Room!vars)
<1>1. CASE UNCHANGED <<seat, tuxes>>
  BY <1>1, LobbyStutters
<1>2. ASSUME NEW c \in Client, Accept(c) PROVE Room!Next
  BY <1>2, LobbyJoin DEF Room!Next
<1>3. ASSUME NEW a \in Client, NEW st, NEW box, SessionsAt(a) = {}, Opened(a, st, box)
      PROVE  UNCHANGED <<seat, tuxes>>
  <2>1. a \notin Listed
    BY <1>3 DEF SessionsAt
  <2>2. seat[a] = NoTux /\ seat \in [Client -> Tux \cup {NoTux}]
    BY <2>1 DEF TypeOK, Listed
  <2> QED
    BY <1>3, <2>2 DEF Opened
<1>4. ASSUME NEW gone \in SUBSET Client, tuxes' = tuxes,
             seat' = [c \in Client |-> IF c \in gone THEN NoTux ELSE seat[c]]
      PROVE  Room!Next
  BY <1>4, LobbyLeave DEF Room!Next
<1>5. CASE DelZombieClient
  <2>1. Gone \in SUBSET Client
    BY DEF Gone, Listed
  <2> QED
    BY <1>4, <1>5, <2>1 DEF DelZombieClient
<1>6. CASE ServerQuit
  <2>1. seat' = [c \in Client |-> IF c \in Client THEN NoTux ELSE seat[c]]
    BY <1>6 DEF ServerQuit
  <2> QED
    BY <1>4, <1>6, <2>1 DEF ServerQuit
<1>7. \/ UNCHANGED <<seat, tuxes>>
      \/ \E c \in Client : Accept(c)
      \/ \E a \in Client : ReadFails(a) \/ \E m \in Cmd : Read(a, m)
      \/ DelZombieClient \/ ServerQuit
  BY DEF Next, vars, sessionVars, Handle, BadCommand, RecvStatus, Refuse, Play, RecvCheck, RecvEnd,
         Flush, FlushFails, Flushing, Timer, PeriodicSync, PingClients, BeginWork, EndTurn, Tick, Outside
<1>8. ASSUME NEW a \in Client, ReadFails(a) \/ \E m \in Cmd : Read(a, m)
      PROVE  UNCHANGED <<seat, tuxes>>
  BY <1>3, <1>8 DEF ReadFails, Read, ReadKnown, ReadNew
<1> QED
  BY <1>1, <1>2, <1>5, <1>6, <1>7, <1>8

\* The server keeps what a lobby promises its players (base/server.c, base/proto.c): the
\* places are never overbooked, a port has one player, every player's tux is new and its
\* own, and stays with it until it leaves.
THEOREM ServerKeepsLobby == Spec => KeepsLobby
<1>1. Init => Room!Init
  <2>1. Init => Seated = {}
    BY DEF Init, Seated, HasTux, Listed
  <2> QED
    BY <2>1 DEF Init, Room!Init
<1>2. Init => TypeOK /\ Agreement
  BY TypeInit, AgreementInit
<1>3. TypeOK /\ Agreement /\ [Next]_vars => TypeOK' /\ Agreement'
  BY TypeStep, AgreementStep
<1>4. TypeOK /\ Agreement /\ [Next]_vars => [Room!Next]_(Room!vars)
  BY <1>3, LobbyStep
<1> QED
  BY <1>1, <1>2, <1>3, <1>4, PTL DEF Spec, KeepsLobby, Room!Spec

\* So it does among the processes of module Session, over a network that loses, delays
\* and reorders what they say.
THEOREM SessionKeepsLobby == SessionSpec => KeepsLobby
  BY SessionServes, ServerKeepsLobby

(***************************************************************************)
(* Part 6: who has left fades, and who was dropped cannot slip in again.   *)
(***************************************************************************)
\* No other process shares its port.
Alone(c) == \A d \in Client : Port[d] = Port[c] => d = c

\* What reaches the session of such a process is its own, and a read changes nothing
\* but its inbox, also when it opens the session.
LEMMA ReadAlone ==
    ASSUME TypeOK, NEW a \in Client, NEW m \in Cmd, Read(a, m) \/ ReadFails(a),
           NEW c \in Client, Alone(c)
    PROVE  /\ seat'[c] = seat[c] /\ outbox'[c] = outbox[c] /\ WritesNothing
           /\ c \in Listed => silent'[c] = silent[c]
           /\ inbox'[c] = inbox[c] \/ (a = c /\ inbox'[c] = Append(inbox[c], m))
           /\ a # c /\ c \in Listed' => c \in Listed
<1>0. /\ status \in [Client -> {"none", "ok", "zombie"}] /\ seat \in [Client -> Tux \cup {NoTux}]
      /\ silent \in [Client -> 0 .. MaxSilent] /\ inbox \in [Client -> Seq(Cmd)]
      /\ outbox \in [Client -> SUBSET Kind]
      /\ status[c] = "none" => seat[c] = NoTux /\ inbox[c] = <<>> /\ outbox[c] = {}
  BY DEF TypeOK
<1>1. WritesNothing
  BY DEF Read, ReadFails
<1>2. ASSUME NEW st, NEW box, Opened(a, st, box), SessionsAt(a) = {}, box = <<>> \/ box = <<m>>
      PROVE  /\ seat'[c] = seat[c] /\ outbox'[c] = outbox[c]
             /\ c \in Listed => silent'[c] = silent[c]
             /\ inbox'[c] = inbox[c] \/ (a = c /\ inbox'[c] = Append(inbox[c], m))
             /\ a # c /\ c \in Listed' => c \in Listed
  <2>1. CASE a # c
    BY <1>0, <1>2, <2>1 DEF Opened, Listed
  <2>2. CASE a = c
    <3>1. status[c] = "none"
      BY <1>0, <1>2, <2>2 DEF SessionsAt, Listed
    <3>2. Append(<<>>, m) = <<m>>
      OBVIOUS
    <3>3. seat'[c] = NoTux /\ outbox'[c] = {} /\ inbox'[c] = box
      BY <1>0, <1>2, <2>2 DEF Opened
    <3> QED
      BY <1>0, <1>2, <2>2, <3>1, <3>2, <3>3 DEF Listed
  <2> QED
    BY <2>1, <2>2
<1>3. CASE ReadNew(a, m)
  BY <1>1, <1>2, <1>3 DEF ReadNew
<1>4. CASE ReadKnown(a, m)
  <2>1. PICK d \in SessionsAt(a) :
          inbox' = [inbox EXCEPT ![d] = Append(@, m)] /\ UNCHANGED <<status, seat, silent, outbox>>
    BY <1>4 DEF ReadKnown
  <2>2. d = c => a = c
    BY <2>1 DEF SessionsAt, Alone
  <2> QED
    BY <1>0, <1>1, <2>1, <2>2 DEF Listed
<1>5. CASE ReadFails(a)
  <2>1. CASE SessionsAt(a) = {} /\ Opened(a, "zombie", <<>>)
    BY <1>1, <1>2, <2>1
  <2>2. ASSUME NEW d \in SessionsAt(a), status' = [status EXCEPT ![d] = "zombie"],
               UNCHANGED <<seat, silent, inbox, outbox>>
        PROVE  c \in Listed' => c \in Listed
    BY <1>0, <2>2 DEF SessionsAt, Listed
  <2> QED
    BY <1>1, <1>5, <2>1, <2>2 DEF ReadFails
<1> QED
  BY <1>3, <1>4, <1>5 DEF Read

\* A line of one session leaves the others listed as they were, with their inboxes,
\* their tuxes and their silence.
LEMMA HandleApart ==
    ASSUME TypeOK, NEW d \in Client, Handle(d), NEW c \in Client
    PROVE  /\ c \in Listed' => c \in Listed
           /\ c # d => seat'[c] = seat[c] /\ inbox'[c] = inbox[c] /\ silent'[c] = silent[c]
           /\ c = d => inbox[c] # <<>> /\ inbox'[c] = Tail(inbox[c])
<1>0. /\ status \in [Client -> {"none", "ok", "zombie"}] /\ seat \in [Client -> Tux \cup {NoTux}]
      /\ silent \in [Client -> 0 .. MaxSilent] /\ inbox \in [Client -> Seq(Cmd)]
  BY DEF TypeOK
<1>1. PICK m \in Cmd : TakeLine(d, m)
  BY DEF Handle, BadCommand, Refuse, RecvStatus, Accept, Play, RecvCheck, RecvEnd, Cmd
<1>2. d \in Listed /\ inbox[d] # <<>> /\ inbox' = [inbox EXCEPT ![d] = Tail(@)]
  BY <1>1 DEF TakeLine
<1>3. silent' = silent \/ Refresh(d)
  BY DEF Handle, BadCommand, Refuse, RecvStatus, Accept, Play, RecvCheck, RecvEnd
<1>4. seat' = seat \/ seat' = [seat EXCEPT ![d] = tuxes + 1]
  BY DEF Handle, BadCommand, Refuse, RecvStatus, Accept, Play, RecvCheck, RecvEnd
<1>5. status' = status \/ status' = [status EXCEPT ![d] = "zombie"]
  BY DEF Handle, BadCommand, Refuse, RecvStatus, Accept, Play, RecvCheck, RecvEnd
<1>6. c \in Listed' => c \in Listed
  BY <1>0, <1>2, <1>5 DEF Listed
<1> QED
  BY <1>0, <1>2, <1>3, <1>4, <1>6 DEF Refresh

\* The rest of the server adds nothing to an inbox, gives nobody a tux and refreshes nobody.
LEMMA RestApart ==
    ASSUME TypeOK, NEW c \in Client,
           \/ \E d \in Client : Flush(d) \/ FlushFails(d)
           \/ Timer \/ BeginWork \/ EndTurn \/ ServerQuit \/ Tick \/ Outside
    PROVE  /\ UNCHANGED inbox
           /\ seat[c] = NoTux => seat'[c] = NoTux
           /\ c \in Listed' => c \in Listed /\ silent[c] <= silent'[c]
<1>0. /\ status \in [Client -> {"none", "ok", "zombie"}] /\ silent \in [Client -> 0 .. MaxSilent]
      /\ MaxSilent \in Nat
  BY ServerAssumption DEF TypeOK, MaxSilent
<1>1. CASE \E d \in Client : Flush(d) \/ FlushFails(d)
  BY <1>0, <1>1 DEF Flush, FlushFails, Flushing, Listed
<1>2. CASE DelZombieClient
  BY <1>0, <1>2 DEF DelZombieClient, Listed
<1>3. CASE PeriodicSync \/ PingClients \/ BeginWork \/ EndTurn \/ Outside
  BY <1>0, <1>3 DEF PeriodicSync, PingClients, BeginWork, EndTurn, Outside, sessionVars, Listed
<1>4. CASE ServerQuit
  BY <1>0, <1>4 DEF ServerQuit, Listed
<1>5. CASE Tick
  BY <1>0, <1>5 DEF Tick, Listed
<1> QED
  BY <1>1, <1>2, <1>3, <1>4, <1>5 DEF Timer

\* What a process has still to say, on its way or unread: a datagram that is read
\* counts once more when its line is worked off.
ToCome(c) == 2 * Cardinality(up[c]) + Len(inbox[c])

Fades(c) ==
    /\ proc'[c] = "over"
    /\ ToCome(c)' <= ToCome(c)
    /\ c \in Listed' /\ (c \notin Listed \/ silent'[c] < silent[c]) => ToCome(c)' < ToCome(c)

\* How many datagrams are on their way is a number, and one less when one is taken.
LEMMA OneLess ==
    ASSUME SessionTypeOK, NEW c \in Client
    PROVE  /\ Cardinality(up[c]) \in Nat
           /\ \A m \in up[c] : Cardinality(up[c] \ {m}) = Cardinality(up[c]) - 1
<1>1. IsFiniteSet(Cmd)
  <2>1. Cmd = ((((({} \cup {"status"}) \cup {"hello"}) \cup {"oldhello"}) \cup {"play"}) \cup {"check"}) \cup {"end"}
    BY DEF Cmd
  <2>2. \A S, x : IsFiniteSet(S) => IsFiniteSet(S \cup {x})
    BY FS_AddElement
  <2> QED
    BY <2>1, <2>2, FS_EmptySet
<1>2. IsFiniteSet(up[c])
  BY <1>1, FS_Subset DEF SessionTypeOK
<1> QED
  BY <1>2, FS_CardinalityType, FS_RemoveElement

\* One step after a process is over.
LEMMA FadesStep ==
    ASSUME SessionTypeOK, [SessionNext]_allVars, NEW c \in Client, Alone(c), proc[c] = "over"
    PROVE  Fades(c)
<1>0. /\ TypeOK /\ up \in [Client -> SUBSET Cmd]
      /\ proc \in [Client -> {"off", "joining", "playing", "over"}]
      /\ silent[c] \in Int /\ inbox[c] \in Seq(Cmd) /\ Len(inbox[c]) \in Nat
      /\ Cardinality(up[c]) \in Nat
  <2>1. /\ TypeOK /\ up \in [Client -> SUBSET Cmd]
        /\ proc \in [Client -> {"off", "joining", "playing", "over"}]
    BY DEF SessionTypeOK
  <2>2. silent \in [Client -> 0 .. MaxSilent] /\ inbox \in [Client -> Seq(Cmd)]
    BY <2>1 DEF TypeOK
  <2>3. inbox[c] \in Seq(Cmd) /\ Len(inbox[c]) \in Nat
    BY <2>2
  <2> QED
    BY <2>1, <2>2, <2>3, OneLess
<1> DEFINE Calm == c \in Listed' => c \in Listed /\ silent[c] <= silent'[c]
<1>1. ASSUME proc'[c] = proc[c], up'[c] = up[c], inbox'[c] = inbox[c], silent'[c] \in Int, Calm PROVE Fades(c)
  BY <1>0, <1>1 DEF Fades, ToCome
<1>2. silent'[c] \in Int
  <2>1. TypeOK'
    BY SessionTypeStep DEF SessionTypeOK
  <2>2. silent' \in [Client -> 0 .. MaxSilent]
    BY <2>1 DEF TypeOK
  <2> QED
    BY <2>2
<1>3. ASSUME UNCHANGED inbox, Calm, UNCHANGED proc, UNCHANGED up PROVE Fades(c)
  BY <1>1, <1>2, <1>3
<1>4. ASSUME Outside PROVE UNCHANGED inbox /\ Calm
  BY <1>0, <1>4, RestApart
<1>5. ASSUME NEW d \in Client, Process(d) PROVE Fades(c)
  <2>1. Outside /\ d # c
    BY <1>0, <1>5 DEF Process, ClientInit, ClientPing, ClientHears, ClientRecvInit, ClientRecvEnd,
                      ClientGivesUp, ClientQuits, ClientDies, Alive
  <2>2. proc'[c] = proc[c] /\ up'[c] = up[c]
    BY <1>0, <1>5, <2>1 DEF Process, ClientInit, ClientPing, ClientHears, ClientRecvInit, ClientRecvEnd,
                      ClientGivesUp, ClientQuits, ClientDies, GoesOver
  <2> QED
    BY <1>1, <1>2, <1>4, <2>1, <2>2
<1>6. ASSUME NEW d \in Client, Network(d) PROVE Fades(c)
  <2>1. ASSUME NEW m \in up[d], Arrive(d, m) PROVE Fades(c)
    <3>1. m \in Cmd /\ (Read(d, m) \/ ReadFails(d)) /\ UNCHANGED proc /\ up' = [up EXCEPT ![d] = @ \ {m}]
      BY <1>0, <2>1 DEF Arrive
    <3>2. /\ c \in Listed => silent'[c] = silent[c]
          /\ inbox'[c] = inbox[c] \/ (d = c /\ inbox'[c] = Append(inbox[c], m))
          /\ d # c /\ c \in Listed' => c \in Listed
      BY <1>0, <3>1, ReadAlone
    <3>3. CASE d # c
      BY <1>0, <1>1, <1>2, <3>1, <3>2, <3>3
    <3>4. CASE d = c
      <4>1. up'[c] = up[c] \ {m} /\ m \in up[c]
        BY <1>0, <2>1, <3>1, <3>4
      <4>2. Cardinality(up'[c]) = Cardinality(up[c]) - 1
        BY <4>1, OneLess
      <4>3. Len(inbox'[c]) = Len(inbox[c]) \/ Len(inbox'[c]) = Len(inbox[c]) + 1
        BY <1>0, <3>1, <3>2
      <4> QED
        BY <1>0, <3>1, <4>2, <4>3 DEF Fades, ToCome
    <3> QED
      BY <3>3, <3>4
  <2>2. ASSUME NEW m \in up[d], LoseUp(d, m) PROVE Fades(c)
    <3>1. UNCHANGED inbox /\ Calm /\ UNCHANGED proc /\ up' = [up EXCEPT ![d] = @ \ {m}]
      BY <1>4, <2>2 DEF LoseUp
    <3>2. CASE d # c
      BY <1>0, <1>1, <1>2, <3>1, <3>2
    <3>3. CASE d = c
      <4>1. up'[c] = up[c] \ {m} /\ m \in up[c]
        BY <1>0, <2>2, <3>1, <3>3
      <4>2. Cardinality(up'[c]) = Cardinality(up[c]) - 1
        BY <4>1, OneLess
      <4> QED
        BY <1>0, <3>1, <4>2 DEF Fades, ToCome
    <3> QED
      BY <3>2, <3>3
  <2>3. ASSUME NEW k \in down[d], LoseDown(d, k) PROVE Fades(c)
    BY <1>3, <1>4, <2>3 DEF LoseDown
  <2> QED
    BY <1>6, <2>1, <2>2, <2>3 DEF Network
<1>7. ASSUME NEW d \in Client, Carried, Handle(d) PROVE Fades(c)
  <2>1. /\ UNCHANGED <<proc, up>>
        /\ c \in Listed' => c \in Listed
        /\ c # d => inbox'[c] = inbox[c] /\ silent'[c] = silent[c]
        /\ c = d => inbox[c] # <<>> /\ inbox'[c] = Tail(inbox[c])
    BY <1>0, <1>7, HandleApart DEF Carried
  <2>2. CASE c # d
    BY <1>0, <1>1, <1>2, <2>1, <2>2
  <2>3. CASE c = d
    <3>1. \A box \in Seq(Cmd) : box # <<>> => Len(Tail(box)) = Len(box) - 1
      OBVIOUS
    <3>2. Len(inbox'[c]) = Len(inbox[c]) - 1
      BY <1>0, <2>1, <2>3, <3>1
    <3> QED
      BY <1>0, <2>1, <3>2 DEF Fades, ToCome
  <2> QED
    BY <2>2, <2>3
<1>8. CASE Carried /\ Rest
  BY <1>0, <1>3, <1>8, RestApart DEF Rest, Carried
<1>10. CASE TimePasses
  BY <1>0, <1>3, <1>10, RestApart DEF TimePasses
<1>11. CASE UNCHANGED allVars
  <2>1. UNCHANGED <<inbox, silent, status, proc, up>>
    BY <1>11 DEF allVars, vars, sessionVars, processVars
  <2> QED
    BY <1>0, <1>3, <2>1 DEF Listed
<1> QED
  BY <1>5, <1>6, <1>7, <1>8, <1>10, <1>11, SessionParts

\* A process that is over stays over and says nothing more.  Whatever refreshes its
\* session or opens another one uses up a datagram or a line it left behind, of which
\* there are only so many; else the session gets more silent with every tick until it is down,
\* and delZombieCLient removes whoever is down.  That the server's turns and the clock go on is fairness;
\* with it this is DepartedLeave.
THEOREM DepartedFade ==
    SessionSpec => [][\A c \in Client : Alone(c) /\ proc[c] = "over" =>
                        /\ Fades(c)
                        /\ Tick /\ c \in Listed => IsDown(c) \/ silent'[c] = silent[c] + 1
                        /\ DelZombieClient /\ IsDown(c) => c \notin Listed']_allVars
<1> DEFINE Step == \A c \in Client : Alone(c) /\ proc[c] = "over" =>
                        /\ Fades(c)
                        /\ Tick /\ c \in Listed => IsDown(c) \/ silent'[c] = silent[c] + 1
                        /\ DelZombieClient /\ IsDown(c) => c \notin Listed'
<1>1. ASSUME SessionTypeOK, [SessionNext]_allVars PROVE Step
  <2>1. ASSUME NEW c \in Client, Tick, c \in Listed PROVE IsDown(c) \/ silent'[c] = silent[c] + 1
    BY <1>1, <2>1, ServerAssumption DEF Tick, IsDown, MaxSilent, SessionTypeOK, TypeOK
  <2>2. ASSUME NEW c \in Client, DelZombieClient, IsDown(c) PROVE c \notin Listed'
    BY <1>1, <2>2 DEF DelZombieClient, Gone, Listed, SessionTypeOK, TypeOK
  <2> QED
    BY <1>1, <2>1, <2>2, FadesStep
<1> QED
  BY <1>1, SessionTypeCorrect, PTL DEF SessionSpec

\* What a process has said that its session has not dealt with yet.
Unread(c) == {inbox[c][i] : i \in DOMAIN inbox[c]}
Said(c) == up[c] \cup Unread(c)

\* A process says "hello" once, and that one is in one place; until it is dealt with
\* there is no tux and no "init".  "status" it never says.
Greets(c) ==
    /\ "status" \notin Said(c)
    /\ c \notin OldClient => "oldhello" \notin Said(c)
    /\ proc[c] = "off" => "hello" \notin Said(c)
    /\ proc[c] = "off" \/ "hello" \in Said(c) =>
         Out(c) /\ "init" \notin down[c] /\ proc[c] # "playing"
    /\ "hello" \in up[c] => "hello" \notin Unread(c)
    /\ \A i, j \in DOMAIN inbox[c] : inbox[c][i] = "hello" /\ inbox[c][j] = "hello" => i = j

\* Taking a line from an inbox.
LEMMA UnreadTail ==
    ASSUME TypeOK, NEW c \in Client, inbox[c] # <<>>, inbox'[c] = Tail(inbox[c])
    PROVE  /\ Unread(c)' \subseteq Unread(c)
           /\ Head(inbox[c]) \in Unread(c)
           /\ \A i \in DOMAIN inbox'[c] : /\ i \in Nat /\ i > 0
                                          /\ 1 \in DOMAIN inbox[c] /\ i + 1 \in DOMAIN inbox[c]
                                          /\ inbox'[c][i] = inbox[c][i + 1]
                                          /\ Head(inbox[c]) = inbox[c][1]
<1>1. inbox[c] \in Seq(Cmd)
  BY DEF TypeOK
<1>2. ASSUME NEW i \in DOMAIN inbox'[c]
      PROVE  i \in Nat /\ i > 0 /\ i + 1 \in DOMAIN inbox[c] /\ inbox'[c][i] = inbox[c][i + 1]
  BY <1>1, <1>2
<1>3. 1 \in DOMAIN inbox[c] /\ Head(inbox[c]) = inbox[c][1]
  BY <1>1
<1> QED
  BY <1>2, <1>3 DEF Unread

\* Putting a line into it.
LEMMA UnreadAppend ==
    ASSUME TypeOK, NEW c \in Client, NEW m \in Cmd, inbox'[c] = Append(inbox[c], m)
    PROVE  /\ Unread(c)' = Unread(c) \cup {m}
           /\ \A i \in DOMAIN inbox'[c] :
                \/ i \in DOMAIN inbox[c] /\ inbox'[c][i] = inbox[c][i]
                \/ i = Len(inbox[c]) + 1 /\ inbox'[c][i] = m
<1>1. inbox[c] \in Seq(Cmd)
  BY DEF TypeOK
<1>2. \A i \in DOMAIN inbox'[c] :
        \/ i \in DOMAIN inbox[c] /\ inbox'[c][i] = inbox[c][i]
        \/ i = Len(inbox[c]) + 1 /\ inbox'[c][i] = m
  BY <1>1
<1>3. \A i \in DOMAIN inbox[c] : i \in DOMAIN inbox'[c] /\ inbox'[c][i] = inbox[c][i]
  BY <1>1
<1>4. Len(inbox[c]) + 1 \in DOMAIN inbox'[c] /\ inbox'[c][Len(inbox[c]) + 1] = m
  BY <1>1
<1> QED
  BY <1>2, <1>3, <1>4 DEF Unread

\* A step of the network, of the process, or of the server for others.
LEMMA GreetsMild ==
    ASSUME NEW c \in Client, Greets(c), inbox'[c] = inbox[c], Out(c) => Out(c)',
           up'[c] \cap {"hello", "oldhello", "status"} \subseteq up[c],
           proc[c] = "off" \/ "hello" \in Said(c) => "init" \notin down'[c],
           proc'[c] = "off" => proc[c] = "off",
           proc'[c] = "playing" => proc[c] = "playing" \/ "init" \in down[c]
    PROVE  Greets(c)'
<1>1. Unread(c)' = Unread(c)
  BY DEF Unread
<1>2. Said(c)' \cap {"hello", "oldhello", "status"} \subseteq Said(c)
  BY <1>1 DEF Said
<1>3. proc'[c] = "off" \/ "hello" \in Said(c)' => proc[c] = "off" \/ "hello" \in Said(c)
  BY <1>2
<1>4. "hello" \in up'[c] => "hello" \in up[c]
  OBVIOUS
<1> QED
  BY <1>1, <1>2, <1>3, <1>4 DEF Greets

\* The process of the session.
LEMMA GreetsProcess ==
    ASSUME SessionTypeOK, NEW c \in Client, Greets(c), NEW d \in Client, Process(d)
    PROVE  Greets(c)'
<1>0. /\ up \in [Client -> SUBSET Cmd] /\ down \in [Client -> SUBSET Kind]
      /\ proc \in [Client -> {"off", "joining", "playing", "over"}]
  BY DEF SessionTypeOK
<1>1. Outside
  BY DEF Process, ClientInit, ClientPing, ClientHears, ClientRecvInit, ClientRecvEnd, ClientGivesUp,
         ClientQuits, ClientDies
<1>2. inbox'[c] = inbox[c] /\ (Out(c) => Out(c)')
  BY <1>1 DEF Outside, sessionVars, Out
<1>3. down'[c] \subseteq down[c]
  BY <1>0 DEF Process, ClientInit, ClientPing, ClientHears, ClientRecvInit, ClientRecvEnd, ClientGivesUp,
              ClientQuits, ClientDies
<1>4. proc[c] = "off" \/ "hello" \in Said(c) => "init" \notin down'[c]
  BY <1>3 DEF Greets
<1>5. CASE d = c /\ ClientInit(c)
  <2>1. proc[c] = "off" /\ proc'[c] = "joining"
    BY <1>0, <1>5 DEF ClientInit
  <2>2. up'[c] = up[c] \cup {IF c \in OldClient THEN "oldhello" ELSE "hello"}
    BY <1>0, <1>5 DEF ClientInit
  <2>3. Unread(c)' = Unread(c)
    BY <1>2 DEF Unread
  <2>4. "hello" \notin Said(c) /\ "status" \notin Said(c)
        /\ (c \notin OldClient => "oldhello" \notin Said(c))
        /\ Out(c)' /\ "init" \notin down'[c]
    BY <1>2, <1>4, <2>1 DEF Greets
  <2>5. "hello" \notin Unread(c)' /\ "status" \notin Said(c)'
        /\ (c \notin OldClient => "oldhello" \notin Said(c)')
    BY <2>2, <2>3, <2>4 DEF Said
  <2>6. \A i, j \in DOMAIN inbox'[c] : inbox'[c][i] = "hello" /\ inbox'[c][j] = "hello" => i = j
    BY <1>2 DEF Greets
  <2> QED
    BY <2>1, <2>4, <2>5, <2>6 DEF Greets
<1>6. CASE ~(d = c /\ ClientInit(c))
  <2>1. up'[c] \subseteq up[c] \cup {"play", "check", "end"}
    BY <1>0, <1>6 DEF Process, ClientInit, ClientPing, ClientHears, ClientRecvInit, ClientRecvEnd,
                      ClientGivesUp, ClientQuits, ClientDies, GoesOver
  <2>2. proc'[c] = "off" => proc[c] = "off"
    BY <1>0, <1>6 DEF Process, ClientInit, ClientPing, ClientHears, ClientRecvInit, ClientRecvEnd,
                      ClientGivesUp, ClientQuits, ClientDies, GoesOver
  <2>3. proc'[c] = "playing" => proc[c] = "playing" \/ "init" \in down[c]
    BY <1>0, <1>6 DEF Process, ClientInit, ClientPing, ClientHears, ClientRecvInit, ClientRecvEnd,
                      ClientGivesUp, ClientQuits, ClientDies, GoesOver
  <2> QED
    BY <1>2, <1>4, <2>1, <2>2, <2>3, GreetsMild
<1> QED
  BY <1>5, <1>6

\* The network.
LEMMA GreetsNetwork ==
    ASSUME SessionTypeOK, NEW c \in Client, Alone(c), Greets(c), NEW d \in Client, Network(d)
    PROVE  Greets(c)'
<1>0. TypeOK /\ up \in [Client -> SUBSET Cmd] /\ down \in [Client -> SUBSET Kind]
  BY DEF SessionTypeOK
<1>1. ASSUME NEW m \in up[d], Arrive(d, m) PROVE Greets(c)'
  <2>1. /\ m \in Cmd /\ (Read(d, m) \/ ReadFails(d))
        /\ UNCHANGED <<proc, down>> /\ up' = [up EXCEPT ![d] = @ \ {m}]
    BY <1>0, <1>1 DEF Arrive
  <2>2. /\ seat'[c] = seat[c] /\ outbox'[c] = outbox[c]
        /\ inbox'[c] = inbox[c] \/ (d = c /\ inbox'[c] = Append(inbox[c], m))
    BY <1>0, <2>1, ReadAlone
  <2>3. Out(c) => Out(c)'
    BY <2>2 DEF Out
  <2>4. CASE inbox'[c] = inbox[c]
    <3>1. up'[c] \subseteq up[c]
      BY <1>0, <2>1
    <3>2. proc[c] = "off" \/ "hello" \in Said(c) => "init" \notin down'[c]
      BY <2>1 DEF Greets
    <3> QED
      BY <2>1, <2>3, <2>4, <3>1, <3>2, GreetsMild
  <2>5. CASE d = c /\ inbox'[c] = Append(inbox[c], m)
    <3>1. up'[c] = up[c] \ {m} /\ m \in up[c]
      BY <1>0, <1>1, <2>1, <2>5
    <3>2. /\ Unread(c)' = Unread(c) \cup {m}
          /\ \A i \in DOMAIN inbox'[c] :
               \/ i \in DOMAIN inbox[c] /\ inbox'[c][i] = inbox[c][i]
               \/ i = Len(inbox[c]) + 1 /\ inbox'[c][i] = m
      BY <1>0, <2>1, <2>5, UnreadAppend
    <3>3. Said(c)' = Said(c)
      BY <3>1, <3>2 DEF Said
    <3>4. "hello" \in up'[c] => "hello" \notin Unread(c)'
      BY <3>1, <3>2 DEF Greets
    <3>5. ASSUME NEW i \in DOMAIN inbox'[c], NEW j \in DOMAIN inbox'[c],
                 inbox'[c][i] = "hello", inbox'[c][j] = "hello"
          PROVE  i = j
      <4>1. CASE m = "hello"
        <5>1. "hello" \notin Unread(c)
          BY <3>1, <4>1 DEF Greets
        <5> QED
          BY <3>2, <3>5, <5>1 DEF Unread
      <4>2. CASE m # "hello"
        BY <3>2, <3>5, <4>2 DEF Greets
      <4> QED
        BY <4>1, <4>2
    <3> QED
      BY <2>1, <2>3, <3>3, <3>4, <3>5 DEF Greets
  <2> QED
    BY <2>2, <2>4, <2>5
<1>2. ASSUME Outside, UNCHANGED proc, up'[c] \subseteq up[c], down'[c] \subseteq down[c] PROVE Greets(c)'
  <2>1. inbox'[c] = inbox[c] /\ (Out(c) => Out(c)')
    BY <1>2 DEF Outside, sessionVars, Out
  <2>2. proc[c] = "off" \/ "hello" \in Said(c) => "init" \notin down'[c]
    BY <1>2 DEF Greets
  <2> QED
    BY <1>2, <2>1, <2>2, GreetsMild
<1>3. ASSUME NEW m \in up[d], LoseUp(d, m) PROVE Greets(c)'
  BY <1>0, <1>2, <1>3 DEF LoseUp
<1>4. ASSUME NEW k \in down[d], LoseDown(d, k) PROVE Greets(c)'
  BY <1>0, <1>2, <1>4 DEF LoseDown
<1> QED
  BY <1>1, <1>3, <1>4 DEF Network

\* The server: when it accepts the "hello" there is no other.
LEMMA GreetsServed ==
    ASSUME SessionTypeOK, NEW c \in Client, Greets(c), Carried,
           \/ \E d \in Client : Handle(d) \/ Flush(d) \/ FlushFails(d)
           \/ Timer \/ BeginWork \/ EndTurn \/ ServerQuit
    PROVE  Greets(c)'
<1>0. /\ TypeOK /\ up'[c] = up[c] /\ proc'[c] = proc[c]
      /\ down'[c] = down[c] \cup written'[c]
  BY DEF SessionTypeOK, Carried
<1>1. ASSUME inbox'[c] = inbox[c], Out(c) => Out(c)' /\ "init" \notin written'[c] PROVE Greets(c)'
  <2>1. proc[c] = "off" \/ "hello" \in Said(c) => "init" \notin down'[c]
    BY <1>0, <1>1 DEF Greets
  <2> QED
    BY <1>0, <1>1, <2>1, GreetsMild
<1>2. ASSUME NEW d \in Client, Handle(d) PROVE Greets(c)'
  <2>1. CASE c # d
    <3>1. inbox'[c] = inbox[c]
      BY <1>0, <1>2, <2>1, HandleApart
    <3> QED
      BY <1>0, <1>1, <1>2, <2>1, <3>1, OutHandle
  <2>2. CASE c = d
    <3>1. inbox[c] # <<>> /\ inbox'[c] = Tail(inbox[c])
      BY <1>0, <1>2, <2>2, HandleApart
    <3>2. /\ Unread(c)' \subseteq Unread(c) /\ Head(inbox[c]) \in Unread(c)
          /\ \A i \in DOMAIN inbox'[c] : /\ i \in Nat /\ i > 0
                                         /\ 1 \in DOMAIN inbox[c] /\ i + 1 \in DOMAIN inbox[c]
                                         /\ inbox'[c][i] = inbox[c][i + 1]
                                         /\ Head(inbox[c]) = inbox[c][1]
      BY <1>0, <3>1, UnreadTail
    <3>3. Said(c)' \subseteq Said(c)
      BY <1>0, <3>2 DEF Said
    <3>4. ASSUME NEW i \in DOMAIN inbox'[c], NEW j \in DOMAIN inbox'[c],
                 inbox'[c][i] = "hello", inbox'[c][j] = "hello"
          PROVE  i = j
      <4>1. i + 1 = j + 1 /\ i \in Nat /\ j \in Nat
        BY <3>2, <3>4 DEF Greets
      <4> QED
        BY <4>1
    <3>5. proc'[c] = "off" \/ "hello" \in Said(c)' =>
            Out(c)' /\ "init" \notin down'[c] /\ proc'[c] # "playing"
      <4>1. CASE Accept(c)
        <5>1. Head(inbox[c]) = "hello"
          BY <4>1 DEF Accept, TakeLine
        <5>2. "hello" \in Said(c) /\ "hello" \notin up[c] /\ proc[c] # "off"
          BY <3>2, <5>1 DEF Said, Greets
        <5>3. ASSUME NEW i \in DOMAIN inbox'[c] PROVE inbox'[c][i] # "hello"
          <6>1. i \in Nat /\ i > 0 /\ i + 1 # 1
            BY <3>2, <5>3
          <6> QED
            BY <3>2, <5>1, <5>3, <6>1 DEF Greets
        <5>4. "hello" \notin Said(c)'
          BY <1>0, <5>2, <5>3 DEF Said, Unread
        <5> QED
          BY <1>0, <5>2, <5>4
      <4>2. CASE ~Accept(c)
        <5>1. Out(c) => Out(c)' /\ "init" \notin written'[c]
          BY <1>0, <1>2, <2>2, <4>2, OutHandle
        <5> QED
          BY <1>0, <3>3, <5>1 DEF Greets
      <4> QED
        BY <4>1, <4>2
    <3>6. "hello" \in up'[c] => "hello" \notin Unread(c)'
      BY <1>0, <3>2 DEF Greets
    <3> QED
      BY <1>0, <3>3, <3>4, <3>5, <3>6 DEF Greets
  <2> QED
    BY <2>1, <2>2
<1>3. ASSUME \/ \E d \in Client : Flush(d) \/ FlushFails(d)
             \/ Timer \/ BeginWork \/ EndTurn \/ ServerQuit
      PROVE  Greets(c)'
  <2>1. UNCHANGED inbox
    BY <1>0, <1>3, RestApart
  <2> QED
    BY <1>0, <1>1, <1>3, <2>1, OutRest
<1> QED
  BY <1>2, <1>3

\* So it is with every step.
LEMMA GreetsStep ==
    ASSUME SessionTypeOK, [SessionNext]_allVars, NEW c \in Client, Alone(c), Greets(c)
    PROVE  Greets(c)'
<1>1. CASE \E d \in Client : Process(d) \/ Network(d)
  BY <1>1, GreetsProcess, GreetsNetwork
<1>2. CASE Carried /\ ((\E d \in Client : Handle(d)) \/ Rest)
  BY <1>2, GreetsServed DEF Rest
<1>3. CASE TimePasses \/ UNCHANGED allVars
  <2>1. UNCHANGED <<inbox, seat, outbox, proc, up, down>>
    BY <1>3 DEF TimePasses, Tick, allVars, vars, sessionVars, processVars
  <2>2. proc[c] = "off" \/ "hello" \in Said(c) => "init" \notin down'[c]
    BY <2>1 DEF Greets
  <2>3. Out(c) => Out(c)'
    BY <2>1 DEF Out
  <2> QED
    BY <2>1, <2>2, <2>3, GreetsMild
<1> QED
  BY <1>1, <1>2, <1>3, SessionParts

\* A player who was dropped and does not know it yet.
Orphan(c) == proc[c] = "playing" /\ ~HasTux(c)

\* Its "hello" is spent, so nothing it says fits a session without a tux.
LEMMA OrphanHandle ==
    ASSUME SessionTypeOK, OldKeptOut, NEW c \in Client, Alone(c), Greets(c), Orphan(c), Handle(c)
    PROVE  seat'[c] = NoTux /\ silent' = silent
<1>0. TypeOK /\ c \notin OldClient
  <2>1. c \in OldClient => AllOld(c)
    BY DEF AllOld, Alone
  <2> QED
    BY <2>1 DEF SessionTypeOK, OldKeptOut, TurnedAway, Orphan
<1>1. {"hello", "oldhello", "status"} \cap Unread(c) = {}
  BY <1>0 DEF Greets, Orphan, Said
<1>2. ASSUME NEW m, TakeLine(c, m) PROVE m \notin {"hello", "oldhello", "status"}
  <2>1. inbox[c] # <<>> /\ Head(inbox[c]) = m /\ inbox'[c] = Tail(inbox[c])
    BY <1>0, <1>2 DEF TakeLine, TypeOK
  <2>2. m \in Unread(c)
    BY <1>0, <2>1, UnreadTail
  <2> QED
    BY <1>1, <2>2
<1>3. PICK m \in Cmd : BadCommand(c, m)
  BY <1>2 DEF Handle, Refuse, RecvStatus, Accept, Play, RecvCheck, RecvEnd, Orphan
<1> QED
  BY <1>3 DEF BadCommand, Orphan, HasTux

\* One step of an orphan.
LEMMA OrphanStep ==
    ASSUME SessionTypeOK, OldKeptOut, [SessionNext]_allVars, NEW c \in Client, Alone(c), Greets(c),
           Orphan(c)
    PROVE  /\ proc'[c] \in {"playing", "over"} /\ ~HasTux(c)'
           /\ c \in Listed /\ c \in Listed' => silent[c] <= silent'[c]
<1>0. /\ TypeOK /\ up \in [Client -> SUBSET Cmd] /\ seat[c] = NoTux /\ proc[c] = "playing"
      /\ proc \in [Client -> {"off", "joining", "playing", "over"}]
  BY DEF SessionTypeOK, Orphan, HasTux
<1>1. silent[c] \in Int
  BY <1>0, ServerAssumption DEF TypeOK, MaxSilent
<1> DEFINE Kept == seat'[c] = NoTux /\ (c \in Listed /\ c \in Listed' => silent[c] <= silent'[c])
<1>2. ASSUME NEW d \in Client, Process(d) PROVE Kept /\ proc'[c] \in {"playing", "over"}
  <2>1. Outside
    BY <1>2 DEF Process, ClientInit, ClientPing, ClientHears, ClientRecvInit, ClientRecvEnd, ClientGivesUp,
                ClientQuits, ClientDies
  <2>2. Kept
    BY <1>0, <2>1, RestApart
  <2>3. proc'[c] \in {"playing", "over"}
    BY <1>0, <1>2 DEF Process, ClientInit, ClientPing, ClientHears, ClientRecvInit, ClientRecvEnd,
                      ClientGivesUp, ClientQuits, ClientDies, GoesOver
  <2> QED
    BY <2>2, <2>3
<1>3. ASSUME NEW d \in Client, Network(d) PROVE Kept /\ UNCHANGED proc
  <2>1. ASSUME NEW m \in up[d], Arrive(d, m) PROVE Kept /\ UNCHANGED proc
    <3>1. m \in Cmd /\ (Read(d, m) \/ ReadFails(d)) /\ UNCHANGED proc
      BY <1>0, <2>1 DEF Arrive
    <3>2. seat'[c] = seat[c] /\ (c \in Listed => silent'[c] = silent[c])
      BY <1>0, <3>1, ReadAlone
    <3> QED
      BY <1>0, <1>1, <3>1, <3>2
  <2>2. ASSUME Outside PROVE Kept
    BY <1>0, <2>2, RestApart
  <2> QED
    BY <1>3, <2>1, <2>2 DEF Network, LoseUp, LoseDown
<1>4. ASSUME NEW d \in Client, Carried, Handle(d) PROVE Kept /\ UNCHANGED proc
  <2>1. Handle(d) /\ UNCHANGED proc
    BY <1>4 DEF Carried
  <2>2. CASE d = c
    BY <1>0, <1>1, <2>1, <2>2, OrphanHandle
  <2>3. CASE d # c
    BY <1>0, <1>1, <2>1, <2>3, HandleApart
  <2> QED
    BY <2>1, <2>2, <2>3
<1>5. CASE Carried /\ Rest
  <2>1. Kept
    BY <1>0, <1>5, RestApart DEF Rest
  <2> QED
    BY <1>0, <1>5, <2>1 DEF Carried, HasTux
<1>6. CASE TimePasses
  <2>1. Kept /\ UNCHANGED proc
    BY <1>0, <1>6, RestApart DEF TimePasses
  <2> QED
    BY <1>0, <2>1 DEF HasTux
<1>7. CASE UNCHANGED allVars
  BY <1>0, <1>1, <1>7 DEF allVars, vars, sessionVars, processVars, HasTux
<1> QED
  BY <1>0, <1>2, <1>3, <1>4, <1>5, <1>6, <1>7, SessionParts DEF HasTux

\* A player whom the server has dropped does not get in again, whatever of what it once
\* said is still on its way, and however often it pings: its session is never refreshed,
\* so it is down after SERVER_TIMEOUT and is sent "end" again.  That the time passes and an
\* "end" or the silence gets through is fairness; with it this is OrphansEnd.
THEOREM OrphansStayOut ==
    SessionSpec => [][\A c \in Client : Alone(c) /\ proc[c] = "playing" /\ ~HasTux(c) =>
                        /\ proc'[c] \in {"playing", "over"} /\ ~HasTux(c)'
                        /\ c \in Listed /\ c \in Listed' => silent[c] <= silent'[c]]_allVars
<1> DEFINE Step == \A c \in Client : Alone(c) /\ proc[c] = "playing" /\ ~HasTux(c) =>
                        /\ proc'[c] \in {"playing", "over"} /\ ~HasTux(c)'
                        /\ c \in Listed /\ c \in Listed' => silent[c] <= silent'[c]
           AllGreet == \A c \in Client : Alone(c) => Greets(c)
<1>1. SessionInit => OldKeptOut /\ AllGreet
  <2>1. SessionInit => OldKeptOut
    BY DEF SessionInit, Init, OldKeptOut, TurnedAway, Barred, Out
  <2>2. ASSUME SessionInit, NEW c \in Client PROVE Greets(c)
    <3>1. Unread(c) = {} /\ up[c] = {} /\ DOMAIN inbox[c] = {}
      BY <2>2 DEF SessionInit, Init, Unread
    <3> QED
      BY <2>2, <3>1 DEF SessionInit, Init, Greets, Said, Out
  <2> QED
    BY <2>1, <2>2
<1>2. ASSUME SessionTypeOK, OldKeptOut, AllGreet, [SessionNext]_allVars
      PROVE  OldKeptOut' /\ AllGreet' /\ Step
  <2>1. OldKeptOut'
    BY <1>2, TurnedAwayStep DEF OldKeptOut, AllOld
  <2>2. AllGreet'
    BY <1>2, GreetsStep DEF Alone
  <2>3. Step
    BY <1>2, OrphanStep DEF Orphan
  <2> QED
    BY <2>1, <2>2, <2>3
<1> QED
  BY <1>1, <1>2, SessionTypeCorrect, PTL DEF SessionSpec
=============================================================================
