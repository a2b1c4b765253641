--------------------------- MODULE ProgramProofs ----------------------------
(***************************************************************************)
(* Proofs about Program, for every number of servers and every size of the *)
(* file, of its blocks, of the reads and of the buffers: the browser leads *)
(* to the server that was chosen, the list of hot keys holds the entries   *)
(* of the screen and of its open dialogs, and the home directory holds no  *)
(* part of an arena away from the screen that fetches it.                  *)
(*                                                                         *)
(* The first two need the order of a tick and, of the list of hot keys,    *)
(* the whole sequence and not only its elements, since a key is found at   *)
(* its first entry.  The third needs what the client, the connection and   *)
(* the download server hold together: the buffers one after the other are  *)
(* the request, the answer, or a part of the file.                         *)
(***************************************************************************)
EXTENDS Program, FiniteSetTheorems, TLAPS

\* No arena, no game and no dialog while the program is off.
AtRest ==
    phase = "off" => /\ at = "start" /\ screen = "none" /\ future = "mainMenu"
                     /\ hot = [keys |-> <<Entry("F1", "screen")>>, failed |-> FALSE]
                     /\ d = NoDownload /\ world = NoWorld /\ ~overlap

\* The order within a tick.
Ticks ==
    Running => /\ at \in {"event", "recv", "finish", "keys", "stop", "start"}
               /\ at = "event" => future = "none"
               /\ at \in {"recv", "finish"} => screen = "downArena"

Servings == [server : Servers, state : BOOLEAN]

\* Every server has its line.
Matched == DOMAIN lines = DOMAIN list /\ \A i \in DOMAIN list : lines[i] \in {list[i].server, Blank}

\* While the browser is shown.
Listing ==
    Running /\ screen = "browser" /\ at # "start" =>
        /\ list \in Seq(Servings)
        /\ ~lost => Matched
        /\ future = "world" => selected \in DOMAIN list /\ address = list[selected].server

-----------------------------------------------------------------------------
Stream == d.rbuf \o (downstream \o s.sbuf)
Request == s.rbuf \o (upstream \o d.sbuf)

Asking == ~d.file /\ ~s.file /\ s.sent = 0 /\ Stream = <<>> /\ (s.closed \/ Request = <<GetArena, Newline>>)

Refused == ~d.file /\ ~s.file /\ Stream \in {<<>>, <<Error, Newline>>}
Granted == ~d.file /\ s.file /\ Stream = <<Ok, Newline>> \o SubSeq(Content, 1, s.sent)
Unopened == ~d.file /\ s.file /\ \A i \in DOMAIN Stream : Stream[i] # Newline
Opened == d.file /\ s.file /\ d.offset <= s.sent /\ Stream = SubSeq(Content, d.offset + 1, s.sent)

Answered == (s.closed \/ Request = <<>>) /\ (Refused \/ Granted \/ Unopened \/ Opened)

\* What the two ends and the connection between them hold.
Transfer ==
    IF d.conn THEN s.there /\ d.status = "got" /\ (Asking \/ Answered)
    ELSE s = NoClient /\ upstream = <<>> /\ downstream = <<>>

Placed == d.conn => ~known /\ screen = "downArena" /\ at # "start"

Partial == d.file => /\ ~known /\ d.size = Size /\ disk \subseteq {SubSeq(Content, 1, d.offset)}
                     /\ disk # {} => d.status = "got" /\ screen = "downArena" /\ at # "start"

OnDisk ==
    /\ ~d.file => disk \subseteq {Content} /\ (disk # {} => known)
    /\ at \notin {"recv", "finish"} => ~Complete
    /\ screen = "downArena" /\ future = "world" => known

Visits == [status : {"none", "got"}, udp : BOOLEAN, count : Nat, conn : BOOLEAN,
           rbuf : Seq(Int), sbuf : Seq(Int), file : BOOLEAN, size : Nat, offset : 0 .. Size]

Clients == [there : BOOLEAN, rbuf : Seq(Int), sbuf : Seq(Int), file : BOOLEAN, sent : 0 .. Size,
            closed : BOOLEAN]

DownloadTypes == d \in Visits /\ s \in Clients /\ upstream \in Seq(Int) /\ downstream \in Seq(Int)

\* What is left when the program is off is whole only when it is known.
Leftover == phase = "off" => (Content \in disk => known)

Arriving == Leftover /\ (Running => Placed /\ Partial /\ OnDisk)

-----------------------------------------------------------------------------
HotKeys == [key : {"F1", "F2", "F3", "p", "ESC", "RETURN"},
            of : {"screen", "save", "chat", "pause", "split", "world", "yesno", "chatoff"} \cup Menus, on : BOOLEAN]

Screenshot == Entry("F1", "screen")

\* The entries of a game with no dialog; the chat turns two of them off.
Plain(w) ==
    << [key |-> IF w.net = "none" THEN "F2" ELSE "RETURN",
        of |-> IF w.net = "none" THEN "save" ELSE "chat", on |-> ~w.chat],
       [key |-> "p", of |-> "pause", on |-> ~w.chat],
       Entry("F3", "split"), Entry("ESC", "world"), Screenshot >>

\* The save dialog and the chat are opened over the question whether to quit, never below it.
Queried(w) == IF w.yes THEN <<Entry("ESC", "yesno")>> \o Plain(w) ELSE Plain(w)

InPlay(w) ==
    IF w.save THEN <<Entry("ESC", "save")>> \o Queried(w)
    ELSE IF w.chat THEN <<Entry("ESC", "chatoff")>> \o Queried(w) ELSE Queried(w)

Expected ==
    IF screen \in Menus THEN <<Entry("ESC", screen), Screenshot>>
    ELSE IF screen = "world" THEN InPlay(world) ELSE <<Screenshot>>

NoneOpen(w) == ~w.yes /\ ~w.save /\ ~w.chat

Worlds == [net : {"none", "server", "client"}, here : BOOLEAN, over : BOOLEAN,
           yes : BOOLEAN, save : BOOLEAN, chat : BOOLEAN, pause : BOOLEAN]

\* The save dialog belongs to local games, the chat to those of the net.
Dialogs == world \in Worlds /\ (world.save => world.net = "none") /\ (world.chat => world.net # "none")

Keyed ==
    /\ world \in Worlds
    /\ ~overlap =>
       /\ phase \notin {"no key", "freed"} /\ Dialogs
       /\ Running =>
          /\ hot = [keys |-> IF at = "start" THEN <<Screenshot>> ELSE Expected, failed |-> FALSE]
          /\ screen # "world" \/ at = "start" => NoneOpen(world)

-----------------------------------------------------------------------------
(* The tick.                                                                *)

\* Escape leads from a menu to one of three others, never into the game.
LEMMA EscapeLeads ==
  /\ DOMAIN EscapeTo = {"gameType", "chiceArena", "browser", "setting", "settingKeys", "table",
                        "credits", "analyze"}
  /\ \A name \in DOMAIN EscapeTo : EscapeTo[name] \in {"mainMenu", "gameType", "setting"}
  <1>1. DOMAIN EscapeTo = {"gameType", "chiceArena", "browser", "setting", "settingKeys", "table",
                           "credits", "analyze"}
    BY DEF EscapeTo
  <1> QED BY <1>1 DEF EscapeTo

\* The screens with an entry of their own.
LEMMA MenuNames ==
  Menus = {"mainMenu", "gameType", "chiceArena", "browser", "setting", "settingKeys", "table",
           "credits", "analyze"}
  BY EscapeLeads DEF Menus

\* What the steps of the menus have in common.
LEMMA MenuSteps ==
  ASSUME MainMenuEvent \/ SettingEvent \/ SettingKeyEvent \/ TableEvent \/ CreditsEvent
           \/ AnalyzeEvent \/ GameTypeEvent \/ ChoiceArenaEvent \/ BrowserEvent
  PROVE  GameQuit \/ \E goes : \E name \in Menus : Menu(name, goes)
  <1>1. CASE MainMenuEvent
    BY <1>1, MenuNames DEF MainMenuEvent
  <1>2. CASE SettingEvent \/ SettingKeyEvent \/ TableEvent \/ CreditsEvent \/ AnalyzeEvent
    BY <1>2, MenuNames DEF SettingEvent, SettingKeyEvent, TableEvent, CreditsEvent, AnalyzeEvent, Leads, Stays
  <1>3. CASE GameTypeEvent \/ ChoiceArenaEvent
    BY <1>3, MenuNames DEF GameTypeEvent, ChoiceArenaEvent
  <1>4. CASE BrowserEvent
    BY <1>4, MenuNames DEF BrowserEvent, Leads, Stays, PlayServer, SelectLine
  <1> QED BY <1>1, <1>2, <1>3, <1>4

\* Only a quit turns the program off, and only in the phase "run" anything happens on a screen.
LEMMA TicksStep ==
  ASSUME Ticks, AtRest, [Next]_program
  PROVE  Ticks' /\ AtRest'
  <1> USE DEF Ticks, AtRest, Running, Runs
  <1>1. CASE GameQuit
    BY <1>1 DEF GameQuit, DownloadQuit
  <1>2. ASSUME NEW name \in Menus, NEW goes, Menu(name, goes)
        PROVE  Ticks' /\ AtRest'
    BY <1>2 DEF Menu
  <1>3. CASE InitGame
    BY <1>3 DEF InitGame
  <1>4. CASE WorldWaits
    BY <1>4 DEF WorldWaits, InGame
  <1>5. CASE WorldEvent
    BY <1>5 DEF WorldEvent, InGame, SaveDialogEvent, YesNoDialogEvent, Fate
  <1>6. CASE DownArenaEvent
    BY <1>6 DEF DownArenaEvent, EventStatus, EventRecvBuffer, Finish, Received, Again
  <1>7. CASE DownArenaFails
    BY <1>7 DEF DownArenaFails
  <1>8. CASE HotKeyEvent
    BY <1>8, <1>1 DEF HotKeyEvent, Fate
  <1>9. CASE NoKey \/ SwitchNone
    BY <1>9 DEF NoKey, NoHotKey, SwitchNone, NoSwitch
  <1>10. CASE MenuStops \/ BrowserStops \/ DownArenaStops \/ StoptWorld
    BY <1>10 DEF MenuStops, BrowserStops, DownArenaStops, StoptWorld, Stops
  <1>11. CASE MenuStarts \/ BrowserStarts \/ DownArenaStarts
    BY <1>11 DEF MenuStarts, BrowserStarts, DownArenaStarts, Starts
  <1>12. CASE StartWorld
    BY <1>12 DEF StartWorld, Starts
  <1>13. CASE NetworkStep \/ DownServerStep
    BY <1>13 DEF NetworkStep, DownServerStep, LosesMail, AnswersStatus, ServerDies, ServerRound, Tick, Visitor, Unchanged
  <1>14. CASE UNCHANGED program
    BY <1>14 DEF program, download
  <1> QED BY <1>1, <1>2, <1>3, <1>4, <1>5, <1>6, <1>7, <1>8, <1>9, <1>10, <1>11, <1>12, <1>13, <1>14, MenuSteps
          DEF Next, ProgramStep, WindowCloses

-----------------------------------------------------------------------------
(* The browser.                                                             *)

\* The numbers of an interval in their order.
LEMMA InOrderInterval ==
  ASSUME NEW a \in Nat, NEW b \in Nat, a <= b + 1
  PROVE  InOrder(a .. b) = [i \in 1 .. b - a + 1 |-> a + i - 1]
  <1> DEFINE Place(k) == {j \in a .. b : j <= k}
  <1>1. Cardinality(a .. b) = b - a + 1
    BY FS_Interval
  <1>2. \A k \in a .. b : Cardinality(Place(k)) = k - a + 1
    <2> SUFFICES ASSUME NEW k \in a .. b PROVE Cardinality(Place(k)) = k - a + 1
      OBVIOUS
    <2>1. Place(k) = a .. k
      OBVIOUS
    <2>2. Cardinality(a .. k) = k - a + 1
      BY FS_Interval
    <2> QED BY <2>1, <2>2
  <1> HIDE DEF Place
  <1>3. \A i \in 1 .. b - a + 1 : (CHOOSE k \in a .. b : Cardinality(Place(k)) = i) = a + i - 1
    <2> SUFFICES ASSUME NEW i \in 1 .. b - a + 1
                 PROVE  (CHOOSE k \in a .. b : Cardinality(Place(k)) = i) = a + i - 1
      OBVIOUS
    <2>1. a + i - 1 \in a .. b /\ Cardinality(Place(a + i - 1)) = i
      BY <1>2
    <2>2. \A k \in a .. b : Cardinality(Place(k)) = i => k = a + i - 1
      BY <1>2
    <2> QED BY <2>1, <2>2
  <1>4. InOrder(a .. b) = [i \in 1 .. b - a + 1 |-> CHOOSE k \in a .. b : Cardinality(Place(k)) = i]
    BY <1>1 DEF InOrder, Place
  <1> QED BY <1>3, <1>4

\* The answer of a server does not change which server it is.
LEMMA GetInfoKeeps ==
  ASSUME NEW c \in Servings, NEW a
  PROVE  GetInfo(c, a) \in Servings /\ GetInfo(c, a).server = c.server
  <1>1. CASE a
    BY <1>1 DEF GetInfo, Servings
  <1>2. CASE ~a
    BY <1>2 DEF GetInfo, Servings
  <1> QED BY <1>1, <1>2

\* A list of servers that is loaded anew has a line for each of them.
LEMMA Loads ==
  ASSUME LoadServers
  PROVE  list' \in Seq(Servings) /\ Matched'
  <1>1. PICK l \in Lists : \E answers, memory \in [1 .. Len(l) -> BOOLEAN] :
            /\ list' = [i \in 1 .. Len(l) |-> GetInfo([server |-> l[i], state |-> memory[i]], answers[i])]
            /\ lines' = [i \in 1 .. Len(l) |-> IF answers[i] THEN l[i] ELSE Blank]
            /\ lost' = FALSE
    BY DEF LoadServers
  <1>2. PICK answers \in [1 .. Len(l) -> BOOLEAN], memory \in [1 .. Len(l) -> BOOLEAN] :
            /\ list' = [i \in 1 .. Len(l) |-> GetInfo([server |-> l[i], state |-> memory[i]], answers[i])]
            /\ lines' = [i \in 1 .. Len(l) |-> IF answers[i] THEN l[i] ELSE Blank]
    BY <1>1
  <1>3. Cardinality(Servers) \in Nat
    BY BrowserAssumption, FS_CardinalityType
  <1>4. PICK n \in 0 .. Cardinality(Servers) : l \in [1 .. n -> Servers]
    BY DEF Lists
  <1>5. Len(l) = n /\ n \in Nat
    <2>1. n \in Nat
      BY <1>3
    <2> QED BY <1>4, <2>1
  <1>6. \A i \in 1 .. n : /\ GetInfo([server |-> l[i], state |-> memory[i]], answers[i]) \in Servings
                          /\ GetInfo([server |-> l[i], state |-> memory[i]], answers[i]).server = l[i]
    <2> SUFFICES ASSUME NEW i \in 1 .. n
                 PROVE  /\ GetInfo([server |-> l[i], state |-> memory[i]], answers[i]) \in Servings
                        /\ GetInfo([server |-> l[i], state |-> memory[i]], answers[i]).server = l[i]
      OBVIOUS
    <2> DEFINE c == [server |-> l[i], state |-> memory[i]]
    <2>1. c \in Servings /\ c.server = l[i]
      BY <1>4, <1>5 DEF Servings
    <2> HIDE DEF c
    <2> QED BY <2>1, GetInfoKeeps DEF c
  <1> HIDE DEF Servings
  <1>7. list' \in Seq(Servings)
    BY <1>2, <1>5, <1>6
  <1> QED BY <1>2, <1>5, <1>6, <1>7 DEF Matched

\* A refresh keeps the servers and their order; the lines fit as long as all answer.
LEMMA Refreshes ==
  ASSUME RefreshServers, list \in Seq(Servings), ~lost => Matched
  PROVE  /\ list' \in Seq(Servings) /\ (~lost' => Matched')
         /\ DOMAIN list' = DOMAIN list /\ \A i \in DOMAIN list : list'[i].server = list[i].server
  <1>1. PICK answers \in [1 .. Len(list) -> BOOLEAN] :
          /\ list' = [i \in 1 .. Len(list) |-> GetInfo(list[i], answers[i])]
          /\ lines' = [i \in DOMAIN InOrder({k \in 1 .. Len(list) : answers[k]}) |->
                         list[InOrder({k \in 1 .. Len(list) : answers[k]})[i]].server]
          /\ lost' = (lost \/ \E i \in DOMAIN answers : ~answers[i])
    BY DEF RefreshServers
  <1>2. \A i \in 1 .. Len(list) : GetInfo(list[i], answers[i]) \in Servings
                                  /\ GetInfo(list[i], answers[i]).server = list[i].server
    BY GetInfoKeeps
  <1>3. list' \in Seq(Servings)
    BY <1>1, <1>2
  <1>4. DOMAIN list' = 1 .. Len(list) /\ \A i \in DOMAIN list' : list'[i].server = list[i].server
    BY <1>1, <1>2
  <1>5. ASSUME ~lost' PROVE Matched'
    <2>1. {k \in 1 .. Len(list) : answers[k]} = 1 .. Len(list)
      BY <1>1, <1>5
    <2>2. InOrder(1 .. Len(list)) = [i \in 1 .. Len(list) |-> i]
      <3>1. InOrder(1 .. Len(list)) = [i \in 1 .. Len(list) - 1 + 1 |-> 1 + i - 1]
        BY InOrderInterval
      <3> QED BY <3>1
    <2>3. lines' = [i \in 1 .. Len(list) |-> list[i].server]
      BY <1>1, <2>1, <2>2
    <2> QED BY <2>3, <1>4 DEF Matched
  <1> QED BY <1>3, <1>4, <1>5

\* The event of the browser.
LEMMA BrowserEventLists ==
  ASSUME BrowserEvent, Listing, Ticks
  PROVE  Listing'
  <1> USE DEF Listing, Menu, Stays, Running, Runs
  <1>1. CASE SelectLine
    BY <1>1 DEF SelectLine, Matched, Ticks
  <1>2. CASE PlayServer
    BY <1>2 DEF PlayServer, Matched, CanPlay
  <1>3. CASE Leads("browser", "gameType") /\ UNCHANGED browser
    BY <1>3 DEF Leads, Matched, browser, Ticks
  <1>4. CASE Stays("browser") /\ LoadServers
    <2>1. list' \in Seq(Servings) /\ Matched'
      BY <1>4, Loads
    <2> QED BY <1>4, <2>1 DEF Ticks
  <1>5. CASE Stays("browser") /\ RefreshServers
    <2>1. screen = "browser" /\ phase = "run" /\ at = "event" /\ future = "none" /\ future' = "none"
      BY <1>5 DEF Ticks
    <2>2. list \in Seq(Servings) /\ (~lost => Matched)
      BY <2>1
    <2>3. list' \in Seq(Servings) /\ (~lost' => Matched')
      BY <1>5, <2>2, Refreshes
    <2> QED BY <2>1, <2>3
  <1> QED BY <1>1, <1>2, <1>3, <1>4, <1>5 DEF BrowserEvent, Leads

\* Every step keeps what the browser shows and what it leads to together.
LEMMA ListingStep ==
  ASSUME Ticks, AtRest, Listing, [Next]_program
  PROVE  Listing'
  <1> USE DEF Listing, Running, Runs
  <1>1. CASE BrowserEvent
    BY <1>1, BrowserEventLists
  <1>2. CASE BrowserStarts
    <2>1. list' \in Seq(Servings) /\ Matched' /\ future' = "none"
      BY <1>2, Loads DEF BrowserStarts, BrowserStart, Starts
    <2> QED BY <2>1
  <1>3. ASSUME screen' # "browser" \/ phase' # "run" \/ at' = "start" PROVE Listing'
    BY <1>3
  <1>4. ASSUME UNCHANGED <<screen, browser>>,
               (phase = "run" /\ at # "start") \/ phase' # "run" \/ UNCHANGED <<phase, at>>,
               future' \in {future} \cup {EscapeTo[name] : name \in DOMAIN EscapeTo}
        PROVE  Listing'
    BY <1>4, EscapeLeads DEF Matched, browser
  <1>5. CASE GameQuit
    BY <1>5, <1>3 DEF GameQuit
  <1>6. CASE MainMenuEvent \/ SettingEvent \/ SettingKeyEvent \/ TableEvent \/ CreditsEvent
               \/ AnalyzeEvent \/ GameTypeEvent \/ ChoiceArenaEvent
    BY <1>6, <1>5 DEF MainMenuEvent, SettingEvent, SettingKeyEvent, TableEvent, CreditsEvent, AnalyzeEvent,
         GameTypeEvent, ChoiceArenaEvent, Leads, Menu, Stays
  <1>7. CASE WorldWaits \/ WorldEvent \/ DownArenaEvent \/ DownArenaFails
    BY <1>7 DEF WorldWaits, WorldEvent, InGame, DownArenaEvent, DownArenaFails, EventStatus,
                EventRecvBuffer, Finish
  <1>8. CASE HotKeyEvent
    BY <1>8, <1>4, <1>5 DEF HotKeyEvent, ScreenSet
  <1>9. CASE NoKey \/ SwitchNone
    BY <1>9, <1>4 DEF NoKey, NoHotKey, SwitchNone, NoSwitch, OnlyTick
  <1>10. CASE MenuStops \/ BrowserStops \/ DownArenaStops \/ StoptWorld
    BY <1>10 DEF MenuStops, BrowserStops, DownArenaStops, StoptWorld, Stops
  <1>11. CASE MenuStarts \/ DownArenaStarts \/ StartWorld
    BY <1>11 DEF MenuStarts, DownArenaStarts, StartWorld, Starts
  <1>12. CASE NetworkStep \/ DownServerStep
    BY <1>12, <1>4 DEF NetworkStep, DownServerStep, LosesMail, AnswersStatus, ServerDies, ServerRound, Tick
  <1>13. CASE UNCHANGED program
    BY <1>13, <1>4 DEF program
  <1>14. CASE InitGame
    BY <1>14 DEF InitGame, AtRest
  <1> QED BY <1>1, <1>2, <1>5, <1>6, <1>7, <1>8, <1>9, <1>10, <1>11, <1>12, <1>13, <1>14
          DEF Next, ProgramStep, WindowCloses

\* The Play button of the browser leads to the server that was chosen, for every number of
\* servers and every answer of theirs.
THEOREM AlwaysPlaysTheChosen == Spec => []PlaysTheChosen
  <1> DEFINE I == Ticks /\ AtRest /\ Listing
  <1>1. Init => I
    BY DEF Init, Ticks, AtRest, Listing, Running, DownloadInit
  <1>2. I /\ [Next]_program => I'
    BY TicksStep, ListingStep
  <1>3. I => PlaysTheChosen
    BY DEF Listing, Matched, PlaysTheChosen
  <1> QED BY <1>1, <1>2, <1>3, PTL DEF Spec

-----------------------------------------------------------------------------
(* The hot keys.                                                            *)

\* The least number of a set.
LEMMA Least ==
  ASSUME NEW S \in SUBSET Nat, NEW i \in S, \A j \in S : i <= j
  PROVE  Min(S) = i
  <1>1. \A x \in S : (\A y \in S : x <= y) => x = i
    BY i \in Nat
  <1>2. i \in S /\ \A y \in S : i <= y
    OBVIOUS
  <1> QED BY <1>1, <1>2 DEF Min

\* The first entry of a key is found.
LEMMA FirstAt ==
  ASSUME NEW h, Len(h.keys) \in Nat, NEW key, NEW i \in 1 .. Len(h.keys),
         h.keys[i].key = key, \A j \in 1 .. i - 1 : h.keys[j].key # key
  PROVE  First(h, key) = i
  <1> DEFINE I == {k \in 1 .. Len(h.keys) : h.keys[k].key = key}
  <1>1. First(h, key) = IF I # {} THEN Min(I) ELSE 0
    BY DEF First, SelectInSeq
  <1>2. i \in I /\ I \in SUBSET Nat /\ \A j \in I : i <= j
    OBVIOUS
  <1> HIDE DEF I
  <1>3. Min(I) = i
    BY <1>2, Least
  <1> QED BY <1>1, <1>2, <1>3

\* Entries that are all at the front leave the others as they were.
LEMMA UnregisterFront ==
  ASSUME NEW h, Len(h.keys) \in Nat, DOMAIN h.keys = 1 .. Len(h.keys), NEW K, NEW m \in 0 .. Len(h.keys),
         {First(h, key) : key \in K} = 1 .. m
  PROVE  Unregister(h, K) = [keys |-> [i \in 1 .. Len(h.keys) - m |-> h.keys[m + i]], failed |-> h.failed \/ FALSE]
  <1> DEFINE n == Len(h.keys)
  <1>1. DOMAIN h.keys \ (1 .. m) = (m + 1) .. n
    OBVIOUS
  <1>2. InOrder((m + 1) .. n) = [i \in 1 .. n - (m + 1) + 1 |-> (m + 1) + i - 1]
    BY InOrderInterval
  <1>3. InOrder((m + 1) .. n) = [i \in 1 .. n - m |-> m + i]
    BY <1>2
  <1>4. (0 \in 1 .. m) = FALSE
    OBVIOUS
  <1>5. Unregister(h, K) = [keys |-> [i \in DOMAIN InOrder((m + 1) .. n) |-> h.keys[InOrder((m + 1) .. n)[i]]],
                            failed |-> h.failed \/ 0 \in 1 .. m]
    BY <1>1 DEF Unregister
  <1> QED BY <1>3, <1>4, <1>5

\* The key of the first entry.
LEMMA DismissHead ==
  ASSUME NEW t \in Seq(HotKeys), NEW e, e.key = "ESC"
  PROVE  Dismiss([keys |-> <<e>> \o t, failed |-> FALSE]) = [keys |-> t, failed |-> FALSE]
  <1> DEFINE h == [keys |-> <<e>> \o t, failed |-> FALSE]
  <1> DEFINE n == Len(t)
  <1>1. n \in Nat /\ t = [i \in 1 .. n |-> t[i]]
    OBVIOUS
  <1>2. DOMAIN h.keys = 1 .. n + 1 /\ Len(h.keys) = n + 1 /\ h.keys[1] = e /\ \A i \in 1 .. n : h.keys[1 + i] = t[i]
    BY <1>1
  <1>5. h.failed = FALSE
    OBVIOUS
  <1> HIDE DEF h
  <1>3. First(h, "ESC") = 1
    <2>1. Len(h.keys) \in Nat /\ 1 \in 1 .. Len(h.keys) /\ h.keys[1].key = "ESC"
      BY <1>2
    <2>2. \A j \in 1 .. 1 - 1 : h.keys[j].key # "ESC"
      OBVIOUS
    <2> QED BY <2>1, <2>2, FirstAt
  <1>4. {First(h, key) : key \in {"ESC"}} = 1 .. 1
    BY <1>3
  <1>6. Unregister(h, {"ESC"}) = [keys |-> [i \in 1 .. Len(h.keys) - 1 |-> h.keys[1 + i]], failed |-> h.failed \/ FALSE]
    <2>1. Len(h.keys) \in Nat /\ 1 \in 0 .. Len(h.keys) /\ DOMAIN h.keys = 1 .. Len(h.keys)
      BY <1>2
    <2> QED BY <1>4, <2>1, UnregisterFront
  <1>7. Dismiss(h) = [keys |-> t, failed |-> FALSE]
    <2>0. 1 .. Len(h.keys) - 1 = 1 .. n
      BY <1>2
    <2>1. [i \in 1 .. Len(h.keys) - 1 |-> h.keys[1 + i]] = [i \in 1 .. n |-> t[i]]
      BY <1>2, <2>0
    <2> QED BY <1>1, <1>5, <1>6, <2>1 DEF Dismiss
  <1> QED BY <1>7 DEF h

\* Lists of entries, by their parts.
LEMMA FiveLong == ASSUME NEW S, NEW a \in S, NEW b \in S, NEW c \in S, NEW e \in S, NEW f \in S
                  PROVE  <<a, b, c, e, f>> \in Seq(S)
  OBVIOUS

\* One entry more at the front.
LEMMA OneLonger == ASSUME NEW S, NEW a \in S, NEW t \in Seq(S) PROVE <<a>> \o t \in Seq(S)
  OBVIOUS

\* The lists of the entries of a game are lists of hot keys.
LEMMA EntryLists ==
  ASSUME NEW w \in Worlds
  PROVE  Plain(w) \in Seq(HotKeys) /\ Queried(w) \in Seq(HotKeys) /\ InPlay(w) \in Seq(HotKeys)
  <1>1. /\ Entry("F3", "split") \in HotKeys /\ Entry("ESC", "world") \in HotKeys /\ Screenshot \in HotKeys
        /\ Entry("ESC", "yesno") \in HotKeys /\ Entry("ESC", "save") \in HotKeys /\ Entry("ESC", "chatoff") \in HotKeys
    BY DEF Entry, HotKeys, Screenshot
  <1>2. Plain(w) \in Seq(HotKeys)
    <2> DEFINE a == [key |-> IF w.net = "none" THEN "F2" ELSE "RETURN",
                     of |-> IF w.net = "none" THEN "save" ELSE "chat", on |-> ~w.chat]
               b == [key |-> "p", of |-> "pause", on |-> ~w.chat]
    <2>1. a \in HotKeys /\ b \in HotKeys
      <3>1. (~w.chat) \in BOOLEAN
        BY DEF Worlds
      <3> QED BY <3>1 DEF HotKeys
    <2>3. Plain(w) = <<a, b, Entry("F3", "split"), Entry("ESC", "world"), Screenshot>>
      BY DEF Plain
    <2> HIDE DEF a, b
    <2> QED BY <1>1, <2>1, <2>3, FiveLong
  <1>3. Queried(w) \in Seq(HotKeys)
    <2>2. <<Entry("ESC", "yesno")>> \o Plain(w) \in Seq(HotKeys)
      BY <1>1, <1>2, OneLonger
    <2> QED BY <1>2, <2>2 DEF Queried
  <1>4. InPlay(w) \in Seq(HotKeys)
    <2>2. <<Entry("ESC", "save")>> \o Queried(w) \in Seq(HotKeys) /\ <<Entry("ESC", "chatoff")>> \o Queried(w) \in Seq(HotKeys)
      BY <1>1, <1>3, OneLonger
    <2> QED BY <1>3, <2>2 DEF InPlay
  <1> QED BY <1>2, <1>3, <1>4

\* The end of a game without dialogs leaves what was there before it.
LEMMA UnregisterGame ==
  ASSUME NEW w \in Worlds, ~w.chat
  PROVE  Unregister([keys |-> Plain(w), failed |-> FALSE], ToSet(WorldKeys(w.net)))
           = [keys |-> <<Screenshot>>, failed |-> FALSE]
  <1> DEFINE h == [keys |-> Plain(w), failed |-> FALSE]
             last == IF w.net = "none" THEN "F2" ELSE "RETURN"
  <1>1. /\ Len(h.keys) = 5 /\ DOMAIN h.keys = 1 .. 5
        /\ h.keys[1].key = last /\ h.keys[2].key = "p" /\ h.keys[3].key = "F3" /\ h.keys[4].key = "ESC"
        /\ h.keys[5] = Screenshot
    BY DEF Plain, Entry
  <1>2. h.failed = FALSE
    OBVIOUS
  <1>3. last \in {"F2", "RETURN"}
    OBVIOUS
  <1>4. ToSet(WorldKeys(w.net)) = {last, "p", "F3", "ESC"}
    <2>1. WorldKeys(w.net) = <<last, "p", "F3", "ESC">>
      BY DEF WorldKeys
    <2> HIDE DEF last
    <2> QED BY <2>1 DEF ToSet
  <1> HIDE DEF h, last
  <1>5. First(h, last) = 1
    <2>1. Len(h.keys) \in Nat /\ 1 \in 1 .. Len(h.keys) /\ h.keys[1].key = last /\ 1 .. 1 - 1 = {}
      BY <1>1
    <2> QED BY <2>1, FirstAt
  <1>6. First(h, "p") = 2
    <2>1. Len(h.keys) \in Nat /\ 2 \in 1 .. Len(h.keys) /\ h.keys[2].key = "p"
      BY <1>1
    <2>2. \A j \in 1 .. 2 - 1 : h.keys[j].key # "p"
      BY <1>1, <1>3
    <2> QED BY <2>1, <2>2, FirstAt
  <1>7. First(h, "F3") = 3
    <2>1. \A j \in 1 .. 3 - 1 : h.keys[j].key # "F3"
      BY <1>1, <1>3
    <2>2. Len(h.keys) \in Nat /\ 3 \in 1 .. Len(h.keys) /\ h.keys[3].key = "F3"
      BY <1>1
    <2> QED BY <2>1, <2>2, FirstAt
  <1>8. First(h, "ESC") = 4
    <2>1. \A j \in 1 .. 4 - 1 : h.keys[j].key # "ESC"
      BY <1>1, <1>3
    <2>2. Len(h.keys) \in Nat /\ 4 \in 1 .. Len(h.keys) /\ h.keys[4].key = "ESC"
      BY <1>1
    <2> QED BY <2>1, <2>2, FirstAt
  <1>9. {First(h, key) : key \in ToSet(WorldKeys(w.net))} = 1 .. 4
    BY <1>4, <1>5, <1>6, <1>7, <1>8
  <1>10. Unregister(h, ToSet(WorldKeys(w.net)))
           = [keys |-> [i \in 1 .. Len(h.keys) - 4 |-> h.keys[4 + i]], failed |-> h.failed \/ FALSE]
    <2>1. Len(h.keys) \in Nat /\ DOMAIN h.keys = 1 .. Len(h.keys) /\ 4 \in 0 .. Len(h.keys)
      BY <1>1
    <2> QED BY <1>9, <2>1, UnregisterFront
  <1>11. [i \in 1 .. Len(h.keys) - 4 |-> h.keys[4 + i]] = <<Screenshot>>
    <2>1. 1 .. Len(h.keys) - 4 = {1} /\ h.keys[4 + 1] = Screenshot
      BY <1>1
    <2> QED BY <2>1
  <1>12. Unregister(h, ToSet(WorldKeys(w.net))) = [keys |-> <<Screenshot>>, failed |-> FALSE]
    BY <1>2, <1>10, <1>11
  <1> QED BY <1>12 DEF h

\* Where the first entries of RETURN and p stand, and nowhere else, something changes.
LEMMA SetActiveAt ==
  ASSUME NEW h, Len(h.keys) \in Nat, NEW i \in 1 .. Len(h.keys), NEW j \in 1 .. Len(h.keys), NEW on,
         First(h, "RETURN") = i, First(h, "p") = j
  PROVE  SetActive(h, {"RETURN", "p"}, on)
           = [keys |-> [k \in DOMAIN h.keys |-> IF k \in {i, j} THEN [h.keys[k] EXCEPT !.on = on] ELSE h.keys[k]],
              failed |-> h.failed \/ FALSE]
  <1>1. {First(h, key) : key \in {"RETURN", "p"}} = {i, j}
    OBVIOUS
  <1>2. (0 \in {i, j}) = FALSE
    OBVIOUS
  <1> QED BY <1>1, <1>2 DEF SetActive

\* The chat turns the first two of the five entries on and off.
LEMMA PlainParts ==
  ASSUME NEW w \in Worlds, w.net # "none", NEW on \in BOOLEAN, w.chat = on, NEW u, u = [w EXCEPT !.chat = ~on]
  PROVE  /\ u \in Worlds /\ u.yes = w.yes /\ u.net = w.net /\ u.save = w.save /\ u.chat = (~on)
         /\ Len(Plain(w)) = 5 /\ Len(Plain(u)) = 5
         /\ Plain(w)[1].key = "RETURN" /\ Plain(w)[2].key = "p"
         /\ Plain(u)[1] = [Plain(w)[1] EXCEPT !.on = on] /\ Plain(u)[2] = [Plain(w)[2] EXCEPT !.on = on]
         /\ \A i \in 3 .. 5 : Plain(u)[i] = Plain(w)[i]
  <1>1. u \in Worlds /\ u.yes = w.yes /\ u.net = w.net /\ u.save = w.save /\ u.chat = (~on)
    BY DEF Worlds
  <1>2. /\ Plain(w) = << [key |-> "RETURN", of |-> "chat", on |-> ~on], [key |-> "p", of |-> "pause", on |-> ~on],
                         Entry("F3", "split"), Entry("ESC", "world"), Screenshot >>
        /\ Plain(u) = << [key |-> "RETURN", of |-> "chat", on |-> on], [key |-> "p", of |-> "pause", on |-> on],
                         Entry("F3", "split"), Entry("ESC", "world"), Screenshot >>
    BY <1>1 DEF Plain
  <1>3. \A i \in 3 .. 5 : i = 3 \/ i = 4 \/ i = 5
    OBVIOUS
  <1> QED BY <1>1, <1>2, <1>3

\* Two lists of entries one after the other.
LEMMA Joined ==
  ASSUME NEW f \in Seq(HotKeys), NEW g \in Seq(HotKeys)
  PROVE  /\ f \o g \in Seq(HotKeys) /\ Len(f \o g) = Len(f) + Len(g) /\ DOMAIN (f \o g) = 1 .. Len(f) + Len(g)
         /\ \A i \in 1 .. Len(f) : (f \o g)[i] = f[i]
         /\ \A i \in 1 .. Len(g) : (f \o g)[Len(f) + i] = g[i]
  OBVIOUS

\* Whatever stands before the entries of the game, the first RETURN and p are the game's.
LEMMA SetActiveBehind ==
  ASSUME NEW f \in Seq(HotKeys), \A i \in 1 .. Len(f) : f[i].key = "ESC",
         NEW w \in Worlds, w.net # "none", NEW on \in BOOLEAN, w.chat = on
  PROVE  SetActive([keys |-> f \o Plain(w), failed |-> FALSE], {"RETURN", "p"}, on)
           = [keys |-> f \o Plain([w EXCEPT !.chat = ~on]), failed |-> FALSE]
  <1> DEFINE u == [w EXCEPT !.chat = ~on]
             h == [keys |-> f \o Plain(w), failed |-> FALSE]
             n == Len(f)
             new == f \o Plain(u)
             changed == [k \in DOMAIN h.keys |->
                           IF k \in {n + 1, n + 2} THEN [h.keys[k] EXCEPT !.on = on] ELSE h.keys[k]]
  <1>1. /\ u \in Worlds
        /\ Len(Plain(w)) = 5 /\ Len(Plain(u)) = 5
        /\ Plain(w)[1].key = "RETURN" /\ Plain(w)[2].key = "p"
        /\ Plain(u)[1] = [Plain(w)[1] EXCEPT !.on = on] /\ Plain(u)[2] = [Plain(w)[2] EXCEPT !.on = on]
        /\ \A i \in 3 .. 5 : Plain(u)[i] = Plain(w)[i]
    BY PlainParts
  <1> HIDE DEF u
  <1>2. Plain(w) \in Seq(HotKeys) /\ Plain(u) \in Seq(HotKeys)
    BY <1>1, EntryLists
  <1>3. n \in Nat
    OBVIOUS
  <1>4. h.failed = FALSE /\ h.keys = f \o Plain(w)
    OBVIOUS
  <1>5. /\ Len(h.keys) = n + 5 /\ DOMAIN h.keys = 1 .. n + 5
        /\ \A i \in 1 .. n : h.keys[i] = f[i]
        /\ \A i \in 1 .. 5 : h.keys[n + i] = Plain(w)[i]
    <2> DEFINE g == Plain(w)
    <2>1. g \in Seq(HotKeys) /\ Len(g) = 5
      BY <1>1, <1>2
    <2> HIDE DEF g
    <2>2. /\ f \o g \in Seq(HotKeys) /\ Len(f \o g) = Len(f) + Len(g) /\ DOMAIN (f \o g) = 1 .. Len(f) + Len(g)
          /\ \A i \in 1 .. Len(f) : (f \o g)[i] = f[i]
          /\ \A i \in 1 .. Len(g) : (f \o g)[Len(f) + i] = g[i]
      BY <2>1, Joined
    <2>3. /\ f \o g \in Seq(HotKeys) /\ Len(f \o g) = n + 5 /\ DOMAIN (f \o g) = 1 .. n + 5
          /\ \A i \in 1 .. n : (f \o g)[i] = f[i]
          /\ \A i \in 1 .. 5 : (f \o g)[n + i] = g[i]
      BY <2>1, <2>2
    <2> QED BY <2>3, <1>4 DEF g
  <1>6. /\ new \in Seq(HotKeys) /\ Len(new) = n + 5
        /\ \A i \in 1 .. n : new[i] = f[i]
        /\ \A i \in 1 .. 5 : new[n + i] = Plain(u)[i]
    <2> DEFINE g == Plain(u)
    <2>1. g \in Seq(HotKeys) /\ Len(g) = 5
      BY <1>1, <1>2
    <2> HIDE DEF g
    <2>2. /\ f \o g \in Seq(HotKeys) /\ Len(f \o g) = Len(f) + Len(g) /\ DOMAIN (f \o g) = 1 .. Len(f) + Len(g)
          /\ \A i \in 1 .. Len(f) : (f \o g)[i] = f[i]
          /\ \A i \in 1 .. Len(g) : (f \o g)[Len(f) + i] = g[i]
      BY <2>1, Joined
    <2>3. /\ f \o g \in Seq(HotKeys) /\ Len(f \o g) = n + 5 /\ DOMAIN (f \o g) = 1 .. n + 5
          /\ \A i \in 1 .. n : (f \o g)[i] = f[i]
          /\ \A i \in 1 .. 5 : (f \o g)[n + i] = g[i]
      BY <2>1, <2>2
    <2> QED BY <2>3, <1>4 DEF g
  <1> HIDE DEF h, new
  <1>7. First(h, "RETURN") = n + 1
    <2>1. Len(h.keys) \in Nat /\ n + 1 \in 1 .. Len(h.keys)
      BY <1>3, <1>5
    <2>2. h.keys[n + 1].key = "RETURN"
      BY <1>1, <1>5
    <2>3. \A j \in 1 .. (n + 1) - 1 : h.keys[j].key # "RETURN"
      BY <1>3, <1>5
    <2> HIDE DEF n
    <2> QED BY <2>1, <2>2, <2>3, FirstAt
  <1>8. First(h, "p") = n + 2
    <2>1. Len(h.keys) \in Nat /\ n + 2 \in 1 .. Len(h.keys)
      BY <1>3, <1>5
    <2>2. h.keys[n + 2].key = "p"
      BY <1>1, <1>5
    <2>3. \A j \in 1 .. (n + 2) - 1 : h.keys[j].key # "p"
      <3>1. h.keys[n + 1].key # "p"
        BY <1>1, <1>5
      <3>2. \A j \in 1 .. (n + 2) - 1 : j \in 1 .. n \/ j = n + 1
        BY <1>3
      <3> QED BY <1>5, <3>1, <3>2
    <2> HIDE DEF n
    <2> QED BY <2>1, <2>2, <2>3, FirstAt
  <1>9. SetActive(h, {"RETURN", "p"}, on) = [keys |-> changed, failed |-> h.failed \/ FALSE]
    <2>1. Len(h.keys) \in Nat /\ n + 1 \in 1 .. Len(h.keys) /\ n + 2 \in 1 .. Len(h.keys)
      BY <1>3, <1>5
    <2> HIDE DEF n
    <2> QED BY <1>7, <1>8, <2>1, SetActiveAt
  <1>10. changed = new
    <2>1. DOMAIN new = DOMAIN h.keys
      BY <1>5, <1>6
    <2>2. \A k \in 1 .. n + 5 : k \in 1 .. n \/ k = n + 1 \/ k = n + 2 \/ (k # n + 1 /\ k # n + 2 /\ \E i \in 3 .. 5 : k = n + i)
      <3> SUFFICES ASSUME NEW k \in 1 .. n + 5, k \notin 1 .. n PROVE k = n + 1 \/ k = n + 2 \/ (k # n + 1 /\ k # n + 2 /\ \E i \in 3 .. 5 : k = n + i)
        OBVIOUS
      <3>1. k - n \in 1 .. 5 /\ k = n + (k - n)
        BY <1>3
      <3> QED BY <3>1, <1>3
    <2>3. changed[n + 1] = new[n + 1] /\ changed[n + 2] = new[n + 2]
      <3>1. changed[n + 1] = [h.keys[n + 1] EXCEPT !.on = on] /\ changed[n + 2] = [h.keys[n + 2] EXCEPT !.on = on]
        BY <1>3, <1>5
      <3>2. h.keys[n + 1] = Plain(w)[1] /\ h.keys[n + 2] = Plain(w)[2]
        BY <1>5
      <3>3. new[n + 1] = Plain(u)[1] /\ new[n + 2] = Plain(u)[2]
        BY <1>6
      <3>4. [Plain(w)[1] EXCEPT !.on = on] = Plain(u)[1] /\ [Plain(w)[2] EXCEPT !.on = on] = Plain(u)[2]
        BY <1>1
      <3> HIDE DEF changed, new
      <3> QED BY <3>1, <3>2, <3>3, <3>4, Zenon
    <2>4. \A k \in 1 .. n : changed[k] = new[k]
      <3> SUFFICES ASSUME NEW k \in 1 .. n PROVE changed[k] = new[k]
        OBVIOUS
      <3>1. k \in 1 .. n + 5 /\ k # n + 1 /\ k # n + 2
        BY <1>3
      <3>2. k \in DOMAIN h.keys /\ k \notin {n + 1, n + 2}
        BY <1>5, <3>1
      <3>3. h.keys[k] = new[k]
        <4>1. h.keys[k] = f[k]
          BY <1>5, Zenon
        <4>2. new[k] = f[k]
          BY <1>6, Zenon
        <4> QED BY <4>1, <4>2, Zenon
      <3> HIDE DEF n
      <3>4. changed[k] = h.keys[k]
        BY <3>2, Zenon
      <3> QED BY <3>3, <3>4, Zenon
    <2>5. \A i \in 3 .. 5 : changed[n + i] = new[n + i]
      <3> SUFFICES ASSUME NEW i \in 3 .. 5 PROVE changed[n + i] = new[n + i]
        OBVIOUS
      <3>1. i \in 1 .. 5 /\ n + i \in 1 .. n + 5 /\ n + i # n + 1 /\ n + i # n + 2
        BY <1>3
      <3>2. n + i \in DOMAIN h.keys /\ n + i \notin {n + 1, n + 2}
        BY <1>5, <3>1
      <3>3. h.keys[n + i] = Plain(w)[i]
        BY <1>5, <3>1, Zenon
      <3>4. new[n + i] = Plain(u)[i]
        BY <1>6, <3>1, Zenon
      <3>5. Plain(w)[i] = Plain(u)[i]
        BY <1>1
      <3> HIDE DEF n
      <3>6. changed[n + i] = h.keys[n + i]
        BY <3>2, Zenon
      <3> QED BY <3>3, <3>4, <3>5, <3>6, Zenon
    <2> HIDE DEF changed
    <2>6. \A k \in 1 .. n + 5 : changed[k] = new[k]
      BY <2>2, <2>3, <2>4, <2>5, Zenon
    <2> USE DEF changed
    <2>7. new = [k \in DOMAIN new |-> new[k]] /\ changed = [k \in DOMAIN h.keys |-> changed[k]]
      BY <1>6
    <2> QED BY <1>5, <2>1, <2>6, <2>7
  <1>11. SetActive(h, {"RETURN", "p"}, on) = [keys |-> new, failed |-> FALSE]
    BY <1>4, <1>9, <1>10
  <1> QED BY <1>11 DEF h, new, u

\* Only the net, the chat and the list of the other dialogs matter for what is below a dialog.
LEMMA SamePlain ==
  ASSUME NEW w, NEW u, u.net = w.net, u.chat = w.chat
  PROVE  Plain(u) = Plain(w)
  BY DEF Plain

\* The records that the dialogs make of the statics of world.c.
LEMMA FieldsOf ==
  ASSUME NEW w \in Worlds, NEW b \in BOOLEAN
  PROVE  /\ [w EXCEPT !.yes = b] \in Worlds /\ [w EXCEPT !.save = b] \in Worlds /\ [w EXCEPT !.chat = b] \in Worlds
         /\ LET u == [w EXCEPT !.yes = b] IN u.yes = b /\ u.save = w.save /\ u.chat = w.chat /\ u.net = w.net
         /\ LET u == [w EXCEPT !.save = b] IN u.save = b /\ u.yes = w.yes /\ u.chat = w.chat /\ u.net = w.net
         /\ LET u == [w EXCEPT !.chat = b] IN u.chat = b /\ u.yes = w.yes /\ u.save = w.save /\ u.net = w.net
  BY DEF Worlds

\* A list of hot keys that takes the place of another.
LEMMA KeysOf ==
  ASSUME NEW h \in [keys : Seq(HotKeys), failed : BOOLEAN], NEW r \in Seq(HotKeys)
  PROVE  [h EXCEPT !.keys = r] = [keys |-> r, failed |-> h.failed]
  OBVIOUS

\* A dialog registers its key before all others.
LEMMA OnTop ==
  ASSUME NEW q \in Seq(HotKeys), NEW e \in {"save", "yesno", "chatoff"}
  PROVE  Register([keys |-> q, failed |-> FALSE], "ESC", e) = [keys |-> <<Entry("ESC", e)>> \o q, failed |-> FALSE]
  <1> DEFINE h == [keys |-> q, failed |-> FALSE]
             r == <<Entry("ESC", e)>> \o q
  <1>1. h \in [keys : Seq(HotKeys), failed : BOOLEAN] /\ h.keys = q /\ h.failed = FALSE
    OBVIOUS
  <1>2. r \in Seq(HotKeys)
    <2>1. Entry("ESC", e) \in HotKeys
      BY DEF Entry, HotKeys
    <2> QED BY <2>1, OneLonger
  <1> HIDE DEF h
  <1>3. Register(h, "ESC", e) = [h EXCEPT !.keys = r]
    BY <1>1 DEF Register
  <1> HIDE DEF r
  <1>4. [h EXCEPT !.keys = r] = [keys |-> r, failed |-> FALSE]
    BY <1>1, <1>2, KeysOf
  <1> QED BY <1>3, <1>4 DEF h, r

\* The save dialog and the question whether to quit open on top of the others.
LEMMA Opens ==
  ASSUME NEW w \in Worlds, ~w.chat, ~w.save
  PROVE  /\ Register([keys |-> InPlay(w), failed |-> FALSE], "ESC", "save")
              = [keys |-> InPlay([w EXCEPT !.save = TRUE]), failed |-> FALSE]
         /\ ~w.yes => Register([keys |-> InPlay(w), failed |-> FALSE], "ESC", "yesno")
                        = [keys |-> InPlay([w EXCEPT !.yes = TRUE]), failed |-> FALSE]
  <1> DEFINE u == [w EXCEPT !.save = TRUE]
             v == [w EXCEPT !.yes = TRUE]
  <1>1. u.save /\ u.yes = w.yes /\ u.net = w.net /\ u.chat = w.chat
    BY FieldsOf
  <1>2. v.yes /\ ~v.save /\ ~v.chat /\ v.net = w.net /\ v.chat = w.chat
    BY FieldsOf
  <1>3. \A e \in {"save", "yesno"} :
          Register([keys |-> InPlay(w), failed |-> FALSE], "ESC", e) = [keys |-> <<Entry("ESC", e)>> \o InPlay(w), failed |-> FALSE]
    BY OnTop, EntryLists
  <1> HIDE DEF u, v
  <1>4. InPlay(u) = <<Entry("ESC", "save")>> \o InPlay(w)
    BY <1>1, SamePlain DEF InPlay, Queried
  <1>5. ~w.yes => InPlay(v) = <<Entry("ESC", "yesno")>> \o InPlay(w)
    BY <1>2, SamePlain DEF InPlay, Queried
  <1> QED BY <1>3, <1>4, <1>5 DEF u, v

\* The dialog that is on top takes its own entry away.
LEMMA Closes ==
  ASSUME NEW w \in Worlds, ~w.chat, w.save \/ w.yes
  PROVE  Dismiss([keys |-> InPlay(w), failed |-> FALSE])
           = [keys |-> InPlay(IF w.save THEN [w EXCEPT !.save = FALSE] ELSE [w EXCEPT !.yes = FALSE]), failed |-> FALSE]
  <1>1. CASE w.save
    <2> DEFINE u == [w EXCEPT !.save = FALSE]
    <2>1. u \in Worlds /\ ~u.save /\ u.yes = w.yes /\ u.net = w.net /\ u.chat = w.chat
      BY FieldsOf
    <2> HIDE DEF u
    <2>2. InPlay(u) \in Seq(HotKeys) /\ InPlay(w) = <<Entry("ESC", "save")>> \o InPlay(u)
      BY <1>1, <2>1, SamePlain, EntryLists DEF InPlay, Queried
    <2>3. Entry("ESC", "save").key = "ESC"
      BY DEF Entry
    <2>4. Dismiss([keys |-> <<Entry("ESC", "save")>> \o InPlay(u), failed |-> FALSE]) = [keys |-> InPlay(u), failed |-> FALSE]
      BY <2>2, <2>3, DismissHead
    <2> QED BY <1>1, <2>2, <2>4 DEF u
  <1>2. CASE ~w.save
    <2> DEFINE u == [w EXCEPT !.yes = FALSE]
    <2>1. u \in Worlds /\ ~u.save /\ ~u.yes /\ u.net = w.net /\ u.chat = w.chat
      BY <1>2, FieldsOf
    <2> HIDE DEF u
    <2>2. InPlay(u) \in Seq(HotKeys) /\ InPlay(w) = <<Entry("ESC", "yesno")>> \o InPlay(u)
      BY <1>2, <2>1, SamePlain, EntryLists DEF InPlay, Queried
    <2>3. Entry("ESC", "yesno").key = "ESC"
      BY DEF Entry
    <2>4. Dismiss([keys |-> <<Entry("ESC", "yesno")>> \o InPlay(u), failed |-> FALSE]) = [keys |-> InPlay(u), failed |-> FALSE]
      BY <2>2, <2>3, DismissHead
    <2> QED BY <1>2, <2>2, <2>4 DEF u
  <1> QED BY <1>1, <1>2

\* Entries that are put in front one after the other.
LEMMA Prepended ==
  ASSUME NEW a \in HotKeys, NEW b \in HotKeys, NEW q \in Seq(HotKeys)
  PROVE  <<a, b>> \o q = <<a>> \o (<<b>> \o q) /\ <<>> \o q = q
  <1>1. <<b>> \o q \in Seq(HotKeys) /\ Len(<<b>> \o q) = 1 + Len(q)
    OBVIOUS
  <1>2. \A i \in 1 .. Len(q) : (<<b>> \o q)[1 + i] = q[i]
    OBVIOUS
  <1>3. (<<b>> \o q)[1] = b
    OBVIOUS
  <1> DEFINE r == <<b>> \o q
             x == <<a, b>> \o q
             y == <<a>> \o r
  <1>4. x \in Seq(HotKeys) /\ Len(x) = 2 + Len(q) /\ x[1] = a /\ x[2] = b /\ \A i \in 1 .. Len(q) : x[2 + i] = q[i]
    OBVIOUS
  <1> HIDE DEF x, r
  <1>5. y \in Seq(HotKeys) /\ Len(y) = 2 + Len(q) /\ y[1] = a /\ \A i \in 1 .. Len(r) : y[1 + i] = r[i]
    BY <1>1 DEF r
  <1>6. r[1] = b /\ Len(r) = 1 + Len(q) /\ \A i \in 1 .. Len(q) : r[1 + i] = q[i]
    BY <1>1, <1>2, <1>3 DEF r
  <1> HIDE DEF y
  <1>7. y[2] = b /\ \A i \in 1 .. Len(q) : y[2 + i] = q[i]
    <2>1. y[1 + 1] = r[1]
      BY <1>5, <1>6
    <2>2. \A i \in 1 .. Len(q) : 1 + i \in 1 .. Len(r) /\ y[1 + (1 + i)] = r[1 + i] /\ 1 + (1 + i) = 2 + i
      BY <1>5, <1>6
    <2> QED BY <1>6, <2>1, <2>2
  <1>8. \A k \in 1 .. 2 + Len(q) : k = 1 \/ k = 2 \/ (k - 2 \in 1 .. Len(q) /\ k = 2 + (k - 2))
    OBVIOUS
  <1>9. \A k \in 1 .. 2 + Len(q) : x[k] = y[k]
    BY <1>4, <1>5, <1>7, <1>8
  <1>10. x = y
    BY <1>4, <1>5, <1>9
  <1>11. <<>> \o q = q
    OBVIOUS
  <1> QED BY <1>10, <1>11 DEF x, y, r

\* The entries before those of the game.
Above(w, top) ==
    IF top THEN IF w.yes THEN <<Entry("ESC", "chatoff"), Entry("ESC", "yesno")>> ELSE <<Entry("ESC", "chatoff")>>
    ELSE IF w.yes THEN <<Entry("ESC", "yesno")>> ELSE <<>>

\* What stands before the entries of the game has the key ESCAPE.
LEMMA FrontOf ==
  ASSUME NEW w \in Worlds, NEW top \in BOOLEAN
  PROVE  /\ Above(w, top) \in Seq(HotKeys)
         /\ \A i \in 1 .. Len(Above(w, top)) : Above(w, top)[i].key = "ESC"
         /\ Above(w, top) \o Plain(w) = IF top THEN <<Entry("ESC", "chatoff")>> \o Queried(w) ELSE Queried(w)
  <1> DEFINE a == Entry("ESC", "chatoff")
             b == Entry("ESC", "yesno")
  <1>1. a \in HotKeys /\ b \in HotKeys /\ a.key = "ESC" /\ b.key = "ESC"
    BY DEF Entry, HotKeys
  <1> HIDE DEF a, b
  <1>2. Plain(w) \in Seq(HotKeys)
    BY EntryLists
  <1>3. Above(w, top) = IF top THEN IF w.yes THEN <<a, b>> ELSE <<a>> ELSE IF w.yes THEN <<b>> ELSE <<>>
    BY DEF Above, a, b
  <1>4. Above(w, top) \in Seq(HotKeys) /\ \A i \in 1 .. Len(Above(w, top)) : Above(w, top)[i].key = "ESC"
    BY <1>1, <1>3
  <1>5. <<a, b>> \o Plain(w) = <<a>> \o (<<b>> \o Plain(w)) /\ <<>> \o Plain(w) = Plain(w)
    BY <1>1, <1>2, Prepended
  <1>6. Above(w, top) \o Plain(w) = IF top THEN <<a>> \o Queried(w) ELSE Queried(w)
    BY <1>3, <1>5 DEF Queried, b
  <1> QED BY <1>4, <1>6 DEF a

\* The chat opens: two entries are turned off, one is new.
LEMMA EnterChat ==
  ASSUME NEW w \in Worlds, w.net # "none", ~w.chat, ~w.save
  PROVE  Register(SetActive([keys |-> InPlay(w), failed |-> FALSE], {"RETURN", "p"}, FALSE), "ESC", "chatoff")
           = [keys |-> InPlay([w EXCEPT !.chat = TRUE]), failed |-> FALSE]
  <1> DEFINE u == [w EXCEPT !.chat = TRUE]
             f == Above(w, FALSE)
  <1>1. u \in Worlds /\ u.chat = TRUE /\ u.save = w.save /\ u.yes = w.yes /\ u.net = w.net
    BY FieldsOf
  <1>2. InPlay(w) = f \o Plain(w)
    BY FrontOf DEF InPlay
  <1>3. f \in Seq(HotKeys) /\ \A i \in 1 .. Len(f) : f[i].key = "ESC"
    BY FrontOf
  <1>4. SetActive([keys |-> f \o Plain(w), failed |-> FALSE], {"RETURN", "p"}, FALSE) = [keys |-> f \o Plain(u), failed |-> FALSE]
    <2>1. w.chat = FALSE
      BY DEF Worlds
    <2>2. [w EXCEPT !.chat = ~FALSE] = u
      OBVIOUS
    <2> HIDE DEF f, u
    <2> QED BY <1>3, <2>1, <2>2, SetActiveBehind
  <1> HIDE DEF u
  <1>5. f = Above(u, FALSE)
    BY <1>1 DEF Above
  <1>6. f \o Plain(u) = Queried(u)
    BY <1>1, <1>5, FrontOf
  <1>7. Register([keys |-> Queried(u), failed |-> FALSE], "ESC", "chatoff")
          = [keys |-> <<Entry("ESC", "chatoff")>> \o Queried(u), failed |-> FALSE]
    BY <1>1, EntryLists, OnTop
  <1>8. InPlay(u) = <<Entry("ESC", "chatoff")>> \o Queried(u)
    BY <1>1 DEF InPlay
  <1> HIDE DEF f
  <1> QED BY <1>2, <1>4, <1>6, <1>7, <1>8 DEF u

\* The chat closes: its entry goes, the two are turned on again.
LEMMA LeaveChat ==
  ASSUME NEW w \in Worlds, w.net # "none", w.chat, ~w.save
  PROVE  Dismiss(SetActive([keys |-> InPlay(w), failed |-> FALSE], {"RETURN", "p"}, TRUE))
           = [keys |-> InPlay([w EXCEPT !.chat = FALSE]), failed |-> FALSE]
  <1> DEFINE u == [w EXCEPT !.chat = FALSE]
             f == Above(w, TRUE)
  <1>1. u \in Worlds /\ u.chat = FALSE /\ u.save = w.save /\ u.yes = w.yes /\ u.net = w.net
    BY FieldsOf
  <1>2. InPlay(w) = f \o Plain(w)
    BY FrontOf DEF InPlay
  <1>3. f \in Seq(HotKeys) /\ \A i \in 1 .. Len(f) : f[i].key = "ESC"
    BY FrontOf
  <1>4. SetActive([keys |-> f \o Plain(w), failed |-> FALSE], {"RETURN", "p"}, TRUE) = [keys |-> f \o Plain(u), failed |-> FALSE]
    <2>1. w.chat = TRUE
      BY DEF Worlds
    <2>2. [w EXCEPT !.chat = ~TRUE] = u
      OBVIOUS
    <2> HIDE DEF f, u
    <2> QED BY <1>3, <2>1, <2>2, SetActiveBehind
  <1> HIDE DEF u
  <1>5. f = Above(u, TRUE)
    BY <1>1 DEF Above
  <1>6. f \o Plain(u) = <<Entry("ESC", "chatoff")>> \o Queried(u)
    BY <1>1, <1>5, FrontOf
  <1>7. Dismiss([keys |-> <<Entry("ESC", "chatoff")>> \o Queried(u), failed |-> FALSE]) = [keys |-> Queried(u), failed |-> FALSE]
    <2>1. Entry("ESC", "chatoff").key = "ESC"
      BY DEF Entry
    <2> QED BY <1>1, <2>1, EntryLists, DismissHead
  <1>8. InPlay(u) = Queried(u)
    BY <1>1 DEF InPlay
  <1> HIDE DEF f
  <1> QED BY <1>2, <1>4, <1>6, <1>7, <1>8 DEF u

\* An active entry at the head of the list is the one its key fires.
LEMMA HeadFires ==
  ASSUME NEW e \in Pressed, Len(hot.keys) \in Nat \ {0}, hot.keys[1].on, e.key = hot.keys[1].key
  PROVE  e = hot.keys[1]
  <1> DEFINE I == {k \in 1 .. Len(hot.keys) : hot.keys[k].key = e.key /\ hot.keys[k].on}
  <1>1. hot.keys[IF I # {} THEN Min(I) ELSE 0] = e
    BY DEF Pressed, SelectInSeq
  <1>2. 1 \in I /\ I \in SUBSET Nat /\ \A j \in I : 1 <= j
    OBVIOUS
  <1> HIDE DEF I
  <1>3. Min(I) = 1
    BY <1>2, Least
  <1> QED BY <1>1, <1>2, <1>3

\* What the handler of an entry says of the game.
Belongs(w, e) ==
    /\ e \in HotKeys
    /\ e.of = "world" => e.key = "ESC"
    /\ e.of = "yesno" => e.key = "ESC" /\ w.yes
    /\ e.of = "chatoff" => e.key = "ESC" /\ w.chat
    /\ e.of = "save" => w.net = "none"
    /\ e.of = "chat" => w.net # "none" /\ e.on = (~w.chat)

\* An entry of a list is its first or one of the others.
LEMMA HeadOrRest ==
  ASSUME NEW q \in Seq(HotKeys), NEW a \in HotKeys, NEW i \in DOMAIN (<<a>> \o q)
  PROVE  (<<a>> \o q)[i] = a \/ \E j \in DOMAIN q : (<<a>> \o q)[i] = q[j]
  <1>1. i = 1 \/ (i - 1 \in 1 .. Len(q) /\ (<<a>> \o q)[i] = q[i - 1])
    OBVIOUS
  <1>2. (<<a>> \o q)[1] = a
    OBVIOUS
  <1> QED BY <1>1, <1>2

\* Every entry of a game belongs to it or to one of its open dialogs.
LEMMA Belonging ==
  ASSUME NEW w \in Worlds, w.save => w.net = "none", NEW i \in DOMAIN InPlay(w)
  PROVE  Belongs(w, InPlay(w)[i])
  <1>1. \A k \in DOMAIN Plain(w) : Belongs(w, Plain(w)[k])
    <2>1. TAKE k \in DOMAIN Plain(w)
    <2>2. k \in 1 .. 5
      BY <2>1 DEF Plain
    <2>3. Plain(w)[k] \in HotKeys
      BY <2>1, EntryLists
    <2>4. CASE k = 1
      <3>1. Plain(w)[1] = [key |-> IF w.net = "none" THEN "F2" ELSE "RETURN",
                           of |-> IF w.net = "none" THEN "save" ELSE "chat", on |-> ~w.chat]
        BY DEF Plain
      <3> QED BY <2>3, <2>4, <3>1 DEF Belongs
    <2>5. CASE k = 2
      <3>1. Plain(w)[2] = [key |-> "p", of |-> "pause", on |-> ~w.chat]
        BY DEF Plain
      <3> QED BY <2>3, <2>5, <3>1 DEF Belongs
    <2>6. CASE k \in 3 .. 5
      <3>1. Plain(w)[k] \in {Entry("F3", "split"), Entry("ESC", "world"), Screenshot}
        BY <2>6 DEF Plain
      <3> QED BY <2>3, <3>1 DEF Belongs, Entry, Screenshot
    <2> QED BY <2>2, <2>4, <2>5, <2>6
  <1>2. /\ w.yes => Belongs(w, Entry("ESC", "yesno"))
        /\ w.chat => Belongs(w, Entry("ESC", "chatoff"))
        /\ w.save => Belongs(w, Entry("ESC", "save"))
    BY DEF Belongs, Entry, HotKeys
  <1>3. Entry("ESC", "yesno") \in HotKeys /\ Entry("ESC", "chatoff") \in HotKeys /\ Entry("ESC", "save") \in HotKeys
    BY DEF Entry, HotKeys
  <1>4. Plain(w) \in Seq(HotKeys) /\ Queried(w) \in Seq(HotKeys)
    BY EntryLists
  <1>5. \A k \in DOMAIN Queried(w) : Belongs(w, Queried(w)[k])
    BY <1>1, <1>2, <1>3, <1>4, HeadOrRest DEF Queried
  <1> QED BY <1>2, <1>3, <1>4, <1>5, HeadOrRest DEF InPlay

\* Over which dialogs a hot key may fire.
LEMMA WhoIsPressed ==
  ASSUME world \in Worlds, Dialogs, hot.keys = InPlay(world), NEW e \in Pressed
  PROVE  /\ e \in HotKeys
         /\ e.of = "world" => NoneOpen(world)
         /\ e.of = "yesno" => world.yes /\ ~world.save /\ ~world.chat
         /\ e.of = "save" => world.net = "none"
         /\ e.of = "chat" => world.net # "none" /\ ~world.chat
         /\ e.of = "chatoff" => world.net # "none" /\ world.chat
  <1>1. e.on /\ \E i \in DOMAIN InPlay(world) : e = InPlay(world)[i]
    BY DEF Pressed, ToSet
  <1>2. Belongs(world, e)
    BY <1>1, Belonging DEF Dialogs
  <1>3. ASSUME NEW a \in HotKeys, NEW q \in Seq(HotKeys), a.on, a.key = "ESC", e.key = "ESC", InPlay(world) = <<a>> \o q
        PROVE  e = a
    <2> DEFINE l == <<a>> \o q
    <2>1. Len(l) \in Nat \ {0} /\ l[1] = a
      BY <1>3
    <2> HIDE DEF l
    <2>2. hot.keys = l
      BY <1>3 DEF l
    <2>3. Len(hot.keys) \in Nat \ {0} /\ hot.keys[1].on /\ e.key = hot.keys[1].key
      BY <1>3, <2>1, <2>2
    <2>4. e = hot.keys[1]
      BY <2>3, HeadFires
    <2> QED BY <2>1, <2>2, <2>4
  <1>4. \A of \in {"save", "chatoff", "yesno"} :
          Entry("ESC", of) \in HotKeys /\ Entry("ESC", of).on /\ Entry("ESC", of).key = "ESC" /\ Entry("ESC", of).of = of
    BY DEF Entry, HotKeys
  <1>5. Plain(world) \in Seq(HotKeys) /\ Queried(world) \in Seq(HotKeys)
    BY EntryLists
  <1>6. e.key = "ESC" /\ world.save => e.of = "save"
    BY <1>3, <1>4, <1>5 DEF InPlay
  <1>7. e.key = "ESC" /\ ~world.save /\ world.chat => e.of = "chatoff"
    BY <1>3, <1>4, <1>5 DEF InPlay
  <1>8. e.key = "ESC" /\ ~world.save /\ ~world.chat /\ world.yes => e.of = "yesno"
    BY <1>3, <1>4, <1>5 DEF InPlay, Queried
  <1>9. world.chat \in BOOLEAN
    BY DEF Worlds
  <1> QED BY <1>1, <1>2, <1>6, <1>7, <1>8, <1>9 DEF Belongs, Dialogs, NoneOpen

\* Lists of one entry make a list of two.
LEMMA Pair ==
  ASSUME NEW a \in HotKeys, NEW b \in HotKeys
  PROVE  <<a>> \o <<b>> = <<a, b>>
  <1> DEFINE x == <<a>> \o <<b>>
             y == <<a, b>>
  <1>1. x \in Seq(HotKeys) /\ Len(x) = 2 /\ x[1] = a /\ x[2] = b
    <2>1. <<a>> \in Seq(HotKeys) /\ <<b>> \in Seq(HotKeys) /\ Len(<<a>>) = 1 /\ Len(<<b>>) = 1 /\ <<a>>[1] = a /\ <<b>>[1] = b
      OBVIOUS
    <2> DEFINE f == <<a>>
               g == <<b>>
    <2> HIDE DEF f, g
    <2>2. Len(f \o g) = 2 /\ f \o g \in Seq(HotKeys) /\ (f \o g)[1] = f[1] /\ (f \o g)[1 + 1] = g[1]
      BY <2>1, Joined DEF f, g
    <2> QED BY <2>1, <2>2 DEF f, g
  <1>2. y \in Seq(HotKeys) /\ Len(y) = 2 /\ y[1] = a /\ y[2] = b
    OBVIOUS
  <1> HIDE DEF x, y
  <1>3. \A k \in 1 .. 2 : x[k] = y[k]
    BY <1>1, <1>2
  <1>4. x = y
    BY <1>1, <1>2, <1>3
  <1> QED BY <1>4 DEF x, y

\* The four entries of the game come before what is there.
LEMMA FourAndOne ==
  ASSUME NEW a \in HotKeys, NEW b \in HotKeys, NEW c \in HotKeys, NEW e \in HotKeys, NEW f \in HotKeys
  PROVE  <<a, b, c, e>> \o <<f>> = <<a, b, c, e, f>>
  <1> DEFINE p == <<a, b, c, e>>
             q == <<f>>
             x == p \o q
             y == <<a, b, c, e, f>>
  <1>1. p \in Seq(HotKeys) /\ Len(p) = 4 /\ p[1] = a /\ p[2] = b /\ p[3] = c /\ p[4] = e
    OBVIOUS
  <1>2. q \in Seq(HotKeys) /\ Len(q) = 1 /\ q[1] = f
    OBVIOUS
  <1>3. y \in Seq(HotKeys) /\ Len(y) = 5 /\ y[1] = a /\ y[2] = b /\ y[3] = c /\ y[4] = e /\ y[5] = f
    OBVIOUS
  <1> HIDE DEF p, q, y
  <1>4. x \in Seq(HotKeys) /\ Len(x) = 5 /\ x[1] = a /\ x[2] = b /\ x[3] = c /\ x[4] = e /\ x[5] = f
    <2>0. p \in Seq(HotKeys) /\ q \in Seq(HotKeys)
      BY <1>1, <1>2
    <2>1. /\ p \o q \in Seq(HotKeys) /\ Len(p \o q) = Len(p) + Len(q)
          /\ \A i \in 1 .. Len(p) : (p \o q)[i] = p[i]
          /\ \A i \in 1 .. Len(q) : (p \o q)[Len(p) + i] = q[i]
      BY <2>0, Joined
    <2>2. /\ x \in Seq(HotKeys) /\ Len(x) = 4 + 1
          /\ \A i \in 1 .. 4 : x[i] = p[i]
          /\ \A i \in 1 .. 1 : x[4 + i] = q[i]
      BY <1>1, <1>2, <2>1
    <2> HIDE DEF x
    <2>3. x[1] = p[1] /\ x[2] = p[2] /\ x[3] = p[3] /\ x[4] = p[4] /\ x[5] = q[1]
      BY <2>2
    <2> QED BY <1>1, <1>2, <2>2, <2>3
  <1> HIDE DEF x
  <1>5. \A k \in 1 .. 5 : k = 1 \/ k = 2 \/ k = 3 \/ k = 4 \/ k = 5
    OBVIOUS
  <1>6. \A k \in 1 .. 5 : x[k] = y[k]
    BY <1>3, <1>4, <1>5
  <1>7. x = y
    BY <1>3, <1>4, <1>6
  <1> QED BY <1>7 DEF x, y, p, q

\* A screen with one entry.
LEMMA OneEntry ==
  ASSUME NEW name \in Menus
  PROVE  /\ Register([keys |-> <<Screenshot>>, failed |-> FALSE], "ESC", name)
              = [keys |-> <<Entry("ESC", name), Screenshot>>, failed |-> FALSE]
         /\ Unregister([keys |-> <<Entry("ESC", name), Screenshot>>, failed |-> FALSE], {"ESC"})
              = [keys |-> <<Screenshot>>, failed |-> FALSE]
  <1> DEFINE a == Entry("ESC", name)
             b == Screenshot
             q == <<b>>
  <1>1. a \in HotKeys /\ b \in HotKeys /\ a.key = "ESC"
    BY DEF Entry, HotKeys, Screenshot
  <1>2. Register([keys |-> <<b>>, failed |-> FALSE], "ESC", name) = [keys |-> <<a>> \o <<b>>, failed |-> FALSE]
    <2> DEFINE h == [keys |-> q, failed |-> FALSE]
               r == <<a>> \o q
    <2>1. h \in [keys : Seq(HotKeys), failed : BOOLEAN] /\ h.keys = q /\ h.failed = FALSE
      BY <1>1
    <2>2. r \in Seq(HotKeys)
      BY <1>1
    <2> HIDE DEF h, q
    <2>3. Register(h, "ESC", name) = [h EXCEPT !.keys = r]
      BY <2>1 DEF Register
    <2> HIDE DEF r
    <2>4. [h EXCEPT !.keys = r] = [keys |-> r, failed |-> FALSE]
      BY <2>1, <2>2, KeysOf
    <2> QED BY <2>3, <2>4 DEF h, r, q
  <1> HIDE DEF a, b
  <1>3. <<a>> \o <<b>> = <<a, b>>
    BY <1>1, Pair
  <1>4. Dismiss([keys |-> <<a>> \o <<b>>, failed |-> FALSE]) = [keys |-> <<b>>, failed |-> FALSE]
    <2>1. <<b>> \in Seq(HotKeys)
      BY <1>1
    <2> QED BY <1>1, <2>1, DismissHead
  <1> QED BY <1>2, <1>3, <1>4 DEF a, b, Dismiss

\* The entries of a game that begins.
LEMMA GameBegins ==
  ASSUME NEW w \in Worlds, NoneOpen(w)
  PROVE  Entries(WorldKeys(w.net)) \o <<Screenshot>> = InPlay(w)
  <1> DEFINE last == IF w.net = "none" THEN "F2" ELSE "RETURN"
             of == IF w.net = "none" THEN "save" ELSE "chat"
             a == Entry(last, of)
             b == Entry("p", "pause")
             c == Entry("F3", "split")
             f == Entry("ESC", "world")
  <1>1. Entries(WorldKeys(w.net)) = <<a, b, c, f>>
    <2>1. WorldKeys(w.net) = <<last, "p", "F3", "ESC">> /\ last \in {"F2", "RETURN"}
      BY DEF WorldKeys
    <2>2. Handlers["p"] = "pause" /\ Handlers["F3"] = "split" /\ Handlers["ESC"] = "world"
      BY DEF Handlers
    <2>3. Handlers[last] = of
      BY DEF Handlers
    <2> HIDE DEF last, of
    <2>4. Entries(<<last, "p", "F3", "ESC">>) = <<a, b, c, f>>
      BY <2>2, <2>3 DEF Entries
    <2> QED BY <2>1, <2>4
  <1>2. a \in HotKeys /\ b \in HotKeys /\ c \in HotKeys /\ f \in HotKeys /\ Screenshot \in HotKeys
    BY DEF Entry, HotKeys, Screenshot
  <1>3. InPlay(w) = Plain(w)
    BY DEF InPlay, Queried, NoneOpen
  <1>4. (~w.chat) = TRUE
    BY DEF NoneOpen
  <1>5. Plain(w) = <<a, b, c, f, Screenshot>>
    BY <1>4 DEF Plain, Entry
  <1> HIDE DEF a, b, c, f
  <1>6. <<a, b, c, f>> \o <<Screenshot>> = <<a, b, c, f, Screenshot>>
    BY <1>2, FourAndOne
  <1> QED BY <1>1, <1>3, <1>5, <1>6

\* Nothing but the dialogs and the type of the game matters for the entries.
LEMMA SameKeys ==
  ASSUME NEW w, NEW u, u.net = w.net, u.chat = w.chat, u.yes = w.yes, u.save = w.save
  PROVE  InPlay(u) = InPlay(w)
  BY DEF InPlay, Queried, Plain

\* The records that the events and the end of a game make of the statics of world.c.
LEMMA NewWorlds ==
  ASSUME NEW w \in Worlds, NEW net \in {"none", "server", "client"}, NEW b \in BOOLEAN, NEW c \in BOOLEAN
  PROVE  /\ [w EXCEPT !.here = b, !.over = c] \in Worlds /\ [w EXCEPT !.net = net] \in Worlds
         /\ [w EXCEPT !.over = c] \in Worlds
         /\ LET u == [w EXCEPT !.here = b, !.over = c] IN u.net = w.net /\ u.chat = w.chat /\ u.yes = w.yes /\ u.save = w.save
         /\ LET u == [w EXCEPT !.over = c] IN u.net = w.net /\ u.chat = w.chat /\ u.yes = w.yes /\ u.save = w.save
         /\ LET u == [w EXCEPT !.net = net] IN u.net = net /\ u.chat = w.chat /\ u.yes = w.yes /\ u.save = w.save
  BY DEF Worlds

\* A step between the start and the stop that leaves the entries alone.
LEMMA KeysStay ==
  ASSUME Keyed, Running, at # "start", at' # "start", UNCHANGED <<screen, hot, overlap>>,
         phase' \notin {"no key", "freed"}, world' \in Worlds, world'.net = world.net, world'.chat = world.chat,
         world'.yes = world.yes, world'.save = world.save
  PROVE  Keyed'
  <1>1. Running' => phase' = "run"
    BY DEF Running
  <1>2. InPlay(world') = InPlay(world)
    BY SameKeys
  <1>3. Expected' = Expected
    BY <1>2 DEF Expected
  <1> QED BY <1>3 DEF Keyed, Dialogs, NoneOpen

\* In the game.
LEMMA KeyedInGame ==
  ASSUME Keyed, Running, ~overlap, screen = "world", at # "start"
  PROVE  /\ world \in Worlds /\ Dialogs
         /\ hot = [keys |-> InPlay(world), failed |-> FALSE] /\ hot.keys = InPlay(world)
  <1>1. Expected = InPlay(world)
    BY MenuNames DEF Expected
  <1>2. world \in Worlds /\ Dialogs /\ hot = [keys |-> InPlay(world), failed |-> FALSE]
    BY <1>1 DEF Keyed
  <1> QED BY <1>2

\* A step in the game that ends with the entries of its dialogs.
LEMMA KeyedAfter ==
  ASSUME Running, screen = "world", screen' = "world", at' # "start",
         NEW u \in Worlds, Dialogs', world' = u, hot' = [keys |-> InPlay(u), failed |-> FALSE],
         phase' \notin {"no key", "freed"}
  PROVE  Keyed'
  <1>1. Expected' = InPlay(u)
    BY MenuNames DEF Expected
  <1> QED BY <1>1 DEF Keyed

\* No dialog is open before the first game.
LEMMA NoDialogYet == NoWorld \in Worlds /\ NoneOpen(NoWorld) /\ NoWorld.net = "none"
  BY DEF NoWorld, Worlds, NoneOpen

\* At the end of the program only the entry of the screenshot is left.
LEMMA QuitKeyed == ASSUME GameQuit PROVE Keyed'
  <1>1. phase' = "off" /\ world' = NoWorld
    BY DEF GameQuit
  <1>2. Dialogs'
    BY <1>1, NoDialogYet DEF Dialogs, NoneOpen
  <1> QED BY <1>1, <1>2 DEF Keyed, Running, Dialogs

\* A hot key that fires leaves the entries of the screen and of its open dialogs.
LEMMA HotKeyEventKeyed ==
  ASSUME Keyed, AtRest, HotKeyEvent
  PROVE  Keyed'
  <1>1. PICK e \in Pressed :
          IF e.of = "mainMenu" THEN GameQuit
          ELSE /\ Handler(e.of)
               /\ phase' = IF e.of = "world" /\ screen # "world" THEN "freed" ELSE Fate(hot')
               /\ at' = "stop" /\ UNCHANGED <<screen, overlap>>
    BY DEF HotKeyEvent
  <1>2. phase = "run" /\ at = "keys" /\ Running
    BY DEF HotKeyEvent, Runs, Running
  <1>3. CASE e.of = "mainMenu"
    BY <1>1, <1>3, QuitKeyed
  <1>4. ASSUME e.of # "mainMenu" PROVE world' \in Worlds
    <2>0. world \in Worlds
      BY DEF Keyed
    <2>1. (~world.save) \in BOOLEAN /\ (~world.pause) \in BOOLEAN
      OBVIOUS
    <2>2. /\ [world EXCEPT !.save = ~@] \in Worlds /\ [world EXCEPT !.pause = ~@] \in Worlds
          /\ [world EXCEPT !.yes = TRUE] \in Worlds /\ [world EXCEPT !.yes = FALSE] \in Worlds
          /\ [world EXCEPT !.chat = TRUE] \in Worlds /\ [world EXCEPT !.chat = FALSE] \in Worlds
      BY <2>0, <2>1 DEF Worlds
    <2>3. \/ SwitchSave \/ AskToQuit \/ NotToQuit \/ ChatEnter \/ ChatDisable \/ SwitchPauzed
          \/ UNCHANGED <<world, hot>>
      BY <1>1, <1>4 DEF Handler
    <2> QED BY <2>0, <2>2, <2>3 DEF SwitchSave, AskToQuit, NotToQuit, ChatEnter, ChatDisable, SwitchPauzed
  <1>5. CASE e.of # "mainMenu" /\ overlap
    BY <1>1, <1>4, <1>5 DEF Keyed
  <1>6. CASE e.of # "mainMenu" /\ ~overlap /\ screen # "world"
    <2>1. hot = [keys |-> Expected, failed |-> FALSE] /\ world \in Worlds
      BY <1>2, <1>6 DEF Keyed
    <2>2. (Expected = <<Entry("ESC", screen), Screenshot>> /\ screen \in Menus) \/ Expected = <<Screenshot>>
      BY <1>6 DEF Expected
    <2>3. ToSet(hot.keys) \subseteq {Screenshot} \cup {Entry("ESC", name) : name \in Menus}
      BY <2>1, <2>2 DEF ToSet
    <2>4. e.of \in {"screen"} \cup Menus
      BY <2>3 DEF Pressed, Screenshot, Entry
    <2>5. UNCHANGED <<world, hot>>
      BY <1>1, <1>6, <2>4, MenuNames DEF Handler
    <2>6. phase' = "run"
      BY <1>1, <1>6, <2>1, <2>4, <2>5, MenuNames DEF Fate
    <2> QED BY <1>1, <1>2, <1>6, <2>1, <2>5, <2>6, KeysStay
  <1>7. CASE e.of # "mainMenu" /\ ~overlap /\ screen = "world"
    <2>1. world \in Worlds /\ Dialogs /\ hot = [keys |-> InPlay(world), failed |-> FALSE] /\ hot.keys = InPlay(world)
      BY <1>2, <1>7, KeyedInGame
    <2>2. /\ e.of = "world" => NoneOpen(world)
          /\ e.of = "yesno" => world.yes /\ ~world.save /\ ~world.chat
          /\ e.of = "save" => world.net = "none"
          /\ e.of = "chat" => world.net # "none" /\ ~world.chat
          /\ e.of = "chatoff" => world.net # "none" /\ world.chat
      BY <2>1, WhoIsPressed
    <2> DEFINE u1 == [world EXCEPT !.save = ~@]
               u2 == [world EXCEPT !.yes = TRUE]
               u3 == [world EXCEPT !.yes = FALSE]
               u4 == [world EXCEPT !.chat = TRUE]
               u5 == [world EXCEPT !.chat = FALSE]
    <2>3. ASSUME NEW u \in Worlds, u.save => u.net = "none", u.chat => u.net # "none",
                 world' = u, hot' = [keys |-> InPlay(u), failed |-> FALSE]
          PROVE  Keyed'
      <3>1. hot'.failed = FALSE
        BY <2>3
      <3>2. phase' = "run"
        BY <1>1, <1>7, <3>1 DEF Fate
      <3>3. Dialogs'
        BY <2>3 DEF Dialogs
      <3> QED BY <1>1, <1>2, <1>7, <2>3, <3>2, <3>3, KeyedAfter
    <2>4. CASE e.of = "save"
      <3>1. SwitchSave /\ ~world.chat
        BY <1>1, <2>1, <2>2, <2>4 DEF Handler, Dialogs
      <3>2. CASE world.save
        <4> DEFINE u == [world EXCEPT !.save = FALSE]
        <4>1. u \in Worlds /\ u.save = FALSE /\ u.chat = world.chat /\ u.net = world.net
          BY <2>1, FieldsOf
        <4>2. u1 = u
          BY <3>2
        <4>3. Dismiss(hot) = [keys |-> InPlay(u), failed |-> FALSE]
          BY <2>1, <3>1, <3>2, Closes
        <4> HIDE DEF u
        <4>4. world' = u /\ hot' = [keys |-> InPlay(u), failed |-> FALSE]
          BY <3>1, <3>2, <4>2, <4>3 DEF SwitchSave
        <4> HIDE DEF u1
        <4> QED BY <2>3, <3>1, <4>1, <4>4
      <3>3. CASE ~world.save
        <4> DEFINE u == [world EXCEPT !.save = TRUE]
        <4>1. u \in Worlds /\ u.save = TRUE /\ u.chat = world.chat /\ u.net = world.net
          BY <2>1, FieldsOf
        <4>2. u1 = u
          BY <3>3
        <4>3. Register(hot, "ESC", "save") = [keys |-> InPlay(u), failed |-> FALSE]
          BY <2>1, <3>1, <3>3, Opens
        <4> HIDE DEF u
        <4>4. world' = u /\ hot' = [keys |-> InPlay(u), failed |-> FALSE]
          BY <3>1, <3>3, <4>2, <4>3 DEF SwitchSave
        <4> HIDE DEF u1
        <4> QED BY <2>2, <2>3, <2>4, <3>1, <4>1, <4>4
      <3> QED BY <3>2, <3>3
    <2>5. CASE e.of = "world"
      <3>1. AskToQuit /\ ~world.yes /\ ~world.save /\ ~world.chat
        BY <1>1, <2>2, <2>5 DEF Handler, NoneOpen
      <3>2. u2 \in Worlds /\ u2.save = world.save /\ u2.chat = world.chat /\ u2.net = world.net
        BY <2>1, FieldsOf
      <3>3. Register(hot, "ESC", "yesno") = [keys |-> InPlay(u2), failed |-> FALSE]
        BY <2>1, <3>1, Opens
      <3>4. world' = u2 /\ hot' = [keys |-> InPlay(u2), failed |-> FALSE]
        BY <3>1, <3>3 DEF AskToQuit
      <3> HIDE DEF u2
      <3> QED BY <2>3, <3>1, <3>2, <3>4
    <2>6. CASE e.of = "yesno"
      <3>1. NotToQuit /\ world.yes /\ ~world.save /\ ~world.chat
        BY <1>1, <2>2, <2>6 DEF Handler
      <3>2. u3 \in Worlds /\ u3.save = world.save /\ u3.chat = world.chat /\ u3.net = world.net
        BY <2>1, FieldsOf
      <3>3. Dismiss(hot) = [keys |-> InPlay(u3), failed |-> FALSE]
        BY <2>1, <3>1, Closes
      <3>4. world' = u3 /\ hot' = [keys |-> InPlay(u3), failed |-> FALSE]
        BY <3>1, <3>3 DEF NotToQuit
      <3> HIDE DEF u3
      <3> QED BY <2>3, <3>1, <3>2, <3>4
    <2>7. CASE e.of = "chat"
      <3>1. ChatEnter /\ ~world.chat /\ ~world.save /\ world.net # "none"
        BY <1>1, <2>1, <2>2, <2>7 DEF Handler, Dialogs
      <3>2. u4 \in Worlds /\ u4.save = world.save /\ u4.chat = TRUE /\ u4.net = world.net
        BY <2>1, FieldsOf
      <3>3. Register(SetActive(hot, {"RETURN", "p"}, FALSE), "ESC", "chatoff") = [keys |-> InPlay(u4), failed |-> FALSE]
        BY <2>1, <3>1, EnterChat
      <3>4. world' = u4 /\ hot' = [keys |-> InPlay(u4), failed |-> FALSE]
        BY <3>1, <3>3 DEF ChatEnter
      <3> HIDE DEF u4
      <3> QED BY <2>3, <3>1, <3>2, <3>4
    <2>8. CASE e.of = "chatoff"
      <3>1. ChatDisable /\ world.chat /\ world.net # "none" /\ ~world.save
        BY <1>1, <2>1, <2>2, <2>8 DEF Handler, Dialogs
      <3>2. u5 \in Worlds /\ u5.save = world.save /\ u5.chat = FALSE /\ u5.net = world.net
        BY <2>1, FieldsOf
      <3>3. Dismiss(SetActive(hot, {"RETURN", "p"}, TRUE)) = [keys |-> InPlay(u5), failed |-> FALSE]
        BY <2>1, <3>1, LeaveChat
      <3>4. world' = u5 /\ hot' = [keys |-> InPlay(u5), failed |-> FALSE]
        BY <3>1, <3>3 DEF ChatDisable
      <3> HIDE DEF u5
      <3> QED BY <2>3, <3>1, <3>2, <3>4
    <2>9. CASE e.of \notin {"save", "world", "yesno", "chat", "chatoff"}
      <3>1. SwitchPauzed \/ UNCHANGED <<world, hot>>
        BY <1>1, <1>7, <2>9 DEF Handler
      <3>2. /\ world' \in Worlds /\ world'.net = world.net /\ world'.chat = world.chat
            /\ world'.yes = world.yes /\ world'.save = world.save /\ hot' = hot
        BY <1>4, <1>7, <2>1, <3>1 DEF SwitchPauzed, Worlds
      <3>3. hot'.failed = FALSE
        BY <2>1, <3>2
      <3>4. phase' = "run"
        BY <1>1, <1>7, <3>3 DEF Fate
      <3> QED BY <1>1, <1>2, <1>7, <3>2, <3>4, KeysStay
    <2> QED BY <2>4, <2>5, <2>6, <2>7, <2>8, <2>9
  <1> QED BY <1>3, <1>5, <1>6, <1>7

\* Every step leaves the entries of the screen and of its open dialogs.
LEMMA KeyedStep ==
  ASSUME Keyed, Ticks, AtRest, [Next]_program
  PROVE  Keyed'
  <1> USE DEF Runs, Running
  <1>1. world \in Worlds
    BY DEF Keyed
  <1>2. ASSUME phase # "run", phase' # "run", UNCHANGED <<world, overlap>>, phase' \in {phase, "broken archive"} PROVE Keyed'
    BY <1>2 DEF Keyed, Dialogs
  <1>3. ASSUME phase = "run", at # "start", at' # "start", UNCHANGED <<screen, hot, overlap, world>>,
               phase' \notin {"no key", "freed"}
        PROVE  Keyed'
    BY <1>1, <1>3, KeysStay
  <1>4. CASE MainMenuEvent \/ SettingEvent \/ SettingKeyEvent \/ TableEvent \/ CreditsEvent
               \/ AnalyzeEvent \/ GameTypeEvent \/ ChoiceArenaEvent \/ BrowserEvent
    <2>1. UNCHANGED <<world, overlap>> \/ GameQuit
      BY <1>4 DEF MainMenuEvent, SettingEvent, SettingKeyEvent, TableEvent, CreditsEvent, AnalyzeEvent,
           GameTypeEvent, ChoiceArenaEvent, BrowserEvent, Leads, SelectLine, PlayServer, Unchanged
    <2>2. ASSUME NEW name \in Menus, NEW goes, Menu(name, goes), UNCHANGED <<world, overlap>> PROVE Keyed'
      BY <2>2, <1>3 DEF Menu
    <2> QED BY <1>4, <2>1, <2>2, MenuSteps, QuitKeyed
  <1>5. CASE InitGame
    <2>1. at = "start" /\ hot = [keys |-> <<Entry("F1", "screen")>>, failed |-> FALSE] /\ world = NoWorld
          /\ UNCHANGED <<at, hot, world, screen>> /\ phase' \in {"run", "broken archive"}
      BY <1>5 DEF InitGame, AtRest, OnlyTick
    <2>2. Dialogs'
      BY <2>1, NoDialogYet DEF Dialogs, NoneOpen
    <2> QED BY <2>1, <2>2, NoDialogYet DEF Keyed, Screenshot, Dialogs
  <1>6. CASE WorldWaits
    <2>1. PICK begins \in BOOLEAN, ended \in BOOLEAN : world' = [world EXCEPT !.here = begins, !.over = @ \/ ended]
      BY <1>6 DEF WorldWaits
    <2>2. (world.over \/ ended) \in BOOLEAN
      OBVIOUS
    <2>3. world' = [world EXCEPT !.here = begins, !.over = world.over \/ ended]
      BY <2>1
    <2>4. /\ world' \in Worlds /\ world'.net = world.net /\ world'.chat = world.chat
          /\ world'.yes = world.yes /\ world'.save = world.save
      BY <1>1, <2>2, <2>3 DEF Worlds
    <2>5. phase' \notin {"no key", "freed"} /\ Running /\ at # "start" /\ at' # "start" /\ UNCHANGED <<screen, hot, overlap>>
      BY <1>6 DEF WorldWaits, InGame
    <2> QED BY <2>4, <2>5, KeysStay
  <1>7. CASE WorldEvent
    <2>1. Running /\ at # "start" /\ at' # "start" /\ screen = "world" /\ screen' = "world"
      BY <1>7 DEF WorldEvent, InGame
    <2>2. PICK ended \in BOOLEAN :
            LET w == [world EXCEPT !.over = @ \/ ended]
                f == IF w.over THEN "analyze" ELSE future IN
              /\ IF Destroyed(w)
                 THEN phase' = "freed" /\ world' = w /\ future' = f /\ UNCHANGED <<hot, overlap>>
                 ELSE \/ world' = w /\ future' = f /\ UNCHANGED <<phase, hot, overlap>>
                      \/ w.save /\ SaveDialogEvent(w, f)
                      \/ w.yes /\ YesNoDialogEvent(w, f)
      BY <1>7 DEF WorldEvent
    <2> DEFINE w == [world EXCEPT !.over = world.over \/ ended]
               f == IF w.over THEN "analyze" ELSE future
    <2>3. \/ phase' = "freed" /\ world' = w /\ Destroyed(w) /\ UNCHANGED overlap
          \/ world' = w /\ UNCHANGED <<phase, hot, overlap>>
          \/ w.save /\ SaveDialogEvent(w, f)
          \/ w.yes /\ YesNoDialogEvent(w, f)
      BY <2>2
    <2>4. /\ w \in Worlds /\ w.net = world.net /\ w.chat = world.chat
          /\ w.yes = world.yes /\ w.save = world.save
      <3>1. (world.over \/ ended) \in BOOLEAN
        OBVIOUS
      <3> QED BY <1>1, <3>1 DEF Worlds
    <2> HIDE DEF w, f
    <2>5. world' \in Worlds
      <3>1. CASE world' = w
        BY <2>4, <3>1
      <3>2. CASE SaveDialogEvent(w, f)
        <4>1. world' = [w EXCEPT !.save = FALSE]
          BY <3>2 DEF SaveDialogEvent
        <4> QED BY <2>4, <4>1, FieldsOf
      <3>3. CASE YesNoDialogEvent(w, f)
        <4>1. PICK yes \in BOOLEAN : world' = [w EXCEPT !.yes = FALSE, !.over = @ \/ yes]
          BY <3>3 DEF YesNoDialogEvent
        <4>2. (w.over \/ yes) \in BOOLEAN
          OBVIOUS
        <4> QED BY <2>4, <4>1, <4>2 DEF Worlds
      <3> QED BY <2>3, <3>1, <3>2, <3>3
    <2>6. CASE overlap'
      BY <2>5, <2>6 DEF Keyed
    <2>7. CASE ~overlap' /\ ~overlap
      <3>1. world \in Worlds /\ Dialogs /\ hot = [keys |-> InPlay(world), failed |-> FALSE]
        BY <2>1, <2>7, KeyedInGame
      <3>2. InPlay(w) = InPlay(world) /\ hot = [keys |-> InPlay(w), failed |-> FALSE]
        BY <2>4, <3>1, SameKeys
      <3>3. CASE phase' = "freed" /\ world' = w /\ Destroyed(w)
        BY <2>4, <3>1, <3>3 DEF Destroyed, Dialogs
      <3>4. CASE world' = w /\ UNCHANGED <<phase, hot, overlap>>
        BY <2>1, <2>4, <2>7, <3>4, KeysStay
      <3>5. CASE w.save /\ SaveDialogEvent(w, f)
        <4> DEFINE u == [w EXCEPT !.save = FALSE]
        <4>1. u \in Worlds /\ u.save = FALSE /\ u.yes = w.yes /\ u.chat = w.chat /\ u.net = w.net
          BY <2>4, FieldsOf
        <4>2. ~w.chat
          BY <2>4, <3>1, <3>5 DEF Dialogs
        <4>3. Dismiss(hot) = [keys |-> InPlay(u), failed |-> FALSE]
          BY <2>4, <3>2, <3>5, <4>2, Closes
        <4> HIDE DEF u
        <4>4. world' = u /\ hot' = [keys |-> InPlay(u), failed |-> FALSE]
          BY <3>5, <4>3 DEF SaveDialogEvent, u
        <4>5. hot'.failed = FALSE
          BY <4>4
        <4>6. phase' \in {"no arena", "run"}
          BY <3>5, <4>5 DEF SaveDialogEvent, Fate
        <4>7. Dialogs'
          BY <4>1, <4>2, <4>4 DEF Dialogs
        <4> QED BY <2>1, <4>1, <4>4, <4>6, <4>7, KeyedAfter
      <3>6. CASE w.yes /\ YesNoDialogEvent(w, f)
        <4>1. ~w.save /\ ~w.chat
          BY <2>7, <3>6 DEF YesNoDialogEvent
        <4>2. PICK yes \in BOOLEAN : world' = [w EXCEPT !.yes = FALSE, !.over = @ \/ yes]
          BY <3>6 DEF YesNoDialogEvent
        <4>3. (w.over \/ yes) \in BOOLEAN
          OBVIOUS
        <4> DEFINE u == [w EXCEPT !.yes = FALSE]
        <4>4. u \in Worlds /\ u.yes = FALSE /\ u.save = w.save /\ u.chat = w.chat /\ u.net = w.net
          BY <2>4, FieldsOf
        <4>5. world'.yes = FALSE /\ world'.save = w.save /\ world'.chat = w.chat /\ world'.net = w.net
          BY <2>4, <4>2, <4>3 DEF Worlds
        <4>6. Dismiss(hot) = [keys |-> InPlay(u), failed |-> FALSE]
          BY <2>4, <3>2, <3>6, <4>1, Closes
        <4> HIDE DEF u
        <4>7. InPlay(world') = InPlay(u)
          BY <4>4, <4>5, SameKeys
        <4>8. hot' = [keys |-> InPlay(world'), failed |-> FALSE]
          BY <3>6, <4>6, <4>7 DEF YesNoDialogEvent
        <4>9. hot'.failed = FALSE
          BY <4>8
        <4>10. phase' = "run"
          BY <3>6, <4>9 DEF YesNoDialogEvent, Fate
        <4>11. Dialogs'
          BY <2>5, <4>1, <4>5 DEF Dialogs
        <4> QED BY <2>1, <2>5, <4>8, <4>10, <4>11, KeyedAfter
      <3> QED BY <2>3, <3>3, <3>4, <3>5, <3>6
    <2>8. overlap => overlap'
      BY <2>3 DEF SaveDialogEvent, YesNoDialogEvent
    <2> QED BY <2>6, <2>7, <2>8
  <1>8. CASE DownArenaEvent
    <2>1. at # "start" /\ at' # "start" /\ phase = "run" /\ phase' = "run" /\ UNCHANGED <<screen, hot, overlap, world>>
      BY <1>8 DEF DownArenaEvent, EventStatus, EventRecvBuffer, Finish, Received, Again, Unchanged
    <2> QED BY <2>1, <1>3
  <1>9. CASE DownArenaFails
    BY <1>9, <1>3 DEF DownArenaFails, OnlyTick
  <1>10. CASE HotKeyEvent
    BY <1>10, HotKeyEventKeyed
  <1>11. CASE NoKey \/ SwitchNone
    BY <1>11, <1>3 DEF NoKey, NoHotKey, SwitchNone, NoSwitch, OnlyTick
  <1>12. CASE NetworkStep \/ DownServerStep
    <2>1. UNCHANGED <<phase, at, screen, hot, overlap, world>>
      BY <1>12 DEF NetworkStep, DownServerStep, LosesMail, AnswersStatus, ServerDies, ServerRound, Tick, Unchanged
    <2> QED BY <2>1 DEF Keyed, Dialogs, Expected
  <1>13. CASE UNCHANGED program
    BY <1>13 DEF Keyed, Dialogs, Expected, program
  <1>14. CASE MenuStops \/ BrowserStops
    <2>1. PICK name \in Menus : Stops(name, Unregister(hot, {"ESC"})) /\ UNCHANGED <<world, overlap>>
      BY <1>14, MenuNames DEF MenuStops, BrowserStops, Unchanged
    <2>2. CASE overlap
      BY <1>1, <2>1, <2>2 DEF Keyed
    <2>3. CASE ~overlap
      <3>1. screen = name /\ at = "stop" /\ phase = "run" /\ at' = "start" /\ name # "world"
        BY <2>1, MenuNames DEF Stops
      <3>2. hot = [keys |-> <<Entry("ESC", name), Screenshot>>, failed |-> FALSE] /\ NoneOpen(world) /\ Dialogs
        BY <2>3, <3>1 DEF Keyed, Expected
      <3>3. hot' = [keys |-> <<Screenshot>>, failed |-> FALSE]
        BY <2>1, <3>2, OneEntry DEF Stops
      <3>4. Unregister(hot, {"ESC"}).failed = FALSE
        BY <3>2, OneEntry
      <3>5. phase' = "run"
        BY <2>1, <3>1, <3>4 DEF Stops
      <3> QED BY <2>1, <3>1, <3>2, <3>3, <3>5 DEF Keyed, Dialogs
    <2> QED BY <2>2, <2>3
  <1>15. CASE MenuStarts \/ BrowserStarts
    <2>1. PICK name \in Menus : Starts(name, Register(hot, "ESC", name)) /\ UNCHANGED <<phase, world, overlap>>
      BY <1>15, MenuNames DEF MenuStarts, BrowserStarts, Unchanged
    <2>2. CASE overlap
      BY <1>1, <2>1, <2>2 DEF Keyed
    <2>3. CASE ~overlap
      <3>1. at = "start" /\ phase = "run" /\ phase' = "run" /\ screen' = name /\ at' = "event" /\ name # "world"
        BY <2>1, MenuNames DEF Starts
      <3>2. hot = [keys |-> <<Screenshot>>, failed |-> FALSE] /\ NoneOpen(world) /\ Dialogs
        BY <2>3, <3>1 DEF Keyed
      <3>3. hot' = [keys |-> <<Entry("ESC", name), Screenshot>>, failed |-> FALSE]
        BY <2>1, <3>2, OneEntry DEF Starts
      <3>4. Expected' = <<Entry("ESC", name), Screenshot>>
        BY <3>1 DEF Expected
      <3> QED BY <2>1, <3>1, <3>2, <3>3, <3>4 DEF Keyed, Dialogs
    <2> QED BY <2>2, <2>3
  <1>16. CASE DownArenaStops
    <2>1. Stops("downArena", hot) /\ UNCHANGED <<world, overlap>>
      BY <1>16 DEF DownArenaStops, Unchanged
    <2>2. CASE overlap
      BY <1>1, <2>1, <2>2 DEF Keyed
    <2>3. CASE ~overlap
      <3>1. screen = "downArena" /\ at = "stop" /\ phase = "run" /\ at' = "start" /\ hot' = hot
        BY <2>1 DEF Stops
      <3>2. hot = [keys |-> <<Screenshot>>, failed |-> FALSE] /\ NoneOpen(world) /\ Dialogs
        BY <2>3, <3>1, MenuNames DEF Keyed, Expected
      <3>3. hot.failed = FALSE
        BY <3>2
      <3>4. phase' = "run"
        BY <2>1, <3>1, <3>3 DEF Stops
      <3> QED BY <2>1, <3>1, <3>2, <3>4 DEF Keyed, Dialogs
    <2> QED BY <2>2, <2>3
  <1>17. CASE DownArenaStarts
    <2>1. Starts("downArena", hot) /\ UNCHANGED <<phase, world, overlap>>
      BY <1>17 DEF DownArenaStarts, Unchanged
    <2>2. CASE overlap
      BY <1>1, <2>1, <2>2 DEF Keyed
    <2>3. CASE ~overlap
      <3>1. screen' = "downArena" /\ at = "start" /\ phase = "run" /\ at' = "event" /\ hot' = hot /\ phase' = "run"
        BY <2>1 DEF Starts
      <3>2. hot = [keys |-> <<Screenshot>>, failed |-> FALSE] /\ NoneOpen(world) /\ Dialogs
        BY <2>3, <3>1 DEF Keyed
      <3>3. Expected' = <<Screenshot>>
        BY <3>1, MenuNames DEF Expected
      <3> QED BY <2>1, <3>1, <3>2, <3>3 DEF Keyed, Dialogs
    <2> QED BY <2>2, <2>3
  <1>18. CASE StoptWorld
    <2>1. Stops("world", Unregister(hot, ToSet(WorldKeys(world.net)))) /\ world' = [world EXCEPT !.net = "none"]
          /\ overlap' = (overlap \/ world.yes \/ world.save \/ world.chat)
      BY <1>18 DEF StoptWorld
    <2>2. /\ world' \in Worlds /\ world'.net = "none" /\ world'.chat = world.chat
          /\ world'.yes = world.yes /\ world'.save = world.save
      BY <1>1, <2>1, NewWorlds
    <2>3. CASE overlap'
      BY <2>2, <2>3 DEF Keyed
    <2>4. CASE ~overlap'
      <3>1. ~overlap /\ NoneOpen(world)
        BY <2>1, <2>4 DEF NoneOpen
      <3>2. screen = "world" /\ at = "stop" /\ phase = "run" /\ at' = "start"
        BY <2>1 DEF Stops
      <3>3. hot = [keys |-> InPlay(world), failed |-> FALSE] /\ InPlay(world) = Plain(world)
        BY <3>1, <3>2, KeyedInGame DEF InPlay, Queried, NoneOpen
      <3>4. Unregister(hot, ToSet(WorldKeys(world.net))) = [keys |-> <<Screenshot>>, failed |-> FALSE]
        BY <1>1, <3>1, <3>3, UnregisterGame DEF NoneOpen
      <3>5. hot' = [keys |-> <<Screenshot>>, failed |-> FALSE] /\ Unregister(hot, ToSet(WorldKeys(world.net))).failed = FALSE
        BY <2>1, <3>4 DEF Stops
      <3>6. phase' = "run"
        BY <2>1, <3>2, <3>5 DEF Stops
      <3> QED BY <2>2, <3>1, <3>2, <3>5, <3>6 DEF Keyed, Dialogs, NoneOpen
    <2> QED BY <2>3, <2>4
  <1>19. CASE StartWorld
    <2>1. PICK online \in BOOLEAN, readable \in BOOLEAN :
            LET net == NetMultiplayerInit(online) IN
              /\ world' = [NoWorld EXCEPT !.net = net, !.over = ~online,
                             !.save = world.save /\ net # "none", !.here = HasArena(net, readable)]
              /\ Starts("world", [hot EXCEPT !.keys = Entries(WorldKeys(net)) \o @])
              /\ phase' = IF NeedsChoice(net) /\ ~choice.chosen THEN "no arena" ELSE phase
      BY <1>19 DEF StartWorld
    <2> DEFINE net == NetMultiplayerInit(online)
    <2>2. net \in {"none", "server", "client"}
      BY DEF NetMultiplayerInit
    <2>3. HasArena(net, readable) \in BOOLEAN
      BY DEF HasArena
    <2>4. /\ world' = [NoWorld EXCEPT !.net = net, !.over = ~online,
                         !.save = world.save /\ net # "none", !.here = HasArena(net, readable)]
          /\ Starts("world", [hot EXCEPT !.keys = Entries(WorldKeys(net)) \o @])
          /\ phase' \in {"no arena", "run"} /\ overlap' = overlap /\ phase = "run"
      BY <2>1, <1>19 DEF Starts, StartWorld
    <2> HIDE DEF net
    <2>5. /\ world' \in Worlds /\ world'.net = net /\ ~world'.chat /\ ~world'.yes
          /\ world'.save = (world.save /\ net # "none")
      <3>1. (~online) \in BOOLEAN /\ (world.save /\ net # "none") \in BOOLEAN
        OBVIOUS
      <3> QED BY <2>2, <2>3, <2>4, <3>1 DEF Worlds, NoWorld
    <2>6. CASE overlap
      BY <2>4, <2>5, <2>6 DEF Keyed
    <2>7. CASE ~overlap
      <3>1. hot = [keys |-> <<Screenshot>>, failed |-> FALSE] /\ NoneOpen(world)
        BY <2>4, <2>7 DEF Keyed, Starts
      <3>2. NoneOpen(world')
        BY <2>5, <3>1 DEF NoneOpen
      <3>3. Entries(WorldKeys(net)) \o <<Screenshot>> = InPlay(world')
        BY <2>5, <3>2, GameBegins
      <3> DEFINE q == <<Screenshot>>
                 r == Entries(WorldKeys(net)) \o q
      <3>4. hot \in [keys : Seq(HotKeys), failed : BOOLEAN] /\ hot.keys = q /\ hot.failed = FALSE
        <4>1. Screenshot \in HotKeys
          BY DEF Screenshot, Entry, HotKeys
        <4> QED BY <3>1, <4>1
      <3>5. hot' = [hot EXCEPT !.keys = r] /\ screen' = "world" /\ at' = "event"
        <4>1. hot' = [hot EXCEPT !.keys = Entries(WorldKeys(net)) \o hot.keys] /\ screen' = "world" /\ at' = "event"
          BY <2>4 DEF Starts
        <4> HIDE DEF q
        <4> QED BY <3>4, <4>1
      <3> HIDE DEF q
      <3>6. r = InPlay(world') /\ r \in Seq(HotKeys)
        BY <2>5, <3>3, EntryLists DEF q
      <3> HIDE DEF r
      <3>7. hot' = [keys |-> InPlay(world'), failed |-> FALSE]
        BY <3>4, <3>5, <3>6, KeysOf
      <3>8. Expected' = InPlay(world')
        BY <3>5, MenuNames DEF Expected
      <3>9. Dialogs'
        BY <2>5, <3>2 DEF Dialogs, NoneOpen
      <3> QED BY <2>4, <2>5, <3>2, <3>5, <3>7, <3>8, <3>9 DEF Keyed
    <2> QED BY <2>6, <2>7
  <1> QED BY <1>4, <1>5, <1>6, <1>7, <1>8, <1>9, <1>10, <1>11, <1>12, <1>13, <1>14, <1>15, <1>16, <1>17, <1>18, <1>19,
             QuitKeyed DEF Next, ProgramStep, WindowCloses

\* A new entry before others that differ from it and from each other.
LEMMA OneMore ==
  ASSUME NEW q \in Seq(HotKeys), NEW a \in HotKeys, IsInjective(q), \A i \in DOMAIN q : q[i] # a
  PROVE  IsInjective(<<a>> \o q) /\ ToSet(<<a>> \o q) = {a} \cup ToSet(q)
  <1> DEFINE l == <<a>> \o q
  <1>1. DOMAIN l = 1 .. 1 + Len(q) /\ l[1] = a /\ \A i \in 1 .. Len(q) : l[1 + i] = q[i]
    OBVIOUS
  <1>2. DOMAIN q = 1 .. Len(q) /\ Len(q) \in Nat
    OBVIOUS
  <1> HIDE DEF l
  <1>3. \A k \in DOMAIN l : k = 1 \/ (k - 1 \in DOMAIN q /\ l[k] = q[k - 1])
    <2>1. TAKE k \in DOMAIN l
    <2>2. k = 1 \/ (k - 1 \in 1 .. Len(q) /\ k = 1 + (k - 1))
      BY <1>1, <1>2
    <2> QED BY <1>1, <1>2, <2>2
  <1>4. \A i \in DOMAIN q : 1 + i \in DOMAIN l /\ l[1 + i] = q[i]
    BY <1>1, <1>2
  <1>5. 1 \in DOMAIN l
    BY <1>1, <1>2
  <1>6. IsInjective(l)
    <2>1. SUFFICES ASSUME NEW j \in DOMAIN l, NEW k \in DOMAIN l, l[j] = l[k] PROVE j = k
      BY DEF IsInjective
    <2>2. CASE j = 1 \/ k = 1
      BY <1>1, <1>3, <2>1, <2>2
    <2>3. CASE j # 1 /\ k # 1
      <3>1. j - 1 = k - 1
        BY <1>3, <2>1, <2>3 DEF IsInjective
      <3> QED BY <1>1, <1>2, <3>1
    <2> QED BY <2>2, <2>3
  <1>7. ToSet(l) = {l[i] : i \in DOMAIN l} /\ ToSet(q) = {q[i] : i \in DOMAIN q}
    BY DEF ToSet
  <1>8. ToSet(l) = {a} \cup ToSet(q)
    BY <1>1, <1>3, <1>4, <1>5, <1>7
  <1> QED BY <1>6, <1>8 DEF l

\* The entries of a game without dialogs.
GameKeys(w) ==
    {[Entry(key, Handlers[key]) EXCEPT !.on = ~(w.chat /\ key \in {"RETURN", "p"})] : key \in ToSet(WorldKeys(w.net))}

\* The entries of a game, turned on or off.
LEMMA Switched ==
  ASSUME NEW key \in {"F2", "RETURN", "p", "F3", "ESC"}, NEW of \in {"save", "chat", "pause", "split", "world"}, NEW v
  PROVE  [Entry(key, of) EXCEPT !.on = v] = [key |-> key, of |-> of, on |-> v]
  BY DEF Entry

\* The entries of a game without dialogs, each once.
LEMMA PlainFits ==
  ASSUME NEW w \in Worlds, w.chat => w.net # "none"
  PROVE  /\ IsInjective(Plain(w)) /\ ToSet(Plain(w)) = {Screenshot} \cup GameKeys(w)
         /\ \A i \in DOMAIN Plain(w) : /\ Plain(w)[i].of \in {"save", "chat", "pause", "split", "world", "screen"}
                                       /\ Plain(w)[i].of = "save" => Plain(w)[i].key = "F2"
  <1> DEFINE last == IF w.net = "none" THEN "F2" ELSE "RETURN"
             of == IF w.net = "none" THEN "save" ELSE "chat"
             a == [key |-> last, of |-> of, on |-> ~w.chat]
             b == [key |-> "p", of |-> "pause", on |-> ~w.chat]
             c == Entry("F3", "split")
             e == Entry("ESC", "world")
  <1>1. w.chat \in BOOLEAN
    BY DEF Worlds
  <1>2. Plain(w) = <<a, b, c, e, Screenshot>>
    BY DEF Plain
  <1>3. a.of \in {"save", "chat"} /\ (a.of = "save" => a.key = "F2") /\ b.of = "pause" /\ c.of = "split" /\ e.of = "world" /\ Screenshot.of = "screen"
    BY DEF Entry, Screenshot
  <1>4. GameKeys(w) = {a, b, c, e}
    <2> DEFINE On(key) == [Entry(key, Handlers[key]) EXCEPT !.on = ~(w.chat /\ key \in {"RETURN", "p"})]
    <2>1. ToSet(WorldKeys(w.net)) = {last, "p", "F3", "ESC"}
      <3>1. WorldKeys(w.net) = <<last, "p", "F3", "ESC">>
        BY DEF WorldKeys
      <3> HIDE DEF last
      <3> QED BY <3>1 DEF ToSet
    <2>2. Handlers["p"] = "pause" /\ Handlers["F3"] = "split" /\ Handlers["ESC"] = "world" /\ Handlers[last] = of
      BY DEF Handlers
    <2>3. /\ (w.chat /\ "p" \in {"RETURN", "p"}) = w.chat /\ (w.chat /\ "F3" \in {"RETURN", "p"}) = FALSE
          /\ (w.chat /\ "ESC" \in {"RETURN", "p"}) = FALSE
      BY <1>1
    <2>4. On("p") = b /\ On("F3") = c /\ On("ESC") = e
      <3>1. On("p") = [Entry("p", "pause") EXCEPT !.on = ~w.chat]
        BY <2>2, <2>3
      <3>2. On("F3") = [Entry("F3", "split") EXCEPT !.on = ~FALSE]
        BY <2>2, <2>3
      <3>3. On("ESC") = [Entry("ESC", "world") EXCEPT !.on = ~FALSE]
        BY <2>2, <2>3
      <3> QED BY <1>1, <3>1, <3>2, <3>3, Switched DEF Entry
    <2>6. On(last) = a
      <3>1. (~(w.chat /\ last \in {"RETURN", "p"})) = (~w.chat)
        BY <1>1
      <3>2. On(last) = [Entry(last, of) EXCEPT !.on = ~w.chat]
        BY <2>2, <3>1
      <3>3. last \in {"F2", "RETURN"} /\ of \in {"save", "chat"}
        OBVIOUS
      <3> HIDE DEF last, of
      <3> QED BY <3>2, <3>3, Switched
    <2>5. GameKeys(w) = {On(key) : key \in {last, "p", "F3", "ESC"}}
      BY <2>1 DEF GameKeys
    <2> HIDE DEF a, b, c, e, On, last
    <2> QED BY <2>4, <2>5, <2>6
  <1> HIDE DEF a, b, c, e
  <1> DEFINE p == <<a, b, c, e, Screenshot>>
  <1>5. DOMAIN p = 1 .. 5 /\ p[1] = a /\ p[2] = b /\ p[3] = c /\ p[4] = e /\ p[5] = Screenshot
    OBVIOUS
  <1> HIDE DEF p
  <1>6. \A k \in DOMAIN p : k = 1 \/ k = 2 \/ k = 3 \/ k = 4 \/ k = 5
    BY <1>5
  <1>7. IsInjective(p)
    <2>1. SUFFICES ASSUME NEW j \in DOMAIN p, NEW k \in DOMAIN p, p[j] = p[k] PROVE j = k
      BY DEF IsInjective
    <2>2. p[j].of = p[k].of
      BY <2>1
    <2> QED BY <1>3, <1>5, <1>6, <2>2
  <1>8. ToSet(p) = {a, b, c, e, Screenshot}
    BY <1>5, <1>6 DEF ToSet
  <1>9. \A i \in DOMAIN p : /\ p[i].of \in {"save", "chat", "pause", "split", "world", "screen"}
                            /\ p[i].of = "save" => p[i].key = "F2"
    BY <1>3, <1>5, <1>6
  <1> QED BY <1>2, <1>4, <1>7, <1>8, <1>9 DEF p

\* The entries of a game, each once.
LEMMA InPlayFits ==
  ASSUME NEW w \in Worlds, w.save => w.net = "none", w.chat => w.net # "none"
  PROVE  /\ IsInjective(InPlay(w))
         /\ ToSet(InPlay(w)) = {Screenshot} \cup GameKeys(w) \cup Only(w.yes, Entry("ESC", "yesno"))
                                 \cup Only(w.save, Entry("ESC", "save")) \cup Only(w.chat, Entry("ESC", "chatoff"))
  <1> DEFINE y == Entry("ESC", "yesno")
             v == Entry("ESC", "save")
             x == Entry("ESC", "chatoff")
  <1>1. y \in HotKeys /\ v \in HotKeys /\ x \in HotKeys /\ y.of = "yesno" /\ v.of = "save" /\ x.of = "chatoff" /\ v.key = "ESC"
    BY DEF Entry, HotKeys
  <1>2. Plain(w) \in Seq(HotKeys) /\ Queried(w) \in Seq(HotKeys)
    BY EntryLists
  <1> HIDE DEF y, v, x
  <1>3. /\ IsInjective(Queried(w)) /\ ToSet(Queried(w)) = {Screenshot} \cup GameKeys(w) \cup Only(w.yes, y)
        /\ \A i \in DOMAIN Queried(w) : Queried(w)[i] = y \/ \E j \in DOMAIN Plain(w) : Queried(w)[i] = Plain(w)[j]
    <2>1. CASE w.yes
      <3>1. Queried(w) = <<y>> \o Plain(w)
        BY <2>1 DEF Queried, y
      <3>2. IsInjective(<<y>> \o Plain(w)) /\ ToSet(<<y>> \o Plain(w)) = {y} \cup ToSet(Plain(w))
        <4>1. \A i \in DOMAIN Plain(w) : Plain(w)[i] # y
          BY <1>1, PlainFits
        <4> QED BY <1>1, <1>2, <4>1, PlainFits, OneMore
      <3>3. \A i \in DOMAIN Queried(w) : Queried(w)[i] = y \/ \E j \in DOMAIN Plain(w) : Queried(w)[i] = Plain(w)[j]
        BY <1>1, <1>2, <3>1, HeadOrRest
      <3> QED BY <2>1, <3>1, <3>2, <3>3, PlainFits DEF Only
    <2>2. CASE ~w.yes
      BY <2>2, PlainFits DEF Queried, Only
    <2> QED BY <2>1, <2>2
  <1>4. CASE w.save
    <2>1. \A i \in DOMAIN Queried(w) : Queried(w)[i] # v
      BY <1>1, <1>3, PlainFits
    <2>2. InPlay(w) = <<v>> \o Queried(w) /\ ~w.chat
      BY <1>4 DEF InPlay, v
    <2>3. IsInjective(<<v>> \o Queried(w)) /\ ToSet(<<v>> \o Queried(w)) = {v} \cup ToSet(Queried(w))
      BY <1>1, <1>2, <1>3, <2>1, OneMore
    <2> QED BY <1>3, <1>4, <2>2, <2>3 DEF Only, v, y
  <1>5. CASE ~w.save /\ w.chat
    <2>1. \A i \in DOMAIN Queried(w) : Queried(w)[i] # x
      BY <1>1, <1>3, PlainFits
    <2>2. InPlay(w) = <<x>> \o Queried(w)
      BY <1>5 DEF InPlay, x
    <2>3. IsInjective(<<x>> \o Queried(w)) /\ ToSet(<<x>> \o Queried(w)) = {x} \cup ToSet(Queried(w))
      BY <1>1, <1>2, <1>3, <2>1, OneMore
    <2> QED BY <1>3, <1>5, <2>2, <2>3 DEF Only, x, y
  <1>6. CASE ~w.save /\ ~w.chat
    BY <1>3, <1>6 DEF InPlay, Only, y
  <1> QED BY <1>4, <1>5, <1>6

\* The list in its order has the entries that it should have, each once.
LEMMA KeyedFits ==
  ASSUME Keyed
  PROVE  HotKeysFit
  <1>1. SUFFICES ASSUME ~overlap, Running, at # "start" PROVE IsInjective(hot.keys) /\ ToSet(hot.keys) = OwnKeys
    BY DEF HotKeysFit, Keyed
  <1>0. hot = [keys |-> Expected, failed |-> FALSE] /\ world \in Worlds /\ Dialogs
    BY <1>1 DEF Keyed
  <1>2. hot.keys = Expected /\ world \in Worlds /\ Dialogs
    BY <1>0
  <1>3. CASE screen \in Menus
    <2>1. hot.keys = <<Entry("ESC", screen), Screenshot>>
      BY <1>2, <1>3 DEF Expected
    <2>2. Entry("ESC", screen).key = "ESC" /\ Screenshot.key = "F1"
      BY DEF Entry, Screenshot
    <2>3. ToSet(hot.keys) = {Screenshot, Entry("ESC", screen)}
      BY <2>1 DEF ToSet
    <2>4. IsInjective(hot.keys)
      BY <2>1, <2>2 DEF IsInjective
    <2>5. OwnKeys = {Entry("F1", "screen")} \cup {Entry("ESC", screen)}
      BY <1>3, MenuNames DEF OwnKeys
    <2> QED BY <2>3, <2>4, <2>5 DEF Screenshot
  <1>4. CASE screen = "world"
    <2>1. hot.keys = InPlay(world)
      BY <1>2, <1>4, MenuNames DEF Expected
    <2>2. OwnKeys = {Screenshot} \cup (GameKeys(world) \cup Only(world.yes, Entry("ESC", "yesno"))
                      \cup Only(world.save, Entry("ESC", "save")) \cup Only(world.chat, Entry("ESC", "chatoff")))
      BY <1>4, MenuNames DEF OwnKeys, GameKeys, Screenshot
    <2>3. /\ IsInjective(InPlay(world))
          /\ ToSet(InPlay(world)) = {Screenshot} \cup GameKeys(world) \cup Only(world.yes, Entry("ESC", "yesno"))
                 \cup Only(world.save, Entry("ESC", "save")) \cup Only(world.chat, Entry("ESC", "chatoff"))
      BY <1>2, InPlayFits DEF Dialogs
    <2> QED BY <2>1, <2>2, <2>3
  <1>5. CASE screen \notin Menus /\ screen # "world"
    <2>1. hot.keys = <<Screenshot>>
      BY <1>2, <1>5 DEF Expected
    <2>2. ToSet(hot.keys) = {Screenshot} /\ IsInjective(hot.keys)
      BY <2>1 DEF ToSet, IsInjective
    <2>3. OwnKeys = {Screenshot}
      BY <1>5 DEF OwnKeys, Screenshot
    <2> QED BY <2>2, <2>3
  <1> QED BY <1>3, <1>4, <1>5

\* The list of hot keys holds the entries of the screen and of its open dialogs.
THEOREM AlwaysHotKeysFit == Spec => []HotKeysFit
  <1> DEFINE I == Ticks /\ AtRest /\ Keyed
  <1>1. Init => I
    <2> SUFFICES ASSUME Init PROVE I
      OBVIOUS
    <2>1. phase = "off" /\ world = NoWorld
      BY DEF Init
    <2>2. Keyed
      BY <2>1, NoDialogYet DEF Keyed, Dialogs, NoneOpen, Running
    <2> QED BY <2>2 DEF Init, Ticks, AtRest, Running, DownloadInit
  <1>2. I /\ [Next]_program => I'
    BY TicksStep, KeyedStep
  <1>3. I => HotKeysFit
    BY KeyedFits
  <1> QED BY <1>1, <1>2, <1>3, PTL DEF Spec

-----------------------------------------------------------------------------
(* The arena download.  First what the buffers hold.                        *)

\* Sequences of the same length and elements are one.
LEMMA SameSequence ==
  ASSUME NEW p \in Seq(Int), NEW q \in Seq(Int), Len(p) = Len(q), \A i \in 1 .. Len(p) : p[i] = q[i]
  PROVE  p = q
  OBVIOUS

\* One sequence after another.
LEMMA Appended ==
  ASSUME NEW f \in Seq(Int), NEW g \in Seq(Int)
  PROVE  /\ f \o g \in Seq(Int) /\ Len(f \o g) = Len(f) + Len(g) /\ DOMAIN (f \o g) = 1 .. Len(f) + Len(g)
         /\ \A i \in 1 .. Len(f) : (f \o g)[i] = f[i]
         /\ \A i \in 1 .. Len(g) : (f \o g)[Len(f) + i] = g[i]
  OBVIOUS

\* A part of a sequence.
LEMMA Cut ==
  ASSUME NEW f \in Seq(Int), NEW m \in Nat, NEW n \in Nat, 1 <= m, m <= n + 1, n <= Len(f)
  PROVE  /\ SubSeq(f, m, n) \in Seq(Int) /\ Len(SubSeq(f, m, n)) = n - m + 1
         /\ \A i \in 1 .. n - m + 1 : SubSeq(f, m, n)[i] = f[m + i - 1]
  OBVIOUS

\* Three sequences, whichever two are joined first.
LEMMA Grouped ==
  ASSUME NEW f \in Seq(Int), NEW g \in Seq(Int), NEW h \in Seq(Int)
  PROVE  (f \o g) \o h = f \o (g \o h)
  <1> DEFINE x == (f \o g) \o h
             y == f \o (g \o h)
  <1>1. x \in Seq(Int) /\ Len(x) = Len(f) + Len(g) + Len(h)
    BY Appended
  <1>2. y \in Seq(Int) /\ Len(y) = Len(f) + Len(g) + Len(h)
    BY Appended
  <1>3. \A i \in 1 .. Len(x) : x[i] = y[i]
    <2> SUFFICES ASSUME NEW i \in 1 .. Len(x) PROVE x[i] = y[i]
      OBVIOUS
    <2>0. i \in 1 .. Len(f) + Len(g) + Len(h)
      BY <1>1
    <2> HIDE DEF x, y
    <2>1. CASE i \in 1 .. Len(f)
      BY <2>1 DEF x, y
    <2>2. CASE i \in Len(f) + 1 .. Len(f) + Len(g)
      BY <2>2 DEF x, y
    <2>3. CASE i \in Len(f) + Len(g) + 1 .. Len(f) + Len(g) + Len(h)
      BY <2>3 DEF x, y
    <2> QED BY <2>0, <2>1, <2>2, <2>3
  <1> HIDE DEF x, y
  <1>4. x = y
    BY <1>1, <1>2, <1>3, SameSequence
  <1> QED BY <1>4 DEF x, y

\* A sequence is its first elements and the others.
LEMMA Halves ==
  ASSUME NEW f \in Seq(Int), NEW k \in 0 .. Len(f)
  PROVE  /\ SubSeq(f, 1, k) \in Seq(Int) /\ SubSeq(f, k + 1, Len(f)) \in Seq(Int)
         /\ Len(SubSeq(f, 1, k)) = k /\ Len(SubSeq(f, k + 1, Len(f))) = Len(f) - k
         /\ SubSeq(f, 1, k) \o SubSeq(f, k + 1, Len(f)) = f
  <1> DEFINE p == SubSeq(f, 1, k)
             q == SubSeq(f, k + 1, Len(f))
  <1>1. p \in Seq(Int) /\ Len(p) = k /\ \A i \in 1 .. k : p[i] = f[i]
    OBVIOUS
  <1>2. q \in Seq(Int) /\ Len(q) = Len(f) - k /\ \A i \in 1 .. Len(f) - k : q[i] = f[k + i]
    OBVIOUS
  <1> HIDE DEF p, q
  <1>3. /\ p \o q \in Seq(Int) /\ Len(p \o q) = Len(f)
        /\ \A i \in 1 .. k : (p \o q)[i] = f[i]
        /\ \A i \in 1 .. Len(f) - k : (p \o q)[k + i] = f[k + i]
    <2>1. /\ p \o q \in Seq(Int) /\ Len(p \o q) = Len(p) + Len(q)
          /\ \A i \in 1 .. Len(p) : (p \o q)[i] = p[i]
          /\ \A i \in 1 .. Len(q) : (p \o q)[Len(p) + i] = q[i]
      BY <1>1, <1>2, Appended
    <2>2. \A i \in 1 .. k : (p \o q)[i] = f[i]
      BY <1>1, <2>1, Zenon
    <2>3. \A i \in 1 .. Len(f) - k : (p \o q)[k + i] = f[k + i]
      BY <1>1, <1>2, <2>1, Zenon
    <2>4. Len(p \o q) = Len(f)
      BY <1>1, <1>2, <2>1
    <2> QED BY <2>1, <2>2, <2>3, <2>4, Zenon
  <1>4. \A i \in 1 .. Len(f) : i \in 1 .. k \/ (i - k \in 1 .. Len(f) - k /\ i = k + (i - k))
    OBVIOUS
  <1>5. \A i \in 1 .. Len(f) : (p \o q)[i] = f[i]
    BY <1>3, <1>4
  <1>6. p \o q = f
    BY <1>3, <1>5, SameSequence
  <1> QED BY <1>1, <1>2, <1>6 DEF p, q

\* A part of the file.
Part(i, j) == SubSeq(Content, i + 1, j)

\* What a part of the file holds.
LEMMA Parts ==
  ASSUME NEW i \in 0 .. Size, NEW j \in 0 .. Size, i <= j
  PROVE  /\ Part(i, j) \in Seq(Int) /\ Len(Part(i, j)) = j - i
         /\ \A k \in 1 .. j - i : Part(i, j)[k] = i + k
  <1>1. Content \in Seq(Int) /\ Len(Content) = Size /\ \A k \in 1 .. Size : Content[k] = k /\ Size \in Nat
    BY DownloadAssumption DEF Content
  <1> DEFINE p == SubSeq(Content, i + 1, j)
  <1>2. p \in Seq(Int) /\ Len(p) = j - i /\ \A k \in 1 .. j - i : p[k] = Content[i + k]
    BY <1>1
  <1>3. \A k \in 1 .. j - i : i + k \in 1 .. Size
    BY <1>1
  <1> HIDE DEF p
  <1>4. \A k \in 1 .. j - i : p[k] = i + k
    BY <1>1, <1>2, <1>3
  <1> QED BY <1>2, <1>4 DEF p, Part

\* Parts of the file that follow each other are one part.
LEMMA PartsJoin ==
  ASSUME NEW i \in 0 .. Size, NEW j \in 0 .. Size, NEW k \in 0 .. Size, i <= j, j <= k
  PROVE  Part(i, j) \o Part(j, k) = Part(i, k)
  <1> DEFINE p == Part(i, j)
             q == Part(j, k)
             r == Part(i, k)
  <1>0. Size \in Nat
    BY DownloadAssumption
  <1>1. p \in Seq(Int) /\ Len(p) = j - i /\ \A n \in 1 .. j - i : p[n] = i + n
    BY Parts
  <1>2. q \in Seq(Int) /\ Len(q) = k - j /\ \A n \in 1 .. k - j : q[n] = j + n
    BY Parts
  <1>3. r \in Seq(Int) /\ Len(r) = k - i /\ \A n \in 1 .. k - i : r[n] = i + n
    BY <1>0, Parts
  <1> HIDE DEF p, q, r
  <1>4. /\ p \o q \in Seq(Int) /\ Len(p \o q) = Len(p) + Len(q)
        /\ \A n \in 1 .. Len(p) : (p \o q)[n] = p[n]
        /\ \A n \in 1 .. Len(q) : (p \o q)[Len(p) + n] = q[n]
    BY <1>1, <1>2, Appended
  <1>5. Len(p \o q) = Len(r)
    BY <1>0, <1>1, <1>2, <1>3, <1>4
  <1>6. \A n \in 1 .. Len(p \o q) : (p \o q)[n] = r[n]
    <2> SUFFICES ASSUME NEW n \in 1 .. Len(p \o q) PROVE (p \o q)[n] = r[n]
      OBVIOUS
    <2>0. n \in 1 .. k - i /\ r[n] = i + n
      BY <1>3, <1>5
    <2>1. CASE n \in 1 .. j - i
      BY <1>1, <1>4, <2>0, <2>1
    <2>2. CASE n \notin 1 .. j - i
      <3> DEFINE x == n - (j - i)
      <3>1. x \in 1 .. k - j /\ n = (j - i) + x /\ j + x = i + n
        BY <1>0, <2>0, <2>2
      <3> HIDE DEF x
      <3>2. (p \o q)[Len(p) + x] = q[x] /\ q[x] = j + x
        BY <1>2, <1>4, <3>1
      <3> QED BY <1>1, <2>0, <3>1, <3>2
    <2> QED BY <2>1, <2>2
  <1>9. p \o q = r
    BY <1>3, <1>4, <1>5, <1>6, SameSequence
  <1> QED BY <1>9 DEF p, q, r

\* Two sequences make up a part, and each of them is one.
MakeUp(f, g, i, k) == f \o g = Part(i, k)
SplitAt(f, g, i, k, n) == n = i + Len(f) /\ n <= k /\ f = Part(i, n) /\ g = Part(n, k)

\* A part of the file that is cut in two has two parts.
LEMMA PartsSplit ==
  ASSUME NEW f \in Seq(Int), NEW g \in Seq(Int), NEW i \in 0 .. Size, NEW k \in 0 .. Size, i <= k, MakeUp(f, g, i, k)
  PROVE  \E n \in 0 .. Size : SplitAt(f, g, i, k, n)
  <1>0. Size \in Nat
    BY DownloadAssumption
  <1> DEFINE m == Len(f)
             r == Part(i, k)
             p == Part(i, i + m)
             q == Part(i + m, k)
  <1>1. r \in Seq(Int) /\ Len(r) = k - i /\ \A n \in 1 .. k - i : r[n] = i + n
    BY Parts
  <1>2. /\ Len(r) = Len(f) + Len(g)
        /\ \A n \in 1 .. Len(f) : r[n] = f[n]
        /\ \A n \in 1 .. Len(g) : r[Len(f) + n] = g[n]
    BY Appended DEF MakeUp
  <1>3. m \in Nat /\ i + m \in 0 .. Size /\ i + m <= k
    BY <1>0, <1>1, <1>2
  <1>4. p \in Seq(Int) /\ Len(p) = m /\ \A n \in 1 .. m : p[n] = i + n
    <2> DEFINE j == i + m
    <2>1. j \in 0 .. Size /\ i <= j /\ j - i = m
      BY <1>0, <1>3
    <2> HIDE DEF j
    <2>2. Part(i, j) \in Seq(Int) /\ Len(Part(i, j)) = j - i /\ \A n \in 1 .. j - i : Part(i, j)[n] = i + n
      BY <2>1, Parts
    <2>3. Part(i, j) \in Seq(Int) /\ Len(Part(i, j)) = m /\ \A n \in 1 .. m : Part(i, j)[n] = i + n
      BY <2>1, <2>2
    <2> QED BY <2>3 DEF j
  <1> DEFINE j == i + m
  <1>5. q \in Seq(Int) /\ Len(q) = k - j /\ \A n \in 1 .. k - j : q[n] = j + n
    <2>1. j \in 0 .. Size /\ j <= k
      BY <1>3
    <2> HIDE DEF j
    <2>2. Part(j, k) \in Seq(Int) /\ Len(Part(j, k)) = k - j /\ \A n \in 1 .. k - j : Part(j, k)[n] = j + n
      BY <2>1, Parts
    <2> QED BY <2>2 DEF j
  <1> HIDE DEF r, p, q
  <1>6. Len(p) = Len(f) /\ \A n \in 1 .. Len(f) : f[n] = p[n]
    <2> SUFFICES ASSUME NEW n \in 1 .. Len(f) PROVE f[n] = p[n]
      BY <1>0, <1>4
    <2>1. n \in 1 .. m /\ n \in 1 .. k - i
      BY <1>0, <1>3
    <2>2. p[n] = i + n
      BY <1>4, <2>1, Zenon
    <2>3. r[n] = i + n
      BY <1>1, <2>1, Zenon
    <2>4. r[n] = f[n]
      BY <1>2, Zenon
    <2> QED BY <2>2, <2>3, <2>4, Zenon
  <1>7. Len(q) = Len(g) /\ \A n \in 1 .. Len(g) : g[n] = q[n]
    <2>1. Len(q) = Len(g) /\ k - j = Len(g) /\ k - i = m + Len(g)
      <3>1. k - i = m + Len(g) /\ Len(g) \in Nat
        BY <1>1, <1>2
      <3>2. Len(q) = k - j
        BY <1>5
      <3> QED BY <1>3, <3>1, <3>2
    <2> SUFFICES ASSUME NEW n \in 1 .. Len(g) PROVE g[n] = q[n]
      BY <2>1
    <2>2. m + n \in 1 .. k - i /\ i + (m + n) = j + n
      BY <1>0, <1>3, <2>1
    <2> HIDE DEF j
    <2>3. q[n] = j + n /\ r[m + n] = g[n] /\ r[m + n] = i + (m + n)
      BY <1>1, <1>2, <1>5, <2>1, <2>2
    <2> QED BY <2>2, <2>3
  <1>8. f = p /\ g = q
    BY <1>4, <1>5, <1>6, <1>7, SameSequence
  <1> QED BY <1>3, <1>8 DEF p, q, SplitAt

\* A place in what comes after a line of two symbols, and in the second of two parts.
LEMMA BehindTheFirst ==
  ASSUME NEW x \in Nat, NEW y \in Nat, NEW z \in Nat, 2 + z = x + y, x >= 2, NEW n \in 1 .. z, n \notin 1 .. x - 2
  PROVE  n - (x - 2) \in 1 .. y /\ n = (x - 2) + (n - (x - 2)) /\ 2 + n = x + (n - (x - 2))
  OBVIOUS

\* The first line of a buffer that begins with one of two symbols.
LEMMA FirstLine ==
  ASSUME NEW f \in Seq(Int), NEW g \in Seq(Int), NEW more \in Seq(Int), NEW x \in Int \ {Newline},
         f \o g = <<x, Newline>> \o more, HasLine(f)
  PROVE  LineOf(f)[1] = x /\ AfterLine(f) \in Seq(Int) /\ AfterLine(f) \o g = more
  <1> DEFINE t == <<x, Newline>>
             l == f \o g
  <1>1. t \in Seq(Int) /\ Len(t) = 2 /\ t[1] = x /\ t[2] = Newline
    BY DEF Newline
  <1> HIDE DEF t
  <1>2. /\ Len(l) = Len(f) + Len(g)
        /\ \A n \in 1 .. Len(f) : l[n] = f[n]
        /\ \A n \in 1 .. Len(g) : l[Len(f) + n] = g[n]
    BY Appended
  <1>3. /\ Len(l) = 2 + Len(more) /\ l[1] = x /\ l[2] = Newline
        /\ \A n \in 1 .. Len(more) : l[2 + n] = more[n]
    <2>1. /\ Len(t \o more) = Len(t) + Len(more)
          /\ \A n \in 1 .. Len(t) : (t \o more)[n] = t[n]
          /\ \A n \in 1 .. Len(more) : (t \o more)[Len(t) + n] = more[n]
      BY <1>1, Appended
    <2>2. l = t \o more
      BY DEF t
    <2>3. 1 \in 1 .. Len(t) /\ 2 \in 1 .. Len(t)
      BY <1>1
    <2> HIDE DEF l
    <2>4. l[1] = x /\ l[2] = Newline
      BY <1>1, <2>1, <2>2, <2>3, Zenon
    <2> QED BY <1>1, <2>1, <2>2, <2>4, Zenon
  <1> HIDE DEF l
  <1>4. PICK i \in 1 .. Len(f) : f[i] = Newline
    BY DEF HasLine, ToSet
  <1>5. Len(f) >= 2
    <2>1. CASE i = 1
      BY <1>2, <1>3, <1>4, <2>1
    <2>2. CASE i # 1
      BY <1>4, <2>2
    <2> QED BY <2>1, <2>2
  <1>6. f[1] = x /\ f[2] = Newline /\ 1 \in 1 .. Len(f) /\ 2 \in 1 .. Len(f)
    BY <1>2, <1>3, <1>5
  <1>7. SelectInSeq(f, LAMBDA c : c = Newline) = 2
    <2> DEFINE I == {k \in 1 .. Len(f) : f[k] = Newline}
    <2>1. SelectInSeq(f, LAMBDA c : c = Newline) = IF I # {} THEN Min(I) ELSE 0
      BY DEF SelectInSeq
    <2>2. 2 \in I /\ I \in SUBSET Nat /\ \A j \in I : 2 <= j
      BY <1>6
    <2> HIDE DEF I
    <2>3. Min(I) = 2
      BY <2>2, Least
    <2> QED BY <2>1, <2>2, <2>3
  <1> DEFINE a == SubSeq(f, 1, 2)
             b == SubSeq(f, 3, Len(f))
  <1>8. a \in Seq(Int) /\ Len(a) = 2 /\ a[1] = f[1]
    BY <1>5
  <1>9. b \in Seq(Int) /\ Len(b) = Len(f) - 2 /\ \A n \in 1 .. Len(f) - 2 : b[n] = f[2 + n]
    <2> DEFINE k == Len(f)
    <2>1. k \in Nat /\ 3 <= k + 1 /\ k <= Len(f) /\ 3 \in Nat /\ 1 <= 3
      BY <1>5
    <2> HIDE DEF k
    <2>4. SubSeq(f, 3, k) \in Seq(Int) /\ Len(SubSeq(f, 3, k)) = k - 3 + 1 /\ \A n \in 1 .. k - 3 + 1 : SubSeq(f, 3, k)[n] = f[3 + n - 1]
      BY <2>1, Cut
    <2>5. b = SubSeq(f, 3, k) /\ k = Len(f)
      BY DEF b, k
    <2> HIDE DEF b
    <2>2. b \in Seq(Int) /\ Len(b) = Len(f) - 3 + 1 /\ \A n \in 1 .. Len(f) - 3 + 1 : b[n] = f[3 + n - 1]
      BY <2>4, <2>5
    <2>3. Len(f) - 3 + 1 = Len(f) - 2 /\ \A n \in 1 .. Len(f) - 2 : 3 + n - 1 = 2 + n
      BY <2>1, <2>5
    <2> QED BY <2>2, <2>3
  <1> HIDE DEF a, b
  <1>10. LineOf(f) = a /\ AfterLine(f) = b
    <2>1. LineOf(f) = a
      BY <1>7 DEF LineOf, a
    <2>2. Len(LineOf(f)) + 1 = 3
      <3>1. Len(LineOf(f)) = 2
        BY <1>8, <2>1, Zenon
      <3> QED BY <3>1
    <2>3. AfterLine(f) = SubSeq(f, Len(LineOf(f)) + 1, Len(f))
      BY DEF AfterLine
    <2> QED BY <2>1, <2>2, <2>3 DEF b
  <1>11. /\ b \o g \in Seq(Int) /\ Len(b \o g) = Len(b) + Len(g)
         /\ \A n \in 1 .. Len(b) : (b \o g)[n] = b[n]
         /\ \A n \in 1 .. Len(g) : (b \o g)[Len(b) + n] = g[n]
    BY <1>9, Appended
  <1>12. Len(b \o g) = Len(more)
    BY <1>2, <1>3, <1>9, <1>11
  <1>13. \A n \in 1 .. Len(more) : (b \o g)[n] = more[n]
    <2> SUFFICES ASSUME NEW n \in 1 .. Len(more) PROVE (b \o g)[n] = more[n]
      OBVIOUS
    <2>1. CASE n \in 1 .. Len(f) - 2
      <3>1. 2 + n \in 1 .. Len(f)
        BY <2>1
      <3>2. b[n] = f[2 + n] /\ n \in 1 .. Len(b)
        BY <1>9, <2>1
      <3>3. (b \o g)[n] = b[n]
        BY <1>11, <3>2, Zenon
      <3>4. l[2 + n] = f[2 + n]
        BY <1>2, <3>1, Zenon
      <3>5. l[2 + n] = more[n]
        BY <1>3, Zenon
      <3> QED BY <3>2, <3>3, <3>4, <3>5, Zenon
    <2>2. CASE n \notin 1 .. Len(f) - 2
      <3> DEFINE k == n - (Len(f) - 2)
      <3>1. k \in 1 .. Len(g) /\ n = Len(b) + k /\ 2 + n = Len(f) + k
        <4> HIDE DEF k
        <4>1. Len(f) \in Nat /\ Len(g) \in Nat /\ Len(f) >= 2 /\ Len(b) = Len(f) - 2
          BY <1>5, <1>9
        <4>2. 2 + Len(more) = Len(f) + Len(g) /\ Len(more) \in Nat
          BY <1>2, <1>3
        <4>3. PICK front \in Nat, back \in Nat, tail \in Nat : front = Len(f) /\ back = Len(g) /\ tail = Len(more)
          BY <4>1, <4>2, Zenon
        <4>4. 2 + tail = front + back /\ front >= 2 /\ n \in 1 .. tail /\ n \notin 1 .. front - 2
          BY <2>2, <4>1, <4>2, <4>3, Zenon
        <4>5. n - (front - 2) \in 1 .. back /\ n = (front - 2) + (n - (front - 2)) /\ 2 + n = front + (n - (front - 2))
          BY <4>4, BehindTheFirst
        <4> QED BY <4>1, <4>3, <4>5, Zenon DEF k
      <3> HIDE DEF k
      <3>2. (b \o g)[n] = g[k]
        BY <1>11, <3>1
      <3>3. l[Len(f) + k] = g[k] /\ l[2 + n] = more[n]
        BY <1>2, <1>3, <3>1
      <3> QED BY <3>1, <3>2, <3>3
    <2> QED BY <2>1, <2>2
  <1>14. b \o g = more
    BY <1>11, <1>12, <1>13, SameSequence
  <1> QED BY <1>6, <1>8, <1>9, <1>10, <1>14

\* What is the first part of a sequence without a newline has none.
LEMMA NoLine ==
  ASSUME NEW f \in Seq(Int), NEW g \in Seq(Int), \A i \in DOMAIN (f \o g) : (f \o g)[i] # Newline
  PROVE  ~HasLine(f)
  <1>1. \A i \in 1 .. Len(f) : i \in DOMAIN (f \o g) /\ (f \o g)[i] = f[i]
    BY Appended
  <1>2. DOMAIN f = 1 .. Len(f)
    OBVIOUS
  <1>3. \A i \in DOMAIN f : f[i] # Newline
    BY <1>1, <1>2
  <1> QED BY <1>3 DEF HasLine, ToSet

\* A connection that has just begun.
LEMMA NothingMore ==
  /\ <<>> \o (<<>> \o <<>>) = <<>>
  /\ <<>> \o (<<>> \o <<GetArena, Newline>>) = <<GetArena, Newline>>
  <1> DEFINE q == <<GetArena, Newline>>
  <1>1. q \in Seq(Int)
    BY DEF GetArena, Newline
  <1> HIDE DEF q
  <1>2. <<>> \o q = q
    BY <1>1
  <1>3. <<>> \o <<>> = <<>>
    OBVIOUS
  <1> QED BY <1>2, <1>3 DEF q

\* A question by UDP changes the counter only.
LEMMA AsksKeeps ==
  ASSUME NEW r \in Visits
  PROVE  /\ Asks(r) \in Visits
         /\ Asks(r).status = r.status /\ Asks(r).conn = r.conn /\ Asks(r).rbuf = r.rbuf /\ Asks(r).sbuf = r.sbuf
         /\ Asks(r).file = r.file /\ Asks(r).size = r.size /\ Asks(r).offset = r.offset
  <1> DEFINE n == r.count + 2
             c == [r EXCEPT !.count = n]
  <1>1. n \in Nat
    BY DEF Visits
  <1>2. Asks(r) = r \/ Asks(r) = c
    BY DEF Asks
  <1> HIDE DEF n
  <1>3. /\ c \in Visits /\ c.status = r.status /\ c.conn = r.conn /\ c.rbuf = r.rbuf /\ c.sbuf = r.sbuf
        /\ c.file = r.file /\ c.size = r.size /\ c.offset = r.offset
    BY <1>1 DEF Visits
  <1> HIDE DEF c
  <1> QED BY <1>2, <1>3

\* The records that the steps make of the statics of downArena.c.
LEMMA Answers ==
  ASSUME NEW r \in Visits
  PROVE  LET a == [r EXCEPT !.status = "got"]
             c == [a EXCEPT !.udp = FALSE] IN
         /\ a \in Visits /\ c \in Visits
         /\ a.status = "got" /\ a.conn = r.conn /\ a.rbuf = r.rbuf /\ a.sbuf = r.sbuf
         /\ a.file = r.file /\ a.size = r.size /\ a.offset = r.offset
         /\ c.status = "got" /\ c.conn = r.conn /\ c.rbuf = r.rbuf /\ c.sbuf = r.sbuf
         /\ c.file = r.file /\ c.size = r.size /\ c.offset = r.offset
  BY DEF Visits

\* A connection begins with the request and without a file.
LEMMA ConnectsKeeps ==
  ASSUME NEW r \in Visits
  PROVE  LET c == [r EXCEPT !.conn = TRUE, !.file = FALSE, !.count = 0, !.rbuf = <<>>, !.sbuf = <<GetArena, Newline>>] IN
         /\ c \in Visits /\ c.conn /\ ~c.file /\ c.rbuf = <<>> /\ c.sbuf = <<GetArena, Newline>>
         /\ c.status = r.status /\ c.size = r.size /\ c.offset = r.offset
  <1>1. <<GetArena, Newline>> \in Seq(Int) /\ <<>> \in Seq(Int)
    BY DEF GetArena, Newline
  <1> DEFINE q == <<GetArena, Newline>>
             e == <<>>
             c == [r EXCEPT !.conn = TRUE, !.file = FALSE, !.count = 0, !.rbuf = e, !.sbuf = q]
  <1>2. q \in Seq(Int) /\ e \in Seq(Int)
    BY <1>1
  <1> HIDE DEF q, e
  <1>3. /\ c \in Visits /\ c.conn /\ ~c.file /\ c.rbuf = e /\ c.sbuf = q
        /\ c.status = r.status /\ c.size = r.size /\ c.offset = r.offset
    BY <1>2 DEF Visits
  <1> HIDE DEF c
  <1> QED BY <1>3 DEF q, e, c

\* The record of a client of the download server, before and at its start.
LEMMA NewClient == NoClient \in Clients /\ [NoClient EXCEPT !.there = TRUE] \in Clients
                   /\ LET c == [NoClient EXCEPT !.there = TRUE] IN
                      c.there /\ c.rbuf = <<>> /\ c.sbuf = <<>> /\ ~c.file /\ c.sent = 0 /\ ~c.closed
  <1>1. 0 \in 0 .. Size
    BY DownloadAssumption
  <1>2. <<>> \in Seq(Int)
    OBVIOUS
  <1> DEFINE e == <<>>
  <1>3. NoClient = [there |-> FALSE, rbuf |-> e, sbuf |-> e, file |-> FALSE, sent |-> 0, closed |-> FALSE] /\ e \in Seq(Int)
    BY <1>2 DEF NoClient
  <1> HIDE DEF e
  <1>4. /\ NoClient \in Clients /\ [NoClient EXCEPT !.there = TRUE] \in Clients
        /\ LET c == [NoClient EXCEPT !.there = TRUE] IN
           c.there /\ c.rbuf = e /\ c.sbuf = e /\ ~c.file /\ c.sent = 0 /\ ~c.closed
    BY <1>1, <1>3 DEF Clients
  <1> QED BY <1>4 DEF e

\* The statics of downArena.c at the start of the program.
LEMMA NewDownload ==
  /\ NoDownload \in Visits /\ ~NoDownload.conn /\ ~NoDownload.file
  <1>1. 0 \in 0 .. Size
    BY DownloadAssumption
  <1> DEFINE e == <<>>
  <1>2. e \in Seq(Int)
    OBVIOUS
  <1>3. NoDownload = [status |-> "none", udp |-> FALSE, count |-> 0, conn |-> FALSE,
                      rbuf |-> e, sbuf |-> e, file |-> FALSE, size |-> 0, offset |-> 0]
    BY DEF NoDownload
  <1> HIDE DEF e
  <1> QED BY <1>1, <1>2, <1>3 DEF Visits

\* The end of a connection keeps the file and its offset.
LEMMA ClosedKeeps ==
  ASSUME NEW r \in Visits
  PROVE  /\ Closed(r) \in Visits /\ ~Closed(r).conn /\ Closed(r).status = r.status
         /\ Closed(r).file = r.file /\ Closed(r).size = r.size /\ Closed(r).offset = r.offset
         /\ LET c == [Closed(r) EXCEPT !.udp = FALSE] IN
            c \in Visits /\ ~c.conn /\ c.status = r.status /\ c.file = r.file /\ c.size = r.size /\ c.offset = r.offset
         /\ LET c == [Closed(r) EXCEPT !.file = FALSE] IN
            c \in Visits /\ ~c.conn /\ c.status = r.status /\ ~c.file /\ c.size = r.size /\ c.offset = r.offset
  <1> DEFINE e == <<>>
  <1>1. e \in Seq(Int)
    OBVIOUS
  <1>2. Closed(r) = [r EXCEPT !.conn = FALSE, !.rbuf = e, !.sbuf = e]
    BY DEF Closed
  <1> HIDE DEF e
  <1>3. /\ Closed(r) \in Visits /\ ~Closed(r).conn /\ Closed(r).status = r.status
        /\ Closed(r).file = r.file /\ Closed(r).size = r.size /\ Closed(r).offset = r.offset
    BY <1>1, <1>2 DEF Visits
  <1> DEFINE q == Closed(r)
  <1> HIDE DEF q
  <1>4. q \in Visits /\ ~q.conn
    BY <1>3 DEF q
  <1>5. /\ LET c == [q EXCEPT !.udp = FALSE] IN
           c \in Visits /\ ~c.conn /\ c.status = q.status /\ c.file = q.file /\ c.size = q.size /\ c.offset = q.offset
        /\ LET c == [q EXCEPT !.file = FALSE] IN
           c \in Visits /\ ~c.conn /\ c.status = q.status /\ ~c.file /\ c.size = q.size /\ c.offset = q.offset
    BY <1>4 DEF Visits
  <1> QED BY <1>3, <1>5 DEF q

\* A connection that ends takes the client's record at the server with it.
LEMMA HangsUpEnds ==
  ASSUME HangsUp(d), DownloadTypes, Transfer, d' \in Visits, ~d'.conn
  PROVE  DownloadTypes' /\ Transfer'
  <1>1. s' = NoClient /\ upstream' = <<>> /\ downstream' = <<>>
    BY DEF HangsUp, Hangs, Transfer
  <1>2. upstream' \in Seq(Int) /\ downstream' \in Seq(Int)
    BY <1>1
  <1> QED BY <1>1, <1>2, NewClient DEF DownloadTypes, Transfer

\* The answer of the game server, and the connection that it may lead to.
LEMMA EventStatusStep ==
  ASSUME EventStatus, DownloadTypes, Transfer, Arriving
  PROVE  DownloadTypes' /\ Transfer' /\ Arriving'
  <1>1. /\ phase = "run" /\ phase' = "run" /\ at = "event" /\ at' = "recv" /\ screen = "downArena" /\ screen' = "downArena"
        /\ disk' = disk /\ known' = known /\ d \in Visits
    BY DEF EventStatus, Runs, DownloadTypes
  <1>2. Placed /\ Partial /\ OnDisk
    BY <1>1 DEF Arriving, Running
  <1>3. ASSUME d'.conn = d.conn, d'.rbuf = d.rbuf, d'.sbuf = d.sbuf, d'.file = d.file, d'.size = d.size, d'.offset = d.offset,
               d' \in Visits, d'.status = d.status \/ (d'.status = "got" /\ ~d.conn), UNCHANGED <<s, upstream, downstream>>,
               future' = "world" => known \/ future = "world"
        PROVE  DownloadTypes' /\ Transfer' /\ Arriving'
    <2>1. DownloadTypes' /\ Transfer'
      BY <1>3 DEF DownloadTypes, Transfer, Asking, Answered, Refused, Granted, Unopened, Opened, Stream, Request
    <2>2. Placed'
      BY <1>1, <1>2, <1>3 DEF Placed
    <2>3. Partial'
      BY <1>1, <1>2, <1>3 DEF Partial
    <2>4. OnDisk'
      BY <1>1, <1>2, <1>3 DEF OnDisk
    <2> QED BY <1>1, <2>1, <2>2, <2>3, <2>4 DEF Arriving, Leftover
  <1>4. CASE d.status # "none"
    <2>1. UNCHANGED <<d, future, s, upstream, downstream>>
      BY <1>4 DEF EventStatus
    <2> QED BY <1>1, <1>3, <2>1
  <1>5. CASE d.status = "none"
    <2>0. ~d.conn /\ (d.file => disk = {})
      BY <1>2, <1>5 DEF Transfer, Partial
    <2>1. PICK r : /\ r = d \/ r = Asks(d)
                   /\ (d' = r /\ UNCHANGED <<future, s, upstream, downstream>>) \/ ReadsStatus(r)
      BY <1>5 DEF EventStatus
    <2>2. /\ r \in Visits /\ r.status = "none" /\ ~r.conn /\ r.rbuf = d.rbuf /\ r.sbuf = d.sbuf
          /\ r.file = d.file /\ r.size = d.size /\ r.offset = d.offset /\ r.conn = d.conn
      BY <1>1, <1>5, <2>0, <2>1, AsksKeeps
    <2>3. CASE d' = r /\ UNCHANGED <<future, s, upstream, downstream>>
      BY <1>3, <1>5, <2>2, <2>3
    <2>4. CASE ReadsStatus(r)
      <3> DEFINE a == [r EXCEPT !.status = "got"]
                 c == [a EXCEPT !.udp = FALSE]
      <3>1. \/ d' = a /\ UNCHANGED <<future, s, upstream, downstream>>
            \/ known /\ d' = c /\ UNCHANGED <<s, upstream, downstream>>
            \/ ~known /\ Connects(c) /\ UNCHANGED future
        BY <2>4 DEF ReadsStatus
      <3>2. /\ a \in Visits /\ c \in Visits
            /\ a.status = "got" /\ a.conn = r.conn /\ a.rbuf = r.rbuf /\ a.sbuf = r.sbuf
            /\ a.file = r.file /\ a.size = r.size /\ a.offset = r.offset
            /\ c.status = "got" /\ c.conn = r.conn /\ c.rbuf = r.rbuf /\ c.sbuf = r.sbuf
            /\ c.file = r.file /\ c.size = r.size /\ c.offset = r.offset
        BY <2>2, Answers
      <3> HIDE DEF a, c
      <3>3. CASE d' = a /\ UNCHANGED <<future, s, upstream, downstream>>
        BY <1>3, <2>0, <2>2, <3>2, <3>3
      <3>4. CASE known /\ d' = c /\ UNCHANGED <<s, upstream, downstream>>
        BY <1>3, <2>0, <2>2, <3>2, <3>4
      <3>5. CASE ~known /\ Connects(c) /\ UNCHANGED future
        <4> DEFINE e == [c EXCEPT !.conn = TRUE, !.file = FALSE, !.count = 0, !.rbuf = <<>>, !.sbuf = <<GetArena, Newline>>]
                   v == [NoClient EXCEPT !.there = TRUE]
        <4>1. \/ d' = e /\ s' = v /\ upstream' = <<>> /\ downstream' = <<>>
              \/ d' = c /\ UNCHANGED <<s, upstream, downstream>>
          BY <3>5 DEF Connects
        <4>2. /\ e \in Visits /\ e.conn /\ ~e.file /\ e.rbuf = <<>> /\ e.sbuf = <<GetArena, Newline>>
              /\ e.status = "got"
          BY <3>2, ConnectsKeeps
        <4>3. v \in Clients /\ v.there /\ v.rbuf = <<>> /\ v.sbuf = <<>> /\ ~v.file /\ v.sent = 0 /\ ~v.closed
          BY NewClient
        <4> HIDE DEF e, v
        <4>4. CASE d' = c /\ UNCHANGED <<s, upstream, downstream>>
          BY <1>3, <2>0, <2>2, <3>2, <3>5, <4>4
        <4>5. CASE d' = e /\ s' = v /\ upstream' = <<>> /\ downstream' = <<>>
          <5>1. upstream' \in Seq(Int) /\ downstream' \in Seq(Int)
            BY <4>5
          <5>2. DownloadTypes'
            BY <4>2, <4>3, <4>5, <5>1 DEF DownloadTypes
          <5>3. Stream' = <<>>
            BY <4>2, <4>3, <4>5, NothingMore DEF Stream
          <5>4. Request' = <<GetArena, Newline>>
            BY <4>2, <4>3, <4>5, NothingMore DEF Request
          <5>5. Transfer'
            BY <4>2, <4>3, <4>5, <5>3, <5>4 DEF Transfer, Asking
          <5>6. Placed' /\ Partial'
            BY <1>1, <3>5, <4>2, <4>5 DEF Placed, Partial
          <5>7. OnDisk'
            BY <1>1, <1>2, <2>0, <3>5, <4>2, <4>5 DEF OnDisk, Complete
          <5> QED BY <1>1, <5>2, <5>5, <5>6, <5>7 DEF Arriving, Leftover
        <4> QED BY <4>1, <4>4, <4>5
      <3> QED BY <3>1, <3>3, <3>4, <3>5
    <2> QED BY <2>1, <2>3, <2>4
  <1> QED BY <1>4, <1>5

\* What a read takes is the first part of what is on its way.
LEMMA Reads ==
  ASSUME NEW bytes \in Readable, downstream \in Seq(Int)
  PROVE  /\ bytes \in Seq(Int) /\ SubSeq(downstream, Len(bytes) + 1, Len(downstream)) \in Seq(Int)
         /\ bytes \o SubSeq(downstream, Len(bytes) + 1, Len(downstream)) = downstream
  <1>1. PICK k \in 0 .. Len(downstream) : bytes = SubSeq(downstream, 1, k)
    <2>1. CASE bytes = <<>> /\ downstream = <<>>
      <3>1. SubSeq(downstream, 1, 0) \in Seq(Int) /\ Len(SubSeq(downstream, 1, 0)) = 0
        OBVIOUS
      <3> DEFINE q == SubSeq(downstream, 1, 0)
                 e == <<>>
      <3>2. e \in Seq(Int) /\ Len(e) = 0
        OBVIOUS
      <3> HIDE DEF q, e
      <3>3. q = e
        BY <3>1, <3>2, SameSequence DEF q
      <3>4. bytes = SubSeq(downstream, 1, 0)
        BY <2>1, <3>3 DEF q, e
      <3>5. 0 \in 0 .. Len(downstream)
        OBVIOUS
      <3> QED BY <3>4, <3>5
    <2>2. ASSUME NEW k \in 1 .. AtMost(Chunk, Len(downstream)), bytes = SubSeq(downstream, 1, k)
          PROVE  \E n \in 0 .. Len(downstream) : bytes = SubSeq(downstream, 1, n)
      <3>1. k \in 0 .. Len(downstream)
        BY DownloadAssumption DEF AtMost
      <3> QED BY <2>2, <3>1
    <2> QED BY <2>1, <2>2 DEF Readable
  <1>2. /\ SubSeq(downstream, 1, k) \in Seq(Int) /\ SubSeq(downstream, k + 1, Len(downstream)) \in Seq(Int)
        /\ Len(SubSeq(downstream, 1, k)) = k
        /\ SubSeq(downstream, 1, k) \o SubSeq(downstream, k + 1, Len(downstream)) = downstream
    BY Halves
  <1> QED BY <1>1, <1>2

\* The buffer of the client and a read that fits.
LEMMA BufferGrows ==
  ASSUME NEW r \in Visits, NEW q \in Seq(Int)
  PROVE  LET c == [r EXCEPT !.rbuf = q] IN
         /\ c \in Visits /\ c.rbuf = q /\ c.conn = r.conn /\ c.status = r.status /\ c.sbuf = r.sbuf
         /\ c.file = r.file /\ c.size = r.size /\ c.offset = r.offset
  BY DEF Visits

\* The line OK sets the offset to the beginning of the file, open or not.
LEMMA FileBegins ==
  ASSUME NEW r \in Visits
  PROVE  /\ LET c == [r EXCEPT !.file = TRUE, !.size = Size, !.offset = 0] IN
            /\ c \in Visits /\ c.rbuf = r.rbuf /\ c.conn = r.conn /\ c.status = r.status /\ c.sbuf = r.sbuf
            /\ c.file /\ c.size = Size /\ c.offset = 0
         /\ LET c == [r EXCEPT !.size = Size, !.offset = 0] IN
            /\ c \in Visits /\ c.rbuf = r.rbuf /\ c.conn = r.conn /\ c.status = r.status /\ c.sbuf = r.sbuf
            /\ c.file = r.file /\ c.size = Size /\ c.offset = 0
  <1>1. Size \in Nat /\ 0 \in 0 .. Size
    BY DownloadAssumption
  <1> QED BY <1>1 DEF Visits

\* The client when what the buffer held is in the file.
Grown(r, q, n) == [r EXCEPT !.rbuf = q, !.offset = n]

\* The file from its beginning.
LEMMA FirstPart ==
  ASSUME NEW k \in 0 .. Size
  PROVE  Part(0, k) \in Seq(Int) /\ Len(Part(0, k)) = k /\ \A i \in 1 .. k : Part(0, k)[i] = i
  <1>1. 0 \in 0 .. Size /\ 0 <= k /\ k - 0 = k
    BY DownloadAssumption
  <1>2. Part(0, k) \in Seq(Int) /\ Len(Part(0, k)) = k - 0 /\ \A i \in 1 .. k - 0 : Part(0, k)[i] = 0 + i
    BY <1>1, Parts
  <1> QED BY <1>1, <1>2

\* A read of the client: a line, a part of the file, or too much for the buffer.
LEMMA ReceivedStep ==
  ASSUME EventRecvBuffer, DownloadTypes, Transfer, Arriving
  PROVE  DownloadTypes' /\ Transfer' /\ Arriving'
  <1>1. /\ phase = "run" /\ phase' = "run" /\ at = "recv" /\ screen = "downArena" /\ screen' = "downArena"
        /\ future' = future /\ known' = known /\ d \in Visits /\ s \in Clients /\ downstream \in Seq(Int)
    BY DEF EventRecvBuffer, Runs, DownloadTypes
  <1>2. Placed /\ Partial /\ OnDisk
    BY <1>1 DEF Arriving, Running
  <1>3. at' \in {"recv", "finish"}
    BY DEF EventRecvBuffer, Received, Again
  <1>4. CASE UNCHANGED <<d, disk, s, upstream, downstream>>
    <2>1. DownloadTypes' /\ Transfer'
      BY <1>4 DEF DownloadTypes, Transfer, Asking, Answered, Refused, Granted, Unopened, Opened, Stream, Request
    <2>2. Placed' /\ Partial' /\ OnDisk'
      BY <1>1, <1>2, <1>3, <1>4 DEF Placed, Partial, OnDisk
    <2> QED BY <1>1, <2>1, <2>2 DEF Arriving, Leftover
  <1>5. ASSUME NEW bytes \in Readable, d.conn, Received(bytes) PROVE DownloadTypes' /\ Transfer' /\ Arriving'
    <2> DEFINE B == d.rbuf \o bytes
               next == SubSeq(downstream, Len(bytes) + 1, Len(downstream))
               T == next \o s.sbuf
               r == [d EXCEPT !.rbuf = B]
    <2>1. bytes \in Seq(Int) /\ next \in Seq(Int) /\ bytes \o next = downstream
      BY <1>1, Reads
    <2>2. d.rbuf \in Seq(Int) /\ s.sbuf \in Seq(Int) /\ s.rbuf \in Seq(Int) /\ d.offset \in 0 .. Size /\ s.sent \in 0 .. Size
      BY <1>1 DEF Visits, Clients
    <2> HIDE DEF next
    <2>3. B \in Seq(Int) /\ T \in Seq(Int) /\ Stream = B \o T
      <3>1. B \in Seq(Int) /\ T \in Seq(Int)
        BY <2>1, <2>2, Appended
      <3>2. downstream \o s.sbuf = bytes \o T
        BY <2>1, <2>2, Grouped
      <3>3. d.rbuf \o (bytes \o T) = B \o T
        <4> DEFINE f == d.rbuf
        <4>1. f \in Seq(Int) /\ bytes \in Seq(Int) /\ T \in Seq(Int)
          BY <2>1, <2>2, <3>1
        <4> HIDE DEF T, f
        <4>2. (f \o bytes) \o T = f \o (bytes \o T)
          BY <4>1, Grouped
        <4> QED BY <4>2 DEF f
      <3> QED BY <3>1, <3>2, <3>3 DEF Stream
    <2> HIDE DEF B
    <2>4. /\ r \in Visits /\ r.rbuf = B /\ r.conn = d.conn /\ r.status = d.status /\ r.sbuf = d.sbuf
          /\ r.file = d.file /\ r.size = d.size /\ r.offset = d.offset
      BY <1>1, <2>3, BufferGrows
    <2>5. \/ d' = Closed(d) /\ HangsUp(d) /\ UNCHANGED disk
          \/ /\ UNCHANGED <<s, upstream>> /\ downstream' = next
             /\ \/ ~d.file /\ HasLine(B) /\ EventProto([r EXCEPT !.rbuf = AfterLine(B)], LineOf(B))
                \/ d.file /\ DownArenaFile(r)
                \/ ~d.file /\ ~HasLine(B) /\ d' = r /\ UNCHANGED disk
      BY <1>5, <2>4 DEF Received, r, B, next
    <2> HIDE DEF r
    <2>6. CASE d' = Closed(d) /\ HangsUp(d) /\ UNCHANGED disk
      <3>1. /\ d' \in Visits /\ ~d'.conn /\ d'.status = d.status
            /\ d'.file = d.file /\ d'.size = d.size /\ d'.offset = d.offset
        BY <1>1, <2>6, ClosedKeeps
      <3>2. DownloadTypes' /\ Transfer'
        BY <2>6, <3>1, HangsUpEnds
      <3>3. Placed' /\ Partial' /\ OnDisk'
        BY <1>1, <1>2, <1>3, <2>6, <3>1 DEF Placed, Partial, OnDisk
      <3> QED BY <1>1, <3>2, <3>3 DEF Arriving, Leftover
    <2>7. ASSUME UNCHANGED <<s, upstream>>, downstream' = next, d' \in Visits, d'.conn, d'.status = d.status, d'.sbuf = d.sbuf
          PROVE  /\ DownloadTypes' /\ Request' = Request /\ Stream' = d'.rbuf \o T /\ s'.closed = s.closed
                 /\ s.there /\ d.status = "got" /\ (Asking \/ Answered) /\ Placed'
                 /\ (Asking' \/ Answered' => Transfer')
      BY <1>1, <1>2, <1>3, <1>5, <2>1, <2>7 DEF DownloadTypes, Request, Stream, Transfer, Placed
    <2>8. CASE /\ UNCHANGED <<s, upstream>> /\ downstream' = next
               /\ ~d.file /\ ~HasLine(B) /\ d' = r /\ UNCHANGED disk
      <3>1. /\ DownloadTypes' /\ Request' = Request /\ Stream' = d'.rbuf \o T /\ s'.closed = s.closed
            /\ s.there /\ d.status = "got" /\ (Asking \/ Answered) /\ Placed'
            /\ (Asking' \/ Answered' => Transfer')
        BY <1>5, <2>4, <2>7, <2>8
      <3>2. Stream' = Stream
        BY <2>3, <2>4, <2>8, <3>1
      <3>3. Asking' \/ Answered'
        BY <2>4, <2>8, <3>1, <3>2 DEF Asking, Answered, Refused, Granted, Unopened, Opened
      <3>4. Partial' /\ OnDisk'
        BY <1>1, <1>2, <1>3, <2>4, <2>8 DEF Partial, OnDisk
      <3> QED BY <1>1, <3>1, <3>3, <3>4 DEF Arriving, Leftover
    <2>9. CASE UNCHANGED <<s, upstream>> /\ downstream' = next /\ d.file /\ DownArenaFile(r)
      <3> DEFINE i == d.offset
                 k == s.sent
                 n == i + Len(B)
      <3>1. Opened
        BY <1>5, <2>9 DEF Transfer, Asking, Answered, Refused, Granted, Unopened
      <3>2. B \o T = Part(i, k) /\ i <= k
        BY <2>3, <3>1 DEF Opened, Part
      <3>3. n \in 0 .. Size /\ n <= k /\ B = Part(i, n) /\ T = Part(n, k)
        <4> HIDE DEF T
        <4>1. PICK g \in Seq(Int) : g = T
          BY <2>3
        <4>2. PICK x \in 0 .. Size : x = d.offset
          BY <2>2
        <4>3. PICK y \in 0 .. Size : y = s.sent
          BY <2>2
        <4>4. x <= y /\ B \o g = Part(x, y)
          BY <3>2, <4>1, <4>2, <4>3
        <4>5. MakeUp(B, g, x, y)
          BY <4>4 DEF MakeUp
        <4>6. PICK v \in 0 .. Size : SplitAt(B, g, x, y, v)
          BY <2>3, <4>4, <4>5, PartsSplit
        <4> QED BY <4>1, <4>2, <4>3, <4>6 DEF SplitAt
      <3> DEFINE e == <<>>
                 c == Grown(r, e, n)
      <3>4. e \in Seq(Int)
        OBVIOUS
      <3>41. r \in Visits /\ n \in 0 .. Size
        BY <2>4, <3>3
      <3>5. d' = c /\ disk' = {data \o B : data \in disk}
        BY <2>4, <2>9 DEF DownArenaFile, Grown
      <3> HIDE DEF e, n, T
      <3>6. /\ c \in Visits /\ c.rbuf = e /\ c.conn = r.conn /\ c.status = r.status /\ c.sbuf = r.sbuf
            /\ c.file = r.file /\ c.size = r.size /\ c.offset = n
        BY <3>4, <3>41 DEF Visits, Grown
      <3> HIDE DEF c
      <3>7. /\ DownloadTypes' /\ Request' = Request /\ Stream' = d'.rbuf \o T /\ s'.closed = s.closed
            /\ s.there /\ d.status = "got" /\ (Asking \/ Answered) /\ Placed'
            /\ (Asking' \/ Answered' => Transfer')
        BY <1>5, <2>4, <2>7, <2>9, <3>5, <3>6
      <3>8. Stream' = Part(n, k)
        <4>1. e \o T = T
          BY <2>3 DEF e
        <4> QED BY <3>3, <3>5, <3>6, <3>7, <4>1
      <3>9. Answered'
        <4>1. s.closed \/ Request = <<>>
          BY <2>9, <3>7 DEF Asking, Answered
        <4>2. Opened'
          BY <2>4, <2>9, <3>1, <3>3, <3>5, <3>6, <3>8 DEF Opened, Part
        <4> QED BY <3>7, <4>1, <4>2 DEF Answered
      <3>10. Partial'
        <4>1. disk \subseteq {Part(0, i)} /\ d.size = Size /\ ~known
          BY <1>2, <2>9 DEF Partial, Part
        <4>2. 0 \in 0 .. Size /\ 0 <= i /\ i <= n
          BY <2>2, <2>3, DownloadAssumption DEF n
        <4>3. Part(0, i) \o B = Part(0, n)
          BY <2>2, <3>3, <4>2, PartsJoin
        <4>4. disk' \subseteq {Part(0, n)}
          BY <3>5, <4>1, <4>3
        <4>5. d'.size = Size /\ d'.offset = n /\ d'.status = "got"
          BY <2>4, <3>5, <3>6, <3>7, <4>1
        <4> QED BY <1>1, <1>3, <4>1, <4>4, <4>5 DEF Partial, Part
      <3>11. OnDisk'
        BY <1>1, <1>2, <1>3, <2>4, <2>9, <3>5, <3>6 DEF OnDisk
      <3> QED BY <1>1, <3>7, <3>9, <3>10, <3>11 DEF Arriving, Leftover
    <2>10. CASE /\ UNCHANGED <<s, upstream>> /\ downstream' = next
                /\ ~d.file /\ HasLine(B) /\ EventProto([r EXCEPT !.rbuf = AfterLine(B)], LineOf(B))
      <3> DEFINE A == AfterLine(B)
                 q == [r EXCEPT !.rbuf = A]
                 e1 == [q EXCEPT !.file = TRUE, !.size = Size, !.offset = 0]
                 e2 == [q EXCEPT !.size = Size, !.offset = 0]
      <3>1. (Refused /\ Stream # <<>>) \/ Granted
        <4>1. ~(\A i \in DOMAIN Stream : Stream[i] # Newline)
          <5> HIDE DEF T
          <5> QED BY <2>3, <2>10, NoLine
        <4>2. Stream # <<>>
          <5>1. DOMAIN <<>> = {}
            OBVIOUS
          <5> QED BY <4>1, <5>1
        <4> QED BY <1>5, <2>10, <4>1, <4>2 DEF Transfer, Asking, Answered, Unopened, Opened
      <3>2. /\ Ok \in Int \ {Newline} /\ Error \in Int \ {Newline} /\ Ok # Error
        BY DEF Ok, Error, Newline
      <3>3. A \in Seq(Int)
            /\ \/ LineOf(B)[1] = Error /\ A \o T = <<>> /\ ~s.file
               \/ LineOf(B)[1] = Ok /\ A \o T = Part(0, s.sent) /\ s.file
        <4> HIDE DEF T
        <4>1. CASE Refused /\ Stream # <<>>
          <5> DEFINE e == <<>>
                     t == <<Error, Newline>>
          <5>1. t \in Seq(Int) /\ e \in Seq(Int)
            BY DEF Error, Newline
          <5>2. t \o e = t
            BY <5>1
          <5> HIDE DEF e
          <5>3. B \o T = <<Error, Newline>> \o e
            BY <2>3, <4>1, <5>2 DEF Refused
          <5>4. LineOf(B)[1] = Error /\ A \in Seq(Int) /\ A \o T = e
            BY <2>3, <2>10, <3>2, <5>1, <5>3, FirstLine
          <5> QED BY <4>1, <5>4 DEF Refused, e
        <4>2. CASE Granted
          <5> DEFINE e == Part(0, s.sent)
          <5>1. e \in Seq(Int)
            BY <2>2, FirstPart
          <5>2. B \o T = <<Ok, Newline>> \o e
            BY <2>3, <4>2 DEF Granted, Part
          <5> HIDE DEF e
          <5>3. LineOf(B)[1] = Ok /\ A \in Seq(Int) /\ A \o T = e
            BY <2>3, <2>10, <3>2, <5>1, <5>2, FirstLine
          <5> QED BY <4>2, <5>3 DEF Granted, e
        <4> QED BY <3>1, <4>1, <4>2
      <3>4. \/ LineOf(B)[1] = Ok /\ d' = e1 /\ disk' = {<<>>}
            \/ LineOf(B)[1] = Ok /\ d' = e2 /\ UNCHANGED disk
            \/ LineOf(B)[1] # Ok /\ d' = q /\ UNCHANGED disk
        BY <2>10 DEF EventProto
      <3> HIDE DEF A
      <3>5. /\ q \in Visits /\ q.rbuf = A /\ q.conn = r.conn /\ q.status = r.status /\ q.sbuf = r.sbuf
            /\ q.file = r.file /\ q.size = r.size /\ q.offset = r.offset
        BY <2>4, <3>3, BufferGrows
      <3> HIDE DEF q
      <3>6. /\ e1 \in Visits /\ e1.rbuf = A /\ e1.conn = r.conn /\ e1.status = r.status /\ e1.sbuf = r.sbuf
            /\ e1.file /\ e1.size = Size /\ e1.offset = 0
            /\ e2 \in Visits /\ e2.rbuf = A /\ e2.conn = r.conn /\ e2.status = r.status /\ e2.sbuf = r.sbuf
            /\ e2.file = r.file /\ e2.size = Size /\ e2.offset = 0
        BY <3>3, <3>5, FileBegins
      <3> HIDE DEF e1, e2, T
      <3>7. /\ DownloadTypes' /\ Request' = Request /\ Stream' = d'.rbuf \o T /\ s'.closed = s.closed
            /\ s.there /\ d.status = "got" /\ (Asking \/ Answered) /\ Placed'
            /\ (Asking' \/ Answered' => Transfer')
        BY <1>5, <2>4, <2>7, <2>10, <3>4, <3>5, <3>6
      <3>8. Stream' = A \o T
        BY <3>4, <3>5, <3>6, <3>7
      <3>9. s.closed \/ Request = <<>>
        BY <3>1, <3>2, <3>3, <3>7 DEF Asking, Answered, Refused, Granted
      <3>10. s' = s /\ d.file = FALSE
        BY <1>1, <2>10 DEF Visits
      <3>11. CASE LineOf(B)[1] = Ok /\ d' = e1 /\ disk' = {<<>>}
        <4>1. Stream' = Part(0, s.sent) /\ s.file
          BY <3>2, <3>3, <3>8, <3>11
        <4>2. Opened'
          <5>1. 0 <= s.sent /\ 0 + 1 = 1
            BY <2>2
          <5> QED BY <3>6, <3>10, <3>11, <4>1, <5>1 DEF Opened, Part
        <4>3. Part(0, 0) = <<>>
          <5> DEFINE e == <<>>
          <5>1. e \in Seq(Int) /\ Len(e) = 0
            OBVIOUS
          <5>2. Part(0, 0) \in Seq(Int) /\ Len(Part(0, 0)) = 0
            BY Parts, DownloadAssumption
          <5> HIDE DEF e
          <5>3. Part(0, 0) = e
            BY <5>1, <5>2, SameSequence
          <5> QED BY <5>3 DEF e
        <4>4. Partial'
          <5>1. disk' \subseteq {SubSeq(Content, 1, d'.offset)}
            BY <3>6, <3>11, <4>3 DEF Part
          <5>2. ~known
            BY <1>2, <1>5 DEF Placed
          <5> QED BY <1>1, <1>3, <2>4, <3>6, <3>7, <3>11, <5>1, <5>2 DEF Partial
        <4>5. OnDisk'
          BY <1>1, <1>2, <1>3, <3>6, <3>11 DEF OnDisk
        <4> QED BY <1>1, <3>7, <3>9, <4>2, <4>4, <4>5 DEF Arriving, Leftover, Answered
      <3>12. CASE LineOf(B)[1] = Ok /\ d' = e2 /\ UNCHANGED disk
        <4>1. Stream' = Part(0, s.sent) /\ s.file
          BY <3>2, <3>3, <3>8, <3>12
        <4>2. \A i \in DOMAIN Stream' : Stream'[i] # Newline
          <5>1. /\ Part(0, s.sent) \in Seq(Int) /\ Len(Part(0, s.sent)) = s.sent
                /\ \A i \in 1 .. s.sent : Part(0, s.sent)[i] = i
            BY <2>2, FirstPart
          <5>2. DOMAIN Part(0, s.sent) = 1 .. s.sent
            BY <2>2, <5>1
          <5>3. \A i \in 1 .. s.sent : i # 0
            BY <2>2
          <5>4. \A i \in DOMAIN Part(0, s.sent) : Part(0, s.sent)[i] # Newline
            BY <5>1, <5>2, <5>3 DEF Newline
          <5> QED BY <4>1, <5>4
        <4>3. Unopened'
          BY <2>4, <3>6, <3>10, <3>12, <4>1, <4>2 DEF Unopened
        <4>4. Partial' /\ OnDisk'
          BY <1>1, <1>2, <1>3, <2>4, <3>6, <3>10, <3>12 DEF Partial, OnDisk
        <4> QED BY <1>1, <3>7, <3>9, <4>3, <4>4 DEF Arriving, Leftover, Answered
      <3>13. CASE LineOf(B)[1] # Ok /\ d' = q /\ UNCHANGED disk
        <4>1. Stream' = <<>> /\ ~s.file
          BY <3>3, <3>8, <3>13
        <4>2. Refused'
          BY <2>4, <3>5, <3>10, <3>13, <4>1 DEF Refused
        <4>3. Partial' /\ OnDisk'
          BY <1>1, <1>2, <1>3, <2>4, <3>5, <3>10, <3>13 DEF Partial, OnDisk
        <4> QED BY <1>1, <3>7, <3>9, <4>2, <4>3 DEF Arriving, Leftover, Answered
      <3> QED BY <3>4, <3>11, <3>12, <3>13
    <2> QED BY <2>5, <2>6, <2>8, <2>9, <2>10
  <1> QED BY <1>4, <1>5 DEF EventRecvBuffer

\* The whole file.
LEMMA WholeContent == SubSeq(Content, 1, Size) = Content
  <1>1. Content \in Seq(Int) /\ Len(Content) = Size /\ Size \in Nat
    BY DownloadAssumption DEF Content
  <1> DEFINE p == SubSeq(Content, 1, Size)
  <1>2. p \in Seq(Int) /\ Len(p) = Size /\ \A i \in 1 .. Size : p[i] = Content[i]
    BY <1>1
  <1> HIDE DEF p
  <1>3. p = Content
    BY <1>1, <1>2, SameSequence
  <1> QED BY <1>3 DEF p

\* The kernel has taken a part of the buffer.
LEMMA SendsPart ==
  ASSUME NEW r \in Visits, NEW q \in Seq(Int)
  PROVE  LET c == [r EXCEPT !.sbuf = q] IN
         /\ c \in Visits /\ c.sbuf = q /\ c.conn = r.conn /\ c.status = r.status /\ c.rbuf = r.rbuf
         /\ c.file = r.file /\ c.size = r.size /\ c.offset = r.offset
  BY DEF Visits

\* The rest of the event: a complete file becomes known, or the request is sent.
LEMMA FinishStep ==
  ASSUME Finish, DownloadTypes, Transfer, Arriving
  PROVE  DownloadTypes' /\ Transfer' /\ Arriving'
  <1>1. /\ phase = "run" /\ phase' = "run" /\ at = "finish" /\ at' = "keys" /\ screen = "downArena" /\ screen' = "downArena"
        /\ disk' = disk /\ d \in Visits /\ s \in Clients /\ upstream \in Seq(Int) /\ downstream \in Seq(Int)
    BY DEF Finish, Runs, DownloadTypes
  <1>2. Placed /\ Partial /\ OnDisk
    BY <1>1 DEF Arriving, Running
  <1>3. CASE Complete
    <2> DEFINE c == [Closed(d) EXCEPT !.file = FALSE]
    <2>1. d' = c /\ HangsUp(d) /\ known' = TRUE
      BY <1>3 DEF Finish
    <2>2. c \in Visits /\ ~c.conn /\ ~c.file
      BY <1>1, ClosedKeeps
    <2> HIDE DEF c
    <2>3. DownloadTypes' /\ Transfer'
      BY <2>1, <2>2, HangsUpEnds
    <2>4. disk \subseteq {Content}
      BY <1>2, <1>3, WholeContent DEF Partial, Complete
    <2>5. Placed' /\ Partial' /\ OnDisk'
      BY <1>1, <2>1, <2>2, <2>4 DEF Placed, Partial, OnDisk, Complete
    <2> QED BY <1>1, <2>3, <2>5 DEF Arriving, Leftover
  <1>4. CASE ~Complete
    <2>1. EventSendBuffer /\ UNCHANGED <<s, downstream, known>> /\ (future' = "world" => future = "world")
      BY <1>4 DEF Finish
    <2>2. ASSUME d' \in Visits, d'.conn = d.conn, d'.status = d.status, d'.rbuf = d.rbuf, d'.file = d.file,
                 d'.size = d.size, d'.offset = d.offset, upstream' \in Seq(Int), s.closed \/ Request' = Request
          PROVE  DownloadTypes' /\ Transfer' /\ Arriving'
      <3>1. DownloadTypes' /\ Stream' = Stream
        BY <1>1, <2>1, <2>2 DEF DownloadTypes, Stream
      <3>2. CASE d.conn
        <4>1. Asking \/ Answered => Asking' \/ Answered'
          BY <2>1, <2>2, <3>1 DEF Asking, Answered, Refused, Granted, Unopened, Opened
        <4>2. Transfer'
          BY <2>1, <2>2, <3>2, <4>1 DEF Transfer
        <4>3. Placed' /\ Partial' /\ OnDisk'
          BY <1>1, <1>2, <1>4, <2>1, <2>2 DEF Placed, Partial, OnDisk, Complete
        <4> QED BY <1>1, <3>1, <4>2, <4>3 DEF Arriving, Leftover
      <3>3. CASE ~d.conn
        <4>1. upstream' = upstream
          BY <2>1, <3>3 DEF EventSendBuffer
        <4>2. Transfer'
          BY <2>1, <2>2, <3>3, <4>1 DEF Transfer
        <4>3. Placed' /\ Partial' /\ OnDisk'
          BY <1>1, <1>2, <1>4, <2>1, <2>2 DEF Placed, Partial, OnDisk, Complete
        <4> QED BY <1>1, <3>1, <4>2, <4>3 DEF Arriving, Leftover
      <3> QED BY <3>2, <3>3
    <2>3. CASE UNCHANGED <<upstream, d>>
      <3>1. Request' = Request
        BY <2>1, <2>3 DEF Request
      <3> QED BY <1>1, <2>2, <2>3, <3>1
    <2>4. ASSUME NEW k \in 1 .. Len(d.sbuf), upstream' = IF s.closed THEN upstream ELSE upstream \o SubSeq(d.sbuf, 1, k),
                 d' = [d EXCEPT !.sbuf = SubSeq(@, k + 1, Len(@))]
          PROVE  DownloadTypes' /\ Transfer' /\ Arriving'
      <3> DEFINE q == d.sbuf
                 x == SubSeq(q, 1, k)
                 y == SubSeq(q, k + 1, Len(q))
                 c == [d EXCEPT !.sbuf = y]
      <3>1. q \in Seq(Int) /\ s.rbuf \in Seq(Int)
        BY <1>1 DEF Visits, Clients
      <3>2. x \in Seq(Int) /\ y \in Seq(Int) /\ x \o y = q
        <4>1. k \in 0 .. Len(q)
          BY <3>1
        <4> HIDE DEF q
        <4> QED BY <3>1, <4>1, Halves
      <3>3. d' = c
        BY <2>4
      <3> HIDE DEF x, y, q
      <3>4. /\ c \in Visits /\ c.sbuf = y /\ c.conn = d.conn /\ c.status = d.status /\ c.rbuf = d.rbuf
            /\ c.file = d.file /\ c.size = d.size /\ c.offset = d.offset
        BY <1>1, <3>2, SendsPart
      <3> HIDE DEF c
      <3>5. upstream' = upstream \/ upstream' = upstream \o x
        BY <2>4 DEF x, q
      <3>6. upstream' \in Seq(Int)
        <4>1. upstream \in Seq(Int) /\ x \in Seq(Int)
          BY <1>1, <3>2
        <4>2. upstream \o x \in Seq(Int)
          BY <4>1, Appended, Zenon
        <4> QED BY <3>5, <4>1, <4>2, Zenon
      <3>7. s.closed \/ Request' = Request
        <4> SUFFICES ASSUME ~s.closed PROVE Request' = Request
          OBVIOUS
        <4>1. upstream' = upstream \o x
          BY <2>4 DEF x, q
        <4>2. (upstream \o x) \o y = upstream \o (x \o y)
          BY <1>1, <3>2, Grouped
        <4>3. upstream' \o d'.sbuf = upstream \o d.sbuf
          BY <3>2, <3>3, <3>4, <4>1, <4>2 DEF q
        <4> QED BY <2>1, <4>3 DEF Request
      <3> QED BY <2>2, <3>3, <3>4, <3>6, <3>7
    <2> QED BY <2>1, <2>3, <2>4 DEF EventSendBuffer
  <1> QED BY <1>3, <1>4

\* The records that the steps make of a client of the download server.
LEMMA ClientReads ==
  ASSUME NEW c \in Clients, NEW q \in Seq(Int)
  PROVE  LET e == [c EXCEPT !.rbuf = q] IN
         /\ e \in Clients /\ e.rbuf = q /\ e.sbuf = c.sbuf /\ e.there = c.there /\ e.file = c.file
         /\ e.sent = c.sent /\ e.closed = c.closed
  BY DEF Clients

\* A new buffer to send.
LEMMA ClientWrites ==
  ASSUME NEW c \in Clients, NEW q \in Seq(Int)
  PROVE  LET e == [c EXCEPT !.sbuf = q] IN
         /\ e \in Clients /\ e.rbuf = c.rbuf /\ e.sbuf = q /\ e.there = c.there /\ e.file = c.file
         /\ e.sent = c.sent /\ e.closed = c.closed
  BY DEF Clients

\* The file is open at the server.
LEMMA ClientOpens ==
  ASSUME NEW c \in Clients, NEW q \in Seq(Int)
  PROVE  LET e == [c EXCEPT !.file = TRUE, !.sbuf = q] IN
         /\ e \in Clients /\ e.rbuf = c.rbuf /\ e.sbuf = q /\ e.there = c.there /\ e.file
         /\ e.sent = c.sent /\ e.closed = c.closed
  BY DEF Clients

\* The client is a zombie.
LEMMA ClientCloses ==
  ASSUME NEW c \in Clients
  PROVE  LET e == [c EXCEPT !.closed = TRUE] IN
         /\ e \in Clients /\ e.rbuf = c.rbuf /\ e.sbuf = c.sbuf /\ e.there = c.there /\ e.file = c.file
         /\ e.sent = c.sent /\ e.closed
  BY DEF Clients

\* A round of sendFile: nothing, the end, or the next part of the file.
LEMMA SendFileSends ==
  ASSUME NEW c \in Clients, NEW e \in SendFile(c)
  PROVE  /\ e \in Clients /\ e.rbuf = c.rbuf /\ e.there = c.there /\ e.file = c.file
         /\ \/ e.sbuf = c.sbuf /\ e.sent = c.sent
            \/ c.file /\ c.sbuf = <<>> /\ c.sent <= e.sent /\ e.sbuf = Part(c.sent, e.sent)
         /\ ~c.file \/ c.sbuf # <<>> => e = c
  <1> DEFINE count == AtMost(Block, Size - c.sent)
             n == c.sent + count
  <1>1. c.sent \in 0 .. Size /\ Size \in Nat /\ Block \in Nat
    BY DownloadAssumption DEF Clients
  <1>2. count \in Nat /\ count <= Size - c.sent
    BY <1>1 DEF AtMost
  <1>3. n \in 0 .. Size /\ c.sent <= n
    BY <1>1, <1>2
  <1>4. Part(c.sent, n) \in Seq(Int)
    BY <1>1, <1>3, Parts
  <1>5. \/ e = c
        \/ c.file /\ c.sbuf = <<>> /\ e = [c EXCEPT !.closed = TRUE]
        \/ c.file /\ c.sbuf = <<>> /\ e = [c EXCEPT !.sbuf = Part(c.sent, n), !.sent = n]
    BY DEF SendFile, Part
  <1>6. ~c.file \/ c.sbuf # <<>> => e = c
    BY DEF SendFile
  <1>7. CASE e = c
    BY <1>7
  <1>8. CASE c.file /\ c.sbuf = <<>> /\ e = [c EXCEPT !.closed = TRUE]
    <2> DEFINE x == [c EXCEPT !.closed = TRUE]
    <2>1. /\ x \in Clients /\ x.rbuf = c.rbuf /\ x.sbuf = c.sbuf /\ x.there = c.there /\ x.file = c.file
          /\ x.sent = c.sent
      BY ClientCloses
    <2>2. e = x
      BY <1>8
    <2> HIDE DEF x
    <2> QED BY <1>6, <2>1, <2>2
  <1>9. CASE c.file /\ c.sbuf = <<>> /\ e = [c EXCEPT !.sbuf = Part(c.sent, n), !.sent = n]
    <2> DEFINE q == Part(c.sent, n)
    <2>0. q \in Seq(Int) /\ n \in 0 .. Size
      BY <1>3, <1>4
    <2>1. PICK p \in Seq(Int) : p = q
      BY <2>0
    <2>2. PICK m \in 0 .. Size : m = n
      BY <2>0
    <2>3. e = [c EXCEPT !.sbuf = p, !.sent = m]
      BY <1>9, <2>1, <2>2
    <2>4. p = Part(c.sent, m) /\ c.sent <= m
      BY <1>3, <2>1, <2>2
    <2> HIDE DEF q, n
    <2> DEFINE z == [c EXCEPT !.sbuf = p, !.sent = m]
    <2>5. /\ z \in Clients /\ z.rbuf = c.rbuf /\ z.sbuf = p /\ z.there = c.there /\ z.file = c.file
          /\ z.sent = m
      BY <2>1, <2>2 DEF Clients
    <2>6. e = z
      BY <2>3
    <2> HIDE DEF z
    <2> QED BY <1>6, <1>9, <2>4, <2>5, <2>6
  <1> QED BY <1>5, <1>7, <1>8, <1>9

\* Nothing is three times nothing.
LEMMA AllEmpty ==
  ASSUME NEW f \in Seq(Int), NEW g \in Seq(Int), NEW h \in Seq(Int), f \o (g \o h) = <<>>
  PROVE  f = <<>> /\ g = <<>> /\ h = <<>>
  <1>1. g \o h \in Seq(Int) /\ Len(g \o h) = Len(g) + Len(h)
    BY Appended
  <1> DEFINE k == g \o h
  <1> HIDE DEF k
  <1>2. Len(f \o k) = Len(f) + Len(k)
    BY <1>1, Appended DEF k
  <1>3. Len(f) = 0 /\ Len(g) = 0 /\ Len(h) = 0
    BY <1>1, <1>2 DEF k
  <1> DEFINE e == <<>>
  <1>4. e \in Seq(Int) /\ Len(e) = 0
    OBVIOUS
  <1> HIDE DEF e
  <1>5. f = e /\ g = e /\ h = e
    BY <1>3, <1>4, SameSequence
  <1> QED BY <1>5 DEF e

\* The request and what the server has read of it, and how it comes on with a read.
OnItsWay(c, bytes, more) ==
    \/ (c.rbuf \o bytes) \o more = <<>>
    \/ (c.rbuf \o bytes) \o more = <<GetArena, Newline>> /\ ~c.file

Comes(c, bytes, more, e) ==
    \/ e.rbuf \o more = (c.rbuf \o bytes) \o more /\ e.file = c.file /\ e.sbuf = c.sbuf
    \/ /\ e.rbuf \o more = <<>> /\ ~c.file /\ (c.rbuf \o bytes) \o more # <<>>
       /\ \/ e.file /\ e.sbuf = c.sbuf \o <<Ok, Newline>>
          \/ ~e.file /\ e.sbuf = c.sbuf \o <<Error, Newline>>

\* A read of the server leaves the request on its way, or answers it.
LEMMA ReadsRequest ==
  ASSUME NEW c \in Clients, NEW bytes \in Seq(Int), NEW more \in Seq(Int), NEW e \in ReadsClient(c, bytes),
         OnItsWay(c, bytes, more)
  PROVE  e \in Clients /\ e.there = c.there /\ e.sent = c.sent /\ e.closed = c.closed /\ Comes(c, bytes, more, e)
  <1> USE DEF OnItsWay, Comes
  <1> DEFINE B == c.rbuf \o bytes
             r == [c EXCEPT !.rbuf = B]
             A == AfterLine(B)
             q == [r EXCEPT !.rbuf = A]
             yes == c.sbuf \o <<Ok, Newline>>
             no == c.sbuf \o <<Error, Newline>>
  <1>1. B \in Seq(Int) /\ c.sbuf \in Seq(Int)
    <2>1. c.rbuf \in Seq(Int) /\ c.sbuf \in Seq(Int)
      BY DEF Clients
    <2> QED BY <2>1, Appended
  <1>2. yes \in Seq(Int) /\ no \in Seq(Int)
    <2>1. <<Ok, Newline>> \in Seq(Int) /\ <<Error, Newline>> \in Seq(Int)
      BY DEF Ok, Error, Newline
    <2> QED BY <1>1, <2>1, Appended
  <1> HIDE DEF B, yes, no
  <1>3. /\ r \in Clients /\ r.rbuf = B /\ r.sbuf = c.sbuf /\ r.there = c.there /\ r.file = c.file
        /\ r.sent = c.sent /\ r.closed = c.closed
    BY <1>1, ClientReads
  <1>4. \/ ~HasLine(B) /\ e = r
        \/ HasLine(B) /\ LineOf(B)[1] = GetArena /\ ~r.file /\ e \in ProtoGetArena(q)
        \/ HasLine(B) /\ ~(LineOf(B)[1] = GetArena /\ ~r.file) /\ e = q
    BY <1>3 DEF ReadsClient, B, r, q, A
  <1> HIDE DEF r, A
  <1>5. CASE ~HasLine(B) /\ e = r
    BY <1>3, <1>5 DEF B
  <1>6. CASE HasLine(B)
    <2>1. B \o more = <<GetArena, Newline>> /\ ~c.file /\ (c.rbuf \o bytes) \o more # <<>>
      <3>1. B \o more # <<>>
        <4>1. ~(\A i \in DOMAIN (B \o more) : (B \o more)[i] # Newline)
          BY <1>1, <1>6, NoLine
        <4>2. DOMAIN <<>> = {}
          OBVIOUS
        <4> QED BY <4>1, <4>2
      <3> QED BY <3>1 DEF B
    <2> DEFINE x == <<>>
               t == <<GetArena, Newline>>
    <2>2. t \in Seq(Int) /\ x \in Seq(Int)
      BY DEF GetArena, Newline
    <2>3. t \o x = t
      BY <2>2
    <2> HIDE DEF x
    <2>4. B \o more = <<GetArena, Newline>> \o x
      BY <2>1, <2>3
    <2>5. GetArena \in Int \ {Newline}
      BY DEF GetArena, Newline
    <2>6. LineOf(B)[1] = GetArena /\ A \in Seq(Int) /\ A \o more = x
      BY <1>1, <1>6, <2>2, <2>4, <2>5, FirstLine DEF A
    <2>7. /\ q \in Clients /\ q.rbuf = A /\ q.sbuf = c.sbuf /\ q.there = c.there /\ q.file = c.file
          /\ q.sent = c.sent /\ q.closed = c.closed
      BY <1>3, <2>6, ClientReads
    <2>8. e \in ProtoGetArena(q)
      BY <1>3, <1>4, <1>6, <2>1, <2>6
    <2> HIDE DEF q
    <2> DEFINE e1 == [q EXCEPT !.file = TRUE, !.sbuf = yes]
               e2 == [q EXCEPT !.sbuf = no]
    <2>9. e = e1 \/ e = e2
      BY <2>7, <2>8 DEF ProtoGetArena, yes, no
    <2>10. /\ e1 \in Clients /\ e1.rbuf = A /\ e1.sbuf = yes /\ e1.there = c.there /\ e1.file
           /\ e1.sent = c.sent /\ e1.closed = c.closed
      BY <1>2, <2>7, ClientOpens
    <2>11. /\ e2 \in Clients /\ e2.rbuf = A /\ e2.sbuf = no /\ e2.there = c.there /\ ~e2.file
           /\ e2.sent = c.sent /\ e2.closed = c.closed
      BY <1>2, <2>1, <2>7, ClientWrites
    <2> HIDE DEF e1, e2
    <2>12. CASE e = e1
      BY <2>1, <2>6, <2>10, <2>12 DEF x, yes
    <2>13. CASE e = e2
      BY <2>1, <2>6, <2>11, <2>13 DEF x, no
    <2> QED BY <2>9, <2>12, <2>13
  <1> QED BY <1>4, <1>5, <1>6

\* A part of the file without a byte.
LEMMA EmptyPart ==
  ASSUME NEW n \in 0 .. Size
  PROVE  Part(n, n) = <<>>
  <1> DEFINE e == <<>>
             q == Part(n, n)
  <1>1. e \in Seq(Int) /\ Len(e) = 0
    OBVIOUS
  <1>2. n <= n /\ n - n = 0
    BY DownloadAssumption
  <1>3. q \in Seq(Int) /\ Len(q) = n - n
    BY <1>2, Parts
  <1> HIDE DEF e, q
  <1>4. q = e
    BY <1>1, <1>2, <1>3, SameSequence
  <1> QED BY <1>4 DEF e, q

\* Nothing more is sent.
LEMMA NothingAfter ==
  ASSUME NEW f \in Seq(Int)
  PROVE  f \o <<>> = f /\ <<>> \o f = f
  OBVIOUS

\* What is sent next is the next part.
LEMMA PartsFollow ==
  ASSUME NEW t \in Seq(Int), NEW i \in 0 .. Size, NEW j \in 0 .. Size, NEW k \in 0 .. Size, i <= j, j <= k
  PROVE  (t \o Part(i, j)) \o Part(j, k) = t \o Part(i, k)
  <1> DEFINE p == Part(i, j)
             q == Part(j, k)
  <1>1. p \in Seq(Int) /\ q \in Seq(Int)
    BY Parts
  <1>2. p \o q = Part(i, k)
    BY PartsJoin
  <1> HIDE DEF p, q
  <1>3. (t \o p) \o q = t \o (p \o q)
    BY <1>1, Grouped
  <1> QED BY <1>2, <1>3 DEF p, q

\* No byte of the file is a newline.
LEMMA NoNewline ==
  ASSUME NEW f \in Seq(Int), NEW j \in 0 .. Size, NEW k \in 0 .. Size, j <= k,
         \A i \in DOMAIN f : f[i] # Newline
  PROVE  \A i \in DOMAIN (f \o Part(j, k)) : (f \o Part(j, k))[i] # Newline
  <1> DEFINE q == Part(j, k)
             l == f \o q
  <1>1. q \in Seq(Int) /\ Len(q) = k - j /\ \A n \in 1 .. k - j : q[n] = j + n
    BY Parts
  <1>2. \A n \in 1 .. k - j : j + n # 0
    BY DownloadAssumption
  <1>3. \A n \in 1 .. Len(q) : q[n] # Newline
    BY <1>1, <1>2 DEF Newline
  <1> HIDE DEF q
  <1>4. /\ DOMAIN l = 1 .. Len(f) + Len(q)
        /\ \A i \in 1 .. Len(f) : l[i] = f[i]
        /\ \A i \in 1 .. Len(q) : l[Len(f) + i] = q[i]
    BY <1>1, Appended
  <1> HIDE DEF l
  <1>5. SUFFICES ASSUME NEW i \in DOMAIN l PROVE l[i] # Newline
    BY DEF l, q
  <1>6. DOMAIN f = 1 .. Len(f) /\ Len(f) \in Nat /\ Len(q) \in Nat
    BY <1>1
  <1>7. CASE i \in 1 .. Len(f)
    BY <1>4, <1>6, <1>7
  <1>8. CASE i \notin 1 .. Len(f)
    <2>1. i - Len(f) \in 1 .. Len(q) /\ i = Len(f) + (i - Len(f))
      BY <1>4, <1>6, <1>8
    <2> QED BY <1>3, <1>4, <2>1
  <1> QED BY <1>7, <1>8

\* A round of the server keeps what the two ends hold together.
LEMMA ServerRoundStep ==
  ASSUME ServerRound, DownloadTypes, Transfer
  PROVE  DownloadTypes' /\ Transfer'
  <1> DEFINE q == d.sbuf
             p == d.rbuf
             u == upstream'
             more == u \o q
  <1>1. /\ s.there /\ ~s.closed /\ d' = d /\ d \in Visits /\ s \in Clients /\ upstream \in Seq(Int) /\ downstream \in Seq(Int)
    BY DEF ServerRound, DownloadTypes, Visitor
  <1>2. d.conn /\ d.status = "got" /\ (Asking \/ Answered)
    BY <1>1 DEF Transfer, NoClient
  <1>3. PICK taken \in 0 .. AtMost(Chunk, Len(upstream)) :
           /\ upstream' = SubSeq(upstream, taken + 1, Len(upstream))
           /\ \E c \in ReadsClient(s, SubSeq(upstream, 1, taken)) :
                \E k \in Writes(c) :
                  /\ downstream' = downstream \o SubSeq(c.sbuf, 1, k)
                  /\ s' \in SendFile([c EXCEPT !.sbuf = SubSeq(@, k + 1, Len(@))])
    BY DEF ServerRound
  <1> DEFINE bytes == SubSeq(upstream, 1, taken)
  <1>4. taken \in 0 .. Len(upstream)
    BY <1>1, <1>3, DownloadAssumption DEF AtMost
  <1>5. bytes \in Seq(Int) /\ u \in Seq(Int) /\ bytes \o u = upstream
    BY <1>1, <1>3, <1>4, Halves
  <1>6. q \in Seq(Int) /\ p \in Seq(Int) /\ s.rbuf \in Seq(Int) /\ s.sbuf \in Seq(Int) /\ s.sent \in 0 .. Size
    BY <1>1 DEF Visits, Clients
  <1>7. PICK c \in ReadsClient(s, bytes) : \E k \in Writes(c) :
           /\ downstream' = downstream \o SubSeq(c.sbuf, 1, k)
           /\ s' \in SendFile([c EXCEPT !.sbuf = SubSeq(@, k + 1, Len(@))])
    BY <1>3
  <1>8. PICK k \in Writes(c) :
           /\ downstream' = downstream \o SubSeq(c.sbuf, 1, k)
           /\ s' \in SendFile([c EXCEPT !.sbuf = SubSeq(@, k + 1, Len(@))])
    BY <1>7
  <1> HIDE DEF bytes, q, p, u
  <1>9. more \in Seq(Int) /\ Request = (s.rbuf \o bytes) \o more
    <2>1. more \in Seq(Int)
      BY <1>5, <1>6, Appended
    <2>2. (bytes \o u) \o q = bytes \o (u \o q)
      <3>1. bytes \in Seq(Int) /\ u \in Seq(Int) /\ q \in Seq(Int)
        BY <1>5, <1>6
      <3> QED BY <3>1, Grouped, Zenon
    <2>3. upstream \o q = bytes \o more
      BY <1>5, <2>2
    <2> HIDE DEF more
    <2> DEFINE r == s.rbuf
    <2>4. r \in Seq(Int)
      BY <1>6
    <2> HIDE DEF r
    <2>5. (r \o bytes) \o more = r \o (bytes \o more)
      BY <1>5, <2>1, <2>4, Grouped
    <2> QED BY <2>1, <2>3, <2>5 DEF Request, r, q
  <1> HIDE DEF more
  <1>10. \/ Request = <<>>
         \/ Request = <<GetArena, Newline>> /\ ~s.file
    BY <1>1, <1>2 DEF Asking, Answered
  <1>11. /\ c \in Clients /\ c.there = s.there /\ c.sent = s.sent /\ c.closed = s.closed
         /\ \/ c.rbuf \o more = Request /\ c.file = s.file /\ c.sbuf = s.sbuf
            \/ /\ c.rbuf \o more = <<>> /\ ~s.file /\ Request # <<>>
               /\ \/ c.file /\ c.sbuf = s.sbuf \o <<Ok, Newline>>
                  \/ ~c.file /\ c.sbuf = s.sbuf \o <<Error, Newline>>
    <2>1. OnItsWay(s, bytes, more)
      BY <1>9, <1>10 DEF OnItsWay
    <2>2. c \in Clients /\ c.there = s.there /\ c.sent = s.sent /\ c.closed = s.closed /\ Comes(s, bytes, more, c)
      BY <1>1, <1>5, <1>7, <1>9, <2>1, ReadsRequest
    <2> QED BY <1>9, <2>2 DEF Comes
  <1> DEFINE b == c.sbuf
             x == SubSeq(b, 1, k)
             y == SubSeq(b, k + 1, Len(b))
             v == [c EXCEPT !.sbuf = y]
             w == downstream'
  <1>12. b \in Seq(Int) /\ k \in 0 .. Len(b)
    <2>1. b \in Seq(Int)
      BY <1>11 DEF Clients
    <2> QED BY <1>8, <2>1 DEF Writes
  <1>13. w = downstream \o x /\ s' \in SendFile(v)
    BY <1>8
  <1> HIDE DEF b
  <1>14. x \in Seq(Int) /\ y \in Seq(Int) /\ x \o y = b
    BY <1>12, Halves
  <1> HIDE DEF x, y, w
  <1>15. v \in Clients /\ v.rbuf = c.rbuf /\ v.sbuf = y /\ v.there = c.there /\ v.file = c.file /\ v.sent = c.sent
    BY <1>11, <1>14, ClientWrites
  <1> HIDE DEF v
  <1>16. w \in Seq(Int) /\ w \o y = downstream \o b
    <2>1. (downstream \o x) \o y = downstream \o (x \o y)
      BY <1>1, <1>14, Grouped
    <2> QED BY <1>1, <1>13, <1>14, <2>1, Appended
  <1>17. /\ s' \in Clients /\ s'.rbuf = v.rbuf /\ s'.there = v.there /\ s'.file = v.file
         /\ \/ s'.sbuf = v.sbuf /\ s'.sent = v.sent
            \/ v.file /\ v.sbuf = <<>> /\ v.sent <= s'.sent /\ s'.sbuf = Part(v.sent, s'.sent)
         /\ ~v.file \/ v.sbuf # <<>> => s' = v
    BY <1>13, <1>15, SendFileSends
  <1> DEFINE base == p \o (downstream \o b)
             next == s'.sent
  <1>18. base \in Seq(Int)
    BY <1>1, <1>6, <1>12, Appended
  <1>19. DownloadTypes' /\ s'.there /\ s'.file = c.file /\ next \in 0 .. Size /\ s.sent <= next
    <2>1. next \in 0 .. Size
      BY <1>17 DEF Clients
    <2>2. s.sent <= next
      BY <1>6, <1>11, <1>15, <1>17
    <2> QED BY <1>1, <1>5, <1>11, <1>15, <1>16, <1>17, <2>1, <2>2 DEF DownloadTypes, u, w
  <1>20. Request' = c.rbuf \o more
    BY <1>1, <1>15, <1>17 DEF Request, more, u, q
  <1>21. Stream' = base \o Part(s.sent, next) /\ (~c.file => Stream' = base /\ next = s.sent)
    <2>0. Stream' = p \o (w \o s'.sbuf)
      BY <1>1 DEF Stream, p, w
    <2>1. CASE s'.sbuf = y /\ next = s.sent
      <3>1. Stream' = base
        BY <1>16, <2>0, <2>1
      <3> HIDE DEF base
      <3>2. base \o <<>> = base
        BY <1>18, NothingAfter
      <3>3. Part(s.sent, next) = <<>>
        BY <1>6, <2>1, EmptyPart
      <3> QED BY <2>1, <3>1, <3>2, <3>3
    <2>2. CASE c.file /\ y = <<>> /\ s'.sbuf = Part(s.sent, next)
      <3> DEFINE z == Part(s.sent, next)
      <3>1. z \in Seq(Int)
        BY <1>6, <1>19, Parts
      <3> HIDE DEF next, z
      <3>2. w = downstream \o b
        <4>1. w \o <<>> = w
          BY <1>16, NothingAfter
        <4> QED BY <1>16, <2>2, <4>1
      <3> DEFINE m == downstream \o b
      <3>3. m \in Seq(Int)
        BY <1>1, <1>12, Appended
      <3> HIDE DEF m
      <3>4. p \o (m \o z) = (p \o m) \o z
        <4>1. p \in Seq(Int)
          BY <1>6
        <4> QED BY <3>1, <3>3, <4>1, Grouped, Zenon
      <3> QED BY <2>0, <2>2, <3>2, <3>4 DEF m, z
    <2> QED BY <1>11, <1>15, <1>17, <2>1, <2>2
  <1> HIDE DEF base, next
  <1>22. CASE c.rbuf \o more = Request /\ c.file = s.file /\ c.sbuf = s.sbuf
    <2>1. base = Stream /\ Request' = Request
      BY <1>20, <1>22 DEF base, b, p, Stream
    <2>2. CASE Asking
      <3>1. Stream' = Stream /\ s'.sent = s.sent
        BY <1>21, <1>22, <2>1, <2>2 DEF Asking, next
      <3>2. Asking'
        BY <1>1, <1>19, <1>22, <2>1, <2>2, <3>1 DEF Asking
      <3> QED BY <1>1, <1>2, <1>19, <3>2 DEF Transfer
    <2>3. CASE Answered
      <3>0. Request' = <<>>
        BY <1>1, <2>1, <2>3 DEF Answered
      <3>1. ASSUME Refused PROVE Refused'
        <4>1. Stream' = Stream
          BY <1>21, <1>22, <2>1, <3>1 DEF Refused
        <4> QED BY <1>1, <1>19, <1>22, <3>1, <4>1 DEF Refused
      <3>2. ASSUME Granted PROVE Granted'
        <4> DEFINE t == <<Ok, Newline>>
        <4>1. t \in Seq(Int) /\ 0 \in 0 .. Size /\ 0 <= s.sent
          BY <1>6, DownloadAssumption DEF Ok, Newline
        <4>2. base = t \o Part(0, s.sent)
          BY <2>1, <3>2 DEF Granted, Part
        <4> HIDE DEF t
        <4>5. s.sent \in 0 .. Size /\ next \in 0 .. Size /\ s.sent <= next
          BY <1>6, <1>19
        <4>3. (t \o Part(0, s.sent)) \o Part(s.sent, next) = t \o Part(0, next)
          BY <4>1, <4>5, PartsFollow, Zenon
        <4>4. Stream' = t \o Part(0, next)
          BY <1>21, <4>2, <4>3
        <4> QED BY <1>1, <1>19, <1>22, <3>2, <4>4 DEF Granted, Part, next, t
      <3>3. ASSUME Unopened PROVE Unopened'
        <4>1. \A i \in DOMAIN base : base[i] # Newline
          BY <2>1, <3>3 DEF Unopened
        <4>2. \A i \in DOMAIN (base \o Part(s.sent, next)) : (base \o Part(s.sent, next))[i] # Newline
          BY <1>6, <1>18, <1>19, <4>1, NoNewline
        <4>3. \A i \in DOMAIN Stream' : Stream'[i] # Newline
          BY <1>21, <4>2
        <4> QED BY <1>1, <1>19, <1>22, <3>3, <4>3 DEF Unopened
      <3>4. ASSUME Opened PROVE Opened'
        <4> DEFINE i == d.offset
        <4>1. i \in 0 .. Size /\ i <= s.sent
          BY <1>1, <3>4 DEF Opened, Visits
        <4>2. base = Part(i, s.sent)
          BY <2>1, <3>4 DEF Opened, Part
        <4> HIDE DEF i
        <4>3. Part(i, s.sent) \o Part(s.sent, next) = Part(i, next)
          BY <1>6, <1>19, <4>1, PartsJoin
        <4>4. Stream' = Part(i, next)
          BY <1>21, <4>2, <4>3
        <4>5. i <= next
          BY <1>6, <1>19, <4>1
        <4> QED BY <1>1, <1>19, <1>22, <3>4, <4>4, <4>5 DEF Opened, Part, next, i
      <3>5. Answered'
        BY <2>3, <3>0, <3>1, <3>2, <3>3, <3>4 DEF Answered
      <3> QED BY <1>1, <1>2, <1>19, <3>5 DEF Transfer
    <2> QED BY <1>2, <2>2, <2>3
  <1>23. CASE /\ c.rbuf \o more = <<>> /\ ~s.file /\ Request # <<>>
              /\ \/ c.file /\ c.sbuf = s.sbuf \o <<Ok, Newline>>
                 \/ ~c.file /\ c.sbuf = s.sbuf \o <<Error, Newline>>
    <2>1. Asking
      BY <1>1, <1>2, <1>23 DEF Answered
    <2>2. p = <<>> /\ downstream = <<>> /\ s.sbuf = <<>>
      <3>1. p \o (downstream \o s.sbuf) = <<>>
        BY <2>1 DEF Asking, Stream, p
      <3> QED BY <1>1, <1>6, <3>1, AllEmpty
    <2>3. base = b
      <3>1. <<>> \o b = b
        BY <1>12, NothingAfter
      <3> QED BY <2>2, <3>1 DEF base
    <2>4. s.sent = 0 /\ ~d.file /\ Request' = <<>>
      BY <1>20, <1>23, <2>1 DEF Asking
    <2>5. CASE c.file /\ c.sbuf = s.sbuf \o <<Ok, Newline>>
      <3> DEFINE t == <<Ok, Newline>>
      <3>1. t \in Seq(Int) /\ 0 + 1 = 1
        BY DEF Ok, Newline
      <3> HIDE DEF t
      <3>2. b = t
        <4>1. <<>> \o t = t
          BY <3>1, NothingAfter
        <4> QED BY <2>2, <2>5, <4>1 DEF b, t
      <3>3. Stream' = t \o Part(0, next)
        BY <1>21, <2>3, <2>4, <3>2
      <3>4. Granted'
        BY <1>1, <1>19, <2>4, <2>5, <3>1, <3>3 DEF Granted, Part, next, t
      <3> QED BY <1>1, <1>2, <1>19, <2>4, <3>4 DEF Transfer, Answered
    <2>6. CASE ~c.file /\ c.sbuf = s.sbuf \o <<Error, Newline>>
      <3> DEFINE t == <<Error, Newline>>
      <3>1. t \in Seq(Int)
        BY DEF Error, Newline
      <3> HIDE DEF t
      <3>2. b = t
        <4>1. <<>> \o t = t
          BY <3>1, NothingAfter
        <4> QED BY <2>2, <2>6, <4>1 DEF b, t
      <3>3. Stream' = t
        BY <1>21, <2>3, <2>6, <3>2
      <3>4. Refused'
        BY <1>1, <1>19, <2>4, <2>6, <3>3 DEF Refused, t
      <3> QED BY <1>1, <1>2, <1>19, <2>4, <3>4 DEF Transfer, Answered
    <2> QED BY <1>23, <2>5, <2>6
  <1> QED BY <1>11, <1>22, <1>23

\* Steps that leave the download alone, and the screen downArena only when it has stopped.
LEMMA DownloadRests ==
  ASSUME DownloadTypes, Transfer, Arriving, UNCHANGED download, phase = "run", phase' # "off",
         phase' = "run" =>
           /\ at \notin {"recv", "finish"}
           /\ screen = "downArena" /\ at # "start" => screen' = "downArena" /\ at' # "start"
           /\ screen' = "downArena" /\ future' = "world" => screen = "downArena" /\ future = "world"
  PROVE  DownloadTypes' /\ Transfer' /\ Arriving'
  <1>1. /\ d' = d /\ s' = s /\ upstream' = upstream /\ downstream' = downstream
        /\ disk' = disk /\ known' = known
    BY DEF download, peers
  <1>2. DownloadTypes' /\ Transfer'
    BY <1>1 DEF DownloadTypes, Transfer, Asking, Answered, Refused, Granted, Unopened, Opened, Stream, Request
  <1>3. Placed /\ Partial /\ OnDisk
    BY DEF Arriving, Running
  <1>4. phase' = "run" => Placed' /\ Partial' /\ OnDisk'
    BY <1>1, <1>3 DEF Placed, Partial, OnDisk, Complete
  <1> QED BY <1>2, <1>4 DEF Arriving, Leftover, Running

\* There is nobody to become a zombie.
LEMMA NothingCloses ==
  ASSUME NEW c \in Clients, c.closed = c.there
  PROVE  [c EXCEPT !.closed = c.there] = c
  BY DEF Clients

\* The network and the download server leave the client alone.
LEMMA ServerStep ==
  ASSUME NetworkStep \/ DownServerStep, DownloadTypes, Transfer, Arriving
  PROVE  DownloadTypes' /\ Transfer' /\ Arriving'
  <1>1. UNCHANGED <<Tick, Visitor>>
    BY DEF NetworkStep, DownServerStep, LosesMail, AnswersStatus, ServerDies, ServerRound
  <1>2. Arriving'
    BY <1>1 DEF Tick, Visitor, Arriving, Leftover, Running, Placed, Partial, OnDisk, Complete
  <1>3. CASE UNCHANGED <<upstream, downstream, s>>
    BY <1>1, <1>2, <1>3 DEF Visitor, DownloadTypes, Transfer, Asking, Answered, Refused, Granted, Unopened, Opened,
                            Stream, Request
  <1>4. CASE ServerRound
    BY <1>2, <1>4, ServerRoundStep
  <1>5. CASE ServerDies
    <2>1. d' = d /\ upstream' = upstream /\ downstream' = downstream /\ s' = [s EXCEPT !.closed = s.there] /\ s \in Clients
      BY <1>1, <1>5 DEF ServerDies, Visitor, DownloadTypes
    <2>2. CASE d.conn
      <3> DEFINE c == [s EXCEPT !.closed = TRUE]
      <3>1. s.there
        BY <2>2 DEF Transfer
      <3>2. s.there = TRUE
        BY <2>1, <3>1 DEF Clients
      <3>3. s' = c
        BY <2>1, <3>2
      <3>4. /\ c \in Clients /\ c.rbuf = s.rbuf /\ c.sbuf = s.sbuf /\ c.there = s.there /\ c.file = s.file
            /\ c.sent = s.sent /\ c.closed
        BY <2>1, ClientCloses
      <3> HIDE DEF c
      <3>5. DownloadTypes' /\ Stream' = Stream
        BY <2>1, <3>3, <3>4 DEF DownloadTypes, Stream
      <3>6. Asking \/ Answered => Asking' \/ Answered'
        BY <2>1, <3>3, <3>4, <3>5 DEF Asking, Answered, Refused, Granted, Unopened, Opened
      <3> QED BY <1>2, <2>1, <2>2, <3>3, <3>4, <3>5, <3>6 DEF Transfer
    <2>3. CASE ~d.conn
      <3>1. s = NoClient
        BY <2>3 DEF Transfer
      <3>2. s' = s
        <4>1. s.closed = FALSE /\ s.there = FALSE
          BY <3>1 DEF NoClient
        <4> QED BY <2>1, <4>1, NothingCloses
      <3> QED BY <1>2, <2>1, <2>3, <3>1, <3>2 DEF Transfer, DownloadTypes
    <2> QED BY <2>2, <2>3
  <1> QED BY <1>3, <1>4, <1>5 DEF NetworkStep, DownServerStep, LosesMail, AnswersStatus

\* The stop of downArena removes a file that is not complete.
LEMMA DownArenaStopStep ==
  ASSUME DownArenaStops, DownloadTypes, Transfer, Arriving
  PROVE  DownloadTypes' /\ Transfer' /\ Arriving'
  <1> DEFINE c == [Closed(d) EXCEPT !.udp = FALSE]
  <1>1. /\ phase = "run" /\ phase' \in {"run", "no key"} /\ screen = "downArena" /\ screen' = screen /\ future' = future
        /\ at = "stop" /\ at' = "start" /\ d' = c /\ HangsUp(d) /\ known' = known
        /\ disk' = (IF d.file THEN {} ELSE disk) /\ d \in Visits
    BY DEF DownArenaStops, Stops, DownStop, Runs, DownloadTypes
  <1>2. /\ c \in Visits /\ ~c.conn /\ c.file = d.file /\ c.size = d.size /\ c.offset = d.offset
    BY <1>1, ClosedKeeps
  <1> HIDE DEF c
  <1>3. DownloadTypes' /\ Transfer'
    BY <1>1, <1>2, HangsUpEnds
  <1>4. Placed /\ Partial /\ OnDisk
    BY <1>1 DEF Arriving, Running
  <1>5. Placed' /\ Partial' /\ OnDisk'
    BY <1>1, <1>2, <1>4 DEF Placed, Partial, OnDisk, Complete
  <1> QED BY <1>1, <1>3, <1>5 DEF Arriving, Leftover

\* A new visit: the status is asked for again, the rest is as it was.
LEMMA Restarts ==
  ASSUME NEW r \in Visits, NEW b \in BOOLEAN
  PROVE  LET c == [r EXCEPT !.status = "none"]
             e == [c EXCEPT !.udp = b] IN
         /\ e \in Visits /\ e.conn = r.conn /\ e.file = r.file /\ e.size = r.size /\ e.offset = r.offset
  BY DEF Visits

\* The start of downArena keeps the file of an earlier visit, which has no data then.
LEMMA DownArenaStartStep ==
  ASSUME DownArenaStarts, DownloadTypes, Transfer, Arriving
  PROVE  DownloadTypes' /\ Transfer' /\ Arriving'
  <1> DEFINE r == [d EXCEPT !.status = "none"]
             with == [r EXCEPT !.udp = TRUE]
             without == [r EXCEPT !.udp = FALSE]
  <1>1. /\ phase = "run" /\ phase' = "run" /\ screen' = "downArena" /\ future' = "none"
        /\ at = "start" /\ at' = "event" /\ known' = known /\ disk' = disk /\ UNCHANGED <<upstream, downstream, s>>
        /\ d \in Visits /\ d' \in {Asks(with), without}
    BY DEF DownArenaStarts, Starts, DownStart, Runs, DownloadTypes, peers
  <1>2. Placed /\ Partial /\ OnDisk
    BY <1>1 DEF Arriving, Running
  <1>3. /\ with \in Visits /\ with.conn = d.conn /\ with.file = d.file /\ with.size = d.size /\ with.offset = d.offset
        /\ without \in Visits /\ without.conn = d.conn /\ without.file = d.file /\ without.size = d.size
        /\ without.offset = d.offset
    BY <1>1, Restarts
  <1> HIDE DEF with, without
  <1>4. d' \in Visits /\ d'.conn = d.conn /\ d'.file = d.file /\ d'.size = d.size /\ d'.offset = d.offset
    BY <1>1, <1>3, AsksKeeps
  <1>5. ~d.conn /\ (d.file => disk = {})
    BY <1>1, <1>2 DEF Placed, Partial
  <1>6. DownloadTypes' /\ Transfer'
    BY <1>1, <1>4, <1>5 DEF DownloadTypes, Transfer
  <1>7. Placed' /\ Partial' /\ OnDisk'
    BY <1>1, <1>2, <1>4, <1>5 DEF Placed, Partial, OnDisk, Complete
  <1> QED BY <1>1, <1>6, <1>7 DEF Arriving, Leftover

\* Whenever the program ends, what is on the disk is whole only when it is known.
LEMMA GameQuitStep ==
  ASSUME GameQuit, phase = "run", at \notin {"recv", "finish"}, DownloadTypes, Transfer, Arriving
  PROVE  DownloadTypes' /\ Transfer' /\ Arriving'
  <1>1. /\ phase' = "off" /\ d' = NoDownload /\ HangsUp(d) /\ disk' = disk /\ known' = known /\ d \in Visits
    BY DEF GameQuit, DownloadQuit, DownloadTypes
  <1>2. DownloadTypes' /\ Transfer'
    BY <1>1, HangsUpEnds, NewDownload
  <1>3. Placed /\ Partial /\ OnDisk
    BY DEF Arriving, Running
  <1>4. Content \in disk => known
    <2>1. CASE ~d.file
      BY <1>3, <2>1 DEF OnDisk
    <2>2. CASE d.file
      <3>1. d.size = Size /\ d.size # d.offset /\ disk \subseteq {Part(0, d.offset)}
        <4>1. ~Complete /\ Size > 0 /\ 0 + 1 = 1
          BY <1>3, DownloadAssumption DEF OnDisk
        <4> QED BY <1>3, <2>2, <4>1 DEF Partial, Complete, Part
      <3>2. d.offset \in 0 .. Size
        BY <1>1 DEF Visits
      <3>3. Len(Part(0, d.offset)) = d.offset
        BY <3>2, FirstPart
      <3>4. Len(Content) = Size
        BY DownloadAssumption DEF Content
      <3>5. Content # Part(0, d.offset)
        BY <3>1, <3>3, <3>4
      <3> QED BY <3>1, <3>5
    <2> QED BY <2>1, <2>2
  <1> QED BY <1>1, <1>2, <1>4 DEF Arriving, Leftover, Running

\* The archives are opened at the start, so a part of one is found then.
LEMMA InitGameStep ==
  ASSUME InitGame, AtRest, DownloadTypes, Transfer, Arriving
  PROVE  DownloadTypes' /\ Transfer' /\ Arriving'
  <1>1. /\ phase = "off" /\ phase' \in {"run", "broken archive"} /\ screen' = screen /\ at' = at /\ future' = future
        /\ d' = d /\ s' = s /\ upstream' = upstream /\ downstream' = downstream /\ disk' = disk /\ known' = known
        /\ (phase' = "run" => disk \subseteq {Content})
    BY DEF InitGame, OnlyTick, ExtractFile, download, peers
  <1>2. screen = "none" /\ d = NoDownload /\ ~d.conn /\ ~d.file
    BY <1>1, NewDownload DEF AtRest
  <1>3. DownloadTypes' /\ Transfer'
    BY <1>1, <1>2 DEF DownloadTypes, Transfer
  <1>4. Content \in disk => known
    BY <1>1 DEF Arriving, Leftover
  <1>5. phase' = "run" => Placed' /\ Partial' /\ OnDisk'
    BY <1>1, <1>2, <1>4 DEF Placed, Partial, OnDisk, Complete
  <1> QED BY <1>1, <1>3, <1>5 DEF Arriving, Leftover, Running

\* Every step keeps the disk, the two ends and what is between them together.
LEMMA ArrivingStep ==
  ASSUME Ticks, AtRest, DownloadTypes, Transfer, Arriving, [Next]_program
  PROVE  DownloadTypes' /\ Transfer' /\ Arriving'
  <1>1. CASE GameQuit /\ (Runs("event") \/ Runs("keys"))
    BY <1>1, GameQuitStep DEF Runs
  <1>2. ASSUME NEW name \in Menus, NEW goes, Menu(name, goes)
        PROVE  DownloadTypes' /\ Transfer' /\ Arriving'
    <2>1. name # "downArena"
      BY MenuNames
    <2>2. /\ UNCHANGED download /\ phase = "run" /\ phase' = "run" /\ at = "event" /\ screen # "downArena"
          /\ screen' # "downArena"
      BY <1>2, <2>1 DEF Menu, Runs
    <2> QED BY <2>2, DownloadRests
  <1>3. CASE MainMenuEvent \/ SettingEvent \/ SettingKeyEvent \/ TableEvent \/ CreditsEvent
               \/ AnalyzeEvent \/ GameTypeEvent \/ ChoiceArenaEvent \/ BrowserEvent
    <2>1. Runs("event")
      BY <1>3 DEF MainMenuEvent, SettingEvent, SettingKeyEvent, TableEvent, CreditsEvent, AnalyzeEvent,
                  GameTypeEvent, ChoiceArenaEvent, BrowserEvent, SelectLine, PlayServer, Leads, Stays, Menu
    <2> QED BY <1>1, <1>2, <1>3, <2>1, MenuSteps
  <1>4. CASE InitGame
    BY <1>4, InitGameStep
  <1>5. CASE WorldWaits
    <2>1. /\ UNCHANGED download /\ phase = "run" /\ phase' # "off" /\ at = "event" /\ screen = "world" /\ screen' = screen
      BY <1>5 DEF WorldWaits, InGame, Runs
    <2> QED BY <2>1, DownloadRests
  <1>6. CASE WorldEvent
    <2>1. /\ UNCHANGED download /\ phase = "run" /\ phase' # "off" /\ at = "event" /\ screen = "world" /\ screen' = screen
      BY <1>6 DEF WorldEvent, InGame, Runs, SaveDialogEvent, YesNoDialogEvent, Fate
    <2> QED BY <2>1, DownloadRests
  <1>7. CASE DownArenaEvent
    BY <1>7, EventStatusStep, ReceivedStep, FinishStep DEF DownArenaEvent
  <1>8. CASE DownArenaFails
    <2>1. UNCHANGED download /\ phase = "run" /\ phase' = "no socket"
      BY <1>8 DEF DownArenaFails, Runs, OnlyTick
    <2> QED BY <2>1, DownloadRests
  <1>9. CASE HotKeyEvent
    <2>1. CASE GameQuit /\ Runs("keys")
      BY <1>1, <2>1
    <2>2. CASE ~GameQuit
      <3>1. /\ UNCHANGED download /\ phase = "run" /\ phase' # "off" /\ at = "keys" /\ at' = "stop" /\ screen' = screen
            /\ future' \in {future} \cup {EscapeTo[name] : name \in DOMAIN EscapeTo}
        BY <1>9, <2>2 DEF HotKeyEvent, Runs, Fate, ScreenSet
      <3>2. future' = "world" => future = "world"
        BY <3>1, EscapeLeads
      <3> QED BY <3>1, <3>2, DownloadRests
    <2> QED BY <1>9, <2>1, <2>2 DEF HotKeyEvent
  <1>10. CASE NoKey \/ SwitchNone
    <2>1. /\ UNCHANGED download /\ phase = "run" /\ phase' = "run" /\ at \in {"keys", "stop"} /\ at' \in {"stop", "event"}
          /\ screen' = screen /\ future' = future
      BY <1>10 DEF NoKey, NoHotKey, SwitchNone, NoSwitch, Runs, OnlyTick
    <2> QED BY <2>1, DownloadRests
  <1>11. CASE MenuStops \/ BrowserStops \/ StoptWorld
    <2>1. /\ UNCHANGED download /\ phase = "run" /\ phase' # "off" /\ at = "stop"
          /\ screen # "downArena" /\ screen' = screen
      BY <1>11, MenuNames DEF MenuStops, BrowserStops, StoptWorld, Stops, Runs
    <2> QED BY <2>1, DownloadRests
  <1>12. CASE MenuStarts \/ BrowserStarts \/ StartWorld
    <2>1. /\ UNCHANGED download /\ phase = "run" /\ phase' # "off" /\ at = "start" /\ future' = "none"
      BY <1>12 DEF MenuStarts, BrowserStarts, StartWorld, Starts, Runs
    <2> QED BY <2>1, DownloadRests
  <1>13. CASE DownArenaStops
    BY <1>13, DownArenaStopStep
  <1>14. CASE DownArenaStarts
    BY <1>14, DownArenaStartStep
  <1>15. CASE NetworkStep \/ DownServerStep
    BY <1>15, ServerStep
  <1>16. CASE UNCHANGED program
    <2>1. UNCHANGED <<phase, screen, future, at, download>>
      BY <1>16 DEF program
    <2> QED BY <2>1 DEF download, peers, DownloadTypes, Transfer, Asking, Answered, Refused, Granted, Unopened, Opened,
                        Stream, Request, Arriving, Leftover, Running, Placed, Partial, OnDisk, Complete
  <1>17. CASE WindowCloses
    BY <1>1, <1>17 DEF WindowCloses
  <1> QED BY <1>3, <1>4, <1>5, <1>6, <1>7, <1>8, <1>9, <1>10, <1>11, <1>12, <1>13, <1>14, <1>15, <1>16, <1>17
          DEF Next, ProgramStep

\* What holds in every state.
LEMMA RestsAndArrives == Spec => [](Ticks /\ AtRest /\ DownloadTypes /\ Transfer /\ Arriving)
  <1> DEFINE I == Ticks /\ AtRest /\ DownloadTypes /\ Transfer /\ Arriving
  <1>1. Init => I
    <2> SUFFICES ASSUME Init PROVE I
      OBVIOUS
    <2>1. /\ phase = "off" /\ d = NoDownload /\ s = NoClient /\ upstream = <<>> /\ downstream = <<>> /\ disk = {}
      BY DEF Init, DownloadInit
    <2>2. <<>> \in Seq(Int)
      OBVIOUS
    <2>3. upstream \in Seq(Int) /\ downstream \in Seq(Int)
      BY <2>1, <2>2
    <2>4. DownloadTypes
      BY <2>1, <2>3, NewClient, NewDownload DEF DownloadTypes
    <2>5. Transfer /\ Arriving
      BY <2>1, NewDownload DEF Transfer, Arriving, Leftover, Running
    <2> QED BY <2>4, <2>5 DEF Init, Ticks, AtRest, Running, DownloadInit
  <1>2. I /\ [Next]_program => I'
    BY TicksStep, ArrivingStep
  <1> QED BY <1>1, <1>2, PTL DEF Spec

\* Away from downArena the disk holds whole files only, for every size of the file, of the
\* blocks, the reads and the buffers, and wherever TCP cuts the stream.
THEOREM AlwaysWholeFile == Spec => []WholeFile
  <1>1. Ticks /\ AtRest /\ DownloadTypes /\ Transfer /\ Arriving => WholeFile
    BY DEF Arriving, Placed, Partial, OnDisk, WholeFile
  <1> QED BY <1>1, RestsAndArrives, PTL

-----------------------------------------------------------------------------
(* A download goes forward: what DownloadEnds owes to the two ends rather    *)
(* than to fairness.                                                        *)

\* A round of the download server never sends again what it has sent.
LEMMA ServerGoesForward ==
  ASSUME ServerRound, DownloadTypes
  PROVE  s.sent <= s'.sent
  <1>0. s \in Clients /\ s.sent \in 0 .. Size
    BY DEF DownloadTypes, Clients
  <1>1. PICK bytes, k : \E c \in ReadsClient(s, bytes) :
               s' \in SendFile([c EXCEPT !.sbuf = SubSeq(@, k + 1, Len(@))])
    BY DEF ServerRound
  <1>2. PICK c \in ReadsClient(s, bytes) :
               s' \in SendFile([c EXCEPT !.sbuf = SubSeq(@, k + 1, Len(@))])
    BY <1>1
  <1>3. PICK q : s' \in SendFile([c EXCEPT !.sbuf = q])
    BY <1>2
  <1> DEFINE read == [s EXCEPT !.rbuf = @ \o bytes]
             sends == [c EXCEPT !.sbuf = q]
  <1>4. \E x, y : \/ c = [s EXCEPT !.rbuf = x]
                  \/ c = [[s EXCEPT !.rbuf = x] EXCEPT !.sbuf = y]
                  \/ c = [[s EXCEPT !.rbuf = x] EXCEPT !.file = TRUE, !.sbuf = y]
    <2>1. \/ c = read
          \/ c = [read EXCEPT !.rbuf = AfterLine(@)]
          \/ c \in ProtoGetArena([read EXCEPT !.rbuf = AfterLine(@)])
      BY <1>2 DEF ReadsClient
    <2>2. PICK x : c = [s EXCEPT !.rbuf = x] \/ c \in ProtoGetArena([s EXCEPT !.rbuf = x])
      <3>1. PICK x : read = [s EXCEPT !.rbuf = x] /\ [read EXCEPT !.rbuf = AfterLine(@)] = [s EXCEPT !.rbuf = AfterLine(x)]
        BY <1>0 DEF Clients
      <3> HIDE DEF read
      <3> QED BY <2>1, <3>1
    <2> QED BY <2>2 DEF ProtoGetArena
  <1>5. c.sent = s.sent /\ sends.sent = s.sent
    BY <1>0, <1>4 DEF Clients
  <1>6. \/ s' = sends
        \/ s' = [sends EXCEPT !.closed = TRUE]
        \/ \E y : s' = [sends EXCEPT !.sbuf = y, !.sent = @ + AtMost(Block, Size - sends.sent)]
    BY <1>3 DEF SendFile
  <1>7. s'.sent = sends.sent \/ s'.sent = sends.sent + AtMost(Block, Size - sends.sent)
    BY <1>0, <1>4, <1>6 DEF Clients
  <1>8. AtMost(Block, Size - s.sent) >= 0
    BY <1>0, DownloadAssumption DEF AtMost
  <1>9. AtMost(Block, Size - s.sent) \in Int
    BY <1>0, DownloadAssumption DEF AtMost
  <1> HIDE DEF sends
  <1>10. s'.sent = s.sent \/ s'.sent = s.sent + AtMost(Block, Size - s.sent)
    BY <1>5, <1>7
  <1> QED BY <1>0, <1>8, <1>9, <1>10

\* A download that stays open never writes before where it has written, nor does the
\* server go back in the file.
LEMMA ForwardStep ==
  ASSUME DownloadTypes, Transfer, Arriving, [Next]_program, Downloading, Downloading'
  PROVE  d.offset <= d'.offset /\ s.sent <= s'.sent
  <1>0. /\ d \in Visits /\ s \in Clients /\ d.offset \in 0 .. Size /\ s.sent \in 0 .. Size /\ Size \in Nat
        /\ d.conn /\ d.file /\ d'.conn /\ d.status = "got"
    BY DownloadAssumption DEF DownloadTypes, Transfer, Downloading, Visits, Clients
  <1>same. ASSUME UNCHANGED <<d, s>> PROVE d.offset <= d'.offset /\ s.sent <= s'.sent
    BY <1>0, <1>same
  <1>1. ASSUME \E r : d' = r /\ ~r.conn PROVE FALSE
    BY <1>0, <1>1
  <1>2. CASE GameQuit
    BY <1>1, <1>2, NewDownload DEF GameQuit, DownloadQuit
  <1>3. CASE DownArenaStops
    BY <1>0, <1>1, <1>3, ClosedKeeps DEF DownArenaStops, DownStop
  <1>4. CASE DownArenaStarts
    <2>1. Running /\ at = "start"
      BY <1>4 DEF DownArenaStarts, Starts, Runs, Running
    <2> QED BY <1>0, <2>1 DEF Arriving, Placed
  <1>5. CASE EventStatus
    BY <1>0, <1>5, <1>same DEF EventStatus
  <1>6. CASE EventRecvBuffer
    <2>1. CASE UNCHANGED <<d, s>>
      BY <1>same, <2>1
    <2>2. CASE \E bytes \in Readable : Received(bytes)
      <3>1. PICK bytes \in Readable : Received(bytes)
        BY <2>2
      <3> DEFINE x == d.rbuf \o bytes
                 r == [d EXCEPT !.rbuf = x]
      <3>2. \/ d' = Closed(d)
            \/ s' = s /\ d' = [r EXCEPT !.rbuf = <<>>, !.offset = @ + Len(r.rbuf)]
        BY <1>0, <3>1 DEF Received, DownArenaFile
      <3>3. CASE d' = Closed(d)
        BY <1>0, <1>1, <3>3, ClosedKeeps
      <3>4. CASE s' = s /\ d' = [r EXCEPT !.rbuf = <<>>, !.offset = @ + Len(r.rbuf)]
        <4>1. r.rbuf = x /\ r.offset = d.offset
          BY <1>0 DEF Visits
        <4>2. d'.offset = d.offset + Len(x)
          BY <1>0, <3>4, <4>1 DEF Visits
        <4>3. x \in Seq(Int)
          <5>1. d.rbuf \in Seq(Int) /\ downstream \in Seq(Int)
            BY <1>0 DEF Visits, DownloadTypes
          <5>2. bytes \in Seq(Int)
            BY <5>1, Reads
          <5> HIDE DEF x
          <5> QED BY <5>1, <5>2 DEF x
        <4>4. Len(x) \in Nat
          BY <4>3
        <4> HIDE DEF r, x
        <4> QED BY <1>0, <3>4, <4>2, <4>4
      <3> QED BY <3>2, <3>3, <3>4
    <2> QED BY <1>6, <2>1, <2>2 DEF EventRecvBuffer
  <1>7. CASE Finish
    <2>1. CASE Complete
      BY <1>0, <1>1, <1>7, <2>1, ClosedKeeps DEF Finish
    <2>2. CASE ~Complete
      <3>1. EventSendBuffer /\ s' = s
        BY <1>7, <2>2 DEF Finish
      <3>2. d' = d \/ \E q : d' = [d EXCEPT !.sbuf = q]
        BY <3>1 DEF EventSendBuffer
      <3>3. d'.offset = d.offset
        <4>1. \A q : [d EXCEPT !.sbuf = q].offset = d.offset
          BY <1>0 DEF Visits
        <4> QED BY <3>2, <4>1, Zenon
      <3> QED BY <1>0, <3>1, <3>3
    <2> QED BY <2>1, <2>2
  <1>8. CASE ServerRound
    <2>1. s.sent <= s'.sent
      BY <1>8, ServerGoesForward
    <2>2. d' = d
      BY <1>8 DEF ServerRound, Visitor
    <2> QED BY <1>0, <2>1, <2>2
  <1>9. CASE ServerDies
    <2>1. d' = d /\ s' = [s EXCEPT !.closed = s.there]
      BY <1>9 DEF ServerDies, Visitor
    <2>2. s'.sent = s.sent
      BY <1>0, <2>1 DEF Clients
    <2> QED BY <1>0, <2>1, <2>2
  <1>10. CASE UNCHANGED download
    BY <1>10, <1>same DEF download, peers
  <1>11. CASE LosesMail \/ AnswersStatus
    BY <1>11, <1>same DEF LosesMail, AnswersStatus, Visitor
  <1>12. CASE MainMenuEvent \/ SettingEvent \/ SettingKeyEvent \/ TableEvent \/ CreditsEvent
              \/ AnalyzeEvent \/ GameTypeEvent \/ ChoiceArenaEvent \/ BrowserEvent
    BY <1>2, <1>10, <1>12
    DEF MainMenuEvent, SettingEvent, SettingKeyEvent, TableEvent, CreditsEvent, AnalyzeEvent, GameTypeEvent,
        ChoiceArenaEvent, BrowserEvent, SelectLine, PlayServer, Leads, Stays, Menu
  <1>13. CASE InitGame \/ WorldWaits \/ WorldEvent \/ DownArenaFails \/ NoKey \/ SwitchNone
    BY <1>10, <1>13 DEF InitGame, WorldWaits, WorldEvent, DownArenaFails, NoKey, SwitchNone, OnlyTick
  <1>14. CASE MenuStops \/ MenuStarts \/ BrowserStops \/ BrowserStarts \/ StoptWorld \/ StartWorld
    BY <1>10, <1>14 DEF MenuStops, MenuStarts, BrowserStops, BrowserStarts, StoptWorld, StartWorld
  <1>15. CASE HotKeyEvent
    BY <1>2, <1>10, <1>15 DEF HotKeyEvent
  <1>16. CASE WindowCloses
    BY <1>2, <1>16 DEF WindowCloses
  <1>17. CASE UNCHANGED program
    BY <1>10, <1>17 DEF program
  <1> QED
    BY <1>3, <1>4, <1>5, <1>6, <1>7, <1>8, <1>9, <1>11, <1>12, <1>13, <1>14, <1>15, <1>16, <1>17
    DEF Next, ProgramStep, NetworkStep, DownServerStep, DownArenaEvent

\* While a file is fetched, the buffers of the two ends and the connection hold, in this
\* order, exactly what the server has read of it and the client has not written, so that
\* a download with nothing on its way and nothing left to read is complete; and neither
\* end ever goes back.  That the rounds and the ticks go on is fairness; with it this is
\* DownloadEnds.
THEOREM DownloadGoesForward ==
  Spec => /\ [](Downloading =>
                  /\ Stream = SubSeq(Content, d.offset + 1, s.sent)
                  /\ Running /\ Stream = <<>> /\ s.sent = Size => Complete)
          /\ [][Downloading /\ Downloading' => d.offset <= d'.offset /\ s.sent <= s'.sent]_program
  <1> DEFINE I == Ticks /\ AtRest /\ DownloadTypes /\ Transfer /\ Arriving
             Accounted == Downloading =>
                            /\ Stream = SubSeq(Content, d.offset + 1, s.sent)
                            /\ Running /\ Stream = <<>> /\ s.sent = Size => Complete
  <1>1. I => Accounted
    <2> SUFFICES ASSUME I, Downloading
                 PROVE  /\ Stream = SubSeq(Content, d.offset + 1, s.sent)
                        /\ Running /\ Stream = <<>> /\ s.sent = Size => Complete
      OBVIOUS
    <2>1. Opened
      BY DEF Transfer, Downloading, Asking, Answered, Refused, Granted, Unopened
    <2>2. Stream = Part(d.offset, s.sent) /\ d.offset \in 0 .. Size /\ s.sent \in 0 .. Size /\ d.offset <= s.sent
      BY <2>1 DEF Opened, DownloadTypes, Visits, Clients, Part
    <2>3. Len(Part(d.offset, s.sent)) = s.sent - d.offset
      BY <2>2, Parts
    <2>4. ASSUME Running, Stream = <<>>, s.sent = Size PROVE Complete
      <3>1. Len(Stream) = 0
        BY <2>4
      <3>2. d.offset = Size
        BY <2>2, <2>3, <2>4, <3>1, DownloadAssumption
      <3>3. d.file /\ d.size = Size
        BY <2>4 DEF Downloading, Arriving, Partial
      <3> QED BY <3>2, <3>3, DownloadAssumption DEF Complete
    <2> QED BY <2>1, <2>4 DEF Opened
  <1>2. I /\ [Next]_program => [Downloading /\ Downloading' => d.offset <= d'.offset /\ s.sent <= s'.sent]_program
    BY ForwardStep
  <1>3. Spec => []I
    BY RestsAndArrives
  <1> HIDE DEF I
  <1> QED BY <1>1, <1>2, <1>3, PTL DEF Spec
=============================================================================
