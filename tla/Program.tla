------------------------------ MODULE Program -------------------------------
(***************************************************************************)
(* The client program from its start to its end: its screens one after the *)
(* other (client/game.c, client/screen.c and screen/), the dialogs over    *)
(* the game with their hot keys (yes_no_dialog.c, saveDialog.c, chat.c,    *)
(* pauza.c), and what is carried from one screen to the next: the choices  *)
(* of the menus, the address of the browser, the arena of the download.    *)
(***************************************************************************)
EXTENDS Download, Browser

CONSTANT
    MaxStale        \* bound: a game begins with at most this many entries left by others

VARIABLES
    choice,         \* the type of game, whether an arena and a saved game are chosen
    world,          \* the statics of world.c, its dialogs, and netGameType
    overlap         \* history: a dialog was answered under another, or the game ended below one

program == <<phase, screen, future, at, hot, rest, download, browser, choice, world, overlap>>

Types == {"none", "server", "client", "session"}

NoWorld == [net |-> "none", here |-> FALSE, over |-> FALSE,
            yes |-> FALSE, save |-> FALSE, chat |-> FALSE, pause |-> FALSE]

Unchanged == UNCHANGED <<choice, world, overlap>>
OnlyTick == UNCHANGED <<download, browser, choice, world, overlap>>

Fate(h) == IF h.failed THEN "no key" ELSE "run"

-----------------------------------------------------------------------------
(* The end and the start.                                                   *)

\* game_quit: the statics go, a file that is half there stays.
GameQuit ==
    /\ phase' = "off" /\ screen' = "none" /\ future' = "mainMenu" /\ at' = "start" /\ rest' = 0
    /\ hot' = [keys |-> <<Entry("F1", "screen")>>, failed |-> FALSE]
    /\ DownloadQuit /\ BrowserForgotten
    /\ choice' = [choice EXCEPT !.picked = FALSE] /\ world' = NoWorld /\ overlap' = FALSE

\* SDL_QUIT comes between two ticks.
WindowCloses == Runs("event") /\ GameQuit

\* archive_extract_file gives up on a file that is not a whole archive, and the assertion
\* of text_file_load on what it then gets ends the program.
ExtractFile(file) == file = Content

\* initGame, which opens every archive of the home directory.
InitGame ==
    /\ phase = "off"
    /\ phase' = IF \A file \in disk : ExtractFile(file) THEN "run" ELSE "broken archive"
    /\ UNCHANGED <<screen, future, at, hot, rest>> /\ OnlyTick

-----------------------------------------------------------------------------
(* The menus.                                                               *)

\* The event of a menu that ends with a choice of the next screen.
Menu(name, goes) ==
    /\ screen = name /\ Runs("event")
    /\ future' = goes /\ at' = "keys"
    /\ UNCHANGED <<phase, screen, hot, rest, download>>

Stays(name) == Menu(name, future)

MainMenuEvent ==
    \/ \E name \in {"gameType", "setting", "table", "credits", future} :
         Menu("mainMenu", name) /\ UNCHANGED browser /\ Unchanged
    \/ screen = "mainMenu" /\ Runs("event") /\ GameQuit

\* Screens whose buttons do no more than lead elsewhere.
Leads(from, to) == (Menu(from, to) \/ Stays(from)) /\ UNCHANGED browser /\ Unchanged

SettingEvent == Leads("setting", "mainMenu") \/ Leads("setting", "settingKeys")
SettingKeyEvent == Leads("settingKeys", "setting")
TableEvent == Leads("table", "mainMenu")
CreditsEvent == Leads("credits", "mainMenu")
AnalyzeEvent == Leads("analyze", "mainMenu")

\* game_type_load_session.
LoadsSession(c) == c.type = "session" /\ c.picked

\* The group of types and the list of saved games, which are looked at before the buttons.
MenuChoices ==
    {c \in [type : Types, chosen : {choice.chosen}, picked : BOOLEAN] :
       /\ choice.picked => c.picked
       /\ c.picked # choice.picked => c.type = "session"}

\* The Play button.
PlayLeadsTo(c) ==
    IF LoadsSession(c) THEN "world" ELSE IF c.type = "client" THEN "downArena" ELSE "chiceArena"

GameTypeEvent ==
    \E c \in MenuChoices :
      /\ choice' = c
      /\ \/ \E name \in {"mainMenu", PlayLeadsTo(c), future} : Menu("gameType", name)
         \/ c.type = "client" /\ Menu("gameType", "browser")
      /\ UNCHANGED <<world, overlap, browser>>

ChoiceArenaEvent ==
    \E chosen \in BOOLEAN, name \in {"world", "gameType", future} :
      /\ Menu("chiceArena", name)
      /\ choice' = [choice EXCEPT !.chosen = @ \/ chosen]
      /\ UNCHANGED <<world, overlap, browser>>

\* Play of the browser goes into the game at once.
PlayServer ==
    /\ CanPlay /\ Menu("browser", "world")
    /\ address' = list[selected].server /\ choice' = [choice EXCEPT !.type = "client"]
    /\ UNCHANGED <<list, lines, selected, lost, world, overlap>>

SelectLine ==
    /\ Stays("browser") /\ selected' \in 1 .. Len(lines)
    /\ UNCHANGED <<list, lines, address, lost>> /\ Unchanged

\* browser_event, with at most one line or one button.
BrowserEvent ==
    \/ SelectLine
    \/ PlayServer
    \/ Leads("browser", "gameType")
    \/ Stays("browser") /\ (RefreshServers \/ LoadServers) /\ UNCHANGED <<selected, address>> /\ Unchanged

-----------------------------------------------------------------------------
(* The game.                                                                *)

\* The end of a dialog: the first entry of ESCAPE is taken for its own.
Dismiss(h) == Unregister(h, {"ESC"})

InGame == screen = "world" /\ Runs("event")

\* world_event without an arena: a client may be told its arena, or the end; the dialogs
\* are not looked at.
WorldWaits ==
    /\ InGame /\ ~world.here
    /\ \E begins, ended \in BOOLEAN :
         /\ begins \/ ended => world.net = "client"
         /\ world' = [world EXCEPT !.here = begins, !.over = @ \/ ended]
         /\ future' = IF world'.over THEN "analyze" ELSE future
         /\ phase' = IF begins /\ ~known THEN "no arena" ELSE phase
    /\ at' = "keys"
    /\ UNCHANGED <<screen, hot, rest, download, browser, choice, overlap>>

\* save_arena writes the name of the arena that is chosen.
SaveFails == ~choice.chosen

\* save_dialog_event.
SaveDialogEvent(w, f) ==
    /\ world' = [w EXCEPT !.save = FALSE] /\ hot' = Dismiss(hot)
    /\ \E saves \in BOOLEAN : phase' = IF saves /\ SaveFails THEN "no arena" ELSE Fate(hot')
    /\ future' = f /\ UNCHANGED overlap

\* yes_no_dialog_event.
YesNoDialogEvent(w, f) ==
    /\ \E yes \in BOOLEAN : world' = [w EXCEPT !.yes = FALSE, !.over = @ \/ yes]
    /\ hot' = Dismiss(hot) /\ phase' = Fate(hot')
    /\ overlap' = (overlap \/ w.save \/ w.chat)
    /\ future' = f

\* What the widgets of a save dialog that was open at the end of an earlier game are now.
Destroyed(w) == w.save /\ w.net # "none"

\* world_event with an arena: the network, the arena, the end, the dialogs; in a tick
\* one button is clicked at most.
WorldEvent ==
    /\ InGame /\ world.here
    /\ \E ended \in BOOLEAN :
         LET w == [world EXCEPT !.over = @ \/ ended]
             f == IF w.over THEN "analyze" ELSE future IN
           /\ ended => world.net = "client" \/ ~(world.pause \/ world.save \/ world.yes)
           /\ IF Destroyed(w)
              THEN phase' = "freed" /\ world' = w /\ future' = f /\ UNCHANGED <<hot, overlap>>
              ELSE \/ world' = w /\ future' = f /\ UNCHANGED <<phase, hot, overlap>>
                   \/ w.save /\ SaveDialogEvent(w, f)
                   \/ w.yes /\ YesNoDialogEvent(w, f)
    /\ at' = "keys"
    /\ UNCHANGED <<screen, rest, download, browser, choice>>

-----------------------------------------------------------------------------
(* The hot keys.                                                            *)

\* switchTerm of saveDialog.c.
SwitchSave ==
    /\ world' = [world EXCEPT !.save = ~@]
    /\ hot' = IF world.save THEN Dismiss(hot) ELSE Register(hot, "ESC", "save")

\* hotkey_escape of world.c; the label of the dialog lives as long as the game.
AskToQuit ==
    /\ world' = [world EXCEPT !.yes = TRUE]
    /\ hot' = Register(hot, "ESC", "yesno")

\* The dialog is left by its key.
NotToQuit ==
    /\ world' = [world EXCEPT !.yes = FALSE]
    /\ hot' = Dismiss(hot)

SwitchPauzed == world' = [world EXCEPT !.pause = ~@] /\ UNCHANGED hot

ChatEnter ==
    IF world.chat THEN UNCHANGED <<world, hot>>
    ELSE /\ world' = [world EXCEPT !.chat = TRUE]
         /\ hot' = Register(SetActive(hot, {"RETURN", "p"}, FALSE), "ESC", "chatoff")

ChatDisable ==
    /\ world' = [world EXCEPT !.chat = FALSE]
    /\ hot' = Dismiss(SetActive(hot, {"RETURN", "p"}, TRUE))

Handler(of) ==
    CASE of = "save"    -> SwitchSave
      [] of = "world"   -> AskToQuit
      [] of = "yesno"   -> NotToQuit
      [] of = "chat"    -> ChatEnter
      [] of = "chatoff" -> ChatDisable
      [] of = "pause"   -> SwitchPauzed
      [] OTHER          -> UNCHANGED <<world, hot>>

\* hot_key_event with a key that has a handler.
HotKeyEvent ==
    /\ Runs("keys") /\ ~Rests
    /\ \E e \in Pressed :
         IF e.of = "mainMenu" THEN GameQuit
         ELSE /\ Handler(e.of)
              /\ phase' = IF e.of = "world" /\ screen # "world" THEN "freed" ELSE Fate(hot')
              /\ IF e.of \in DOMAIN EscapeTo THEN ScreenSet(EscapeTo[e.of]) ELSE UNCHANGED future
              /\ rest' = Rest /\ at' = "stop"
              /\ UNCHANGED <<screen, download, browser, choice, overlap>>

NoKey == NoHotKey /\ OnlyTick

-----------------------------------------------------------------------------
(* The switch of screens.                                                   *)

SwitchNone == NoSwitch /\ OnlyTick

\* The menus have one entry each; gameType reads the list of saved games again, which
\* keeps what was picked.
MenuStops ==
    \E name \in Menus \ {"browser"} :
      /\ Stops(name, Unregister(hot, {"ESC"}))
      /\ UNCHANGED <<download, browser>> /\ Unchanged

MenuStarts ==
    \E name \in Menus \ {"browser"} :
      /\ Starts(name, Register(hot, "ESC", name)) /\ UNCHANGED phase
      /\ UNCHANGED <<download, browser>> /\ Unchanged

BrowserStops == Stops("browser", Unregister(hot, {"ESC"})) /\ BrowserStop /\ UNCHANGED download /\ Unchanged

BrowserStarts ==
    /\ Starts("browser", Register(hot, "ESC", "browser")) /\ UNCHANGED phase
    /\ BrowserStart
    /\ UNCHANGED download /\ Unchanged

DownArenaStops == Stops("downArena", hot) /\ DownStop /\ UNCHANGED browser /\ Unchanged
DownArenaStarts ==
    Starts("downArena", hot) /\ UNCHANGED phase /\ DownStart /\ UNCHANGED browser /\ Unchanged

\* down_arena_event without a socket.
DownArenaFails ==
    /\ screen = "downArena" /\ Runs("event") /\ LacksSocket
    /\ phase' = "no socket"
    /\ UNCHANGED <<screen, future, at, hot, rest>> /\ OnlyTick

\* The entries of a game, the last first.
WorldKeys(net) == <<IF net = "none" THEN "F2" ELSE "RETURN", "p", "F3", "ESC">>
Handlers == [ESC |-> "world", F3 |-> "split", p |-> "pause", F2 |-> "save", RETURN |-> "chat"]

Entries(keys) == [i \in DOMAIN keys |-> Entry(keys[i], Handlers[keys[i]])]

\* Mutant: the network ends before the dialogs, which then take the game for a local one.
StoptWorldNetFirst ==
    /\ Stops("world", Unregister(hot, ToSet(WorldKeys("none"))))
    /\ overlap' = (overlap \/ world.yes \/ world.save \/ world.chat)
    /\ world' = [world EXCEPT !.net = "none"]
    /\ UNCHANGED <<download, browser, choice>>

StoptWorld ==
    /\ Stops("world", Unregister(hot, ToSet(WorldKeys(world.net))))
    /\ overlap' = (overlap \/ world.yes \/ world.save \/ world.chat)
    /\ world' = [world EXCEPT !.net = "none"]
    /\ UNCHANGED <<download, browser, choice>>

\* net_multiplayer_init: without the network a game of the net becomes a local one.
NetMultiplayerInit(online) ==
    IF online /\ choice.type \in {"server", "client"} THEN choice.type ELSE "none"

\* prepareArena: whether there is an arena afterwards, and whether it needs the one chosen.
HasArena(net, readable) == IF LoadsSession(choice) THEN readable ELSE net # "client"
NeedsChoice(net) == ~LoadsSession(choice) /\ net # "client"

Left(h) == {i \in DOMAIN h.keys : h.keys[i].of # "screen"}

\* startWorld; a game of the net that has no network is over at once.
StartWorld ==
    /\ Cardinality(Left(hot)) <= MaxStale
    /\ \E online, readable \in BOOLEAN :
         LET net == NetMultiplayerInit(online) IN
           /\ ~online => choice.type \in {"server", "client"}
           /\ world' = [NoWorld EXCEPT !.net = net, !.over = ~online,
                          !.save = world.save /\ net # "none", !.here = HasArena(net, readable)]
           /\ Starts("world", [hot EXCEPT !.keys = Entries(WorldKeys(net)) \o @])
           /\ phase' = IF NeedsChoice(net) /\ ~choice.chosen THEN "no arena" ELSE phase
    /\ address' = NoAddress
    /\ UNCHANGED <<list, lines, selected, lost, download, choice, overlap>>

-----------------------------------------------------------------------------
DownArenaEvent ==
    /\ EventStatus \/ EventRecvBuffer \/ Finish
    /\ UNCHANGED browser /\ Unchanged

\* A tick, one of its parts at a time.
ProgramStep ==
    \/ MainMenuEvent \/ SettingEvent \/ SettingKeyEvent \/ TableEvent \/ CreditsEvent
    \/ AnalyzeEvent \/ GameTypeEvent \/ ChoiceArenaEvent \/ BrowserEvent
    \/ WorldWaits \/ WorldEvent \/ DownArenaEvent \/ DownArenaFails
    \/ HotKeyEvent \/ NoKey
    \/ SwitchNone \/ MenuStops \/ MenuStarts \/ BrowserStops \/ BrowserStarts
    \/ DownArenaStops \/ DownArenaStarts
    \/ StoptWorld \/ StartWorld

NetworkStep ==
    /\ LosesMail \/ AnswersStatus \/ ServerDies
    /\ UNCHANGED browser /\ Unchanged

DownServerStep == ServerRound /\ UNCHANGED browser /\ Unchanged

Init ==
    /\ phase = "off" /\ screen = "none" /\ future = "mainMenu" /\ at = "start" /\ rest = 0
    /\ hot = [keys |-> <<Entry("F1", "screen")>>, failed |-> FALSE]
    /\ up = TRUE /\ DownloadInit /\ BrowserInit
    /\ choice \in [type : Types, chosen : BOOLEAN, picked : {FALSE}]
    /\ world = NoWorld /\ overlap = FALSE

Next == WindowCloses \/ InitGame \/ ProgramStep \/ NetworkStep \/ DownServerStep

\* Ticks come from a timer, and the download server is woken by its sockets.
Spec == Init /\ [][Next]_program /\ WF_program(ProgramStep) /\ WF_program(DownServerStep)

-----------------------------------------------------------------------------
(* Properties.                                                              *)

Running == phase = "run"

Only(condition, x) == IF condition THEN {x} ELSE {}

\* The hot keys a screen and its open dialogs should have.
OwnKeys ==
    {Entry("F1", "screen")} \cup
    CASE screen \in Menus -> {Entry("ESC", screen)}
      [] screen = "world" ->
           {[Entry(key, Handlers[key]) EXCEPT !.on = ~(world.chat /\ key \in {"RETURN", "p"})] :
               key \in ToSet(WorldKeys(world.net))}
           \cup Only(world.yes, Entry("ESC", "yesno"))
           \cup Only(world.save, Entry("ESC", "save"))
           \cup Only(world.chat, Entry("ESC", "chatoff"))
      [] OTHER -> {}

\* Between the start and the stop of a screen the list of hot keys holds the entries of
\* that screen and of its open dialogs, each once and active when it should be, and no
\* key is missed when it is unregistered: the stops, the dialogs and the net type of
\* the chat and the save dialog agree with the starts.  Dialogs open on top of each other
\* when one is answered, or below the end of a game, are the exception: hot_key_unregister
\* knows keys and not handlers.
HotKeysFit ==
    ~overlap =>
        /\ phase \notin {"no key", "freed"}
        /\ Running /\ at # "start" => IsInjective(hot.keys) /\ ToSet(hot.keys) = OwnKeys

\* The Play button of the browser leads to the server of the line that is selected, as
\* long as no refresh has left a line out (browser.c counts lines and servers apart).
PlaysTheChosen ==
    Running /\ screen = "browser" /\ future = "world" /\ at # "start" /\ ~lost =>
        selected \in DOMAIN lines /\ lines[selected] \in {address, Blank}

\* Away from the screen downArena the home directory never holds a part of an arena, and
\* that screen leads to the game only with the arena at hand.
WholeFile ==
    Running =>
        /\ screen # "downArena" => disk \subseteq {Content} /\ (disk # {} => known)
        /\ screen = "downArena" /\ future = "world" => known

\* A download that has begun ends: with the file, or because the user or the server left.
DownloadEnds == Downloading ~> (~Downloading \/ BrokenOff)
=============================================================================
