# Tuxánci NG in TLA+

Specifications of the game Tuxánci NG (`src/src/`, C), model-checked with TLC
and, where it pays, proved with TLAPS.  Paths below are relative to `src/src/`.

## 1. The system and its parts

A game is played in an *arena*.  It is either local, or played over UDP with a
*server* (the player's own program, or the dedicated build `PUBLIC_SERVER`) that
runs the arena, and *clients* that hold a replica of it.  One thread runs each
program: a loop reads the sockets, handles what was read, fires the timers and
moves the arena.  There is no thread, no lock and no await in the program;
what is concurrent are the processes, the datagrams between them, the timers
and the callbacks that change the lists they are called from.

| component | state | operations | talks to |
|---|---|---|---|
| identifier registry `base/idManager.c` | list of {id, count} | draw, count up, count down, replace | every object, every reliable message |
| reliable messages `base/checkFront.c`, `base/serverSendMsg.c` | per client: queue of {msg, id, time, writes} | add, write and write again, acknowledge, destroy | registry, sessions, sockets |
| sessions `base/server.c`, `base/udp_server.c`, `base/protect.c` | list of clients: status, tux, inbox, queue, time of the last sign of life | read, dispatch a command, time out, remove, sync, ping, quit | queues, arena, protocol |
| protocol `base/proto.c` | none of its own | one send and one receive function per message | all of the above, the replica |
| client connection `client/client.c` | inbox, time the server was last heard | hello, ping, silence watch, end | server, world |
| tux `base/tux.c` | position, gun, shots, bonus, status, score | move, shoot, switch, die, respawn, pick up | guns, timers, space, protocol |
| guns, shots `base/gun.c`, `base/shot.c` | shots of the arena, volleys held by timers | fire, fly, hit | tux, space, timers |
| items `base/item.c` | items of the arena | place, tick, explode, give | tux, space, protocol |
| arena and space `base/arena.c`, `base/space.c`, `base/index.c`, `base/list.c` | segments of objects, index by id | add, delete, move, look up, iterate | all objects |
| timers `base/myTimer.c` | list of tasks | add, delete, fire | everybody's callbacks |
| arena download `base/downServer.c`, `screen/downArena.c` | TCP clients and their buffers | request, send, receive, give up | sockets, arena files |
| game modules `modules/` | walls, pipes, teleports, computer players | init, move, conflict, message | arena, through an export table |
| world `screen/world.c` | current arena, local players, end of the game | rounds, stop | arena, sessions |
| public server `server/` | settings, score table | loop, quit by signal, score | server |
| screens, hot keys, dialogs `client/interface.c`, `client/screen.c`, `client/hotKey.c`, `client/yes_no_dialog.c`, `client/saveDialog.c`, `client/chat.c`, `client/pauza.c` | current and coming screen, list of hot keys, flags of the dialogs | tick, switch, register, fire, open, dismiss | every screen |
| menus `screen/` with the browser | what was chosen, servers and their lines | choose, go on, load, refresh, play | world, download |
| arena files, saved games `base/arenaFile.c`, `base/archive.c`, `client/saveLoad.c` | list of arenas, files of the home directory | load, register, save | modules, world, download |
| drawing, widgets, configuration, sockets, audio | - | input and output | - |

What makes each of them correct, in a line:

* registry: nothing is released while somebody holds it; nothing held by nobody
  stays registered;
* reliable messages: a message stays until its client has handled it, it was
  written `CHECK_FRONT_MAX_COUNT_SEND` + 1 times or the client is dropped, and
  it does not stay for ever;
* sessions: one session per port; a tux of the arena belongs to one session; all
  players agree on who plays; places are bounded; who is dropped is told; who
  has left is forgotten;
* client: who joins plays or stops, who is dropped notices;
* tux, guns, items: one life at a time, timers of an earlier life do nothing to a
  later one, bonuses end;
* space, timers: iteration visits every object once although callbacks delete;
* replica: an id is registered for what is there and for nothing else, who left
  stays away, deaths are counted once, and in the end it has what the server has;
* modules: nobody solid stands in a wall, what comes out of an exit is clear of
  it, every module has the objects of its file, the computer's search ends;
* screens: the hot keys are those of the screen and its dialogs, and a choice in
  one screen is the one the next acts on;
* download: a part of a file is never kept, and a transfer that began ends.

The hard behaviours are listed, each at its line, under `hazards` in
`PROJECT.json`.

## 2. The modules

| module | models | kind |
|---|---|---|
| `IdManager` | `base/idManager.c` | operators on the registry |
| `CheckFront` | `base/checkFront.c`, `base/serverSendMsg.c`, the network and the acknowledging client | state machine |
| `Delivery` | what a reliable message promises | abstract specification of `CheckFront` |
| `Server` | `base/server.c`, `base/udp_server.c`, `base/protect.c`, the session handlers of `base/proto.c` | state machine |
| `Lobby` | what the sessions promise to those who play | abstract specification of `Server` |
| `Session` | `client/client.c` and a lossy network, composed with `Server` | composition |
| `Tux` | `base/tux.c`, `base/gun.c`, `base/item.c`, `base/shot.c`, the list of `base/myTimer.c`, the rounds of `screen/world.c`, the games of `client/saveLoad.c` | state machine |
| `Index` | `base/index.c` over `base/list.c` | state machine |
| `Directory` | what an index promises | abstract specification of `Index` |
| `Space` | `base/space.c` | state machine |
| `Replica` | the client handlers of `base/proto.c`, `client/radar.c`, and the server's calls that send to them | state machine |
| `Pursuit` | the search of `modules/modAI.c` and the geometry of `base/arena.c` | operators, with a reference definition |
| `Course` | `base/modules.c`, `modules/`, the lines of `base/arenaFile.c`, moves of `base/tux.c`, flights of `base/shot.c` | state machine over `Pursuit` |
| `Screens` | `client/interface.c`, `client/screen.c`, `client/hotKey.c` | operators on the tick, the screens and the hot keys |
| `Browser` | `screen/browser.c` | operators and steps over `Screens` |
| `Download` | `screen/downArena.c`, `base/downServer.c`, `base/buffer.c` | steps over `Screens`, TCP and UDP |
| `Program` | `client/game.c`, `screen/`, the dialogs over the game | composition of `Screens`, `Browser` and `Download` |
| `CheckFrontProofs`, `ServerProofs`, `TuxProofs`, `IndexProofs`, `SpaceProofs`, `ReplicaProofs`, `CourseProofs`, `ProgramProofs` | - | theorems and proofs |
| `MCCheckFront`, `MCServer`, `MCSession`, `MCTux`, `MCIndex`, `MCSpace`, `MCReplica`, `MCCourse`, `MCProgram` | - | instances for TLC |

### `IdManager`

The list of records is a function from identifiers to counts; an identifier that
is not in the list has the count -1.  `FreeIds` is the set `findNewID` may draw
from; it is empty where the code calls `fatal("There is no free ID left")`.
`CountAfterDel` is `n` calls of `id_del`.

### `CheckFront`

| code | module |
|---|---|
| `checkfront_t` | `Entry`: the message is its number, the time its age, capped just above the interval |
| `send_msg_to_client` with `CHECK` | `SendCheck`: `id_get_newcount(0)`, then one `id_inc` per receiver |
| with `SIMPLE` | `SendSimple` |
| `check_front_event` | `CheckFrontEvent`: the whole walk over a queue, a failing write in any place of it |
| `check_front_del_msg` | `RecvCheck` |
| `server_udp_destroy_client` | `DestroyClient`: the last walk, then `check_front_destroy` |
| `id_get_new`, `id_del` of tuxes, shots and items | `CreateObject`, `DestroyObject` |
| client handlers that answer `check` | `ClientHandle` |
| UDP | `LoseDown`, `LoseUp`; a datagram is kept after it was handled, so it may be handled twice and in any order |

A target group (one, all, all but one, those who see a tux) is any set of listed
clients.  `NewIds` leaves out ids that old datagrams still carry when
`ReuseInFlight` is FALSE: the code draws at random out of a million, so a reuse
within the life of a datagram is possible but rare.  `LeavesForAReason` and
`KeepsPromise` hold only without it, and their run, which also checks
`EveryEntryResolved`, says so; every other property is checked and proved with
reuse.

### `Server`

| code | module |
|---|---|
| `client_t` | `status`, `seat`, `silent`, `inbox`, `outbox` per address |
| `client_eventUdpSelect`, `findUdpClient` | `Read`, `ReadFails`, `SessionsAt` |
| `client_eventWorkRecvList`, `findCmdProto` | `TakeLine` and one action per handler, `BadCommand` |
| `proto_recv_hello_server`, `sendInfoCreateClient` | `Refuse`, `Accept` |
| `check_front_event`, `server_send_client` | `Walk`: a queue is written, up to the first write that fails; in `porcesListClients` as `Flush`, `FlushFails`, elsewhere as part of `Refuse`, `DelZombieClient` (`Farewell`) and `ServerQuit` |
| `delZombieCLient`, `eventPeriodicSyncClient`, `eventSendPingClients` | `DelZombieClient`, `PeriodicSync`, `PingClients` |
| `server_quit` | `ServerQuit` |
| `server_event` | `turn`: read, then work and timers |

Commands and messages are kinds.  `view` is the set of tuxes a player knows of
once it has handled what was queued for it (`newtux` adds, `del` removes), and
`written` is what the last step gave to the socket.  `server_send_client` makes a client
a zombie when the socket refuses a write, and a zombie is written nothing more: of its
queue a part is written, and never the last word said to it ("error" or "end").  `failed`
is the set of the clients whose socket refused a write in the last step; `ToldWhy` excepts
them, and only in the step whose own walk they met it in.  Whether a queued `init` is
due for another write is not tracked here (that is `CheckFront`): an `init` that
is not due counts as written and lost.  Sessions are named by the address whose
datagram created them and found by port, as `findUdpClient` does.

`Lobby` is the same server as its players see it, without datagrams, queues, clocks
or an arena: who comes in gets a place and a tux nobody has had before, if a place is
free and nobody plays from its port, and keeps both until it leaves.  `Room` maps
`players` to the seats of the listed sessions and `made` to the count of tuxes.

### `Session`

A process per address says `hello`, pings, hears, gives up, quits or dies;
datagrams are sets that lose members at any time and have no order.  `Served`
makes what the server writes the datagrams on their way; `WriteFails` is a step in which
a write of the server fails, with what it wrote before that.

### `Tux`

The arena in the program that runs it: a local game or a server, not a client.

| code | module |
|---|---|
| `tux_t` | `tux[t]`, a `TuxRecord`; `status` also says who is not there yet and who has left |
| `arena->listTimer` | `timers`: kind of callback, tux, time left |
| `timer_event` | `StartTimers`, then at each index (`walk`) `Keep` or a callback and `list_del_item`, then `FinishTimers` |
| `timer_spawnTux`, `timer_tuxCanShot`, `timer_tuxCanSwitchGun`, `timer_addShotTimer`, `timer_addLaserTimer`, `timer_endArena` | `SpawnTux`, `TuxCanShot`, `TuxCanSwitchGun`, `AddShot`, `EndArena`; `FiresForNobody` where `space_get_object_id` finds no tux |
| `tux_action` | `Move`, `SwitchTuxGun`, `ShotTux`, `PutMine`, `PutNoMine`: the whole of `shotTux`, with `gun_shot` before and `switchTuxGun` after |
| `tux_event` | `TuxEvent`: `pickUpGun`, `eventBonus`, and the walk over the items begins |
| `item_tux_give_list_item` | `toucher` and `touched`, one `Touch` per item: `GiveGun`, `GiveBonus`, `StepOnMine`, `StepInExplosion` |
| `tux_event_tux_is_dead`, `world_inc_round` | `Die` |
| shots: `action_tux`, `action_item`, `action_moveShot`, `shot_bound_bombBall`, `transformShot` of the modules | `ShotStep` |
| `tux_new`, `tux_destroy` | `Join`, `Leave` |
| `save_arena`, `load_arena` in `prepareArena` | `LoadArena` |

Nobody has a position.  What a shot hits, which items lie under a tux, whether a
move ends in a wall and whether a mine has room are free choices, so every
geometry is among the behaviours.  Equal shots are one element of `flying`, and
one that is spent may leave others like it.  `arena_event` runs its handlers in a
fixed order, eight rounds of shots, then the items, the tuxes and the timers; here
they come in any order, except that the two walks above are not interrupted.
Scores, sounds and messages to the clients are left out, and a tux that has left
does not come back under its id, which the code draws out of a million.  A
one-shot task holds the time it has left instead of when it was made.  On a
server an item that was taken may be followed by a new one at once and at a
respawn (`AddNewItem`); the program of a player adds one at a respawn only, which
is the same step with the choice of adding none.

A local game may be saved at any time and taken up later.  Its states at the start are
then those of saved games: states the model reaches, with the tuxes (their status, guns
and bonus), items, shots and the round they had, with both flags as `tux_new` sets them,
and with an empty `arena->listTimer`, which the file does not hold.  `LoadArena` makes
these out of any state of a local game between two handlers.  It loses what the list
held: a tux that is saved dead never lives again, and a match that is saved after its
last round never ends.  `lost` remembers both, and `OneSpawn`, `EndIsPending` and
`Respawns` say what holds of the others, and what then becomes of these.

### `Index`

| code | module |
|---|---|
| `index_t`, `list_t` | `list`, the entries, and `alloc`, the slots |
| entering `index_add`, `index_get`, `index_del` | `IndexAdd`, `IndexGet`, `IndexDel` |
| a round of the loop of `index_add` | `Cyclic`, `Insert`, or one of `GoRight`, `GoLeft`, `Spin` |
| a round of the loop of `getOffsetFromIndex` | `NotFound`, `GetFound`, `DelFound`, `GoRight`, `GoLeft` |
| `list_add`, `list_ins`, `list_del` | `ListIns`, `ListDel` |
| `abort` under `DEBUG_INDEX`, which `base/index.c` defines | `op = "aborted"` |

One step is one round of a binary search, with `min`, `max` and `count` as the C
code keeps them and C's division.  Any key may be added, also one that the index
holds: the code then compares until its counter stops the program.  `Directory`
is what the callers assume: each call takes effect at once, and a key has one
object.  The empty index counts one round and inserts: `count` 1 is not 5 times 0.

### `Space`

| code | module |
|---|---|
| what `getStatus` of each object tells | `box` |
| `zone[j][i]->list` | `zone`: how often each object is in the list |
| `listIndex` | `index`, the set of ids, by `IndexProofs` |
| `getSegment` and the loops over a segment | `GetSegment`, `CellsOf` |
| `space_add`, `space_del`, `space_move_object` | `Add`, `Delete`, `MoveObject` |
| `shot_transform_lasser`: delete, change the size, add | `Relist` |
| `space_get_object`, `space_is_conflict_with_object`, `..._but` | `GetObject` |
| `space_action` | `walk`: `StartWalk`, `CallBack`, `EndWalk` |
| `assert` of `space_del` | `assertOk` |

The order within a zone's list decides only the order in which equal lookups list
their result, so a list is a bag.  A callback of `space_action` leaves its own
object alone, moves it, turns it or deletes it; no callback of the program
touches another object of the space that is walked (`base/tux.c`, `base/item.c`,
`base/shot.c`, the modules), and none adds one.

### `Replica`

| code | module |
|---|---|
| current arena, its tuxes, items and shots on the client | `arena`, `tux`, `items`, `shots`; the status and bonus of a tux are its look |
| `listID` of the client | `ids`; `id_replace` is `Registers`, its assertion a state that stops the client |
| `client/radar.c` | `radar` |
| `proto_recv_*_client` | `RecvInit`, `RecvNewtux`, `RecvEvent`, `RecvKill`, `RecvDel`, `RecvAdditem`, `RecvShot`, with `Answers` where the code answers |
| `timer_delShot`, the end of shots and explosions | `TimerDelShot`, `EndsHere` |
| what the server calls and whom it tells | `Accept`, `Join`, `Leave`, `Die`, `Appears`, `Acts`, `PeriodicSync`, `AddItem`, `DelItem`, `Fire`, `ShowShot`, `DelShot`, `EndsUntold` |
| the queue of reliable messages, as `Delivery` promises it | `left`, `given`, `WriteAgain`, `RecvCheck` |
| UDP | `Lose`, `LoseAnswer`; `ordered` says whether it keeps the order |

Places are left out; who is near enough to be told of a shot or a move is a free
choice.  Ids are names and are not drawn twice, and the temporary id of an object
that is made before `id_replace` meets nobody's.

### `Course` and `Pursuit`

| code | module |
|---|---|
| `arena_file_get_arena`, `cmd_arena`, `cmd_module_load`, `module_cmd` | `ReadLine` with `ReadsArena`, `LoadsModule`, `AddsElement`, `IgnoresLine`; `MissesArena` where `cmd_music_play` writes into an arena that is not there yet |
| `module_load`, `module_load_dep`, `share_function_add` | `ModuleLoad`, `WithDep`, `shared` |
| `moveTux`, `item_tux_give_list_item`, `eventBonus` | `MoveTux`, `Picks`, `EventBonus`; an operator on the tuxes gives the set of what they may become, so that a handler is the composition of what it calls |
| `shot_new`, `module_event`, `action_moveShot` | `Fire`, `ShotRound`: every module in the order of the list, then the flight |
| `action_eventwall`, `action_eventpipe`, `moveShotFromTeleport` | `Stopped`, `ByPipe`, `ByTeleport`, with `Transformed` and `Beyond` for `transformShot` and `move_shot` of `modMove` |
| `action_eventtux` of `modTeleport`, `move_tux` | `TeleportTux`, `MovedBeside` |
| `tux_eventAI`, `shotTux` of `modAI` | `Search` of `Pursuit`, `Turns`, `TuxEventAI` |
| `action_tux` | `IsHit`; the explosion of a bomb ball happens at once, and kills or misses the tux it went off at |
| `prepareArena`, `module_quit` | `Start`, `Joins`, `JoinsAI`, `Quit` |

The objects of a module are the lines that made them, each with its place in the file,
so two lines that are alike are two objects.

`Pursuit` has the search as the code runs it, over the lists of alternatives and
forks with their index, and beside it what is looked for without lists (`Leads`).

### `Screens`, `Browser`, `Download` and `Program`

| code | module |
|---|---|
| `eventAction` | `at`: the event of the screen, one hot key, the switch; on `downArena` the event has three parts |
| `screen_set`, `screen_switch` | `future`, `Stops`, `Starts` |
| `listHotKey` | `hot.keys`: key, handler, active; the first entry of a key is found |
| `server_list` and the lines of `select_server` | `list`, `lines`; `server_getcurr` is `CanPlay` |
| the statics of `downArena.c`, `client_ds_t` | `d`, `s`, with both buffers as sequences; a line is two symbols, the file its bytes in order |
| `sock_tcp_read`, `sock_tcp_write` | `Readable`, `EventSendBuffer`, `Writes`: any part, cut anywhere |
| `fce_event` of each screen | one action per screen in `Program` |
| the dialogs | flags of `world`, with `SwitchSave`, `AskToQuit`, `ChatEnter`, `SwitchPauzed` and how each is left |
| `game_quit` and the next start | `GameQuit`, `InitGame` |

A tick clicks one button at most.  A widget is the event it sends; texts, settings
and the places of widgets are left out.  What stops the program by an assertion,
`fatal` or memory that was freed is a value of `phase`, so that the properties may
say where it cannot happen.  `proto_err` is left out, because it answers to "ERR" and the
server of this repository says "[Error]"; so are short writes on a full disk.


## 3. The runs

| run | instance | what it shows |
|---|---|---|
| `check_front_safety` | 2 clients, 3 ids, 2 messages, 1 object, ids reused in flight | `OneEntryPerId`, `HeldIdsCounted`: acknowledgements, give-ups, failures and destruction in any order never release an id that is held |
| `check_front_answers` | 1 client, 3 ids, 3 messages, `MaxSend` 2, `Interval` 1, no reuse in flight | `LeavesForAReason`, and `KeepsPromise`: refinement of `Delivery`; `EveryEntryResolved` under fairness |
| `check_front_idle` | 1 client, 3 ids, 3 messages | violated: `IdleServerHasFreeId`, see below |
| `server_sessions` | 3 addresses, 2 places, 3 tuxes, dedicated server | `PlayersAgree`, `OwnedTuxes`, `ToldWhy`, and `KeepsLobby`: refinement of `Lobby` |
| `session_live` | 1 process that may be lost, delayed, refused or die | `DepartedLeave`, `OrphansEnd`, `JoinsResolve` |
| `tux_lives` | two tuxes at one keyboard, no items, the simple gun and the tommy gun with a volley of two shots, a match of two rounds, saved and loaded at any time | `OneSpawn`, `OneReload`, `RespawnsClean`, `EndIsPending`; `Respawns` under fairness |
| `tux_arms` | a tux on the net, 1 item, mines, bomb balls, two bonuses, a match of two rounds | `HoldsLoadedGun`, `MinesHaveOwners`; `Rearms` under fairness |
| `replica_copies` | a client, another player, one item, explosion or shot; a network that keeps the order and one that does not | `ReplicaSound`, `GoneStayGone`, `RoundsNotAhead`, `QuietAgrees` |
| `index_search` | keys -1 to 3, two objects, arrays that grow by 2 | `InBounds`, `CyclicOnlyForDuplicates`, `ImplementsDirectory`: refinement of `Directory`; `EveryCallEnds` under fairness |
| `space_actions` | 3 objects, an arena of 5 by 2 with zones of 2 by 2, rectangles of three shapes inside, across and outside | `ZonesAgree`, `LookupsComplete`, `EachVisitedOnce`; `WalksEnd` under fairness |
| `course_modules` | nine arena files, an arena of 9 by 6, 2 tuxes, 1 shot | `SolidStandsFree`, `ClearOfExit`, `LoadsInOrder`, `AIFindsTheWay` |
| `program_screens` | three tours of the client program, 2 public servers, a file of two blocks | `HotKeysFit`, `PlaysTheChosen`, `WholeFile`; `DownloadEnds` under fairness |

Bounds.  Three ids are the fewest with which two of a message and an object are
alive at once (`findNewID` leaves one unused); two clients are needed for an id
shared by two queues.  `MaxSend` is 2 where the reason for leaving a queue is
checked: with 1, every message that was written at all has reached the limit.
`Interval` 0 or 1 tick instead of 100 ms keeps the comparison and its
neighbours.  Three addresses with two places fill the server and keep one waiting,
and three tuxes let a player leave and come again while another plays on.
`MaxInbox` is 1 and one inbox is filled in a turn (`OneBusy`): the server works
the inboxes off one after the other, so what several fill in one turn they also
fill in several.  `MaxTux` bounds the tuxes that are ever made; when it is reached
no hello is accepted.  `MaxFaults` bounds the steps of the server with a failing
read or write in the liveness run.  Two addresses with one port, and a host that plays, are covered by the
proofs of `ServerProofs`, which hold for any ports, places and inboxes.

In `Tux` times are ticks: the shots of a volley, a reload and a switch end no later
than a respawn, as 900, 500 and 100 ms do against 2000, and in `tux_lives` some of
them end in the same tick as the respawn, the worst case.  A volley of two has a
shot that is due at once and one that is not.  One shot a gun is enough to empty a
gun with each and to pick another up; `MaxAmmo` caps what is picked up, where the
code adds without limit.  `MaxTimers` forbids to shoot or switch when so many
tasks wait, never to die or to be called back; two are a reload or a switch and
what is left of an earlier life, four are a whole volley or what two tuxes wait for at
once.  Two rounds (`MaxRound` 2) have deaths before, at and after the last of them.  A game
is loaded only where nobody is on the net, so `tux_lives` has `NetTuxes` empty; with two
tuxes one can be saved dead while the other lives.  A player on the net, for whom a change
of guns sets no timer, is in `tux_arms` and in the proofs.

In `replica_copies` two datagrams on their way are the fewest that overtake each
other, and `MaxSend` 1 has one repetition and the giving up.  One object besides
the tuxes comes to the arena (`OneObject`), of any of the three kinds: the handlers
of two objects share nothing but the datagrams, and the players are two as well.

Five keys make an index in which a search needs three rounds and comes down from
either side, and the smallest key is below zero.  `LIST_ALLOC_LIMIT` is 2 instead
of 16 so that the array grows and shrinks on the way.  The rectangles of
`space_actions` lie in one zone, over two and over three, and cross each border of
the arena; the size of the arena is no multiple of the size of a zone.  With
three objects two neighbours, the first, the last or all of them delete
themselves in one walk.

The arena of `course_modules` is 9 by 6 in a measure of about 15 pixels: a tux is
2, a step and every gap 1.  Its files have pipes that turn what comes out, two
teleports and a single one, walls with a way around, modules in every order and
twice, lines that miss a value, and pipes with one id.  Shots fly where one tux
plays, the computer plays where there are walls (`Small`): the geometry of one does
not depend on the other.  `MaxLooks` 20 instead of 100 still lets the search run
out of alternatives, find the rival and be given up.

In `program_screens` the file has four bytes in blocks of two, and a buffer of three
(`ClientBuffer`) is one that a fast server can overrun; two reads a tick leave
something for the next.  One entry more than fits (`MaxStale` 2) is left over
by the games before.  The user makes one of three tours: one with all dialogs and
all screens but the browser, with a server that is down; one with downloads and
no dialogs; one with the browser.  What the tours keep apart has no variable in
common but the screen: the dialogs change the hot keys and the flags of the world,
the download its buffers, the browser its lists.

The violation.  `check_front_destroy` frees the entries of a queue and does not
give their ids back, and a `del` that nobody receives registers an id with
count 0 that nobody releases.  After enough of either, the registry is full
although nothing is alive, and `findNewID` aborts the server ("There is no free
ID left", `base/idManager.c:70`).  `IdleServerHasFreeId` states what the abort
takes for granted.

What the models show besides, as states the properties except or that end the
program.  No text of the repository says otherwise, so they are no findings:

* a client whose `init` is lost and overtaken by `event`, `kill`, `del` or `shot`
  has no arena to handle it in (`base/proto.c:403`), and a laser of a tux it does
  not know has no author (`base/shot.c:85`);
* an item whose answer was lost is added again after its `del`, and on a network
  that changes the order a player who has left comes back with a late `newtux`;
* a client whose socket refuses a write is dropped without a word, also where the walk over
  its queue was to end with "error" or "end" (`base/server.c:286`);
* a saved game has no timers: who was saved dead stays dead, and a match saved after its
  last round goes on for ever (`client/saveLoad.c:111`, `:153`);
* the bonus of a ghost in a wall is kept for as long as it stays there
  (`base/tux.c:650`), and a ghost in a wall that takes another bonus is solid there;
* with one teleport the draw for the other end does not end; a module that was
  loaded and given no object fails an assertion when the game ends; an arena file
  that loads the computer player's module leaves that player standing; the line "playMusic" before the line "arena" writes through NULL
  (`base/arenaFile.c:198`);
* `hot_key_unregister` knows keys and not handlers.  A dialog that is answered under
  another, or a game that ends below one, leaves an entry of ESCAPE behind, which
  on the screen of the download calls a dialog that is gone;
* the client of a download waits for "ERR" and the server says "[Error]"; after a
  server that dies the client does not ask again; a window closed in the middle
  leaves a part of an arena that no later start survives;
* after a refresh that leaves out a server, the lines of the browser and its list
  of servers are no longer in step; a game is saved under the arena of the menu.

Fairness.  In `CheckFront`: the clock ticks and the loop visits every listed
client, as `porcesListClients` does in each turn.  In `Session`: the server's
loop keeps turning, works off each inbox and each queue, and its periodic timers
fire; strong fairness for what the loop reaches again and again although other
steps disable it in between.  A living process keeps looking at its clock.  Of the
network only this is assumed: what is written again and again to a living
process arrives one day (`SF` of `ClientRecvEnd`, `ClientRecvInit`).  Nothing is
assumed of `hello` or of the process's `end`, which are sent once.
In `Tux`: the clock ticks, `timer_event` is entered and walks on, the walk over
items ends (`TimersRun`, all that `Respawns` needs), and every tux has its `tux_event`
(`TuxesRun`): all of them are called by each `arena_event`, which `world_event` and
`public_server_event` call again and again.
The fairness is strong where other handlers run in between (a walk, a pause).
Nothing is assumed of the players.
In `Index` and `Space` a call and a walk run on the calling thread: the loop goes
on once it is entered.  Nobody has to call.
In `Program` the tick comes from a timer (`TimerCallback`) and goes through its
parts, and the download server is woken by its sockets (`select`): weak fairness of
either.  Nothing is assumed of the user, the datagrams or the life of the server.

## 4. The proofs

All for every set of clients and ids and every value of the bounds.

`CheckFrontProofs`:

* `TypeCorrect`.
* `IdsHeldAreCounted`: `[](OneEntryPerId /\ HeldIdsCounted)`.  The inductive
  invariant adds that a queue's entries have numbers no larger than `made`, which
  makes the next number new, and that a held id is registered; an answer removes
  one holder and one count, a walk that gives up several entries removes as many
  of both because a queue holds an id once.
* `AnswersAreSound`: `LeavesForAReason`, assuming `ReuseInFlight = FALSE`.  The
  invariant: an id on its way back was handled by that client for the message
  that carries it.
* `ImplementsDelivery`: every step of `CheckFront` is a step of `Delivery` or
  leaves `Outstanding` alone.
* `EntriesWearOut`: an entry that stays in its queue only gets older and is only
  written more often, both within bounds; every tick ages it or finds it due, and
  `check_front_event` leaves no `SIMPLE` entry and no due one as it was.  This needs
  no assumption on reuse.

`ServerProofs`:

* `ServerTypeCorrect`: types, and that an unlisted session holds nothing.
* `SessionsAgree`: `[](OneSessionPerPort /\ OwnedTuxes /\ PlayersAgree)`; the
  strengthening `SeatsIssued` says that a seated tux has a number that was
  issued, so the next number is nobody's.
* `SeatsAreBounded`: `[]SeatsBounded`, from the agreement (a departure removes
  tuxes, only `Accept` adds one, under the guard).
* `ServerKeepsLobby`, `SessionKeepsLobby`: `KeepsLobby`, step by step.  That the guard of
  `Accept`, which counts the tuxes of the arena, leaves a place for one more player needs
  the agreement of arena and sessions (`OwnedTuxes`), that its port has no other player
  needs `OneSessionPerPort`, that its tux is new needs `SeatsIssued`; every other step
  keeps the seats of those who stay.
* `ClientsAreTold`: `ToldWhy`, step by step from the types.  In `Refuse`, `DelZombieClient`
  and `ServerQuit` the last word is written by every walk that no write fails in; a
  client that is dropped without it is in `failed`.
* `SessionServes`: `Session`, whatever its processes and its network do, is an
  implementation of `Server` (`SessionIsServerStep`), so the four theorems above hold
  of the composition too.  With it `SessionTypeCorrect`.
* `OldNeverPlay`: a process of another version gets no tux and does not play.  The
  invariant follows what could let it in from end to end (`TurnedAway`): no "hello" on
  its way or in the inbox of its session, so no "init" in the queue or on the way back.
  `findUdpClient` compares ports only, so this is said of ports that no process of this
  version shares (`AllOld`); where one does, the two have one session and the code
  lets both in.
* `DepartedFade`: what a process that is over has still to say, on its way or in an inbox
  (`ToCome`, where a datagram counts twice, once for its reading and once for its line),
  never grows, and falls with everything that refreshes its session or opens another;
  else the session grows more silent until `delZombieCLient` takes it.
* `OrphansStayOut`: a player the server dropped never gets a tux again and its session is
  never refreshed.  The invariant `Greets` follows its one "hello": until it is dealt with it
  is in one place, and there is neither tux nor "init"; so who plays has none left, and
  what else it says does not fit a session without a tux (`findCmdProto`).  Both are said
  of processes that share their port with no other (`Alone`): of two that do, each
  refreshes the session of the other.

`TuxProofs`:

* `TypeCorrect`, `OneSpawnHolds`, `OneReloadHolds`, `RespawnsCleanHolds` from one
  inductive invariant `IInv`.  None of the three properties is inductive: that no
  old timer is pending when a tux comes to life rests on the order of the list.
  `Life(t)` says that a dead tux has a spawn timer, unless a saved game lost it, and that it
  is the last of the tux's timers both in the list and in time (`SpawnsLast`), that a
  living tux has none, and that a tux of `lost` is dead and plays at the keyboard; `Soon` that no timer of a tux is later than a respawn that would
  start now, which makes a new spawn timer the last in time; `Passed` that what
  the walk has left behind is not due.  So when the walk finds a spawn timer due,
  all other timers of that tux are due as well, come before it, and cannot have
  been left behind: they are gone.  `SpawnIsLast` is the assumption about the
  constants of `base/tux.h` and `base/gun.c` this needs.
* `HoldsLoadedGunHolds`, on top of `IInv`: the strengthening `Arms` says that a dead tux has shots
  for its simple gun, whatever it picks up, so it holds a loaded gun when
  `timer_spawnTux` puts the simple gun in its hand.
* `MinesHaveOwnersHolds`: a step keeps a mine, replaces it, or lays it for
  somebody present (`MinesKept`), and only `Leave`, which disowns the mines, makes
  somebody absent (`Stays`).
* `EndIsPendingHolds`: the strengthening `EndInv` adds that the world only ends
  after the last round.  A match whose end was lost counts no round any more, so nothing
  sets its end again.
* `NothingIsPutOff`: the timer a dead tux waits for, and those of a reload, a change of
  guns and the end of the match, are never lost nor set anew while they are waited for,
  whatever happens to the tux.  The loading of a saved game is the one
  step that loses a respawn and the end of the match; no reload and no change of guns is
  waited for after it.  It uses what the others prove: which timers there are
  (`Life`), and that one whose callback ran is not waited for any longer.
* `TimerWalkEnds`: with every step `timer_event` has one task less ahead of it, although
  the callbacks remove tasks under it; it needs that nobody touches items meanwhile.

`IndexProofs`, for every set of integer keys and every `LIST_ALLOC_LIMIT`:

* `TypeCorrect`, `AlwaysSorted`, `ReadsStayInside`, `OnlyDuplicatesAbort`,
  `AllocAlwaysFits`, and from the last two `StaysInBounds`.  The inductive
  invariant is about the bracket of a search (`Bracket`): every key left of `min` is smaller and every key right of `max` is
  larger than the one looked for, so the key, if it is held, lies between them,
  and the place where both meet is where it belongs.  `RoundsLeft` bounds
  the rounds already counted by the entries that have left the bracket, as long as
  the key is not held; the counter then never reaches five times the count.
* `IndexIsADirectory`: an insertion adds exactly the entry, and only if its
  key is not held, because then the bracket is empty; a search that gives up has an
  empty bracket.
* `CallsAreShort`: a round that does not end the call leaves at most half of the
  bracket (`Halves`), so a call takes no more of them than the number of entries has
  binary digits; only the addition of a key that is held goes on with its bracket
  as it is, and counts towards the abort.

`SpaceProofs`, for every arena, zone size and set of rectangles:

* `TypeCorrect`, `ZonesAlwaysAgree` (and with it the assertion of
  `space_del`): deletion looks into the zones of the rectangle the object was
  listed with, because whoever changes the rectangle relists the object if its zones change.
* `LookupsMissNothing`: the division towards zero is monotone (`DivMonotone`), so the
  zone of a point that two rectangles share is in the segment of both
  (`ZoneOfPoint`).
* `WalksVisitOnce`: the strengthening `WalkInv` says that the objects below the
  position of the walk are those called back that are still there, and that nobody
  was called twice (`NextIsUnseen`).
* `WalksRunOut`: from the same invariant, an object that is not called back yet is
  found at the position of the walk (`NextIsThere`; the least of a finite set, by the
  well-foundedness of the numbers), and each callback leaves one fewer to go, also if
  it deletes its object.

Assumed are `KeysAreIntegers`, `NoObjectIsNone`, `LimitIsPositive`,
`IdsAreIntegers`, `BoxesAreBoxes` and `SizesArePositive` (`space_new` asserts the
last).  Integers are unbounded: positions and ids of the program are far from
the limits of `int`.

`ReplicaProofs`, for any number of players, items and shots, any network of the two
kinds and any number of repetitions:

* `TypeCorrect`, `AlwaysSound`, `NeverAhead`, `NobodyReturns` from one inductive
  invariant `IInv`.  Each step of the server is brought into one form first
  (`ServerStepTells`): a sequence of datagrams is appended (`Tells`), and what they
  say is true of the server when they are written (`Truths`), also when they are
  written again, because who is gone stays gone.  Each handler of the client is
  brought into another (`Handled`).  `ReplicaSound` needs besides that an explosion
  is never on the radar, since it ends without a word, and that there is nothing
  to know before there is an arena (`Agrees`).  `RoundsNotAhead` needs that the
  kills on their way are deaths not yet counted (`Behind`): appending adds at most
  as many (`KillsOfAppended`), and who takes one leaves one less
  (`KillsOfRemoved`).  `GoneStayGone` needs the order of what is on its way
  (`InOrder`, `NotAfter`), which only an orderly network keeps.
* `AlwaysQuietAgrees`: with a second invariant, `Owing`, on top of the first: what
  the client has not got, or has not been told of, is still in the queue of the
  server or was given up (`Owed`), and what was answered the client has handled.

`CourseProofs`, for any arena files, any number of tuxes and shots, and any sizes,
steps and gaps (also for walls and shots without a size, or with a negative one):

* `AlwaysLoadsInOrder`: the inductive invariant `Loading` adds that a module is in
  the list exactly if one of the lines that were read loads it (`Listed`), so an object
  line finds its module if and only if it comes after that line; and that nothing is
  loaded in the menu, since a game ends by an empty list or by stopping the program.
* `AlwaysStandsFree`: about one tux the property says `StandsFree`; every operator that
  moves tuxes is shown to stay in the set `Standing` of those of whom it holds.  The
  walls only change while an arena file is read, and then nobody is there (`Vacant`).
* `AlwaysClearOfExit`: that a shot does not meet its exit is not inductive, because it
  flies on.  It is also `Past` the exit on a side towards which it does not fly back:
  `MoveShot` makes it so by the size the shot has after its turn (`MovedShotLeaves`),
  and whatever turns it later forgets the exit.
* `AlwaysFindsTheWay`: the search keeps two lists from which it removes and to which it
  appends; what it should find is defined without them, as what can be reached in as
  many rounds.  `Follows` relates the two round by round: all that the lists hold can be
  reached, and all alternatives that were taken out are in a set whose successors are
  in it or still in the lists (`Known`, `Settled`).  When the lists are empty that set
  is closed, so nothing outside it can be reached and nothing in it meets the rival.

`FoldLeft` is defined by a function that is chosen, and nothing in the library says what
it is, so Part 1 shows by induction on a given set that it exists (`FoldExists`) and
what its value keeps (`FoldStays`); the same for the recursive functions of the search
(`StepsExist`, `Climb`).  These are inductions about one set, taken from the
well-foundedness of the numbers; no operator is their parameter.

`ProgramProofs`, for any number of public servers and every size of the arena file,
of the blocks, the reads and the buffers:

* `AlwaysPlaysTheChosen`: the order of the tick (`Ticks`) says that only the event of
  the browser leads from it into the game, and `Listing` that line and server are the
  same number as long as every server has its line.
* `AlwaysHotKeysFit`: not inductive as it stands, since a key is found at its first
  entry and a set of entries does not say which is first.  `Keyed` gives the whole
  sequence (`Expected`): the chat or the save dialog before the question whether to
  quit, both before the five entries of the game, which the chat turns off in part.
  Every start, stop and dialog is a lemma about such sequences (`Opens`, `Closes`,
  `EnterChat`, `LeaveChat`).
* `AlwaysWholeFile`: what the client, the connection and the server hold is looked at
  together (`Transfer`): the buffers and both ends' bytes under way, one after the
  other, are the request, then the answer, then the part of the file between what is
  written and what was read (`Asking`, `Refused`, `Granted`, `Unopened`, `Opened`).
  A read, however it is cut, moves bytes within that sequence, so what is on the disk
  is always the first `offset` bytes (`Partial`), and equal to the file when the
  offset is its size.  `Leftover` is what makes a part that is left by the end of the
  program harmless: it is never taken for the file, because the next start refuses it.
* `DownloadGoesForward`: from the same invariant, what is in the buffers and under way
  while a file is fetched is exactly what was read of it and not yet written, so when
  nothing is there and all was read the file is complete; and neither end goes back.

The assumptions are those of the modules: finite sets that do not meet
(`ReplicaAssumption`), `IdAssumption`, `CheckFrontAssumption`, `ServerAssumption`,
`SessionAssumption`, `TuxAssumption`, `SpawnIsLast`, `ScreensAssumption`, `DownloadAssumption` (positive sizes),
`BrowserAssumption` (finitely many servers), `PursuitAssumption` and `CourseAssumption`
(sizes are natural numbers, that of a tux and the number of looks positive; the lines of an arena file are
those that have the right kind of values, the direction of a pipe being one of the
four, which `atoi` does not see to), and those named above.

Only model-checked: the liveness properties (`EveryEntryResolved`, `DepartedLeave`,
`OrphansEnd`, `JoinsResolve`, `Respawns`, `Rearms`, `EveryCallEnds`, `WalksEnd`,
`DownloadEnds`), which are beyond the prover as `ENABLED` is.  Each says that a measure
goes down as long as steps are taken, and that they are taken.  The first half is a
safety property, and for seven of the nine it is proved for every value of the constants
(`JoinsResolve` and `Rearms` rest on what is written or offered again and again):
`EntriesWearOut` for `EveryEntryResolved`, `DepartedFade` for
`DepartedLeave`, `OrphansStayOut` for `OrphansEnd`, `NothingIsPutOff` and
`TimerWalkEnds` for `Respawns`, `CallsAreShort` for `EveryCallEnds`, `WalksRunOut` for
`WalksEnd`, `DownloadGoesForward` for `DownloadEnds`.

## 5. Not modelled

* Drawing, sound, fonts and images: nothing the program decides depends on them.
* The text a user types (chat, settings, names), the key table, the score table and
  the configuration files: values that no property tells apart.
* The layout of the lines of saved games and the format of archives: only whether they can
  be read and named is modelled, and of a saved game what it brings back (`Tux`).  A file
  of saved games that was changed by hand is not modelled.
* Scores, and messages from module to module over the net.
* The public server's own part: a loop that polls, one blocking exchange with the
  master server at start and end, and a quit from inside a signal handler, which
  is taken between two turns in `Server`; inside a library call anything may happen,
  which a model of this code cannot tell.
* The host of a server that is not dedicated never joins or leaves while the server
  runs.
* More than one client of the download server: its sessions share nothing but the
  list, where the deletion of one delays the next by a round.
