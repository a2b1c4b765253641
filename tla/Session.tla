------------------------------ MODULE Session ------------------------------
(***************************************************************************)
(* Players and their server (base/client.c with base/server.c): module     *)
(* Server composed with the processes at its addresses, over datagrams     *)
(* that may be lost, delayed and reordered.                                *)
(*                                                                         *)
(* A process says "hello" once, when it starts.  It plays when "init"      *)
(* arrives.  It is over when the server refuses or ends it, when it has    *)
(* heard nothing for too long, or when its user quits; it then says "end", *)
(* once, unless it just dies.                                              *)
(***************************************************************************)
EXTENDS Server

CONSTANTS
    OldClient,      \* addresses whose process is of another version
    AliveTimeout,   \* SERVER_TIMEOUT_ALIVE, in clock ticks
    MaxFaults       \* bound: steps of the server in which a read or a write fails

ASSUME SessionAssumption ==
    OldClient \subseteq Client /\ AliveTimeout \in Nat /\ MaxFaults \in Nat

VARIABLES
    proc,           \* address -> "off", "joining", "playing" or "over"
    unheard,        \* address -> time since its process last heard the server
    faults,         \* steps of the server in which a read or a write has failed
    up,             \* address -> commands on their way to the server
    down            \* address -> kinds on their way to the process

processVars == <<proc, unheard, up, down, faults>>
allVars == <<vars, processVars>>

MaxUnheard == AliveTimeout + 1

SessionTypeOK ==
    /\ TypeOK
    /\ proc \in [Client -> {"off", "joining", "playing", "over"}]
    /\ unheard \in [Client -> 0 .. MaxUnheard]
    /\ up \in [Client -> SUBSET Cmd]
    /\ down \in [Client -> SUBSET Kind]
    /\ faults \in 0 .. MaxFaults

Alive(c) == proc[c] \in {"joining", "playing"}

SessionInit ==
    /\ Init
    /\ proc = [c \in Client |-> "off"]
    /\ unheard = [c \in Client |-> 0]
    /\ up = [c \in Client |-> {}]
    /\ down = [c \in Client |-> {}]
    /\ faults = 0

-----------------------------------------------------------------------------
\* What the server wrote in this step is on its way.
Carried ==
    /\ down' = [c \in Client |-> down[c] \cup written'[c]]
    /\ UNCHANGED <<proc, unheard, up>>

Fault ==
    /\ faults < MaxFaults
    /\ faults' = faults + 1

Served(step) == step /\ Carried /\ failed' = {} /\ UNCHANGED faults

Arrive(c, m) ==
    /\ m \in up[c]
    /\ \/ Read(c, m) /\ UNCHANGED faults
       \/ ReadFails(c) /\ Fault
    /\ up' = [up EXCEPT ![c] = @ \ {m}]
    /\ UNCHANGED <<proc, unheard, down>>

WriteFails(step) == step /\ Carried /\ failed' # {} /\ Fault

TimePasses ==
    /\ Tick
    /\ unheard' = [c \in Client |->
         IF Alive(c) /\ unheard[c] < MaxUnheard THEN unheard[c] + 1 ELSE unheard[c]]
    /\ UNCHANGED <<proc, up, down, faults>>

-----------------------------------------------------------------------------
\* client_init.
ClientInit(c) ==
    /\ Outside
    /\ proc[c] = "off"
    /\ proc' = [proc EXCEPT ![c] = "joining"]
    /\ unheard' = [unheard EXCEPT ![c] = 0]
    /\ up' = [up EXCEPT ![c] = @ \cup {IF c \in OldClient THEN "oldhello" ELSE "hello"}]
    /\ UNCHANGED <<faults, down>>

\* eventPingServer, whether or not the process plays; a player's events too.
ClientPing(c) ==
    /\ Outside
    /\ Alive(c)
    /\ up' = [up EXCEPT ![c] = @ \cup {"play"}]
    /\ UNCHANGED <<faults, proc, unheard, down>>

Heard(c) == unheard' = [unheard EXCEPT ![c] = 0]

\* client_eventWorkRecvList: any message is a sign of life.
ClientHears(c) ==
    /\ Outside
    /\ Alive(c)
    /\ "any" \in down[c]
    /\ down' = [down EXCEPT ![c] = @ \ {"any"}]
    /\ Heard(c)
    /\ UNCHANGED <<faults, proc, up>>

\* proto_recv_init_client: answered every time, obeyed the first time.
ClientRecvInit(c) ==
    /\ Outside
    /\ Alive(c)
    /\ "init" \in down[c]
    /\ down' = [down EXCEPT ![c] = @ \ {"init"}]
    /\ proc' = [proc EXCEPT ![c] = "playing"]
    /\ up' = [up EXCEPT ![c] = @ \cup {"check"}]
    /\ Heard(c)
    /\ UNCHANGED faults

\* world_do_end, and client_quit on the way out of the world.
GoesOver(c) ==
    /\ proc' = [proc EXCEPT ![c] = "over"]
    /\ up' = [up EXCEPT ![c] = @ \cup {"end"}]

ClientRecvEnd(c) ==
    /\ Outside
    /\ Alive(c)
    /\ \E k \in down[c] \cap {"refuse", "end"} : down' = [down EXCEPT ![c] = @ \ {k}]
    /\ GoesOver(c)
    /\ Heard(c)
    /\ UNCHANGED faults

\* isServerAlive.
ClientGivesUp(c) ==
    /\ Outside
    /\ Alive(c)
    /\ unheard[c] > AliveTimeout
    /\ GoesOver(c)
    /\ UNCHANGED <<faults, unheard, down>>

ClientQuits(c) ==
    /\ Outside
    /\ Alive(c)
    /\ GoesOver(c)
    /\ UNCHANGED <<faults, unheard, down>>

\* The process dies, or client_send fails and its "end" cannot leave either.
ClientDies(c) ==
    /\ Outside
    /\ Alive(c)
    /\ proc' = [proc EXCEPT ![c] = "over"]
    /\ UNCHANGED <<faults, unheard, up, down>>

LoseUp(c, m) ==
    /\ Outside
    /\ m \in up[c]
    /\ up' = [up EXCEPT ![c] = @ \ {m}]
    /\ UNCHANGED <<faults, proc, unheard, down>>

LoseDown(c, k) ==
    /\ Outside
    /\ k \in down[c]
    /\ down' = [down EXCEPT ![c] = @ \ {k}]
    /\ UNCHANGED <<faults, proc, unheard, up>>

-----------------------------------------------------------------------------
Process(c) ==
    \/ ClientInit(c)
    \/ ClientPing(c)
    \/ ClientHears(c)
    \/ ClientRecvInit(c)
    \/ ClientRecvEnd(c)
    \/ ClientGivesUp(c)
    \/ ClientQuits(c)
    \/ ClientDies(c)

Network(c) ==
    \/ \E m \in up[c] : Arrive(c, m) \/ LoseUp(c, m)
    \/ \E k \in down[c] : LoseDown(c, k)

SessionNext ==
    \/ \E c \in Client : Process(c) \/ Network(c) \/ Served(Handle(c))
    \/ \E c \in Client : Served(Flush(c)) \/ WriteFails(FlushFails(c) \/ Handle(c))
    \/ WriteFails(DelZombieClient)
    \/ WriteFails(ServerQuit)
    \/ Served(Timer)
    \/ Served(BeginWork)
    \/ Served(EndTurn)
    \/ Served(ServerQuit)
    \/ TimePasses

SessionSpec == SessionInit /\ [][SessionNext]_allVars

(***************************************************************************)
(* Fairness.  The server's loop never stops turning: it works off every    *)
(* inbox and visits every queue in every turn, and its timers come due     *)
(* again and again.  Time passes.  A living process keeps pinging and      *)
(* looking at its clock.  Of the network only this is asked: "end" and     *)
(* "init" written again and again to a living process arrive one day.      *)
(***************************************************************************)
ServerFairness ==
    /\ WF_allVars(Served(BeginWork))
    /\ WF_allVars(Served(EndTurn))
    /\ SF_allVars(Served(DelZombieClient))
    /\ SF_allVars(Served(PingClients))
    /\ WF_allVars(TimePasses)
    /\ \A c \in Client :
         WF_allVars(Served(Handle(c))) /\ SF_allVars(Served(Flush(c)))

ProcessFairness ==
    \A c \in Client :
        /\ WF_allVars(ClientGivesUp(c))
        /\ SF_allVars(ClientRecvEnd(c))
        /\ SF_allVars(ClientRecvInit(c))

FairSessionSpec == SessionSpec /\ ServerFairness /\ ProcessFairness

-----------------------------------------------------------------------------
\* A departed player leaves no trace: when its process is over, whatever of its
\* farewell is lost, the server in the end lists no session for it, for good.
\* (A late datagram may list it again for a while.)
DepartedLeave ==
    \A c \in Client : proc[c] = "over" ~> [](c \notin Listed)

\* A player whom the server has dropped does not play on alone: either "end"
\* gets through, or the silence is noticed.  (The errors that answer its pings
\* keep it from noticing; they must not keep it for ever.)
OrphansEnd ==
    \A c \in Client : (proc[c] = "playing" /\ ~HasTux(c)) ~> proc[c] = "over"

\* "init" is not coming any more: written too often, and the last one lost.
InitForgotten(c) == HasTux(c) /\ "init" \notin outbox[c] \cup down[c]

\* A process that says "hello" plays or is over, one day, though "hello" is said
\* once and may be lost.
JoinsResolve ==
    \A c \in Client : proc[c] = "joining" ~> proc[c] # "joining" \/ InitForgotten(c)
=============================================================================
