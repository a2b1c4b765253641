------------------------------ MODULE Browser -------------------------------
(***************************************************************************)
(* The browser of public servers (screen/browser.c): the list of servers   *)
(* of the master server, the lines shown for them, and the line selected.  *)
(* Lines and servers are kept apart and meet by their position alone.      *)
(***************************************************************************)
EXTENDS Screens

CONSTANTS
    Servers,
    Blank           \* the line of a server that did not answer

ASSUME BrowserAssumption == IsFiniteSet(Servers)

VARIABLES
    list,           \* server_list: [server, state]
    lines,          \* the lines of select_server
    selected,       \* the line selected, from 1; 0 for -1
    address,        \* the server whose address was set by Play, until the game begins
    lost            \* history: a refresh has left out a line of this list

browser == <<list, lines, selected, address, lost>>

NoAddress == "none"

\* The answers of the master server: it may be out of reach, or name some servers.
Lists == {l \in UNION {[1 .. n -> Servers] : n \in 0 .. Cardinality(Servers)} : IsInjective(l)}

\* server_getinfo: a server that answers is marked so; the mark of one that does not
\* stays as it was.
GetInfo(c, answers) == IF answers THEN [c EXCEPT !.state = TRUE] ELSE c

\* Mutant: servers that do not answer get no line.
LoadServersQuietly ==
    \E l \in Lists :
      \E answers, memory \in [1 .. Len(l) -> BOOLEAN] :
        /\ list' = [i \in 1 .. Len(l) |-> GetInfo([server |-> l[i], state |-> memory[i]], answers[i])]
        /\ lines' = SelectSeq(l, LAMBDA v : answers[CHOOSE i \in 1 .. Len(l) : l[i] = v])
        /\ lost' = FALSE

\* The mark of a new record is what its memory holds.
LoadServers ==
    \E l \in Lists :
      \E answers, memory \in [1 .. Len(l) -> BOOLEAN] :
        /\ list' = [i \in 1 .. Len(l) |-> GetInfo([server |-> l[i], state |-> memory[i]], answers[i])]
        /\ lines' = [i \in 1 .. Len(l) |-> IF answers[i] THEN l[i] ELSE Blank]
        /\ lost' = FALSE

\* Here only the servers that answer get a line.
RefreshServers ==
    \E answers \in [1 .. Len(list) -> BOOLEAN] :
      /\ list' = [i \in 1 .. Len(list) |-> GetInfo(list[i], answers[i])]
      /\ LET kept == InOrder({i \in 1 .. Len(list) : answers[i]}) IN
           lines' = [i \in DOMAIN kept |-> list[kept[i]].server]
      /\ lost' = (lost \/ \E i \in DOMAIN answers : ~answers[i])

\* server_getcurr and the Play button.
CanPlay == selected \in DOMAIN list /\ list[selected].state

BrowserStart == LoadServers /\ UNCHANGED <<selected, address>>

BrowserStop ==
    /\ list' = <<>> /\ lines' = <<>> /\ lost' = FALSE
    /\ UNCHANGED <<selected, address>>

BrowserInit == list = <<>> /\ lines = <<>> /\ selected = 0 /\ address = NoAddress /\ lost = FALSE

BrowserForgotten ==
    list' = <<>> /\ lines' = <<>> /\ selected' = 0 /\ address' = NoAddress /\ lost' = FALSE
=============================================================================
