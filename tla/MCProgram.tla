----------------------------- MODULE MCProgram ------------------------------
(***************************************************************************)
(* Program on a small instance: a file of two blocks, two public servers,  *)
(* a game that begins with at most one entry left by an earlier one.  The  *)
(* whole program has too many states for one search.  What the user visits *)
(* is bounded instead, by three tours that are searched together: one with *)
(* the dialogs of the game, one with downloads, one with the browser.      *)
(***************************************************************************)
EXTENDS Program

VARIABLE tour

Off(screens) == screen \notin screens

NoDialog == ~world.yes /\ ~world.save /\ ~world.chat /\ ~world.pause

\* The bounds of a tour.  In the first the server is down from the beginning, so that
\* downArena is shown and nothing comes.
InTour ==
    CASE tour = "dialogs" -> ~up /\ known /\ Off({"browser"})
      [] tour = "downloads" ->
           NoDialog /\ choice = [type |-> "client", chosen |-> FALSE, picked |-> FALSE]
           /\ Off({"browser", "setting", "settingKeys", "table", "credits"})
      [] tour = "browser" ->
           NoDialog /\ ~choice.picked /\ choice.type \in {"client", "none"}
           /\ Off({"downArena", "chiceArena"})

MCInit ==
    /\ tour \in {"dialogs", "downloads", "browser"}
    /\ phase = "off" /\ screen = "none" /\ future = "mainMenu" /\ at = "start" /\ rest = 0
    /\ hot = [keys |-> <<Entry("F1", "screen")>>, failed |-> FALSE]
    /\ up = (tour = "downloads")
    /\ DownloadInit /\ BrowserInit
    /\ choice \in [type : Types, chosen : BOOLEAN, picked : {FALSE}]
    /\ world = NoWorld /\ overlap = FALSE
    /\ InTour

MCNext == Next /\ UNCHANGED tour /\ InTour'

mcvars == <<program, tour>>

\* In every state a tour leaves a way for a tick to go on.
MCSpec == MCInit /\ [][MCNext]_mcvars
          /\ WF_mcvars(ProgramStep /\ UNCHANGED tour /\ InTour')
          /\ WF_mcvars(DownServerStep /\ UNCHANGED tour /\ InTour')
=============================================================================
