------------------------------- MODULE GuiServer -------------------------------
(***************************************************************************)
(* A process with the panel: the configuration goes through the fields of  *)
(* the window into the environment and from there into a server            *)
(* (gui_gio.go:132-171, Config), the server's goroutine loads the known    *)
(* files and listens, requests for pictures are answered (KnownFiles), and *)
(* what all of them log is shown in the window (LogBuffer).                *)
(*                                                                         *)
(* Stop, Optimize and the status line are in ServerPanel, what Stop does   *)
(* to the start in ServerLifecycle.                                        *)
(***************************************************************************)
EXTENDS KnownFiles, LogBuffer, FiniteSets

CONSTANTS
  Setups,   \* what a process may find when it starts
  Edits,    \* what the user may write into the field of DFLOG
  MaxOthers \* bound on the lines that are not of the start

LoaderTexts == {"starting", "loading", "loadError", "loaded", "listening", "listenError"}

ASSUME GuiServerAssumption ==
  /\ Setups \subseteq Setup /\ Edits \subseteq Path
  /\ Texts = LoaderTexts \union {"other"}
  /\ MaxOthers \in Nat
  /\ MaxLines >= MaxOthers + 5

VARIABLES
  given,   \* the setup of this process
  env,     \* the environment
  gui,     \* the event loop: between events, or in a frame before the log view
  repaint, \* Invalidate has been called since the last frame
  watch    \* the watcher of the server: it waits, or has seen how the start ended

guiVars == <<given, env, gui, repaint, watch>>
vars == <<filesVars, logVars, guiVars>>

Init ==
  /\ FilesInit
  /\ LogInit
  /\ given \in Setups
  /\ env = given.env
  /\ gui = "event"
  /\ repaint = FALSE
  /\ watch = "none"

-----------------------------------------------------------------------------
(***************************************************************************)
(* The event loop.                                                         *)
(***************************************************************************)
Fields == {newMainWindow(given)}
            \union {[newMainWindow(given) EXCEPT !.DFLOG = path] : path \in Edits}

\* The frame with the click: the fields become the environment, and the
\* environment the configuration.  The log view comes later in the same frame.
StartClick ==
  /\ gui = "event" /\ gui' = "frame"
  /\ repaint' = FALSE
  /\ env' \in Fields
  /\ StartServer(GetServerConfig([given EXCEPT !.env = env']))
  /\ append("starting")
  /\ watch' = "waiting"
  /\ UNCHANGED given

\* Any other event that paints, asked for or not.
Frame ==
  /\ gui = "event" /\ gui' = "frame"
  /\ repaint' = FALSE
  /\ UNCHANGED <<filesVars, logVars, given, env, watch>>

UpdateLogView ==
  /\ gui = "frame" /\ gui' = "event"
  /\ RefreshLog
  /\ UNCHANGED <<filesVars, given, env, repaint, watch>>

TouchLogView ==
  /\ gui = "event"
  /\ MoveCaret
  /\ UNCHANGED <<filesVars, guiVars>>

\* Mutant: the window is painted again only when a start has failed.
WatcherInvalidatesLate ==
  /\ watch = "waiting" /\ watch' = "told"
  /\ load \in {"announce", "serving", "complain", "failed"}
  /\ repaint' = (repaint \/ load \in {"complain", "failed"})
  /\ UNCHANGED <<filesVars, logVars, given, env, gui>>

\* The server is ready, or done before it was.
WatcherInvalidates ==
  /\ watch = "waiting" /\ watch' = "told"
  /\ load \in {"announce", "serving", "complain", "failed"}
  /\ repaint' = TRUE
  /\ UNCHANGED <<filesVars, logVars, given, env, gui>>

-----------------------------------------------------------------------------
(***************************************************************************)
(* The goroutine of the server, with what it logs.                         *)
(***************************************************************************)
Logging(step, text) == step /\ append(text) /\ UNCHANGED guiVars
Quietly(step) == step /\ UNCHANGED <<logVars, guiVars>>

LoaderStep ==
  \/ Logging(BeginLoad, "loading")
  \/ Quietly(OpenLog)
  \/ Logging(OpenLogFails, "loadError")
  \/ Quietly(ScanLine)
  \/ Quietly(ScanEnds)
  \/ Logging(ScanBreaks, "loadError")
  \/ Logging(Publish, "loaded")
  \/ Quietly(Listen)
  \/ Logging(Announce, "listening")
  \/ Quietly(ListenFails)
  \/ Logging(Complain, "listenError")

\* Anything else that logs: slow queries, requests that fail.
OtherLine ==
  /\ load = "serving"
  /\ Cardinality({i \in DOMAIN log : log[i] = "other"}) < MaxOthers
  /\ append("other")
  /\ UNCHANGED <<filesVars, guiVars>>

GuiNext == StartClick \/ Frame \/ UpdateLogView \/ TouchLogView

Next ==
  \/ GuiNext
  \/ WatcherInvalidates
  \/ LoaderStep
  \/ OtherLine
  \/ Quietly(MediaNext)
  \/ Quietly(DiskNext)

\* The goroutines run on, the event loop ends its frames, and a window that is
\* invalidated is painted.
Fairness ==
  /\ WF_vars(LoaderStep)
  /\ WF_vars(WatcherInvalidates)
  /\ WF_vars(repaint /\ Frame)
  /\ WF_vars(UpdateLogView)

Spec == Init /\ [][Next]_vars /\ Fairness

-----------------------------------------------------------------------------
TypeOK ==
  /\ FilesTypeOK
  /\ LogTypeOK
  /\ given \in Setups
  /\ env \in {given.env} \union Fields
  /\ gui \in {"event", "frame"}
  /\ repaint \in BOOLEAN
  /\ watch \in {"none", "waiting", "told"}

\* The error a start goes on after is shown: the line that the known files could
\* not be read is written before the window is told that the server listens, so
\* the frame this asks for has it, unless View newer lines push it out.
LoadFailureIsShown ==
  LET Logged(n) == n <= Len(log) /\ log[n] = "loadError"
      Shown(n) == (\E i \in 1..seen.len : Contents(seen)[i] = n) \/ Len(log) >= n + View
  IN  (\E n \in 1..MaxLines : Logged(n)) ~> (\E n \in 1..MaxLines : Logged(n) /\ Shown(n))

\* Whoever presses Start without touching a field gets the server the process
\* would have started without the panel: the fields are made of a configuration
\* whose defaults are applied again.  Only the origins for CORS are lost, whose
\* field the window leaves empty.
UntouchedPanelKeepsTheConfig ==
  load # "off" /\ env = newMainWindow(given) =>
    cfg = [GetServerConfig(given) EXCEPT !.CorsOrigins = ""]

\* Whatever the user's connection string says, and however often parameters are
\* added and taken away, the handle of the pages cannot write; the one of the
\* ratings and the one of Optimize can, also where the user's string asks for
\* less.  Only a string that asks for it in another spelling, which the code does
\* not look for, keeps these two from writing.
HandlesWriteAsMeant ==
  load # "off" =>
    /\ ~CanWrite(DbQuery(cfg))
    /\ ~Has(cfg.Dsn.query, {"_query_only=true"}) =>
         CanWrite(DbRwQuery(cfg)) /\ CanWrite(OptimizeQuery(cfg))
=============================================================================
