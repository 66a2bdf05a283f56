----------------------------- MODULE ServerPanel -----------------------------
(***************************************************************************)
(* The Server Control GUI over the server life cycle: handleEvent of       *)
(* internal/gui/gui_gio.go and the goroutines it starts.                   *)
(*                                                                         *)
(* The event loop handles one event at a time, and a click on Stop keeps   *)
(* it for as long as Controller.Stop takes.  Each started server gets a    *)
(* watcher goroutine, each Optimize a goroutine of its own; they write     *)
(* running, optimizing and status without a lock, between any two steps of *)
(* the event loop.                                                         *)
(***************************************************************************)
EXTENDS ServerLifecycle

VARIABLES
  gui,         \* the event loop: taking events, inside a Stop, or exiting
  running,     \* mw.running
  optimizing,  \* mw.optimizing
  ctrl,        \* mw.ctrl
  status,      \* mw.status
  watch        \* watch[i]: the select the watcher of instance i is at

panelVars == <<gui, running, optimizing, ctrl, status, watch>>
vars == <<serverVars, panelVars>>

GuiPCs == {"event", "stopping", "exiting", "exited"}
Statuses == {"idle", "starting", "running", "stopped", "stopFailed",
             "optimizing", "optimizeFailed"}
WatchPCs == {"none", "first", "second", "gone"}

PanelInit ==
  /\ Init
  /\ gui = "event"
  /\ running = FALSE
  /\ optimizing = FALSE
  /\ ctrl = None
  /\ status = "idle"
  /\ watch = [i \in Instances |-> "none"]

\* Mutant: the idle status is left blank.
SettleToBlank(message) ==
  status' = IF running \/ optimizing THEN message ELSE ""

\* The last thing a frame does about the status: a message it set a moment
\* before is lost when nothing is running.
Settle(message) ==
  status' = IF running \/ optimizing THEN message ELSE "idle"

-----------------------------------------------------------------------------
Idle == gui = "event" /\ ~running /\ ~optimizing

StartClick(i) ==
  /\ Idle
  /\ StartServer(i)
  /\ ctrl' = i
  /\ running' = TRUE
  /\ status' = "starting"
  /\ watch' = [watch EXCEPT ![i] = "first"]
  /\ UNCHANGED <<gui, optimizing>>

StartClickFails(i) ==
  /\ Idle
  /\ StartServerFails(i)
  /\ Settle("starting")
  /\ UNCHANGED <<gui, running, optimizing, ctrl, watch>>

\* Mutant: Stop runs in a goroutine of its own.
StopClickAsync ==
  /\ gui = "event" /\ running /\ ~optimizing
  /\ StopBegins(ctrl)
  /\ UNCHANGED <<gui, running, optimizing, ctrl, status, watch>>

StopClick ==
  /\ gui = "event" /\ running /\ ~optimizing
  /\ StopBegins(ctrl)
  /\ gui' = "stopping"
  /\ UNCHANGED <<running, optimizing, ctrl, status, watch>>

\* Mutant: the button's handler clears the running flag itself.
StopReturnsIdle ==
  /\ gui = "stopping" /\ stop[ctrl] = "returned"
  /\ gui' = "event"
  /\ running' = FALSE
  /\ status' = "idle"
  /\ UNCHANGED <<serverVars, optimizing, ctrl, watch>>

\* Controller.Stop returns to the event loop, within the same frame.
StopReturns ==
  /\ gui = "stopping" /\ stop[ctrl] = "returned"
  /\ gui' = "event"
  /\ Settle(IF stopErr[ctrl] THEN "stopFailed" ELSE "stopped")
  /\ UNCHANGED <<serverVars, running, optimizing, ctrl, watch>>

OptimizeClick ==
  /\ Idle
  /\ optimizing' = TRUE
  /\ status' = "optimizing"
  /\ UNCHANGED <<serverVars, gui, running, ctrl, watch>>

Frame ==
  /\ gui = "event"
  /\ Settle(status)
  /\ UNCHANGED <<serverVars, gui, running, optimizing, ctrl, watch>>

\* DestroyEvent: the window is closed, whatever is going on.
Destroy ==
  /\ gui = "event"
  /\ IF ctrl = None
     THEN gui' = "exited" /\ UNCHANGED serverVars
     ELSE gui' = "exiting" /\ StopBegins(ctrl)
  /\ UNCHANGED <<running, optimizing, ctrl, status, watch>>

Exit ==
  /\ gui = "exiting" /\ stop[ctrl] = "returned"
  /\ gui' = "exited"
  /\ UNCHANGED <<serverVars, running, optimizing, ctrl, status, watch>>

-----------------------------------------------------------------------------
(***************************************************************************)
(* The goroutines of the panel.  A watcher that finds both channels closed *)
(* may take either.                                                        *)
(***************************************************************************)
\* Mutant: the watcher reports the start without waiting for Ready.
WatchReadyAtOnce(i) ==
  /\ watch[i] = "first"
  /\ status' = "running"
  /\ watch' = [watch EXCEPT ![i] = "second"]
  /\ UNCHANGED <<serverVars, gui, running, optimizing, ctrl>>

WatchReady(i) ==
  /\ watch[i] = "first" /\ ready[i]
  /\ status' = "running"
  /\ watch' = [watch EXCEPT ![i] = "second"]
  /\ UNCHANGED <<serverVars, gui, running, optimizing, ctrl>>

\* Mutant: the watcher stops watching once the server is ready.
WatchDoneBeforeReady(i) ==
  /\ watch[i] = "first" /\ Cancelled(i)
  /\ running' = FALSE
  /\ watch' = [watch EXCEPT ![i] = "gone"]
  /\ UNCHANGED <<serverVars, gui, optimizing, ctrl, status>>

WatchDone(i) ==
  /\ watch[i] \in {"first", "second"} /\ Cancelled(i)
  /\ running' = FALSE
  /\ watch' = [watch EXCEPT ![i] = "gone"]
  /\ UNCHANGED <<serverVars, gui, optimizing, ctrl, status>>

OptimizeEnds ==
  /\ optimizing
  /\ optimizing' = FALSE
  /\ status' \in {status, "optimizeFailed"}
  /\ UNCHANGED <<serverVars, gui, running, ctrl, watch>>

ServerStep(i) ==
  /\ Boot(i) \/ StopSteps(i) \/ Browse(i)
  /\ UNCHANGED panelVars

PanelNext ==
  /\ gui # "exited"
  /\ \/ StopClick \/ StopReturns \/ OptimizeClick \/ Frame \/ Destroy \/ Exit
     \/ OptimizeEnds
     \/ \E i \in Instances :
          \/ StartClick(i) \/ StartClickFails(i)
          \/ WatchReady(i) \/ WatchDone(i)
          \/ ServerStep(i)

PanelSpec == PanelInit /\ [][PanelNext]_vars

\* Goroutines that can run do, and so does the event loop inside a Stop; the
\* user owes nothing.
PanelFairSpec ==
  /\ PanelSpec
  /\ WF_vars(StopReturns) /\ WF_vars(Exit) /\ WF_vars(OptimizeEnds)
  /\ \A i \in Instances :
       /\ WF_vars(gui # "exited" /\ WatchDone(i))
       /\ WF_vars(gui # "exited" /\ BootGoesOn(i) /\ UNCHANGED panelVars)
       /\ WF_vars(gui # "exited" /\ StopSteps(i) /\ UNCHANGED panelVars)

-----------------------------------------------------------------------------
PanelTypeOK ==
  /\ TypeOK
  /\ gui \in GuiPCs
  /\ running \in BOOLEAN
  /\ optimizing \in BOOLEAN
  /\ ctrl \in Instances \union {None}
  /\ status \in Statuses
  /\ watch \in [Instances -> WatchPCs]

\* Start is offered only when every server started before has been told to
\* stop or has ended, and its watcher has written running for the last time:
\* a late watcher never turns off the flag of the next server.
IdleMeansEveryServerIsDone ==
  ~running => \A i \in Instances :
                Started(i) => Cancelled(i) /\ watch[i] = "gone"

\* "Running and listening" is about the controller the Stop button would stop.
RunningStatusIsCurrent ==
  status = "running" => ctrl # None /\ ready[ctrl]

\* While the panel optimizes the database, a request is in progress only if
\* Stop gave up on its connection or the server broke down under it.  This is
\* about requests: handles may be open without one, as those of a server whose
\* port was taken, or of a StartServer that failed on the way (server.go:108,
\* 212-217), which nobody closes.
OptimizeMeetsOnlyStragglers ==
  optimizing =>
    \A i \in Instances, c \in Conns :
      conn[i][c] = "active" => c \in cut[i] \/ cause[i] = "serve"

\* The panel learns of every end of a server, asked for or not, and a click on
\* Stop gives the window back.
PanelNoticesTheEnd ==
  /\ \A i \in Instances : Cancelled(i) ~> watch[i] = "gone" \/ gui = "exited"
  /\ gui = "stopping" ~> gui # "stopping"
=============================================================================
