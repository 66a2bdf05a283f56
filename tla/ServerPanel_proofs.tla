-------------------------- MODULE ServerPanel_proofs --------------------------
(***************************************************************************)
(* Proofs about ServerPanel, for every number of starts and every set of   *)
(* connections: no watcher of an old server touches the flag of the next,  *)
(* and Optimize meets only requests that Stop gave up on.                  *)
(*                                                                         *)
(* What a step of the server means to the panel is proved first            *)
(* (ServerGoesOn), so that the panel's invariant is proved from that and   *)
(* from the panel's own steps.                                             *)
(***************************************************************************)
EXTENDS ServerPanel, ServerLifecycle_proofs

\* The servers move, and start nothing.
ServerMove(i) == Boot(i) \/ StopSteps(i) \/ Browse(i) \/ StopBegins(i)

\* What the panel may rely on while they do.
ServerGoesOn ==
  \A j \in Instances :
    /\ Started(j)' = Started(j)
    /\ Cancelled(j) => cause'[j] = cause[j]
    /\ ready[j] => ready'[j]
    /\ shut[j] => shut'[j]
    /\ shut[j] /\ boot[j] # "accept" => boot'[j] # "accept"
    /\ boot[j] = "ended" => boot'[j] = "ended"
    /\ boot[j] # "accept" => Open(j)' \subseteq Open(j)
    /\ cut[j] \subseteq cut'[j]
    /\ stop[j] # "idle" => stop'[j] # "idle"
    /\ cause'[j] = "canceled" => cause[j] = "canceled" \/ stop'[j] # "idle"
    /\ cause'[j] = "listen" => cause[j] = "listen" \/ (boot'[j] = "ended" /\ Open(j)' = {})

\* ctrl is the server started last, and the others are done.
WatchersFollow ==
  /\ ctrl # None => Started(ctrl)
  /\ running => ctrl # None
  /\ \A i \in Instances :
       /\ Started(i) <=> watch[i] # "none"
       /\ Started(i) /\ i # ctrl => Cancelled(i) /\ watch[i] = "gone"

\* A Stop that is not over keeps the event loop.
OneStopAtATime ==
  /\ gui \in {"stopping", "exiting"} => ctrl # None
  /\ \A i \in Instances :
       \/ stop[i] \in {"idle", "returned"}
       \/ i = ctrl /\ gui \in {"stopping", "exiting"}

CausesAreKnown ==
  \A i \in Instances :
    /\ cause[i] = "canceled" => stop[i] # "idle"
    /\ cause[i] = "listen" => boot[i] = "ended" /\ Open(i) = {}

\* No request of a server that was stopped is left, but for those it gave up on.
Drained(i) == shut[i] /\ boot[i] # "accept" /\ Open(i) \subseteq cut[i]
OptimizeAmongStragglers ==
  optimizing => \A i \in Instances :
                  Started(i) => Drained(i) \/ cause[i] \in {"serve", "listen"}

PanelTypes ==
  /\ gui \in GuiPCs
  /\ running \in BOOLEAN
  /\ optimizing \in BOOLEAN
  /\ ctrl \in Instances \union {None}
  /\ status \in Statuses
  /\ watch \in [Instances -> WatchPCs]

PInv ==
  /\ IInv /\ PanelTypes
  /\ WatchersFollow /\ OneStopAtATime /\ CausesAreKnown /\ OptimizeAmongStragglers
  /\ IdleMeansEveryServerIsDone /\ RunningStatusIsCurrent

-----------------------------------------------------------------------------
LEMMA BootGoesOnStep ==
  ASSUME IInv, NEW i \in Instances, Boot(i)
  PROVE  ServerGoesOn
<1>1. /\ boot' = [boot EXCEPT ![i] = boot'[i]]
      /\ UNCHANGED <<shut, stop, stopErr, cut, handles, conn>>
      /\ boot[i] \notin {"off", "failed", "ended"} /\ boot'[i] \notin {"off", "failed"}
      /\ shut[i] => boot'[i] # "accept"
  BY DEF Boot, LoadKnownFiles, LoadKnownFilesFails, StartupCancelled, CheckContext, Listen,
         ListenFails, CloseReady, Serve, ServeAfterShutdown, ServeReturns, Finish, Goto,
         IInv, TypeOK
<1>2. \A j \in Instances : ready[j] => ready'[j]
  BY DEF Boot, LoadKnownFiles, LoadKnownFilesFails, StartupCancelled, CheckContext, Listen,
         ListenFails, CloseReady, Serve, ServeAfterShutdown, ServeReturns, Finish, IInv, TypeOK
<1>3. /\ \A j \in Instances : j # i => cause'[j] = cause[j]
      /\ Cancelled(i) => cause'[i] = cause[i]
      /\ cause'[i] = "canceled" => cause[i] = "canceled"
      /\ cause'[i] = "listen" => cause[i] = "listen" \/ (boot[i] = "listen" /\ boot'[i] = "ended")
  <2>1. CASE ListenFails(i)
    BY <2>1 DEF ListenFails, Goto, Cancel, Cancelled, IInv, TypeOK, Causes
  <2>2. CASE Finish(i)
    <3>1. boot[i] = "finish" => Cancelled(i)
      BY DEF IInv, ListenerHandedOver
    <3> QED BY <2>2, <3>1 DEF Finish, Goto, Cancel, Cancelled, IInv, TypeOK, Causes
  <2>3. CASE ~ListenFails(i) /\ ~Finish(i)
    <3>1. UNCHANGED cause
      BY <2>3 DEF Boot, LoadKnownFiles, LoadKnownFilesFails, StartupCancelled, CheckContext,
                  Listen, CloseReady, Serve, ServeAfterShutdown, ServeReturns
    <3> QED BY <3>1
  <2> QED BY <2>1, <2>2, <2>3
<1>4. \A j \in Instances : Open(j)' = Open(j)
  BY <1>1 DEF Open
<1>5. boot[i] = "listen" => Open(i) = {}
  BY DEF IInv, ListenerHandedOver
<1>6. \A j \in Instances : j # i => boot'[j] = boot[j]
  BY <1>1 DEF IInv, TypeOK
<1>7. \A j \in Instances : Started(j)' = Started(j)
  BY <1>1, <1>6 DEF Started
<1>8. \A j \in Instances : shut[j] /\ boot[j] # "accept" => boot'[j] # "accept"
  BY <1>1, <1>6
<1>9. \A j \in Instances : boot[j] = "ended" => boot'[j] = "ended"
  BY <1>1, <1>6
<1> QED
  BY <1>1, <1>2, <1>3, <1>4, <1>5, <1>6, <1>7, <1>8, <1>9 DEF ServerGoesOn

LEMMA StopGoesOnStep ==
  ASSUME IInv, NEW i \in Instances, StopSteps(i) \/ StopBegins(i)
  PROVE  ServerGoesOn
<1>1. UNCHANGED <<boot, ready, known>>
  BY DEF StopSteps, StopBegins, ShutdownBegins, ShutdownPolls, ShutdownTimesOut, CloseDb,
         CloseCacheDb
<1>2. /\ \A j \in Instances : j # i => stop'[j] = stop[j]
      /\ stop'[i] # "idle"
  BY DEF StopSteps, StopBegins, ShutdownBegins, ShutdownPolls, ShutdownTimesOut, CloseDb,
         CloseCacheDb, IInv, TypeOK
<1>3. \A j \in Instances : (shut[j] => shut'[j]) /\ cut[j] \subseteq cut'[j]
  <2>1. CASE ShutdownBegins(i)
    BY <2>1 DEF ShutdownBegins, IInv, TypeOK
  <2>2. CASE ShutdownTimesOut(i)
    BY <2>2 DEF ShutdownTimesOut, IInv, TypeOK
  <2>3. CASE StopBegins(i) \/ ShutdownPolls(i) \/ CloseDb(i) \/ CloseCacheDb(i)
    BY <2>3 DEF StopBegins, ShutdownPolls, CloseDb, CloseCacheDb
  <2> QED BY <2>1, <2>2, <2>3 DEF StopSteps
<1>4. \A j \in Instances :
        /\ j # i => cause'[j] = cause[j]
        /\ Cancelled(j) => cause'[j] = cause[j]
        /\ cause'[j] \in {cause[j], "canceled"}
  <2>1. CASE StopBegins(i)
    BY <2>1 DEF StopBegins, Cancel, Cancelled, IInv, TypeOK
  <2>2. CASE StopSteps(i)
    BY <2>2 DEF StopSteps, ShutdownBegins, ShutdownPolls, ShutdownTimesOut, CloseDb, CloseCacheDb
  <2> QED BY <2>1, <2>2
<1>5. \A j \in Instances : Open(j)' \subseteq Open(j)
  <2>1. CASE ShutdownPolls(i)
    <3>1. PICK cs \in CloseIdle(i) : conn' = [conn EXCEPT ![i] = cs]
      BY <2>1 DEF ShutdownPolls
    <3>2. \A c \in Conns : cs[c] # "closed" => conn[i][c] # "closed"
      BY <3>1 DEF CloseIdle
    <3>3. \A j \in Instances : conn'[j] = IF j = i THEN cs ELSE conn[j]
      BY <3>1 DEF IInv, TypeOK
    <3> QED BY <3>2, <3>3 DEF Open
  <2>2. CASE ~ShutdownPolls(i)
    <3>1. UNCHANGED conn
      BY <2>2 DEF StopSteps, StopBegins, ShutdownBegins, ShutdownTimesOut, CloseDb, CloseCacheDb
    <3> QED BY <3>1 DEF Open
  <2> QED BY <2>1, <2>2
<1> QED
  BY <1>1, <1>2, <1>3, <1>4, <1>5 DEF ServerGoesOn, Started

LEMMA BrowseGoesOnStep ==
  ASSUME IInv, NEW i \in Instances, Browse(i)
  PROVE  ServerGoesOn
<1>1. PICK c \in Conns : Accept(i, c) \/ Request(i, c) \/ Respond(i, c) \/ Disconnect(i, c)
  BY DEF Browse
<1>2. UNCHANGED <<boot, cause, ready, known, port, shut, stop, stopErr, cut, handles>>
  BY <1>1 DEF Accept, Request, Respond, Disconnect
<1>3. PICK x : conn' = [conn EXCEPT ![i][c] = x]
  BY <1>1 DEF Accept, Request, Respond, Disconnect
<1>4. boot[i] = "accept" \/ conn[i][c] # "closed"
  BY <1>1 DEF Accept, Request, Respond, Disconnect
<1>5. \A j \in Instances, d \in Conns : j # i \/ d # c => conn'[j][d] = conn[j][d]
  BY <1>3 DEF IInv, TypeOK
<1>6. \A j \in Instances : boot[j] # "accept" => Open(j)' \subseteq Open(j)
  <2> SUFFICES ASSUME NEW j \in Instances, boot[j] # "accept", NEW d \in Conns,
                      conn'[j][d] # "closed"
               PROVE  conn[j][d] # "closed"
    BY DEF Open
  <2>1. CASE j # i \/ d # c
    BY <1>5, <2>1
  <2>2. CASE j = i /\ d = c
    BY <1>4, <2>2
  <2> QED BY <2>1, <2>2
<1> QED BY <1>2, <1>6 DEF ServerGoesOn, Started

LEMMA ServerMoveStep ==
  ASSUME IInv, NEW i \in Instances, ServerMove(i)
  PROVE  ServerGoesOn /\ IInv'
<1>1. ServerGoesOn
  BY BootGoesOnStep, StopGoesOnStep, BrowseGoesOnStep DEF ServerMove
<1>2. IInv'
  BY IInvNext DEF ServerMove, Next
<1> QED BY <1>1, <1>2

-----------------------------------------------------------------------------
LEMMA PInvInit == PanelInit => PInv
<1> SUFFICES ASSUME PanelInit PROVE PInv
  OBVIOUS
<1>1. IInv
  BY IInvInit DEF PanelInit
<1>2. PanelTypes
  BY DEF PanelInit, PanelTypes, GuiPCs, Statuses, WatchPCs
<1>3. \A i \in Instances :
        ~Started(i) /\ watch[i] = "none" /\ stop[i] = "idle" /\ cause[i] = "none"
  BY DEF PanelInit, Init, Started
<1>4. ctrl = None /\ ~running /\ ~optimizing /\ gui = "event" /\ status = "idle"
  BY DEF PanelInit
<1> QED
  BY <1>1, <1>2, <1>3, <1>4
  DEF PInv, WatchersFollow, OneStopAtATime, CausesAreKnown, OptimizeAmongStragglers,
      IdleMeansEveryServerIsDone, RunningStatusIsCurrent

\* Whatever the servers do, what the panel knows of them stays true.
LEMMA PanelKnows ==
  ASSUME PInv, ServerGoesOn, UNCHANGED <<running, optimizing, ctrl, status, watch>>
  PROVE  /\ WatchersFollow' /\ CausesAreKnown' /\ OptimizeAmongStragglers'
         /\ IdleMeansEveryServerIsDone' /\ RunningStatusIsCurrent'
<1>1. \A j \in Instances : Started(j)' = Started(j) /\ (Cancelled(j) => Cancelled(j)')
  BY DEF ServerGoesOn, Cancelled
<1>2. ctrl \in Instances \union {None}
  BY DEF PInv, PanelTypes
<1>3. WatchersFollow' /\ IdleMeansEveryServerIsDone'
  BY <1>1, <1>2 DEF PInv, WatchersFollow, IdleMeansEveryServerIsDone
<1>4. RunningStatusIsCurrent'
  BY <1>2 DEF PInv, RunningStatusIsCurrent, ServerGoesOn
<1>5. CausesAreKnown'
  <2> SUFFICES ASSUME NEW j \in Instances
               PROVE  /\ cause'[j] = "canceled" => stop'[j] # "idle"
                      /\ cause'[j] = "listen" => boot'[j] = "ended" /\ Open(j)' = {}
    BY DEF CausesAreKnown
  <2>1. cause'[j] = "canceled" => stop'[j] # "idle"
    BY DEF PInv, CausesAreKnown, ServerGoesOn
  <2>2. ASSUME cause[j] = "listen"
        PROVE  boot'[j] = "ended" /\ Open(j)' = {}
    <3>1. boot[j] = "ended" /\ Open(j) = {}
      BY <2>2 DEF PInv, CausesAreKnown
    <3> QED BY <3>1 DEF ServerGoesOn
  <2>3. cause'[j] = "listen" => boot'[j] = "ended" /\ Open(j)' = {}
    BY <2>2 DEF ServerGoesOn
  <2> QED BY <2>1, <2>3
<1>6. OptimizeAmongStragglers'
  <2> SUFFICES ASSUME optimizing, NEW j \in Instances, Started(j)
               PROVE  Drained(j)' \/ cause'[j] \in {"serve", "listen"}
    BY <1>1 DEF OptimizeAmongStragglers
  <2>1. CASE Drained(j)
    BY <2>1 DEF Drained, ServerGoesOn
  <2>2. CASE cause[j] \in {"serve", "listen"}
    BY <2>2 DEF ServerGoesOn, Cancelled
  <2> QED BY <2>1, <2>2 DEF PInv, OptimizeAmongStragglers
<1> QED BY <1>3, <1>4, <1>5, <1>6

LEMMA ServerStepKeeps ==
  ASSUME PInv, NEW i \in Instances, ServerStep(i)
  PROVE  PInv'
<1>1. ServerMove(i) /\ UNCHANGED panelVars
  BY DEF ServerStep, ServerMove
<1>2. ServerGoesOn /\ IInv'
  BY <1>1, ServerMoveStep DEF PInv
<1>3. /\ \A j \in Instances : j # i => stop'[j] = stop[j]
      /\ stop'[i] = stop[i] \/ stop[i] \notin {"idle", "returned"}
  <2>1. CASE Boot(i) \/ Browse(i)
    BY <2>1 DEF Boot, LoadKnownFiles, LoadKnownFilesFails, StartupCancelled, CheckContext,
       Listen, ListenFails, CloseReady, Serve, ServeAfterShutdown, ServeReturns, Finish,
       Browse, Accept, Request, Respond, Disconnect
  <2>2. CASE StopSteps(i)
    BY <2>2 DEF StopSteps, ShutdownBegins, ShutdownPolls, ShutdownTimesOut, CloseDb,
       CloseCacheDb, PInv, IInv, TypeOK
  <2> QED BY <2>1, <2>2 DEF ServerStep
<1>4. OneStopAtATime'
  BY <1>1, <1>3 DEF PInv, OneStopAtATime, panelVars
<1>5. PanelTypes'
  BY <1>1 DEF PInv, PanelTypes, panelVars
<1> QED BY <1>1, <1>2, <1>4, <1>5, PanelKnows DEF PInv, panelVars

\* Stop and the closing of the window both begin a Stop.
LEMMA StopStep ==
  ASSUME PInv, StopClick \/ Destroy
  PROVE  PInv'
<1>1. /\ gui = "event" /\ gui' \in {"stopping", "exiting", "exited"}
      /\ UNCHANGED <<running, optimizing, ctrl, status, watch>>
  BY DEF StopClick, Destroy
<1>2. PanelTypes'
  BY <1>1 DEF PInv, PanelTypes, GuiPCs
<1>3. \A j \in Instances : stop[j] \in {"idle", "returned"}
  BY <1>1 DEF PInv, OneStopAtATime
<1>4. CASE ctrl # None
  <2>1. ctrl \in Instances /\ StopBegins(ctrl) /\ gui' \in {"stopping", "exiting"}
    BY <1>4 DEF StopClick, Destroy, PInv, PanelTypes
  <2>2. ServerGoesOn /\ IInv'
    BY <2>1, ServerMoveStep DEF PInv, ServerMove
  <2>3. \A j \in Instances : j # ctrl => stop'[j] = stop[j]
    BY <2>1 DEF StopBegins, PInv, IInv, TypeOK
  <2>4. OneStopAtATime'
    BY <1>1, <1>3, <1>4, <2>1, <2>3 DEF OneStopAtATime
  <2> QED BY <1>1, <1>2, <2>2, <2>4, PanelKnows DEF PInv
<1>5. CASE ctrl = None
  <2>1. gui' = "exited" /\ UNCHANGED serverVars
    BY <1>5 DEF StopClick, Destroy, PInv, WatchersFollow
  <2>2. IInv'
    BY <2>1, IInvNext DEF PInv
  <2>3. OneStopAtATime'
    BY <1>3, <2>1 DEF OneStopAtATime, serverVars
  <2> QED
    BY <1>1, <1>2, <2>1, <2>2, <2>3
    DEF PInv, serverVars, WatchersFollow, CausesAreKnown, OptimizeAmongStragglers, Drained,
        Started, Cancelled, Open, IdleMeansEveryServerIsDone, RunningStatusIsCurrent
<1> QED BY <1>4, <1>5

LEMMA StartClickStep ==
  ASSUME PInv, NEW i \in Instances, StartClick(i)
  PROVE  PInv'
<1>1. IInv'
  BY IInvNext DEF PInv, StartClick, Next
<1>2. /\ gui = "event" /\ ~running /\ ~optimizing
      /\ gui' = gui /\ optimizing' = FALSE /\ running' = TRUE
      /\ ctrl' = i /\ status' = "starting"
      /\ watch' = [watch EXCEPT ![i] = "first"]
      /\ boot[i] = "off" /\ boot' = [boot EXCEPT ![i] = "load"]
      /\ UNCHANGED <<cause, stop, conn>>
  BY DEF StartClick, Idle, StartServer, Goto, PInv, PanelTypes
<1>3. i # None
  BY LifecycleAssumption DEF Instances, None
<1>4. /\ Started(i)' /\ watch'[i] = "first"
      /\ \A j \in Instances : j # i =>
           Started(j)' = Started(j) /\ boot'[j] = boot[j] /\ watch'[j] = watch[j]
      /\ \A j \in Instances : Cancelled(j)' = Cancelled(j) /\ Open(j)' = Open(j)
  BY <1>2 DEF PInv, IInv, TypeOK, PanelTypes, Started, Cancelled, Open
<1>5. PanelTypes'
  BY <1>2 DEF PInv, PanelTypes, GuiPCs, Statuses, WatchPCs
<1>6. WatchersFollow'
  BY <1>2, <1>3, <1>4 DEF PInv, WatchersFollow, IdleMeansEveryServerIsDone
<1>7. OneStopAtATime'
  BY <1>2, <1>3 DEF PInv, OneStopAtATime
<1>8. cause[i] # "listen"
  BY <1>2 DEF PInv, CausesAreKnown
<1>9. CausesAreKnown'
  BY <1>2, <1>4, <1>8 DEF PInv, CausesAreKnown
<1> QED
  BY <1>1, <1>2, <1>5, <1>6, <1>7, <1>9
  DEF PInv, OptimizeAmongStragglers, IdleMeansEveryServerIsDone, RunningStatusIsCurrent

LEMMA StartClickFailsStep ==
  ASSUME PInv, NEW i \in Instances, StartClickFails(i)
  PROVE  PInv'
<1>1. IInv'
  BY IInvNext DEF PInv, StartClickFails, Next
<1>2. /\ ~running /\ ~optimizing /\ status' = "idle"
      /\ boot[i] = "off" /\ boot' = [boot EXCEPT ![i] = "failed"]
      /\ UNCHANGED <<cause, stop, conn, gui, running, optimizing, ctrl, watch>>
  BY DEF StartClickFails, Idle, StartServerFails, Goto, Settle
<1>3. /\ \A j \in Instances : j # i => boot'[j] = boot[j]
      /\ \A j \in Instances :
           /\ Started(j)' = Started(j)
           /\ Cancelled(j)' = Cancelled(j) /\ Open(j)' = Open(j)
  BY <1>2 DEF PInv, IInv, TypeOK, Started, Cancelled, Open
<1>4. PanelTypes'
  BY <1>2 DEF PInv, PanelTypes, Statuses
<1>5. ctrl \in Instances \union {None}
  BY DEF PInv, PanelTypes
<1>6. WatchersFollow' /\ OneStopAtATime' /\ IdleMeansEveryServerIsDone'
  BY <1>2, <1>3, <1>5
  DEF PInv, WatchersFollow, OneStopAtATime, IdleMeansEveryServerIsDone
<1>7. cause[i] # "listen"
  BY <1>2 DEF PInv, CausesAreKnown
<1>8. CausesAreKnown'
  BY <1>2, <1>3, <1>7 DEF PInv, CausesAreKnown
<1> QED
  BY <1>1, <1>2, <1>4, <1>6, <1>8
  DEF PInv, OptimizeAmongStragglers, RunningStatusIsCurrent

\* Everything of the invariant that is about the servers alone, when they rest.
LEMMA ServersRest ==
  ASSUME PInv, UNCHANGED serverVars
  PROVE  /\ IInv' /\ CausesAreKnown'
         /\ \A j \in Instances : /\ Started(j)' = Started(j) /\ Cancelled(j)' = Cancelled(j)
                                 /\ Drained(j)' = Drained(j) /\ cause'[j] = cause[j]
                                 /\ stop'[j] = stop[j] /\ ready'[j] = ready[j]
<1>1. IInv'
  BY IInvNext DEF PInv
<1> QED
  BY <1>1 DEF PInv, serverVars, CausesAreKnown, Started, Cancelled, Drained, Open

\* A frame, the return of a Stop, and the end of an Optimize.
LEMMA StatusStep ==
  ASSUME PInv, Frame \/ StopReturns \/ OptimizeEnds
  PROVE  PInv'
<1>1. /\ UNCHANGED serverVars /\ UNCHANGED <<running, ctrl, watch>>
      /\ optimizing' \in {optimizing, FALSE}
  BY DEF Frame, StopReturns, OptimizeEnds
<1>2. /\ gui' \in GuiPCs
      /\ status' \in Statuses
      /\ status' = "running" => status = "running"
  BY DEF Frame, StopReturns, OptimizeEnds, Settle, PInv, PanelTypes, GuiPCs, Statuses
<1>3. gui' = gui \/ (gui' = "event" /\ gui = "stopping" /\ stop[ctrl] = "returned")
  BY DEF Frame, StopReturns, OptimizeEnds
<1>4. ctrl \in Instances \union {None}
  BY DEF PInv, PanelTypes
<1>5. PanelTypes'
  BY <1>1, <1>2 DEF PInv, PanelTypes
<1>6. OneStopAtATime'
  BY <1>1, <1>3, ServersRest DEF PInv, OneStopAtATime
<1>7. WatchersFollow' /\ IdleMeansEveryServerIsDone'
  BY <1>1, <1>4, ServersRest DEF PInv, WatchersFollow, IdleMeansEveryServerIsDone
<1>8. OptimizeAmongStragglers'
  BY <1>1, ServersRest DEF PInv, OptimizeAmongStragglers
<1>9. RunningStatusIsCurrent'
  BY <1>1, <1>2, <1>4, ServersRest DEF PInv, RunningStatusIsCurrent
<1> QED BY <1>1, <1>5, <1>6, <1>7, <1>8, <1>9, ServersRest DEF PInv

LEMMA ExitStep ==
  ASSUME PInv, Exit
  PROVE  PInv'
<1>1. /\ UNCHANGED serverVars /\ UNCHANGED <<running, optimizing, ctrl, status, watch>>
      /\ gui' = "exited" /\ gui = "exiting" /\ stop[ctrl] = "returned"
  BY DEF Exit
<1>2. ctrl \in Instances \union {None}
  BY DEF PInv, PanelTypes
<1>3. PanelTypes' /\ OneStopAtATime'
  BY <1>1, ServersRest DEF PInv, PanelTypes, OneStopAtATime, GuiPCs
<1>4. WatchersFollow' /\ IdleMeansEveryServerIsDone' /\ OptimizeAmongStragglers'
  BY <1>1, <1>2, ServersRest
  DEF PInv, WatchersFollow, IdleMeansEveryServerIsDone, OptimizeAmongStragglers
<1>5. RunningStatusIsCurrent'
  BY <1>1, <1>2, ServersRest DEF PInv, RunningStatusIsCurrent
<1> QED BY <1>1, <1>3, <1>4, <1>5, ServersRest DEF PInv

\* The panel is idle: every server was stopped, and its Stop is over, or broke.
LEMMA OptimizeClickStep ==
  ASSUME PInv, OptimizeClick
  PROVE  PInv'
<1>1. /\ UNCHANGED serverVars /\ UNCHANGED <<gui, running, ctrl, watch>>
      /\ optimizing' = TRUE /\ status' = "optimizing" /\ gui = "event" /\ ~running
  BY DEF OptimizeClick, Idle
<1>2. ctrl \in Instances \union {None}
  BY DEF PInv, PanelTypes
<1>3. \A i \in Instances : Started(i) => Drained(i) \/ cause[i] \in {"serve", "listen"}
  <2> SUFFICES ASSUME NEW i \in Instances, Started(i), cause[i] \notin {"serve", "listen"}
               PROVE  Drained(i)
    OBVIOUS
  <2>1. cause[i] = "canceled"
    BY <1>1 DEF PInv, IdleMeansEveryServerIsDone, Cancelled, IInv, TypeOK, Causes
  <2>2. stop[i] = "returned"
    BY <1>1, <2>1 DEF PInv, CausesAreKnown, OneStopAtATime
  <2> QED BY <2>2 DEF PInv, IInv, DrainedBeforeClose, Drained
<1>4. PanelTypes' /\ OneStopAtATime'
  BY <1>1, ServersRest DEF PInv, PanelTypes, OneStopAtATime, Statuses
<1>5. WatchersFollow' /\ IdleMeansEveryServerIsDone' /\ OptimizeAmongStragglers'
  BY <1>1, <1>2, <1>3, ServersRest
  DEF PInv, WatchersFollow, IdleMeansEveryServerIsDone, OptimizeAmongStragglers
<1> QED BY <1>1, <1>4, <1>5, ServersRest DEF PInv, RunningStatusIsCurrent

\* A watcher that still watches is that of the server started last.
LEMMA WatchStep ==
  ASSUME PInv, NEW i \in Instances, WatchReady(i) \/ WatchDone(i)
  PROVE  PInv'
<1>1. /\ UNCHANGED serverVars /\ UNCHANGED <<gui, optimizing, ctrl>>
      /\ watch[i] \in {"first", "second"}
  BY DEF WatchReady, WatchDone
<1>2. Started(i) /\ i = ctrl /\ ctrl \in Instances \union {None}
  BY <1>1 DEF PInv, WatchersFollow, PanelTypes
<1>3. \A j \in Instances : j # i => watch'[j] = watch[j]
  BY DEF WatchReady, WatchDone, PInv, PanelTypes
<1>4. \/ /\ watch'[i] = "second" /\ ready[i] /\ status' = "running" /\ running' = running
      \/ /\ watch'[i] = "gone" /\ Cancelled(i) /\ status' = status /\ ~running'
  BY DEF WatchReady, WatchDone, PInv, PanelTypes
<1>5. i # None
  BY LifecycleAssumption DEF Instances, None
<1>6. PanelTypes'
  BY DEF WatchReady, WatchDone, PInv, PanelTypes, Statuses, WatchPCs
<1>7. OneStopAtATime' /\ OptimizeAmongStragglers'
  BY <1>1, ServersRest DEF PInv, OneStopAtATime, OptimizeAmongStragglers
<1>8. WatchersFollow'
  BY <1>1, <1>2, <1>3, <1>4, <1>5, ServersRest DEF PInv, WatchersFollow
<1>9. IdleMeansEveryServerIsDone'
  BY <1>1, <1>2, <1>3, <1>4, ServersRest
  DEF PInv, WatchersFollow, IdleMeansEveryServerIsDone
<1>10. RunningStatusIsCurrent'
  BY <1>1, <1>2, <1>4, <1>5, ServersRest DEF PInv, RunningStatusIsCurrent
<1> QED BY <1>1, <1>6, <1>7, <1>8, <1>9, <1>10, ServersRest DEF PInv

LEMMA PInvNext == PInv /\ [PanelNext]_vars => PInv'
<1> SUFFICES ASSUME PInv, [PanelNext]_vars PROVE PInv'
  OBVIOUS
<1>1. CASE UNCHANGED vars
  <2>1. UNCHANGED serverVars /\ UNCHANGED <<gui, running, optimizing, ctrl, status, watch>>
    BY <1>1 DEF vars, panelVars
  <2>2. ctrl \in Instances \union {None}
    BY DEF PInv, PanelTypes
  <2> QED
    BY <2>1, <2>2, ServersRest
    DEF PInv, PanelTypes, WatchersFollow, OneStopAtATime, OptimizeAmongStragglers,
        IdleMeansEveryServerIsDone, RunningStatusIsCurrent
<1>2. CASE PanelNext
  <2>1. CASE StopClick \/ StopReturns \/ OptimizeClick \/ Frame \/ Destroy \/ Exit \/ OptimizeEnds
    BY <2>1, StopStep, StatusStep, OptimizeClickStep, ExitStep
  <2>2. ASSUME NEW i \in Instances,
               \/ StartClick(i) \/ StartClickFails(i)
               \/ WatchReady(i) \/ WatchDone(i)
               \/ ServerStep(i)
        PROVE  PInv'
    BY <2>2, StartClickStep, StartClickFailsStep, WatchStep, ServerStepKeeps
  <2> QED BY <1>2, <2>1, <2>2 DEF PanelNext
<1> QED BY <1>1, <1>2

LEMMA PanelInvariance == PanelSpec => []PInv
BY PInvInit, PInvNext, PTL DEF PanelSpec

-----------------------------------------------------------------------------
\* The panel drives the servers as ServerLifecycle allows, so what is proved
\* there of any start and stop holds of those the panel makes.
THEOREM PanelDrivesTheServers == PanelSpec => Spec
<1>1. PanelInit => Init
  BY DEF PanelInit
<1>2. PInv /\ [PanelNext]_vars => [Next]_serverVars
  <2> SUFFICES ASSUME PInv, [PanelNext]_vars PROVE [Next]_serverVars
    OBVIOUS
  <2>1. CASE UNCHANGED vars
    BY <2>1 DEF vars
  <2>2. CASE StopClick \/ Destroy
    <3>1. ctrl \in Instances \union {None}
      BY DEF PInv, PanelTypes
    <3>2. UNCHANGED serverVars \/ (ctrl # None /\ StopBegins(ctrl))
      BY <2>2 DEF StopClick, Destroy, PInv, WatchersFollow
    <3> QED BY <3>1, <3>2 DEF Next
  <2>3. CASE StopReturns \/ OptimizeClick \/ Frame \/ Exit \/ OptimizeEnds
    BY <2>3 DEF StopReturns, OptimizeClick, Frame, Exit, OptimizeEnds
  <2>4. ASSUME NEW i \in Instances,
               \/ StartClick(i) \/ StartClickFails(i)
               \/ WatchReady(i) \/ WatchDone(i)
               \/ ServerStep(i)
        PROVE  [Next]_serverVars
    BY <2>4 DEF StartClick, StartClickFails, WatchReady, WatchDone, ServerStep, Next
  <2> QED BY <2>1, <2>2, <2>3, <2>4 DEF PanelNext
<1> QED BY <1>1, <1>2, PanelInvariance, PTL DEF PanelSpec, Spec

\* The variables of the panel keep their types.
THEOREM PanelTypeCorrect == PanelSpec => []PanelTypeOK
<1>1. PInv => PanelTypeOK
  BY DEF PInv, IInv, PanelTypes, PanelTypeOK
<1> QED BY <1>1, PanelInvariance, PTL

\* Start is offered only after the last watcher has written the running flag.
THEOREM LateWatchersAreGone == PanelSpec => []IdleMeansEveryServerIsDone
<1>1. PInv => IdleMeansEveryServerIsDone
  BY DEF PInv
<1> QED BY <1>1, PanelInvariance, PTL

\* The status line calls no server running that is not the one Stop would stop.
THEOREM StatusIsAboutTheController == PanelSpec => []RunningStatusIsCurrent
<1>1. PInv => RunningStatusIsCurrent
  BY DEF PInv
<1> QED BY <1>1, PanelInvariance, PTL

\* An Optimize meets no request in progress, but on connections that Stop gave
\* up on or of a server that broke down (gui_gio.go:173-190).  Handles without a
\* request may be open nevertheless.
THEOREM OnlyStragglersMeetOptimize == PanelSpec => []OptimizeMeetsOnlyStragglers
<1>1. PInv => OptimizeMeetsOnlyStragglers
  <2> SUFFICES ASSUME PInv, optimizing, NEW i \in Instances, NEW c \in Conns,
                      conn[i][c] = "active"
               PROVE  c \in cut[i] \/ cause[i] = "serve"
    BY DEF OptimizeMeetsOnlyStragglers
  <2>1. c \in Open(i)
    BY DEF Open
  <2>2. Started(i)
    BY <2>1 DEF PInv, IInv, ListenerHandedOver, Started
  <2>3. cause[i] # "listen"
    BY <2>1 DEF PInv, CausesAreKnown
  <2> QED BY <2>1, <2>2, <2>3 DEF PInv, OptimizeAmongStragglers, Drained
<1> QED BY <1>1, PanelInvariance, PTL

-----------------------------------------------------------------------------
\* The flag is the watcher of the latest server, and a Stop has begun.
FlagInv ==
  /\ running => ctrl # None /\ watch[ctrl] \in {"first", "second"}
  /\ ctrl # None /\ watch[ctrl] \in {"first", "second"} => running
  /\ gui \in {"stopping", "exiting"} => ctrl # None /\ stop[ctrl] # "idle"

LEMMA FlagStep == PInv /\ FlagInv /\ [PanelNext]_vars => FlagInv'
<1> SUFFICES ASSUME PInv, FlagInv, [PanelNext]_vars PROVE FlagInv'
  OBVIOUS
<1>1. /\ ctrl \in Instances \union {None} /\ None \notin Instances
      /\ watch \in [Instances -> WatchPCs]
  BY LifecycleAssumption DEF PInv, PanelTypes, None, Instances
<1>2. CASE UNCHANGED vars
  BY <1>2 DEF vars, panelVars, serverVars, FlagInv
<1>3. CASE StopClick \/ Destroy
  <2>1. UNCHANGED <<running, ctrl, watch>>
    BY <1>3 DEF StopClick, Destroy
  <2>2. gui' \in {"stopping", "exiting"} => ctrl \in Instances /\ StopBegins(ctrl)
    BY <1>1, <1>3 DEF StopClick, Destroy, PInv, WatchersFollow
  <2>3. gui' \in {"stopping", "exiting"} => stop'[ctrl] = "shutdown"
    BY <2>2 DEF StopBegins, PInv, IInv, TypeOK
  <2> QED BY <2>1, <2>2, <2>3, <1>1 DEF FlagInv
<1>4. CASE StopReturns \/ OptimizeClick \/ Frame \/ Exit \/ OptimizeEnds
  <2>1. /\ UNCHANGED <<running, ctrl, watch>> /\ UNCHANGED stop
        /\ gui' \in {"stopping", "exiting"} => gui' = gui
    BY <1>4 DEF StopReturns, OptimizeClick, Frame, Exit, OptimizeEnds, serverVars
  <2> QED BY <2>1 DEF FlagInv
<1>5. ASSUME NEW i \in Instances, StartClick(i) PROVE FlagInv'
  BY <1>1, <1>5 DEF StartClick, Idle, FlagInv
<1>6. ASSUME NEW i \in Instances, StartClickFails(i) PROVE FlagInv'
  BY <1>6 DEF StartClickFails, StartServerFails, FlagInv
<1>7. ASSUME NEW i \in Instances, WatchReady(i) \/ WatchDone(i) PROVE FlagInv'
  <2>1. i = ctrl /\ watch[i] \in {"first", "second"}
    BY <1>7 DEF WatchReady, WatchDone, PInv, WatchersFollow
  <2>2. CASE WatchReady(i)
    BY <1>1, <2>1, <2>2 DEF WatchReady, FlagInv, serverVars
  <2>3. CASE WatchDone(i)
    BY <1>1, <2>1, <2>3 DEF WatchDone, FlagInv, serverVars
  <2> QED BY <1>7, <2>2, <2>3
<1>8. ASSUME NEW i \in Instances, ServerStep(i) PROVE FlagInv'
  <2>1. UNCHANGED <<running, ctrl, watch, gui>> /\ ServerMove(i)
    BY <1>8 DEF ServerStep, ServerMove, panelVars
  <2>2. ServerGoesOn
    BY <2>1, ServerMoveStep DEF PInv
  <2> QED BY <1>1, <2>1, <2>2 DEF FlagInv, ServerGoesOn
<1> QED BY <1>2, <1>3, <1>4, <1>5, <1>6, <1>7, <1>8 DEF PanelNext

\* mw.running is true exactly while the watcher of the server the panel controls
\* is there to turn it off: it is never left on behind a server that has ended,
\* nor turned off by another one's watcher (gui_gio.go:150-170).  And the event
\* loop waits only for a Stop that has begun.  What is left of PanelNoticesTheEnd
\* is that the watcher and Stop run on.
THEOREM RunningIsWatched ==
  PanelSpec => [](/\ running <=> ctrl # None /\ watch[ctrl] \in {"first", "second"}
                  /\ gui \in {"stopping", "exiting"} => ctrl # None /\ stop[ctrl] # "idle")
<1>1. PanelInit => FlagInv
  BY DEF PanelInit, FlagInv
<1>2. FlagInv =>
        /\ running <=> ctrl # None /\ watch[ctrl] \in {"first", "second"}
        /\ gui \in {"stopping", "exiting"} => ctrl # None /\ stop[ctrl] # "idle"
  BY DEF FlagInv
<1> QED BY <1>1, <1>2, FlagStep, PanelInvariance, PTL DEF PanelSpec
=============================================================================
