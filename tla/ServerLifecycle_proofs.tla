----------------------- MODULE ServerLifecycle_proofs -----------------------
(***************************************************************************)
(* Proofs about ServerLifecycle, for every number of starts and every set  *)
(* of connections: a server that is being stopped accepts nothing more,    *)
(* and the database is closed after the last handler Stop waited for.      *)
(***************************************************************************)
EXTENDS ServerLifecycle, TLAPS

\* Nothing is started, nothing is open.
LEMMA IInvInit == Init => IInv
BY LifecycleAssumption
DEF Init, IInv, TypeOK, ListenerHandedOver, StopCancelsFirst,
    DrainedBeforeClose, Started, Cancelled, Open, BootPCs, Causes, StopPCs,
    ConnStates, Handles, None, Instances

\* A start takes its handles and begins to load.
LEMMA StartStep ==
  ASSUME IInv, NEW i \in Instances, StartServer(i) \/ StartServerFails(i)
  PROVE  IInv'
<1> USE DEF IInv
<1>1. /\ boot[i] = "off" /\ boot'[i] \in {"load", "failed"}
      /\ boot'[i] = "load" => "Db" \in handles'[i]
      /\ \A j \in Instances : j # i => /\ boot'[j] = boot[j]
                                       /\ handles'[j] = handles[j]
      /\ boot' \in [Instances -> BootPCs]
      /\ handles' \in [Instances -> SUBSET Handles]
      /\ UNCHANGED <<cause, ready, known, port, shut, stop, stopErr, cut, conn>>
  <2>1. CASE StartServer(i)
    BY <2>1 DEF StartServer, Goto, TypeOK, BootPCs, Handles
  <2>2. CASE StartServerFails(i)
    BY <2>2 DEF StartServerFails, Goto, TypeOK, BootPCs, Handles
  <2> QED BY <2>1, <2>2
<1>2. TypeOK'
  BY <1>1 DEF TypeOK
<1>3. \A j \in Instances : Open(j)' = Open(j) /\ Cancelled(j)' = Cancelled(j)
  BY <1>1 DEF Open, Cancelled
<1>4. ListenerHandedOver'
  BY <1>1, <1>3 DEF ListenerHandedOver
<1>5. StopCancelsFirst'
  BY <1>1, <1>3 DEF StopCancelsFirst, Started
<1>6. DrainedBeforeClose'
  BY <1>1, <1>3 DEF DrainedBeforeClose, StopCancelsFirst, Started
<1> QED BY <1>2, <1>4, <1>5, <1>6

\* Before it listens, the goroutine holds nothing but its place.
LEMMA LoadStep ==
  ASSUME IInv, NEW i \in Instances, LoadKnownFiles(i) \/ LoadKnownFilesFails(i) \/ CheckContext(i)
  PROVE  IInv'
<1> USE DEF IInv
<1>1. /\ boot[i] \in {"load", "check"} /\ boot'[i] \in {"check", "listen"}
      /\ \A j \in Instances : j # i => boot'[j] = boot[j]
      /\ boot' \in [Instances -> BootPCs]
      /\ known' \in [Instances -> BOOLEAN]
      /\ UNCHANGED <<cause, ready, port, shut, stop, stopErr, cut, handles, conn>>
  BY DEF LoadKnownFiles, LoadKnownFilesFails, CheckContext, Goto, TypeOK, BootPCs
<1>2. TypeOK'
  BY <1>1 DEF TypeOK
<1>3. ListenerHandedOver'
  BY <1>1 DEF ListenerHandedOver, StopCancelsFirst, DrainedBeforeClose, Open, Cancelled, Started
<1>4. StopCancelsFirst'
  BY <1>1 DEF StopCancelsFirst, Started, Cancelled
<1>5. DrainedBeforeClose'
  BY <1>1 DEF DrainedBeforeClose, StopCancelsFirst, Started, Open
<1> QED BY <1>2, <1>3, <1>4, <1>5

\* A start that is cancelled ends.
LEMMA StartupCancelledStep ==
  ASSUME IInv, NEW i \in Instances, StartupCancelled(i)
  PROVE  IInv'
<1> USE DEF IInv
<1>1. /\ Cancelled(i) /\ boot[i] \in {"load", "check"} /\ boot'[i] = "ended"
      /\ \A j \in Instances : j # i => boot'[j] = boot[j]
      /\ boot' \in [Instances -> BootPCs]
      /\ UNCHANGED <<cause, ready, known, port, shut, stop, stopErr, cut, handles, conn>>
  BY DEF StartupCancelled, Goto, TypeOK, BootPCs
<1>2. TypeOK'
  BY <1>1 DEF TypeOK
<1>3. ListenerHandedOver'
  BY <1>1 DEF ListenerHandedOver, StopCancelsFirst, DrainedBeforeClose, Open, Cancelled, Started
<1>4. StopCancelsFirst'
  BY <1>1 DEF StopCancelsFirst, Started, Cancelled
<1>5. DrainedBeforeClose'
  BY <1>1 DEF DrainedBeforeClose, StopCancelsFirst, Started, Open
<1> QED BY <1>2, <1>3, <1>4, <1>5

\* The port changes hands only when nobody has it.
LEMMA ListenStep ==
  ASSUME IInv, NEW i \in Instances, Listen(i)
  PROVE  IInv'
<1> USE DEF IInv
<1>1. /\ boot[i] = "listen" /\ boot'[i] = "announce" /\ port = None /\ port' = i
      /\ None \notin Instances
      /\ \A j \in Instances : j # i => boot'[j] = boot[j]
      /\ boot' \in [Instances -> BootPCs]
      /\ UNCHANGED <<cause, ready, known, shut, stop, stopErr, cut, handles, conn>>
  BY LifecycleAssumption DEF Listen, Goto, TypeOK, BootPCs, None, Instances
<1>2. TypeOK'
  BY <1>1 DEF TypeOK
<1>3. ListenerHandedOver'
  BY <1>1 DEF ListenerHandedOver, StopCancelsFirst, DrainedBeforeClose, Open, Cancelled, Started
<1>4. StopCancelsFirst'
  BY <1>1 DEF StopCancelsFirst, Started, Cancelled
<1>5. DrainedBeforeClose'
  BY <1>1 DEF DrainedBeforeClose, StopCancelsFirst, Started, Open
<1> QED BY <1>2, <1>3, <1>4, <1>5

\* The goroutine ends with a cancelled context: it could not listen, or Serve
\* has returned.
LEMMA EndStep ==
  ASSUME IInv, NEW i \in Instances, ListenFails(i) \/ Finish(i)
  PROVE  IInv'
<1> USE DEF IInv
<1>1. /\ boot[i] \in {"listen", "finish", "finishErr"} /\ boot'[i] = "ended"
      /\ cause' \in [Instances -> Causes] /\ cause'[i] # "none"
      /\ \A j \in Instances : j # i => cause'[j] = cause[j]
      /\ \A j \in Instances : j # i => boot'[j] = boot[j]
      /\ boot' \in [Instances -> BootPCs]
      /\ UNCHANGED <<ready, known, port, shut, stop, stopErr, cut, handles, conn>>
  BY DEF ListenFails, Finish, Goto, Cancel, Cancelled, TypeOK, BootPCs, Causes
<1>2. TypeOK'
  BY <1>1 DEF TypeOK
<1>3. ListenerHandedOver'
  BY <1>1 DEF ListenerHandedOver, StopCancelsFirst, DrainedBeforeClose, Open, Cancelled, Started
<1>4. StopCancelsFirst'
  BY <1>1 DEF StopCancelsFirst, Started, Cancelled
<1>5. DrainedBeforeClose'
  BY <1>1 DEF DrainedBeforeClose, StopCancelsFirst, Started, Open
<1> QED BY <1>2, <1>3, <1>4, <1>5

\* The port is held when ready is announced.
LEMMA CloseReadyStep ==
  ASSUME IInv, NEW i \in Instances, CloseReady(i)
  PROVE  IInv'
<1> USE DEF IInv
<1>1. /\ boot[i] = "announce" /\ boot'[i] = "serve"
      /\ ready' \in [Instances -> BOOLEAN]
      /\ \A j \in Instances : j # i => ready'[j] = ready[j]
      /\ \A j \in Instances : j # i => boot'[j] = boot[j]
      /\ boot' \in [Instances -> BootPCs]
      /\ UNCHANGED <<cause, known, port, shut, stop, stopErr, cut, handles, conn>>
  BY DEF CloseReady, Goto, TypeOK, BootPCs
<1>2. TypeOK'
  BY <1>1 DEF TypeOK
<1>3. ListenerHandedOver'
  BY <1>1 DEF ListenerHandedOver, StopCancelsFirst, DrainedBeforeClose, Open, Cancelled, Started
<1>4. StopCancelsFirst'
  BY <1>1 DEF StopCancelsFirst, Started, Cancelled
<1>5. DrainedBeforeClose'
  BY <1>1 DEF DrainedBeforeClose, StopCancelsFirst, Started, Open
<1> QED BY <1>2, <1>3, <1>4, <1>5

\* Serve finds the server not shut down, so Shutdown will find the listener.
LEMMA ServeStep ==
  ASSUME IInv, NEW i \in Instances, Serve(i)
  PROVE  IInv'
<1> USE DEF IInv
<1>1. /\ ~shut[i] /\ boot[i] = "serve" /\ boot'[i] = "accept"
      /\ \A j \in Instances : j # i => boot'[j] = boot[j]
      /\ boot' \in [Instances -> BootPCs]
      /\ UNCHANGED <<cause, ready, known, port, shut, stop, stopErr, cut, handles, conn>>
  BY DEF Serve, Goto, TypeOK, BootPCs
<1>2. TypeOK'
  BY <1>1 DEF TypeOK
<1>3. ListenerHandedOver'
  BY <1>1 DEF ListenerHandedOver, StopCancelsFirst, DrainedBeforeClose, Open, Cancelled, Started
<1>4. StopCancelsFirst'
  BY <1>1 DEF StopCancelsFirst, Started, Cancelled
<1>5. DrainedBeforeClose'
  BY <1>1 DEF DrainedBeforeClose, StopCancelsFirst, Started, Open
<1> QED BY <1>2, <1>3, <1>4, <1>5

\* Serve finds the server shut down and closes the listener itself.
LEMMA ServeAfterShutdownStep ==
  ASSUME IInv, NEW i \in Instances, ServeAfterShutdown(i)
  PROVE  IInv'
<1> USE DEF IInv
<1>1. /\ shut[i] /\ boot[i] = "serve" /\ boot'[i] = "finish" /\ port' = None
      /\ None \notin Instances /\ port = i /\ Cancelled(i)
      /\ \A j \in Instances : j # i => boot'[j] = boot[j]
      /\ boot' \in [Instances -> BootPCs]
      /\ UNCHANGED <<cause, ready, known, shut, stop, stopErr, cut, handles, conn>>
  BY LifecycleAssumption DEF ServeAfterShutdown, Goto, TypeOK, BootPCs, None,
     Instances, ListenerHandedOver, StopCancelsFirst
<1>2. TypeOK'
  BY <1>1 DEF TypeOK
<1>3. ListenerHandedOver'
  BY <1>1 DEF ListenerHandedOver, StopCancelsFirst, DrainedBeforeClose, Open, Cancelled, Started
<1>4. StopCancelsFirst'
  BY <1>1 DEF StopCancelsFirst, Started, Cancelled
<1>5. DrainedBeforeClose'
  BY <1>1 DEF DrainedBeforeClose, StopCancelsFirst, Started, Open
<1> QED BY <1>2, <1>3, <1>4, <1>5

\* Serve returns without its listener.
LEMMA ServeReturnsStep ==
  ASSUME IInv, NEW i \in Instances, ServeReturns(i)
  PROVE  IInv'
<1> USE DEF IInv
<1>1. /\ boot[i] = "accept" /\ None \notin Instances
      /\ \/ boot'[i] = "finish" /\ port # i /\ port' = port /\ Cancelled(i)
         \/ boot'[i] = "finishErr" /\ port = i /\ port' = None
      /\ \A j \in Instances : j # i => boot'[j] = boot[j]
      /\ boot' \in [Instances -> BootPCs]
      /\ UNCHANGED <<cause, ready, known, shut, stop, stopErr, cut, handles, conn>>
  BY LifecycleAssumption DEF ServeReturns, Goto, TypeOK, BootPCs, None,
     Instances, ListenerHandedOver, StopCancelsFirst
<1>2. TypeOK'
  BY <1>1 DEF TypeOK
<1>3. ListenerHandedOver'
  BY <1>1 DEF ListenerHandedOver, StopCancelsFirst, DrainedBeforeClose, Open, Cancelled, Started
<1>4. StopCancelsFirst'
  BY <1>1 DEF StopCancelsFirst, Started, Cancelled
<1>5. DrainedBeforeClose'
  BY <1>1 DEF DrainedBeforeClose, StopCancelsFirst, Started, Open
<1> QED BY <1>2, <1>3, <1>4, <1>5

\* Stop cancels before it does anything else.
LEMMA StopBeginsStep ==
  ASSUME IInv, NEW i \in Instances, StopBegins(i)
  PROVE  IInv'
<1> USE DEF IInv
<1>1. /\ Started(i) /\ stop[i] \in {"idle", "returned"} /\ stop'[i] = "shutdown"
      /\ cause' \in [Instances -> Causes] /\ cause'[i] # "none"
      /\ \A j \in Instances : j # i => cause'[j] = cause[j] /\ stop'[j] = stop[j]
      /\ stop' \in [Instances -> StopPCs]
      /\ stopErr' \in [Instances -> BOOLEAN]
      /\ UNCHANGED <<boot, ready, known, port, shut, cut, handles, conn>>
  BY DEF StopBegins, Cancel, Cancelled, TypeOK, StopPCs, Causes
<1>2. TypeOK'
  BY <1>1 DEF TypeOK
<1>3. ListenerHandedOver'
  BY <1>1 DEF ListenerHandedOver, StopCancelsFirst, DrainedBeforeClose, Open, Cancelled, Started
<1>4. StopCancelsFirst'
  BY <1>1 DEF StopCancelsFirst, Started, Cancelled
<1>5. DrainedBeforeClose'
  BY <1>1 DEF DrainedBeforeClose, StopCancelsFirst, Started, Open
<1> QED BY <1>2, <1>3, <1>4, <1>5

\* Shutdown marks the server before Serve looks, or closes its listener.
LEMMA ShutdownBeginsStep ==
  ASSUME IInv, NEW i \in Instances, ShutdownBegins(i)
  PROVE  IInv'
<1> USE DEF IInv
<1>1. /\ stop[i] = "shutdown" /\ stop'[i] = "drain" /\ shut'[i] = TRUE
      /\ None \notin Instances
      /\ boot[i] = "accept" => port' # i
      /\ \A j \in Instances :
           j # i => /\ stop'[j] = stop[j] /\ shut'[j] = shut[j]
                    /\ port' = j <=> port = j
      /\ port' \in Instances \union {None}
      /\ boot[i] # "accept" => port' = port
      /\ shut' \in [Instances -> BOOLEAN]
      /\ stop' \in [Instances -> StopPCs]
      /\ UNCHANGED <<boot, cause, ready, known, stopErr, cut, handles, conn>>
  BY LifecycleAssumption DEF ShutdownBegins, TypeOK, StopPCs, None, Instances
<1>2. TypeOK'
  BY <1>1 DEF TypeOK
<1>3. ListenerHandedOver'
  BY <1>1 DEF ListenerHandedOver, StopCancelsFirst, DrainedBeforeClose, Open, Cancelled, Started
<1>4. StopCancelsFirst'
  BY <1>1 DEF StopCancelsFirst, Started, Cancelled
<1>5. DrainedBeforeClose'
  BY <1>1 DEF DrainedBeforeClose, StopCancelsFirst, Started, Open
<1> QED BY <1>2, <1>3, <1>4, <1>5

\* A poll only closes connections, and goes on when none is left.
LEMMA ShutdownPollsStep ==
  ASSUME IInv, NEW i \in Instances, ShutdownPolls(i)
  PROVE  IInv'
<1> USE DEF IInv
<1>1. /\ stop[i] = "drain" /\ boot[i] # "accept" /\ stop'[i] \in {"drain", "closeDb"}
      /\ stop'[i] = "closeDb" => \A c \in Conns : conn'[i][c] = "closed"
      /\ \A c \in Conns : conn[i][c] = "closed" => conn'[i][c] = "closed"
      /\ \A j \in Instances : j # i => stop'[j] = stop[j] /\ conn'[j] = conn[j]
      /\ stop' \in [Instances -> StopPCs]
      /\ conn' \in [Instances -> [Conns -> ConnStates]]
      /\ UNCHANGED <<boot, cause, ready, known, port, shut, stopErr, cut, handles>>
  BY DEF ShutdownPolls, CloseIdle, TypeOK, StopPCs
<1>2. TypeOK'
  BY <1>1 DEF TypeOK
<1>3. ListenerHandedOver'
  BY <1>1 DEF ListenerHandedOver, StopCancelsFirst, DrainedBeforeClose, Open, Cancelled, Started
<1>4. StopCancelsFirst'
  BY <1>1 DEF StopCancelsFirst, Started, Cancelled
<1>5. DrainedBeforeClose'
  BY <1>1 DEF DrainedBeforeClose, StopCancelsFirst, Started, Open
<1> QED BY <1>2, <1>3, <1>4, <1>5

\* Shutdown gives up on the connections that are open.
LEMMA ShutdownTimesOutStep ==
  ASSUME IInv, NEW i \in Instances, ShutdownTimesOut(i)
  PROVE  IInv'
<1> USE DEF IInv
<1>1. /\ stop[i] = "drain" /\ boot[i] # "accept" /\ stop'[i] = "closeDb"
      /\ Open(i) \subseteq cut'[i]
      /\ \A j \in Instances : j # i => stop'[j] = stop[j] /\ cut'[j] = cut[j]
      /\ stop' \in [Instances -> StopPCs]
      /\ stopErr' \in [Instances -> BOOLEAN]
      /\ cut' \in [Instances -> SUBSET Conns]
      /\ UNCHANGED <<boot, cause, ready, known, port, shut, handles, conn>>
  BY DEF ShutdownTimesOut, TypeOK, StopPCs, Open
<1>2. TypeOK'
  BY <1>1 DEF TypeOK
<1>3. ListenerHandedOver'
  BY <1>1 DEF ListenerHandedOver, StopCancelsFirst, DrainedBeforeClose, Open, Cancelled, Started
<1>4. StopCancelsFirst'
  BY <1>1 DEF StopCancelsFirst, Started, Cancelled
<1>5. DrainedBeforeClose'
  BY <1>1 DEF DrainedBeforeClose, StopCancelsFirst, Started, Open
<1> QED BY <1>2, <1>3, <1>4, <1>5

\* The handles go after the wait for the handlers.
LEMMA CloseStep ==
  ASSUME IInv, NEW i \in Instances, CloseDb(i) \/ CloseCacheDb(i)
  PROVE  IInv'
<1> USE DEF IInv
<1>1. /\ stop[i] \in {"closeDb", "closeCacheDb"}
      /\ stop'[i] \in {"closeCacheDb", "returned"}
      /\ \A j \in Instances : j # i => stop'[j] = stop[j] /\ handles'[j] = handles[j]
      /\ stop' \in [Instances -> StopPCs]
      /\ handles' \in [Instances -> SUBSET Handles]
      /\ UNCHANGED <<boot, cause, ready, known, port, shut, stopErr, cut, conn>>
  BY DEF CloseDb, CloseCacheDb, TypeOK, StopPCs
<1>2. TypeOK'
  BY <1>1 DEF TypeOK
<1>3. ListenerHandedOver'
  BY <1>1 DEF ListenerHandedOver, StopCancelsFirst, DrainedBeforeClose, Open, Cancelled, Started
<1>4. StopCancelsFirst'
  BY <1>1 DEF StopCancelsFirst, Started, Cancelled
<1>5. DrainedBeforeClose'
  BY <1>1 DEF DrainedBeforeClose, StopCancelsFirst, Started, Open
<1> QED BY <1>2, <1>3, <1>4, <1>5

\* Whoever accepts holds the port, so it has not been shut down.
LEMMA AcceptStep ==
  ASSUME IInv, NEW i \in Instances, NEW c \in Conns, Accept(i, c)
  PROVE  IInv'
<1> USE DEF IInv
<1>1. /\ boot[i] = "accept" /\ port = i /\ ~shut[i]
      /\ \A j \in Instances : j # i => conn'[j] = conn[j]
      /\ conn' \in [Instances -> [Conns -> ConnStates]]
      /\ UNCHANGED <<boot, cause, ready, known, port, shut, stop, stopErr, cut, handles>>
  BY DEF Accept, TypeOK, ConnStates, ListenerHandedOver
<1>2. TypeOK'
  BY <1>1 DEF TypeOK
<1>3. ListenerHandedOver'
  BY <1>1 DEF ListenerHandedOver, StopCancelsFirst, DrainedBeforeClose, Open, Cancelled, Started
<1>4. StopCancelsFirst'
  BY <1>1 DEF StopCancelsFirst, Started, Cancelled
<1>5. DrainedBeforeClose'
  BY <1>1 DEF DrainedBeforeClose, StopCancelsFirst, Started, Open
<1> QED BY <1>2, <1>3, <1>4, <1>5

\* An open connection changes hands between the browser and a handler.
LEMMA ConnectionStep ==
  ASSUME IInv, NEW i \in Instances, NEW c \in Conns, Request(i, c) \/ Respond(i, c) \/ Disconnect(i, c)
  PROVE  IInv'
<1> USE DEF IInv
<1>1. /\ \A d \in Conns : conn[i][d] = "closed" => conn'[i][d] = "closed"
      /\ \A j \in Instances : j # i => conn'[j] = conn[j]
      /\ conn' \in [Instances -> [Conns -> ConnStates]]
      /\ UNCHANGED <<boot, cause, ready, known, port, shut, stop, stopErr, cut, handles>>
  <2>1. PICK x \in ConnStates :
          /\ conn' = [conn EXCEPT ![i][c] = x] /\ conn[i][c] # "closed"
    BY DEF Request, Respond, Disconnect, ConnStates
  <2>2. conn' = [conn EXCEPT ![i] = [conn[i] EXCEPT ![c] = x]]
    BY <2>1
  <2> QED BY <2>1, <2>2 DEF Request, Respond, Disconnect, TypeOK
<1>2. TypeOK'
  BY <1>1 DEF TypeOK
<1>3. ListenerHandedOver'
  BY <1>1 DEF ListenerHandedOver, StopCancelsFirst, DrainedBeforeClose, Open, Cancelled, Started
<1>4. StopCancelsFirst'
  BY <1>1 DEF StopCancelsFirst, Started, Cancelled
<1>5. DrainedBeforeClose'
  BY <1>1 DEF DrainedBeforeClose, StopCancelsFirst, Started, Open
<1> QED BY <1>2, <1>3, <1>4, <1>5

LEMMA IInvNext == IInv /\ [Next]_serverVars => IInv'
<1> SUFFICES ASSUME IInv, [Next]_serverVars PROVE IInv'
  OBVIOUS
<1>1. CASE UNCHANGED serverVars
  BY <1>1 DEF serverVars, IInv, TypeOK, ListenerHandedOver, StopCancelsFirst,
     DrainedBeforeClose, Open, Cancelled, Started
<1>2. ASSUME NEW i \in Instances,
             StartServer(i) \/ StartServerFails(i) \/ StopBegins(i)
      PROVE  IInv'
  BY <1>2, StartStep, StopBeginsStep
<1>3. ASSUME NEW i \in Instances, Boot(i) PROVE IInv'
  BY <1>3, LoadStep, StartupCancelledStep, ListenStep, EndStep, CloseReadyStep,
     ServeStep, ServeAfterShutdownStep, ServeReturnsStep DEF Boot
<1>4. ASSUME NEW i \in Instances, StopSteps(i) PROVE IInv'
  BY <1>4, ShutdownBeginsStep, ShutdownPollsStep, ShutdownTimesOutStep, CloseStep
     DEF StopSteps
<1>5. ASSUME NEW i \in Instances, Browse(i) PROVE IInv'
  BY <1>5, AcceptStep, ConnectionStep DEF Browse
<1> QED BY <1>1, <1>2, <1>3, <1>4, <1>5 DEF Next

LEMMA Invariance == Spec => []IInv
BY IInvInit, IInvNext, PTL DEF Spec

-----------------------------------------------------------------------------
\* Every variable keeps its type through every start and stop.
THEOREM TypeCorrect == Spec => []TypeOK
<1>1. IInv => TypeOK
  BY DEF IInv
<1> QED BY <1>1, Invariance, PTL

\* No handler works on a database Stop closed, except on the connections Stop
\* gave up waiting for.
THEOREM HandlersAreDrained == Spec => []DbOutlivesHandlers
<1>1. IInv => DbOutlivesHandlers
  <2> SUFFICES ASSUME IInv, NEW i \in Instances, NEW c \in Conns,
                      conn[i][c] = "active", "Db" \notin handles[i]
               PROVE  c \in cut[i]
    BY DEF DbOutlivesHandlers
  <2>1. c \in Open(i)
    BY DEF Open
  <2>2. Started(i)
    BY <2>1 DEF IInv, ListenerHandedOver, Started
  <2> QED BY <2>1, <2>2 DEF IInv, DrainedBeforeClose
<1> QED BY <1>1, Invariance, PTL

\* While the context is not cancelled, a closed ready channel means that the
\* instance holds the port, or that Serve has just lost it and is about to say so.
THEOREM ReadyIsTrue == Spec => []ReadyMeansListening
<1>1. IInv => ReadyMeansListening
  <2> SUFFICES ASSUME IInv, NEW i \in Instances, ready[i], ~Cancelled(i)
               PROVE  port = i \/ boot[i] = "finishErr"
    BY DEF ReadyMeansListening
  <2>1. boot[i] \in {"serve", "accept", "finishErr"}
    BY DEF IInv, ListenerHandedOver
  <2>2. ~shut[i]
    BY DEF IInv, StopCancelsFirst
  <2> QED BY <2>1, <2>2 DEF IInv, ListenerHandedOver
<1> QED BY <1>1, Invariance, PTL

\* A server that is shut down opens no connection, whatever the race between
\* Serve and Shutdown.
THEOREM NoServiceAfterStop == Spec => StoppedNeverServes
<1> DEFINE Refused == \A i \in Instances, c \in Conns :
             shut[i] /\ conn[i][c] = "closed" => conn'[i][c] = "closed"
<1>1. IInv /\ [Next]_serverVars => [Refused]_serverVars
  <2> SUFFICES ASSUME IInv, Next, NEW i \in Instances, NEW c \in Conns,
                      shut[i], conn[i][c] = "closed"
               PROVE  conn'[i][c] = "closed"
    OBVIOUS
  <2>1. PICK j \in Instances :
          \/ StartServer(j) \/ StartServerFails(j)
          \/ Boot(j) \/ StopBegins(j) \/ StopSteps(j) \/ Browse(j)
    BY DEF Next
  <2>2. CASE StartServer(j) \/ StartServerFails(j) \/ Boot(j) \/ StopBegins(j)
    BY <2>2 DEF StartServer, StartServerFails, StopBegins, Boot, LoadKnownFiles,
       LoadKnownFilesFails, StartupCancelled, CheckContext, Listen, ListenFails,
       CloseReady, Serve, ServeAfterShutdown, ServeReturns, Finish
  <2>3. CASE StopSteps(j)
    BY <2>3 DEF IInv, TypeOK, StopSteps, ShutdownBegins, ShutdownPolls, CloseIdle,
       ShutdownTimesOut, CloseDb, CloseCacheDb
  <2>4. CASE Browse(j)
    <3>1. PICK d \in Conns :
            Accept(j, d) \/ Request(j, d) \/ Respond(j, d) \/ Disconnect(j, d)
      BY <2>4 DEF Browse
    <3>2. CASE Accept(j, d)
      BY <3>2 DEF IInv, TypeOK, ListenerHandedOver, Accept
    <3>3. CASE Request(j, d) \/ Respond(j, d) \/ Disconnect(j, d)
      <4>1. conn[j][d] # "closed"
        BY <3>3 DEF Request, Respond, Disconnect
      <4>2. PICK x : conn' = [conn EXCEPT ![j][d] = x]
        BY <3>3 DEF Request, Respond, Disconnect
      <4>3. i # j \/ c # d
        BY <4>1
      <4>4. CASE i # j
        BY <4>2, <4>4 DEF IInv, TypeOK
      <4>5. CASE i = j /\ c # d
        BY <4>2, <4>5 DEF IInv, TypeOK
      <4> QED BY <4>3, <4>4, <4>5
    <3> QED BY <3>1, <3>2, <3>3
  <2> QED BY <2>1, <2>2, <2>3, <2>4
<1> QED BY <1>1, Invariance, PTL DEF Spec, StoppedNeverServes

\* The known files are published before the first connection and never while
\* one is open, so the handlers may read them without a lock.
THEOREM KnownFilesPublishedFirst == Spec => KnownFilesAreStable
<1> DEFINE Stable == \A i \in Instances : Open(i) # {} => known'[i] = known[i]
<1>1. IInv /\ [Next]_serverVars => [Stable]_serverVars
  <2> SUFFICES ASSUME IInv, Next, NEW i \in Instances, Open(i) # {}
               PROVE  known'[i] = known[i]
    OBVIOUS
  <2>1. PICK j \in Instances :
          \/ StartServer(j) \/ StartServerFails(j)
          \/ Boot(j) \/ StopBegins(j) \/ StopSteps(j) \/ Browse(j)
    BY DEF Next
  <2>2. CASE LoadKnownFiles(j)
    <3>1. boot[j] = "load" /\ boot[i] # "load"
      BY <2>2 DEF LoadKnownFiles, Goto, IInv, ListenerHandedOver
    <3> QED BY <2>2, <3>1 DEF LoadKnownFiles, IInv, TypeOK
  <2>3. CASE Boot(j) /\ ~LoadKnownFiles(j)
    BY <2>3 DEF Boot, LoadKnownFilesFails, StartupCancelled, CheckContext, Listen,
       ListenFails, CloseReady, Serve, ServeAfterShutdown, ServeReturns, Finish
  <2>4. CASE StartServer(j) \/ StartServerFails(j) \/ StopBegins(j)
    BY <2>4 DEF StartServer, StartServerFails, StopBegins
  <2>5. CASE StopSteps(j) \/ Browse(j)
    BY <2>5 DEF StopSteps, ShutdownBegins, ShutdownPolls, ShutdownTimesOut,
       CloseDb, CloseCacheDb, Browse, Accept, Request, Respond, Disconnect
  <2> QED BY <2>1, <2>2, <2>3, <2>4, <2>5
<1> QED BY <1>1, Invariance, PTL DEF Spec, KnownFilesAreStable

-----------------------------------------------------------------------------
(***************************************************************************)
(* The port.                                                               *)
(***************************************************************************)
PortInv == \A i \in Instances : port = i => boot[i] \in {"announce", "serve", "accept"}

LEMMA PortStep == IInv /\ PortInv /\ [Next]_serverVars => PortInv'
<1> SUFFICES ASSUME IInv, PortInv, [Next]_serverVars, NEW i \in Instances, port' = i
             PROVE  boot'[i] \in {"announce", "serve", "accept"}
  BY DEF PortInv
<1>1. None \notin Instances /\ boot \in [Instances -> BootPCs]
  BY LifecycleAssumption DEF None, Instances, IInv, TypeOK
<1>2. CASE UNCHANGED serverVars
  BY <1>2 DEF serverVars, PortInv
<1>3. ASSUME NEW j \in Instances, StartServer(j) \/ StartServerFails(j)
      PROVE  boot'[i] \in {"announce", "serve", "accept"}
  BY <1>1, <1>3 DEF StartServer, StartServerFails, Goto, PortInv
<1>4. ASSUME NEW j \in Instances, Boot(j)
      PROVE  boot'[i] \in {"announce", "serve", "accept"}
  <2>1. CASE LoadKnownFiles(j) \/ LoadKnownFilesFails(j) \/ StartupCancelled(j) \/ CheckContext(j)
             \/ ListenFails(j) \/ Finish(j)
    <3>1. port' = port /\ boot[j] \notin {"announce", "serve", "accept"}
      BY <2>1 DEF LoadKnownFiles, LoadKnownFilesFails, StartupCancelled, CheckContext,
                  ListenFails, Finish, Goto
    <3>2. boot' = [boot EXCEPT ![j] = boot'[j]]
      BY <1>1, <2>1 DEF LoadKnownFiles, LoadKnownFilesFails, StartupCancelled, CheckContext,
                        ListenFails, Finish, Goto
    <3> QED BY <1>1, <3>1, <3>2 DEF PortInv
  <2>2. CASE Listen(j) \/ CloseReady(j) \/ Serve(j)
    <3>1. (port' = port \/ port' = j) /\ boot'[j] \in {"announce", "serve", "accept"}
      BY <1>1, <2>2 DEF Listen, CloseReady, Serve, Goto
    <3>2. boot' = [boot EXCEPT ![j] = boot'[j]]
      BY <1>1, <2>2 DEF Listen, CloseReady, Serve, Goto
    <3> QED BY <1>1, <3>1, <3>2 DEF PortInv
  <2>3. CASE ServeAfterShutdown(j)
    BY <1>1, <2>3 DEF ServeAfterShutdown
  <2>4. CASE ServeReturns(j)
    BY <1>1, <2>4 DEF ServeReturns, Goto, PortInv
  <2> QED BY <1>4, <2>1, <2>2, <2>3, <2>4 DEF Boot
<1>5. ASSUME NEW j \in Instances, StopBegins(j) \/ StopSteps(j) \/ Browse(j)
      PROVE  boot'[i] \in {"announce", "serve", "accept"}
  <2>1. boot' = boot /\ port' \in {port, None}
    BY <1>5 DEF StopBegins, StopSteps, ShutdownBegins, ShutdownPolls, ShutdownTimesOut,
                CloseDb, CloseCacheDb, Browse, Accept, Request, Respond, Disconnect
  <2> QED BY <1>1, <2>1 DEF PortInv
<1> QED BY <1>2, <1>3, <1>4, <1>5 DEF Next

\* Whose the port is can be read off the goroutine and srv.inShutdown, wherever
\* Stop and the start have got to: from net.Listen until Shutdown takes it from
\* Serve or Serve closes it.  No goroutine ends with the port, and a Shutdown
\* that waits for Serve has taken it from Serve, which therefore returns: the
\* two never wait for each other (server.go:212-229, 233-241).  What is left
\* of StopReleasesThePort is that goroutines that can run do.
THEOREM PortIsAccountedFor ==
  Spec => [](\A i \in Instances :
               /\ port = i <=> \/ boot[i] \in {"announce", "serve"}
                               \/ boot[i] = "accept" /\ ~shut[i]
               /\ boot[i] = "ended" => port # i
               /\ stop[i] = "drain" /\ boot[i] = "accept" => port # i)
<1> DEFINE Accounted ==
             \A i \in Instances :
               /\ port = i <=> \/ boot[i] \in {"announce", "serve"}
                               \/ boot[i] = "accept" /\ ~shut[i]
               /\ boot[i] = "ended" => port # i
               /\ stop[i] = "drain" /\ boot[i] = "accept" => port # i
<1>1. Init => PortInv
  BY LifecycleAssumption DEF Init, PortInv, None, Instances
<1>2. IInv /\ PortInv => Accounted
  BY DEF IInv, PortInv, ListenerHandedOver, StopCancelsFirst
<1> QED BY <1>1, <1>2, PortStep, Invariance, PTL DEF Spec
=============================================================================
