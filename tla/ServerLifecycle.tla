--------------------------- MODULE ServerLifecycle ---------------------------
(***************************************************************************)
(* Starting and stopping the web server: StartServer, the goroutine it     *)
(* leaves behind, and Controller.Stop (internal/server/server.go), with    *)
(* the parts of net/http they lean on.                                     *)
(*                                                                         *)
(* A process may start several servers one after the other (the GUI does), *)
(* so there is one instance per call of StartServer, all of them after the *)
(* same listening port.  Stop may run at any moment of the goroutine's     *)
(* start: while it loads the known files, between its last look at the     *)
(* context and net.Listen, or between net.Listen and srv.Serve.            *)
(***************************************************************************)
EXTENDS Naturals

CONSTANTS
  Servers,   \* how many times StartServer is called
  Conns      \* connections a browser may open to one instance

ASSUME LifecycleAssumption == Servers \in Nat

\* The calls of StartServer, in the order in which they are made.
Instances == 1..Servers
None == 0

VARIABLES
  boot,      \* boot[i]: where StartServer and its goroutine are
  cause,     \* cause[i]: context.Cause(ctrl.ctx); "none" while not cancelled
  ready,     \* ready[i]: the channel ctrl.ready is closed
  known,     \* known[i]: app.KnownFilePaths has been published
  port,      \* which instance holds the listening socket
  shut,      \* shut[i]: srv.inShutdown
  stop,      \* stop[i]: where the latest call of ctrl.Stop is
  stopErr,   \* stopErr[i]: Stop's firstErr is not nil
  cut,       \* history: cut[i] are the connections Shutdown gave up on
  handles,   \* handles[i]: the database handles that are open
  conn       \* conn[i][c]: net/http's state of the connection

serverVars ==
  <<boot, cause, ready, known, port, shut, stop, stopErr, cut,
    handles, conn>>

BootPCs == {"off", "failed", "load", "check", "listen", "announce", "serve",
            "accept", "finish", "finishErr", "ended"}
Causes == {"none", "canceled", "listen", "serve"}
StopPCs == {"idle", "shutdown", "drain", "closeDb", "closeCacheDb", "returned"}
ConnStates == {"closed", "new", "active", "idle"}
Handles == {"Db", "CacheDb"}

Cancelled(i) == cause[i] # "none"
\* A controller was returned for i.
Started(i) == boot[i] \notin {"off", "failed"}

Open(i) == {c \in Conns : conn[i][c] # "closed"}
Handling(i) == {c \in Conns : conn[i][c] = "active"}

\* cancel(err): only the first call of a context's cancel function counts.
Cancel(i, c) ==
  cause' = [cause EXCEPT ![i] = IF Cancelled(i) THEN @ ELSE c]

Goto(i, from, to) == boot[i] = from /\ boot' = [boot EXCEPT ![i] = to]

Init ==
  /\ boot = [i \in Instances |-> "off"]
  /\ cause = [i \in Instances |-> "none"]
  /\ ready = [i \in Instances |-> FALSE]
  /\ known = [i \in Instances |-> FALSE]
  /\ port = None
  /\ shut = [i \in Instances |-> FALSE]
  /\ stop = [i \in Instances |-> "idle"]
  /\ stopErr = [i \in Instances |-> FALSE]
  /\ cut = [i \in Instances |-> {}]
  /\ handles = [i \in Instances |-> {}]
  /\ conn = [i \in Instances |-> [c \in Conns |-> "closed"]]

-----------------------------------------------------------------------------
(***************************************************************************)
(* StartServer, as far as its caller's goroutine runs it.  The optional    *)
(* read-write handle is left out: no step looks at it, and Stop does not   *)
(* close it.                                                               *)
(***************************************************************************)
NextToStart(i) == \A j \in 1..(i - 1) : boot[j] # "off"

StartServer(i) ==
  /\ NextToStart(i)
  /\ Goto(i, "off", "load")
  /\ handles' = [handles EXCEPT ![i] = Handles]
  /\ UNCHANGED <<cause, ready, known, port, shut, stop, stopErr, cut, conn>>

\* GetDb, initDB, the schema check or GetCacheDb fails.  A handle opened before
\* that is not closed.
StartServerFails(i) ==
  /\ NextToStart(i)
  /\ Goto(i, "off", "failed")
  /\ \E h \in {{}, {"Db"}} : handles' = [handles EXCEPT ![i] = h]
  /\ UNCHANGED <<cause, ready, known, port, shut, stop, stopErr, cut, conn>>

(***************************************************************************)
(* The goroutine.                                                          *)
(***************************************************************************)
\* Mutant: the log is loaded beside the start instead of before it.
LoadKnownFilesBeside(i) ==
  /\ Started(i) /\ ~known[i]
  /\ known' = [known EXCEPT ![i] = TRUE]
  /\ UNCHANGED <<boot, cause, ready, port, shut, stop, stopErr, cut, handles, conn>>

LoadKnownFiles(i) ==
  /\ ~Cancelled(i)
  /\ Goto(i, "load", "check")
  /\ known' = [known EXCEPT ![i] = TRUE]
  /\ UNCHANGED <<cause, ready, port, shut, stop, stopErr, cut, handles, conn>>

\* The log cannot be opened: the server runs without it.
LoadKnownFilesFails(i) ==
  /\ ~Cancelled(i)
  /\ Goto(i, "load", "check")
  /\ UNCHANGED <<cause, ready, known, port, shut, stop, stopErr, cut, handles, conn>>

\* Stop was called while the known files were loaded, or just after.
StartupCancelled(i) ==
  /\ Cancelled(i)
  /\ Goto(i, "load", "ended") \/ Goto(i, "check", "ended")
  /\ UNCHANGED <<cause, ready, known, port, shut, stop, stopErr, cut, handles, conn>>

\* Mutant: ready is announced before the listener is open.
CheckContextAnnounces(i) ==
  /\ ~Cancelled(i)
  /\ Goto(i, "check", "listen")
  /\ ready' = [ready EXCEPT ![i] = TRUE]
  /\ UNCHANGED <<cause, known, port, shut, stop, stopErr, cut, handles, conn>>

CheckContext(i) ==
  /\ ~Cancelled(i)
  /\ Goto(i, "check", "listen")
  /\ UNCHANGED <<cause, ready, known, port, shut, stop, stopErr, cut, handles, conn>>

Listen(i) ==
  /\ port = None
  /\ Goto(i, "listen", "announce")
  /\ port' = i
  /\ UNCHANGED <<cause, ready, known, shut, stop, stopErr, cut, handles, conn>>

\* The port is taken, by an instance that has not let go of it or by another
\* process, or the address is no good.
ListenFails(i) ==
  /\ Goto(i, "listen", "ended")
  /\ Cancel(i, "listen")
  /\ UNCHANGED <<ready, known, port, shut, stop, stopErr, cut, handles, conn>>

CloseReady(i) ==
  /\ Goto(i, "announce", "serve")
  /\ ready' = [ready EXCEPT ![i] = TRUE]
  /\ UNCHANGED <<cause, known, port, shut, stop, stopErr, cut, handles, conn>>

\* Mutant: the accept loop does not ask whether Shutdown came first.
ServeAnyway(i) ==
  /\ Goto(i, "serve", "accept")
  /\ UNCHANGED <<cause, ready, known, port, shut, stop, stopErr, cut, handles, conn>>

\* srv.Serve registers the listener, unless Shutdown came first.
Serve(i) ==
  /\ ~shut[i]
  /\ Goto(i, "serve", "accept")
  /\ UNCHANGED <<cause, ready, known, port, shut, stop, stopErr, cut, handles, conn>>

\* Mutant: the listener that came too late is not closed.
ServeAfterShutdownLeaks(i) ==
  /\ shut[i]
  /\ Goto(i, "serve", "finish")
  /\ UNCHANGED <<cause, ready, known, port, shut, stop, stopErr, cut, handles, conn>>

ServeAfterShutdown(i) ==
  /\ shut[i]
  /\ Goto(i, "serve", "finish")
  /\ port' = None
  /\ UNCHANGED <<cause, ready, known, shut, stop, stopErr, cut, handles, conn>>

\* Accept fails because Shutdown closed the listener, or by itself.
ServeReturns(i) ==
  /\ boot[i] = "accept"
  /\ \/ port # i /\ Goto(i, "accept", "finish") /\ UNCHANGED port
     \/ port = i /\ Goto(i, "accept", "finishErr") /\ port' = None
  /\ UNCHANGED <<cause, ready, known, shut, stop, stopErr, cut, handles, conn>>

Finish(i) ==
  /\ \/ Goto(i, "finish", "ended") /\ Cancel(i, "canceled")
     \/ Goto(i, "finishErr", "ended") /\ Cancel(i, "serve")
  /\ UNCHANGED <<ready, known, port, shut, stop, stopErr, cut, handles, conn>>

-----------------------------------------------------------------------------
(***************************************************************************)
(* Controller.Stop, called on a controller StartServer returned, possibly  *)
(* more than once but not by two goroutines at a time.                     *)
(***************************************************************************)
StopBegins(i) ==
  /\ Started(i)
  /\ stop[i] \in {"idle", "returned"}
  /\ Cancel(i, "canceled")
  /\ stop' = [stop EXCEPT ![i] = "shutdown"]
  /\ stopErr' = [stopErr EXCEPT ![i] = FALSE]
  /\ UNCHANGED <<boot, ready, known, port, shut, cut, handles, conn>>

\* Mutant: Stop does not wait for the requests in progress.
ShutdownWithoutDrain(i) ==
  /\ stop[i] = "shutdown"
  /\ shut' = [shut EXCEPT ![i] = TRUE]
  /\ port' = IF boot[i] = "accept" /\ port = i THEN None ELSE port
  /\ stop' = [stop EXCEPT ![i] = "closeDb"]
  /\ UNCHANGED <<boot, cause, ready, known, stopErr, cut, handles, conn>>

\* srv.Shutdown: mark the server, close the listener if Serve registered it.
ShutdownBegins(i) ==
  /\ stop[i] = "shutdown"
  /\ shut' = [shut EXCEPT ![i] = TRUE]
  /\ port' = IF boot[i] = "accept" /\ port = i THEN None ELSE port
  /\ stop' = [stop EXCEPT ![i] = "drain"]
  /\ UNCHANGED <<boot, cause, ready, known, stopErr, cut, handles, conn>>

\* Shutdown waits for Serve to return, then closes the idle connections over
\* and over until none is left.  A connection that has sent nothing counts as
\* idle once it is five seconds old.
CloseIdle(i) ==
  {cs \in [Conns -> ConnStates] :
     \A c \in Conns :
       \/ cs[c] = "closed" /\ conn[i][c] \in {"idle", "new", "closed"}
       \/ cs[c] = conn[i][c] /\ conn[i][c] \in {"new", "active"}}

ShutdownPolls(i) ==
  /\ stop[i] = "drain" /\ boot[i] # "accept"
  /\ \E cs \in CloseIdle(i) :
       /\ conn' = [conn EXCEPT ![i] = cs]
       /\ stop' = [stop EXCEPT ![i] =
                     IF \A c \in Conns : cs[c] = "closed"
                     THEN "closeDb" ELSE "drain"]
  /\ UNCHANGED <<boot, cause, ready, known, port, shut, stopErr, cut, handles>>

\* Mutant: Stop gives up where Shutdown fails, like an early return.
ShutdownTimesOutEarly(i) ==
  /\ stop[i] = "drain" /\ boot[i] # "accept"
  /\ Open(i) # {}
  /\ cut' = [cut EXCEPT ![i] = @ \union Open(i)]
  /\ stopErr' = [stopErr EXCEPT ![i] = TRUE]
  /\ stop' = [stop EXCEPT ![i] = "error"]
  /\ UNCHANGED <<boot, cause, ready, known, port, shut, handles, conn>>

\* The context Stop was given expires (two seconds in both GUIs).
ShutdownTimesOut(i) ==
  /\ stop[i] = "drain" /\ boot[i] # "accept"
  /\ Open(i) # {}
  /\ cut' = [cut EXCEPT ![i] = @ \union Open(i)]
  /\ stopErr' = [stopErr EXCEPT ![i] = TRUE]
  /\ stop' = [stop EXCEPT ![i] = "closeDb"]
  /\ UNCHANGED <<boot, cause, ready, known, port, shut, handles, conn>>

CloseDb(i) ==
  /\ stop[i] = "closeDb"
  /\ handles' = [handles EXCEPT ![i] = @ \ {"Db"}]
  /\ stop' = [stop EXCEPT ![i] = "closeCacheDb"]
  /\ UNCHANGED <<boot, cause, ready, known, port, shut, stopErr, cut, conn>>

CloseCacheDb(i) ==
  /\ stop[i] = "closeCacheDb"
  /\ handles' = [handles EXCEPT ![i] = @ \ {"CacheDb"}]
  /\ stop' = [stop EXCEPT ![i] = "returned"]
  /\ UNCHANGED <<boot, cause, ready, known, port, shut, stopErr, cut, conn>>

-----------------------------------------------------------------------------
(***************************************************************************)
(* Browsers and the goroutine per connection.                              *)
(***************************************************************************)
Accept(i, c) ==
  /\ boot[i] = "accept" /\ port = i
  /\ conn[i][c] = "closed"
  /\ conn' = [conn EXCEPT ![i][c] = "new"]
  /\ UNCHANGED <<boot, cause, ready, known, port, shut, stop, stopErr, cut, handles>>

Request(i, c) ==
  /\ conn[i][c] \in {"new", "idle"}
  /\ conn' = [conn EXCEPT ![i][c] = "active"]
  /\ UNCHANGED <<boot, cause, ready, known, port, shut, stop, stopErr, cut, handles>>

\* The handler returns; keep-alive ends once the server is shutting down.
Respond(i, c) ==
  /\ conn[i][c] = "active"
  /\ conn' = [conn EXCEPT ![i][c] = IF shut[i] THEN "closed" ELSE "idle"]
  /\ UNCHANGED <<boot, cause, ready, known, port, shut, stop, stopErr, cut, handles>>

Disconnect(i, c) ==
  /\ conn[i][c] \in {"new", "idle"}
  /\ conn' = [conn EXCEPT ![i][c] = "closed"]
  /\ UNCHANGED <<boot, cause, ready, known, port, shut, stop, stopErr, cut, handles>>

-----------------------------------------------------------------------------
Boot(i) ==
  \/ LoadKnownFiles(i) \/ LoadKnownFilesFails(i) \/ StartupCancelled(i)
  \/ CheckContext(i) \/ Listen(i) \/ ListenFails(i) \/ CloseReady(i)
  \/ Serve(i) \/ ServeAfterShutdown(i) \/ ServeReturns(i) \/ Finish(i)

StopSteps(i) ==
  \/ ShutdownBegins(i) \/ ShutdownPolls(i) \/ ShutdownTimesOut(i)
  \/ CloseDb(i) \/ CloseCacheDb(i)

Browse(i) ==
  \E c \in Conns :
    Accept(i, c) \/ Request(i, c) \/ Respond(i, c) \/ Disconnect(i, c)

Next ==
  \E i \in Instances :
    \/ StartServer(i) \/ StartServerFails(i)
    \/ Boot(i) \/ StopBegins(i) \/ StopSteps(i) \/ Browse(i)

Spec == Init /\ [][Next]_serverVars

\* Goroutines that can run do; nothing makes Accept fail while the listener is
\* open, and browsers owe nothing.
BootGoesOn(i) == Boot(i) /\ ~(boot[i] = "accept" /\ port = i)

FairSpec ==
  /\ Spec
  /\ \A i \in Instances : /\ WF_serverVars(BootGoesOn(i))
                          /\ WF_serverVars(StopSteps(i))

-----------------------------------------------------------------------------
TypeOK ==
  /\ boot \in [Instances -> BootPCs]
  /\ cause \in [Instances -> Causes]
  /\ ready \in [Instances -> BOOLEAN]
  /\ known \in [Instances -> BOOLEAN]
  /\ port \in Instances \union {None}
  /\ shut \in [Instances -> BOOLEAN]
  /\ stop \in [Instances -> StopPCs]
  /\ stopErr \in [Instances -> BOOLEAN]
  /\ cut \in [Instances -> SUBSET Conns]
  /\ handles \in [Instances -> SUBSET Handles]
  /\ conn \in [Instances -> [Conns -> ConnStates]]

\* Once Stop has called Shutdown, no connection is accepted any more: not even
\* by a goroutine that was between its last look at the context and srv.Serve
\* and opens the port after Stop has returned.
StoppedNeverServes ==
  [][\A i \in Instances, c \in Conns :
       shut[i] /\ conn[i][c] = "closed" => conn'[i][c] = "closed"]_serverVars

\* A handler can find the database closed under it only on a connection that
\* Stop gave up waiting for: a Stop that returns without an error closed the
\* database after the last handler, whatever the start was doing meanwhile.
DbOutlivesHandlers ==
  \A i \in Instances, c \in Conns :
    conn[i][c] = "active" /\ "Db" \notin handles[i] => c \in cut[i]

\* What ctrl.Ready() announces: the port is held until the server is done.
ReadyMeansListening ==
  \A i \in Instances :
    ready[i] /\ ~Cancelled(i) => port = i \/ boot[i] = "finishErr"

\* app.KnownFilePaths is written without a lock: no handler runs before or
\* while it is published.
KnownFilesAreStable ==
  [][\A i \in Instances : Open(i) # {} => known'[i] = known[i]]_serverVars

\* Once Stop is called it returns, the goroutine ends, and the port is free for
\* the next start, wherever the start had got to.
StopReleasesThePort ==
  \A i \in Instances :
    stop[i] = "shutdown" ~>
      stop[i] = "returned" /\ boot[i] = "ended" /\ port # i

-----------------------------------------------------------------------------
(***************************************************************************)
(* The inductive invariant behind the safety properties.  Serve and        *)
(* Shutdown race for the listener, and whichever comes second sees what    *)
(* the other did; so a server that is shut down never accepts on an open   *)
(* port, and once its Stop is past the wait for Serve and for the          *)
(* handlers, the only connections left are those it gave up on.            *)
(***************************************************************************)
ListenerHandedOver ==
  \A i \in Instances :
    /\ Open(i) # {} => boot[i] \in {"accept", "finish", "finishErr", "ended"}
    /\ boot[i] \in {"announce", "serve"} => port = i
    /\ boot[i] = "accept" => (port = i <=> ~shut[i])
    /\ boot[i] \in {"finish", "ended"} => Cancelled(i)
    /\ ready[i] => boot[i] \in {"serve", "accept", "finish", "finishErr", "ended"}

StopCancelsFirst ==
  \A i \in Instances :
    /\ stop[i] # "idle" => Started(i) /\ Cancelled(i)
    /\ shut[i] => stop[i] # "idle"
    /\ stop[i] \in {"drain", "closeDb", "closeCacheDb", "returned"} => shut[i]

DrainedBeforeClose ==
  \A i \in Instances :
    (\/ stop[i] \in {"closeDb", "closeCacheDb", "returned"}
     \/ Started(i) /\ "Db" \notin handles[i])
    => shut[i] /\ boot[i] # "accept" /\ Open(i) \subseteq cut[i]

IInv ==
  TypeOK /\ ListenerHandedOver /\ StopCancelsFirst /\ DrainedBeforeClose
=============================================================================
