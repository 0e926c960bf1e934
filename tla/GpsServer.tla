------------------------------ MODULE GpsServer ------------------------------
(***************************************************************************)
(* One listening port of the service: the accept loops, the connection     *)
(* handlers and the service-control goroutine that share one Server value. *)
(*                                                                         *)
(* An element of Loop is one call `go srv.ListenAndServe()`; it serves     *)
(* once. An element of Conn is one accepted TCP connection.  What handlers *)
(* do with a packet is the subject of GpsSession; here a handler reads,    *)
(* works and answers.                                                      *)
(***************************************************************************)
EXTENDS Integers, FiniteSets

CONSTANTS
    Loop,           \* accept-loop goroutines that may ever be started
    Conn,           \* connections that may ever be accepted
    NoConn,         \* a loop that holds no connection
    NoListener,     \* srv.listener before the first assignment (nil)
    CountForStop,   \* ticks before Shutdown closes the connections itself
    PortMayBeTaken, \* net.Listen may fail though none of our loops listens
    Prompt          \* a 500 ms tick comes after every runnable accept loop ran

ASSUME NamesAssumption == NoConn \notin Conn /\ NoListener \notin Loop
ASSUME CountAssumption == CountForStop \in Nat \ {0}
ASSUME SwitchAssumption == PortMayBeTaken \in BOOLEAN /\ Prompt \in BOOLEAN

VARIABLES
    inShutdown,     \* srv.inShutdown, read and written without srv.mu
    listener,       \* srv.listener
    open,           \* loops whose listening socket is open
    loopPc,         \* where each accept loop is
    accepted,       \* the connection an accept loop holds
    conns,          \* srv.conns
    mu,             \* srv.mu: "free" or "held"
    connPc,         \* where each connection's handler is
    closed,         \* connections whose socket this process closed
    ctlPc,          \* where the service-control goroutine is
    countForStop,   \* Shutdown's local counter
    todo,           \* entries the force-close iteration has still to visit
    after,          \* why Shutdown runs: "pause" or "stop"
    status,         \* the state last reported to the service manager
    proc            \* the process: "up", "stopped" or "crashed"

loopVars == <<open, loopPc, accepted>>
connVars == <<connPc, closed>>
ctlVars  == <<ctlPc, countForStop, todo, after, status>>
vars == <<inShutdown, listener, conns, mu, proc, loopVars, connVars, ctlVars>>

LoopPcs == {"unused", "start", "assign", "check", "drain", "accept",
            "register", "adding", "spawn", "return", "done"}
ConnPcs == {"unused", "accepted", "reading", "working",
            "closing", "deleting", "removing", "gone"}
CtlPcs  == {"idle", "restart", "flag", "close", "wait", "force", "exited"}

TypeOK ==
    /\ inShutdown \in BOOLEAN
    /\ listener \in Loop \cup {NoListener}
    /\ open \subseteq Loop
    /\ loopPc \in [Loop -> LoopPcs]
    /\ accepted \in [Loop -> Conn \cup {NoConn}]
    /\ conns \subseteq Conn
    /\ mu \in {"free", "held"}
    /\ connPc \in [Conn -> ConnPcs]
    /\ closed \subseteq Conn
    /\ ctlPc \in CtlPcs
    /\ countForStop \in -1 .. CountForStop
    /\ todo \subseteq Conn
    /\ after \in {"pause", "stop"}
    /\ status \in {"running", "paused", "stopped"}
    /\ proc \in {"up", "stopped", "crashed"}

\* initServer: one accept loop is started before the service reports Running.
Init ==
    /\ inShutdown = FALSE /\ listener = NoListener /\ open = {}
    /\ \E l \in Loop :
          loopPc = [k \in Loop |-> IF k = l THEN "start" ELSE "unused"]
    /\ accepted = [l \in Loop |-> NoConn]
    /\ conns = {} /\ mu = "free"
    /\ connPc = [c \in Conn |-> "unused"] /\ closed = {}
    /\ ctlPc = "idle" /\ countForStop = CountForStop /\ todo = {}
    /\ after = "pause" /\ status = "running" /\ proc = "up"

LoopGoes(l, from, to) ==
    /\ loopPc[l] = from
    /\ loopPc' = [loopPc EXCEPT ![l] = to]

ConnGoes(c, from, to) ==
    /\ connPc[c] = from
    /\ connPc' = [connPc EXCEPT ![c] = to]

-----------------------------------------------------------------------------
(* ListenAndServe.  A loop in "accept" is inside listen.Accept().          *)

\* The port is bound: no other loop may hold it.
Listen(l) ==
    /\ open = {}
    /\ LoopGoes(l, "start", "assign")
    /\ open' = {l}
    /\ UNCHANGED <<inShutdown, listener, accepted, conns, mu, proc,
                   connVars, ctlVars>>

\* The port is in use: the goroutine ends, srv.listener keeps its old value.
ListenFails(l) ==
    /\ open # {} \/ PortMayBeTaken
    /\ LoopGoes(l, "start", "done")
    /\ UNCHANGED <<inShutdown, listener, open, accepted, conns, mu, proc,
                   connVars, ctlVars>>

AssignListener(l) ==
    /\ LoopGoes(l, "assign", "check")
    /\ listener' = l
    /\ UNCHANGED <<inShutdown, open, accepted, conns, mu, proc,
                   connVars, ctlVars>>

CheckShutdown(l) ==
    /\ LoopGoes(l, "check", IF inShutdown THEN "drain" ELSE "accept")
    /\ UNCHANGED <<inShutdown, listener, open, accepted, conns, mu, proc,
                   connVars, ctlVars>>

\* Busy waiting: the flag is read again unless the last connection is gone.
Drain(l) ==
    /\ LoopGoes(l, "drain", IF conns = {} THEN "return" ELSE "check")
    /\ UNCHANGED <<inShutdown, listener, open, accepted, conns, mu, proc,
                   connVars, ctlVars>>

\* return, and the deferred listen.Close().
Return(l) ==
    /\ LoopGoes(l, "return", "done")
    /\ open' = open \ {l}
    /\ UNCHANGED <<inShutdown, listener, accepted, conns, mu, proc,
                   connVars, ctlVars>>

Accept(l, c) ==
    /\ l \in open
    /\ LoopGoes(l, "accept", "register")
    /\ ConnGoes(c, "unused", "accepted")
    /\ accepted' = [accepted EXCEPT ![l] = c]
    /\ UNCHANGED <<inShutdown, listener, open, conns, mu, proc, closed, ctlVars>>

\* Mutant: the error is logged without a continue, and what is registered is the
\* connection that Accept did not return.
BugAcceptError(l) ==
    /\ l \notin open
    /\ LoopGoes(l, "accept", IF inShutdown THEN "check" ELSE "register")
    /\ UNCHANGED <<inShutdown, listener, open, accepted, conns, mu, proc,
                   connVars, ctlVars>>

\* Accept on a closed listener; either branch of the handler goes round.
AcceptError(l) ==
    /\ l \notin open
    /\ LoopGoes(l, "accept", "check")
    /\ UNCHANGED <<inShutdown, listener, open, accepted, conns, mu, proc,
                   connVars, ctlVars>>

AddLock(l) ==
    /\ mu = "free"
    /\ LoopGoes(l, "register", "adding")
    /\ mu' = "held"
    /\ UNCHANGED <<inShutdown, listener, open, accepted, conns, proc,
                   connVars, ctlVars>>

\* Mutant: the connection is handed to its handler without being registered.
BugAddConn(l) ==
    /\ LoopGoes(l, "adding", "spawn")
    /\ mu' = "free"
    /\ UNCHANGED <<inShutdown, listener, open, accepted, conns, proc,
                   connVars, ctlVars>>

AddConn(l) ==
    /\ LoopGoes(l, "adding", "spawn")
    /\ conns' = conns \cup {accepted[l]}
    /\ mu' = "free"
    /\ UNCHANGED <<inShutdown, listener, open, accepted, proc,
                   connVars, ctlVars>>

\* SetDeadline and go srv.handle(conn).
Spawn(l) ==
    /\ LoopGoes(l, "spawn", "check")
    /\ connPc' = [connPc EXCEPT ![accepted[l]] = "reading"]
    /\ accepted' = [accepted EXCEPT ![l] = NoConn]
    /\ UNCHANGED <<inShutdown, listener, open, conns, mu, proc, closed, ctlVars>>

LoopStep(l) ==
    \/ Listen(l) \/ ListenFails(l) \/ AssignListener(l)
    \/ CheckShutdown(l) \/ Drain(l) \/ Return(l)
    \/ \E c \in Conn : Accept(l, c)
    \/ AcceptError(l) \/ AddLock(l) \/ AddConn(l) \/ Spawn(l)

-----------------------------------------------------------------------------
(* handle.                                                                 *)

\* conn.Read returns a packet.
Read(c) ==
    /\ c \notin closed
    /\ ConnGoes(c, "reading", "working")
    /\ UNCHANGED <<inShutdown, listener, loopVars, conns, mu, proc,
                   closed, ctlVars>>

\* The packet is parsed and the reply sent; a failed Send is ignored.
Reply(c) ==
    /\ ConnGoes(c, "working", "reading")
    /\ UNCHANGED <<inShutdown, listener, loopVars, conns, mu, proc,
                   closed, ctlVars>>

\* conn.Read fails: the client left, the idle deadline passed, or the socket
\* was closed by Shutdown.
ReadError(c) ==
    /\ ConnGoes(c, "reading", "closing")
    /\ UNCHANGED <<inShutdown, listener, loopVars, conns, mu, proc,
                   closed, ctlVars>>

CloseConn(c) ==
    /\ ConnGoes(c, "closing", "deleting")
    /\ closed' = closed \cup {c}
    /\ UNCHANGED <<inShutdown, listener, loopVars, conns, mu, proc, ctlVars>>

\* Mutant: deleteConn without srv.mu.Lock().
BugDeleteLock(c) ==
    /\ ConnGoes(c, "deleting", "removing")
    /\ mu' = "held"
    /\ UNCHANGED <<inShutdown, listener, loopVars, conns, proc, closed, ctlVars>>

DeleteLock(c) ==
    /\ mu = "free"
    /\ ConnGoes(c, "deleting", "removing")
    /\ mu' = "held"
    /\ UNCHANGED <<inShutdown, listener, loopVars, conns, proc, closed, ctlVars>>

DeleteConn(c) ==
    /\ ConnGoes(c, "removing", "gone")
    /\ conns' = conns \ {c}
    /\ mu' = "free"
    /\ UNCHANGED <<inShutdown, listener, loopVars, proc, closed, ctlVars>>

HandlerStep(c) ==
    \/ Read(c) \/ Reply(c) \/ ReadError(c)
    \/ CloseConn(c) \/ DeleteLock(c) \/ DeleteConn(c)

-----------------------------------------------------------------------------
(* Execute, stopServers, startServers and Shutdown: one goroutine.         *)

\* Paused is reported before anything is shut down.
RequestPause ==
    /\ ctlPc = "idle"
    /\ ctlPc' = "flag" /\ after' = "pause" /\ status' = "paused"
    /\ UNCHANGED <<inShutdown, listener, loopVars, conns, mu, proc,
                   connVars, countForStop, todo>>

RequestStop ==
    /\ ctlPc = "idle"
    /\ ctlPc' = "flag" /\ after' = "stop"
    /\ UNCHANGED <<inShutdown, listener, loopVars, conns, mu, proc,
                   connVars, countForStop, todo, status>>

\* Running is reported before the loop is started.  The guard bounds the
\* number of loops ever started by |Loop|.
RequestContinue ==
    /\ ctlPc = "idle"
    /\ \E l \in Loop : loopPc[l] = "unused"
    /\ ctlPc' = "restart" /\ status' = "running"
    /\ UNCHANGED <<inShutdown, listener, loopVars, conns, mu, proc,
                   connVars, countForStop, todo, after>>

\* Mutant: the loop is started with inShutdown still set.
BugStartServers ==
    /\ ctlPc = "restart" /\ ctlPc' = "idle"
    /\ \E l \in Loop : LoopGoes(l, "unused", "start")
    /\ UNCHANGED <<inShutdown, listener, open, accepted, conns, mu, proc,
                   connVars, countForStop, todo, after, status>>

StartServers ==
    /\ ctlPc = "restart" /\ ctlPc' = "idle"
    /\ inShutdown' = FALSE
    /\ \E l \in Loop : LoopGoes(l, "unused", "start")
    /\ UNCHANGED <<listener, open, accepted, conns, mu, proc,
                   connVars, countForStop, todo, after, status>>

SetFlag ==
    /\ ctlPc = "flag" /\ ctlPc' = "close"
    /\ countForStop' = CountForStop
    /\ inShutdown' = TRUE
    /\ UNCHANGED <<listener, loopVars, conns, mu, proc,
                   connVars, todo, after, status>>

\* Mutant: Shutdown only sets the flag and leaves the listener open.
BugCloseListener ==
    /\ ctlPc = "close" /\ listener # NoListener
    /\ ctlPc' = "wait"
    /\ UNCHANGED <<inShutdown, listener, loopVars, conns, mu, proc,
                   connVars, countForStop, todo, after, status>>

\* srv.listener.Close(); closing it a second time is an ignored error.
CloseListener ==
    /\ ctlPc = "close" /\ listener # NoListener
    /\ ctlPc' = "wait"
    /\ open' = open \ {listener}
    /\ UNCHANGED <<inShutdown, listener, loopPc, accepted, conns, mu, proc,
                   connVars, countForStop, todo, after, status>>

\* srv.listener is nil: the method call panics and nothing recovers it.
CloseNilListener ==
    /\ ctlPc = "close" /\ listener = NoListener
    /\ proc' = "crashed"
    /\ UNCHANGED <<inShutdown, listener, loopVars, conns, mu,
                   connVars, ctlVars>>

\* A loop that is ended, blocked in Accept, or spinning on live connections.
Settled(l) ==
    \/ loopPc[l] \in {"unused", "done"}
    \/ loopPc[l] = "accept" /\ l \in open
    \/ loopPc[l] \in {"check", "drain"} /\ inShutdown /\ conns # {}

TickComes == ctlPc = "wait" /\ (Prompt => \A l \in Loop : Settled(l))

\* Mutant: closing every socket is taken for the end of every handler.
BugShutdownReturns ==
    /\ TickComes /\ conns \subseteq closed
    /\ ctlPc' = IF after = "stop" THEN "exited" ELSE "idle"
    /\ status' = IF after = "stop" THEN "stopped" ELSE status
    /\ proc' = IF after = "stop" THEN "stopped" ELSE proc
    /\ UNCHANGED <<inShutdown, listener, loopVars, conns, mu,
                   connVars, countForStop, todo, after>>

\* len(srv.conns) = 0 at a tick: Shutdown returns, and Execute goes back to
\* its requests or, after Stop, ends the process.
ShutdownReturns ==
    /\ TickComes /\ conns = {}
    /\ ctlPc' = IF after = "stop" THEN "exited" ELSE "idle"
    /\ status' = IF after = "stop" THEN "stopped" ELSE status
    /\ proc' = IF after = "stop" THEN "stopped" ELSE proc
    /\ UNCHANGED <<inShutdown, listener, loopVars, conns, mu,
                   connVars, countForStop, todo, after>>

\* The code counts on below 0, where it is never compared equal to 0 again: -1
\* stands for all those values.
KeepWaiting ==
    /\ TickComes /\ conns # {}
    /\ countForStop' = IF countForStop = -1 THEN -1 ELSE countForStop - 1
    /\ IF countForStop' = 0
          THEN ctlPc' = "force" /\ todo' = conns
          ELSE UNCHANGED <<ctlPc, todo>>
    /\ UNCHANGED <<inShutdown, listener, loopVars, conns, mu, proc,
                   connVars, after, status>>

\* Mutant: the connections are visited but not closed.
BugForceClose(c) ==
    /\ ctlPc = "force" /\ c \in conns \cap todo
    /\ todo' = todo \ {c}
    /\ UNCHANGED <<inShutdown, listener, loopVars, conns, mu, proc, connVars,
                   ctlPc, countForStop, after, status>>

\* One round of `for c := range srv.conns`: entries deleted before they are
\* reached are not visited, entries added meanwhile may be.
ForceClose(c) ==
    /\ ctlPc = "force"
    /\ c \in conns /\ (c \in todo \/ c \notin closed)
    /\ closed' = closed \cup {c}
    /\ todo' = todo \ {c}
    /\ UNCHANGED <<inShutdown, listener, loopVars, conns, mu, proc, connPc,
                   ctlPc, countForStop, after, status>>

\* The iteration does not hold srv.mu: met with a writer inside addConn or
\* deleteConn the runtime may throw "concurrent map iteration and map write".
ForceThrows ==
    /\ ctlPc = "force" /\ mu = "held"
    /\ proc' = "crashed"
    /\ UNCHANGED <<inShutdown, listener, loopVars, conns, mu,
                   connVars, ctlVars>>

ForceDone ==
    /\ ctlPc = "force" /\ todo \cap conns = {}
    /\ ctlPc' = "wait" /\ todo' = {}
    /\ UNCHANGED <<inShutdown, listener, loopVars, conns, mu, proc,
                   connVars, countForStop, after, status>>

ShutdownStep ==
    \/ StartServers \/ SetFlag \/ CloseListener \/ CloseNilListener
    \/ ShutdownReturns \/ KeepWaiting
    \/ \E c \in Conn : ForceClose(c)
    \/ ForceThrows \/ ForceDone

ControlStep == RequestPause \/ RequestStop \/ RequestContinue \/ ShutdownStep

-----------------------------------------------------------------------------
\* A process that has ended takes no step.
Halted == proc # "up" /\ UNCHANGED vars

Next ==
    \/ /\ proc = "up"
       /\ \/ \E l \in Loop : LoopStep(l)
          \/ \E c \in Conn : HandlerStep(c)
          \/ ControlStep
    \/ Halted

(* Goroutines run until they block: every loop, every handler and the      *)
(* control goroutine are scheduled fairly, and Go's mutex hands the lock   *)
(* over eventually (a waiter starves no longer than 1 ms).  Requests,      *)
(* clients and the idle deadline owe nothing: a handler is certain to      *)
(* leave conn.Read only when its socket was closed.                        *)
Up(A) == proc = "up" /\ A
Fairness ==
    /\ \A l \in Loop :
          /\ WF_vars(Up(Listen(l) \/ ListenFails(l) \/ AssignListener(l)
                        \/ CheckShutdown(l) \/ Drain(l) \/ Return(l)
                        \/ AcceptError(l) \/ AddConn(l) \/ Spawn(l)))
          /\ SF_vars(Up(AddLock(l)))
    /\ \A c \in Conn :
          /\ WF_vars(Up(Reply(c) \/ CloseConn(c) \/ DeleteConn(c)))
          /\ WF_vars(Up(c \in closed /\ ReadError(c)))
          /\ SF_vars(Up(DeleteLock(c)))
    /\ WF_vars(Up(ShutdownReturns \/ KeepWaiting))
    /\ WF_vars(Up(StartServers \/ SetFlag \/ CloseListener \/ CloseNilListener
                  \/ ForceDone \/ \E c \in Conn : ForceClose(c)))

Spec == Init /\ [][Next]_vars
FairSpec == Spec /\ Fairness

-----------------------------------------------------------------------------
Live(c) == connPc[c] \in {"reading", "working", "closing", "deleting", "removing"}
Ended(c) == connPc[c] \in {"unused", "gone"}

\* The connection table is exactly the handlers that run and the connections
\* about to get one (addConn before `go handle`, deleteConn last): a handler
\* missing here is cut off by Shutdown, an entry left behind hangs it.
Registered ==
    \A c \in Conn :
        c \in conns <=>
            Live(c) \/ \E l \in Loop : loopPc[l] = "spawn" /\ accepted[l] = c

\* addConn and deleteConn never write the map at the same time: srv.mu is
\* free when nobody is between its Lock and Unlock and held by one otherwise.
OneWriter ==
    LET adders == {l \in Loop : loopPc[l] = "adding"}
        removers == {c \in Conn : connPc[c] = "removing"}
    IN  /\ mu = "free" => adders = {} /\ removers = {}
        /\ adders = {} \/ removers = {}
        /\ \A k, l \in adders : k = l
        /\ \A c, d \in removers : c = d

\* From the moment Shutdown closed the listener until Continue clears the
\* flag no connection is accepted, however accept loops and requests interleave.
NoNewClients ==
    [][inShutdown /\ inShutdown' /\ ctlPc # "close" =>
          \A c \in Conn : connPc[c] = "unused" => connPc'[c] = "unused"]_vars

\* The inductive strengthening of the invariants (proved in GpsServerProofs).
\* Who holds a connection between Accept and `go handle`:
HoldsConn ==
    /\ \A l \in Loop :
          IF loopPc[l] \in {"register", "adding", "spawn"}
             THEN accepted[l] \in Conn /\ connPc[accepted[l]] = "accepted"
             ELSE accepted[l] = NoConn
    /\ \A c \in Conn : connPc[c] = "accepted" => \E l \in Loop : accepted[l] = c
    /\ \A k, l \in Loop : accepted[k] = accepted[l] => k = l \/ accepted[k] = NoConn

\* One loop at most listens, and srv.listener is its socket once assigned:
OneListener ==
    /\ \A k, l \in open : k = l
    /\ \A l \in open :
          /\ loopPc[l] \notin {"unused", "start", "done"}
          /\ loopPc[l] = "assign" \/ listener = l
    /\ \A l \in Loop : loopPc[l] = "assign" => l \in open
    /\ \A l \in Loop : listener = l => loopPc[l] \notin {"unused", "start", "assign"}

\* After Shutdown closed the listener no loop waits in Accept on an open socket:
GateClosed ==
    /\ ctlPc \in {"close", "wait", "force"} => inShutdown
    /\ ctlPc = "restart" => status = "running"
    /\ inShutdown /\ ctlPc # "close" =>
          \A l \in open : loopPc[l] # "accept"

\* The process ends after Stop only when every handler has finished: no
\* request is cut off half way.
StopIsGraceful == proc = "stopped" => \A c \in Conn : Ended(c)

\* When Execute goes back to its requests after Pause nothing of the server
\* is left: no socket, no handler, and no accept loop that Continue would wake.
PauseIsQuiet ==
    status = "paused" /\ ctlPc = "idle" =>
        /\ open = {} /\ conns = {}
        /\ \A c \in Conn : Ended(c)
        /\ \A l \in Loop : loopPc[l] \in {"unused", "done"}

\* A paused server stays that quiet until the flag is cleared, also while the
\* next request is taken up:
QuietUntilCleared ==
    inShutdown /\ ctlPc \in {"idle", "flag", "restart"} =>
        /\ open = {} /\ conns = {}
        /\ \A c \in Conn : Ended(c)
        /\ \A l \in Loop : loopPc[l] \in {"unused", "done"}

\* A server that is told to run listens, unless it is told to stop again:
\* the loop started by Continue gets the port its predecessor held.
ServesAgain ==
    ctlPc = "idle" /\ status = "running" ~>
        \/ \E l \in open : loopPc[l] = "accept"
        \/ status # "running" \/ ctlPc \in {"flag", "close"} \/ proc # "up"

\* The gate this server is (module Gate).  Someone is inside from Accept until
\* the entry is deleted.  The gate is open until Shutdown has closed the
\* listener, but between the flag and that only a living loop can still accept.
Asked ==
    CASE proc = "crashed"    -> "crashed"
      [] proc = "stopped"    -> "stopped"
      [] ctlPc = "idle"      -> "none"
      [] ctlPc = "restart"   -> "resume"
      [] OTHER               -> after
LetsIn ==
    /\ ctlPc \notin {"wait", "force"}
    /\ IF ctlPc = "close" THEN \E l \in Loop : loopPc[l] \notin {"unused", "done"}
                          ELSE ~inShutdown
AtGate == {c \in Conn : ~Ended(c)}
Abstract ==
    INSTANCE Gate WITH Client <- Conn, ask <- Asked, serving <- LetsIn,
                       inside <- AtGate

\* Under Prompt the loops, the handlers and the control goroutine together are
\* the gate: nobody is let in behind it, and Shutdown reports back when the last
\* client has left, not before.
ImplementsGate == Abstract!Spec

\* The gate closes when it is asked to, sees off every client inside one by one,
\* and opens again: what Service relies on.
GateMovesOn == Abstract!Fairness

\* Closing a server whose accept loop has ended (its port was taken) does not
\* bring the process and the other ports' servers down (server.go:134).
ShutdownSurvivesListenFailure ==
    (\A l \in Loop : loopPc[l] \in {"unused", "done"}) =>
        ~(ctlPc = "close" /\ proc = "crashed")

\* The forced closing of the connections runs to its end (server.go:156).
ForceCloseCompletes == ~(ctlPc = "force" /\ proc = "crashed")
=============================================================================
