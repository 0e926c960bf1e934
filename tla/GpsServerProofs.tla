--------------------------- MODULE GpsServerProofs ---------------------------
(***************************************************************************)
(* The safety of one server for any number of accept loops and             *)
(* connections.  Inv is inductive: which goroutine holds a connection,     *)
(* which listener is open and who writes the table belong together.        *)
(***************************************************************************)
EXTENDS GpsServer, TLAPS

\* What the three graceful-end facts need: a tick at which no accept loop is
\* between two blocking points.
Graceful ==
    Prompt => StopIsGraceful /\ PauseIsQuiet /\ QuietUntilCleared

Inv == /\ TypeOK /\ HoldsConn /\ Registered /\ OneWriter
       /\ OneListener /\ GateClosed /\ Graceful

USE NamesAssumption, CountAssumption, SwitchAssumption

\* The initial state satisfies the inductive invariant.
LEMMA InitInv == Init => Inv
<1> SUFFICES ASSUME Init PROVE Inv
  OBVIOUS
<1> USE DEF Init
<1>0. PICK l \in Loop :
         loopPc = [k \in Loop |-> IF k = l THEN "start" ELSE "unused"]
  OBVIOUS
<1>1. TypeOK
  <2>1. loopPc \in [Loop -> LoopPcs]
    BY <1>0 DEF LoopPcs
  <2>2. connPc \in [Conn -> ConnPcs] /\ ctlPc \in CtlPcs
    BY DEF ConnPcs, CtlPcs
  <2>3. accepted \in [Loop -> Conn \cup {NoConn}]
    OBVIOUS
  <2>4. countForStop \in -1 .. CountForStop
    OBVIOUS
  <2> QED BY <2>1, <2>2, <2>3, <2>4 DEF TypeOK
<1>2. HoldsConn
  BY <1>0 DEF HoldsConn
<1>3. Registered
  BY <1>0 DEF Registered, Live
<1>4. OneWriter
  BY <1>0 DEF OneWriter
<1>5. OneListener
  BY <1>0 DEF OneListener
<1>6. GateClosed /\ Graceful
  BY DEF GateClosed, Graceful, StopIsGraceful, PauseIsQuiet, QuietUntilCleared, Ended
<1> QED BY <1>1, <1>2, <1>3, <1>4, <1>5, <1>6 DEF Inv

\* Every step keeps the inductive invariant.
LEMMA NextInv == Inv /\ [Next]_vars => Inv'
<1> SUFFICES ASSUME Inv, [Next]_vars PROVE Inv'
  OBVIOUS
<1> USE DEF Inv, TypeOK, HoldsConn, Registered, OneWriter, OneListener,
    GateClosed, Graceful, StopIsGraceful, PauseIsQuiet, QuietUntilCleared, Live, Ended,
    LoopPcs, ConnPcs, CtlPcs, loopVars, connVars, ctlVars, LoopGoes, ConnGoes
<1>1. ASSUME proc = "up", NEW l \in Loop, Listen(l) PROVE Inv'
  \* open was empty, so l is the only listener; it has not assigned srv.listener yet
  <2>1. OneListener'
    BY <1>1 DEF Listen
  <2>2. TypeOK' /\ HoldsConn' /\ Registered' /\ OneWriter'
    BY <1>1 DEF Listen
  <2>3. GateClosed' /\ Graceful'
    BY <1>1 DEF Listen
  <2> QED BY <2>1, <2>2, <2>3
<1>2. ASSUME proc = "up", NEW l \in Loop, ListenFails(l) PROVE Inv'
  BY <1>2 DEF ListenFails
<1>3. ASSUME proc = "up", NEW l \in Loop, AssignListener(l) PROVE Inv'
  BY <1>3 DEF AssignListener
<1>4. ASSUME proc = "up", NEW l \in Loop, CheckShutdown(l) PROVE Inv'
  BY <1>4 DEF CheckShutdown
<1>5. ASSUME proc = "up", NEW l \in Loop, Drain(l) PROVE Inv'
  BY <1>5 DEF Drain
<1>6. ASSUME proc = "up", NEW l \in Loop, Return(l) PROVE Inv'
  BY <1>6 DEF Return
<1>7. ASSUME proc = "up", NEW l \in Loop, NEW c \in Conn, Accept(l, c) PROVE Inv'
  BY <1>7 DEF Accept
<1>8. ASSUME proc = "up", NEW l \in Loop, AcceptError(l) PROVE Inv'
  BY <1>8 DEF AcceptError
<1>9. ASSUME proc = "up", NEW l \in Loop, AddLock(l) PROVE Inv'
  BY <1>9 DEF AddLock
<1>10. ASSUME proc = "up", NEW l \in Loop, AddConn(l) PROVE Inv'
  \* the loop's own connection enters the table as its pc becomes "spawn"; no other loop holds it
  <2>1. Registered'
    BY <1>10 DEF AddConn
  \* l was the one writer
  <2>2. OneWriter'
    BY <1>10 DEF AddConn
  <2>3. TypeOK' /\ HoldsConn' /\ OneListener' /\ GateClosed' /\ Graceful'
    BY <1>10 DEF AddConn
  <2> QED BY <2>1, <2>2, <2>3
<1>11. ASSUME proc = "up", NEW l \in Loop, Spawn(l) PROVE Inv'
  \* the entry stays: its handler now runs
  <2>1. Registered' /\ HoldsConn'
    BY <1>11 DEF Spawn
  <2>2. TypeOK' /\ OneWriter' /\ OneListener' /\ GateClosed' /\ Graceful'
    BY <1>11 DEF Spawn
  <2> QED BY <2>1, <2>2
<1>12. ASSUME proc = "up", NEW c \in Conn, Read(c) PROVE Inv'
  BY <1>12 DEF Read
<1>13. ASSUME proc = "up", NEW c \in Conn, Reply(c) PROVE Inv'
  BY <1>13 DEF Reply
<1>14. ASSUME proc = "up", NEW c \in Conn, ReadError(c) PROVE Inv'
  BY <1>14 DEF ReadError
<1>15. ASSUME proc = "up", NEW c \in Conn, CloseConn(c) PROVE Inv'
  BY <1>15 DEF CloseConn
<1>16. ASSUME proc = "up", NEW c \in Conn, DeleteLock(c) PROVE Inv'
  BY <1>16 DEF DeleteLock
<1>17. ASSUME proc = "up", NEW c \in Conn, DeleteConn(c) PROVE Inv'
  \* a handler that has ended leaves the table
  <2>1. Registered'
    BY <1>17 DEF DeleteConn
  \* c was the one writer
  <2>2. OneWriter'
    BY <1>17 DEF DeleteConn
  <2>3. TypeOK' /\ HoldsConn' /\ OneListener' /\ GateClosed' /\ Graceful'
    BY <1>17 DEF DeleteConn
  <2> QED BY <2>1, <2>2, <2>3
<1>18. ASSUME proc = "up", RequestPause PROVE Inv'
  BY <1>18 DEF RequestPause
<1>19. ASSUME proc = "up", RequestStop PROVE Inv'
  BY <1>19 DEF RequestStop
<1>20. ASSUME proc = "up", RequestContinue PROVE Inv'
  BY <1>20 DEF RequestContinue
<1>21. ASSUME proc = "up", StartServers PROVE Inv'
  <2>1. PICK l \in Loop : LoopGoes(l, "unused", "start")
    BY <1>21 DEF StartServers
  <2>2. TypeOK'
    BY <1>21, <2>1 DEF StartServers
  <2>3. HoldsConn'
    BY <1>21, <2>1 DEF StartServers
  <2>4. Registered' /\ OneWriter'
    BY <1>21, <2>1 DEF StartServers
  <2>5. OneListener'
    BY <1>21, <2>1 DEF StartServers
  <2>6. GateClosed'
    BY <1>21, <2>1 DEF StartServers
  <2>7. Graceful'
    BY <1>21, <2>1 DEF StartServers
  <2> QED BY <2>2, <2>3, <2>4, <2>5, <2>6, <2>7
<1>22. ASSUME proc = "up", SetFlag PROVE Inv'
  BY <1>22 DEF SetFlag
<1>23. ASSUME proc = "up", CloseListener PROVE Inv'
  \* a loop in Accept on an open socket has assigned it to srv.listener
  <2>1. GateClosed'
    BY <1>23 DEF CloseListener
  <2>2. TypeOK' /\ HoldsConn' /\ Registered' /\ OneWriter' /\ OneListener' /\ Graceful'
    BY <1>23 DEF CloseListener
  <2> QED BY <2>1, <2>2
<1>24. ASSUME proc = "up", CloseNilListener PROVE Inv'
  BY <1>24 DEF CloseNilListener
<1>25. ASSUME proc = "up", ShutdownReturns PROVE Inv'
  \* with no entry in the table and every loop settled, no loop is between
  \* Accept and `go handle`, and none waits in Accept: the gate is closed
  <2>1. conns = {} /\ (Prompt => \A l \in Loop : Settled(l))
    BY <1>25 DEF ShutdownReturns, TickComes
  <2>2. Prompt => \A l \in Loop : loopPc[l] \in {"unused", "done"}
    BY <1>25, <2>1 DEF Settled, ShutdownReturns, TickComes
  <2>3. Prompt => \A c \in Conn : Ended(c)
    BY <2>1, <2>2
  <2>4. Prompt => open = {}
    BY <2>2
  <2>5. Prompt => StopIsGraceful'
    BY <1>25, <2>3 DEF ShutdownReturns
  <2>6. Prompt => PauseIsQuiet' /\ QuietUntilCleared'
    BY <1>25, <2>2, <2>3, <2>4 DEF ShutdownReturns
  <2>7. TypeOK' /\ HoldsConn' /\ Registered' /\ OneWriter' /\ OneListener'
    BY <1>25 DEF ShutdownReturns, TickComes
  <2>8. GateClosed'
    BY <1>25 DEF ShutdownReturns, TickComes
  <2> QED BY <2>5, <2>6, <2>7, <2>8
<1>26. ASSUME proc = "up", KeepWaiting PROVE Inv'
  BY <1>26 DEF KeepWaiting, TickComes
<1>27. ASSUME proc = "up", NEW c \in Conn, ForceClose(c) PROVE Inv'
  BY <1>27 DEF ForceClose
<1>28. ASSUME proc = "up", ForceThrows PROVE Inv'
  BY <1>28 DEF ForceThrows
<1>29. ASSUME proc = "up", ForceDone PROVE Inv'
  BY <1>29 DEF ForceDone
<1>30. CASE UNCHANGED vars
  BY <1>30 DEF vars
<1> QED
  BY <1>1, <1>2, <1>3, <1>4, <1>5, <1>6, <1>7, <1>8, <1>9, <1>10, <1>11,
     <1>12, <1>13, <1>14, <1>15, <1>16, <1>17, <1>18, <1>19, <1>20, <1>21,
     <1>22, <1>23, <1>24, <1>25, <1>26, <1>27, <1>28, <1>29, <1>30
  DEF Next, Halted, LoopStep, HandlerStep, ControlStep, ShutdownStep

\* Inv holds in every reachable state.
THEOREM Invariance == Spec => []Inv
  BY InitInv, NextInv, PTL DEF Spec

\* Every variable keeps its type.
THEOREM TypeCorrect == Spec => []TypeOK
  BY Invariance, PTL DEF Inv

\* The connection table holds the running handlers, no more and no less.
THEOREM TableIsExact == Spec => []Registered
  BY Invariance, PTL DEF Inv

\* srv.mu is never held by two writers of the table.
THEOREM MutualExclusion == Spec => []OneWriter
  BY Invariance, PTL DEF Inv

\* The conjuncts of Graceful under the assumption on the tick.
LEMMA InvGraceful ==
    Prompt /\ Inv => StopIsGraceful /\ PauseIsQuiet /\ QuietUntilCleared
  BY DEF Inv, Graceful

\* With prompt loops the process ends after Stop with every handler finished.
THEOREM StopCutsNobodyOff == Prompt => (Spec => []StopIsGraceful)
<1> SUFFICES ASSUME Prompt PROVE Spec => []StopIsGraceful
  OBVIOUS
<1>1. Inv => StopIsGraceful
  BY InvGraceful
<1> QED BY <1>1, Invariance, PTL

\* With prompt loops nothing of a paused server is left behind.
THEOREM PauseLeavesNothing == Prompt => (Spec => []PauseIsQuiet)
<1> SUFFICES ASSUME Prompt PROVE Spec => []PauseIsQuiet
  OBVIOUS
<1>1. Inv => PauseIsQuiet
  BY InvGraceful
<1> QED BY <1>1, Invariance, PTL

\* Between the closing of the listener and Continue no connection is accepted.
THEOREM NoClientAfterClose == Spec => NoNewClients
<1>1. ASSUME Inv, [Next]_vars, inShutdown, ctlPc # "close", NEW c \in Conn,
             connPc[c] = "unused"
      PROVE  connPc'[c] = "unused"
  \* only Accept leaves "unused", and it needs an open socket
  <2>1. ASSUME NEW l \in Loop, NEW d \in Conn, Accept(l, d) PROVE FALSE
    BY <1>1, <2>1 DEF Inv, GateClosed, Accept, LoopGoes
  <2>2. ASSUME NEW l \in Loop, Spawn(l) PROVE connPc'[c] = "unused"
    BY <1>1, <2>2 DEF Inv, TypeOK, HoldsConn, Spawn, LoopGoes
  <2>3. ASSUME NEW l \in Loop, LoopStep(l), ~Spawn(l) PROVE connPc' = connPc
    BY <2>1, <2>3 DEF LoopStep, Listen, ListenFails, AssignListener,
       CheckShutdown, Drain, Return, AcceptError, AddLock, AddConn, connVars
  <2>4. ASSUME NEW d \in Conn, HandlerStep(d) PROVE connPc'[c] = "unused"
    BY <1>1, <2>4 DEF Inv, TypeOK, HandlerStep, Read, Reply, ReadError,
       CloseConn, DeleteLock, DeleteConn, ConnGoes
  <2>5. ASSUME ControlStep PROVE connPc' = connPc
    BY <2>5 DEF ControlStep, ShutdownStep, RequestPause, RequestStop,
       RequestContinue, StartServers, SetFlag, CloseListener,
       CloseNilListener, ShutdownReturns, KeepWaiting, ForceClose,
       ForceThrows, ForceDone, connVars
  <2>6. CASE UNCHANGED vars
    BY <1>1, <2>6 DEF vars, connVars
  <2> QED BY <1>1, <2>2, <2>3, <2>4, <2>5, <2>6 DEF Next, Halted
<1>2. Inv /\ [Next]_vars =>
        [inShutdown /\ inShutdown' /\ ctlPc # "close" =>
           \A c \in Conn : connPc[c] = "unused" => connPc'[c] = "unused"]_vars
  BY <1>1
<1> QED BY <1>2, Invariance, PTL DEF Spec, NoNewClients

-----------------------------------------------------------------------------
(* GpsServer implements Gate.                                              *)

\* A step of an accept loop lets one client in, or closes the gate because the
\* last loop that could accept has ended, or changes nothing of the gate.
LEMMA LoopSimulates ==
    ASSUME Prompt, Inv, proc = "up", NEW l \in Loop, LoopStep(l)
    PROVE  [Abstract!Next]_Abstract!vars
<1> USE DEF LoopGoes, ConnGoes, ctlVars, connVars, Asked
<1>1. Asked' = Asked
  BY DEF LoopStep, Listen, ListenFails, AssignListener, CheckShutdown, Drain,
     Return, Accept, AcceptError, AddLock, AddConn, Spawn
<1>2. ASSUME NEW c \in Conn, Accept(l, c) PROVE Abstract!Admit(c)
  <2>1. c \notin AtGate /\ AtGate' = AtGate \cup {c}
    BY <1>2 DEF Accept, AtGate, Ended, Inv, TypeOK
  \* only at "close" is the flag set before the socket is gone
  <2>2. LetsIn /\ LetsIn'
    BY <1>2 DEF Accept, LetsIn, Inv, TypeOK, GateClosed
  <2> QED BY <1>1, <2>1, <2>2 DEF Abstract!Admit
<1>3. ASSUME ~\E c \in Conn : Accept(l, c) PROVE [Abstract!Next]_Abstract!vars
  <2>1. AtGate' = AtGate
    BY <1>3 DEF LoopStep, Listen, ListenFails, AssignListener, CheckShutdown,
       Drain, Return, AcceptError, AddLock, AddConn, Spawn, AtGate, Ended,
       Inv, TypeOK, HoldsConn
  <2>2. loopPc[l] \notin {"unused", "done"} /\ inShutdown' = inShutdown /\ ctlPc' = ctlPc
    BY <1>3 DEF LoopStep, Listen, ListenFails, AssignListener, CheckShutdown,
       Drain, Return, AcceptError, AddLock, AddConn, Spawn
  <2>3. LetsIn' = LetsIn \/ (LetsIn /\ ~LetsIn' /\ ctlPc = "close")
    BY <2>2 DEF LetsIn
  <2>4. CASE LetsIn' = LetsIn
    BY <1>1, <2>1, <2>4 DEF Abstract!vars
  <2>5. CASE LetsIn /\ ~LetsIn' /\ ctlPc = "close"
    <3>1. Asked \in {"pause", "stop"}
      BY <2>5 DEF Inv, TypeOK
    <3> QED BY <1>1, <2>1, <2>5, <3>1
            DEF Abstract!Next, Abstract!Close, Abstract!Closing
  <2> QED BY <2>3, <2>4, <2>5
<1> QED BY <1>2, <1>3 DEF Abstract!Next

\* Of a handler's steps only the last is seen: its client has left.
LEMMA HandlerSimulates ==
    ASSUME Inv, proc = "up", NEW c \in Conn, HandlerStep(c)
    PROVE  [Abstract!Next]_Abstract!vars
<1> USE DEF ConnGoes, loopVars, ctlVars
<1>1. Asked' = Asked /\ LetsIn' = LetsIn
  BY DEF HandlerStep, Read, Reply, ReadError, CloseConn, DeleteLock, DeleteConn,
     Asked, LetsIn
<1>2. CASE DeleteConn(c)
  <2>1. c \in AtGate /\ AtGate' = AtGate \ {c}
    BY <1>2 DEF DeleteConn, AtGate, Ended, Inv, TypeOK
  <2> QED BY <1>1, <2>1 DEF Abstract!Next, Abstract!Leave
<1>3. CASE Read(c) \/ Reply(c) \/ ReadError(c) \/ CloseConn(c) \/ DeleteLock(c)
  <2>1. AtGate' = AtGate
    BY <1>3 DEF Read, Reply, ReadError, CloseConn, DeleteLock, AtGate, Ended,
       Inv, TypeOK
  <2> QED BY <1>1, <2>1 DEF Abstract!vars
<1> QED BY <1>2, <1>3 DEF HandlerStep

\* The control goroutine's steps are the gate's requests, its closing and its
\* opening; Shutdown returns when nobody is left inside.
LEMMA ControlSimulates ==
    ASSUME Prompt, Inv, proc = "up", ControlStep
    PROVE  [Abstract!Next]_Abstract!vars
<1> USE DEF connVars, loopVars, ctlVars, LoopGoes
<1>1. CASE RequestPause \/ RequestStop \/ RequestContinue
  <2>1. AtGate' = AtGate /\ LetsIn' = LetsIn
    BY <1>1 DEF RequestPause, RequestStop, RequestContinue, AtGate, Ended, LetsIn
  <2>2. Asked = "none" /\ Asked' \in {"pause", "stop", "resume"}
    BY <1>1 DEF RequestPause, RequestStop, RequestContinue, Asked
  <2> QED BY <2>1, <2>2 DEF Abstract!Next, Abstract!Request, Abstract!Requests
<1>2. CASE StartServers
  <2>1. AtGate' = AtGate /\ LetsIn'
    BY <1>2 DEF StartServers, AtGate, Ended, LetsIn
  <2>2. Asked = "resume" /\ Asked' = "none"
    BY <1>2 DEF StartServers, Asked
  <2> QED BY <2>1, <2>2 DEF Abstract!Next, Abstract!Resume
<1>3. CASE SetFlag
  <2>1. AtGate' = AtGate /\ Asked' = Asked /\ Asked \in {"pause", "stop"}
    BY <1>3 DEF SetFlag, AtGate, Ended, Asked, Inv, TypeOK
  \* paused already: no loop is left to open the gate again
  <2>2. LetsIn' => LetsIn
    BY <1>3, InvGraceful DEF SetFlag, LetsIn, QuietUntilCleared, Inv, TypeOK
  <2> QED BY <2>1, <2>2
          DEF Abstract!Next, Abstract!Close, Abstract!Closing, Abstract!vars, LetsIn
<1>4. CASE CloseListener
  <2>1. AtGate' = AtGate /\ Asked' = Asked /\ Asked \in {"pause", "stop"}
    BY <1>4 DEF CloseListener, AtGate, Ended, Asked, Inv, TypeOK
  <2>2. ~LetsIn'
    BY <1>4 DEF CloseListener, LetsIn
  <2> QED BY <2>1, <2>2
          DEF Abstract!Next, Abstract!Close, Abstract!Closing, Abstract!vars, LetsIn
<1>5. CASE ShutdownReturns
  <2>1. conns = {} /\ \A l \in Loop : Settled(l)
    BY <1>5 DEF ShutdownReturns, TickComes
  <2>2. AtGate = {} /\ AtGate' = {}
    BY <1>5, <2>1 DEF ShutdownReturns, TickComes, Settled, AtGate, Ended, Inv,
       TypeOK, HoldsConn, Registered, Live, GateClosed, ConnPcs
  <2>3. ~LetsIn /\ ~LetsIn'
    BY <1>5 DEF ShutdownReturns, TickComes, LetsIn, Inv, GateClosed
  <2>4. Asked \in {"pause", "stop"}
        /\ Asked' = IF Asked = "stop" THEN "stopped" ELSE "none"
    BY <1>5 DEF ShutdownReturns, TickComes, Asked, Inv, TypeOK
  <2> QED BY <2>2, <2>3, <2>4
          DEF Abstract!Next, Abstract!Finish, Abstract!Closing, LetsIn
<1>6. CASE CloseNilListener \/ ForceThrows
  <2>1. AtGate' = AtGate /\ LetsIn' = LetsIn
    BY <1>6 DEF CloseNilListener, ForceThrows, AtGate, Ended, LetsIn
  <2>2. Asked \in {"pause", "stop"} /\ Asked' = "crashed"
    BY <1>6 DEF CloseNilListener, ForceThrows, Asked, Inv, TypeOK
  <2> QED BY <2>1, <2>2 DEF Abstract!Next, Abstract!Crash
<1>7. CASE KeepWaiting \/ ForceDone \/ \E c \in Conn : ForceClose(c)
  <2>1. AtGate' = AtGate /\ LetsIn' = LetsIn
    BY <1>7 DEF KeepWaiting, TickComes, ForceDone, ForceClose, AtGate, Ended, LetsIn
  <2>2. Asked' = Asked
    BY <1>7 DEF KeepWaiting, TickComes, ForceDone, ForceClose, Asked
  <2> QED BY <2>1, <2>2 DEF Abstract!vars
<1> QED BY <1>1, <1>2, <1>3, <1>4, <1>5, <1>6, <1>7 DEF ControlStep, ShutdownStep

\* With prompt loops one server, with any number of loops and clients, is a
\* gate: it never lets a client in once told to close, and reports back only
\* when everybody has left.
THEOREM ServerIsGate == Prompt => (Spec => ImplementsGate)
<1> SUFFICES ASSUME Prompt PROVE Spec => ImplementsGate
  OBVIOUS
<1>1. Init => Abstract!Init
  BY DEF Init, Abstract!Init, Asked, LetsIn, AtGate, Ended
<1>2. Inv /\ [Next]_vars => [Abstract!Next]_Abstract!vars
  <2> SUFFICES ASSUME Inv, [Next]_vars PROVE [Abstract!Next]_Abstract!vars
    OBVIOUS
  <2>1. CASE UNCHANGED vars
    <3>1. Asked' = Asked /\ LetsIn' = LetsIn /\ AtGate' = AtGate
      BY <2>1 DEF vars, loopVars, connVars, ctlVars, Asked, LetsIn, AtGate, Ended
    <3> QED BY <3>1 DEF Abstract!vars
  <2>2. CASE proc = "up" /\ \E l \in Loop : LoopStep(l)
    BY <2>2, LoopSimulates
  <2>3. CASE proc = "up" /\ \E c \in Conn : HandlerStep(c)
    BY <2>3, HandlerSimulates
  <2>4. CASE proc = "up" /\ ControlStep
    BY <2>4, ControlSimulates
  <2> QED BY <2>1, <2>2, <2>3, <2>4 DEF Next, Halted
<1> QED BY <1>1, <1>2, Invariance, PTL DEF Spec, ImplementsGate, Abstract!Spec
=============================================================================
