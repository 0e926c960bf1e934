---------------------------- MODULE ServiceProofs -----------------------------
(***************************************************************************)
(* What the service reports is true of every port, for any number of       *)
(* ports, clients and callers.  The inductive invariant follows a request   *)
(* through the loop over the servers: those it has visited are as it wants  *)
(* them, the one whose Shutdown runs lets nobody in.                        *)
(***************************************************************************)
EXTENDS Service, FiniteSetTheorems, TLAPS

Shut(p) == p \notin serving /\ inside[p] = {}

\* A Shutdown runs in stopServers only, for a server taken from the loop.
OneShutdown ==
    at # NoPort => job \in {"pause", "stop"} /\ at \notin left /\ at \notin serving

\* The servers already visited.
Visited ==
    /\ job \in {"pause", "stop"} => \A p \in Port \ left : p # at => Shut(p)
    /\ job = "resume" => Port \ (left \cup Contested) \subseteq serving

\* What is reported while Execute works, and when it has ended.
Reported ==
    /\ proc = "up" /\ job = "pause" => status = "paused"
    /\ proc = "up" /\ job = "resume" => status = "running"
    /\ proc = "up" <=> status # "stopped"
    /\ proc = "stopped" => \A p \in Port : Shut(p)

Inv == TypeOK /\ OneShutdown /\ Visited /\ Reported /\ AllOrNone

USE PortAssumption, TickAssumption

-----------------------------------------------------------------------------
\* Every variable keeps its type.
LEMMA TypeStep == TypeOK /\ [Next]_vars => TypeOK'
<1> SUFFICES ASSUME TypeOK, [Next]_vars PROVE TypeOK'
  OBVIOUS
<1> USE DEF TypeOK, ports, execute, callers, Requests
<1>1. ASSUME NEW p \in Port, NEW c \in Client, Admit(p, c) \/ Leave(p, c)
      PROVE  TypeOK'
  BY <1>1 DEF Admit, Leave
<1>2. ASSUME NEW k \in Caller, NEW cmd \in Requests, Send(k, cmd) PROVE TypeOK'
  BY <1>2 DEF Send, Target
<1>3. ASSUME NEW k \in Caller, SendFails(k) \/ Poll(k) PROVE TypeOK'
  BY <1>3 DEF SendFails, Poll
<1>4. CASE Take
  BY <1>4 DEF Take, Target
<1>5. CASE ServersStopped
  BY <1>5 DEF ServersStopped, StopsServers
<1>6. ASSUME NEW p \in Port, BeginShutdown(p) \/ ShutdownPanics(p) PROVE TypeOK'
  BY <1>6 DEF BeginShutdown, ShutdownPanics, StopsServers
<1>7. ASSUME NEW p \in Port, StartServer(p) PROVE TypeOK'
  BY <1>7 DEF StartServer
<1>8. CASE Tick
  \* Quiescent: no caller is past the deadline, no Shutdown below 0
  <2>1. age' \in [Caller -> 0 .. Deadline]
    BY <1>8 DEF Tick, Quiescent, Waiting
  <2>2. at' \in Port \cup {NoPort} /\ count' \in 0 .. CountForStop
    BY <1>8 DEF Tick, Quiescent, Shutting
  <2>3. slow' \in [Caller -> SUBSET Port]
    BY <1>8 DEF Tick, Shutting
  <2> QED BY <1>8, <2>1, <2>2, <2>3 DEF Tick
<1>9. CASE ForceThrows
  BY <1>9 DEF ForceThrows
<1>10. CASE UNCHANGED vars
  BY <1>10 DEF vars
<1> QED BY <1>1, <1>2, <1>3, <1>4, <1>5, <1>6, <1>7, <1>8, <1>9, <1>10
        DEF Next, ExecuteStep, Rest

-----------------------------------------------------------------------------
\* The service starts with every server that got its port serving.
LEMMA InitInv == Init => Inv
<1> SUFFICES ASSUME Init PROVE Inv
  OBVIOUS
<1>1. TypeOK
  BY DEF Init, TypeOK, Requests
<1>2. OneShutdown /\ Visited /\ Reported /\ AllOrNone
  BY DEF Init, OneShutdown, Visited, Reported, AllOrNone
<1> QED BY <1>1, <1>2 DEF Inv

\* Every step keeps the inductive invariant.
LEMMA NextInv == Inv /\ [Next]_vars => Inv'
<1> SUFFICES ASSUME Inv, [Next]_vars PROVE Inv'
  OBVIOUS
<1>0. TypeOK'
  BY TypeStep DEF Inv
<1> SUFFICES OneShutdown' /\ Visited' /\ Reported' /\ AllOrNone'
  BY <1>0 DEF Inv
<1> USE DEF Inv, OneShutdown, Visited, Reported, AllOrNone, Shut, ports, execute
<1>1. ASSUME NEW p \in Port, NEW c \in Client, Admit(p, c) \/ Leave(p, c)
      PROVE  OneShutdown' /\ Visited' /\ Reported' /\ AllOrNone'
  \* only a port that serves lets a client in, and a shut one stays shut
  <2>1. \A q \in Port : Shut(q) => Shut(q)'
    BY <1>1 DEF Admit, Leave, TypeOK
  <2>2. UNCHANGED <<serving, execute, proc>>
    BY <1>1 DEF Admit, Leave
  <2> QED BY <2>1, <2>2
<1>2. ASSUME UNCHANGED <<ports, execute, proc>>
      PROVE  OneShutdown' /\ Visited' /\ Reported' /\ AllOrNone'
  BY <1>2
<1>3. CASE Take
  <2>1. job \notin {"pause", "stop", "resume"} /\ job' \in Requests /\ left' = Port
    BY <1>3 DEF Take, TypeOK
  <2> QED BY <1>3, <2>1 DEF Take, Target, TypeOK, Requests
<1>4. CASE ServersStopped
  <2>1. \A p \in Port : Shut(p)
    BY <1>4 DEF ServersStopped, StopsServers, TypeOK
  <2>2. job \in {"pause", "stop"} /\ at = NoPort /\ UNCHANGED <<ports, left, at, count>>
    BY <1>4 DEF ServersStopped, StopsServers
  <2>3. serving = {}
    BY <2>1 DEF TypeOK
  <2> QED BY <1>4, <2>1, <2>2, <2>3 DEF ServersStopped, StopsServers, TypeOK
<1>5. ASSUME NEW p \in Port, BeginShutdown(p)
      PROVE  OneShutdown' /\ Visited' /\ Reported' /\ AllOrNone'
  BY <1>5 DEF BeginShutdown, StopsServers, TypeOK
<1>6. ASSUME NEW p \in Port, ShutdownPanics(p)
      PROVE  OneShutdown' /\ Visited' /\ Reported' /\ AllOrNone'
  BY <1>6 DEF ShutdownPanics, StopsServers, TypeOK
<1>7. ASSUME NEW p \in Port, StartServer(p)
      PROVE  OneShutdown' /\ Visited' /\ Reported' /\ AllOrNone'
  BY <1>7 DEF StartServer, TypeOK
<1>8. CASE Tick
  \* Shutdown returns when it finds nobody inside
  <2>1. at' = at \/ (at' = NoPort /\ at \in Port /\ inside[at] = {})
    BY <1>8 DEF Tick, Shutting, TypeOK
  <2>2. UNCHANGED <<ports, job, left, status, proc>>
    BY <1>8 DEF Tick
  <2> QED BY <2>1, <2>2
<1>9. CASE ForceThrows
  BY <1>9 DEF ForceThrows, TypeOK
<1>10. CASE UNCHANGED vars
  BY <1>2, <1>10 DEF vars
<1>11. ASSUME NEW k \in Caller,
              (\E cmd \in Requests : Send(k, cmd)) \/ SendFails(k) \/ Poll(k)
       PROVE  UNCHANGED <<ports, execute, proc>>
  BY <1>11 DEF Send, SendFails, Poll
<1> QED BY <1>1, <1>2, <1>3, <1>4, <1>5, <1>6, <1>7, <1>8, <1>9, <1>10, <1>11
        DEF Next, ExecuteStep, Rest

\* The inductive invariant holds.
THEOREM Invariance == Spec => []Inv
  BY InitInv, NextInv, PTL DEF Spec

\* Every variable keeps its type: no Shutdown counts below 0, no caller waits
\* beyond the deadline.
THEOREM TypeCorrect == Spec => []TypeOK
  BY Invariance, PTL DEF Inv

\* Between two requests all ports are in the state reported.
THEOREM AllPortsOrNone == Spec => []AllOrNone
  BY Invariance, PTL DEF Inv

\* When Stop is reported no port lets anybody in and nobody is left inside.
THEOREM StopLeavesNobody == Spec => []StopIsComplete
<1>1. Inv => StopIsComplete
  BY DEF Inv, TypeOK, Reported, Shut, StopIsComplete
<1> QED BY <1>1, Invariance, PTL

-----------------------------------------------------------------------------
(* Every port that is its own is a gate.                                   *)

\* The gate of a port moves when its own clients, its own turn in the loop over
\* the servers, a request or the end of the process move it.
LEMMA PortSteps ==
    ASSUME Inv, [Next]_vars, NEW p \in Port \ Contested
    PROVE  PortGate(p)!Next \/ UNCHANGED PortGate(p)!vars
<1> DEFINE Goal == PortGate(p)!Next \/ UNCHANGED PortGate(p)!vars
<1> USE DEF ports, execute
<1>1. p \in Port /\ p \notin Contested /\ p # NoPort /\ TypeOK
  BY DEF Inv
<1>2. ASSUME Asked(p)' = Asked(p), (p \in serving)' = (p \in serving), inside'[p] = inside[p]
      PROVE  Goal
  BY <1>2 DEF PortGate!vars
<1>3. ASSUME UNCHANGED <<serving, inside, job, left, at, proc>> PROVE Goal
  BY <1>2, <1>3 DEF Asked
<1>4. ASSUME NEW q \in Port, NEW c \in Client, Admit(q, c) \/ Leave(q, c) PROVE Goal
  <2>1. Asked(p)' = Asked(p) /\ (p \in serving)' = (p \in serving)
    BY <1>4 DEF Admit, Leave, Asked
  <2>2. CASE q = p
    BY <1>1, <1>4, <2>1, <2>2
       DEF Admit, Leave, TypeOK, PortGate!Next, PortGate!Admit, PortGate!Leave
  <2>3. CASE q # p
    BY <1>1, <1>2, <1>4, <2>1, <2>3 DEF Admit, Leave, TypeOK
  <2> QED BY <2>2, <2>3
<1>5. CASE Take
  <2>1. Asked(p) = "none" /\ Asked(p)' = offered /\ offered \in Requests
    BY <1>1, <1>5 DEF Take, Asked, TypeOK, Requests
  <2> QED BY <1>5, <2>1
          DEF Take, Requests, PortGate!Next, PortGate!Request, PortGate!Requests
<1>6. CASE ServersStopped
  <2>1. Asked(p)' = Asked(p)
    BY <1>1, <1>6 DEF ServersStopped, StopsServers, Asked
  <2> QED BY <1>2, <1>6, <2>1 DEF ServersStopped
<1>7. ASSUME NEW q \in Port, BeginShutdown(q) PROVE Goal
  <2>1. Asked(p)' = Asked(p)
    BY <1>1, <1>7 DEF BeginShutdown, StopsServers, Asked
  <2>2. CASE q = p /\ p \in serving
    <3>1. Asked(p) \in {"pause", "stop"}
      BY <1>1, <1>7, <2>2 DEF BeginShutdown, StopsServers, Asked
    <3> QED BY <1>1, <1>7, <2>1, <2>2, <3>1 DEF BeginShutdown, PortGate!Next,
            PortGate!Close, PortGate!Closing
  <2>3. CASE q # p \/ p \notin serving
    BY <1>2, <1>7, <2>1, <2>3 DEF BeginShutdown
  <2> QED BY <2>2, <2>3
<1>8. ASSUME proc = "up", proc' = "crashed", UNCHANGED <<ports, job, left, at>>
      PROVE  Goal
  <2>1. Asked(p)' = Asked(p) \/ (Asked(p) \notin {"stopped", "crashed"} /\ Asked(p)' = "crashed")
    BY <1>1, <1>8 DEF Asked, TypeOK, Requests
  <2> QED BY <1>2, <1>8, <2>1 DEF PortGate!Next, PortGate!Crash
<1>9. ASSUME NEW q \in Port, ShutdownPanics(q) PROVE Goal
  BY <1>8, <1>9 DEF ShutdownPanics, StopsServers
<1>10. ASSUME NEW q \in Port, StartServer(q) PROVE Goal
  <2>1. /\ job = "resume" /\ at = NoPort /\ at' = NoPort /\ proc = "up" /\ proc' = "up"
        /\ inside' = inside /\ left' = left \ {q}
        /\ job' = IF left' = {} THEN "none" ELSE "resume"
    BY <1>1, <1>10 DEF StartServer, Inv, OneShutdown
  <2>2. CASE q = p
    <3>1. Asked(p) = "resume" /\ Asked(p)' = "none"
      BY <1>1, <1>10, <2>1, <2>2 DEF StartServer, Asked
    <3>2. (p \in serving)' = TRUE
      BY <1>1, <1>10, <2>2 DEF StartServer
    <3> QED BY <2>1, <3>1, <3>2 DEF PortGate!Next, PortGate!Resume
  <2>3. CASE q # p
    <3>1. Asked(p)' = Asked(p)
      BY <1>1, <2>1, <2>3 DEF Asked
    <3>2. (p \in serving)' = (p \in serving)
      BY <1>10, <2>3 DEF StartServer
    <3> QED BY <1>2, <2>1, <3>1, <3>2
  <2> QED BY <2>2, <2>3
<1>11. CASE Tick
  <2>1. UNCHANGED <<ports, job, left, proc>>
    BY <1>11 DEF Tick
  <2>2. CASE at' = at
    BY <1>3, <2>1, <2>2
  \* Shutdown returns: nobody is inside
  <2>3. CASE at' # at
    <3>1. at' = NoPort /\ at \in Port /\ inside[at] = {} /\ proc = "up"
      BY <1>1, <1>11, <2>3 DEF Tick, Shutting, TypeOK
    <3>2. CASE at = p
      <4>1. job \in {"pause", "stop"} /\ p \notin left /\ p \notin serving
        BY <1>1, <3>2 DEF Inv, OneShutdown
      <4>2. Asked(p) = job /\ Asked(p)' = IF job = "stop" THEN "stopped" ELSE "none"
        BY <1>1, <2>1, <3>1, <3>2, <4>1 DEF Asked
      <4> QED BY <2>1, <3>1, <3>2, <4>1, <4>2
              DEF PortGate!Next, PortGate!Finish, PortGate!Closing
    <3>3. CASE at # p
      <4>1. Asked(p)' = Asked(p)
        BY <1>1, <2>1, <3>1, <3>3 DEF Asked
      <4> QED BY <1>2, <2>1, <4>1
    <3> QED BY <3>2, <3>3
  <2> QED BY <2>2, <2>3
<1>12. CASE ForceThrows
  BY <1>8, <1>12 DEF ForceThrows
<1>13. ASSUME NEW k \in Caller,
              (\E cmd \in Requests : Send(k, cmd)) \/ SendFails(k) \/ Poll(k)
       PROVE  Goal
  BY <1>3, <1>13 DEF Send, SendFails, Poll
<1>14. CASE UNCHANGED vars
  BY <1>3, <1>14 DEF vars
<1> QED BY <1>4, <1>5, <1>6, <1>7, <1>9, <1>10, <1>11, <1>12, <1>13, <1>14
        DEF Next, ExecuteStep, Rest

\* Whatever Execute does to the other ports, a port that nobody else may take
\* is a gate: all its promises are kept for every number of ports.
THEOREM EveryPortIsGate == Spec => PortsAreGates
<1>1. Init => \A p \in Port \ Contested : PortGate(p)!Init
  BY DEF Init, PortGate!Init, Asked
<1>2. Inv /\ [Next]_vars =>
        [\A p \in Port \ Contested : PortGate(p)!Next \/ UNCHANGED PortGate(p)!vars]_vars
  BY PortSteps
<1> QED BY <1>1, <1>2, Invariance, PTL DEF Spec, PortsAreGates
-----------------------------------------------------------------------------
(* Why a caller times out.                                                 *)

\* The ten seconds cover two idle loops over all the servers and one Shutdown
\* that counts down.
Prompt == IsFiniteSet(Port) /\ 2 * Cardinality(Port) + CountForStop < Deadline

\* A caller whose request is still to be served, or being served.
Pending(k) == k \in Waiting \ passed /\ proc = "up" /\ status # Target(want[k])

\* At most one server made it wait.
OneSlow(k) == \A p, q \in slow[k] : p = q

\* Ticks that server has taken, at the most.
Spent(k) ==
    IF slow[k] = {} THEN 0
    ELSE IF at \in slow[k] /\ inside[at] # {} THEN CountForStop - count ELSE CountForStop

\* Ticks the other servers may take: one each in the loop that runs when the
\* request is sent, and one more each in the loop of a Stop; the turns to come.
Turns(k) ==
    IF job = "stop" /\ want[k] = "stop" THEN 2 * Cardinality(Port) ELSE Cardinality(Port)
ToCome == Cardinality(left) + (IF at = NoPort THEN 0 ELSE 1)

Fresh(k) ==
    /\ call[k] = "ready" => age[k] = 0 /\ slow[k] = {} /\ want[k] = "none"
    /\ call[k] = "waiting" => want[k] # "none"

\* The server that made a caller wait is shut when its turn comes again.
StaysShut(k) ==
    /\ want[k] \in {offered, job}
    /\ job = "resume" => slow[k] = {}
    /\ \A p \in slow[k] : p \in left \/ job = "none" => Shut(p)
InTime(k) == OneSlow(k) => age[k] + ToCome <= Turns(k) + Spent(k)

FailedByTwo(k) ==
    /\ call[k] = "failed" /\ want[k] # "none" /\ k \notin passed
    /\ status = "stopped" => want[k] = "stop"
    => ~OneSlow(k)

CallerInv(k) == Fresh(k) /\ (Pending(k) => StaysShut(k) /\ InTime(k)) /\ FailedByTwo(k)
TimeInv == Inv /\ (job = "none" => left = {}) /\ \A k \in Caller : CallerInv(k)

\* What a set of servers counts, with one taken from it or one beside it.
LEMMA Count ==
    ASSUME IsFiniteSet(Port), NEW S \in SUBSET Port
    PROVE  /\ Cardinality(Port) \in Nat /\ Cardinality(S) \in Nat
           /\ Cardinality(S) <= Cardinality(Port)
           /\ \A p \in S : Cardinality(S \ {p}) = Cardinality(S) - 1
           /\ \A p \in Port \ S : Cardinality(S) + 1 <= Cardinality(Port)
<1>1. IsFiniteSet(S) /\ Cardinality(S) <= Cardinality(Port)
  BY FS_Subset
<1>2. Cardinality(S) \in Nat /\ Cardinality(Port) \in Nat
  BY <1>1, FS_CardinalityType
<1>3. ASSUME NEW p \in S PROVE Cardinality(S \ {p}) = Cardinality(S) - 1
  BY <1>1, FS_RemoveElement
<1>4. ASSUME NEW p \in Port \ S PROVE Cardinality(S) + 1 <= Cardinality(Port)
  <2>1. Cardinality(S \cup {p}) = Cardinality(S) + 1
    BY <1>1, FS_AddElement
  <2>2. Cardinality(S \cup {p}) <= Cardinality(Port)
    <3>1. S \cup {p} \in SUBSET Port
      OBVIOUS
    <3> QED BY <3>1, FS_Subset
  <2> QED BY <2>1, <2>2
<1> QED BY <1>1, <1>2, <1>3, <1>4

\* No caller waits at the start.
LEMMA InitTime == Init => TimeInv
<1> SUFFICES ASSUME Init PROVE TimeInv
  OBVIOUS
<1>1. \A k \in Caller : CallerInv(k)
  BY DEF Init, CallerInv, Fresh, Pending, Waiting, FailedByTwo
<1> QED BY <1>1, InitInv DEF TimeInv, Init

\* The servers whose turn is to come and the one that is shut down are at most
\* all there are.
LEMMA TurnsAtMost ==
    ASSUME IsFiniteSet(Port), Inv
    PROVE  ToCome \in Nat /\ ToCome <= Cardinality(Port) /\ Cardinality(Port) \in Nat
<1>1. left \in SUBSET Port /\ at \in Port \cup {NoPort}
  BY DEF Inv, TypeOK
<1>2. at # NoPort => at \in Port \ left
  BY <1>1 DEF Inv, OneShutdown
<1> QED BY <1>1, <1>2, Count DEF ToCome

\* A caller's age, and what is spent of it, are numbers.
LEMMA Numbers ==
    ASSUME TypeOK, NEW k \in Caller
    PROVE  /\ age[k] \in Nat /\ age[k] <= Deadline
           /\ count \in Nat /\ count <= CountForStop
           /\ Spent(k) \in Nat /\ Spent(k) <= CountForStop
<1>1. age[k] \in Nat /\ age[k] <= Deadline /\ count \in Nat /\ count <= CountForStop
  BY DEF TypeOK
<1> QED BY <1>1 DEF Spent

\* Every step keeps what is said of a caller.
LEMMA CallerStep ==
    ASSUME Prompt, TimeInv, Inv', [Next]_vars, NEW k \in Caller
    PROVE  CallerInv(k)'
<1> USE DEF CallerInv, ports, execute, callers
<1>0. /\ Inv /\ TypeOK /\ CallerInv(k) /\ IsFiniteSet(Port) /\ at \in Port \cup {NoPort}
      /\ 2 * Cardinality(Port) + CountForStop < Deadline
      /\ (proc = "up" <=> status # "stopped")
      /\ Target("stop") = "stopped"
  BY DEF TimeInv, Prompt, Inv, TypeOK, Reported, Target
<1>n. /\ age[k] \in Nat /\ age[k] <= Deadline /\ count \in Nat /\ count <= CountForStop
      /\ Spent(k) \in Nat /\ Spent(k) <= CountForStop
      /\ ToCome \in Nat /\ ToCome <= Cardinality(Port) /\ Cardinality(Port) \in Nat
  BY <1>0, Numbers, TurnsAtMost
<1>m. Spent(k)' \in Nat /\ ToCome' \in Nat /\ Turns(k)' \in Nat /\ Turns(k) \in Nat
  <2>1. TypeOK'
    BY DEF Inv
  <2>2. Cardinality(left') \in Nat /\ Cardinality(Port) \in Nat
    BY <1>0, <2>1, Count DEF TypeOK
  <2>3. count' \in Nat /\ count' <= CountForStop
    BY <2>1 DEF TypeOK
  <2>4. ToCome' \in Nat
    BY <2>2 DEF ToCome
  <2>5. Spent(k)' \in Nat
    <3>1. CountForStop \in Nat
      BY TickAssumption DEF TickAssumption
    <3>2. \A n \in Nat : n <= CountForStop => CountForStop - n \in Nat
      BY <3>1
    <3> QED BY <2>3, <3>1, <3>2 DEF Spent
  <2> QED BY <2>2, <2>4, <2>5 DEF Turns
<1>1. ASSUME NEW q \in Port, NEW c \in Client, Admit(q, c) \/ Leave(q, c)
      PROVE  CallerInv(k)'
  <2>1. UNCHANGED <<execute, offered, callers, proc>>
    BY <1>1 DEF Admit, Leave
  <2>2. \A p \in Port : Shut(p) => Shut(p)'
    BY <1>0, <1>1 DEF Admit, Leave, TypeOK, Shut
  <2>3. at # NoPort => inside'[at] \subseteq inside[at]
    BY <1>0, <1>1 DEF Admit, Leave, TypeOK, Inv, OneShutdown
  <2>4. slow[k] \subseteq Port
    BY <1>0 DEF TypeOK
  <2>5. Spent(k) <= Spent(k)'
    BY <1>n, <1>0, <2>1, <2>3, <2>4 DEF Spent
  <2>6. Pending(k)' <=> Pending(k)
    BY <2>1 DEF Pending, Waiting
  <2>7. Pending(k) => InTime(k)'
    BY <1>0, <1>n, <1>m, <2>1, <2>5 DEF InTime, OneSlow, ToCome, Turns
  <2>8. Pending(k) => StaysShut(k)'
    BY <1>0, <2>1, <2>2, <2>4 DEF StaysShut
  <2>9. Fresh(k)' /\ FailedByTwo(k)'
    BY <1>0, <2>1 DEF Fresh, FailedByTwo, OneSlow
  <2> QED BY <2>6, <2>7, <2>8, <2>9
\* what a step leaves as it is when it moves neither the caller nor Execute
<1>2. ASSUME UNCHANGED <<ports, execute, proc>>, UNCHANGED <<want[k], call[k], age[k], slow[k]>>,
             passed' = passed, Pending(k) => want[k] \in {offered', job}
      PROVE  CallerInv(k)'
  <2>1. Pending(k)' <=> Pending(k)
    BY <1>2 DEF Pending, Waiting
  <2>2. InTime(k) => InTime(k)'
    BY <1>2 DEF InTime, OneSlow, ToCome, Turns, Spent
  <2>3. Pending(k) => StaysShut(k)'
    BY <1>0, <1>2 DEF StaysShut, Shut
  <2>4. Fresh(k)' /\ FailedByTwo(k)'
    BY <1>0, <1>2 DEF Fresh, FailedByTwo, OneSlow
  <2> QED BY <1>0, <2>1, <2>2, <2>3, <2>4
<1>3. ASSUME NEW q \in Caller, NEW cmd \in Requests, Send(q, cmd) PROVE CallerInv(k)'
  <2>1. CASE q # k
    <3>1. UNCHANGED <<ports, execute, proc, passed, age, slow>> /\ offered = "none"
      BY <1>3 DEF Send
    <3>2. want'[k] = want[k] /\ call'[k] = call[k]
      BY <1>0, <1>3, <2>1 DEF Send, TypeOK
    <3>3. Pending(k) => want[k] # "none" /\ want[k] \in {offered, job}
      BY <1>0 DEF StaysShut, Pending, Waiting, Fresh
    <3> QED BY <1>2, <3>1, <3>2, <3>3
  <2>2. CASE q = k
    <3>1. /\ want'[k] = cmd /\ offered' = cmd /\ cmd # "none" /\ call'[k] \in {"ok", "waiting"}
          /\ age'[k] = 0 /\ slow'[k] = {}
      BY <1>0, <1>3, <2>2 DEF Send, TypeOK, Fresh, Requests
    <3>2. Spent(k)' = 0 /\ ToCome' <= Turns(k)'
      <4>1. UNCHANGED <<ports, execute>>
        BY <1>3 DEF Send
      <4>2. ToCome' = ToCome
        BY <4>1 DEF ToCome
      <4> QED BY <1>n, <3>1, <4>2 DEF Spent, Turns
    <3>3. InTime(k)'
      BY <1>m, <3>1, <3>2 DEF InTime
    <3> QED BY <3>1, <3>3 DEF Fresh, StaysShut, FailedByTwo
  <2> QED BY <2>1, <2>2
<1>4. ASSUME NEW q \in Caller, SendFails(q) \/ Poll(q) PROVE CallerInv(k)'
  <2>1. UNCHANGED <<ports, execute, offered, want, age, slow, passed, proc>>
    BY <1>4 DEF SendFails, Poll
  <2>2. CASE q # k
    <3>1. call'[k] = call[k]
      BY <1>0, <1>4, <2>2 DEF SendFails, Poll, TypeOK
    <3>2. Pending(k) => want[k] \in {offered, job}
      BY <1>0 DEF StaysShut
    <3> QED BY <1>2, <2>1, <3>1, <3>2
  <2>3. CASE q = k /\ SendFails(k)
    <3>1. call'[k] = "failed" /\ want'[k] = "none"
      BY <1>0, <2>1, <2>3 DEF SendFails, TypeOK, Fresh
    <3> QED BY <3>1 DEF Fresh, Pending, Waiting, FailedByTwo
  <2>4. CASE q = k /\ Poll(k)
    <3>1. /\ call'[k] \in {"ok", "failed"} /\ call[k] = "waiting"
          /\ call'[k] = "failed" => status # Target(want[k]) /\ age[k] = Deadline
      BY <1>0, <2>4 DEF Poll, TypeOK
    \* the deadline has not passed while one server at most was slow
    <3>2. ~(Pending(k) /\ age[k] = Deadline /\ OneSlow(k))
      <4>1. Turns(k) <= 2 * Cardinality(Port)
        BY <1>n DEF Turns
      <4>2. SUFFICES ASSUME Pending(k), age[k] = Deadline, OneSlow(k) PROVE FALSE
        OBVIOUS
      <4>3. age[k] + ToCome <= Turns(k) + Spent(k)
        BY <1>0, <4>2 DEF InTime
      <4> QED BY <1>0, <1>n, <1>m, <4>1, <4>2, <4>3
    <3>3. FailedByTwo(k)'
      <4>1. SUFFICES ASSUME call'[k] = "failed", k \notin passed, status = "stopped" => want[k] = "stop"
                     PROVE  ~OneSlow(k)
        BY <2>1 DEF FailedByTwo, OneSlow
      <4>2. Pending(k)
        BY <1>0, <3>1, <4>1 DEF Pending, Waiting
      <4> QED BY <3>1, <3>2, <4>1, <4>2
    <3> QED BY <3>1, <3>3 DEF Fresh, Pending, Waiting
  <2> QED BY <1>4, <2>2, <2>3, <2>4
<1>5. CASE Take
  <2>1. /\ job = "none" /\ offered # "none" /\ job' = offered /\ left' = Port /\ at = NoPort
        /\ left = {} /\ UNCHANGED <<ports, at, count, want, call, age, slow, proc>>
        /\ status' = IF offered = "stop" THEN status ELSE Target(offered)
    BY <1>0, <1>5 DEF Take, Inv, OneShutdown, TimeInv
  <2>2. passed' = passed \cup {c \in Caller : want[c] # "none" /\ want[c] # offered}
    BY <1>5 DEF Take
  <2>3. Fresh(k)'
    BY <1>0, <2>1 DEF Fresh
  <2>4. FailedByTwo(k)'
    <3>1. status # "stopped"
      BY <1>0, <1>5 DEF Take
    <3> QED BY <1>0, <2>1, <2>2, <3>1 DEF FailedByTwo, OneSlow
  <2>5. ASSUME Pending(k)' PROVE Pending(k) /\ offered = "stop" /\ want[k] = "stop"
    <3>1. k \in Waiting \ passed /\ proc = "up" /\ want[k] = offered
      BY <1>0, <2>1, <2>2, <2>5 DEF Pending, Waiting, Fresh
    <3>2. offered = "stop"
      BY <2>1, <2>5, <3>1 DEF Pending
    <3> QED BY <1>0, <3>1, <3>2 DEF Pending
  <2>6. ASSUME Pending(k)' PROVE StaysShut(k)' /\ InTime(k)'
    <3>1. StaysShut(k)'
      BY <1>0, <2>1, <2>5, <2>6 DEF StaysShut, Shut
    <3>2. ToCome = 0 /\ ToCome' = Cardinality(Port)
      <4>1. Cardinality(left) = 0
        BY <2>1, FS_EmptySet
      <4> QED BY <1>n, <2>1, <4>1 DEF ToCome
    <3>3. Turns(k) = Cardinality(Port) /\ Turns(k)' = 2 * Cardinality(Port)
      BY <2>1, <2>5, <2>6 DEF Turns
    <3>4. Spent(k)' = Spent(k) /\ OneSlow(k)' = OneSlow(k) /\ age'[k] = age[k]
      BY <2>1 DEF Spent, OneSlow
    <3>5. InTime(k)'
      BY <1>0, <1>n, <2>5, <2>6, <3>2, <3>3, <3>4 DEF InTime
    <3> QED BY <3>1, <3>5
  <2> QED BY <2>3, <2>4, <2>6
<1>6. CASE ServersStopped
  <2>1. /\ job \in {"pause", "stop"} /\ at = NoPort /\ left = {}
        /\ UNCHANGED <<ports, left, at, count, offered, callers>>
        /\ IF job = "stop" THEN proc' = "stopped" ELSE job' = "none" /\ UNCHANGED <<proc, status>>
        /\ proc = "up"
    BY <1>6 DEF ServersStopped, StopsServers
  <2>2. \A p \in Port : Shut(p)
    BY <1>0, <2>1 DEF Inv, Visited
  <2>3. Fresh(k)'
    BY <1>0, <2>1 DEF Fresh
  <2>4. FailedByTwo(k)'
    BY <1>0, <2>1 DEF FailedByTwo, OneSlow
  <2>5. ASSUME Pending(k)' PROVE StaysShut(k)' /\ InTime(k)'
    <3>1. job = "pause" /\ job' = "none" /\ Pending(k) /\ status = "paused"
      BY <1>0, <2>1, <2>5 DEF Pending, Waiting, Inv, Reported
    <3>2. want[k] # "pause"
      BY <3>1 DEF Pending, Target
    <3>3. StaysShut(k)'
      BY <1>0, <2>1, <2>2, <3>1, <3>2 DEF StaysShut, Shut, TypeOK
    <3>4. InTime(k)'
      BY <1>0, <2>1, <3>1 DEF InTime, OneSlow, ToCome, Turns, Spent
    <3> QED BY <3>3, <3>4
  <2> QED BY <2>3, <2>4, <2>5
<1>7. ASSUME NEW q \in Port, BeginShutdown(q) PROVE CallerInv(k)'
  <2>1. /\ at = NoPort /\ at' = q /\ q \in left /\ left' = left \ {q} /\ q # NoPort
        /\ count' = CountForStop /\ UNCHANGED <<inside, job, status, offered, callers, proc>>
        /\ job \in {"pause", "stop"} /\ serving' = serving \ {q}
    BY <1>7 DEF BeginShutdown, StopsServers
  <2>2. Pending(k)' <=> Pending(k)
    BY <2>1 DEF Pending, Waiting
  <2>3. StaysShut(k) => StaysShut(k)'
    BY <2>1 DEF StaysShut, Shut
  <2>4. ToCome' = ToCome
    <3>1. left \in SUBSET Port
      BY <1>0 DEF TypeOK
    <3>2. Cardinality(left) \in Nat /\ Cardinality(left \ {q}) = Cardinality(left) - 1
      BY <1>0, <2>1, <3>1, Count
    <3> QED BY <2>1, <3>2 DEF ToCome
  <2>5. Turns(k)' = Turns(k)
    BY <2>1 DEF Turns
  \* a server that was slow before is empty when its turn comes
  <2>6. StaysShut(k) => Spent(k)' = Spent(k)
    <3>1. q \in slow[k] /\ StaysShut(k) => inside[q] = {}
      BY <2>1 DEF StaysShut, Shut
    <3>2. NoPort \notin slow[k]
      BY <1>0 DEF TypeOK
    <3> QED BY <2>1, <3>1, <3>2 DEF Spent
  <2>7. StaysShut(k) /\ InTime(k) => InTime(k)'
    BY <2>1, <2>4, <2>5, <2>6 DEF InTime, OneSlow
  <2>8. Fresh(k)' /\ FailedByTwo(k)'
    BY <1>0, <2>1 DEF Fresh, FailedByTwo, OneSlow
  <2> QED BY <1>0, <2>2, <2>3, <2>7, <2>8
<1>8. ASSUME proc = "up", proc' # "up", UNCHANGED callers PROVE CallerInv(k)'
  <2>1. ~Pending(k)'
    BY <1>8 DEF Pending
  <2>2. Fresh(k)' /\ FailedByTwo(k)'
    BY <1>0, <1>8 DEF Fresh, FailedByTwo, OneSlow
  <2> QED BY <2>1, <2>2
<1>9. ASSUME NEW q \in Port, ShutdownPanics(q) PROVE CallerInv(k)'
  BY <1>8, <1>9 DEF ShutdownPanics, StopsServers
<1>10. ASSUME NEW q \in Port, StartServer(q) PROVE CallerInv(k)'
  <2>1. /\ job = "resume" /\ job' \in {"resume", "none"} /\ at = NoPort /\ q \in left
        /\ left' = left \ {q} /\ UNCHANGED <<inside, at, count, status, offered, callers, proc>>
    BY <1>0, <1>10 DEF StartServer, Inv, OneShutdown
  <2>2. Pending(k)' <=> Pending(k)
    BY <2>1 DEF Pending, Waiting
  <2>3. Pending(k) => want[k] # "resume"
    BY <1>0, <2>1 DEF Pending, Target, Inv, Reported
  <2>4. Pending(k) => StaysShut(k)'
    BY <1>0, <2>1, <2>3 DEF StaysShut
  <2>5. ToCome' <= ToCome
    <3>1. left \in SUBSET Port
      BY <1>0 DEF TypeOK
    <3>2. Cardinality(left) \in Nat /\ Cardinality(left \ {q}) = Cardinality(left) - 1
      BY <1>0, <2>1, <3>1, Count
    <3> QED BY <2>1, <3>2 DEF ToCome
  <2>6. Turns(k)' = Turns(k) /\ Spent(k)' = Spent(k)
    BY <2>1 DEF Turns, Spent
  <2>7. InTime(k) => InTime(k)'
    BY <1>n, <1>m, <2>1, <2>5, <2>6 DEF InTime, OneSlow
  <2>8. Fresh(k)' /\ FailedByTwo(k)'
    BY <1>0, <2>1 DEF Fresh, FailedByTwo, OneSlow
  <2> QED BY <1>0, <2>2, <2>4, <2>7, <2>8
<1>11. CASE Tick
  <2>1. /\ UNCHANGED <<ports, job, left, status, offered, want, call, passed, proc>>
        /\ age'[k] = IF k \in Waiting THEN age[k] + 1 ELSE age[k]
    BY <1>11 DEF Tick
  <2>2. slow'[k] = slow[k] \/ (k \in Waiting /\ slow'[k] = slow[k] \cup {at})
    BY <1>11 DEF Tick
  <2>3. Pending(k)' <=> Pending(k)
    BY <2>1 DEF Pending, Waiting
  <2>4. Fresh(k)'
    BY <1>0, <2>1, <2>2 DEF Fresh, Waiting
  <2>5. FailedByTwo(k)'
    <3>1. call[k] = "failed" => slow'[k] = slow[k]
      BY <2>2 DEF Waiting
    <3> QED BY <1>0, <2>1, <3>1 DEF FailedByTwo, OneSlow
  <2>6. ASSUME Pending(k) PROVE StaysShut(k)' /\ InTime(k)'
    <3>1. k \in Waiting /\ proc = "up" /\ want[k] # "none" /\ want[k] \in {offered, job}
      BY <1>0, <2>6 DEF Pending, Fresh, Waiting, StaysShut
    \* Execute takes a request at once: time passes in Shutdown only
    <3>2. at # NoPort /\ at \in Port \ left /\ job \in {"pause", "stop"} /\ count \in Nat
      BY <1>0, <1>n, <1>11, <3>1 DEF Tick, Quiescent, Inv, OneShutdown
    <3>3. StaysShut(k)'
      BY <1>0, <2>1, <2>2, <2>6, <3>2 DEF StaysShut, Shut
    <3>4. age'[k] = age[k] + 1 /\ Turns(k)' = Turns(k)
      BY <2>1, <3>1 DEF Turns
    <3>5. CASE inside[at] = {}
      <4>1. at' = NoPort /\ UNCHANGED <<count, slow>>
        BY <1>11, <3>1, <3>2, <3>5 DEF Tick, Shutting
      <4>2. ToCome' = ToCome - 1
        <5>1. Cardinality(left) \in Nat
          BY <1>0, Count DEF TypeOK
        <5> QED BY <2>1, <3>2, <4>1, <5>1 DEF ToCome
      <4>3. Spent(k)' = Spent(k)
        <5>1. NoPort \notin slow[k]
          BY <1>0 DEF TypeOK
        <5> QED BY <2>1, <3>5, <4>1, <5>1 DEF Spent
      <4>4. OneSlow(k)' = OneSlow(k)
        BY <4>1 DEF OneSlow
      <4>5. InTime(k)'
        BY <1>0, <1>n, <1>m, <2>6, <3>4, <4>2, <4>3, <4>4 DEF InTime
      <4> QED BY <3>3, <4>5
    <3>6. CASE inside[at] # {}
      <4>1. /\ at' = at /\ count' = count - 1 /\ count # 0
            /\ slow'[k] = slow[k] \cup {at} /\ inside' = inside
        BY <1>11, <2>1, <3>1, <3>2, <3>6 DEF Tick, Shutting, Quiescent
      <4>2. ToCome' = ToCome
        BY <2>1, <4>1 DEF ToCome
      <4>3. ASSUME OneSlow(k)' PROVE OneSlow(k) /\ Spent(k)' >= Spent(k) + 1
        <5>1. slow[k] = {} \/ slow[k] = {at}
          BY <4>1, <4>3 DEF OneSlow
        <5>2. Spent(k)' = CountForStop - count'
          BY <3>6, <4>1 DEF Spent
        <5>3. Spent(k) <= CountForStop - count
          BY <1>n, <3>6, <5>1 DEF Spent
        <5> QED BY <1>n, <4>1, <5>1, <5>2, <5>3 DEF OneSlow
      <4>4. InTime(k)'
        BY <1>0, <1>n, <1>m, <2>6, <3>4, <4>2, <4>3 DEF InTime
      <4> QED BY <3>3, <4>4
    <3> QED BY <3>5, <3>6
  <2> QED BY <2>3, <2>4, <2>5, <2>6
<1>12. CASE ForceThrows
  BY <1>8, <1>12 DEF ForceThrows
<1>13. CASE UNCHANGED vars
  <2>1. Pending(k) => want[k] \in {offered, job}
    BY <1>0 DEF StaysShut
  <2> QED BY <1>2, <1>13, <2>1 DEF vars
<1> QED BY <1>1, <1>3, <1>4, <1>5, <1>6, <1>7, <1>9, <1>10, <1>11, <1>12, <1>13
        DEF Next, ExecuteStep, Rest

\* Every step keeps the invariant about time.
LEMMA NextTime == Prompt /\ TimeInv /\ [Next]_vars => TimeInv'
<1> SUFFICES ASSUME Prompt, TimeInv, [Next]_vars PROVE TimeInv'
  OBVIOUS
<1>1. Inv'
  BY NextInv DEF TimeInv
<1>2. \A k \in Caller : CallerInv(k)'
  BY <1>1, CallerStep
<1>3. (job = "none" => left = {})'
  BY DEF TimeInv, Next, ExecuteStep, Rest, Admit, Leave, Send, SendFails, Poll, Take,
         ServersStopped, BeginShutdown, ShutdownPanics, StartServer, Tick, ForceThrows,
         StopsServers, ports, execute, callers, vars
<1> QED BY <1>1, <1>2, <1>3 DEF TimeInv

\* With few ports for the ten seconds a timeout is reported of a request that
\* was neither overtaken nor made void only when two servers at least had
\* clients to wait for.
THEOREM TimeoutTakesTwo == ASSUME Prompt PROVE Spec => []TimeoutNeedsTwoSlow
<1>1. TimeInv => TimeoutNeedsTwoSlow
  <2>1. SUFFICES ASSUME TimeInv, NEW k \in Caller, FailedByTwo(k), ~OneSlow(k)
                 PROVE  Cardinality(slow[k]) >= 2
    BY DEF TimeInv, CallerInv, TimeoutNeedsTwoSlow, FailedByTwo
  <2>2. PICK p \in slow[k], q \in slow[k] : p # q
    BY <2>1 DEF OneSlow
  <2>3. slow[k] \in SUBSET Port
    BY <2>1 DEF TimeInv, Inv, TypeOK
  <2>4. {p, q} \in SUBSET slow[k] /\ IsFiniteSet(slow[k])
    BY <2>2, <2>3, FS_Subset DEF Prompt
  <2>5. Cardinality({p, q}) = 2
    <3>1. IsFiniteSet({p}) /\ Cardinality({p}) = 1
      BY FS_Singleton
    <3>2. Cardinality({p} \cup {q}) = Cardinality({p}) + 1
      <4>1. q \notin {p}
        BY <2>2
      <4> QED BY <3>1, <4>1, FS_AddElement
    <3>3. {p, q} = {p} \cup {q}
      OBVIOUS
    <3> QED BY <3>1, <3>2, <3>3
  <2>6. Cardinality({p, q}) <= Cardinality(slow[k])
    BY <2>4, FS_Subset
  <2>7. Cardinality(slow[k]) \in Nat
    BY <2>4, FS_CardinalityType
  <2> QED BY <2>5, <2>6, <2>7
<1>2. Prompt
  OBVIOUS
<1>3. TimeInv /\ [Next]_vars => TimeInv'
  BY <1>2, NextTime
<1> QED BY <1>1, <1>3, InitTime, PTL DEF Spec
=============================================================================
