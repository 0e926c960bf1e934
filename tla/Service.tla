------------------------------- MODULE Service --------------------------------
(***************************************************************************)
(* The service as its operator sees it: Execute, which serves one request   *)
(* after the other and visits the servers of all ports in turn, and         *)
(* controlService, which sends a request and polls for ten seconds.  A port *)
(* is the gate that GpsServer implements.  Between Execute and a caller     *)
(* stands the service manager: it holds one request until Execute takes it  *)
(* and knows the state last reported.                                       *)
(***************************************************************************)
EXTENDS Integers, FiniteSets

CONSTANTS
    Port,         \* keys of the map servers
    Contested,    \* ports that another program may hold when we listen
    Client,       \* clients a port may have at a time
    Caller,       \* calls of controlService (each sends one request)
    NoPort,       \* no Shutdown is running
    CountForStop, \* ticks before Shutdown closes the connections itself
    Deadline      \* ticks a caller waits: ten seconds of 500 ms

ASSUME PortAssumption == NoPort \notin Port /\ Contested \subseteq Port
ASSUME TickAssumption == CountForStop \in Nat \ {0} /\ Deadline \in Nat \ {0}

VARIABLES
    serving,  \* ports that let clients in
    listener, \* ports whose srv.listener was assigned once
    inside,   \* the clients of each port
    job,      \* the request Execute works on, or "none"
    left,     \* servers its loop has still to visit
    at,       \* the port whose Shutdown runs
    count,    \* that Shutdown's countForStop
    status,   \* the state last reported to the service manager
    offered,  \* the request the service manager holds
    want,     \* the request of each caller, or "none"
    call,     \* "ready", "waiting", "ok" or "failed"
    age,      \* ticks since the request was sent
    slow,     \* auxiliary: ports whose Shutdown met clients while a caller waited
    passed,   \* auxiliary: callers behind whose request another was taken
    proc      \* "up", "stopped" or "crashed"

ports == <<serving, listener, inside>>
execute == <<job, left, at, count, status>>
callers == <<want, call, age, slow, passed>>
vars == <<ports, execute, offered, callers, proc>>

Requests == {"pause", "resume", "stop"}

TypeOK ==
    /\ serving \subseteq Port /\ listener \subseteq Port
    /\ inside \in [Port -> SUBSET Client]
    /\ job \in Requests \cup {"none"}
    /\ left \subseteq Port
    /\ at \in Port \cup {NoPort}
    /\ count \in 0 .. CountForStop
    /\ status \in {"running", "paused", "stopped"}
    /\ offered \in Requests \cup {"none"}
    /\ want \in [Caller -> Requests \cup {"none"}]
    /\ call \in [Caller -> {"ready", "waiting", "ok", "failed"}]
    /\ age \in [Caller -> 0 .. Deadline]
    /\ slow \in [Caller -> SUBSET Port]
    /\ passed \subseteq Caller
    /\ proc \in {"up", "stopped", "crashed"}

\* initServer has started a loop for every port; a contested one may be without.
Init ==
    /\ \E taken \in SUBSET Contested :
          serving = Port \ taken /\ listener = Port \ taken
    /\ inside = [p \in Port |-> {}]
    /\ job = "none" /\ left = {} /\ at = NoPort /\ count = CountForStop
    /\ status = "running" /\ offered = "none"
    /\ want = [k \in Caller |-> "none"] /\ call = [k \in Caller |-> "ready"]
    /\ age = [k \in Caller |-> 0] /\ slow = [k \in Caller |-> {}] /\ passed = {}
    /\ proc = "up"

-----------------------------------------------------------------------------
(* The clients of a port.                                                  *)

Admit(p, c) ==
    /\ proc = "up" /\ p \in serving
    /\ c \notin inside[p]
    /\ inside' = [inside EXCEPT ![p] = @ \cup {c}]
    /\ UNCHANGED <<serving, listener, execute, offered, callers, proc>>

Leave(p, c) ==
    /\ proc = "up" /\ c \in inside[p]
    /\ inside' = [inside EXCEPT ![p] = @ \ {c}]
    /\ UNCHANGED <<serving, listener, execute, offered, callers, proc>>

-----------------------------------------------------------------------------
(* controlService.                                                         *)

Target(cmd) ==
    CASE cmd = "pause" -> "paused" [] cmd = "resume" -> "running"
      [] OTHER -> "stopped"

\* s.Control(c): it returns, with the state last reported, as soon as the
\* service manager could hand the request over; a second one waits for that.
Send(k, cmd) ==
    /\ call[k] = "ready" /\ status # "stopped" /\ offered = "none"
    /\ offered' = cmd
    /\ want' = [want EXCEPT ![k] = cmd]
    /\ call' = [call EXCEPT ![k] = IF status = Target(cmd) THEN "ok" ELSE "waiting"]
    /\ UNCHANGED <<ports, execute, age, slow, passed, proc>>

\* s.Control fails: the service does not run.
SendFails(k) ==
    /\ call[k] = "ready" /\ status = "stopped"
    /\ call' = [call EXCEPT ![k] = "failed"]
    /\ UNCHANGED <<ports, execute, offered, want, age, slow, passed, proc>>

\* A Query finds the state waited for, or the deadline has passed.
Poll(k) ==
    /\ call[k] = "waiting"
    /\ status = Target(want[k]) \/ age[k] = Deadline
    /\ call' = [call EXCEPT ![k] =
                  IF status = Target(want[k]) THEN "ok" ELSE "failed"]
    /\ UNCHANGED <<ports, execute, offered, want, age, slow, passed, proc>>

-----------------------------------------------------------------------------
(* Execute.                                                                *)

\* c := <-r.  Paused and Running are reported before anything is done, Stop is
\* reported when everything is.
Take ==
    /\ proc = "up" /\ job = "none" /\ offered # "none"
    /\ job' = offered /\ offered' = "none" /\ left' = Port
    /\ status' = IF offered = "stop" THEN status ELSE Target(offered)
    /\ passed' = passed \cup {k \in Caller : want[k] # "none" /\ want[k] # offered}
    /\ UNCHANGED <<ports, at, count, want, call, age, slow, proc>>

StopsServers == proc = "up" /\ job \in {"pause", "stop"} /\ at = NoPort

\* Mutant: the listener is left open.
BugBeginShutdown(p) ==
    /\ StopsServers /\ p \in left /\ p \in listener
    /\ left' = left \ {p} /\ at' = p /\ count' = CountForStop
    /\ UNCHANGED <<ports, job, status, offered, callers, proc>>

\* stopServers: the next server in Go's random order, its flag and its listener.
BeginShutdown(p) ==
    /\ StopsServers /\ p \in left /\ p \in listener
    /\ left' = left \ {p} /\ at' = p /\ count' = CountForStop
    /\ serving' = serving \ {p}
    /\ UNCHANGED <<listener, inside, job, status, offered, callers, proc>>

\* Its listener is nil.
ShutdownPanics(p) ==
    /\ StopsServers /\ p \in left \ listener
    /\ proc' = "crashed" /\ status' = "stopped"
    /\ UNCHANGED <<ports, job, left, at, count, offered, callers>>

\* Mutant: Stop does not wait for the servers that are still to be visited.
BugServersStopped ==
    /\ StopsServers /\ (left = {} \/ (job = "stop" /\ left # Port))
    /\ job' = IF job = "stop" THEN job ELSE "none"
    /\ IF job = "stop" THEN proc' = "stopped" /\ status' = "stopped"
                       ELSE UNCHANGED <<proc, status>>
    /\ UNCHANGED <<ports, left, at, count, offered, callers>>

\* Mutant: the break after Stop is missing.
BugNoBreak ==
    /\ StopsServers /\ left = {}
    /\ job' = "none"
    /\ UNCHANGED <<ports, left, at, count, status, offered, callers, proc>>

\* The loop is through: back to the requests or, after Stop, out of Execute.
ServersStopped ==
    /\ StopsServers /\ left = {}
    /\ job' = IF job = "stop" THEN job ELSE "none"
    /\ IF job = "stop" THEN proc' = "stopped" /\ status' = "stopped"
                       ELSE UNCHANGED <<proc, status>>
    /\ UNCHANGED <<ports, left, at, count, offered, callers>>

\* Mutant: the loop ends at the first server that is found running.
BugStartServer(p) ==
    /\ proc = "up" /\ job = "resume" /\ p \in left
    /\ left' = IF p \in serving THEN left \ {p} ELSE {}
    /\ job' = IF left' = {} THEN "none" ELSE job
    /\ serving' = serving \cup {p} /\ listener' = listener \cup {p}
    /\ UNCHANGED <<inside, at, count, status, offered, callers, proc>>

\* startServers: a server that listens already keeps its socket (the second
\* loop ends at net.Listen); a contested port may not be had.
StartServer(p) ==
    /\ proc = "up" /\ job = "resume" /\ p \in left
    /\ left' = left \ {p}
    /\ job' = IF left' = {} THEN "none" ELSE job
    /\ \/ serving' = serving \cup {p} /\ listener' = listener \cup {p}
       \/ p \in Contested \ serving /\ UNCHANGED <<serving, listener>>
    /\ UNCHANGED <<inside, at, count, status, offered, callers, proc>>

-----------------------------------------------------------------------------
(* Time.                                                                   *)

\* Mutant: at 0 the connections are not closed.
BugQuiescent ==
    /\ proc = "up" => (job = "none" => offered = "none") /\ (job # "none" => at # NoPort)
    /\ \A k \in Caller :
          call[k] = "waiting" => status # Target(want[k]) /\ age[k] < Deadline

\* Until the next tick everything that needs no time has happened: Execute waits
\* for a request or in Shutdown, connections closed by force have gone, and
\* every caller, who asks each 300 ms, has seen what there was to see.
Quiescent ==
    /\ proc = "up" =>
          /\ job = "none" => offered = "none"
          /\ job # "none" => at # NoPort
          /\ at # NoPort /\ count = 0 => inside[at] = {}
    /\ \A k \in Caller :
          call[k] = "waiting" => status # Target(want[k]) /\ age[k] < Deadline

Shutting == proc = "up" /\ at # NoPort
Waiting == {k \in Caller : call[k] = "waiting"}

\* Mutant: every Shutdown waits out its whole count, clients or no clients.
BugTick ==
    /\ Quiescent /\ (Shutting \/ Waiting # {})
    /\ age' = [k \in Caller |-> IF k \in Waiting THEN age[k] + 1 ELSE age[k]]
    /\ IF ~Shutting THEN UNCHANGED <<at, count, slow>>
       ELSE IF count = 0
       THEN at' = NoPort /\ UNCHANGED <<count, slow>>
       ELSE /\ count' = count - 1
            /\ slow' = [k \in Caller |->
                          IF k \in Waiting /\ inside[at] # {} THEN slow[k] \cup {at} ELSE slow[k]]
            /\ UNCHANGED at
    /\ UNCHANGED <<ports, job, left, status, offered, want, call, passed, proc>>

\* 500 ms pass: Shutdown returns, or counts down; at 0 it closes the
\* connections that are left (which leave before the next tick).
Tick ==
    /\ Quiescent /\ (Shutting \/ Waiting # {})
    /\ age' = [k \in Caller |-> IF k \in Waiting THEN age[k] + 1 ELSE age[k]]
    /\ IF ~Shutting THEN UNCHANGED <<at, count, slow>>
       ELSE IF inside[at] = {}
       THEN at' = NoPort /\ UNCHANGED <<count, slow>>
       ELSE /\ count' = count - 1
            /\ slow' = [k \in Caller |->
                          IF k \in Waiting THEN slow[k] \cup {at} ELSE slow[k]]
            /\ UNCHANGED at
    /\ UNCHANGED <<ports, job, left, status, offered, want, call, passed, proc>>

\* The forced close may end the process (GpsServer!ForceThrows).
ForceThrows ==
    /\ proc = "up" /\ at # NoPort /\ count = 0 /\ inside[at] # {}
    /\ proc' = "crashed" /\ status' = "stopped"
    /\ UNCHANGED <<ports, job, left, at, count, offered, callers>>

-----------------------------------------------------------------------------
\* Nothing is left to wait for.
Rest == Waiting = {} /\ (proc # "up" \/ job = "none") /\ UNCHANGED vars

ExecuteStep ==
    \/ Take \/ ServersStopped
    \/ \E p \in Port : BeginShutdown(p) \/ ShutdownPanics(p) \/ StartServer(p)

Next ==
    \/ \E p \in Port, c \in Client : Admit(p, c) \/ Leave(p, c)
    \/ \E k \in Caller : (\E cmd \in Requests : Send(k, cmd)) \/ SendFails(k) \/ Poll(k)
    \/ ExecuteStep \/ Tick \/ ForceThrows \/ Rest

\* Execute runs, time passes, a forced connection leaves; callers poll.
Forced(p, c) == at = p /\ count = 0 /\ Leave(p, c)
Fairness ==
    /\ WF_vars(ExecuteStep) /\ WF_vars(Tick)
    /\ \A p \in Port, c \in Client : WF_vars(Forced(p, c))
    /\ \A k \in Caller : WF_vars(Poll(k))

Spec == Init /\ [][Next]_vars
FairSpec == Spec /\ Fairness

-----------------------------------------------------------------------------
\* Every port is a gate (what GpsServer implements), whatever Execute does to
\* the others: a request is there for all servers until their turn is over.
Asked(p) ==
    CASE job = "stop" /\ p \notin left /\ at # p -> "stopped"
      [] proc = "crashed"                        -> "crashed"
      [] p \in left \/ at = p                    -> job
      [] OTHER                                   -> "none"
PortGate(p) ==
    INSTANCE Gate WITH ask <- Asked(p), serving <- (p \in serving),
                       inside <- inside[p]
PortsAreGates ==
    /\ \A p \in Port \ Contested : PortGate(p)!Init
    /\ [][\A p \in Port \ Contested :
             PortGate(p)!Next \/ UNCHANGED PortGate(p)!vars]_vars

\* "timeout waiting for service" is reported of a request that no other one has
\* overtaken (and no Stop before it made void) only when two servers at least had
\* clients to wait for: one server never uses the ten seconds up.
TimeoutNeedsTwoSlow ==
    \A k \in Caller :
        /\ call[k] = "failed" /\ want[k] # "none" /\ k \notin passed
        /\ status = "stopped" => want[k] = "stop"
        => Cardinality(slow[k]) >= 2

\* Stop is reported when no server lets anybody in and nobody is left inside:
\* whoever is told so may replace the program.
StopIsComplete ==
    status = "stopped" /\ proc # "crashed" => serving = {} /\ \A p \in Port : inside[p] = {}

\* Between two requests all servers are in the state reported.
AllOrNone ==
    job = "none" /\ proc = "up" =>
        IF status = "paused" THEN serving = {} /\ \A p \in Port : inside[p] = {}
                             ELSE Port \ Contested \subseteq serving

\* A stop that was reported as failed is carried out all the same.
FailedStopHappens ==
    \A k \in Caller :
        call[k] = "failed" /\ want[k] = "stop" ~> status = "stopped"
=============================================================================
