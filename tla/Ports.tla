-------------------------------- MODULE Ports --------------------------------
(***************************************************************************)
(* From the configured list of ports to running servers: initServer and    *)
(* MakePortsFromSlice.  An entry such as "1-5" is the separator it         *)
(* contains and the strings between separators; a string is the number     *)
(* Atoi reads from it, or NaN.  Entries that mix "-" and ":" split into    *)
(* strings of which one is NaN.                                            *)
(***************************************************************************)
EXTENDS Integers, Sequences, SequencesExt

CONSTANTS
    Configs,  \* lists of entries the configuration file may hold
    NaN       \* a string that is no number

Entry == {e \in [sep : {"", "-", ":"}, parts : Seq(Nat \cup {NaN})] :
            e.sep = "" => Len(e.parts) = 1}
ASSUME ConfigAssumption == Configs \subseteq Seq(Entry) /\ NaN \notin Nat

VARIABLES
    config,   \* config.Config.Ports
    next,     \* the entry MakePortsFromSlice comes to
    res,      \* its result so far
    started,  \* ports of the servers started, in order: `go srv.ListenAndServe()`
    servers,  \* the map from port to the server (its place in started)
    pc        \* "down", "parse", "start", "run" or "exit"

portVars == <<config, next, res, started, servers, pc>>

PortsTypeOK ==
    /\ config \in Configs \cup {<<>>}
    /\ next \in 1 .. Len(config) + 1
    /\ res \in Seq(Nat)
    /\ started \in Seq(Nat)
    /\ DOMAIN servers \subseteq Nat
    /\ \A p \in DOMAIN servers : servers[p] \in DOMAIN started
    /\ pc \in {"down", "parse", "start", "run", "exit"}

PortsInit ==
    /\ config = <<>> /\ next = 1 /\ res = <<>> /\ started = <<>>
    /\ servers = [p \in {} |-> 0]
    /\ pc = "down"

\* runService and Execute come to initServer with the configuration read.
InitServer(c) ==
    /\ pc = "down" /\ pc' = "parse"
    /\ config' = c
    /\ UNCHANGED <<next, res, started, servers>>

\* The process is gone, and its ports with it.
PortsEnd ==
    /\ config' = <<>> /\ next' = 1 /\ res' = <<>> /\ started' = <<>>
    /\ servers' = [p \in {} |-> 0]
    /\ pc' = "down"

\* makeSlicePort: two numbers in order, and every number from one to the other.
IsSlice(parts) ==
    Len(parts) = 2 /\ NaN \notin {parts[1], parts[2]} /\ parts[1] <= parts[2]
Slice(parts) == [i \in 1 .. parts[2] - parts[1] + 1 |-> parts[1] + i - 1]

\* strconv.Atoi of the whole entry: a separator in it is no digit.
Atoi(e) == IF e.sep = "" THEN e.parts[1] ELSE NaN

\* An entry has to pass all it comes to.  A range comes to Atoi as well, for the
\* code falls through to it from the branch of ranges, and does not pass.
IsGood(e) == (e.sep # "" => IsSlice(e.parts)) /\ Atoi(e) # NaN

\* What an entry that has passed leaves in the result: of a range that would be its
\* numbers too, but of a plain number, the only one to pass, it is the number.
Added(e) == (IF e.sep = "" THEN <<>> ELSE Slice(e.parts)) \o <<Atoi(e)>>

GoodEntry ==
    /\ pc = "parse" /\ next <= Len(config) /\ IsGood(config[next])
    /\ res' = res \o Added(config[next])
    /\ next' = next + 1
    /\ UNCHANGED <<config, started, servers, pc>>

\* Mutant: the entry is passed over (continue for return).
BugBadEntry ==
    /\ pc = "parse" /\ next <= Len(config) /\ ~IsGood(config[next])
    /\ next' = next + 1
    /\ UNCHANGED <<config, res, started, servers, pc>>

\* The first error makes the result nil, and initServer ends the process.
BadEntry ==
    /\ pc = "parse" /\ next <= Len(config) /\ ~IsGood(config[next])
    /\ res' = <<>> /\ pc' = "exit"
    /\ UNCHANGED <<config, next, started, servers>>

EntriesDone ==
    /\ pc = "parse" /\ next > Len(config)
    /\ pc' = "start"
    /\ UNCHANGED <<config, next, res, started, servers>>

\* Mutants: servers counted from 0, and every port given the latest server
\* (the address of a shared loop variable).
BugStartServer ==
    /\ pc = "start" /\ Len(started) < Len(res)
    /\ LET p == res[Len(started) + 1]
       IN  /\ started' = Append(started, p)
           /\ servers' = [q \in DOMAIN servers \cup {p} |->
                            IF q = p THEN Len(started) ELSE servers[q]]
    /\ UNCHANGED <<config, next, res, pc>>

BugSharedServer ==
    /\ pc = "start" /\ Len(started) < Len(res)
    /\ LET p == res[Len(started) + 1]
       IN  /\ started' = Append(started, p)
           /\ servers' = [q \in DOMAIN servers \cup {p} |-> Len(started) + 1]
    /\ UNCHANGED <<config, next, res, pc>>

\* One server per port of the result; the map keeps the last one of a port.
StartServer ==
    /\ pc = "start" /\ Len(started) < Len(res)
    /\ LET p == res[Len(started) + 1]
       IN  /\ started' = Append(started, p)
           /\ servers' = [q \in DOMAIN servers \cup {p} |->
                            IF q = p THEN Len(started) + 1 ELSE servers[q]]
    /\ UNCHANGED <<config, next, res, pc>>

AllStarted ==
    /\ pc = "start" /\ Len(started) = Len(res)
    /\ pc' = "run"
    /\ UNCHANGED <<config, next, res, started, servers>>

PortsStep == GoodEntry \/ BadEntry \/ EntriesDone \/ StartServer \/ AllStarted

-----------------------------------------------------------------------------
\* A service that runs was given plain numbers only, and has started a server for
\* each of them in the order listed; it ends (ChkErrFatal) before that only for an
\* entry that is none.
IsNumber(e) == e.sep = "" /\ e.parts[1] # NaN
NumbersAreServed ==
    /\ pc = "run" =>
          /\ \A i \in DOMAIN config : IsNumber(config[i])
          /\ started = [i \in DOMAIN config |-> config[i].parts[1]]
    /\ pc = "exit" => \E i \in DOMAIN config : ~IsNumber(config[i])

\* What the comment of MakePortsFromSlice says (utils.go:68): {"1-5","9","11:13"}
\* makes the numbers 1 to 5, 9 and 11 to 13.  Only an entry that is neither a number
\* nor two numbers in order is refused, and the result is what the others stand for.
WellFormed(e) == IsNumber(e) \/ (e.sep # "" /\ IsSlice(e.parts))
Stands(e) == IF e.sep = "" THEN e.parts ELSE Slice(e.parts)
RangesAreServed ==
    /\ pc = "exit" => \E i \in DOMAIN config : ~WellFormed(config[i])
    /\ pc = "run" => started = FlattenSeq([i \in DOMAIN config |-> Stands(config[i])])

\* Every server started can be reached by stopServers, unless a port is listed
\* twice: the earlier server of such a port is lost from the map.
EveryServerIsStoppable ==
    pc = "run" =>
        \A i \in DOMAIN started :
            (\A j \in DOMAIN started : started[i] = started[j] => i = j) =>
                servers[started[i]] = i
=============================================================================
