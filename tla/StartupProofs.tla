---------------------------- MODULE StartupProofs -----------------------------
(***************************************************************************)
(* The configuration file, the service's entry and the map of servers, for  *)
(* any number of processes and any lists of ports.                          *)
(***************************************************************************)
EXTENDS Startup, DataLemmas, TLAPS

USE ConfigAssumption, ProcAssumption

-----------------------------------------------------------------------------
(* The configuration file.                                                 *)

FileTypeOK ==
    /\ file \in Configs \cup {Absent, Torn}
    /\ cmd \in [Proc -> Admin \cup {"service"}]
    /\ step \in [Proc -> Steps]
    /\ conf \in [Proc -> Configs \cup {<<>>}]
    /\ current \subseteq Proc

\* Who has read the file is no longer in ReadConfig; and while a process is about
\* to write the default, nobody holds anything else.
Writers ==
    /\ \A p \in Proc : step[p] \in Reading => p \notin current
    /\ \A p \in Proc : step[p] = "writing" => conf[p] = Default
    /\ (\E p \in Proc : step[p] \in {"write", "writing"}) =>
          /\ file \in {Absent, Torn, Default}
          /\ \A q \in current : conf[q] = Default
    /\ file = Absent => current = {}

FileInv == FileTypeOK /\ Writers /\ ConfigIsStable

\* No process has read the file yet.
LEMMA FileInit == Init => FileInv
  BY DEF Init, FileInv, FileTypeOK, Writers, ConfigIsStable, Steps

\* Only a first run replaces the file, and by the default all first runs share.
LEMMA FileNext == FileInv /\ [Next]_vars => FileInv'
<1> SUFFICES ASSUME FileInv, [Next]_vars PROVE FileInv'
  OBVIOUS
<1> USE DEF FileInv, FileTypeOK, Writers, ConfigIsStable, disk, procs, Goes,
            Steps, Reading, Admin, Ended
<1>1. ASSUME UNCHANGED <<file, cmd, step, conf, current>> PROVE FileInv'
  BY <1>1
<1>2. ASSUME NEW p \in Proc, NEW c \in Admin \cup {"service"}, Run(p, c) PROVE FileInv'
  BY <1>2 DEF Run
<1>3. ASSUME NEW p \in Proc, End(p) PROVE FileInv'
  BY <1>3 DEF End
<1>4. ASSUME NEW p \in Proc, NEW from \in Reading, Fails(p, from) PROVE FileInv'
  BY <1>4 DEF Fails
<1>5. ASSUME NEW p \in Proc, Exists(p) PROVE FileInv'
  BY <1>5 DEF Exists
<1>6. ASSUME NEW p \in Proc, ReadFile(p) PROVE FileInv'
  BY <1>6 DEF ReadFile
<1>7. ASSUME NEW p \in Proc, CreateFile(p) PROVE FileInv'
  BY <1>7 DEF CreateFile
<1>8. ASSUME NEW p \in Proc, WriteFile(p) PROVE FileInv'
  BY <1>8 DEF WriteFile
<1>9. ASSUME NEW f \in Configs \cup {Absent}, Edit(f) PROVE FileInv'
  BY <1>9 DEF Edit
\* what main does after ReadConfig neither reads nor writes the file
<1>10. ASSUME NEW p \in Proc, Command(p) PROVE FileInv'
  <2>1. PICK from \in Steps \ Reading, to \in Steps \ Reading : Calls(p, from, to)
    BY <1>10 DEF Command, OpenService, CreateService, InstallSource, UndoCreate,
       DeleteService, RemoveSource
  <2> QED BY <2>1 DEF Calls
<1>11. ASSUME NEW p \in Proc, Serve(p) PROVE UNCHANGED <<file, cmd, step, conf, current>>
  BY <1>11 DEF Serve
<1>12. ASSUME Ports PROVE UNCHANGED <<file, cmd, step, conf, current>>
  BY <1>12 DEF Ports
<1>13. CASE UNCHANGED vars
  BY <1>1, <1>13 DEF vars
<1> QED BY <1>1, <1>2, <1>3, <1>4, <1>5, <1>6, <1>7, <1>8, <1>9, <1>10, <1>11,
           <1>12, <1>13 DEF Next, ReadConfig

\* What a process was configured with is not replaced by another process.
THEOREM ConfigStaysInUse == Spec => []ConfigIsStable
<1>1. FileInv => ConfigIsStable
  BY DEF FileInv
<1> QED BY <1>1, FileInit, FileNext, PTL DEF Spec

-----------------------------------------------------------------------------
(* The commands.                                                           *)

Installing == {"create", "log", "undo"}
Removing == {"delete", "unlog"}

\* One command runs at a time, and knows what it has done so far.
Progress ==
    /\ \A p \in Proc : step[p] \in Installing => cmd[p] = "install"
    /\ \A p \in Proc : step[p] \in Removing => cmd[p] = "remove"
    /\ \A p, q \in Proc :
          p # q => cmd[p] = "service" \/ cmd[q] = "service"
                   \/ step[p] \in Ended \/ step[q] \in Ended
    /\ \A p \in Proc : step[p] \in {"log", "undo"} => installed
    /\ \A p \in Proc : step[p] = "unlog" => ~installed

CommandTypeOK ==
    /\ cmd \in [Proc -> Admin \cup {"service"}]
    /\ step \in [Proc -> Steps]
    /\ installed \in BOOLEAN

CommandInv == CommandTypeOK /\ Progress

\* No command has begun.
LEMMA CommandInit == Init => CommandInv
  BY DEF Init, CommandInv, CommandTypeOK, Progress, Steps, Installing, Removing, Ended

\* What a command has done stays done: no other command runs beside it.
LEMMA CommandNext == CommandInv /\ [Next]_vars => CommandInv'
<1> SUFFICES ASSUME CommandInv, [Next]_vars PROVE CommandInv'
  OBVIOUS
<1> USE DEF CommandInv, CommandTypeOK, Progress, procs, manager, Goes,
            Steps, Installing, Removing, Reading, Admin, Ended
<1>1. ASSUME UNCHANGED <<cmd, step, installed>> PROVE CommandInv'
  BY <1>1
<1>2. ASSUME NEW p \in Proc, NEW c \in Admin \cup {"service"}, Run(p, c) PROVE CommandInv'
  BY <1>2 DEF Run
<1>3. ASSUME NEW p \in Proc, End(p) PROVE CommandInv'
  BY <1>3 DEF End
<1>4. ASSUME NEW p \in Proc, ReadConfig(p) PROVE CommandInv'
  BY <1>4 DEF ReadConfig, Fails, Exists, ReadFile, CreateFile, WriteFile
<1>5. ASSUME NEW p \in Proc, OpenService(p) PROVE CommandInv'
  BY <1>5 DEF OpenService, Calls
<1>6. ASSUME NEW p \in Proc, CreateService(p) PROVE CommandInv'
  BY <1>6 DEF CreateService, Calls
<1>7. ASSUME NEW p \in Proc, InstallSource(p) PROVE CommandInv'
  BY <1>7 DEF InstallSource, Calls
<1>8. ASSUME NEW p \in Proc, UndoCreate(p) PROVE CommandInv'
  <2>1. Goes(p, "undo", "failed") /\ installed' \in BOOLEAN /\ UNCHANGED cmd
    BY <1>8 DEF UndoCreate, Calls
  <2> QED BY <2>1
<1>9. ASSUME NEW p \in Proc, DeleteService(p) PROVE CommandInv'
  BY <1>9 DEF DeleteService, Calls
<1>10. ASSUME NEW p \in Proc, RemoveSource(p) PROVE CommandInv'
  BY <1>10 DEF RemoveSource, Calls
<1>11. ASSUME NEW p \in Proc, Serve(p) PROVE CommandInv'
  BY <1>1, <1>11 DEF Serve
<1>12. CASE Ports
  BY <1>1, <1>12 DEF Ports
<1>13. ASSUME NEW f \in Configs \cup {Absent}, Edit(f) PROVE CommandInv'
  BY <1>1, <1>13 DEF Edit
<1>14. CASE UNCHANGED vars
  BY <1>1, <1>14 DEF vars
<1> QED BY <1>2, <1>3, <1>4, <1>5, <1>6, <1>7, <1>8, <1>9, <1>10, <1>11, <1>12,
           <1>13, <1>14 DEF Next, Command

\* A command that succeeds has done all of it.
THEOREM CommandsAreComplete == Spec => SuccessIsComplete
<1>1. ASSUME CommandInv, [Next]_vars, NEW p \in Proc, step[p] # "ok", step'[p] = "ok"
      PROVE  IF cmd[p] = "install" THEN installed' /\ source' ELSE ~installed' /\ ~source'
  <2> USE DEF CommandInv, CommandTypeOK, Progress, procs, Goes, Calls
  <2>1. ASSUME NEW q \in Proc, InstallSource(q)
        PROVE  q = p /\ cmd[p] = "install" /\ installed' /\ source'
    BY <1>1, <2>1 DEF InstallSource, Installing
  <2>2. ASSUME NEW q \in Proc, RemoveSource(q)
        PROVE  q = p /\ cmd[p] = "remove" /\ ~installed' /\ ~source'
    BY <1>1, <2>2 DEF RemoveSource, Removing
  <2>3. ASSUME NEW q \in Proc,
               OpenService(q) \/ CreateService(q) \/ UndoCreate(q) \/ DeleteService(q)
        PROVE  FALSE
    BY <1>1, <2>3 DEF OpenService, CreateService, UndoCreate, DeleteService
  <2>4. ASSUME NEW q \in Proc,
               (\E c \in Admin \cup {"service"} : Run(q, c)) \/ End(q) \/ ReadConfig(q)
        PROVE  FALSE
    BY <1>1, <2>4 DEF Run, End, ReadConfig, Fails, Exists, ReadFile, CreateFile,
       WriteFile, Reading
  <2>5. (\E q \in Proc : Serve(q)) \/ Ports \/ (\E f \in Configs \cup {Absent} : Edit(f))
          \/ UNCHANGED vars => step' = step
    BY DEF Serve, Ports, Edit, vars
  <2> QED BY <1>1, <2>1, <2>2, <2>3, <2>4, <2>5 DEF Next, Command
<1>2. CommandInv /\ [Next]_vars =>
        [\A p \in Proc : step[p] # "ok" /\ step'[p] = "ok" =>
           IF cmd[p] = "install" THEN installed' /\ source' ELSE ~installed' /\ ~source']_vars
  BY <1>1
<1> QED BY <1>2, CommandInit, CommandNext, PTL DEF Spec, SuccessIsComplete

-----------------------------------------------------------------------------
(* The ports and the map of servers.                                       *)

\* The map files the servers started so far under their own ports; what is
\* down has started none.
ServersInv ==
    /\ PortsTypeOK
    /\ config \in Seq(Entry)
    /\ pc = "down" => next = 1 /\ res = <<>> /\ started = <<>>
    /\ DOMAIN servers = {started[i] : i \in DOMAIN started}
    /\ \A p \in DOMAIN servers : started[servers[p]] = p

\* No server is started yet.
LEMMA ServersInit == Init => ServersInv
  BY DEF Init, PortsInit, ServersInv, PortsTypeOK

\* An entry that is accepted is a number, and adds it.
LEMMA GoodIsNumber ==
    ASSUME NEW e \in Entry, IsGood(e)
    PROVE  IsNumber(e) /\ e.parts[1] \in Nat /\ Added(e) = <<e.parts[1]>>
<1>1. e.sep = "" /\ Atoi(e) = e.parts[1] /\ e.parts[1] # NaN
  BY DEF IsGood, Atoi
<1>2. e.parts \in Seq(Nat \cup {NaN}) /\ Len(e.parts) = 1
  BY <1>1 DEF Entry
<1>3. e.parts[1] \in Nat
  <2>1. e.parts[1] \in Nat \cup {NaN}
    BY <1>2
  <2> QED BY <1>1, <2>1
<1>4. Added(e) = <<>> \o <<e.parts[1]>>
  BY <1>1 DEF Added
<1>5. Added(e) = <<e.parts[1]>>
  <2> DEFINE n == e.parts[1]
  <2>1. <<>> \o <<n>> = <<n>>
    <3> HIDE DEF n
    <3> QED BY <1>3
  <2> QED BY <1>4, <2>1
<1> QED BY <1>1, <1>3, <1>5 DEF IsNumber

\* One that is refused is none.
LEMMA BadIsNone == ASSUME NEW e \in Entry, ~IsGood(e) PROVE ~IsNumber(e)
  BY DEF IsGood, IsNumber, Atoi

LEMMA AddedPorts == ASSUME NEW e \in Entry, IsGood(e) PROVE Added(e) \in Seq(Nat)
<1> DEFINE n == e.parts[1]
<1>1. n \in Nat /\ Added(e) = <<n>>
  BY GoodIsNumber
<1> HIDE DEF n
<1> QED BY <1>1

\* A server started is filed under its port; a later one of that port replaces
\* it, and no other entry of the map.
LEMMA ServersNext == FileInv /\ ServersInv /\ [Next]_vars => ServersInv'
<1> SUFFICES ASSUME FileInv, ServersInv, [Next]_vars PROVE ServersInv'
  OBVIOUS
<1> USE DEF ServersInv, PortsTypeOK
<1>1. ASSUME UNCHANGED portVars PROVE ServersInv'
  BY <1>1 DEF portVars
<1>2. CASE PortsEnd
  BY <1>2 DEF PortsEnd
<1>3. ASSUME NEW p \in Proc, Serve(p) PROVE ServersInv'
  <2>1. conf[p] \in Configs \cup {<<>>}
    BY DEF FileInv, FileTypeOK
  <2>2. <<>> \in Seq(Entry)
    OBVIOUS
  <2>3. conf[p] \in Seq(Entry)
    BY <2>1, <2>2, ConfigAssumption, Zenon DEF ConfigAssumption
  <2> QED BY <1>3, <2>1, <2>3 DEF Serve, InitServer
<1>4. CASE GoodEntry
  <2>1. config[next] \in Entry /\ Added(config[next]) \in Seq(Nat)
    BY <1>4, AddedPorts DEF GoodEntry
  <2>2. res' \in Seq(Nat)
    BY <1>4, <2>1 DEF GoodEntry
  <2>3. next' \in 1 .. Len(config) + 1
    BY <1>4 DEF GoodEntry
  <2> QED BY <1>4, <2>2, <2>3 DEF GoodEntry
<1>5. CASE BadEntry
  <2>1. res' \in Seq(Nat)
    BY <1>5 DEF BadEntry
  <2> QED BY <1>5, <2>1 DEF BadEntry
<1>6. CASE EntriesDone
  BY <1>6 DEF EntriesDone
<1>7. CASE StartServer
  <2> DEFINE p == res[Len(started) + 1]
             n == Len(started) + 1
  <2>1. p \in Nat /\ started' = Append(started, p)
        /\ servers' = [q \in DOMAIN servers \cup {p} |-> IF q = p THEN n ELSE servers[q]]
        /\ UNCHANGED <<config, next, res, pc>> /\ pc = "start"
    BY <1>7 DEF StartServer
  <2> HIDE DEF p
  <2>2. started' \in Seq(Nat) /\ DOMAIN started' = DOMAIN started \cup {n} /\ started'[n] = p
        /\ \A i \in DOMAIN started : started'[i] = started[i]
    BY <2>1
  <2>3. DOMAIN servers' = DOMAIN servers \cup {p} /\ servers'[p] = n
        /\ \A q \in DOMAIN servers \ {p} : servers'[q] = servers[q]
    BY <2>1
  <2> HIDE DEF n
  <2>4. DOMAIN servers' = {started'[i] : i \in DOMAIN started'}
    BY <2>2, <2>3
  <2>5. \A q \in DOMAIN servers' : servers'[q] \in DOMAIN started' /\ started'[servers'[q]] = q
    BY <2>2, <2>3
  <2>6. DOMAIN servers' \subseteq Nat
    BY <2>1, <2>3
  <2> QED BY <2>1, <2>2, <2>4, <2>5, <2>6
<1>8. CASE AllStarted
  BY <1>8 DEF AllStarted
<1>9. ASSUME NEW p \in Proc, End(p) PROVE ServersInv'
  BY <1>1, <1>2, <1>9 DEF End
<1>10. ASSUME NEW p \in Proc, (\E c \in Admin \cup {"service"} : Run(p, c)) \/ ReadConfig(p)
       PROVE  UNCHANGED portVars
  BY <1>10 DEF Run, ReadConfig, Fails, Exists, ReadFile, CreateFile, WriteFile
<1>11. ASSUME NEW p \in Proc, Command(p) PROVE UNCHANGED portVars
  BY <1>11 DEF Command, OpenService, CreateService, InstallSource, UndoCreate,
     DeleteService, RemoveSource, Calls
<1>12. ASSUME NEW f \in Configs \cup {Absent}, Edit(f) PROVE UNCHANGED portVars
  BY <1>12 DEF Edit
<1>13. CASE UNCHANGED vars
  BY <1>1, <1>13 DEF vars
<1> QED BY <1>1, <1>3, <1>4, <1>5, <1>6, <1>7, <1>8, <1>9, <1>10, <1>11, <1>12,
           <1>13 DEF Next, Ports, PortsStep

\* stopServers reaches every server whose port is listed once.
THEOREM ServersAreStoppable == Spec => []EveryServerIsStoppable
<1>1. ServersInv => EveryServerIsStoppable
  <2> SUFFICES ASSUME ServersInv, NEW i \in DOMAIN started,
                      \A j \in DOMAIN started : started[i] = started[j] => i = j
               PROVE  servers[started[i]] = i
    BY DEF EveryServerIsStoppable
  <2>1. started[i] \in DOMAIN servers
    BY DEF ServersInv
  <2>2. servers[started[i]] \in DOMAIN started /\ started[servers[started[i]]] = started[i]
    BY <2>1 DEF ServersInv, PortsTypeOK
  <2> QED BY <2>2
<1> QED BY <1>1, FileInit, FileNext, ServersInit, ServersNext, PTL DEF Spec

-----------------------------------------------------------------------------
(* The ports listed and the servers started.                               *)

\* The parse has taken the entries before the next one for the numbers they are, or
\* has met one that is none; the servers are started in the order of its result.
ListInv ==
    /\ pc \in {"parse", "start", "run"} =>
          /\ Len(res) = next - 1
          /\ \A i \in 1 .. next - 1 : IsNumber(config[i]) /\ res[i] = config[i].parts[1]
    /\ pc = "exit" => \E i \in DOMAIN config : ~IsNumber(config[i])
    /\ pc \in {"start", "run"} => next = Len(config) + 1
    /\ pc \in {"down", "parse"} => started = <<>>
    /\ pc \in {"start", "run"} =>
          Len(started) <= Len(res) /\ \A i \in 1 .. Len(started) : started[i] = res[i]
    /\ pc = "run" => Len(started) = Len(res)

\* What is down has parsed nothing and started nothing.
LEMMA ListInit == Init => ListInv
  BY DEF Init, PortsInit, ListInv

\* The parse goes from entry to entry, and the servers from port to port.
LEMMA ListNext == FileInv /\ ServersInv /\ ListInv /\ [Next]_vars => ListInv'
<1> SUFFICES ASSUME FileInv, ServersInv, ListInv, [Next]_vars PROVE ListInv'
  OBVIOUS
<1>0. /\ config \in Seq(Entry) /\ Len(config) \in Nat /\ next \in 1 .. Len(config) + 1
      /\ res \in Seq(Nat) /\ started \in Seq(Nat)
  BY DEF ServersInv, PortsTypeOK
<1>1. ASSUME UNCHANGED portVars PROVE ListInv'
  BY <1>1 DEF portVars, ListInv
<1>2. CASE PortsEnd
  BY <1>2 DEF PortsEnd, ListInv
<1>3. ASSUME NEW p \in Proc, Serve(p) PROVE ListInv'
  <2>1. /\ pc' = "parse" /\ next' = 1 /\ res' = <<>> /\ started' = <<>>
    BY <1>3 DEF Serve, InitServer, ServersInv
  <2> QED BY <2>1 DEF ListInv
<1>4. CASE GoodEntry
  <2> DEFINE e == config[next]
             n == e.parts[1]
  <2>1. /\ pc = "parse" /\ next \in 1 .. Len(config) /\ IsGood(e)
        /\ res' = res \o Added(e) /\ next' = next + 1
        /\ UNCHANGED <<config, started, servers, pc>>
    BY <1>0, <1>4 DEF GoodEntry
  <2>2. IsNumber(e) /\ n \in Nat /\ Added(e) = <<n>>
    BY <1>0, <2>1, GoodIsNumber
  <2>3. /\ Len(res) = next - 1
        /\ \A i \in 1 .. next - 1 : IsNumber(config[i]) /\ res[i] = config[i].parts[1]
    BY <2>1 DEF ListInv
  <2>4. Len(res') = next /\ res'[next] = n /\ \A i \in 1 .. next - 1 : res'[i] = res[i]
    <3> HIDE DEF e, n
    <3>1. res' = res \o <<n>>
      BY <2>1, <2>2
    <3>2. res \in Seq(Nat) /\ n \in Nat /\ next \in Nat /\ Len(res) = next - 1
      BY <1>0, <2>2, <2>3
    <3>3. Len(res') = Len(res) + 1 /\ res'[Len(res) + 1] = n
      BY <3>1, <3>2
    <3>4. ASSUME NEW i \in 1 .. next - 1 PROVE res'[i] = res[i]
      BY <3>1, <3>2
    <3> QED BY <3>2, <3>3, <3>4
  <2>5. \A i \in 1 .. next : IsNumber(config[i]) /\ res'[i] = config[i].parts[1]
    <3> SUFFICES ASSUME NEW i \in 1 .. next
                 PROVE  IsNumber(config[i]) /\ res'[i] = config[i].parts[1]
      OBVIOUS
    <3>1. CASE i = next
      BY <2>2, <2>4, <3>1
    <3>2. CASE i # next
      <4>1. i \in 1 .. next - 1
        BY <1>0, <3>2
      <4> QED BY <2>3, <2>4, <4>1
    <3> QED BY <3>1, <3>2
  <2>6. next' - 1 = next
    BY <1>0, <2>1
  <2> QED BY <2>1, <2>4, <2>5, <2>6 DEF ListInv
<1>5. CASE BadEntry
  <2>1. next \in DOMAIN config /\ config[next] \in Entry /\ ~IsGood(config[next])
    BY <1>0, <1>5 DEF BadEntry
  <2>2. ~IsNumber(config[next])
    BY <2>1, BadIsNone
  <2>3. pc' = "exit" /\ UNCHANGED config
    BY <1>5 DEF BadEntry
  <2> QED BY <2>1, <2>2, <2>3 DEF ListInv
<1>6. CASE EntriesDone
  BY <1>0, <1>6 DEF EntriesDone, ListInv
<1>7. CASE StartServer
  <2> DEFINE p == res[Len(started) + 1]
  <2>1. /\ p \in Nat /\ started' = Append(started, p) /\ Len(started) < Len(res)
        /\ UNCHANGED <<config, next, res, pc>> /\ pc = "start"
    BY <1>0, <1>7 DEF StartServer
  <2>2. Len(started') = Len(started) + 1 /\ \A i \in 1 .. Len(started') : started'[i] = res[i]
    BY <1>0, <2>1 DEF ListInv
  <2> QED BY <1>0, <2>1, <2>2 DEF ListInv
<1>8. CASE AllStarted
  BY <1>8 DEF AllStarted, ListInv
<1>9. ASSUME NEW p \in Proc, End(p) PROVE ListInv'
  BY <1>1, <1>2, <1>9 DEF End
<1>10. ASSUME NEW p \in Proc, (\E c \in Admin \cup {"service"} : Run(p, c)) \/ ReadConfig(p)
       PROVE  UNCHANGED portVars
  BY <1>10 DEF Run, ReadConfig, Fails, Exists, ReadFile, CreateFile, WriteFile
<1>11. ASSUME NEW p \in Proc, Command(p) PROVE UNCHANGED portVars
  BY <1>11 DEF Command, OpenService, CreateService, InstallSource, UndoCreate,
     DeleteService, RemoveSource, Calls
<1>12. ASSUME NEW f \in Configs \cup {Absent}, Edit(f) PROVE UNCHANGED portVars
  BY <1>12 DEF Edit
<1>13. CASE UNCHANGED vars
  BY <1>1, <1>13 DEF vars
<1> QED BY <1>1, <1>3, <1>4, <1>5, <1>6, <1>7, <1>8, <1>9, <1>10, <1>11, <1>12,
           <1>13 DEF Next, Ports, PortsStep

\* A service that runs was given plain numbers only and has started a server for
\* each, in the order listed, and one that does not come to run for its list was
\* given something else: whatever lists of entries the file may hold.
THEOREM NumbersGetServers == Spec => []NumbersAreServed
<1>1. ServersInv /\ ListInv => NumbersAreServed
  <2> SUFFICES ASSUME ServersInv, ListInv, pc = "run"
               PROVE  /\ \A i \in DOMAIN config : IsNumber(config[i])
                      /\ started = [i \in DOMAIN config |-> config[i].parts[1]]
    BY DEF NumbersAreServed, ListInv
  <2>1. /\ Len(config) \in Nat /\ DOMAIN config = 1 .. Len(config)
        /\ res \in Seq(Nat) /\ started \in Seq(Nat) /\ next \in Nat
    BY DEF ServersInv, PortsTypeOK
  <2>2. /\ Len(res) = Len(config)
        /\ \A i \in 1 .. Len(config) : IsNumber(config[i]) /\ res[i] = config[i].parts[1]
    BY <2>1 DEF ListInv
  <2>3. Len(started) = Len(config) /\ \A i \in 1 .. Len(config) : started[i] = res[i]
    BY <2>1, <2>2 DEF ListInv
  <2>4. started = [i \in DOMAIN config |-> config[i].parts[1]]
    BY <2>1, <2>2, <2>3
  <2> QED BY <2>1, <2>2, <2>4
<1> QED BY <1>1, FileInit, FileNext, ServersInit, ServersNext, ListInit, ListNext, PTL
        DEF Spec

-----------------------------------------------------------------------------
EditsInv == edits \in 0 .. MaxEdits /\ source \in BOOLEAN

\* The operator's edits stay within their bound, the event source a Boolean.
LEMMA EditsStep == EditsInv /\ [Next]_vars => EditsInv'
<1> SUFFICES ASSUME EditsInv, [Next]_vars PROVE EditsInv'
  OBVIOUS
<1> USE DEF EditsInv, disk, manager
<1>1. ASSUME NEW p \in Proc,
             (\E c \in Admin \cup {"service"} : Run(p, c)) \/ End(p) \/ ReadConfig(p) \/ Serve(p)
      PROVE  UNCHANGED <<edits, source>>
  BY <1>1 DEF Run, End, Serve, ReadConfig, Fails, Exists, ReadFile, CreateFile, WriteFile
<1>2. ASSUME NEW p \in Proc, Command(p) PROVE edits' = edits /\ source' \in BOOLEAN
  BY <1>2 DEF Command, OpenService, CreateService, InstallSource, UndoCreate,
     DeleteService, RemoveSource, Calls
<1>3. ASSUME NEW f \in Configs \cup {Absent}, Edit(f)
      PROVE  edits' \in 0 .. MaxEdits /\ source' = source
  BY <1>3 DEF Edit
<1>4. Ports \/ UNCHANGED vars => UNCHANGED <<edits, source>>
  BY DEF Ports, vars
<1> QED BY <1>1, <1>2, <1>3, <1>4 DEF Next

\* Every variable keeps its type: the parse stays within the list, and every
\* entry of the map is a server started.
THEOREM TypeCorrect == Spec => []TypeOK
<1>1. Init => EditsInv
  <2>1. Init => edits = 0 /\ source \in BOOLEAN
    BY DEF Init
  <2>2. 0 \in 0 .. MaxEdits
    BY DEF ProcAssumption
  <2> QED BY <2>1, <2>2 DEF EditsInv
<1>2. FileInv /\ CommandInv /\ ServersInv /\ EditsInv => TypeOK
  BY DEF FileInv, FileTypeOK, CommandInv, CommandTypeOK, ServersInv, EditsInv, TypeOK
<1> QED BY <1>1, <1>2, EditsStep, FileInit, FileNext, CommandInit, CommandNext,
           ServersInit, ServersNext, PTL DEF Spec
=============================================================================
