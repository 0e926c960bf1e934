------------------------------- MODULE Startup --------------------------------
(***************************************************************************)
(* The processes of the program: the service, and the commands install and  *)
(* remove.  Each begins with ReadConfig, whose first run writes the default *)
(* configuration; the service goes on to its ports, the commands to the     *)
(* service manager and the event log.  Any of them may be killed anywhere.  *)
(***************************************************************************)
EXTENDS Ports

CONSTANTS
    Proc,     \* processes that may run
    Default,  \* the ports of setstandartconfig
    Absent,   \* there is no configuration file
    Torn,     \* it is cut short: no JSON
    MaxEdits  \* times the operator edits the file (bounds the model)

ASSUME ProcAssumption ==
    /\ Default \in Configs /\ MaxEdits \in Nat
    /\ Absent \notin Configs /\ Torn \notin Configs /\ Absent # Torn

VARIABLES
    file,      \* <program>.json
    cmd,       \* what each process was started for
    step,      \* where it is
    conf,      \* its config.Config (the ports)
    current,   \* auxiliary: processes that read or wrote the file as it was left last
    edits,     \* times the file was edited
    installed, \* the service manager knows the service
    source     \* the event log knows its source

disk == <<file, edits>>
procs == <<cmd, step, conf>>
manager == <<installed, source>>
vars == <<portVars, disk, procs, current, manager>>

Steps == {"idle", "exists", "read", "write", "writing", "loaded",
          "create", "log", "undo", "delete", "unlog", "ok", "failed"}
Reading == {"exists", "read", "write", "writing"}
Admin == {"install", "remove"}
Ended == {"idle", "ok", "failed"}

TypeOK ==
    /\ PortsTypeOK
    /\ file \in Configs \cup {Absent, Torn}
    /\ cmd \in [Proc -> Admin \cup {"service"}]
    /\ step \in [Proc -> Steps]
    /\ conf \in [Proc -> Configs \cup {<<>>}]
    /\ current \subseteq Proc /\ edits \in 0 .. MaxEdits
    /\ installed \in BOOLEAN /\ source \in BOOLEAN

Init ==
    /\ PortsInit
    /\ file \in Configs \cup {Absent} /\ edits = 0
    /\ cmd = [p \in Proc |-> "service"] /\ step = [p \in Proc |-> "idle"]
    /\ conf = [p \in Proc |-> <<>>] /\ current = {}
    /\ installed = FALSE /\ source = FALSE

Goes(p, from, to) == step[p] = from /\ step' = [step EXCEPT ![p] = to]

-----------------------------------------------------------------------------
(* Who runs the processes, and edits the file.                             *)

\* One service and one command at a time.
Run(p, c) ==
    /\ step[p] \in Ended /\ step' = [step EXCEPT ![p] = "exists"]
    /\ IF c = "service" THEN pc = "down" /\ \A q \in Proc \ {p} : cmd[q] # "service" \/ step[q] \in Ended
       ELSE \A q \in Proc \ {p} : cmd[q] = "service" \/ step[q] \in Ended
    /\ cmd' = [cmd EXCEPT ![p] = c] /\ conf' = [conf EXCEPT ![p] = <<>>]
    /\ current' = current \ {p}
    /\ UNCHANGED <<portVars, disk, manager>>

\* Stopped or killed.
End(p) ==
    /\ step[p] # "idle" /\ step' = [step EXCEPT ![p] = "idle"]
    /\ current' = current \ {p}
    /\ IF cmd[p] = "service" /\ step[p] = "loaded" THEN PortsEnd ELSE UNCHANGED portVars
    /\ UNCHANGED <<disk, cmd, conf, manager>>

\* The operator writes a file or removes it, while nobody is in ReadConfig.
Edit(f) ==
    /\ edits < MaxEdits /\ edits' = edits + 1
    /\ \A p \in Proc : step[p] \notin Reading
    /\ file' = f /\ current' = {}
    /\ UNCHANGED <<portVars, procs, manager>>

-----------------------------------------------------------------------------
(* ReadConfig.                                                             *)

Fails(p, from) ==
    /\ Goes(p, from, "failed")
    /\ UNCHANGED <<portVars, disk, cmd, conf, current, manager>>

\* Any other error of Stat ends ReadConfig, as in Fails.
Exists(p) ==
    /\ Goes(p, "exists", IF file = Absent THEN "write" ELSE "read")
    /\ UNCHANGED <<portVars, disk, cmd, conf, current, manager>>

\* Mutant: what cannot be read or parsed is replaced by the default.
BugReadFile(p) ==
    /\ step[p] = "read"
    /\ \/ /\ file \in Configs
          /\ step' = [step EXCEPT ![p] = "loaded"]
          /\ conf' = [conf EXCEPT ![p] = file] /\ current' = current \cup {p}
       \/ step' = [step EXCEPT ![p] = "write"] /\ UNCHANGED <<conf, current>>
    /\ UNCHANGED <<portVars, disk, cmd, manager>>

ReadFile(p) ==
    /\ file \in Configs
    /\ Goes(p, "read", "loaded")
    /\ conf' = [conf EXCEPT ![p] = file] /\ current' = current \cup {p}
    /\ UNCHANGED <<portVars, disk, cmd, manager>>

\* setstandartconfig, and WriteFile opens the file with O_TRUNC.
CreateFile(p) ==
    /\ Goes(p, "write", "writing")
    /\ conf' = [conf EXCEPT ![p] = Default]
    /\ file' = Torn
    /\ UNCHANGED <<portVars, edits, cmd, current, manager>>

WriteFile(p) ==
    /\ Goes(p, "writing", "loaded")
    /\ file' = conf[p] /\ current' = current \cup {p}
    /\ UNCHANGED <<portVars, edits, cmd, conf, manager>>

ReadConfig(p) ==
    \/ \E from \in Reading : Fails(p, from)
    \/ Exists(p) \/ ReadFile(p) \/ CreateFile(p) \/ WriteFile(p)

-----------------------------------------------------------------------------
(* main.                                                                   *)

\* runService, to its first request.
Serve(p) ==
    /\ cmd[p] = "service" /\ step[p] = "loaded"
    /\ InitServer(conf[p])
    /\ UNCHANGED <<disk, procs, current, manager>>

Ports == PortsStep /\ UNCHANGED <<disk, procs, current, manager>>

\* One call to the service manager or the event log.
Calls(p, from, to) ==
    /\ Goes(p, from, to)
    /\ UNCHANGED <<portVars, disk, cmd, conf, current>>

\* installService and removeService look for the service first.
OpenService(p) ==
    /\ cmd[p] \in Admin
    /\ Calls(p, "loaded", CASE cmd[p] = "install" /\ ~installed -> "create"
                            [] cmd[p] = "remove" /\ installed   -> "delete"
                            [] OTHER                            -> "failed")
    /\ UNCHANGED manager

CreateService(p) ==
    \/ Calls(p, "create", "log") /\ installed' = TRUE /\ UNCHANGED source
    \/ Calls(p, "create", "failed") /\ UNCHANGED manager

\* eventlog.InstallAsEventCreate refuses a source that is there.
InstallSource(p) ==
    \/ ~source /\ Calls(p, "log", "ok") /\ source' = TRUE /\ UNCHANGED installed
    \/ Calls(p, "log", "undo") /\ UNCHANGED manager

\* s.Delete(), whose error nobody looks at.
UndoCreate(p) ==
    /\ Calls(p, "undo", "failed")
    /\ installed' \in {FALSE, installed} /\ UNCHANGED source

DeleteService(p) ==
    \/ Calls(p, "delete", "unlog") /\ installed' = FALSE /\ UNCHANGED source
    \/ Calls(p, "delete", "failed") /\ UNCHANGED manager

\* Mutant: the error of eventlog.Remove is not reported.
BugRemoveSource(p) ==
    \/ source /\ Calls(p, "unlog", "ok") /\ source' = FALSE /\ UNCHANGED installed
    \/ Calls(p, "unlog", "ok") /\ UNCHANGED manager

RemoveSource(p) ==
    \/ source /\ Calls(p, "unlog", "ok") /\ source' = FALSE /\ UNCHANGED installed
    \/ Calls(p, "unlog", "failed") /\ UNCHANGED manager

Command(p) ==
    \/ OpenService(p) \/ CreateService(p) \/ InstallSource(p) \/ UndoCreate(p)
    \/ DeleteService(p) \/ RemoveSource(p)

Next ==
    \/ \E p \in Proc :
          \/ \E c \in Admin \cup {"service"} : Run(p, c)
          \/ End(p) \/ ReadConfig(p) \/ Serve(p) \/ Command(p)
    \/ Ports
    \/ \E f \in Configs \cup {Absent} : Edit(f)

Spec == Init /\ [][Next]_vars

-----------------------------------------------------------------------------
\* What a process was configured with stays in the file until the operator
\* changes it: no other process replaces it.  Only the default may be found cut
\* short, by a second first run that died in WriteFile.
ConfigIsStable ==
    \A p \in current : file = conf[p] \/ (file = Torn /\ conf[p] = Default)

\* A command that ends without an error has done all of it.
SuccessIsComplete ==
    [][\A p \in Proc : step[p] # "ok" /\ step'[p] = "ok" =>
          IF cmd[p] = "install" THEN installed' /\ source' ELSE ~installed' /\ ~source']_vars
=============================================================================
