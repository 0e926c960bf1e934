----------------------------- MODULE GpsSession -----------------------------
(***************************************************************************)
(* The packets of one port's tracker connections: handle's request loop,   *)
(* the device registry srv.GPS it shares with the other handlers, the      *)
(* Gryphon Pro parser it calls and the files the records end in.           *)
(*                                                                         *)
(* A packet is abstracted to what the parser tells apart: its kind, its    *)
(* records and whether the parse panics once they are read ("cut": too     *)
(* short for the count it announces, or a state byte below 32).  A device  *)
(* name is the sequence of the ids appended to it; <<>> is "".             *)
(***************************************************************************)
EXTENDS Integers, Sequences, Store

CONSTANTS
    Conn,           \* connections that may ever be accepted
    Device,         \* ids trackers send in their login packet
    ZeroId,         \* the id of all zeros, whose digits are all dropped
    NoDevice,       \* the peer of a connection not yet accepted
    Packet,         \* packets that trackers and monitors may send
    MinSat,         \* config.Config.MinSatel
    Tomorrow,       \* time.Now() plus one day
    PerDay,         \* time units in a calendar day
    MaxPackets,     \* packets per connection (bounds the model)
    MaxLogins,      \* ids a name is made of at most (bounds the model)
    Overlap,        \* a tracker may connect while its old connection lives
    SaveMayFail,    \* a file operation may fail
    ResetMayHappen  \* ListenAndServe may run again under live handlers

Time == Nat
Record == [time : Time, sat : Nat, coord : BOOLEAN]
Kinds == {"login", "gps", "odp", "other", "getinfo"}

ASSUME DeviceAssumption == NoDevice \notin Device
ASSUME PacketAssumption ==
    Packet \subseteq [kind : Kinds, recs : Seq(Record), cut : BOOLEAN]
ASSUME NumberAssumption ==
    MinSat \in Nat /\ Tomorrow \in Nat /\ PerDay \in Nat \ {0}
    /\ MaxPackets \in Nat /\ MaxLogins \in Nat
ASSUME FlagAssumption ==
    Overlap \in BOOLEAN /\ SaveMayFail \in BOOLEAN /\ ResetMayHappen \in BOOLEAN

VARIABLES
    device,     \* the tracker behind each connection
    pc,         \* where each handler is
    name,       \* gps.GPS.Name of each handler
    last,       \* gps.GPS.GpsD.DateTime of each handler; 0 is the zero time
    input,      \* the packet each handler works on
    rest,       \* the records of it still to be parsed
    errList,    \* listError
    toSave,     \* mapToSave: day -> records
    result,     \* whether the reply acknowledges ("ok") or refuses ("bad")
    wrote,      \* auxiliary: records this packet put into a file
    sent,       \* packets received on each connection
    registry,   \* srv.GPS: name -> [name, last]
    track,      \* <path>/yy/mm/dd/<name>.txt: <<day, name>> -> entries
    errors,     \* <path>/Error/<name>.txt: name -> entries
    odp         \* <path>/ODP/<name>.txt: name -> entries

scratch == <<rest, errList, toSave, wrote>>
session == <<name, last>>
files == <<track, errors, odp>>
vars == <<device, pc, session, input, scratch, result, sent, registry, files>>

Info == [name : Seq(Device), last : Time]
Entry == [dev : Device, via : Conn, rec : Record, early : BOOLEAN]

NoPacket == [kind |-> "other", recs |-> <<>>, cut |-> FALSE]

\* Mutant: days are counted from one time unit too late.
BugDay(t) == (t \div PerDay) - 1

\* The day a time falls on, the name of the directory of its track.
Day(t) == t \div PerDay

Pcs == {"unused", "reading", "login", "parse", "saveErr", "saveTrack",
        "saveOdp", "set", "reply", "gone", "killed"}
Live(c) == pc[c] \notin {"unused", "gone", "killed"}

TypeOK ==
    /\ device \in [Conn -> Device \cup {NoDevice}]
    /\ \A c \in Conn : device[c] = NoDevice <=> pc[c] = "unused"
    /\ pc \in [Conn -> Pcs]
    /\ name \in [Conn -> Seq(Device)]
    /\ last \in [Conn -> Time]
    /\ input \in [Conn -> Packet \cup {NoPacket}]
    /\ rest \in [Conn -> Seq(Record)]
    /\ errList \in [Conn -> Seq(Entry)]
    /\ toSave = [c \in Conn |-> toSave[c]]
    /\ \A c \in Conn : \A d \in DOMAIN toSave[c] :
          d \in Nat /\ toSave[c][d] \in Seq(Entry)
    /\ wrote \in [Conn -> SUBSET Record]
    /\ result \in [Conn -> {"ok", "bad"}]
    /\ sent \in [Conn -> 0 .. MaxPackets]
    /\ \A n \in DOMAIN registry : n \in Seq(Device) /\ registry[n] \in Info
    /\ \A k \in DOMAIN track :
          k \in Nat \X Seq(Device) /\ track[k] \in Seq(Entry)
    /\ \A n \in DOMAIN errors : n \in Seq(Device) /\ errors[n] \in Seq(Entry)
    /\ \A n \in DOMAIN odp : n \in Seq(Device) /\ odp[n] \in Seq(Entry)

Init ==
    /\ device = [c \in Conn |-> NoDevice]
    /\ pc = [c \in Conn |-> "unused"]
    /\ name = [c \in Conn |-> <<>>]
    /\ last = [c \in Conn |-> 0]
    /\ input = [c \in Conn |-> NoPacket]
    /\ rest = [c \in Conn |-> <<>>]
    /\ errList = [c \in Conn |-> <<>>]
    /\ toSave = [c \in Conn |-> Empty]
    /\ wrote = [c \in Conn |-> {}]
    /\ result = [c \in Conn |-> "ok"]
    /\ sent = [c \in Conn |-> 0]
    /\ registry = Empty /\ track = Empty /\ errors = Empty /\ odp = Empty

Goes(c, from, to) ==
    /\ pc[c] = from
    /\ pc' = [pc EXCEPT ![c] = to]

-----------------------------------------------------------------------------
(* The registry and the files.                                             *)

\* Mutant: some entry of the registry instead of the one asked for.
BugGetGPS(n) ==
    IF DOMAIN registry # {} THEN registry[CHOOSE m \in DOMAIN registry : TRUE]
    ELSE [name |-> <<>>, last |-> 0]

\* A name the registry does not know yields GPSInfo{}: no name, zero time.
GetGPS(n) ==
    IF n \in DOMAIN registry THEN registry[n] ELSE [name |-> <<>>, last |-> 0]

\* Digits are appended to the name; leading zeros are dropped while it is "".
LoggedIn(n, id) == IF n = <<>> /\ id = ZeroId THEN <<>> ELSE Append(n, id)

-----------------------------------------------------------------------------
(* The connection.                                                         *)

Connect(c, d) ==
    /\ pc[c] = "unused"
    /\ Overlap \/ \A k \in Conn : device[k] = d => ~Live(k)
    /\ pc' = [pc EXCEPT ![c] = "reading"]
    /\ device' = [device EXCEPT ![c] = d]
    /\ UNCHANGED <<session, input, scratch, result, sent, registry, files>>

\* conn.Read fails between two packets: the handler ends.
Disconnect(c) ==
    /\ Goes(c, "reading", "gone")
    /\ UNCHANGED <<device, session, input, scratch, result, sent, registry, files>>

\* conn.Read returns a packet.  "getinfo" is answered with the registry and
\* falls through to the refusal after it; everything else refreshes gps.GPS
\* from the registry and is parsed, the acknowledgement already in CountData.
\* A checksum that does not match is noted and forgotten (gryphonPro.go:47-50).
Receive(c, p) ==
    /\ sent[c] < MaxPackets
    /\ p.kind = "login" => Len(name[c]) < MaxLogins
    /\ Goes(c, "reading",
            CASE p.kind = "getinfo" -> "reply"
              [] p.kind = "login"   -> "login"
              [] p.kind = "gps"     -> "parse"
              [] p.kind = "odp" /\ ~p.cut -> "saveOdp"
              [] OTHER              -> "set")
    /\ sent' = [sent EXCEPT ![c] = @ + 1]
    /\ input' = [input EXCEPT ![c] = p]
    /\ rest' = [rest EXCEPT ![c] = p.recs]
    /\ result' = [result EXCEPT ![c] = IF p.kind = "getinfo" THEN "bad" ELSE "ok"]
    /\ IF p.kind # "getinfo" /\ name[c] # <<>>
          THEN /\ name' = [name EXCEPT ![c] = GetGPS(name[c]).name]
               /\ last' = [last EXCEPT ![c] = GetGPS(name[c]).last]
          ELSE UNCHANGED session
    /\ UNCHANGED <<device, errList, toSave, wrote, registry, files>>

Login(c) ==
    /\ Goes(c, "login", "set")
    /\ name' = [name EXCEPT ![c] = LoggedIn(@, device[c])]
    /\ UNCHANGED <<device, last, input, scratch, result, sent, registry, files>>

-----------------------------------------------------------------------------
(* ParceGPSData.                                                           *)

\* Chk: why a record is refused; the time is compared with the last one kept.
Early(c, r) == r.time < last[c]

\* Mutant: a record is not compared with the last one.
BugFits(c, r) == r.time <= Tomorrow /\ r.sat >= MinSat /\ r.coord

Fits(c, r) ==
    /\ ~Early(c, r)
    /\ r.time <= Tomorrow
    /\ r.sat >= MinSat
    /\ r.coord

\* Mutant: GpsD moves with every record that is not early, refused or not.
BugParseRecord(c) ==
    /\ pc[c] = "parse" /\ rest[c] # <<>>
    /\ LET r == Head(rest[c])
           e == [dev |-> device[c], via |-> c, rec |-> r, early |-> Early(c, r)]
       IN  /\ last' = [last EXCEPT ![c] = IF Early(c, r) THEN @ ELSE r.time]
           /\ IF Fits(c, r)
                 THEN /\ toSave' = [toSave EXCEPT
                                      ![c] = AppendTo(@, Day(r.time), <<e>>)]
                      /\ UNCHANGED errList
                 ELSE /\ errList' = [errList EXCEPT ![c] = Append(@, e)]
                      /\ UNCHANGED toSave
    /\ rest' = [rest EXCEPT ![c] = Tail(@)]
    /\ UNCHANGED <<device, pc, name, input, wrote, result, sent, registry, files>>

\* One round of the record loop.  GpsD moves with every record that fits,
\* before anything is written.
ParseRecord(c) ==
    /\ pc[c] = "parse" /\ rest[c] # <<>>
    /\ LET r == Head(rest[c])
           e == [dev |-> device[c], via |-> c, rec |-> r, early |-> Early(c, r)]
       IN  IF Fits(c, r)
              THEN /\ last' = [last EXCEPT ![c] = r.time]
                   /\ toSave' = [toSave EXCEPT
                                   ![c] = AppendTo(@, Day(r.time), <<e>>)]
                   /\ UNCHANGED errList
              ELSE /\ errList' = [errList EXCEPT ![c] = Append(@, e)]
                   /\ UNCHANGED <<last, toSave>>
    /\ rest' = [rest EXCEPT ![c] = Tail(@)]
    /\ UNCHANGED <<device, pc, name, input, wrote, result, sent, registry, files>>

\* A panic is recovered in ParseData and no error returned: nothing is saved.
EndOfRecords(c) ==
    /\ rest[c] = <<>>
    /\ Goes(c, "parse", IF input[c].cut THEN "set" ELSE "saveErr")
    /\ UNCHANGED <<device, session, input, scratch, result, sent, registry, files>>

-----------------------------------------------------------------------------
(* The save functions.                                                     *)

SaveErrorList(c) ==
    /\ Goes(c, "saveErr", "saveTrack")
    /\ errors' = IF errList[c] = <<>> THEN errors
                 ELSE AppendTo(errors, name[c], errList[c])
    /\ wrote' = [wrote EXCEPT ![c] = @ \cup RecordsOf(errList[c])]
    /\ UNCHANGED <<device, session, input, rest, errList, toSave, result, sent,
                   registry, track, odp>>

\* SaveToFileList returns after the first day of the map, in Go's random order.
SaveToFileList(c) ==
    /\ Goes(c, "saveTrack", "set")
    /\ IF DOMAIN toSave[c] = {} THEN UNCHANGED <<track, wrote>>
       ELSE \E d \in DOMAIN toSave[c] :
              /\ track' = AppendTo(track, <<d, name[c]>>, toSave[c][d])
              /\ wrote' = [wrote EXCEPT ![c] = @ \cup RecordsOf(toSave[c][d])]
    /\ UNCHANGED <<device, session, input, rest, errList, toSave, result, sent,
                   registry, errors, odp>>

\* ParceODPData: a line per record, no record is refused and GpsD stays.
OdpLines(c) ==
    [i \in DOMAIN rest[c] |->
        [dev |-> device[c], via |-> c, rec |-> rest[c][i], early |-> FALSE]]

SaveODPList(c) ==
    /\ Goes(c, "saveOdp", "set")
    /\ odp' = IF rest[c] = <<>> THEN odp ELSE AppendTo(odp, name[c], OdpLines(c))
    /\ wrote' = [wrote EXCEPT ![c] = @ \cup RecordsOf(OdpLines(c))]
    /\ UNCHANGED <<device, session, input, rest, errList, toSave, result, sent,
                   registry, track, errors>>

\* Mutant: the error of a failed write is ignored (as cargo.go:94 does).
BugSaveFails(c) ==
    /\ SaveMayFail
    /\ \/ pc[c] = "saveErr" /\ errList[c] # <<>>
       \/ pc[c] = "saveTrack" /\ DOMAIN toSave[c] # {}
       \/ pc[c] = "saveOdp" /\ rest[c] # <<>>
    /\ pc' = [pc EXCEPT ![c] = "set"]
    /\ UNCHANGED <<device, session, input, scratch, result, sent, registry, files>>

\* MkdirAll, OpenFile or WriteString fails: the error ends the parse, a track
\* not yet written is dropped, and the packet is refused.
SaveFails(c) ==
    /\ SaveMayFail
    /\ \/ pc[c] = "saveErr" /\ errList[c] # <<>>
       \/ pc[c] = "saveTrack" /\ DOMAIN toSave[c] # {}
       \/ pc[c] = "saveOdp" /\ rest[c] # <<>>
    /\ pc' = [pc EXCEPT ![c] = "set"]
    /\ result' = [result EXCEPT ![c] = "bad"]
    /\ UNCHANGED <<device, session, input, scratch, sent, registry, files>>

-----------------------------------------------------------------------------
\* Mutant: the registry is updated by data packets only.
BugSetGPS(c) ==
    /\ Goes(c, "set", "reply")
    /\ registry' = IF name[c] = <<>> \/ input[c].kind = "login" THEN registry
                   ELSE Put(registry, name[c],
                            [name |-> name[c], last |-> last[c]])
    /\ UNCHANGED <<device, session, input, scratch, result, sent, files>>

\* SetGPS, whatever the parse returned.
SetGPS(c) ==
    /\ Goes(c, "set", "reply")
    /\ registry' = IF name[c] = <<>> THEN registry
                   ELSE Put(registry, name[c],
                            [name |-> name[c], last |-> last[c]])
    /\ UNCHANGED <<device, session, input, scratch, result, sent, files>>

\* The reply is sent; the next packet starts from fresh lists.
Reply(c) ==
    /\ Goes(c, "reply", "reading")
    /\ input' = [input EXCEPT ![c] = NoPacket]
    /\ rest' = [rest EXCEPT ![c] = <<>>]
    /\ errList' = [errList EXCEPT ![c] = <<>>]
    /\ toSave' = [toSave EXCEPT ![c] = Empty]
    /\ wrote' = [wrote EXCEPT ![c] = {}]
    /\ result' = [result EXCEPT ![c] = "ok"]
    /\ UNCHANGED <<device, session, sent, registry, files>>

\* srv.GPS = make(...) when ListenAndServe is entered again: after a pause no
\* handler lives, on a Continue sent to a running service they all do.
ResetRegistry ==
    /\ ResetMayHappen \/ \A c \in Conn : ~Live(c)
    /\ registry # Empty
    /\ registry' = Empty
    /\ UNCHANGED <<device, pc, session, input, scratch, result, sent, files>>

\* The process dies and is started again: handlers and registry are lost,
\* files stay as they were written.  A handler is killed with its packet half done.
Restart ==
    /\ \E c \in Conn : Live(c)
    /\ pc' = [c \in Conn |-> IF ~Live(c) THEN pc[c]
                             ELSE IF pc[c] = "reading" THEN "gone" ELSE "killed"]
    /\ registry' = Empty
    /\ UNCHANGED <<device, session, input, scratch, result, sent, files>>

\* Only the bound on connections stops the service.
Exhausted == (\A c \in Conn : pc[c] \in {"gone", "killed"}) /\ UNCHANGED vars

HandlerStep(c) ==
    \/ Disconnect(c) \/ \E p \in Packet : Receive(c, p)
    \/ Login(c) \/ ParseRecord(c) \/ EndOfRecords(c)
    \/ SaveErrorList(c) \/ SaveToFileList(c) \/ SaveODPList(c) \/ SaveFails(c)
    \/ SetGPS(c) \/ Reply(c)

Next ==
    \/ \E c \in Conn : HandlerStep(c) \/ \E d \in Device : Connect(c, d)
    \/ ResetRegistry
    \/ Restart
    \/ Exhausted

Spec == Init /\ [][Next]_vars

-----------------------------------------------------------------------------
\* A packet that is acknowledged has every record in a file: the tracker may
\* forget it.  (Not so when the parse panicked, or when the records that fit
\* span two days: see the README.)
AckedIsStored ==
    \A c \in Conn :
        /\ pc[c] = "reply" /\ result[c] = "ok"
        /\ input[c].kind \in {"gps", "odp"} /\ ~input[c].cut
        /\ \A d, e \in DOMAIN toSave[c] : d = e
        => Elements(input[c].recs) \subseteq wrote[c]

\* The track under a tracker's name holds that tracker's records only, though
\* handlers exchange names through the registry and names are glued together.
TracksAreOwn ==
    \A k \in DOMAIN track : \A i \in DOMAIN track[k] :
        Len(k[2]) = 1 => k[2] = <<track[k][i].dev>>

\* The inductive strengthening of these two (proved in GpsSessionProofs).
\* A name is made of the ids its own tracker sent, and the registry files an
\* entry under the entry's own name:
NamesAreOwn ==
    /\ \A c \in Conn : \A i \in DOMAIN name[c] : name[c][i] = device[c]
    /\ \A n \in DOMAIN registry : registry[n].name = n

\* so is what is about to be saved, and what has been:
EntriesAreOwn ==
    /\ \A c \in Conn : \A d \in DOMAIN toSave[c] : \A i \in DOMAIN toSave[c][d] :
          toSave[c][d][i].dev = device[c]
    /\ \A k \in DOMAIN track : \A i \in DOMAIN track[k] : \A j \in DOMAIN k[2] :
          k[2][j] = track[k][i].dev

\* No record of the packet is lost on the way from the input to the files:
Fitted(c) == UNION {RecordsOf(toSave[c][d]) : d \in DOMAIN toSave[c]}
AccountedAt(c) ==
    LET meant == Elements(input[c].recs) IN
    /\ pc[c] = "login" => input[c].kind = "login"
    /\ pc[c] = "parse" =>
          meant \subseteq Elements(rest[c]) \cup RecordsOf(errList[c]) \cup Fitted(c)
    /\ pc[c] = "saveErr" => meant \subseteq RecordsOf(errList[c]) \cup Fitted(c)
    /\ pc[c] = "saveTrack" => meant \subseteq wrote[c] \cup Fitted(c)
    /\ pc[c] = "saveOdp" => rest[c] = input[c].recs
    /\ /\ pc[c] \in {"set", "reply"} /\ result[c] = "ok"
       /\ input[c].kind \in {"gps", "odp"} /\ ~input[c].cut
       /\ \A d, e \in DOMAIN toSave[c] : d = e
       => meant \subseteq wrote[c]
Accounted == \A c \in Conn : AccountedAt(c)

\* What one connection adds to a track file is in order of time, through any
\* number of packets, refusals and failed writes.
SessionSorted ==
    \A k \in DOMAIN track : \A i, j \in DOMAIN track[k] :
        i < j /\ track[k][i].via = track[k][j].via =>
            track[k][i].rec.time <= track[k][j].rec.time

\* A connection that has named itself keeps a name: the registry it reads the
\* name back from before every packet has not forgotten it.
NameIsKept ==
    [][\A c \in Conn : name[c] # <<>> => name'[c] # <<>>]_vars

\* "The last time is less than the previous one" (models.go:187): between
\* packets, through reconnections and restarts (unless one killed a handler with
\* its packet half saved), a record refused as too early has a later record of
\* the same tracker in a track.
EarlyHasLater ==
    (\A c \in Conn : pc[c] \in {"unused", "reading", "gone"}) =>
        \A n \in DOMAIN errors : \A i \in DOMAIN errors[n] :
            errors[n][i].early =>
                \E k \in DOMAIN track : \E j \in DOMAIN track[k] :
                    /\ track[k][j].dev = errors[n][i].dev
                    /\ track[k][j].rec.time > errors[n][i].rec.time
=============================================================================
