----------------------------- MODULE RelaySession -----------------------------
(***************************************************************************)
(* handle's request loop with a parser that takes the tracker's name from    *)
(* the packets: Wialon (IPS and Retranslator) or Gryphon M01.  One           *)
(* connection may then carry several trackers.                              *)
(*                                                                         *)
(* A packet is the items the parser finds in it, in order: a name (the L     *)
(* line, the head of a Retranslator packet, a=), records (D and SD lines,   *)
(* the Retranslator's blocks together, the parts of d=), lines nobody knows, *)
(* and what ends the parse: a malformed line, a missing field, a panic.  The *)
(* name comes first.  A record is its time; a time M01 cannot parse is the  *)
(* zero time.                                                              *)
(***************************************************************************)
EXTENDS Integers, Sequences, FiniteSets, Store

CONSTANTS
    Conn,         \* connections that may ever be accepted
    Device,       \* the trackers' names
    NoName,       \* ""
    Parser,       \* the parsers handle may be built with
    Packet,       \* packets that may be sent
    Weak,         \* times of records with too few satellites
    Tomorrow,     \* time.Now() plus one day
    PerDay,       \* time units in a calendar day
    MaxPackets,   \* packets sent at all (bounds the model)
    SaveMayFail   \* a file operation may fail

Name == Device \cup {NoName}
Item == [kind : {"name"}, val : Device]
          \cup [kind : {"rec"}, val : Nat] \cup [kind : {"bad", "skip"}, val : {0}]

ASSUME NameAssumption == NoName \notin Device
ASSUME ParserAssumption == Parser \subseteq {"Wialon", "M01"}
ASSUME PacketAssumption ==
    Packet \subseteq {p \in Seq(Item) : \A k \in DOMAIN p : p[k].kind = "name" => k = 1}
ASSUME FlagAssumption == Weak \subseteq Nat /\ SaveMayFail \in BOOLEAN
ASSUME NumberAssumption ==
    Tomorrow \in Nat /\ PerDay \in Nat \ {0} /\ MaxPackets \in Nat

VARIABLES
    parser,   \* the parser handle was built with
    pc,       \* where each handler is
    name,     \* gps.GPS.Name of each handler
    last,     \* gps.GPS.GpsD.DateTime of each handler; 0 is the zero time
    input,    \* the packet each handler works on
    rest,     \* the items of it still to be parsed
    errList,  \* listError (M01)
    toSave,   \* mapToSave (M01): day -> records
    wrote,    \* auxiliary: times of this packet that are in a file
    result,   \* whether ParseData returned an error ("bad")
    packets,  \* number of packets sent
    speaker,  \* auxiliary: whose name each connection carried last
    heard,    \* auxiliary: the names of all who spoke on each connection
    ahead,    \* auxiliary: a tracker and where M01 left its GpsD when it did not save all
    registry, \* srv.GPS: name -> last
    track,    \* <path>/yy/mm/dd/<name>.txt: <<day, name>> -> entries
    errors    \* <path>/Error/<name>.txt: name -> entries

work == <<input, rest, errList, toSave, wrote, result>>
peers == <<packets, speaker, heard>>
files == <<track, errors>>
vars == <<parser, pc, name, last, work, peers, ahead, registry, files>>

Entry == [dev : Name, rec : Nat, early : BOOLEAN]
Pcs == {"unused", "reading", "parse", "save", "set", "gone"}
Live(c) == pc[c] \notin {"unused", "gone"}

TypeOK ==
    /\ parser \in Parser
    /\ pc \in [Conn -> Pcs]
    /\ name \in [Conn -> Name] /\ last \in [Conn -> Nat]
    /\ input \in [Conn -> Seq(Item)] /\ rest \in [Conn -> Seq(Item)]
    /\ errList \in [Conn -> Seq(Entry)]
    /\ \A c \in Conn : \A d \in DOMAIN toSave[c] :
          d \in Nat /\ toSave[c][d] \in Seq(Entry) \ {<<>>}
    /\ wrote \in [Conn -> SUBSET Nat] /\ result \in [Conn -> {"ok", "bad"}]
    /\ packets \in 0 .. MaxPackets
    /\ speaker \in [Conn -> Name] /\ heard \in [Conn -> SUBSET Name]
    /\ ahead \subseteq Device \X Nat
    /\ \A n \in DOMAIN registry : n \in Device /\ registry[n] \in Nat
    /\ \A k \in DOMAIN track : k \in Nat \X Name /\ track[k] \in Seq(Entry)
    /\ \A n \in DOMAIN errors : n \in Name /\ errors[n] \in Seq(Entry)

Init ==
    /\ parser \in Parser
    /\ pc = [c \in Conn |-> "unused"]
    /\ name = [c \in Conn |-> NoName] /\ last = [c \in Conn |-> 0]
    /\ input = [c \in Conn |-> <<>>] /\ rest = [c \in Conn |-> <<>>]
    /\ errList = [c \in Conn |-> <<>>] /\ toSave = [c \in Conn |-> Empty]
    /\ wrote = [c \in Conn |-> {}] /\ result = [c \in Conn |-> "ok"]
    /\ packets = 0
    /\ speaker = [c \in Conn |-> NoName] /\ heard = [c \in Conn |-> {}]
    /\ ahead = {}
    /\ registry = Empty /\ track = Empty /\ errors = Empty

Goes(c, from, to) == pc[c] = from /\ pc' = [pc EXCEPT ![c] = to]

-----------------------------------------------------------------------------
(* The connection.                                                         *)

Connect(c) ==
    /\ Goes(c, "unused", "reading")
    /\ UNCHANGED <<parser, name, last, work, peers, ahead, registry, files>>

Disconnect(c) ==
    /\ Goes(c, "reading", "gone")
    /\ UNCHANGED <<parser, name, last, work, peers, ahead, registry, files>>

HasName(p) == p # <<>> /\ p[1].kind = "name"
Times(p) == {p[k].val : k \in {j \in DOMAIN p : p[j].kind = "rec"}}
IsWhole(p) == \A k \in DOMAIN p : p[k].kind # "bad"

\* conn.Read returns a packet.  The GPSInfo is refreshed by the name of the
\* packet before; a name the registry does not know yields GPSInfo{}.
Receive(c, p) ==
    /\ packets < MaxPackets /\ packets' = packets + 1
    /\ Goes(c, "reading", "parse")
    /\ input' = [input EXCEPT ![c] = p] /\ rest' = [rest EXCEPT ![c] = p]
    /\ LET known == name[c] \in DOMAIN registry IN
       /\ name' = [name EXCEPT ![c] = IF known THEN @ ELSE NoName]
       /\ last' = [last EXCEPT ![c] =
                      IF known THEN registry[name[c]]
                      ELSE IF name[c] = NoName THEN @ ELSE 0]
    /\ speaker' = [speaker EXCEPT ![c] = IF HasName(p) THEN p[1].val ELSE @]
    /\ heard' = [heard EXCEPT ![c] = @ \cup {speaker'[c]}]
    /\ UNCHANGED <<parser, errList, toSave, wrote, result, ahead, registry, files>>

Early(l, t) == t < l
\* Chk.
Fits(l, t) == ~Early(l, t) /\ t <= Tomorrow /\ t \notin Weak

\* Mutant: days are counted from one too late.
BugDay(t) == (t \div PerDay) - 1

Day(t) == t \div PerDay
EntryOf(c, l, t) == [dev |-> speaker[c], rec |-> t, early |-> Early(l, t)]

-----------------------------------------------------------------------------
(* Wialon: every record is saved when it is read.                          *)

NextItem(c, kind) ==
    /\ parser = "Wialon"
    /\ pc[c] = "parse" /\ rest[c] # <<>> /\ Head(rest[c]).kind = kind
    /\ rest' = [rest EXCEPT ![c] = IF kind = "bad" THEN <<>> ELSE Tail(@)]

\* Mutant: a name is taken once, as the Teltonika parsers do.
BugNameItem(c) ==
    /\ NextItem(c, "name")
    /\ name' = [name EXCEPT ![c] = IF @ = NoName THEN Head(rest[c]).val ELSE @]
    /\ UNCHANGED <<parser, pc, last, input, errList, toSave, wrote, result, peers,
                   ahead, registry, files>>

NameItem(c) ==
    /\ NextItem(c, "name")
    /\ name' = [name EXCEPT ![c] = Head(rest[c]).val]
    /\ UNCHANGED <<parser, pc, last, input, errList, toSave, wrote, result, peers,
                   ahead, registry, files>>

\* Mutant: a line nobody knows ends the parse, too.
BugOtherItem(c) ==
    /\ NextItem(c, "skip") \/ NextItem(c, "bad")
    /\ pc' = [pc EXCEPT ![c] = "set"]
    /\ UNCHANGED <<parser, name, last, input, errList, toSave, wrote, result, peers,
                   ahead, registry, files>>

\* Malformed, or a panic that ParseData recovers: the rest is not looked at.
OtherItem(c) ==
    /\ NextItem(c, "skip") \/ NextItem(c, "bad")
    /\ UNCHANGED <<parser, pc, name, last, input, errList, toSave, wrote, result,
                   peers, ahead, registry, files>>

\* SaveToFile or SaveToError.
RecordItem(c) ==
    /\ NextItem(c, "rec")
    /\ LET t == Head(rest[c]).val
           e == EntryOf(c, last[c], t)
       IN  /\ IF Fits(last[c], t)
              THEN /\ last' = [last EXCEPT ![c] = t]
                   /\ track' = AppendTo(track, <<Day(t), name[c]>>, <<e>>)
                   /\ errors' = errors
              ELSE /\ errors' = AppendTo(errors, name[c], <<e>>)
                   /\ UNCHANGED <<last, track>>
           /\ wrote' = [wrote EXCEPT ![c] = @ \cup {t}]
    /\ UNCHANGED <<parser, pc, name, input, errList, toSave, result, peers, ahead,
                   registry>>

\* The process ends, and may be started again: handlers and registry are lost.
ProcessEnds ==
    /\ pc' = [c \in Conn |-> IF Live(c) THEN "gone" ELSE pc[c]]
    /\ registry' = Empty

\* Mutant: the error is noted and the record given up.
BugSaveIsFatal(c) ==
    /\ SaveMayFail /\ NextItem(c, "rec")
    /\ LET t == Head(rest[c]).val IN
       last' = [last EXCEPT ![c] = IF Fits(@, t) THEN t ELSE @]
    /\ UNCHANGED <<parser, pc, name, input, errList, toSave, wrote, result, peers,
                   ahead, registry, files>>

\* ChkErrFatal: a record that cannot be saved ends the process.
SaveIsFatal(c) ==
    /\ SaveMayFail /\ NextItem(c, "rec")
    /\ ProcessEnds
    /\ UNCHANGED <<parser, name, last, input, errList, toSave, wrote, result, peers,
                   ahead, files>>

\* Wialon's ParseData returns no error, ever.
EndOfItems(c) ==
    /\ parser = "Wialon" /\ rest[c] = <<>>
    /\ Goes(c, "parse", "set")
    /\ UNCHANGED <<parser, name, last, work, peers, ahead, registry, files>>

-----------------------------------------------------------------------------
(* Gryphon M01: the records are collected, and saved at the end.           *)

\* One record, after those before it came to a.
Keep(c, a, t) ==
    LET e == EntryOf(c, a.last, t) IN
    IF Fits(a.last, t) THEN [a EXCEPT !.last = t, !.save = AppendTo(@, Day(t), <<e>>)]
    ELSE [a EXCEPT !.errs = Append(@, e)]

Kept(c, recs) ==
    LET after[k \in 0 .. Len(recs)] ==
            IF k = 0 THEN [last |-> last[c], errs |-> <<>>, save |-> Empty]
            ELSE Keep(c, after[k - 1], recs[k].val)
    IN  after[Len(recs)]

BeforeBad(p) ==
    LET bad == {k \in DOMAIN p : p[k].kind = "bad"} IN
    IF bad = {} THEN p
    ELSE SubSeq(p, 1, (CHOOSE k \in bad : \A j \in bad : k <= j) - 1)

\* ParceForm panics, or there is no a=: refused, with the name of before.
NoForm(c) ==
    /\ parser = "M01" /\ ~HasName(rest[c])
    /\ Goes(c, "parse", "set")
    /\ result' = [result EXCEPT ![c] = "bad"]
    /\ UNCHANGED <<parser, name, last, input, rest, errList, toSave, wrote, peers,
                   ahead, registry, files>>

\* The record loop: a part that is too short ends it with an error; GpsD has
\* moved by then, and what was collected is not saved.
ParseForm(c) ==
    /\ parser = "M01" /\ pc[c] = "parse" /\ HasName(rest[c])
    /\ LET recs == BeforeBad(Tail(rest[c]))
           kept == Kept(c, recs)
           whole == IsWhole(rest[c])
       IN  /\ name' = [name EXCEPT ![c] = rest[c][1].val]
           /\ last' = [last EXCEPT ![c] = kept.last]
           /\ IF whole
              THEN /\ errList' = [errList EXCEPT ![c] = kept.errs]
                   /\ toSave' = [toSave EXCEPT ![c] = kept.save]
                   /\ UNCHANGED <<result, ahead>>
              ELSE /\ result' = [result EXCEPT ![c] = "bad"]
                   /\ ahead' = ahead \cup {<<rest[c][1].val, kept.last>>}
                   /\ UNCHANGED <<errList, toSave>>
           /\ pc' = [pc EXCEPT ![c] = IF whole THEN "save" ELSE "set"]
    /\ rest' = [rest EXCEPT ![c] = <<>>]
    /\ UNCHANGED <<parser, input, wrote, peers, registry, files>>

ErrorsSaved(c) ==
    errors' = IF errList[c] = <<>> THEN errors ELSE AppendTo(errors, name[c], errList[c])

\* SaveErrorList, then SaveToFileList, which returns after the first day.
SaveLists(c) ==
    /\ Goes(c, "save", "set") /\ ErrorsSaved(c)
    /\ IF DOMAIN toSave[c] = {}
       THEN track' = track /\ wrote' = [wrote EXCEPT ![c] = RecordsOf(errList[c])]
       ELSE \E d \in DOMAIN toSave[c] :
              /\ track' = AppendTo(track, <<d, name[c]>>, toSave[c][d])
              /\ wrote' = [wrote EXCEPT
                             ![c] = RecordsOf(errList[c]) \cup RecordsOf(toSave[c][d])]
    /\ ahead' = IF \A d, e \in DOMAIN toSave[c] : d = e THEN ahead
                ELSE ahead \cup {<<name[c], last[c]>>}
    /\ UNCHANGED <<parser, name, last, input, rest, errList, toSave, result, peers,
                   registry>>

SaveFails(c) ==
    /\ SaveMayFail /\ Goes(c, "save", "set")
    /\ \/ errList[c] # <<>> /\ UNCHANGED errors
       \/ toSave[c] # Empty /\ ErrorsSaved(c)
    /\ result' = [result EXCEPT ![c] = "bad"]
    /\ ahead' = ahead \cup {<<name[c], last[c]>>}
    /\ UNCHANGED <<parser, name, last, input, rest, errList, toSave, wrote, peers,
                   registry, track>>

-----------------------------------------------------------------------------
\* SetGPS and the reply: nothing at all from Wialon, "ok;" from M01 in any case.
SetAndReply(c) ==
    /\ Goes(c, "set", "reading")
    /\ registry' = IF name[c] = NoName THEN registry ELSE Put(registry, name[c], last[c])
    /\ input' = [input EXCEPT ![c] = <<>>] /\ rest' = [rest EXCEPT ![c] = <<>>]
    /\ errList' = [errList EXCEPT ![c] = <<>>]
    /\ toSave' = [toSave EXCEPT ![c] = Empty]
    /\ wrote' = [wrote EXCEPT ![c] = {}]
    /\ result' = [result EXCEPT ![c] = "ok"]
    /\ UNCHANGED <<parser, name, last, peers, ahead, files>>

\* srv.GPS = make(...) when ListenAndServe is entered again under live handlers.
ResetRegistry ==
    /\ registry # Empty /\ registry' = Empty
    /\ UNCHANGED <<parser, pc, name, last, work, peers, ahead, files>>

\* Only the bound on connections stops the service.
Exhausted == (\A c \in Conn : pc[c] = "gone") /\ UNCHANGED vars

HandlerStep(c) ==
    \/ \E p \in Packet : Receive(c, p)
    \/ NameItem(c) \/ RecordItem(c) \/ OtherItem(c) \/ EndOfItems(c) \/ SaveIsFatal(c)
    \/ NoForm(c) \/ ParseForm(c) \/ SaveLists(c) \/ SaveFails(c)
    \/ SetAndReply(c)

Next ==
    \/ \E c \in Conn : Connect(c) \/ Disconnect(c) \/ HandlerStep(c)
    \/ ResetRegistry
    \/ Exhausted

Spec == Init /\ [][Next]_vars

-----------------------------------------------------------------------------
\* A track holds the records of the tracker that spoke last on their connection,
\* whoever shared the connection and whatever other connections put into the
\* registry; or it has no name at all, for a Wialon tracker that had logged in
\* when the registry was emptied.
TracksAreOwn ==
    \A k \in DOMAIN track : \A i \in DOMAIN track[k] :
        k[2] \in {track[k][i].dev, NoName}

\* A packet that was not refused is in the files when it is answered, record by
\* record: with Wialon on any number of days, with M01 on one.
PacketIsStored ==
    \A c \in Conn :
        /\ pc[c] = "set" /\ result[c] = "ok" /\ IsWhole(input[c])
        /\ \A d, e \in DOMAIN toSave[c] : d = e
        => Times(input[c]) \subseteq wrote[c]

\* A record is refused as early only for a later one of its tracker that was taken,
\* if the tracker shares no connection.  Wialon has stored that one, or given up the
\* process; M01 has stored it or, when a part was too short, a file could not be
\* written or the packet was of two days, may have lost it.
Shares(d) == \E c \in Conn : d \in heard[c] /\ heard[c] # {d}
Stored(d, t) ==
    \E k \in DOMAIN track : \E j \in DOMAIN track[k] :
        track[k][j].dev = d /\ track[k][j].rec > t
EarlyHasLater ==
    (\A c \in Conn : pc[c] \in {"unused", "reading", "gone"}) =>
        \A n \in DOMAIN errors : \A i \in DOMAIN errors[n] :
            LET e == errors[n][i] IN
            e.early /\ ~Shares(e.dev) =>
                \/ Stored(e.dev, e.rec)
                \/ parser = "M01" /\ \E a \in ahead : a[1] = e.dev /\ a[2] > e.rec
=============================================================================
