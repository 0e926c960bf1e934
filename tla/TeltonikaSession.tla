--------------------------- MODULE TeltonikaSession ---------------------------
(***************************************************************************)
(* handle's request loop with one of the three parsers of the Teltonika     *)
(* family: Teltonika, Bitrek or Cargo.  The packets are bytes in a stream,   *)
(* and one conn.Read returns what has arrived of it: half a packet, or one  *)
(* and a half.  ParseData finds out by the length, the checksum and the     *)
(* codec whether it has one whole packet before it.                         *)
(*                                                                         *)
(* A record (24 bytes and more, whose walk is IoElement) is one byte here,  *)
(* its time.  A name is the sequence of its bytes; <<>> is "".              *)
(***************************************************************************)
EXTENDS Integers, Sequences, SequencesExt, Crc16, Store

CONSTANTS
    Conn,         \* connections that may ever be accepted
    Device,       \* trackers, each the byte its name consists of
    NoDevice,     \* the peer of a connection not yet accepted
    Parser,       \* the parsers handle may be built with
    Sending,      \* data packets trackers send: codec, records, fault
    Cuts,         \* bytes of a packet a Read may end behind (bounds the model)
    Weak,         \* records with too few satellites
    Tomorrow,     \* time.Now() plus one day
    PerDay,       \* time units in a calendar day
    MaxPackets,   \* data packets sent at all (bounds the model)
    SaveMayFail   \* a file operation may fail

Fault == {"none", "crc", "count", "codec"}

ASSUME DeviceAssumption == Device \subseteq Byte /\ NoDevice \notin Device
ASSUME ParserAssumption == Parser \subseteq {"Teltonika", "Bitrek", "Cargo"}
\* The number of records is one byte, also where it is one too many.
ASSUME SendingAssumption ==
    /\ Sending \subseteq [codec : {8, 142}, recs : Seq(Byte), fault : Fault]
    /\ \A p \in Sending : Len(p.recs) < 255
ASSUME FlagAssumption == Weak \subseteq Byte /\ SaveMayFail \in BOOLEAN
ASSUME NumberAssumption ==
    Cuts \subseteq Nat \ {0} /\ Tomorrow \in Nat /\ PerDay \in Nat \ {0} /\ MaxPackets \in Nat

VARIABLES
    parser,   \* the parser handle was built with
    device,   \* the tracker behind each connection
    stream,   \* what is in flight on each connection: packets, or their rests
    sent,     \* auxiliary: the records sent in sound packets
    packets,  \* number of data packets sent
    pc,       \* where each handler is
    gps,      \* gps.GPS of each handler: its name, GpsD.DateTime, CountData
    input,    \* the bytes each handler works on
    errList,  \* listError
    toSave,   \* mapToSave: day -> records
    result,   \* whether ParseData returned an error ("bad")
    wrote,    \* auxiliary: records of this input that are in a file
    torn,     \* auxiliary: connections with a Read that ended inside a packet
    broken,   \* auxiliary: connections for whose input a file operation failed
    registry, \* srv.GPS: name -> GPSInfo
    track,    \* <path>/yy/mm/dd/<name>.txt: <<day, name>> -> entries
    errors    \* <path>/Error/<name>.txt: name -> entries

wire == <<device, stream, sent, packets>>
work == <<input, errList, toSave, wrote>>
reads == <<torn, broken>>
files == <<track, errors>>
vars == <<parser, wire, pc, gps, work, result, reads, registry, files>>

Info == [name : Seq(Byte), last : Nat, count : Seq(Byte)]
Entry == [dev : Device, via : Conn, rec : Byte]
NewInfo == [name |-> <<>>, last |-> 0, count |-> <<>>]
Pcs == {"unused", "reading", "save", "set", "gone"}

TypeOK ==
    /\ parser \in Parser
    /\ device \in [Conn -> Device \cup {NoDevice}]
    /\ stream \in [Conn -> Seq(Seq(Byte))]
    /\ sent \in [Conn -> Seq(Byte)]
    /\ packets \in 0 .. MaxPackets
    /\ pc \in [Conn -> Pcs]
    /\ gps \in [Conn -> Info]
    /\ input \in [Conn -> Seq(Byte)]
    /\ errList \in [Conn -> Seq(Entry)]
    /\ \A c \in Conn : \A d \in DOMAIN toSave[c] :
          d \in Nat /\ toSave[c][d] \in Seq(Entry) \ {<<>>}
    /\ result \in [Conn -> {"ok", "bad"}]
    /\ wrote \in [Conn -> SUBSET Byte]
    /\ torn \subseteq Conn /\ broken \subseteq Conn
    /\ \A n \in DOMAIN registry : registry[n] \in Info /\ registry[n].name = n
    /\ \A k \in DOMAIN track : k \in Nat \X Seq(Byte) /\ track[k] \in Seq(Entry)
    /\ \A n \in DOMAIN errors : n \in Seq(Byte) /\ errors[n] \in Seq(Entry)

Init ==
    /\ parser \in Parser
    /\ device = [c \in Conn |-> NoDevice]
    /\ stream = [c \in Conn |-> <<>>] /\ sent = [c \in Conn |-> <<>>]
    /\ packets = 0
    /\ pc = [c \in Conn |-> "unused"]
    /\ gps = [c \in Conn |-> NewInfo]
    /\ input = [c \in Conn |-> <<>>]
    /\ errList = [c \in Conn |-> <<>>] /\ toSave = [c \in Conn |-> Empty]
    /\ result = [c \in Conn |-> "ok"] /\ wrote = [c \in Conn |-> {}]
    /\ torn = {} /\ broken = {}
    /\ registry = Empty /\ track = Empty /\ errors = Empty

-----------------------------------------------------------------------------
(* The tracker.                                                            *)

Login(d) == <<0, 1, d>>
Word(n) == <<0, 0, n \div 256, n % 256>>

\* Four zeros, the length, codec, count and records, the checksum; the count
\* after the records, which nobody reads, is left out.  A faulty tracker sends
\* another checksum, one record less than it counts, or a codec nobody knows.
Packet(p) ==
    LET n == IF p.fault = "count" THEN Len(p.recs) + 1 ELSE Len(p.recs)
        body == <<IF p.fault = "codec" THEN 12 ELSE p.codec, n>> \o p.recs
        sum == Remainder(body)
    IN  Word(0) \o Word(Len(body)) \o body
          \o Word(IF p.fault = "crc" THEN Xor16(sum, 1) ELSE sum)

Connect(c, d) ==
    /\ pc[c] = "unused"
    /\ pc' = [pc EXCEPT ![c] = "reading"]
    /\ device' = [device EXCEPT ![c] = d]
    /\ stream' = [stream EXCEPT ![c] = <<Login(d)>>]
    /\ UNCHANGED <<parser, sent, packets, gps, work, result, reads, registry, files>>

\* It need not wait for the answer to the packet before.  What arrives while
\* the handler is busy is in the stream when it reads again.
SendPacket(c, p) ==
    /\ pc[c] = "reading" /\ packets < MaxPackets
    /\ packets' = packets + 1
    /\ stream' = [stream EXCEPT ![c] = Append(@, Packet(p))]
    /\ sent' = IF p.fault = "none" THEN [sent EXCEPT ![c] = @ \o p.recs] ELSE sent
    /\ UNCHANGED <<parser, device, pc, gps, work, result, reads, registry, files>>

-----------------------------------------------------------------------------
(* ParseData: what it makes of the bytes i, with the GPSInfo g of the       *)
(* handler.  A panic is recovered, and no error returned: what was not      *)
(* saved by then is not saved, and CountData is what it was.                *)

\* Mutant: days are counted from one too late.
BugDay(t) == (t \div PerDay) - 1

Day(t) == t \div PerDay

Codecs == IF parser = "Teltonika" THEN {8, 142} ELSE {8}

Refused(g) ==
    [gps |-> g, errs |-> <<>>, save |-> Empty, next |-> "set", result |-> "bad"]
Panicked(g) == [Refused(g) EXCEPT !.result = "ok"]

\* The bytes after the length are the name: all of them, and nothing else.
IsLogin(i) == Len(i) >= 2 /\ 256 * i[1] + i[2] + 2 = Len(i)
LoginCount == IF parser = "Cargo" THEN <<0, 0, 0, 1>> ELSE <<1>>
LoggedIn(g, i) ==
    Panicked([g EXCEPT !.name = SubSeq(i, 3, Len(i)), !.count = LoginCount])

\* Four bytes of zero; the buffer they are copied to holds zeros already.
HasHeader(i) == \A k \in DOMAIN i : k <= 4 => i[k] = 0

\* The length announced; nothing that is read is longer than MaxReadBytes.
TooLong == 65536
LenPacket(i) == IF i[5] # 0 \/ i[6] # 0 THEN TooLong ELSE 256 * i[7] + i[8]
IsShort(i) == Len(i) < 8 \/ LenPacket(i) > Len(i) - 8
Body(i) == SubSeq(i, 9, 8 + LenPacket(i))

\* Everything behind the body is the checksum, a number of any length.
OrigCRC(i) == SubSeq(i, 9 + LenPacket(i), Len(i))
IsNumber(s, n) ==
    /\ s # <<>> /\ (Len(s) = 1 => n < 256)
    /\ \A k \in DOMAIN s : s[k] = CASE k = Len(s)     -> n % 256
                                    [] k = Len(s) - 1 -> n \div 256
                                    [] OTHER          -> 0

\* Mutant: the checksum is not compared.
BugSumFits(i) == OrigCRC(i) # <<>>

SumFits(i) == IsNumber(OrigCRC(i), CheckSumCRC16(Body(i)))

\* Chk.
Fits(last, r) == r >= last /\ r <= Tomorrow /\ r \notin Weak

\* One record: GpsD moves with every record that fits.
Keep(c, a, r) ==
    LET e == [dev |-> device[c], via |-> c, rec |-> r]
    IN  IF Fits(a.last, r)
        THEN [a EXCEPT !.last = r, !.save = AppendTo(@, Day(r), <<e>>)]
        ELSE [a EXCEPT !.errs = Append(@, e)]

\* The record loop.
Kept(c, last, recs) ==
    LET after[k \in 0 .. Len(recs)] ==
            IF k = 0 THEN [last |-> last, errs |-> <<>>, save |-> Empty]
            ELSE Keep(c, after[k - 1], recs[k])
    IN  after[Len(recs)]

\* ParceGPSData8Codec and 8ECodec: CountData is set before the records are
\* read, and a body with fewer than it counts panics behind the last one, at
\* the index of the satellites' byte (slices reach what the buffer holds there).
Walk(c, g, body) ==
    LET n == body[2]
        there == IF n < Len(body) - 2 THEN n ELSE Len(body) - 2
        kept == Kept(c, g.last, SubSeq(body, 3, 2 + there))
        moved == [g EXCEPT !.last = kept.last, !.count = <<0, 0, 0, n>>]
    IN  IF there < n THEN Panicked(moved)
        ELSE [gps |-> moved, errs |-> kept.errs, save |-> kept.save,
              next |-> "save", result |-> "ok"]

ParseData(c, g, i) ==
    IF g.name = <<>> THEN (IF IsLogin(i) THEN LoggedIn(g, i) ELSE Refused(g))
    ELSE IF ~HasHeader(i) THEN Refused(g)
    ELSE IF IsShort(i) THEN Panicked(g)
    ELSE IF ~SumFits(i) THEN Refused(g)
    ELSE IF Body(i) = <<>> THEN Panicked(g)
    ELSE IF Body(i)[1] \notin Codecs THEN Refused(g)
    ELSE IF Len(Body(i)) = 1 THEN Panicked(g)
    ELSE Walk(c, g, Body(i))

-----------------------------------------------------------------------------
(* handle.                                                                 *)

\* Mutant: some entry of the registry instead of the one asked for.
BugGetGPS(n) ==
    IF registry = Empty THEN NewInfo ELSE registry[CHOOSE m \in DOMAIN registry : TRUE]

GetGPS(n) == IF n \in DOMAIN registry THEN registry[n] ELSE NewInfo

\* conn.Read returns k packets, or rests of packets, and the first n bytes of
\* the next; the handler refreshes its GPSInfo and parses them.
Receive(c, k, n) ==
    LET s == stream[c]
        i == FlattenSeq(SubSeq(s, 1, k)) \o (IF n = 0 THEN <<>> ELSE SubSeq(s[k + 1], 1, n))
        g == IF gps[c].name = <<>> THEN gps[c] ELSE GetGPS(gps[c].name)
        o == ParseData(c, g, i)
    IN  /\ pc[c] = "reading" /\ k + n > 0
        /\ n = 0 \/ (k < Len(s) /\ n < Len(s[k + 1]))
        /\ stream' = [stream EXCEPT ![c] =
                         IF n = 0 THEN SubSeq(s, k + 1, Len(s))
                         ELSE <<SubSeq(s[k + 1], n + 1, Len(s[k + 1]))>>
                                \o SubSeq(s, k + 2, Len(s))]
        /\ torn' = IF n = 0 THEN torn ELSE torn \cup {c}
        /\ input' = [input EXCEPT ![c] = i]
        /\ gps' = [gps EXCEPT ![c] = o.gps]
        /\ errList' = [errList EXCEPT ![c] = o.errs]
        /\ toSave' = [toSave EXCEPT ![c] = o.save]
        /\ pc' = [pc EXCEPT ![c] = o.next]
        /\ result' = [result EXCEPT ![c] = o.result]
    /\ UNCHANGED <<parser, device, sent, packets, wrote, broken, registry, files>>

Goes(c, from, to) == pc[c] = from /\ pc' = [pc EXCEPT ![c] = to]

\* SaveErrorList, then SaveToFileList, which returns after the first day of the
\* map, in Go's random order.  No other handler reads the files.
Saved(c) ==
    /\ errors' = IF errList[c] = <<>> THEN errors
                 ELSE AppendTo(errors, gps[c].name, errList[c])
    /\ IF DOMAIN toSave[c] = {}
       THEN track' = track /\ wrote' = [wrote EXCEPT ![c] = RecordsOf(errList[c])]
       ELSE \E d \in DOMAIN toSave[c] :
              /\ track' = AppendTo(track, <<d, gps[c].name>>, toSave[c][d])
              /\ wrote' = [wrote EXCEPT
                             ![c] = RecordsOf(errList[c]) \cup RecordsOf(toSave[c][d])]

Save(c) ==
    /\ Goes(c, "save", "set") /\ Saved(c)
    /\ UNCHANGED <<parser, wire, gps, input, errList, toSave, result, reads, registry>>

\* Mutant: Teltonika and Bitrek drop the error, too.
BugSaveFails(c) ==
    /\ SaveMayFail /\ Goes(c, "save", "set")
    /\ toSave[c] # Empty
    /\ broken' = broken \cup {c}
    /\ UNCHANGED <<parser, wire, gps, work, result, torn, registry, files>>

\* The first error ends the saving: nothing is written, or the refused records
\* only.  Cargo drops the error and acknowledges the packet.
SaveFails(c) ==
    /\ SaveMayFail /\ Goes(c, "save", "set")
    /\ \/ errList[c] # <<>> /\ UNCHANGED <<errors, wrote>>
       \/ /\ toSave[c] # Empty
          /\ errors' = IF errList[c] = <<>> THEN errors
                       ELSE AppendTo(errors, gps[c].name, errList[c])
          /\ wrote' = [wrote EXCEPT ![c] = RecordsOf(errList[c])]
    /\ result' = [result EXCEPT ![c] = IF parser = "Cargo" THEN "ok" ELSE "bad"]
    /\ broken' = broken \cup {c}
    /\ UNCHANGED <<parser, wire, gps, input, errList, toSave, torn, registry, track>>

\* SetGPS, CountData or the bad packet's bytes are sent, and the loop begins anew.
SetAndReply(c) ==
    /\ Goes(c, "set", "reading")
    /\ registry' = IF gps[c].name = <<>> THEN registry
                   ELSE Put(registry, gps[c].name, gps[c])
    /\ input' = [input EXCEPT ![c] = <<>>]
    /\ errList' = [errList EXCEPT ![c] = <<>>]
    /\ toSave' = [toSave EXCEPT ![c] = Empty]
    /\ wrote' = [wrote EXCEPT ![c] = {}]
    /\ result' = [result EXCEPT ![c] = "ok"]
    /\ broken' = broken \ {c}
    /\ UNCHANGED <<parser, wire, gps, torn, files>>

Disconnect(c) ==
    /\ Goes(c, "reading", "gone")
    /\ stream' = [stream EXCEPT ![c] = <<>>]
    /\ UNCHANGED <<parser, device, sent, packets, gps, work, result, reads,
                   registry, files>>

\* srv.GPS = make(...) when ListenAndServe is entered again under live handlers.
ResetRegistry ==
    /\ registry # Empty /\ registry' = Empty
    /\ UNCHANGED <<parser, wire, pc, gps, work, result, reads, files>>

\* Only the bound on connections stops the service.
Exhausted == (\A c \in Conn : pc[c] = "gone") /\ UNCHANGED vars

HandlerStep(c) ==
    \/ \E k \in 0 .. Len(stream[c]) :
          Receive(c, k, 0) \/ \E n \in Cuts : Receive(c, k, n)
    \/ Save(c) \/ SaveFails(c) \/ SetAndReply(c) \/ Disconnect(c)

Next ==
    \/ \E c \in Conn :
          \/ \E d \in Device : Connect(c, d)
          \/ \E p \in Sending : SendPacket(c, p)
          \/ HandlerStep(c)
    \/ ResetRegistry
    \/ Exhausted

Spec == Init /\ [][Next]_vars

-----------------------------------------------------------------------------
Sound(i) ==
    {p \in Sending : p.fault = "none" /\ p.codec \in Codecs /\ i = Packet(p)}
Miscounted(i) == \E p \in Sending : p.fault = "count" /\ i = Packet(p)

\* Before a handler reads, the checksum it will compare is the one trackers
\* compute, whatever the bytes: the table, typed in by hand, has no wrong entry.
TableIsSound == \A c \in Conn : pc[c] = "reading" => RoundDivides

\* Records this handler collected and SaveToFileList left when it had written
\* those of day d.
Skipped(c, d) == UNION {RecordsOf(toSave[c][e]) : e \in DOMAIN toSave[c] \ {d}}

\* An acknowledgement of n records answers one whole packet of n records, and
\* they are in a file, but for two losses the code has: the days behind the
\* first that SaveToFileList took, and what Cargo failed to save.  It takes
\* reads that end where packets end and a tracker that can count.
AckedIsStored ==
    \A c \in Conn \ torn :
        /\ pc[c] = "set" /\ result[c] = "ok"
        /\ input[c] # Login(device[c]) /\ ~Miscounted(input[c])
        => \E p \in Sound(input[c]) :
              /\ gps[c].count = <<0, 0, 0, Len(p.recs)>>
              /\ \/ parser = "Cargo" /\ c \in broken
                 \/ DOMAIN toSave[c] = {} /\ Elements(p.recs) \subseteq wrote[c]
                 \/ \E d \in DOMAIN toSave[c] :
                       Elements(p.recs) \subseteq wrote[c] \cup Skipped(c, d)

\* However the stream is cut up: what a connection leaves in the files was sent
\* on it in a sound packet, and is there no more often than it was sent.
Entries(m) == UNION {Elements(m[k]) : k \in DOMAIN m}
Copies(m, c, r) ==
    MapThenSumSet(LAMBDA k : Cardinality({j \in DOMAIN m[k] :
                                m[k][j].via = c /\ m[k][j].rec = r}), DOMAIN m)
StoredWasSent ==
    \A e \in Entries(track) \cup Entries(errors) :
        LET c == e.via IN
        Copies(track, c, e.rec) + Copies(errors, c, e.rec)
          <= Cardinality({j \in DOMAIN sent[c] : sent[c][j] = e.rec})

\* While reads end where packets end, a tracker's records are filed under its
\* own name, though names come from the wire and go through the registry.
TracksAreOwn ==
    \A k \in DOMAIN track : \A j \in DOMAIN track[k] :
        track[k][j].via \notin torn => k[2] = <<track[k][j].dev>>
=============================================================================
