------------------------------ MODULE IoElement ------------------------------
(***************************************************************************)
(* The walk of ParceGPSData8Codec and ParceGPSData8ECodec through the      *)
(* records of a Teltonika packet: a read position that must stay in step   *)
(* with what the tracker encoded.  A record is a fixed header, the number  *)
(* of sensors, and one group of sensors per value width; a packet has a    *)
(* size of counts and ids (1 in codec 8, 2 in codec 8E) and its records;   *)
(* its bytes are a sequence of values, positions count from 1.             *)
(***************************************************************************)
EXTENDS Integers, Sequences, SequencesExt

CONSTANTS
    FixedSize,   \* bytes of a record before its event id (24 in the codecs)
    Packets      \* packets a tracker may send: [size, recs]

\* A sensor is its id and its value's bytes, a record has a list of sensors per
\* group; the values of the groups 1 to 4 have these widths.
Sensors == [id : Nat, val : Seq(Nat)]
SentWidth == <<1, 2, 4, 8>>
GroupsOf(size) == IF size = 1 THEN 1 .. 4 ELSE 1 .. 5

ASSUME PacketAssumption ==
    /\ FixedSize \in Nat
    /\ \A p \in Packets :
          /\ p.size \in {1, 2}
          /\ p.recs \in Seq([GroupsOf(p.size) -> Seq(Sensors)])
          /\ \A i \in DOMAIN p.recs, g \in 1 .. 4 : \A k \in DOMAIN p.recs[i][g] :
                Len(p.recs[i][g][k].val) = SentWidth[g]

\* Mutant: values of four bytes are read as two.
BugWidth == <<1, 2, 2, 8>>

\* Bytes of a value per group; group 5 (8E only) carries a length per sensor.
Width == <<1, 2, 4, 8>>

-----------------------------------------------------------------------------
(* What the tracker sends.                                                 *)

Zeros(n) == [i \in 1 .. n |-> 0]
Number(size, n) == Zeros(size - 1) \o <<n>>

EncodeSensor(size, g, s) ==
    Number(size, s.id) \o (IF g = 5 THEN Number(size, Len(s.val)) ELSE <<>>) \o s.val
EncodeGroup(size, g, ss) ==
    Number(size, Len(ss))
      \o FlattenSeq([i \in DOMAIN ss |-> EncodeSensor(size, g, ss[i])])
Total(rec) == Len(FlattenSeq(rec))
EncodeRecord(size, rec) ==
    Zeros(FixedSize + size) \o Number(size, Total(rec))
      \o FlattenSeq([g \in GroupsOf(size) |-> EncodeGroup(size, g, rec[g])])
Encode(size, recs) ==
    FlattenSeq([i \in DOMAIN recs |-> EncodeRecord(size, recs[i])])

-----------------------------------------------------------------------------
VARIABLES
    packet,    \* what the tracker meant (of it the program knows the codec)
    bytes,     \* the input after the record count
    pos,       \* posInInput
    record,    \* the record being read
    all,       \* countAllIO
    group,     \* the group loop's counter, from 1
    left,      \* sensors of the group still to be read
    decoded,   \* the sensors of the record read so far
    lastError, \* T.GPS.LastError is set for the record
    pc         \* "header", "group", "sensor", "check", "done" or "astray"

Size == packet.size
Groups == GroupsOf(Size)
HeaderSize == FixedSize + Size

vars == <<packet, bytes, pos, record, all, group, left, decoded, lastError, pc>>

TypeOK ==
    /\ packet \in Packets
    /\ pos \in 1 .. Len(bytes) + 1
    /\ record \in 1 .. Len(packet.recs) + 1
    /\ all \in Nat /\ left \in Nat /\ group \in 1 .. all + 1
    /\ lastError \in BOOLEAN
    /\ pc \in {"header", "group", "sensor", "check", "done", "astray"}

Init ==
    /\ packet \in Packets
    /\ bytes = Encode(Size, packet.recs)
    /\ pos = 1 /\ record = 1 /\ all = 0 /\ group = 1 /\ left = 0
    /\ decoded = <<>> /\ lastError = FALSE
    /\ pc = "header"

Inside(n) == pos + n - 1 <= Len(bytes)
NumberAt(p) == IF Size = 1 THEN bytes[p] ELSE 256 * bytes[p] + bytes[p + 1]

\* A read beyond the packet: an index panics, but a slice finds what lies behind
\* the packet in the 10240-byte buffer, so the code may go on and even file the
\* record.  The model ends here: what it says of walks that went astray is nothing.
Astray(n) ==
    /\ ~Inside(n)
    /\ pc' = "astray"
    /\ UNCHANGED <<packet, bytes, pos, record, all, group, left, decoded, lastError>>

\* Time, position, speed, the event id and the number of sensors.
ReadHeader ==
    /\ pc = "header" /\ record <= Len(packet.recs)
    /\ \/ Astray(HeaderSize + Size)
       \/ /\ Inside(HeaderSize + Size)
          /\ all' = NumberAt(pos + HeaderSize)
          /\ pos' = pos + HeaderSize + Size
          /\ group' = 1 /\ lastError' = FALSE /\ decoded' = <<>>
          /\ pc' = "group"
          /\ UNCHANGED <<packet, bytes, record, left>>

\* `for i := 0; i < countAllIO; i++ { switch i {`: one group per round, and
\* idle rounds once the groups are through.
NextGroup ==
    /\ pc = "group" /\ group <= all
    /\ \/ /\ group \in Groups /\ Inside(Size)
          /\ left' = NumberAt(pos) /\ pos' = pos + Size
          /\ pc' = "sensor"
          /\ UNCHANGED <<packet, bytes, record, all, group, decoded, lastError>>
       \/ group \in Groups /\ Astray(Size)
       \/ /\ group \notin Groups
          /\ group' = group + 1
          /\ UNCHANGED <<packet, bytes, pos, record, all, left, decoded,
                         lastError, pc>>

\* The length of a value; in group 5 it is parsed from the bytes of the id.
ValueSize == IF group = 5 THEN NumberAt(pos) ELSE Width[group]

\* ParseInt refuses what does not fit its signed width, and an empty string.
Parses(g, v) ==
    CASE g \in {1, 3} -> TRUE
      [] g \in {2, 4} -> Head(v) < 128
      [] g = 5        -> /\ v # <<>>
                         /\ \A i \in 1 .. Len(v) - 8 : v[i] = 0
                         /\ Len(v) >= 8 => v[Len(v) - 7] < 128

ReadSensor ==
    /\ pc = "sensor" /\ left > 0
    /\ \/ Astray(Size)
       \/ Inside(Size) /\ Astray(Size + ValueSize)
       \/ /\ Inside(Size) /\ Inside(Size + ValueSize)
          /\ LET v == SubSeq(bytes, pos + Size, pos + Size + ValueSize - 1)
             IN  IF Parses(group, v)
                    THEN /\ decoded' = Append(decoded,
                              [group |-> group, id |-> NumberAt(pos), val |-> v])
                         /\ UNCHANGED lastError
                    ELSE lastError' = TRUE /\ UNCHANGED decoded
          /\ pos' = pos + Size + ValueSize
          /\ left' = left - 1
          /\ UNCHANGED <<packet, bytes, record, all, group, pc>>

\* Mutant: every second group is skipped.
BugEndOfGroup ==
    /\ pc = "sensor" /\ left = 0
    /\ group' = group + 2 /\ pc' = "group"
    /\ UNCHANGED <<packet, bytes, pos, record, all, left, decoded, lastError>>

EndOfGroup ==
    /\ pc = "sensor" /\ left = 0
    /\ group' = group + 1 /\ pc' = "group"
    /\ UNCHANGED <<packet, bytes, pos, record, all, left, decoded, lastError>>

EndOfGroups ==
    /\ pc = "group" /\ group > all
    /\ pc' = "check"
    /\ UNCHANGED <<packet, bytes, pos, record, all, group, left, decoded, lastError>>

\* Mutant: the record counter is not advanced.
BugNextRecord ==
    /\ pc = "check"
    /\ pc' = "header"
    /\ UNCHANGED <<packet, bytes, pos, record, all, group, left, decoded, lastError>>

\* The record is filed (GpsSession) and the next one begins.
NextRecord ==
    /\ pc = "check"
    /\ record' = record + 1 /\ pc' = "header"
    /\ UNCHANGED <<packet, bytes, pos, all, group, left, decoded, lastError>>

EndOfPacket ==
    /\ pc = "header" /\ record > Len(packet.recs)
    /\ pc' = "done"
    /\ UNCHANGED <<packet, bytes, pos, record, all, group, left, decoded, lastError>>

Stop == pc \in {"done", "astray"} /\ UNCHANGED vars

Next ==
    \/ ReadHeader \/ NextGroup \/ ReadSensor \/ EndOfGroup \/ EndOfGroups
    \/ NextRecord \/ EndOfPacket \/ Stop

Spec == Init /\ [][Next]_vars /\ WF_vars(Next)

-----------------------------------------------------------------------------
\* What the walk can deal with: as many sensors as groups, none of variable
\* width.
Regular(p) ==
    \A i \in DOMAIN p.recs :
        LET rec == p.recs[i]
        IN  Total(rec) >= Len(rec) /\ (p.size = 2 => rec[5] = <<>>)

SentSensors(rec) ==
    FlattenSeq([g \in Groups |->
        [i \in DOMAIN rec[g] |->
            [group |-> g, id |-> rec[g][i].id, val |-> rec[g][i].val]]])

\* Those of a list of sensors that ParseInt takes.
Readable(list) ==
    FlattenSeq([i \in DOMAIN list |->
        IF Parses(list[i].group, list[i].val) THEN <<list[i]>> ELSE <<>>])

EndOf(i) == 1 + Len(Encode(Size, SubSeq(packet.recs, 1, i)))

\* When a record of a regular packet is filed its sensors are the ones the
\* tracker sent, in order, less those ParseInt refuses, and the position is
\* the start of the next record: no sensor of one record is taken for a part
\* of another.
RecordAsSent ==
    Regular(packet) /\ pc = "check" =>
        LET rec == packet.recs[record]
        IN  /\ decoded = Readable(SentSensors(rec))
            /\ lastError <=> Len(decoded) < Total(rec)
            /\ pos = EndOf(record)

\* The walk comes to the end of a regular packet.
ReachesEnd == Regular(packet) ~> pc = "done"
=============================================================================
