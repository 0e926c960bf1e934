----------------------------- MODULE GryphonFrame -----------------------------
(***************************************************************************)
(* Gryphon Pro's ParseData over bytes.  handle reads every packet into the   *)
(* same buffer and T.Input is the bytes of the last Read in it.  Of T.Input  *)
(* an index must be within its length, a slice only within its capacity, the *)
(* buffer's size: of a packet that arrived in part a slice returns what an   *)
(* earlier one left behind it.                                              *)
(*                                                                         *)
(* A GPS record is 19 bytes, the number of its sensors and these: an id, the *)
(* value's length and the value.  An ODP packet is one record of no bytes    *)
(* whose items are its lines: an id, four bytes of time, a length, a value.  *)
(***************************************************************************)
EXTENDS Integers, Sequences, SequencesExt

CONSTANTS
    MaxReadBytes,  \* size of the buffer
    Frames,        \* data packets trackers may send: [odp, recs, sum]
    NoFrame,       \* where a Read begins inside a packet, or with no data packet
    Arrivals,      \* what a Read may return, [frame, bytes]: the bytes begin with
                   \* those of the frame, all or some, others may follow
    MaxReads       \* reads per connection (bounds the model)

Octet == 0 .. 255

\* Bytes of a record before its count, of an item before its length.
FixedPart(isOdp) == IF isOdp THEN 0 ELSE 19
HeadPart(isOdp) == IF isOdp THEN 5 ELSE 1

FrameItem(isOdp) == {x \in [head : Seq(Octet), val : Seq(Octet)] :
                   Len(x.head) = HeadPart(isOdp) /\ Len(x.val) < 256}
FrameRecord(isOdp) == {r \in [fixed : Seq(Octet), items : Seq(FrameItem(isOdp))] :
                  Len(r.fixed) = FixedPart(isOdp) /\ Len(r.items) < 256}

-----------------------------------------------------------------------------
(* What the tracker sends.                                                 *)

Start(isOdp) == <<170, 0, 20, IF isOdp THEN 204 ELSE 187>>
ItemCode(x) == Append(x.head, Len(x.val)) \o x.val
ItemCodes(list) == [j \in DOMAIN list |-> ItemCode(list[j])]
RecCode(r) == Append(r.fixed, Len(r.items)) \o FlattenSeq(ItemCodes(r.items))
RecCodes(recs) == [i \in DOMAIN recs |-> RecCode(recs[i])]
FrameCode(f) ==
    Start(f.odp) \o (IF f.odp THEN <<>> ELSE <<Len(f.recs)>>)
      \o FlattenSeq(RecCodes(f.recs)) \o f.sum

ASSUME FrameAssumption ==
    /\ MaxReadBytes \in Nat /\ MaxReads \in Nat /\ NoFrame \notin Frames
    /\ \A f \in Frames :
          /\ f.odp \in BOOLEAN /\ f.recs \in Seq(FrameRecord(f.odp)) /\ Len(f.recs) < 256
          /\ f.odp => Len(f.recs) = 1
          /\ f.sum \in Seq(Octet) /\ Len(f.sum) = 4

ASSUME ArrivalAssumption ==
    \A a \in Arrivals :
        /\ a.frame \in Frames \cup {NoFrame}
        /\ a.bytes \in Seq(Octet) /\ Len(a.bytes) \in 1 .. MaxReadBytes
        /\ a.frame # NoFrame =>
              \A i \in 1 .. Len(a.bytes) :
                  i <= Len(FrameCode(a.frame)) => a.bytes[i] = FrameCode(a.frame)[i]

-----------------------------------------------------------------------------
VARIABLES
    input,    \* the buffer
    reqlen,   \* the length of T.Input
    frame,    \* auxiliary: the packet that the last Read began with
    at,       \* the first byte not yet read
    records,  \* records still to be read
    items,    \* items of the record still to be read
    got,      \* the records read
    step,     \* "reading", "parse", "walk", "save", "panic", "reply" or "closed"
    reads     \* the reads so far

frameVars == <<input, reqlen, frame, at, records, items, got, step, reads>>

FrameTypeOK ==
    /\ input \in [1 .. MaxReadBytes -> Octet] /\ reqlen \in 0 .. MaxReadBytes
    /\ frame \in Frames \cup {NoFrame}
    /\ at \in 1 .. MaxReadBytes + 1
    /\ records \in 0 .. 255 /\ items \in 0 .. 255
    /\ got \in Seq([fixed : Seq(Octet), items : Seq([head : Seq(Octet), val : Seq(Octet)])])
    /\ step \in {"reading", "parse", "walk", "save", "panic", "reply", "closed"}
    /\ reads \in 0 .. MaxReads

FrameInit ==
    /\ input = [i \in 1 .. MaxReadBytes |-> 0] /\ reqlen = 0 /\ frame = NoFrame
    /\ at = 1 /\ records = 0 /\ items = 0 /\ got = <<>>
    /\ step = "reading" /\ reads = 0

\* conn.Read overwrites the beginning of the buffer.
Arrive(a) ==
    /\ step = "reading" /\ reads < MaxReads
    /\ input' = [i \in 1 .. MaxReadBytes |->
                    IF i <= Len(a.bytes) THEN a.bytes[i] ELSE input[i]]
    /\ reqlen' = Len(a.bytes) /\ frame' = a.frame
    /\ at' = 1 /\ records' = 0 /\ items' = 0 /\ got' = <<>>
    /\ step' = "parse" /\ reads' = reads + 1

\* Mutant: the parser is given the buffer and not the part of it just read.
BugIndexed(n) == at + n - 1 <= MaxReadBytes - 4

\* The next n bytes can be read by an index, or by a slice; the last four of
\* T.Input are the checksum.
Indexed(n) == at + n - 1 <= reqlen - 4
Sliced(n) == at + n - 1 <= MaxReadBytes

\* The panic is recovered in ParseData, which then returns no error.
Panic ==
    /\ step' = "panic"
    /\ UNCHANGED <<input, reqlen, frame, at, records, items, got, reads>>

\* The checksum is read and compared, but nothing depends on it.  A login, or a
\* packet of no known kind, is GpsSession's.
Open ==
    /\ step = "parse"
    /\ \/ (reqlen < 4 \/ MaxReadBytes < 32) /\ Panic
       \/ /\ reqlen >= 4 /\ MaxReadBytes >= 32
          /\ \/ /\ SubSeq(input, 1, 4) = Start(FALSE)
                /\ \/ reqlen < 9 /\ Panic
                   \/ /\ reqlen >= 9 /\ records' = input[5]
                      /\ at' = 6 /\ step' = "walk"
             \/ /\ SubSeq(input, 1, 4) = Start(TRUE)
                /\ records' = 1 /\ at' = 5 /\ step' = "walk"
             \/ /\ SubSeq(input, 1, 4) \notin {Start(FALSE), Start(TRUE)}
                /\ step' = "reply" /\ UNCHANGED <<records, at>>
          /\ UNCHANGED <<input, reqlen, frame, items, got, reads>>

IsOdp == input[4] = 204

\* Mutant: the record loop ends one round late.
BugMoreRecords == records >= 0

MoreRecords == records > 0

\* Time, place and height are slices, the other bytes are indexed; the state is
\* printed in binary and its sixth digit looked at.
ReadRecord ==
    LET n == FixedPart(IsOdp) + 1
        readsWell == Indexed(n) /\ (IsOdp \/ input[at + 18] >= 32)
    IN  /\ step = "walk" /\ items = 0 /\ MoreRecords
        /\ \/ ~readsWell /\ Panic
           \/ /\ readsWell
              /\ got' = Append(got, [fixed |-> SubSeq(input, at, at + n - 2), items |-> <<>>])
              /\ items' = input[at + n - 1]
              /\ at' = at + n /\ records' = records - 1
              /\ UNCHANGED <<input, reqlen, frame, step, reads>>

\* The id and the length are indexed, the value is a slice.
ReadItem ==
    LET h == HeadPart(IsOdp) + 1
        n == h + input[at + h - 1]
        readsWell == Indexed(h) /\ Sliced(n)
        item == [head |-> SubSeq(input, at, at + h - 2),
                 val |-> SubSeq(input, at + h, at + n - 1)]
    IN  /\ step = "walk" /\ items > 0
        /\ \/ ~readsWell /\ Panic
           \/ /\ readsWell
              /\ got' = [got EXCEPT ![Len(got)].items = Append(@, item)]
              /\ at' = at + n /\ items' = items - 1
              /\ UNCHANGED <<input, reqlen, frame, records, step, reads>>

\* Every record is saved, or refused one by one: GpsSession.
EndOfFrame ==
    /\ step = "walk" /\ items = 0 /\ ~MoreRecords
    /\ step' = "save"
    /\ UNCHANGED <<input, reqlen, frame, at, records, items, got, reads>>

Answer ==
    /\ step \in {"save", "panic", "reply"}
    /\ step' = "reading"
    /\ UNCHANGED <<input, reqlen, frame, at, records, items, got, reads>>

Close ==
    /\ step = "reading" /\ step' = "closed"
    /\ UNCHANGED <<input, reqlen, frame, at, records, items, got, reads>>

Closed == step = "closed" /\ UNCHANGED frameVars

FrameNext ==
    \/ \E a \in Arrivals : Arrive(a)
    \/ Open \/ ReadRecord \/ ReadItem \/ EndOfFrame \/ Answer \/ Close \/ Closed

FrameSpec == FrameInit /\ [][FrameNext]_frameVars

-----------------------------------------------------------------------------
\* All of a packet's records have arrived.
IsWhole == reqlen >= Len(FrameCode(frame)) - 4

SameItem(x, y) == x.head = y.head /\ Len(x.val) = Len(y.val)

\* What is saved of a packet is what was sent, all of its records with all of
\* their items, however little of it the Read returned, whatever follows it and
\* whatever the buffer held: a slice may reach into bytes of another packet, but
\* an index comes after it and does not.  Only the last value of a packet that
\* was cut short has none behind it, and only one of more than four bytes, for
\* the length before it is not among the last four.
SavedAsSent ==
    step = "save" /\ frame # NoFrame =>
        LET sent == frame.recs IN
        /\ Len(got) = Len(sent)
        /\ \A i \in DOMAIN sent :
              /\ got[i].fixed = sent[i].fixed
              /\ Len(got[i].items) = Len(sent[i].items)
              /\ \A j \in DOMAIN sent[i].items :
                    /\ SameItem(got[i].items[j], sent[i].items[j])
                    /\ got[i].items[j] = sent[i].items[j]
                       \/ /\ ~IsWhole /\ i = Len(sent) /\ j = Len(sent[i].items)
                          /\ Len(sent[i].items[j].val) > 4
=============================================================================
