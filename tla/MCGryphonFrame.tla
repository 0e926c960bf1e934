--------------------------- MODULE MCGryphonFrame ----------------------------
(* Packets of up to 64 bytes, cut behind every byte, alone or followed by     *)
(* another, in a buffer of 64; one is longer.                                 *)
EXTENDS GryphonFrame, TLC

Bytes(n, b) == [i \in 1 .. n |-> b]
Fixed(b) == Bytes(18, b) \o <<40>>
Item(n, b) == [head |-> <<b>>, val |-> Bytes(n, b)]
Line(n, b) == [head |-> Bytes(5, b), val |-> Bytes(n, b)]
Record(b, list) == [fixed |-> Fixed(b), items |-> list]
Gps(recs, b) == [odp |-> FALSE, recs |-> recs, sum |-> Bytes(4, b)]
Odp(lines, b) ==
    [odp |-> TRUE, recs |-> <<[fixed |-> <<>>, items |-> lines]>>, sum |-> Bytes(4, b)]

Two == Gps(<<Record(1, <<>>), Record(2, <<Item(2, 3)>>)>>, 4)
Three == Gps(<<Record(5, <<Item(1, 6), Item(0, 7), Item(5, 8)>>)>>, 9)
None == Gps(<<>>, 10)
Long == Gps(<<Record(11, <<Item(40, 12)>>)>>, 13)
Lines == Odp(<<Line(1, 14), Line(7, 15)>>, 16)
Short == Gps(<<[fixed |-> Bytes(19, 17), items |-> <<>>]>>, 18)  \* a state below 32
AllFrames == {Two, Three, None, Long, Lines, Short}

\* What a Read returns that begins with the bytes b.
Least(m, n) == IF m < n THEN m ELSE n
ReadsOf(f, b) ==
    {[frame |-> f, bytes |-> SubSeq(b, 1, n)] : n \in 1 .. Least(Len(b), MaxReadBytes)}
Begun ==
    UNION {ReadsOf(f, FrameCode(f)) : f \in AllFrames}
      \cup {a \in ReadsOf(Lines, FrameCode(Lines) \o FrameCode(Three)) :
               Len(a.bytes) > Len(FrameCode(Lines))}
\* The rest of a packet, bytes of no kind, a kind that nothing follows.
Fragments ==
    {[frame |-> NoFrame, bytes |-> b] :
        b \in {SubSeq(FrameCode(Three), 20, 38), Bytes(64, 0), Bytes(64, 20), Bytes(30, 255),
               Start(FALSE) \o <<1>> \o Bytes(8, 3)}}
ArrivalSet == Begun \cup Fragments
AllArrivals == ArrivalSet
=============================================================================
