----------------------------- MODULE MCIoElement -----------------------------
(* Small packets: ids and values from two bytes, groups of up to two sensors. *)
EXTENDS IoElement, TLC

\* a value of w bytes: small, or with its top bit set
Low(w) == [i \in 1 .. w |-> IF i = w THEN 7 ELSE 0]
High(w) == [i \in 1 .. w |-> IF i = 1 THEN 200 ELSE 0]
Sensor(w) == {[id |-> 3, val |-> Low(w)], [id |-> 66, val |-> High(w)]}
One(w) == [id |-> 1, val |-> Low(w)]
Fill(S, n) == UNION {[1 .. k -> S] : k \in 0 .. n}

Codec8(recs) == [size |-> 1, recs |-> recs]
Codec8E(recs) == [size |-> 2, recs |-> recs]

\* Codec 8 records of any number of sensors; the codec walks those with at
\* least as many sensors as groups to their end and loses its way in others.
Records8 ==
    {<<a, b, c, d>> : a \in Fill(Sensor(1), 2), b \in Fill(Sensor(2), 2),
                      c \in Fill({One(4)}, 1), d \in Fill(Sensor(8), 1)}
Full8 == <<<<One(1)>>, <<One(2)>>, <<One(4)>>, <<One(8)>>>>
Empty8 == <<<<>>, <<>>, <<>>, <<>>>>
Sparse8 == {Codec8(<<r>>) : r \in Records8}
Pairs8 == {Codec8(<<r, q>>) : r \in Records8, q \in {Full8, Empty8}}

\* Codec 8E records without and with a sensor of variable width.
Records8E(nx) ==
    {<<a, b, c, d, e>> : a \in Fill({One(1)}, 2), b \in Fill(Sensor(2), 2),
                         c \in Fill({One(4)}, 2), d \in Fill(Sensor(8), 1),
                         e \in nx}
Fixed8E == {r \in Records8E({<<>>}) : Total(r) >= 5}
Packets8E == {Codec8E(<<r>>) : r \in Fixed8E}
             \cup {Codec8E(<<r, r>>) : r \in {x \in Fixed8E : Total(x) >= 6}}
Variable8E == {Codec8E(<<r>>) : r \in Records8E({<<[id |-> 9, val |-> Low(2)]>>})}

\* A substituted set is evaluated at every use, one named in it only once.
PacketSet == Pairs8 \cup Packets8E \cup Variable8E
AllPackets == PacketSet
=============================================================================
