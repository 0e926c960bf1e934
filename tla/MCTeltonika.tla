------------------------------ MODULE MCTeltonika -----------------------------
(* Two connections of two trackers; times 1 .. 4 on two days, 3 too weak.    *)
EXTENDS TeltonikaSession, TLC

Data(codec, recs, f) == [codec |-> codec, recs |-> recs, fault |-> f]
Packets ==
    {Data(8, <<2, 1>>, "none"), Data(142, <<1, 4>>, "none"), Data(8, <<3>>, "count"),
     Data(8, <<1>>, "crc")}

ConnSymmetry == Permutations(Conn)
=============================================================================
