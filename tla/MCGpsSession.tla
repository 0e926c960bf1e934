---------------------------- MODULE MCGpsSession ----------------------------
(* Small instances of GpsSession: times are 1 .. 4, two days of two time    *)
(* units each where the day matters, a satellite count of 0 is too low.     *)
EXTENDS GpsSession, TLC

At(t) == [time |-> t, sat |-> 1, coord |-> TRUE]
Weak(t) == [time |-> t, sat |-> 0, coord |-> TRUE]
OffMap(t) == [time |-> t, sat |-> 1, coord |-> FALSE]

Pkt(k, rs) == [kind |-> k, recs |-> rs, cut |-> FALSE]
Cut(p) == [p EXCEPT !.cut = TRUE]
Hello == Pkt("login", <<>>)

\* every kind of packet and of refusal, two days, panics
AllKinds ==
    {Hello, Pkt("getinfo", <<>>), Pkt("other", <<>>),
     Pkt("gps", <<At(1), At(2)>>), Pkt("gps", <<At(2), Weak(3)>>),
     Pkt("gps", <<OffMap(1), At(1)>>), Cut(Pkt("gps", <<At(3)>>)),
     Pkt("odp", <<At(1)>>), Cut(Pkt("odp", <<At(2)>>))}

\* records that arrive early, late and in the future
Orders ==
    {Hello, Pkt("gps", <<At(1), At(3)>>),
     Pkt("gps", <<At(3), At(2)>>), Cut(Pkt("gps", <<At(4)>>)),
     Pkt("gps", <<At(5)>>)}

\* parsed to the end, so that only failed writes lose a record
Whole == {p \in Orders : ~p.cut}

ConnSymmetry == Permutations(Conn)
Symmetry == ConnSymmetry \cup Permutations(Device \ {ZeroId})
=============================================================================
