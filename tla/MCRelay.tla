------------------------------- MODULE MCRelay --------------------------------
(* Two connections and two trackers that may share them; times 0 .. 4, two   *)
(* time units to the day, 2 too weak.                                       *)
EXTENDS RelaySession, TLC

Called(d) == [kind |-> "name", val |-> d]
Rec(t) == [kind |-> "rec", val |-> t]
Bad == [kind |-> "bad", val |-> 0]
Skip == [kind |-> "skip", val |-> 0]

Packets ==
    UNION {{<<Called(d)>>, <<Called(d), Rec(1)>>, <<Called(d), Rec(2), Rec(0), Rec(4)>>,
            <<Called(d), Rec(3), Bad>>} : d \in Device}
      \cup {<<Rec(1), Skip, Rec(3)>>}

Symmetry == Permutations(Conn) \cup Permutations(Device)
=============================================================================
