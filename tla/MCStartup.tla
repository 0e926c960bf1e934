------------------------------ MODULE MCStartup -------------------------------
(* Two processes; lists of up to three entries: numbers, a number twice,    *)
(* ranges, and every mistake an entry can hold, alone and among numbers.    *)
EXTENDS Startup, TLC

Plain(n) == [sep |-> "", parts |-> <<n>>]
Range2(s, a, b) == [sep |-> s, parts |-> <<a, b>>]

TwoPorts == <<Plain(1), Plain(2)>>
Lists == {<<>>, TwoPorts, <<Plain(2), Plain(1), Plain(2)>>,
          <<Plain(NaN)>>, <<Plain(1), Plain(NaN)>>,
          <<Range2("-", 1, 3)>>, <<Plain(2), Range2(":", 11, 12)>>,
          <<Range2("-", 5, 1)>>, <<Range2("-", 1, 1), Plain(1)>>,
          <<[sep |-> "-", parts |-> <<1, 2, 3>>]>>}

\* The list of the comment at utils.go:68.
Commented == {TwoPorts, <<Range2("-", 1, 5), Plain(9), Range2(":", 11, 13)>>}
=============================================================================
