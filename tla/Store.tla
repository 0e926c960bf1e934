-------------------------------- MODULE Store ---------------------------------
(***************************************************************************)
(* Go maps and append-only files, as the sessions of all parsers use them.  *)
(* A file is the sequence of its entries; a map holds files or GPSInfos.    *)
(***************************************************************************)
EXTENDS Sequences

Empty == [x \in {} |-> <<>>]

\* m[k] = v on a Go map.
Put(m, k, v) == [x \in DOMAIN m \cup {k} |-> IF x = k THEN v ELSE m[x]]

\* OpenFile with O_APPEND and O_CREATE, then WriteString.
AppendTo(m, k, s) == Put(m, k, (IF k \in DOMAIN m THEN m[k] ELSE <<>>) \o s)

Elements(s) == {s[i] : i \in DOMAIN s}
RecordsOf(s) == {s[i].rec : i \in DOMAIN s}
=============================================================================
