------------------------------ MODULE MCWhatIf ------------------------------
(* Instances of WhatIf for TLC: two CSV exports that share one synthetic   *)
(* code; the second drops the parameter the first defines.  An exchange of *)
(* either is prelinked by the name of a base row and becomes fr; once the  *)
(* catalog has a row for fr, the name is ambiguous and the link is lost.   *)
EXTENDS WhatIf, TLC
CONSTANTS c1, c2, fr, de, it, k1

TwoCsv == {c1, c2}
StampOf == c1 :> 1 @@ c2 :> 2
DefinesOf == c1 :> {k1} @@ c2 :> {}

Linkings == [csv : TwoCsv, byName : BOOLEAN]
LinkOf == [c \in TwoCsv |-> [s \in SUBSET Code |-> [csv |-> c, byName |-> fr \notin s]]]
SyntheticOf == [l \in Linkings |-> (IF l.byName THEN {fr} ELSE {}) \cup
                                   (IF l.csv = c1 THEN {de} ELSE {it})]
=============================================================================
