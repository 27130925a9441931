--------------------------- MODULE MCOverridePlan ---------------------------
(***************************************************************************)
(* Small exports for TLC: a multifunctional process with its allocated     *)
(* child and two levels of calculated parameters, two plain processes, one *)
(* without an identifier; and exports whose order slipped.                 *)
(***************************************************************************)
EXTENDS OverridePlan, TLC

MCNorm == [weight |-> "W", sp_weight |-> "W", share |-> "S", rest |-> "L", quality |-> "Q"]
MCRefs == [net |-> {"W", "S"}, load |-> {"N"}, perShare |-> {"W", "S"}, fixed |-> {},
           half |-> {"L"}, gap |-> {"S", "W"},
           only |-> {"W"}, rate |-> {"W"}]
MCValue(f, e) ==
    CASE f = "net"      -> e["W"] - e["S"]        \* the calculated N
      [] f = "load"     -> 2 * e["N"]             \* the calculated L
      [] f = "half"     -> e["L"] + 1
      [] f = "perShare" -> IF e["S"] + e["W"] = 0 THEN NonFinite ELSE 12 \div (e["S"] + e["W"])
      [] f = "gap"      -> e["W"] - 2 * e["S"]
      [] f = "only"     -> 4 * e["W"]
      [] f = "rate"     -> IF e["W"] = 0 THEN NonFinite ELSE 12 \div e["W"]
      [] f = "fixed"    -> 7

Calcs == <<[name |-> "N", formula |-> "net"], [name |-> "L", formula |-> "load"]>>
Block(id, w, names) ==
    [id |-> id, calcs |-> IF "S" \in names THEN Calcs ELSE << >>,
     given |-> [n \in names |-> IF n = "W" THEN w ELSE 1]]
Ex(f, k) == [formula |-> f, scale |-> k]
Data(c, from, parent, exs) == [code |-> c, from |-> from, parent |-> parent, exchanges |-> exs]

Full == <<Ex("half", 3), Ex("perShare", 2), Ex("gap", 1), Ex("half", 0), Ex("fixed", 0), Ex(None, 5)>>
Plain == <<Ex("only", 2)>>
Pack == Data("pack", 1, None, Full)
Child == Data("u2", 1, "pack", <<Ex("half", -1)>>)
Bare(i) == Data("u1", i, None, Plain)
Fixed == Data("u1", 2, None, <<Ex(None, 5)>>)
Tin(i) == Data("tin", i, None, <<Ex("only", 2), Ex("rate", 1)>>)

Several == <<Block("pack", 2, {"W", "S"}), Block(None, 1, {})>>
Named == <<Block(None, 1, {"W", "Q"}), Block("tin", 3, {"W"})>>
Both == <<Block("pack", 2, {"W", "S"}), Block("tin", 3, {"W"})>>

MCExports ==
    {[blocks |-> Several, data |-> d] : d \in
        {<<Pack, Fixed, Child>>, <<Fixed, Pack, Child>>, <<Pack, Child>>}}
    \cup {[blocks |-> Named, data |-> d] : d \in
        {<<Bare(1), Tin(2)>>, <<Tin(2), Bare(1)>>, <<Bare(1), Tin(2), Bare(1)>>}}
    \cup {[blocks |-> Both, data |-> <<Tin(2), Pack>>]}
=============================================================================
