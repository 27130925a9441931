------------------------------ MODULE MCLinkChain ------------------------------
(***************************************************************************)
(* A small inventory for TLC: a producer p in many shapes, a process s     *)
(* that makes (or does not make) the same waste service elsewhere, and a   *)
(* consumer c with two inputs.                                             *)
(***************************************************************************)
EXTENDS LinkChain

MCNameOf == [wasteFR |-> "waste {FR}", wasteRoW |-> "waste {RoW}",
             power |-> "power {FR}", food |-> "food",
             meal |-> "food"]
MCUnitOf == [wasteFR |-> "kg", wasteRoW |-> "kg", power |-> "MJ", food |-> "kg", meal |-> "kg"]
MCProcessName == [p |-> "waste {FR}", s |-> "make waste", c |-> "cook"]

MCName == {"waste {FR}", "waste {RoW}", "power {FR}", "food", "make waste", "cook",
           "old tap", "tap {CH}", "market for tap", "oil {CH}", "market for oil",
           "mains {CH}", "electricity market", "haul {CH}", "transport",
           "odd", "nowhere", "waste [dummy]", "waste treatment", "treatment", "power"}

MCStem == [n \in MCName |-> CASE n \in {"waste {FR}", "waste {RoW}"} -> "waste"
                              [] n = "power {FR}" -> "power"
                              [] OTHER -> None]
MCPlace == [n \in MCName |-> CASE n \in {"waste {FR}", "power {FR}"} -> "FR"
                               [] n = "waste {RoW}" -> "RoW"
                               [] OTHER -> None]
MCCandidates == [waste |-> <<"waste treatment", "treatment">>, power |-> <<"nowhere", "power">>]
MCFallback == <<"RER", "RoW">>
MCRank == [wasteFR |-> 1, wasteRoW |-> 2, power |-> 3, food |-> 4, meal |-> 5,
           tap |-> 6, oil |-> 7, mains |-> 8, haul |-> 9, treat |-> 10]

MCCatalog ==
    [tap   |-> [name |-> "market for tap", unit |-> "kg", loc |-> "CH", ref |-> "tap"],
     oil   |-> [name |-> "market for oil", unit |-> "kg", loc |-> "CH", ref |-> "oil"],
     mains |-> [name |-> "electricity market", unit |-> "kWh", loc |-> "CH", ref |-> "mains"],
     haul  |-> [name |-> "transport", unit |-> "km", loc |-> "CH", ref |-> "transport"],
     treat |-> [name |-> "treatment", unit |-> "ton", loc |-> "RER", ref |-> "waste"]]

MCCorrected == [n \in MCName |-> IF n = "old tap" THEN "tap {CH}" ELSE n]
Row(n, r) == [name |-> n, loc |-> "CH", ref |-> r]
MCRestored == [n \in MCName |->
    CASE n = "tap {CH}"   -> Row("market for tap", "tap")
      [] n = "oil {CH}"   -> Row("market for oil", "stale")
      [] n = "mains {CH}" -> Row("electricity market", "mains")
      [] n = "haul {CH}"  -> Row("transport", "transport")
      [] OTHER            -> None]
MCCustomFix == [n \in MCName |-> IF n = "odd" THEN Row("market for tap", "tap") ELSE None]
MCConversion == [u \in {"kg", "MJ", "kWh", "m", "km", "ton"} |->
    CASE u = "m" -> "km" [] u = "kWh" -> "MJ" [] OTHER -> None]

-----------------------------------------------------------------------------

Row0(p, type, fun, n, to, name, unit) ==
    [of |-> p, type |-> type, functional |-> fun, stub |-> FALSE, n |-> n, measure |-> unit,
     alloc |-> 1, to |-> to, unit |-> unit, label |-> [name |-> name, loc |-> None, ref |-> None]]

Out(p, fun, n, q) == Row0(p, "production", fun, n, q, MCNameOf[q], MCUnitOf[q])
Stub(p, q) == [Out(p, FALSE, 0, q) EXCEPT !.stub = TRUE]
Treat(p, n, q) == Row0(p, "technosphere", TRUE, n, q, MCNameOf[q], MCUnitOf[q])
In(p, name, unit) == Row0(p, "technosphere", FALSE, 2, Unlinked, name, unit)

Shapes(p, q, r) ==   \* p makes or treats q; r is another product
    {<<Out(p, TRUE, 2, q)>>, <<Out(p, TRUE, 0, q)>>, <<Out(p, FALSE, 2, q)>>,
     <<Out(p, TRUE, 2, q), Out(p, FALSE, 2, r)>>, <<Out(p, TRUE, 2, q), Treat(p, 2, r)>>,
     <<Out(p, TRUE, 2, r), Treat(p, 2, q)>>,
     <<Treat(p, 2, q)>>, <<Treat(p, 2, q), Stub(p, q)>>, <<Treat(p, 0, q), Stub(p, q)>>,
     <<Treat(p, 2, q), Out(p, FALSE, 0, q)>>, <<Treat(p, 2, q), Out(p, FALSE, 2, r)>>,
     <<Stub(p, q)>>}

SiblingShapes == {<<Out("s", TRUE, 2, "wasteRoW")>>, <<Out("s", TRUE, 0, "wasteRoW")>>,
                  <<Out("s", FALSE, 2, "wasteRoW")>>, <<Stub("s", "wasteRoW")>>,
                  <<Out("s", TRUE, 2, "power"), Treat("s", 2, "wasteRoW")>>}

Inputs == {<<"waste {FR}", "kg">>, <<"waste {RoW}", "kg">>, <<"power {FR}", "MJ">>,
           <<"old tap", "kg">>, <<"oil {CH}", "kg">>, <<"mains {CH}", "MJ">>,
           <<"haul {CH}", "m">>, <<"odd", "kg">>, <<"nowhere", "kg">>,
           <<"food", "kg">>,   \* two products go by it
           <<"waste [dummy]", "kg">>}

ByCode(k, c) == [kind |-> k, code |-> c, name |-> "food"]
ByName(k, n) == [kind |-> k, code |-> None, name |-> n]
Deletions == {{}, {ByCode("process", "p")}, {ByName("process", "waste {FR}")},
              {ByCode("product", "wasteFR")}, {ByCode("process", "s")},
              {ByCode("process", "p"), ByCode("product", "wasteFR")},
              {ByCode("process", "p"), ByName("product", "waste {FR}")},
              {ByCode("process", "s"), ByCode("product", "wasteRoW")}}

Joined(a, b, x, y) ==
    [e \in {"c0", "c1", "c2", "p1", "s1"} \cup (IF Len(a) = 2 THEN {"p2"} ELSE {})
                                          \cup (IF Len(b) = 2 THEN {"s2"} ELSE {}) |->
       CASE e = "c0" -> Out("c", TRUE, 2, "food")
         [] e = "c1" -> In("c", x[1], x[2])
         [] e = "c2" -> In("c", y[1], y[2])
         [] e = "p1" -> a[1]
         [] e = "p2" -> a[2]
         [] e = "s1" -> b[1]
         [] e = "s2" -> b[2]]

\* A process with two outputs is of type "multifunctional".
Several(a) == Len(a) = 2 /\ a[1].functional /\ a[2].functional

MCSources ==
    {[edges |-> Joined(a, b, x, y), multi |-> IF Several(a) THEN {"p"} ELSE {},
      emits |-> emitting, deletions |-> d] :
        a \in Shapes("p", "wasteFR", "wasteRoW") \cup Shapes("p", "wasteFR", "power"),
        b \in SiblingShapes, x \in Inputs, y \in {<<"waste {FR}", "kg">>, <<"waste {RoW}", "kg">>, <<"power {FR}", "MJ">>},
        d \in Deletions, emitting \in {{}, {"p", "s"}}}
=============================================================================
