------------------------------ MODULE MCMethodCf ------------------------------
(* Sources for MethodCf: four methods, eight flows, three activities. *)
EXTENDS MethodCf

Bio(uuid, region) == <<"bio", uuid, region>>
Flow(name, top, sub, cas) == [name |-> name, top |-> top, sub |-> sub, cas |-> cas]

BaseFlows ==
  [k \in {Bio(u, "") : u \in {"lake", "rel", "vap", "sea", "p1", "p2", "bar", "so2"}} |->
     CASE k[2] = "lake" -> Flow("water, lake", "natural resource", "in water", 0)
       [] k[2] = "rel"  -> Flow("water", "water", "surface water", 0)
       [] k[2] = "sea"  -> Flow("water", "water", "ocean", 0)
       [] k[2] = "vap"  -> Flow("water", "air", "", 0)
       [] k[2] = "p1"   -> Flow("atrazine", "water", "surface water", 3)
       [] k[2] = "p2"   -> Flow("atrazine", "water", "ground-", 3)
       [] k[2] = "bar"  -> Flow("barite", "water", "", 0)
       [] k[2] = "so2"  -> Flow("sulphur dioxide", "air", "", 7)]

\* The catalog after BiosphereCatalogAugmenter: tagged codes with base names.
Tagged == {Bio("lake", "FR"), Bio("rel", "FR"), Bio("vap", "FR")}
Catalog == Over(BaseFlows, [k \in Tagged |-> BaseFlows[Base(k)]])

\* A release of the biosphere that takes what is returned for ocean water.
Renamed == [k \in DOMAIN Catalog |-> IF k[2] = "rel" THEN Catalog[Bio("sea", "")] ELSE Catalog[k]]

Jrc(method, uuid, name, top, loc, cf) ==
  [method |-> method, uuid |-> uuid, name |-> name, top |-> top, loc |-> loc, cf |-> cf]

\* u1 has no row without a location; a country's CF is the mean over flows.
Jrc1 ==
  {Jrc(Ecotoxicity, "u1", "atrazine", "water", "FR", 300),
   Jrc(Ecotoxicity, "u1", "atrazine", "water", "CA", 100),
   Jrc(Ecotoxicity, "u2", "atrazine", "water", "FR", 100),
   Jrc(Ecotoxicity, "u2", "atrazine", "water", "", 100),
   Jrc(Ecotoxicity, "", "barite", "water", "", 1),
   Jrc(Acidification, "u5", "sulphur dioxide", "air", "", 131),
   Jrc(Acidification, "u5", "sulphur dioxide", "air", "FR", 50),
   Jrc(WaterUse, "u3", "water", "ground", "", 4295),
   Jrc(WaterUse, "u3", "water", "ground", "FR", 700),
   Jrc(WaterUse, "u4", "water", "water", "FR", -500),
   Jrc(WaterUse, "u3", "water", "ground", "CA", 4295)}

Jrc2 == (Jrc1 \ {Jrc(WaterUse, "u4", "water", "water", "FR", -500)})
        \cup {Jrc(WaterUse, "u4", "water", "water", "FR", -300)}

Cf(uuid, cf) == [db |-> "bio", uuid |-> uuid, cf |-> cf]

Snapshot ==
  [m \in Methods |->
     CASE m = Acidification -> {Cf("so2", 131)}
       [] m = Ecotoxicity -> {Cf("p1", 100), Cf("p2", -100), Cf("bar", 322),
                              [db |-> "ef", uuid |-> "u1", cf |-> 9]}
       [] m = Noise -> {}
       [] m = WaterUse -> {Cf("vap", 4295)}]

Sp(method, name, top, cas) == [method |-> method, name |-> name, top |-> top, cas |-> cas]

\* The reference method knows atrazine by another name, SO2 by its CAS number.
Sp1 == {Sp(Ecotoxicity, "atrazin", "water", 0), Sp(Ecotoxicity, "barite", "water", 0),
        Sp(Acidification, "sulfur dioxide", "air", 7), Sp(WaterUse, "water, lake", "raw", 0)}
Sp2 == {Sp(Ecotoxicity, "barite", "water", 0), Sp(Acidification, "ammonia", "air", 1)}

Nowhere == [brace |-> NoLocation, trail |-> NoLocation]
Activity(catalog, own, name) == [catalog |-> catalog, own |-> own, name |-> name]

Edition1 ==
  [jrc |-> Jrc1, snapshot |-> Snapshot, sp |-> Sp1, catalog |-> Catalog,
   flowmap |-> {[uuid |-> "p1", name |-> "atrazin"]},
   bridge |-> <<>>, overrides |-> NoFile,
   activities |-> <<Activity(NoLocation, NoLocation, [Nowhere EXCEPT !.brace = <<"FR", "">>]),
                    Activity(<<"CA", "QC">>, NoLocation, [Nowhere EXCEPT !.trail = <<"FR", "">>]),
                    Activity(NoLocation, <<"GLO", "">>, [Nowhere EXCEPT !.trail = <<"FR", "">>])>>]

Bridge(uuid, cf) == [uuid |-> uuid, cf |-> cf]
At1(loc) == [col |-> 1, loc |-> loc]

MCEditions ==
  {Edition1,
   [Edition1 EXCEPT !.sp = NoFile],
   [Edition1 EXCEPT !.sp = Sp2],
   [Edition1 EXCEPT !.catalog = Renamed],
   [Edition1 EXCEPT !.jrc = Jrc2, !.overrides = <<At1(<<"CA", "QC">>), [col |-> 3, loc |-> <<"FR", "">>]>>],
   [Edition1 EXCEPT !.bridge = <<Bridge("lake", 4295), Bridge("rel", -4295), Bridge("vap", 1)>>,
                    !.catalog = BaseFlows],
   [Edition1 EXCEPT !.bridge = <<Bridge("lake", 1), Bridge("lake", 2)>>],
   [Edition1 EXCEPT !.snapshot = NoFile],
   [Edition1 EXCEPT !.overrides = <<At1(<<"FR", "">>), At1(<<"CA", "">>)>>]}

\* Activity 1 keeps what it takes, 2 returns it under a tagged code, 3 half of it.
MCB ==
  <<[k \in {Bio("lake", ""), Bio("rel", ""), Bio("vap", "FR"), Bio("p1", "")} |->
       CASE k[2] = "lake" -> 100 [] k[2] = "rel" -> 2 [] k[2] = "vap" -> 10 [] OTHER -> 5],
    [k \in {Bio("lake", ""), Bio("rel", "FR"), Bio("vap", ""), Bio("bar", ""), Bio("so2", "")} |->
       IF k[2] \in {"lake", "rel"} THEN 50 ELSE 3],
    [k \in {Bio("lake", "FR"), Bio("sea", ""), Bio("p2", "")} |->
       IF k[2] = "lake" THEN 10 ELSE 4]>>

MCSupplies == {<<1, 0, 2>>, <<0, 1, 1>>}
=============================================================================
