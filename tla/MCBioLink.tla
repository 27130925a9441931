------------------------------ MODULE MCBioLink ------------------------------
(***************************************************************************)
(* An instance of BioLink: one exchange of every interesting kind beside a *)
(* regional water flow, and any one or two entries of a pool of mapping    *)
(* sources.                                                                *)
(***************************************************************************)
EXTENDS BioLink

Nitrate == 1
Phosphorus == 2
Radon == 3
Uranium == 4
UraniumEnergy == 5
Water == 6
WaterLake == 7
FreshWater == 8
PhosphorusP == 9

MCWaterNames == {Water, WaterLake}

Cats(top, sub) == [top |-> top, sub |-> sub]

Flow(db, code, name, unit, top, sub) ==
  [db |-> db, code |-> <<code, "">>, name |-> name, unit |-> unit, cats |-> Cats(top, sub)]

MCSnapshots ==
  {{Flow(Bio, 11, Nitrate, "kg", "water", ""),
    Flow(Bio, 12, Nitrate, "kg", "air", ""),
    Flow(Bio, 13, Phosphorus, "kg", "water", "surface water"),
    Flow(Bio, 14, Phosphorus, "kg", "water", "ocean"),
    Flow(Bio, 15, Radon, "kBq", "air", ""),
    Flow(Bio, 16, Uranium, "kg", "resource", ""),
    Flow(Bio, 17, Water, "m3", "resource", ""),
    Flow(Bio, 18, WaterLake, "m3", "resource", "lake"),
    Flow(Bio3, 19, Phosphorus, "kg", "water", "ocean")}}

MCEfUniverse ==
  {Flow(Ef, 31, Phosphorus, "kg", "water", "sea water"),
   Flow(Ef, 32, Nitrate, "kg", "soil", "")}

MCUnitSize == [ton |-> 8, kg |-> 4, Bq |-> 1, kBq |-> 2, MJ |-> 1, m3 |-> 16, t |-> 8]

Ratio(n, d) == [num |-> n, den |-> d]

\* One entry of any source: the fields a reader of it looks at.
E(name, unit, top, sub, tname, code) ==
  [name |-> name, unit |-> unit, cats |-> Cats(top, sub), cas |-> "", tname |-> tname,
   tunit |-> unit, db |-> "", code |-> IF code = 0 THEN NoCode ELSE <<code, "">>,
   conv |-> One, tier |-> CuratedTargeted, dead |-> FALSE, accept |-> TRUE,
   ef31 |-> TRUE, iri |-> "unspecified", fault |-> "none", fix |-> One]

NoSources ==
  [eiSheet |-> <<>>, efSheet |-> <<>>, agbMatches |-> <<>>,
   spMatches |-> <<>>, flowmap |-> <<>>, waterM3 |-> <<>>, harmonised |-> <<>>,
   curated |-> <<>>, llm |-> <<>>, efUuids |-> {<<31, "">>, <<32, "">>},
   conversions |-> <<[from |-> "Bq", to |-> "kBq", factor |-> Ratio(2, 1)],
                     [from |-> "t", to |-> "kg", factor |-> Ratio(2, 1)]>>,
   unitNames |-> <<[from |-> "ton", to |-> "t"]>>,
   unitAliases |-> <<[from |-> "t", to |-> "kg"]>>, data |-> {"names", "migrations"},
   extraConversions |-> <<[from |-> "Bq", to |-> "kBq", factor |-> Ratio(1, 2)]>>]

\* The pool: [source file, entry].
Pool ==
  {<<"eiSheet", E(<<Phosphorus, "">>, "kg", "Water", "", Phosphorus, 0)>>,
   <<"eiSheet", [E(<<Nitrate, "FR">>, "kg", "Soil", "", Nitrate, 0) EXCEPT !.cas = "cas1"]>>,
   <<"efSheet", E(<<Phosphorus, "">>, "kg", "Water", "ocean", Phosphorus, 0)>>,
   <<"agbMatches", E(<<Radon, "">>, "Bq", "Air", "", Radon, 0)>>,
   <<"spMatches", [E(<<Water, "FR">>, "kg", "Raw", "", Water, 17) EXCEPT !.conv = Ratio(1, 4)]>>,
   <<"spMatches", [E(<<Water, "">>, "kg", "Raw", "", Water, 0) EXCEPT !.conv = Ratio(1, 4)]>>,
   <<"agbMatches", E(<<Nitrate, "">>, "kg", "Soil", "", Nitrate, 12)>>,
   <<"spMatches", E(<<WaterLake, "IN">>, "m3", "Raw", "lake", WaterLake, 0)>>,
   <<"flowmap", [E(<<Radon, "">>, "Bq", "Air", "low. pop.", Radon, 15)
                   EXCEPT !.conv = Ratio(1, 2), !.tunit = "kBq"]>>,
   <<"flowmap", [E(<<UraniumEnergy, "">>, "MJ", "Raw", "in ground", Uranium, 16)
                   EXCEPT !.conv = Ratio(4, 1), !.tunit = "kg", !.fault = "inverted"]>>,
   <<"flowmap", [E(<<Water, "FR">>, "m3", "Raw", "", Water, 0) EXCEPT !.tunit = "m3"]>>,
   <<"flowmap", [E(<<Water, "">>, "kg", "Raw", "", Water, 17)
                   EXCEPT !.tunit = "m3", !.fault = "nan", !.fix = Ratio(1, 4)]>>,
   <<"flowmap", E(<<Phosphorus, "">>, "kg", "Water", "river", Phosphorus, 13)>>,
   <<"flowmap", E(<<Phosphorus, "">>, "kg", "Water", "ocean", Phosphorus, 14)>>,
   <<"waterM3", E(<<Water, "RER">>, "m3", "Raw", "", Water, 17)>>,
   <<"harmonised", [E(<<Phosphorus, "">>, "", "", "", Phosphorus, 31) EXCEPT !.iri = "water"]>>,
   <<"harmonised", [E(<<Nitrate, "">>, "", "", "", Nitrate, 32) EXCEPT !.iri = "soil"]>>,
   <<"curated", [E(<<Nitrate, "">>, "kg", "Soil", "", Nitrate, 11) EXCEPT !.db = Bio]>>,
   <<"curated", [E(<<Water, "FR">>, "kg", "Raw", "", Water, 17)
                   EXCEPT !.db = Bio, !.conv = Ratio(1, 4)]>>,
   <<"curated", [E(<<Radon, "">>, "Bq", "Air", "", Radon, 0) EXCEPT !.dead = TRUE]>>,
   <<"curated", [E(<<Phosphorus, "">>, "kg", "Water", "", Phosphorus, 19)
                   EXCEPT !.tier = SynonymFallback, !.conv = Ratio(2, 1)]>>,
   <<"llm", E(<<Nitrate, "">>, "kg", "Soil", "", Nitrate, 0)>>}

With(src, p) == [src EXCEPT ![p[1]] = Append(@, p[2])]

MCSourceSets ==
  {With(With(NoSources, p), q) : p, q \in Pool}
    \cup {[With(NoSources, p) EXCEPT !.data = {}] : p \in Pool}

\* A parsed exchange.
X(name, unit, top, sub, amount, loc) ==
  [name |-> name, unit |-> unit, cats |-> Cats(top, sub), cas |-> "", amount |-> amount,
   code |-> NoCode, input |-> NoInput, tier |-> 0, row |-> None, unitIn |-> "",
   snap |-> NoName, spname |-> NoName, loc |-> loc]

Parsed ==
  {X(<<Nitrate, "">>, "kg", "Water", "groundwater", 16, "FR"),
   [X(<<Nitrate, "FR">>, "kg", "Air", "high. pop.", 16, "FR") EXCEPT !.cas = "cas1"],
   X(<<Phosphorus, "">>, "kg", "Water", "ocean", 16, ""),
   X(<<Phosphorus, "">>, "kg", "Water", "", 0, ""),
   X(<<Radon, "">>, "Bq", "Air", "low. pop.", 16, ""),
   X(<<Radon, "">>, "Bq", "Air", "", 16, ""),
   X(<<UraniumEnergy, "">>, "MJ", "Raw", "in ground", 16, ""),
   X(<<UraniumEnergy, "">>, "MJ", "Raw", "", 16, ""),
   X(<<Water, "FR">>, "m3", "Raw", "unspecified", 16, "FR"),
   X(<<Water, "RER">>, "m3", "Raw", "", 16, "FR"),
   X(<<Water, "FR">>, "ton", "Raw", "", 16, ""),
   X(<<Water, "">>, "kg", "Raw", "", 16, "FR"),
   X(<<WaterLake, "IN">>, "m3", "Raw", "lake", 16, ""),
   X(<<PhosphorusP, "">>, "t", "Water", "river", 16, ""),
   X(<<FreshWater, "IN">>, "m3", "Raw", "lake", 16, ""),
   X(<<Nitrate, "">>, "kg", "Final waste flows", "", 16, "")}

MCInventories ==
  {[x \in Exchanges |-> IF x = "x1" THEN p ELSE X(<<Water, "FR">>, "m3", "Raw", "", 16, "IN")]
     : p \in Parsed}

MCBioNames == [k \in {<<"resource", <<FreshWater, "IN">>>>} |-> <<WaterLake, "">>]

MCMigrations ==
  [n \in {<<PhosphorusP, "">>} |-> [name |-> <<Phosphorus, "">>, unit |-> "kg", factor |-> Ratio(2, 1)]]

=============================================================================
