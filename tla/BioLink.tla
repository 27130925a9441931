------------------------------- MODULE BioLink -------------------------------
(***************************************************************************)
(* The biosphere side of the link: the exchanges of a parsed CSV go        *)
(* through the name snapshot, the flowmap, the normalisers, the prelinker, *)
(* the tiered matcher, the regional suffix and the catalog augmenter.  The *)
(* catalog is a file that one link writes and the next one reads, and the  *)
(* commands that build the registry, the EF flows and the catalog run      *)
(* between links (the last one at any time).                               *)
(***************************************************************************)
EXTENDS MapRegistry

CONSTANTS
  Exchanges,      \* identities of biosphere exchanges
  Inventories,    \* the CSVs: functions from Exchanges to parsed exchanges
  SourceSets,     \* the states the mapping sources may be in
  Snapshots,      \* the base flows of biosphere3 and ecoinvent's biosphere
  MethodUuids,    \* EF uuids the method snapshot names
  EfUniverse,     \* every flow of the EF factor table
  WaterNames,     \* the names whose lower-case spelling starts with "water"
  BioNames,       \* simapro-biosphere.json: <<top, name>> -> name
  Migrations,     \* biosphere-2-3-names: name -> [name, unit, factor]
  ApplyLlm,       \* the setting behind --no-llm
  UnitSize,       \* how much of its quantity one unit is
  MaxLinks        \* bound: links in a row

VARIABLES
  sources,   \* the source files of the registry
  base,      \* the snapshots the catalog is built from
  tables,    \* registry/*.parquet
  efFlows,   \* registry/ef_flows.parquet
  rows,      \* registry/biosphere_catalog.parquet
  csv,       \* the parsed CSV
  inv,       \* sp.data: the biosphere exchanges still in the inventory
  cat,       \* the catalog as this link loaded it
  pc,        \* the stage the link has reached
  links,     \* links completed
  past       \* what the previous link read and what it made of each exchange

files == <<sources, base, tables, efFlows>>
vars == <<sources, base, tables, efFlows, rows, csv, inv, cat, pc, links, past>>

Bio == "ecoinvent-3.9.1-biosphere"
Bio3 == "biosphere3"
Ef == "ef"

NoInput == [db |-> "", code |-> NoCode]
None == [none |-> TRUE]

-----------------------------------------------------------------------------
(* Regions *)

ISO2 == {"FR", "IN"}
AGGREGATE == {"RER"}
IsRegion(token) == token \in ISO2 \cup AGGREGATE

\* The trailing token of a name, if it is the code of a region.
Region(name) == IF IsRegion(name[2]) THEN name[2] ELSE ""

\* Databases whose codes may carry a region, and the suffix itself.
RegionalDbs == {Bio, Bio3}
Synthetic(code) == code[2] # ""
Suffixed(input, region) == [input EXCEPT !.code = <<input.code[1], region>>]

\* Codes in alphabetical order: a synthetic code follows its base.
RegionRank == [r \in {""} \cup ISO2 \cup AGGREGATE |->
                 IF r = "" THEN 0 ELSE IF r = "FR" THEN 1 ELSE IF r = "IN" THEN 2 ELSE 3]

Lex(s, t) == \E i \in DOMAIN s : s[i] < t[i] /\ \A j \in 1 .. i - 1 : s[j] = t[j]

CodeKey(code) == <<code[1], RegionRank[code[2]]>>

-----------------------------------------------------------------------------
(* The catalog *)

Named(c, db, n, bucket) ==
  {f \in c : f.db = db /\ f.name = n /\ Bucket(f.cats) = bucket}

Get(c, db, code) == {f \in c : f.db = db /\ f.code = code}

BaseRows(c) == {f \in c : ~Synthetic(f.code)}

\* BiosphereRegistryBuilder: the snapshots and the EF flows, nothing else.
CatalogOf(snapshot, uuids) == snapshot \cup {f \in EfUniverse : f.code \in uuids}

-----------------------------------------------------------------------------
(* Before the match *)

\* The spelling of the CSV, kept before anything rewrites it.
Snapshotted(e) == IF e.snap = NoName THEN [e EXCEPT !.snap = e.name] ELSE e

\* One flowmap rule, with the two repairs the applier makes to the file: a
\* factor that is not a number, and a heat content where a factor belongs.
Repaired(rule) ==
  IF rule.fault = "none" THEN rule.conv
  ELSE IF rule.fault = "nan" THEN rule.fix
  ELSE [num |-> rule.conv.den, den |-> rule.conv.num]

Times(amount, f) == (amount * f.num) \div f.den

RuleFor(rules, e) ==
  {i \in DOMAIN rules : rules[i].name = e.name /\ rules[i].unit = e.unit /\ rules[i].cats = e.cats}

Flowmapped(rules, e) ==
  IF RuleFor(rules, e) = {} THEN e
  ELSE LET r == rules[CHOOSE i \in RuleFor(rules, e) : \A j \in RuleFor(rules, e) : i <= j]
       IN  [e EXCEPT !.name = <<r.tname, "">>, !.unit = r.tunit, !.code = r.code,
                     !.amount = Times(e.amount, Repaired(r))]

\* The normalisers: units in brightway's spelling; SimaPro's compartments and
\* names in ecoinvent's words; the biosphere 2-to-3 migrations, which may
\* rescale; a trailing "unspecified" goes.  A strategy whose file is missing
\* is logged and skipped.
UnitName(src, unit) ==
  LET named == {i \in DOMAIN src.unitNames : src.unitNames[i].from = unit}
  IN  IF named = {} THEN unit
      ELSE src.unitNames[CHOOSE i \in named : \A j \in named : i <= j].to

UnitSpelled(src, e) == [e EXCEPT !.unit = UnitName(src, @)]

SubNames == [groundwater |-> "ground-", river |-> "surface water", lake |-> "surface water"]

InEcoinventCats(e) ==
  [e EXCEPT !.cats.top = EcoinventTop(@),
            !.cats.sub = IF @ \in DOMAIN SubNames THEN SubNames[@] ELSE @]

InEcoinventNames(src, e) ==
  IF "names" \in src.data /\ <<e.cats.top, e.name>> \in DOMAIN BioNames
  THEN [e EXCEPT !.name = BioNames[<<e.cats.top, e.name>>]] ELSE e

Migrated(src, e) ==
  IF "migrations" \in src.data /\ e.name \in DOMAIN Migrations
  THEN [e EXCEPT !.name = Migrations[e.name].name, !.unit = Migrations[e.name].unit,
                 !.amount = Times(@, Migrations[e.name].factor)]
  ELSE e

WithoutUnspecified(e) ==
  IF e.cats.sub \in {"unspecified", "(unspecified)"} THEN [e EXCEPT !.cats.sub = ""] ELSE e

Normalised(src, e) ==
  WithoutUnspecified(
    Migrated(src, InEcoinventNames(src, InEcoinventCats(UnitSpelled(src, e)))))

Single(flows) == \E f \in flows : flows = {f}

\* The prelinker: by code, by the exact flow, by the only flow of the name in
\* the compartment.  The last two want a single hit.
PrelinkHits(c, db, e) ==
  LET byCode == IF e.code = NoCode THEN {} ELSE Get(c, db, e.code)
      alike == {f \in c : f.db = db /\ <<f.name, "">> = e.name /\ f.unit = e.unit}
      exact == {f \in alike : f.cats = e.cats}
      inTop == {f \in alike : e.cats.sub # "" /\ Bucket(f.cats) = Bucket(e.cats)}
  IN  IF byCode # {} THEN byCode
      ELSE IF Single(exact) THEN exact
      ELSE IF Single(inTop) THEN inTop ELSE {}

\* The database the prelinker looks in.
PrelinkDb(c) == IF \E f \in c : f.db = Bio THEN Bio ELSE Bio3

\* Then ", FR" is dropped from a flow of an activity in FR, which keeps the
\* full spelling aside.
Stripped(e) ==
  IF e.loc # "" /\ e.name[2] = e.loc
  THEN [e EXCEPT !.spname = IF e.spname = NoName THEN e.name ELSE e.spname,
                 !.name = <<e.name[1], "">>]
  ELSE e

Prelinked(c, db, e) ==
  LET hits == PrelinkHits(c, db, e)
      f == CHOOSE h \in hits : TRUE
  IN  Stripped(IF e.input # NoInput \/ hits = {} THEN e
               ELSE [e EXCEPT !.input = [db |-> f.db, code |-> f.code]])

-----------------------------------------------------------------------------
(* The matcher *)

\* Sub-compartment labels of the several vocabularies that mean one place.
SubGroups == [sea |-> {"ocean", "sea water"},
              fresh |-> {"fresh water", "river", "surface water"},
              ground |-> {"ground-", "ground-, long-term", "groundwater"},
              urban |-> {"urban air close to ground", "high. pop."},
              rural |-> {"non-urban air or from high stacks", "low. pop."},
              unspecified |-> {"", "unspecified"}]

Group(sub) == {g \in DOMAIN SubGroups : sub \in SubGroups[g]}

Prefs(row) ==
  LET all == <<Bio, Ef, Bio3>>
  IN  IF row.db = "" THEN all
      ELSE <<row.db>> \o Picked(all, {i \in DOMAIN all : all[i] # row.db})

\* What a lookup finds in the first database of a list where it finds any.
FirstHit(dbs, hits) ==
  LET found == {i \in DOMAIN dbs : hits[dbs[i]] # {}}
  IN  IF found = {} THEN {} ELSE hits[dbs[CHOOSE i \in found : \A j \in found : i <= j]]

\* MUTANT: the last of the sorted flows instead of the first.
Largest(flows) ==
  CHOOSE f \in flows : \A g \in flows : f = g \/ Lex(CodeKey(g.code), CodeKey(f.code))

Smallest(flows) ==
  CHOOSE f \in flows : \A g \in flows : f = g \/ Lex(CodeKey(f.code), CodeKey(g.code))

\* The flow a pinned row points at, whatever its compartment.
PinnedFlow(c, row) ==
  IF row.code = NoCode THEN {}
  ELSE IF row.db # "" THEN Get(c, row.db, row.code)
  ELSE FirstHit(Prefs(row), [db \in Range(Prefs(row)) |-> Get(c, db, row.code)])

\* How well a row's flow fits the sub-compartment of the exchange.
SubRank(c, row, sub) ==
  LET pinned == PinnedFlow(c, row)
      f == CHOOSE g \in pinned : TRUE
  IN  IF pinned = {} THEN 3
      ELSE IF sub = "" THEN (IF f.cats.sub = "" THEN 0 ELSE 3)
      ELSE IF f.cats.sub = sub THEN 0
      ELSE IF Group(f.cats.sub) = {} \/ Group(sub) = {} THEN 3
      ELSE IF Group(f.cats.sub) = Group(sub) THEN 1 ELSE 2

\* MUTANT: a uuid is enough, whatever the compartment.
AnyBucketFits(f, bucket) == TRUE

BucketFits(f, bucket) == Bucket(f.cats) \in {bucket, "unspecified"}

\* A bare uuid must be in the bucket of the exchange or in none; a name is
\* looked up in that bucket, then in none.
ByUuid(c, row, bucket) ==
  IF row.code = NoCode THEN {}
  ELSE FirstHit(Prefs(row), [db \in Range(Prefs(row)) |->
                               {f \in Get(c, db, row.code) : BucketFits(f, bucket)}])

ByNameIn(c, row, bucket) ==
  FirstHit(Prefs(row), [db \in Range(Prefs(row)) |-> Named(c, db, row.tname, bucket)])

ByName(c, row, bucket) ==
  IF row.tname = 0 THEN {}
  ELSE IF ByNameIn(c, row, bucket) # {} THEN ByNameIn(c, row, bucket)
  ELSE ByNameIn(c, row, "unspecified")

\* A row with database and code is taken as it is, whatever the catalog says.
Pins(row) == row.db # "" /\ row.code # NoCode

PinnedUnit(c, row) ==
  IF Get(c, row.db, row.code) = {} THEN row.tunit
  ELSE (CHOOSE f \in Get(c, row.db, row.code) : TRUE).unit

\* The targets a row resolves to, none or one.
Target(c, row, bucket) ==
  LET AsTarget(f) == {[db |-> f.db, code |-> f.code, unit |-> f.unit]}
  IN  IF Pins(row) THEN {[db |-> row.db, code |-> row.code, unit |-> PinnedUnit(c, row)]}
      ELSE IF ByUuid(c, row, bucket) # {} THEN AsTarget(CHOOSE f \in ByUuid(c, row, bucket) : TRUE)
      ELSE IF ByName(c, row, bucket) # {} THEN AsTarget(Smallest(ByName(c, row, bucket)))
      ELSE {}

\* MUTANT: the row's own factor goes first.
RowFactorFirst(t, row, from, to) ==
  IF row.conv # One THEN {row.conv}
  ELSE IF to = "" THEN {One} ELSE Multiplier(t, from, to)

\* The factor from the exchange's unit to the target's: the global table
\* first, the row's own factor only where the table has no path.
Factor(t, row, from, to) ==
  IF to = "" THEN {One}
  ELSE IF Multiplier(t, from, to) # {} THEN Multiplier(t, from, to)
  ELSE IF row.conv # One THEN {row.conv} ELSE {}

Candidates(t, e) ==
  Lookup(t.bio, e.name, Bucket(e.cats)) \cup ByCas(t.bio, e.cas, e.name)

Usable(t, c, e, k) ==
  /\ ApplyLlm \/ k.row.tier \notin LlmGated
  /\ e.input = NoInput \/ k.row.tier \notin FillOnly
  /\ \E g \in Target(c, k.row, Bucket(e.cats)) : Factor(t, k.row, e.unit, g.unit) # {}

SortKey(c, e, k) ==
  <<k.row.tier, k.row.prov, SubRank(c, k.row, e.cats.sub),
    k.row.code[1], RegionRank[k.row.code[2]], k.row.tname, k.pos>>

BestCandidate(t, c, e) ==
  LET usable == {k \in Candidates(t, e) : Usable(t, c, e, k)}
  IN  {k \in usable : \A d \in usable : k = d \/ Lex(SortKey(c, e, k), SortKey(c, e, d))}

\* The region the matcher reads: the spelling kept aside, else the name.
SourceName(e) == IF e.spname # NoName THEN e.spname ELSE e.name

WaterFlow(c, db, code) == \E f \in Get(c, db, code) : f.name \in WaterNames

MatchTo(t, c, e, k) ==
  LET g == CHOOSE x \in Target(c, k.row, Bucket(e.cats)) : TRUE
      f == CHOOSE x \in Factor(t, k.row, e.unit, g.unit) : TRUE
      link == [db |-> g.db, code |-> g.code]
      region == Region(SourceName(e))
      regional == region # "" /\ g.db \in RegionalDbs /\ WaterFlow(c, g.db, g.code)
  IN  [e EXCEPT !.input = IF regional THEN Suffixed(link, region) ELSE link,
                !.tier = k.row.tier, !.row = k.row, !.unitIn = e.unit,
                !.amount = IF f = One THEN e.amount ELSE Times(e.amount, f),
                !.unit = IF f = One \/ g.unit = "" THEN e.unit ELSE g.unit]

Matched(t, c, e) ==
  IF BestCandidate(t, c, e) = {} THEN e
  ELSE MatchTo(t, c, e, CHOOSE k \in BestCandidate(t, c, e) : TRUE)

FinalWaste == [top |-> "Final waste flows", sub |-> ""]

\* What the match drops at its end: unlinked exchanges of no amount, and
\* unlinked final waste flows.
Kept(e) == e.input # NoInput \/ (e.amount # 0 /\ e.cats # FinalWaste)

\* MUTANT: the sweep reads the name as the flowmap left it.
RegionalisedByName(e) ==
  LET region == Region(SourceName(e))
  IN  IF /\ e.input # NoInput /\ ~Synthetic(e.input.code)
         /\ region # "" /\ e.input.db \in RegionalDbs
         /\ e.name[1] \in WaterNames
      THEN [e EXCEPT !.input = Suffixed(e.input, region)] ELSE e

\* The sweep after it: the spelling from before the flowmap decides.
Regionalised(e) ==
  LET spelled == IF e.snap # NoName THEN e.snap ELSE SourceName(e)
      region == Region(spelled)
  IN  IF /\ e.input # NoInput /\ ~Synthetic(e.input.code)
         /\ region # "" /\ e.input.db \in RegionalDbs
         /\ e.name[1] \in WaterNames
      THEN [e EXCEPT !.input = Suffixed(e.input, region)] ELSE e

\* MUTANT: the catalog loaded for the match is extended and written back.
AugmentedLoaded(c) ==
  LET used == {inv[x].input : x \in {y \in DOMAIN inv : Synthetic(inv[y].input.code)}}
  IN  cat \cup UNION {{[f EXCEPT !.code = u.code] : f \in Get(cat, u.db, <<u.code[1], "">>)} : u \in used}

\* The rows the augmenter adds: a copy of the base row for each synthetic
\* code in use; a code whose base is not in the file is skipped.
Augmented(c) ==
  LET used == {inv[x].input : x \in {y \in DOMAIN inv : Synthetic(inv[y].input.code)}}
      BaseOf(u) == Get(BaseRows(c), u.db, <<u.code[1], "">>)
  IN  c \cup UNION {{[f EXCEPT !.code = u.code] : f \in BaseOf(u)} :
                      u \in {v \in used : v.db \in RegionalDbs /\ Get(c, v.db, v.code) = {}}}

-----------------------------------------------------------------------------
(* What the files hold *)

\* Codes are uuids: the suffix of a region is only ever added by a link.
PlainCodes == Nat \X {""}

IsFlow(f) ==
  /\ DOMAIN f = {"db", "code", "name", "unit", "cats"}
  /\ f.code \in PlainCodes \ {NoCode} /\ f.db # ""

IsEntry(e) == e.code \in PlainCodes /\ e.tname \in Nat /\ e.tier \in 1 .. 12

Lists(src) ==
  {src.eiSheet, src.efSheet, src.agbMatches, src.spMatches, src.flowmap, src.waterM3,
   src.harmonised, src.curated, src.llm}

IsParsed(e) ==
  /\ DOMAIN e = {"name", "unit", "cats", "cas", "amount", "code", "input", "tier", "row",
                 "unitIn", "snap", "spname", "loc"}
  /\ e.name # NoName /\ e.code = NoCode
  /\ e.input = NoInput /\ e.tier = 0 /\ e.snap = NoName /\ e.spname = NoName

\* A database has one flow of a code, and the EF database those of the index.
ASSUME FlowAssumption ==
  /\ \A s \in Snapshots : \A f \in s \cup EfUniverse :
       /\ IsFlow(f)
       /\ \A g \in s \cup EfUniverse : g.db = f.db /\ g.code = f.code => g = f
  /\ \A f \in EfUniverse : f.db = Ef

ASSUME SourceAssumption ==
  \A src \in SourceSets :
    /\ \A s \in Lists(src) : s \in Seq(Range(s)) /\ \A i \in DOMAIN s : IsEntry(s[i])
    /\ \A u \in src.efUuids : \E f \in EfUniverse : f.code = u

ASSUME ParseAssumption == \A i \in Inventories : \A x \in DOMAIN i : IsParsed(i[x])

\* The tables that rename a flow never move it to another region.
ASSUME NameAssumption ==
  /\ \A k \in DOMAIN BioNames : Region(BioNames[k]) \in {"", Region(k[2])}
  /\ \A n \in DOMAIN Migrations : Region(Migrations[n].name) \in {"", Region(n)}

-----------------------------------------------------------------------------
(* What the tables say of units *)

\* A factor that leads from one unit to another.
Right(f, from, to) ==
  /\ from \in DOMAIN UnitSize /\ to \in DOMAIN UnitSize
  /\ f.num \in Nat \ {0} /\ f.den \in Nat \ {0}
  /\ UnitSize[from] * f.den = UnitSize[to] * f.num

\* The row may stem from a flowmap entry that the applier repairs.
Unrepaired(src, row) ==
  /\ row.tier = AgribalyseEi
  /\ \E i \in DOMAIN src.flowmap : src.flowmap[i].fault # "none" /\ src.flowmap[i].name = row.name

AllFlows == (UNION Snapshots) \cup EfUniverse

\* The unit a row is written for, and those of the flows it names.
TargetUnits(row) ==
  ({row.tunit} \ {""}) \cup {f.unit : f \in {g \in AllFlows : g.code = row.code \/ g.name = row.tname}}

\* The exchange as the migrations meet it.
BeforeMigration(src, e) ==
  InEcoinventNames(src, InEcoinventCats(UnitSpelled(src, Flowmapped(src.flowmap, Snapshotted(e)))))

\* Every unit has a size, and every flow a unit.
ASSUME UnitAssumption ==
  /\ UnitSize \in [DOMAIN UnitSize -> Int] /\ "" \notin DOMAIN UnitSize
  /\ \A f \in AllFlows : f.unit \in DOMAIN UnitSize
  /\ \A i \in Inventories : \A x \in DOMAIN i : i[x].unit \in DOMAIN UnitSize /\ i[x].amount \in Int

\* The sources are right about units: a spelling stands for the unit it is
\* rewritten to, a factor leads from the unit it is for to the one it is for,
\* the flowmap's once repaired, an inverted one of the conversion package once
\* an extra one hides it; and no two normal spellings mean one unit.
ASSUME FactorAssumption ==
  \A src \in SourceSets :
    LET t == Tables(src)
    IN  /\ \A i \in DOMAIN src.flowmap :
             Right(Repaired(src.flowmap[i]), src.flowmap[i].unit, src.flowmap[i].tunit)
        /\ \A i \in DOMAIN t.conv : Right(t.conv[i].factor, t.conv[i].from, t.conv[i].to)
        /\ \A i \in DOMAIN t.bio :
             /\ t.bio[i].tunit \in DOMAIN UnitSize \cup {""} /\ t.bio[i].conv.den \in Nat \ {0}
             /\ t.bio[i].conv # One /\ ~Unrepaired(src, t.bio[i]) =>
                  \A u \in TargetUnits(t.bio[i]) :
                    Multiplier(t, t.bio[i].sunit, u) = {} => Right(t.bio[i].conv, t.bio[i].sunit, u)
        /\ \A u \in DOMAIN UnitSize :
             /\ Right(One, u, UnitName(src, u)) /\ Right(One, u, Canonical(t, u))
             /\ UnitName(src, UnitName(src, u)) = UnitName(src, u)
             /\ UnitName(src, u) = u =>
                  \A f \in AllFlows : One \in Multiplier(t, u, f.unit) => u = f.unit

\* A migration meets exchanges in the unit it rescales from.
ASSUME MigrationAssumption ==
  \A src \in SourceSets :
    /\ \A n \in DOMAIN Migrations : /\ UnitName(src, Migrations[n].unit) = Migrations[n].unit
                                   /\ Migrations[n].factor.den \in Nat \ {0}
    /\ \A i \in Inventories : \A x \in DOMAIN i :
         LET e == BeforeMigration(src, i[x])
         IN  e.name \in DOMAIN Migrations => Right(Migrations[e.name].factor, e.unit, Migrations[e.name].unit)

\* Amounts are counted in grains so small that no three conversions in a row
\* leave a remainder.
FlowmapFactors(src) == {One} \cup {Repaired(src.flowmap[i]) : i \in DOMAIN src.flowmap}
MigrationFactors == {One} \cup {Migrations[n].factor : n \in DOMAIN Migrations}
MatchFactors(src) ==
  {One} \cup {Tables(src).conv[i].factor : i \in DOMAIN Tables(src).conv}
        \cup {Tables(src).bio[i].conv : i \in DOMAIN Tables(src).bio}

ASSUME GrainAssumption ==
  \A src \in SourceSets :
    \A f \in FlowmapFactors(src), g \in MigrationFactors, h \in MatchFactors(src) :
      \A i \in Inventories : \A x \in DOMAIN i : i[x].amount % (f.den * (g.den * h.den)) = 0

-----------------------------------------------------------------------------
(* The commands *)

Init ==
  /\ sources \in SourceSets /\ base \in Snapshots /\ csv \in Inventories
  /\ tables = NoTables /\ efFlows = {} /\ rows = {}
  /\ inv = <<>> /\ cat = {} /\ pc = "idle" /\ links = 0 /\ past = None

\* dds-build-registry and the two data registries.
BuildRegistry ==
  /\ pc = "idle" /\ tables' = Tables(sources)
  /\ UNCHANGED <<sources, base, efFlows, rows, csv, inv, cat, pc, links, past>>

BuildEfFlows ==
  /\ pc = "idle" /\ efFlows' = EfFlows(tables, MethodUuids)
  /\ UNCHANGED <<sources, base, tables, rows, csv, inv, cat, pc, links, past>>

\* It may run while a link is on its way in another terminal.
BuildCatalog ==
  /\ rows' = CatalogOf(base, efFlows)
  /\ UNCHANGED <<files, csv, inv, cat, pc, links, past>>

\* One stage of a link over the inventory.
Stage(from, to, step) ==
  /\ pc = from /\ pc' = to /\ inv' = step
  /\ UNCHANGED <<files, rows, csv, links, past>>

StartLink ==
  /\ pc = "idle" /\ links < MaxLinks /\ rows # {} /\ tables # NoTables
  /\ Stage("idle", "parsed", csv) /\ cat' = {}

Snapshot ==
  /\ Stage("parsed", "snapshotted", [x \in DOMAIN inv |-> Snapshotted(inv[x])])
  /\ UNCHANGED cat

ApplyFlowmap ==
  /\ Stage("snapshotted", "mapped",
           [x \in DOMAIN inv |-> Flowmapped(sources.flowmap, inv[x])])
  /\ UNCHANGED cat

NormaliseLabels ==
  /\ Stage("mapped", "normalised", [x \in DOMAIN inv |-> Normalised(sources, inv[x])])
  /\ UNCHANGED cat

LoadCatalog ==
  /\ Stage("normalised", "loaded", inv) /\ cat' = rows

Prelink ==
  /\ Stage("loaded", "prelinked", [x \in DOMAIN inv |-> Prelinked(cat, PrelinkDb(cat), inv[x])])
  /\ UNCHANGED cat

Match ==
  LET matched == [x \in DOMAIN inv |-> Matched(tables, cat, inv[x])]
  IN  /\ Stage("prelinked", "matched",
               [x \in {y \in DOMAIN inv : Kept(matched[y])} |-> matched[x]])
      /\ UNCHANGED cat

ApplySuffix ==
  /\ Stage("matched", "suffixed", [x \in DOMAIN inv |-> Regionalised(inv[x])])
  /\ UNCHANGED cat

\* The catalog file is read again, extended and replaced in one rename.
Augment ==
  /\ pc = "suffixed" /\ pc' = "augmented" /\ rows' = Augmented(rows)
  /\ UNCHANGED <<files, csv, inv, cat, links, past>>

FinishLink ==
  /\ pc = "augmented" /\ pc' = "idle" /\ links' = links + 1
  /\ past' = [none |-> FALSE, tables |-> tables, cat |-> cat, inv |-> inv]
  /\ inv' = <<>> /\ cat' = {}
  /\ UNCHANGED <<files, rows, csv>>

Next ==
  \/ BuildRegistry \/ BuildEfFlows \/ BuildCatalog
  \/ StartLink \/ Snapshot \/ ApplyFlowmap \/ NormaliseLabels \/ LoadCatalog
  \/ Prelink \/ Match \/ ApplySuffix \/ Augment \/ FinishLink

Spec == Init /\ [][Next]_vars

-----------------------------------------------------------------------------
(* Properties *)

Linked(x) == inv[x].input # NoInput
TargetOf(x) == Get(cat, inv[x].input.db, <<inv[x].input.code[1], "">>)

\* The region of a flow survives the flowmap, the strip and the match: once
\* the sweep is through, a synthetic code carries the region its exchange had
\* in the CSV and no other, and a water flow that had one is synthetic.
RegionKept ==
  pc \in {"suffixed", "augmented"} =>
    \A x \in DOMAIN inv : Linked(x) =>
      LET region == Region(csv[x].name)  code == inv[x].input.code
      IN  /\ Synthetic(code) => code[2] = region
          /\ region # "" /\ inv[x].input.db \in RegionalDbs /\ inv[x].name[1] \in WaterNames
               => Synthetic(code)

\* The row's own factor was used, and the row is written for another unit, or
\* comes from a flowmap entry whose factor only the applier repairs.
ForeignFactor(e) ==
  /\ Multiplier(tables, e.unitIn, e.unit) = {}
  /\ e.row.sunit # e.unitIn \/ Unrepaired(sources, e.row)

SameQuantity(x) ==
  inv[x].amount * UnitSize[inv[x].unit] = csv[x].amount * UnitSize[csv[x].unit]

\* Flowmap and matcher both rescale: between them an exchange is converted
\* once, and what the matcher linked is measured in the unit of its flow.
QuantityKept ==
  \A x \in DOMAIN inv :
    \/ inv[x].tier # 0 /\ ForeignFactor(inv[x])
    \/ /\ SameQuantity(x)
       /\ inv[x].tier # 0 => \A f \in TargetOf(x) : inv[x].unit = f.unit

Crosses(x) ==
  \E f \in TargetOf(x) : Bucket(f.cats) \notin {Bucket(inv[x].cats), "unspecified"}

\* No match crosses compartments unless its row pins database and code, even
\* though the last-resort lookup and the CAS index ignore the bucket.
CompartmentKept ==
  \A x \in DOMAIN inv :
    inv[x].tier # 0 /\ Crosses(x) => inv[x].row.db # "" /\ inv[x].row.code # NoCode

\* The augmenter leaves every synthetic code in use a row in the file, alike
\* its base, if the file still has that base, and touches no base row.
AugmentCovers ==
  [][pc = "suffixed" /\ pc' = "augmented" =>
       /\ BaseRows(rows') = BaseRows(rows)
       /\ \A x \in DOMAIN inv :
            LET u == inv[x].input
            IN  Synthetic(u.code) =>
                  \A f \in Get(rows, u.db, <<u.code[1], "">>) :
                    [f EXCEPT !.code = u.code] \in rows']_vars

\* A row may pin an EF flow by code, and the matcher does not ask whether the
\* catalog has it.  A catalog built after the EF flows of the current registry
\* has a row, and so a unit and a matrix row, for every EF flow linked to.
PinsResolve ==
  pc \notin {"idle", "parsed", "snapshotted", "mapped", "normalised"}
    /\ CatalogOf(base, EfFlows(tables, MethodUuids)) \subseteq cat
    => \A x \in DOMAIN inv :
         inv[x].input.db = Ef /\ inv[x].row.code \in sources.efUuids => TargetOf(x) # {}

SameReads == /\ pc = "augmented" /\ past # None
             /\ past.tables = tables
             /\ past.cat \subseteq cat /\ BaseRows(cat) = BaseRows(past.cat)

PrelinkedByName(e) ==
  e.tier = 0 /\ e.input # NoInput /\ e.input.code[1] # e.code[1]

SameLink(x) ==
  x \in DOMAIN inv /\ x \in DOMAIN past.inv /\ inv[x].input = past.inv[x].input

\* A second link of the same CSV over the same registry and base catalog, in
\* which only synthetic rows, of the first for instance, are new, gives every
\* exchange the link it had, except one the first had linked by name in the
\* prelinker.
RelinkSettles ==
  SameReads => \A x \in DOMAIN inv \cup DOMAIN past.inv :
    SameLink(x) \/ (x \in DOMAIN past.inv /\ PrelinkedByName(past.inv[x]))

\* "Rebuilds are deterministic: ... the next run reproduces the original scores
\* exactly" (README.md): without that exception.
RelinkReproduces ==
  SameReads => \A x \in DOMAIN inv \cup DOMAIN past.inv : SameLink(x)

=============================================================================
