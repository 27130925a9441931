----------------------------- MODULE MapRegistry -----------------------------
(***************************************************************************)
(* The mapping registry: the sources a curator maintains, the tables       *)
(* RegistryBuilder writes from them, and the indexes the biosphere matcher *)
(* looks rows up in.  A pure module: BioLink holds the files.              *)
(*                                                                         *)
(* A name is a pair <<n, region>>: "Water, lake, FR" is <<2, "FR">>.  The  *)
(* first parts are numbered in the alphabetical order of the spellings, so *)
(* that the sorts of the code are comparisons of numbers.  A code is such  *)
(* a pair as well: "<uuid>@FR" is <<uuid, "FR">>, a plain uuid <<uuid, "">>.*)
(* Spellings that only differ in case are one number: every lookup of the  *)
(* registry lowers its key.                                                *)
(***************************************************************************)
EXTENDS Integers, Sequences, Functions

NoName == <<0, "">>
NoCode == <<0, "">>

\* A scaling factor num/den.  A row without a factor carries One.
One == [num |-> 1, den |-> 1]

-----------------------------------------------------------------------------
(* Tiers and buckets *)

CuratedTargeted  == 1
RandonneurAgb    == 2
RandonneurSp     == 3
AgribalyseEi     == 4
Harmonised       == 5
WaterM3          == 6
EfPlaceholder    == 7
LlmOverrides     == 11
SynonymFallback  == 12

\* Tiers that only fill empty links, and those the setting switches off.
FillOnly == 8 .. 12
LlmGated == {LlmOverrides, SynonymFallback}

\* Categories are [top, sub]; the bucket is the compartment the top names, in
\* SimaPro's words or in ecoinvent's.
TopNames == [Air |-> "air", Water |-> "water", Soil |-> "soil", Raw |-> "resource"]

EcoinventTop(top) == IF top \in DOMAIN TopNames THEN TopNames[top] ELSE top

Bucket(cats) ==
  LET top == EcoinventTop(cats.top)
  IN  IF top \in {"air", "water", "soil", "resource"} THEN top ELSE "unspecified"

-----------------------------------------------------------------------------
(* Sources: each turns its entries into rows of one shape *)

\* Provenances in alphabetical order.
ProvFlowmapper == 1
ProvCurated    == 2
ProvHarmonised == 3
ProvLlm        == 4
ProvEfSheet    == 5
ProvEiSheet    == 6
ProvRandonneur == 7

Row(e, bucket, db, code, conv, tier, prov) ==
  [name |-> e.name, bucket |-> bucket, cas |-> e.cas, sunit |-> e.unit,
   db |-> db, code |-> code, tname |-> e.tname, tunit |-> e.tunit, conv |-> conv,
   tier |-> tier, prov |-> prov]

\* The entries at some places of a table, in their order.  A recursive
\* function, which proofs can take apart.
Picked(s, places) ==
  LET kept[i \in 0 .. Len(s)] ==
        IF i = 0 THEN <<>>
        ELSE IF i \in places THEN Append(kept[i - 1], s[i]) ELSE kept[i - 1]
  IN  kept[Len(s)]

Mapped(s, Op(_)) == [i \in DOMAIN s |-> Op(s[i])]

\* A sheet of the placeholder workbook: targets by name only, no factor.
PlaceholderRows(sheet, tier, prov) ==
  LET R(e) == Row(e, Bucket(e.cats), "", NoCode, One, tier, prov)
  IN  Mapped(Picked(sheet, {i \in DOMAIN sheet : sheet[i].name # NoName}), R)

\* The three randonneur packages: a uuid or a name, no database, a factor.
RandonneurRows(pkg, tier) ==
  LET R(e) == Row(e, Bucket(e.cats), "", e.code, e.conv, tier, ProvRandonneur)
  IN  Mapped(pkg, R)

\* The flowmap, read once more as mappings: its factors as they are in the
\* file.  A missing number comes back from the parquet as 1.
FlowmapperRows(rules) ==
  LET R(e) == Row(e, Bucket(e.cats), "", e.code,
                  IF e.fault = "nan" THEN One ELSE e.conv, AgribalyseEi, ProvFlowmapper)
  IN  Mapped(Picked(rules, {i \in DOMAIN rules : rules[i].code # NoCode \/ rules[i].tname # 0}), R)

\* The harmonised list pins database and code, for the uuids the factor
\* table knows; its bucket is read off an IRI of its own.
HarmonisedRows(flows, valid) ==
  LET R(e) == Row(e, e.iri, "ef", e.code, One, Harmonised, ProvHarmonised)
      known == {i \in DOMAIN flows : flows[i].ef31 /\ flows[i].code \in valid}
  IN  Mapped(Picked(flows, known), R)

\* The curator's overrides.  Dead ends go to a list of their own, like the
\* third sheet of the workbook, which the matcher only counts.
CuratedRows(entries) ==
  LET R(e) == Row(e, Bucket(e.cats), e.db, e.code, e.conv, e.tier, ProvCurated)
  IN  Mapped(Picked(entries, {i \in DOMAIN entries : ~entries[i].dead}), R)

\* Reviewed suggestions: accepted ones only, for every compartment.
LlmRows(sheet) ==
  LET R(e) == Row(e, "unspecified", "biosphere3", NoCode, e.conv, LlmOverrides, ProvLlm)
  IN  Mapped(Picked(sheet, {i \in DOMAIN sheet : sheet[i].accept /\ sheet[i].tname # 0}), R)

-----------------------------------------------------------------------------
(* Tables: what RegistryBuilder.build leaves on disk *)

\* Two rows with one signature: the one read first stays.  The provenance and
\* the CAS number are no part of it, the factor is.
Signature(r) == <<r.name, r.bucket, r.sunit, r.db, r.code, r.tname, r.tier, r.conv>>

\* The entries whose key no earlier entry has.
Firsts(s, Key(_)) ==
  Picked(s, {i \in DOMAIN s : \A j \in 1 .. i - 1 : Key(s[j]) # Key(s[i])})

Dedupe(rows) == Firsts(rows, Signature)

BiosphereTable(src) ==
  Dedupe(PlaceholderRows(src.eiSheet, CuratedTargeted, ProvEiSheet)
      \o PlaceholderRows(src.efSheet, EfPlaceholder, ProvEfSheet)
      \o RandonneurRows(src.agbMatches, RandonneurAgb)
      \o RandonneurRows(src.spMatches, RandonneurSp)
      \o FlowmapperRows(src.flowmap)
      \o RandonneurRows(src.waterM3, WaterM3)
      \o HarmonisedRows(src.harmonised, src.efUuids)
      \o CuratedRows(src.curated)
      \o LlmRows(src.llm))

\* The extra conversions come first and win over the upstream package, which
\* has some of its multipliers inverted.
ConversionTable(src) ==
  LET Units(c) == <<c.from, c.to>>
  IN  Firsts(src.extraConversions \o src.conversions, Units)

\* Spellings of units: two packages, which need not agree.
AliasTable(src) ==
  LET Spelling(a) == a
  IN  Firsts(src.unitAliases \o src.unitNames, Spelling)

Tables(src) ==
  [bio |-> BiosphereTable(src), conv |-> ConversionTable(src), alias |-> AliasTable(src),
   efIndex |-> src.efUuids]

NoTables == [bio |-> <<>>, conv |-> <<>>, alias |-> <<>>, efIndex |-> {}]

\* MUTANT: only what a method names.
MethodEfFlows(tables, methodUuids) == tables.efIndex \cap methodUuids

\* The EF flows worth a catalog row: those a mapping pins or a method names.
EfFlows(tables, methodUuids) ==
  tables.efIndex \cap
    (methodUuids \cup {tables.bio[i].code : i \in {j \in DOMAIN tables.bio :
                         tables.bio[j].db = "ef" /\ tables.bio[j].code # NoCode}})

-----------------------------------------------------------------------------
(* Indexes *)

\* Candidates for a name in a bucket: the rows of the bucket, then those of
\* no bucket; if there are none, the rows of the name in any bucket.  "pos"
\* is the place in the list the lookup returns.
Lookup(bio, name, bucket) ==
  LET named == {i \in DOMAIN bio : bio[i].name = name}
      direct == {i \in named : bio[i].bucket = bucket}
      agnostic == {i \in named : bio[i].bucket = "unspecified"}
      Listed(S, p) == {[row |-> bio[i], pos |-> p + i] : i \in S}
  IN  IF bucket = "unspecified" THEN Listed(direct, 0)
      ELSE IF direct \cup agnostic # {}
           THEN Listed(direct, 0) \cup Listed(agnostic, Len(bio))
           ELSE Listed(named, 0)

\* Rows that share the CAS number, whatever their bucket, if they were filed
\* under the exchange's own name.
ByCas(bio, cas, name) ==
  {[row |-> bio[i], pos |-> 2 * Len(bio) + i] :
      i \in {j \in DOMAIN bio : cas # "" /\ bio[j].cas = cas /\ bio[j].name = name}}

\* The spelling of a unit the conversion table is keyed by: an alias, the last
\* one read, unless the unit is a key of that table as it is.
KnownUnits(conv) == {conv[i].from : i \in DOMAIN conv} \cup {conv[i].to : i \in DOMAIN conv}

Canonical(t, unit) ==
  LET named == {i \in DOMAIN t.alias : t.alias[i].from = unit /\ unit \notin KnownUnits(t.conv)}
  IN  IF named = {} THEN unit
      ELSE t.alias[CHOOSE i \in named : \A j \in named : j <= i].to

\* The multipliers the global table knows between two units: at most one.
Multiplier(t, from, to) ==
  LET f == Canonical(t, from)  g == Canonical(t, to)
  IN  IF f = g THEN {One}
      ELSE {t.conv[i].factor : i \in {j \in DOMAIN t.conv : t.conv[j].from = f /\ t.conv[j].to = g}}

=============================================================================
