------------------------------- MODULE CfTables -------------------------------
(***************************************************************************)
(* Characterisation factors (CFs) as tables: what the builders compute     *)
(* from the sources, and what a scoring package makes of the tables.  A    *)
(* pure module; MethodCf holds the files.                                  *)
(*                                                                         *)
(* A flow is a key <<db, uuid, region>>, db "ef" or "bio"; the region is   *)
(* "" but in the synthetic codes "<uuid>@<region>".  A location is a pair  *)
(* <<head, tail>>: "CA-QC" is <<"CA", "QC">>.  CFs and amounts are counted *)
(* in hundredths.                                                          *)
(***************************************************************************)
EXTENDS Integers, FiniteSets, FiniteSetsExt

CONSTANT NoFile   \* what stands for a file that is not there

NoLocation == <<"", "">>

Abs(n) == IF n < 0 THEN -n ELSE n
Sign(n) == IF n < 0 THEN -1 ELSE 1
Over(f, g) == [k \in DOMAIN f \cup DOMAIN g |-> IF k \in DOMAIN f THEN f[k] ELSE g[k]]
Put(f, k, v) == [x \in DOMAIN f \cup {k} |-> IF x = k THEN v ELSE f[x]]
Keeping(f, S) == [k \in DOMAIN f \cap S |-> f[k]]
Base(k) == <<k[1], k[2], "">>

\* The sum of a column of numbers.
Total(f) == MapThenSumSet(LAMBDA x : f[x], DOMAIN f)

\* The mean of the CFs of a set of rows, and of their magnitudes.
Mean(rows) == Total([r \in rows |-> r.cf]) \div Cardinality(rows)
MeanAbs(rows) == Total([r \in rows |-> Abs(r.cf)]) \div Cardinality(rows)

-----------------------------------------------------------------------------
(* Methods: numbered in the order of their labels *)

Acidification == 1
Ecotoxicity   == 2
Noise         == 3   \* a method of the snapshot EF_METHOD_MAP does not name
WaterUse      == 4

Methods == 1 .. 4

EfMethodMap == {Acidification, Ecotoxicity, WaterUse}

\* The audited allowlist: the methods with regional CFs besides water use.
RegionalAllowlist == {Ecotoxicity}

ExcludedNames == [m \in EfMethodMap |-> IF m = Ecotoxicity THEN {"barite"} ELSE {}]

-----------------------------------------------------------------------------
(* The CFs of a method *)

\* One CF per flow of the JRC table: the row without a location, else the mean.
GlobalCf(rows) ==
  LET null == {r \in rows : r.loc = ""}
  IN  IF null # {} THEN Mean(null) ELSE Mean(rows)

EfCfs(jrc, m) ==
  LET rows == {r \in jrc : r.method = m /\ r.uuid # ""}
  IN  [k \in {<<"ef", r.uuid, "">> : r \in rows} |-> GlobalCf({r \in rows : r.uuid = k[2]})]

\* The snapshot's CFs for biosphere flows; its EF rows are the JRC's to give.
Inherited(rows) ==
  LET kept == {r \in rows : r.uuid # "" /\ r.db \notin {"", "ef"}}
  IN  [k \in {<<r.db, r.uuid, "">> : r \in kept} |->
         (CHOOSE r \in kept : <<r.db, r.uuid, "">> = k).cf]

\* The curated bridge: a list of codes and CFs, without duplicates.
BridgeLoads(bridge) ==
  \/ bridge = NoFile
  \/ /\ \A i \in DOMAIN bridge : bridge[i].uuid # ""
     /\ \A i, j \in DOMAIN bridge : bridge[i].uuid = bridge[j].uuid => i = j

BridgeRows(bridge) ==
  IF bridge = NoFile THEN <<>>
  ELSE LET at(k) == CHOOSE i \in DOMAIN bridge : bridge[i].uuid = k[2]
       IN  [k \in {<<"bio", bridge[i].uuid, "">> : i \in DOMAIN bridge} |-> bridge[at(k)].cf]

\* Only gaps are filled: a CF that is already there stays.
MergeGaps(cfs, rows) == Over(cfs, rows)

Unfiltered(src, m) ==
  LET cfs == Over(EfCfs(src.jrc, m), Inherited(src.snapshot[m]))
  IN  IF m = WaterUse THEN MergeGaps(cfs, BridgeRows(src.bridge)) ELSE cfs

-----------------------------------------------------------------------------
(* SimaProCfFilter: the CFs of the reference method only *)

BioTop(top) == IF top \in {"raw", "resources"} THEN "natural resource" ELSE top

\* Rows of the organic and inorganic sub-methods carry the root's number.
Signatures(table, m) ==
  {<<r.name, BioTop(r.top)>> : r \in {r \in table : r.method = m}}

CasSignatures(table, m) ==
  {<<r.cas, BioTop(r.top)>> : r \in {r \in table : r.method = m /\ r.cas # 0}}

\* Mutant: a synonym only for the very code the flowmap names.
SynonymsByCode(src, key) ==
  {e.name : e \in {e \in src.flowmap : <<"bio", e.uuid, "">> = key}}

\* The names the flowmap has for a flow, or for another sub-compartment of it.
Synonyms(src, key) ==
  LET flow == src.catalog[key]
      Sister(k) == k \in DOMAIN src.catalog /\ src.catalog[k].name = flow.name
                                            /\ src.catalog[k].top = flow.top
  IN  {e.name : e \in {e \in src.flowmap : Sister(<<"bio", e.uuid, "">>)}}

Excluded(src, m, key) ==
  key \in DOMAIN src.catalog /\ src.catalog[key].name \in ExcludedNames[m]

\* A flow the catalog does not know is kept, as is a method without reference.
Characterised(src, table, m, key) ==
  \/ Signatures(table, m) = {}
  \/ key \notin DOMAIN src.catalog
  \/ LET flow == src.catalog[key]
     IN  \/ \E n \in {flow.name} \cup Synonyms(src, key) : <<n, flow.top>> \in Signatures(table, m)
         \/ <<flow.cas, flow.top>> \in CasSignatures(table, m)

Keep(src, table, m, key) ==
  /\ ~Excluded(src, m, key)
  /\ key[1] = "bio" => Characterised(src, table, m, key)

\* The filter has to look at the reference table.
NeedsTable(src, m) ==
  /\ src.sp # NoFile /\ m # WaterUse
  /\ \E k \in DOMAIN Unfiltered(src, m) : k[1] = "bio" /\ ~Excluded(src, m, k)

\* Water use is not filtered, and nothing is without the spreadsheet.
Cfs(src, table, m) ==
  LET cfs == Unfiltered(src, m)
  IN  IF m = WaterUse \/ src.sp = NoFile THEN cfs
      ELSE Keeping(cfs, {k \in DOMAIN cfs : Keep(src, table, m, k)})

-----------------------------------------------------------------------------
(* Regional CFs: by flow and country *)

\* |regional - global| below 0.01 is no correction.
DiffEps == 1

Jrc2BioTop == [air |-> "air", water |-> "water", ground |-> "natural resource"]

\* The magnitudes of a method by name, compartment and country.
RegionalCf(jrc, m, flow) ==
  LET at(l) == {r \in jrc : r.method = m /\ r.loc = l /\ r.name = flow.name
                                         /\ Jrc2BioTop[r.top] = flow.top}
      locs == {r.loc : r \in jrc} \ {""}
  IN  [l \in {l \in locs : at(l) # {} /\ MeanAbs(at(l)) > 0} |-> MeanAbs(at(l))]

\* For water use by country alone: the flows share one grid.
WaterCf(jrc) ==
  LET at(l) == {r \in jrc : r.method = WaterUse /\ r.loc = l}
      locs == {r.loc : r \in jrc} \ {""}
  IN  [l \in {l \in locs : at(l) # {} /\ MeanAbs(at(l)) > 0} |-> MeanAbs(at(l))]

\* The magnitude is the country's, the sign that of the global CF.
RegionalOf(cfs, ByLocation(_)) ==
  LET all == UNION {{<<k, l>> : l \in DOMAIN ByLocation(k)} : k \in {k \in DOMAIN cfs : cfs[k] # 0}}
  IN  [kl \in {kl \in all : Abs(ByLocation(kl[1])[kl[2]] - Abs(cfs[kl[1]])) >= DiffEps} |->
         Sign(cfs[kl[1]]) * ByLocation(kl[1])[kl[2]]]

RegionalRows(src, m, cfs) ==
  LET ByFlow(k) == IF k[1] = "bio" /\ k \in DOMAIN src.catalog
                   THEN RegionalCf(src.jrc, m, src.catalog[k]) ELSE <<>>
  IN  IF m \in RegionalAllowlist THEN RegionalOf(cfs, ByFlow) ELSE <<>>

RegionalWaterRows(src, cfs) ==
  LET ByCountry(k) == WaterCf(src.jrc) IN RegionalOf(cfs, ByCountry)

-----------------------------------------------------------------------------
(* Where an activity is *)

Aggregates == {"GLO", "RoW", "RER"}

\* The country of a sub-region; no location for an aggregate.
Resolve(raw) == IF raw[1] \in Aggregates \cup {""} THEN NoLocation ELSE <<raw[1], "">>

\* The last braces of a name, else its trailing token.
Parsed(name) == IF name.brace # NoLocation THEN Resolve(name.brace) ELSE Resolve(name.trail)

OverridesLoad(overrides) ==
  overrides # NoFile =>
    \A i, j \in DOMAIN overrides : overrides[i].col = overrides[j].col => i = j

\* The curated overrides, taken as they are, then ecoinvent's catalog, then the
\* dataset's own location or its name.
LocationOf(src, col) ==
  LET curated == IF src.overrides = NoFile THEN {}
                 ELSE {i \in DOMAIN src.overrides : src.overrides[i].col = col}
      a == src.activities[col]
  IN  IF curated # {} THEN src.overrides[CHOOSE i \in curated : TRUE].loc
      ELSE IF Resolve(a.catalog) # NoLocation THEN Resolve(a.catalog)
      ELSE IF a.own # NoLocation THEN Resolve(a.own)
      ELSE Parsed(a.name)

-----------------------------------------------------------------------------
(* A package: CFs per matrix row, and corrections per column.  B[j][k] is  *)
(* the amount of flow k activity j exchanges.                              *)

RowsOf(B) == UNION {DOMAIN B[j] : j \in DOMAIN B}
Amount(B, j, k) == IF k \in DOMAIN B[j] THEN B[j][k] ELSE 0
At(cfs, k) == IF k \in DOMAIN cfs THEN cfs[k] ELSE 0

\* Mutant: the regional CF on top of the global one.
DeltaOnTop(cfs, regional, k, loc) == regional[<<k, loc[1]>>]

\* What the country adds to a flow's CF; a flow without global CF counts as 0.
Delta(cfs, regional, k, loc) == regional[<<k, loc[1]>>] - At(cfs, k)

\* What it adds to the activity of a column that is at loc.
CorrectionAt(cfs, regional, B, j, loc) ==
  LET here == {k \in RowsOf(B) : loc[2] = "" /\ <<k, loc[1]>> \in DOMAIN regional}
  IN  Total([k \in here |-> Delta(cfs, regional, k, loc) * Amount(B, j, k)])

RegionalCorrection(src, cfs, regional, B) ==
  [j \in DOMAIN B |-> CorrectionAt(cfs, regional, B, j, LocationOf(src, j))]

AsymmetryPercent == 95
MinNet == 5
FallbackCf == 700

ResourceNames == {"water, lake", "water, river"}

ResourceRows(src, B) ==
  {k \in RowsOf(B) \cap DOMAIN src.catalog :
     k[1] = "bio" /\ src.catalog[k].name \in ResourceNames
                  /\ src.catalog[k].top = "natural resource"}

\* Mutant: the synthetic rows left out, as if they had CFs of their own.
BaseReturnRows(src, B) ==
  {k \in RowsOf(B) \cap DOMAIN src.catalog :
     k[1] = "bio" /\ k[3] = "" /\ src.catalog[k].name = "water"
                  /\ src.catalog[k].top = "water" /\ src.catalog[k].sub # "ocean"}

\* The ocean takes water back, but not as fresh water.
ReturnRows(src, B) ==
  {k \in RowsOf(B) \cap DOMAIN src.catalog :
     k[1] = "bio" /\ src.catalog[k].name = "water"
                  /\ src.catalog[k].top = "water" /\ src.catalog[k].sub # "ocean"}

\* What the activity of a column exchanges in some rows.
Exchanged(B, j, rows) == Total([k \in rows |-> Amount(B, j, k)])

\* Water taken and not returned, for the columns that return next to nothing.
NetUse(src, B, j) ==
  LET res == Exchanged(B, j, ResourceRows(src, B))
      ret == Exchanged(B, j, ReturnRows(src, B))
  IN  IF /\ ResourceRows(src, B) # {} /\ ReturnRows(src, B) # {}
         /\ res > 0 /\ res > ret /\ res - ret >= MinNet
         /\ 100 * (res - ret) >= AsymmetryPercent * res
      THEN res - ret ELSE 0

AwareCorrection(src, B) ==
  LET byCountry == WaterCf(src.jrc)
      located == \E j \in DOMAIN B : LocationOf(src, j) # NoLocation
      cf(j) == LET head == LocationOf(src, j)[1]
               IN  IF head \in DOMAIN byCountry THEN byCountry[head] ELSE FallbackCf
  IN  [j \in DOMAIN B |-> IF byCountry = <<>> \/ ~located THEN 0 ELSE cf(j) * NetUse(src, B, j)]

\* The correction of a method: nothing, or the regional row, and for water use
\* the two rows summed.
Correction(src, m, cfs, side, B) ==
  LET regional == IF m \in DOMAIN side THEN RegionalCorrection(src, cfs[m], side[m], B)
                  ELSE [j \in DOMAIN B |-> 0]
      aware == AwareCorrection(src, B)
  IN  IF m = WaterUse THEN [j \in DOMAIN B |-> regional[j] + aware[j]] ELSE regional

Package(src, cfs, side, B) ==
  [q |-> [m \in DOMAIN cfs |-> Keeping(cfs[m], RowsOf(B))],
   corrections |-> [m \in DOMAIN cfs |-> Correction(src, m, cfs, side, B)]]

\* Mutant: the hash does not see the regional tables.
HashNoRegional(src, cfs, side, B) ==
  [cfs |-> cfs, locations |-> [j \in DOMAIN B |-> LocationOf(src, j)],
   aware |-> WaterCf(src.jrc), catalog |-> DOMAIN src.catalog]

\* What the content hash covers; of the catalog the keys alone.
HashInputs(src, cfs, side, B) ==
  [cfs |-> cfs, side |-> side, locations |-> [j \in DOMAIN B |-> LocationOf(src, j)],
   aware |-> WaterCf(src.jrc), catalog |-> DOMAIN src.catalog]

-----------------------------------------------------------------------------
(* Scores and their decomposition, for the supply of one product *)

Inventory(B, supply, k) == Total([j \in DOMAIN B |-> Amount(B, j, k) * supply[j]])

Score(pkg, m, B, supply) ==
    Total([k \in DOMAIN pkg.q[m] |-> pkg.q[m][k] * Inventory(B, supply, k)])
  + Total([j \in DOMAIN B |-> pkg.corrections[m][j] * supply[j]])

FlowContributions(pkg, m, B, supply) ==
  [k \in {k \in DOMAIN pkg.q[m] : pkg.q[m][k] * Inventory(B, supply, k) # 0} |->
     pkg.q[m][k] * Inventory(B, supply, k)]

\* Mutant: the correction is left to the score.
ActivityGlobalOnly(pkg, m, B, supply) ==
  [j \in DOMAIN B |->
     supply[j] * Total([k \in DOMAIN pkg.q[m] |-> pkg.q[m][k] * Amount(B, j, k)])]

ActivityContributions(pkg, m, B, supply) ==
  [j \in DOMAIN B |->
     supply[j] * (Total([k \in DOMAIN pkg.q[m] |-> pkg.q[m][k] * Amount(B, j, k)])
                  + pkg.corrections[m][j])]

EdgeContributions(pkg, m, B, supply) ==
  LET edges == {kj \in (DOMAIN pkg.q[m]) \X (DOMAIN B) :
                  supply[kj[2]] # 0 /\ Amount(B, kj[2], kj[1]) # 0}
  IN  [kj \in edges |-> pkg.q[m][kj[1]] * Amount(B, kj[2], kj[1]) * supply[kj[2]]]

\* The three views of the decomposer; the correction is apart from two of them.
Decomposition(pkg, m, B, supply) ==
  [flows |-> FlowContributions(pkg, m, B, supply),
   activities |-> ActivityContributions(pkg, m, B, supply),
   edges |-> EdgeContributions(pkg, m, B, supply),
   correction |-> Total([j \in DOMAIN B |-> pkg.corrections[m][j] * supply[j]])]
=============================================================================
