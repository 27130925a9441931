------------------------------- MODULE MethodCf -------------------------------
(***************************************************************************)
(* The files under registry/method_cfs: MethodCfRegistryBuilder writes one *)
(* pair of tables per method and an index at the end, a crash may stop it  *)
(* anywhere, and the emit stage loads what it finds and stores a package   *)
(* under the hash of its inputs.  Commands run one at a time; between two  *)
(* of them the curator may replace a source.                               *)
(***************************************************************************)
EXTENDS CfTables

CONSTANTS
    Editions,    \* the sources, as the curator may leave them
    B,           \* biosphere exchanges of the linked activities, by column
    Supplies,    \* what products ask of the columns
    MaxEdits, MaxBuilds

FlowRecord == [name : STRING, top : STRING, sub : STRING, cas : Nat]

\* CFs are counted in whole hundredths.
CountedIn(rows) == \A r \in rows : r.cf \in Int

ASSUME EditionAssumption ==
    \A e \in Editions :
      /\ IsFiniteSet(e.jrc) /\ CountedIn(e.jrc)
      /\ e.snapshot # NoFile => /\ DOMAIN e.snapshot \subseteq Methods
                                /\ \A m \in DOMAIN e.snapshot : CountedIn(e.snapshot[m])
      /\ e.bridge # NoFile => \A i \in DOMAIN e.bridge : e.bridge[i].cf \in Int
      /\ e.catalog \in [DOMAIN e.catalog -> FlowRecord]

\* The biosphere matrix is finite, and so are its amounts.
ASSUME MatrixAssumption ==
    /\ IsFiniteSet(DOMAIN B) /\ IsFiniteSet(RowsOf(B))
    /\ \A j \in DOMAIN B : B[j] \in [DOMAIN B[j] -> Int]
    /\ Supplies \subseteq [DOMAIN B -> Int]

\* A tagged row of the catalog is a copy of the row of its base.  There need be
\* none: a catalog that is rebuilt has the base rows alone, until the next link.
ASSUME CopyAssumption ==
    \A e \in Editions, k \in RowsOf(B) : k[1] = "bio" /\ k \in DOMAIN e.catalog =>
      Base(k) \in DOMAIN e.catalog /\ e.catalog[k] = e.catalog[Base(k)]

VARIABLES
    src,         \* the sources as they are
    cache,       \* the parsed spreadsheet: NoFile, or whether it can be read,
                 \* whether it is as new as the spreadsheet, and what it holds
    index,       \* method_cfs/_index.json: NoFile, or the counts per method
    cfsFile,     \* cfs.parquet, of the methods that have one
    sideFile,    \* regional_cfs.parquet, of the methods that have one
    pc, todo,    \* the builder: "idle", "cfs", "side" or "index"; its methods
    entries,     \* the index it has in memory
    last,        \* how the last build ended, until a source changes
    pkgs, head,  \* the packages in the store, and what was emitted last: the
                 \* hash, the package the files stood for at that time, and the
                 \* rows of the matrix that were water then
    edits, builds

files == <<index, cfsFile, sideFile>>
store == <<pkgs, head>>
vars == <<src, cache, files, pc, todo, entries, last, store, edits, builds>>

Init ==
    /\ src \in Editions
    /\ cache = NoFile
    /\ index = NoFile
    /\ cfsFile = <<>> /\ sideFile = <<>>
    /\ pc = "idle" /\ todo = {} /\ entries = <<>> /\ last = "none"
    /\ pkgs = {} /\ head = NoFile
    /\ edits = 0 /\ builds = 0

\* A new spreadsheet is newer than the cache.
Edit ==
    /\ pc = "idle" /\ edits < MaxEdits
    /\ edits' = edits + 1
    /\ src' \in Editions \ {src}
    /\ cache' = IF cache # NoFile /\ src'.sp # src.sp THEN [cache EXCEPT !.fresh = FALSE]
                ELSE cache
    /\ last' = "none"
    /\ UNCHANGED <<files, pc, todo, entries, store, builds>>

-----------------------------------------------------------------------------
(* MethodCfRegistryBuilder.build *)

\* The bridge and the snapshot are read first; either may raise.
CanBuild == BridgeLoads(src.bridge) /\ src.snapshot # NoFile

Mapped == DOMAIN src.snapshot \cap EfMethodMap

\* Mutant: the index is written before the tables it lists.
StartBuildIndexed ==
    /\ pc = "idle" /\ builds < MaxBuilds /\ CanBuild
    /\ builds' = builds + 1
    /\ todo' = Mapped
    /\ pc' = IF Mapped = {} THEN "index" ELSE "cfs"
    /\ index' = [m \in Mapped |-> [cfs |-> 0, regional |-> 0]]
    /\ entries' = <<>>
    /\ last' = "none"
    /\ UNCHANGED <<src, cache, cfsFile, sideFile, store, edits>>

StartBuild ==
    /\ pc = "idle" /\ builds < MaxBuilds /\ CanBuild
    /\ builds' = builds + 1
    /\ todo' = Mapped
    /\ pc' = IF Mapped = {} THEN "index" ELSE "cfs"
    /\ entries' = <<>>
    /\ last' = "none"
    /\ UNCHANGED <<src, cache, files, store, edits>>

StartFails ==
    /\ pc = "idle" /\ builds < MaxBuilds /\ ~CanBuild
    /\ builds' = builds + 1
    /\ last' = "failed"
    /\ UNCHANGED <<src, cache, files, pc, todo, entries, store, edits>>

\* The methods come in the order of their labels.
Current == CHOOSE m \in todo : \A k \in todo : m <= k

CacheIsUsed == cache # NoFile /\ cache.fresh

\* Mutant: a cache that exists is good.
TableAnyCache == IF cache # NoFile THEN cache.rows ELSE src.sp

\* The reference table: from the cache when it is as new as the spreadsheet.
Table == IF CacheIsUsed THEN cache.rows ELSE src.sp

WholeCache(rows) == [torn |-> FALSE, fresh |-> TRUE, rows |-> rows]

WriteCfs ==
    /\ pc = "cfs"
    /\ ~(NeedsTable(src, Current) /\ CacheIsUsed /\ cache.torn)
    /\ cfsFile' = Put(cfsFile, Current,
                      Cfs(src, IF NeedsTable(src, Current) THEN Table ELSE {}, Current))
    /\ cache' = IF NeedsTable(src, Current) THEN WholeCache(Table) ELSE cache
    /\ pc' = "side"
    /\ UNCHANGED <<src, index, sideFile, todo, entries, last, store, edits, builds>>

\* A torn cache is as new as the spreadsheet, and cannot be read.
ReadFails ==
    /\ pc = "cfs"
    /\ NeedsTable(src, Current) /\ CacheIsUsed /\ cache.torn
    /\ pc' = "idle" /\ last' = "failed"
    /\ UNCHANGED <<src, cache, files, todo, entries, store, edits, builds>>

\* What build_rows returns for the method in hand.
Side ==
    IF Current = WaterUse THEN RegionalWaterRows(src, cfsFile[Current])
    ELSE RegionalRows(src, Current, cfsFile[Current])

\* Water use always gets its table; another method only with rows in it.
WriteSide ==
    /\ pc = "side"
    /\ sideFile' = IF Current = WaterUse \/ Side # <<>>
                   THEN Put(sideFile, Current, Side) ELSE sideFile
    /\ entries' = Put(entries, Current, [cfs |-> Cardinality(DOMAIN cfsFile[Current]),
                                         regional |-> Cardinality(DOMAIN Side)])
    /\ todo' = todo \ {Current}
    /\ pc' = IF todo' = {} THEN "index" ELSE "cfs"
    /\ UNCHANGED <<src, cache, index, cfsFile, last, store, edits, builds>>

WriteIndex ==
    /\ pc = "index"
    /\ index' = entries
    /\ pc' = "idle" /\ last' = "ok"
    /\ UNCHANGED <<src, cache, cfsFile, sideFile, todo, entries, store, edits, builds>>

\* Each table is replaced as a whole, so a crash leaves old or new ones.
Crash ==
    /\ pc # "idle"
    /\ pc' = "idle"
    /\ UNCHANGED <<src, cache, files, todo, entries, last, store, edits, builds>>

\* Not so the cache, which is written in place.
CrashInCache ==
    /\ pc = "cfs" /\ NeedsTable(src, Current) /\ ~CacheIsUsed
    /\ cache' = [torn |-> TRUE, fresh |-> TRUE, rows |-> {}]
    /\ pc' = "idle"
    /\ UNCHANGED <<src, files, todo, entries, last, store, edits, builds>>

-----------------------------------------------------------------------------
(* Loading, and the emit stage *)

\* load_all raises for a method of the index whose table is not there.
Loads == index # NoFile /\ DOMAIN index \subseteq DOMAIN cfsFile

Loaded == [m \in DOMAIN index |-> cfsFile[m]]

\* Whatever tables there are for methods of the index, but the empty ones.
LoadedRegional ==
    Keeping(sideFile, {m \in DOMAIN index \cap DOMAIN sideFile : sideFile[m] # <<>>})

Now == Package(src, Loaded, LoadedRegional, B)

\* What a package takes from the names and compartments of the catalog.
WaterRows == [taken |-> ResourceRows(src, B), returned |-> ReturnRows(src, B)]

\* The store keeps the package it has under a hash.
Emit ==
    /\ pc = "idle" /\ Loads /\ OverridesLoad(src.overrides)
    /\ LET hash == HashInputs(src, Loaded, LoadedRegional, B)
       IN  /\ head' = [hash |-> hash, pkg |-> Now, water |-> WaterRows]
           /\ pkgs' = IF \E p \in pkgs : p.hash = hash THEN pkgs
                      ELSE pkgs \cup {head'}
    /\ UNCHANGED <<src, cache, files, pc, todo, entries, last, edits, builds>>

Next ==
    \/ Edit \/ StartBuild \/ StartFails \/ WriteCfs \/ ReadFails \/ WriteSide
    \/ WriteIndex \/ Crash \/ CrashInCache \/ Emit

Spec == Init /\ [][Next]_vars

-----------------------------------------------------------------------------
(* Properties *)

\* A crash leaves no index that lists a table which is not there: a build that
\* died half way never makes load_all raise.
IndexLeadsToFiles == index # NoFile => Loads

\* After a build, and whatever crashed before it, the CF tables are what the
\* sources of now give: neither a cached spreadsheet nor an older table shows.
\* (Not so the regional tables: one that has lost its last row stays.)
BuildIsCurrent ==
    last = "ok" =>
      /\ DOMAIN index = Mapped
      /\ \A m \in Mapped : /\ m \in DOMAIN cfsFile
                           /\ cfsFile[m] = Cfs(src, src.sp, m)
                           /\ index[m].cfs = Cardinality(DOMAIN cfsFile[m])

\* The sub-compartments of one substance share their fate in the filter, also
\* those the flowmap does not name.
SistersShareFate ==
    (last = "ok" /\ src.sp # NoFile) =>
      \A m \in Mapped \ {WaterUse} :
        LET given == {k \in DOMAIN Inherited(src.snapshot[m]) \cap DOMAIN src.catalog : k[1] = "bio"}
            Identity(k) == [src.catalog[k] EXCEPT !.sub = ""]
        IN  \A k, l \in given : Identity(k) = Identity(l) =>
              (k \in DOMAIN cfsFile[m] <=> l \in DOMAIN cfsFile[m])

\* The CF a flow has where the activity is: the country's, else the global one.
CfHere(m, k, j) ==
    LET loc == LocationOf(src, j)
        there == m \in DOMAIN LoadedRegional /\ <<k, loc[1]>> \in DOMAIN LoadedRegional[m]
    IN  IF loc[2] = "" /\ there THEN LoadedRegional[m][<<k, loc[1]>>] ELSE At(Loaded[m], k)

\* Row and correction together charge each activity with the CFs of its own
\* country, and for water use with its net use on top: whatever mix of older
\* and newer tables a crash has left, no flow is charged under two CFs.
ScoresAreLocal ==
    (pc = "idle" /\ Loads) =>
      \A m \in DOMAIN index, j \in DOMAIN B :
        LET aware == IF m = WaterUse THEN AwareCorrection(src, B)[j] ELSE 0
            charged == Total([k \in DOMAIN Now.q[m] |-> Now.q[m][k] * Amount(B, j, k)])
        IN  charged + Now.corrections[m][j] =
              aware + Total([k \in DOMAIN B[j] |-> CfHere(m, k, j) * Amount(B, j, k)])

\* The rows a catalog has lost: it was rebuilt since the link that made B, and
\* a fast rescore does not append the tagged rows of the graph it replays.
Lost(e) == {k \in RowsOf(B) : Base(k) \in DOMAIN e.catalog /\ k \notin DOMAIN e.catalog}

\* The exchanges but those in some rows, as if no flow were tagged with a region.
Untagged(lost) ==
    [j \in DOMAIN B |->
       LET rows == DOMAIN B[j] \ lost
       IN  [k \in {Base(l) : l \in rows} |->
              Total([l \in {x \in rows : Base(x) = k} |-> B[j][l]])]]

\* Tagging flows with regions, which splits them over synthetic rows, leaves
\* the net water use of an activity as it was: of all rows, only those that a
\* rebuilt catalog has lost are missing from the balance.
TaggingIsNeutral == AwareCorrection(src, B) = AwareCorrection(src, Untagged(Lost(src)))

\* What the emit stage reports is the package of the files as they are, also
\* where the store had one under the same hash.  The hash is "responsive to any
\* catalog change" but of names and compartments: when other rows were water at
\* the time of the stored package, its water correction is that of then.
EmitIsFresh ==
    head # NoFile =>
      \E p \in pkgs :
        /\ p.hash = head.hash
        /\ p.pkg.q = head.pkg.q
        /\ \A m \in DOMAIN p.pkg.q \ {WaterUse} :
             p.pkg.corrections[m] = head.pkg.corrections[m]
        /\ p.water = head.water => p.pkg = head.pkg

\* The three views of a decomposition add up to the score of the solver, the
\* two that know global CFs only short of the correction.
ViewsAgree ==
    \A p \in pkgs, supply \in Supplies :
      \A m \in DOMAIN p.pkg.q :
        LET view == Decomposition(p.pkg, m, B, supply)
            score == Score(p.pkg, m, B, supply)
        IN  /\ Total(view.activities) = score
            /\ Total(view.flows) = score - view.correction
            /\ Total(view.edges) = score - view.correction

\* "The synthetic rows therefore still need the per-activity-location
\* correction this builder generates, same as the base codes. Keep them in":
\* where a base code is corrected, so are its tagged codes in the matrix.
TaggedAreCorrected ==
    (last = "ok" /\ WaterUse \in DOMAIN LoadedRegional) =>
      LET rows == DOMAIN LoadedRegional[WaterUse]
      IN  \A k \in RowsOf(B), kl \in rows : kl[1] = Base(k) => <<k, kl[2]>> \in rows
=============================================================================
