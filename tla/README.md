# A verification development for sentier-agribalyse

sentier-agribalyse turns a SimaPro export of Agribalyse into life-cycle scores: it parses the CSV, links
its exchanges to ecoinvent and to the biosphere, writes a *scoring package* of sparse matrices, and scores
a list of products against a reference (the *backtest*) or exports the package to Brightway. An operator may override parameters and score
again, by the full pipeline or by a fast path that replays a pickled graph.

This directory models that system in TLA+, checks the models with TLC on small instances, and proves the
properties that matter most with TLAPS for every instance. All paths below are relative to `src/src/`.

## 1. Inventory

### Components

| Component | State it keeps | Operations | Here |
|---|---|---|---|
| What-if loop: `cli/` commands, `pipelines/link_all.py`, `pipelines/fast_rescore.py`, `pipelines/backtest.py` | the files named below | link, set or clear a parameter, fast rescore, backtest, reset, rebuild a registry | `WhatIf` |
| Importer cache `transforms/importer.py` | `cache/importer_cache.pkl` | load or parse | `WhatIf` |
| Linked cache `transforms/linked_cache.py` | `cache/linked_cache.pkl`, stamped with size and mtime of the CSV | write, load, reject | `WhatIf` |
| Override store `transforms/parameter_overrides.py` | `source/parameter_overrides.csv` | upsert, clear, apply | `OverridePlan`: rows, writes, amounts; `WhatIf`: folded in when |
| Scoring package store `scoring/scoring_package.py` | one directory per content hash, their mtimes | write, touch, evict, read | `PackageStore` over `LRUStore`; as a sequence in `WhatIf` |
| Run report `reporting/run_report.py`, locator | `dashboard/run_report.json` | write, extend, locate | `WhatIf` |
| Link transforms `transforms/*.py` | the parsed inventory, in memory | one rewrite each, in a fixed order | `LinkChain` |
| Technosphere matching `matching/technosphere.py`, `matching/ecoinvent_catalog.py` | exchange links, in memory | six passes | `LinkChain` |
| Emit chain `scoring/allocator.py` to `scoring/matrix_builder.py`, auditor, catalog | a frame, snapshots, matrices | allocate, deduplicate, prune, filter, build | `EmitChain` |
| Mapping registry `registry/` | `registry/*.parquet` | build from the curated sources, look up by name, CAS, unit | `MapRegistry` |
| Biosphere matching `matching/biosphere.py`, flowmap, prelinker, regional suffix, catalog builder and augmenter | exchange links in memory, `registry/biosphere_catalog.parquet`, `registry/ef_flows.parquet` | snapshot the name, flowmap, normalise, prelink, tiers, suffix, augment | `BioLink` over `MapRegistry`; *augment* also in `WhatIf` |
| EF factors `ef/` | `registry/method_cfs/`: two tables per method and an index; a cache of the parsed SimaPro spreadsheet | join, bridge, filter, regionalise, write | `CfTables` (tables), `MethodCf` (files) |
| Score corrections and solvers `scoring/*_correction.py`, `scoring/decomposer.py`, scorers | entries of the scoring package | correct a column per method, score, decompose | `CfTables`, `MethodCf`; which entries are scored: `Backtest` |
| Parameter re-evaluation `transforms/parameter_reevaluator.py` | exchange amounts | resolve, cascade, rescale | `OverridePlan` |
| Parameter extraction `transforms/parameter_extraction.py` | parameter rows, in the importer cache | join to datasets | `OverridePlan` |
| Backtest `pipelines/backtest.py`, `scoring/product_catalog.py` | rows, mapping and scores in memory; `scores.parquet`, the dashboard CSV | read the reference, map products, score (in workers or not), save | `Backtest`; its place in the loop: `WhatIf` |
| Brightway export and import `bw_export/`, `bw_import/` | the bundle directory; a Brightway project | embed corrections, label, write; read, pair, build databases and methods | `BwExport` |
| Parquet cache `core/parquet_cache.py`, reporting, LLM suggestions, dashboard, other commands | results | read-only or one-way | not modelled (section 7) |

### How they interact

Everything between two commands passes through files. `dds-link-all` reads the importer pickle (or parses
the CSV), transforms and matches it *against* the biosphere catalog, *appends* to that catalog, rebuilds
the method factors *from* it, pickles the linked graph, folds the overrides in, emits a package whose name
is the hash of frame, factors and catalog, writes two catalogs and last the report that names the package.
`dds-set-parameter` validates a name against a parse, stores a row, then either runs that pipeline again or
replays its tail from the pickle, and goes on to the backtest, which finds the package through the report.
`dds-reset` deletes packages, both pickles and the overrides, one after the other, and nothing else.

Within one link, the transforms and passes communicate through the graph alone: each decides by types,
flags, names and units that earlier ones have rewritten, which is why their order is part of the contract.

The biosphere side depends on three files that other commands build: the mapping registry from the curated
sources, the EF flows from the registry, the catalog from both and from two snapshots. The link appends a
row for every regional code it coins, which the next link reads, and `dds-build-method-cfs` (or the link
itself) joins factors to that catalog. The package store is read by the backtest and by the Brightway
export, whose bundle an importer script reads in another environment.

### What is hard

* *Crashes.* Most files are written in place, several in a row; only package directories are renamed into
  place, and even they are removed entry by entry.
* *Staleness.* Two pickles, a catalog that grows, factors built from it, and a report that names a hash are
  read by later commands which check some of them (CSV stamp) and not others (parse, catalog, factors).
* *A bounded store.* Recency is the mtime of a directory, which touching, writing and removing renew.
* *Concurrency.* A backtest loads a package file by file while a link publishes and evicts.
* *Several names for one thing.* A parameter has two spellings and a process a parent; rows that mean the
  same are kept apart, and their order decides.
* *Ordering.* Nine transforms, the biosphere stages, six match passes, five emit passes and an auditor that
  explains them.
* *Layered fallbacks.* Twelve tiers of mapping rows, three ways to find a row and three to find its target;
  what a later layer may overrule an earlier one must not undo.
* *Arithmetic in several places.* Three stages may rescale one exchange, and two readers repeat one
  correction.
* *Positions as keys.* The backtest keys products by row number and the Brightway bundle numbers by names.
* *Progress.* A command is several stages that may each fail; it has to end on every path.

`PROJECT.json` lists each such hazard at its line together with the properties aimed at it.

### What makes each part correct

* What-if loop: an override is folded in exactly once, from a pristine graph; a full link depends on
  its CSV, the overrides and the synthetic rows of the catalog it reads, and on nothing else; a settled rescore leaves dashboard, report and store in agreement; the
  reported package can be loaded; commands end.
* Store: an LRU cache to its users; a directory that exists is whole; bounded.
* Link transforms: the reference amount of a process is what its source says; no input disappears without
  a trace; both ends of a link measure in one unit; links to real products are never cut; a label that
  leads to one activity gets there.
* Overrides: a graph has the amounts one gets by evaluating every formula from scratch with the values last
  asked for; a saved row survives killed commands; a link fails only where rows interact.
* Biosphere: a linked exchange has the region, the compartment and the quantity its source gives it, or a
  documented fallback; a synthetic code in use has a catalog row; a pin to an EF flow leads to one; a second
  link over the catalog the first extended decides as the first did.
* EF factors: whatever kills and stale caches a build meets, the index names whole tables and a build that
  ends leaves what the sources give; sub-compartments of one flow share their fate in the filter.
* Corrections: the score of an activity is the one its country's factors give; tagging water with a region
  changes no balance; a package is reused only for the same corrections; decomposition adds up to the score.
* Emit chain: square, no dangling entry, one pruning pass suffices, equal to the matrices read off the
  source at once, every loss explained by the pass that caused it.
* Backtest: a row is compared with the score of its own product, with one worker or many; a row without a
  score lost its product where the audit says.
* Brightway: the imported project is the package under other names, corrections included, or the export
  was refused.

## 2. Modules and the code

`PROJECT.json` gives the lines for every definition. In outline:

**`WhatIf`** One operator runs one command at a time, as the tool documents. A command is a record `proc`
whose `pc` names the next step; a step is one file write (or one check) with everything the code does
between it and the next. Data are reduced to provenance: a graph is its CSV, the links its exchanges got and
the sequence of override stores folded into it. `Link` is the interface to `BioLink` and `LinkChain`: any
function of the CSV and of the synthetic rows the catalog holds at that moment, since links are matched
against the rows that earlier links appended. A package is the inputs of its content hash, a method's factors are the catalog they
were built from. This keeps apart exactly what the hash and the stamps keep apart. `LinkAll ... ClearParameters`
start commands; `Load* ... ResetOverrides` are their steps; `LoadTorn`, `EmitKilled`, `EvictKilled`,
`ReportTorn` and `Crash` kill them; `ReplaceCsv` is the user. `packages` is the list of directories by
mtime, and `leftover` the drafts that a killed write left complete enough for the next write to rename with
their old mtime.

**`PackageStore`** The same store at the level of directory entries: `Open`/`Close` a file in
`<hash>.partial`, `Rename`, `Sweep` the drafts, `Unlink` and `RemoveDir` victims, while readers load
`ids.json` and then the matrices; `recent` is the mtime order, and each action renews what the file system
renews. `Kill` comes between any two calls. **`LRUStore`** is what the store promises: every write one atomic
use of an LRU cache. `IsLRU` is the refinement, `LRU == INSTANCE LRUStore WITH cache <- Cache, ...`, where
`Cache` is the list of directories that are whole, newest first, cut at the limit.

**`EmitChain`** `_emit_scoring_package`: a frame is a set of rows, of which the sign of the amount and of the
allocation factor matters (`made`, `factor`); ids are numbers, since the deduplicator compares them and the
allocator computes new ones. `Reference` is the specification: matrices read off the source directly, with
no passes, and without the ammonia of perennials, as the documentation of the filter has it.
`MatrixIsReference` says the five passes compute it but for `Escaped`: the ammonia of those perennials that
were split, which are no longer under the id the filter looks for.

**`LinkChain`** The transforms of `LinkAllPipeline.run` on technosphere exchanges, one action each, in the
pipeline's order, then the match in one action (its passes change nothing but exchanges in memory), the
unlinked report and the projection to the frame. Names are opaque; what the code reads off them (SimaPro
stem and location, "electricity", "[dummy]") and the tables it reads are constant functions. An amount is
`n` with the unit its number is `measure`d in: a conversion changes both units, a relink only the label's,
so a unit error shows as a difference (or as `Garbled`) without arithmetic. Exchange fields a strategy of
`sp.apply_strategies` has already split are taken as split.

**`OverridePlan`** From the parameter blocks of an export to the amounts of a linked graph. `Extract` joins
blocks to datasets by position or refuses (`RefuseToJoin`); `Set` and `Clear` start a command that rewrites
the file (`WriteRow`, `Replace`, or `Die` in between); `Link` is `ParameterOverridesApplier.apply`, which the
full link and the fast path share: `Plan` lays the tiers over each other in file order, `Environment`
evaluates a process, `Influenced` closes over calculated parameters, `Ratio` rescales. An amount is a scale
times a formula's value in integers, so the ratio is exact; formulas are opaque values with the names they
mention (`Refs`) and a constant operator `Value`. `set_at` is the number of the command. `Asked` and
`Reference` are the specification: the most specific and latest row, and evaluation from scratch.

**`MapRegistry`** The registry as pure operators: one operator per source gives its rows (`FlowmapperRows`,
`HarmonisedRows`, `CuratedRows` ...), `Dedupe` and `BiosphereTable` order and merge them, `Lookup`, `ByCas`
and `Multiplier` are the indexes. A name is a number and a region, so that a region that travels inside a
name, a suffix or a synthetic code is told apart from the name; numbers stand in alphabetical order.

**`BioLink`** A link's biosphere stages, one action each (`Snapshot`, `ApplyFlowmap`, `NormaliseLabels`,
`LoadCatalog`, `Prelink`, `Match`, `ApplySuffix`, `Augment`, `FinishLink`), with `BuildRegistry` and
`BuildEfFlows` between links and `BuildCatalog` at any time. The catalog is held twice, as the file (`rows`)
and as this link loaded it (`cat`), since the augmenter reads the file again. `past` remembers what the last
link read and did, for the comparison of two links: it holds the catalog the link read, since what settles
is a link over the same base rows, whatever regional rows came since. The exemption of `RelinkSettles` is
the prelinker's search by name, which takes a single hit only: a regional row that a link appends ends it,
and no match stands behind it. Quantities are integers over a common unit.

**`CfTables`** Factors as functions from flows to integers (hundredths), as pure operators: the rows a
method takes from the snapshot of the EF spreadsheet, the inherited and bridged rows, the SimaPro filter with its synonyms, regional
and water rows, the location of an activity, the two per-activity corrections, the package with the inputs
of its hash, the score, and the views of the decomposer.

**`MethodCf`** The files around them: `StartBuild`, `WriteCfs` and `WriteSide` per method and `WriteIndex`
are the builder; `Crash` comes between any two, `CrashInCache` inside the in-place write of the spreadsheet
cache; `StartFails` and `ReadFails` are its error paths; `Edit` replaces a source between commands, and
`Emit` loads what it finds and stores a package. `last` says how the last build ended.

**`Backtest`** `BacktestPipeline.run` on whatever the emit chain left: `MapRows` (exact or fuzzy, each pass
filling only what the earlier left), `Score` in one process or in chunks, `NoMethods` and `ScoreRaises`, and
`Save`. A score is the product it is of, so a score beside the wrong row is seen whatever its number. The
entries of the database are known by their places; a pass gives the set of places it would take.

**`BwExport`** `Export` embeds the corrections as synthetic flows (`EmbeddedB`, `EmbeddedCfs`), labels the
columns (`ActivityKey`) and writes the bundle; a name that is missing stops it between the datapackages and
the tables (`ExportRefused`), and the importer refuses what that leaves (`NoTables`). `Free` gives the
synthetic flows the first positive numbers that are no id. `Import` builds activities, biosphere and methods and undoes the embedding. `Assembled` reads the project the way
Brightway assembles matrices. **`Consumers`** composes chain, backtest and export: both read the same
package and neither writes what the other reads, so a behaviour has one of them. **`Ranks`** is what the two
share: the k-th smallest of some numbers, and the renumbering of a frame whose rows were filtered.

`MC*` modules and `.cfg` files hold instances; `*_proofs` hold the proofs.

## 3. Runs

| Run | Asks | Instance |
|---|---|---|
| `whatif` | Do commands of any kind keep the linked cache pristine, full links a function of what they read, the store bounded, the reported package live and labelled, and a rescore settled, and do they end? | two CSVs that link differently once a synthetic row is there and differ in a key and a code, two values, two methods, two artifacts, store of two; four commands, one kill and one replacement of the CSV at any moment, fair |
| `store_lru` | Is the store an atomic LRU cache for readers until a kill, and does every write end? | four packages, two kept, five writes, one reader, one kill |
| `emit_chain` | Do the passes give the reference matrices for every frame, does the backtest compare each row with its own product, and is an imported export the package? | three activities, two products, two flows, every production pattern with factors that are positive, zero or unusable, one input; six catalog entries and two reference sheets; two methods, one or both correcting |
| `link_chain` | Do the transforms keep references, links and units for every inventory? | 42,240 inventories of three processes, five products, five activities |
| `override_plan` | Does a link give every exchange the amount the commands ask for, and do saved rows survive? | seven exports of two blocks (five refused), two spellings of one name, five scopes, two values, three commands |
| `bio_link` | Do region, quantity and compartment survive the stages, do pins resolve, and does a second link settle? | sixteen kinds of exchange beside a regional water flow, every registry of one or two of twenty-two entries, three links, files rebuilt in between |
| `method_cf` | What do killed builds leave, and are scores local, neutral to tagging, fresh and decomposable, but for what section 4 names? | nine editions of the sources, among them a catalog rebuilt without its synthetic rows and one that renames flows under their codes, three builds, two edits, four methods, eight flows, three activities |
| `whatif_stale_parse`, `store_half`, `link_sibling`, `bio_relink`, `cf_tagged` | one sentence of the documentation each, refuted | minimal instances of the above |

**Why the bounds are enough.** In `WhatIf`, a disagreement needs a file of one generation read by a command
of the next: two commands make the generations, one resets or rebuilds in between, and one reads and
settles; the kill and the replaced CSV may fall into any of them. One key with two values gives three
override stores, and a synthetic code that one link coins and the next finds gives two links of one CSV. A store
of two evicts at the third package. In `PackageStore` four packages over a limit of two let a victim be chosen
wrongly, be written again, and be touched while half removed; one matrix beside `ids.json` gives
every order the code can load in. In `EmitChain` three activities with two products can form each case of
the passes (multifunctional, duplicate producer, zero amount, self loop, dangling); the ids are chosen so
that synthetic ids fall between and around the real ones. In `LinkChain` a producer in a dozen shapes, a
sibling in five, deletions by code and by name, and a consumer of both plus one of eleven labels cover every
branch of the eight transforms and the six passes, ambiguous keys included. In `OverridePlan` three commands
are what a recency error needs (set, set under the other spelling, set again), two values distinguish
them, and 0 divides by zero alone in one formula and only together with a second 0 in another; a chain of
two calculated parameters tells a closure from one pass. In `BioLink` a decision depends on at most two rows of
the registry (the best of two tiers, a row and its unit conversion, a row and the flow it pins), so every
pair of entries meets every kind of exchange; the second link is the first that can read what a link
appended, and the third repeats the second. In `MethodCf` a stale or torn file needs one build that leaves it, one edit and one build that
meets it; the third build repairs a second failure, and the four methods have one each of: plain, regional,
unmapped and water. In `Consumers` two storage twins, a product nobody makes and an entry of a type that is
not scored make every pass of the mapping either decide or pass on; two corrected methods make the number
of synthetic flows matter.

**Fairness.** `WF_vars(Step)` in `WhatIf` and `WF_vars(Write)` in `PackageStore`: a running command waits for
nothing but its own work, so it is only assumed that the process is scheduled. Operators, kills and edits
are not fair. `CHECK_DEADLOCK FALSE` is set where a bound is used up or a pipeline has ended.

**Mutants.** Each property of each passing run is broken by a plausible bug in one mapped definition; the
mutated forms stand before the originals and are marked `Mutant:`.

## 4. Where documentation and code disagree

Shown by a run:

* `LinkedMatchesSource`: an existing importer pickle is served whatever the CSV is, and the linked cache is
  stamped with the CSV then on disk; a linked cache can pass its check and hold another CSV's graph.
* `NeverHalf`: eviction unlinks under the final name; after a kill inside it, half a package is there with a
  fresh mtime, and the next write of that hash returns it.
* `SiblingIsProduced`: the relinker counts every functional input as a producer, also of processes with
  another product, which the promoter leaves alone; a consumer can be moved to a sibling nobody makes.
* `RelinkReproduces`: the repository's `README.md` (line 135) says that rebuilds are deterministic and that a run after clearing the
  overrides reproduces the original scores. The prelinker takes a name on a single hit only and reads the
  catalog that earlier links extended with regional copies under the same name; an exchange it linked by name
  the first time ends unlinked the second. `RelinkSettles` and `FullLinkIsDeterministic` say what is left of
  the sentence.
* `TaggedAreCorrected`: a comment says water rows tagged with a region keep their country's factor; the
  builder walks over factor rows, none of which has a tagged code, so the regional table misses them.

Observed while modelling, with no run of its own:

* With two CSVs, `dds-reset` leaves the synthetic rows that earlier links appended to the catalog, which the
  content hash covers; a rebuild need not reproduce the first build. The fast path reads catalog and factors
  as they are now, so a registry rebuild changes the hash of a run with no overrides.
* The catalog enters the content hash by its codes (`scoring_package.py:234`, "keeps the hash responsive to
  any catalog change"). Names and compartments, which decide the rows of the water balance, are not hashed: a
  package from before they changed comes back with its older water correction. `EmitIsFresh` holds for
  everything else, and for the water correction too where the same rows are water.
* `dds-build-biosphere-catalog` drops the synthetic rows, and the fast path replays the linked graph without
  augmenting (`fast_rescore.py:55`): the water balance of that emit leaves the tagged rows out.
  `TaggingIsNeutral` names them (`Lost`) and holds over all others.
* The perennial filter runs after the allocator and looks for unsplit ids (`perennial_lifecycle_filter.py:142`),
  so a perennial that was split keeps its ammonia, against the filter's own purpose (lines 3-22 and 49-52) and
  `link_all.py:552`. `MatrixIsReference` names those entries (`Escaped`).
* The warning about a zero baseline points to the full path, which leaves such an exchange alone too.
* A relinked orphan exchange takes the unit of its new target and keeps its number.
* When a method no longer has regional rows, the builder leaves its older regional table in place, and
  `load_regional_all` reads it: it looks at the file, not at the count in the index (`WriteSide`, `LoadedRegional`).
* A killed Brightway export into an existing directory can leave new datapackages beside old metadata.
* `dds-list-parameters` looks an override up by process and by `*` alone and does not show the row of a
  multifunctional parent, which `plan` prefers to `*`.
* The registry's conversions apply to *every* input still unlinked, so the relaxed pass compares a unit that
  may no longer be the catalog's. `LabelsLeadToEcoinvent` states its premise.

## 5. What is proved

`P!T` is theorem `T` of module `P_proofs`. All hold for any sets of CSVs, keys, codes, methods, activities,
products, frames, inventories, exports, formulas, sources and snapshots, for any bound, and for any number of
kills and edits.

| Theorem | Says | Argument |
|---|---|---|
| `WhatIf!TypeCorrect` | `[]TypeOK` | inductive with `ProcInv`: what a command carries at each step |
| `WhatIf!LinkedStaysPristine` | `[]LinkedIsPristine` | `PristineInv` adds that a command's graph is pristine until the snapshot |
| `WhatIf!StoreStaysBounded` | `[]StoreIsBounded` | from `TypeOK` and `RecencyInv`: without kills there are no leftovers, so eviction reaches the limit; each kill adds at most one |
| `WhatIf!ReportedPackageIsLive` | `ReportStaysLive` | `RecencyInv`: the reported package is the newest, or second while the next is being reported; eviction keeps two (`MaxPackages >= 2`) |
| `WhatIf!LabelsMatchColumns` | `[]CatalogMatchesPackage` | `CatalogInv`: between the two writes the labels are those of the package the command carries |
| `WhatIf!RescoreAlwaysSettles` | `[]RescoreSettles` | `SettleInv`: from the apply stage on, graph, package and report of the command agree with the overrides |
| `WhatIf!RebuildsAreDeterministic` | `[]FullLinkIsDeterministic` | `SourceInv`: the synthetic rows of the catalog were left there by links (`LeftByLinks`), and from the augmentation on a full link carries the graph that its CSV and the rows it read give, has its codes in the catalog, and builds the factors with them before it builds a package |
| `PackageStore!StoreIsLRU` | `IsLRU`, the refinement of `LRUStore` | `Inductive`: mtimes order the directories strictly, what was closed is whole, without a kill at most the oldest is on its way out; then initial states map to initial states and each step to a use of the cache or to none |
| `PackageStore!LoadsFailOnlyIfEvicted` | `[]FailsOnlyIfEvicted` | `ReaderInv`: a reader counts the packages that became newer than its own |
| `EmitChain!AlwaysSquare`, `NeverDangling` | `[]SquareWhenPruned`, `[]NoDanglingEdge` | `ChainInv`: each pass finds what its predecessor promises: after the allocator one product per column, after the deduplicator one column per product, after the pruner only real ones |
| `EmitChain!PrunerSettles` | a second pass drops nothing | what the pruner judges by (real production) it never removes |
| `EmitChain!MatrixMatchesReference` | `[]MatrixIsReference` | `TraceInv`: the frame is what the passes so far make of the source; then pass by pass, which entry comes from which exchange (`SpreadCells`), and which emissions the filter still finds (`FilterTargets`) |
| `EmitChain!AuditBlamesRightly` | `[]AuditBlames` | `AuditTrace`: the snapshots are the frames the passes left |
| `Consumers!ImportIsFaithful` | `[]ExportIsFaithful` | `PortTrace`: the bundle is what the export makes of the package, the project what the import makes of the bundle; keys tell columns apart, free numbers are no ids, and `SplitTrace` takes each embedded exchange apart again |
| `Consumers!RowsAreKept`, `UnscoredIsAccountedFor` | `[]RowsKeepTheirProduct`, `[]UnscoredIsExplained` | `RunTrace`: rows, mapping, scores and board are functions of sheet and package, and the workers' chunks together score what one process would; `AuditTrace` for what the audit says of the products without a score |
| `LinkChain!ReferenceIsKept`, `NothingIsLost`, `UnitsStayAgreed`, `SystemProcessIsReached`, `LabelsLead`, `LinksStay` | `[]ReferenceKept`, `[]NothingSilentlyLost`, `[]UnitsAgree`, `[]SystemProcessReached`, `[]LabelsLeadToEcoinvent`, `ProducedLinksStay` | `Inductive`: for every edge of the source, whether it is left at each stage and how it has changed (`DomainInv`, `ShapeInv`), who is live, what measures what (`UnitInv`), who supplies a link (`SupplyInv`) |
| `OverridePlan!AmountsFollowCommands` | `[]AmountsAreAsked` | `OverrideInv`: a link is what its file makes of the export, and the file has the rows in the order they were set; then induction over the tiers of the plan, the environment and the cascade |
| `OverridePlan!ConfirmedStays` | `[]ConfirmedSurvives` | `FileInv` and `SaveInv`: what is about to replace the file has every reported row or sets it again |
| `OverridePlan!LoneRowsLink` | `[]FailureNeedsTwo` | each row of the file was previewed alone, and one row on a dataset raises iff its preview did |
| `OverridePlan!UnusedHasNoEffect` | `[]NoEffectIsTrue` | what a parameter reaches, directly or through calculated ones, is closed, and outside of it nothing changes |
| `BioLink!RegionsSurvive`, `CompartmentsHold`, `PinsHaveRows` | `[]RegionKept`, `[]CompartmentKept`, `[]PinsResolve` | `LinkInv`: at each stage the inventory is a function of CSV, sources, tables and catalog; stage by stage, `Sound`: a regional code carries the region of the first spelling, and the link is the row's pin or a base flow of a fitting compartment |
| `BioLink!AugmentationCovers` | `AugmentCovers` | `CatalogInv`: one flow of a code, and under each regional row the base it copies |
| `BioLink!LinksSettle` | `[]RelinkSettles` | catalogs with the same base rows give a candidate the same target and the same rank; a set of hits that is not single cannot become so by growing; rows that only fill empty links sort behind all others |
| `BioLink!QuantitiesHold` | `[]QuantityKept` | every factor leads from a unit to a unit (`Right`); `Mid`, `Late`: what the flowmap and the migrations leave is the quantity of the CSV, in grains the next conversion divides; a target has the unit of its flow (`TargetUnit`, with `RootInv`: base rows of a catalog are snapshot or EF flows) |
| `MethodCf!FilesStayCoherent` | `[]Inv` | `CacheInv`: a cache that is fresh and whole is the spreadsheet's; `BuilderInv`: the tables of the methods done are current; `IndexInv`: the index names tables that are there |
| `MethodCf!IndexNeverDangles`, `RebuiltIsCurrent` | `[]IndexLeadsToFiles`, `[]BuildIsCurrent` | from `IndexInv`, which takes over from `BuilderInv` when the index is written |
| `MethodCf!SistersStayTogether` | `[]SistersShareFate` | from `BuildIsCurrent`, and that the filter decides by substance |
| `MethodCf!EmittedIsFresh` | `[]EmitIsFresh` | `StoreInv`: a stored package is the one its hash stands for; equal hashes give equal matrices and corrections, where water is concerned for equal rows of water |
| `MethodCf!ChargedLocally` | `[]ScoresAreLocal` | `WholeInv`: the files hold whole numbers; then flow by flow, global CF plus difference is the country's CF, and sums of a sum split |
| `MethodCf!TagsAreNeutral` | `[]TaggingIsNeutral` | among the rows that are found, a base flow is water taken or returned iff its tagged codes are (`PicksAreFibres`), and a sum over rows is the sum over their bases of the sums over the codes of each |
| `MethodCf!ViewsAddUp` | `[]ViewsAgree` | `PkgInv`: stored packages hold whole numbers over rows and columns of the matrix; all views are sums over one table of flow times activity, by row, by column, or without its zeros |

**Assumptions.** `WhatIfAssumption`: sorts of the constants, and at least two packages (the code has five).
`StoreAssumption`, `NoDirAssumption`: a limit of at least one, finitely many packages, `ids.json` is no matrix.
`IdAssumption`: synthetic ids collide neither with activities nor with each other, and perennials are activities; the code says collisions
are "vanishingly unlikely" and does not check. `HashAssumption` and `MethodAssumption` of `BwExport`: ids and
methods are finitely many, and a flow of the biosphere catalog, whose id is a 63-bit hash, has none of the small
numbers that the corrections get. `SheetAssumption`, `BlankAssumption` of `Backtest`: entries and sheets are
sequences, and an empty cell is no product. `LinkAssumption` and `SourceAssumption` of `LinkChain`: sorts,
and `WellFormed` inventories (section 6). `ConstantsAssumption` and `ExportAssumption`: sorts, and exports as
the extractor receives them. `EditionAssumption`: editions keep to the module's methods, with CFs
in whole hundredths;
`MatrixAssumption`: the biosphere matrix is finite, and its amounts and the supplies are whole numbers;
`CopyAssumption`: where the catalog has a tagged code, it has its base, and with the same record, which is
what a link appends (`AugmentCovers` in `BioLink`); it need not have either. In `BioLink`, `FlowAssumption`: a database has
one flow of a code, under a plain uuid; `SourceAssumption`: sources point at plain uuids, and the uuids of the
EF index are flows of the factor table; `ParseAssumption`: parsed exchanges carry neither links nor codes;
`NameAssumption`: the two tables of names never move a flow to another region, which is so in the files of
`bw2io-data` the code reads. Only `QuantitiesHold` uses the following. `UnitAssumption`: units have sizes, flows have units.
`FactorAssumption`, `MigrationAssumption`: the tables are numerically right, the flowmap's factors once the
applier has repaired them and the inverted conversions once the extra conversions hide them; the theorem is about the
code, which applies them in a row, not about the data. `GrainAssumption`: amounts are
counted in grains so small that no three conversions in a row leave a remainder, where the code has floats.
TLC evaluates all of them on the instance of `bio_link`.

**Why strengthenings are needed.** `TypeOK` alone is not inductive in `WhatIf`: that `linked` gets a graph needs
that `proc.sp` is one at the snapshot. `LinkedIsPristine` needs the command's graph before the snapshot,
`ReportStaysLive` the position of the reported package in the list. `CatalogMatchesPackage` is stated for
histories without a kill: a kill between two files parts the labels from the report. `FullLinkIsDeterministic`
needs that every synthetic row was left by a link since the catalog was built, whichever CSV that link read.
`IndexLeadsToFiles` and `BuildIsCurrent` hold because of what the builder did at every method before.
`RelinkSettles` needs what the *previous* link made of an exchange as the same function of other arguments.

**Induction over data.** The library's induction theorems take an operator as a parameter and cannot be
cited. Where a proof needs one (the folds of `OverridePlan`, the filtered rows of both registries), it takes
the least counterexample instead: `LeastNumber` from the well-foundedness of the naturals, and `Induction` over
a *set* of numbers. Facts about finite sets (`FiniteIsBounded`, and `NthFacts`: ranks are unique and cover the set)
go by the same way. For the same reason such loops are recursive functions in the model, which a proof can
take apart (`Picked`), and not the library's `SelectSeq`. The sums of `CfTables` are the library's
`MapThenSumSet`: `TotalLoop` takes its recursion apart, `AnyElementFirst` shows that the order of the elements
does not matter, and `SetInduction` over the subsets of a finite set gives the rest (`PartAdd`, `PartScale`,
`PartSupport`, `PartFibres`, `PartPairs`).

**Only model-checked**: liveness (`CommandTerminates`, `WriteEnds`), which is out of the prover's reach.

## 6. Abstractions to know

* Amounts and factors are signs in `EmitChain`; a negative or NaN amount behaves like any non-zero one. A
  factor that is negative or NaN is `unusable`, and a set of factors can be normalised iff none is and one is
  positive. Numbers in the matrices are not modelled.
* The content hash is injective; equal provenance means equal content.
* Stamps of different CSVs differ in `WhatIf` instances.
* `PackageStore` has one writer, as commands run one at a time; directories have distinct mtimes.
* The catalog in the hash is its codes, as in the code; other columns (locations) do not count.
* `LinkChain` starts from `WellFormed` inventories: outputs carry their product's name and unit, inputs are
  unlinked, and a dummy edge is its process's only production. This is what `bw_simapro_csv` yields.
* `OverridePlan` leaves out the rounding of floats, hand edits of the file, the absolute mode that only tests
  call, and the warnings about zeroed production; names are lower-cased.
* A unit's conversion is its first usable row; conversion factors are positive and exact.
* `BioLink` takes spellings that differ in case as one name, since every lookup lowers its key, and leaves
  out audit counters and the retries of a strategy. A flow's quantity is amount times `UnitSize`.
* `CfTables` counts in hundredths with integer means; the inherited rows of a method are unique per flow.
* `MethodCf` runs commands one at a time, as they are used; a spreadsheet that is replaced gets a later mtime.
* `Backtest` leaves out differences, the near-zero floor and summaries, which are statistics over numbers.
* `BwExport` keeps signs. Names are not empty; what Brightway assumes of an activity without a production
  exchange (a unit of itself) is external. The two parity checks compare scores of a sample and are left
  out, as the property compares the whole structure. A killed import leaves databases, which the importer's
  guard refuses to overwrite unless told to.

## 7. Not modelled, and why

The linear solve is external: a score is a sum over an inventory that the solver would give. Reporting,
spreadsheets and the dashboard are one-way conversions of finished results. The LLM commands propose rows for
review and nothing waits for them. Logging, settings and argument parsing keep no state that the rest depends
on. The read-only audits and delta reports over factors, the no-match lists and the upstream audit columns of
the registry feed reports alone.

`core/parquet_cache.py` spares the registry builder and one export a second parse of a workbook.
`MapRegistry` reads the workbook itself, so a parquet that is older in content than in mtime is out of its
view; the like cache of the factor spreadsheet, which can shape a method, is in `MethodCf`.

Two commands at once on the same files are against the tool's usage: they could lose an override row, or
share one `.partial` directory of the package store.

## 8. Plan

Modules came in the order of what a wrong answer would cost: `WhatIf`, `PackageStore` over `LRUStore`,
`EmitChain`, `LinkChain`, `OverridePlan`, then `BioLink` over `MapRegistry`, `MethodCf` over `CfTables`,
and the consumers `Backtest` and `BwExport`. Proofs followed in the same order, and reach every safety property
the passing runs check. Of what section 7 leaves out, `core/parquet_cache.py` would be the first to add.
