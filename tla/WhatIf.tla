------------------------------- MODULE WhatIf -------------------------------
(***************************************************************************)
(* The parameter what-if loop of sentier-agribalyse: one operator runs one *)
(* command at a time (dds-link-all, dds-set-parameter [--fast],            *)
(* dds-clear-parameters, dds-backtest, dds-reset, the registry builders)   *)
(* over files that outlive the commands.  A command is a sequence of       *)
(* steps, each of which leaves the files in the state the code leaves them *)
(* in; a kill ends the command between any two steps, and within the       *)
(* writes that are not atomic.  A kill that cuts the removal of a package  *)
(* directory short is modelled in PackageStore.                            *)
(*                                                                         *)
(* The data are abstracted to their provenance: a linked graph is the CSV  *)
(* it was parsed from, the links its exchanges got and the override stores *)
(* that were folded into it; a scoring package is the set of inputs its    *)
(* content hash covers.  How a CSV links is BioLink's affair: here it is a *)
(* function of the synthetic rows the catalog holds at that moment.        *)
(***************************************************************************)
EXTENDS Naturals, Sequences, FiniteSets

CONSTANTS
    Csv,          \* contents source/AGB32_final.CSV may have
    Stamp,        \* Stamp[c]: the (size, int(mtime)) pair of content c
    Key,          \* (parameter name, scope) keys of an override row
    Defines,      \* Defines[c]: the keys that resolve against CSV c
    Value,        \* override values
    Unset,        \* "no row for this key"
    Code,         \* synthetic `<uuid>@<region>` biosphere codes
    Linking,      \* the links the exchanges of a graph may have
    Unlinked,     \* a graph that is only parsed
    Link,         \* Link[c][s]: how c links over a catalog with synthetic rows s
    Synthetic,    \* Synthetic[l]: the synthetic codes that links l use
    Method,       \* LCIA methods of registry/method_cfs
    Artifact,     \* files a backtest writes
    MaxPackages,  \* ScoringPackageStore.MAX_PACKAGES
    NoFile,       \* the file does not exist
    Torn,         \* the file was cut short by a crash
    Outdated,     \* the file was written by an older release
    MidRunEdits,  \* may the CSV be replaced while a command runs?
    MaxCommands, MaxCrashes, MaxEdits   \* bounds of the exploration

ASSUME WhatIfAssumption ==
    /\ Defines \in [Csv -> SUBSET Key]
    /\ Link \in [Csv -> [SUBSET Code -> Linking]]
    /\ Synthetic \in [Linking -> SUBSET Code]
    /\ Unlinked \notin Linking
    /\ Unset \notin Value
    /\ NoFile \notin Csv /\ Torn \notin Csv /\ Outdated \notin Csv
    /\ MaxPackages \in Nat \ {0, 1}
    /\ MidRunEdits \in BOOLEAN
    /\ MaxCommands \in Nat /\ MaxCrashes \in Nat /\ MaxEdits \in Nat

VARIABLES
    csv,          \* source/AGB32_final.CSV
    importer,     \* cache/importer_cache.pkl: the CSV it was parsed from
    linked,       \* cache/linked_cache.pkl
    overrides,    \* source/parameter_overrides.csv
    catalog,      \* synthetic rows of registry/biosphere_catalog.parquet
    cfs,          \* per method, the catalog its CF parquet was built from
    packages,     \* cache/scoring_packages, most recent mtime first
    leftover,     \* packages a killed write left whole, but not yet renamed
    productCat,   \* registry/product_catalog.parquet
    activityCat,  \* registry/activity_catalog.parquet
    report,       \* dashboard/run_report.json
    dash,         \* dashboard/backtest/*: the package each was scored from
    proc,         \* the running command
    commands, crashes, edits   \* what is left of the bounds

store == <<packages, leftover>>
files == <<csv, importer, linked, overrides, catalog, cfs, store,
           productCat, activityCat, report, dash>>
bounds == <<commands, crashes, edits>>
vars == <<files, proc, bounds>>

-----------------------------------------------------------------------------
(* Provenance *)

Store == [Key -> Value \cup {Unset}]
NoOverrides == [k \in Key |-> Unset]
Rows(ov) == {k \in Key : ov[k] # Unset}

Graph == [csv : Csv, links : Linking \cup {Unlinked}, applied : Seq(Store)]
Parsed(c) == [csv |-> c, links |-> Unlinked, applied |-> << >>]

\* What the transforms and the matcher make of a graph over a catalog.
Linked(g, rows) == [g EXCEPT !.links = Link[g.csv][rows]]
\* The catalog once the synthetic codes of the graph are appended.
Extended(g, rows) == rows \cup Synthetic[Linked(g, rows).links]

\* ParameterOverridesApplier.apply: an empty store leaves the graph alone.
Fold(g, ov) == IF ov = NoOverrides THEN g
                                   ELSE [g EXCEPT !.applied = Append(@, ov)]

\* What the content hash covers: frame bytes, method CFs, catalog codes.
Package == [frame : Graph, cfs : [Method -> SUBSET Code], catalog : SUBSET Code]

LinkedFile == [stamp : {Stamp[c] : c \in Csv}, sp : Graph]
\* fast: the report carries the "fast_rescore" stage.
ReportFile == [pkg : Package, fast : BOOLEAN]

Label == {"idle", "load", "augment", "cfs", "snapshot", "apply", "emit",
          "productCat", "activityCat", "report", "fastReport", "fastLoad",
          "validate", "score", "artifacts",
          "resetPackages", "resetImporter", "resetLinked", "resetOverrides"}
Command == {"none", "link", "set", "cfs", "backtest", "reset"}
Mode == {"none", "fast", "full", "replay", "relink"}

\* mode: how dds-set-parameter will rescore (fast, full, none), then how it
\* rescores (replay, relink); keep: --keep-overrides.
Idle == [pc |-> "idle", cmd |-> "none", mode |-> "none", sp |-> NoFile,
         pkg |-> NoFile, todo |-> {}, key |-> NoFile, value |-> Unset,
         keep |-> FALSE]

At(label) == proc.pc = label
Goto(label) == proc' = [proc EXCEPT !.pc = label]
Stop == proc' = Idle

-----------------------------------------------------------------------------
(* The step that starts a command *)

Start(p) == /\ At("idle")
            /\ commands < MaxCommands
            /\ commands' = commands + 1
            /\ proc' = p
            /\ UNCHANGED <<files, crashes, edits>>

LinkAll == Start([Idle EXCEPT !.pc = "load", !.cmd = "link"])

\* `dds-set-parameter NAME VALUE`: --fast is refused, before anything is
\* saved, when there is no linked cache and a rescore was asked for.
SetParameter == \E k \in Key, v \in Value, m \in {"fast", "full", "none"} :
    /\ m = "fast" => linked # NoFile
    /\ Start([Idle EXCEPT !.pc = "load", !.cmd = "set", !.mode = m,
                          !.key = k, !.value = v])

Backtest == Start([Idle EXCEPT !.pc = "score", !.cmd = "backtest"])

BuildMethodCfs == Start([Idle EXCEPT !.pc = "cfs", !.cmd = "cfs", !.todo = Method])

Reset == \E keep \in BOOLEAN :
    Start([Idle EXCEPT !.pc = "resetPackages", !.cmd = "reset", !.keep = keep])

\* One-step commands.
\* The rebuilt catalog has the base rows only.
BuildCatalog == /\ At("idle")
                /\ commands < MaxCommands
                /\ commands' = commands + 1
                /\ catalog' = {}
                /\ UNCHANGED <<csv, importer, linked, overrides, cfs, store,
                     productCat, activityCat, report, dash, proc, crashes, edits>>

\* Rows matching the name and scope filters are removed; the file is
\* deleted when none is left, which reads back as an empty store.
ClearParameters == \E ks \in (SUBSET Key) \ {{}} :
    /\ At("idle")
    /\ commands < MaxCommands
    /\ commands' = commands + 1
    /\ overrides' = [k \in Key |-> IF k \in ks THEN Unset ELSE overrides[k]]
    /\ UNCHANGED <<csv, importer, linked, catalog, cfs, store, productCat,
                   activityCat, report, dash, proc, crashes, edits>>

-----------------------------------------------------------------------------
(* dds-link-all, and the load that dds-set-parameter shares with it *)

AfterLoad == IF proc.cmd = "set" /\ proc.mode # "relink" THEN "validate"
                                                       ELSE "augment"

\* A cached parse in the current format is returned unread against the CSV.
LoadCached == /\ At("load")
              /\ importer \in Csv
              /\ proc' = [proc EXCEPT !.pc = AfterLoad, !.sp = Parsed(importer)]
              /\ UNCHANGED <<files, bounds>>

\* A missing or pre-parameter pickle: parse the CSV, overwrite the pickle.
LoadParsed == /\ At("load")
              /\ importer \in {NoFile, Outdated}
              /\ importer' = csv
              /\ proc' = [proc EXCEPT !.pc = AfterLoad, !.sp = Parsed(csv)]
              /\ UNCHANGED <<csv, linked, overrides, catalog, cfs, store,
                             productCat, activityCat, report, dash, bounds>>

\* Killed inside write_bytes, which truncates the target first.
LoadTorn == /\ At("load")
            /\ importer \in {NoFile, Outdated}
            /\ crashes < MaxCrashes
            /\ crashes' = crashes + 1
            /\ importer' = Torn
            /\ Stop
            /\ UNCHANGED <<csv, linked, overrides, catalog, cfs, store,
                     productCat, activityCat, report, dash, commands, edits>>

\* pickle.loads raises on a cut pickle: the command fails.
LoadFails == /\ At("load")
             /\ importer = Torn
             /\ Stop
             /\ UNCHANGED <<files, bounds>>

\* Mutant: the catalog is augmented and the CFs are not rebuilt from it.
AugmentOnly == /\ At("augment")
               /\ catalog' = Extended(proc.sp, catalog)
               /\ proc' = [proc EXCEPT !.pc = "snapshot", !.sp = Linked(@, catalog)]
               /\ UNCHANGED <<csv, importer, linked, overrides, cfs, store,
                    productCat, activityCat, report, dash, bounds>>

\* Transforms and matching work in memory, against the catalog as it is on
\* disk, the rows of earlier links included; then the synthetic codes of the
\* linked graph are appended to it.
Augment == /\ At("augment")
           /\ catalog' = Extended(proc.sp, catalog)
           /\ proc' = [proc EXCEPT !.pc = "cfs", !.todo = Method,
                                   !.sp = Linked(@, catalog)]
           /\ UNCHANGED <<csv, importer, linked, overrides, cfs, store,
                          productCat, activityCat, report, dash, bounds>>

\* Mutant: a method that is built stays on the list.
BuildCfsAgain == /\ At("cfs")
                 /\ \E m \in proc.todo : cfs' = [cfs EXCEPT ![m] = catalog]
                 /\ UNCHANGED <<csv, importer, linked, overrides, catalog, store,
                      productCat, activityCat, report, dash, proc, bounds>>

\* One method's CF parquets at a time; dds-build-method-cfs-registry ends
\* where dds-link-all goes on to the snapshot.
BuildCfs == /\ At("cfs")
            /\ \E m \in proc.todo :
                 /\ cfs' = [cfs EXCEPT ![m] = catalog]
                 /\ proc' = IF proc.todo # {m}
                              THEN [proc EXCEPT !.todo = @ \ {m}]
                            ELSE IF proc.cmd = "cfs" THEN Idle
                            ELSE [proc EXCEPT !.pc = "snapshot", !.todo = {}]
            /\ UNCHANGED <<csv, importer, linked, overrides, catalog, store,
                           productCat, activityCat, report, dash, bounds>>

\* Mutant: the snapshot is taken after the overrides were applied.
SnapshotAfterOverrides ==
    /\ At("snapshot")
    /\ linked' = [stamp |-> Stamp[csv], sp |-> Fold(proc.sp, overrides)]
    /\ Goto("apply")
    /\ UNCHANGED <<csv, importer, overrides, catalog, cfs, store, productCat,
                   activityCat, report, dash, bounds>>

\* The pristine graph, stamped with the CSV now on disk.
Snapshot == /\ At("snapshot")
            /\ linked' = [stamp |-> Stamp[csv], sp |-> proc.sp]
            /\ Goto("apply")
            /\ UNCHANGED <<csv, importer, overrides, catalog, cfs, store,
                           productCat, activityCat, report, dash, bounds>>

-----------------------------------------------------------------------------
(* The stages dds-link-all and the fast path share *)

Apply == /\ At("apply")
         /\ Rows(overrides) \subseteq Defines[proc.sp.csv]
         /\ proc' = [proc EXCEPT !.pc = "emit", !.sp = Fold(@, overrides)]
         /\ UNCHANGED <<files, bounds>>

\* An override that names a parameter or process the CSV lacks raises.
ApplyFails == /\ At("apply")
              /\ ~(Rows(overrides) \subseteq Defines[proc.sp.csv])
              /\ Stop
              /\ UNCHANGED <<files, bounds>>

Built == [frame |-> proc.sp, cfs |-> cfs, catalog |-> catalog]

\* Where p is, most recent first.
Places(p) == {i \in 1..Len(packages) : packages[i] = p}
IsStored(p) == Places(p) # {}

ToFront(s, i) == <<s[i]>> \o SubSeq(s, 1, i - 1) \o SubSeq(s, i + 1, Len(s))
InsertedAt(s, i, p) == SubSeq(s, 1, i - 1) \o <<p>> \o SubSeq(s, i, Len(s))

\* Mutant: nothing is evicted.
KeptAll(s, i) == s

\* Eviction keeps the MaxPackages most recent directories, and the new one,
\* which stands at place i.
Kept(s, i) == IF Len(s) <= MaxPackages THEN s
              ELSE IF i <= MaxPackages THEN SubSeq(s, 1, MaxPackages)
              ELSE Append(SubSeq(s, 1, MaxPackages), s[i])

\* A directory that a killed write left is completed and renamed; when no
\* entry is new in it, its mtime is still that of the killed write.
Ranks == IF Built \in leftover THEN 1..(Len(packages) + 1) ELSE {1}

Publish == \E i \in Ranks : /\ packages' = Kept(InsertedAt(packages, i, Built), i)
                           /\ leftover' = {}

\* Mutant: a stored package keeps its old mtime.
EmitUntouched == /\ At("emit")
                 /\ IF IsStored(Built) THEN UNCHANGED store ELSE Publish
                 /\ proc' = [proc EXCEPT !.pc = "productCat", !.pkg = Built]
                 /\ UNCHANGED <<csv, importer, linked, overrides, catalog, cfs,
                      productCat, activityCat, report, dash, bounds>>

\* A stored package is touched; any other is published and the oldest evicted.
Emit == /\ At("emit")
        /\ IF IsStored(Built)
             THEN /\ \E i \in Places(Built) : packages' = ToFront(packages, i)
                  /\ UNCHANGED leftover
             ELSE Publish
        /\ proc' = [proc EXCEPT !.pc = "productCat", !.pkg = Built]
        /\ UNCHANGED <<csv, importer, linked, overrides, catalog, cfs,
                       productCat, activityCat, report, dash, bounds>>

\* Killed inside ScoringPackageStore.write, before the rename.
EmitKilled == /\ At("emit")
              /\ crashes < MaxCrashes
              /\ crashes' = crashes + 1
              /\ ~IsStored(Built)
              /\ leftover' = leftover \cup {Built}
              /\ Stop
              /\ UNCHANGED <<csv, importer, linked, overrides, catalog, cfs,
                   packages, productCat, activityCat, report, dash, commands, edits>>

\* Killed after the rename, before the eviction.
EvictKilled == /\ At("emit")
               /\ crashes < MaxCrashes
               /\ crashes' = crashes + 1
               /\ ~IsStored(Built)
               /\ \E i \in Ranks : packages' = InsertedAt(packages, i, Built)
               /\ leftover' = leftover \ {Built}
               /\ Stop
               /\ UNCHANGED <<csv, importer, linked, overrides, catalog, cfs,
                    productCat, activityCat, report, dash, commands, edits>>

WriteProductCat == /\ At("productCat")
                   /\ productCat' = proc.sp.csv
                   /\ Goto("activityCat")
                   /\ UNCHANGED <<csv, importer, linked, overrides, catalog, cfs,
                        store, activityCat, report, dash, bounds>>

\* Mutant: an activity catalog that exists is kept.
ActivityCatOnce == /\ At("activityCat")
                   /\ activityCat' = IF activityCat = NoFile THEN proc.pkg.frame
                                                             ELSE activityCat
                   /\ Goto("report")
                   /\ UNCHANGED <<csv, importer, linked, overrides, catalog, cfs,
                        store, productCat, report, dash, bounds>>

\* One row per column of the package just built.
WriteActivityCat == /\ At("activityCat")
                    /\ activityCat' = proc.pkg.frame
                    /\ Goto("report")
                    /\ UNCHANGED <<csv, importer, linked, overrides, catalog, cfs,
                         store, productCat, report, dash, bounds>>

\* dds-set-parameter goes on to the backtest.
WriteReport == /\ At("report")
               /\ report' = [pkg |-> proc.pkg, fast |-> proc.mode = "replay"]
               /\ proc' = IF proc.cmd = "set"
                            THEN [Idle EXCEPT !.pc = "score", !.cmd = "set"]
                            ELSE Idle
               /\ UNCHANGED <<csv, importer, linked, overrides, catalog, cfs,
                    store, productCat, activityCat, dash, bounds>>

\* Killed inside write_text.
ReportTorn == /\ At("report")
              /\ crashes < MaxCrashes
              /\ crashes' = crashes + 1
              /\ report' = Torn
              /\ Stop
              /\ UNCHANGED <<csv, importer, linked, overrides, catalog, cfs,
                   store, productCat, activityCat, dash, commands, edits>>

-----------------------------------------------------------------------------
(* dds-set-parameter *)

\* Mutant: the row is stored and the old package is scored again.
SaveThenScore ==
    /\ At("validate")
    /\ proc.key \in Defines[proc.sp.csv]
    /\ overrides' = [overrides EXCEPT ![proc.key] = proc.value]
    /\ proc' = [Idle EXCEPT !.pc = "score", !.cmd = "set"]
    /\ UNCHANGED <<csv, importer, linked, catalog, cfs, store, productCat,
                   activityCat, report, dash, bounds>>

\* The name must resolve against the parse; then the row is stored, and the
\* command stops or goes on to the rescore.
SaveOverride ==
    /\ At("validate")
    /\ proc.key \in Defines[proc.sp.csv]
    /\ overrides' = [overrides EXCEPT ![proc.key] = proc.value]
    /\ proc' = IF proc.mode = "none" THEN Idle
               ELSE IF proc.mode = "fast"
                 THEN [Idle EXCEPT !.pc = "fastReport", !.cmd = "set", !.mode = "replay"]
                 ELSE [Idle EXCEPT !.pc = "load", !.cmd = "set", !.mode = "relink"]
    /\ UNCHANGED <<csv, importer, linked, catalog, cfs, store, productCat,
                   activityCat, report, dash, bounds>>

RefuseOverride == /\ At("validate")
                  /\ proc.key \notin Defines[proc.sp.csv]
                  /\ Stop
                  /\ UNCHANGED <<files, bounds>>

-----------------------------------------------------------------------------
(* The fast path *)

\* An existing report is loaded so that it can be extended.
FastReport == /\ At("fastReport")
              /\ IF report = Torn THEN Stop ELSE Goto("fastLoad")
              /\ UNCHANGED <<files, bounds>>

\* LinkedSpCache.load: the file must be readable and carry the stamp of the
\* CSV now on disk.
Loadable(f) == f \notin {NoFile, Outdated} /\ f.stamp = Stamp[csv]

FastLoad == /\ At("fastLoad")
            /\ Loadable(linked)
            /\ proc' = [proc EXCEPT !.pc = "apply", !.sp = linked.sp]
            /\ UNCHANGED <<files, bounds>>

FastLoadFails == /\ At("fastLoad")
                 /\ ~Loadable(linked)
                 /\ Stop
                 /\ UNCHANGED <<files, bounds>>

-----------------------------------------------------------------------------
(* dds-backtest *)

HasReport == report \notin {NoFile, Torn}

\* The package the report names must be in the store.
Locatable == /\ HasReport
             /\ IsStored(report.pkg)
             /\ productCat # NoFile

Score == /\ At("score")
         /\ Locatable
         /\ proc' = [proc EXCEPT !.pc = "artifacts", !.pkg = report.pkg,
                                 !.todo = Artifact]
         /\ UNCHANGED <<files, bounds>>

ScoreFails == /\ At("score")
              /\ ~Locatable
              /\ Stop
              /\ UNCHANGED <<files, bounds>>

WriteArtifact == /\ At("artifacts")
                 /\ \E a \in proc.todo :
                      /\ dash' = [dash EXCEPT ![a] = proc.pkg]
                      /\ proc' = IF proc.todo = {a} THEN Idle
                                 ELSE [proc EXCEPT !.todo = @ \ {a}]
                 /\ UNCHANGED <<csv, importer, linked, overrides, catalog, cfs,
                      store, productCat, activityCat, report, bounds>>

-----------------------------------------------------------------------------
(* dds-reset *)

ResetPackages == /\ At("resetPackages")
                 /\ packages' = << >> /\ leftover' = {}
                 /\ Goto("resetImporter")
                 /\ UNCHANGED <<csv, importer, linked, overrides, catalog, cfs,
                      productCat, activityCat, report, dash, bounds>>

ResetImporter == /\ At("resetImporter")
                 /\ importer' = NoFile
                 /\ Goto("resetLinked")
                 /\ UNCHANGED <<csv, linked, overrides, catalog, cfs, store,
                      productCat, activityCat, report, dash, bounds>>

ResetLinked == /\ At("resetLinked")
               /\ linked' = NoFile
               /\ Goto("resetOverrides")
               /\ UNCHANGED <<csv, importer, overrides, catalog, cfs, store,
                    productCat, activityCat, report, dash, bounds>>

ResetOverrides == /\ At("resetOverrides")
                  /\ overrides' = IF proc.keep THEN overrides ELSE NoOverrides
                  /\ Stop
                  /\ UNCHANGED <<csv, importer, linked, catalog, cfs, store,
                       productCat, activityCat, report, dash, bounds>>

-----------------------------------------------------------------------------
(* The environment *)

\* The operator saves a new SimaPro export over the old one.
ReplaceCsv == /\ edits < MaxEdits
              /\ At("idle") \/ MidRunEdits
              /\ edits' = edits + 1
              /\ csv' \in Csv \ {csv}
              /\ UNCHANGED <<importer, linked, overrides, catalog, cfs, store,
                   productCat, activityCat, report, dash, proc, commands, crashes>>

Crash == /\ ~At("idle")
         /\ crashes < MaxCrashes
         /\ crashes' = crashes + 1
         /\ Stop
         /\ UNCHANGED <<files, commands, edits>>

-----------------------------------------------------------------------------

Init == /\ csv \in Csv
        /\ importer \in {NoFile, Outdated}
        /\ linked \in {NoFile, Outdated}
        /\ overrides = NoOverrides
        /\ catalog = {}
        /\ cfs = [m \in Method |-> {}]
        /\ packages = << >> /\ leftover = {}
        /\ productCat = NoFile
        /\ activityCat = NoFile
        /\ report = NoFile
        /\ dash = [a \in Artifact |-> NoFile]
        /\ proc = Idle
        /\ commands = 0 /\ crashes = 0 /\ edits = 0

Operator == \/ LinkAll \/ SetParameter \/ Backtest \/ BuildMethodCfs
            \/ Reset \/ BuildCatalog \/ ClearParameters

\* The steps a started command takes by itself.
Step == \/ LoadCached \/ LoadParsed \/ LoadFails \/ Augment \/ BuildCfs
        \/ Snapshot \/ Apply \/ ApplyFails \/ Emit
        \/ WriteProductCat \/ WriteActivityCat \/ WriteReport
        \/ SaveOverride \/ RefuseOverride
        \/ FastReport \/ FastLoad \/ FastLoadFails
        \/ Score \/ ScoreFails \/ WriteArtifact
        \/ ResetPackages \/ ResetImporter \/ ResetLinked \/ ResetOverrides

Kill == LoadTorn \/ EmitKilled \/ EvictKilled \/ ReportTorn \/ Crash

Next == Operator \/ Step \/ Kill \/ ReplaceCsv

Spec == Init /\ [][Next]_vars

\* A command that was started goes on until it ends: the code waits for
\* nothing but its own work.
FairSpec == Spec /\ WF_vars(Step)

-----------------------------------------------------------------------------
(* Properties *)

Process == [pc : Label, cmd : Command, mode : Mode, sp : Graph \cup {NoFile},
            pkg : Package \cup {NoFile}, todo : SUBSET (Method \cup Artifact),
            key : Key \cup {NoFile}, value : Value \cup {Unset},
            keep : BOOLEAN]

FilesOK ==
    /\ csv \in Csv
    /\ importer \in Csv \cup {NoFile, Torn, Outdated}
    /\ linked \in LinkedFile \cup {NoFile, Outdated}
    /\ overrides \in Store
    /\ catalog \in SUBSET Code
    /\ cfs \in [Method -> SUBSET Code]
    /\ packages \in Seq(Package) /\ leftover \in SUBSET Package
    /\ productCat \in Csv \cup {NoFile}
    /\ activityCat \in Graph \cup {NoFile}
    /\ report \in ReportFile \cup {NoFile, Torn}
    /\ dash \in [Artifact -> Package \cup {NoFile}]

BoundsOK == /\ commands \in 0..MaxCommands
            /\ crashes \in 0..MaxCrashes
            /\ edits \in 0..MaxEdits

\* Every file holds what its readers expect, or nothing, or the leftovers of
\* a crash or of an older release.
TypeOK == FilesOK /\ proc \in Process /\ BoundsOK

\* What a command carries when it gets to a step that uses it.
CarriesGraph == {"validate", "augment", "snapshot", "apply", "emit",
                 "productCat", "activityCat", "report"}
CarriesPackage == {"productCat", "activityCat", "report", "artifacts"}
ProcInv ==
    /\ \/ At("validate")
       \/ At("load") /\ proc.cmd = "set" /\ proc.mode # "relink"
       => proc.key \in Key /\ proc.value \in Value
    /\ proc.pc \in CarriesGraph => proc.sp \in Graph
    /\ At("cfs") => proc.todo \subseteq Method
    /\ At("cfs") /\ proc.cmd # "cfs" => proc.sp \in Graph
    /\ proc.pc \in CarriesPackage => proc.pkg \in Package
    /\ At("artifacts") => proc.todo \subseteq Artifact

\* The linked cache is the pristine baseline "regardless of what the
\* overrides store holds" (transforms/linked_cache.py): whatever commands
\* ran and wherever they were killed, no override is ever folded into it, so
\* a replay never applies the store twice.
LinkedIsPristine ==
    linked \notin {NoFile, Outdated} => linked.sp.applied = << >>

\* No override is folded in before the snapshot is taken.
PristineInv ==
    /\ LinkedIsPristine
    /\ \/ proc.pc \in {"augment", "snapshot"}
       \/ At("cfs") /\ proc.cmd # "cfs"
       => proc.sp.applied = << >>

\* Only links left these rows in the catalog since it was built: they are in
\* every family that has the empty set and what a link adds to its members.
LeftByLinks(rows) ==
    \A family \in SUBSET (SUBSET Code) :
        /\ {} \in family
        /\ \A s \in family, c \in Csv : Extended(Parsed(c), s) \in family
        => rows \in family

\* The package of graph g when it was linked over a catalog with these rows:
\* the catalog and the CFs of every method know them and the codes of g.
Rebuilt(g, rows) == [frame |-> Linked(g, rows),
                     cfs |-> [m \in Method |-> Extended(g, rows)],
                     catalog |-> Extended(g, rows)]

\* The part of "Rebuilds are deterministic" (README.md) that the code keeps:
\* whatever commands, kills, half-built CFs, stale caches and CSVs came before,
\* a full link reports a package that is a function of its CSV, the overrides
\* and the synthetic rows it found, which only links left there since the
\* catalog was built.  (On those rows it does depend: BioLink.)
FullLinkIsDeterministic ==
    HasReport /\ ~report.fast =>
        \E rows \in SUBSET Code : /\ report.pkg = Rebuilt(report.pkg.frame, rows)
                                  /\ LeftByLinks(rows)

\* A linked cache that passes the checks of LinkedSpCache.load was built from
\* the CSV now on disk ("LinkedCacheStaleError: raised when the linked cache
\* was built from a different source CSV").
LinkedMatchesSource ==
    Loadable(linked) => linked.sp.csv = csv

\* Between commands, the activity catalog labels the columns of the package
\* the report names ("catalog and matrix can never skew").  Only a command
\* killed between the two files parts them.
CatalogMatchesPackage ==
    At("idle") /\ HasReport /\ crashes = 0 => activityCat = report.pkg.frame

\* "Keep the most-recently-used N" (scoring/scoring_package.py): every package
\* the store holds beyond MaxPackages is owed to a killed command, which left
\* its package unevicted, or left a directory whose old mtime makes it a victim
\* that the eviction spares.
StoreIsBounded == Len(packages) <= MaxPackages + crashes

\* While no command was killed, the package that the report names stays in
\* the store: eviction takes others; only dds-reset removes it.
ReportStaysLive ==
    [][ /\ HasReport /\ IsStored(report.pkg)
        /\ crashes' = 0
        /\ ~At("resetPackages")
        => (HasReport' => IsStored(report.pkg)') ]_vars

\* The reported package is the most recent of the store; between the emit and
\* the report, the package the command carries is, and the other is second.
RecencyInv ==
    crashes = 0 =>
      /\ leftover = {}
      /\ IF proc.pc \in {"productCat", "activityCat", "report"}
           THEN /\ 1 \in Places(proc.pkg)
                /\ HasReport /\ IsStored(report.pkg)
                     => Places(report.pkg) \cap {1, 2} # {}
           ELSE HasReport /\ IsStored(report.pkg)
                  => 1 \in Places(report.pkg)

\* When dds-set-parameter has rescored, every dashboard file was scored from
\* the reported package, and that package is the pristine graph with the
\* override store as it now stands folded in once, on either path.
RescoreSettles ==
    [][ At("artifacts") /\ proc.cmd = "set" /\ At("idle")' /\ crashes' = crashes
        => /\ \A a \in Artifact : dash'[a] = report.pkg
           /\ report.pkg.frame =
                Fold([report.pkg.frame EXCEPT !.applied = << >>], overrides) ]_vars

\* A command that is started ends.
CommandTerminates == ~At("idle") ~> At("idle")
=============================================================================
