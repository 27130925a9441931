--------------------------- MODULE WhatIf_proofs ---------------------------
(***************************************************************************)
(* Theorems about WhatIf, for all values of its constants: the files stay  *)
(* well typed, no override ever gets into the linked cache, eviction       *)
(* bounds the store, the reported package stays in it and is the one the   *)
(* activity catalog labels, a rescore leaves dashboard, report and         *)
(* overrides in agreement, and a full link is a function of its inputs.    *)
(***************************************************************************)
EXTENDS WhatIf, SequenceTheorems, TLAPS

-----------------------------------------------------------------------------
(* The package store as a sequence *)

\* A touched directory moves to the front; none is lost or added.
LEMMA ToFrontType ==
    ASSUME NEW S, NEW s \in Seq(S), NEW i \in 1..Len(s)
    PROVE  /\ ToFront(s, i) \in Seq(S)
           /\ Len(ToFront(s, i)) = Len(s)
<1> DEFINE head == <<s[i]>>
           before == SubSeq(s, 1, i - 1)
           after == SubSeq(s, i + 1, Len(s))
<1>1. head \in Seq(S) /\ Len(head) = 1
  OBVIOUS
<1>2. before \in Seq(S) /\ Len(before) = i - 1
  OBVIOUS
<1>3. after \in Seq(S) /\ Len(after) = Len(s) - i
  OBVIOUS
<1>4. ToFront(s, i) = (head \o before) \o after
  BY DEF ToFront
<1> HIDE DEF head, before, after
<1>5. head \o before \in Seq(S) /\ Len(head \o before) = i
  BY <1>1, <1>2, ConcatProperties
<1>6. /\ (head \o before) \o after \in Seq(S)
      /\ Len((head \o before) \o after) = i + Len(after)
  BY <1>3, <1>5, ConcatProperties
<1>7. Len(s) \in Nat /\ i \in Nat
  BY LenProperties
<1> QED
  BY <1>3, <1>4, <1>6, <1>7

\* A published directory adds one.
LEMMA InsertedAtType ==
    ASSUME NEW S, NEW s \in Seq(S), NEW i \in 1..(Len(s) + 1), NEW p \in S
    PROVE  /\ InsertedAt(s, i, p) \in Seq(S)
           /\ Len(InsertedAt(s, i, p)) = Len(s) + 1
<1> DEFINE before == SubSeq(s, 1, i - 1)
           after == SubSeq(s, i, Len(s))
<1>1. before \in Seq(S) /\ Len(before) = i - 1
  OBVIOUS
<1>2. after \in Seq(S) /\ Len(after) = Len(s) - i + 1
  OBVIOUS
<1>3. <<p>> \in Seq(S) /\ Len(<<p>>) = 1
  OBVIOUS
<1>4. InsertedAt(s, i, p) = (before \o <<p>>) \o after
  BY DEF InsertedAt
<1> HIDE DEF before, after
<1>5. before \o <<p>> \in Seq(S) /\ Len(before \o <<p>>) = i
  BY <1>1, <1>3, ConcatProperties
<1> QED
  BY <1>2, <1>4, <1>5, ConcatProperties

\* Eviction leaves at most one directory more than MaxPackages, and not even
\* that when the new one is among the most recent.
LEMMA KeptType ==
    ASSUME NEW S, NEW s \in Seq(S), NEW i \in 1..Len(s)
    PROVE  /\ Kept(s, i) \in Seq(S)
           /\ Len(Kept(s, i)) <= MaxPackages + 1
           /\ i <= MaxPackages => Len(Kept(s, i)) <= MaxPackages
<1>0. MaxPackages \in Nat \ {0, 1}
  BY WhatIfAssumption
<1>1. CASE Len(s) <= MaxPackages
  BY <1>0, <1>1 DEF Kept
<1>2. CASE ~(Len(s) <= MaxPackages)
  <2>1. /\ SubSeq(s, 1, MaxPackages) \in Seq(S)
        /\ Len(SubSeq(s, 1, MaxPackages)) = MaxPackages
    BY <1>0, <1>2
  <2>2. s[i] \in S
    OBVIOUS
  <2> QED
    BY <1>0, <1>2, <2>1, <2>2 DEF Kept
<1> QED
  BY <1>1, <1>2

-----------------------------------------------------------------------------
(* Type correctness *)

\* Type correctness needs what a command carries from step to step.
TypeInv == TypeOK /\ ProcInv

\* What the steps compute is a graph, and adds synthetic codes.
LEMMA GraphType ==
    TypeOK => /\ \A c \in Csv : Parsed(c) \in Graph
              /\ \A g \in Graph : /\ Linked(g, catalog) \in Graph
                                  /\ Extended(g, catalog) \in SUBSET Code
                                  /\ Fold(g, overrides) \in Graph
<1> SUFFICES ASSUME TypeOK, NEW g \in Graph
             PROVE  /\ \A c \in Csv : Parsed(c) \in Graph
                    /\ Linked(g, catalog) \in Graph
                    /\ Extended(g, catalog) \in SUBSET Code
                    /\ Fold(g, overrides) \in Graph
  BY DEF Graph, Parsed
<1>1. \A c \in Csv : Parsed(c) \in Graph
  BY DEF Graph, Parsed
<1>2. Link[g.csv][catalog] \in Linking
  BY WhatIfAssumption DEF Graph, TypeOK, FilesOK
<1>3. /\ Linked(g, catalog) \in Graph
      /\ Linked(g, catalog).links = Link[g.csv][catalog]
  BY <1>2 DEF Graph, Linked
<1>4. Extended(g, catalog) \in SUBSET Code
  BY <1>2, <1>3, WhatIfAssumption DEF Extended, TypeOK, FilesOK
<1>5. Fold(g, overrides) \in Graph
  <2>1. Append(g.applied, overrides) \in Seq(Store)
    BY DEF Graph, TypeOK, FilesOK
  <2> QED
    BY <2>1 DEF Graph, Fold
<1> QED
  BY <1>1, <1>3, <1>4, <1>5

\* What emit builds is a package.
LEMMA PackageType ==
    ASSUME TypeOK, ProcInv, At("emit")
    PROVE  Built \in Package
<1>1. proc.sp \in Graph
  BY DEF ProcInv, At, CarriesGraph
<1> QED
  BY <1>1 DEF Built, Package, TypeOK, FilesOK

\* A published or touched store is a sequence of packages.
LEMMA StoreType ==
    ASSUME TypeOK, ProcInv, At("emit"), Emit
    PROVE  packages' \in Seq(Package) /\ leftover' \in SUBSET Package
<1>1. Built \in Package
  BY PackageType
<1>2. packages \in Seq(Package) /\ leftover \in SUBSET Package
  BY DEF TypeOK, FilesOK
<1>3. CASE IsStored(Built)
  <2>1. PICK i \in 1..Len(packages) : packages' = ToFront(packages, i)
    BY <1>3 DEF Emit, Places
  <2> QED
    BY <1>2, <1>3, <2>1, ToFrontType DEF Emit
<1>4. CASE ~IsStored(Built)
  <2>1. PICK i \in Ranks : packages' = Kept(InsertedAt(packages, i, Built), i)
    BY <1>4 DEF Emit, Publish
  <2>2. i \in 1..(Len(packages) + 1)
    BY <1>2, LenProperties DEF Ranks
  <2>3. /\ InsertedAt(packages, i, Built) \in Seq(Package)
        /\ i \in 1..Len(InsertedAt(packages, i, Built))
    BY <1>1, <1>2, <2>2, InsertedAtType
  <2>4. packages' \in Seq(Package)
    BY <2>1, <2>3, KeptType
  <2> QED
    BY <1>4, <2>4 DEF Emit, Publish
<1> QED
  BY <1>3, <1>4

\* A killed eviction adds one directory.
LEMMA EvictKilledAdds ==
    ASSUME TypeInv, EvictKilled
    PROVE  packages' \in Seq(Package) /\ Len(packages') = Len(packages) + 1
<1>1. Built \in Package /\ packages \in Seq(Package) /\ Len(packages) \in Nat
  BY PackageType, LenProperties DEF TypeInv, TypeOK, FilesOK, EvictKilled
<1>2. PICK i \in 1..(Len(packages) + 1) : packages' = InsertedAt(packages, i, Built)
  BY <1>1 DEF EvictKilled, Ranks
<1> QED
  BY <1>1, <1>2, InsertedAtType

\* The actions that write a file write what it may hold.
LEMMA FilesStep == TypeInv /\ [Next]_vars => FilesOK'
<1> SUFFICES ASSUME TypeInv, [Next]_vars PROVE FilesOK'
  OBVIOUS
<1> USE WhatIfAssumption DEF TypeInv, TypeOK, At, Goto, Stop
<1>ClearParameters. CASE ClearParameters
  <2>1. overrides' \in Store
    BY <1>ClearParameters DEF ClearParameters, FilesOK, Store
  <2> QED
    BY <1>ClearParameters, <2>1 DEF ClearParameters, FilesOK, store
<1>Augment. CASE Augment
  <2>0. Extended(proc.sp, catalog) \in SUBSET Code
    <3>1. proc.sp \in Graph
      BY <1>Augment DEF Augment, ProcInv, CarriesGraph
    <3> QED
      BY <3>1, GraphType
  <2>1. catalog' \in SUBSET Code
    BY <1>Augment, <2>0 DEF Augment, FilesOK
  <2> QED
    BY <1>Augment, <2>1 DEF Augment, FilesOK, store
<1>Snapshot. CASE Snapshot
  <2>1. linked' \in LinkedFile
    BY <1>Snapshot DEF Snapshot, FilesOK, LinkedFile, ProcInv, CarriesGraph
  <2> QED
    BY <1>Snapshot, <2>1 DEF Snapshot, FilesOK, store
<1>Emit. CASE Emit
  <2>1. packages' \in Seq(Package) /\ leftover' \in SUBSET Package
    BY <1>Emit, StoreType DEF Emit
  <2> QED
    BY <1>Emit, <2>1 DEF Emit, FilesOK
<1>WriteProductCat. CASE WriteProductCat
  <2>1. productCat' \in Csv
    BY <1>WriteProductCat DEF WriteProductCat, ProcInv, CarriesGraph, Graph
  <2> QED
    BY <1>WriteProductCat, <2>1 DEF WriteProductCat, FilesOK, store
<1>WriteActivityCat. CASE WriteActivityCat
  <2>1. activityCat' \in Graph
    BY <1>WriteActivityCat DEF WriteActivityCat, ProcInv, CarriesPackage, Package
  <2> QED
    BY <1>WriteActivityCat, <2>1 DEF WriteActivityCat, FilesOK, store
<1>WriteReport. CASE WriteReport
  <2>1. report' \in ReportFile
    BY <1>WriteReport DEF WriteReport, ProcInv, CarriesPackage, ReportFile
  <2> QED
    BY <1>WriteReport, <2>1 DEF WriteReport, FilesOK, store
<1>SaveOverride. CASE SaveOverride
  <2>1. overrides' \in Store
    BY <1>SaveOverride DEF SaveOverride, ProcInv, FilesOK, Store
  <2> QED
    BY <1>SaveOverride, <2>1 DEF SaveOverride, FilesOK, store
<1>WriteArtifact. CASE WriteArtifact
  <2>1. dash' \in [Artifact -> Package \cup {NoFile}]
    BY <1>WriteArtifact DEF WriteArtifact, ProcInv, CarriesPackage, FilesOK
  <2> QED
    BY <1>WriteArtifact, <2>1 DEF WriteArtifact, FilesOK, store
<1>ResetOverrides. CASE ResetOverrides
  <2>1. overrides' \in Store
    BY <1>ResetOverrides DEF ResetOverrides, FilesOK, Store, NoOverrides
  <2> QED
    BY <1>ResetOverrides, <2>1 DEF ResetOverrides, FilesOK, store
<1>EmitKilled. CASE EmitKilled
  <2>1. Built \in Package
    BY <1>EmitKilled, PackageType DEF EmitKilled
  <2> QED
    BY <1>EmitKilled, <2>1 DEF EmitKilled, FilesOK
<1>EvictKilled. CASE EvictKilled
  <2>1. packages' \in Seq(Package)
    BY <1>EvictKilled, EvictKilledAdds DEF TypeInv, TypeOK
  <2> QED
    BY <1>EvictKilled, <2>1 DEF EvictKilled, FilesOK
<1>LinkAll. CASE LinkAll
  BY <1>LinkAll DEF LinkAll, Start, FilesOK, files, store, bounds
<1>SetParameter. CASE SetParameter
  BY <1>SetParameter DEF SetParameter, Start, FilesOK, files, store, bounds
<1>Backtest. CASE Backtest
  BY <1>Backtest DEF Backtest, Start, FilesOK, files, store, bounds
<1>BuildMethodCfs. CASE BuildMethodCfs
  BY <1>BuildMethodCfs DEF BuildMethodCfs, Start, FilesOK, files, store, bounds
<1>Reset. CASE Reset
  BY <1>Reset DEF Reset, Start, FilesOK, files, store, bounds
<1>BuildCatalog. CASE BuildCatalog
  BY <1>BuildCatalog DEF BuildCatalog, Start, FilesOK, files, store, bounds
<1>group1. CASE LoadCached \/ LoadParsed \/ LoadFails \/ BuildCfs \/ Apply \/ ApplyFails
  BY <1>group1 DEF LoadCached, LoadParsed, LoadFails, BuildCfs, Apply, ApplyFails, Start,
     FilesOK, files, store, bounds
<1>group2. CASE RefuseOverride \/ FastReport \/ FastLoad \/ FastLoadFails \/ Score \/
     ScoreFails
  BY <1>group2 DEF RefuseOverride, FastReport, FastLoad, FastLoadFails, Score, ScoreFails,
     Start, FilesOK, files, store, bounds
<1>ResetPackages. CASE ResetPackages
  BY <1>ResetPackages DEF ResetPackages, Start, FilesOK, files, store, bounds
<1>ResetImporter. CASE ResetImporter
  BY <1>ResetImporter DEF ResetImporter, Start, FilesOK, files, store, bounds
<1>ResetLinked. CASE ResetLinked
  BY <1>ResetLinked DEF ResetLinked, Start, FilesOK, files, store, bounds
<1>group3. CASE LoadTorn \/ ReportTorn \/ Crash
  BY <1>group3 DEF LoadTorn, ReportTorn, Crash, Start, FilesOK, files, store, bounds
<1>ReplaceCsv. CASE ReplaceCsv
  BY <1>ReplaceCsv DEF ReplaceCsv, Start, FilesOK, files, store, bounds
<1>stutter. CASE UNCHANGED vars
  BY <1>stutter DEF vars, files, store, bounds, FilesOK, BoundsOK, ProcInv
<1> QED
  BY <1>ClearParameters, <1>Augment, <1>Snapshot, <1>Emit, <1>WriteProductCat,
     <1>WriteActivityCat, <1>WriteReport, <1>SaveOverride, <1>WriteArtifact,
     <1>ResetOverrides, <1>EmitKilled, <1>EvictKilled, <1>LinkAll, <1>SetParameter, <1>Backtest, <1>BuildMethodCfs,
     <1>Reset, <1>BuildCatalog, <1>group1, <1>group2, <1>ResetPackages, <1>ResetImporter, <1>ResetLinked, <1>group3, <1>ReplaceCsv, <1>stutter
  DEF Next, Operator, Step, Kill

\* A step leaves the command with what its next step uses.
LEMMA ProcStep == TypeInv /\ [Next]_vars => proc' \in Process /\ ProcInv'
<1> SUFFICES ASSUME TypeInv, [Next]_vars PROVE proc' \in Process /\ ProcInv'
  OBVIOUS
<1> USE WhatIfAssumption DEF TypeInv, TypeOK, At, Goto, Stop
<1>SetParameter. CASE SetParameter
  <2>1. proc' \in Process
    <3>1. PICK k \in Key, v \in Value, m \in {"fast", "full", "none"} :
            proc' = [Idle EXCEPT !.pc = "load", !.cmd = "set", !.mode = m,
                                 !.key = k, !.value = v]
      BY <1>SetParameter DEF SetParameter, Start
    <3> QED
      BY <3>1 DEF Idle, Process, Label, Command, Mode
  <2>2. ProcInv'
    BY <1>SetParameter DEF SetParameter, Start, FilesOK, Process, Idle, ProcInv, Label, Command, Mode, CarriesGraph, CarriesPackage, files, store, bounds
  <2> QED
    BY <2>1, <2>2
<1>Reset. CASE Reset
  <2>1. proc' \in Process
    <3>1. PICK keep \in BOOLEAN :
            proc' = [Idle EXCEPT !.pc = "resetPackages", !.cmd = "reset", !.keep = keep]
      BY <1>Reset DEF Reset, Start
    <3> QED
      BY <3>1 DEF Idle, Process, Label, Command, Mode
  <2>2. ProcInv'
    BY <1>Reset DEF Reset, Start, FilesOK, Process, Idle, ProcInv, Label, Command, Mode, CarriesGraph, CarriesPackage, files, store, bounds
  <2> QED
    BY <2>1, <2>2
<1>LoadCached. CASE LoadCached
  <2>1. proc' \in Process
    <3>1. importer \in Csv /\ Parsed(importer) \in Graph
      BY <1>LoadCached, GraphType DEF LoadCached, FilesOK
    <3>2. AfterLoad \in Label
      BY DEF AfterLoad, Label
    <3> QED
      BY <1>LoadCached, <3>1, <3>2 DEF LoadCached, Process
  <2>2. ProcInv'
    <3>1. importer \in Csv /\ Parsed(importer) \in Graph
      BY <1>LoadCached, GraphType DEF LoadCached, FilesOK
    <3> QED
      BY <1>LoadCached, <3>1 DEF LoadCached, AfterLoad, Process, ProcInv, CarriesGraph, CarriesPackage
  <2> QED
    BY <2>1, <2>2
<1>LoadParsed. CASE LoadParsed
  <2>1. proc' \in Process
    <3>1. csv \in Csv /\ Parsed(csv) \in Graph
      BY <1>LoadParsed, GraphType DEF LoadParsed, FilesOK
    <3>2. AfterLoad \in Label
      BY DEF AfterLoad, Label
    <3> QED
      BY <1>LoadParsed, <3>1, <3>2 DEF LoadParsed, Process
  <2>2. ProcInv'
    <3>1. csv \in Csv /\ Parsed(csv) \in Graph
      BY <1>LoadParsed, GraphType DEF LoadParsed, FilesOK
    <3> QED
      BY <1>LoadParsed, <3>1 DEF LoadParsed, AfterLoad, Process, ProcInv, CarriesGraph, CarriesPackage
  <2> QED
    BY <2>1, <2>2
<1>Augment. CASE Augment
  <2>0. Linked(proc.sp, catalog) \in Graph
    <3>1. proc.sp \in Graph
      BY <1>Augment DEF Augment, ProcInv, CarriesGraph
    <3> QED
      BY <3>1, GraphType
  <2>1. proc' \in Process
    BY <1>Augment, <2>0 DEF Augment, Process, Label
  <2>2. ProcInv'
    BY <1>Augment, <2>0 DEF Augment, Process, ProcInv, CarriesGraph, CarriesPackage
  <2> QED
    BY <2>1, <2>2
<1>BuildCfs. CASE BuildCfs
  <2>1. proc' \in Process
    <3>1. PICK m \in proc.todo :
            proc' = IF proc.todo # {m} THEN [proc EXCEPT !.todo = @ \ {m}]
                    ELSE IF proc.cmd = "cfs" THEN Idle
                    ELSE [proc EXCEPT !.pc = "snapshot", !.todo = {}]
      BY <1>BuildCfs DEF BuildCfs
    <3>2. Idle \in Process
      BY DEF Idle, Process, Label, Command, Mode
    <3>3. [proc EXCEPT !.todo = @ \ {m}] \in Process
      BY DEF Process
    <3>4. [proc EXCEPT !.pc = "snapshot", !.todo = {}] \in Process
      BY DEF Process, Label
    <3> QED
      BY <3>1, <3>2, <3>3, <3>4
  <2>2. ProcInv'
    BY <1>BuildCfs DEF BuildCfs, Start, FilesOK, Process, Idle, ProcInv, Label, Command, Mode, CarriesGraph, CarriesPackage, files, store, bounds
  <2> QED
    BY <2>1, <2>2
<1>Apply. CASE Apply
  <2>0. Fold(proc.sp, overrides) \in Graph
    <3>1. proc.sp \in Graph
      BY <1>Apply DEF Apply, ProcInv, CarriesGraph
    <3> QED
      BY <3>1, GraphType
  <2>1. proc' \in Process
    BY <1>Apply, <2>0 DEF Apply, Process, Label
  <2>2. ProcInv'
    BY <1>Apply, <2>0 DEF Apply, Process, ProcInv, CarriesGraph, CarriesPackage
  <2> QED
    BY <2>1, <2>2
<1>Emit. CASE Emit
  <2>0. Built \in Package
    BY <1>Emit, PackageType DEF Emit
  <2>1. proc' \in Process
    BY <1>Emit, <2>0 DEF Emit, Process, Label
  <2>2. ProcInv'
    BY <1>Emit, <2>0 DEF Emit, Process, ProcInv, CarriesGraph, CarriesPackage
  <2> QED
    BY <2>1, <2>2
<1>SaveOverride. CASE SaveOverride
  <2>1. proc' \in Process
    <3>1. Idle \in Process
      BY DEF Idle, Process, Label, Command, Mode
    <3>2. [Idle EXCEPT !.pc = "fastReport", !.cmd = "set", !.mode = "replay"] \in Process
      BY DEF Idle, Process, Label, Command, Mode
    <3>3. [Idle EXCEPT !.pc = "load", !.cmd = "set", !.mode = "relink"] \in Process
      BY DEF Idle, Process, Label, Command, Mode
    <3> QED
      BY <1>SaveOverride, <3>1, <3>2, <3>3 DEF SaveOverride
  <2>2. ProcInv'
    BY <1>SaveOverride DEF SaveOverride, Start, FilesOK, Process, Idle, ProcInv, Label, Command, Mode, CarriesGraph, CarriesPackage, files, store, bounds
  <2> QED
    BY <2>1, <2>2
<1>FastReport. CASE FastReport
  <2>1. proc' \in Process
    <3>1. Idle \in Process
      BY DEF Idle, Process, Label, Command, Mode
    <3> QED
      BY <1>FastReport, <3>1 DEF FastReport, Process, Label
  <2>2. ProcInv'
    BY <1>FastReport DEF FastReport, Start, FilesOK, Process, Idle, ProcInv, Label, Command, Mode, CarriesGraph, CarriesPackage, files, store, bounds
  <2> QED
    BY <2>1, <2>2
<1>FastLoad. CASE FastLoad
  <2>0. linked.sp \in Graph
    BY <1>FastLoad DEF FastLoad, Loadable, FilesOK, LinkedFile
  <2>1. proc' \in Process
    BY <1>FastLoad, <2>0 DEF FastLoad, Process, Label
  <2>2. ProcInv'
    BY <1>FastLoad, <2>0 DEF FastLoad, Process, ProcInv, CarriesGraph, CarriesPackage
  <2> QED
    BY <2>1, <2>2
<1>Score. CASE Score
  <2>0. report.pkg \in Package
    BY <1>Score DEF Score, Locatable, HasReport, FilesOK, ReportFile
  <2>1. proc' \in Process
    BY <1>Score, <2>0 DEF Score, Process, Label
  <2>2. ProcInv'
    BY <1>Score, <2>0 DEF Score, Process, ProcInv, CarriesGraph, CarriesPackage
  <2> QED
    BY <2>1, <2>2
<1>idle. ASSUME proc' = Idle PROVE proc' \in Process /\ ProcInv'
  BY <1>idle DEF Idle, Process, Label, Command, Mode, ProcInv, CarriesGraph, CarriesPackage
<1>stop. CASE LoadFails \/ ApplyFails \/ RefuseOverride \/ FastLoadFails \/
     ScoreFails \/ ResetOverrides
  BY <1>stop, <1>idle DEF LoadFails, ApplyFails, RefuseOverride, FastLoadFails,
     ScoreFails, ResetOverrides
<1>kill. CASE LoadTorn \/ EmitKilled \/ EvictKilled \/ ReportTorn \/ Crash
  BY <1>kill, <1>idle DEF LoadTorn, EmitKilled, EvictKilled, ReportTorn, Crash
<1>LinkAll. CASE LinkAll
  BY <1>LinkAll DEF LinkAll, Start, FilesOK, Process, Idle, ProcInv, Label, Command,
     Mode, CarriesGraph, CarriesPackage, files, store, bounds
<1>Backtest. CASE Backtest
  BY <1>Backtest DEF Backtest, Start, FilesOK, Process, Idle, ProcInv, Label, Command,
     Mode, CarriesGraph, CarriesPackage, files, store, bounds
<1>BuildMethodCfs. CASE BuildMethodCfs
  BY <1>BuildMethodCfs DEF BuildMethodCfs, Start, FilesOK, Process, Idle, ProcInv,
     Label, Command, Mode, CarriesGraph, CarriesPackage, files, store, bounds
<1>BuildCatalog. CASE BuildCatalog
  BY <1>BuildCatalog DEF BuildCatalog, Start, FilesOK, Process, Idle, ProcInv, Label,
     Command, Mode, CarriesGraph, CarriesPackage, files, store, bounds
<1>ClearParameters. CASE ClearParameters
  BY <1>ClearParameters DEF ClearParameters, Start, FilesOK, Process, Idle, ProcInv,
     Label, Command, Mode, CarriesGraph, CarriesPackage, files, store, bounds
<1>Snapshot. CASE Snapshot
  BY <1>Snapshot DEF Snapshot, Start, FilesOK, Process, Idle, ProcInv, Label, Command,
     Mode, CarriesGraph, CarriesPackage, files, store, bounds
<1>WriteProductCat. CASE WriteProductCat
  BY <1>WriteProductCat DEF WriteProductCat, Start, FilesOK, Process, Idle, ProcInv,
     Label, Command, Mode, CarriesGraph, CarriesPackage, files, store, bounds
<1>WriteActivityCat. CASE WriteActivityCat
  BY <1>WriteActivityCat DEF WriteActivityCat, Start, FilesOK, Process, Idle, ProcInv,
     Label, Command, Mode, CarriesGraph, CarriesPackage, files, store, bounds
<1>WriteReport. CASE WriteReport
  <2>1. proc' = Idle \/ proc' = [Idle EXCEPT !.pc = "score", !.cmd = "set"]
    BY <1>WriteReport DEF WriteReport
  <2>2. ASSUME proc' = [Idle EXCEPT !.pc = "score", !.cmd = "set"]
        PROVE  proc' \in Process
    BY <2>2 DEF Idle, Process, Label, Command, Mode
  <2>3. ASSUME proc' = [Idle EXCEPT !.pc = "score", !.cmd = "set"]
        PROVE  ProcInv'
    BY <2>3 DEF Idle, ProcInv, CarriesGraph, CarriesPackage
  <2> QED
    BY <1>idle, <2>1, <2>2, <2>3
<1>WriteArtifact. CASE WriteArtifact
  BY <1>WriteArtifact DEF WriteArtifact, Start, FilesOK, Process, Idle, ProcInv, Label,
     Command, Mode, CarriesGraph, CarriesPackage, files, store, bounds
<1>ResetPackages. CASE ResetPackages
  BY <1>ResetPackages DEF ResetPackages, Start, FilesOK, Process, Idle, ProcInv, Label,
     Command, Mode, CarriesGraph, CarriesPackage, files, store, bounds
<1>ResetImporter. CASE ResetImporter
  BY <1>ResetImporter DEF ResetImporter, Start, FilesOK, Process, Idle, ProcInv, Label,
     Command, Mode, CarriesGraph, CarriesPackage, files, store, bounds
<1>ResetLinked. CASE ResetLinked
  BY <1>ResetLinked DEF ResetLinked, Start, FilesOK, Process, Idle, ProcInv, Label,
     Command, Mode, CarriesGraph, CarriesPackage, files, store, bounds
<1>ReplaceCsv. CASE ReplaceCsv
  BY <1>ReplaceCsv DEF ReplaceCsv, Start, FilesOK, Process, Idle, ProcInv, Label,
     Command, Mode, CarriesGraph, CarriesPackage, files, store, bounds
<1>stutter. CASE UNCHANGED vars
  BY <1>stutter DEF vars, files, store, bounds, FilesOK, BoundsOK, ProcInv
<1> QED
  BY <1>SetParameter, <1>Reset, <1>LoadCached, <1>LoadParsed, <1>Augment, <1>BuildCfs,
     <1>Apply, <1>Emit, <1>SaveOverride, <1>FastReport, <1>FastLoad, <1>Score, <1>stop,
     <1>kill, <1>LinkAll, <1>Backtest, <1>BuildMethodCfs, <1>BuildCatalog,
     <1>ClearParameters, <1>Snapshot, <1>WriteProductCat, <1>WriteActivityCat,
     <1>WriteReport, <1>WriteArtifact, <1>ResetPackages, <1>ResetImporter,
     <1>ResetLinked, <1>ReplaceCsv, <1>stutter
  DEF Next, Operator, Step, Kill

\* Each action stays within its bound.
LEMMA BoundsStep == TypeInv /\ [Next]_vars => BoundsOK'
<1> SUFFICES ASSUME TypeInv, [Next]_vars PROVE BoundsOK'
  OBVIOUS
<1> USE WhatIfAssumption DEF TypeInv, TypeOK, At, Goto, Stop
<1>LinkAll. CASE LinkAll
  BY <1>LinkAll DEF LinkAll, Start, BoundsOK, bounds
<1>SetParameter. CASE SetParameter
  BY <1>SetParameter DEF SetParameter, Start, BoundsOK, bounds
<1>Backtest. CASE Backtest
  BY <1>Backtest DEF Backtest, Start, BoundsOK, bounds
<1>BuildMethodCfs. CASE BuildMethodCfs
  BY <1>BuildMethodCfs DEF BuildMethodCfs, Start, BoundsOK, bounds
<1>Reset. CASE Reset
  BY <1>Reset DEF Reset, Start, BoundsOK, bounds
<1>group1. CASE BuildCatalog \/ ClearParameters
  BY <1>group1 DEF BuildCatalog, ClearParameters, Start, BoundsOK, bounds
<1>group2. CASE LoadCached \/ LoadParsed \/ LoadFails \/ BuildCfs \/ Snapshot
  BY <1>group2 DEF LoadCached, LoadParsed, LoadFails, BuildCfs, Snapshot, Start, BoundsOK,
     bounds
<1>group3. CASE Apply \/ ApplyFails \/ Emit \/ WriteProductCat \/ WriteActivityCat
  BY <1>group3 DEF Apply, ApplyFails, Emit, WriteProductCat, WriteActivityCat, Start,
     BoundsOK, bounds
<1>group4. CASE WriteReport \/ SaveOverride \/ RefuseOverride \/ FastReport \/ FastLoad
  BY <1>group4 DEF WriteReport, SaveOverride, RefuseOverride, FastReport, FastLoad, Start,
     BoundsOK, bounds
<1>group5. CASE FastLoadFails \/ Score \/ ScoreFails \/ WriteArtifact \/ ResetPackages
  BY <1>group5 DEF FastLoadFails, Score, ScoreFails, WriteArtifact, ResetPackages, Start,
     BoundsOK, bounds
<1>ResetImporter. CASE ResetImporter
  BY <1>ResetImporter DEF ResetImporter, Start, BoundsOK, bounds
<1>ResetLinked. CASE ResetLinked
  BY <1>ResetLinked DEF ResetLinked, Start, BoundsOK, bounds
<1>ResetOverrides. CASE ResetOverrides
  BY <1>ResetOverrides DEF ResetOverrides, Start, BoundsOK, bounds
<1>group6. CASE LoadTorn \/ EmitKilled \/ EvictKilled \/ ReportTorn \/ Crash
  BY <1>group6 DEF LoadTorn, EmitKilled, EvictKilled, ReportTorn, Crash, Start, BoundsOK,
     bounds
<1>group7. CASE ReplaceCsv \/ Augment
  BY <1>group7 DEF ReplaceCsv, Augment, Start, BoundsOK, bounds
<1>stutter. CASE UNCHANGED vars
  BY <1>stutter DEF vars, files, store, bounds, FilesOK, BoundsOK, ProcInv
<1> QED
  BY <1>LinkAll, <1>SetParameter, <1>Backtest, <1>BuildMethodCfs, <1>Reset, <1>group1, <1>group2, <1>group3, <1>group4, <1>group5, <1>ResetImporter,
     <1>ResetLinked, <1>ResetOverrides, <1>group6, <1>group7, <1>stutter
  DEF Next, Operator, Step, Kill

\* TypeInv is inductive.
LEMMA TypeStep == TypeInv /\ [Next]_vars => TypeInv'
BY FilesStep, ProcStep, BoundsStep DEF TypeInv, TypeOK

\* TypeInv holds of every reachable state.
LEMMA TypeInvariant == Spec => []TypeInv
<1>1. Init => TypeInv
  BY WhatIfAssumption DEF Init, TypeInv, TypeOK, FilesOK, BoundsOK, ProcInv, Process,
     Idle, Label, Command, Mode, Store, NoOverrides, At, CarriesGraph, CarriesPackage
<1> QED
  BY <1>1, TypeStep, PTL DEF Spec

\* Every file holds what its readers expect, whatever commands ran and
\* wherever they were killed.
THEOREM TypeCorrect == Spec => []TypeOK
<1>1. TypeInv => TypeOK
  BY DEF TypeInv
<1> QED
  BY <1>1, TypeInvariant, PTL

-----------------------------------------------------------------------------
(* The linked cache *)

\* The graph a command carries to the snapshot was not touched by an override.
LEMMA PristineStep == TypeInv /\ PristineInv /\ [Next]_vars => PristineInv'
<1> SUFFICES ASSUME TypeInv, PristineInv, [Next]_vars PROVE PristineInv'
  OBVIOUS
<1>t. proc \in Process
  BY DEF TypeInv, TypeOK
<1> USE <1>t DEF PristineInv, LinkedIsPristine, At, Goto, Stop, Process, Idle, Start, files, store
<1>LinkAll. CASE LinkAll
  BY <1>LinkAll DEF LinkAll
<1>SetParameter. CASE SetParameter
  BY <1>SetParameter DEF SetParameter
<1>Backtest. CASE Backtest
  BY <1>Backtest DEF Backtest
<1>BuildMethodCfs. CASE BuildMethodCfs
  BY <1>BuildMethodCfs DEF BuildMethodCfs
<1>Reset. CASE Reset
  BY <1>Reset DEF Reset
<1>BuildCatalog. CASE BuildCatalog
  BY <1>BuildCatalog DEF BuildCatalog
<1>ClearParameters. CASE ClearParameters
  BY <1>ClearParameters DEF ClearParameters
<1>LoadCached. CASE LoadCached
  BY <1>LoadCached DEF LoadCached, AfterLoad, Parsed
<1>LoadParsed. CASE LoadParsed
  BY <1>LoadParsed DEF LoadParsed, AfterLoad, Parsed
<1>LoadFails. CASE LoadFails
  BY <1>LoadFails DEF LoadFails
<1>Augment. CASE Augment
  <2>1. proc.sp.applied = << >> /\ proc.sp \in Graph
    BY <1>Augment DEF Augment, TypeInv, ProcInv, CarriesGraph
  <2>2. Linked(proc.sp, catalog).applied = << >>
    BY <2>1 DEF Linked, Graph
  <2> QED
    BY <1>Augment, <2>2 DEF Augment
<1>BuildCfs. CASE BuildCfs
  BY <1>BuildCfs DEF BuildCfs
<1>Snapshot. CASE Snapshot
  BY <1>Snapshot DEF Snapshot
<1>Apply. CASE Apply
  BY <1>Apply DEF Apply
<1>ApplyFails. CASE ApplyFails
  BY <1>ApplyFails DEF ApplyFails
<1>Emit. CASE Emit
  BY <1>Emit DEF Emit
<1>WriteProductCat. CASE WriteProductCat
  BY <1>WriteProductCat DEF WriteProductCat
<1>WriteActivityCat. CASE WriteActivityCat
  BY <1>WriteActivityCat DEF WriteActivityCat
<1>WriteReport. CASE WriteReport
  BY <1>WriteReport DEF WriteReport
<1>SaveOverride. CASE SaveOverride
  BY <1>SaveOverride DEF SaveOverride
<1>RefuseOverride. CASE RefuseOverride
  BY <1>RefuseOverride DEF RefuseOverride
<1>FastReport. CASE FastReport
  BY <1>FastReport DEF FastReport
<1>FastLoad. CASE FastLoad
  BY <1>FastLoad DEF FastLoad
<1>FastLoadFails. CASE FastLoadFails
  BY <1>FastLoadFails DEF FastLoadFails
<1>Score. CASE Score
  BY <1>Score DEF Score
<1>ScoreFails. CASE ScoreFails
  BY <1>ScoreFails DEF ScoreFails
<1>WriteArtifact. CASE WriteArtifact
  BY <1>WriteArtifact DEF WriteArtifact
<1>ResetPackages. CASE ResetPackages
  BY <1>ResetPackages DEF ResetPackages
<1>ResetImporter. CASE ResetImporter
  BY <1>ResetImporter DEF ResetImporter
<1>ResetLinked. CASE ResetLinked
  BY <1>ResetLinked DEF ResetLinked
<1>ResetOverrides. CASE ResetOverrides
  BY <1>ResetOverrides DEF ResetOverrides
<1>LoadTorn. CASE LoadTorn
  BY <1>LoadTorn DEF LoadTorn
<1>EmitKilled. CASE EmitKilled
  BY <1>EmitKilled DEF EmitKilled
<1>EvictKilled. CASE EvictKilled
  BY <1>EvictKilled DEF EvictKilled
<1>ReportTorn. CASE ReportTorn
  BY <1>ReportTorn DEF ReportTorn
<1>Crash. CASE Crash
  BY <1>Crash DEF Crash
<1>ReplaceCsv. CASE ReplaceCsv
  BY <1>ReplaceCsv DEF ReplaceCsv
<1>stutter. CASE UNCHANGED vars
  BY <1>stutter DEF vars
<1> QED
  BY <1>LinkAll, <1>SetParameter, <1>Backtest, <1>BuildMethodCfs, <1>Reset, <1>BuildCatalog, <1>ClearParameters, <1>LoadCached, <1>LoadParsed, <1>LoadFails, <1>Augment, <1>BuildCfs, <1>Snapshot, <1>Apply, <1>ApplyFails, <1>Emit, <1>WriteProductCat, <1>WriteActivityCat, <1>WriteReport, <1>SaveOverride, <1>RefuseOverride, <1>FastReport, <1>FastLoad, <1>FastLoadFails, <1>Score, <1>ScoreFails, <1>WriteArtifact, <1>ResetPackages, <1>ResetImporter, <1>ResetLinked, <1>ResetOverrides, <1>LoadTorn, <1>EmitKilled, <1>EvictKilled, <1>ReportTorn, <1>Crash, <1>ReplaceCsv, <1>stutter DEF Next, Operator, Step, Kill

\* PristineInv holds of every reachable state.
LEMMA PristineInvariant == Spec => []PristineInv
<1>1. Init => PristineInv
  BY WhatIfAssumption DEF Init, PristineInv, LinkedIsPristine, At, Idle, LinkedFile
<1> QED
  BY <1>1, TypeInvariant, PristineStep, PTL DEF Spec

\* Whatever commands ran, in whatever order and wherever they were killed, no
\* override is folded into cache/linked_cache.pkl.
THEOREM LinkedStaysPristine == Spec => []LinkedIsPristine
<1>1. PristineInv => LinkedIsPristine
  BY DEF PristineInv
<1> QED
  BY <1>1, PristineInvariant, PTL

-----------------------------------------------------------------------------
(* The reported package *)

\* Where a touch leaves each directory.
LEMMA ToFrontElements ==
    ASSUME NEW S, NEW s \in Seq(S), NEW i \in 1..Len(s), NEW k \in 1..Len(s)
    PROVE  ToFront(s, i)[k] = IF k = 1 THEN s[i]
                              ELSE IF k <= i THEN s[k - 1] ELSE s[k]
<1> DEFINE head == <<s[i]>>
           before == SubSeq(s, 1, i - 1)
           after == SubSeq(s, i + 1, Len(s))
<1>1. head \in Seq(S) /\ Len(head) = 1 /\ head[1] = s[i]
  OBVIOUS
<1>2. /\ before \in Seq(S) /\ Len(before) = i - 1
      /\ \A j \in 1..(i - 1) : before[j] = s[j]
  OBVIOUS
<1>3. /\ after \in Seq(S) /\ Len(after) = Len(s) - i
      /\ \A j \in 1..(Len(s) - i) : after[j] = s[i + j]
  OBVIOUS
<1>4. ToFront(s, i) = (head \o before) \o after
  BY DEF ToFront
<1>5. Len(s) \in Nat /\ i \in Nat /\ k \in Nat /\ 1 <= k /\ k <= Len(s)
  BY LenProperties
<1> HIDE DEF head, before, after
<1>6. /\ head \o before \in Seq(S) /\ Len(head \o before) = i
      /\ \A j \in 1..i : (head \o before)[j] = IF j <= 1 THEN head[j] ELSE before[j - 1]
  <2>1. Len(head) + Len(before) = i
    BY <1>1, <1>2, <1>5
  <2>2. /\ head \o before \in Seq(S)
        /\ Len(head \o before) = Len(head) + Len(before)
        /\ \A j \in 1..(Len(head) + Len(before)) :
             (head \o before)[j] = IF j <= Len(head) THEN head[j] ELSE before[j - Len(head)]
    BY <1>1, <1>2, ConcatProperties
  <2> QED
    BY <1>1, <2>1, <2>2
<1>7. ((head \o before) \o after)[k] =
        IF k <= i THEN (head \o before)[k] ELSE after[k - i]
  <2>1. i + Len(after) = Len(s)
    BY <1>3, <1>5
  <2> QED
    BY <1>3, <1>5, <1>6, <2>1, ConcatProperties
<1>8. CASE k <= i
  BY <1>1, <1>2, <1>4, <1>5, <1>6, <1>7, <1>8
<1>9. CASE ~(k <= i)
  BY <1>3, <1>4, <1>5, <1>7, <1>9
<1> QED
  BY <1>8, <1>9

\* Where a publication puts each directory, when the new one is the most
\* recent, ...
LEMMA InsertedFirst ==
    ASSUME NEW S, NEW s \in Seq(S), NEW p \in S
    PROVE  /\ InsertedAt(s, 1, p) \in Seq(S)
           /\ Len(InsertedAt(s, 1, p)) = Len(s) + 1
           /\ InsertedAt(s, 1, p)[1] = p
           /\ \A k \in 2..(Len(s) + 1) : InsertedAt(s, 1, p)[k] = s[k - 1]
<1>1. Len(s) \in Nat
  BY LenProperties
<1> DEFINE u == InsertedAt(s, 1, p)
<1>2. u = <<p>> \o s
  BY DEF InsertedAt
<1> HIDE DEF u
<1>3. <<p>> \in Seq(S) /\ Len(<<p>>) = 1
  OBVIOUS
<1>4. /\ u \in Seq(S) /\ Len(u) = Len(s) + 1 /\ u[1] = p
      /\ \A k \in 2..Len(u) : u[k] = s[k - 1]
  BY <1>1, <1>2, <1>3, ConcatProperties
<1> QED
  BY <1>4 DEF u

\* ... and what the eviction keeps of them.
LEMMA KeptFirst ==
    ASSUME NEW S, NEW u \in Seq(S), Len(u) >= 1
    PROVE  /\ Kept(u, 1) \in Seq(S)
           /\ 1 <= Len(Kept(u, 1)) /\ Len(Kept(u, 1)) <= MaxPackages
           /\ Len(Kept(u, 1)) <= Len(u)
           /\ Len(u) >= 2 => 2 <= Len(Kept(u, 1))
           /\ \A k \in 1..Len(Kept(u, 1)) : Kept(u, 1)[k] = u[k]
<1>1. MaxPackages \in Nat /\ 2 <= MaxPackages /\ Len(u) \in Nat
  BY WhatIfAssumption, LenProperties
<1>2. CASE Len(u) <= MaxPackages
  <2>1. Kept(u, 1) = u
    BY <1>2 DEF Kept
  <2> QED
    BY <1>1, <1>2, <2>1
<1>3. CASE ~(Len(u) <= MaxPackages)
  <2>1. Kept(u, 1) = SubSeq(u, 1, MaxPackages)
    BY <1>1, <1>3 DEF Kept
  <2>2. MaxPackages \in 0..Len(u)
    BY <1>1, <1>3
  <2>3. \A k \in 1..MaxPackages : u[k] \in S
    BY <1>1, <2>2, ElementOfSeq
  <2>4. /\ Kept(u, 1) \in Seq(S) /\ Len(Kept(u, 1)) = MaxPackages
        /\ \A k \in 1..MaxPackages : Kept(u, 1)[k] = u[k]
    BY <1>1, <2>1, <2>2, <2>3, SubSeqProperties
  <2> QED
    BY <1>1, <1>3, <2>4
<1> QED
  BY <1>2, <1>3

\* As long as no command was killed, Emit puts the package it built first,
\* and moves the one that was first to the second place at most.
LEMMA EmitRecency ==
    ASSUME TypeInv, RecencyInv, Emit, crashes = 0
    PROVE  /\ RecencyInv'
           /\ Len(packages) <= MaxPackages => Len(packages') <= MaxPackages
           /\ HasReport /\ IsStored(report.pkg) => IsStored(report.pkg)'
<1>1. Built \in Package /\ proc \in Process /\ packages \in Seq(Package)
  BY PackageType DEF TypeInv, TypeOK, FilesOK, Emit
<1>2. /\ leftover = {}
      /\ HasReport /\ IsStored(report.pkg) => 1 \in Places(report.pkg)
  BY DEF RecencyInv, Emit, At
<1>3. proc'.pc = "productCat" /\ proc'.pkg = Built /\ report' = report
  BY <1>1 DEF Emit, Process
<1>4. Len(packages) \in Nat
  BY <1>1, LenProperties
<1> SUFFICES /\ leftover' = {}
             /\ 1 \in 1..Len(packages') /\ packages'[1] = Built
             /\ HasReport /\ IsStored(report.pkg)'
                  => (1..Len(packages') \cap {1, 2}) \cap {k \in {1, 2} : packages'[k] = report.pkg} # {}
             /\ Len(packages) <= MaxPackages => Len(packages') <= MaxPackages
             /\ HasReport /\ IsStored(report.pkg) => IsStored(report.pkg)'
  BY <1>3 DEF RecencyInv, Places, HasReport
<1>5. CASE IsStored(Built)
  <2>1. PICK i \in 1..Len(packages) :
          packages[i] = Built /\ packages' = ToFront(packages, i)
    BY <1>5 DEF Emit, Places
  <2>2. Len(packages') = Len(packages) /\ packages' \in Seq(Package)
    BY <1>1, <2>1, ToFrontType
  <2>3. \A k \in 1..Len(packages) :
          packages'[k] = IF k = 1 THEN packages[i]
                         ELSE IF k <= i THEN packages[k - 1] ELSE packages[k]
    BY <1>1, <2>1, ToFrontElements
  <2>4. ASSUME HasReport, IsStored(report.pkg)'
        PROVE  IsStored(report.pkg)
    BY <1>3, <1>4, <2>1, <2>2, <2>3, <2>4 DEF IsStored, Places
  <2>5. /\ leftover' = {}
        /\ 1 \in 1..Len(packages') /\ packages'[1] = Built
        /\ Len(packages) <= MaxPackages => Len(packages') <= MaxPackages
    <3>1. 1 \in 1..Len(packages)
      BY <1>4, <2>1
    <3> QED
      BY <1>2, <1>5, <2>1, <2>2, <2>3, <3>1 DEF Emit
  <2>7. ASSUME HasReport, IsStored(report.pkg)'
        PROVE  \E k \in 1..Len(packages') \cap {1, 2} : packages'[k] = report.pkg
    <3>1. packages[1] = report.pkg
      BY <1>2, <2>4, <2>7 DEF Places
    <3>2. CASE i = 1
      BY <2>5, <2>1, <3>1, <3>2
    <3>3. CASE i # 1
      <4>1. 2 \in 1..Len(packages) /\ packages'[2] = packages[1]
        BY <1>4, <2>1, <2>3, <3>3
      <4> QED
        BY <2>2, <3>1, <4>1
    <3> QED
      BY <3>2, <3>3
  <2>6. ASSUME HasReport, IsStored(report.pkg)
        PROVE  IsStored(report.pkg)'
    <3>1. packages[1] = report.pkg /\ 1 \in 1..Len(packages)
      BY <1>2, <2>6 DEF Places
    <3>2. CASE i = 1
      BY <1>3, <1>4, <2>2, <2>3, <3>1, <3>2 DEF IsStored, Places
    <3>3. CASE i # 1
      <4>1. 2 \in 1..Len(packages) /\ packages'[2] = packages[1]
        BY <1>4, <2>1, <2>3, <3>3
      <4> QED
        BY <1>3, <2>2, <3>1, <4>1 DEF IsStored, Places
    <3> QED
      BY <3>2, <3>3
  <2> QED
    BY <2>5, <2>6, <2>7
<1>6. CASE ~IsStored(Built)
  <2>1. leftover' = {} /\ packages' = Kept(InsertedAt(packages, 1, Built), 1)
    BY <1>2, <1>6 DEF Emit, Publish, Ranks
  <2>2. /\ packages' \in Seq(Package) /\ Len(packages') <= MaxPackages
        /\ 1 <= Len(packages') /\ packages'[1] = Built
        /\ Len(packages) >= 1 => 2 <= Len(packages')
        /\ \A k \in 2..Len(packages') :
              k - 1 \in 1..Len(packages) /\ packages'[k] = packages[k - 1]
    <3> DEFINE u == InsertedAt(packages, 1, Built)
    <3>1. /\ u \in Seq(Package) /\ Len(u) = Len(packages) + 1 /\ u[1] = Built
          /\ \A k \in 2..(Len(packages) + 1) : u[k] = packages[k - 1]
      BY <1>1, InsertedFirst
    <3>2. packages' = Kept(u, 1)
      BY <2>1
    <3> HIDE DEF u
    <3>3. Len(u) >= 1
      BY <1>4, <3>1
    <3>4. /\ Kept(u, 1) \in Seq(Package)
          /\ 1 <= Len(Kept(u, 1)) /\ Len(Kept(u, 1)) <= MaxPackages
          /\ Len(Kept(u, 1)) <= Len(u)
          /\ Len(u) >= 2 => 2 <= Len(Kept(u, 1))
          /\ \A k \in 1..Len(Kept(u, 1)) : Kept(u, 1)[k] = u[k]
      BY <3>1, <3>3, KeptFirst
    <3>5. Len(Kept(u, 1)) \in Nat
      BY <3>4, LenProperties
    <3> QED
      BY <1>4, <3>1, <3>2, <3>4, <3>5
  <2>3. Len(packages') \in Nat
    BY <2>2, LenProperties
  <2>4. ASSUME HasReport, IsStored(report.pkg)', report.pkg # Built
        PROVE  IsStored(report.pkg)
    BY <1>3, <1>4, <2>2, <2>3, <2>4 DEF IsStored, Places
  <2>5. /\ leftover' = {}
        /\ 1 \in 1..Len(packages') /\ packages'[1] = Built
        /\ HasReport /\ IsStored(report.pkg)'
             => (1..Len(packages') \cap {1, 2}) \cap {k \in {1, 2} : packages'[k] = report.pkg} # {}
        /\ Len(packages) <= MaxPackages => Len(packages') <= MaxPackages
    BY <1>2, <1>4, <2>1, <2>2, <2>3, <2>4 DEF Places
  <2>6. ASSUME HasReport, IsStored(report.pkg)
        PROVE  IsStored(report.pkg)'
    <3>1. packages[1] = report.pkg /\ Len(packages) >= 1
      BY <1>2, <1>4, <2>6 DEF Places
    <3>2. 2 \in 1..Len(packages') /\ packages'[2] = report.pkg
      BY <1>4, <2>2, <2>3, <3>1
    <3> QED
      BY <1>3, <3>2 DEF IsStored, Places
  <2> QED
    BY <2>5, <2>6
<1> QED
  BY <1>5, <1>6

\* Every other action leaves the two first places alone.
LEMMA RecencyStep == TypeInv /\ RecencyInv /\ [Next]_vars => RecencyInv'
<1> SUFFICES ASSUME TypeInv, RecencyInv, [Next]_vars, crashes' = 0 PROVE RecencyInv'
  BY DEF RecencyInv
<1>t. proc \in Process /\ crashes \in Nat
  BY WhatIfAssumption DEF TypeInv, TypeOK, BoundsOK
<1>Emit. CASE Emit
  BY <1>Emit, EmitRecency DEF Emit, bounds
<1> USE <1>t DEF RecencyInv, HasReport, IsStored, Places, At, Goto, Stop, Process, Idle,
        Start, files, store, bounds
<1>LinkAll. CASE LinkAll
  BY <1>LinkAll DEF LinkAll
<1>SetParameter. CASE SetParameter
  BY <1>SetParameter DEF SetParameter
<1>Backtest. CASE Backtest
  BY <1>Backtest DEF Backtest
<1>BuildMethodCfs. CASE BuildMethodCfs
  BY <1>BuildMethodCfs DEF BuildMethodCfs
<1>Reset. CASE Reset
  BY <1>Reset DEF Reset
<1>BuildCatalog. CASE BuildCatalog
  BY <1>BuildCatalog DEF BuildCatalog
<1>ClearParameters. CASE ClearParameters
  BY <1>ClearParameters DEF ClearParameters
<1>LoadCached. CASE LoadCached
  BY <1>LoadCached DEF LoadCached, AfterLoad
<1>LoadParsed. CASE LoadParsed
  BY <1>LoadParsed DEF LoadParsed, AfterLoad
<1>LoadFails. CASE LoadFails
  BY <1>LoadFails DEF LoadFails
<1>Augment. CASE Augment
  BY <1>Augment DEF Augment
<1>BuildCfs. CASE BuildCfs
  BY <1>BuildCfs DEF BuildCfs
<1>Snapshot. CASE Snapshot
  BY <1>Snapshot DEF Snapshot
<1>Apply. CASE Apply
  BY <1>Apply DEF Apply
<1>ApplyFails. CASE ApplyFails
  BY <1>ApplyFails DEF ApplyFails
<1>WriteProductCat. CASE WriteProductCat
  BY <1>WriteProductCat DEF WriteProductCat
<1>WriteActivityCat. CASE WriteActivityCat
  BY <1>WriteActivityCat DEF WriteActivityCat
<1>WriteReport. CASE WriteReport
  BY <1>WriteReport DEF WriteReport
<1>SaveOverride. CASE SaveOverride
  BY <1>SaveOverride DEF SaveOverride
<1>RefuseOverride. CASE RefuseOverride
  BY <1>RefuseOverride DEF RefuseOverride
<1>FastReport. CASE FastReport
  BY <1>FastReport DEF FastReport
<1>FastLoad. CASE FastLoad
  BY <1>FastLoad DEF FastLoad
<1>FastLoadFails. CASE FastLoadFails
  BY <1>FastLoadFails DEF FastLoadFails
<1>Score. CASE Score
  BY <1>Score DEF Score
<1>ScoreFails. CASE ScoreFails
  BY <1>ScoreFails DEF ScoreFails
<1>WriteArtifact. CASE WriteArtifact
  BY <1>WriteArtifact DEF WriteArtifact
<1>ResetPackages. CASE ResetPackages
  BY <1>ResetPackages DEF ResetPackages
<1>ResetImporter. CASE ResetImporter
  BY <1>ResetImporter DEF ResetImporter
<1>ResetLinked. CASE ResetLinked
  BY <1>ResetLinked DEF ResetLinked
<1>ResetOverrides. CASE ResetOverrides
  BY <1>ResetOverrides DEF ResetOverrides
<1>LoadTorn. CASE LoadTorn
  BY <1>LoadTorn DEF LoadTorn
<1>EmitKilled. CASE EmitKilled
  BY <1>EmitKilled DEF EmitKilled
<1>EvictKilled. CASE EvictKilled
  BY <1>EvictKilled DEF EvictKilled
<1>ReportTorn. CASE ReportTorn
  BY <1>ReportTorn DEF ReportTorn
<1>Crash. CASE Crash
  BY <1>Crash DEF Crash
<1>ReplaceCsv. CASE ReplaceCsv
  BY <1>ReplaceCsv DEF ReplaceCsv
<1>stutter. CASE UNCHANGED vars
  BY <1>stutter DEF vars
<1> QED
  BY <1>Emit, <1>LinkAll, <1>SetParameter, <1>Backtest, <1>BuildMethodCfs, <1>Reset, <1>BuildCatalog, <1>ClearParameters, <1>LoadCached, <1>LoadParsed, <1>LoadFails, <1>Augment, <1>BuildCfs, <1>Snapshot, <1>Apply, <1>ApplyFails, <1>WriteProductCat, <1>WriteActivityCat, <1>WriteReport, <1>SaveOverride, <1>RefuseOverride, <1>FastReport, <1>FastLoad, <1>FastLoadFails, <1>Score, <1>ScoreFails, <1>WriteArtifact, <1>ResetPackages, <1>ResetImporter, <1>ResetLinked, <1>ResetOverrides, <1>LoadTorn, <1>EmitKilled, <1>EvictKilled, <1>ReportTorn, <1>Crash, <1>ReplaceCsv, <1>stutter DEF Next, Operator, Step, Kill

\* Only Emit, EvictKilled and ResetPackages change the store's directories, only a report
\* step the report, and no step takes back a crash.
LEMMA StoreFrame ==
    ASSUME TypeInv, [Next]_vars
    PROVE  /\ Emit \/ EvictKilled \/ ResetPackages \/ packages' = packages
           /\ WriteReport \/ ReportTorn \/ report' = report
           /\ crashes' \in Nat /\ crashes <= crashes'
<1>1. crashes \in Nat
  BY WhatIfAssumption DEF TypeInv, TypeOK, BoundsOK
<1>2. CASE Operator
  <2>1. CASE BuildCatalog \/ ClearParameters
    BY <1>1, <2>1 DEF BuildCatalog, ClearParameters, store
  <2>2. CASE LinkAll \/ Backtest \/ BuildMethodCfs \/ SetParameter \/ Reset
    <3>1. UNCHANGED <<files, crashes, edits>>
      BY <2>2 DEF LinkAll, Backtest, BuildMethodCfs, SetParameter, Reset, Start
    <3> QED
      BY <1>1, <3>1 DEF files, store
  <2> QED
    BY <1>2, <2>1, <2>2 DEF Operator
<1>3. CASE Step
  BY <1>1, <1>3 DEF Step, LoadCached, LoadParsed, LoadFails, Augment, BuildCfs, Snapshot,
     Apply, ApplyFails, Emit, WriteProductCat, WriteActivityCat, WriteReport, SaveOverride,
     RefuseOverride, FastReport, FastLoad, FastLoadFails, Score, ScoreFails, WriteArtifact,
     ResetPackages, ResetImporter, ResetLinked, ResetOverrides, files, store, bounds
<1>4. CASE Kill
  BY <1>1, <1>4 DEF Kill, LoadTorn, EmitKilled, EvictKilled, ReportTorn, Crash, files, store
<1>5. CASE ReplaceCsv
  BY <1>1, <1>5 DEF ReplaceCsv, store
<1>6. CASE UNCHANGED vars
  BY <1>1, <1>6 DEF vars, files, store, bounds
<1> QED
  BY <1>2, <1>3, <1>4, <1>5, <1>6 DEF Next

\* An eviction leaves at most one directory too many, or as many as there were.
LEMMA EmitBounds ==
    ASSUME TypeInv, Emit
    PROVE  Len(packages') <= MaxPackages + 1 \/ Len(packages') = Len(packages)
<1>1. Built \in Package /\ packages \in Seq(Package) /\ Len(packages) \in Nat
  BY PackageType, LenProperties DEF TypeInv, TypeOK, FilesOK, Emit
<1>2. CASE IsStored(Built)
  <2>1. PICK i \in 1..Len(packages) : packages' = ToFront(packages, i)
    BY <1>2 DEF Emit, Places
  <2> QED
    BY <1>1, <2>1, ToFrontType
<1>3. CASE ~IsStored(Built)
  <2>1. PICK i \in 1..(Len(packages) + 1) :
          packages' = Kept(InsertedAt(packages, i, Built), i)
    BY <1>1, <1>3 DEF Emit, Publish, Ranks
  <2>2. /\ InsertedAt(packages, i, Built) \in Seq(Package)
        /\ i \in 1..Len(InsertedAt(packages, i, Built))
    BY <1>1, InsertedAtType
  <2> QED
    BY <2>1, <2>2, KeptType
<1> QED
  BY <1>2, <1>3

\* The bound is kept: a publication evicts, and a kill pays for what it leaves.
LEMMA BoundedStep ==
    TypeInv /\ RecencyInv /\ StoreIsBounded /\ [Next]_vars => StoreIsBounded'
<1> SUFFICES ASSUME TypeInv, RecencyInv, StoreIsBounded, [Next]_vars
             PROVE  StoreIsBounded'
  OBVIOUS
<1>0. /\ MaxPackages \in Nat /\ crashes \in Nat /\ crashes' \in Nat /\ crashes <= crashes'
      /\ Len(packages) \in Nat
  BY WhatIfAssumption, StoreFrame, LenProperties DEF TypeInv, TypeOK, BoundsOK, FilesOK
<1>1. CASE Emit
  <2>1. CASE crashes = 0
    BY <1>0, <1>1, <2>1, EmitRecency DEF StoreIsBounded, Emit, bounds
  <2>2. CASE crashes # 0
    BY <1>0, <1>1, <2>2, EmitBounds DEF StoreIsBounded, Emit, bounds
  <2> QED
    BY <2>1, <2>2
<1>4. CASE EvictKilled
  BY <1>0, <1>4, EvictKilledAdds DEF StoreIsBounded, EvictKilled
<1>2. CASE ResetPackages
  BY <1>0, <1>2 DEF ResetPackages, StoreIsBounded, bounds
<1>3. CASE packages' = packages /\ crashes <= crashes'
  BY <1>0, <1>3 DEF StoreIsBounded, TypeInv, TypeOK, FilesOK
<1> QED
  BY <1>1, <1>2, <1>3, <1>4, StoreFrame

\* The report that is kept or written names a directory that stays.
LEMMA LiveStep ==
    ASSUME TypeInv, RecencyInv, [Next]_vars,
           HasReport, IsStored(report.pkg), crashes' = 0, ~At("resetPackages"), HasReport'
    PROVE  IsStored(report.pkg)'
<1>0. crashes = 0
  BY StoreFrame, WhatIfAssumption DEF TypeInv, TypeOK, BoundsOK
<1>1. CASE Emit
  BY <1>0, <1>1, EmitRecency
<1>2. CASE WriteReport
  <2>1. proc.pkg \in Package /\ 1 \in Places(proc.pkg)
    BY <1>0, <1>2 DEF RecencyInv, TypeInv, ProcInv, CarriesPackage, WriteReport, At
  <2>2. report'.pkg = proc.pkg /\ packages' = packages
    BY <1>2 DEF WriteReport, store
  <2> QED
    BY <2>1, <2>2 DEF IsStored, Places
<1>3. CASE packages' = packages /\ report' = report
  BY <1>3 DEF IsStored, Places
<1>4. ~ResetPackages /\ ~ReportTorn /\ ~EvictKilled
  BY <1>0, WhatIfAssumption DEF ResetPackages, EvictKilled, ReportTorn, HasReport
<1>5. Emit => report' = report
  BY DEF Emit
<1>6. WriteReport => packages' = packages
  BY DEF WriteReport, store
<1> QED
  BY <1>1, <1>2, <1>3, <1>4, <1>5, <1>6, StoreFrame

\* RecencyInv holds of every reachable state.
LEMMA RecencyInvariant == Spec => []RecencyInv
<1>1. Init => RecencyInv
  BY DEF Init, RecencyInv, HasReport, Idle
<1> QED
  BY <1>1, TypeInvariant, RecencyStep, PTL DEF Spec

\* Eviction bounds the store (ScoringPackageStore._evict_lru): at most
\* MaxPackages directories, and at most one more after a killed write.
THEOREM StoreStaysBounded == Spec => []StoreIsBounded
<1>1. Init => StoreIsBounded
  BY WhatIfAssumption DEF Init, StoreIsBounded
<1> QED
  BY <1>1, TypeInvariant, RecencyInvariant, BoundedStep, PTL DEF Spec

\* Without crashes, no sequence of commands evicts the package that the run
\* report names, so dds-backtest can locate it until dds-reset.
THEOREM ReportedPackageIsLive == Spec => ReportStaysLive
<1>1. TypeInv /\ RecencyInv /\ [Next]_vars =>
        [ /\ HasReport /\ IsStored(report.pkg)
          /\ crashes' = 0
          /\ ~At("resetPackages")
          => (HasReport' => IsStored(report.pkg)') ]_vars
  BY LiveStep
<1> QED
  BY <1>1, TypeInvariant, RecencyInvariant, PTL DEF Spec, ReportStaysLive

-----------------------------------------------------------------------------
(* The labels of the reported columns *)

\* The activity catalog is that of the report, but for the moment between the
\* two writes, when it is that of the package the command carries.
CatalogInv ==
    crashes = 0 =>
      IF At("report") THEN activityCat = proc.pkg.frame
                      ELSE HasReport => activityCat = report.pkg.frame

\* A command writes the activity catalog and then the report, from one package.
LEMMA CatalogStep == TypeInv /\ CatalogInv /\ [Next]_vars => CatalogInv'
<1> SUFFICES ASSUME TypeInv, CatalogInv, [Next]_vars PROVE CatalogInv'
  OBVIOUS
<1>t. proc \in Process /\ crashes \in Nat
  BY WhatIfAssumption DEF TypeInv, TypeOK, BoundsOK
<1> USE <1>t DEF CatalogInv, HasReport, At, Goto, Stop, Process, Idle, Start, files, store,
        bounds
<1>LinkAll. CASE LinkAll
  BY <1>LinkAll DEF LinkAll
<1>SetParameter. CASE SetParameter
  BY <1>SetParameter DEF SetParameter
<1>Backtest. CASE Backtest
  BY <1>Backtest DEF Backtest
<1>BuildMethodCfs. CASE BuildMethodCfs
  BY <1>BuildMethodCfs DEF BuildMethodCfs
<1>Reset. CASE Reset
  BY <1>Reset DEF Reset
<1>BuildCatalog. CASE BuildCatalog
  BY <1>BuildCatalog DEF BuildCatalog
<1>ClearParameters. CASE ClearParameters
  BY <1>ClearParameters DEF ClearParameters
<1>LoadCached. CASE LoadCached
  BY <1>LoadCached DEF LoadCached, AfterLoad
<1>LoadParsed. CASE LoadParsed
  BY <1>LoadParsed DEF LoadParsed, AfterLoad
<1>LoadFails. CASE LoadFails
  BY <1>LoadFails DEF LoadFails
<1>Augment. CASE Augment
  BY <1>Augment DEF Augment
<1>BuildCfs. CASE BuildCfs
  BY <1>BuildCfs DEF BuildCfs
<1>Snapshot. CASE Snapshot
  BY <1>Snapshot DEF Snapshot
<1>Apply. CASE Apply
  BY <1>Apply DEF Apply
<1>ApplyFails. CASE ApplyFails
  BY <1>ApplyFails DEF ApplyFails
<1>Emit. CASE Emit
  BY <1>Emit DEF Emit
<1>WriteProductCat. CASE WriteProductCat
  BY <1>WriteProductCat DEF WriteProductCat
<1>WriteActivityCat. CASE WriteActivityCat
  BY <1>WriteActivityCat DEF WriteActivityCat
<1>WriteReport. CASE WriteReport
  BY <1>WriteReport DEF WriteReport
<1>SaveOverride. CASE SaveOverride
  BY <1>SaveOverride DEF SaveOverride
<1>RefuseOverride. CASE RefuseOverride
  BY <1>RefuseOverride DEF RefuseOverride
<1>FastReport. CASE FastReport
  BY <1>FastReport DEF FastReport
<1>FastLoad. CASE FastLoad
  BY <1>FastLoad DEF FastLoad
<1>FastLoadFails. CASE FastLoadFails
  BY <1>FastLoadFails DEF FastLoadFails
<1>Score. CASE Score
  BY <1>Score DEF Score
<1>ScoreFails. CASE ScoreFails
  BY <1>ScoreFails DEF ScoreFails
<1>WriteArtifact. CASE WriteArtifact
  BY <1>WriteArtifact DEF WriteArtifact
<1>ResetPackages. CASE ResetPackages
  BY <1>ResetPackages DEF ResetPackages
<1>ResetImporter. CASE ResetImporter
  BY <1>ResetImporter DEF ResetImporter
<1>ResetLinked. CASE ResetLinked
  BY <1>ResetLinked DEF ResetLinked
<1>ResetOverrides. CASE ResetOverrides
  BY <1>ResetOverrides DEF ResetOverrides
<1>LoadTorn. CASE LoadTorn
  BY <1>LoadTorn DEF LoadTorn
<1>EmitKilled. CASE EmitKilled
  BY <1>EmitKilled DEF EmitKilled
<1>EvictKilled. CASE EvictKilled
  BY <1>EvictKilled DEF EvictKilled
<1>ReportTorn. CASE ReportTorn
  BY <1>ReportTorn DEF ReportTorn
<1>Crash. CASE Crash
  BY <1>Crash DEF Crash
<1>ReplaceCsv. CASE ReplaceCsv
  BY <1>ReplaceCsv DEF ReplaceCsv
<1>stutter. CASE UNCHANGED vars
  BY <1>stutter DEF vars
<1> QED
  BY <1>LinkAll, <1>SetParameter, <1>Backtest, <1>BuildMethodCfs, <1>Reset,
     <1>BuildCatalog, <1>ClearParameters, <1>LoadCached, <1>LoadParsed,
     <1>LoadFails, <1>Augment, <1>BuildCfs, <1>Snapshot, <1>Apply, <1>ApplyFails,
     <1>Emit, <1>WriteProductCat, <1>WriteActivityCat, <1>WriteReport,
     <1>SaveOverride, <1>RefuseOverride, <1>FastReport, <1>FastLoad,
     <1>FastLoadFails, <1>Score, <1>ScoreFails, <1>WriteArtifact, <1>ResetPackages,
     <1>ResetImporter, <1>ResetLinked, <1>ResetOverrides, <1>LoadTorn,
     <1>EmitKilled, <1>EvictKilled, <1>ReportTorn, <1>Crash, <1>ReplaceCsv,
     <1>stutter DEF Next, Operator, Step, Kill

\* The dashboard labels the columns of the package that the report names with
\* the activity catalog of that package, as long as no command was killed.
THEOREM LabelsMatchColumns == Spec => []CatalogMatchesPackage
<1>1. Init => CatalogInv
  BY DEF Init, CatalogInv, HasReport, Idle, At
<1>2. CatalogInv => CatalogMatchesPackage
  BY DEF CatalogInv, CatalogMatchesPackage, At
<1> QED
  BY <1>1, <1>2, TypeInvariant, CatalogStep, PTL DEF Spec

-----------------------------------------------------------------------------
(* What a rescore leaves *)

\* The override store as it now stands is folded into g, once.
FoldedOnce(g) == g = Fold([g EXCEPT !.applied = << >>], overrides)

\* From the apply stage to the last dashboard file, the graph, the package and
\* the report of the command agree with the override store.
SettleInv ==
    /\ At("apply") => proc.sp.applied = << >>
    /\ At("emit") => FoldedOnce(proc.sp)
    /\ proc.pc \in {"productCat", "activityCat", "report"} => FoldedOnce(proc.pkg.frame)
    /\ proc.cmd = "set" /\ At("score") => FoldedOnce(report.pkg.frame)
    /\ proc.cmd = "set" /\ At("artifacts") =>
         /\ FoldedOnce(report.pkg.frame)
         /\ proc.pkg = report.pkg
         /\ \A a \in Artifact \ proc.todo : dash[a] = report.pkg

\* Folding the store into a graph no override has touched folds it in once.
LEMMA FoldsOnce ==
    TypeInv => \A g \in Graph : /\ g.applied = << >> => FoldedOnce(Fold(g, overrides))
                                /\ Fold(g, overrides).csv = g.csv
                                /\ Fold(g, overrides).links = g.links
<1> SUFFICES ASSUME TypeInv, NEW g \in Graph
             PROVE  /\ g.applied = << >> => FoldedOnce(Fold(g, overrides))
                    /\ Fold(g, overrides).csv = g.csv
                    /\ Fold(g, overrides).links = g.links
  OBVIOUS
<1>1. CASE overrides = NoOverrides
  BY <1>1 DEF Fold, FoldedOnce, Graph
<1>2. CASE overrides # NoOverrides
  <2>1. Fold(g, overrides) = [g EXCEPT !.applied = Append(@, overrides)]
    BY <1>2 DEF Fold
  <2>2. [Fold(g, overrides) EXCEPT !.applied = << >>] = [g EXCEPT !.applied = << >>]
    BY <2>1 DEF Graph
  <2>3. g.applied = << >> => [g EXCEPT !.applied = << >>] = g
    BY DEF Graph
  <2> QED
    BY <2>1, <2>2, <2>3 DEF FoldedOnce, Graph
<1> QED
  BY <1>1, <1>2

\* Between the apply stage and the end of the backtest the override store is
\* left alone, and so are the report and the package.
LEMMA SettleStep == TypeInv /\ PristineInv /\ SettleInv /\ [Next]_vars => SettleInv'
<1> SUFFICES ASSUME TypeInv, PristineInv, SettleInv, [Next]_vars PROVE SettleInv'
  OBVIOUS
<1>t. proc \in Process /\ dash \in [Artifact -> Package \cup {NoFile}]
  BY DEF TypeInv, TypeOK, FilesOK
<1>Apply. CASE Apply
  <2>1. proc.sp \in Graph /\ proc.sp.applied = << >>
    BY <1>Apply DEF Apply, TypeInv, ProcInv, CarriesGraph, SettleInv, At
  <2>2. FoldedOnce(Fold(proc.sp, overrides))
    BY <2>1, FoldsOnce
  <2>3. proc'.pc = "emit" /\ proc'.sp = Fold(proc.sp, overrides) /\ overrides' = overrides
    BY <1>t, <1>Apply DEF Apply, Process, files
  <2> QED
    BY <2>2, <2>3 DEF SettleInv, FoldedOnce, At
<1> USE <1>t DEF SettleInv, FoldedOnce, At, Goto, Stop, Process, Idle, Start, files, store
<1>LinkAll. CASE LinkAll
  BY <1>LinkAll DEF LinkAll
<1>SetParameter. CASE SetParameter
  BY <1>SetParameter DEF SetParameter
<1>Backtest. CASE Backtest
  BY <1>Backtest DEF Backtest
<1>BuildMethodCfs. CASE BuildMethodCfs
  BY <1>BuildMethodCfs DEF BuildMethodCfs
<1>Reset. CASE Reset
  BY <1>Reset DEF Reset
<1>BuildCatalog. CASE BuildCatalog
  BY <1>BuildCatalog DEF BuildCatalog
<1>ClearParameters. CASE ClearParameters
  BY <1>ClearParameters DEF ClearParameters
<1>LoadCached. CASE LoadCached
  BY <1>LoadCached DEF LoadCached, AfterLoad
<1>LoadParsed. CASE LoadParsed
  BY <1>LoadParsed DEF LoadParsed, AfterLoad
<1>LoadFails. CASE LoadFails
  BY <1>LoadFails DEF LoadFails
<1>Augment. CASE Augment
  BY <1>Augment DEF Augment
<1>BuildCfs. CASE BuildCfs
  BY <1>BuildCfs DEF BuildCfs
<1>Snapshot. CASE Snapshot
  BY <1>Snapshot DEF Snapshot, PristineInv
<1>ApplyFails. CASE ApplyFails
  BY <1>ApplyFails DEF ApplyFails
<1>Emit. CASE Emit
  BY <1>Emit DEF Emit, Built
<1>WriteProductCat. CASE WriteProductCat
  BY <1>WriteProductCat DEF WriteProductCat
<1>WriteActivityCat. CASE WriteActivityCat
  BY <1>WriteActivityCat DEF WriteActivityCat
<1>WriteReport. CASE WriteReport
  BY <1>WriteReport DEF WriteReport
<1>SaveOverride. CASE SaveOverride
  BY <1>SaveOverride DEF SaveOverride
<1>RefuseOverride. CASE RefuseOverride
  BY <1>RefuseOverride DEF RefuseOverride
<1>FastReport. CASE FastReport
  BY <1>FastReport DEF FastReport
<1>FastLoad. CASE FastLoad
  BY <1>FastLoad DEF FastLoad, Loadable, PristineInv, LinkedIsPristine
<1>FastLoadFails. CASE FastLoadFails
  BY <1>FastLoadFails DEF FastLoadFails
<1>Score. CASE Score
  BY <1>Score DEF Score
<1>ScoreFails. CASE ScoreFails
  BY <1>ScoreFails DEF ScoreFails
<1>WriteArtifact. CASE WriteArtifact
  BY <1>WriteArtifact DEF WriteArtifact
<1>ResetPackages. CASE ResetPackages
  BY <1>ResetPackages DEF ResetPackages
<1>ResetImporter. CASE ResetImporter
  BY <1>ResetImporter DEF ResetImporter
<1>ResetLinked. CASE ResetLinked
  BY <1>ResetLinked DEF ResetLinked
<1>ResetOverrides. CASE ResetOverrides
  BY <1>ResetOverrides DEF ResetOverrides
<1>LoadTorn. CASE LoadTorn
  BY <1>LoadTorn DEF LoadTorn
<1>EmitKilled. CASE EmitKilled
  BY <1>EmitKilled DEF EmitKilled
<1>EvictKilled. CASE EvictKilled
  BY <1>EvictKilled DEF EvictKilled
<1>ReportTorn. CASE ReportTorn
  BY <1>ReportTorn DEF ReportTorn
<1>Crash. CASE Crash
  BY <1>Crash DEF Crash
<1>ReplaceCsv. CASE ReplaceCsv
  BY <1>ReplaceCsv DEF ReplaceCsv
<1>stutter. CASE UNCHANGED vars
  BY <1>stutter DEF vars
<1> QED
  BY <1>LinkAll, <1>SetParameter, <1>Backtest, <1>BuildMethodCfs, <1>Reset,
     <1>BuildCatalog, <1>ClearParameters, <1>LoadCached, <1>LoadParsed,
     <1>LoadFails, <1>Augment, <1>BuildCfs, <1>Snapshot, <1>Apply, <1>ApplyFails,
     <1>Emit, <1>WriteProductCat, <1>WriteActivityCat, <1>WriteReport,
     <1>SaveOverride, <1>RefuseOverride, <1>FastReport, <1>FastLoad,
     <1>FastLoadFails, <1>Score, <1>ScoreFails, <1>WriteArtifact, <1>ResetPackages,
     <1>ResetImporter, <1>ResetLinked, <1>ResetOverrides, <1>LoadTorn,
     <1>EmitKilled, <1>EvictKilled, <1>ReportTorn, <1>Crash, <1>ReplaceCsv,
     <1>stutter DEF Next, Operator, Step, Kill

\* Once dds-set-parameter has rescored, on either path, every dashboard file
\* comes from the reported package, and that package has the override store as
\* it stands folded in, once.
THEOREM RescoreAlwaysSettles == Spec => RescoreSettles
<1>1. Init => SettleInv
  BY DEF Init, SettleInv, Idle, At
<1>2. ASSUME TypeInv, SettleInv, [Next]_vars,
             At("artifacts"), proc.cmd = "set", At("idle")', crashes' = crashes
      PROVE  /\ \A a \in Artifact : dash'[a] = report.pkg
             /\ report.pkg.frame =
                  Fold([report.pkg.frame EXCEPT !.applied = << >>], overrides)
  <2>t. proc \in Process /\ dash \in [Artifact -> Package \cup {NoFile}] /\ crashes \in Nat
    BY <1>2, WhatIfAssumption DEF TypeInv, TypeOK, FilesOK, BoundsOK
  <2>1. WriteArtifact
    BY <1>2, <2>t DEF Next, Operator, Step, Kill, LinkAll, SetParameter, Backtest,
       BuildMethodCfs, Reset, BuildCatalog, ClearParameters, Start, LoadCached, LoadParsed,
       LoadFails, Augment, BuildCfs, Snapshot, Apply, ApplyFails, Emit, WriteProductCat,
       WriteActivityCat, WriteReport, SaveOverride, RefuseOverride, FastReport, FastLoad,
       FastLoadFails, Score, ScoreFails, ResetPackages, ResetImporter, ResetLinked,
       ResetOverrides, LoadTorn, EmitKilled, EvictKilled, ReportTorn, Crash, ReplaceCsv,
       vars, At
  <2>2. PICK a \in proc.todo :
          /\ dash' = [dash EXCEPT ![a] = proc.pkg]
          /\ proc' = IF proc.todo = {a} THEN Idle ELSE [proc EXCEPT !.todo = @ \ {a}]
    BY <2>1 DEF WriteArtifact
  <2>3. proc.todo = {a}
    BY <1>2, <2>2, <2>t DEF Process, At
  <2> QED
    BY <1>2, <2>2, <2>3, <2>t DEF SettleInv, FoldedOnce, At
<1>3. TypeInv /\ SettleInv /\ [Next]_vars =>
        [ At("artifacts") /\ proc.cmd = "set" /\ At("idle")' /\ crashes' = crashes
          => /\ \A a \in Artifact : dash'[a] = report.pkg
             /\ report.pkg.frame =
                  Fold([report.pkg.frame EXCEPT !.applied = << >>], overrides) ]_vars
  BY <1>2
<1>4. Spec => []PristineInv
  BY PristineInvariant
<1> QED
  BY <1>1, <1>3, <1>4, TypeInvariant, SettleStep, PTL DEF Spec, RescoreSettles

-----------------------------------------------------------------------------
(* What a full link builds *)

\* What links left, another link extends to what links left.
LEMMA LeftByLinksGrows ==
    /\ LeftByLinks({})
    /\ \A s, c : c \in Csv /\ LeftByLinks(s) => LeftByLinks(Extended(Parsed(c), s))
<1> SUFFICES ASSUME NEW s, NEW c \in Csv, LeftByLinks(s),
                    NEW family \in SUBSET (SUBSET Code),
                    {} \in family,
                    \A t \in family, d \in Csv : Extended(Parsed(d), t) \in family
             PROVE  Extended(Parsed(c), s) \in family
  BY DEF LeftByLinks
<1>1. s \in family
  BY DEF LeftByLinks
<1> QED
  BY <1>1

\* Graph g was linked over rows that links had left, and the catalog is what
\* that link made of them.
LinkedOver(g, cat) ==
    \E rows \in SUBSET Code : /\ LeftByLinks(rows)
                              /\ g.links = Link[g.csv][rows]
                              /\ cat = rows \cup Synthetic[g.links]

\* What linking a graph gives, read off its CSV and the rows.
LEMMA LinkedFields ==
    ASSUME NEW g \in Graph, NEW rows
    PROVE  /\ Linked(g, rows).csv = g.csv
           /\ Linked(g, rows).links = Link[g.csv][rows]
           /\ Extended(g, rows) = Extended(Parsed(g.csv), rows)
           /\ Extended(g, rows) = rows \cup Synthetic[Link[g.csv][rows]]
           /\ g.links = Link[g.csv][rows] => Linked(g, rows) = g
BY DEF Linked, Extended, Parsed, Graph

\* The package a link builds once every method's CFs are built from the
\* catalog is the one that FullLinkIsDeterministic promises.
LEMMA LinkedIsRebuilt ==
    ASSUME NEW g \in Graph, NEW cat, LinkedOver(g, cat)
    PROVE  \E rows \in SUBSET Code :
             /\ [frame |-> g, cfs |-> [m \in Method |-> cat], catalog |-> cat] = Rebuilt(g, rows)
             /\ LeftByLinks(rows)
<1>1. PICK rows \in SUBSET Code : /\ LeftByLinks(rows)
                                  /\ g.links = Link[g.csv][rows]
                                  /\ cat = rows \cup Synthetic[g.links]
  BY DEF LinkedOver
<1>2. Linked(g, rows) = g /\ Extended(g, rows) = cat
  BY <1>1, LinkedFields
<1> QED
  BY <1>1, <1>2 DEF Rebuilt

\* A package is one that a full link may report.
IsRebuilt(p) ==
    \E rows \in SUBSET Code : p = Rebuilt(p.frame, rows) /\ LeftByLinks(rows)

\* Every method's CFs were built from the catalog as it is.
RegistryIsFresh == \A m \in Method : cfs[m] = catalog

\* Links alone leave synthetic rows in the catalog; from the match on, a full
\* link carries a graph that was linked over such rows, and builds the CFs of
\* every method from what it made of them before it builds a package.
SourceInv ==
    /\ LeftByLinks(catalog)
    /\ proc.pc \in {"fastReport", "fastLoad"} => proc.mode = "replay"
    /\ At("cfs") /\ proc.cmd # "cfs" =>
         /\ LinkedOver(proc.sp, catalog)
         /\ \A m \in Method \ proc.todo : cfs[m] = catalog
    /\ At("snapshot") => LinkedOver(proc.sp, catalog) /\ RegistryIsFresh
    /\ proc.pc \in {"apply", "emit"} /\ proc.mode # "replay" =>
         LinkedOver(proc.sp, catalog) /\ RegistryIsFresh
    /\ proc.pc \in {"productCat", "activityCat", "report"} /\ proc.mode # "replay" =>
         IsRebuilt(proc.pkg)
    /\ HasReport /\ ~report.fast => IsRebuilt(report.pkg)

\* A command that ends, or is killed, carries nothing on.
LEMMA SourceStep == TypeInv /\ SourceInv /\ [Next]_vars => SourceInv'
<1> SUFFICES ASSUME TypeInv, SourceInv, [Next]_vars PROVE SourceInv'
  OBVIOUS
<1>t. /\ proc \in Process /\ catalog \in SUBSET Code
      /\ cfs \in [Method -> SUBSET Code] /\ report \in ReportFile \cup {NoFile, Torn}
      /\ proc.pc \in CarriesGraph => proc.sp \in Graph
  BY DEF TypeInv, TypeOK, FilesOK, ProcInv
<1>Augment. CASE Augment
  <2>1. /\ proc'.pc = "cfs" /\ proc'.todo = Method /\ proc'.mode = proc.mode
        /\ proc'.sp = Linked(proc.sp, catalog) /\ catalog' = Extended(proc.sp, catalog)
        /\ UNCHANGED <<cfs, report>>
    BY <1>t, <1>Augment DEF Augment, Process
  <2>2. proc.sp \in Graph
    BY <1>t, <1>Augment DEF Augment, CarriesGraph, At
  <2>3. /\ proc'.sp.csv = proc.sp.csv
        /\ proc'.sp.links = Link[proc.sp.csv][catalog]
        /\ catalog' = Extended(Parsed(proc.sp.csv), catalog)
        /\ catalog' = catalog \cup Synthetic[Link[proc.sp.csv][catalog]]
    BY <2>1, <2>2, LinkedFields
  <2>4. LinkedOver(proc'.sp, catalog')
    BY <1>t, <2>3 DEF LinkedOver, SourceInv
  <2>5. LeftByLinks(catalog')
    <3>1. proc.sp.csv \in Csv /\ LeftByLinks(catalog)
      BY <2>2 DEF Graph, SourceInv
    <3> QED
      BY <2>3, <3>1, LeftByLinksGrows
  <2> QED
    BY <2>1, <2>4, <2>5 DEF SourceInv, HasReport, At
<1>BuildCatalog. CASE BuildCatalog
  BY <1>BuildCatalog, LeftByLinksGrows DEF BuildCatalog, SourceInv, HasReport, At
<1>Emit. CASE Emit
  <2>1. /\ proc'.pc = "productCat" /\ proc'.pkg = Built /\ proc'.mode = proc.mode
        /\ UNCHANGED <<catalog, report>>
    BY <1>t, <1>Emit DEF Emit, Process
  <2>2. proc.mode # "replay" => IsRebuilt(Built)
    <3> SUFFICES ASSUME proc.mode # "replay" PROVE IsRebuilt(Built)
      OBVIOUS
    <3>1. LinkedOver(proc.sp, catalog) /\ proc.sp \in Graph
      BY <1>t, <1>Emit DEF Emit, SourceInv, CarriesGraph, At
    <3>2. cfs = [m \in Method |-> catalog]
      BY <1>t, <1>Emit DEF Emit, SourceInv, RegistryIsFresh, At
    <3>3. /\ Built = [frame |-> proc.sp, cfs |-> [m \in Method |-> catalog], catalog |-> catalog]
          /\ Built.frame = proc.sp
      BY <3>2 DEF Built
    <3> QED
      BY <3>1, <3>3, LinkedIsRebuilt DEF IsRebuilt
  <2> QED
    BY <1>Emit, <2>1, <2>2 DEF SourceInv, HasReport, At
<1>Apply. CASE Apply
  <2>1. /\ proc'.pc = "emit" /\ proc'.sp = Fold(proc.sp, overrides)
        /\ proc'.mode = proc.mode /\ UNCHANGED files
    BY <1>t, <1>Apply DEF Apply, Process
  <2>2. proc'.sp.csv = proc.sp.csv /\ proc'.sp.links = proc.sp.links
    BY <1>t, <1>Apply, <2>1, FoldsOnce DEF Apply, CarriesGraph, At
  <2> QED
    BY <1>Apply, <2>1, <2>2 DEF Apply, SourceInv, HasReport, RegistryIsFresh,
       LinkedOver, At, files
<1> USE <1>t DEF SourceInv, RegistryIsFresh, HasReport,
        CarriesGraph, At, Goto, Stop, Process, Idle, Start, files, store, bounds
<1>LinkAll. CASE LinkAll
  BY <1>LinkAll DEF LinkAll
<1>SetParameter. CASE SetParameter
  BY <1>SetParameter DEF SetParameter
<1>Backtest. CASE Backtest
  BY <1>Backtest DEF Backtest
<1>BuildMethodCfs. CASE BuildMethodCfs
  BY <1>BuildMethodCfs DEF BuildMethodCfs
<1>Reset. CASE Reset
  BY <1>Reset DEF Reset
<1>ClearParameters. CASE ClearParameters
  BY <1>ClearParameters DEF ClearParameters
<1>LoadCached. CASE LoadCached
  BY <1>LoadCached DEF LoadCached, AfterLoad
<1>LoadParsed. CASE LoadParsed
  BY <1>LoadParsed DEF LoadParsed, AfterLoad
<1>LoadFails. CASE LoadFails
  BY <1>LoadFails DEF LoadFails
<1>BuildCfs. CASE BuildCfs
  BY <1>BuildCfs DEF BuildCfs
<1>Snapshot. CASE Snapshot
  BY <1>Snapshot DEF Snapshot
<1>ApplyFails. CASE ApplyFails
  BY <1>ApplyFails DEF ApplyFails
<1>WriteProductCat. CASE WriteProductCat
  BY <1>WriteProductCat DEF WriteProductCat
<1>WriteActivityCat. CASE WriteActivityCat
  BY <1>WriteActivityCat DEF WriteActivityCat
<1>WriteReport. CASE WriteReport
  BY <1>WriteReport DEF WriteReport
<1>SaveOverride. CASE SaveOverride
  BY <1>SaveOverride DEF SaveOverride
<1>RefuseOverride. CASE RefuseOverride
  BY <1>RefuseOverride DEF RefuseOverride
<1>FastReport. CASE FastReport
  BY <1>FastReport DEF FastReport
<1>FastLoad. CASE FastLoad
  BY <1>FastLoad DEF FastLoad, Loadable
<1>FastLoadFails. CASE FastLoadFails
  BY <1>FastLoadFails DEF FastLoadFails
<1>Score. CASE Score
  BY <1>Score DEF Score
<1>ScoreFails. CASE ScoreFails
  BY <1>ScoreFails DEF ScoreFails
<1>WriteArtifact. CASE WriteArtifact
  BY <1>WriteArtifact DEF WriteArtifact
<1>ResetPackages. CASE ResetPackages
  BY <1>ResetPackages DEF ResetPackages
<1>ResetImporter. CASE ResetImporter
  BY <1>ResetImporter DEF ResetImporter
<1>ResetLinked. CASE ResetLinked
  BY <1>ResetLinked DEF ResetLinked
<1>ResetOverrides. CASE ResetOverrides
  BY <1>ResetOverrides DEF ResetOverrides
<1>LoadTorn. CASE LoadTorn
  BY <1>LoadTorn DEF LoadTorn
<1>EmitKilled. CASE EmitKilled
  BY <1>EmitKilled DEF EmitKilled
<1>EvictKilled. CASE EvictKilled
  BY <1>EvictKilled DEF EvictKilled
<1>ReportTorn. CASE ReportTorn
  BY <1>ReportTorn DEF ReportTorn
<1>Crash. CASE Crash
  BY <1>Crash DEF Crash
<1>ReplaceCsv. CASE ReplaceCsv
  BY <1>ReplaceCsv DEF ReplaceCsv
<1>stutter. CASE UNCHANGED vars
  BY <1>stutter DEF vars
<1> QED
  BY <1>LinkAll, <1>SetParameter, <1>Backtest, <1>BuildMethodCfs, <1>Reset,
     <1>BuildCatalog, <1>ClearParameters, <1>LoadCached, <1>LoadParsed,
     <1>LoadFails, <1>Augment, <1>BuildCfs, <1>Snapshot, <1>Apply, <1>ApplyFails,
     <1>Emit, <1>WriteProductCat, <1>WriteActivityCat, <1>WriteReport,
     <1>SaveOverride, <1>RefuseOverride, <1>FastReport, <1>FastLoad,
     <1>FastLoadFails, <1>Score, <1>ScoreFails, <1>WriteArtifact, <1>ResetPackages,
     <1>ResetImporter, <1>ResetLinked, <1>ResetOverrides, <1>LoadTorn,
     <1>EmitKilled, <1>EvictKilled, <1>ReportTorn, <1>Crash, <1>ReplaceCsv,
     <1>stutter DEF Next, Operator, Step, Kill

\* Rebuilds are deterministic but for the rows earlier links left: whatever
\* came before, the package of a full link is a function of its CSV, the
\* overrides and those rows.
THEOREM RebuildsAreDeterministic == Spec => []FullLinkIsDeterministic
<1>1. Init => SourceInv
  BY LeftByLinksGrows DEF Init, SourceInv, HasReport, Idle, At
<1>2. SourceInv => FullLinkIsDeterministic
  BY DEF SourceInv, FullLinkIsDeterministic, IsRebuilt
<1> QED
  BY <1>1, <1>2, TypeInvariant, SourceStep, PTL DEF Spec

=============================================================================
