---------------------------- MODULE PackageStore ----------------------------
(***************************************************************************)
(* ScoringPackageStore (scoring/scoring_package.py) file by file: one      *)
(* writer publishes packages and evicts old ones while backtest processes  *)
(* read.  A package is a directory named after its content hash; it is     *)
(* written as <hash>.partial and renamed when every file has landed.  The  *)
(* directories are ordered by their mtime, which the file system renews    *)
(* whenever an entry of the directory is created or removed.               *)
(***************************************************************************)
EXTENDS Naturals, FiniteSets

CONSTANTS
    Package,      \* content hashes
    Matrix,       \* the .npz files of a package
    Ids,          \* ids.json, written last and read first
    Reader,       \* processes that load a package
    MaxPackages,  \* ScoringPackageStore.MAX_PACKAGES
    NoDir,        \* the directory does not exist
    MaxWrites, MaxReads, MaxKills   \* bounds of the exploration

ASSUME StoreAssumption == /\ MaxPackages \in Nat \ {0}
                          /\ IsFiniteSet(Package)
                          /\ Ids \notin Matrix

VARIABLES
    target,    \* target[p]: the files of directory <p>
    partial,   \* partial[p]: the files of directory <p>.partial
    recent,    \* the pairs of directories of which the first has the newer mtime
    writer,    \* the process in ScoringPackageStore.write
    reader,    \* reader[r]: the process in ScoringPackageStore.read
    writes, reads, kills

bounds == <<writes, reads, kills>>
vars == <<target, partial, recent, writer, reader, bounds>>

File == Matrix \cup {Ids}
\* A file that was opened for writing and not closed is torn.
Dir == [File -> {"absent", "torn", "whole"}]
Empty == [f \in File |-> "absent"]
Whole == [f \in File |-> "whole"]

ASSUME NoDirAssumption == NoDir \notin Dir \cup File \cup Package

Final(p) == <<"target", p>>
Draft(p) == <<"partial", p>>

Directories == {Final(p) : p \in {q \in Package : target[q] # NoDir}}
          \cup {Draft(p) : p \in {q \in Package : partial[q] # NoDir}}

Newer(d, e) == <<d, e>> \in recent
Without(d) == {x \in recent : x[1] # d /\ x[2] # d}
Renewed(d) == Without(d) \cup {<<d, e>> : e \in Directories \ {d}}

IdleWriter == [pc |-> "idle", pkg |-> NoDir, todo |-> {}, open |-> NoDir, victims |-> {}]
IdleReader == [pkg |-> NoDir, todo |-> {}, newer |-> {}]

\* History: the packages used since the one r reads was last used.
Noted(p) == [r \in Reader |->
    IF reader[r] = IdleReader THEN IdleReader
    ELSE [reader[r] EXCEPT !.newer = IF reader[r].pkg = p THEN {} ELSE @ \cup {p}]]

-----------------------------------------------------------------------------
(* ScoringPackageStore.write *)

Begin(p) == /\ writer = IdleWriter
            /\ writes < MaxWrites
            /\ writes' = writes + 1
            /\ UNCHANGED <<target, reads, kills>>

\* Mutant: an existing package is returned without target.touch().
TouchNothing(p) == /\ Begin(p)
                   /\ target[p] # NoDir
                   /\ reader' = Noted(p)
                   /\ UNCHANGED <<partial, writer, recent>>

\* A package that is there is touched and returned, whatever it holds.
Touch(p) == /\ Begin(p)
            /\ target[p] # NoDir
            /\ recent' = Renewed(Final(p))
            /\ reader' = Noted(p)
            /\ UNCHANGED <<partial, writer>>

\* mkdir(exist_ok=True): a leftover of a killed write is written over.
Start(p) == /\ Begin(p)
            /\ target[p] = NoDir
            /\ IF partial[p] # NoDir
                 THEN UNCHANGED <<partial, recent>>
                 ELSE /\ partial' = [partial EXCEPT ![p] = Empty]
                      /\ recent' = Renewed(Draft(p))
            /\ writer' = [IdleWriter EXCEPT !.pc = "files", !.pkg = p, !.todo = File]
            /\ UNCHANGED reader

\* Opening truncates; only a new entry renews the directory's mtime.
Open == /\ writer.pc = "files" /\ writer.open = NoDir
        /\ \E f \in writer.todo :
             LET p == writer.pkg IN
             /\ f = Ids => writer.todo = {Ids}
             /\ partial' = [partial EXCEPT ![p][f] = "torn"]
             /\ recent' = IF partial[p][f] = "absent" THEN Renewed(Draft(p)) ELSE recent
             /\ writer' = [writer EXCEPT !.open = f]
        /\ UNCHANGED <<target, reader, bounds>>

Close == /\ writer.pc = "files" /\ writer.open # NoDir
         /\ partial' = [partial EXCEPT ![writer.pkg][writer.open] = "whole"]
         /\ writer' = [writer EXCEPT !.open = NoDir, !.todo = @ \ {writer.open}]
         /\ UNCHANGED <<target, recent, reader, bounds>>

\* Every file has landed.
Complete == writer.todo = {}

\* The renamed directory keeps its mtime.
Renamed(d, p) == IF d = Draft(p) THEN Final(p) ELSE d

Rename == /\ writer.pc = "files" /\ Complete
          /\ LET p == writer.pkg IN
             /\ target' = [target EXCEPT ![p] = partial[p]]
             /\ partial' = [partial EXCEPT ![p] = NoDir]
             /\ recent' = {<<Renamed(x[1], p), Renamed(x[2], p)>> : x \in recent}
          /\ reader' = Noted(writer.pkg)
          /\ writer' = [writer EXCEPT !.pc = "sweep"]
          /\ UNCHANGED bounds

-----------------------------------------------------------------------------
(* ScoringPackageStore._evict_lru *)

\* The packages with a directory, and those of them with a newer one than p.
Finals == {p \in Package : target[p] # NoDir}
Above(p) == {q \in Finals : Newer(Final(q), Final(p))}

\* Mutant: sorted without reverse=True.
VictimsNewest == {p \in Finals :
    Cardinality({q \in Finals : p \in Above(q)}) >= MaxPackages} \ {writer.pkg}

\* All but the MaxPackages newest directories, and never the new one.
Victims == {p \in Finals : Cardinality(Above(p)) >= MaxPackages} \ {writer.pkg}

\* Leftovers of killed writes are removed, then the directories are listed.
Sweep == /\ writer.pc = "sweep"
         /\ partial' = [p \in Package |-> NoDir]
         /\ recent' = {x \in recent : \E p, q \in Package : x = <<Final(p), Final(q)>>}
         /\ writer' = [writer EXCEPT !.pc = "evict", !.victims = Victims]
         /\ UNCHANGED <<target, reader, bounds>>

\* rmtree unlinks a victim's files one at a time; each renews its mtime.
Unlink == /\ writer.pc = "evict"
          /\ \E p \in writer.victims, f \in File :
               /\ \A q \in writer.victims \ {p} : target[q] \in {Whole, NoDir}
               /\ target[p][f] # "absent"
               /\ target' = [target EXCEPT ![p][f] = "absent"]
               /\ recent' = Renewed(Final(p))
          /\ UNCHANGED <<partial, writer, reader, bounds>>

\* Mutant: a directory that cannot be removed is tried again.
RemoveNothing == /\ writer.pc = "evict"
                 /\ \E p \in writer.victims : target[p] = Empty
                 /\ UNCHANGED vars

RemoveDir == /\ writer.pc = "evict"
             /\ \E p \in writer.victims :
                  /\ target[p] = Empty
                  /\ target' = [target EXCEPT ![p] = NoDir]
                  /\ recent' = Without(Final(p))
                  /\ writer' = [writer EXCEPT !.victims = @ \ {p}]
             /\ UNCHANGED <<partial, reader, bounds>>

Return == /\ writer.pc = "evict" /\ writer.victims = {}
          /\ writer' = IdleWriter
          /\ UNCHANGED <<target, partial, recent, reader, bounds>>

-----------------------------------------------------------------------------
(* ScoringPackageStore.read: ids.json names the matrices, which are loaded *)
(* one by one; a missing or cut file raises.                               *)

\* The packages whose removal has not begun.
Live == {p \in Package : target[p] = Whole}

\* History: the packages used since p was; nothing is asked of a read of a
\* package whose removal has begun.
NewerThan(p) == IF p \in Live THEN Above(p) \cap Live ELSE Package

BeginRead(r, p) == /\ reader[r] = IdleReader
                   /\ reads < MaxReads
                   /\ reads' = reads + 1
                   /\ target[p] # NoDir
                   /\ reader' = [reader EXCEPT ![r] =
                          [pkg |-> p, todo |-> File, newer |-> NewerThan(p)]]
                   /\ UNCHANGED <<target, partial, recent, writer, writes, kills>>

\* The files the reader may load next.
Wanted(r) == IF Ids \in reader[r].todo THEN {Ids} ELSE reader[r].todo

Loads(r, f) == target[reader[r].pkg] # NoDir /\ target[reader[r].pkg][f] = "whole"

ReadFile(r) == /\ \E f \in Wanted(r) :
                    /\ Loads(r, f)
                    /\ LET rest == reader[r].todo \ {f} IN
                       reader' = [reader EXCEPT ![r] =
                         IF rest = {} THEN IdleReader ELSE [reader[r] EXCEPT !.todo = rest]]
               /\ UNCHANGED <<target, partial, recent, writer, bounds>>

ReadFails(r) == /\ \E f \in Wanted(r) : ~Loads(r, f)
                /\ reader' = [reader EXCEPT ![r] = IdleReader]
                /\ UNCHANGED <<target, partial, recent, writer, bounds>>

-----------------------------------------------------------------------------

\* The writing command is killed between any two system calls.
Kill == /\ writer # IdleWriter
        /\ kills < MaxKills
        /\ kills' = kills + 1
        /\ writer' = IdleWriter
        /\ UNCHANGED <<target, partial, recent, reader, writes, reads>>

Init == /\ target = [p \in Package |-> NoDir]
        /\ partial = [p \in Package |-> NoDir]
        /\ recent = {}
        /\ writer = IdleWriter
        /\ reader = [r \in Reader |-> IdleReader]
        /\ writes = 0 /\ reads = 0 /\ kills = 0

\* The steps a write takes by itself once it is called.
Write == Open \/ Close \/ Rename \/ Sweep \/ Unlink \/ RemoveDir \/ Return

Next == \/ \E p \in Package : Touch(p) \/ Start(p)
        \/ Write
        \/ \E r \in Reader : ReadFile(r) \/ ReadFails(r) \/ \E p \in Package : BeginRead(r, p)
        \/ Kill

\* The writing process is not suspended for ever.
Spec == Init /\ [][Next]_vars /\ WF_vars(Write)

-----------------------------------------------------------------------------
(* Properties *)

\* "Readers never see a half-finished directory": a package that is there is
\* whole, unless its removal is under way.
NeverHalf == \A p \in Package :
    target[p] # NoDir /\ p \notin writer.victims => target[p] = Whole

\* What the store keeps, as its users see it.
Kept == {p \in Live : Cardinality(NewerThan(p)) < MaxPackages}

LRU == INSTANCE LRUStore WITH cache <- [p \in Kept |-> NewerThan(p)], killed <- kills # 0

\* Until a process is killed, the store is an LRU cache of MaxPackages
\* packages: a write makes its package the newest, atomically for readers,
\* and pushes out the least recently used one and no other.
IsLRU == LRU!Spec

\* Until a process is killed, a load fails only when MaxPackages other
\* packages were used since its own was: a backtest of the package the last
\* run report names survives MaxPackages - 1 what-ifs beside it.
FailsOnlyIfEvicted ==
    [][ \A r \in Reader :
          kills = 0 /\ ReadFails(r) => Cardinality(reader[r].newer) >= MaxPackages ]_vars

\* A write that is called ends: it returns, or its process is killed.
WriteEnds == writer # IdleWriter ~> writer = IdleWriter
=============================================================================
