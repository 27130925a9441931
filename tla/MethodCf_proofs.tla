---------------------------- MODULE MethodCf_proofs ----------------------------
(***************************************************************************)
(* Why a killed build never leaves an index that load_all trips over, and  *)
(* why a build that ends leaves what the sources give, for any sources and *)
(* any number of builds, edits and crashes: the tables named so far are    *)
(* current, and a spreadsheet cache that is used holds the spreadsheet.    *)
(* With it: sub-compartments of one substance share their fate, and a      *)
(* content hash never stands for two packages.  Then the sums: activities  *)
(* are charged with the CFs of their countries, tagged flows count as      *)
(* their base, and the views of a decomposition add up to the score.       *)
(***************************************************************************)
EXTENDS MethodCf, FiniteSetTheorems, WellFoundedInduction, TLAPS

\* The tables of the methods done so far, and what is counted of them.
CurrentFor(S, counts) ==
    \A m \in S :
      /\ m \in DOMAIN cfsFile
      /\ cfsFile[m] = Cfs(src, src.sp, m)
      /\ counts[m].cfs = Cardinality(DOMAIN cfsFile[m])

\* A cache that is used and can be read holds the spreadsheet of now.
CacheInv ==
    /\ cache # NoFile => "fresh" \in DOMAIN cache
    /\ (cache # NoFile /\ cache.fresh /\ ~cache.torn) => cache.rows = src.sp

\* The builder at work: what it has done is current, what it has to do is mapped.
BuilderInv ==
    /\ pc \in {"idle", "cfs", "side", "index"}
    /\ pc # "idle" => /\ last = "none"
                      /\ todo \subseteq Mapped
                      /\ DOMAIN entries = Mapped \ todo
                      /\ CurrentFor(DOMAIN entries, entries)
    /\ pc \in {"cfs", "side"} => todo # {}
    /\ pc = "side" => /\ Current \in DOMAIN cfsFile
                      /\ cfsFile[Current] = Cfs(src, src.sp, Current)
    /\ pc = "index" => todo = {}

\* The index on disk, of a build that ended and of older ones.
IndexInv ==
    /\ index # NoFile => DOMAIN index \subseteq DOMAIN cfsFile
    /\ last = "ok" => pc = "idle" /\ DOMAIN index = Mapped /\ CurrentFor(Mapped, index)

Inv == CacheInv /\ BuilderInv /\ IndexInv

-----------------------------------------------------------------------------

\* Mapped is a set of numbers, so the builder has a least method to take.
LEMMA CurrentIsNext ==
    ASSUME todo \subseteq Mapped, todo # {}
    PROVE  Current \in todo
<1>1. todo \subseteq 1 .. 4
  BY DEF Mapped, EfMethodMap, Acidification, Ecotoxicity, WaterUse
<1>2. \E m \in todo : \A k \in todo : m <= k
  <2>1. CASE 1 \in todo
    BY <1>1, <2>1
  <2>2. CASE 1 \notin todo /\ 2 \in todo
    BY <1>1, <2>2
  <2>3. CASE 1 \notin todo /\ 2 \notin todo /\ 3 \in todo
    BY <1>1, <2>3
  <2>4. CASE 1 \notin todo /\ 2 \notin todo /\ 3 \notin todo
    <3>1. \A m \in todo : m = 4
      BY <1>1, <2>4
    <3>2. PICK m \in todo : m = 4
      BY <3>1
    <3>3. QED
      BY <3>1, <3>2
  <2>5. QED
    BY <2>1, <2>2, <2>3, <2>4
<1>3. QED
  BY <1>2 DEF Current

\* Where the filter does not have to look at the reference table, the table
\* does not matter.
LEMMA TableOnlyWhereNeeded ==
    ASSUME NEW S, NEW m, NEW T, NEW U, ~NeedsTable(S, m)
    PROVE  Cfs(S, T, m) = Cfs(S, U, m)
<1>1. CASE m = WaterUse \/ S.sp = NoFile
  BY <1>1 DEF Cfs
<1>2. CASE ~(m = WaterUse \/ S.sp = NoFile)
  <2>1. \A k \in DOMAIN Unfiltered(S, m) : Keep(S, T, m, k) <=> Keep(S, U, m, k)
    BY <1>2 DEF NeedsTable, Keep
  <2>2. {k \in DOMAIN Unfiltered(S, m) : Keep(S, T, m, k)}
          = {k \in DOMAIN Unfiltered(S, m) : Keep(S, U, m, k)}
    BY <2>1
  <2>3. QED
    BY <1>2, <2>2 DEF Cfs
<1>3. QED
  BY <1>1, <1>2

-----------------------------------------------------------------------------

LEMMA InitInv == Init => Inv
<1>. SUFFICES ASSUME Init PROVE Inv
  OBVIOUS
<1>. USE DEF Init
<1>1. CacheInv
  BY DEF CacheInv
<1>2. BuilderInv
  BY DEF BuilderInv
<1>3. IndexInv
  BY DEF IndexInv
<1>4. QED
  BY <1>1, <1>2, <1>3 DEF Inv

\* What the builder writes is what the sources give.
LEMMA WrittenIsCurrent ==
    ASSUME Inv, WriteCfs
    PROVE  /\ Current \in todo
           /\ cfsFile' = Put(cfsFile, Current, Cfs(src, src.sp, Current))
           /\ CacheInv'
<1>1. Current \in todo
  BY CurrentIsNext DEF Inv, BuilderInv, WriteCfs
<1>2. CASE NeedsTable(src, Current)
  <2>1. Table = src.sp
    BY <1>2 DEF WriteCfs, Table, CacheIsUsed, Inv, CacheInv
  <2>2. cache' = WholeCache(src.sp) /\ src' = src
    BY <1>2, <2>1 DEF WriteCfs
  <2>3. CacheInv'
    BY <2>2 DEF CacheInv, WholeCache
  <2>4. QED
    BY <1>1, <1>2, <2>1, <2>3 DEF WriteCfs
<1>3. CASE ~NeedsTable(src, Current)
  <2>1. Cfs(src, {}, Current) = Cfs(src, src.sp, Current)
    BY <1>3, TableOnlyWhereNeeded
  <2>2. CacheInv'
    BY <1>3 DEF WriteCfs, Inv, CacheInv
  <2>3. QED
    BY <1>1, <1>3, <2>1, <2>2 DEF WriteCfs
<1>4. QED
  BY <1>2, <1>3

\* The commands that leave the tables alone keep what is said of them.
LEMMA EditInv == Inv /\ Edit => Inv'
<1>. SUFFICES ASSUME Inv, Edit PROVE Inv'
  OBVIOUS
<1>1. CacheInv'
  BY DEF Edit, Inv, CacheInv
<1>2. BuilderInv'
  BY DEF Edit, Inv, BuilderInv
<1>3. IndexInv'
  BY DEF Edit, Inv, IndexInv, files
<1>4. QED
  BY <1>1, <1>2, <1>3 DEF Inv

LEMMA StartInv == Inv /\ (StartBuild \/ StartFails) => Inv'
<1>. SUFFICES ASSUME Inv, StartBuild \/ StartFails PROVE Inv'
  OBVIOUS
<1>1. CacheInv'
  BY DEF StartBuild, StartFails, Inv, CacheInv
<1>2. BuilderInv'
  <2>1. CASE StartBuild
    <3>1. DOMAIN entries' = {}
      BY <2>1 DEF StartBuild
    <3>2. CurrentFor(DOMAIN entries, entries)'
      BY <3>1 DEF CurrentFor
    <3>3. todo' = Mapped /\ Mapped' = Mapped
      BY <2>1 DEF StartBuild, Mapped
    <3>4. QED
      BY <2>1, <3>1, <3>2, <3>3 DEF StartBuild, BuilderInv
  <2>2. CASE StartFails
    BY <2>2 DEF StartFails, Inv, BuilderInv
  <2>3. QED
    BY <2>1, <2>2
<1>3. IndexInv'
  BY DEF StartBuild, StartFails, Inv, IndexInv, files
<1>4. QED
  BY <1>1, <1>2, <1>3 DEF Inv

LEMMA WriteCfsInv == Inv /\ WriteCfs => Inv'
<1>. SUFFICES ASSUME Inv, WriteCfs PROVE Inv'
  OBVIOUS
<1>. DEFINE new == Cfs(src, src.sp, Current)
<1>1. /\ Current \in todo
      /\ cfsFile' = Put(cfsFile, Current, new)
      /\ CacheInv'
  BY WrittenIsCurrent
<1>. HIDE DEF new
<1>2. /\ UNCHANGED <<src, index, todo, entries, last>> /\ Current' = Current
      /\ pc = "cfs" /\ pc' = "side"
  BY DEF WriteCfs, Current
<1>3. /\ DOMAIN cfsFile' = DOMAIN cfsFile \cup {Current}
      /\ cfsFile'[Current] = new
      /\ \A m \in DOMAIN cfsFile : m # Current => cfsFile'[m] = cfsFile[m]
  BY <1>1 DEF Put
<1>4. BuilderInv'
  <2>1. /\ DOMAIN entries = Mapped \ todo /\ last = "none" /\ todo \subseteq Mapped
        /\ CurrentFor(DOMAIN entries, entries) /\ todo # {}
    BY <1>2 DEF Inv, BuilderInv
  <2>2. CurrentFor(DOMAIN entries, entries)'
    <3>1. \A m \in DOMAIN entries : m # Current
      BY <1>1, <2>1
    <3>2. QED
      BY <1>2, <1>3, <2>1, <3>1 DEF CurrentFor
  <2>3. new = Cfs(src, src.sp, Current)
    BY DEF new
  <2>4. /\ Current' \in DOMAIN cfsFile'
        /\ cfsFile'[Current'] = Cfs(src', src'.sp, Current')
    BY <1>2, <1>3, <2>3
  <2>5. Mapped' = Mapped
    BY <1>2 DEF Mapped
  <2>6. QED
    BY <1>2, <2>1, <2>2, <2>4, <2>5 DEF BuilderInv
<1>5. IndexInv'
  BY <1>2, <1>3 DEF Inv, IndexInv, BuilderInv
<1>6. QED
  BY <1>1, <1>4, <1>5 DEF Inv

LEMMA WriteSideInv == Inv /\ WriteSide => Inv'
<1>. SUFFICES ASSUME Inv, WriteSide PROVE Inv'
  OBVIOUS
<1>. DEFINE row == [cfs |-> Cardinality(DOMAIN cfsFile[Current]),
                    regional |-> Cardinality(DOMAIN Side)]
<1>1. /\ UNCHANGED <<src, cache, index, cfsFile, last>>
      /\ entries' = Put(entries, Current, row)
      /\ todo' = todo \ {Current}
      /\ pc = "side" /\ pc' = IF todo' = {} THEN "index" ELSE "cfs"
  BY DEF WriteSide
<1>2. row.cfs = Cardinality(DOMAIN cfsFile[Current])
  OBVIOUS
<1>. HIDE DEF row
<1>3. /\ todo \subseteq Mapped /\ todo # {} /\ last = "none"
      /\ DOMAIN entries = Mapped \ todo
      /\ CurrentFor(DOMAIN entries, entries)
      /\ Current \in DOMAIN cfsFile
      /\ cfsFile[Current] = Cfs(src, src.sp, Current)
  BY <1>1 DEF Inv, BuilderInv
<1>4. Current \in todo
  BY <1>3, CurrentIsNext
<1>5. /\ DOMAIN entries' = DOMAIN entries \cup {Current}
      /\ entries'[Current] = row
      /\ \A m \in DOMAIN entries : m # Current => entries'[m] = entries[m]
  BY <1>1 DEF Put
<1>6. CacheInv'
  BY <1>1 DEF Inv, CacheInv
<1>7. BuilderInv'
  <2>1. DOMAIN entries' = (Mapped \ todo)' /\ todo' \subseteq Mapped'
    BY <1>1, <1>3, <1>4, <1>5 DEF Mapped
  <2>2. CurrentFor(DOMAIN entries, entries)'
    BY <1>1, <1>2, <1>3, <1>5 DEF CurrentFor
  <2>3. QED
    BY <1>1, <1>3, <2>1, <2>2 DEF BuilderInv
<1>8. IndexInv'
  BY <1>1, <1>3 DEF Inv, IndexInv
<1>9. QED
  BY <1>6, <1>7, <1>8 DEF Inv

LEMMA WriteIndexInv == Inv /\ WriteIndex => Inv'
<1>. SUFFICES ASSUME Inv, WriteIndex PROVE Inv'
  OBVIOUS
<1>1. /\ UNCHANGED <<src, cache, cfsFile, todo, entries>>
      /\ index' = entries /\ pc = "index" /\ pc' = "idle" /\ last' = "ok"
  BY DEF WriteIndex
<1>2. DOMAIN entries = Mapped /\ CurrentFor(Mapped, entries)
  BY <1>1 DEF Inv, BuilderInv
<1>3. CacheInv'
  BY <1>1 DEF Inv, CacheInv
<1>4. BuilderInv'
  BY <1>1 DEF BuilderInv
<1>5. IndexInv'
  <2>1. DOMAIN index' = Mapped' /\ CurrentFor(Mapped, index)'
    BY <1>1, <1>2 DEF Mapped, CurrentFor
  <2>2. DOMAIN index' \subseteq DOMAIN cfsFile'
    BY <2>1 DEF CurrentFor
  <2>3. QED
    BY <1>1, <2>1, <2>2 DEF IndexInv
<1>6. QED
  BY <1>3, <1>4, <1>5 DEF Inv

\* A build that dies leaves some tables of the new generation, the old index,
\* and perhaps a torn cache.
LEMMA StopInv == Inv /\ (ReadFails \/ Crash \/ CrashInCache) => Inv'
<1>. SUFFICES ASSUME Inv, ReadFails \/ Crash \/ CrashInCache PROVE Inv'
  OBVIOUS
<1>1. /\ UNCHANGED <<src, index, cfsFile>> /\ pc # "idle" /\ pc' = "idle"
      /\ last' # "ok"
  BY DEF ReadFails, Crash, CrashInCache, files, Inv, BuilderInv
<1>2. CacheInv'
  BY DEF ReadFails, Crash, CrashInCache, Inv, CacheInv
<1>3. BuilderInv'
  BY <1>1 DEF BuilderInv
<1>4. IndexInv'
  BY <1>1 DEF Inv, IndexInv
<1>5. QED
  BY <1>2, <1>3, <1>4 DEF Inv

LEMMA EmitInv == Inv /\ (Emit \/ UNCHANGED vars) => Inv'
<1>. SUFFICES ASSUME Inv, Emit \/ UNCHANGED vars PROVE Inv'
  OBVIOUS
<1>1. UNCHANGED <<src, cache, files, pc, todo, entries, last>>
  BY DEF Emit, vars
<1>2. CacheInv'
  BY <1>1 DEF Inv, CacheInv
<1>3. BuilderInv'
  <2>1. Mapped' = Mapped /\ Current' = Current
    BY <1>1 DEF Mapped, Current
  <2>2. QED
    BY <1>1, <2>1 DEF Inv, BuilderInv, CurrentFor, files
<1>4. IndexInv'
  BY <1>1 DEF Inv, IndexInv, CurrentFor, Mapped, files
<1>5. QED
  BY <1>2, <1>3, <1>4 DEF Inv

THEOREM FilesStayCoherent == Spec => []Inv
<1>1. Inv /\ [Next]_vars => Inv'
  BY EditInv, StartInv, WriteCfsInv, WriteSideInv, WriteIndexInv, StopInv, EmitInv
  DEF Next
<1>2. QED
  BY <1>1, InitInv, PTL DEF Spec

\* However often the builder is killed, load_all finds every table of the index.
THEOREM IndexNeverDangles == Spec => []IndexLeadsToFiles
<1>1. Inv => IndexLeadsToFiles
  BY DEF Inv, IndexInv, IndexLeadsToFiles, Loads
<1>2. QED
  BY <1>1, FilesStayCoherent, PTL

\* A build that ends leaves, for every mapped method, the table its sources
\* give, whatever cache and tables it found.
THEOREM RebuiltIsCurrent == Spec => []BuildIsCurrent
<1>1. Inv => BuildIsCurrent
  BY DEF Inv, IndexInv, BuildIsCurrent, CurrentFor
<1>2. QED
  BY <1>1, FilesStayCoherent, PTL

-----------------------------------------------------------------------------

LEMMA SourcesStep == src \in Editions /\ [Next]_vars => src' \in Editions
BY DEF Next, Edit, StartBuild, StartFails, WriteCfs, ReadFails, WriteSide, WriteIndex, Crash,
       CrashInCache, Emit, vars

-----------------------------------------------------------------------------
(* The filter treats the sub-compartments of a substance alike *)

LEMMA SisterFields ==
    ASSUME NEW x \in FlowRecord, NEW y \in FlowRecord,
           [x EXCEPT !.sub = ""] = [y EXCEPT !.sub = ""]
    PROVE  x.name = y.name /\ x.top = y.top /\ x.cas = y.cas
<1>1. \A z \in FlowRecord : LET w == [z EXCEPT !.sub = ""] IN
          w.name = z.name /\ w.top = z.top /\ w.cas = z.cas
  BY DEF FlowRecord
<1>2. QED
  BY <1>1

LEMMA SistersAreKeptAlike ==
    ASSUME NEW S, NEW T, NEW m, NEW k, NEW l,
           S.catalog \in [DOMAIN S.catalog -> FlowRecord],
           k \in DOMAIN S.catalog, l \in DOMAIN S.catalog, k[1] = "bio", l[1] = "bio",
           [S.catalog[k] EXCEPT !.sub = ""] = [S.catalog[l] EXCEPT !.sub = ""]
    PROVE  Keep(S, T, m, k) <=> Keep(S, T, m, l)
<1>. DEFINE x == S.catalog[k]
            y == S.catalog[l]
<1>1. x \in FlowRecord /\ y \in FlowRecord /\ [x EXCEPT !.sub = ""] = [y EXCEPT !.sub = ""]
  OBVIOUS
<1>2. x.name = y.name /\ x.top = y.top /\ x.cas = y.cas
  <2>. HIDE DEF x, y
  <2>1. QED
    BY <1>1, SisterFields
<1>3. Synonyms(S, k) = Synonyms(S, l)
  BY <1>2 DEF Synonyms
<1>4. Excluded(S, m, k) <=> Excluded(S, m, l)
  BY <1>2 DEF Excluded
<1>5. Characterised(S, T, m, k) <=> Characterised(S, T, m, l)
  BY <1>2, <1>3 DEF Characterised
<1>6. QED
  BY <1>4, <1>5 DEF Keep

\* In a finished build the sub-compartments of a substance are all kept by the
\* filter or all dropped, whatever the flowmap and the spreadsheet name.
THEOREM SistersStayTogether == Spec => []SistersShareFate
<1>1. ASSUME Inv, src \in Editions, last = "ok", src.sp # NoFile, NEW m \in Mapped \ {WaterUse},
             NEW k \in DOMAIN Inherited(src.snapshot[m]) \cap DOMAIN src.catalog,
             NEW l \in DOMAIN Inherited(src.snapshot[m]) \cap DOMAIN src.catalog,
             k[1] = "bio", l[1] = "bio",
             [src.catalog[k] EXCEPT !.sub = ""] = [src.catalog[l] EXCEPT !.sub = ""]
      PROVE  k \in DOMAIN cfsFile[m] <=> l \in DOMAIN cfsFile[m]
  <2>1. cfsFile[m] = Keeping(Unfiltered(src, m),
                             {x \in DOMAIN Unfiltered(src, m) : Keep(src, src.sp, m, x)})
    BY <1>1 DEF Inv, IndexInv, CurrentFor, Cfs
  <2>2. DOMAIN Inherited(src.snapshot[m]) \subseteq DOMAIN Unfiltered(src, m)
    BY DEF Unfiltered, Over
  <2>3. Keep(src, src.sp, m, k) <=> Keep(src, src.sp, m, l)
    BY <1>1, SistersAreKeptAlike, EditionAssumption
  <2>4. QED
    BY <2>1, <2>2, <2>3 DEF Keeping
<1>2. Inv /\ src \in Editions => SistersShareFate
  BY <1>1 DEF SistersShareFate
<1>3. Init => src \in Editions
  BY DEF Init
<1>4. src \in Editions /\ [Next]_vars => (src \in Editions)'
  BY SourcesStep
<1>5. QED
  BY <1>2, <1>3, <1>4, FilesStayCoherent, PTL DEF Spec

-----------------------------------------------------------------------------
(* The content hash covers what a package is made of *)

\* Of the sources only locations, the water grid and the catalog get into a
\* package.  The hash covers the first two, and of the third the keys: the same
\* hash is the same package, but for the water correction, and for that as well
\* when the same rows of the matrix are water.
LEMMA HashIsEnough ==
    ASSUME NEW S, NEW T, NEW c, NEW d, NEW r, NEW s,
           HashInputs(S, c, r, B) = HashInputs(T, d, s, B)
    PROVE  LET p == Package(S, c, r, B)
               q == Package(T, d, s, B)
           IN  /\ p.q = q.q
               /\ \A m \in DOMAIN p.q \ {WaterUse} : p.corrections[m] = q.corrections[m]
               /\ /\ ResourceRows(S, B) = ResourceRows(T, B)
                  /\ ReturnRows(S, B) = ReturnRows(T, B)
                  => p = q
<1>1. /\ c = d /\ r = s /\ WaterCf(S.jrc) = WaterCf(T.jrc)
      /\ \A j \in DOMAIN B : LocationOf(S, j) = LocationOf(T, j)
  BY DEF HashInputs
<1>2. \A m : RegionalCorrection(S, c[m], r[m], B) = RegionalCorrection(T, c[m], r[m], B)
  BY <1>1 DEF RegionalCorrection
<1>3. \A m : m # WaterUse => Correction(S, m, c, r, B) = Correction(T, m, c, r, B)
  BY <1>1, <1>2 DEF Correction
<1>4. ASSUME ResourceRows(S, B) = ResourceRows(T, B), ReturnRows(S, B) = ReturnRows(T, B)
      PROVE  Package(S, c, r, B) = Package(T, d, s, B)
  <2>1. \A j : NetUse(S, B, j) = NetUse(T, B, j)
    BY <1>4 DEF NetUse
  <2>2. AwareCorrection(S, B) = AwareCorrection(T, B)
    BY <1>1, <2>1 DEF AwareCorrection
  <2>3. \A m : Correction(S, m, c, r, B) = Correction(T, m, c, r, B)
    BY <1>2, <2>2 DEF Correction
  <2>4. QED
    BY <1>1, <2>3 DEF Package
<1>5. /\ Package(S, c, r, B).q = Package(T, d, s, B).q
      /\ DOMAIN Package(S, c, r, B).q = DOMAIN c
  BY <1>1 DEF Package
<1>6. \A m \in DOMAIN c \ {WaterUse} :
        Package(S, c, r, B).corrections[m] = Package(T, d, s, B).corrections[m]
  BY <1>1, <1>3 DEF Package
<1>7. QED
  BY <1>4, <1>5, <1>6

\* Every stored package is the one its hash stands for, among the water rows of
\* its sources.
Hashed(p) ==
    \E e \in Editions : \E c, r :
      /\ p.hash = HashInputs(e, c, r, B)
      /\ p.pkg = Package(e, c, r, B)
      /\ p.water = [taken |-> ResourceRows(e, B), returned |-> ReturnRows(e, B)]

StoreInv ==
    /\ src \in Editions
    /\ \A p \in pkgs : Hashed(p)
    /\ head # NoFile => Hashed(head) /\ \E p \in pkgs : p.hash = head.hash

LEMMA StoreStep == StoreInv /\ [Next]_vars => StoreInv'
<1>. SUFFICES ASSUME StoreInv, [Next]_vars PROVE StoreInv'
  OBVIOUS
<1>1. src' \in Editions
  BY SourcesStep DEF StoreInv
<1>2. CASE Emit
  <2>. DEFINE hash == HashInputs(src, Loaded, LoadedRegional, B)
  <2>1. /\ head' = [hash |-> hash, pkg |-> Now, water |-> WaterRows]
        /\ pkgs' = IF \E p \in pkgs : p.hash = hash THEN pkgs ELSE pkgs \cup {head'}
    BY <1>2 DEF Emit
  <2>2. head'.hash = hash /\ head'.pkg = Now /\ head'.water = WaterRows
    BY <2>1
  <2>3. Hashed(head')
    BY <2>2 DEF Hashed, Now, WaterRows, StoreInv
  <2>. HIDE DEF hash
  <2>4. \A p \in pkgs' : Hashed(p)
    BY <2>1, <2>3 DEF StoreInv
  <2>5. \E p \in pkgs' : p.hash = hash
    <3>1. CASE \E p \in pkgs : p.hash = hash
      BY <2>1, <3>1
    <3>2. CASE ~ \E p \in pkgs : p.hash = hash
      <4>1. head' \in pkgs'
        BY <2>1, <3>2
      <4>2. QED
        BY <2>2, <4>1
    <3>3. QED
      BY <3>1, <3>2
  <2>6. QED
    BY <1>1, <2>2, <2>3, <2>4, <2>5 DEF StoreInv, Hashed
<1>3. CASE UNCHANGED store
  BY <1>1, <1>3 DEF store, StoreInv, Hashed
<1>4. QED
  BY <1>2, <1>3 DEF Next, Edit, StartBuild, StartFails, WriteCfs, ReadFails, WriteSide,
     WriteIndex, Crash, CrashInCache, vars

\* What the emit stage reports is the package of the files as they are, also
\* where the store had one under its hash, even where the catalog gives other
\* names or compartments to the codes it had: only the water correction can be
\* that of the older names, and only when they make other rows water.
THEOREM EmittedIsFresh == Spec => []EmitIsFresh
<1>1. Init => StoreInv
  BY DEF Init, StoreInv
<1>2. StoreInv => EmitIsFresh
  <2>1. SUFFICES ASSUME StoreInv, head # NoFile
                 PROVE  \E p \in pkgs :
                          /\ p.hash = head.hash
                          /\ p.pkg.q = head.pkg.q
                          /\ \A m \in DOMAIN p.pkg.q \ {WaterUse} :
                               p.pkg.corrections[m] = head.pkg.corrections[m]
                          /\ p.water = head.water => p.pkg = head.pkg
    BY DEF EmitIsFresh
  <2>2. PICK p \in pkgs : p.hash = head.hash
    BY <2>1 DEF StoreInv
  <2>3. PICK e \in Editions : \E c, r :
          /\ head.hash = HashInputs(e, c, r, B) /\ head.pkg = Package(e, c, r, B)
          /\ head.water = [taken |-> ResourceRows(e, B), returned |-> ReturnRows(e, B)]
    BY <2>1 DEF StoreInv, Hashed
  <2>4. PICK f \in Editions : \E d, s :
          /\ p.hash = HashInputs(f, d, s, B) /\ p.pkg = Package(f, d, s, B)
          /\ p.water = [taken |-> ResourceRows(f, B), returned |-> ReturnRows(f, B)]
    BY <2>1, <2>2 DEF StoreInv, Hashed
  <2>5. p.water = head.water =>
          /\ ResourceRows(f, B) = ResourceRows(e, B)
          /\ ReturnRows(f, B) = ReturnRows(e, B)
    BY <2>3, <2>4
  <2>6. PICK c, r : head.hash = HashInputs(e, c, r, B) /\ head.pkg = Package(e, c, r, B)
    BY <2>3
  <2>7. PICK d, s : p.hash = HashInputs(f, d, s, B) /\ p.pkg = Package(f, d, s, B)
    BY <2>4
  <2>8. HashInputs(f, d, s, B) = HashInputs(e, c, r, B)
    BY <2>2, <2>6, <2>7
  <2>9. LET x == Package(f, d, s, B)
            y == Package(e, c, r, B)
        IN  /\ x.q = y.q
            /\ \A m \in DOMAIN x.q \ {WaterUse} : x.corrections[m] = y.corrections[m]
            /\ /\ ResourceRows(f, B) = ResourceRows(e, B)
               /\ ReturnRows(f, B) = ReturnRows(e, B)
               => x = y
    BY <2>8, HashIsEnough
  <2>10. QED
    BY <2>2, <2>5, <2>6, <2>7, <2>9
<1>3. QED
  BY <1>1, <1>2, StoreStep, PTL DEF Spec

LEMMA LeastNumber ==
    ASSUME NEW T \in SUBSET Nat, T # {}
    PROVE  \E m \in T : \A n \in T : m <= n
<1>1. PICK m \in T : \A n \in T : <<n, m>> \notin OpToRel(<, Nat)
  BY NatLessThanWellFounded, WFMin
<1>2. \A n \in T : ~ (n < m)
  BY <1>1 DEF OpToRel
<1>3. QED
  BY <1>2
LEMMA Induction ==
    ASSUME NEW L \in Nat, NEW T, 0 \in T, \A n \in 1..L : n - 1 \in T => n \in T
    PROVE  \A n \in 0..L : n \in T
<1>1. SUFFICES ASSUME NEW k \in 0..L, k \notin T PROVE FALSE
  OBVIOUS
<1>. DEFINE Bad == {n \in 0..L : n \notin T}
<1>2. PICK m \in Bad : \A n \in Bad : m <= n
  <2>1. Bad \in SUBSET Nat /\ Bad # {}
    BY <1>1
  <2>2. QED
    BY <2>1, LeastNumber
<1>3. m \in 1..L /\ m - 1 \in 0..L /\ m - 1 \notin Bad
  BY <1>2
<1>4. QED
  BY <1>2, <1>3

-----------------------------------------------------------------------------
(* Sums over finite sets *)

\* What is true of no element, and of one more if of some, is true of all.
LEMMA SetInduction ==
    ASSUME NEW D, IsFiniteSet(D), NEW P, {} \in P,
           \A S \in SUBSET D, x \in D : S \in P /\ x \notin S => S \cup {x} \in P
    PROVE  D \in P
<1>. DEFINE T == {n \in 0..Cardinality(D) : \A S \in SUBSET D : Cardinality(S) = n => S \in P}
<1>1. Cardinality(D) \in Nat
  BY FS_CardinalityType
<1>2. \A S \in SUBSET D : IsFiniteSet(S) /\ Cardinality(S) \in Nat
  BY FS_Subset, FS_CardinalityType
<1>3. 0 \in T
  <2>1. \A S \in SUBSET D : Cardinality(S) = 0 => S = {}
    BY <1>2, FS_EmptySet
  <2>2. QED
    BY <1>1, <2>1
<1>4. ASSUME NEW n \in 1..Cardinality(D), n - 1 \in T PROVE n \in T
  <2>. SUFFICES ASSUME NEW S \in SUBSET D, Cardinality(S) = n PROVE S \in P
    OBVIOUS
  <2>1. PICK x \in S : TRUE
    BY <1>2, FS_EmptySet
  <2>2. Cardinality(S \ {x}) = n - 1
    BY <1>2, <2>1, FS_RemoveElement
  <2>3. S \ {x} \in P
    BY <1>4, <2>2
  <2>4. S = (S \ {x}) \cup {x} /\ S \ {x} \in SUBSET D /\ x \notin S \ {x} /\ x \in D
    BY <2>1
  <2>5. QED
    BY <2>3, <2>4
<1>5. Cardinality(D) \in T
  <2>. HIDE DEF T
  <2>1. QED
    BY <1>1, <1>3, <1>4, Induction
<1>6. QED
  BY <1>5

\* g has the sums of f over the subsets of D, taking some element first.
Sums(g, f, D) ==
    /\ g[{}] = 0
    /\ \A s \in SUBSET D : s # {} => \E x \in s : g[s] = f[x] + g[s \ {x}]

\* A sum is what its definition says it is: the library's recursion exists.
LEMMA TotalLoop ==
    ASSUME NEW f, IsFiniteSet(DOMAIN f)
    PROVE  \E g : Sums(g, f, DOMAIN f) /\ Total(f) = g[DOMAIN f]
<1>. DEFINE D == DOMAIN f
            Step(g, s) == IF s = {} THEN 0
                          ELSE f[CHOOSE x \in s : TRUE] + g[s \ {CHOOSE x \in s : TRUE}]
            Ok(g, n) == \A s \in SUBSET D : Cardinality(s) <= n => g[s] = Step(g, s)
            T == {n \in 0..Cardinality(D) : \E g : Ok(g, n)}
            Body(g) == [s \in SUBSET D |-> Step(g, s)]
<1>1. Cardinality(D) \in Nat
  BY FS_CardinalityType
<1>2. \A s \in SUBSET D : IsFiniteSet(s) /\ Cardinality(s) \in Nat /\ Cardinality(s) <= Cardinality(D)
  BY FS_Subset, FS_CardinalityType
<1>3. \A s \in SUBSET D : s # {} =>
         LET x == CHOOSE y \in s : TRUE
         IN  x \in s /\ s \ {x} \in SUBSET D /\ Cardinality(s \ {x}) = Cardinality(s) - 1
  BY <1>2, FS_RemoveElement
<1>. HIDE DEF D
<1>4. 0 \in T
  <2>1. \A s \in SUBSET D : Cardinality(s) <= 0 => s = {}
    BY <1>2, FS_EmptySet
  <2>2. Ok([s \in SUBSET D |-> 0], 0)
    BY <2>1
  <2>. HIDE DEF Ok
  <2>3. QED
    BY <1>1, <2>2
<1>5. ASSUME NEW n \in 1..Cardinality(D), n - 1 \in T PROVE n \in T
  <2>1. PICK g : Ok(g, n - 1)
    BY <1>5
  <2>. DEFINE h == Body(g)
  <2>2. \A s \in SUBSET D : h[s] = Step(g, s)
    OBVIOUS
  <2>. HIDE DEF h
  <2>3. ASSUME NEW s \in SUBSET D, Cardinality(s) <= n
        PROVE  h[s] = Step(h, s)
    <3>1. CASE s = {}
      BY <2>2, <3>1
    <3>2. CASE s # {}
      <4>1. PICK x : x = (CHOOSE y \in s : TRUE)
        OBVIOUS
      <4>2. s \ {x} \in SUBSET D /\ Cardinality(s \ {x}) = Cardinality(s) - 1
        BY <1>3, <3>2, <4>1
      <4>3. Cardinality(s \ {x}) <= n - 1
        BY <1>2, <2>3, <4>2
      <4>4. h[s \ {x}] = g[s \ {x}]
        BY <2>1, <2>2, <4>2, <4>3
      <4>5. QED
        BY <2>2, <3>2, <4>1, <4>4
    <3>3. QED
      BY <3>1, <3>2
  <2>4. Ok(h, n)
    BY <2>3
  <2>. HIDE DEF Ok
  <2>5. QED
    BY <2>4
<1>6. PICK g : Ok(g, Cardinality(D))
  <2>1. Cardinality(D) \in T
    <3>. HIDE DEF T
    <3>1. QED
      BY <1>1, <1>4, <1>5, Induction
  <2>2. QED
    BY <2>1
<1>. DEFINE h == [s \in SUBSET D |-> g[s]]
<1>7. h = Body(h)
  BY <1>2, <1>6
<1>. DEFINE i == CHOOSE i : i = Body(i)
<1>8. i = Body(i)
  BY <1>7
<1>9. Total(f) = i[D]
  BY DEF Total, MapThenSumSet, MapThenFoldSet, D
<1>. HIDE DEF i
<1>10. \A s \in SUBSET D : i[s] = Step(i, s)
  BY <1>8
<1>11. QED
  <2>1. i[{}] = 0
    BY <1>10
  <2>2. \A s \in SUBSET D : s # {} => \E x \in s : i[s] = f[x] + i[s \ {x}]
    BY <1>3, <1>10
  <2>3. QED
    BY <1>9, <2>1, <2>2 DEF D, Sums

IntOn(f, D) == \A x \in D : f[x] \in Int

\* Addition is commutative: the recursion may take any element first.
LEMMA AnyElementFirst ==
    ASSUME NEW D, IsFiniteSet(D), NEW f, IntOn(f, D), NEW g, Sums(g, f, D)
    PROVE  \A s \in SUBSET D : g[s] \in Int /\ \A x \in s : g[s] = f[x] + g[s \ {x}]
<1>. DEFINE Good(s) == g[s] \in Int /\ \A x \in s : g[s] = f[x] + g[s \ {x}]
            T == {n \in 0..Cardinality(D) : \A s \in SUBSET D : Cardinality(s) <= n => Good(s)}
<1>1. Cardinality(D) \in Nat
  BY FS_CardinalityType
<1>2. \A s \in SUBSET D : IsFiniteSet(s) /\ Cardinality(s) \in Nat /\ Cardinality(s) <= Cardinality(D)
  BY FS_Subset, FS_CardinalityType
<1>3. \A s \in SUBSET D : \A x \in s : Cardinality(s \ {x}) = Cardinality(s) - 1
  BY <1>2, FS_RemoveElement
<1>4. 0 \in T
  <2>1. \A s \in SUBSET D : Cardinality(s) <= 0 => s = {}
    BY <1>2, FS_EmptySet
  <2>2. Good({})
    BY DEF Sums
  <2>. HIDE DEF Good
  <2>3. \A s \in SUBSET D : Cardinality(s) <= 0 => Good(s)
    BY <2>1, <2>2
  <2>4. QED
    BY <1>1, <2>3
<1>5. ASSUME NEW n \in 1..Cardinality(D), n - 1 \in T PROVE n \in T
  <2>. HIDE DEF Good
  <2>0. Good({})
    BY DEF Sums, Good
  <2>. SUFFICES ASSUME NEW s \in SUBSET D, Cardinality(s) <= n, s # {} PROVE Good(s)
    BY <2>0
  <2>1. PICK y \in s : g[s] = f[y] + g[s \ {y}]
    BY DEF Sums
  <2>2. \A x \in s : s \ {x} \in SUBSET D /\ Good(s \ {x})
    <3>1. \A x \in s : s \ {x} \in SUBSET D /\ Cardinality(s \ {x}) <= n - 1
      BY <1>2, <1>3
    <3>2. QED
      BY <1>5, <3>1
  <2>3. g[s \ {y}] \in Int /\ f[y] \in Int /\ g[s] \in Int
    <3>1. PICK u : u = s \ {y}
      OBVIOUS
    <3>2. Good(u) /\ y \in D
      BY <2>2, <3>1
    <3>3. g[u] \in Int /\ f[y] \in Int
      BY <3>2 DEF Good, IntOn
    <3>4. QED
      BY <2>1, <3>1, <3>3
  <2>. USE DEF Good
  <2>4. ASSUME NEW x \in s PROVE g[s] = f[x] + g[s \ {x}]
    <3>1. CASE x = y
      BY <2>1, <3>1
    <3>2. CASE x # y
      <4>1. x \in s \ {y} /\ y \in s \ {x} /\ (s \ {x}) \ {y} = (s \ {y}) \ {x}
        BY <3>2
      <4>2. PICK r : r = (s \ {x}) \ {y}
        OBVIOUS
      <4>3. g[s \ {y}] = f[x] + g[r] /\ g[s \ {x}] = f[y] + g[r]
        <5>1. PICK u : u = s \ {y}
          OBVIOUS
        <5>2. PICK v : v = s \ {x}
          OBVIOUS
        <5>3. x \in u /\ y \in v /\ u \ {x} = r /\ v \ {y} = r
          BY <4>1, <4>2, <5>1, <5>2
        <5>4. Good(u) /\ Good(v)
          BY <2>2, <5>1, <5>2
        <5>5. QED
          BY <5>1, <5>2, <5>3, <5>4
      <4>4. r \in SUBSET D /\ Cardinality(r) <= n - 1
        <5>1. s \ {x} \in SUBSET D /\ y \in s \ {x}
          BY <4>1
        <5>2. Cardinality(r) = Cardinality(s \ {x}) - 1 /\ Cardinality(s \ {x}) = Cardinality(s) - 1
          BY <1>3, <4>2, <5>1
        <5>3. QED
          BY <1>2, <4>2, <5>1, <5>2
      <4>5. g[r] \in Int /\ f[x] \in Int
        BY <1>5, <4>4 DEF IntOn
      <4>6. QED
        BY <2>1, <2>3, <4>3, <4>5
    <3>3. QED
      BY <3>1, <3>2
  <2>5. QED
    BY <2>3, <2>4
<1>6. Cardinality(D) \in T
  <2>. HIDE DEF T
  <2>1. QED
    BY <1>1, <1>4, <1>5, Induction
<1>7. QED
  BY <1>2, <1>6

LEMMA TotalEmpty ==
    ASSUME NEW f, DOMAIN f = {}
    PROVE  Total(f) = 0
BY TotalLoop, FS_EmptySet DEF Sums

\* One element is apart from the others.
LEMMA TotalStep ==
    ASSUME NEW D, IsFiniteSet(D), NEW f \in [D -> Int], NEW x \in D
    PROVE  Total(f) \in Int /\ Total(f) = f[x] + Total([y \in D \ {x} |-> f[y]])
<1>. DEFINE E == D \ {x}
            e == [y \in E |-> f[y]]
<1>1. IsFiniteSet(E) /\ E \in SUBSET D
  BY FS_Subset
<1>2. PICK g : Sums(g, f, D) /\ Total(f) = g[D]
  <2>1. DOMAIN f = D
    OBVIOUS
  <2>2. QED
    BY <2>1, TotalLoop
<1>3. DOMAIN e = E /\ \A y \in E : e[y] = f[y] /\ e[y] \in Int
  OBVIOUS
<1>. HIDE DEF e, E
<1>4. PICK h : Sums(h, e, E) /\ Total(e) = h[E]
  BY <1>1, <1>3, TotalLoop
<1>5. \A s \in SUBSET D : g[s] \in Int /\ \A y \in s : g[s] = f[y] + g[s \ {y}]
  <2>1. IntOn(f, D) /\ Sums(g, f, D) /\ IsFiniteSet(D)
    BY <1>2 DEF IntOn
  <2>2. QED
    BY <2>1, AnyElementFirst
<1>6. \A s \in SUBSET E : h[s] \in Int /\ \A y \in s : h[s] = e[y] + h[s \ {y}]
  <2>1. IntOn(e, E)
    BY <1>3 DEF IntOn
  <2>2. Sums(h, e, E) /\ IsFiniteSet(E)
    BY <1>1, <1>4
  <2>3. QED
    BY <2>1, <2>2, AnyElementFirst
<1>7. g[E] = h[E]
  <2>. DEFINE P == {s \in SUBSET E : g[s] = h[s]}
  <2>1. {} \in P
    BY <1>2, <1>4 DEF Sums
  <2>2. ASSUME NEW s \in SUBSET E, NEW y \in E, s \in P, y \notin s
        PROVE  s \cup {y} \in P
    <3>1. PICK t : t = s \cup {y}
      OBVIOUS
    <3>2. t \in SUBSET E /\ t \in SUBSET D /\ y \in t /\ t \ {y} = s
      BY <1>1, <2>2, <3>1
    <3>3. g[t] = f[y] + g[s] /\ h[t] = e[y] + h[s]
      BY <1>5, <1>6, <3>2
    <3>4. QED
      BY <1>3, <2>2, <3>1, <3>2, <3>3
  <2>. HIDE DEF P
  <2>3. E \in P
    BY <1>1, <2>1, <2>2, SetInduction
  <2>. USE DEF P
  <2>4. QED
    BY <2>3
<1>8. D \in SUBSET D /\ g[D] \in Int /\ g[D] = f[x] + g[E]
  BY <1>5 DEF E
<1>9. QED
  BY <1>2, <1>4, <1>7, <1>8 DEF e, E

\* The sum of f over S, for the inductions that follow.
Part(f, S) == Total([x \in S |-> f[x]])

LEMMA PartFacts ==
    ASSUME NEW S, IsFiniteSet(S), NEW f, IntOn(f, S)
    PROVE  /\ Part(f, S) \in Int
           /\ Part(f, {}) = 0
           /\ \A x \in S : Part(f, S) = f[x] + Part(f, S \ {x})
<1>. DEFINE e == [x \in S |-> f[x]]
<1>1. e \in [S -> Int] /\ \A x \in S : e[x] = f[x]
  BY DEF IntOn
<1>2. Part(f, {}) = 0
  BY TotalEmpty DEF Part
<1>3. Part(f, S) = Total(e)
  BY DEF Part
<1>4. \A x \in S : Part(f, S \ {x}) = Total([y \in S \ {x} |-> e[y]])
  <2>. SUFFICES ASSUME NEW x \in S PROVE Part(f, S \ {x}) = Total([y \in S \ {x} |-> e[y]])
    OBVIOUS
  <2>1. [y \in S \ {x} |-> e[y]] = [y \in S \ {x} |-> f[y]]
    BY <1>1
  <2>2. QED
    BY <2>1 DEF Part
<1>. HIDE DEF e
<1>5. \A x \in S : Total(e) \in Int /\ Total(e) = e[x] + Total([y \in S \ {x} |-> e[y]])
  BY <1>1, TotalStep
<1>6. Part(f, S) \in Int
  <2>1. CASE S = {}
    BY <1>2, <2>1
  <2>2. CASE S # {}
    BY <1>3, <1>5, <2>2
  <2>3. QED
    BY <2>1, <2>2
<1>7. QED
  BY <1>1, <1>2, <1>3, <1>4, <1>5, <1>6

\* ... and with one element more.
LEMMA PartMore ==
    ASSUME NEW D, IsFiniteSet(D), NEW f, IntOn(f, D)
    PROVE  \A S \in SUBSET D, x \in D :
             x \notin S => Part(f, S \cup {x}) = f[x] + Part(f, S) /\ Part(f, S) \in Int
<1>. SUFFICES ASSUME NEW S \in SUBSET D, NEW x \in D, x \notin S
              PROVE  Part(f, S \cup {x}) = f[x] + Part(f, S) /\ Part(f, S) \in Int
  OBVIOUS
<1>1. PICK t : t = S \cup {x}
  OBVIOUS
<1>2. t \in SUBSET D /\ t \ {x} = S /\ x \in t
  BY <1>1
<1>3. IsFiniteSet(t) /\ IsFiniteSet(S) /\ IntOn(f, t) /\ IntOn(f, S)
  BY <1>2, FS_Subset DEF IntOn
<1>4. QED
  BY <1>1, <1>2, <1>3, PartFacts


\* Sums are linear, and zeros do not count.
SumOf(h, f, g, D) == \A x \in D : h[x] = f[x] + g[x]
Multiple(h, c, f, D) == \A x \in D : h[x] = c * f[x]
ZeroOutside(f, D, E) == E \subseteq D /\ \A x \in D \ E : f[x] = 0

LEMMA PartAdd ==
    ASSUME NEW D, IsFiniteSet(D), NEW f, IntOn(f, D), NEW g, IntOn(g, D),
           NEW h, SumOf(h, f, g, D)
    PROVE  Part(h, D) = Part(f, D) + Part(g, D)
<1>. DEFINE P == {S \in SUBSET D : Part(h, S) = Part(f, S) + Part(g, S)}
<1>1. IntOn(h, D)
  BY DEF IntOn, SumOf
<1>2. Part(f, {}) = 0 /\ Part(g, {}) = 0 /\ Part(h, {}) = 0
  BY <1>1, PartFacts
<1>3. \A S \in SUBSET D, x \in D :
        x \notin S => /\ Part(f, S \cup {x}) = f[x] + Part(f, S) /\ Part(f, S) \in Int
                      /\ Part(g, S \cup {x}) = g[x] + Part(g, S) /\ Part(g, S) \in Int
                      /\ Part(h, S \cup {x}) = h[x] + Part(h, S)
  <2>1. \A S \in SUBSET D, x \in D :
          x \notin S => Part(f, S \cup {x}) = f[x] + Part(f, S) /\ Part(f, S) \in Int
    BY PartMore
  <2>2. \A S \in SUBSET D, x \in D :
          x \notin S => Part(g, S \cup {x}) = g[x] + Part(g, S) /\ Part(g, S) \in Int
    BY PartMore
  <2>3. \A S \in SUBSET D, x \in D :
          x \notin S => Part(h, S \cup {x}) = h[x] + Part(h, S)
    BY <1>1, PartMore
  <2>4. QED
    BY <2>1, <2>2, <2>3
<1>4. {} \in P
  BY <1>2
<1>5. \A S \in SUBSET D, x \in D : S \in P /\ x \notin S => S \cup {x} \in P
  <2>. SUFFICES ASSUME NEW S \in SUBSET D, NEW x \in D, S \in P, x \notin S
                PROVE  S \cup {x} \in P
    OBVIOUS
  <2>1. f[x] \in Int /\ g[x] \in Int /\ h[x] = f[x] + g[x]
    BY DEF IntOn, SumOf
  <2>2. QED
    BY <1>3, <2>1
<1>6. D \in P
  <2>. HIDE DEF P
  <2>1. QED
    BY <1>4, <1>5, SetInduction
<1>7. QED
  BY <1>6

LEMMA PartScale ==
    ASSUME NEW D, IsFiniteSet(D), NEW f, IntOn(f, D), NEW c \in Int, NEW h, Multiple(h, c, f, D)
    PROVE  Part(h, D) = c * Part(f, D)
<1>. DEFINE P == {S \in SUBSET D : Part(h, S) = c * Part(f, S)}
<1>1. IntOn(h, D)
  BY DEF IntOn, Multiple
<1>2. Part(f, {}) = 0 /\ Part(h, {}) = 0
  BY <1>1, PartFacts
<1>3. \A S \in SUBSET D, x \in D :
        x \notin S => Part(f, S \cup {x}) = f[x] + Part(f, S) /\ Part(f, S) \in Int
  BY PartMore
<1>4. \A S \in SUBSET D, x \in D : x \notin S => Part(h, S \cup {x}) = h[x] + Part(h, S)
  BY <1>1, PartMore
<1>5. {} \in P
  BY <1>2
<1>6. \A S \in SUBSET D, x \in D : S \in P /\ x \notin S => S \cup {x} \in P
  <2>. SUFFICES ASSUME NEW S \in SUBSET D, NEW x \in D, S \in P, x \notin S
                PROVE  S \cup {x} \in P
    OBVIOUS
  <2>1. f[x] \in Int /\ h[x] = c * f[x]
    BY DEF IntOn, Multiple
  <2>2. \A a, b \in Int : c * (a + b) = c * a + c * b
    OBVIOUS
  <2>3. c * (f[x] + Part(f, S)) = c * f[x] + c * Part(f, S)
    BY <1>3, <2>1, <2>2
  <2>4. QED
    BY <1>3, <1>4, <2>1, <2>3
<1>7. D \in P
  <2>. HIDE DEF P
  <2>1. QED
    BY <1>5, <1>6, SetInduction
<1>8. QED
  BY <1>7

LEMMA PartSupport ==
    ASSUME NEW D, IsFiniteSet(D), NEW f, IntOn(f, D), NEW E, ZeroOutside(f, D, E)
    PROVE  Part(f, D) = Part(f, E)
<1>. DEFINE P == {S \in SUBSET D : Part(f, S) = Part(f, S \cap E)}
<1>1. \A S \in SUBSET D, x \in D :
        x \notin S => Part(f, S \cup {x}) = f[x] + Part(f, S) /\ Part(f, S) \in Int
  BY PartMore
<1>2. {} \in P
  <2>1. {} \cap E = {}
    OBVIOUS
  <2>2. QED
    BY <2>1
<1>3. \A S \in SUBSET D, x \in D : S \in P /\ x \notin S => S \cup {x} \in P
  <2>. SUFFICES ASSUME NEW S \in SUBSET D, NEW x \in D, S \in P, x \notin S
                PROVE  Part(f, S \cup {x}) = Part(f, (S \cup {x}) \cap E)
    OBVIOUS
  <2>1. Part(f, S \cup {x}) = f[x] + Part(f, S) /\ Part(f, S) \in Int
    BY <1>1
  <2>2. PICK s : s = S \cap E
    OBVIOUS
  <2>3. s \in SUBSET D /\ x \notin s /\ Part(f, S) = Part(f, s)
    BY <2>2
  <2>4. CASE x \in E
    <3>1. (S \cup {x}) \cap E = s \cup {x}
      BY <2>2, <2>4
    <3>2. Part(f, s \cup {x}) = f[x] + Part(f, s)
      BY <1>1, <2>3
    <3>3. QED
      BY <2>1, <2>3, <3>1, <3>2
  <2>5. CASE x \notin E
    <3>1. (S \cup {x}) \cap E = s
      BY <2>2, <2>5
    <3>2. f[x] = 0
      BY <2>5 DEF ZeroOutside
    <3>3. QED
      BY <2>1, <2>3, <3>1, <3>2
  <2>6. QED
    BY <2>4, <2>5
<1>4. D \in P
  <2>. HIDE DEF P
  <2>1. QED
    BY <1>2, <1>3, SetInduction
<1>5. D \cap E = E
  BY DEF ZeroOutside
<1>6. QED
  BY <1>4, <1>5

\* Elements summed class by class.
Fibre(b, S, e) == {x \in S : b[x] = e}
ByClass(f, b, S, E) == [e \in E |-> Part(f, Fibre(b, S, e))]

LEMMA PartFibres ==
    ASSUME NEW D, IsFiniteSet(D), NEW f, IntOn(f, D), NEW E, IsFiniteSet(E), NEW b \in [D -> E]
    PROVE  Part(f, D) = Part(ByClass(f, b, D, E), E)
<1>. DEFINE c(S) == ByClass(f, b, S, E)
            P == {S \in SUBSET D : Part(f, S) = Part(c(S), E)}
<1>1. \A S \in SUBSET D, x \in D :
        x \notin S => Part(f, S \cup {x}) = f[x] + Part(f, S) /\ Part(f, S) \in Int
  BY PartMore
<1>2. ASSUME NEW S \in SUBSET D PROVE IntOn(c(S), E)
  <2>1. ASSUME NEW e \in E PROVE c(S)[e] \in Int
    <3>1. PICK T : T = Fibre(b, S, e)
      OBVIOUS
    <3>2. T \in SUBSET D /\ IsFiniteSet(T) /\ IntOn(f, T)
      BY <3>1, FS_Subset DEF Fibre, IntOn
    <3>3. Part(f, T) \in Int
      BY <3>2, PartFacts
    <3>4. QED
      BY <3>1, <3>3 DEF ByClass
  <2>2. QED
    BY <2>1 DEF IntOn
<1>3. {} \in P
  <2>1. Part(f, {}) = 0
    BY PartFacts
  <2>2. \A e \in E : c({})[e] = 0
    <3>1. \A e : Fibre(b, {}, e) = {}
      BY DEF Fibre
    <3>2. QED
      BY <2>1, <3>1 DEF ByClass
  <2>3. PICK z : z = c({})
    OBVIOUS
  <2>4. IntOn(z, E) /\ ZeroOutside(z, E, {})
    BY <2>2, <2>3 DEF IntOn, ZeroOutside
  <2>5. Part(z, E) = Part(z, {}) /\ Part(z, {}) = 0
    BY <2>4, PartSupport, PartFacts
  <2>6. QED
    BY <2>1, <2>3, <2>5
<1>4. \A S \in SUBSET D, x \in D : S \in P /\ x \notin S => S \cup {x} \in P
  <2>. SUFFICES ASSUME NEW S \in SUBSET D, NEW x \in D, S \in P, x \notin S
                PROVE  S \cup {x} \in P
    OBVIOUS
  <2>1. PICK T : T = S \cup {x}
    OBVIOUS
  <2>2. PICK u : u = c(S)
    OBVIOUS
  <2>3. PICK v : v = c(T)
    OBVIOUS
  <2>4. T \in SUBSET D /\ IntOn(u, E) /\ IntOn(v, E) /\ b[x] \in E /\ f[x] \in Int
    BY <1>2, <2>1, <2>2, <2>3 DEF IntOn
  <2>5. v[b[x]] = f[x] + u[b[x]]
    <3>1. Fibre(b, T, b[x]) = Fibre(b, S, b[x]) \cup {x}
      BY <2>1 DEF Fibre
    <3>2. PICK F : F = Fibre(b, S, b[x])
      OBVIOUS
    <3>3. F \in SUBSET D /\ x \notin F
      BY <3>2 DEF Fibre
    <3>4. Part(f, F \cup {x}) = f[x] + Part(f, F)
      BY <1>1, <3>3
    <3>5. QED
      BY <2>2, <2>3, <2>4, <3>1, <3>2, <3>4 DEF ByClass
  <2>6. Part(u, E \ {b[x]}) = Part(v, E \ {b[x]})
    <3>1. \A e \in E \ {b[x]} : Fibre(b, T, e) = Fibre(b, S, e)
      BY <2>1 DEF Fibre
    <3>2. \A e \in E \ {b[x]} : u[e] = v[e]
      BY <2>2, <2>3, <3>1 DEF ByClass
    <3>3. [e \in E \ {b[x]} |-> u[e]] = [e \in E \ {b[x]} |-> v[e]]
      BY <3>2
    <3>4. QED
      BY <3>3 DEF Part
  <2>7. /\ Part(u, E) = u[b[x]] + Part(u, E \ {b[x]})
        /\ Part(v, E) = v[b[x]] + Part(v, E \ {b[x]})
    BY <2>4, PartFacts
  <2>8. Part(u, E \ {b[x]}) \in Int /\ u[b[x]] \in Int
    <3>1. PICK F : F = E \ {b[x]}
      OBVIOUS
    <3>2. IsFiniteSet(F) /\ IntOn(u, F)
      BY <2>4, <3>1, FS_Subset DEF IntOn
    <3>3. Part(u, F) \in Int
      BY <3>2, PartFacts
    <3>4. QED
      BY <2>4, <3>1, <3>3 DEF IntOn
  <2>9. Part(v, E) = f[x] + Part(u, E)
    BY <2>4, <2>5, <2>6, <2>7, <2>8
  <2>10. Part(f, T) = f[x] + Part(f, S) /\ Part(f, S) = Part(u, E)
    BY <1>1, <2>1, <2>2
  <2>11. QED
    BY <2>1, <2>3, <2>4, <2>9, <2>10
<1>5. D \in P
  <2>. HIDE DEF P
  <2>1. QED
    BY <1>3, <1>4, SetInduction
<1>6. QED
  BY <1>5

\* Elements under other names.
Renamed(f, D, b, g, E) ==
    /\ b \in [D -> E]
    /\ \A x, y \in D : b[x] = b[y] => x = y
    /\ \A e \in E : \E x \in D : b[x] = e
    /\ \A x \in D : f[x] = g[b[x]]

LEMMA PartRenamed ==
    ASSUME NEW D, IsFiniteSet(D), NEW f, IntOn(f, D), NEW E, IsFiniteSet(E),
           NEW b, NEW g, Renamed(f, D, b, g, E)
    PROVE  Part(f, D) = Part(g, E)
<1>1. b \in [D -> E]
  BY DEF Renamed
<1>2. Part(f, D) = Part(ByClass(f, b, D, E), E)
  BY <1>1, PartFibres
<1>3. \A e \in E : ByClass(f, b, D, E)[e] = g[e]
  <2>. SUFFICES ASSUME NEW e \in E PROVE Part(f, Fibre(b, D, e)) = g[e]
    BY DEF ByClass
  <2>1. PICK x \in D : b[x] = e
    BY DEF Renamed
  <2>2. PICK T : T = {x}
    OBVIOUS
  <2>3. Fibre(b, D, e) = T /\ T \ {x} = {} /\ x \in T
    BY <2>1, <2>2 DEF Fibre, Renamed
  <2>4. IsFiniteSet(T) /\ IntOn(f, T) /\ f[x] \in Int /\ f[x] = g[e]
    BY <2>1, <2>2, FS_Singleton DEF IntOn, Renamed
  <2>5. Part(f, T) = f[x] + Part(f, T \ {x}) /\ Part(f, {}) = 0
    BY <2>3, <2>4, PartFacts
  <2>6. QED
    BY <2>3, <2>4, <2>5
<1>4. [e \in E |-> ByClass(f, b, D, E)[e]] = [e \in E |-> g[e]]
  BY <1>3
<1>5. QED
  BY <1>2, <1>4 DEF Part

\* A table summed by rows or by columns.
RowSums(f, D, E) == [x \in D |-> Part([y \in E |-> f[<<x, y>>]], E)]
ColumnSums(f, D, E) == [y \in E |-> Part([x \in D |-> f[<<x, y>>]], D)]

LEMMA PartPairs ==
    ASSUME NEW D, IsFiniteSet(D), NEW E, IsFiniteSet(E), NEW f, IntOn(f, D \X E)
    PROVE  /\ Part(f, D \X E) = Part(RowSums(f, D, E), D)
           /\ Part(f, D \X E) = Part(ColumnSums(f, D, E), E)
<1>. DEFINE DE == D \X E
            left == [p \in DE |-> p[1]]
            right == [p \in DE |-> p[2]]
<1>1. IsFiniteSet(DE) /\ IntOn(f, DE) /\ left \in [DE -> D] /\ right \in [DE -> E]
  BY FS_Product
<1>2. ASSUME NEW x \in D
      PROVE  ByClass(f, left, DE, D)[x] = Part([y \in E |-> f[<<x, y>>]], E)
  <2>1. PICK T : T = Fibre(left, DE, x)
    OBVIOUS
  <2>2. PICK g : g = [y \in E |-> f[<<x, y>>]]
    OBVIOUS
  <2>3. PICK b : b = [p \in T |-> p[2]]
    OBVIOUS
  <2>4. IsFiniteSet(T) /\ IntOn(f, T)
    BY <1>1, <2>1, FS_Subset DEF Fibre, IntOn
  <2>5. \A p : p \in T <=> \E y \in E : p = <<x, y>>
    BY <2>1 DEF Fibre
  <2>6. Renamed(f, T, b, g, E)
    <3>1. b \in [T -> E] /\ \A y \in E : <<x, y>> \in T /\ b[<<x, y>>] = y
      BY <2>3, <2>5
    <3>2. \A p, q \in T : b[p] = b[q] => p = q
      BY <2>3, <2>5
    <3>3. \A p \in T : f[p] = g[b[p]]
      BY <2>2, <2>3, <2>5
    <3>4. QED
      BY <3>1, <3>2, <3>3 DEF Renamed
  <2>7. Part(f, T) = Part(g, E)
    BY <2>4, <2>6, PartRenamed
  <2>8. QED
    BY <2>1, <2>2, <2>7 DEF ByClass
<1>3. ASSUME NEW y \in E
      PROVE  ByClass(f, right, DE, E)[y] = Part([x \in D |-> f[<<x, y>>]], D)
  <2>1. PICK T : T = Fibre(right, DE, y)
    OBVIOUS
  <2>2. PICK g : g = [x \in D |-> f[<<x, y>>]]
    OBVIOUS
  <2>3. PICK b : b = [p \in T |-> p[1]]
    OBVIOUS
  <2>4. IsFiniteSet(T) /\ IntOn(f, T)
    BY <1>1, <2>1, FS_Subset DEF Fibre, IntOn
  <2>5. \A p : p \in T <=> \E x \in D : p = <<x, y>>
    BY <2>1 DEF Fibre
  <2>6. Renamed(f, T, b, g, D)
    <3>1. b \in [T -> D] /\ \A x \in D : <<x, y>> \in T /\ b[<<x, y>>] = x
      BY <2>3, <2>5
    <3>2. \A p, q \in T : b[p] = b[q] => p = q
      BY <2>3, <2>5
    <3>3. \A p \in T : f[p] = g[b[p]]
      BY <2>2, <2>3, <2>5
    <3>4. QED
      BY <3>1, <3>2, <3>3 DEF Renamed
  <2>7. Part(f, T) = Part(g, D)
    BY <2>4, <2>6, PartRenamed
  <2>8. QED
    BY <2>1, <2>2, <2>7 DEF ByClass
<1>. HIDE DEF DE, left, right
<1>4. Part(f, DE) = Part(ByClass(f, left, DE, D), D)
  BY <1>1, PartFibres
<1>5. Part(f, DE) = Part(ByClass(f, right, DE, E), E)
  BY <1>1, PartFibres
<1>6. ByClass(f, left, DE, D) = RowSums(f, D, E)
  BY <1>2 DEF ByClass, RowSums
<1>7. ByClass(f, right, DE, E) = ColumnSums(f, D, E)
  BY <1>3 DEF ByClass, ColumnSums
<1>8. QED
  BY <1>4, <1>5, <1>6, <1>7 DEF DE

-----------------------------------------------------------------------------
(* Whole numbers go in, whole numbers come out *)

IntTable(f) == IntOn(f, DOMAIN f)

LEMMA TotalIsInt ==
    ASSUME NEW f, IsFiniteSet(DOMAIN f), IntTable(f), f = [x \in DOMAIN f |-> f[x]]
    PROVE  Total(f) \in Int
<1>1. Part(f, DOMAIN f) \in Int
  BY PartFacts DEF IntTable
<1>2. QED
  BY <1>1 DEF Part

LEMMA MeansAreInt ==
    ASSUME NEW rows, IsFiniteSet(rows), rows # {}, CountedIn(rows)
    PROVE  Mean(rows) \in Int /\ MeanAbs(rows) \in Int
<1>1. Cardinality(rows) \in Nat /\ Cardinality(rows) # 0
  BY FS_CardinalityType, FS_EmptySet
<1>2. PICK f : f = [r \in rows |-> r.cf]
  OBVIOUS
<1>3. PICK g : g = [r \in rows |-> Abs(r.cf)]
  OBVIOUS
<1>4. \A n \in Int : Abs(n) \in Int
  BY DEF Abs
<1>5. IntTable(f) /\ IntTable(g)
  BY <1>2, <1>3, <1>4 DEF IntTable, IntOn, CountedIn
<1>6. Total(f) \in Int
  BY <1>2, <1>5, TotalIsInt
<1>7. Total(g) \in Int
  BY <1>3, <1>5, TotalIsInt
<1>8. \A a \in Int, n \in Nat : n # 0 => a \div n \in Int
  OBVIOUS
<1>9. QED
  BY <1>1, <1>2, <1>3, <1>6, <1>7, <1>8 DEF Mean, MeanAbs

LEMMA EfCfsAreInt ==
    ASSUME NEW jrc, IsFiniteSet(jrc), CountedIn(jrc), NEW m
    PROVE  IntTable(EfCfs(jrc, m))
<1>. DEFINE rows == {r \in jrc : r.method = m /\ r.uuid # ""}
<1>1. ASSUME NEW r \in rows
      PROVE  GlobalCf({q \in rows : q.uuid = r.uuid}) \in Int
  <2>1. PICK T : T = {q \in rows : q.uuid = r.uuid}
    OBVIOUS
  <2>2. PICK U : U = {q \in T : q.loc = ""}
    OBVIOUS
  <2>3. IsFiniteSet(T) /\ IsFiniteSet(U) /\ CountedIn(T) /\ CountedIn(U) /\ T # {}
    BY <2>1, <2>2, FS_Subset DEF CountedIn
  <2>4. U # {} => Mean(U) \in Int
    BY <2>3, MeansAreInt
  <2>5. Mean(T) \in Int
    BY <2>3, MeansAreInt
  <2>6. QED
    BY <2>1, <2>2, <2>4, <2>5 DEF GlobalCf
<1>2. ASSUME NEW k \in {<<"ef", r.uuid, "">> : r \in rows}
      PROVE  GlobalCf({q \in rows : q.uuid = k[2]}) \in Int
  <2>1. PICK r \in rows : k = <<"ef", r.uuid, "">>
    BY <1>2
  <2>2. k[2] = r.uuid
    BY <2>1
  <2>3. {q \in rows : q.uuid = k[2]} = {q \in rows : q.uuid = r.uuid}
    BY <2>2
  <2>4. QED
    BY <1>1, <2>3
<1>3. QED
  BY <1>2 DEF EfCfs, IntTable, IntOn

LEMMA InheritedAreInt ==
    ASSUME NEW rows, CountedIn(rows)
    PROVE  IntTable(Inherited(rows))
BY DEF Inherited, IntTable, IntOn, CountedIn

LEMMA BridgeIsInt ==
    ASSUME NEW bridge, bridge # NoFile => \A i \in DOMAIN bridge : bridge[i].cf \in Int
    PROVE  IntTable(BridgeRows(bridge))
<1>1. CASE bridge = NoFile
  BY <1>1 DEF BridgeRows, IntTable, IntOn
<1>2. CASE bridge # NoFile
  <2>1. ASSUME NEW k \in {<<"bio", bridge[i].uuid, "">> : i \in DOMAIN bridge}
        PROVE  (CHOOSE i \in DOMAIN bridge : bridge[i].uuid = k[2]) \in DOMAIN bridge
    <3>1. PICK i \in DOMAIN bridge : k = <<"bio", bridge[i].uuid, "">>
      BY <2>1
    <3>2. bridge[i].uuid = k[2]
      BY <3>1
    <3>3. QED
      BY <3>2
  <2>2. QED
    BY <1>2, <2>1 DEF BridgeRows, IntTable, IntOn
<1>3. QED
  BY <1>1, <1>2

LEMMA CfsAreInt ==
    ASSUME NEW S \in Editions, S.snapshot # NoFile, NEW m \in DOMAIN S.snapshot, NEW T
    PROVE  IntTable(Cfs(S, T, m))
<1>1. /\ IsFiniteSet(S.jrc) /\ CountedIn(S.jrc) /\ CountedIn(S.snapshot[m])
      /\ S.bridge # NoFile => \A i \in DOMAIN S.bridge : S.bridge[i].cf \in Int
  BY EditionAssumption
<1>2. IntTable(EfCfs(S.jrc, m))
  BY <1>1, EfCfsAreInt
<1>3. IntTable(Inherited(S.snapshot[m]))
  BY <1>1, InheritedAreInt
<1>4. IntTable(BridgeRows(S.bridge))
  BY <1>1, BridgeIsInt
<1>5. \A f, g : IntTable(f) /\ IntTable(g) => IntTable(Over(f, g))
  BY DEF IntTable, IntOn, Over
<1>6. IntTable(Unfiltered(S, m))
  BY <1>2, <1>3, <1>4, <1>5 DEF Unfiltered, MergeGaps
<1>7. \A f, D : IntTable(f) => IntTable(Keeping(f, D))
  BY DEF IntTable, IntOn, Keeping
<1>8. QED
  BY <1>6, <1>7 DEF Cfs

\* A country's magnitude is one of rows that are there.
LEMMA CountriesAreInt ==
    ASSUME NEW jrc, IsFiniteSet(jrc), CountedIn(jrc)
    PROVE  /\ IntTable(WaterCf(jrc))
           /\ \A m, flow : IntTable(RegionalCf(jrc, m, flow))
<1>1. \A R \in SUBSET jrc : R # {} => MeanAbs(R) \in Int
  <2>. SUFFICES ASSUME NEW R \in SUBSET jrc, R # {} PROVE MeanAbs(R) \in Int
    OBVIOUS
  <2>1. IsFiniteSet(R) /\ CountedIn(R)
    BY FS_Subset DEF CountedIn
  <2>2. QED
    BY <2>1, MeansAreInt
<1>2. IntTable(WaterCf(jrc))
  <2>1. \A l : {r \in jrc : r.method = WaterUse /\ r.loc = l} \in SUBSET jrc
    OBVIOUS
  <2>2. QED
    BY <1>1, <2>1 DEF WaterCf, IntTable, IntOn
<1>3. \A m, flow : IntTable(RegionalCf(jrc, m, flow))
  <2>1. \A m, flow, l : {r \in jrc : r.method = m /\ r.loc = l /\ r.name = flow.name
                                     /\ Jrc2BioTop[r.top] = flow.top} \in SUBSET jrc
    OBVIOUS
  <2>2. QED
    BY <1>1, <2>1 DEF RegionalCf, IntTable, IntOn
<1>4. QED
  BY <1>2, <1>3

LEMMA RegionalIsInt ==
    ASSUME NEW S \in Editions, NEW cfs, IntTable(cfs), NEW m
    PROVE  IntTable(RegionalRows(S, m, cfs)) /\ IntTable(RegionalWaterRows(S, cfs))
<1>1. IntTable(WaterCf(S.jrc)) /\ \A flow : IntTable(RegionalCf(S.jrc, m, flow))
  BY CountriesAreInt, EditionAssumption
<1>2. \A n, a \in Int : Sign(n) * a \in Int
  BY DEF Sign
<1>3. \A k, l : <<k, l>>[1] = k /\ <<k, l>>[2] = l
  OBVIOUS
<1>4. IntTable(RegionalWaterRows(S, cfs))
  <2>1. ASSUME NEW kl \in DOMAIN RegionalWaterRows(S, cfs)
        PROVE  kl[1] \in DOMAIN cfs /\ kl[2] \in DOMAIN WaterCf(S.jrc)
    BY <1>3 DEF RegionalWaterRows, RegionalOf
  <2>2. \A kl \in DOMAIN RegionalWaterRows(S, cfs) :
          RegionalWaterRows(S, cfs)[kl] = Sign(cfs[kl[1]]) * WaterCf(S.jrc)[kl[2]]
    BY DEF RegionalWaterRows, RegionalOf
  <2>3. QED
    BY <1>1, <1>2, <2>1, <2>2 DEF IntTable, IntOn
<1>5. IntTable(RegionalRows(S, m, cfs))
  <2>1. CASE m \in RegionalAllowlist
    <3>. DEFINE at(k) == IF k[1] = "bio" /\ k \in DOMAIN S.catalog
                         THEN RegionalCf(S.jrc, m, S.catalog[k]) ELSE <<>>
    <3>1. ASSUME NEW kl \in DOMAIN RegionalRows(S, m, cfs)
          PROVE  kl[1] \in DOMAIN cfs /\ kl[2] \in DOMAIN at(kl[1])
      BY <1>3, <2>1 DEF RegionalRows, RegionalOf
    <3>2. \A kl \in DOMAIN RegionalRows(S, m, cfs) :
            RegionalRows(S, m, cfs)[kl] = Sign(cfs[kl[1]]) * at(kl[1])[kl[2]]
      BY <2>1 DEF RegionalRows, RegionalOf
    <3>3. \A k : IntTable(at(k))
      BY <1>1 DEF IntTable, IntOn
    <3>. HIDE DEF at
    <3>4. ASSUME NEW kl \in DOMAIN RegionalRows(S, m, cfs)
          PROVE  RegionalRows(S, m, cfs)[kl] \in Int
      <4>1. PICK f : f = at(kl[1])
        OBVIOUS
      <4>2. cfs[kl[1]] \in Int /\ f[kl[2]] \in Int
        BY <3>1, <3>3, <4>1 DEF IntTable, IntOn
      <4>3. QED
        BY <1>2, <3>2, <4>1, <4>2
    <3>5. QED
      BY <3>4 DEF IntTable, IntOn
  <2>2. CASE m \notin RegionalAllowlist
    <3>1. RegionalRows(S, m, cfs) = <<>> /\ DOMAIN <<>> = {}
      BY <2>2 DEF RegionalRows, RegionalOf
    <3>2. QED
      BY <3>1 DEF IntTable, IntOn
  <2>3. QED
    BY <2>1, <2>2
<1>6. QED
  BY <1>4, <1>5

\* The files hold whole numbers.
WholeInv ==
    /\ src \in Editions
    /\ pc # "idle" => src.snapshot # NoFile
    /\ \A m \in DOMAIN cfsFile : IntTable(cfsFile[m])
    /\ \A m \in DOMAIN sideFile : IntTable(sideFile[m])

LEMMA PutKeepsInts ==
    ASSUME NEW f, NEW k, NEW v, \A m \in DOMAIN f : IntTable(f[m]), IntTable(v)
    PROVE  \A m \in DOMAIN Put(f, k, v) : IntTable(Put(f, k, v)[m])
BY DEF Put

LEMMA WholeStep == Inv /\ WholeInv /\ [Next]_vars => WholeInv'
<1>. SUFFICES ASSUME Inv, WholeInv, [Next]_vars PROVE WholeInv'
  OBVIOUS
<1>1. src' \in Editions
  BY SourcesStep DEF WholeInv
<1>2. pc' # "idle" => src'.snapshot # NoFile
  BY DEF WholeInv, Next, Edit, StartBuild, StartFails, WriteCfs, ReadFails, WriteSide, WriteIndex,
         Crash, CrashInCache, Emit, CanBuild, vars
<1>3. \A m \in DOMAIN cfsFile' : IntTable(cfsFile'[m])
  <2>1. CASE WriteCfs
    <3>1. Current \in todo /\ cfsFile' = Put(cfsFile, Current, Cfs(src, src.sp, Current))
      BY <2>1, WrittenIsCurrent
    <3>2. Current \in DOMAIN src.snapshot /\ src.snapshot # NoFile
      BY <2>1, <3>1 DEF WholeInv, WriteCfs, Inv, BuilderInv, Mapped
    <3>3. IntTable(Cfs(src, src.sp, Current))
      BY <3>2, CfsAreInt DEF WholeInv
    <3>4. QED
      BY <3>1, <3>3, PutKeepsInts DEF WholeInv
  <2>2. CASE UNCHANGED cfsFile
    BY <2>2 DEF WholeInv
  <2>3. QED
    BY <2>1, <2>2 DEF Next, Edit, StartBuild, StartFails, ReadFails, WriteSide, WriteIndex, Crash,
                      CrashInCache, Emit, files, vars
<1>4. \A m \in DOMAIN sideFile' : IntTable(sideFile'[m])
  <2>1. CASE WriteSide
    <3>1. IntTable(cfsFile[Current])
      BY <2>1 DEF WriteSide, Inv, BuilderInv, WholeInv
    <3>2. IntTable(Side)
      BY <3>1, RegionalIsInt DEF Side, WholeInv
    <3>3. sideFile' = sideFile \/ sideFile' = Put(sideFile, Current, Side)
      BY <2>1 DEF WriteSide
    <3>4. QED
      BY <3>2, <3>3, PutKeepsInts DEF WholeInv
  <2>2. CASE UNCHANGED sideFile
    BY <2>2 DEF WholeInv
  <2>3. QED
    BY <2>1, <2>2 DEF Next, Edit, StartBuild, StartFails, ReadFails, WriteCfs, WriteIndex, Crash,
                      CrashInCache, Emit, files, vars
<1>5. QED
  BY <1>1, <1>2, <1>3, <1>4 DEF WholeInv

LEMMA FilesAreWhole == Spec => []WholeInv
<1>1. Init => WholeInv
  BY DEF Init, WholeInv
<1>2. QED
  BY <1>1, WholeStep, FilesStayCoherent, PTL DEF Spec

-----------------------------------------------------------------------------
(* A package, and what it charges each activity *)

LEMMA AmountsAreInt == \A j \in DOMAIN B : \A k : Amount(B, j, k) \in Int
BY MatrixAssumption DEF Amount

LEMMA RowsAreFinite == \A S \in SUBSET RowsOf(B) : IsFiniteSet(S)
BY MatrixAssumption, FS_Subset

LEMMA NetUseIsInt == \A S, j : j \in DOMAIN B => NetUse(S, B, j) \in Int
<1>1. ASSUME NEW j \in DOMAIN B, NEW R \in SUBSET RowsOf(B)
      PROVE  Exchanged(B, j, R) \in Int
  <2>1. PICK f : f = [k \in R |-> Amount(B, j, k)]
    OBVIOUS
  <2>2. IsFiniteSet(DOMAIN f) /\ IntTable(f) /\ f = [x \in DOMAIN f |-> f[x]]
    BY <2>1, AmountsAreInt, RowsAreFinite DEF IntTable, IntOn
  <2>3. Total(f) \in Int
    BY <2>2, TotalIsInt
  <2>4. QED
    BY <2>1, <2>3 DEF Exchanged
<1>2. \A S : ResourceRows(S, B) \in SUBSET RowsOf(B) /\ ReturnRows(S, B) \in SUBSET RowsOf(B)
  BY DEF ResourceRows, ReturnRows
<1>3. QED
  BY <1>1, <1>2 DEF NetUse

LEMMA AwareIsInt ==
    ASSUME NEW S \in Editions
    PROVE  AwareCorrection(S, B) \in [DOMAIN B -> Int]
<1>1. IntTable(WaterCf(S.jrc))
  BY CountriesAreInt, EditionAssumption
<1>2. ASSUME NEW j \in DOMAIN B
      PROVE  (LET at == LocationOf(S, j)[1]
              IN  IF at \in DOMAIN WaterCf(S.jrc) THEN WaterCf(S.jrc)[at] ELSE FallbackCf) \in Int
  BY <1>1 DEF IntTable, IntOn, FallbackCf
<1>3. \A a, b \in Int : a * b \in Int
  OBVIOUS
<1>4. QED
  BY <1>2, <1>3, NetUseIsInt DEF AwareCorrection

\* The CF of a flow for an activity at loc.
Local(cfs, regional, loc, k) ==
    IF loc[2] = "" /\ <<k, loc[1]>> \in DOMAIN regional THEN regional[<<k, loc[1]>>] ELSE At(cfs, k)

Charged(q, j) == Total([k \in DOMAIN q |-> q[k] * Amount(B, j, k)])

\* The correction takes out exactly what the row puts in, and puts the
\* country's CF there: row by row of the matrix, then as sums.
LEMMA ChargeIsLocal ==
    ASSUME NEW cfs, IntTable(cfs), NEW regional, IntTable(regional), NEW j \in DOMAIN B, NEW loc
    PROVE  /\ Charged(Keeping(cfs, RowsOf(B)), j) \in Int
           /\ CorrectionAt(cfs, regional, B, j, loc) \in Int
           /\ Charged(Keeping(cfs, RowsOf(B)), j) + CorrectionAt(cfs, regional, B, j, loc)
                = Total([k \in DOMAIN B[j] |-> Local(cfs, regional, loc, k) * Amount(B, j, k)])
<1>. DEFINE R == RowsOf(B)
            Q == DOMAIN cfs \cap R
            here == {k \in R : loc[2] = "" /\ <<k, loc[1]>> \in DOMAIN regional}
            row(k) == At(cfs, k) * Amount(B, j, k)
            more(k) == IF k \in here THEN Delta(cfs, regional, k, loc) * Amount(B, j, k) ELSE 0
            both(k) == Local(cfs, regional, loc, k) * Amount(B, j, k)
<1>1. PICK f : f = [k \in R |-> row(k)]
  OBVIOUS
<1>2. PICK g : g = [k \in R |-> more(k)]
  OBVIOUS
<1>3. PICK h : h = [k \in R |-> both(k)]
  OBVIOUS
<1>4. /\ IsFiniteSet(R) /\ DOMAIN B[j] \in SUBSET R
      /\ \A k : Amount(B, j, k) \in Int /\ At(cfs, k) \in Int
      /\ \A k \in here : Delta(cfs, regional, k, loc) \in Int
      /\ \A k : Local(cfs, regional, loc, k) \in Int
  <2>1. IsFiniteSet(R) /\ DOMAIN B[j] \in SUBSET R
    BY RowsAreFinite DEF RowsOf
  <2>2. \A k : Amount(B, j, k) \in Int
    BY AmountsAreInt
  <2>3. \A k : At(cfs, k) \in Int
    BY DEF At, IntTable, IntOn
  <2>4. \A k \in here : Delta(cfs, regional, k, loc) \in Int
    <3>1. \A k \in here : regional[<<k, loc[1]>>] \in Int
      BY DEF IntTable, IntOn
    <3>. HIDE DEF here
    <3>. SUFFICES ASSUME NEW k \in here PROVE Delta(cfs, regional, k, loc) \in Int
      OBVIOUS
    <3>2. PICK x, y : x = regional[<<k, loc[1]>>] /\ y = At(cfs, k)
      OBVIOUS
    <3>3. x \in Int /\ y \in Int
      BY <2>3, <3>1, <3>2
    <3>4. x - y \in Int
      BY <3>3
    <3>5. QED
      BY <3>2, <3>4 DEF Delta
  <2>5. \A k : Local(cfs, regional, loc, k) \in Int
    BY <2>3 DEF Local, IntTable, IntOn
  <2>6. QED
    BY <2>1, <2>2, <2>3, <2>4, <2>5
<1>5. \A a, b \in Int : a * b \in Int
  OBVIOUS
<1>6. \A k : row(k) \in Int /\ more(k) \in Int /\ both(k) \in Int
  <2>. SUFFICES ASSUME NEW k PROVE row(k) \in Int /\ more(k) \in Int /\ both(k) \in Int
    OBVIOUS
  <2>1. row(k) \in Int /\ both(k) \in Int
    BY <1>4, <1>5
  <2>2. k \in here => Delta(cfs, regional, k, loc) * Amount(B, j, k) \in Int
    <3>. HIDE DEF here
    <3>1. QED
      BY <1>4, <1>5
  <2>3. more(k) \in Int
    <3>1. PICK d : d = Delta(cfs, regional, k, loc) * Amount(B, j, k)
      OBVIOUS
    <3>2. more(k) = IF k \in here THEN d ELSE 0
      BY <3>1
    <3>. HIDE DEF here, more
    <3>3. QED
      BY <2>2, <3>1, <3>2
  <2>. HIDE DEF row, more, both
  <2>4. QED
    BY <2>1, <2>3
<1>7. \A k \in R : both(k) = row(k) + more(k)
  <2>1. \A x, y, a \in Int : y * a = x * a + (y - x) * a
    OBVIOUS
  <2>2. ASSUME NEW k \in R PROVE both(k) = row(k) + more(k)
    <3>1. CASE k \in here
      <4>1. /\ Delta(cfs, regional, k, loc) = Local(cfs, regional, loc, k) - At(cfs, k)
        BY <3>1 DEF Delta, Local
      <4>2. PICK x, y, a : x = At(cfs, k) /\ y = Local(cfs, regional, loc, k) /\ a = Amount(B, j, k)
        OBVIOUS
      <4>3. x \in Int /\ y \in Int /\ a \in Int
        BY <1>4, <4>2
      <4>4. both(k) = y * a /\ row(k) = x * a /\ more(k) = (y - x) * a
        BY <3>1, <4>1, <4>2
      <4>5. y * a = x * a + (y - x) * a
        BY <2>1, <4>3
      <4>. HIDE DEF row, more, both
      <4>6. QED
        BY <4>4, <4>5
    <3>2. CASE k \notin here
      <4>1. Local(cfs, regional, loc, k) = At(cfs, k)
        BY <3>2 DEF Local
      <4>2. row(k) \in Int /\ more(k) = 0
        BY <1>6, <3>2
      <4>3. both(k) = row(k)
        BY <4>1
      <4>. HIDE DEF row, more, both
      <4>4. QED
        BY <4>2, <4>3
    <3>3. QED
      BY <3>1, <3>2
  <2>3. QED
    BY <2>2
<1>8. Charged(Keeping(cfs, R), j) = Part(f, Q)
  <2>1. \A k \in Q : Keeping(cfs, R)[k] * Amount(B, j, k) = f[k]
    BY <1>1 DEF Keeping, At
  <2>2. DOMAIN Keeping(cfs, R) = Q
    BY DEF Keeping
  <2>. HIDE DEF Q
  <2>3. [k \in Q |-> Keeping(cfs, R)[k] * Amount(B, j, k)] = [k \in Q |-> f[k]]
    BY <2>1
  <2>4. QED
    BY <2>2, <2>3 DEF Charged, Part
<1>9. CorrectionAt(cfs, regional, B, j, loc) = Part(g, here)
  <2>1. \A k \in here : Delta(cfs, regional, k, loc) * Amount(B, j, k) = g[k]
    BY <1>2
  <2>2. CorrectionAt(cfs, regional, B, j, loc)
          = Total([k \in here |-> Delta(cfs, regional, k, loc) * Amount(B, j, k)])
    BY DEF CorrectionAt
  <2>. HIDE DEF here
  <2>3. [k \in here |-> Delta(cfs, regional, k, loc) * Amount(B, j, k)] = [k \in here |-> g[k]]
    BY <2>1
  <2>4. QED
    BY <2>2, <2>3 DEF Part
<1>10. Total([k \in DOMAIN B[j] |-> Local(cfs, regional, loc, k) * Amount(B, j, k)])
         = Part(h, DOMAIN B[j])
  <2>1. [k \in DOMAIN B[j] |-> Local(cfs, regional, loc, k) * Amount(B, j, k)]
          = [k \in DOMAIN B[j] |-> h[k]]
    BY <1>3, <1>4
  <2>2. QED
    BY <2>1 DEF Part
<1>11. \A n \in Int : 0 * n = 0 /\ n * 0 = 0
  OBVIOUS
<1>12. ZeroOutside(f, R, Q)
  BY <1>1, <1>4, <1>11 DEF ZeroOutside, At
<1>13. ZeroOutside(g, R, here)
  BY <1>2 DEF ZeroOutside
<1>14. ZeroOutside(h, R, DOMAIN B[j])
  BY <1>3, <1>4, <1>11 DEF ZeroOutside, Amount
<1>15. IntOn(f, R) /\ IntOn(g, R) /\ IntOn(h, R)
  <2>. HIDE DEF row, more, both
  <2>1. QED
    BY <1>1, <1>2, <1>3, <1>6 DEF IntOn
<1>16. SumOf(h, f, g, R)
  <2>. HIDE DEF row, more, both
  <2>1. QED
    BY <1>1, <1>2, <1>3, <1>7 DEF SumOf
<1>. HIDE DEF R, Q, here
<1>17. Part(f, R) \in Int /\ Part(g, R) \in Int
  <2>1. Part(f, R) \in Int
    BY <1>4, <1>15, PartFacts
  <2>2. Part(g, R) \in Int
    BY <1>4, <1>15, PartFacts
  <2>3. QED
    BY <2>1, <2>2
<1>18. Part(h, R) = Part(f, R) + Part(g, R)
  BY <1>4, <1>15, <1>16, PartAdd
<1>19. Part(f, R) = Part(f, Q)
  BY <1>4, <1>12, <1>15, PartSupport
<1>20. Part(g, R) = Part(g, here)
  BY <1>4, <1>13, <1>15, PartSupport
<1>21. Part(h, R) = Part(h, DOMAIN B[j])
  BY <1>4, <1>14, <1>15, PartSupport
<1>22. QED
  BY <1>8, <1>9, <1>10, <1>17, <1>18, <1>19, <1>20, <1>21 DEF R

\* The correction of a method in column j.
Regional(cfs, side, m) == IF m \in DOMAIN side THEN side[m] ELSE <<>>

LEMMA CorrectionHere ==
    ASSUME NEW S \in Editions, NEW m, NEW cfs, IntTable(cfs[m]), NEW side,
           \A n \in DOMAIN side : IntTable(side[n]), NEW j \in DOMAIN B
    PROVE  /\ Correction(S, m, cfs, side, B) \in [DOMAIN B -> Int]
           /\ Correction(S, m, cfs, side, B)[j]
                = CorrectionAt(cfs[m], Regional(cfs, side, m), B, j, LocationOf(S, j))
                  + (IF m = WaterUse THEN AwareCorrection(S, B)[j] ELSE 0)
<1>. DEFINE regional == Regional(cfs, side, m)
            at(i) == CorrectionAt(cfs[m], regional, B, i, LocationOf(S, i))
            row == IF m \in DOMAIN side THEN RegionalCorrection(S, cfs[m], side[m], B)
                   ELSE [i \in DOMAIN B |-> 0]
<1>1. IntTable(<<>>)
  <2>1. DOMAIN <<>> = {}
    OBVIOUS
  <2>2. QED
    BY <2>1 DEF IntTable, IntOn
<1>2. IntTable(regional)
  BY <1>1 DEF Regional
<1>3. \A i \in DOMAIN B : at(i) \in Int
  <2>. HIDE DEF regional
  <2>1. QED
    BY <1>2, ChargeIsLocal
<1>4. \A i \in DOMAIN B : row[i] = at(i)
  <2>1. CASE m \in DOMAIN side
    BY <2>1 DEF RegionalCorrection, Regional
  <2>2. CASE m \notin DOMAIN side
    <3>1. \A k, l : <<k, l>> \notin DOMAIN regional
      BY <2>2 DEF Regional
    <3>2. \A loc : {k \in RowsOf(B) : loc[2] = "" /\ <<k, loc[1]>> \in DOMAIN regional} = {}
      BY <3>1
    <3>. HIDE DEF regional
    <3>3. \A i : at(i) = 0
      <4>. SUFFICES ASSUME NEW i PROVE at(i) = 0
        OBVIOUS
      <4>1. PICK f : f = [k \in {} |-> Delta(cfs[m], regional, k, LocationOf(S, i)) * Amount(B, i, k)]
        OBVIOUS
      <4>2. Total(f) = 0
        BY <4>1, TotalEmpty
      <4>3. QED
        BY <3>2, <4>1, <4>2 DEF CorrectionAt
    <3>4. QED
      BY <2>2, <3>3
  <2>3. QED
    BY <2>1, <2>2
<1>5. row \in [DOMAIN B -> Int]
  <2>1. row = [i \in DOMAIN B |-> row[i]]
    BY DEF RegionalCorrection
  <2>2. \A i \in DOMAIN B : row[i] \in Int
    BY <1>3, <1>4
  <2>. HIDE DEF row
  <2>3. QED
    BY <2>1, <2>2
<1>6. Correction(S, m, cfs, side, B)
        = IF m = WaterUse THEN [i \in DOMAIN B |-> row[i] + AwareCorrection(S, B)[i]] ELSE row
  BY DEF Correction
<1>7. AwareCorrection(S, B) \in [DOMAIN B -> Int]
  BY AwareIsInt
<1>. HIDE DEF row
<1>8. Correction(S, m, cfs, side, B) \in [DOMAIN B -> Int]
  BY <1>5, <1>6, <1>7
<1>9. Correction(S, m, cfs, side, B)[j] = row[j] + (IF m = WaterUse THEN AwareCorrection(S, B)[j] ELSE 0)
  BY <1>5, <1>6, <1>7
<1>10. QED
  BY <1>4, <1>8, <1>9

LEMMA ScoresOfFiles ==
    ASSUME WholeInv, Loads
    PROVE  /\ \A m \in DOMAIN Loaded : IntTable(Loaded[m])
           /\ \A m \in DOMAIN LoadedRegional : IntTable(LoadedRegional[m])
BY DEF WholeInv, Loads, Loaded, LoadedRegional, Keeping

\* Whatever mix of tables a crash has left, an activity is charged with the CFs
\* of its own country, and for water use with its net use on top.
THEOREM ChargedLocally == Spec => []ScoresAreLocal
<1>1. WholeInv => ScoresAreLocal
  <2>1. ASSUME WholeInv, Loads, NEW m \in DOMAIN index, NEW j \in DOMAIN B
        PROVE  LET aware == IF m = WaterUse THEN AwareCorrection(src, B)[j] ELSE 0
                   charged == Total([k \in DOMAIN Now.q[m] |-> Now.q[m][k] * Amount(B, j, k)])
               IN  charged + Now.corrections[m][j] =
                     aware + Total([k \in DOMAIN B[j] |-> CfHere(m, k, j) * Amount(B, j, k)])
    <3>. DEFINE cfs == Loaded[m]
                regional == Regional(Loaded, LoadedRegional, m)
                loc == LocationOf(src, j)
                aware == IF m = WaterUse THEN AwareCorrection(src, B)[j] ELSE 0
    <3>1. DOMAIN Loaded = DOMAIN index
      BY DEF Loaded
    <3>2. /\ Now.q[m] = Keeping(cfs, RowsOf(B))
          /\ Now.corrections[m] = Correction(src, m, Loaded, LoadedRegional, B)
      BY <3>1 DEF Now, Package
    <3>3. src \in Editions /\ IntTable(cfs) /\ \A n \in DOMAIN LoadedRegional : IntTable(LoadedRegional[n])
      BY <2>1, <3>1, ScoresOfFiles DEF WholeInv
    <3>4. IntTable(regional)
      <4>1. DOMAIN <<>> = {}
        OBVIOUS
      <4>2. IntTable(<<>>)
        BY <4>1 DEF IntTable, IntOn
      <4>3. QED
        BY <3>3, <4>2 DEF Regional
    <3>5. \A k : CfHere(m, k, j) = Local(cfs, regional, loc, k)
      <4>1. CASE m \in DOMAIN LoadedRegional
        BY <4>1 DEF CfHere, Local, Regional
      <4>2. CASE m \notin DOMAIN LoadedRegional
        <5>1. \A k, l : <<k, l>> \notin DOMAIN regional
          BY <4>2 DEF Regional
        <5>2. QED
          BY <4>2, <5>1 DEF CfHere, Local
      <4>3. QED
        BY <4>1, <4>2
    <3>6. [k \in DOMAIN B[j] |-> CfHere(m, k, j) * Amount(B, j, k)]
            = [k \in DOMAIN B[j] |-> Local(cfs, regional, loc, k) * Amount(B, j, k)]
      <4>. HIDE DEF cfs, regional, loc
      <4>1. QED
        BY <3>5
    <3>7. aware \in Int
      BY <3>3, AwareIsInt
    <3>8. Now.corrections[m][j] = CorrectionAt(cfs, regional, B, j, loc) + aware
      BY <3>2, <3>3, CorrectionHere
    <3>. HIDE DEF cfs, regional, loc, aware
    <3>9. /\ Charged(Keeping(cfs, RowsOf(B)), j) \in Int
          /\ CorrectionAt(cfs, regional, B, j, loc) \in Int
          /\ Charged(Keeping(cfs, RowsOf(B)), j) + CorrectionAt(cfs, regional, B, j, loc)
               = Total([k \in DOMAIN B[j] |-> Local(cfs, regional, loc, k) * Amount(B, j, k)])
      BY <3>3, <3>4, ChargeIsLocal
    <3>10. Charged(Now.q[m], j) + Now.corrections[m][j]
             = aware + Total([k \in DOMAIN B[j] |-> CfHere(m, k, j) * Amount(B, j, k)])
      BY <3>2, <3>6, <3>7, <3>8, <3>9
    <3>11. QED
      BY <3>10 DEF Charged, aware
  <2>2. QED
    BY <2>1 DEF ScoresAreLocal
<1>2. QED
  BY <1>1, FilesAreWhole, PTL

-----------------------------------------------------------------------------
(* Tagged flows count as their base *)

\* The rows a catalog has not lost, and the exchanges in them without tags.
Found(S) == RowsOf(B) \ Lost(S)
Merged(S) == Untagged(Lost(S))

\* Rows picked by what the catalog says of them are the same rows with and
\* without tags: the tagged ones are the fibres of the base codes.
Picks(S, test) == {k \in RowsOf(B) \cap DOMAIN S.catalog : k[1] = "bio" /\ S.catalog[k] \in test}
BasePicks(S, test) ==
    {k \in RowsOf(Merged(S)) \cap DOMAIN S.catalog : k[1] = "bio" /\ S.catalog[k] \in test}

LEMMA BaseFacts == \A k : Base(k)[1] = k[1] /\ Base(Base(k)) = Base(k)
BY DEF Base

LEMMA UntaggedRows ==
    ASSUME NEW S
    PROVE  /\ DOMAIN Merged(S) = DOMAIN B
           /\ \A j \in DOMAIN B :
                DOMAIN Merged(S)[j] = {Base(l) : l \in DOMAIN B[j] \ Lost(S)}
           /\ \A k : k \in RowsOf(Merged(S)) <=> \E l \in Found(S) : k = Base(l)
<1>1. DOMAIN Merged(S) = DOMAIN B
  BY DEF Merged, Untagged
<1>2. \A j \in DOMAIN B : DOMAIN Merged(S)[j] = {Base(l) : l \in DOMAIN B[j] \ Lost(S)}
  BY DEF Merged, Untagged
<1>3. RowsOf(Merged(S)) = UNION {{Base(l) : l \in DOMAIN B[j] \ Lost(S)} : j \in DOMAIN B}
  BY <1>1, <1>2 DEF RowsOf
<1>4. \A k : k \in RowsOf(Merged(S)) <=>
        \E j \in DOMAIN B : \E l \in DOMAIN B[j] \ Lost(S) : k = Base(l)
  BY <1>3
<1>5. \A l : l \in Found(S) <=> \E j \in DOMAIN B : l \in DOMAIN B[j] \ Lost(S)
  BY DEF RowsOf, Found
<1>6. QED
  BY <1>1, <1>2, <1>4, <1>5

LEMMA PicksAreFibres ==
    ASSUME NEW S \in Editions, NEW test
    PROVE  /\ \A k \in Picks(S, test) : k \in Found(S) /\ Base(k) \in BasePicks(S, test)
           /\ \A k \in Found(S) : Base(k) \in BasePicks(S, test) => k \in Picks(S, test)
           /\ \A b \in BasePicks(S, test) : \E k \in Picks(S, test) : b = Base(k)
<1>1. \A k \in RowsOf(B) : k[1] = "bio" /\ k \in DOMAIN S.catalog =>
        Base(k) \in DOMAIN S.catalog /\ S.catalog[k] = S.catalog[Base(k)]
  BY CopyAssumption
<1>2. \A k \in Found(S) :
        /\ k \in RowsOf(B)
        /\ Base(k) \in DOMAIN S.catalog => k \in DOMAIN S.catalog
        /\ Base(k) \in RowsOf(Merged(S))
  BY UntaggedRows DEF Found, Lost
<1>3. \A k \in Picks(S, test) : k \in Found(S)
  BY DEF Picks, Found, Lost
<1>4. ASSUME NEW k \in Found(S)
      PROVE  k \in Picks(S, test) <=> Base(k) \in BasePicks(S, test)
  <2>1. k \in RowsOf(B) /\ Base(k) \in RowsOf(Merged(S)) /\ Base(k)[1] = k[1]
    BY <1>2, BaseFacts
  <2>2. CASE k[1] # "bio"
    <3>1. k \notin Picks(S, test)
      BY <2>2 DEF Picks
    <3>2. Base(k) \notin BasePicks(S, test)
      BY <2>1, <2>2 DEF BasePicks
    <3>3. QED
      BY <3>1, <3>2
  <2>3. CASE k[1] = "bio" /\ k \notin DOMAIN S.catalog
    <3>1. k \notin Picks(S, test)
      BY <2>3 DEF Picks
    <3>2. Base(k) \notin DOMAIN S.catalog
      BY <1>2, <2>3
    <3>3. Base(k) \notin BasePicks(S, test)
      BY <3>2 DEF BasePicks
    <3>4. QED
      BY <3>1, <3>3
  <2>4. CASE k[1] = "bio" /\ k \in DOMAIN S.catalog
    <3>1. Base(k) \in DOMAIN S.catalog /\ S.catalog[k] = S.catalog[Base(k)]
      BY <1>1, <2>1, <2>4
    <3>2. QED
      BY <2>1, <2>4, <3>1 DEF Picks, BasePicks
  <2>5. QED
    BY <2>2, <2>3, <2>4
<1>5. \A b \in BasePicks(S, test) : \E k \in Found(S) : b = Base(k)
  BY UntaggedRows DEF BasePicks
<1>6. QED
  BY <1>3, <1>4, <1>5

\* What an untagged row exchanges is what its tagged rows exchange together.
LEMMA UntaggedAmount ==
    ASSUME NEW S, NEW j \in DOMAIN B, NEW b, NEW f, NEW T, T \in SUBSET RowsOf(B),
           f = [k \in RowsOf(B) |-> Amount(B, j, k)],
           \A k : k \in T <=> k \in Found(S) /\ Base(k) = b
    PROVE  Amount(Merged(S), j, b) = Part(f, T)
<1>. DEFINE L == {x \in DOMAIN B[j] \ Lost(S) : Base(x) = b}
<1>1. DOMAIN B[j] \subseteq RowsOf(B)
  BY DEF RowsOf
<1>2. L \subseteq T
  BY <1>1 DEF Found
<1>3. IsFiniteSet(T) /\ IntOn(f, T)
  BY RowsAreFinite, AmountsAreInt DEF IntOn
<1>4. ZeroOutside(f, T, L)
  BY <1>2 DEF ZeroOutside, Amount, Found
<1>5. \A l \in L : B[j][l] = f[l]
  BY <1>1 DEF Amount
<1>6. Total([l \in L |-> B[j][l]]) = Part(f, L)
  <2>. HIDE DEF L
  <2>1. [l \in L |-> B[j][l]] = [l \in L |-> f[l]]
    BY <1>5
  <2>2. QED
    BY <2>1 DEF Part
<1>7. Part(f, T) = Part(f, L)
  <2>. HIDE DEF L
  <2>1. QED
    BY <1>3, <1>4, PartSupport
<1>8. CASE b \in DOMAIN Merged(S)[j]
  <2>1. Amount(Merged(S), j, b) = Merged(S)[j][b]
    BY <1>8 DEF Amount
  <2>2. Merged(S)[j] = [k \in {Base(l) : l \in DOMAIN B[j] \ Lost(S)} |->
          Total([l \in {x \in DOMAIN B[j] \ Lost(S) : Base(x) = k} |-> B[j][l]])]
    BY DEF Merged, Untagged
  <2>3. Merged(S)[j][b] = Total([l \in L |-> B[j][l]])
    BY <1>8, <2>2, UntaggedRows
  <2>4. QED
    BY <1>6, <1>7, <2>1, <2>3
<1>9. CASE b \notin DOMAIN Merged(S)[j]
  <2>1. Amount(Merged(S), j, b) = 0
    BY <1>9 DEF Amount
  <2>2. L = {}
    BY <1>9, UntaggedRows
  <2>3. Part(f, {}) = 0
    BY <1>3, PartFacts
  <2>4. QED
    BY <1>7, <2>1, <2>2, <2>3
<1>10. QED
  BY <1>8, <1>9

LEMMA ExchangedUntagged ==
    ASSUME NEW S \in Editions, NEW test, NEW j \in DOMAIN B
    PROVE  Exchanged(B, j, Picks(S, test)) = Exchanged(Merged(S), j, BasePicks(S, test))
<1>. DEFINE R == RowsOf(B)
            Z == Picks(S, test)
            W == BasePicks(S, test)
<1>1. PICK f : f = [k \in R |-> Amount(B, j, k)]
  OBVIOUS
<1>2. PICK base : base = [k \in Z |-> Base(k)]
  OBVIOUS
<1>3. Z \in SUBSET R /\ IsFiniteSet(Z) /\ IntOn(f, Z) /\ base \in [Z -> W]
  <2>1. Z \in SUBSET R
    BY DEF Picks
  <2>2. \A k \in Z : Base(k) \in W
    BY PicksAreFibres
  <2>. HIDE DEF Z, W
  <2>3. QED
    BY <1>1, <1>2, <2>1, <2>2, RowsAreFinite, AmountsAreInt DEF IntOn
<1>4. IsFiniteSet(W)
  <2>1. \A w \in W : \E k \in Z : base[k] = w
    BY <1>2, PicksAreFibres
  <2>. HIDE DEF Z, W
  <2>2. base \in Surjection(Z, W)
    BY <1>3, <2>1 DEF Surjection
  <2>3. QED
    BY <1>3, <2>2, FS_Surjection
<1>5. \A w \in W : Amount(Merged(S), j, w) = ByClass(f, base, Z, W)[w]
  <2>. SUFFICES ASSUME NEW w \in W PROVE Amount(Merged(S), j, w) = Part(f, Fibre(base, Z, w))
    BY DEF ByClass
  <2>1. PICK T : T = Fibre(base, Z, w)
    OBVIOUS
  <2>2. \A k : k \in T <=> k \in Found(S) /\ Base(k) = w
    <3>1. \A k \in Z : k \in Found(S)
      BY PicksAreFibres
    <3>2. \A k \in Found(S) : Base(k) = w => k \in Z
      BY PicksAreFibres
    <3>. HIDE DEF Z, W, R
    <3>3. QED
      BY <1>2, <2>1, <3>1, <3>2 DEF Fibre
  <2>3. T \in SUBSET R
    BY <2>2 DEF Found
  <2>4. Amount(Merged(S), j, w) = Part(f, T)
    BY <1>1, <2>2, <2>3, UntaggedAmount
  <2>5. QED
    BY <2>1, <2>4
<1>6. Exchanged(B, j, Z) = Part(f, Z)
  <2>1. \A k \in Z : Amount(B, j, k) = f[k]
    BY <1>1, <1>3
  <2>. HIDE DEF Z
  <2>2. [k \in Z |-> Amount(B, j, k)] = [k \in Z |-> f[k]]
    BY <2>1
  <2>3. QED
    BY <2>2 DEF Exchanged, Part
<1>7. Exchanged(Merged(S), j, W) = Part(ByClass(f, base, Z, W), W)
  <2>. HIDE DEF Z, W
  <2>1. [w \in W |-> Amount(Merged(S), j, w)] = [w \in W |-> ByClass(f, base, Z, W)[w]]
    BY <1>5
  <2>2. QED
    BY <2>1 DEF Exchanged, Part
<1>8. Part(f, Z) = Part(ByClass(f, base, Z, W), W)
  <2>. HIDE DEF Z, W
  <2>1. QED
    BY <1>3, <1>4, PartFibres
<1>9. QED
  BY <1>6, <1>7, <1>8

\* The rows of the two kinds are picked by what the catalog says of them.
LEMMA WaterPicks ==
    ASSUME NEW S \in Editions
    PROVE  \E t, u : /\ ResourceRows(S, B) = Picks(S, t)
                     /\ ResourceRows(S, Merged(S)) = BasePicks(S, t)
                     /\ ReturnRows(S, B) = Picks(S, u)
                     /\ ReturnRows(S, Merged(S)) = BasePicks(S, u)
<1>. DEFINE all == {S.catalog[k] : k \in DOMAIN S.catalog}
<1>1. PICK t : t = {r \in all : r.name \in ResourceNames /\ r.top = "natural resource"}
  OBVIOUS
<1>2. PICK u : u = {r \in all : r.name = "water" /\ r.top = "water" /\ r.sub # "ocean"}
  OBVIOUS
<1>3. ResourceRows(S, B) = Picks(S, t) /\ ResourceRows(S, Merged(S)) = BasePicks(S, t)
  BY <1>1 DEF ResourceRows, Picks, BasePicks
<1>4. ReturnRows(S, B) = Picks(S, u) /\ ReturnRows(S, Merged(S)) = BasePicks(S, u)
  BY <1>2 DEF ReturnRows, Picks, BasePicks
<1>5. QED
  BY <1>3, <1>4

LEMMA NetUseUntagged ==
    ASSUME NEW S \in Editions, NEW j \in DOMAIN B
    PROVE  NetUse(S, B, j) = NetUse(S, Merged(S), j)
<1>1. PICK t, u : /\ ResourceRows(S, B) = Picks(S, t)
                  /\ ResourceRows(S, Merged(S)) = BasePicks(S, t)
                  /\ ReturnRows(S, B) = Picks(S, u)
                  /\ ReturnRows(S, Merged(S)) = BasePicks(S, u)
  BY WaterPicks
<1>2. /\ Picks(S, t) = {} <=> BasePicks(S, t) = {}
      /\ Picks(S, u) = {} <=> BasePicks(S, u) = {}
  BY PicksAreFibres
<1>3. /\ Exchanged(B, j, Picks(S, t)) = Exchanged(Merged(S), j, BasePicks(S, t))
      /\ Exchanged(B, j, Picks(S, u)) = Exchanged(Merged(S), j, BasePicks(S, u))
  BY ExchangedUntagged
<1>4. QED
  BY <1>1, <1>2, <1>3 DEF NetUse

\* Splitting flows over rows tagged with regions leaves the net water use of
\* every activity as it was, of all the rows the catalog has; those it has lost
\* since the link are exactly what is left out.
THEOREM TagsAreNeutral == Spec => []TaggingIsNeutral
<1>1. src \in Editions => TaggingIsNeutral
  <2>. SUFFICES ASSUME src \in Editions PROVE TaggingIsNeutral
    OBVIOUS
  <2>1. DOMAIN Merged(src) = DOMAIN B
    BY UntaggedRows
  <2>2. \A j \in DOMAIN B : NetUse(src, B, j) = NetUse(src, Merged(src), j)
    BY NetUseUntagged
  <2>3. QED
    BY <2>1, <2>2 DEF TaggingIsNeutral, AwareCorrection, Merged
<1>2. WholeInv => TaggingIsNeutral
  BY <1>1 DEF WholeInv
<1>3. QED
  BY <1>2, FilesAreWhole, PTL

-----------------------------------------------------------------------------
(* The views of a decomposition *)

\* A package of whole numbers, over rows and columns of the matrix.
WholePkg(pkg) ==
    \A m \in DOMAIN pkg.q :
      /\ DOMAIN pkg.q[m] \in SUBSET RowsOf(B) /\ IntTable(pkg.q[m])
      /\ pkg.corrections[m] \in [DOMAIN B -> Int]

\* What a decomposition is asked for.
Asked(pkg, m, supply) == WholePkg(pkg) /\ m \in DOMAIN pkg.q /\ supply \in [DOMAIN B -> Int]

\* All views are sums over one table: what flow k of activity j adds.
Share(pkg, m, supply) ==
    [kj \in (DOMAIN pkg.q[m]) \X (DOMAIN B) |->
       pkg.q[m][kj[1]] * Amount(B, kj[2], kj[1]) * supply[kj[2]]]

Whole(pkg, m, supply) == Part(Share(pkg, m, supply), (DOMAIN pkg.q[m]) \X (DOMAIN B))

ByFlow(pkg, m, supply) == [k \in DOMAIN pkg.q[m] |-> pkg.q[m][k] * Inventory(B, supply, k)]
ByActivity(pkg, m, supply) == [j \in DOMAIN B |-> supply[j] * Charged(pkg.q[m], j)]

LEMMA ShareFacts ==
    ASSUME NEW pkg, NEW m, NEW supply, Asked(pkg, m, supply)
    PROVE  /\ IsFiniteSet(DOMAIN pkg.q[m]) /\ IsFiniteSet(DOMAIN B)
           /\ \A k \in DOMAIN pkg.q[m] : pkg.q[m][k] \in Int
           /\ \A j \in DOMAIN B : supply[j] \in Int /\ pkg.corrections[m][j] \in Int
           /\ \A j \in DOMAIN B : \A k : Amount(B, j, k) \in Int
           /\ \A k \in DOMAIN pkg.q[m], j \in DOMAIN B :
                Share(pkg, m, supply)[<<k, j>>] = pkg.q[m][k] * Amount(B, j, k) * supply[j]
           /\ IntOn(Share(pkg, m, supply), (DOMAIN pkg.q[m]) \X (DOMAIN B))
<1>1. IsFiniteSet(DOMAIN pkg.q[m]) /\ IsFiniteSet(DOMAIN B)
  BY RowsAreFinite, MatrixAssumption DEF Asked, WholePkg
<1>2. \A k \in DOMAIN pkg.q[m] : pkg.q[m][k] \in Int
  BY DEF Asked, WholePkg, IntTable, IntOn
<1>3. \A j \in DOMAIN B : supply[j] \in Int /\ pkg.corrections[m][j] \in Int
  BY DEF Asked, WholePkg
<1>4. \A j \in DOMAIN B : \A k : Amount(B, j, k) \in Int
  BY AmountsAreInt
<1>5. \A k \in DOMAIN pkg.q[m], j \in DOMAIN B :
        Share(pkg, m, supply)[<<k, j>>] = pkg.q[m][k] * Amount(B, j, k) * supply[j]
  BY DEF Share
<1>6. \A a, b, c \in Int : a * b * c \in Int
  OBVIOUS
<1>7. \A k \in DOMAIN pkg.q[m], j \in DOMAIN B : Share(pkg, m, supply)[<<k, j>>] \in Int
  <2>. SUFFICES ASSUME NEW k \in DOMAIN pkg.q[m], NEW j \in DOMAIN B
                PROVE  Share(pkg, m, supply)[<<k, j>>] \in Int
    OBVIOUS
  <2>1. PICK a, b, c : a = pkg.q[m][k] /\ b = Amount(B, j, k) /\ c = supply[j]
    OBVIOUS
  <2>2. a \in Int /\ b \in Int /\ c \in Int
    BY <1>2, <1>3, <1>4, <2>1
  <2>3. a * b * c \in Int
    BY <1>6, <2>2
  <2>4. QED
    BY <1>5, <2>1, <2>3
<1>8. IntOn(Share(pkg, m, supply), (DOMAIN pkg.q[m]) \X (DOMAIN B))
  <2>. SUFFICES ASSUME NEW p \in (DOMAIN pkg.q[m]) \X (DOMAIN B)
                PROVE  Share(pkg, m, supply)[p] \in Int
    BY DEF IntOn
  <2>1. PICK k \in DOMAIN pkg.q[m], j \in DOMAIN B : p = <<k, j>>
    OBVIOUS
  <2>2. QED
    BY <1>7, <2>1
<1>9. QED
  BY <1>1, <1>2, <1>3, <1>4, <1>5, <1>8

\* By flows: a row of the table is the CF times the inventory.
LEMMA WholeByFlow ==
    ASSUME NEW pkg, NEW m, NEW supply, Asked(pkg, m, supply)
    PROVE  /\ Whole(pkg, m, supply) = Part(ByFlow(pkg, m, supply), DOMAIN pkg.q[m])
           /\ IntOn(ByFlow(pkg, m, supply), DOMAIN pkg.q[m])
<1>. DEFINE Q == DOMAIN pkg.q[m]
            J == DOMAIN B
            f == ByFlow(pkg, m, supply)
<1>1. PICK F : F = Share(pkg, m, supply)
  OBVIOUS
<1>2. IsFiniteSet(Q) /\ IsFiniteSet(J) /\ IntOn(F, Q \X J)
  BY <1>1, ShareFacts
<1>3. \A k \in Q, j \in J : F[<<k, j>>] = pkg.q[m][k] * Amount(B, j, k) * supply[j]
  BY <1>1 DEF Share
<1>4. ASSUME NEW k \in Q
      PROVE  /\ Part([j \in J |-> F[<<k, j>>]], J) = pkg.q[m][k] * Inventory(B, supply, k)
             /\ pkg.q[m][k] * Inventory(B, supply, k) \in Int
  <2>1. PICK g : g = [j \in J |-> Amount(B, j, k) * supply[j]]
    OBVIOUS
  <2>2. PICK h : h = [j \in J |-> F[<<k, j>>]]
    OBVIOUS
  <2>3. PICK c : c = pkg.q[m][k]
    OBVIOUS
  <2>4. c \in Int
    BY <2>3, ShareFacts
  <2>5. \A j \in J : g[j] \in Int /\ h[j] = c * g[j]
    <3>. SUFFICES ASSUME NEW j \in J PROVE g[j] \in Int /\ h[j] = c * g[j]
      OBVIOUS
    <3>1. PICK a, b : a = Amount(B, j, k) /\ b = supply[j]
      OBVIOUS
    <3>2. a \in Int /\ b \in Int
      BY <3>1, ShareFacts
    <3>3. g[j] = a * b /\ h[j] = c * a * b
      <4>1. F[<<k, j>>] = pkg.q[m][k] * Amount(B, j, k) * supply[j]
        BY <1>3
      <4>2. QED
        BY <2>1, <2>2, <2>3, <3>1, <4>1
    <3>4. \A x, y, z \in Int : x * y * z = x * (y * z) /\ y * z \in Int
      OBVIOUS
    <3>5. QED
      BY <2>4, <3>2, <3>3, <3>4
  <2>6. IntOn(g, J) /\ Multiple(h, c, g, J)
    BY <2>5 DEF IntOn, Multiple
  <2>7. Part(h, J) = c * Part(g, J)
    BY <1>2, <2>4, <2>6, PartScale
  <2>8. Inventory(B, supply, k) = Part(g, J)
    <3>1. [j \in J |-> Amount(B, j, k) * supply[j]] = [j \in J |-> g[j]]
      BY <2>1
    <3>2. QED
      BY <3>1 DEF Inventory, Part
  <2>9. Part(g, J) \in Int
    BY <1>2, <2>6, PartFacts
  <2>10. c * Part(g, J) \in Int
    BY <2>4, <2>9
  <2>11. QED
    BY <2>2, <2>3, <2>7, <2>8, <2>10
<1>5. RowSums(F, Q, J) = f
  BY <1>4 DEF RowSums, ByFlow
<1>6. IntOn(f, Q)
  BY <1>4 DEF IntOn, ByFlow
<1>. HIDE DEF Q, J, f
<1>7. Part(F, Q \X J) = Part(RowSums(F, Q, J), Q)
  BY <1>2, PartPairs
<1>8. Part(F, Q \X J) = Part(f, Q)
  BY <1>5, <1>7
<1>9. QED
  BY <1>1, <1>6, <1>8 DEF Whole, Q, J, f

\* By activities: a column is the supply times what one unit is charged.
LEMMA WholeByActivity ==
    ASSUME NEW pkg, NEW m, NEW supply, Asked(pkg, m, supply)
    PROVE  /\ Whole(pkg, m, supply) = Part(ByActivity(pkg, m, supply), DOMAIN B)
           /\ IntOn(ByActivity(pkg, m, supply), DOMAIN B)
           /\ \A j \in DOMAIN B : Charged(pkg.q[m], j) \in Int
<1>. DEFINE Q == DOMAIN pkg.q[m]
            J == DOMAIN B
            f == ByActivity(pkg, m, supply)
<1>1. PICK F : F = Share(pkg, m, supply)
  OBVIOUS
<1>2. IsFiniteSet(Q) /\ IsFiniteSet(J) /\ IntOn(F, Q \X J)
  BY <1>1, ShareFacts
<1>3. \A k \in Q, j \in J : F[<<k, j>>] = pkg.q[m][k] * Amount(B, j, k) * supply[j]
  BY <1>1 DEF Share
<1>4. ASSUME NEW j \in J
      PROVE  /\ Part([k \in Q |-> F[<<k, j>>]], Q) = supply[j] * Charged(pkg.q[m], j)
             /\ supply[j] * Charged(pkg.q[m], j) \in Int
             /\ Charged(pkg.q[m], j) \in Int
  <2>1. PICK g : g = [k \in Q |-> pkg.q[m][k] * Amount(B, j, k)]
    OBVIOUS
  <2>2. PICK h : h = [k \in Q |-> F[<<k, j>>]]
    OBVIOUS
  <2>3. PICK c : c = supply[j]
    OBVIOUS
  <2>4. c \in Int
    BY <2>3, ShareFacts
  <2>5. \A k \in Q : g[k] \in Int /\ h[k] = c * g[k]
    <3>. SUFFICES ASSUME NEW k \in Q PROVE g[k] \in Int /\ h[k] = c * g[k]
      OBVIOUS
    <3>1. PICK a, b : a = pkg.q[m][k] /\ b = Amount(B, j, k)
      OBVIOUS
    <3>2. a \in Int /\ b \in Int
      BY <3>1, ShareFacts
    <3>3. g[k] = a * b /\ h[k] = a * b * c
      <4>1. F[<<k, j>>] = pkg.q[m][k] * Amount(B, j, k) * supply[j]
        BY <1>3
      <4>2. QED
        BY <2>1, <2>2, <2>3, <3>1, <4>1
    <3>4. \A x, y, z \in Int : x * y * z = z * (x * y) /\ x * y \in Int
      OBVIOUS
    <3>5. QED
      BY <2>4, <3>2, <3>3, <3>4
  <2>6. IntOn(g, Q) /\ Multiple(h, c, g, Q)
    BY <2>5 DEF IntOn, Multiple
  <2>7. Part(h, Q) = c * Part(g, Q)
    BY <1>2, <2>4, <2>6, PartScale
  <2>8. Charged(pkg.q[m], j) = Part(g, Q)
    <3>1. [k \in Q |-> pkg.q[m][k] * Amount(B, j, k)] = [k \in Q |-> g[k]]
      BY <2>1
    <3>2. QED
      BY <3>1 DEF Charged, Part
  <2>9. Part(g, Q) \in Int
    BY <1>2, <2>6, PartFacts
  <2>10. c * Part(g, Q) \in Int
    BY <2>4, <2>9
  <2>11. QED
    BY <2>2, <2>3, <2>7, <2>8, <2>9, <2>10
<1>5. ColumnSums(F, Q, J) = f
  BY <1>4 DEF ColumnSums, ByActivity
<1>6. IntOn(f, J) /\ \A j \in J : Charged(pkg.q[m], j) \in Int
  BY <1>4 DEF IntOn, ByActivity
<1>. HIDE DEF Q, J, f
<1>7. Part(F, Q \X J) = Part(ColumnSums(F, Q, J), J)
  BY <1>2, PartPairs
<1>8. Part(F, Q \X J) = Part(f, J)
  BY <1>5, <1>7
<1>9. QED
  BY <1>1, <1>6, <1>8 DEF Whole, Q, J, f

\* What the corrections of a method add for a supply.
Corrected(pkg, m, supply) == [j \in DOMAIN B |-> pkg.corrections[m][j] * supply[j]]

LEMMA ScoreSplits ==
    ASSUME NEW pkg, NEW m, NEW supply, Asked(pkg, m, supply)
    PROVE  /\ IntOn(Corrected(pkg, m, supply), DOMAIN B)
           /\ Whole(pkg, m, supply) \in Int
           /\ Part(Corrected(pkg, m, supply), DOMAIN B) \in Int
           /\ Decomposition(pkg, m, B, supply).correction
                = Part(Corrected(pkg, m, supply), DOMAIN B)
           /\ Score(pkg, m, B, supply)
                = Whole(pkg, m, supply) + Part(Corrected(pkg, m, supply), DOMAIN B)
<1>. DEFINE J == DOMAIN B
            Q == DOMAIN pkg.q[m]
<1>1. PICK g : g = Corrected(pkg, m, supply)
  OBVIOUS
<1>2. PICK f : f = ByFlow(pkg, m, supply)
  OBVIOUS
<1>3. IsFiniteSet(J) /\ IsFiniteSet(Q)
  BY ShareFacts
<1>4. IntOn(g, J)
  <2>1. \A j \in J : g[j] = pkg.corrections[m][j] * supply[j]
    BY <1>1 DEF Corrected
  <2>2. \A a, b \in Int : a * b \in Int
    OBVIOUS
  <2>3. QED
    BY <2>1, <2>2, ShareFacts DEF IntOn
<1>5. Part(g, J) \in Int
  BY <1>3, <1>4, PartFacts
<1>6. Whole(pkg, m, supply) = Part(f, Q) /\ IntOn(f, Q)
  BY <1>2, WholeByFlow
<1>7. Part(f, Q) \in Int
  BY <1>3, <1>6, PartFacts
<1>8. Total([j \in DOMAIN B |-> pkg.corrections[m][j] * supply[j]]) = Part(g, J)
  <2>1. [j \in DOMAIN B |-> pkg.corrections[m][j] * supply[j]] = [j \in J |-> g[j]]
    BY <1>1 DEF Corrected
  <2>2. QED
    BY <2>1 DEF Part
<1>9. Total([k \in DOMAIN pkg.q[m] |-> pkg.q[m][k] * Inventory(B, supply, k)]) = Part(f, Q)
  <2>1. [k \in DOMAIN pkg.q[m] |-> pkg.q[m][k] * Inventory(B, supply, k)] = [k \in Q |-> f[k]]
    BY <1>2 DEF ByFlow
  <2>2. QED
    BY <2>1 DEF Part
<1>10. Score(pkg, m, B, supply) = Part(f, Q) + Part(g, J)
  BY <1>8, <1>9 DEF Score
<1>11. Decomposition(pkg, m, B, supply).correction = Part(g, J)
  BY <1>8 DEF Decomposition
<1>12. QED
  BY <1>1, <1>4, <1>5, <1>6, <1>7, <1>10, <1>11

\* An activity carries its charge and its own correction.
LEMMA ActivitiesAddUp ==
    ASSUME NEW pkg, NEW m, NEW supply, Asked(pkg, m, supply)
    PROVE  Total(ActivityContributions(pkg, m, B, supply))
             = Whole(pkg, m, supply) + Part(Corrected(pkg, m, supply), DOMAIN B)
<1>. DEFINE J == DOMAIN B
<1>1. PICK f : f = ByActivity(pkg, m, supply)
  OBVIOUS
<1>2. PICK g : g = Corrected(pkg, m, supply)
  OBVIOUS
<1>3. PICK h : h = ActivityContributions(pkg, m, B, supply)
  OBVIOUS
<1>4. IsFiniteSet(J) /\ IntOn(f, J) /\ IntOn(g, J) /\ Whole(pkg, m, supply) = Part(f, J)
  BY <1>1, <1>2, ShareFacts, ScoreSplits, WholeByActivity
<1>5. ASSUME NEW j \in J PROVE h[j] = f[j] + g[j]
  <2>1. PICK s, x, c : s = supply[j] /\ x = Charged(pkg.q[m], j) /\ c = pkg.corrections[m][j]
    OBVIOUS
  <2>2. s \in Int /\ x \in Int /\ c \in Int
    BY <2>1, ShareFacts, WholeByActivity
  <2>3. h[j] = s * (x + c)
    BY <1>3, <2>1 DEF ActivityContributions, Charged
  <2>4. f[j] = s * x
    BY <1>1, <2>1 DEF ByActivity
  <2>5. g[j] = c * s
    BY <1>2, <2>1 DEF Corrected
  <2>6. \A p, q, r \in Int : p * (q + r) = p * q + r * p
    OBVIOUS
  <2>7. s * (x + c) = s * x + c * s
    BY <2>2, <2>6
  <2>8. QED
    BY <2>3, <2>4, <2>5, <2>7
<1>6. h = [j \in J |-> h[j]]
  BY <1>3 DEF ActivityContributions
<1>7. SumOf(h, f, g, J)
  BY <1>5 DEF SumOf
<1>. HIDE DEF J
<1>8. Part(h, J) = Part(f, J) + Part(g, J)
  BY <1>4, <1>7, PartAdd
<1>9. Total(h) = Part(h, J)
  BY <1>6 DEF Part
<1>10. QED
  BY <1>2, <1>3, <1>4, <1>8, <1>9 DEF J

\* The flows that are left out contribute nothing.
LEMMA FlowsAddUp ==
    ASSUME NEW pkg, NEW m, NEW supply, Asked(pkg, m, supply)
    PROVE  Total(FlowContributions(pkg, m, B, supply)) = Whole(pkg, m, supply)
<1>. DEFINE Q == DOMAIN pkg.q[m]
            E == {k \in Q : pkg.q[m][k] * Inventory(B, supply, k) # 0}
<1>1. PICK f : f = ByFlow(pkg, m, supply)
  OBVIOUS
<1>2. IsFiniteSet(Q) /\ IntOn(f, Q) /\ Whole(pkg, m, supply) = Part(f, Q)
  BY <1>1, ShareFacts, WholeByFlow
<1>3. ZeroOutside(f, Q, E)
  BY <1>1 DEF ByFlow, ZeroOutside
<1>4. FlowContributions(pkg, m, B, supply) = [k \in E |-> f[k]]
  BY <1>1 DEF FlowContributions, ByFlow
<1>. HIDE DEF Q, E
<1>5. Part(f, Q) = Part(f, E)
  BY <1>2, <1>3, PartSupport
<1>6. QED
  BY <1>2, <1>4, <1>5 DEF Part

\* Nor do the edges: an activity nothing is asked of, a flow it does not have.
LEMMA EdgesAddUp ==
    ASSUME NEW pkg, NEW m, NEW supply, Asked(pkg, m, supply)
    PROVE  Total(EdgeContributions(pkg, m, B, supply)) = Whole(pkg, m, supply)
<1>. DEFINE QJ == (DOMAIN pkg.q[m]) \X (DOMAIN B)
            E == {kj \in QJ : supply[kj[2]] # 0 /\ Amount(B, kj[2], kj[1]) # 0}
<1>1. PICK F : F = Share(pkg, m, supply)
  OBVIOUS
<1>2. IsFiniteSet(QJ) /\ IntOn(F, QJ) /\ Whole(pkg, m, supply) = Part(F, QJ)
  <2>1. IsFiniteSet(DOMAIN pkg.q[m]) /\ IsFiniteSet(DOMAIN B)
    BY ShareFacts
  <2>2. IsFiniteSet(QJ)
    BY <2>1, FS_Product
  <2>3. IntOn(F, QJ)
    BY <1>1, ShareFacts
  <2>4. QED
    BY <1>1, <2>2, <2>3 DEF Whole
<1>3. ASSUME NEW kj \in QJ, kj \notin E PROVE F[kj] = 0
  <2>1. PICK a, b, c : a = pkg.q[m][kj[1]] /\ b = Amount(B, kj[2], kj[1]) /\ c = supply[kj[2]]
    OBVIOUS
  <2>2. kj[1] \in DOMAIN pkg.q[m] /\ kj[2] \in DOMAIN B
    OBVIOUS
  <2>3. a \in Int /\ b \in Int /\ c \in Int
    BY <2>1, <2>2, ShareFacts
  <2>4. b = 0 \/ c = 0
    BY <1>3, <2>1
  <2>5. F[kj] = a * b * c
    BY <1>1, <2>1 DEF Share
  <2>6. \A p, q \in Int : p * 0 * q = 0 /\ p * q * 0 = 0
    OBVIOUS
  <2>7. a * b * c = 0
    BY <2>3, <2>4, <2>6
  <2>8. QED
    BY <2>5, <2>7
<1>4. ZeroOutside(F, QJ, E)
  BY <1>3 DEF ZeroOutside
<1>5. EdgeContributions(pkg, m, B, supply) = [kj \in E |-> F[kj]]
  BY <1>1 DEF EdgeContributions, Share
<1>. HIDE DEF QJ, E
<1>6. Part(F, QJ) = Part(F, E)
  BY <1>2, <1>4, PartSupport
<1>7. QED
  BY <1>2, <1>5, <1>6 DEF Part

\* Every package in the store is one of whole numbers.
PkgInv == \A p \in pkgs : WholePkg(p.pkg)

LEMMA NowIsWhole ==
    ASSUME WholeInv, Loads
    PROVE  WholePkg(Now)
<1>1. DOMAIN Now.q = DOMAIN Loaded
  BY DEF Now, Package
<1>2. src \in Editions /\ \A m \in DOMAIN LoadedRegional : IntTable(LoadedRegional[m])
  BY ScoresOfFiles DEF WholeInv
<1>3. ASSUME NEW m \in DOMAIN Loaded
      PROVE  /\ DOMAIN Now.q[m] \in SUBSET RowsOf(B) /\ IntTable(Now.q[m])
             /\ Now.corrections[m] \in [DOMAIN B -> Int]
  <2>1. IntTable(Loaded[m])
    BY ScoresOfFiles
  <2>2. Now.q[m] = Keeping(Loaded[m], RowsOf(B))
    BY DEF Now, Package
  <2>3. DOMAIN Now.q[m] \in SUBSET RowsOf(B) /\ IntTable(Now.q[m])
    BY <2>1, <2>2 DEF Keeping, IntTable, IntOn
  <2>4. Now.corrections[m] = Correction(src, m, Loaded, LoadedRegional, B)
    BY DEF Now, Package
  <2>5. Now.corrections[m] \in [DOMAIN B -> Int]
    <3>1. CASE DOMAIN B # {}
      BY <1>2, <2>1, <2>4, <3>1, CorrectionHere
    <3>2. CASE DOMAIN B = {}
      BY <2>4, <3>2 DEF Correction, RegionalCorrection, AwareCorrection
    <3>3. QED
      BY <3>1, <3>2
  <2>6. QED
    BY <2>3, <2>5
<1>4. QED
  BY <1>1, <1>3 DEF WholePkg

LEMMA PackagesAreWhole == Spec => []PkgInv
<1>1. Init => PkgInv
  BY DEF Init, PkgInv
<1>2. WholeInv /\ PkgInv /\ [Next]_vars => PkgInv'
  <2>. SUFFICES ASSUME WholeInv, PkgInv, [Next]_vars PROVE PkgInv'
    OBVIOUS
  <2>1. CASE Emit
    <3>1. WholePkg(Now)
      BY <2>1, NowIsWhole DEF Emit
    <3>2. \A p \in pkgs' : p \in pkgs \/ p.pkg = Now
      BY <2>1 DEF Emit
    <3>3. QED
      BY <3>1, <3>2 DEF PkgInv
  <2>2. CASE UNCHANGED pkgs
    BY <2>2 DEF PkgInv
  <2>3. QED
    BY <2>1, <2>2 DEF Next, Edit, StartBuild, StartFails, WriteCfs, ReadFails, WriteSide, WriteIndex,
                      Crash, CrashInCache, store, vars
<1>3. QED
  BY <1>1, <1>2, FilesAreWhole, PTL DEF Spec

\* For every package the store may hold and every supply: the activities add up
\* to the score of the solver, the flows and the edges to the score short of the
\* correction, so the views cannot drift from what is reported.
THEOREM ViewsAddUp == Spec => []ViewsAgree
<1>1. PkgInv => ViewsAgree
  <2>1. ASSUME PkgInv, NEW p \in pkgs, NEW supply \in Supplies, NEW m \in DOMAIN p.pkg.q
        PROVE  LET view == Decomposition(p.pkg, m, B, supply)
                   score == Score(p.pkg, m, B, supply)
               IN  /\ Total(view.activities) = score
                   /\ Total(view.flows) = score - view.correction
                   /\ Total(view.edges) = score - view.correction
    <3>1. Asked(p.pkg, m, supply)
      BY <2>1, MatrixAssumption DEF Asked, PkgInv
    <3>2. PICK w, c : w = Whole(p.pkg, m, supply) /\ c = Part(Corrected(p.pkg, m, supply), DOMAIN B)
      OBVIOUS
    <3>3. /\ w \in Int /\ c \in Int
          /\ Decomposition(p.pkg, m, B, supply).correction = c
          /\ Score(p.pkg, m, B, supply) = w + c
      BY <3>1, <3>2, ScoreSplits
    <3>4. /\ Decomposition(p.pkg, m, B, supply).activities = ActivityContributions(p.pkg, m, B, supply)
          /\ Decomposition(p.pkg, m, B, supply).flows = FlowContributions(p.pkg, m, B, supply)
          /\ Decomposition(p.pkg, m, B, supply).edges = EdgeContributions(p.pkg, m, B, supply)
      BY DEF Decomposition
    <3>5. Total(Decomposition(p.pkg, m, B, supply).activities) = w + c
      BY <3>1, <3>2, <3>4, ActivitiesAddUp
    <3>6. Total(Decomposition(p.pkg, m, B, supply).flows) = w
      BY <3>1, <3>2, <3>4, FlowsAddUp
    <3>7. Total(Decomposition(p.pkg, m, B, supply).edges) = w
      BY <3>1, <3>2, <3>4, EdgesAddUp
    <3>8. w = (w + c) - c
      BY <3>3
    <3>9. QED
      BY <3>3, <3>5, <3>6, <3>7, <3>8
  <2>2. QED
    BY <2>1 DEF ViewsAgree
<1>2. QED
  BY <1>1, PackagesAreWhole, PTL
=============================================================================
