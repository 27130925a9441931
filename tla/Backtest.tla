------------------------------- MODULE Backtest -------------------------------
(***************************************************************************)
(* BacktestPipeline.run on what the emit chain has left: the rows of       *)
(* ADEME's reference are mapped to entries of the product catalog, the     *)
(* entries' products are scored in the package, in one process or several, *)
(* and every row is written beside its score.                              *)
(*                                                                         *)
(* Names are opaque; what is read off them is given: the CIQUAL code and   *)
(* the storage label of an entry, which names contain which, how long they *)
(* are.  A code is <<zeros, number, suffix>>: "0001" is <<2, 1, 0>> and    *)
(* "9341_1" is <<0, 9341, 1>>.  A score is the product it is of.           *)
(***************************************************************************)
EXTENDS EmitChain, Ranks, SequencesExt

CONSTANTS
    Entries,     \* nodes of sp.data by (database, code): [id, type, name, code, label]
    Within,      \* <<n, m>>: name n is a substring of name m, whatever the case
    Width,       \* the length of a name
    Blank,      \* an empty cell: no name, no code, no label
    Options      \* [sheet, mode, first, workers, registered]

ASSUME SheetAssumption ==
    /\ Len(Entries) \in Nat /\ DOMAIN Entries = 1 .. Len(Entries)
    /\ \A o \in Options : /\ Len(o.sheet) \in Nat /\ DOMAIN o.sheet = 1 .. Len(o.sheet)
                         /\ o.first \in Nat /\ o.workers \in Nat

ASSUME BlankAssumption == Blank \notin Product

VARIABLES
    step,        \* "link" until the package is there, then the step of the run
    job,         \* the options of the run
    rows,        \* the reference rows it compares
    chosen,      \* row_to_key: the entry of each row, or Blank
    scores,      \* product scored for each entry
    board        \* the artifacts: Blank, or scores.parquet and the dashboard CSV

runVars == <<step, job, rows, chosen, scores, board>>

-----------------------------------------------------------------------------
(* ProductCatalog *)

ScoreableTypes == {"process", "multifunctional", "product", "processwithreferenceproduct"}

\* Entries are known by their places.
Scoreable == {i \in DOMAIN Entries : Entries[i].type \in ScoreableTypes}

\* Mutant: the entry's own id, as if every activity were its own product.
OwnId(e) == e.id

\* The product of an entry's first production edge (edges come in the order of
\* their products), or its own id when it has none.
ProductId(e) ==
    LET made == {q.in : q \in {r \in Production(source) : r.out = e.id}}
    IN  IF made = {} THEN e.id ELSE CHOOSE p \in made : \A q \in made : p <= q

-----------------------------------------------------------------------------
(* The reference, and the entries its rows are mapped to *)

\* Rows of a corrected packaging are twins of rows no activity models.
ReferenceRows(o) ==
    LET kept == Renumbered(o.sheet, {i \in DOMAIN o.sheet : ~o.sheet[i].corrected})
    IN  [i \in {j \in DOMAIN kept : j <= o.first} |-> kept[i]]

\* Leading zeros go, but not from a compound code.
Normalised(code) == IF code[3] = 0 THEN <<0, code[2], 0>> ELSE code

Coded(code) ==
    {i \in Scoreable : Entries[i].code # Blank /\ Normalised(Entries[i].code) = Normalised(code)}

Called(name) == {i \in Scoreable : Entries[i].name = name}
Products(S) == {i \in S : Entries[i].type = "product"}

\* The only entry, else the only product.
Single(S) ==
    IF Cardinality(S) = 1 THEN S ELSE IF Cardinality(Products(S)) = 1 THEN Products(S) ELSE {}

\* "Glace" is not frozen, which is "Congele".
StorageLabel ==
    [Ambiant |-> "Ambient (long)", Glace |-> "Ambient (long)", Congele |-> "Frozen"]

\* Products of one code that differ in how they are stored.
Stored(S, r) ==
    {i \in Products(S) : /\ r.storage \in DOMAIN StorageLabel
                         /\ Entries[i].label = StorageLabel[r.storage]}

\* One code column of a row: no hit is as good as an ambiguous one.
ByCode(code, r) ==
    IF code = Blank THEN {}
    ELSE IF Single(Coded(code)) # {} THEN Single(Coded(code))
    ELSE IF Cardinality(Stored(Coded(code), r)) = 1 THEN Stored(Coded(code), r) ELSE {}

ByName(r) == IF r.lci = Blank THEN {} ELSE Single(Called(r.lci))

\* The shortest name that contains the row's, the first of those.
BySubstring(r) ==
    LET hits == {i \in Scoreable : <<r.lci, Entries[i].name>> \in Within}
        before(i, j) == \/ Width[Entries[i].name] < Width[Entries[j].name]
                        \/ Width[Entries[i].name] = Width[Entries[j].name] /\ i <= j
    IN  IF r.lci = Blank THEN {} ELSE {i \in hits : \A j \in hits : before(i, j)}

OrElse(S, T) == IF S # {} THEN S ELSE T

\* The passes in order, the first that finds an entry.
EntryFor(r, mode) ==
    LET place == IF mode = "exact_name" THEN ByName(r)
                 ELSE OrElse(ByCode(r.agb, r),
                        OrElse(ByCode(r.ciqual, r), OrElse(ByName(r), BySubstring(r))))
    IN  IF place = {} THEN Blank ELSE Entries[CHOOSE i \in place : TRUE]

MapProducts(df, mode) == [i \in DOMAIN df |-> EntryFor(df[i], mode)]

\* Exact mode compares the mapped rows alone.
Kept(df, mode) ==
    IF mode = "exact_name"
    THEN Renumbered(df, {i \in DOMAIN df : EntryFor(df[i], mode) # Blank})
    ELSE df

\* Mutant: the mapping of the sheet is used for the rows that were kept.
MappingOfSheet(df, mode) ==
    [i \in DOMAIN Kept(df, mode) |-> MapProducts(df, mode)[i]]

\* The kept rows get new positions, and are mapped again.
MappingOfKept(df, mode) == MapProducts(Kept(df, mode), mode)

-----------------------------------------------------------------------------
(* Scoring *)

Loaded == {p[1] : p \in matrix.pairs}

\* NativeLciaScorer: a product that has no row is skipped.
Scored(entries) ==
    [e \in {d \in entries : ProductId(d) \in Loaded} |-> ProductId(e)]

\* Item i goes to bucket i modulo n.
Chunk(items, n, b) == {items[i] : i \in {j \in DOMAIN items : ((j - 1) % n) + 1 = b}}

\* Workers score a chunk each; of the results of an entry the last chunk's stays.
ScoredByWorkers(items, n) ==
    LET part(b) == Scored(Chunk(items, n, b))
        last(e) == CHOOSE b \in 1 .. n :
                     /\ e \in DOMAIN part(b)
                     /\ \A d \in 1 .. n : e \in DOMAIN part(d) => d <= b
    IN  [e \in UNION {DOMAIN part(b) : b \in 1 .. n} |-> part(last(e))[e]]

Keys == {chosen[i] : i \in DOMAIN chosen} \ {Blank}

AllScores ==
    LET items == SetToSeq(Keys)
    IN  IF job.workers > 1 /\ Len(items) > 1 THEN ScoredByWorkers(items, job.workers)
        ELSE Scored(Keys)

-----------------------------------------------------------------------------
(* The artifacts *)

Line(i) ==
    [row |-> rows[i], entry |-> chosen[i],
     score |-> IF chosen[i] \in DOMAIN scores THEN scores[chosen[i]] ELSE Blank]

\* BacktestPass1Emitter picks rows by their code, not one by one.
Emitted ==
    LET mapped == {rows[i].agb : i \in {j \in DOMAIN rows : chosen[j] # Blank}}
    IN  {i \in DOMAIN rows : rows[i].agb \in mapped}

-----------------------------------------------------------------------------
(* The run *)

MapRows ==
    /\ stage = "built" /\ step = "link"
    /\ \E o \in Options :
         /\ job' = o
         /\ rows' = Kept(ReferenceRows(o), o.mode)
         /\ chosen' = MappingOfKept(ReferenceRows(o), o.mode)
    /\ step' = "mapped"
    /\ UNCHANGED <<vars, scores, board>>

\* "run link_all first": no method of the package is one of ADEME's.
NoMethods ==
    /\ step = "mapped" /\ ~job.registered
    /\ step' = "warned"
    /\ UNCHANGED <<vars, job, rows, chosen, scores, board>>

Score ==
    /\ step = "mapped" /\ job.registered
    /\ Keys = {} \/ DOMAIN AllScores # {}
    /\ scores' = AllScores
    /\ step' = "scored"
    /\ UNCHANGED <<vars, job, rows, chosen, board>>

\* Entries were found and none of them has a score: the old artifacts stay.
ScoreRaises ==
    /\ step = "mapped" /\ job.registered
    /\ Keys # {} /\ DOMAIN AllScores = {}
    /\ step' = "raised"
    /\ UNCHANGED <<vars, job, rows, chosen, scores, board>>

Save ==
    /\ step = "scored"
    /\ board' = [lines |-> [i \in DOMAIN rows |-> Line(i)], csv |-> Emitted]
    /\ step' = "saved"
    /\ UNCHANGED <<vars, job, rows, chosen, scores>>

BacktestInit ==
    /\ Init
    /\ step = "link" /\ job = Blank /\ rows = <<>> /\ chosen = <<>>
    /\ scores = <<>> /\ board = Blank

BacktestNext ==
    \/ Next /\ UNCHANGED runVars
    \/ MapRows \/ NoMethods \/ Score \/ ScoreRaises \/ Save

BacktestSpec == BacktestInit /\ [][BacktestNext]_<<vars, runVars>>

-----------------------------------------------------------------------------
(* Properties *)

\* Products an entry's activity lists, or itself for a product node.
Listed(e) ==
    LET made == {q.in : q \in {r \in Production(source) : r.out = e.id}}
    IN  IF made = {} THEN {e.id} ELSE made

\* From the production edge over the splits and the pruning to the row map: a
\* score is that of a product its entry lists, and an entry is left without
\* only if it lists a product nobody really makes or the audit says was lost.
UnscoredIsExplained ==
    step = "saved" =>
      \A i \in DOMAIN board.lines :
        LET e == board.lines[i].entry  s == board.lines[i].score
            Lost(p) == \/ p \notin Ins(Real(source))
                       \/ \E t \in audit : t[1] = "dangling_product" /\ t[2] = p
        IN  e # Blank =>
              \/ s # Blank /\ s \in Listed(e) \cap Loaded
              \/ s = Blank /\ \E p \in Listed(e) : Lost(p)

\* A written row stands beside the entry it is about: in exact mode the one of
\* its name, though rows before it were dropped; else the only product of its
\* code in its storage, though others share the code.
RowsKeepTheirProduct ==
    step = "saved" =>
      \A i \in DOMAIN board.lines :
        LET r == board.lines[i].row  e == board.lines[i].entry
            own == {j \in DOMAIN Entries :
                      /\ Entries[j].type = "product"
                      /\ r.agb # Blank /\ Entries[j].code # Blank
                      /\ Normalised(Entries[j].code) = Normalised(r.agb)
                      /\ r.storage \in DOMAIN StorageLabel
                      /\ Entries[j].label = StorageLabel[r.storage]}
        IN  /\ job.mode = "exact_name" => e # Blank /\ e.name = r.lci
            /\ job.mode # "exact_name" /\ Cardinality(own) = 1 => \E j \in own : e = Entries[j]
=============================================================================
