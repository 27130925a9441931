------------------------------- MODULE BwExport -------------------------------
(***************************************************************************)
(* dds-build-bw-package and the importer it ships: the scoring package     *)
(* becomes datapackages with tables of labels, and those a Brightway       *)
(* project, in which a node is known by a key instead of a number.  The    *)
(* per-activity corrections, which Brightway has no place for, travel as   *)
(* flows of their own.  An exchange keeps its sign, not its amount.        *)
(***************************************************************************)
EXTENDS EmitChain, Ranks

CONSTANTS
    Methods,       \* numbered in the order of their labels
    Characterised, \* the flows each method has a CF for
    Corrections,   \* the columns each method corrects, as they may come
    KnownFlow,     \* the ids of the flows the biosphere catalog has
    NoFile

ASSUME MethodAssumption == Methods \subseteq Nat /\ IsFiniteSet(Methods)

\* An id is a hash of 63 bits: a flow of the catalog has none of the small ones
\* that are given to the corrections.
ASSUME HashAssumption ==
    LET ids == Flow \cup Product \cup Column
    IN  /\ IsFiniteSet(ids) /\ KnownFlow \subseteq Nat
        /\ \A f \in KnownFlow : f > Cardinality(ids) + Cardinality(Methods)

VARIABLES
    port,        \* "none"; "bundle", or "datapackages" without tables; "done", "failed"
    bundle,      \* the export directory
    project      \* the Brightway project: two databases and the methods

portVars == <<port, bundle, project>>

-----------------------------------------------------------------------------
(* CorrectionEmbedder *)

Columns == {x[2] : x \in matrix.pairs}
BioRows == Ins(Emission(frame))
UsedIds == BioRows \cup {x[1] : x \in matrix.pairs} \cup Columns

\* The k-th positive number that is no id yet.
Free(k) == Nth((1 .. Cardinality(UsedIds) + k) \ UsedIds, k)

\* A flow per method with a correction that is not empty.
SyntheticFlows(corrections) ==
    LET corrected == {m \in Methods : corrections[m] \cap Columns # {}}
    IN  [m \in corrected |-> Free(Cardinality({n \in corrected : n <= m}))]

\* Its row of B is the correction ...
EmbeddedB(corrections) ==
    LET flow == SyntheticFlows(corrections)
    IN  matrix.B \cup UNION {{<<flow[m], c, "biosphere">> : c \in corrections[m] \cap Columns} :
                               m \in DOMAIN flow}

\* ... and its CF is 1, in that method alone.
EmbeddedCfs(corrections) ==
    LET flow == SyntheticFlows(corrections)
    IN  [m \in Methods |-> (Characterised[m] \cap BioRows)
                             \cup (IF m \in DOMAIN flow THEN {flow[m]} ELSE {})]

-----------------------------------------------------------------------------
(* CatalogKeyResolver.  A key is <<database, code, product>>, with a product *)
(* for splits; the database "" is none.                                      *)

Parent(c) == (CHOOSE t \in provenance : t[1] = c)[2]
Split(c) == (CHOOSE t \in provenance : t[1] = c)[3]
DatabaseOf(c) == IF c \in Named THEN "own" ELSE ""

\* Mutant: a split keeps the code of its parent.
KeyOfParent(c) ==
    IF <<c, "split">> \in labels THEN <<DatabaseOf(Parent(c)), Parent(c), 0>>
    ELSE <<DatabaseOf(c), c, 0>>

\* The row of the activity catalog: the node's own key, or the parent's with the
\* product appended; what nobody knows has no database.
KeyInCatalog(c) ==
    IF <<c, "split">> \in labels THEN <<DatabaseOf(Parent(c)), Parent(c), Split(c)>>
    ELSE <<DatabaseOf(c), c, 0>>

\* Without the activity catalog, by the hash of every key of the other two; what
\* is not found, splits among them, is called by its number.
KeyByHash(c) == IF c \in Named THEN <<"own", c, 0>> ELSE <<"agribalyse-ef31", c, 0>>

ActivityKey(c, catalog) == IF catalog THEN KeyInCatalog(c) ELSE KeyByHash(c)

BioKey(f, synthetic) ==
    IF f \in KnownFlow THEN <<"own", f>>
    ELSE IF \E m \in DOMAIN synthetic : synthetic[m] = f
         THEN <<"correction", CHOOSE m \in DOMAIN synthetic : synthetic[m] = f>>
    ELSE <<"agribalyse-ef31-biosphere", f>>

-----------------------------------------------------------------------------
(* MetadataEmitter *)

\* Row and column of one index belong together: the production of the column.
ProductOf(c) == (CHOOSE x \in matrix.pairs : x[2] = c)[1]

ActivityTable(catalog) ==
    [c \in Columns |-> [key |-> ActivityKey(c, catalog), product |-> ProductOf(c)]]

BiosphereTable(corrections) ==
    LET flow == SyntheticFlows(corrections)
    IN  [f \in BioRows \cup {flow[m] : m \in DOMAIN flow} |-> BioKey(f, flow)]

\* A node without a database would be unusable; names are never empty here.
FullyNamed(table) == \A c \in DOMAIN table : table[c].key[1] # ""

\* The datapackages are on disk before anything is labelled.
Written(corrections) ==
    [A |-> matrix.A, B |-> EmbeddedB(corrections), cfs |-> EmbeddedCfs(corrections),
     corrections |-> corrections, activities |-> NoFile, biosphere |-> NoFile]

-----------------------------------------------------------------------------
(* The importer: Brightway's exchanges from the arrays and the tables *)

ActivityNode(c) == bundle.activities[c].key

\* The column a product is produced by, as the table says.
Producer(p) == CHOOSE c \in DOMAIN bundle.activities : bundle.activities[c].product = p

TechnosphereExchanges(c) ==
    {<<ActivityNode(Producer(x[1])),
       IF Producer(x[1]) = c THEN "production" ELSE "technosphere">> :
        x \in {y \in bundle.A : y[2] = c}}

BiosphereExchanges(c) ==
    {<<bundle.biosphere[x[1]], "biosphere">> : x \in {y \in bundle.B : y[2] = c}}

\* A dictionary by key: of two columns with one key the later stays.
BuildActivities ==
    LET columns == DOMAIN bundle.activities
        last(k) == CHOOSE c \in columns : /\ ActivityNode(c) = k
                                          /\ \A d \in columns : ActivityNode(d) = k => d <= c
    IN  [k \in {ActivityNode(c) : c \in columns} |->
           TechnosphereExchanges(last(k)) \cup BiosphereExchanges(last(k))]

BuildBiosphere == {bundle.biosphere[f] : f \in DOMAIN bundle.biosphere}
BuildMethod(m) == {bundle.biosphere[f] : f \in bundle.cfs[m]}

-----------------------------------------------------------------------------
(* The export *)

Export ==
    /\ stage = "built" /\ port = "none"
    /\ \E corrections \in Corrections, catalog \in BOOLEAN :
         /\ FullyNamed(ActivityTable(catalog))
         /\ bundle' = [Written(corrections) EXCEPT
                         !.activities = ActivityTable(catalog),
                         !.biosphere = BiosphereTable(corrections)]
    /\ port' = "bundle"
    /\ UNCHANGED <<vars, project>>

\* The emitter raises, and leaves the datapackages without labels.
ExportRefused ==
    /\ stage = "built" /\ port = "none"
    /\ \E corrections \in Corrections, catalog \in BOOLEAN :
         /\ ~FullyNamed(ActivityTable(catalog))
         /\ bundle' = Written(corrections)
    /\ port' = "datapackages"
    /\ UNCHANGED <<vars, project>>

(* The import *)

NoTables ==
    /\ port = "datapackages"
    /\ port' = "failed"
    /\ UNCHANGED <<vars, bundle, project>>

\* Into a project that has neither database: the importer refuses one with
\* either of them, and on --overwrite deletes both first.
Import ==
    /\ port = "bundle"
    /\ project' = [flows |-> BuildBiosphere, activities |-> BuildActivities,
                   cfs |-> [m \in Methods |-> BuildMethod(m)]]
    /\ port' = "done"
    /\ UNCHANGED <<vars, bundle>>

PortInit == port = "none" /\ bundle = NoFile /\ project = NoFile

PortNext == Export \/ ExportRefused \/ NoTables \/ Import

-----------------------------------------------------------------------------
(* Properties *)

\* What Brightway makes of an activity: its production, or a unit of itself if
\* it has none, less its inputs.
Assembled(k) ==
    {e \in project.activities[k] : e[2] # "biosphere"}
    \cup (IF \E e \in project.activities[k] : e[2] = "production" THEN {}
          ELSE {<<k, "implicit">>})

\* What a method charges an activity for, by Brightway's plain sum over flows.
Charged(m, k) ==
    {e[1] : e \in {x \in project.activities[k] : x[2] = "biosphere"}} \cap project.cfs[m]

\* Only a column nobody knows, split from nothing known, stops an export.
Nameless(c) == c \notin Named /\ \A t \in provenance : t[1] = c => t[2] \notin Named

\* "Catalog and matrix can never skew": no package of known columns is refused
\* for want of a name, and the imported project is the package under other
\* names.  Each column is a node of its own with the same production and
\* inputs, and each method charges it with its flows and its own correction.
ExportIsFaithful ==
    /\ port \in {"datapackages", "failed"} => \E c \in Columns : Nameless(c)
    /\ port = "done" =>
         LET node(c) == bundle.activities[c].key
             maker(p) == (CHOOSE x \in matrix.pairs : x[1] = p)[2]
             In(M, c) == {x \in M : x[2] = c}
         IN  /\ \A c, d \in Columns : node(c) = node(d) => c = d
             /\ DOMAIN project.activities = {node(c) : c \in Columns}
             /\ \A c \in Columns :
                  /\ Assembled(node(c)) = {<<node(maker(x[1])), x[3]>> : x \in In(matrix.A, c)}
                  /\ \A m \in Methods :
                       LET charged == Charged(m, node(c))
                           flows == {x[1] : x \in In(matrix.B, c)} \cap Characterised[m]
                       IN  /\ {k \in charged : k[1] = "correction"} =
                                 (IF c \in bundle.corrections[m] THEN {<<"correction", m>>} ELSE {})
                           /\ {k[2] : k \in {x \in charged : x[1] # "correction"}} = flows
=============================================================================
