------------------------------- MODULE EmitChain -------------------------------
(***************************************************************************)
(* LinkAllPipeline._emit_scoring_package: the linked exchanges become the  *)
(* matrices A and B in five passes, allocate, deduplicate, prune, filter   *)
(* and build, while an auditor looks on.  An exchange is a row of a long   *)
(* frame; of its amount and its allocation factor only the sign is kept,   *)
(* and rows that differ in nothing else are one.                           *)
(***************************************************************************)
EXTENDS Integers, FiniteSets

CONSTANTS
    Activity,    \* ids of the linked activities (flow_id_for of their key)
    Product,     \* ids of products; an ecoinvent activity is its own product
    Flow,        \* ids of biosphere flows
    Acid,        \* the flows PerennialLifecycleFilter drops ...
    Perennial,   \* ... from these activities
    Named,       \* activities found in sp.data or in the ecoinvent catalog
    Multiplier, Modulus,   \* of Allocator._synthetic_id
    Frames       \* the frames the chain starts from

\* Positive; zero; negative or no number at all.
Factor == {"share", "zero", "unusable"}
Weighs(r) == r.factor = "share"

Rows(Id) ==
         [out : Id, in : Product, kind : {"production"}, made : BOOLEAN, factor : Factor]
    \cup [out : Id, in : Product, kind : {"technosphere"}, made : {TRUE}, factor : {"share"}]
    \cup [out : Id, in : Flow, kind : {"biosphere"}, made : {TRUE}, factor : {"share"}]

\* Deterministic, so that a rerun gives the same ids.
SyntheticId(a, p) == (a * Multiplier + p) % Modulus

Synthetic == {SyntheticId(a, p) : a \in Activity, p \in Product}
Column == Activity \cup Synthetic

\* "Collisions are vanishingly unlikely": assumed away.
ASSUME IdAssumption ==
    /\ Activity \subseteq Nat /\ Product \subseteq Nat
    /\ Perennial \subseteq Activity
    /\ Multiplier \in Nat /\ Modulus \in Nat \ {0}
    /\ Synthetic \cap Activity = {}
    /\ \A a, b \in Activity, p, q \in Product :
          SyntheticId(a, p) = SyntheticId(b, q) => a = b /\ p = q

ASSUME FrameAssumption == Frames \subseteq SUBSET Rows(Activity)

VARIABLES
    stage,       \* the pass the frame has been through
    source,      \* the frame the chain started from
    frame,       \* the frame as it is
    provenance,  \* <<synthetic id, parent, product>> of the splits
    snapshot,    \* DanglingEdgeAuditor.snapshots, by stage
    consumers,   \* DanglingEdgeAuditor.consumer_edges
    audit,       \* dangling_edges.parquet: <<what, id, stage>>
    matrix,      \* the technosphere and the biosphere matrix
    labels       \* activity_catalog.parquet: <<column, how it was labelled>>

vars == <<stage, source, frame, provenance, snapshot, consumers, audit, matrix, labels>>

Production(F) == {r \in F : r.kind = "production"}
Consumption(F) == {r \in F : r.kind = "technosphere"}
Emission(F) == {r \in F : r.kind = "biosphere"}
\* Really produced: an amount of zero does not count.
Real(F) == {r \in Production(F) : r.made}

Outs(F) == {r.out : r \in F}
Ins(F) == {r.in : r \in F}

Stages == <<"initial", "after_allocator", "after_dedup", "after_pruner">>

\* Mutant: the auditor takes a product of amount zero for a produced one.
SeenZero(F) == [activities |-> Outs(Production(F)), products |-> Ins(Production(F))]

Seen(F) == [activities |-> Outs(Real(F)), products |-> Ins(Real(F))]
Snap(s, F) == snapshot' = [snapshot EXCEPT ![s] = Seen(F)]

-----------------------------------------------------------------------------
(* Allocator *)

Multifunctional(F) ==
    {a \in Outs(Production(F)) :
        \E r, s \in Production(F) : r.out = a /\ s.out = a /\ r # s}

\* A factor of a multifunctional activity is no number or negative, or they
\* sum to zero.
CannotNormalise(F) ==
    \E a \in Multifunctional(F) :
        \/ \E r \in Production(F) : r.out = a /\ r.factor = "unusable"
        \/ \A r \in Production(F) : r.out = a => ~Weighs(r)

Renamed(r, q) == [r EXCEPT !.out = SyntheticId(q.out, q.in)]

\* The rows of q's split: its production, and the inputs when it weighs.
SplitRows(F, q) ==
    {Renamed(q, q)} \cup
    {Renamed(r, q) : r \in {s \in F \ Production(F) : s.out = q.out /\ Weighs(q)}}

\* The production rows that are split.
SplitBy(F) == {q \in Production(F) : q.out \in Multifunctional(F)}

\* Mutant: activities without a production row stay.
AllocatedAll(F) ==
         {r \in F : r.out \notin Multifunctional(F)}
    \cup UNION {SplitRows(F, q) : q \in SplitBy(F)}

\* Activities without any production row have no column and go.
Allocated(F) ==
         {r \in F : r.out \in Outs(Production(F)) \ Multifunctional(F)}
    \cup UNION {SplitRows(F, q) : q \in SplitBy(F)}

Splits(F) == {<<SyntheticId(q.out, q.in), q.out, q.in>> : q \in SplitBy(F)}

Allocate ==
    /\ stage = "initial"
    /\ ~CannotNormalise(frame)
    /\ frame' = Allocated(frame)
    /\ provenance' = Splits(frame)
    /\ Snap("after_allocator", frame')
    /\ stage' = "after_allocator"
    /\ UNCHANGED <<source, consumers, audit, matrix, labels>>

AllocateRaises ==
    /\ stage = "initial"
    /\ CannotNormalise(frame)
    /\ stage' = "raised"
    /\ UNCHANGED <<source, frame, provenance, snapshot, consumers, audit, matrix, labels>>

-----------------------------------------------------------------------------
(* ProductDeduplicator: the smallest id keeps the product. *)

\* Mutant: the largest id keeps the product.
ExcessLargest(F) == {a \in Outs(Production(F)) :
    \E r, s \in Production(F) : r.out = a /\ s.in = r.in /\ s.out > a}

Excess(F) == {a \in Outs(Production(F)) :
    \E r, s \in Production(F) : r.out = a /\ s.in = r.in /\ s.out < a}

Deduplicated(F) == {r \in F : r.out \notin Excess(F)}

Deduplicate ==
    /\ stage = "after_allocator"
    /\ frame' = Deduplicated(frame)
    /\ Snap("after_dedup", frame')
    /\ consumers' = Consumption(frame')
    /\ stage' = "after_dedup"
    /\ UNCHANGED <<source, provenance, audit, matrix, labels>>

-----------------------------------------------------------------------------
(* DanglingEdgePruner, and the audit that is written after it *)

\* Mutant: the splits of an activity are not looked at.
SelfLoopUnsplit(F) == {r \in Consumption(F) :
    r.out \in Activity /\ \E q \in Production(F) : q.out = r.out /\ q.in = r.in}

\* An activity that consumes what it produces.
SelfLoop(F) == {r \in Consumption(F) :
    \E q \in Production(F) : q.out = r.out /\ q.in = r.in}

Dangling(F) ==
         {r \in Consumption(F) : r.in \notin Ins(Real(F)) \/ r.out \notin Outs(Real(F))}
    \cup {r \in F : r.out \in Outs(Production(F)) \ Outs(Real(F))}

Pruned(F) == LET G == F \ SelfLoop(F) IN G \ Dangling(G)

\* Each activity that was dropped, at the first stage it was gone.
ActivityDrops(snaps) ==
    LET goneAt == {x \in Column \X (2..4) :
                     /\ x[1] \in snaps["initial"].activities \ snaps["after_pruner"].activities
                     /\ x[1] \in snaps[Stages[x[2] - 1]].activities
                     /\ x[1] \notin snaps[Stages[x[2]]].activities}
    IN {<<"dropped_activity", x[1], Stages[x[2]]>> : x \in goneAt}

\* The first snapshot a product is absent from.
FirstGone(snaps, p) ==
    LET i == CHOOSE k \in 1..4 : /\ p \notin snaps[Stages[k]].products
                                 /\ \A j \in 1..(k - 1) : p \in snaps[Stages[j]].products
    IN IF i = 1 THEN "never_produced" ELSE Stages[i]

\* Each product that was lost, or that was consumed before the pruner ran.
ProductDrops(snaps) ==
    {<<"dangling_product", p, FirstGone(snaps, p)>> :
        p \in (snaps["initial"].products \cup Ins(consumers)) \ snaps["after_pruner"].products}

Prune ==
    /\ stage = "after_dedup"
    /\ frame' = Pruned(frame)
    /\ Snap("after_pruner", frame')
    /\ audit' = ActivityDrops(snapshot') \cup ProductDrops(snapshot')
    /\ stage' = "after_pruner"
    /\ UNCHANGED <<source, provenance, consumers, matrix, labels>>

-----------------------------------------------------------------------------
(* PerennialLifecycleFilter, which knows the activities by their own ids:  *)
(* the columns of one that was split are no targets of it.                 *)

Filtered(F) == F \ {r \in Emission(F) : r.out \in Perennial /\ r.in \in Acid}

Filter ==
    /\ stage = "after_pruner"
    /\ frame' = Filtered(frame)
    /\ stage' = "filtered"
    /\ UNCHANGED <<source, provenance, snapshot, consumers, audit, matrix, labels>>

-----------------------------------------------------------------------------
(* TechnosphereBuilder, BiosphereBuilder, ProductCatalogBuilder *)

NotBuildable(F) ==
    \/ Production(F) \cup Consumption(F) = {}
    \/ Cardinality(Ins(Real(F))) # Cardinality(Outs(F))

\* Entries whose product or activity has no index are left out.
Built(F) ==
    LET cells(G) == {<<r.in, r.out, r.kind>> : r \in {s \in G : s.out \in Outs(Real(F))}} IN
    [pairs |-> {<<r.in, r.out>> : r \in Real(F)},
     A |-> {c \in cells(Production(F) \cup Consumption(F)) : c[1] \in Ins(Real(F))},
     B |-> cells(Emission(F))]

\* A column is known by its own key, else it is a split, else unresolved.
Label(c) == IF c \in Named THEN "activity"
            ELSE IF \E t \in provenance : t[1] = c THEN "split" ELSE "unresolved"

Build ==
    /\ stage = "filtered"
    /\ ~NotBuildable(frame)
    /\ matrix' = Built(frame)
    /\ labels' = {<<c[2], Label(c[2])>> : c \in matrix'.pairs}
    /\ stage' = "built"
    /\ UNCHANGED <<source, frame, provenance, snapshot, consumers, audit>>

BuildRaises ==
    /\ stage = "filtered"
    /\ NotBuildable(frame)
    /\ stage' = "raised"
    /\ UNCHANGED <<source, frame, provenance, snapshot, consumers, audit, matrix, labels>>

-----------------------------------------------------------------------------

Nothing == [activities |-> {}, products |-> {}]
NoMatrix == [pairs |-> {}, A |-> {}, B |-> {}]

Init ==
    /\ stage = "initial"
    /\ source \in Frames
    /\ frame = source
    /\ snapshot = [s \in {Stages[i] : i \in 1..4} |->
                     IF s = "initial" THEN Seen(source) ELSE Nothing]
    /\ provenance = {} /\ consumers = {} /\ audit = {}
    /\ matrix = NoMatrix /\ labels = {}

Next == Allocate \/ AllocateRaises \/ Deduplicate \/ Prune \/ Filter \/ Build \/ BuildRaises

Spec == Init /\ [][Next]_vars

-----------------------------------------------------------------------------
(* What the matrices are meant to be, read off the linked exchanges at once *)

\* The column a production row asks for.
Claim(S, q) == IF q.out \in Multifunctional(S) THEN SyntheticId(q.out, q.in) ELSE q.out

Claims(S, p) == {Claim(S, q) : q \in {r \in Production(S) : r.in = p}}
Owner(S, p) == CHOOSE c \in Claims(S, p) : \A d \in Claims(S, p) : c <= d

\* A product has a row iff the smallest id that claims it really makes it.
OwnedProducts(S) == {p \in Ins(Production(S)) :
    \E q \in Real(S) : q.in = p /\ Claim(S, q) = Owner(S, p)}

\* The columns the other exchanges of an activity go to, with their products.
Shares(S, a) == {<<q.in, Claim(S, q)>> :
    q \in {r \in Production(S) : /\ r.out = a
                                 /\ a \in Multifunctional(S) => Weighs(r)}}

Pairs(S) == {<<p, Owner(S, p)>> : p \in OwnedProducts(S)}

\* The entries of the rows R, each with the product of its column.
Spread(S, R) == UNION {{<<r.in, s[2], r.kind, s[1]>> :
                          s \in Shares(S, r.out) \cap Pairs(S)} : r \in R}
Cells(X) == {<<x[1], x[2], x[3]>> : x \in X}

\* What the filter is there to drop: "the ammonia biosphere edges on the
\* non-productive / grubbing-up activities".
AcidEmission(S) == {r \in Emission(S) : r.out \in Perennial /\ r.in \in Acid}

Reference(S) ==
    [pairs |-> Pairs(S),
     A |-> {<<x[1], x[2], "production">> : x \in Pairs(S)} \cup
           Cells({y \in Spread(S, Consumption(S)) :
                       y[1] \in OwnedProducts(S) /\ y[1] # y[4]}),
     B |-> Cells(Spread(S, Emission(S) \ AcidEmission(S)))]

\* The entries the filter misses: the acid emissions of perennials that were
\* split, which are no longer under the id it looks for.
Escaped(S) ==
    Cells(Spread(S, {r \in AcidEmission(S) : r.out \in Multifunctional(S)}))

-----------------------------------------------------------------------------
(* Properties *)

\* Every activity really produces one product, and no other activity does.
OneToOne(F) ==
    /\ \A r, s \in Real(F) : r.in = s.in <=> r.out = s.out
    /\ Outs(F) = Outs(Real(F))

\* "Squareness is a precondition" of TechnosphereBuilder: after the pruner,
\* products and activities are paired one to one, whatever was linked.
SquareWhenPruned == stage \in {"after_pruner", "filtered", "built"} => OneToOne(frame)

\* The diagonal of A is the production alone, and every input has a row and a
\* column: no entry of the technosphere is dropped by the builder.
NoDanglingEdge ==
    stage \in {"after_pruner", "filtered", "built"} =>
        \A r \in Consumption(frame) :
            /\ \E q \in Real(frame) : q.in = r.in /\ q.out # r.out
            /\ \E q \in Real(frame) : q.out = r.out

\* One pass of the pruner is enough: a second would drop nothing.
PruneSettles == stage = "after_pruner" => Pruned(frame) = frame

\* The five passes together place every exchange where the reference does,
\* and nothing else but the acid emissions of perennials that were split.
MatrixIsReference ==
    stage = "built" =>
        matrix = [Reference(source) EXCEPT !.B = @ \cup Escaped(source)]

\* The audit blames the right pass for every loss, and explains every input
\* the pruner took.
AuditBlames ==
    stage \in {"after_pruner", "filtered", "built"} =>
        /\ \A t \in audit : t[3] =
             IF t[1] = "dropped_activity" /\ t[2] \in Multifunctional(source) THEN "after_allocator"
             ELSE IF t[1] = "dangling_product" /\ t[2] \notin Ins(Real(source)) THEN "never_produced"
             ELSE "after_dedup"
        /\ LET before == Deduplicated(Allocated(source)) IN
           \A r \in consumers \ frame :
             \/ r \in SelfLoop(before)
             \/ r.out \notin Outs(Real(before))
             \/ \E t \in audit : t[1] = "dangling_product" /\ t[2] = r.in
=============================================================================
