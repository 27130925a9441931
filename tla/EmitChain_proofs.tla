---------------------------- MODULE EmitChain_proofs ----------------------------
(***************************************************************************)
(* Why TechnosphereBuilder never sees a frame that is not square, for any  *)
(* number of activities, products and exchanges: each pass establishes     *)
(* the part of the pairing the next one relies on.  And why the matrices   *)
(* of the five passes are those of the reference, and the audit is right:  *)
(* each pass is characterised by the exchanges of the source it leaves.    *)
(***************************************************************************)
EXTENDS EmitChain, WellFoundedInduction, TLAPS

\* After the allocator: a column has a production row, and makes one product.
OneProduct(F) ==
    /\ \A r, s \in Production(F) : r.out = s.out => r.in = s.in
    /\ Outs(F) \subseteq Outs(Production(F))

\* After the deduplicator: a product has one column.
OneColumn(F) == \A r, s \in Production(F) : r.in = s.in => r.out = s.out

\* After the pruner: every input is made by another column, for a column.
NoDangling(F) ==
    \A r \in Consumption(F) :
        /\ \E q \in Real(F) : q.in = r.in /\ q.out # r.out
        /\ \E q \in Real(F) : q.out = r.out

ChainInv ==
    /\ frame \subseteq Rows(Column)
    /\ stage = "initial" => frame \subseteq Rows(Activity)
    /\ stage \in {"after_allocator", "after_dedup"} => OneProduct(frame)
    /\ stage = "after_dedup" => OneColumn(frame)
    /\ stage \in {"after_pruner", "filtered", "built"} => OneToOne(frame) /\ NoDangling(frame)
    /\ stage \in {"after_pruner", "filtered", "built"} => OneProduct(frame) /\ OneColumn(frame)
    /\ stage \in {Stages[i] : i \in 1..4} \cup {"filtered", "built", "raised"}

-----------------------------------------------------------------------------

\* A synthetic id is a column of its own: Allocator._synthetic_id collides
\* neither with an activity nor with another pair.
LEMMA SyntheticFacts ==
    ASSUME NEW a \in Activity, NEW p \in Product
    PROVE  /\ SyntheticId(a, p) \in Synthetic
           /\ SyntheticId(a, p) \in Column
           /\ SyntheticId(a, p) \notin Activity
           /\ \A b \in Activity, q \in Product :
                 SyntheticId(a, p) = SyntheticId(b, q) => a = b /\ p = q
<1>1. SyntheticId(a, p) \in Synthetic
  BY DEF Synthetic
<1>2. QED
  BY <1>1, IdAssumption DEF Column

\* Column ids are natural numbers: the deduplicator can order them.
LEMMA ColumnsAreNumbers == Column \subseteq Nat
<1>1. \A a, p \in Nat : SyntheticId(a, p) \in Nat
  <2>. SUFFICES ASSUME NEW a \in Nat, NEW p \in Nat
                PROVE  SyntheticId(a, p) \in Nat
    OBVIOUS
  <2>1. a * Multiplier + p \in Nat
    BY IdAssumption
  <2>2. \A n \in Nat : n % Modulus \in Nat
    BY IdAssumption
  <2>3. QED
    BY <2>1, <2>2 DEF SyntheticId
<1>2. \A a \in Activity, p \in Product : SyntheticId(a, p) \in Nat
  BY <1>1, IdAssumption
<1>3. Synthetic \subseteq Nat
  BY <1>2 DEF Synthetic
<1>4. QED
  BY <1>3, IdAssumption DEF Column

\* Rows keep their shape when the allocator moves them to a split.
LEMMA RenamedRow ==
    ASSUME NEW F \in SUBSET Rows(Activity), NEW q \in SplitBy(F), NEW r \in F
    PROVE  /\ Renamed(r, q) \in Rows(Column)
           /\ Renamed(r, q).out = SyntheticId(q.out, q.in)
           /\ Renamed(r, q).in = r.in
           /\ Renamed(r, q).kind = r.kind
<1>1. q \in F /\ q.kind = "production"
  BY DEF SplitBy, Production
<1>2. q.out \in Activity /\ q.in \in Product
  BY <1>1 DEF Rows
<1>3. SyntheticId(q.out, q.in) \in Column
  BY <1>2, SyntheticFacts
<1>4. QED
  BY <1>3 DEF Renamed, Rows

\* Where a row of the allocated frame comes from.
LEMMA AllocatedRow ==
    ASSUME NEW F \in SUBSET Rows(Activity), NEW r \in Allocated(F)
    PROVE  \/ r \in F /\ r.out \in Outs(Production(F)) \ Multifunctional(F)
           \/ \E q \in SplitBy(F) :
                /\ r = Renamed(q, q)
           \/ \E q \in SplitBy(F), s \in F \ Production(F) :
                /\ r = Renamed(s, q)
BY DEF Allocated, SplitRows

\* Allocator: "the activity's original output_id is replaced with a derived
\* synthetic id so the technosphere matrix becomes square".
LEMMA AllocatedFrame ==
    ASSUME NEW F \in SUBSET Rows(Activity)
    PROVE  Allocated(F) \subseteq Rows(Column) /\ OneProduct(Allocated(F))
<1>. DEFINE A == Allocated(F)
<1>1. ASSUME NEW r \in A
      PROVE  /\ r \in Rows(Column)
             /\ r.out \in Outs(Production(A))
  <2>1. CASE r \in F /\ r.out \in Outs(Production(F)) \ Multifunctional(F)
    <3>1. PICK q \in Production(F) : q.out = r.out
      BY <2>1 DEF Outs
    <3>2. q \in A /\ q.kind = "production"
      BY <3>1, <2>1 DEF Allocated, Production, Outs
    <3>3. r \in Rows(Column)
      BY <2>1 DEF Rows, Column
    <3>4. QED
      BY <3>1, <3>2, <3>3 DEF Outs, Production
  <2>2. ASSUME NEW q \in SplitBy(F), NEW s \in F, r = Renamed(s, q)
        PROVE  r \in Rows(Column) /\ r.out \in Outs(Production(A))
    <3>1. q \in F /\ q.kind = "production"
      BY DEF SplitBy, Production
    <3>2. r \in Rows(Column) /\ r.out = SyntheticId(q.out, q.in)
      BY <2>2, RenamedRow
    <3>3. Renamed(q, q) \in A
      BY DEF Allocated, SplitRows
    <3>4. Renamed(q, q).out = SyntheticId(q.out, q.in) /\ Renamed(q, q).kind = "production"
      BY <3>1, RenamedRow
    <3>5. QED
      BY <3>2, <3>3, <3>4 DEF Outs, Production
  <2>3. QED
    BY <2>1, <2>2, AllocatedRow DEF SplitBy, Production
<1>2. ASSUME NEW r \in Production(A)
      PROVE  \/ r \in Production(F) /\ r.out \notin Multifunctional(F) /\ r.out \in Activity
             \/ \E q \in SplitBy(F) : /\ r.in = q.in /\ r.out = SyntheticId(q.out, q.in)
                                      /\ q.out \in Activity /\ q.in \in Product
  <2>1. r \in A /\ r.kind = "production"
    BY DEF Production
  <2>2. CASE r \in F /\ r.out \in Outs(Production(F)) \ Multifunctional(F)
    BY <2>1, <2>2 DEF Production, Rows
  <2>3. ASSUME NEW q \in SplitBy(F), NEW s \in F, r = Renamed(s, q), s = q \/ s \notin Production(F)
        PROVE  /\ r.in = q.in /\ r.out = SyntheticId(q.out, q.in)
               /\ q.out \in Activity /\ q.in \in Product
    <3>1. q \in F /\ q.kind = "production"
      BY DEF SplitBy, Production
    <3>2. r.out = SyntheticId(q.out, q.in) /\ r.in = s.in /\ r.kind = s.kind
      BY <2>3, RenamedRow
    <3>3. s = q
      BY <3>2, <2>1, <2>3 DEF Production
    <3>4. QED
      BY <3>1, <3>2, <3>3 DEF Rows
  <2>4. CASE \E q \in SplitBy(F) : r = Renamed(q, q)
    <3>1. PICK q \in SplitBy(F) : r = Renamed(q, q)
      BY <2>4
    <3>2. q \in F
      BY DEF SplitBy, Production
    <3>3. QED
      BY <2>3, <3>1, <3>2
  <2>5. CASE \E q \in SplitBy(F), s \in F \ Production(F) : r = Renamed(s, q)
    BY <2>3, <2>5
  <2>6. QED
    BY <2>1, <2>2, <2>4, <2>5, AllocatedRow
<1>3. ASSUME NEW r \in Production(A), NEW s \in Production(A), r.out = s.out
      PROVE  r.in = s.in
  <2>1. CASE r.out \in Activity
    <3>1. \A t \in Production(A) : t.out \in Activity =>
             t \in Production(F) /\ t.out \notin Multifunctional(F)
      BY <1>2, SyntheticFacts
    <3>2. r \in Production(F) /\ s \in Production(F) /\ r.out \notin Multifunctional(F)
      BY <2>1, <1>3, <3>1
    <3>3. r = s
      BY <3>2, <1>3 DEF Multifunctional, Outs
    <3>4. QED
      BY <3>3
  <2>2. CASE r.out \notin Activity
    <3>1. PICK q \in SplitBy(F) : /\ r.in = q.in /\ r.out = SyntheticId(q.out, q.in)
                                  /\ q.out \in Activity /\ q.in \in Product
      BY <1>2, <2>2
    <3>2. PICK w \in SplitBy(F) : /\ s.in = w.in /\ s.out = SyntheticId(w.out, w.in)
                                  /\ w.out \in Activity /\ w.in \in Product
      BY <1>2, <1>3, <2>2
    <3>3. q.in = w.in
      <4>1. SyntheticId(q.out, q.in) = SyntheticId(w.out, w.in)
        BY <3>1, <3>2, <1>3
      <4>2. QED
        BY <3>1, <3>2, <4>1, SyntheticFacts
    <3>4. QED
      BY <3>1, <3>2, <3>3
  <2>3. QED
    BY <2>1, <2>2
<1>4. A \subseteq Rows(Column)
  BY <1>1
<1>5. Outs(A) \subseteq Outs(Production(A))
  BY <1>1 DEF Outs
<1>6. QED
  BY <1>3, <1>4, <1>5 DEF OneProduct

\* ProductDeduplicator: "at most one producer per product".  It relies on the
\* allocator: an excess producer takes no other product with it.
LEMMA DeduplicatedFrame ==
    ASSUME NEW F \in SUBSET Rows(Column), OneProduct(F)
    PROVE  /\ Deduplicated(F) \subseteq Rows(Column)
           /\ OneProduct(Deduplicated(F))
           /\ OneColumn(Deduplicated(F))
<1>. DEFINE D == Deduplicated(F)
<1>1. D \subseteq F /\ Production(D) \subseteq Production(F)
  BY DEF Deduplicated, Production
<1>2. OneProduct(D)
  <2>1. ASSUME NEW r \in D
        PROVE  r.out \in Outs(Production(D))
    <3>1. PICK q \in Production(F) : q.out = r.out
      BY <1>1 DEF OneProduct, Outs
    <3>2. q \in Production(D)
      BY <3>1 DEF Deduplicated, Production
    <3>3. QED
      BY <3>1, <3>2 DEF Outs
  <2>2. QED
    BY <1>1, <2>1 DEF OneProduct, Outs
<1>3. ASSUME NEW r \in Production(D), NEW s \in Production(D), r.in = s.in
      PROVE  r.out = s.out
  <2>1. r \in Production(F) /\ s \in Production(F) /\ r.out \notin Excess(F) /\ s.out \notin Excess(F)
    BY <1>1 DEF Deduplicated, Production
  <2>2. ~(s.out < r.out) /\ ~(r.out < s.out)
    BY <2>1, <1>3 DEF Excess, Outs
  <2>3. r.out \in Nat /\ s.out \in Nat
    BY <2>1, ColumnsAreNumbers DEF Production, Rows
  <2>4. QED
    BY <2>2, <2>3
<1>4. QED
  BY <1>1, <1>2, <1>3 DEF OneColumn

\* DanglingEdgePruner in one pass: what a product or an activity still has is
\* judged by the productions, and no production of theirs is pruned.
LEMMA PrunedFrame ==
    ASSUME NEW F \in SUBSET Rows(Column), OneProduct(F), OneColumn(F)
    PROVE  /\ Pruned(F) \subseteq Rows(Column)
           /\ OneProduct(Pruned(F)) /\ OneColumn(Pruned(F))
           /\ OneToOne(Pruned(F)) /\ NoDangling(Pruned(F))
<1>. DEFINE G == F \ SelfLoop(F)
            P == Pruned(F)
<1>1. P = G \ Dangling(G) /\ P \subseteq F
  BY DEF Pruned
<1>2. Production(G) = Production(F)
  BY DEF Production, SelfLoop, Consumption
<1>3. Real(G) = Real(F)
  BY <1>2 DEF Real
<1>4. \A q \in Real(F) : q \in Real(P)
  <2>. SUFFICES ASSUME NEW q \in Real(F) PROVE q \in Real(P)
    OBVIOUS
  <2>1. q \in G /\ q.kind = "production" /\ q.made
    BY <1>3 DEF Real, Production
  <2>2. q.out \in Outs(Real(G))
    BY <1>3 DEF Outs
  <2>3. q \notin Dangling(G)
    BY <2>1, <2>2 DEF Dangling, Consumption
  <2>4. QED
    BY <1>1, <2>1, <2>3 DEF Real, Production
<1>5. Real(P) = Real(F)
  BY <1>1, <1>4 DEF Real, Production
<1>6. ASSUME NEW r \in P
      PROVE  r.out \in Outs(Real(P))
  <2>1. r \in F /\ r \in G /\ r \notin Dangling(G)
    BY <1>1
  <2>2. r.out \in Outs(Production(G))
    BY <1>2, <2>1 DEF OneProduct, Outs
  <2>3. r.out \in Outs(Real(G))
    BY <2>1, <2>2 DEF Dangling
  <2>4. QED
    BY <2>3, <1>3, <1>5
<1>7. OneProduct(P) /\ OneColumn(P)
  <2>1. Production(P) \subseteq Production(F) /\ Real(P) \subseteq Production(P)
    BY <1>1 DEF Production, Real
  <2>2. Outs(P) \subseteq Outs(Production(P))
    BY <1>6, <2>1 DEF Outs
  <2>3. QED
    BY <2>1, <2>2 DEF OneProduct, OneColumn
<1>8. OneToOne(P)
  <2>1. \A r, s \in Real(P) : r \in Production(P) /\ s \in Production(P)
    BY DEF Real
  <2>2. \A r, s \in Real(P) : r.in = s.in <=> r.out = s.out
    BY <2>1, <1>7 DEF OneProduct, OneColumn
  <2>3. Outs(P) = Outs(Real(P))
    BY <1>6 DEF Outs, Real, Production
  <2>4. QED
    BY <2>2, <2>3 DEF OneToOne
<1>9. NoDangling(P)
  <2>. SUFFICES ASSUME NEW r \in Consumption(P)
                PROVE  /\ \E q \in Real(P) : q.in = r.in /\ q.out # r.out
                       /\ \E q \in Real(P) : q.out = r.out
    BY DEF NoDangling
  <2>1. r \in G /\ r \notin Dangling(G) /\ r.kind = "technosphere" /\ r \in F
    BY <1>1 DEF Consumption
  <2>2. r.in \in Ins(Real(G)) /\ r.out \in Outs(Real(G))
    BY <2>1 DEF Dangling, Consumption
  <2>3. PICK q \in Real(P) : q.in = r.in
    BY <2>2, <1>3, <1>5 DEF Ins
  <2>4. q \in Production(F)
    BY <1>5 DEF Real
  <2>5. q.out # r.out
    BY <2>1, <2>3, <2>4 DEF SelfLoop, Consumption
  <2>6. \E w \in Real(P) : w.out = r.out
    BY <2>2, <1>3, <1>5 DEF Outs
  <2>7. QED
    BY <2>3, <2>5, <2>6
<1>10. QED
  BY <1>1, <1>7, <1>8, <1>9

\* PerennialLifecycleFilter takes emissions only, so the pairing stays.
LEMMA FilteredFrame ==
    ASSUME NEW F \in SUBSET Rows(Column),
           OneProduct(F), OneColumn(F), OneToOne(F), NoDangling(F)
    PROVE  /\ Filtered(F) \subseteq Rows(Column)
           /\ OneProduct(Filtered(F)) /\ OneColumn(Filtered(F))
           /\ OneToOne(Filtered(F)) /\ NoDangling(Filtered(F))
<1>. DEFINE D == Filtered(F)
<1>1. D \subseteq F
  BY DEF Filtered
<1>2. Production(D) = Production(F) /\ Consumption(D) = Consumption(F)
  BY DEF Filtered, Production, Consumption, Emission
<1>3. Real(D) = Real(F)
  BY <1>2 DEF Real
<1>4. Outs(D) = Outs(Real(D))
  <2>1. Real(D) \subseteq D
    BY DEF Real, Production
  <2>2. Outs(D) \subseteq Outs(F) /\ Outs(Real(D)) \subseteq Outs(D)
    BY <1>1, <2>1 DEF Outs
  <2>3. QED
    BY <2>2, <1>3 DEF OneToOne
<1>5. OneProduct(D) /\ OneColumn(D)
  BY <1>1, <1>2 DEF OneProduct, OneColumn, Outs
<1>6. OneToOne(D)
  BY <1>3, <1>4 DEF OneToOne
<1>7. NoDangling(D)
  BY <1>2, <1>3 DEF NoDangling
<1>8. QED
  BY <1>1, <1>5, <1>6, <1>7

-----------------------------------------------------------------------------

\* The chain's induction: each pass finds the frame its predecessor promises.
THEOREM ChainInvariant == Spec => []ChainInv
<1>1. Init => ChainInv
  <2>. SUFFICES ASSUME Init PROVE ChainInv
    OBVIOUS
  <2>1. stage = "initial" /\ frame = source /\ source \subseteq Rows(Activity)
    BY FrameAssumption DEF Init
  <2>2. Rows(Activity) \subseteq Rows(Column)
    BY DEF Rows, Column
  <2>3. "initial" = Stages[1] /\ 1 \in 1..4
    BY DEF Stages
  <2>4. QED
    BY <2>1, <2>2, <2>3 DEF ChainInv
<1>2. ChainInv /\ [Next]_vars => ChainInv'
  <2>. SUFFICES ASSUME ChainInv, [Next]_vars PROVE ChainInv'
    OBVIOUS
  <2>. USE DEF ChainInv
  <2>0. /\ "initial" = Stages[1] /\ "after_allocator" = Stages[2]
        /\ "after_dedup" = Stages[3] /\ "after_pruner" = Stages[4]
        /\ 1 \in 1..4 /\ 2 \in 1..4 /\ 3 \in 1..4 /\ 4 \in 1..4
    BY DEF Stages
  <2>1. CASE Allocate
    BY <2>0, <2>1, AllocatedFrame DEF Allocate
  <2>2. CASE Deduplicate
    BY <2>0, <2>2, DeduplicatedFrame DEF Deduplicate
  <2>3. CASE Prune
    BY <2>0, <2>3, PrunedFrame DEF Prune
  <2>4. CASE Filter
    BY <2>4, FilteredFrame DEF Filter
  <2>5. CASE Build
    BY <2>5 DEF Build
  <2>6. CASE AllocateRaises \/ BuildRaises
    BY <2>6 DEF AllocateRaises, BuildRaises
  <2>7. CASE UNCHANGED vars
    BY <2>7 DEF vars
  <2>8. QED
    BY <2>1, <2>2, <2>3, <2>4, <2>5, <2>6, <2>7 DEF Next
<1>3. QED
  BY <1>1, <1>2, PTL DEF Spec

\* The precondition TechnosphereBuilder asserts: from the pruner on, products
\* and activities are paired one to one.
THEOREM AlwaysSquare == Spec => []SquareWhenPruned
<1>1. ChainInv => SquareWhenPruned
  BY DEF ChainInv, SquareWhenPruned
<1>2. QED
  BY <1>1, ChainInvariant, PTL

\* From the pruner on no exchange of the technosphere is without a row or a
\* column, nor lies on the diagonal beside the production.
THEOREM NeverDangling == Spec => []NoDanglingEdge
<1>1. ChainInv => NoDanglingEdge
  BY DEF ChainInv, NoDanglingEdge, NoDangling
<1>2. QED
  BY <1>1, ChainInvariant, PTL

\* "Reproduces MatrixPurger's fixed point in a single pass": what the pruner
\* leaves, it would leave again.
THEOREM PrunerSettles == Spec => []PruneSettles
<1>1. ASSUME ChainInv, stage = "after_pruner"
      PROVE  Pruned(frame) = frame
  <2>1. OneToOne(frame) /\ NoDangling(frame) /\ OneColumn(frame)
    BY <1>1 DEF ChainInv
  <2>2. ASSUME NEW r \in SelfLoop(frame)
        PROVE  FALSE
    <3>1. r \in Consumption(frame)
      BY DEF SelfLoop
    <3>2. PICK q \in Production(frame) : q.out = r.out /\ q.in = r.in
      BY DEF SelfLoop
    <3>3. PICK w \in Real(frame) : w.in = r.in /\ w.out # r.out
      BY <2>1, <3>1 DEF NoDangling
    <3>4. w \in Production(frame)
      BY DEF Real
    <3>5. QED
      BY <2>1, <3>2, <3>3, <3>4 DEF OneColumn
  <2>3. ASSUME NEW r \in Dangling(frame)
        PROVE  FALSE
    <3>1. ASSUME r \in Consumption(frame)
          PROVE  r.in \in Ins(Real(frame)) /\ r.out \in Outs(Real(frame))
      BY <2>1, <3>1 DEF NoDangling, Ins, Outs
    <3>2. ASSUME r \in frame
          PROVE  r.out \in Outs(Real(frame))
      BY <2>1, <3>2 DEF OneToOne, Outs
    <3>3. QED
      BY <3>1, <3>2 DEF Dangling
  <2>4. frame \ SelfLoop(frame) = frame
    BY <2>2 DEF SelfLoop
  <2>5. QED
    BY <2>3, <2>4 DEF Pruned
<1>2. ChainInv => PruneSettles
  BY <1>1 DEF PruneSettles
<1>3. QED
  BY <1>2, ChainInvariant, PTL

-----------------------------------------------------------------------------
(* The matrices, read off the linked exchanges *)

\* An exchange of another activity, or of a split, is the same exchange.
Moved(r, c) == [r EXCEPT !.out = c]

LEMMA MovedRow ==
    ASSUME NEW r \in Rows(Activity), NEW c
    PROVE  /\ Moved(r, c).out = c
           /\ Moved(r, c).in = r.in /\ Moved(r, c).kind = r.kind
           /\ Moved(r, c).made = r.made
           /\ Moved(r, r.out) = r
           /\ r.out \in Activity
           /\ r.kind \in {"production", "technosphere", "biosphere"}
           /\ r.kind = "production" => r.in \in Product
BY DEF Moved, Rows

\* The claims of two production rows meet only over one product.
LEMMA ClaimFacts ==
    ASSUME NEW S \in SUBSET Rows(Activity), NEW q \in Production(S), NEW w \in Production(S)
    PROVE  /\ Claim(S, q) \in Nat
           /\ Claim(S, q) = Claim(S, w) => q.in = w.in
<1>1. /\ q \in S /\ w \in S
      /\ q.out \in Activity /\ q.in \in Product /\ w.out \in Activity /\ w.in \in Product
  BY MovedRow DEF Production
<1>2. Claim(S, q) \in Column
  BY <1>1, SyntheticFacts DEF Claim, Column
<1>3. ASSUME Claim(S, q) = Claim(S, w) PROVE q.in = w.in
  <2>1. CASE q.out \in Multifunctional(S) /\ w.out \in Multifunctional(S)
    BY <1>1, <1>3, <2>1, SyntheticFacts DEF Claim
  <2>2. CASE q.out \notin Multifunctional(S) /\ w.out \notin Multifunctional(S)
    <3>1. q.out = w.out
      BY <1>3, <2>2 DEF Claim
    <3>2. q = w
      BY <2>2, <3>1 DEF Multifunctional, Outs
    <3>3. QED
      BY <3>2
  <2>3. CASE (q.out \in Multifunctional(S)) # (w.out \in Multifunctional(S))
    BY <1>1, <1>3, <2>3, SyntheticFacts DEF Claim
  <2>4. QED
    BY <2>1, <2>2, <2>3
<1>4. QED
  BY <1>2, <1>3, ColumnsAreNumbers

\* The allocator moves each production row to the column it claims ...
LEMMA AllocatedProductions ==
    ASSUME NEW S \in SUBSET Rows(Activity), NEW r
    PROVE  r \in Production(Allocated(S)) <=>
             \E q \in Production(S) : r = Moved(q, Claim(S, q))
<1>1. ASSUME NEW q \in Production(S)
      PROVE  Moved(q, Claim(S, q)) \in Production(Allocated(S))
  <2>1. q \in S /\ q \in Rows(Activity) /\ q.kind = "production"
    BY DEF Production
  <2>2. Moved(q, Claim(S, q)).kind = "production"
    BY <2>1, MovedRow
  <2>3. CASE q.out \in Multifunctional(S)
    <3>1. q \in SplitBy(S) /\ Moved(q, Claim(S, q)) = Renamed(q, q)
      BY <2>3 DEF SplitBy, Claim, Moved, Renamed
    <3>2. QED
      BY <2>2, <3>1 DEF Allocated, SplitRows, Production
  <2>4. CASE q.out \notin Multifunctional(S)
    <3>1. Moved(q, Claim(S, q)) = q
      BY <2>1, <2>4, MovedRow DEF Claim
    <3>2. q \in Allocated(S)
      BY <2>1, <2>4 DEF Allocated, Outs
    <3>3. QED
      BY <2>2, <3>1, <3>2 DEF Production
  <2>5. QED
    BY <2>3, <2>4
<1>2. ASSUME r \in Production(Allocated(S))
      PROVE  \E q \in Production(S) : r = Moved(q, Claim(S, q))
  <2>1. r \in Allocated(S) /\ r.kind = "production"
    BY <1>2 DEF Production
  <2>2. CASE r \in S /\ r.out \in Outs(Production(S)) \ Multifunctional(S)
    <3>1. r \in Production(S)
      BY <2>1, <2>2 DEF Production
    <3>2. r = Moved(r, Claim(S, r))
      BY <2>2, MovedRow DEF Claim
    <3>3. QED
      BY <3>1, <3>2
  <2>3. ASSUME NEW q \in SplitBy(S), r = Renamed(q, q)
        PROVE  \E w \in Production(S) : r = Moved(w, Claim(S, w))
    <3>1. q \in Production(S) /\ q.out \in Multifunctional(S)
      BY DEF SplitBy
    <3>2. r = Moved(q, Claim(S, q))
      BY <2>3, <3>1 DEF Claim, Moved, Renamed
    <3>3. QED
      BY <3>1, <3>2
  <2>4. ASSUME NEW q \in SplitBy(S), NEW s \in S \ Production(S), r = Renamed(s, q)
        PROVE  FALSE
    <3>1. r.kind = s.kind
      BY <2>4, RenamedRow
    <3>2. QED
      BY <2>1, <3>1 DEF Production
  <2>5. QED
    BY <2>1, <2>2, <2>3, <2>4, AllocatedRow
<1>3. QED
  BY <1>1, <1>2

\* ... and every other row to each column its activity has a share in.
LEMMA AllocatedOthers ==
    ASSUME NEW S \in SUBSET Rows(Activity), NEW r
    PROVE  r \in Allocated(S) \ Production(Allocated(S)) <=>
             \E x \in S \ Production(S) : \E s \in Shares(S, x.out) : r = Moved(x, s[2])
<1>1. ASSUME NEW x \in S \ Production(S), NEW s \in Shares(S, x.out)
      PROVE  Moved(x, s[2]) \in Allocated(S) \ Production(Allocated(S))
  <2>1. PICK q \in Production(S) :
          /\ q.out = x.out /\ (x.out \in Multifunctional(S) => Weighs(q))
          /\ s = <<q.in, Claim(S, q)>>
    BY DEF Shares
  <2>2. s[2] = Claim(S, q)
    BY <2>1
  <2>3. Moved(x, s[2]).kind # "production"
    BY MovedRow DEF Production
  <2>4. CASE x.out \in Multifunctional(S)
    <3>1. q \in SplitBy(S) /\ Weighs(q)
      BY <2>1, <2>4 DEF SplitBy
    <3>2. Moved(x, s[2]) = Renamed(x, q)
      BY <2>1, <2>2, <2>4 DEF Moved, Renamed, Claim
    <3>3. Renamed(x, q) \in SplitRows(S, q)
      BY <2>1, <3>1 DEF SplitRows
    <3>4. QED
      BY <2>3, <3>1, <3>2, <3>3 DEF Allocated, Production
  <2>5. CASE x.out \notin Multifunctional(S)
    <3>1. Moved(x, s[2]) = x
      BY <2>1, <2>2, <2>5, MovedRow DEF Claim
    <3>2. x \in Allocated(S)
      BY <2>1, <2>5 DEF Allocated, Outs
    <3>3. QED
      BY <2>3, <3>1, <3>2 DEF Production
  <2>6. QED
    BY <2>4, <2>5
<1>2. ASSUME r \in Allocated(S) \ Production(Allocated(S))
      PROVE  \E x \in S \ Production(S) : \E s \in Shares(S, x.out) : r = Moved(x, s[2])
  <2>1. r \in Allocated(S) /\ r.kind # "production"
    BY <1>2 DEF Production
  <2>2. CASE r \in S /\ r.out \in Outs(Production(S)) \ Multifunctional(S)
    <3>1. PICK q \in Production(S) : q.out = r.out
      BY <2>2 DEF Outs
    <3>2. <<q.in, Claim(S, q)>> \in Shares(S, r.out) /\ Claim(S, q) = r.out
      BY <2>2, <3>1 DEF Shares, Claim
    <3>3. r \in S \ Production(S) /\ r = Moved(r, <<q.in, Claim(S, q)>>[2])
      BY <2>1, <2>2, <3>2, MovedRow DEF Production
    <3>4. QED
      BY <3>2, <3>3
  <2>3. ASSUME NEW q \in SplitBy(S), r = Renamed(q, q)
        PROVE  FALSE
    <3>1. q \in S /\ q.kind = "production"
      BY DEF SplitBy, Production
    <3>2. QED
      BY <2>1, <2>3, <3>1, RenamedRow
  <2>4. ASSUME NEW q \in SplitBy(S), r \in SplitRows(S, q), r # Renamed(q, q)
        PROVE  \E x \in S \ Production(S) : \E s \in Shares(S, x.out) : r = Moved(x, s[2])
    <3>1. PICK x \in S \ Production(S) : x.out = q.out /\ Weighs(q) /\ r = Renamed(x, q)
      BY <2>4 DEF SplitRows
    <3>2. q \in Production(S) /\ q.out \in Multifunctional(S)
      BY DEF SplitBy
    <3>3. <<q.in, Claim(S, q)>> \in Shares(S, x.out) /\ Claim(S, q) = SyntheticId(q.out, q.in)
      BY <3>1, <3>2 DEF Shares, Claim
    <3>4. r = Moved(x, <<q.in, Claim(S, q)>>[2])
      BY <3>1, <3>3 DEF Moved, Renamed
    <3>5. QED
      BY <3>3, <3>4
  <2>5. QED
    BY <2>1, <2>2, <2>3, <2>4 DEF Allocated
<1>3. QED
  BY <1>1, <1>2

\* A nonempty set of numbers has a least one.
LEMMA LeastNumber ==
    ASSUME NEW T \in SUBSET Nat, T # {}
    PROVE  \E m \in T : \A n \in T : m <= n
<1>1. PICK m \in T : \A n \in T : <<n, m>> \notin OpToRel(<, Nat)
  BY NatLessThanWellFounded, WFMin
<1>2. \A n \in T : ~ (n < m)
  BY <1>1 DEF OpToRel
<1>3. QED
  BY <1>2

\* A product that is claimed has an owner, and only that one.
LEMMA OwnerFacts ==
    ASSUME NEW S \in SUBSET Rows(Activity), NEW q \in Production(S)
    PROVE  /\ \E w \in Production(S) : w.in = q.in /\ Claim(S, w) = Owner(S, q.in)
           /\ \A w \in Production(S) : w.in = q.in => Owner(S, q.in) <= Claim(S, w)
<1>. DEFINE C == Claims(S, q.in)
<1>1. C \in SUBSET Nat /\ C # {}
  BY ClaimFacts DEF Claims
<1>2. \E c \in C : \A d \in C : c <= d
  <2>. HIDE DEF C
  <2>1. QED
    BY <1>1, LeastNumber
<1>3. Owner(S, q.in) \in C /\ \A d \in C : Owner(S, q.in) <= d
  BY <1>2 DEF Owner
<1>4. QED
  BY <1>3 DEF Claims

\* The deduplicator drops a column iff it does not own the product it makes.
LEMMA ExcessFacts ==
    ASSUME NEW S \in SUBSET Rows(Activity), NEW q \in Production(S)
    PROVE  Claim(S, q) \in Excess(Allocated(S)) <=> Claim(S, q) # Owner(S, q.in)
<1>. DEFINE A == Allocated(S)
<1>1. \A w \in Production(S) :
          /\ Moved(w, Claim(S, w)) \in Production(A)
          /\ Moved(w, Claim(S, w)).out = Claim(S, w) /\ Moved(w, Claim(S, w)).in = w.in
  BY AllocatedProductions, MovedRow DEF Production
<1>2. ASSUME NEW r \in Production(A)
      PROVE  \E w \in Production(S) : r.out = Claim(S, w) /\ r.in = w.in
  <2>1. PICK w \in Production(S) : r = Moved(w, Claim(S, w))
    BY AllocatedProductions
  <2>2. QED
    BY <1>1, <2>1
<1>. HIDE DEF A
<1>3. ASSUME Claim(S, q) \in Excess(A)
      PROVE  Claim(S, q) # Owner(S, q.in)
  <2>1. PICK r \in Production(A), s \in Production(A) :
          r.out = Claim(S, q) /\ s.in = r.in /\ s.out < Claim(S, q)
    BY <1>3 DEF Excess
  <2>2. PICK v \in Production(S) : r.out = Claim(S, v) /\ r.in = v.in
    BY <1>2
  <2>3. PICK w \in Production(S) : s.out = Claim(S, w) /\ s.in = w.in
    BY <1>2
  <2>4. w.in = q.in
    BY <2>1, <2>2, <2>3, ClaimFacts
  <2>5. Owner(S, q.in) <= Claim(S, w) /\ Claim(S, w) < Claim(S, q)
    BY <2>1, <2>3, <2>4, OwnerFacts
  <2>6. Claim(S, w) \in Nat /\ Claim(S, q) \in Nat
    BY ClaimFacts
  <2>7. QED
    BY <2>5, <2>6
<1>4. ASSUME Claim(S, q) # Owner(S, q.in)
      PROVE  Claim(S, q) \in Excess(A)
  <2>1. PICK w \in Production(S) : w.in = q.in /\ Claim(S, w) = Owner(S, q.in)
    BY OwnerFacts
  <2>2. Claim(S, w) <= Claim(S, q) /\ Claim(S, w) \in Nat /\ Claim(S, q) \in Nat
    BY <2>1, OwnerFacts, ClaimFacts
  <2>3. Claim(S, w) < Claim(S, q)
    BY <1>4, <2>1, <2>2
  <2>4. PICK r \in Production(A) : r.out = Claim(S, q) /\ r.in = q.in
    BY <1>1
  <2>5. PICK s \in Production(A) : s.out = Claim(S, w) /\ s.in = w.in
    BY <1>1
  <2>6. Claim(S, q) \in Outs(Production(A)) /\ s.in = r.in /\ s.out < Claim(S, q)
    BY <2>1, <2>3, <2>4, <2>5 DEF Outs
  <2>7. QED
    BY <2>4, <2>6 DEF Excess
<1>5. QED
  BY <1>3, <1>4 DEF A

\* What the deduplicator leaves: the productions of the owners, ...
LEMMA KeptProductions ==
    ASSUME NEW S \in SUBSET Rows(Activity), NEW r
    PROVE  r \in Production(Deduplicated(Allocated(S))) <=>
             \E q \in Production(S) :
                Claim(S, q) = Owner(S, q.in) /\ r = Moved(q, Claim(S, q))
<1>1. r \in Production(Deduplicated(Allocated(S))) <=>
        r \in Production(Allocated(S)) /\ r.out \notin Excess(Allocated(S))
  BY DEF Deduplicated, Production
<1>2. \A q \in Production(S) : Moved(q, Claim(S, q)).out = Claim(S, q)
  BY MovedRow DEF Production
<1>3. QED
  BY <1>1, <1>2, AllocatedProductions, ExcessFacts

\* ... of which those that are real make the reference's pairs, ...
LEMMA KeptReal ==
    ASSUME NEW S \in SUBSET Rows(Activity)
    PROVE  LET R == Real(Deduplicated(Allocated(S))) IN
           /\ {<<r.in, r.out>> : r \in R} = Pairs(S)
           /\ Ins(R) = OwnedProducts(S)
           /\ \A q \in Production(S) : Claim(S, q) = Owner(S, q.in) =>
                (Claim(S, q) \in Outs(R) <=> <<q.in, Claim(S, q)>> \in Pairs(S))
<1>. DEFINE R == Real(Deduplicated(Allocated(S)))
<1>1. ASSUME NEW r \in R
      PROVE  \E q \in Real(S) : /\ Claim(S, q) = Owner(S, q.in)
                                /\ r.in = q.in /\ r.out = Claim(S, q)
  <2>1. r \in Production(Deduplicated(Allocated(S))) /\ r.made
    BY DEF Real
  <2>2. PICK q \in Production(S) :
          Claim(S, q) = Owner(S, q.in) /\ r = Moved(q, Claim(S, q))
    BY <2>1, KeptProductions
  <2>3. r.in = q.in /\ r.out = Claim(S, q) /\ r.made = q.made
    BY <2>2, MovedRow DEF Production
  <2>4. QED
    BY <2>1, <2>2, <2>3 DEF Real
<1>2. ASSUME NEW q \in Real(S), Claim(S, q) = Owner(S, q.in)
      PROVE  \E r \in R : r.in = q.in /\ r.out = Claim(S, q)
  <2>1. q \in Production(S) /\ q.made
    BY DEF Real
  <2>. DEFINE r == Moved(q, Claim(S, q))
  <2>2. r.in = q.in /\ r.out = Claim(S, q) /\ r.made = q.made
    BY <2>1, MovedRow DEF Production
  <2>3. r \in Production(Deduplicated(Allocated(S)))
    BY <1>2, <2>1, KeptProductions
  <2>4. QED
    BY <2>1, <2>2, <2>3 DEF Real
<1>3. Real(S) \subseteq Production(S)
  BY DEF Real
<1>. HIDE DEF R
<1>4. Ins(R) = OwnedProducts(S)
  <2>1. Ins(R) \subseteq OwnedProducts(S)
    BY <1>1, <1>3 DEF Ins, OwnedProducts
  <2>2. ASSUME NEW p \in OwnedProducts(S) PROVE p \in Ins(R)
    BY <1>2 DEF Ins, OwnedProducts
  <2>3. QED
    BY <2>1, <2>2
<1>5. ASSUME NEW r \in R PROVE <<r.in, r.out>> \in Pairs(S)
  BY <1>1, <1>3 DEF Pairs, OwnedProducts, Ins
<1>6. ASSUME NEW x \in Pairs(S) PROVE \E r \in R : x = <<r.in, r.out>>
  <2>1. PICK p \in OwnedProducts(S) : x = <<p, Owner(S, p)>>
    BY DEF Pairs
  <2>2. QED
    BY <2>1, <1>2 DEF OwnedProducts
<1>7. ASSUME NEW q \in Production(S), Claim(S, q) = Owner(S, q.in)
      PROVE  Claim(S, q) \in Outs(R) <=> <<q.in, Claim(S, q)>> \in Pairs(S)
  <2>1. ASSUME Claim(S, q) \in Outs(R) PROVE <<q.in, Claim(S, q)>> \in Pairs(S)
    <3>1. PICK r \in R : r.out = Claim(S, q)
      BY <2>1 DEF Outs
    <3>2. PICK w \in Real(S) : r.in = w.in /\ r.out = Claim(S, w)
      BY <1>1
    <3>3. r.in = q.in
      BY <3>1, <3>2, <1>3, ClaimFacts
    <3>4. QED
      BY <3>1, <3>3, <1>5
  <2>2. ASSUME <<q.in, Claim(S, q)>> \in Pairs(S) PROVE Claim(S, q) \in Outs(R)
    BY <2>2, <1>6 DEF Outs
  <2>3. QED
    BY <2>1, <2>2
<1>8. QED
  BY <1>4, <1>5, <1>6, <1>7 DEF R

\* ... and of the other exchanges, those of the owners.
LEMMA KeptOthers ==
    ASSUME NEW S \in SUBSET Rows(Activity), NEW r
    PROVE  r \in Deduplicated(Allocated(S)) \ Production(Deduplicated(Allocated(S))) <=>
             \E x \in S \ Production(S) : \E q \in Production(S) :
                /\ <<q.in, Claim(S, q)>> \in Shares(S, x.out)
                /\ Claim(S, q) = Owner(S, q.in) /\ r = Moved(x, Claim(S, q))
<1>1. r \in Deduplicated(Allocated(S)) \ Production(Deduplicated(Allocated(S))) <=>
        /\ r \in Allocated(S) \ Production(Allocated(S))
        /\ r.out \notin Excess(Allocated(S))
  BY DEF Deduplicated, Production
<1>2. r \in Allocated(S) \ Production(Allocated(S)) <=>
        \E x \in S \ Production(S) : \E q \in Production(S) :
          <<q.in, Claim(S, q)>> \in Shares(S, x.out) /\ r = Moved(x, Claim(S, q))
  <2>1. \A x \in S : \A s \in Shares(S, x.out) :
          \E q \in Production(S) : s = <<q.in, Claim(S, q)>>
    BY DEF Shares
  <2>2. ASSUME r \in Allocated(S) \ Production(Allocated(S))
        PROVE  \E x \in S \ Production(S) : \E q \in Production(S) :
                 <<q.in, Claim(S, q)>> \in Shares(S, x.out) /\ r = Moved(x, Claim(S, q))
    <3>1. PICK x \in S \ Production(S) : \E s \in Shares(S, x.out) : r = Moved(x, s[2])
      BY <2>2, AllocatedOthers
    <3>2. PICK s \in Shares(S, x.out) : r = Moved(x, s[2])
      BY <3>1
    <3>3. PICK q \in Production(S) : s = <<q.in, Claim(S, q)>>
      BY <2>1
    <3>4. QED
      BY <3>2, <3>3
  <2>3. ASSUME NEW x \in S \ Production(S), NEW q \in Production(S),
               <<q.in, Claim(S, q)>> \in Shares(S, x.out), r = Moved(x, Claim(S, q))
        PROVE  r \in Allocated(S) \ Production(Allocated(S))
    <3>1. <<q.in, Claim(S, q)>>[2] = Claim(S, q)
      OBVIOUS
    <3>2. QED
      BY <2>3, <3>1, AllocatedOthers
  <2>4. QED
    BY <2>2, <2>3
<1>3. \A x \in S \ Production(S), q \in Production(S) : Moved(x, Claim(S, q)).out = Claim(S, q)
  BY MovedRow
<1>4. QED
  BY <1>1, <1>2, <1>3, ExcessFacts

\* The pruner judges every row by the real productions, which it leaves alone.
LEMMA PrunedRows ==
    ASSUME NEW F \in SUBSET Rows(Column), OneProduct(F)
    PROVE  /\ Real(Pruned(F)) = Real(F)
           /\ \A r \in F \ Consumption(F) :
                r \in Pruned(F) <=> r.out \in Outs(Real(F))
           /\ \A r \in Consumption(F) :
                r \in Pruned(F) <=> /\ r.in \in Ins(Real(F)) /\ r.out \in Outs(Real(F))
                                    /\ \A q \in Production(F) : q.out = r.out => q.in # r.in
<1>. DEFINE G == F \ SelfLoop(F)
<1>1. Pruned(F) = G \ Dangling(G) /\ Pruned(F) \subseteq F
  BY DEF Pruned
<1>2. Production(G) = Production(F)
  BY DEF Production, SelfLoop, Consumption
<1>3. Real(G) = Real(F)
  BY <1>2 DEF Real
<1>4. \A r \in F : r.out \in Outs(Production(F))
  BY DEF OneProduct, Outs
<1>5. ASSUME NEW r \in F \ Consumption(F)
      PROVE  r \in Pruned(F) <=> r.out \in Outs(Real(F))
  <2>1. r \in G /\ r \notin Consumption(G)
    BY DEF SelfLoop, Consumption
  <2>2. QED
    BY <1>1, <1>2, <1>3, <1>4, <2>1 DEF Dangling
<1>6. ASSUME NEW r \in Consumption(F)
      PROVE  r \in Pruned(F) <=> /\ r.in \in Ins(Real(F)) /\ r.out \in Outs(Real(F))
                                 /\ \A q \in Production(F) : q.out = r.out => q.in # r.in
  <2>1. r \in G <=> \A q \in Production(F) : q.out = r.out => q.in # r.in
    BY DEF SelfLoop, Consumption
  <2>2. r \in G => (r \in Dangling(G) <=> r.in \notin Ins(Real(F)) \/ r.out \notin Outs(Real(F)))
    BY <1>2, <1>3 DEF Dangling, Consumption
  <2>3. QED
    BY <1>1, <2>1, <2>2
<1>7. ASSUME NEW r \in Real(F) PROVE r \in Real(Pruned(F))
  <2>1. r \in F \ Consumption(F) /\ r.out \in Outs(Real(F))
    BY DEF Real, Production, Consumption, Outs
  <2>2. r \in Pruned(F)
    BY <1>5, <2>1
  <2>3. QED
    BY <2>2 DEF Real, Production
<1>8. Real(Pruned(F)) = Real(F)
  BY <1>1, <1>7 DEF Real, Production
<1>9. QED
  BY <1>5, <1>6, <1>8

\* The entries of some rows, spread over the columns of their activities.
LEMMA SpreadCells ==
    ASSUME NEW S, NEW R, NEW c
    PROVE  c \in Cells(Spread(S, R)) <=>
             \E x \in R : \E s \in Shares(S, x.out) \cap Pairs(S) : c = <<x.in, s[2], x.kind>>
<1>1. \A y : y \in Spread(S, R) <=>
        \E r \in R : \E s \in Shares(S, r.out) \cap Pairs(S) : y = <<r.in, s[2], r.kind, s[1]>>
  BY DEF Spread
<1>2. ASSUME NEW y \in Spread(S, R), c = <<y[1], y[2], y[3]>>
      PROVE  \E x \in R : \E s \in Shares(S, x.out) \cap Pairs(S) : c = <<x.in, s[2], x.kind>>
  <2>1. PICK x \in R : \E s \in Shares(S, x.out) \cap Pairs(S) :
          y = <<x.in, s[2], x.kind, s[1]>>
    BY <1>1
  <2>2. PICK s \in Shares(S, x.out) \cap Pairs(S) : y = <<x.in, s[2], x.kind, s[1]>>
    BY <2>1
  <2>3. QED
    BY <1>2, <2>2
<1>3. ASSUME NEW x \in R, NEW s \in Shares(S, x.out) \cap Pairs(S), c = <<x.in, s[2], x.kind>>
      PROVE  \E y \in Spread(S, R) : c = <<y[1], y[2], y[3]>>
  <2>. DEFINE y == <<x.in, s[2], x.kind, s[1]>>
  <2>1. y \in Spread(S, R)
    BY <1>1
  <2>2. QED
    BY <1>3, <2>1
<1>4. QED
  BY <1>2, <1>3 DEF Cells

\* What the reference says of an entry of the technosphere, and of the
\* biosphere; and which entries of the biosphere the filter misses.
LEMMA ReferenceCells ==
    ASSUME NEW S \in SUBSET Rows(Activity), NEW c
    PROVE  /\ Reference(S).pairs = Pairs(S)
           /\ c \in Reference(S).A <=>
                \/ \E x \in Pairs(S) : c = <<x[1], x[2], "production">>
                \/ \E x \in Consumption(S) : \E s \in Shares(S, x.out) \cap Pairs(S) :
                     x.in \in OwnedProducts(S) /\ x.in # s[1] /\ c = <<x.in, s[2], x.kind>>
           /\ c \in Reference(S).B \cup Escaped(S) <=>
                \E x \in Emission(S) : \E s \in Shares(S, x.out) \cap Pairs(S) :
                  /\ ~(x.out \in Perennial /\ x.in \in Acid) \/ x.out \in Multifunctional(S)
                  /\ c = <<x.in, s[2], x.kind>>
<1>1. Reference(S) =
        [pairs |-> Pairs(S),
         A |-> {<<x[1], x[2], "production">> : x \in Pairs(S)} \cup
               Cells({y \in Spread(S, Consumption(S)) :
                        y[1] \in OwnedProducts(S) /\ y[1] # y[4]}),
         B |-> Cells(Spread(S, Emission(S) \ AcidEmission(S)))]
  BY DEF Reference
<1>2. \A y : y \in Spread(S, Consumption(S)) <=>
        \E r \in Consumption(S) : \E s \in Shares(S, r.out) \cap Pairs(S) :
          y = <<r.in, s[2], r.kind, s[1]>>
  BY DEF Spread
<1>3. c \in Cells({y \in Spread(S, Consumption(S)) :
                        y[1] \in OwnedProducts(S) /\ y[1] # y[4]}) <=>
        \E x \in Consumption(S) : \E s \in Shares(S, x.out) \cap Pairs(S) :
          x.in \in OwnedProducts(S) /\ x.in # s[1] /\ c = <<x.in, s[2], x.kind>>
  <2>1. c \in Cells({y \in Spread(S, Consumption(S)) :
                        y[1] \in OwnedProducts(S) /\ y[1] # y[4]}) <=>
          \E y \in Spread(S, Consumption(S)) :
             y[1] \in OwnedProducts(S) /\ y[1] # y[4] /\ c = <<y[1], y[2], y[3]>>
    BY DEF Cells
  <2>2. ASSUME NEW y \in Spread(S, Consumption(S)), y[1] \in OwnedProducts(S) /\ y[1] # y[4],
               c = <<y[1], y[2], y[3]>>
        PROVE  \E x \in Consumption(S) : \E s \in Shares(S, x.out) \cap Pairs(S) :
                 x.in \in OwnedProducts(S) /\ x.in # s[1] /\ c = <<x.in, s[2], x.kind>>
    <3>1. PICK x \in Consumption(S) : \E s \in Shares(S, x.out) \cap Pairs(S) :
            y = <<x.in, s[2], x.kind, s[1]>>
      BY <1>2
    <3>2. PICK s \in Shares(S, x.out) \cap Pairs(S) : y = <<x.in, s[2], x.kind, s[1]>>
      BY <3>1
    <3>3. QED
      BY <2>2, <3>2
  <2>3. ASSUME NEW x \in Consumption(S), NEW s \in Shares(S, x.out) \cap Pairs(S),
               x.in \in OwnedProducts(S) /\ x.in # s[1], c = <<x.in, s[2], x.kind>>
        PROVE  \E y \in Spread(S, Consumption(S)) :
                 y[1] \in OwnedProducts(S) /\ y[1] # y[4] /\ c = <<y[1], y[2], y[3]>>
    <3>. DEFINE y == <<x.in, s[2], x.kind, s[1]>>
    <3>1. y \in Spread(S, Consumption(S))
      BY <1>2
    <3>2. QED
      BY <2>3, <3>1
  <2>4. QED
    BY <2>1, <2>2, <2>3
<1>4. c \in Cells(Spread(S, Emission(S) \ AcidEmission(S))) <=>
        \E x \in Emission(S) \ AcidEmission(S) :
          \E s \in Shares(S, x.out) \cap Pairs(S) : c = <<x.in, s[2], x.kind>>
  BY SpreadCells
<1>5. c \in Escaped(S) <=>
        \E x \in {r \in AcidEmission(S) : r.out \in Multifunctional(S)} :
          \E s \in Shares(S, x.out) \cap Pairs(S) : c = <<x.in, s[2], x.kind>>
  BY SpreadCells DEF Escaped
<1>6. \A x : x \in AcidEmission(S) <=>
               x \in Emission(S) /\ x.out \in Perennial /\ x.in \in Acid
  BY DEF AcidEmission
<1>7. c \in Reference(S).B \cup Escaped(S) <=>
        \E x \in Emission(S) : \E s \in Shares(S, x.out) \cap Pairs(S) :
          /\ ~(x.out \in Perennial /\ x.in \in Acid) \/ x.out \in Multifunctional(S)
          /\ c = <<x.in, s[2], x.kind>>
  BY <1>1, <1>4, <1>5, <1>6
<1>8. QED
  BY <1>1, <1>3, <1>7

\* The column an emission moves to is a target of the filter exactly when its
\* activity is one that was not split.
LEMMA FilterTargets ==
    ASSUME NEW S \in SUBSET Rows(Activity), NEW q \in Production(S)
    PROVE  Claim(S, q) \in Perennial <=>
             q.out \in Perennial /\ q.out \notin Multifunctional(S)
<1>1. q.out \in Activity /\ q.in \in Product
  BY DEF Production, Rows
<1>2. SyntheticId(q.out, q.in) \in Synthetic
  BY <1>1 DEF Synthetic
<1>3. SyntheticId(q.out, q.in) \notin Perennial
  BY <1>2, IdAssumption
<1>4. QED
  BY <1>3 DEF Claim

\* The five passes place every exchange where the reference does, but for what
\* escapes the filter.
LEMMA BuiltIsReference ==
    ASSUME NEW S \in SUBSET Rows(Activity)
    PROVE  Built(Filtered(Pruned(Deduplicated(Allocated(S))))) =
             [Reference(S) EXCEPT !.B = @ \cup Escaped(S)]
<1>. DEFINE D == Deduplicated(Allocated(S))
            P == Pruned(D)
            F == Filtered(P)
            M == Built(F)
            Own(q) == Claim(S, q) = Owner(S, q.in)
<1>1. D \subseteq Rows(Column) /\ OneProduct(D) /\ OneColumn(D)
  BY AllocatedFrame, DeduplicatedFrame
<1>2. /\ \A r : r \in Production(D) <=>
             \E q \in Production(S) : Own(q) /\ r = Moved(q, Claim(S, q))
      /\ \A r : r \in D \ Production(D) <=>
             \E x \in S \ Production(S) : \E q \in Production(S) :
               <<q.in, Claim(S, q)>> \in Shares(S, x.out) /\ Own(q) /\ r = Moved(x, Claim(S, q))
  BY KeptProductions, KeptOthers
<1>3. /\ {<<r.in, r.out>> : r \in Real(D)} = Pairs(S)
      /\ Ins(Real(D)) = OwnedProducts(S)
      /\ \A q \in Production(S) : Own(q) =>
             (Claim(S, q) \in Outs(Real(D)) <=> <<q.in, Claim(S, q)>> \in Pairs(S))
  BY KeptReal
<1>4. /\ P \subseteq D /\ F \subseteq D
      /\ Production(F) = Production(P) /\ Consumption(F) = Consumption(P)
      /\ Real(F) = Real(D) /\ Real(P) = Real(D)
  <2>1. Production(F) = Production(P) /\ Consumption(F) = Consumption(P)
    BY DEF Filtered, Production, Consumption, Emission
  <2>2. Real(P) = Real(D)
    BY <1>1, PrunedRows
  <2>3. P \subseteq D /\ F \subseteq P
    BY DEF Pruned, Filtered
  <2>4. QED
    BY <2>1, <2>2, <2>3 DEF Real
<1>5. /\ \A r \in D \ Consumption(D) : r \in P <=> r.out \in Outs(Real(D))
      /\ \A r \in Consumption(D) :
           r \in P <=> /\ r.in \in Ins(Real(D)) /\ r.out \in Outs(Real(D))
                       /\ \A q \in Production(D) : q.out = r.out => q.in # r.in
  BY <1>1, PrunedRows
<1>6. \A c : \A x \in S : /\ Moved(x, c).out = c /\ Moved(x, c).in = x.in
                                /\ Moved(x, c).kind = x.kind
  BY MovedRow
<1>7. \A x \in S : \A s \in Shares(S, x.out) :
        \E q \in Production(S) : s = <<q.in, Claim(S, q)>>
  BY DEF Shares
<1>8. \A p, c : <<p, c>> \in Pairs(S) => c = Owner(S, p)
  BY DEF Pairs
<1>9. Production(S) \subseteq S
  BY DEF Production
<1>10. M.pairs = Reference(S).pairs
  BY <1>3, <1>4, ReferenceCells DEF Built
<1>11. /\ \A c : c \in M.A <=>
            \E r \in Production(F) \cup Consumption(F) :
              r.out \in Outs(Real(F)) /\ r.in \in Ins(Real(F)) /\ c = <<r.in, r.out, r.kind>>
       /\ \A c : c \in M.B <=>
            \E r \in Emission(F) : r.out \in Outs(Real(F)) /\ c = <<r.in, r.out, r.kind>>
  BY DEF Built
<1>. HIDE DEF D, P, F, M, Own
<1>12. ASSUME NEW c \in M.A PROVE c \in Reference(S).A
  <2>1. PICK r \in Production(F) \cup Consumption(F) :
          r.out \in Outs(Real(D)) /\ r.in \in Ins(Real(D)) /\ c = <<r.in, r.out, r.kind>>
    BY <1>4, <1>11
  <2>2. CASE r \in Production(F)
    <3>1. r \in Production(D) /\ r.kind = "production"
      BY <1>4, <2>2 DEF Production
    <3>2. PICK q \in Production(S) : Own(q) /\ r = Moved(q, Claim(S, q))
      BY <1>2, <3>1
    <3>3. r.out = Claim(S, q) /\ r.in = q.in
      BY <1>6, <1>9, <3>2
    <3>4. <<r.in, r.out>> \in Pairs(S)
      BY <1>3, <2>1, <3>2, <3>3
    <3>5. QED
      BY <2>1, <3>1, <3>4, ReferenceCells
  <2>3. CASE r \in Consumption(F)
    <3>1. r \in Consumption(D) /\ r \in P /\ r \in D \ Production(D)
      BY <1>4, <2>3 DEF Consumption, Production
    <3>2. PICK x \in S \ Production(S) : \E q \in Production(S) :
            <<q.in, Claim(S, q)>> \in Shares(S, x.out) /\ Own(q) /\ r = Moved(x, Claim(S, q))
      BY <1>2, <3>1
    <3>3. PICK q \in Production(S) :
            <<q.in, Claim(S, q)>> \in Shares(S, x.out) /\ Own(q) /\ r = Moved(x, Claim(S, q))
      BY <3>2
    <3>4. r.out = Claim(S, q) /\ r.in = x.in /\ r.kind = x.kind
      BY <1>6, <3>3
    <3>5. x \in Consumption(S)
      BY <3>1, <3>4 DEF Consumption
    <3>6. <<q.in, Claim(S, q)>> \in Shares(S, x.out) \cap Pairs(S)
      BY <1>3, <2>1, <3>3, <3>4
    <3>7. x.in # q.in
      <4>1. Moved(q, Claim(S, q)) \in Production(D)
        BY <1>2, <3>3
      <4>2. Moved(q, Claim(S, q)).out = r.out /\ Moved(q, Claim(S, q)).in = q.in
        BY <1>6, <1>9, <3>4
      <4>3. QED
        BY <1>5, <3>1, <3>4, <4>1, <4>2
    <3>8. x.in \in OwnedProducts(S)
      BY <1>3, <2>1, <3>4
    <3>9. <<q.in, Claim(S, q)>>[1] = q.in /\ <<q.in, Claim(S, q)>>[2] = Claim(S, q)
      OBVIOUS
    <3>10. \E s \in Shares(S, x.out) \cap Pairs(S) :
             x.in \in OwnedProducts(S) /\ x.in # s[1] /\ c = <<x.in, s[2], x.kind>>
      BY <2>1, <3>4, <3>6, <3>7, <3>8, <3>9
    <3>11. QED
      BY <3>5, <3>10, ReferenceCells
  <2>4. QED
    BY <2>1, <2>2, <2>3
<1>13. ASSUME NEW c \in Reference(S).A PROVE c \in M.A
  <2>1. CASE \E x \in Pairs(S) : c = <<x[1], x[2], "production">>
    <3>1. PICK x \in Pairs(S) : c = <<x[1], x[2], "production">>
      BY <2>1
    <3>2. PICK r \in Real(D) : x = <<r.in, r.out>>
      BY <1>3
    <3>3. r \in Production(F) /\ r.kind = "production"
      BY <1>4 DEF Real, Production
    <3>4. r.out \in Outs(Real(F)) /\ r.in \in Ins(Real(F))
      BY <1>4 DEF Outs, Ins
    <3>5. QED
      BY <1>11, <3>1, <3>2, <3>3, <3>4
  <2>2. ASSUME NEW x \in Consumption(S), NEW s \in Shares(S, x.out) \cap Pairs(S),
               x.in \in OwnedProducts(S), x.in # s[1], c = <<x.in, s[2], x.kind>>
        PROVE  c \in M.A
    <3>1. x \in S \ Production(S) /\ x.kind = "technosphere"
      BY DEF Consumption, Production
    <3>2. PICK q \in Production(S) : s = <<q.in, Claim(S, q)>>
      BY <1>7, <3>1
    <3>3. Own(q)
      BY <1>8, <3>2 DEF Own
    <3>. DEFINE r == Moved(x, Claim(S, q))
    <3>4. r.out = Claim(S, q) /\ r.in = x.in /\ r.kind = x.kind
      BY <1>6, <3>1
    <3>5. r \in D \ Production(D)
      BY <1>2, <3>1, <3>2, <3>3
    <3>. HIDE DEF r
    <3>6. r \in Consumption(D)
      BY <3>1, <3>4, <3>5 DEF Consumption
    <3>7. r.in \in Ins(Real(D)) /\ r.out \in Outs(Real(D))
      BY <1>3, <2>2, <3>2, <3>3, <3>4
    <3>8. ASSUME NEW w \in Production(D), w.out = r.out PROVE w.in # r.in
      <4>1. PICK v \in Production(S) : Own(v) /\ w = Moved(v, Claim(S, v))
        BY <1>2
      <4>2. w.out = Claim(S, v) /\ w.in = v.in
        BY <1>6, <1>9, <4>1
      <4>3. v.in = q.in
        BY <3>4, <3>8, <4>2, ClaimFacts
      <4>4. QED
        BY <2>2, <3>2, <3>4, <4>2, <4>3
    <3>9. r \in P
      BY <1>5, <3>6, <3>7, <3>8
    <3>10. r \in Consumption(F)
      BY <1>4, <3>1, <3>4, <3>9 DEF Consumption
    <3>11. c = <<r.in, r.out, r.kind>>
      BY <2>2, <3>2, <3>4
    <3>12. QED
      BY <1>4, <1>11, <3>7, <3>10, <3>11
  <2>3. QED
    BY <2>1, <2>2, ReferenceCells
<1>14. ASSUME NEW c \in M.B PROVE c \in Reference(S).B \cup Escaped(S)
  <2>1. PICK r \in Emission(F) : r.out \in Outs(Real(D)) /\ c = <<r.in, r.out, r.kind>>
    BY <1>4, <1>11
  <2>2. r \in D \ Production(D) /\ r \in P /\ r.kind = "biosphere"
    BY <1>4 DEF Emission, Production, F, Filtered
  <2>3. ~(r.out \in Perennial /\ r.in \in Acid)
    BY <2>2 DEF F, Filtered, Emission
  <2>4. PICK x \in S \ Production(S) : \E q \in Production(S) :
          <<q.in, Claim(S, q)>> \in Shares(S, x.out) /\ Own(q) /\ r = Moved(x, Claim(S, q))
    BY <1>2, <2>2
  <2>5. PICK q \in Production(S) :
          <<q.in, Claim(S, q)>> \in Shares(S, x.out) /\ Own(q) /\ r = Moved(x, Claim(S, q))
    BY <2>4
  <2>6. r.out = Claim(S, q) /\ r.in = x.in /\ r.kind = x.kind
    BY <1>6, <2>5
  <2>7. x \in Emission(S)
    BY <2>2, <2>6 DEF Emission
  <2>8. <<q.in, Claim(S, q)>> \in Shares(S, x.out) \cap Pairs(S)
    BY <1>3, <2>1, <2>5, <2>6
  <2>9. <<q.in, Claim(S, q)>>[2] = Claim(S, q)
    OBVIOUS
  <2>10. PICK v \in Production(S) : v.out = x.out /\ Claim(S, v) = Claim(S, q)
    BY <2>5 DEF Shares
  <2>11. ~(x.out \in Perennial /\ x.in \in Acid) \/ x.out \in Multifunctional(S)
    BY <2>3, <2>6, <2>10, FilterTargets
  <2>12. \E s \in Shares(S, x.out) \cap Pairs(S) :
           /\ ~(x.out \in Perennial /\ x.in \in Acid) \/ x.out \in Multifunctional(S)
           /\ c = <<x.in, s[2], x.kind>>
    BY <2>1, <2>6, <2>8, <2>9, <2>11
  <2>13. QED
    BY <2>7, <2>12, ReferenceCells
<1>15. ASSUME NEW c \in Reference(S).B \cup Escaped(S) PROVE c \in M.B
  <2>1. PICK x \in Emission(S) : \E s \in Shares(S, x.out) \cap Pairs(S) :
          /\ ~(x.out \in Perennial /\ x.in \in Acid) \/ x.out \in Multifunctional(S)
          /\ c = <<x.in, s[2], x.kind>>
    BY ReferenceCells
  <2>2. PICK s \in Shares(S, x.out) \cap Pairs(S) :
          /\ ~(x.out \in Perennial /\ x.in \in Acid) \/ x.out \in Multifunctional(S)
          /\ c = <<x.in, s[2], x.kind>>
    BY <2>1
  <2>3. x \in S \ Production(S) /\ x.kind = "biosphere"
    BY DEF Emission, Production
  <2>4. PICK q \in Production(S) : s = <<q.in, Claim(S, q)>> /\ q.out = x.out
    BY DEF Shares
  <2>5. Own(q)
    BY <1>8, <2>4 DEF Own
  <2>. DEFINE r == Moved(x, Claim(S, q))
  <2>6. r.out = Claim(S, q) /\ r.in = x.in /\ r.kind = x.kind
    BY <1>6, <2>3
  <2>7. r \in D \ Production(D)
    BY <1>2, <2>3, <2>4, <2>5
  <2>. HIDE DEF r
  <2>8. r.out \in Outs(Real(D))
    BY <1>3, <2>4, <2>5, <2>6
  <2>9. r \in P
    BY <1>5, <2>3, <2>6, <2>7, <2>8 DEF Consumption
  <2>10. ~(r.out \in Perennial /\ r.in \in Acid)
    BY <2>2, <2>4, <2>6, FilterTargets
  <2>11. r \in Emission(F)
    BY <2>3, <2>6, <2>9, <2>10 DEF F, Filtered, Emission
  <2>12. c = <<r.in, r.out, r.kind>>
    BY <2>2, <2>4, <2>6
  <2>13. QED
    BY <1>4, <1>11, <2>8, <2>11, <2>12
<1>16. M.A = Reference(S).A /\ M.B = Reference(S).B \cup Escaped(S)
  BY <1>12, <1>13, <1>14, <1>15
<1>17. /\ M = [pairs |-> M.pairs, A |-> M.A, B |-> M.B]
       /\ Reference(S) = [pairs |-> Reference(S).pairs, A |-> Reference(S).A, B |-> Reference(S).B]
  BY DEF M, Built, Reference
<1>18. M = [Reference(S) EXCEPT !.B = @ \cup Escaped(S)]
  BY <1>10, <1>16, <1>17
<1>19. QED
  BY <1>18 DEF M, F, P, D

\* The frame is what the passes so far make of the source.
TraceInv ==
    /\ source \in Frames
    /\ stage = "initial" => frame = source
    /\ stage = "after_allocator" => frame = Allocated(source)
    /\ stage = "after_dedup" => frame = Deduplicated(Allocated(source))
    /\ stage = "after_pruner" => frame = Pruned(Deduplicated(Allocated(source)))
    /\ stage \in {"filtered", "built"} =>
         frame = Filtered(Pruned(Deduplicated(Allocated(source))))
    /\ stage = "built" => matrix = Built(frame)

LEMMA TraceInvariant == Spec => []TraceInv
<1>1. Init => TraceInv
  BY DEF Init, TraceInv
<1>2. TraceInv /\ [Next]_vars => TraceInv'
  <2>. SUFFICES ASSUME TraceInv, [Next]_vars PROVE TraceInv'
    OBVIOUS
  <2>. USE DEF TraceInv
  <2>1. CASE Allocate
    BY <2>1 DEF Allocate
  <2>2. CASE Deduplicate
    BY <2>2 DEF Deduplicate
  <2>3. CASE Prune
    BY <2>3 DEF Prune
  <2>4. CASE Filter
    BY <2>4 DEF Filter
  <2>5. CASE Build
    BY <2>5 DEF Build
  <2>6. CASE AllocateRaises \/ BuildRaises
    BY <2>6 DEF AllocateRaises, BuildRaises
  <2>7. CASE UNCHANGED vars
    BY <2>7 DEF vars
  <2>8. QED
    BY <2>1, <2>2, <2>3, <2>4, <2>5, <2>6, <2>7 DEF Next
<1>3. QED
  BY <1>1, <1>2, PTL DEF Spec

\* Whatever was linked, the matrices that are built are those that can be read
\* off the linked exchanges at once: a product belongs to the smallest id that
\* claims it, and an exchange goes to every column its activity has a share in,
\* an acid emission of a perennial to none; only the perennials that were split
\* keep theirs.
THEOREM MatrixMatchesReference == Spec => []MatrixIsReference
<1>1. TraceInv => MatrixIsReference
  BY BuiltIsReference, FrameAssumption DEF TraceInv, MatrixIsReference
<1>2. QED
  BY <1>1, TraceInvariant, PTL

-----------------------------------------------------------------------------
(* The audit *)

\* The snapshots are of the frames the passes left, and the audit is of them.
AuditTrace ==
    LET A == Allocated(source)
        D == Deduplicated(A)
        P == Pruned(D)
    IN  /\ DOMAIN snapshot = {Stages[i] : i \in 1..4}
        /\ snapshot["initial"] = Seen(source)
        /\ stage \in {"after_allocator", "after_dedup", "after_pruner", "filtered", "built"} =>
             snapshot["after_allocator"] = Seen(A)
        /\ stage \in {"after_dedup", "after_pruner", "filtered", "built"} =>
             snapshot["after_dedup"] = Seen(D) /\ consumers = Consumption(D)
        /\ stage \in {"after_pruner", "filtered", "built"} =>
             /\ snapshot["after_pruner"] = Seen(P)
             /\ audit = ActivityDrops(snapshot) \cup ProductDrops(snapshot)

LEMMA AuditTraceInvariant == Spec => []AuditTrace
<1>1. {Stages[i] : i \in 1..4} = {"initial", "after_allocator", "after_dedup", "after_pruner"}
  BY DEF Stages
<1>2. Init => AuditTrace
  BY <1>1 DEF Init, AuditTrace
<1>3. TraceInv /\ AuditTrace /\ [Next]_vars => AuditTrace'
  <2>. SUFFICES ASSUME TraceInv, AuditTrace, [Next]_vars PROVE AuditTrace'
    OBVIOUS
  <2>. USE <1>1 DEF AuditTrace, TraceInv
  <2>1. CASE Allocate
    BY <2>1 DEF Allocate, Snap
  <2>2. CASE Deduplicate
    BY <2>2 DEF Deduplicate, Snap
  <2>3. CASE Prune
    BY <2>3 DEF Prune, Snap, ActivityDrops, ProductDrops
  <2>4. CASE Filter
    BY <2>4 DEF Filter, ActivityDrops, ProductDrops
  <2>5. CASE Build
    BY <2>5 DEF Build, ActivityDrops, ProductDrops
  <2>6. CASE AllocateRaises \/ BuildRaises
    BY <2>6 DEF AllocateRaises, BuildRaises
  <2>7. CASE UNCHANGED vars
    BY <2>7 DEF vars, ActivityDrops, ProductDrops
  <2>8. QED
    BY <2>1, <2>2, <2>3, <2>4, <2>5, <2>6, <2>7 DEF Next
<1>4. QED
  BY <1>2, <1>3, TraceInvariant, PTL DEF Spec

\* The allocator takes an activity its column iff it splits it, and no product
\* is lost to it.
LEMMA AllocatorLosses ==
    ASSUME NEW S \in SUBSET Rows(Activity)
    PROVE  /\ Ins(Real(Allocated(S))) = Ins(Real(S))
           /\ \A a \in Outs(Real(S)) :
                a \in Outs(Real(Allocated(S))) <=> a \notin Multifunctional(S)
<1>. DEFINE A == Allocated(S)
<1>1. \A q \in Production(S) : /\ q \in Rows(Activity) /\ q.out \in Activity /\ q.in \in Product
                               /\ Moved(q, Claim(S, q)).in = q.in
                               /\ Moved(q, Claim(S, q)).out = Claim(S, q)
                               /\ Moved(q, Claim(S, q)).made = q.made
  BY MovedRow DEF Production
<1>2. ASSUME NEW r \in Real(A)
      PROVE  \E q \in Real(S) : r.in = q.in /\ r.out = Claim(S, q)
  <2>1. PICK q \in Production(S) : r = Moved(q, Claim(S, q))
    BY AllocatedProductions DEF Real
  <2>2. r.made
    BY DEF Real
  <2>3. QED
    BY <1>1, <2>1, <2>2 DEF Real
<1>3. ASSUME NEW q \in Real(S)
      PROVE  \E r \in Real(A) : r.in = q.in /\ r.out = Claim(S, q)
  <2>1. q \in Production(S) /\ q.made
    BY DEF Real
  <2>2. Moved(q, Claim(S, q)) \in Production(A)
    BY <2>1, AllocatedProductions
  <2>3. Moved(q, Claim(S, q)) \in Real(A)
    BY <1>1, <2>1, <2>2 DEF Real
  <2>4. QED
    BY <1>1, <2>1, <2>3
<1>. HIDE DEF A
<1>4. Ins(Real(A)) = Ins(Real(S))
  BY <1>2, <1>3 DEF Ins
<1>5. ASSUME NEW a \in Outs(Real(S)), a \notin Multifunctional(S)
      PROVE  a \in Outs(Real(A))
  <2>1. PICK q \in Real(S) : q.out = a
    BY DEF Outs
  <2>2. Claim(S, q) = a
    BY <1>5, <2>1 DEF Claim
  <2>3. QED
    BY <1>3, <2>2 DEF Outs
<1>6. ASSUME NEW a \in Outs(Real(S)), a \in Outs(Real(A))
      PROVE  a \notin Multifunctional(S)
  <2>1. PICK w \in Real(S) : w.out = a
    BY DEF Outs
  <2>2. PICK r \in Real(A) : r.out = a
    BY <1>6 DEF Outs
  <2>3. PICK q \in Real(S) : r.out = Claim(S, q)
    BY <1>2
  <2>4. q \in Production(S) /\ w \in Production(S)
    BY DEF Real
  <2>5. a \in Activity /\ q.out \in Activity /\ q.in \in Product
    BY <1>1, <2>1, <2>4
  <2>6. QED
    BY <2>2, <2>3, <2>5, SyntheticFacts DEF Claim
<1>7. QED
  BY <1>4, <1>5, <1>6 DEF A

\* What is dropped is blamed on the pass that dropped it, and nothing the
\* pruner takes from the technosphere goes unexplained.
THEOREM AuditBlamesRightly == Spec => []AuditBlames
<1>1. ASSUME TraceInv, AuditTrace, stage \in {"after_pruner", "filtered", "built"}
      PROVE  AuditBlames
  <2>. DEFINE A == Allocated(source)
              D == Deduplicated(A)
              P == Pruned(D)
  <2>1. source \in SUBSET Rows(Activity)
    BY <1>1, FrameAssumption DEF TraceInv
  <2>2. D \in SUBSET Rows(Column) /\ OneProduct(D)
    BY <2>1, AllocatedFrame, DeduplicatedFrame
  <2>3. /\ Real(P) = Real(D)
        /\ \A r \in Consumption(D) :
             r \in P <=> /\ r.in \in Ins(Real(D)) /\ r.out \in Outs(Real(D))
                         /\ \A q \in Production(D) : q.out = r.out => q.in # r.in
    BY <2>2, PrunedRows
  <2>4. /\ Ins(Real(A)) = Ins(Real(source))
        /\ \A a \in Outs(Real(source)) :
             a \in Outs(Real(A)) <=> a \notin Multifunctional(source)
    BY <2>1, AllocatorLosses
  <2>5. /\ snapshot["initial"] = Seen(source) /\ snapshot["after_allocator"] = Seen(A)
        /\ snapshot["after_dedup"] = Seen(D) /\ snapshot["after_pruner"] = Seen(P)
        /\ consumers = Consumption(D)
        /\ audit = ActivityDrops(snapshot) \cup ProductDrops(snapshot)
    BY <1>1 DEF AuditTrace
  <2>6. frame = P \/ frame = Filtered(P)
    BY <1>1 DEF TraceInv
  <2>. HIDE DEF A, D, P
  <2>7. \A r \in Consumption(D) : r \in P => r \in frame
    BY <2>6 DEF Filtered, Emission, Consumption
  <2>8. /\ snapshot["initial"].activities = Outs(Real(source))
        /\ snapshot["initial"].products = Ins(Real(source))
        /\ snapshot["after_allocator"].activities = Outs(Real(A))
        /\ snapshot["after_allocator"].products = Ins(Real(source))
        /\ snapshot["after_dedup"].activities = Outs(Real(D))
        /\ snapshot["after_dedup"].products = Ins(Real(D))
        /\ snapshot["after_pruner"].activities = Outs(Real(D))
        /\ snapshot["after_pruner"].products = Ins(Real(D))
    BY <2>3, <2>4, <2>5 DEF Seen
  <2>9. ASSUME NEW t \in ActivityDrops(snapshot)
        PROVE  /\ t[1] = "dropped_activity"
               /\ t[3] = IF t[2] \in Multifunctional(source) THEN "after_allocator"
                                                             ELSE "after_dedup"
    <3>1. PICK a \in Column, i \in 2..4 :
            /\ a \in Outs(Real(source)) \ Outs(Real(D))
            /\ a \in snapshot[Stages[i - 1]].activities
            /\ a \notin snapshot[Stages[i]].activities
            /\ t = <<"dropped_activity", a, Stages[i]>>
      BY <2>8 DEF ActivityDrops
    <3>2. CASE i = 2
      BY <3>1, <3>2, <2>4, <2>8 DEF Stages
    <3>3. CASE i = 3
      BY <3>1, <3>3, <2>4, <2>8 DEF Stages
    <3>4. CASE i = 4
      BY <3>1, <3>4, <2>8 DEF Stages
    <3>5. QED
      BY <3>2, <3>3, <3>4
  <2>10. ASSUME NEW p \in (Ins(Real(source)) \cup Ins(consumers)) \ Ins(Real(D))
         PROVE  FirstGone(snapshot, p) =
                  IF p \in Ins(Real(source)) THEN "after_dedup" ELSE "never_produced"
    <3>. DEFINE gone(k) == /\ p \notin snapshot[Stages[k]].products
                           /\ \A j \in 1..(k - 1) : p \in snapshot[Stages[j]].products
                i == CHOOSE k \in 1..4 : gone(k)
    <3>1. FirstGone(snapshot, p) = IF i = 1 THEN "never_produced" ELSE Stages[i]
      BY DEF FirstGone
    <3>2. CASE p \in Ins(Real(source))
      <4>1. gone(3)
        <5>1. \A j \in 1..(3 - 1) : j = 1 \/ j = 2
          OBVIOUS
        <5>2. p \in snapshot[Stages[1]].products /\ p \in snapshot[Stages[2]].products
          BY <2>8, <3>2 DEF Stages
        <5>3. p \notin snapshot[Stages[3]].products
          BY <2>8 DEF Stages
        <5>4. QED
          BY <5>1, <5>2, <5>3
      <4>2. \A k \in 1..4 : gone(k) => k = 3
        <5>1. p \in snapshot[Stages[1]].products /\ p \in snapshot[Stages[2]].products
          BY <2>8, <3>2 DEF Stages
        <5>2. p \notin snapshot[Stages[3]].products
          BY <2>8 DEF Stages
        <5>3. ~gone(1) /\ ~gone(2)
          BY <5>1
        <5>4. 3 \in 1..(4 - 1)
          OBVIOUS
        <5>5. ~gone(4)
          BY <5>2, <5>4
        <5>6. QED
          BY <5>3, <5>5
      <4>3. i = 3
        BY <4>1, <4>2
      <4>4. Stages[3] = "after_dedup"
        BY DEF Stages
      <4>. HIDE DEF gone, i
      <4>5. QED
        BY <3>1, <3>2, <4>3, <4>4
    <3>3. CASE p \notin Ins(Real(source))
      <4>1. p \notin snapshot[Stages[1]].products
        BY <2>8, <3>3 DEF Stages
      <4>2. gone(1)
        BY <4>1
      <4>3. \A k \in 1..4 : gone(k) => k = 1
        <5>1. \A k \in 1..4 : k # 1 => 1 \in 1..(k - 1)
          OBVIOUS
        <5>2. QED
          BY <4>1, <5>1
      <4>4. i = 1
        BY <4>2, <4>3
      <4>5. QED
        BY <3>1, <3>3, <4>4
    <3>4. QED
      BY <3>2, <3>3
  <2>11. ASSUME NEW t \in ProductDrops(snapshot)
         PROVE  /\ t[1] = "dangling_product"
                /\ t[3] = IF t[2] \notin Ins(Real(source)) THEN "never_produced"
                                                           ELSE "after_dedup"
    <3>1. PICK p \in (Ins(Real(source)) \cup Ins(consumers)) \ Ins(Real(D)) :
            t = <<"dangling_product", p, FirstGone(snapshot, p)>>
      BY <2>8 DEF ProductDrops
    <3>2. QED
      BY <3>1, <2>10
  <2>12. ASSUME NEW r \in consumers \ frame
         PROVE  \/ r \in SelfLoop(D)
                \/ r.out \notin Outs(Real(D))
                \/ \E t \in audit : t[1] = "dangling_product" /\ t[2] = r.in
    <3>1. r \in Consumption(D) /\ r \notin P
      BY <2>5, <2>7
    <3>2. CASE r.in \notin Ins(Real(D))
      <4>1. r.in \in Ins(consumers)
        BY DEF Ins
      <4>2. <<"dangling_product", r.in, FirstGone(snapshot, r.in)>> \in ProductDrops(snapshot)
        BY <2>8, <3>2, <4>1 DEF ProductDrops
      <4>3. QED
        BY <2>5, <4>2
    <3>3. CASE r.in \in Ins(Real(D))
      BY <2>3, <3>1, <3>3 DEF SelfLoop
    <3>4. QED
      BY <3>2, <3>3
  <2>13. QED
    BY <2>5, <2>9, <2>11, <2>12 DEF AuditBlames, A, D
<1>2. TraceInv /\ AuditTrace => AuditBlames
  BY <1>1 DEF AuditBlames
<1>3. QED
  BY <1>2, TraceInvariant, AuditTraceInvariant, PTL
=============================================================================
