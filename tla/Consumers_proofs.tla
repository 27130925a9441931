---------------------------- MODULE Consumers_proofs ----------------------------
(***************************************************************************)
(* What the commands that read a scoring package make of it, for any frame *)
(* the package was built from: the backtest compares a row with a product  *)
(* of its own and scores every product the audit does not explain away,    *)
(* and what Brightway imports is the package under other names.  Both rest *)
(* on the invariants of the chain, which the commands never disturb.       *)
(***************************************************************************)
EXTENDS Consumers, EmitChain_proofs, FiniteSetTheorems

-----------------------------------------------------------------------------
(* Numbers *)

\* A finite set of numbers has a bound.
LEMMA FiniteIsBounded ==
    ASSUME NEW S \in SUBSET Nat, IsFiniteSet(S)
    PROVE  \E b \in Nat : \A s \in S : s <= b
<1>1. PICK L \in Nat : ExistsBijection(1..L, S)
  BY FS_CardinalityType
<1>2. PICK f \in [1..L -> S] : \A t \in S : \E s \in 1..L : f[s] = t
  BY <1>1 DEF ExistsBijection, Bijection, Surjection
<1>3. \A i \in 1..L : f[i] \in Nat
  OBVIOUS
<1>. DEFINE Bounded(n) == \E b \in Nat : \A i \in 1..n : f[i] <= b
            T == {n \in 0..L : ~Bounded(n)}
<1>4. T = {}
  <2>1. SUFFICES ASSUME T # {} PROVE FALSE
    OBVIOUS
  <2>2. T \in SUBSET Nat
    OBVIOUS
  <2>. HIDE DEF T
  <2>3. PICK m \in T : \A n \in T : m <= n
    BY <2>1, <2>2, LeastNumber
  <2>. USE DEF T
  <2>4. Bounded(0)
    OBVIOUS
  <2>. HIDE DEF Bounded
  <2>5. m \in 1..L /\ m - 1 \in 0..L
    BY <2>3, <2>4
  <2>6. Bounded(m - 1)
    BY <2>3, <2>5
  <2>. USE DEF Bounded
  <2>7. PICK b \in Nat : \A i \in 1..(m - 1) : f[i] <= b
    BY <2>6
  <2>8. b + f[m] \in Nat /\ \A i \in 1..m : f[i] <= b + f[m]
    BY <1>3, <2>5, <2>7
  <2>9. QED
    BY <2>3, <2>8
<1>5. Bounded(L)
  <2>1. L \in 0..L
    OBVIOUS
  <2>. HIDE DEF Bounded
  <2>2. QED
    BY <1>4, <2>1
<1>6. QED
  BY <1>2, <1>5

\* The k-th of some numbers is one of them, and k of them are no larger.
LEMMA NthFacts ==
    ASSUME NEW S \in SUBSET Nat, IsFiniteSet(S), NEW k \in 1..Cardinality(S)
    PROVE  Nth(S, k) \in S /\ Cardinality({j \in S : j <= Nth(S, k)}) = k
<1>. DEFINE Below(n) == {j \in S : j <= n}
            T == {n \in Nat : Cardinality(Below(n)) >= k}
<1>0. Cardinality(S) \in Nat /\ k \in Nat /\ k >= 1 /\ k <= Cardinality(S)
  BY FS_CardinalityType
<1>1. \A n \in Nat : IsFiniteSet(Below(n)) /\ Cardinality(Below(n)) \in Nat
  <2>. SUFFICES ASSUME NEW n \in Nat PROVE IsFiniteSet(Below(n)) /\ Cardinality(Below(n)) \in Nat
    OBVIOUS
  <2>1. Below(n) \in SUBSET S
    OBVIOUS
  <2>. HIDE DEF Below
  <2>2. QED
    BY <2>1, FS_Subset, FS_CardinalityType
<1>2. T # {}
  <2>1. PICK b \in Nat : \A s \in S : s <= b
    BY FiniteIsBounded
  <2>2. Below(b) = S
    BY <2>1
  <2>. HIDE DEF Below
  <2>3. QED
    BY <1>0, <2>2
<1>3. PICK m \in T : \A n \in T : m <= n
  <2>1. T \in SUBSET Nat
    OBVIOUS
  <2>. HIDE DEF T
  <2>2. QED
    BY <1>2, <2>1, LeastNumber
<1>4. Cardinality(Below(m) \ {m}) < k
  <2>0. m \in Nat /\ \A j \in S : j \in Nat
    OBVIOUS
  <2>1. CASE m = 0
    <3>1. Below(m) \ {m} = {}
      <4>1. \A j \in S : j <= m => j = m
        BY <2>0, <2>1
      <4>2. QED
        BY <4>1
    <3>. HIDE DEF Below
    <3>2. QED
      BY <1>0, <3>1, FS_EmptySet
  <2>2. CASE m # 0
    <3>1. m - 1 \in Nat /\ m - 1 \notin T
      <4>1. m - 1 \in Nat /\ ~(m <= m - 1)
        BY <2>0, <2>2
      <4>. HIDE DEF T
      <4>2. QED
        BY <1>3, <4>1
    <3>2. Below(m) \ {m} = Below(m - 1)
      <4>1. \A j \in S : (j <= m /\ j # m) <=> j <= m - 1
        BY <2>0, <2>2
      <4>2. QED
        BY <4>1
    <3>. HIDE DEF Below
    <3>3. QED
      BY <1>0, <1>1, <3>1, <3>2
  <2>3. QED
    BY <2>1, <2>2
<1>5. m \in S /\ Cardinality(Below(m)) = k
  <2>1. m \in Below(m) => m \in S
    OBVIOUS
  <2>2. IsFiniteSet(Below(m)) /\ Cardinality(Below(m)) \in Nat /\ Cardinality(Below(m)) >= k
    BY <1>1, <1>3
  <2>. HIDE DEF Below
  <2>3. Cardinality(Below(m) \ {m}) = IF m \in Below(m) THEN Cardinality(Below(m)) - 1
                                                        ELSE Cardinality(Below(m))
    BY <2>2, FS_RemoveElement
  <2>4. QED
    BY <1>0, <1>4, <2>1, <2>2, <2>3
<1>6. QED
  BY <1>5 DEF Nth

-----------------------------------------------------------------------------
(* The package an export reads *)

\* Frames are finite, as are ids: what is built is small beside a hash.
Ids == Flow \cup Product \cup Column

\* What is used of the matrices: a cell lies in a row and in a column, a column
\* makes one product and no other column does, and the cells off the diagonal
\* are inputs of products some column makes.
LEMMA PackageFacts ==
    ASSUME ChainInv, TraceInv, stage = "built"
    PROVE  /\ \A x \in matrix.pairs : /\ x = <<x[1], x[2]>>
                                      /\ x[1] \in Product /\ x[2] \in Column
           /\ \A x, y \in matrix.pairs : x[1] = y[1] <=> x[2] = y[2]
           /\ \A y \in matrix.pairs : <<y[1], y[2], "production">> \in matrix.A
           /\ \A x \in matrix.A :
                /\ x = <<x[1], x[2], x[3]>> /\ x[2] \in Columns
                /\ \E y \in matrix.pairs : y[1] = x[1]
                /\ x[3] = IF <<x[1], x[2]>> \in matrix.pairs THEN "production" ELSE "technosphere"
           /\ \A x \in matrix.B : /\ x = <<x[1], x[2], "biosphere">>
                                  /\ x[1] \in BioRows /\ x[2] \in Columns
           /\ BioRows \subseteq Flow /\ UsedIds \subseteq Ids
<1>. DEFINE R == Real(frame)
            cells(G) == {<<r.in, r.out, r.kind>> : r \in {s \in G : s.out \in Outs(R)}}
<1>1. /\ matrix.pairs = {<<r.in, r.out>> : r \in R}
      /\ matrix.A = {c \in cells(Production(frame) \cup Consumption(frame)) : c[1] \in Ins(R)}
      /\ matrix.B = cells(Emission(frame))
  BY DEF TraceInv, Built
<1>2. /\ OneToOne(frame) /\ NoDangling(frame) /\ OneProduct(frame)
      /\ frame \subseteq Rows(Column)
  BY DEF ChainInv
<1>3. \A r \in R : r \in frame /\ r.kind = "production" /\ r.in \in Product /\ r.out \in Column
  BY <1>2 DEF Real, Production, Rows
<1>4. \A r \in Production(frame) : \A q \in R : r.out = q.out => r.in = q.in
  BY <1>2 DEF OneProduct, Real
<1>5. \A r \in Consumption(frame) : /\ r.kind = "technosphere"
                                    /\ \E q \in R : q.in = r.in /\ q.out # r.out
  BY <1>2 DEF NoDangling, Consumption
<1>6. \A r \in Emission(frame) : r.kind = "biosphere" /\ r.in \in Flow
  BY <1>2 DEF Emission, Rows
<1>7. \A r, q \in R : r.in = q.in <=> r.out = q.out
  BY <1>2 DEF OneToOne
<1>8. \A r \in Production(frame) : r.kind = "production"
  BY DEF Production
<1>9. Columns = Outs(R) /\ \A r \in R : r \in Production(frame)
  <2>1. \A r \in R : <<r.in, r.out>> \in matrix.pairs /\ <<r.in, r.out>>[2] = r.out
    BY <1>1
  <2>2. \A x \in matrix.pairs : \E r \in R : x[2] = r.out
    BY <1>1
  <2>3. \A r \in R : r \in Production(frame)
    BY DEF Real
  <2>. HIDE DEF R
  <2>4. Columns = Outs(R)
    BY <2>1, <2>2 DEF Columns, Outs
  <2>5. QED
    BY <2>3, <2>4
<1>10. BioRows = Ins(Emission(frame))
  BY DEF BioRows
<1>. HIDE DEF R
<1>11. ASSUME NEW x \in matrix.pairs
       PROVE  \E r \in R : x = <<r.in, r.out>> /\ x[1] = r.in /\ x[2] = r.out
  BY <1>1
<1>12. ASSUME NEW y \in matrix.pairs
       PROVE  <<y[1], y[2], "production">> \in matrix.A
  <2>1. PICK r \in R : y[1] = r.in /\ y[2] = r.out
    BY <1>11
  <2>2. r.in \in Ins(R) /\ r.out \in Outs(R) /\ r.kind = "production"
    BY <1>3 DEF Ins, Outs
  <2>3. <<r.in, r.out, r.kind>> \in cells(Production(frame) \cup Consumption(frame))
    BY <1>9, <2>2
  <2>4. <<r.in, r.out, r.kind>>[1] = r.in
    OBVIOUS
  <2>5. QED
    BY <1>1, <2>1, <2>2, <2>3, <2>4
<1>13. ASSUME NEW x \in matrix.A
       PROVE  /\ x = <<x[1], x[2], x[3]>> /\ x[2] \in Columns
              /\ \E y \in matrix.pairs : y[1] = x[1]
              /\ x[3] = IF <<x[1], x[2]>> \in matrix.pairs THEN "production" ELSE "technosphere"
  <2>1. PICK r \in Production(frame) \cup Consumption(frame) :
          /\ r.out \in Outs(R) /\ x = <<r.in, r.out, r.kind>> /\ x[1] \in Ins(R)
    BY <1>1
  <2>2. x[1] = r.in /\ x[2] = r.out /\ x[3] = r.kind
    BY <2>1
  <2>3. PICK q \in R : q.in = r.in
    BY <2>1, <2>2 DEF Ins
  <2>4. <<q.in, q.out>> \in matrix.pairs /\ <<q.in, q.out>>[1] = q.in
    BY <1>1
  <2>5. CASE r \in Production(frame)
    <3>1. PICK w \in R : w.out = r.out
      BY <2>1 DEF Outs
    <3>2. w.in = r.in
      BY <1>4, <2>5, <3>1
    <3>3. <<r.in, r.out>> \in matrix.pairs
      BY <1>1, <3>1, <3>2
    <3>4. QED
      BY <1>8, <1>9, <2>1, <2>2, <2>3, <2>4, <2>5, <3>3
  <2>6. CASE r \in Consumption(frame)
    <3>1. PICK w \in R : w.in = r.in /\ w.out # r.out
      BY <1>5, <2>6
    <3>2. ASSUME <<r.in, r.out>> \in matrix.pairs PROVE FALSE
      <4>1. PICK u \in R : <<r.in, r.out>> = <<u.in, u.out>>
        BY <1>1, <3>2
      <4>2. u.in = r.in /\ u.out = r.out
        BY <4>1
      <4>3. QED
        BY <1>7, <3>1, <4>2
    <3>3. QED
      BY <1>5, <1>9, <2>1, <2>2, <2>3, <2>4, <2>6, <3>2
  <2>7. QED
    BY <2>5, <2>6
<1>14. ASSUME NEW x \in matrix.B
       PROVE  /\ x = <<x[1], x[2], "biosphere">>
              /\ x[1] \in BioRows /\ x[2] \in Columns
  <2>1. PICK r \in Emission(frame) : r.out \in Outs(R) /\ x = <<r.in, r.out, r.kind>>
    BY <1>1
  <2>2. x[1] = r.in /\ x[2] = r.out /\ x[3] = r.kind
    BY <2>1
  <2>3. QED
    BY <1>6, <1>9, <1>10, <2>1, <2>2 DEF Ins
<1>15. BioRows \subseteq Flow
  BY <1>6, <1>10 DEF Ins
<1>16. UsedIds \subseteq Ids
  BY <1>3, <1>11, <1>15 DEF UsedIds, Ids, Columns
<1>17. \A x \in matrix.pairs : x = <<x[1], x[2]>> /\ x[1] \in Product /\ x[2] \in Column
  BY <1>3, <1>11
<1>18. \A x, y \in matrix.pairs : x[1] = y[1] <=> x[2] = y[2]
  BY <1>7, <1>11
<1>19. QED
  BY <1>12, <1>13, <1>14, <1>15, <1>16, <1>17, <1>18

-----------------------------------------------------------------------------
(* The flows of the corrections *)

\* An id that is given out is in use by nothing else and by no other correction.
LEMMA FreeFacts ==
    ASSUME IsFiniteSet(UsedIds), NEW k \in Nat \ {0}
    PROVE  /\ Free(k) \in 1 .. Cardinality(UsedIds) + k
           /\ Free(k) \notin UsedIds
           /\ Cardinality((1 .. Free(k)) \ UsedIds) = k
<1>1. Cardinality(UsedIds) \in Nat
  BY FS_CardinalityType
<1>2. PICK N \in Nat : N = Cardinality(UsedIds) + k
  BY <1>1
<1>3. IsFiniteSet(1..N) /\ Cardinality(1..N) = N
  BY <1>2, FS_Interval
<1>4. PICK S : S = (1..N) \ UsedIds
  OBVIOUS
<1>5. S \in SUBSET Nat
  BY <1>4
<1>6. IsFiniteSet(S) /\ Cardinality(S) = N - Cardinality((1..N) \cap UsedIds)
  BY <1>3, <1>4, FS_Difference
<1>7. IsFiniteSet((1..N) \cap UsedIds) /\ Cardinality((1..N) \cap UsedIds) <= Cardinality(UsedIds)
  BY FS_Subset
<1>8. Cardinality((1..N) \cap UsedIds) \in Nat
  BY <1>7, FS_CardinalityType
<1>9. k \in 1..Cardinality(S)
  BY <1>1, <1>2, <1>6, <1>7, <1>8
<1>10. PICK n : n = Nth(S, k)
  OBVIOUS
<1>11. n \in S /\ Cardinality({j \in S : j <= n}) = k
  BY <1>5, <1>6, <1>9, <1>10, NthFacts
<1>12. n \in 1..N /\ n \notin UsedIds
  BY <1>4, <1>11
<1>13. {j \in S : j <= n} = (1..n) \ UsedIds
  BY <1>4, <1>12
<1>14. Free(k) = n
  BY <1>2, <1>4, <1>10 DEF Free
<1>15. QED
  BY <1>2, <1>11, <1>12, <1>13, <1>14

\* Each correction travels as a flow of its own, whose number no flow of the
\* package has and no flow of the biosphere catalog either.
LEMMA SyntheticFlowFacts ==
    ASSUME UsedIds \subseteq Ids, NEW corrections
    PROVE  LET flow == SyntheticFlows(corrections) IN
           /\ DOMAIN flow = {m \in Methods : corrections[m] \cap Columns # {}}
           /\ \A m \in DOMAIN flow : flow[m] \notin UsedIds /\ flow[m] \notin KnownFlow
           /\ \A m, n \in DOMAIN flow : flow[m] = flow[n] => m = n
<1>. DEFINE corrected == {m \in Methods : corrections[m] \cap Columns # {}}
            upto(m) == {n \in corrected : n <= m}
            flow == SyntheticFlows(corrections)
<1>1. flow = [m \in corrected |-> Free(Cardinality(upto(m)))]
  BY DEF SyntheticFlows
<1>2. corrected \subseteq Methods /\ Methods \subseteq Nat /\ IsFiniteSet(Methods)
  BY MethodAssumption
<1>. HIDE DEF corrected
<1>3. Cardinality(Methods) \in Nat
  BY <1>2, FS_CardinalityType
<1>4. /\ IsFiniteSet(UsedIds) /\ Cardinality(UsedIds) \in Nat /\ Cardinality(Ids) \in Nat
      /\ Cardinality(UsedIds) <= Cardinality(Ids)
  BY HashAssumption, FS_Subset, FS_CardinalityType DEF Ids
<1>5. ASSUME NEW m \in corrected
      PROVE  /\ IsFiniteSet(upto(m)) /\ Cardinality(upto(m)) \in Nat \ {0}
             /\ Cardinality(upto(m)) <= Cardinality(Methods)
  <2>0. m \in Nat /\ m <= m
    BY <1>2
  <2>1. upto(m) \in SUBSET Methods /\ m \in upto(m)
    BY <1>2, <2>0
  <2>. HIDE DEF upto
  <2>2. IsFiniteSet(upto(m)) /\ Cardinality(upto(m)) <= Cardinality(Methods)
    BY <1>2, <2>1, FS_Subset
  <2>3. Cardinality(upto(m)) \in Nat /\ Cardinality(upto(m)) # 0
    BY <2>1, <2>2, FS_CardinalityType, FS_EmptySet
  <2>4. QED
    BY <2>2, <2>3
<1>6. ASSUME NEW m \in corrected, NEW n \in corrected, m < n
      PROVE  Cardinality(upto(m)) # Cardinality(upto(n))
  <2>0. \A j \in corrected : j \in Nat
    BY <1>2
  <2>1. \A j \in corrected : (j <= m => j <= n) /\ n <= n /\ ~(n <= m)
    BY <1>6, <2>0
  <2>4. upto(m) \in SUBSET upto(n) /\ n \in upto(n) /\ n \notin upto(m)
    BY <2>1
  <2>2. IsFiniteSet(upto(n))
    BY <1>5
  <2>. HIDE DEF upto
  <2>3. QED
    BY <2>2, <2>4, FS_Subset
<1>. HIDE DEF upto
<1>7. ASSUME NEW m \in corrected, NEW n \in corrected, flow[m] = flow[n]
      PROVE  m = n
  <2>1. flow[m] = Free(Cardinality(upto(m))) /\ flow[n] = Free(Cardinality(upto(n)))
    BY <1>1
  <2>2. Cardinality(upto(m)) = Cardinality(upto(n))
    BY <1>4, <1>5, <1>7, <2>1, FreeFacts
  <2>3. m \in Nat /\ n \in Nat
    BY <1>2
  <2>4. QED
    BY <1>6, <2>2, <2>3
<1>8. ASSUME NEW m \in corrected
      PROVE  flow[m] \notin UsedIds /\ flow[m] \notin KnownFlow
  <2>1. PICK k \in Nat \ {0} : k = Cardinality(upto(m)) /\ k <= Cardinality(Methods)
    BY <1>5
  <2>2. flow[m] = Free(k)
    BY <1>1, <2>1
  <2>3. Free(k) \in 1 .. Cardinality(UsedIds) + k /\ Free(k) \notin UsedIds
    BY <1>4, FreeFacts
  <2>4. Free(k) <= Cardinality(Ids) + Cardinality(Methods)
    BY <1>3, <1>4, <2>1, <2>3
  <2>5. \A f \in KnownFlow : f \in Nat /\ f > Cardinality(Ids) + Cardinality(Methods)
    BY HashAssumption DEF Ids
  <2>6. Free(k) \notin KnownFlow
    BY <1>3, <1>4, <2>3, <2>4, <2>5
  <2>7. QED
    BY <2>2, <2>3, <2>6
<1>9. DOMAIN flow = corrected
  BY <1>1
<1>10. QED
  BY <1>7, <1>8, <1>9 DEF corrected

-----------------------------------------------------------------------------
(* The keys of the columns *)

\* What the allocator has noted of its splits, and the labels of the columns.
SplitTrace ==
    /\ stage \in {"after_allocator", "after_dedup", "after_pruner", "filtered", "built"} =>
         provenance = Splits(source)
    /\ stage = "built" => labels = {<<c[2], Label(c[2])>> : c \in matrix.pairs}

LEMMA SplitTraceInvariant == Spec => []SplitTrace
<1>1. Init => SplitTrace
  BY DEF Init, SplitTrace
<1>2. TraceInv /\ SplitTrace /\ [Next]_vars => SplitTrace'
  <2>. SUFFICES ASSUME TraceInv, SplitTrace, [Next]_vars PROVE SplitTrace'
    OBVIOUS
  <2>. USE DEF SplitTrace
  <2>1. CASE Allocate
    BY <2>1 DEF Allocate, TraceInv
  <2>2. CASE Deduplicate
    BY <2>2 DEF Deduplicate
  <2>3. CASE Prune
    BY <2>3 DEF Prune
  <2>4. CASE Filter
    BY <2>4 DEF Filter
  <2>5. CASE Build
    BY <2>5 DEF Build, Label
  <2>6. CASE AllocateRaises \/ BuildRaises
    BY <2>6 DEF AllocateRaises, BuildRaises
  <2>7. CASE UNCHANGED vars
    BY <2>7 DEF vars, Label
  <2>8. QED
    BY <2>1, <2>2, <2>3, <2>4, <2>5, <2>6, <2>7 DEF Next
<1>3. QED
  BY <1>1, <1>2, TraceInvariant, PTL DEF Spec

\* A split is known by its column, and an activity that was split has none.
LEMMA SplitFacts ==
    ASSUME TraceInv, SplitTrace, stage = "built"
    PROVE  /\ \A t \in provenance : /\ t[2] \in Multifunctional(source)
                                    /\ t[2] \in Activity /\ t[3] \in Product
                                    /\ t[1] = SyntheticId(t[2], t[3])
           /\ \A t, u \in provenance : t[1] = u[1] => t[2] = u[2] /\ t[3] = u[3]
           /\ Columns \cap Multifunctional(source) = {}
           /\ Columns \subseteq Column
           /\ \A c \in Columns : <<c, "split">> \in labels <=>
                                   c \notin Named /\ \E t \in provenance : t[1] = c
<1>1. source \in SUBSET Rows(Activity)
  BY FrameAssumption DEF TraceInv
<1>2. ASSUME NEW t \in provenance
      PROVE  /\ t[2] \in Multifunctional(source)
             /\ t[2] \in Activity /\ t[3] \in Product
             /\ t[1] = SyntheticId(t[2], t[3])
  <2>1. PICK q \in SplitBy(source) : t = <<SyntheticId(q.out, q.in), q.out, q.in>>
    BY DEF SplitTrace, Splits
  <2>2. q \in Production(source) /\ q.out \in Multifunctional(source)
    BY DEF SplitBy
  <2>3. q.out \in Activity /\ q.in \in Product
    BY <1>1, <2>2 DEF Production, Rows
  <2>4. QED
    BY <2>1, <2>2, <2>3
<1>3. ASSUME NEW t \in provenance, NEW u \in provenance, t[1] = u[1]
      PROVE  t[2] = u[2] /\ t[3] = u[3]
  <2>1. SyntheticId(t[2], t[3]) = SyntheticId(u[2], u[3])
    BY <1>2, <1>3
  <2>2. t[2] \in Activity /\ t[3] \in Product /\ u[2] \in Activity /\ u[3] \in Product
    BY <1>2
  <2>3. QED
    BY <2>1, <2>2, SyntheticFacts
<1>4. ASSUME NEW c \in Columns
      PROVE  \E q \in Production(source) : c = Claim(source, q)
  <2>1. matrix = [Reference(source) EXCEPT !.B = @ \cup Escaped(source)]
    BY <1>1, BuiltIsReference DEF TraceInv
  <2>2. matrix.pairs = Pairs(source)
    BY <2>1 DEF Reference
  <2>3. PICK p \in OwnedProducts(source) : c = Owner(source, p)
    BY <2>2 DEF Columns, Pairs
  <2>4. PICK q \in Production(source) : q.in = p
    BY <2>3 DEF OwnedProducts, Ins
  <2>5. QED
    BY <1>1, <2>3, <2>4, OwnerFacts
<1>5. ASSUME NEW c \in Columns
      PROVE  c \notin Multifunctional(source) /\ c \in Column
  <2>1. PICK q \in Production(source) : c = Claim(source, q)
    BY <1>4
  <2>2. q.out \in Activity /\ q.in \in Product
    BY <1>1 DEF Production, Rows
  <2>3. Multifunctional(source) \subseteq Activity
    BY <1>1 DEF Multifunctional, Outs, Production, Rows
  <2>4. QED
    BY <2>1, <2>2, <2>3, SyntheticFacts DEF Claim, Column
<1>6. ASSUME NEW c \in Columns
      PROVE  <<c, "split">> \in labels <=> c \notin Named /\ \E t \in provenance : t[1] = c
  <2>1. PICK x \in matrix.pairs : x[2] = c
    BY DEF Columns
  <2>2. <<c, "split">> \in labels <=> Label(c) = "split"
    BY <2>1 DEF SplitTrace
  <2>3. QED
    BY <2>2 DEF Label
<1>7. QED
  BY <1>2, <1>3, <1>5, <1>6

\* "Keys collide" is what _assert_fully_named fears of a node without a name:
\* no two columns get one key, whatever the catalog knows of them.
LEMMA KeysAreDistinct ==
    ASSUME TraceInv, SplitTrace, stage = "built", NEW catalog \in BOOLEAN,
           NEW c \in Columns, NEW d \in Columns,
           ActivityKey(c, catalog) = ActivityKey(d, catalog)
    PROVE  c = d
<1>1. CASE ~catalog
  BY <1>1 DEF ActivityKey, KeyByHash
<1>2. CASE catalog
  <2>1. KeyInCatalog(c) = KeyInCatalog(d)
    BY <1>2 DEF ActivityKey
  <2>. DEFINE split(x) == <<x, "split">> \in labels
  <2>2. ASSUME NEW x \in Columns, split(x)
        PROVE  /\ Parent(x) \in Multifunctional(source)
               /\ x = SyntheticId(Parent(x), Split(x))
    <3>1. PICK t : t = (CHOOSE u \in provenance : u[1] = x)
      OBVIOUS
    <3>2. \E u \in provenance : u[1] = x
      BY <2>2, SplitFacts
    <3>3. t \in provenance /\ t[1] = x
      BY <3>1, <3>2
    <3>4. Parent(x) = t[2] /\ Split(x) = t[3]
      BY <3>1 DEF Parent, Split
    <3>5. QED
      BY <3>3, <3>4, SplitFacts
  <2>3. \A x \in Columns : KeyInCatalog(x)[2] = IF split(x) THEN Parent(x) ELSE x
    BY DEF KeyInCatalog
  <2>4. \A x \in Columns : split(x) => KeyInCatalog(x)[3] = Split(x)
    BY DEF KeyInCatalog
  <2>. HIDE DEF split
  <2>5. Columns \cap Multifunctional(source) = {}
    BY SplitFacts
  <2>6. CASE split(c) /\ split(d)
    BY <2>1, <2>2, <2>3, <2>4, <2>6
  <2>7. CASE ~split(c) /\ ~split(d)
    BY <2>1, <2>3, <2>7
  <2>8. CASE split(c) /\ ~split(d)
    BY <2>1, <2>2, <2>3, <2>5, <2>8
  <2>9. CASE ~split(c) /\ split(d)
    BY <2>1, <2>2, <2>3, <2>5, <2>9
  <2>10. QED
    BY <2>6, <2>7, <2>8, <2>9
<1>3. QED
  BY <1>1, <1>2

\* A key lacks its database only if nobody knows the column nor its parent.
LEMMA NamelessKey ==
    ASSUME TraceInv, SplitTrace, stage = "built", NEW catalog \in BOOLEAN,
           NEW c \in Columns, ActivityKey(c, catalog)[1] = ""
    PROVE  Nameless(c)
<1>1. catalog
  BY DEF ActivityKey, KeyByHash
<1>2. KeyInCatalog(c)[1] = ""
  BY <1>1 DEF ActivityKey
<1>3. CASE <<c, "split">> \in labels
  <2>1. c \notin Named /\ \E t \in provenance : t[1] = c
    BY <1>3, SplitFacts
  <2>2. PICK t : t = (CHOOSE u \in provenance : u[1] = c)
    OBVIOUS
  <2>3. t \in provenance /\ t[1] = c
    BY <2>1, <2>2
  <2>4. DatabaseOf(t[2]) = ""
    BY <1>2, <1>3, <2>2 DEF KeyInCatalog, Parent
  <2>5. t[2] \notin Named
    BY <2>4 DEF DatabaseOf
  <2>6. \A u \in provenance : u[1] = c => u[2] = t[2]
    BY <2>3, SplitFacts
  <2>7. QED
    BY <2>1, <2>5, <2>6 DEF Nameless
<1>4. CASE <<c, "split">> \notin labels
  <2>1. DatabaseOf(c) = ""
    BY <1>2, <1>4 DEF KeyInCatalog
  <2>2. c \notin Named
    BY <2>1 DEF DatabaseOf
  <2>3. \A t \in provenance : t[1] # c
    BY <1>4, <2>2, SplitFacts
  <2>4. QED
    BY <2>2, <2>3 DEF Nameless
<1>5. QED
  BY <1>3, <1>4

-----------------------------------------------------------------------------
(* What is imported *)

\* What the export has written once every column has a name.
Bundle(corrections, catalog) ==
    [Written(corrections) EXCEPT !.activities = ActivityTable(catalog),
                                 !.biosphere = BiosphereTable(corrections)]

\* The technosphere comes back as it was: every cell is an exchange with the
\* one column that makes its product, and production is told from input.
LEMMA TechnosphereComesBack ==
    ASSUME ChainInv, TraceInv, SplitTrace, stage = "built",
           NEW corrections, NEW catalog \in BOOLEAN, bundle = Bundle(corrections, catalog),
           NEW c \in Columns
    PROVE  LET maker(p) == (CHOOSE x \in matrix.pairs : x[1] = p)[2] IN
           /\ \A d \in Columns : ActivityNode(d) = ActivityKey(d, catalog)
           /\ DOMAIN bundle.activities = Columns
           /\ TechnosphereExchanges(c) =
                {<<ActivityNode(maker(x[1])), x[3]>> : x \in {y \in matrix.A : y[2] = c}}
           /\ \E e \in TechnosphereExchanges(c) : e[2] = "production"
           /\ \A e \in TechnosphereExchanges(c) : e[2] # "biosphere"
<1>. DEFINE maker(p) == (CHOOSE x \in matrix.pairs : x[1] = p)[2]
<1>1. bundle.activities = ActivityTable(catalog) /\ bundle.A = matrix.A
  BY DEF Bundle, Written
<1>2. /\ DOMAIN bundle.activities = Columns
      /\ \A d \in Columns : /\ ActivityNode(d) = ActivityKey(d, catalog)
                            /\ bundle.activities[d].product = ProductOf(d)
  BY <1>1 DEF ActivityTable, ActivityNode
<1>3. ASSUME NEW x \in matrix.pairs
      PROVE  /\ x[2] \in Columns /\ ProductOf(x[2]) = x[1]
             /\ maker(x[1]) = x[2] /\ Producer(x[1]) = x[2]
  <2>1. x[2] \in Columns
    BY DEF Columns
  <2>2. ASSUME NEW y \in matrix.pairs PROVE ProductOf(y[2]) = y[1]
    <3>1. PICK z : z = (CHOOSE u \in matrix.pairs : u[2] = y[2])
      OBVIOUS
    <3>2. z \in matrix.pairs /\ z[2] = y[2]
      BY <3>1
    <3>3. z[1] = y[1]
      BY <3>2, PackageFacts
    <3>4. QED
      BY <3>1, <3>3 DEF ProductOf
  <2>3. maker(x[1]) = x[2]
    <3>1. PICK z : z = (CHOOSE u \in matrix.pairs : u[1] = x[1])
      OBVIOUS
    <3>2. z \in matrix.pairs /\ z[1] = x[1]
      BY <3>1
    <3>3. z[2] = x[2]
      BY <3>2, PackageFacts
    <3>4. QED
      BY <3>1, <3>3
  <2>4. \A d \in Columns : ProductOf(d) = x[1] => d = x[2]
    <3>1. SUFFICES ASSUME NEW d \in Columns, ProductOf(d) = x[1] PROVE d = x[2]
      OBVIOUS
    <3>2. PICK y \in matrix.pairs : y[2] = d
      BY DEF Columns
    <3>3. y[1] = x[1]
      BY <2>2, <3>1, <3>2
    <3>4. QED
      BY <3>2, <3>3, PackageFacts
  <2>5. \E d \in DOMAIN bundle.activities : bundle.activities[d].product = x[1]
    BY <1>2, <2>1, <2>2
  <2>6. PICK d : d = Producer(x[1])
    OBVIOUS
  <2>7. d \in DOMAIN bundle.activities /\ bundle.activities[d].product = x[1]
    BY <2>5, <2>6 DEF Producer
  <2>8. d = x[2]
    BY <1>2, <2>4, <2>7
  <2>9. QED
    BY <2>1, <2>2, <2>3, <2>6, <2>8
<1>. HIDE DEF maker
<1>. DEFINE Made(x) == <<ActivityNode(Producer(x[1])),
                         IF Producer(x[1]) = c THEN "production" ELSE "technosphere">>
<1>4. TechnosphereExchanges(c) = {Made(x) : x \in {y \in matrix.A : y[2] = c}}
  BY <1>1 DEF TechnosphereExchanges
<1>5. ASSUME NEW x \in matrix.A, x[2] = c
      PROVE  Made(x) = <<ActivityNode(maker(x[1])), x[3]>>
  <2>1. PICK y \in matrix.pairs : y[1] = x[1]
    BY PackageFacts
  <2>2. Producer(x[1]) = y[2] /\ maker(x[1]) = y[2]
    BY <1>3, <2>1
  <2>3. y = <<y[1], y[2]>> /\ <<x[1], x[2]>>[1] = x[1] /\ <<x[1], x[2]>>[2] = x[2]
    BY PackageFacts
  <2>4. \A z \in matrix.pairs : z[1] = y[1] => z[2] = y[2]
    BY PackageFacts
  <2>5. <<x[1], x[2]>> \in matrix.pairs <=> y[2] = c
    BY <1>5, <2>1, <2>3, <2>4
  <2>6. x[3] = IF <<x[1], x[2]>> \in matrix.pairs THEN "production" ELSE "technosphere"
    BY PackageFacts
  <2>7. QED
    BY <2>2, <2>5, <2>6
<1>6. PICK y \in matrix.pairs : y[2] = c
  BY DEF Columns
<1>7. <<y[1], y[2], "production">> \in {z \in matrix.A : z[2] = c}
  BY <1>6, PackageFacts
<1>8. Made(<<y[1], y[2], "production">>)[2] = "production"
  BY <1>3, <1>6
<1>9. \A x : Made(x)[2] # "biosphere"
  OBVIOUS
<1>. HIDE DEF Made
<1>10. TechnosphereExchanges(c) =
         {<<ActivityNode(maker(x[1])), x[3]>> : x \in {z \in matrix.A : z[2] = c}}
  BY <1>4, <1>5
<1>11. QED
  BY <1>2, <1>4, <1>7, <1>8, <1>9, <1>10 DEF maker

\* The keys of the flows are told apart, those of the corrections among them.
LEMMA FlowKeys ==
    ASSUME ChainInv, TraceInv, stage = "built", NEW corrections,
           NEW catalog \in BOOLEAN, bundle = Bundle(corrections, catalog)
    PROVE  LET flow == SyntheticFlows(corrections) IN
           /\ DOMAIN bundle.biosphere = BioRows \cup {flow[m] : m \in DOMAIN flow}
           /\ \A f \in BioRows : /\ bundle.biosphere[f][1] # "correction"
                                 /\ bundle.biosphere[f][2] = f
           /\ \A m \in DOMAIN flow : /\ bundle.biosphere[flow[m]] = <<"correction", m>>
                                     /\ flow[m] \notin BioRows
           /\ \A f, g \in DOMAIN bundle.biosphere :
                bundle.biosphere[f] = bundle.biosphere[g] => f = g
<1>. DEFINE flow == SyntheticFlows(corrections)
<1>1. /\ \A m \in DOMAIN flow : flow[m] \notin UsedIds /\ flow[m] \notin KnownFlow
      /\ \A m, n \in DOMAIN flow : flow[m] = flow[n] => m = n
  BY PackageFacts, SyntheticFlowFacts
<1>2. bundle.biosphere = BiosphereTable(corrections)
  BY DEF Bundle, Written
<1>. HIDE DEF flow
<1>3. /\ DOMAIN bundle.biosphere = BioRows \cup {flow[m] : m \in DOMAIN flow}
      /\ \A f \in DOMAIN bundle.biosphere : bundle.biosphere[f] = BioKey(f, flow)
  BY <1>2 DEF BiosphereTable, flow
<1>4. \A f \in BioRows : \A m \in DOMAIN flow : flow[m] # f
  BY <1>1 DEF UsedIds
<1>5. ASSUME NEW f \in BioRows
      PROVE  BioKey(f, flow)[1] # "correction" /\ BioKey(f, flow)[2] = f
  BY <1>4 DEF BioKey
<1>6. ASSUME NEW m \in DOMAIN flow
      PROVE  BioKey(flow[m], flow) = <<"correction", m>>
  <2>1. (CHOOSE n \in DOMAIN flow : flow[n] = flow[m]) = m
    BY <1>1
  <2>2. QED
    BY <1>1, <2>1 DEF BioKey
<1>7. \A f \in BioRows : /\ bundle.biosphere[f][1] # "correction"
                         /\ bundle.biosphere[f][2] = f
  BY <1>3, <1>5
<1>8. \A m \in DOMAIN flow : /\ bundle.biosphere[flow[m]] = <<"correction", m>>
                             /\ flow[m] \notin BioRows
  BY <1>3, <1>4, <1>6
<1>9. ASSUME NEW f \in DOMAIN bundle.biosphere, NEW g \in DOMAIN bundle.biosphere,
             bundle.biosphere[f] = bundle.biosphere[g]
      PROVE  f = g
  <2>1. \A m \in DOMAIN flow : <<"correction", m>>[1] = "correction" /\ <<"correction", m>>[2] = m
    OBVIOUS
  <2>2. CASE f \in BioRows /\ g \in BioRows
    BY <1>7, <1>9, <2>2
  <2>3. CASE f \in BioRows /\ g \notin BioRows
    BY <1>3, <1>7, <1>8, <1>9, <2>1, <2>3
  <2>4. CASE f \notin BioRows /\ g \in BioRows
    BY <1>3, <1>7, <1>8, <1>9, <2>1, <2>4
  <2>5. CASE f \notin BioRows /\ g \notin BioRows
    BY <1>3, <1>8, <1>9, <2>1, <2>5
  <2>6. QED
    BY <2>2, <2>3, <2>4, <2>5
<1>10. QED
  BY <1>3, <1>7, <1>8, <1>9 DEF flow

\* An imported package is the package under other names.
LEMMA ImportedIsFaithful ==
    ASSUME ChainInv, TraceInv, SplitTrace, stage = "built",
           NEW corrections, NEW catalog \in BOOLEAN, bundle = Bundle(corrections, catalog),
           project = [flows |-> BuildBiosphere, activities |-> BuildActivities,
                      cfs |-> [m \in Methods |-> BuildMethod(m)]],
           port = "done"
    PROVE  ExportIsFaithful
<1>. DEFINE node(c) == bundle.activities[c].key
            maker(p) == (CHOOSE x \in matrix.pairs : x[1] = p)[2]
            In(M, c) == {x \in M : x[2] = c}
            Bio(c) == BiosphereExchanges(c)
            Tech(c) == TechnosphereExchanges(c)
            flow == SyntheticFlows(corrections)
            key(f) == bundle.biosphere[f]
<1>1. \A d \in Columns : ActivityNode(d) = ActivityKey(d, catalog)
  BY TechnosphereComesBack
<1>2. DOMAIN bundle.activities = Columns
  BY DEF Bundle, Written, ActivityTable
<1>3. \A c : ActivityNode(c) = node(c)
  BY DEF ActivityNode
<1>4. \A c, d \in Columns : node(c) = node(d) => c = d
  <2>1. \A c \in Columns : node(c) = ActivityKey(c, catalog)
    BY <1>1, <1>3
  <2>. HIDE DEF node
  <2>2. QED
    BY <2>1, KeysAreDistinct
<1>5. /\ bundle.B = EmbeddedB(corrections) /\ bundle.cfs = EmbeddedCfs(corrections)
      /\ bundle.corrections = corrections
  BY DEF Bundle, Written
<1>6. /\ project.activities = BuildActivities
      /\ \A m \in Methods : project.cfs[m] = BuildMethod(m)
  OBVIOUS
<1>7. /\ DOMAIN project.activities = {node(c) : c \in Columns}
      /\ \A c \in Columns : project.activities[node(c)] = Tech(c) \cup Bio(c)
  <2>. DEFINE last(k) == CHOOSE c \in Columns :
                           /\ ActivityNode(c) = k
                           /\ \A d \in Columns : ActivityNode(d) = k => d <= c
              keys == {ActivityNode(c) : c \in Columns}
  <2>1. BuildActivities = [k \in keys |-> Tech(last(k)) \cup Bio(last(k))]
    BY <1>2 DEF BuildActivities
  <2>2. keys = {node(c) : c \in Columns}
    BY <1>3
  <2>3. ASSUME NEW c \in Columns PROVE last(node(c)) = c
    <3>1. c \in Nat
      BY SplitFacts, ColumnsAreNumbers
    <3>2. \A d \in Columns : ActivityNode(d) = node(c) => d = c
      BY <1>3, <1>4
    <3>3. ActivityNode(c) = node(c) /\ c <= c
      BY <1>3, <3>1
    <3>. HIDE DEF node
    <3>4. QED
      BY <3>2, <3>3
  <2>. HIDE DEF last, node, Tech, Bio
  <2>4. \A c \in Columns : node(c) \in keys
    BY <2>2
  <2>5. QED
    BY <1>6, <2>1, <2>2, <2>3, <2>4
<1>8. ASSUME NEW c \in Columns
      PROVE  /\ \A e \in Bio(c) :
                  /\ e[2] = "biosphere"
                  /\ \E f : <<f, c, "biosphere">> \in bundle.B /\ e[1] = key(f)
             /\ \A f : <<f, c, "biosphere">> \in bundle.B => <<key(f), "biosphere">> \in Bio(c)
  <2>1. \A x \in bundle.B : x = <<x[1], x[2], "biosphere">>
    BY <1>5, PackageFacts DEF EmbeddedB
  <2>2. Bio(c) = {<<key(x[1]), "biosphere">> : x \in {y \in bundle.B : y[2] = c}}
    BY DEF BiosphereExchanges
  <2>3. \A f : <<f, c, "biosphere">>[1] = f /\ <<f, c, "biosphere">>[2] = c
    OBVIOUS
  <2>4. \A f : <<key(f), "biosphere">>[1] = key(f) /\ <<key(f), "biosphere">>[2] = "biosphere"
    OBVIOUS
  <2>. HIDE DEF key, Bio
  <2>5. QED
    BY <2>1, <2>2, <2>3, <2>4
<1>9. ASSUME NEW c \in Columns
      PROVE  Assembled(node(c)) = {<<node(maker(x[1])), x[3]>> : x \in In(matrix.A, c)}
  <2>1. /\ Tech(c) = {<<ActivityNode(maker(x[1])), x[3]>> : x \in In(matrix.A, c)}
        /\ \E e \in Tech(c) : e[2] = "production"
        /\ \A e \in Tech(c) : e[2] # "biosphere"
    BY TechnosphereComesBack
  <2>2. \A e \in Bio(c) : e[2] = "biosphere"
    BY <1>8
  <2>. HIDE DEF Tech, Bio, node, maker
  <2>3. {e \in project.activities[node(c)] : e[2] # "biosphere"} = Tech(c)
    BY <1>7, <2>1, <2>2
  <2>4. \E e \in project.activities[node(c)] : e[2] = "production"
    BY <1>7, <2>1
  <2>5. Assembled(node(c)) = Tech(c)
    BY <2>3, <2>4 DEF Assembled
  <2>6. QED
    BY <1>3, <2>1, <2>5
<1>10. ASSUME NEW c \in Columns, NEW m \in Methods
       PROVE  /\ {k \in Charged(m, node(c)) : k[1] = "correction"} =
                   (IF c \in corrections[m] THEN {<<"correction", m>>} ELSE {})
              /\ {k[2] : k \in {x \in Charged(m, node(c)) : x[1] # "correction"}} =
                   {x[1] : x \in In(matrix.B, c)} \cap Characterised[m]
  <2>. DEFINE cells == {f \in DOMAIN bundle.biosphere : <<f, c, "biosphere">> \in bundle.B}
              cfs == bundle.cfs[m]
              charged == Charged(m, node(c))
  <2>1. /\ DOMAIN bundle.biosphere = BioRows \cup {flow[n] : n \in DOMAIN flow}
        /\ \A f \in BioRows : key(f)[1] # "correction" /\ key(f)[2] = f
        /\ \A n \in DOMAIN flow : key(flow[n]) = <<"correction", n>> /\ flow[n] \notin BioRows
        /\ \A f, g \in DOMAIN bundle.biosphere : key(f) = key(g) => f = g
    BY FlowKeys
  <2>2. /\ DOMAIN flow = {n \in Methods : corrections[n] \cap Columns # {}}
        /\ \A n, o \in DOMAIN flow : flow[n] = flow[o] => n = o
    BY PackageFacts, SyntheticFlowFacts
  <2>3. cfs = (Characterised[m] \cap BioRows) \cup (IF m \in DOMAIN flow THEN {flow[m]} ELSE {})
    BY <1>5 DEF EmbeddedCfs
  <2>4. ASSUME NEW f
        PROVE  <<f, c, "biosphere">> \in bundle.B <=>
                 \/ <<f, c, "biosphere">> \in matrix.B
                 \/ \E n \in DOMAIN flow : f = flow[n] /\ c \in corrections[n]
    <3>1. \A n \in DOMAIN flow :
            <<f, c, "biosphere">> \in {<<flow[n], d, "biosphere">> : d \in corrections[n] \cap Columns}
              <=> f = flow[n] /\ c \in corrections[n]
      OBVIOUS
    <3>2. bundle.B = matrix.B \cup UNION {{<<flow[n], d, "biosphere">> :
                                             d \in corrections[n] \cap Columns} : n \in DOMAIN flow}
      BY <1>5 DEF EmbeddedB
    <3>. HIDE DEF flow
    <3>3. QED
      BY <3>1, <3>2
  <2>5. \A f : <<f, c, "biosphere">> \in matrix.B <=> f \in {x[1] : x \in In(matrix.B, c)}
    <3>1. \A x \in matrix.B : x = <<x[1], x[2], "biosphere">>
      BY PackageFacts
    <3>2. \A f : <<f, c, "biosphere">>[1] = f /\ <<f, c, "biosphere">>[2] = c
      OBVIOUS
    <3>3. QED
      BY <3>1, <3>2
  <2>6. \A f : <<f, c, "biosphere">> \in matrix.B => f \in BioRows
    <3>1. SUFFICES ASSUME NEW f, <<f, c, "biosphere">> \in matrix.B PROVE f \in BioRows
      OBVIOUS
    <3>2. <<f, c, "biosphere">>[1] \in BioRows
      BY <3>1, PackageFacts
    <3>3. QED
      BY <3>2
  <2>. HIDE DEF flow, key, cells, cfs, node, Bio
  <2>7. {e[1] : e \in {x \in project.activities[node(c)] : x[2] = "biosphere"}} =
          {key(f) : f \in cells}
    <3>1. \A e \in Tech(c) : e[2] # "biosphere"
      BY TechnosphereComesBack
    <3>2. \A f : <<f, c, "biosphere">> \in bundle.B => f \in DOMAIN bundle.biosphere
      BY <2>1, <2>4, <2>6
    <3>3. \A e : e \in project.activities[node(c)] /\ e[2] = "biosphere" <=> e \in Bio(c)
      <4>1. \A e \in Bio(c) : e[2] = "biosphere"
        BY <1>8
      <4>. HIDE DEF Tech
      <4>2. QED
        BY <1>7, <3>1, <4>1
    <3>4. \A f : <<key(f), "biosphere">>[1] = key(f)
      OBVIOUS
    <3>5. \A f \in cells : <<key(f), "biosphere">> \in Bio(c)
      BY <1>8 DEF cells
    <3>6. \A e \in Bio(c) : \E f \in cells : e[1] = key(f)
      BY <1>8, <3>2 DEF cells
    <3>7. QED
      BY <3>3, <3>4, <3>5, <3>6
  <2>8. cfs \subseteq DOMAIN bundle.biosphere /\ project.cfs[m] = {key(f) : f \in cfs}
    <3>1. project.cfs[m] = BuildMethod(m)
      BY <1>6
    <3>2. project.cfs[m] = {key(f) : f \in cfs}
      BY <3>1 DEF BuildMethod, key, cfs
    <3>3. QED
      BY <2>1, <2>3, <3>2
  <2>9. charged = {key(f) : f \in cells \cap cfs}
    <3>1. charged = {key(f) : f \in cells} \cap {key(f) : f \in cfs}
      BY <2>7, <2>8 DEF Charged
    <3>2. cells \subseteq DOMAIN bundle.biosphere
      BY DEF cells
    <3>3. QED
      BY <2>1, <2>8, <3>1, <3>2
  <2>10. ASSUME NEW f
         PROVE  f \in cells \cap cfs <=>
                  \/ f \in {x[1] : x \in In(matrix.B, c)} \cap Characterised[m]
                  \/ m \in DOMAIN flow /\ f = flow[m] /\ c \in corrections[m]
    <3>1. f \in cells <=> \/ <<f, c, "biosphere">> \in matrix.B
                          \/ \E n \in DOMAIN flow : f = flow[n] /\ c \in corrections[n]
      BY <2>1, <2>4, <2>6 DEF cells
    <3>2. QED
      BY <2>1, <2>2, <2>3, <2>5, <2>6, <3>1
  <2>11. m \in DOMAIN flow <=> corrections[m] \cap Columns # {}
    BY <2>2
  <2>12. c \in corrections[m] => m \in DOMAIN flow
    BY <2>11
  <2>13. \A f : f \in {x[1] : x \in In(matrix.B, c)} => f \in BioRows
    BY <2>5, <2>6
  <2>. HIDE DEF charged, In
  <2>14. \A n : <<"correction", n>>[1] = "correction"
    OBVIOUS
  <2>15. {k \in charged : k[1] = "correction"} =
           (IF c \in corrections[m] THEN {<<"correction", m>>} ELSE {})
    BY <2>1, <2>9, <2>10, <2>12, <2>13, <2>14
  <2>16. {k[2] : k \in {x \in charged : x[1] # "correction"}} =
           {x[1] : x \in In(matrix.B, c)} \cap Characterised[m]
    BY <2>1, <2>9, <2>10, <2>12, <2>13, <2>14
  <2>17. QED
    BY <2>15, <2>16 DEF charged
<1>11. QED
  BY <1>4, <1>5, <1>7, <1>9, <1>10 DEF ExportIsFaithful

-----------------------------------------------------------------------------
(* The commands leave the chain alone *)

LEMMA ConsumersRefineChain == ConsumersSpec => Spec
<1>1. ConsumersInit => Init
  BY DEF ConsumersInit, BacktestInit
<1>2. [ConsumersNext]_<<vars, runVars, portVars>> => [Next]_vars
  <2>. SUFFICES ASSUME ConsumersNext PROVE [Next]_vars
    OBVIOUS
  <2>1. CASE BacktestNext
    BY <2>1 DEF BacktestNext, MapRows, NoMethods, Score, ScoreRaises, Save
  <2>2. CASE PortNext
    BY <2>2 DEF PortNext, Export, ExportRefused, NoTables, Import
  <2>3. QED
    BY <2>1, <2>2 DEF ConsumersNext
<1>3. QED
  BY <1>1, <1>2, PTL DEF ConsumersSpec, Spec

LEMMA ChainUnderConsumers ==
    ConsumersSpec => [](ChainInv /\ TraceInv /\ SplitTrace /\ AuditTrace)
BY ConsumersRefineChain, ChainInvariant, TraceInvariant, SplitTraceInvariant,
   AuditTraceInvariant, PTL

\* Once built, the chain has no step left.
LEMMA BuiltIsFinal ==
    ASSUME stage = "built" PROVE ~Next
BY DEF Next, Allocate, AllocateRaises, Deduplicate, Prune, Filter, Build, BuildRaises

\* A command starts from a package, and the other does not.
Exclusive ==
    /\ step # "link" => stage = "built" /\ port = "none"
    /\ port # "none" => stage = "built"

LEMMA ExclusiveInvariant == ConsumersSpec => []Exclusive
<1>1. ConsumersInit => Exclusive
  BY DEF ConsumersInit, BacktestInit, PortInit, Exclusive
<1>2. Exclusive /\ [ConsumersNext]_<<vars, runVars, portVars>> => Exclusive'
  <2>. SUFFICES ASSUME Exclusive, [ConsumersNext]_<<vars, runVars, portVars>>
                PROVE  Exclusive'
    OBVIOUS
  <2>. USE DEF Exclusive, portVars, runVars
  <2>1. CASE Next /\ UNCHANGED runVars /\ UNCHANGED portVars
    BY <2>1, BuiltIsFinal
  <2>2. CASE (MapRows \/ NoMethods \/ Score \/ ScoreRaises \/ Save) /\ port = "none" /\ UNCHANGED portVars
    BY <2>2 DEF MapRows, NoMethods, Score, ScoreRaises, Save, vars
  <2>3. CASE PortNext /\ step = "link" /\ UNCHANGED runVars
    BY <2>3 DEF PortNext, Export, ExportRefused, NoTables, Import, vars
  <2>4. CASE UNCHANGED <<vars, runVars, portVars>>
    BY <2>4 DEF vars
  <2>5. QED
    BY <2>1, <2>2, <2>3, <2>4 DEF ConsumersNext, BacktestNext
<1>3. QED
  BY <1>1, <1>2, PTL DEF ConsumersSpec

-----------------------------------------------------------------------------
(* The export *)

PortTrace ==
    /\ port \in {"none", "datapackages", "bundle", "failed", "done"}
    /\ port \in {"datapackages", "failed"} => \E c \in Columns : Nameless(c)
    /\ port \in {"bundle", "done"} =>
         \E corrections \in Corrections, catalog \in BOOLEAN : bundle = Bundle(corrections, catalog)
    /\ port = "done" =>
         project = [flows |-> BuildBiosphere, activities |-> BuildActivities,
                    cfs |-> [m \in Methods |-> BuildMethod(m)]]

\* What is built from the bundle changes only with the bundle.
LEMMA BuildsAreStable ==
    ASSUME UNCHANGED bundle
    PROVE  /\ BuildBiosphere' = BuildBiosphere /\ BuildActivities' = BuildActivities
           /\ [m \in Methods |-> BuildMethod(m)]' = [m \in Methods |-> BuildMethod(m)]
<1>1. BuildBiosphere' = BuildBiosphere
  BY DEF BuildBiosphere
<1>2. BuildActivities' = BuildActivities
  BY DEF BuildActivities, ActivityNode, TechnosphereExchanges, BiosphereExchanges, Producer
<1>3. [m \in Methods |-> BuildMethod(m)]' = [m \in Methods |-> BuildMethod(m)]
  BY DEF BuildMethod
<1>4. QED
  BY <1>1, <1>2, <1>3

\* What is written of the package changes only with the package.
LEMMA BundleIsStable ==
    ASSUME UNCHANGED vars, NEW corrections, NEW catalog
    PROVE  Bundle(corrections, catalog)' = Bundle(corrections, catalog)
<1>1. UNCHANGED <<matrix, frame, labels, provenance>>
  BY DEF vars
<1>2. UNCHANGED <<Columns, BioRows, UsedIds>>
  BY <1>1 DEF Columns, BioRows, UsedIds
<1>3. SyntheticFlows(corrections)' = SyntheticFlows(corrections)
  BY <1>2 DEF SyntheticFlows, Free
<1>4. BiosphereTable(corrections)' = BiosphereTable(corrections)
  BY <1>2, <1>3 DEF BiosphereTable
<1>5. Written(corrections)' = Written(corrections)
  BY <1>1, <1>2, <1>3 DEF Written, EmbeddedB, EmbeddedCfs
<1>6. ActivityTable(catalog)' = ActivityTable(catalog)
  BY <1>1, <1>2 DEF ActivityTable, ActivityKey, KeyInCatalog, Parent, Split, ProductOf
<1>7. QED
  BY <1>4, <1>5, <1>6 DEF Bundle

LEMMA PortTraceInvariant == ConsumersSpec => []PortTrace
<1>1. ConsumersInit => PortTrace
  BY DEF ConsumersInit, PortInit, PortTrace
<1>2. TraceInv /\ SplitTrace /\ PortTrace /\ [ConsumersNext]_<<vars, runVars, portVars>> => PortTrace'
  <2>. SUFFICES ASSUME TraceInv, SplitTrace, PortTrace, [ConsumersNext]_<<vars, runVars, portVars>>
                PROVE  PortTrace'
    OBVIOUS
  <2>1. CASE port = "none" /\ UNCHANGED portVars
    BY <2>1 DEF PortTrace, portVars
  <2>2. ASSUME UNCHANGED vars, \E c \in Columns : Nameless(c)
        PROVE  (\E c \in Columns : Nameless(c))'
    BY <2>2 DEF vars, Columns, Nameless
  <2>3. CASE Export
    <3>1. PICK corrections \in Corrections, catalog \in BOOLEAN :
            bundle' = Bundle(corrections, catalog)
      BY <2>3 DEF Export, Bundle
    <3>2. UNCHANGED vars /\ port' = "bundle"
      BY <2>3 DEF Export
    <3>3. bundle' = Bundle(corrections, catalog)'
      BY <3>1, <3>2, BundleIsStable
    <3>4. QED
      BY <3>2, <3>3 DEF PortTrace
  <2>4. CASE ExportRefused
    <3>1. stage = "built" /\ port' = "datapackages" /\ UNCHANGED vars
      BY <2>4 DEF ExportRefused
    <3>2. PICK catalog \in BOOLEAN : ~FullyNamed(ActivityTable(catalog))
      BY <2>4 DEF ExportRefused
    <3>3. PICK c \in Columns : ActivityKey(c, catalog)[1] = ""
      BY <3>2 DEF FullyNamed, ActivityTable
    <3>4. Nameless(c)
      BY <3>1, <3>3, NamelessKey
    <3>5. QED
      BY <2>2, <3>1, <3>4 DEF PortTrace
  <2>5. CASE NoTables
    BY <2>2, <2>5 DEF NoTables, PortTrace
  <2>6. CASE Import
    <3>1. PICK corrections \in Corrections, catalog \in BOOLEAN :
            bundle = Bundle(corrections, catalog)
      BY <2>6 DEF Import, PortTrace
    <3>2. /\ UNCHANGED <<vars, bundle>> /\ port' = "done"
          /\ project' = [flows |-> BuildBiosphere, activities |-> BuildActivities,
                         cfs |-> [m \in Methods |-> BuildMethod(m)]]
      BY <2>6 DEF Import
    <3>3. bundle' = Bundle(corrections, catalog)'
      BY <3>1, <3>2, BundleIsStable
    <3>4. project' = [flows |-> BuildBiosphere, activities |-> BuildActivities,
                      cfs |-> [m \in Methods |-> BuildMethod(m)]]'
      BY <3>2, BuildsAreStable
    <3>5. QED
      BY <3>2, <3>3, <3>4 DEF PortTrace
  <2>7. CASE UNCHANGED <<vars, runVars, portVars>>
    <3>1. UNCHANGED vars /\ UNCHANGED bundle /\ UNCHANGED project /\ UNCHANGED port
      BY <2>7 DEF portVars
    <3>2. \A corrections \in Corrections, catalog \in BOOLEAN :
            Bundle(corrections, catalog)' = Bundle(corrections, catalog)
      BY <3>1, BundleIsStable
    <3>3. [flows |-> BuildBiosphere, activities |-> BuildActivities,
           cfs |-> [m \in Methods |-> BuildMethod(m)]]' =
          [flows |-> BuildBiosphere, activities |-> BuildActivities,
           cfs |-> [m \in Methods |-> BuildMethod(m)]]
      BY <3>1, BuildsAreStable
    <3>4. QED
      BY <2>2, <3>1, <3>2, <3>3 DEF PortTrace
  <2>8. QED
    BY <2>1, <2>3, <2>4, <2>5, <2>6, <2>7 DEF ConsumersNext, PortNext
<1>3. QED
  BY <1>1, <1>2, ChainUnderConsumers, PTL DEF ConsumersSpec

\* "Catalog and matrix can never skew", for any package, any corrections and
\* any number of methods: the project Brightway imports is the package under
\* other names, and no export fails but for a column nobody knows.
THEOREM ImportIsFaithful == ConsumersSpec => []ExportIsFaithful
<1>1. ASSUME ChainInv, TraceInv, SplitTrace, Exclusive, PortTrace PROVE ExportIsFaithful
  <2>1. CASE port = "done"
    <3>1. PICK corrections \in Corrections, catalog \in BOOLEAN :
            bundle = Bundle(corrections, catalog)
      BY <1>1, <2>1 DEF PortTrace
    <3>2. /\ stage = "built"
          /\ project = [flows |-> BuildBiosphere, activities |-> BuildActivities,
                        cfs |-> [m \in Methods |-> BuildMethod(m)]]
      BY <1>1, <2>1 DEF PortTrace, Exclusive
    <3>3. QED
      BY <1>1, <2>1, <3>1, <3>2, ImportedIsFaithful
  <2>2. CASE port # "done"
    BY <1>1, <2>2 DEF PortTrace, ExportIsFaithful
  <2>3. QED
    BY <2>1, <2>2
<1>2. QED
  BY <1>1, ChainUnderConsumers, ExclusiveInvariant, PortTraceInvariant, PTL

-----------------------------------------------------------------------------
(* The entry of a reference row *)

\* Places of entries are finitely many, and a lone one is what its set is.
LEMMA Places ==
    ASSUME NEW S \in SUBSET DOMAIN Entries
    PROVE  /\ IsFiniteSet(S)
           /\ Cardinality(S) = 1 => \E x : S = {x}
<1>1. IsFiniteSet(DOMAIN Entries)
  BY SheetAssumption, FS_Interval
<1>2. QED
  BY <1>1, FS_Subset, FS_Singleton

\* In exact mode an entry that is found has the name the row asks for.
LEMMA ExactName ==
    ASSUME NEW r, EntryFor(r, "exact_name") # Blank
    PROVE  EntryFor(r, "exact_name").name = r.lci
<1>1. PICK x : x = (CHOOSE i \in ByName(r) : TRUE)
  OBVIOUS
<1>2. ByName(r) # {} /\ EntryFor(r, "exact_name") = Entries[x]
  BY <1>1 DEF EntryFor
<1>3. x \in ByName(r)
  BY <1>1, <1>2
<1>4. x \in Called(r.lci)
  BY <1>3 DEF ByName, Single, Products
<1>5. QED
  BY <1>2, <1>4 DEF Called

\* The products of the row's code that are stored as the row says.
Own(r) ==
    {j \in DOMAIN Entries :
       /\ Entries[j].type = "product"
       /\ r.agb # Blank /\ Entries[j].code # Blank
       /\ Normalised(Entries[j].code) = Normalised(r.agb)
       /\ r.storage \in DOMAIN StorageLabel
       /\ Entries[j].label = StorageLabel[r.storage]}

\* When there is one, no pass before or after the storage rule takes another.
LEMMA OwnProductIsFound ==
    ASSUME NEW r, NEW mode, mode # "exact_name", Cardinality(Own(r)) = 1
    PROVE  \E j \in Own(r) : EntryFor(r, mode) = Entries[j]
<1>1. PICK x : Own(r) = {x}
  BY Places DEF Own
<1>2. r.agb # Blank /\ r.storage \in DOMAIN StorageLabel
  BY <1>1 DEF Own
<1>3. PICK C : C = Coded(r.agb)
  OBVIOUS
<1>4. C \in SUBSET DOMAIN Entries /\ Products(C) \subseteq C
  BY <1>3 DEF Coded, Scoreable, Products
<1>5. Stored(C, r) = Own(r)
  BY <1>2, <1>3 DEF Stored, Own, Products, Coded, Scoreable, ScoreableTypes
<1>6. x \in Products(C) /\ x \in C
  BY <1>1, <1>4, <1>5 DEF Stored
<1>7. ByCode(r.agb, r) = {x}
  <2>1. CASE Cardinality(C) = 1
    <3>1. C = {x}
      BY <1>4, <1>6, <2>1, Places
    <3>2. Single(C) = {x}
      BY <2>1, <3>1 DEF Single
    <3>3. QED
      BY <1>2, <1>3, <3>2 DEF ByCode
  <2>2. CASE Cardinality(C) # 1 /\ Cardinality(Products(C)) = 1
    <3>1. Products(C) = {x}
      BY <1>4, <1>6, <2>2, Places
    <3>2. Single(C) = {x}
      BY <2>2, <3>1 DEF Single
    <3>3. QED
      BY <1>2, <1>3, <3>2 DEF ByCode
  <2>3. CASE Cardinality(C) # 1 /\ Cardinality(Products(C)) # 1
    <3>1. Single(C) = {}
      BY <2>3 DEF Single
    <3>2. Cardinality(Stored(C, r)) = 1 /\ Stored(C, r) = {x}
      BY <1>1, <1>5
    <3>3. QED
      BY <1>2, <1>3, <3>1, <3>2 DEF ByCode
  <2>4. QED
    BY <2>1, <2>2, <2>3
<1>8. EntryFor(r, mode) = Entries[CHOOSE i \in {x} : TRUE]
  BY <1>7 DEF EntryFor, OrElse
<1>9. (CHOOSE i \in {x} : TRUE) = x
  OBVIOUS
<1>10. QED
  BY <1>1, <1>8, <1>9

-----------------------------------------------------------------------------
(* The rows *)

\* Rows that are numbered anew are rows there were.
LEMMA RenumberedFacts ==
    ASSUME NEW s, NEW places \in SUBSET Nat, IsFiniteSet(places)
    PROVE  /\ DOMAIN Renumbered(s, places) \subseteq Nat
           /\ IsFiniteSet(DOMAIN Renumbered(s, places))
           /\ \A k \in DOMAIN Renumbered(s, places) :
                \E i \in places : Renumbered(s, places)[k] = s[i]
<1>1. Cardinality(places) \in Nat
  BY FS_CardinalityType
<1>2. /\ DOMAIN Renumbered(s, places) = 1..Cardinality(places)
      /\ \A k \in 1..Cardinality(places) : Renumbered(s, places)[k] = s[Nth(places, k)]
  BY DEF Renumbered
<1>3. IsFiniteSet(1..Cardinality(places))
  BY <1>1, FS_Interval
<1>4. \A k \in 1..Cardinality(places) : Nth(places, k) \in places
  BY NthFacts
<1>5. 1..Cardinality(places) \subseteq Nat
  BY <1>1
<1>6. QED
  BY <1>2, <1>3, <1>4, <1>5

LEMMA SheetFacts ==
    ASSUME NEW o \in Options
    PROVE  /\ DOMAIN ReferenceRows(o) \subseteq Nat
           /\ IsFiniteSet(DOMAIN ReferenceRows(o))
<1>. DEFINE places == {i \in DOMAIN o.sheet : ~o.sheet[i].corrected}
<1>1. PICK kept : kept = Renumbered(o.sheet, places)
  OBVIOUS
<1>2. places \in SUBSET (1..Len(o.sheet)) /\ Len(o.sheet) \in Nat
  BY SheetAssumption
<1>. HIDE DEF places
<1>3. places \in SUBSET Nat /\ IsFiniteSet(places)
  <2>1. IsFiniteSet(1..Len(o.sheet)) /\ 1..Len(o.sheet) \subseteq Nat
    BY <1>2, FS_Interval
  <2>2. QED
    BY <1>2, <2>1, FS_Subset
<1>4. DOMAIN kept \subseteq Nat /\ IsFiniteSet(DOMAIN kept)
  BY <1>1, <1>3, RenumberedFacts
<1>5. DOMAIN ReferenceRows(o) \in SUBSET DOMAIN kept
  BY <1>1 DEF ReferenceRows, places
<1>6. QED
  BY <1>4, <1>5, FS_Subset

\* The rows a run compares, each with the entry of its own.
LEMMA RowFacts ==
    ASSUME NEW o \in Options, NEW df, df = Kept(ReferenceRows(o), o.mode)
    PROVE  /\ IsFiniteSet(DOMAIN df)
           /\ o.mode = "exact_name" => \A i \in DOMAIN df : EntryFor(df[i], o.mode) # Blank
<1>1. CASE o.mode # "exact_name"
  BY <1>1, SheetFacts DEF Kept
<1>2. CASE o.mode = "exact_name"
  <2>. DEFINE places == {i \in DOMAIN ReferenceRows(o) : EntryFor(ReferenceRows(o)[i], o.mode) # Blank}
  <2>1. df = Renumbered(ReferenceRows(o), places)
    BY <1>2 DEF Kept
  <2>2. places \in SUBSET DOMAIN ReferenceRows(o)
    OBVIOUS
  <2>3. places \in SUBSET Nat /\ IsFiniteSet(places)
    BY <2>2, SheetFacts, FS_Subset
  <2>4. \A i \in places : EntryFor(ReferenceRows(o)[i], o.mode) # Blank
    OBVIOUS
  <2>. HIDE DEF places
  <2>5. QED
    BY <2>1, <2>3, <2>4, RenumberedFacts
<1>3. QED
  BY <1>1, <1>2

-----------------------------------------------------------------------------
(* The scores *)

\* A bounded set of numbers has a greatest one.
LEMMA GreatestNumber ==
    ASSUME NEW N \in Nat, NEW T \in SUBSET (1..N), T # {}
    PROVE  \E m \in T : \A n \in T : n <= m
<1>. DEFINE U == {k \in Nat : \A n \in T : n <= k}
<1>1. N \in U
  OBVIOUS
<1>2. U \in SUBSET Nat /\ U # {}
  BY <1>1
<1>. HIDE DEF U
<1>3. PICK m \in U : \A k \in U : m <= k
  BY <1>2, LeastNumber
<1>. USE DEF U
<1>4. m \in Nat /\ \A n \in T : n <= m /\ n \in Nat /\ n >= 1
  BY <1>3
<1>5. CASE m \in T
  BY <1>4, <1>5
<1>6. CASE m \notin T
  <2>1. \A n \in T : n <= m - 1
    BY <1>4, <1>6
  <2>2. m - 1 \in Nat
    <3>1. PICK t : t \in T
      OBVIOUS
    <3>2. t <= m - 1 /\ t \in Nat /\ t >= 1 /\ m \in Nat
      BY <1>4, <2>1, <3>1
    <3>. HIDE DEF U
    <3>3. QED
      BY <3>2
  <2>3. m - 1 \in U /\ ~(m <= m - 1)
    BY <1>4, <2>1, <2>2
  <2>. HIDE DEF U
  <2>4. QED
    BY <1>3, <2>3
<1>7. QED
  BY <1>5, <1>6

\* However the entries are dealt out to workers, each is scored by one of them.
LEMMA WorkersScoreAll ==
    ASSUME NEW n \in Nat \ {0}, IsFiniteSet(Keys)
    PROVE  ScoredByWorkers(SetToSeq(Keys), n) = Scored(Keys)
<1>1. PICK items : items = SetToSeq(Keys)
  OBVIOUS
<1>2. PICK L \in Nat : L = Cardinality(Keys)
  BY FS_CardinalityType
<1>3. items \in [1..L -> Keys] /\ \A e \in Keys : \E i \in 1..L : items[i] = e
  <2>1. \E f \in [1..L -> Keys] : IsInjective(f)
    BY <1>2, FS_CardinalityType DEF ExistsBijection, Bijection, Injection
  <2>2. items \in [1..L -> Keys] /\ IsInjective(items)
    BY <1>1, <1>2, <2>1 DEF SetToSeq
  <2>3. items \in Injection(1..L, Keys)
    BY <2>2 DEF Injection
  <2>4. Cardinality(1..L) = Cardinality(Keys)
    BY <1>2, FS_Interval
  <2>5. items \in Surjection(1..L, Keys)
    BY <2>3, <2>4, FS_Injection
  <2>6. QED
    BY <2>2, <2>5 DEF Surjection
<1>. DEFINE part(b) == Scored(Chunk(items, n, b))
            last(e) == CHOOSE b \in 1 .. n :
                         /\ e \in DOMAIN part(b)
                         /\ \A d \in 1 .. n : e \in DOMAIN part(d) => d <= b
            scored == {e \in Keys : ProductId(e) \in Loaded}
<1>4. \A b \in 1..n : /\ DOMAIN part(b) \subseteq scored
                      /\ \A e \in DOMAIN part(b) : part(b)[e] = ProductId(e)
  BY <1>3 DEF Scored, Chunk
<1>5. ASSUME NEW e \in scored
      PROVE  \E b \in 1..n : e \in DOMAIN part(b)
  <2>1. PICK i \in 1..L : items[i] = e
    BY <1>3
  <2>2. PICK b : b = ((i - 1) % n) + 1
    OBVIOUS
  <2>3. \A k \in Nat : k % n \in 0..(n - 1)
    OBVIOUS
  <2>4. i - 1 \in Nat
    OBVIOUS
  <2>5. b \in 1..n
    BY <2>2, <2>3, <2>4
  <2>6. i \in DOMAIN items
    BY <1>3
  <2>7. e \in Chunk(items, n, b)
    BY <2>1, <2>2, <2>6 DEF Chunk
  <2>8. e \in DOMAIN part(b)
    BY <2>7 DEF Scored
  <2>9. QED
    BY <2>5, <2>8
<1>6. ScoredByWorkers(items, n) = [e \in UNION {DOMAIN part(b) : b \in 1 .. n} |-> part(last(e))[e]]
  BY DEF ScoredByWorkers
<1>. HIDE DEF part, scored
<1>7. UNION {DOMAIN part(b) : b \in 1 .. n} = scored
  BY <1>4, <1>5
<1>8. ASSUME NEW e \in scored
      PROVE  part(last(e))[e] = ProductId(e)
  <2>. DEFINE T == {b \in 1..n : e \in DOMAIN part(b)}
  <2>1. T \in SUBSET (1..n) /\ T # {}
    BY <1>5
  <2>2. \E m \in T : \A d \in T : d <= m
    BY <2>1, GreatestNumber
  <2>3. \E b \in 1..n : e \in DOMAIN part(b) /\ \A d \in 1 .. n : e \in DOMAIN part(d) => d <= b
    BY <2>2
  <2>4. last(e) \in 1..n /\ e \in DOMAIN part(last(e))
    BY <2>3
  <2>. HIDE DEF last
  <2>5. QED
    BY <1>4, <2>4
<1>. HIDE DEF last
<1>9. Scored(Keys) = [e \in scored |-> ProductId(e)]
  BY DEF Scored, scored
<1>10. QED
  BY <1>1, <1>6, <1>7, <1>8, <1>9


-----------------------------------------------------------------------------
(* The run of the backtest *)

\* The product of an entry is one its activity lists.
LEMMA ProductIsListed ==
    ASSUME source \in Frames, NEW e
    PROVE  ProductId(e) \in Listed(e)
<1>1. PICK made : made = {q.in : q \in {r \in Production(source) : r.out = e.id}}
  OBVIOUS
<1>2. made \in SUBSET Nat
  <2>1. \A r \in Production(source) : r.in \in Product
    BY FrameAssumption DEF Production, Rows
  <2>2. made \in SUBSET Product
    BY <1>1, <2>1
  <2>3. QED
    BY <2>2, IdAssumption
<1>3. ProductId(e) = IF made = {} THEN e.id ELSE CHOOSE p \in made : \A q \in made : p <= q
  BY <1>1 DEF ProductId
<1>4. Listed(e) = IF made = {} THEN {e.id} ELSE made
  BY <1>1 DEF Listed
<1>5. made # {} => \E p \in made : \A q \in made : p <= q
  BY <1>2, LeastNumber
<1>6. QED
  BY <1>3, <1>4, <1>5

\* The products that can be scored are those the pruner left, ...
LEMMA LoadedFacts ==
    ASSUME ChainInv, TraceInv, stage = "built"
    PROVE  /\ Loaded = Ins(Real(Pruned(Deduplicated(Allocated(source)))))
           /\ Loaded \subseteq Product
<1>1. PICK P : P = Pruned(Deduplicated(Allocated(source)))
  OBVIOUS
<1>2. frame = Filtered(P) /\ matrix = Built(frame)
  BY <1>1 DEF TraceInv
<1>3. Real(frame) = Real(P)
  BY <1>2 DEF Filtered, Emission, Real, Production
<1>4. matrix.pairs = {<<r.in, r.out>> : r \in Real(P)}
  BY <1>2, <1>3 DEF Built
<1>5. Loaded = Ins(Real(P))
  <2>1. \A r \in Real(P) : <<r.in, r.out>> \in matrix.pairs /\ <<r.in, r.out>>[1] = r.in
    BY <1>4
  <2>2. \A x \in matrix.pairs : \E r \in Real(P) : x[1] = r.in
    BY <1>4
  <2>3. QED
    BY <2>1, <2>2 DEF Loaded, Ins
<1>6. Loaded \subseteq Product
  BY PackageFacts DEF Loaded
<1>7. QED
  BY <1>1, <1>5, <1>6

\* ... and the audit has those that were lost on the way.
LEMMA AuditOfLost ==
    ASSUME ChainInv, TraceInv, AuditTrace, stage = "built", NEW p, p \notin Loaded
    PROVE  \/ p \notin Ins(Real(source))
           \/ \E t \in audit : t[1] = "dangling_product" /\ t[2] = p
<1>1. /\ snapshot["initial"].products = Ins(Real(source))
      /\ snapshot["after_pruner"].products = Loaded
      /\ ProductDrops(snapshot) \subseteq audit
  BY LoadedFacts DEF AuditTrace, Seen
<1>2. SUFFICES ASSUME p \in Ins(Real(source))
               PROVE  \E t \in audit : t[1] = "dangling_product" /\ t[2] = p
  OBVIOUS
<1>3. <<"dangling_product", p, FirstGone(snapshot, p)>> \in ProductDrops(snapshot)
  BY <1>1, <1>2 DEF ProductDrops
<1>4. QED
  BY <1>1, <1>3

\* What each step of a run leaves.
RunTrace ==
    /\ step # "link" =>
         /\ job \in Options
         /\ rows = Kept(ReferenceRows(job), job.mode)
         /\ chosen = MapProducts(rows, job.mode)
    /\ step \in {"scored", "saved"} => scores = Scored(Keys)
    /\ step = "saved" => board = [lines |-> [i \in DOMAIN rows |-> Line(i)], csv |-> Emitted]

\* Entries are scored alike however many workers there are.
LEMMA ScoreFacts ==
    ASSUME RunTrace, step # "link"
    PROVE  AllScores = Scored(Keys)
<1>1. job \in Options /\ IsFiniteSet(DOMAIN rows)
  BY RowFacts DEF RunTrace
<1>2. DOMAIN chosen = DOMAIN rows
  BY DEF RunTrace, MapProducts
<1>3. PICK C : C = {chosen[i] : i \in DOMAIN chosen}
  OBVIOUS
<1>4. IsFiniteSet(C)
  <2>1. chosen \in Surjection(DOMAIN chosen, C)
    <3>1. chosen = [i \in DOMAIN chosen |-> chosen[i]]
      BY DEF RunTrace, MapProducts
    <3>2. QED
      BY <1>3, <3>1 DEF Surjection
  <2>2. QED
    BY <1>1, <1>2, <2>1, FS_Surjection
<1>5. IsFiniteSet(Keys)
  BY <1>3, <1>4, FS_Subset DEF Keys
<1>6. CASE job.workers > 1 /\ Len(SetToSeq(Keys)) > 1
  <2>1. job.workers \in Nat \ {0}
    BY <1>1, <1>6, SheetAssumption
  <2>2. AllScores = ScoredByWorkers(SetToSeq(Keys), job.workers)
    BY <1>6 DEF AllScores
  <2>3. QED
    BY <1>5, <2>1, <2>2, WorkersScoreAll
<1>7. CASE ~(job.workers > 1 /\ Len(SetToSeq(Keys)) > 1)
  BY <1>7 DEF AllScores
<1>8. QED
  BY <1>6, <1>7

LEMMA ScoresAreStable ==
    ASSUME UNCHANGED <<vars, chosen>>
    PROVE  Scored(Keys)' = Scored(Keys)
<1>1. UNCHANGED <<source, matrix, chosen>>
  BY DEF vars
<1>2. Keys' = Keys /\ Loaded' = Loaded
  BY <1>1 DEF Keys, Loaded
<1>3. \A e : ProductId(e)' = ProductId(e)
  BY <1>1 DEF ProductId, Production
<1>4. QED
  BY <1>2, <1>3 DEF Scored

LEMMA RunTraceInvariant == ConsumersSpec => []RunTrace
<1>1. ConsumersInit => RunTrace
  BY DEF ConsumersInit, BacktestInit, RunTrace
<1>2. Exclusive /\ RunTrace /\ [ConsumersNext]_<<vars, runVars, portVars>> => RunTrace'
  <2>. SUFFICES ASSUME Exclusive, RunTrace, [ConsumersNext]_<<vars, runVars, portVars>>
                PROVE  RunTrace'
    OBVIOUS
  <2>1. ASSUME UNCHANGED <<vars, runVars>> PROVE RunTrace'
    <3>1. UNCHANGED vars /\ UNCHANGED chosen
      BY <2>1 DEF runVars
    <3>2. Scored(Keys)' = Scored(Keys)
      BY <3>1, ScoresAreStable
    <3>3. UNCHANGED <<step, job, rows, chosen, scores, board>>
      BY <2>1 DEF runVars
    <3>4. [lines |-> [i \in DOMAIN rows |-> Line(i)], csv |-> Emitted]' =
          [lines |-> [i \in DOMAIN rows |-> Line(i)], csv |-> Emitted]
      BY <3>3 DEF Line, Emitted
    <3>5. QED
      BY <3>2, <3>3, <3>4 DEF RunTrace
  <2>2. CASE Next /\ UNCHANGED runVars
    <3>1. step = "link"
      BY <2>2, BuiltIsFinal DEF Exclusive
    <3>2. QED
      BY <2>2, <3>1 DEF RunTrace, runVars
  <2>3. CASE MapRows
    <3>1. PICK o \in Options :
            /\ job' = o /\ rows' = Kept(ReferenceRows(o), o.mode)
            /\ chosen' = MapProducts(Kept(ReferenceRows(o), o.mode), o.mode)
      BY <2>3 DEF MapRows, MappingOfKept
    <3>2. step' = "mapped"
      BY <2>3 DEF MapRows
    <3>3. QED
      BY <3>1, <3>2 DEF RunTrace
  <2>4. CASE NoMethods \/ ScoreRaises
    BY <2>4 DEF NoMethods, ScoreRaises, RunTrace
  <2>5. CASE Score
    <3>1. /\ step = "mapped" /\ step' = "scored" /\ scores' = AllScores
          /\ UNCHANGED vars /\ UNCHANGED chosen /\ UNCHANGED <<job, rows>>
      BY <2>5 DEF Score
    <3>2. scores' = Scored(Keys)'
      BY <3>1, ScoreFacts, ScoresAreStable
    <3>3. QED
      BY <3>1, <3>2 DEF RunTrace
  <2>6. CASE Save
    <3>1. /\ step = "scored" /\ step' = "saved"
          /\ board' = [lines |-> [i \in DOMAIN rows |-> Line(i)], csv |-> Emitted]
          /\ UNCHANGED vars /\ UNCHANGED chosen /\ UNCHANGED <<job, rows, scores>>
      BY <2>6 DEF Save
    <3>2. [lines |-> [i \in DOMAIN rows |-> Line(i)], csv |-> Emitted]' =
          [lines |-> [i \in DOMAIN rows |-> Line(i)], csv |-> Emitted]
      BY <3>1 DEF Line, Emitted
    <3>3. Scored(Keys)' = Scored(Keys)
      BY <3>1, ScoresAreStable
    <3>4. QED
      BY <3>1, <3>2, <3>3 DEF RunTrace
  <2>7. CASE PortNext /\ UNCHANGED runVars
    BY <2>1, <2>7 DEF PortNext, Export, ExportRefused, NoTables, Import
  <2>8. CASE UNCHANGED <<vars, runVars, portVars>>
    BY <2>1, <2>8
  <2>9. QED
    BY <2>2, <2>3, <2>4, <2>5, <2>6, <2>7, <2>8 DEF ConsumersNext, BacktestNext
<1>3. QED
  BY <1>1, <1>2, ExclusiveInvariant, PTL DEF ConsumersSpec

\* A row is shown beside the score of its own entry.
LEMMA LineFacts ==
    ASSUME RunTrace, step = "saved", NEW i \in DOMAIN board.lines
    PROVE  /\ job \in Options /\ i \in DOMAIN rows
           /\ board.lines[i].row = rows[i]
           /\ board.lines[i].entry = EntryFor(rows[i], job.mode)
           /\ board.lines[i].entry # Blank =>
                board.lines[i].score =
                  IF ProductId(board.lines[i].entry) \in Loaded
                  THEN ProductId(board.lines[i].entry) ELSE Blank
<1>1. /\ job \in Options /\ chosen = MapProducts(rows, job.mode) /\ scores = Scored(Keys)
      /\ board.lines = [k \in DOMAIN rows |-> Line(k)]
  BY DEF RunTrace
<1>2. i \in DOMAIN rows /\ board.lines[i] = Line(i)
  BY <1>1
<1>3. i \in DOMAIN chosen /\ chosen[i] = EntryFor(rows[i], job.mode)
  BY <1>1, <1>2 DEF MapProducts
<1>4. /\ Line(i).row = rows[i] /\ Line(i).entry = chosen[i]
      /\ Line(i).score = IF chosen[i] \in DOMAIN scores THEN scores[chosen[i]] ELSE Blank
  BY DEF Line
<1>5. chosen[i] # Blank => chosen[i] \in Keys
  BY <1>3 DEF Keys
<1>6. /\ DOMAIN scores = {d \in Keys : ProductId(d) \in Loaded}
      /\ \A e \in DOMAIN scores : scores[e] = ProductId(e)
  BY <1>1 DEF Scored
<1>7. QED
  BY <1>1, <1>2, <1>3, <1>4, <1>5, <1>6

\* For any catalog, any reference and any number of rows that are dropped, a
\* row is written beside an entry of its own.
THEOREM RowsAreKept == ConsumersSpec => []RowsKeepTheirProduct
<1>1. ASSUME RunTrace PROVE RowsKeepTheirProduct
  <2>. SUFFICES ASSUME step = "saved", NEW i \in DOMAIN board.lines
                PROVE  LET r == board.lines[i].row  e == board.lines[i].entry
                       IN  /\ job.mode = "exact_name" => e # Blank /\ e.name = r.lci
                           /\ job.mode # "exact_name" /\ Cardinality(Own(r)) = 1 =>
                                \E j \in Own(r) : e = Entries[j]
    BY DEF RowsKeepTheirProduct, Own
  <2>1. /\ job \in Options /\ i \in DOMAIN rows
        /\ board.lines[i].row = rows[i]
        /\ board.lines[i].entry = EntryFor(rows[i], job.mode)
    BY <1>1, LineFacts
  <2>2. CASE job.mode = "exact_name"
    <3>1. EntryFor(rows[i], job.mode) # Blank
      BY <1>1, <2>1, <2>2, RowFacts DEF RunTrace
    <3>2. EntryFor(rows[i], job.mode).name = rows[i].lci
      BY <2>2, <3>1, ExactName
    <3>3. QED
      BY <2>1, <2>2, <3>1, <3>2
  <2>3. CASE job.mode # "exact_name"
    BY <2>1, <2>3, OwnProductIsFound
  <2>4. QED
    BY <2>2, <2>3
<1>2. QED
  BY <1>1, RunTraceInvariant, PTL

\* Nothing between the linked exchanges and the written row loses a score in
\* silence, however the entries are dealt out to workers.
THEOREM UnscoredIsAccountedFor == ConsumersSpec => []UnscoredIsExplained
<1>1. ASSUME ChainInv, TraceInv, AuditTrace, Exclusive, RunTrace PROVE UnscoredIsExplained
  <2>. SUFFICES ASSUME step = "saved", NEW i \in DOMAIN board.lines,
                       board.lines[i].entry # Blank
                PROVE  LET e == board.lines[i].entry  s == board.lines[i].score
                           Lost(p) == \/ p \notin Ins(Real(source))
                                      \/ \E t \in audit : t[1] = "dangling_product" /\ t[2] = p
                       IN  \/ s # Blank /\ s \in Listed(e) \cap Loaded
                           \/ s = Blank /\ \E p \in Listed(e) : Lost(p)
    BY DEF UnscoredIsExplained
  <2>1. PICK e : e = board.lines[i].entry
    OBVIOUS
  <2>2. board.lines[i].score = IF ProductId(e) \in Loaded THEN ProductId(e) ELSE Blank
    BY <1>1, <2>1, LineFacts
  <2>3. stage = "built" /\ source \in Frames
    BY <1>1 DEF Exclusive, TraceInv
  <2>4. ProductId(e) \in Listed(e)
    BY <2>3, ProductIsListed
  <2>5. CASE ProductId(e) \in Loaded
    <3>1. ProductId(e) # Blank
      BY <1>1, <2>3, <2>5, LoadedFacts, BlankAssumption
    <3>2. QED
      BY <2>1, <2>2, <2>4, <2>5, <3>1
  <2>6. CASE ProductId(e) \notin Loaded
    <3>1. \/ ProductId(e) \notin Ins(Real(source))
          \/ \E t \in audit : t[1] = "dangling_product" /\ t[2] = ProductId(e)
      BY <1>1, <2>3, <2>6, AuditOfLost
    <3>2. QED
      BY <2>1, <2>2, <2>4, <2>6, <3>1
  <2>7. QED
    BY <2>5, <2>6
<1>2. QED
  BY <1>1, ChainUnderConsumers, ExclusiveInvariant, RunTraceInvariant, PTL
=============================================================================
