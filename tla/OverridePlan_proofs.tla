------------------------- MODULE OverridePlan_proofs -------------------------
(***************************************************************************)
(* Proofs about OverridePlan.  The loops of the model are recursive         *)
(* functions; what each computes is shown by taking the least step at      *)
(* which it would go wrong.                                                *)
(***************************************************************************)
EXTENDS OverridePlan, TLAPS, WellFoundedInduction

-----------------------------------------------------------------------------
(* Induction *)

\* A set of numbers has a least one.
LEMMA LeastNumber ==
    ASSUME NEW T \in SUBSET Nat, T # {}
    PROVE  \E m \in T : \A n \in T : m <= n
<1>1. PICK m \in T : \A n \in T : <<n, m>> \notin OpToRel(<, Nat)
  BY NatLessThanWellFounded, WFMin
<1>2. \A n \in T : ~ (n < m)
  BY <1>1 DEF OpToRel
<1>3. QED
  BY <1>2

\* What is true of 0, and of n if of n - 1, is true up to any bound.
LEMMA Induction ==
    ASSUME NEW L \in Nat, NEW T, 0 \in T, \A n \in 1..L : n - 1 \in T => n \in T
    PROVE  \A n \in 0..L : n \in T
<1>1. SUFFICES ASSUME NEW k \in 0..L, k \notin T PROVE FALSE
  OBVIOUS
<1>. DEFINE Bad == {n \in 0..L : n \notin T}
<1>2. PICK m \in Bad : \A n \in Bad : m <= n
  <2>1. Bad \in SUBSET Nat /\ Bad # {}
    BY <1>1
  <2>2. QED
    BY <2>1, LeastNumber
<1>3. m \in 1..L /\ m - 1 \in 0..L /\ m - 1 \notin Bad
  BY <1>2
<1>4. QED
  BY <1>2, <1>3

\* Each loop of the model is a function that satisfies its equation.
LEMMA SubsequenceLoop ==
    ASSUME NEW s, Len(s) \in Nat, NEW S
    PROVE  \E f : /\ f[0] = << >>
                  /\ \A i \in 1..Len(s) : f[i] = IF s[i] \in S THEN Append(f[i - 1], s[i]) ELSE f[i - 1]
                  /\ Subsequence(s, S) = f[Len(s)]
<1>. DEFINE Step(a, i) == IF s[i] \in S THEN Append(a, s[i]) ELSE a
            Ok(f, n) == f[0] = << >> /\ \A i \in 1..n : f[i] = Step(f[i - 1], i)
            T == {n \in 0..Len(s) : \E f : Ok(f, n)}
            Body(f) == [i \in 0..Len(s) |-> IF i = 0 THEN << >> ELSE Step(f[i - 1], i)]
<1>. HIDE DEF Step
<1>1. 0 \in T
  <2>1. Ok([i \in 0..0 |-> << >>], 0)
    OBVIOUS
  <2>. HIDE DEF Ok
  <2>2. QED
    BY <2>1
<1>2. ASSUME NEW n \in 1..Len(s), n - 1 \in T PROVE n \in T
  <2>1. PICK g : Ok(g, n - 1)
    BY <1>2
  <2>. DEFINE f == [i \in 0..n |-> IF i = n THEN Step(g[n - 1], n) ELSE g[i]]
  <2>2. /\ \A i \in 0..n - 1 : f[i] = g[i]
        /\ f[n] = Step(f[n - 1], n)
    OBVIOUS
  <2>. HIDE DEF f
  <2>3. Ok(f, n)
    <3>1. f[0] = << >>
      BY <2>1, <2>2
    <3>2. ASSUME NEW i \in 1..n PROVE f[i] = Step(f[i - 1], i)
      <4>1. CASE i = n
        BY <2>2, <4>1
      <4>2. CASE i # n
        BY <2>1, <2>2, <4>2
      <4>3. QED
        BY <4>1, <4>2
    <3>3. QED
      BY <3>1, <3>2
  <2>4. QED
    BY <2>3
<1>3. PICK g : Ok(g, Len(s))
  <2>. HIDE DEF Ok
  <2>1. \A n \in 0..Len(s) : n \in T
    <3>. HIDE DEF T
    <3>1. QED
      BY <1>1, <1>2, Induction
  <2>2. QED
    BY <2>1
<1>. DEFINE h == [i \in 0..Len(s) |-> g[i]]
<1>4. h = Body(h)
  BY <1>3
<1>. DEFINE f == CHOOSE f : f = Body(f)
<1>5. f = Body(f)
  BY <1>4
<1>6. Subsequence(s, S) = f[Len(s)]
  BY DEF Subsequence, Step
<1>. HIDE DEF f
<1>7. \A i \in 0..Len(s) : f[i] = IF i = 0 THEN f[0] ELSE Step(f[i - 1], i)
  BY <1>5
<1>8. f[0] = << >>
  BY <1>5
<1>9. QED
  BY <1>6, <1>7, <1>8 DEF Step

LEMMA OverlayLoop ==
    ASSUME NEW P, NEW plan, NEW tier, NEW rs, Len(rs) \in Nat
    PROVE  \E f : /\ f[0] = plan
                  /\ \A i \in 1..Len(rs) : f[i] = Written(P, f[i - 1], tier, rs[i])
                  /\ Overlay(P, plan, tier, rs) = f[Len(rs)]
<1>. DEFINE Step(a, i) == Written(P, a, tier, rs[i])
            Ok(f, n) == f[0] = plan /\ \A i \in 1..n : f[i] = Step(f[i - 1], i)
            T == {n \in 0..Len(rs) : \E f : Ok(f, n)}
            Body(f) == [i \in 0..Len(rs) |-> IF i = 0 THEN plan ELSE Step(f[i - 1], i)]
<1>. HIDE DEF Step
<1>1. 0 \in T
  <2>1. Ok([i \in 0..0 |-> plan], 0)
    OBVIOUS
  <2>. HIDE DEF Ok
  <2>2. QED
    BY <2>1
<1>2. ASSUME NEW n \in 1..Len(rs), n - 1 \in T PROVE n \in T
  <2>1. PICK g : Ok(g, n - 1)
    BY <1>2
  <2>. DEFINE f == [i \in 0..n |-> IF i = n THEN Step(g[n - 1], n) ELSE g[i]]
  <2>2. /\ \A i \in 0..n - 1 : f[i] = g[i]
        /\ f[n] = Step(f[n - 1], n)
    OBVIOUS
  <2>. HIDE DEF f
  <2>3. Ok(f, n)
    <3>1. f[0] = plan
      BY <2>1, <2>2
    <3>2. ASSUME NEW i \in 1..n PROVE f[i] = Step(f[i - 1], i)
      <4>1. CASE i = n
        BY <2>2, <4>1
      <4>2. CASE i # n
        BY <2>1, <2>2, <4>2
      <4>3. QED
        BY <4>1, <4>2
    <3>3. QED
      BY <3>1, <3>2
  <2>4. QED
    BY <2>3
<1>3. PICK g : Ok(g, Len(rs))
  <2>. HIDE DEF Ok
  <2>1. \A n \in 0..Len(rs) : n \in T
    <3>. HIDE DEF T
    <3>1. QED
      BY <1>1, <1>2, Induction
  <2>2. QED
    BY <2>1
<1>. DEFINE h == [i \in 0..Len(rs) |-> g[i]]
<1>4. h = Body(h)
  BY <1>3
<1>. DEFINE f == CHOOSE f : f = Body(f)
<1>5. f = Body(f)
  BY <1>4
<1>6. Overlay(P, plan, tier, rs) = f[Len(rs)]
  BY DEF Overlay, Step
<1>. HIDE DEF f
<1>7. \A i \in 0..Len(rs) : f[i] = IF i = 0 THEN f[0] ELSE Step(f[i - 1], i)
  BY <1>5
<1>8. f[0] = plan
  BY <1>5
<1>9. QED
  BY <1>6, <1>7, <1>8 DEF Step

LEMMA EnvironmentLoop ==
    ASSUME NEW b, Len(b.calcs) \in Nat, NEW over
    PROVE  \E f : /\ f[0] = Given(b, over)
                  /\ \A i \in 1..Len(b.calcs) : f[i] = WithCalculated(f[i - 1], b.calcs[i])
                  /\ Environment(b, over) = f[Len(b.calcs)]
<1>. DEFINE Step(a, i) == WithCalculated(a, b.calcs[i])
            Ok(f, n) == f[0] = Given(b, over) /\ \A i \in 1..n : f[i] = Step(f[i - 1], i)
            T == {n \in 0..Len(b.calcs) : \E f : Ok(f, n)}
            Body(f) == [i \in 0..Len(b.calcs) |-> IF i = 0 THEN Given(b, over) ELSE Step(f[i - 1], i)]
<1>. HIDE DEF Step
<1>1. 0 \in T
  <2>1. Ok([i \in 0..0 |-> Given(b, over)], 0)
    OBVIOUS
  <2>. HIDE DEF Ok
  <2>2. QED
    BY <2>1
<1>2. ASSUME NEW n \in 1..Len(b.calcs), n - 1 \in T PROVE n \in T
  <2>1. PICK g : Ok(g, n - 1)
    BY <1>2
  <2>. DEFINE f == [i \in 0..n |-> IF i = n THEN Step(g[n - 1], n) ELSE g[i]]
  <2>2. /\ \A i \in 0..n - 1 : f[i] = g[i]
        /\ f[n] = Step(f[n - 1], n)
    OBVIOUS
  <2>. HIDE DEF f
  <2>3. Ok(f, n)
    <3>1. f[0] = Given(b, over)
      BY <2>1, <2>2
    <3>2. ASSUME NEW i \in 1..n PROVE f[i] = Step(f[i - 1], i)
      <4>1. CASE i = n
        BY <2>2, <4>1
      <4>2. CASE i # n
        BY <2>1, <2>2, <4>2
      <4>3. QED
        BY <4>1, <4>2
    <3>3. QED
      BY <3>1, <3>2
  <2>4. QED
    BY <2>3
<1>3. PICK g : Ok(g, Len(b.calcs))
  <2>. HIDE DEF Ok
  <2>1. \A n \in 0..Len(b.calcs) : n \in T
    <3>. HIDE DEF T
    <3>1. QED
      BY <1>1, <1>2, Induction
  <2>2. QED
    BY <2>1
<1>. DEFINE h == [i \in 0..Len(b.calcs) |-> g[i]]
<1>4. h = Body(h)
  BY <1>3
<1>. DEFINE f == CHOOSE f : f = Body(f)
<1>5. f = Body(f)
  BY <1>4
<1>6. Environment(b, over) = f[Len(b.calcs)]
  BY DEF Environment, Step
<1>. HIDE DEF f
<1>7. \A i \in 0..Len(b.calcs) : f[i] = IF i = 0 THEN f[0] ELSE Step(f[i - 1], i)
  BY <1>5
<1>8. f[0] = Given(b, over)
  BY <1>5
<1>9. QED
  BY <1>6, <1>7, <1>8 DEF Step

LEMMA InfluencedLoop ==
    ASSUME NEW b, Len(b.calcs) \in Nat, NEW names
    PROVE  \E f : /\ f[0] = names
                  /\ \A i \in 1..Len(b.calcs) : f[i] = Grown(b, f[i - 1])
                  /\ Influenced(b, names) = f[Len(b.calcs)]
<1>. DEFINE Step(a, i) == Grown(b, a)
            Ok(f, n) == f[0] = names /\ \A i \in 1..n : f[i] = Step(f[i - 1], i)
            T == {n \in 0..Len(b.calcs) : \E f : Ok(f, n)}
            Body(f) == [i \in 0..Len(b.calcs) |-> IF i = 0 THEN names ELSE Step(f[i - 1], i)]
<1>. HIDE DEF Step
<1>1. 0 \in T
  <2>1. Ok([i \in 0..0 |-> names], 0)
    OBVIOUS
  <2>. HIDE DEF Ok
  <2>2. QED
    BY <2>1
<1>2. ASSUME NEW n \in 1..Len(b.calcs), n - 1 \in T PROVE n \in T
  <2>1. PICK g : Ok(g, n - 1)
    BY <1>2
  <2>. DEFINE f == [i \in 0..n |-> IF i = n THEN Step(g[n - 1], n) ELSE g[i]]
  <2>2. /\ \A i \in 0..n - 1 : f[i] = g[i]
        /\ f[n] = Step(f[n - 1], n)
    OBVIOUS
  <2>. HIDE DEF f
  <2>3. Ok(f, n)
    <3>1. f[0] = names
      BY <2>1, <2>2
    <3>2. ASSUME NEW i \in 1..n PROVE f[i] = Step(f[i - 1], i)
      <4>1. CASE i = n
        BY <2>2, <4>1
      <4>2. CASE i # n
        BY <2>1, <2>2, <4>2
      <4>3. QED
        BY <4>1, <4>2
    <3>3. QED
      BY <3>1, <3>2
  <2>4. QED
    BY <2>3
<1>3. PICK g : Ok(g, Len(b.calcs))
  <2>. HIDE DEF Ok
  <2>1. \A n \in 0..Len(b.calcs) : n \in T
    <3>. HIDE DEF T
    <3>1. QED
      BY <1>1, <1>2, Induction
  <2>2. QED
    BY <2>1
<1>. DEFINE h == [i \in 0..Len(b.calcs) |-> g[i]]
<1>4. h = Body(h)
  BY <1>3
<1>. DEFINE f == CHOOSE f : f = Body(f)
<1>5. f = Body(f)
  BY <1>4
<1>6. Influenced(b, names) = f[Len(b.calcs)]
  BY DEF Influenced, Step
<1>. HIDE DEF f
<1>7. \A i \in 0..Len(b.calcs) : f[i] = IF i = 0 THEN f[0] ELSE Step(f[i - 1], i)
  BY <1>5
<1>8. f[0] = names
  BY <1>5
<1>9. QED
  BY <1>6, <1>7, <1>8 DEF Step

-----------------------------------------------------------------------------
(* Parts of a sequence *)

LEMMA AppendFacts ==
    ASSUME NEW X, NEW s \in Seq(X), NEW x \in X
    PROVE  Append(s, x) \in Seq(X) /\ Range(Append(s, x)) = Range(s) \cup {x}
<1>1. /\ Append(s, x) \in Seq(X) /\ Len(Append(s, x)) = Len(s) + 1
      /\ DOMAIN Append(s, x) = 1..Len(s) + 1 /\ DOMAIN s = 1..Len(s) /\ Len(s) \in Nat
      /\ Append(s, x)[Len(s) + 1] = x
      /\ \A i \in 1..Len(s) : Append(s, x)[i] = s[i]
  OBVIOUS
<1>. DEFINE t == Append(s, x)
<1>. HIDE DEF t
<1>2. Range(t) \subseteq Range(s) \cup {x}
  BY <1>1 DEF Range, t
<1>3. Range(s) \cup {x} \subseteq Range(t)
  BY <1>1 DEF Range, t
<1>4. QED
  BY <1>1, <1>2, <1>3 DEF t

LEMMA SubsequenceFacts ==
    ASSUME NEW X, NEW s \in Seq(X), NEW S
    PROVE  /\ Subsequence(s, S) \in Seq(X)
           /\ Range(Subsequence(s, S)) = Range(s) \cap S
<1>1. Len(s) \in Nat /\ DOMAIN s = 1..Len(s)
  OBVIOUS
<1>2. PICK f : /\ f[0] = << >>
               /\ \A i \in 1..Len(s) :
                    f[i] = IF s[i] \in S THEN Append(f[i - 1], s[i]) ELSE f[i - 1]
               /\ Subsequence(s, S) = f[Len(s)]
  BY <1>1, SubsequenceLoop
<1>. DEFINE From(i) == {s[j] : j \in 1..i}
            Ok(i) == f[i] \in Seq(X) /\ Range(f[i]) = From(i) \cap S
            T == {i \in 0..Len(s) : Ok(i)}
<1>3. 0 \in T
  <2>1. f[0] \in Seq(X) /\ Range(f[0]) = {}
    BY <1>2 DEF Range
  <2>2. From(0) = {}
    OBVIOUS
  <2>3. QED
    BY <1>1, <2>1, <2>2
<1>4. ASSUME NEW i \in 1..Len(s), i - 1 \in T PROVE i \in T
  <2>1. f[i - 1] \in Seq(X) /\ Range(f[i - 1]) = From(i - 1) \cap S
    BY <1>4
  <2>2. From(i) = From(i - 1) \cup {s[i]}
    BY <1>1
  <2>3. s[i] \in X
    BY <1>1
  <2>. HIDE DEF From
  <2>4. CASE s[i] \in S
    <3>1. f[i] = Append(f[i - 1], s[i])
      BY <1>2, <2>4
    <3>2. f[i] \in Seq(X) /\ Range(f[i]) = Range(f[i - 1]) \cup {s[i]}
      BY <2>1, <2>3, <3>1, AppendFacts
    <3>3. QED
      BY <2>1, <2>2, <2>4, <3>2
  <2>5. CASE s[i] \notin S
    BY <1>2, <2>1, <2>2, <2>5
  <2>6. QED
    BY <2>4, <2>5
<1>5. Ok(Len(s))
  <2>1. \A i \in 0..Len(s) : i \in T
    <3>. HIDE DEF T
    <3>1. QED
      BY <1>1, <1>3, <1>4, Induction
  <2>. HIDE DEF Ok
  <2>2. QED
    BY <1>1, <2>1
<1>6. From(Len(s)) = Range(s)
  BY <1>1 DEF Range
<1>7. QED
  BY <1>2, <1>5, <1>6

\* Rows in the order in which they were set.
InOrder(s) == \A i, j \in DOMAIN s : i < j => s[i].at < s[j].at

LEMMA AppendInOrder ==
    ASSUME NEW s \in Seq(Row), InOrder(s), NEW r \in Row, \A q \in Range(s) : q.at < r.at
    PROVE  InOrder(Append(s, r))
<1>1. /\ DOMAIN Append(s, r) = 1..Len(s) + 1 /\ DOMAIN s = 1..Len(s) /\ Len(s) \in Nat
      /\ Append(s, r)[Len(s) + 1] = r
      /\ \A i \in 1..Len(s) : Append(s, r)[i] = s[i]
  OBVIOUS
<1>2. \A i \in 1..Len(s) : s[i] \in Range(s)
  BY <1>1 DEF Range
<1>. DEFINE t == Append(s, r)
<1>. HIDE DEF t
<1>3. QED
  BY <1>1, <1>2 DEF InOrder, t

LEMMA SubsequenceInOrder ==
    ASSUME NEW s \in Seq(Row), InOrder(s), NEW S
    PROVE  InOrder(Subsequence(s, S))
<1>1. Len(s) \in Nat /\ DOMAIN s = 1..Len(s) /\ \A i \in 1..Len(s) : s[i] \in Row
  OBVIOUS
<1>2. PICK f : /\ f[0] = << >>
               /\ \A i \in 1..Len(s) :
                    f[i] = IF s[i] \in S THEN Append(f[i - 1], s[i]) ELSE f[i - 1]
               /\ Subsequence(s, S) = f[Len(s)]
  BY <1>1, SubsequenceLoop
<1>. DEFINE Ok(i) == /\ f[i] \in Seq(Row) /\ InOrder(f[i])
                     /\ \A r \in Range(f[i]) : \E j \in 1..i : r = s[j]
            T == {i \in 0..Len(s) : Ok(i)}
<1>3. 0 \in T
  <2>1. f[0] \in Seq(Row) /\ Range(f[0]) = {} /\ InOrder(f[0])
    BY <1>2 DEF Range, InOrder
  <2>2. QED
    BY <1>1, <2>1
<1>4. ASSUME NEW i \in 1..Len(s), i - 1 \in T PROVE i \in T
  <2>1. /\ f[i - 1] \in Seq(Row) /\ InOrder(f[i - 1])
        /\ \A r \in Range(f[i - 1]) : \E j \in 1..i - 1 : r = s[j]
    BY <1>4
  <2>2. CASE s[i] \in S
    <3>1. f[i] = Append(f[i - 1], s[i])
      BY <1>2, <2>2
    <3>2. f[i] \in Seq(Row) /\ Range(f[i]) = Range(f[i - 1]) \cup {s[i]}
      BY <1>1, <2>1, <3>1, AppendFacts
    <3>3. \A r \in Range(f[i]) : \E j \in 1..i : r = s[j]
      BY <2>1, <3>2
    <3>4. \A r \in Range(f[i - 1]) : r.at < s[i].at
      BY <1>1, <2>1 DEF InOrder
    <3>5. InOrder(f[i])
      BY <1>1, <2>1, <3>1, <3>4, AppendInOrder
    <3>6. QED
      BY <3>2, <3>3, <3>5
  <2>3. CASE s[i] \notin S
    BY <1>2, <2>1, <2>3
  <2>4. QED
    BY <2>2, <2>3
<1>5. Ok(Len(s))
  <2>1. \A i \in 0..Len(s) : i \in T
    <3>. HIDE DEF T
    <3>1. QED
      BY <1>1, <1>3, <1>4, Induction
  <2>. HIDE DEF Ok
  <2>2. QED
    BY <1>1, <2>1
<1>6. QED
  BY <1>2, <1>5

-----------------------------------------------------------------------------
(* The join of parameters to datasets *)

LEMMA ParentsFacts ==
    ASSUME NEW E, WellFormed(E)
    PROVE  /\ Parents(E) \in Seq(Range(E.data))
           /\ Range(Parents(E)) = {d \in Range(E.data) : d.parent = None}
<1>1. E.data \in Seq(Range(E.data))
  BY DEF WellFormed
<1>2. QED
  BY <1>1, SubsequenceFacts DEF Parents

\* A set of numbers is mapped into itself in its order by the identity alone.
LEMMA IncreasingIsIdentity ==
    ASSUME NEW N \in Nat, NEW K \in SUBSET (1..N), NEW f \in [K -> K],
           \A i, j \in K : i < j => f[i] < f[j]
    PROVE  \A i \in K : f[i] = i
<1>1. \A i \in K : i \in 1..N /\ f[i] \in K /\ f[i] \in 1..N
  OBVIOUS
<1>2. \A i \in K : ~ (f[i] < i)
  <2>. DEFINE Low == {i \in K : f[i] < i}
  <2>1. SUFFICES ASSUME Low # {} PROVE FALSE
    OBVIOUS
  <2>2. Low \in SUBSET Nat
    <3>1. \A i \in Low : i \in Nat
      BY <1>1
    <3>2. QED
      BY <3>1
  <2>3. PICK i \in Low : \A j \in Low : i <= j
    BY <2>1, <2>2, LeastNumber
  <2>4. f[i] \in K /\ f[i] < i /\ f[f[i]] < f[i]
    BY <1>1, <2>3
  <2>5. i <= f[i]
    BY <2>3, <2>4
  <2>6. QED
    BY <1>1, <2>3, <2>4, <2>5
<1>3. \A i \in K : ~ (i < f[i])
  <2>. DEFINE High == {i \in K : i < f[i]}
              Left == {N - i : i \in High}
  <2>1. SUFFICES ASSUME High # {} PROVE FALSE
    OBVIOUS
  <2>2. Left \in SUBSET Nat /\ Left # {}
    <3>1. \A i \in High : N - i \in Nat
      BY <1>1
    <3>2. QED
      BY <2>1, <3>1
  <2>3. PICK m \in Left : \A n \in Left : m <= n
    BY <2>2, LeastNumber
  <2>4. PICK i \in High : m = N - i
    BY <2>3
  <2>5. f[i] \in K /\ i < f[i] /\ f[i] < f[f[i]]
    BY <1>1, <2>4
  <2>6. N - i <= N - f[i]
    BY <2>3, <2>4, <2>5
  <2>7. QED
    BY <1>1, <2>4, <2>5, <2>6
<1>4. QED
  BY <1>1, <1>2, <1>3

\* Identifiers hold the join on one side, the order on the other: the dataset
\* in the place of a block is the dataset of that block.
LEMMA JoinIsByBlock ==
    ASSUME NEW E, WellFormed(E), Joinable(E)
    PROVE  \A i \in DOMAIN E.blocks : Parents(E)[i].from = i
<1>. DEFINE N == Len(E.blocks)
            par == Parents(E)
            id(i) == E.blocks[i].id
            K == {i \in 1..N : id(i) = None}
            from(i) == par[i].from
<1>1. /\ N \in Nat /\ DOMAIN E.blocks = 1..N
      /\ Len(par) = N /\ DOMAIN par = 1..N
      /\ \A i \in 1..N : par[i] \in Range(E.data) /\ par[i].parent = None
  <2>1. E.blocks \in Seq(Range(E.blocks)) /\ Len(par) = N
    BY DEF WellFormed, Joinable
  <2>2. N \in Nat /\ DOMAIN E.blocks = 1..N
    BY <2>1
  <2>3. DOMAIN par = 1..N
    BY <2>1, ParentsFacts
  <2>4. \A i \in DOMAIN par : par[i] \in Range(par)
    BY DEF Range
  <2>. HIDE DEF par, N
  <2>5. QED
    BY <2>1, <2>2, <2>3, <2>4, ParentsFacts DEF par
<1>2. ASSUME NEW i \in 1..N
      PROVE  /\ from(i) \in 1..N
             /\ Paired(E.blocks[from(i)], par[i])
             /\ Paired(E.blocks[i], par[i])
  <2>1. par[i] \in Range(E.data) /\ par[i].parent = None
    BY <1>1
  <2>2. Paired(E.blocks[i], par[i])
    BY <1>1 DEF Joinable
  <2>. HIDE DEF par
  <2>3. QED
    BY <1>1, <2>1, <2>2 DEF WellFormed
<1>3. /\ \A i \in 1..N : id(i) \notin Synthetic
      /\ \A i, j \in 1..N : id(i) = id(j) => i = j \/ id(i) = None
  <2>1. \A i \in 1..N : E.blocks[i] \in Range(E.blocks)
    BY <1>1 DEF Range
  <2>2. QED
    BY <1>1, <2>1 DEF WellFormed
<1>4. \A i, j \in 1..N : i < j /\ {par[i].code, par[j].code} \subseteq Synthetic => from(i) < from(j)
  BY <1>1 DEF WellFormed
<1>. HIDE DEF par, N
<1>5. ASSUME NEW i \in 1..N, id(i) # None PROVE from(i) = i
  BY <1>2, <1>3, <1>5 DEF Paired
<1>6. ASSUME NEW i \in K PROVE from(i) \in K /\ par[i].code \in Synthetic
  BY <1>2, <1>3 DEF Paired
<1>7. ASSUME NEW i \in K, NEW j \in K, i < j PROVE from(i) < from(j)
  BY <1>4, <1>6, <1>7
<1>8. \A i \in K : from(i) = i
  <2>. DEFINE f == [i \in K |-> from(i)]
  <2>1. f \in [K -> K] /\ \A i, j \in K : i < j => f[i] < f[j]
    <3>. HIDE DEF K, from
    <3>1. QED
      BY <1>6, <1>7
  <2>2. N \in Nat /\ K \in SUBSET (1..N)
    BY <1>1
  <2>. HIDE DEF K, from
  <2>3. \A i \in K : f[i] = i
    <3>. HIDE DEF f
    <3>1. QED
      BY <2>1, <2>2, IncreasingIsIdentity
  <2>4. QED
    BY <2>3
<1>9. QED
  BY <1>1, <1>5, <1>8 DEF par

\* The parameter row of a dataset.
RowOf(E, d) == [code |-> d.code, block |-> E.blocks[d.from], parent |-> d.parent]

LEMMA RowsFacts ==
    ASSUME NEW E, WellFormed(E), Joinable(E)
    PROVE  Rows(E) = {RowOf(E, d) : d \in Range(E.data)}
<1>. DEFINE par == Parents(E)
<1>1. /\ \A i \in DOMAIN E.blocks : /\ par[i] \in Range(E.data)
                                    /\ par[i].parent = None /\ par[i].from = i
      /\ \A d \in Range(E.data) : d.parent = None => \E i \in DOMAIN E.blocks : d = par[i]
  <2>1. DOMAIN par = DOMAIN E.blocks
    <3>1. E.blocks \in Seq(Range(E.blocks)) /\ Len(par) = Len(E.blocks)
      BY DEF WellFormed, Joinable
    <3>2. QED
      BY <3>1, ParentsFacts
  <2>2. \A i \in DOMAIN par : par[i] \in Range(par)
    BY DEF Range
  <2>3. \A d \in Range(par) : \E i \in DOMAIN par : d = par[i]
    BY DEF Range
  <2>. HIDE DEF par
  <2>4. QED
    BY <2>1, <2>2, <2>3, ParentsFacts, JoinIsByBlock DEF par
<1>2. \A d \in Range(E.data) :
        /\ d.parent # None => \E p \in Range(E.data) :
             p.parent = None /\ p.code = d.parent /\ p.from = d.from
        /\ \A e \in Range(E.data) : e.code = d.code => e.from = d.from /\ e.parent = d.parent
  BY DEF WellFormed
<1>3. \A i \in DOMAIN E.blocks : par[i].code # None
  BY <1>1, ConstantsAssumption DEF WellFormed
<1>4. \A p : p \in Rows(E) <=> \E i \in DOMAIN E.blocks :
        \/ p = [code |-> par[i].code, block |-> E.blocks[i], parent |-> None]
        \/ \E d \in Range(E.data) :
             /\ d.parent = par[i].code
             /\ p = [code |-> d.code, block |-> E.blocks[i], parent |-> par[i].code]
  BY DEF Rows, ChildrenOf
<1>. HIDE DEF par
<1>5. ASSUME NEW p \in Rows(E) PROVE \E d \in Range(E.data) : p = RowOf(E, d)
  <2>1. PICK i \in DOMAIN E.blocks :
          \/ p = [code |-> par[i].code, block |-> E.blocks[i], parent |-> None]
          \/ \E d \in Range(E.data) :
               /\ d.parent = par[i].code
               /\ p = [code |-> d.code, block |-> E.blocks[i], parent |-> par[i].code]
    BY <1>4
  <2>2. CASE p = [code |-> par[i].code, block |-> E.blocks[i], parent |-> None]
    BY <1>1, <2>2 DEF RowOf
  <2>3. CASE \E d \in Range(E.data) :
               /\ d.parent = par[i].code
               /\ p = [code |-> d.code, block |-> E.blocks[i], parent |-> par[i].code]
    <3>1. PICK d \in Range(E.data) :
            /\ d.parent = par[i].code
            /\ p = [code |-> d.code, block |-> E.blocks[i], parent |-> par[i].code]
      BY <2>3
    <3>2. d.from = i
      <4>1. PICK q \in Range(E.data) : q.parent = None /\ q.code = d.parent /\ q.from = d.from
        BY <1>2, <1>3, <3>1
      <4>2. q.from = par[i].from
        BY <1>1, <1>2, <3>1, <4>1
      <4>3. QED
        BY <1>1, <4>1, <4>2
    <3>3. QED
      BY <3>1, <3>2 DEF RowOf
  <2>4. QED
    BY <2>1, <2>2, <2>3
<1>6. ASSUME NEW d \in Range(E.data) PROVE RowOf(E, d) \in Rows(E)
  <2>1. CASE d.parent = None
    <3>1. PICK i \in DOMAIN E.blocks : d = par[i]
      BY <1>1, <2>1
    <3>2. RowOf(E, d) = [code |-> par[i].code, block |-> E.blocks[i], parent |-> None]
      BY <1>1, <3>1 DEF RowOf
    <3>3. QED
      BY <1>4, <3>2
  <2>2. CASE d.parent # None
    <3>1. PICK q \in Range(E.data) : q.parent = None /\ q.code = d.parent /\ q.from = d.from
      BY <1>2, <2>2
    <3>2. PICK i \in DOMAIN E.blocks : q = par[i]
      BY <1>1, <3>1
    <3>3. RowOf(E, d) = [code |-> d.code, block |-> E.blocks[i], parent |-> par[i].code]
      BY <1>1, <3>1, <3>2 DEF RowOf
    <3>4. QED
      BY <1>4, <3>1, <3>2, <3>3
  <2>3. QED
    BY <2>1, <2>2
<1>7. QED
  BY <1>5, <1>6

\* What the join makes of a dataset: its own block, the parameters of that
\* block, and its parent.
LEMMA JoinFacts ==
    ASSUME NEW E, WellFormed(E), Joinable(E), NEW d \in Range(E.data)
    PROVE  /\ BlockOf(Rows(E), d.code) = E.blocks[d.from]
           /\ \A n : d.code \in Defining(Rows(E), n) <=> n \in DOMAIN E.blocks[d.from].given
           /\ \A c : d.code \in MultifunctionalChildren(Rows(E), c) <=> d.parent = c
<1>1. RowOf(E, d) \in Rows(E) /\ RowOf(E, d).code = d.code
  BY RowsFacts DEF RowOf
<1>2. ASSUME NEW p \in Rows(E), p.code = d.code
      PROVE  p.block = E.blocks[d.from] /\ p.parent = d.parent
  <2>1. PICK e \in Range(E.data) : p = RowOf(E, e)
    BY RowsFacts
  <2>2. e.code = d.code
    BY <1>2, <2>1 DEF RowOf
  <2>3. e.from = d.from /\ e.parent = d.parent
    BY <2>2 DEF WellFormed
  <2>4. QED
    BY <2>1, <2>3 DEF RowOf
<1>3. BlockOf(Rows(E), d.code) = E.blocks[d.from]
  BY <1>1, <1>2 DEF BlockOf
<1>4. \A n : d.code \in Defining(Rows(E), n) <=>
               \E p \in Rows(E) : n \in DOMAIN p.block.given /\ p.code = d.code
  BY DEF Defining
<1>5. \A c : d.code \in MultifunctionalChildren(Rows(E), c) <=>
               \E p \in Rows(E) : p.parent = c /\ p.code = d.code
  BY DEF MultifunctionalChildren
<1>6. QED
  BY <1>1, <1>2, <1>3, <1>4, <1>5

-----------------------------------------------------------------------------
(* The plan *)

\* A file as the commands leave it: one row a name and scope, in the order
\* in which they were set, and each applies.
GoodFile(P, rs) ==
    /\ rs \in Seq(Row) /\ InOrder(rs)
    /\ \A r \in Range(rs) : Applicable(P, r)

Writes(P, tier, r, c, n) == c \in Codes(P, tier, r) /\ n = Norm[r.name]

\* The value after a tier is that of the last row that writes it, or the one
\* from before.
Settles(P, rs, tier, c, n, before, after) ==
    \/ /\ \A i \in DOMAIN rs : ~Writes(P, tier, rs[i], c, n)
       /\ after = before
    \/ \E i \in DOMAIN rs :
         /\ Writes(P, tier, rs[i], c, n)
         /\ \A j \in DOMAIN rs : Writes(P, tier, rs[j], c, n) => j <= i
         /\ after = rs[i].value

LEMMA OverlayFacts ==
    ASSUME NEW P, NEW rs \in Seq(Row), NEW plan, NEW tier,
           NEW c \in Process, NEW n \in Input
    PROVE  Settles(P, rs, tier, c, n, plan[c][n], Overlay(P, plan, tier, rs)[c][n])
<1>1. Len(rs) \in Nat /\ DOMAIN rs = 1..Len(rs)
  OBVIOUS
<1>2. PICK f : /\ f[0] = plan
               /\ \A i \in 1..Len(rs) : f[i] = Written(P, f[i - 1], tier, rs[i])
               /\ Overlay(P, plan, tier, rs) = f[Len(rs)]
  <2>1. PICK o : o = Overlay(P, plan, tier, rs)
    OBVIOUS
  <2>2. QED
    BY <1>1, <2>1, OverlayLoop
<1>. DEFINE W(i) == Writes(P, tier, rs[i], c, n)
            v(k) == f[k][c][n]
            Ok(k) == \/ /\ \A i \in 1..k : ~W(i)
                        /\ v(k) = plan[c][n]
                     \/ \E i \in 1..k : /\ W(i)
                                        /\ \A j \in 1..k : W(j) => j <= i
                                        /\ v(k) = rs[i].value
            T == {k \in 0..Len(rs) : Ok(k)}
<1>3. ASSUME NEW k \in 1..Len(rs) PROVE v(k) = IF W(k) THEN rs[k].value ELSE v(k - 1)
  <2>1. f[k] = Written(P, f[k - 1], tier, rs[k])
    BY <1>2
  <2>2. QED
    BY <2>1 DEF Written, Writes
<1>4. v(0) = plan[c][n]
  BY <1>2
<1>. HIDE DEF v, W
<1>5. 0 \in T
  BY <1>1, <1>4
<1>6. ASSUME NEW k \in 1..Len(rs), k - 1 \in T PROVE k \in T
  <2>1. CASE W(k)
    BY <1>1, <1>3, <2>1
  <2>2. CASE ~W(k)
    <3>1. v(k) = v(k - 1)
      BY <1>3, <2>2
    <3>2. CASE /\ \A i \in 1..k - 1 : ~W(i)
               /\ v(k - 1) = plan[c][n]
      BY <1>1, <2>2, <3>1, <3>2
    <3>3. CASE \E i \in 1..k - 1 : /\ W(i)
                                   /\ \A j \in 1..k - 1 : W(j) => j <= i
                                   /\ v(k - 1) = rs[i].value
      BY <1>1, <2>2, <3>1, <3>3
    <3>4. QED
      BY <1>6, <3>2, <3>3
  <2>3. QED
    BY <2>1, <2>2
<1>7. Ok(Len(rs))
  <2>1. \A i \in 0..Len(rs) : i \in T
    <3>. HIDE DEF T
    <3>1. QED
      BY <1>1, <1>5, <1>6, Induction
  <2>. HIDE DEF Ok
  <2>2. QED
    BY <1>1, <2>1
<1>8. QED
  BY <1>1, <1>2, <1>7 DEF v, W, Settles

\* The rows that want parameter n of a process, and which of them prevails.
Writers(P, rs, c, n) == {r \in Range(rs) : n = Norm[r.name] /\ c \in Targets(P, r)}
TierOf(P, c, r) == IF c \in Codes(P, 2, r) THEN 2 ELSE IF c \in Codes(P, 1, r) THEN 1 ELSE 0
Prevails(P, c, r, q) == \/ TierOf(P, c, r) > TierOf(P, c, q)
                        \/ TierOf(P, c, r) = TierOf(P, c, q) /\ r.at > q.at

LEMMA TargetsFacts ==
    ASSUME NEW P, NEW r, NEW c
    PROVE  c \in Targets(P, r) <=>
             c \in Codes(P, 0, r) \/ c \in Codes(P, 1, r) \/ c \in Codes(P, 2, r)
<1>1. \A t : t \in 0..2 <=> t = 0 \/ t = 1 \/ t = 2
  OBVIOUS
<1>2. c \in Targets(P, r) <=> \E t \in 0..2 : c \in Codes(P, t, r)
  BY DEF Targets
<1>3. QED
  BY <1>1, <1>2

\* Whatever the order of the file, the plan is what the most specific and then
\* the latest of the rows says.
LEMMA PlanFacts ==
    ASSUME NEW P, NEW rs \in Seq(Row), InOrder(rs), NEW c \in Process, NEW n \in Input
    PROVE  \/ Writers(P, rs, c, n) = {} /\ Plan(P, rs)[c][n] = None
           \/ \E r \in Writers(P, rs, c, n) :
                /\ Plan(P, rs)[c][n] = r.value
                /\ \A q \in Writers(P, rs, c, n) \ {r} : Prevails(P, c, r, q)
<1>. DEFINE W(t, i) == Writes(P, t, rs[i], c, n)
            v(o) == o[c][n]
            last(t, i) == W(t, i) /\ \A j \in DOMAIN rs : W(t, j) => j <= i
            none(t) == \A i \in DOMAIN rs : ~W(t, i)
<1>1. PICK o0 : o0 = Overlay(P, Blank, 0, rs)
  OBVIOUS
<1>2. PICK o1 : o1 = Overlay(P, o0, 1, rs)
  OBVIOUS
<1>3. PICK o2 : o2 = Overlay(P, o1, 2, rs)
  OBVIOUS
<1>4. v(Plan(P, rs)) = v(o2) /\ v(Blank) = None
  BY <1>1, <1>2, <1>3 DEF Plan, Blank, Unset
<1>5. /\ \/ none(0) /\ v(o0) = None
         \/ \E i \in DOMAIN rs : last(0, i) /\ v(o0) = rs[i].value
      /\ \/ none(1) /\ v(o1) = v(o0)
         \/ \E i \in DOMAIN rs : last(1, i) /\ v(o1) = rs[i].value
      /\ \/ none(2) /\ v(o2) = v(o1)
         \/ \E i \in DOMAIN rs : last(2, i) /\ v(o2) = rs[i].value
  <2>1. \/ none(0) /\ v(o0) = v(Blank)
        \/ \E i \in DOMAIN rs : last(0, i) /\ v(o0) = rs[i].value
    <3>1. Settles(P, rs, 0, c, n, Blank[c][n], Overlay(P, Blank, 0, rs)[c][n])
      BY OverlayFacts
    <3>2. QED
      BY <1>1, <3>1 DEF Settles
  <2>2. \/ none(1) /\ v(o1) = v(o0)
        \/ \E i \in DOMAIN rs : last(1, i) /\ v(o1) = rs[i].value
    <3>1. Settles(P, rs, 1, c, n, o0[c][n], Overlay(P, o0, 1, rs)[c][n])
      BY OverlayFacts
    <3>2. QED
      BY <1>2, <3>1 DEF Settles
  <2>3. \/ none(2) /\ v(o2) = v(o1)
        \/ \E i \in DOMAIN rs : last(2, i) /\ v(o2) = rs[i].value
    <3>1. Settles(P, rs, 2, c, n, o1[c][n], Overlay(P, o1, 2, rs)[c][n])
      BY OverlayFacts
    <3>2. QED
      BY <1>3, <3>1 DEF Settles
  <2>4. QED
    BY <1>4, <2>1, <2>2, <2>3
<1>6. /\ DOMAIN rs = 1..Len(rs) /\ Len(rs) \in Nat
      /\ \A i \in DOMAIN rs : rs[i] \in Range(rs) /\ rs[i].at \in Int
      /\ \A r \in Range(rs) : \E i \in DOMAIN rs : r = rs[i]
  <2>1. \A i \in DOMAIN rs : rs[i] \in Row
    OBVIOUS
  <2>2. QED
    BY <2>1 DEF Range, Row
<1>7. /\ \A i \in DOMAIN rs : rs[i] \in Writers(P, rs, c, n) <=> W(0, i) \/ W(1, i) \/ W(2, i)
      /\ \A i \in DOMAIN rs : W(2, i) => TierOf(P, c, rs[i]) = 2
      /\ \A i \in DOMAIN rs : W(1, i) /\ ~W(2, i) => TierOf(P, c, rs[i]) = 1
      /\ \A i \in DOMAIN rs : W(0, i) /\ ~W(1, i) /\ ~W(2, i) => TierOf(P, c, rs[i]) = 0
  BY <1>6, TargetsFacts DEF Writers, Writes, TierOf
<1>. HIDE DEF v, W
<1>8. \A i, j \in DOMAIN rs : i <= j => rs[i] = rs[j] \/ rs[j].at > rs[i].at
  BY <1>6 DEF InOrder
<1>9. ASSUME NEW i \in DOMAIN rs, rs[i] \in Writers(P, rs, c, n), v(o2) = rs[i].value,
             \A j \in DOMAIN rs : rs[j] \in Writers(P, rs, c, n) =>
               \/ TierOf(P, c, rs[i]) > TierOf(P, c, rs[j])
               \/ TierOf(P, c, rs[i]) = TierOf(P, c, rs[j]) /\ j <= i
      PROVE  \E r \in Writers(P, rs, c, n) :
                /\ v(o2) = r.value
                /\ \A q \in Writers(P, rs, c, n) \ {r} : Prevails(P, c, r, q)
  <2>1. ASSUME NEW q \in Writers(P, rs, c, n), q # rs[i] PROVE Prevails(P, c, rs[i], q)
    <3>1. PICK j \in DOMAIN rs : q = rs[j]
      BY <1>6 DEF Writers
    <3>2. QED
      BY <1>6, <1>8, <1>9, <2>1, <3>1 DEF Prevails
  <2>2. QED
    BY <1>9, <2>1
<1>10. CASE \E i \in DOMAIN rs : last(2, i) /\ v(o2) = rs[i].value
  <2>1. PICK i \in DOMAIN rs : last(2, i) /\ v(o2) = rs[i].value
    BY <1>10
  <2>2. ASSUME NEW j \in DOMAIN rs, rs[j] \in Writers(P, rs, c, n)
        PROVE  \/ TierOf(P, c, rs[i]) > TierOf(P, c, rs[j])
               \/ TierOf(P, c, rs[i]) = TierOf(P, c, rs[j]) /\ j <= i
    BY <1>7, <2>1, <2>2
  <2>3. QED
    BY <1>4, <1>7, <1>9, <2>1, <2>2 DEF v
<1>11. CASE /\ none(2) /\ v(o2) = v(o1)
            /\ \E i \in DOMAIN rs : last(1, i) /\ v(o1) = rs[i].value
  <2>1. PICK i \in DOMAIN rs : last(1, i) /\ v(o1) = rs[i].value
    BY <1>11
  <2>2. ASSUME NEW j \in DOMAIN rs, rs[j] \in Writers(P, rs, c, n)
        PROVE  \/ TierOf(P, c, rs[i]) > TierOf(P, c, rs[j])
               \/ TierOf(P, c, rs[i]) = TierOf(P, c, rs[j]) /\ j <= i
    BY <1>7, <1>11, <2>1, <2>2
  <2>3. QED
    BY <1>4, <1>7, <1>9, <1>11, <2>1, <2>2 DEF v
<1>12. CASE /\ none(2) /\ v(o2) = v(o1) /\ none(1) /\ v(o1) = v(o0)
            /\ \E i \in DOMAIN rs : last(0, i) /\ v(o0) = rs[i].value
  <2>1. PICK i \in DOMAIN rs : last(0, i) /\ v(o0) = rs[i].value
    BY <1>12
  <2>2. ASSUME NEW j \in DOMAIN rs, rs[j] \in Writers(P, rs, c, n)
        PROVE  \/ TierOf(P, c, rs[i]) > TierOf(P, c, rs[j])
               \/ TierOf(P, c, rs[i]) = TierOf(P, c, rs[j]) /\ j <= i
    BY <1>7, <1>12, <2>1, <2>2
  <2>3. QED
    BY <1>4, <1>7, <1>9, <1>12, <2>1, <2>2 DEF v
<1>13. CASE none(2) /\ none(1) /\ none(0) /\ v(o2) = None
  <2>1. Writers(P, rs, c, n) = {}
    <3>1. SUFFICES ASSUME NEW r \in Writers(P, rs, c, n) PROVE FALSE
      OBVIOUS
    <3>2. PICK i \in DOMAIN rs : r = rs[i]
      BY <1>6 DEF Writers
    <3>3. QED
      BY <1>7, <1>13, <3>1, <3>2
  <2>2. QED
    BY <1>4, <1>13, <2>1 DEF v
<1>14. QED
  BY <1>5, <1>10, <1>11, <1>12, <1>13

Shaped(plan) == \A c \in Process : plan[c] = [n \in Input |-> plan[c][n]]

LEMMA OverlayShape ==
    ASSUME NEW P, NEW rs \in Seq(Row), NEW tier, NEW plan, Shaped(plan)
    PROVE  Shaped(Overlay(P, plan, tier, rs))
<1>1. Len(rs) \in Nat
  OBVIOUS
<1>2. PICK f : /\ f[0] = plan
               /\ \A i \in 1..Len(rs) : f[i] = Written(P, f[i - 1], tier, rs[i])
               /\ Overlay(P, plan, tier, rs) = f[Len(rs)]
  <2>1. PICK o : o = Overlay(P, plan, tier, rs)
    OBVIOUS
  <2>2. QED
    BY <1>1, <2>1, OverlayLoop
<1>3. CASE Len(rs) = 0
  BY <1>2, <1>3
<1>4. CASE Len(rs) # 0
  <2>1. f[Len(rs)] = Written(P, f[Len(rs) - 1], tier, rs[Len(rs)])
    BY <1>1, <1>2, <1>4
  <2>2. QED
    BY <1>2, <2>1 DEF Written, Shaped
<1>5. QED
  BY <1>3, <1>4

LEMMA PlanShape == ASSUME NEW P, NEW rs \in Seq(Row) PROVE Shaped(Plan(P, rs))
<1>1. Shaped(Blank)
  BY DEF Shaped, Blank, Unset
<1>2. QED
  BY <1>1, OverlayShape DEF Plan

\* Two plans that agree on a process are one there.
LEMMA SamePlan ==
    ASSUME NEW p, NEW q, Shaped(p), Shaped(q), NEW c \in Process, NEW e \in Process,
           \A n \in Input : p[c][n] = q[e][n]
    PROVE  p[c] = q[e]
<1>1. p[c] = [n \in Input |-> p[c][n]] /\ q[e] = [n \in Input |-> q[e][n]]
  BY DEF Shaped
<1>2. [n \in Input |-> p[c][n]] = [n \in Input |-> q[e][n]]
  OBVIOUS
<1>3. QED
  BY <1>1, <1>2

LEMMA ParentFacts ==
    ASSUME NEW E, WellFormed(E), NEW d \in Range(E.data)
    PROVE  /\ d.code \in Process /\ d.parent \in Process \cup {None}
           /\ d.code # d.parent
<1>1. /\ d.code \in Process
      /\ d.parent # None => \E p \in Range(E.data) :
           p.parent = None /\ p.code = d.parent /\ p.from = d.from
      /\ \A e \in Range(E.data) : /\ e.code \in Process
                                  /\ e.code = d.code => e.parent = d.parent
  BY DEF WellFormed
<1>2. QED
  BY <1>1, ConstantsAssumption

\* The plan of a dataset is what is asked for.
LEMMA PlanIsAsked ==
    ASSUME NEW E, WellFormed(E), Joinable(E), NEW rs, GoodFile(Rows(E), rs),
           NEW d \in Range(E.data)
    PROVE  Plan(Rows(E), rs)[d.code] = Asked(E, d, rs)
<1>. DEFINE P == Rows(E)
            given == DOMAIN E.blocks[d.from].given
            for(n) == {r \in Range(rs) : Norm[r.name] = n /\ r.scope \in {Global, d.code, d.parent}}
<1>1. /\ d.code \in Process /\ d.parent \in Process \cup {None} /\ d.code # d.parent
      /\ d.code # Global /\ d.parent # Global /\ Global # None
  BY ParentFacts, ConstantsAssumption
<1>2. /\ \A n : d.code \in Defining(P, n) <=> n \in given
      /\ \A c : d.code \in MultifunctionalChildren(P, c) <=> d.parent = c
  BY JoinFacts
<1>. HIDE DEF P, given
<1>3. rs \in Seq(Row) /\ InOrder(rs) /\ \A r \in Range(rs) : r \in Row /\ Applicable(P, r)
  BY DEF GoodFile, P, Range
<1>4. ASSUME NEW r \in Range(rs)
      PROVE  /\ d.code \in Codes(P, 0, r) <=> r.scope = Global /\ Norm[r.name] \in given
             /\ d.code \in Codes(P, 1, r) <=> r.scope = d.parent /\ Norm[r.name] \in given
             /\ d.code \in Codes(P, 2, r) <=> r.scope = d.code
  <2>1. r.scope \in Process \cup {Global}
    BY <1>3 DEF Row, Scope
  <2>2. None \notin Process
    BY ConstantsAssumption
  <2>3. QED
    BY <1>1, <1>2, <2>1, <2>2 DEF Codes
<1>5. ASSUME NEW r \in Range(rs), r.scope = d.code PROVE Norm[r.name] \in given
  BY <1>1, <1>2, <1>3, <1>5 DEF Applicable
<1>6. ASSUME NEW n PROVE Writers(P, rs, d.code, n) = IF n \in given THEN for(n) ELSE {}
  BY <1>4, <1>5, TargetsFacts DEF Writers
<1>7. ASSUME NEW n, NEW r \in Writers(P, rs, d.code, n)
      PROVE  TierOf(P, d.code, r) = Specificity(d, r)
  <2>1. r \in Range(rs) /\ n = Norm[r.name] /\ n \in given
    BY <1>6, <1>7 DEF Writers
  <2>2. QED
    BY <1>1, <1>4, <2>1 DEF TierOf, Specificity
<1>8. ASSUME NEW n \in Input PROVE Plan(P, rs)[d.code][n] = Asked(E, d, rs)[n]
  <2>. DEFINE W == Writers(P, rs, d.code, n)
              Best(r) == \A q \in for(n) \ {r} : Beats(d, r, q)
  <2>1. Asked(E, d, rs)[n] = IF for(n) = {} \/ n \notin given THEN None
                             ELSE (CHOOSE r \in for(n) : Best(r)).value
    BY DEF Asked, given
  <2>2. CASE W = {} /\ Plan(P, rs)[d.code][n] = None
    BY <1>6, <2>1, <2>2
  <2>3. CASE \E r \in W : /\ Plan(P, rs)[d.code][n] = r.value
                          /\ \A q \in W \ {r} : Prevails(P, d.code, r, q)
    <3>1. PICK r \in W : /\ Plan(P, rs)[d.code][n] = r.value
                         /\ \A q \in W \ {r} : Prevails(P, d.code, r, q)
      BY <2>3
    <3>2. W = for(n) /\ n \in given
      BY <1>6, <3>1
    <3>3. Best(r)
      BY <1>7, <3>1, <3>2 DEF Prevails, Beats
    <3>4. ASSUME NEW q \in for(n), Best(q), q # r PROVE FALSE
      <4>1. Beats(d, r, q) /\ Beats(d, q, r)
        BY <3>1, <3>2, <3>3, <3>4
      <4>2. r.at \in Int /\ q.at \in Int
        BY <1>3, <3>1, <3>2, <3>4 DEF Row
      <4>3. Specificity(d, r) \in Int /\ Specificity(d, q) \in Int
        BY DEF Specificity
      <4>4. QED
        BY <4>1, <4>2, <4>3 DEF Beats
    <3>. HIDE DEF Best, for
    <3>5. (CHOOSE q \in for(n) : Best(q)) = r
      BY <3>1, <3>2, <3>3, <3>4
    <3>6. QED
      BY <2>1, <3>1, <3>2, <3>5
  <2>4. QED
    BY <1>1, <1>3, <2>2, <2>3, PlanFacts
<1>9. Plan(P, rs)[d.code] = [n \in Input |-> Plan(P, rs)[d.code][n]]
  BY <1>1, <1>3, PlanShape DEF Shaped
<1>10. Asked(E, d, rs) = [n \in Input |-> Asked(E, d, rs)[n]]
  BY DEF Asked
<1>11. QED
  BY <1>8, <1>9, <1>10 DEF P

-----------------------------------------------------------------------------
(* Evaluation *)

LEMMA SameNames ==
    ASSUME NEW f, NEW e, NEW g, DOMAIN e = DOMAIN g,
           \A n \in Refs[f] \cap DOMAIN e : e[n] = g[n]
    PROVE  Evaluate(f, e) = Evaluate(f, g)
<1>1. [n \in Refs[f] \cap DOMAIN e |-> e[n]] = [n \in Refs[f] \cap DOMAIN g |-> g[n]]
  OBVIOUS
<1>2. QED
  BY <1>1 DEF Evaluate

LEMMA GrownFacts ==
    ASSUME NEW b, NEW A, NEW B
    PROVE  /\ A \subseteq Grown(b, A)
           /\ \A k \in Range(b.calcs) : References(k.formula, A) => k.name \in Grown(b, A)
           /\ Grown(b, A \cup B) = Grown(b, A) \cup Grown(b, B)
           /\ Grown(b, {}) = {}
BY DEF Grown, References

\* Influence spreads from each name on its own.
LEMMA InfluencedFacts ==
    ASSUME NEW b, Len(b.calcs) \in Nat, NEW A, NEW B
    PROVE  /\ Influenced(b, A \cup B) = Influenced(b, A) \cup Influenced(b, B)
           /\ Influenced(b, {}) = {}
<1>. DEFINE L == Len(b.calcs)
<1>1. PICK f : /\ f[0] = A \cup B
               /\ \A i \in 1..L : f[i] = Grown(b, f[i - 1])
               /\ Influenced(b, A \cup B) = f[L]
  BY InfluencedLoop
<1>2. PICK g : /\ g[0] = A
               /\ \A i \in 1..L : g[i] = Grown(b, g[i - 1])
               /\ Influenced(b, A) = g[L]
  BY InfluencedLoop
<1>3. PICK h : /\ h[0] = B
               /\ \A i \in 1..L : h[i] = Grown(b, h[i - 1])
               /\ Influenced(b, B) = h[L]
  BY InfluencedLoop
<1>4. PICK e : /\ e[0] = {}
               /\ \A i \in 1..L : e[i] = Grown(b, e[i - 1])
               /\ Influenced(b, {}) = e[L]
  BY InfluencedLoop
<1>. DEFINE T == {i \in 0..L : f[i] = g[i] \cup h[i] /\ e[i] = {}}
<1>5. 0 \in T
  BY <1>1, <1>2, <1>3, <1>4
<1>6. ASSUME NEW i \in 1..L, i - 1 \in T PROVE i \in T
  <2>1. f[i] = Grown(b, g[i - 1] \cup h[i - 1]) /\ e[i] = Grown(b, {})
    BY <1>1, <1>4, <1>6
  <2>2. g[i] = Grown(b, g[i - 1]) /\ h[i] = Grown(b, h[i - 1])
    BY <1>2, <1>3
  <2>3. QED
    BY <2>1, <2>2, GrownFacts
<1>7. \A i \in 0..L : i \in T
  <2>. HIDE DEF T
  <2>1. QED
    BY <1>5, <1>6, Induction
<1>8. QED
  BY <1>1, <1>2, <1>3, <1>4, <1>7

\* Two settings of the inputs that differ on A only give every parameter that
\* A does not influence one value, through any chain of formulas.
LEMMA SameEnvironment ==
    ASSUME NEW b, Len(b.calcs) \in Nat, DOMAIN b.calcs = 1..Len(b.calcs),
           NEW over, NEW other, NEW A,
           \A n \in DOMAIN b.given : n \notin A => over[n] = other[n]
    PROVE  /\ DOMAIN Environment(b, over) = DOMAIN Environment(b, other)
           /\ \A n \in DOMAIN Environment(b, over) :
                n \notin Influenced(b, A) => Environment(b, over)[n] = Environment(b, other)[n]
<1>. DEFINE L == Len(b.calcs)
<1>1. PICK f : /\ f[0] = Given(b, over)
               /\ \A i \in 1..L : f[i] = WithCalculated(f[i - 1], b.calcs[i])
               /\ Environment(b, over) = f[L]
  BY EnvironmentLoop
<1>2. PICK g : /\ g[0] = Given(b, other)
               /\ \A i \in 1..L : g[i] = WithCalculated(g[i - 1], b.calcs[i])
               /\ Environment(b, other) = g[L]
  BY EnvironmentLoop
<1>3. PICK h : /\ h[0] = A
               /\ \A i \in 1..L : h[i] = Grown(b, h[i - 1])
               /\ Influenced(b, A) = h[L]
  BY InfluencedLoop
<1>. DEFINE Ok(i) == /\ DOMAIN f[i] = DOMAIN g[i]
                     /\ \A n \in DOMAIN f[i] : n \notin h[i] => f[i][n] = g[i][n]
            T == {i \in 0..L : Ok(i)}
<1>4. 0 \in T
  BY <1>1, <1>2, <1>3 DEF Given
<1>5. ASSUME NEW i \in 1..L, i - 1 \in T PROVE i \in T
  <2>. DEFINE k == b.calcs[i]
  <2>1. /\ f[i] = WithCalculated(f[i - 1], k)
        /\ g[i] = WithCalculated(g[i - 1], k)
        /\ h[i] = Grown(b, h[i - 1])
    BY <1>1, <1>2, <1>3
  <2>2. /\ DOMAIN f[i - 1] = DOMAIN g[i - 1]
        /\ \A n \in DOMAIN f[i - 1] : n \notin h[i - 1] => f[i - 1][n] = g[i - 1][n]
    BY <1>5
  <2>3. k \in Range(b.calcs)
    BY DEF Range
  <2>4. h[i - 1] \subseteq h[i] /\ (References(k.formula, h[i - 1]) => k.name \in h[i])
    BY <2>1, <2>3, GrownFacts
  <2>. HIDE DEF k
  <2>5. /\ DOMAIN f[i] = DOMAIN f[i - 1] \cup {k.name}
        /\ DOMAIN g[i] = DOMAIN g[i - 1] \cup {k.name}
        /\ \A n \in DOMAIN f[i] :
             f[i][n] = IF n = k.name THEN Evaluate(k.formula, f[i - 1]) ELSE f[i - 1][n]
        /\ \A n \in DOMAIN g[i] :
             g[i][n] = IF n = k.name THEN Evaluate(k.formula, g[i - 1]) ELSE g[i - 1][n]
    BY <2>1 DEF WithCalculated
  <2>6. ASSUME NEW n \in DOMAIN f[i], n \notin h[i] PROVE f[i][n] = g[i][n]
    <3>1. CASE n = k.name
      <4>1. ~References(k.formula, h[i - 1])
        BY <2>4, <2>6, <3>1
      <4>2. \A m \in Refs[k.formula] \cap DOMAIN f[i - 1] : f[i - 1][m] = g[i - 1][m]
        BY <2>2, <4>1 DEF References
      <4>3. Evaluate(k.formula, f[i - 1]) = Evaluate(k.formula, g[i - 1])
        BY <2>2, <4>2, SameNames
      <4>4. QED
        BY <2>2, <2>5, <2>6, <3>1, <4>3
    <3>2. CASE n # k.name
      BY <2>2, <2>4, <2>5, <2>6, <3>2
    <3>3. QED
      BY <3>1, <3>2
  <2>7. DOMAIN f[i] = DOMAIN g[i]
    BY <2>2, <2>5
  <2>8. QED
    BY <2>6, <2>7
<1>6. Ok(L)
  <2>1. \A i \in 0..L : i \in T
    <3>. HIDE DEF T
    <3>1. QED
      BY <1>4, <1>5, Induction
  <2>. HIDE DEF Ok
  <2>2. QED
    BY <2>1
<1>7. QED
  BY <1>1, <1>2, <1>3, <1>6

LEMMA SameResult ==
    ASSUME NEW b, Len(b.calcs) \in Nat, DOMAIN b.calcs = 1..Len(b.calcs),
           NEW over, NEW other, NEW A,
           \A n \in DOMAIN b.given : n \notin A => over[n] = other[n],
           NEW f, ~References(f, Influenced(b, A))
    PROVE  Evaluate(f, Environment(b, over)) = Evaluate(f, Environment(b, other))
<1>1. /\ DOMAIN Environment(b, over) = DOMAIN Environment(b, other)
      /\ \A n \in DOMAIN Environment(b, over) :
           n \notin Influenced(b, A) => Environment(b, over)[n] = Environment(b, other)[n]
  BY SameEnvironment
<1>2. \A n \in Refs[f] \cap DOMAIN Environment(b, over) :
        Environment(b, over)[n] = Environment(b, other)[n]
  BY <1>1 DEF References
<1>3. QED
  BY <1>1, <1>2, SameNames

-----------------------------------------------------------------------------
(* Amounts *)

LEMMA ExactQuotient ==
    ASSUME NEW k \in Int, NEW b \in Int, b # 0
    PROVE  Quotient(k * b, b) = k
<1>1. CASE b > 0
  <2>1. (k * b) \div b = k
    BY <1>1
  <2>2. QED
    BY <1>1, <2>1 DEF Quotient
<1>2. CASE ~(b > 0)
  <2>. DEFINE c == -b
  <2>1. c \in Int /\ c > 0 /\ -(k * b) = k * c
    BY <1>2
  <2>2. (k * c) \div c = k
    <3>. HIDE DEF c
    <3>1. QED
      BY <2>1
  <2>3. QED
    BY <1>2, <2>1, <2>2 DEF Quotient
<1>3. QED
  BY <1>1, <1>2

LEMMA BlockFacts ==
    ASSUME NEW E, WellFormed(E), NEW d \in Range(E.data)
    PROVE  LET b == E.blocks[d.from] IN
           /\ Len(b.calcs) \in Nat /\ DOMAIN b.calcs = 1..Len(b.calcs)
           /\ DOMAIN b.given \subseteq Input
<1>. DEFINE b == E.blocks[d.from]
<1>1. d.from \in DOMAIN E.blocks
  BY DEF WellFormed
<1>2. b \in Range(E.blocks)
  BY <1>1 DEF Range
<1>. HIDE DEF b
<1>3. b.calcs \in Seq([name : Calculated, formula : Formula]) /\ DOMAIN b.given \subseteq Input
  BY <1>2 DEF WellFormed
<1>4. QED
  BY <1>3 DEF b

\* An amount is the one asked for, or its exchange is reported.
LEMMA AmountFacts ==
    ASSUME NEW E, WellFormed(E), Joinable(E), NEW rs, GoodFile(Rows(E), rs),
           ~Raises(E, Rows(E), rs),
           NEW d \in Range(E.data), NEW x \in DOMAIN d.exchanges
    PROVE  LET P == Rows(E)
               plan == Plan(P, rs)
           IN  \/ NewAmount(E, P, d, x, plan) = Reference(E, d, x, rs)
               \/ /\ d.code \in Planned(plan) /\ x \in Uses(P, d, plan)
                  /\ Unpatchable(P, d, x)
                  /\ Evaluated(P, d, x, plan[d.code]) # 0
<1>. DEFINE P == Rows(E)
            plan == Plan(P, rs)
            b == E.blocks[d.from]
            fml == d.exchanges[x].formula
            k == d.exchanges[x].scale
            base == Evaluate(fml, Environment(b, Unset))
            new == Evaluate(fml, Environment(b, plan[d.code]))
<1>1. /\ d.code \in Process /\ k \in Int /\ (fml # None => base \in Int)
  BY DEF WellFormed
<1>2. BlockOf(P, d.code) = b
  BY JoinFacts
<1>3. plan[d.code] = Asked(E, d, rs)
  BY PlanIsAsked
<1>4. /\ Len(b.calcs) \in Nat /\ DOMAIN b.calcs = 1..Len(b.calcs)
      /\ DOMAIN b.given \subseteq Input
  BY BlockFacts
<1>5. Shaped(plan)
  BY PlanShape DEF GoodFile
<1>6. \A n \in Input : Unset[n] = None
  BY DEF Unset
<1>. HIDE DEF P, plan, b, fml, k
<1>7. LinkedAmount(E, d, x) = IF fml = None THEN k ELSE k * base
  BY DEF LinkedAmount, fml, k, b
<1>8. Reference(E, d, x, rs) = IF fml = None THEN k ELSE k * new
  BY <1>3 DEF Reference, fml, k, b
<1>9. Evaluated(P, d, x, plan[d.code]) = new /\ Evaluated(P, d, x, Unset) = base
  BY <1>2 DEF Evaluated, fml
<1>10. x \in Uses(P, d, plan) <=>
         fml # None /\ References(fml, Influenced(b, Overridden(plan, d.code)))
  BY <1>2 DEF Uses, Touched, fml
<1>. HIDE DEF base, new
<1>11. CASE fml = None
  BY <1>7, <1>8, <1>10, <1>11 DEF NewAmount, P, plan
<1>12. CASE fml # None /\ ~(d.code \in Planned(plan) /\ x \in Uses(P, d, plan))
  <2>1. NewAmount(E, P, d, x, plan) = k * base
    BY <1>7, <1>12 DEF NewAmount
  <2>2. new = base
    <3>1. CASE d.code \in Planned(plan)
      <4>1. ~References(fml, Influenced(b, Overridden(plan, d.code)))
        BY <1>10, <1>12, <3>1
      <4>2. \A n \in DOMAIN b.given : n \notin Overridden(plan, d.code) => plan[d.code][n] = Unset[n]
        BY <1>4, <1>6 DEF Overridden
      <4>3. PICK A, o, u : A = Overridden(plan, d.code) /\ o = plan[d.code] /\ u = Unset
        OBVIOUS
      <4>4. \A n \in DOMAIN b.given : n \notin A => o[n] = u[n]
        BY <4>2, <4>3
      <4>5. ~References(fml, Influenced(b, A))
        BY <4>1, <4>3
      <4>6. Len(b.calcs) \in Nat /\ DOMAIN b.calcs = 1..Len(b.calcs)
        BY <1>4
      <4>7. Evaluate(fml, Environment(b, o)) = Evaluate(fml, Environment(b, u))
        BY <4>4, <4>5, <4>6, SameResult
      <4>8. QED
        BY <4>3, <4>7 DEF new, base
    <3>2. CASE d.code \notin Planned(plan)
      <4>1. \A n \in Input : plan[d.code][n] = None
        BY <1>1, <3>2 DEF Planned, Overridden
      <4>2. plan[d.code] = Unset
        BY <1>1, <1>5, <4>1 DEF Shaped, Unset
      <4>3. QED
        BY <4>2 DEF new, base
    <3>3. QED
      BY <3>1, <3>2
  <2>3. QED
    BY <1>8, <1>12, <2>1, <2>2 DEF P, plan
<1>13. CASE fml # None /\ d.code \in Planned(plan) /\ x \in Uses(P, d, plan)
  <2>1. new \in Int
    BY <1>9, <1>13 DEF Raises, P, plan
  <2>2. NewAmount(E, P, d, x, plan) = IF base = 0 THEN k * base ELSE Quotient((k * base) * new, base)
    BY <1>7, <1>9, <1>13 DEF NewAmount, Ratio, Unpatchable
  <2>3. CASE base = 0 /\ new = 0
    BY <1>1, <1>8, <1>13, <2>2, <2>3 DEF P, plan
  <2>4. CASE base = 0 /\ new # 0
    BY <1>9, <1>13, <2>4 DEF Unpatchable, P, plan
  <2>5. CASE base # 0
    <3>1. base \in Int /\ (k * base) * new = (k * new) * base /\ k * new \in Int
      BY <1>1, <1>13, <2>1 DEF fml, base, b, k
    <3>2. Quotient((k * new) * base, base) = k * new
      BY <2>5, <3>1, ExactQuotient
    <3>3. QED
      BY <1>8, <1>13, <2>2, <2>5, <3>1, <3>2 DEF P, plan
  <2>6. QED
    BY <2>3, <2>4, <2>5
<1>14. QED
  BY <1>11, <1>12, <1>13

-----------------------------------------------------------------------------
(* Failures and warnings *)

\* The rows that want a parameter decide it, whatever file they stand in.
LEMMA PlanDetermined ==
    ASSUME NEW P, NEW rs \in Seq(Row), InOrder(rs), NEW qs \in Seq(Row), InOrder(qs),
           NEW c \in Process, NEW n \in Input,
           Writers(P, rs, c, n) = Writers(P, qs, c, n)
    PROVE  Plan(P, rs)[c][n] = Plan(P, qs)[c][n]
<1>. DEFINE W == Writers(P, rs, c, n)
<1>1. \/ W = {} /\ Plan(P, rs)[c][n] = None
      \/ \E r \in W : /\ Plan(P, rs)[c][n] = r.value
                      /\ \A q \in W \ {r} : Prevails(P, c, r, q)
  BY PlanFacts
<1>2. \/ W = {} /\ Plan(P, qs)[c][n] = None
      \/ \E r \in W : /\ Plan(P, qs)[c][n] = r.value
                      /\ \A q \in W \ {r} : Prevails(P, c, r, q)
  <2>1. \/ Writers(P, qs, c, n) = {} /\ Plan(P, qs)[c][n] = None
        \/ \E r \in Writers(P, qs, c, n) :
             /\ Plan(P, qs)[c][n] = r.value
             /\ \A q \in Writers(P, qs, c, n) \ {r} : Prevails(P, c, r, q)
    BY PlanFacts
  <2>2. QED
    BY <2>1
<1>3. ASSUME NEW r \in W, NEW q \in W, r # q, Prevails(P, c, r, q), Prevails(P, c, q, r)
      PROVE  FALSE
  <2>1. \A t \in Range(rs) : t \in Row
    BY DEF Range
  <2>2. r.at \in Int /\ q.at \in Int
    BY <2>1 DEF Writers, Row
  <2>3. TierOf(P, c, r) \in Int /\ TierOf(P, c, q) \in Int
    BY DEF TierOf
  <2>4. QED
    BY <1>3, <2>2, <2>3 DEF Prevails
<1>. HIDE DEF W
<1>4. QED
  BY <1>1, <1>2, <1>3

LEMMA LoneRow ==
    ASSUME NEW P, NEW rs \in Seq(Row), InOrder(rs),
           \A i, j \in DOMAIN rs : i # j => Targets(P, rs[i]) \cap Targets(P, rs[j]) = {},
           NEW c \in Planned(Plan(P, rs))
    PROVE  \E r \in Range(rs) : Plan(P, <<r>>)[c] = Plan(P, rs)[c]
<1>1. c \in Process
  BY DEF Planned
<1>2. PICK n \in Input : Plan(P, rs)[c][n] # None
  BY DEF Planned, Overridden
<1>3. PICK r \in Range(rs) : c \in Targets(P, r)
  <2>1. Writers(P, rs, c, n) # {}
    BY <1>1, <1>2, PlanFacts
  <2>2. QED
    BY <2>1 DEF Writers
<1>4. /\ r \in Row
      /\ <<r>> \in Seq(Row) /\ InOrder(<<r>>) /\ Range(<<r>>) = {r}
  <2>1. r \in Row
    BY DEF Range
  <2>2. DOMAIN <<r>> = {1} /\ <<r>>[1] = r
    OBVIOUS
  <2>3. Range(<<r>>) = {r}
    BY <2>2 DEF Range
  <2>4. InOrder(<<r>>)
    BY <2>2 DEF InOrder
  <2>5. QED
    BY <2>1, <2>3, <2>4
<1>5. \A q \in Range(rs) : c \in Targets(P, q) => q = r
  BY <1>3 DEF Range
<1>6. \A m : Writers(P, <<r>>, c, m) = Writers(P, rs, c, m)
  BY <1>3, <1>4, <1>5 DEF Writers
<1>7. ASSUME NEW m \in Input PROVE Plan(P, <<r>>)[c][m] = Plan(P, rs)[c][m]
  <2>1. PICK qs : qs = <<r>>
    OBVIOUS
  <2>2. qs \in Seq(Row) /\ InOrder(qs) /\ Writers(P, qs, c, m) = Writers(P, rs, c, m)
    BY <1>4, <1>6, <2>1
  <2>3. Plan(P, qs)[c][m] = Plan(P, rs)[c][m]
    BY <1>1, <2>2, PlanDetermined
  <2>4. QED
    BY <2>1, <2>3
<1>8. Shaped(Plan(P, <<r>>)) /\ Shaped(Plan(P, rs))
  BY <1>4, PlanShape
<1>9. QED
  BY <1>1, <1>7, <1>8, SamePlan

\* What one row does not bring about takes two that meet.
LEMMA FailureFacts ==
    ASSUME NEW E, NEW P, NEW rs \in Seq(Row), InOrder(rs), Raises(E, P, rs),
           \A r \in Range(rs) : ~Raises(E, P, <<r>>)
    PROVE  \E i, j \in DOMAIN rs : i # j /\ Targets(P, rs[i]) \cap Targets(P, rs[j]) # {}
<1>. DEFINE plan == Plan(P, rs)
<1>1. SUFFICES ASSUME \A i, j \in DOMAIN rs :
                        i # j => Targets(P, rs[i]) \cap Targets(P, rs[j]) = {}
               PROVE  FALSE
  OBVIOUS
<1>2. ASSUME NEW c \in Planned(plan)
      PROVE  \E r \in Range(rs) : /\ Plan(P, <<r>>)[c] = plan[c]
                                  /\ Overridden(Plan(P, <<r>>), c) = Overridden(plan, c)
                                  /\ c \in Planned(Plan(P, <<r>>))
  <2>1. PICK r \in Range(rs) : Plan(P, <<r>>)[c] = plan[c]
    BY <1>1, LoneRow
  <2>2. Overridden(Plan(P, <<r>>), c) = Overridden(plan, c)
    BY <2>1 DEF Overridden
  <2>3. c \in Planned(Plan(P, <<r>>))
    BY <2>2 DEF Planned
  <2>4. QED
    BY <2>1, <2>2, <2>3
<1>. HIDE DEF plan
<1>3. \A r \in Range(rs) : Applicable(P, r)
  <2>1. ASSUME NEW r PROVE Range(<<r>>) = {r}
    <3>1. DOMAIN <<r>> = {1} /\ <<r>>[1] = r
      OBVIOUS
    <3>2. QED
      BY <3>1 DEF Range
  <2>2. QED
    BY <2>1 DEF Raises
<1>4. CASE \E c \in Planned(plan) : \E v \in Range(Environment(BlockOf(P, c), plan[c])) : v \notin Int
  <2>1. PICK c \in Planned(plan) :
          \E v \in Range(Environment(BlockOf(P, c), plan[c])) : v \notin Int
    BY <1>4
  <2>2. PICK r \in Range(rs) : Plan(P, <<r>>)[c] = plan[c] /\ c \in Planned(Plan(P, <<r>>))
    BY <1>2
  <2>3. \E v \in Range(Environment(BlockOf(P, c), Plan(P, <<r>>)[c])) : v \notin Int
    BY <2>1, <2>2
  <2>4. Raises(E, P, <<r>>)
    BY <2>2, <2>3 DEF Raises
  <2>5. QED
    BY <2>4
<1>5. CASE \E d \in Range(E.data) :
             /\ d.code \in Planned(plan)
             /\ \E x \in Uses(P, d, plan) : Evaluated(P, d, x, plan[d.code]) \notin Int
  <2>1. PICK d \in Range(E.data) :
             /\ d.code \in Planned(plan)
             /\ \E x \in Uses(P, d, plan) : Evaluated(P, d, x, plan[d.code]) \notin Int
    BY <1>5
  <2>2. PICK r \in Range(rs) : /\ Plan(P, <<r>>)[d.code] = plan[d.code]
                               /\ Overridden(Plan(P, <<r>>), d.code) = Overridden(plan, d.code)
                               /\ d.code \in Planned(Plan(P, <<r>>))
    BY <1>2, <2>1
  <2>3. Uses(P, d, Plan(P, <<r>>)) = Uses(P, d, plan)
    BY <2>2 DEF Uses
  <2>4. Raises(E, P, <<r>>)
    BY <2>1, <2>2, <2>3 DEF Raises
  <2>5. QED
    BY <2>4
<1>6. QED
  BY <1>3, <1>4, <1>5 DEF Raises, plan

\* What the rows of a name that no formula refers to leave to the others.
LEMMA NoEffectOnAmount ==
    ASSUME NEW E, WellFormed(E), Joinable(E), NEW rs, GoodFile(Rows(E), rs),
           NEW ks, GoodFile(Rows(E), ks), NEW s \in Unused(E, Rows(E), rs),
           Range(ks) = {r \in Range(rs) : r.name # s},
           NEW d \in Range(E.data), NEW x \in DOMAIN d.exchanges
    PROVE  NewAmount(E, Rows(E), d, x, Plan(Rows(E), ks))
             = NewAmount(E, Rows(E), d, x, Plan(Rows(E), rs))
<1>. DEFINE P == Rows(E)
            b == BlockOf(P, d.code)
            c == d.code
            p == Plan(P, rs)
            q == Plan(P, ks)
            m == Norm[s]
<1>1. /\ rs \in Seq(Row) /\ InOrder(rs) /\ ks \in Seq(Row) /\ InOrder(ks)
  BY DEF GoodFile
<1>2. c \in Process
  BY ParentFacts
<1>3. Len(b.calcs) \in Nat /\ DOMAIN b.calcs = 1..Len(b.calcs)
  BY BlockFacts, JoinFacts
<1>4. Shaped(p) /\ Shaped(q)
  BY <1>1, PlanShape
<1>5. ASSUME NEW n \in Input, n # m \/ \A r \in Range(rs) : r.name = s => c \notin Targets(P, r)
      PROVE  p[c][n] = q[c][n]
  <2>1. Writers(P, rs, c, n) = Writers(P, ks, c, n)
    BY <1>5 DEF Writers
  <2>2. QED
    BY <1>1, <1>2, <2>1, PlanDetermined
<1>6. CASE \A r \in Range(rs) : r.name = s => c \notin Targets(P, r)
  <2>1. p[c] = q[c]
    BY <1>2, <1>4, <1>5, <1>6, SamePlan
  <2>2. Overridden(p, c) = Overridden(q, c)
    BY <2>1 DEF Overridden
  <2>3. c \in Planned(p) <=> c \in Planned(q)
    BY <2>2 DEF Planned
  <2>4. Uses(P, d, p) = Uses(P, d, q)
    BY <2>2 DEF Uses
  <2>. HIDE DEF P, p, q
  <2>5. Ratio(E, P, d, x, p) = Ratio(E, P, d, x, q)
    BY <2>1 DEF Ratio
  <2>6. QED
    BY <2>3, <2>4, <2>5 DEF NewAmount, P, p, q
<1>7. CASE \E r \in Range(rs) : r.name = s /\ c \in Targets(P, r)
  <2>1. Touched(d, Influenced(b, {m})) = {}
    BY <1>7 DEF Unused
  <2>. DEFINE A == Overridden(p, c) \ {m}
  <2>2. /\ Overridden(p, c) = A \/ Overridden(p, c) = A \cup {m}
        /\ Overridden(q, c) = A \/ Overridden(q, c) = A \cup {m}
    <3>1. Overridden(q, c) \ {m} = A
      BY <1>5 DEF Overridden
    <3>2. QED
      BY <3>1
  <2>. HIDE DEF A, P, p, q, b, m
  <2>3. /\ Influenced(b, A \cup {m}) = Influenced(b, A) \cup Influenced(b, {m})
        /\ Influenced(b, {}) = {}
    BY <1>3, InfluencedFacts
  <2>4. Touched(d, Influenced(b, A \cup {m})) = Touched(d, Influenced(b, A))
    BY <2>1, <2>3 DEF Touched, References
  <2>5. /\ Uses(P, d, p) = Touched(d, Influenced(b, A))
        /\ Uses(P, d, q) = Touched(d, Influenced(b, A))
    BY <2>2, <2>4 DEF Uses, b, c
  <2>6. A = {} => Touched(d, Influenced(b, A)) = {}
    BY <2>3 DEF Touched, References
  <2>7. A # {} => c \in Planned(p) /\ c \in Planned(q)
    BY <1>2, <2>2 DEF Planned
  <2>8. ASSUME x \in Touched(d, Influenced(b, A))
        PROVE  Ratio(E, P, d, x, p) = Ratio(E, P, d, x, q)
    <3>1. ~References(d.exchanges[x].formula, Influenced(b, {m}))
      BY <2>1, <2>8 DEF Touched
    <3>2. \A n \in DOMAIN b.given : n \notin {m} => p[c][n] = q[c][n]
      <4>1. DOMAIN b.given \subseteq Input
        BY BlockFacts, JoinFacts DEF b, P
      <4>2. QED
        BY <1>5, <4>1
    <3>3. Evaluate(d.exchanges[x].formula, Environment(b, p[c]))
            = Evaluate(d.exchanges[x].formula, Environment(b, q[c]))
      <4>1. PICK over : over = p[c]
        OBVIOUS
      <4>2. PICK other : other = q[c]
        OBVIOUS
      <4>3. PICK f : f = d.exchanges[x].formula
        OBVIOUS
      <4>4. PICK names : names = {m}
        OBVIOUS
      <4>5. /\ \A n \in DOMAIN b.given : n \notin names => over[n] = other[n]
            /\ ~References(f, Influenced(b, names))
        BY <3>1, <3>2, <4>1, <4>2, <4>3, <4>4
      <4>6. Evaluate(f, Environment(b, over)) = Evaluate(f, Environment(b, other))
        BY <1>3, <4>5, SameResult
      <4>7. QED
        BY <4>1, <4>2, <4>3, <4>6
    <3>4. Evaluated(P, d, x, p[d.code]) = Evaluated(P, d, x, q[d.code])
      BY <3>3 DEF Evaluated, b
    <3>5. QED
      BY <3>4 DEF Ratio
  <2>9. QED
    BY <2>5, <2>6, <2>7, <2>8 DEF NewAmount, P, p, q
<1>8. QED
  BY <1>6, <1>7

LEMMA NoEffectFacts ==
    ASSUME NEW E, WellFormed(E), Joinable(E), NEW rs, GoodFile(Rows(E), rs),
           NEW s \in Unused(E, Rows(E), rs)
    PROVE  Patched(E, Rows(E), Subsequence(rs, {r \in Range(rs) : r.name # s}))
             = Patched(E, Rows(E), rs)
<1>. DEFINE P == Rows(E)
            S == {r \in Range(rs) : r.name # s}
<1>1. PICK ks : ks = Subsequence(rs, S)
  OBVIOUS
<1>2. Range(ks) = S /\ GoodFile(P, ks)
  <2>1. rs \in Seq(Row) /\ InOrder(rs) /\ \A r \in Range(rs) : Applicable(P, r)
    BY DEF GoodFile
  <2>2. ks \in Seq(Row) /\ Range(ks) = Range(rs) \cap S /\ InOrder(ks)
    BY <1>1, <2>1, SubsequenceFacts, SubsequenceInOrder
  <2>3. QED
    BY <2>1, <2>2 DEF GoodFile
<1>3. ASSUME NEW i \in DOMAIN E.data, NEW x \in DOMAIN E.data[i].exchanges
      PROVE  NewAmount(E, P, E.data[i], x, Plan(P, ks)) = NewAmount(E, P, E.data[i], x, Plan(P, rs))
  <2>1. PICK d : d = E.data[i]
    OBVIOUS
  <2>2. d \in Range(E.data) /\ x \in DOMAIN d.exchanges
    BY <2>1 DEF Range
  <2>3. NewAmount(E, P, d, x, Plan(P, ks)) = NewAmount(E, P, d, x, Plan(P, rs))
    BY <1>2, <2>2, NoEffectOnAmount
  <2>4. QED
    BY <2>1, <2>3
<1>. HIDE DEF P
<1>4. Patched(E, P, ks) = Patched(E, P, rs)
  BY <1>3 DEF Patched
<1>5. QED
  BY <1>1, <1>4 DEF P

-----------------------------------------------------------------------------
(* The invariant *)

\* The rows of a file that the commands have written: each was previewed on
\* its own before it was set.
Previewed(rs) ==
    /\ GoodFile(params, rs)
    /\ \A r \in Range(rs) : ~Raises(export, params, <<r>>)

\* The parameters are those of the export once the join was possible.
JoinInv ==
    /\ export \in Exports
    /\ pc \in {"parse", "refused", "idle", "save"}
    /\ pc \in {"parse", "refused"} => params = {} /\ rows = << >> /\ link = None
    /\ pc \in {"idle", "save"} => Joinable(export) /\ params = Rows(export)

\* The file holds what was set so far, and a row that was reported as saved.
FileInv ==
    /\ clock \in Nat /\ clock <= MaxCommands
    /\ Previewed(rows)
    /\ \A r \in Range(rows) : r.at <= clock
    /\ confirmed \subseteq Range(rows)

\* What a command is about to replace the file by drops no reported row that
\* it does not set again; so far it has written the beginning of it.
SaveInv ==
    /\ pc = "save" =>
         /\ Previewed(pending)
         /\ \A r \in Range(pending) : r.at <= clock
         /\ \A r \in confirmed :
              \/ r \in Range(pending)
              \/ \E q \in Range(pending) : q.at = clock /\ RowKey(q) = RowKey(r)
    /\ pc # "save" => pending = << >>
    /\ partial \in Seq(Row) /\ Len(partial) \in 0..Len(pending)
    /\ \A i \in 1..Len(partial) : partial[i] = pending[i]

\* A link is what the file it has read makes of the export.
LinkInv ==
    link # None =>
        /\ Previewed(link.of)
        /\ link.raised <=> Raises(export, params, link.of)
        /\ ~link.raised =>
             /\ link.amounts = Patched(export, params, link.of)
             /\ link.unpatched = Unpatched(export, params, link.of)
             /\ link.unused = Unused(export, params, link.of)

OverrideInv == JoinInv /\ FileInv /\ SaveInv /\ LinkInv

\* What the commands leave behind keeps when nothing they read changes.
LEMMA PreviewedKept ==
    ASSUME NEW rs, Previewed(rs), params' = params, export' = export
    PROVE  Previewed(rs)'
<1>1. GoodFile(params, rs)' 
  BY DEF Previewed, GoodFile
<1>2. QED
  BY <1>1 DEF Previewed

LEMMA InitInv == Init => OverrideInv
<1>1. SUFFICES ASSUME Init PROVE OverrideInv
  OBVIOUS
<1>2. JoinInv
  BY <1>1 DEF Init, JoinInv
<1>3. Previewed(<< >>)
  <2>1. << >> \in Seq(Row) /\ DOMAIN << >> = {} /\ Range(<< >>) = {}
    BY DEF Range
  <2>2. QED
    BY <2>1 DEF Previewed, GoodFile, InOrder
<1>4. FileInv
  BY <1>1, <1>3, ConstantsAssumption DEF Init, FileInv, Range
<1>5. SaveInv
  BY <1>1 DEF Init, SaveInv
<1>6. LinkInv
  BY <1>1 DEF Init, LinkInv
<1>7. QED
  BY <1>2, <1>4, <1>5, <1>6 DEF OverrideInv

\* Before the commands there is an empty file.
LEMMA ParseInv ==
    ASSUME OverrideInv, pc = "parse", UNCHANGED <<export, store, link>>,
           \/ pc' = "idle" /\ Joinable(export) /\ params' = Rows(export)
           \/ pc' = "refused" /\ params' = params
    PROVE  OverrideInv'
<1>1. rows = << >> /\ link = None /\ params = {}
  BY DEF OverrideInv, JoinInv
<1>2. rows' = rows /\ partial' = partial /\ pending' = pending
      /\ clock' = clock /\ confirmed' = confirmed /\ link' = link /\ export' = export
  BY DEF store
<1>3. JoinInv'
  BY <1>1, <1>2 DEF OverrideInv, JoinInv
<1>4. FileInv'
  <2>1. Previewed(rows)'
    <3>1. << >> \in Seq(Row) /\ DOMAIN << >> = {} /\ Range(<< >>) = {}
      BY DEF Range
    <3>2. QED
      BY <1>1, <1>2, <3>1 DEF Previewed, GoodFile, InOrder
  <2>2. QED
    BY <1>2, <2>1 DEF OverrideInv, FileInv
<1>5. SaveInv'
  BY <1>2 DEF OverrideInv, SaveInv
<1>6. LinkInv'
  BY <1>1, <1>2 DEF LinkInv
<1>7. QED
  BY <1>3, <1>4, <1>5, <1>6 DEF OverrideInv

\* Dropping rows keeps a file good.
LEMMA KeptFacts ==
    ASSUME Previewed(rows), NEW S
    PROVE  /\ Previewed(Subsequence(rows, S))
           /\ Range(Subsequence(rows, S)) = Range(rows) \cap S
<1>1. rows \in Seq(Row) /\ InOrder(rows)
  BY DEF Previewed, GoodFile
<1>2. PICK ks : ks = Subsequence(rows, S)
  OBVIOUS
<1>3. ks \in Seq(Row) /\ InOrder(ks) /\ Range(ks) = Range(rows) \cap S
  BY <1>1, <1>2, SubsequenceFacts, SubsequenceInOrder
<1>4. Previewed(ks)
  BY <1>3 DEF Previewed, GoodFile
<1>5. QED
  BY <1>2, <1>3, <1>4

LEMMA SetInv ==
    ASSUME OverrideInv, NEW name \in Spelling, NEW scope \in Scope, NEW value \in Amount,
           Set(name, scope, value)
    PROVE  OverrideInv'
<1>. DEFINE r == [name |-> name, scope |-> scope, value |-> value, at |-> clock + 1]
            S == {x \in Range(rows) : RowKey(x) # RowKey(r)}
<1>1. /\ pc = "idle" /\ clock < MaxCommands /\ Accepted(r)
      /\ clock' = clock + 1 /\ pending' = Upsert(rows, r) /\ pc' = "save"
      /\ UNCHANGED <<export, params, rows, partial, confirmed, link>>
  BY DEF Set
<1>2. /\ clock \in Nat /\ Previewed(rows) /\ confirmed \subseteq Range(rows)
      /\ \A q \in Range(rows) : q.at <= clock
      /\ \A q \in Range(rows) : q \in Row
  BY DEF OverrideInv, FileInv, Previewed, GoodFile, Range
<1>3. r \in Row
  BY <1>1, <1>2, ConstantsAssumption DEF Row
<1>4. /\ r.at = clock + 1 /\ Range(<<r>>) = {r}
  <2>1. DOMAIN <<r>> = {1} /\ <<r>>[1] = r
    OBVIOUS
  <2>2. QED
    BY <2>1 DEF Range
<1>. HIDE DEF r
<1>5. ~Raises(export, params, <<r>>) /\ Applicable(params, r)
  BY <1>1, <1>4 DEF Accepted, Raises
<1>6. PICK ks : ks = Subsequence(rows, S)
  OBVIOUS
<1>7. Previewed(ks) /\ Range(ks) = Range(rows) \cap S
  BY <1>2, <1>6, KeptFacts
<1>8. pending' = Append(ks, r)
  BY <1>1, <1>6 DEF Upsert
<1>9. /\ Append(ks, r) \in Seq(Row) /\ Range(Append(ks, r)) = Range(ks) \cup {r}
      /\ InOrder(Append(ks, r))
  <2>1. ks \in Seq(Row) /\ InOrder(ks)
    BY <1>7 DEF Previewed, GoodFile
  <2>2. \A q \in Range(ks) : q.at < r.at
    <3>1. \A q \in Range(ks) : q.at \in Int /\ q.at <= clock
      BY <1>2, <1>7 DEF Row
    <3>2. QED
      BY <1>2, <1>4, <3>1
  <2>3. QED
    BY <1>3, <2>1, <2>2, AppendFacts, AppendInOrder
<1>10. Previewed(pending')
  <2>1. \A q \in Range(Append(ks, r)) : Applicable(params, q) /\ ~Raises(export, params, <<q>>)
    BY <1>5, <1>7, <1>9 DEF Previewed, GoodFile
  <2>2. QED
    BY <1>8, <1>9, <2>1 DEF Previewed, GoodFile
<1>11. JoinInv'
  BY <1>1 DEF OverrideInv, JoinInv
<1>12. FileInv'
  <2>1. Previewed(rows)'
    BY <1>1, <1>2, PreviewedKept DEF Previewed, GoodFile
  <2>2. \A q \in Range(rows) : q.at <= clock + 1
    BY <1>2 DEF Row
  <2>3. clock + 1 \in Nat /\ clock + 1 <= MaxCommands
    BY <1>1, <1>2, ConstantsAssumption
  <2>4. QED
    BY <1>1, <1>2, <2>1, <2>2, <2>3 DEF FileInv
<1>13. SaveInv'
  <2>1. Previewed(pending)'
    BY <1>1, <1>10 DEF Previewed, GoodFile
  <2>2. \A q \in Range(pending') : q.at <= clock'
    BY <1>1, <1>2, <1>4, <1>7, <1>8, <1>9 DEF Row
  <2>3. ASSUME NEW q \in confirmed
        PROVE  q \in Range(pending') \/ RowKey(r) = RowKey(q)
    BY <1>2, <1>7, <1>8, <1>9
  <2>4. r \in Range(pending') /\ r.at = clock'
    BY <1>1, <1>4, <1>8, <1>9
  <2>5. partial \in Seq(Row) /\ Len(partial) = 0 /\ Len(pending') \in Nat
    BY <1>1, <1>8, <1>9 DEF OverrideInv, SaveInv
  <2>6. QED
    BY <1>1, <2>1, <2>2, <2>3, <2>4, <2>5 DEF SaveInv
<1>14. LinkInv'
  BY <1>1 DEF OverrideInv, LinkInv, Previewed, GoodFile
<1>15. QED
  BY <1>11, <1>12, <1>13, <1>14 DEF OverrideInv

LEMMA ClearInv ==
    ASSUME OverrideInv, NEW name \in Spelling \cup {None}, NEW scope \in Scope \cup {None},
           Clear(name, scope)
    PROVE  OverrideInv'
<1>. DEFINE S == {r \in Range(rows) : ~Matches(r, name, scope)}
<1>1. PICK kept : kept = Subsequence(rows, S)
  OBVIOUS
<1>2. /\ pc = "idle" /\ clock < MaxCommands /\ clock' = clock + 1
      /\ confirmed' = {r \in confirmed : ~Matches(r, name, scope)}
      /\ \/ pending' = kept /\ pc' = "save" /\ rows' = rows
         \/ kept = << >> /\ rows' = << >> /\ pending' = pending /\ pc' = pc
      /\ UNCHANGED <<export, params, partial, link>>
  BY <1>1 DEF Clear
<1>3. /\ clock \in Nat /\ Previewed(rows) /\ confirmed \subseteq Range(rows)
      /\ \A q \in Range(rows) : q.at <= clock
      /\ \A q \in Range(rows) : q \in Row
  BY DEF OverrideInv, FileInv, Previewed, GoodFile, Range
<1>4. Previewed(kept) /\ Range(kept) = Range(rows) \cap S
  BY <1>1, <1>3, KeptFacts
<1>5. confirmed' \subseteq Range(kept)
  BY <1>2, <1>3, <1>4
<1>6. /\ clock' \in Nat /\ clock' <= MaxCommands
      /\ \A q \in Range(rows) : q.at <= clock'
  BY <1>2, <1>3, ConstantsAssumption DEF Row
<1>7. JoinInv'
  BY <1>2 DEF OverrideInv, JoinInv
<1>8. LinkInv'
  BY <1>2 DEF OverrideInv, LinkInv, Previewed, GoodFile
<1>9. CASE pending' = kept /\ pc' = "save" /\ rows' = rows
  <2>1. Previewed(rows)' /\ Previewed(pending)'
    BY <1>2, <1>3, <1>4, <1>9 DEF Previewed, GoodFile
  <2>2. FileInv'
    BY <1>2, <1>3, <1>6, <1>9, <2>1 DEF FileInv
  <2>3. partial \in Seq(Row) /\ Len(partial) = 0 /\ Len(kept) \in Nat
    BY <1>2, <1>4 DEF OverrideInv, SaveInv, Previewed, GoodFile
  <2>4. SaveInv'
    BY <1>2, <1>4, <1>5, <1>6, <1>9, <2>1, <2>3 DEF SaveInv
  <2>5. QED
    BY <1>7, <1>8, <2>2, <2>4 DEF OverrideInv
<1>10. CASE kept = << >> /\ rows' = << >> /\ pending' = pending /\ pc' = pc
  <2>1. Previewed(rows)'
    BY <1>2, <1>4, <1>10 DEF Previewed, GoodFile
  <2>2. FileInv'
    BY <1>4, <1>5, <1>6, <1>10, <2>1 DEF FileInv
  <2>3. SaveInv'
    BY <1>2, <1>10 DEF OverrideInv, SaveInv
  <2>4. QED
    BY <1>7, <1>8, <2>2, <2>3 DEF OverrideInv
<1>11. QED
  BY <1>2, <1>9, <1>10

LEMMA WriteInv == OverrideInv /\ WriteRow => OverrideInv'
<1>1. SUFFICES ASSUME OverrideInv, WriteRow PROVE OverrideInv'
  OBVIOUS
<1>2. /\ pc = "save" /\ partial # pending
      /\ partial' = Append(partial, pending[Len(partial) + 1])
      /\ UNCHANGED <<export, params, rows, pending, pc, clock, confirmed, link>>
  BY <1>1 DEF WriteRow
<1>3. /\ partial \in Seq(Row) /\ pending \in Seq(Row) /\ Len(partial) \in 0..Len(pending)
      /\ \A i \in 1..Len(partial) : partial[i] = pending[i]
  BY <1>1, <1>2 DEF OverrideInv, SaveInv, Previewed, GoodFile
<1>4. Len(partial) + 1 \in 1..Len(pending)
  <2>1. Len(partial) # Len(pending)
    BY <1>2, <1>3
  <2>2. QED
    BY <1>3, <2>1
<1>5. pending[Len(partial) + 1] \in Row
  BY <1>3, <1>4
<1>6. /\ partial' \in Seq(Row) /\ Len(partial') = Len(partial) + 1
      /\ \A i \in 1..Len(partial) : partial'[i] = partial[i]
      /\ partial'[Len(partial) + 1] = pending[Len(partial) + 1]
  BY <1>2, <1>3, <1>5
<1>7. SaveInv'
  <2>1. \A i \in 1..Len(partial') : partial'[i] = pending[i]
    BY <1>3, <1>6
  <2>2. Previewed(pending)'
    BY <1>1, <1>2 DEF OverrideInv, SaveInv, Previewed, GoodFile
  <2>3. QED
    BY <1>1, <1>2, <1>4, <1>6, <2>1, <2>2 DEF OverrideInv, SaveInv
<1>8. JoinInv' /\ FileInv' /\ LinkInv'
  BY <1>1, <1>2 DEF OverrideInv, JoinInv, FileInv, LinkInv, Previewed, GoodFile
<1>9. QED
  BY <1>7, <1>8 DEF OverrideInv

LEMMA ReplaceInv == OverrideInv /\ Replace => OverrideInv'
<1>. DEFINE new == {r \in Range(pending) : r.at = clock}
<1>1. SUFFICES ASSUME OverrideInv, Replace PROVE OverrideInv'
  OBVIOUS
<1>2. /\ pc = "save" /\ rows' = pending
      /\ confirmed' = {r \in confirmed : \A q \in new : RowKey(r) # RowKey(q)} \cup new
      /\ partial' = << >> /\ pending' = << >> /\ pc' = "idle"
      /\ UNCHANGED <<export, params, clock, link>>
  BY <1>1 DEF Replace
<1>3. /\ Previewed(pending) /\ \A r \in Range(pending) : r.at <= clock
      /\ \A r \in confirmed :
           r \in Range(pending) \/ \E q \in new : RowKey(q) = RowKey(r)
  BY <1>1, <1>2 DEF OverrideInv, SaveInv
<1>4. confirmed' \subseteq Range(pending)
  BY <1>2, <1>3
<1>5. FileInv'
  <2>1. Previewed(rows)'
    BY <1>2, <1>3 DEF Previewed, GoodFile
  <2>2. QED
    BY <1>1, <1>2, <1>3, <1>4, <2>1 DEF OverrideInv, FileInv
<1>6. SaveInv'
  BY <1>2 DEF SaveInv
<1>7. JoinInv'
  BY <1>1, <1>2 DEF OverrideInv, JoinInv
<1>8. LinkInv'
  BY <1>1, <1>2 DEF OverrideInv, LinkInv, Previewed, GoodFile
<1>9. QED
  BY <1>5, <1>6, <1>7, <1>8 DEF OverrideInv

LEMMA DieInv == OverrideInv /\ Die => OverrideInv'
<1>1. SUFFICES ASSUME OverrideInv, Die PROVE OverrideInv'
  OBVIOUS
<1>2. /\ pc = "save" /\ partial' = << >> /\ pending' = << >> /\ pc' = "idle"
      /\ UNCHANGED <<export, params, rows, clock, confirmed, link>>
  BY <1>1 DEF Die
<1>3. SaveInv'
  BY <1>2 DEF SaveInv
<1>4. JoinInv'
  BY <1>1, <1>2 DEF OverrideInv, JoinInv
<1>5. FileInv' /\ LinkInv'
  BY <1>1, <1>2 DEF OverrideInv, FileInv, LinkInv, Previewed, GoodFile
<1>6. QED
  BY <1>3, <1>4, <1>5 DEF OverrideInv

LEMMA LinkedInv == OverrideInv /\ Link => OverrideInv'
<1>1. SUFFICES ASSUME OverrideInv, Link PROVE OverrideInv'
  OBVIOUS
<1>2. pc = "idle" /\ UNCHANGED <<export, params, rows, partial, pending, clock, confirmed, pc>>
  BY <1>1 DEF Link, store
<1>3. LinkInv'
  <2>1. Previewed(rows)
    BY <1>1 DEF OverrideInv, FileInv
  <2>2. /\ link'.of = rows
        /\ link'.raised <=> Raises(export, params, rows)
        /\ ~link'.raised =>
             /\ link'.amounts = Patched(export, params, rows)
             /\ link'.unpatched = Unpatched(export, params, rows)
             /\ link'.unused = Unused(export, params, rows)
    <3>1. CASE Raises(export, params, rows)
      BY <1>1, <3>1 DEF Link
    <3>2. CASE ~Raises(export, params, rows)
      BY <1>1, <3>2 DEF Link
    <3>3. QED
      BY <3>1, <3>2
  <2>3. Previewed(link.of)'
    BY <1>2, <2>1, <2>2 DEF Previewed, GoodFile
  <2>4. QED
    BY <1>2, <2>2, <2>3 DEF LinkInv
<1>4. JoinInv'
  BY <1>1, <1>2 DEF OverrideInv, JoinInv
<1>5. FileInv' /\ SaveInv'
  BY <1>1, <1>2 DEF OverrideInv, FileInv, SaveInv, Previewed, GoodFile
<1>6. QED
  BY <1>3, <1>4, <1>5 DEF OverrideInv

\* The invariant holds in every state: the parameters are those of the export,
\* the file and what is about to replace it are rows that were each previewed,
\* in the order they were set in, no reported row is on its way out unless it
\* is set again, and a link is what its file makes of the export.
THEOREM Inductive == Spec => []OverrideInv
<1>1. Init => OverrideInv
  BY InitInv
<1>2. OverrideInv /\ [Next]_vars => OverrideInv'
  <2>1. SUFFICES ASSUME OverrideInv, [Next]_vars PROVE OverrideInv'
    OBVIOUS
  <2>2. CASE Extract
    BY <2>1, <2>2, ParseInv DEF Extract
  <2>3. CASE RefuseToJoin
    BY <2>1, <2>3, ParseInv DEF RefuseToJoin
  <2>4. CASE \E name \in Spelling, scope \in Scope, value \in Amount : Set(name, scope, value)
    BY <2>1, <2>4, SetInv
  <2>5. CASE \E name \in Spelling \cup {None}, scope \in Scope \cup {None} : Clear(name, scope)
    BY <2>1, <2>5, ClearInv
  <2>6. CASE WriteRow
    BY <2>1, <2>6, WriteInv
  <2>7. CASE Replace
    BY <2>1, <2>7, ReplaceInv
  <2>8. CASE Die
    BY <2>1, <2>8, DieInv
  <2>9. CASE Link
    BY <2>1, <2>9, LinkedInv
  <2>10. CASE UNCHANGED vars
    BY <2>1, <2>10 DEF vars, store, OverrideInv, JoinInv, FileInv, SaveInv, LinkInv,
                       Previewed, GoodFile
  <2>11. QED
    BY <2>1, <2>2, <2>3, <2>4, <2>5, <2>6, <2>7, <2>8, <2>9, <2>10 DEF Next
<1>3. QED
  BY <1>1, <1>2, PTL DEF Spec

\* A link has read a good file, with the parameters joined.
LEMMA LinkReads ==
    ASSUME OverrideInv, link # None
    PROVE  /\ WellFormed(export) /\ Joinable(export) /\ params = Rows(export)
           /\ GoodFile(params, link.of)
<1>1. pc \in {"idle", "save"} /\ export \in Exports
  BY DEF OverrideInv, JoinInv
<1>2. QED
  BY <1>1, ExportAssumption DEF OverrideInv, JoinInv, LinkInv, Previewed

\* AmountsAreAsked: after a link every amount of the graph is the one the
\* commands ask for or is reported, for every export, formula and file
\* (ratio_patch).
THEOREM AmountsFollowCommands == Spec => []AmountsAreAsked
<1>1. OverrideInv => AmountsAreAsked
  <2>1. SUFFICES ASSUME OverrideInv, Linked, NEW i \in Dataset,
                        NEW x \in DOMAIN export.data[i].exchanges
                 PROVE  \/ link.amounts[i][x] = Reference(export, export.data[i], x, link.of)
                        \/ <<i, x>> \in link.unpatched
    BY DEF AmountsAreAsked
  <2>2. /\ WellFormed(export) /\ Joinable(export) /\ params = Rows(export)
        /\ GoodFile(params, link.of)
    BY <2>1, LinkReads DEF Linked
  <2>3. /\ ~Raises(export, params, link.of)
        /\ link.amounts = Patched(export, params, link.of)
        /\ link.unpatched = Unpatched(export, params, link.of)
    BY <2>1 DEF OverrideInv, LinkInv, Linked
  <2>4. PICK d : d = export.data[i]
    OBVIOUS
  <2>5. d \in Range(export.data) /\ x \in DOMAIN d.exchanges
    BY <2>1, <2>4 DEF Range, Dataset
  <2>. DEFINE plan == Plan(params, link.of)
  <2>6. \/ NewAmount(export, params, d, x, plan) = Reference(export, d, x, link.of)
        \/ /\ d.code \in Planned(plan) /\ x \in Uses(params, d, plan)
           /\ Unpatchable(params, d, x)
           /\ Evaluated(params, d, x, plan[d.code]) # 0
    BY <2>2, <2>3, <2>5, AmountFacts
  <2>7. link.amounts[i][x] = NewAmount(export, params, d, x, plan)
    BY <2>1, <2>3, <2>4 DEF Patched, Dataset
  <2>8. ASSUME d.code \in Planned(plan), x \in Uses(params, d, plan),
               Unpatchable(params, d, x), Evaluated(params, d, x, plan[d.code]) # 0
        PROVE  <<i, x>> \in link.unpatched
    BY <2>1, <2>3, <2>4, <2>8 DEF Unpatched, Dataset
  <2>9. QED
    BY <2>4, <2>6, <2>7, <2>8
<1>2. QED
  BY <1>1, Inductive, PTL

\* ConfirmedSurvives: no kill, at whatever point of a save, costs a row that a
\* command has reported as saved (save).
THEOREM ConfirmedStays == Spec => []ConfirmedSurvives
<1>1. OverrideInv => ConfirmedSurvives
  BY DEF OverrideInv, FileInv, ConfirmedSurvives
<1>2. QED
  BY <1>1, Inductive, PTL

\* FailureNeedsTwo: a link raises only when two rows meet on one dataset, for
\* every export and file (execute).
THEOREM LoneRowsLink == Spec => []FailureNeedsTwo
<1>1. OverrideInv => FailureNeedsTwo
  <2>1. SUFFICES ASSUME OverrideInv, Broken
                 PROVE  \E i, j \in DOMAIN link.of :
                          i # j /\ Targets(params, link.of[i]) \cap Targets(params, link.of[j]) # {}
    BY DEF FailureNeedsTwo
  <2>2. link.of \in Seq(Row) /\ InOrder(link.of)
    BY <2>1, LinkReads DEF Broken, GoodFile
  <2>3. /\ Raises(export, params, link.of)
        /\ \A r \in Range(link.of) : ~Raises(export, params, <<r>>)
    BY <2>1 DEF OverrideInv, LinkInv, Broken, Previewed
  <2>4. QED
    BY <2>2, <2>3, FailureFacts
<1>2. QED
  BY <1>1, Inductive, PTL

\* NoEffectIsTrue: the graph is the same without the rows of a parameter that
\* was reported to have no effect, for every export and file
\* (_unused_warnings).
THEOREM UnusedHasNoEffect == Spec => []NoEffectIsTrue
<1>1. OverrideInv => NoEffectIsTrue
  <2>1. SUFFICES ASSUME OverrideInv, Linked, NEW s \in link.unused
                 PROVE  Patched(export, params, Subsequence(link.of, {r \in Range(link.of) : r.name # s}))
                          = link.amounts
    BY DEF NoEffectIsTrue
  <2>2. /\ WellFormed(export) /\ Joinable(export) /\ params = Rows(export)
        /\ GoodFile(params, link.of)
    BY <2>1, LinkReads DEF Linked
  <2>3. /\ link.amounts = Patched(export, params, link.of)
        /\ s \in Unused(export, params, link.of)
    BY <2>1 DEF OverrideInv, LinkInv, Linked
  <2>4. QED
    BY <2>2, <2>3, NoEffectFacts
<1>2. QED
  BY <1>1, Inductive, PTL

=============================================================================
