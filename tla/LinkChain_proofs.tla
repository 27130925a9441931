--------------------------- MODULE LinkChain_proofs ---------------------------
(***************************************************************************)
(* Theorems about LinkChain, for inventories of any size and for all       *)
(* tables: what the transforms do to an exchange is told, stage by stage,  *)
(* in terms of the exchange the parser yielded.                            *)
(***************************************************************************)
EXTENDS LinkChain, FiniteSetTheorems, WellFoundedInduction, TLAPS

Early == {"parsed", "deleted", "linked", "corrected", "restored"}
Middle == {"promoted", "fixed", "reclassified"}
AfterRelink == {"relinked", "matched", "exported", "frame"}
BeforeRelink == Early \cup Middle \cup {"purged"}
Stages == BeforeRelink \cup AfterRelink

TypeInv ==
    /\ stage \in Stages /\ source \in Sources
    /\ live \subseteq Process /\ nodes \subseteq Product
    /\ DOMAIN edges \subseteq DOMAIN source.edges
    /\ \A e \in DOMAIN edges : edges[e] \in Exchange

-----------------------------------------------------------------------------
(* What becomes of the exchanges that stand for an output of their process *)

\* An exchange that stands for an output of its process.
Output(x) == x.type = "production" \/ x.functional

\* The promoter removes the empty outputs of the processes it promotes.
Survives(S, e) ==
    ~ /\ S.edges[e].of \in ToPromote(S.edges)
      /\ Output(S.edges[e])
      /\ S.edges[e].n = 0

\* The outputs after the dummies are fixed, and those that are productions.
MadeFunctional(S, e) == S.edges[e].functional \/ e \in Stubs(S.edges)
MadeProduction(S, e) ==
    \/ S.edges[e].type = "production"
    \/ S.edges[e].functional /\ S.edges[e].of \in ToPromote(S.edges)

\* The processes that keep an output.
Serving(S) == {p \in KeptProcesses(S) :
    \E e \in Of(S.edges, p) : Survives(S, e) /\ MadeFunctional(S, e)}

LiveInv ==
    /\ stage = "parsed" => live = Process /\ nodes = Product
    /\ stage \in BeforeRelink \ {"parsed"} => nodes = KeptProducts(source)
    /\ stage \in (Early \cup Middle) \ {"parsed"} => live = KeptProcesses(source)
    /\ stage \in AfterRelink \cup {"purged"} => live = Serving(source)

\* Which exchanges are left ...
DomainInv ==
    /\ \A e \in DOMAIN edges : source.edges[e].of \in live
    /\ stage \notin Early => \A e \in DOMAIN edges : Survives(source, e)
    /\ \A e \in DOMAIN source.edges :
         /\ source.edges[e].of \in live
         /\ stage \notin Early => Survives(source, e)
         /\ stage = "frame" => MadeFunctional(source, e)
         => e \in DOMAIN edges
    /\ stage = "frame" => \A e \in DOMAIN edges : edges[e].to # Unlinked

\* ... and in what shape.
Shape(e) ==
    LET x == edges[e]
        s == source.edges[e]
    IN  /\ x.of = s.of /\ x.alloc = 1 /\ x.stub = s.stub
        /\ stage \in Early => x.type = s.type
        /\ stage \in {"promoted", "fixed"} =>
             (x.type = "production" <=> MadeProduction(source, e))
        /\ stage \in AfterRelink \cup {"reclassified", "purged"} =>
             (x.type = "production" <=> MadeFunctional(source, e) /\ MadeProduction(source, e))
        /\ stage \in Early \cup {"promoted"} => x.n = s.n /\ (x.functional <=> s.functional)
        /\ stage \notin Early \cup {"promoted"} =>
             /\ x.n = IF e \in Stubs(source.edges) THEN 1 ELSE s.n
             /\ x.functional <=> MadeFunctional(source, e)
        /\ stage \in BeforeRelink =>
             IF Output(s) THEN x.to = s.to ELSE x.to \in KeptProducts(source) \cup {Unlinked}
        /\ x.functional => x.to = s.to

ShapeInv == \A e \in DOMAIN edges : Shape(e)

-----------------------------------------------------------------------------
(* Links and units *)

\* Exchanges that were not moved measure in the unit they name, which is that
\* of the activity they are linked to, and agree over a product.
UnitInv ==
    /\ stage \in {"parsed", "deleted"} =>
         \A e \in DOMAIN edges : edges[e] = source.edges[e]
    /\ stage \in BeforeRelink => rerouted = {}
    /\ \A e \in DOMAIN edges \ rerouted :
         /\ edges[e].measure = edges[e].unit
         /\ edges[e].to \in Activity =>
              /\ edges[e].unit = Catalog[edges[e].to].unit
              /\ stage \in {"matched", "exported", "frame"}
    /\ \A e, f \in DOMAIN edges \ rerouted :
         edges[e].to \in Product /\ edges[e].to = edges[f].to
         => edges[e].label = edges[f].label /\ edges[e].unit = edges[f].unit
    /\ \A e \in DOMAIN edges : Output(edges[e]) => e \notin rerouted

\* After the relinker a product that is asked for has an output, unless its
\* node was deleted under the row that names it.
SupplyInv ==
    /\ stage \in AfterRelink \ {"frame"} =>
         \A e \in DOMAIN edges :
           edges[e].to \in Product =>
             \/ edges[e].to \in Produced(edges)
             \/ e \in Production(source.edges) /\ edges[e].to \notin KeptProducts(source)
    /\ stage = "exported" => report = Residual(edges)

-----------------------------------------------------------------------------
(* Inputs followed through the chain *)

\* e asks for product q of system process p, and no other goes by its name.
AsksFor(e, p, q) ==
    LET asked == source.edges[e] IN
    /\ ListedProcess(source, p) /\ IsSystemProcess(source, p)
    /\ asked.of \in live /\ asked.to = Unlinked
    /\ q \in Targets(source.edges, Provides(source, p))
    /\ {r \in Product : NameOf[r] = asked.label.name /\ UnitOf[r] = asked.unit} = {q}

ReachedInv ==
    stage \notin {"parsed", "deleted"} =>
        \A p \in live, e \in Consumption(source.edges), q \in Product :
            AsksFor(e, p, q) => e \in DOMAIN edges /\ edges[e].to = q

\* e asks for what no product goes by.
AsksOutside(e) ==
    LET asked == source.edges[e] IN
    /\ asked.of \in live /\ asked.to = Unlinked
    /\ \A q \in Product : NameOf[q] = asked.label.name => UnitOf[q] # asked.unit

WithCorrected(e) == [source.edges[e] EXCEPT !.label.name = Corrected[@]]
WithRestored(e) == Relabelled(WithCorrected(e), Restored)

\* The matcher has but one activity to lead e to, in the unit e ends up in.
Leads(e, a) ==
    LET h == Harmonised(WithRestored(e)) IN
    /\ RelaxedHits(h) = {a}
    /\ \/ Catalog[a].ref = h.label.ref
       \/ Conversion[h.unit] = None /\ CustomFix[h.label.name] = None

LabelOk(e) ==
    /\ stage # "frame" => e \in DOMAIN edges
    /\ stage \in {"parsed", "deleted", "linked"} => edges[e] = source.edges[e]
    /\ stage = "corrected" => edges[e] = WithCorrected(e)
    /\ stage \in Middle \cup {"restored", "purged", "relinked"} => edges[e] = WithRestored(e)
    /\ stage \in AfterRelink \ {"relinked"} =>
         \A a \in Activity : Leads(e, a) => e \in DOMAIN edges /\ edges[e].to = a

LabelInv == \A e \in Consumption(source.edges) : AsksOutside(e) => LabelOk(e)

IndInv == /\ TypeInv /\ LiveInv /\ DomainInv /\ ShapeInv
          /\ UnitInv /\ SupplyInv /\ ReachedInv /\ LabelInv

-----------------------------------------------------------------------------
(* The choices of the relinker *)

LEMMA LeastNumber ==
    ASSUME NEW T \in SUBSET Nat, T # {}
    PROVE  \E m \in T : \A n \in T : m <= n
<1>1. PICK m \in T : \A n \in T : <<n, m>> \notin OpToRel(<, Nat)
  BY NatLessThanWellFounded, WFMin
<1>2. \A n \in T : ~ (n < m)
  BY <1>1 DEF OpToRel
<1>3. QED
  BY <1>2

\* Ranks are numbers, so a set of candidates has a least one.
LEMMA LeastIsMember ==
    ASSUME NEW S \in SUBSET (Product \cup Activity), S # {}
    PROVE  Least(S) \in S
<1>. DEFINE ranks == {Rank[x] : x \in S}
<1>1. ranks \in SUBSET Nat /\ ranks # {}
  BY LinkAssumption
<1>2. PICK m \in ranks : \A n \in ranks : m <= n
  BY <1>1, LeastNumber
<1>3. PICK x \in S : Rank[x] = m
  BY <1>2
<1>4. \A y \in S : Rank[x] <= Rank[y]
  BY <1>2, <1>3
<1>5. QED
  BY <1>4 DEF Least

LEMMA NearestIsMember ==
    ASSUME NEW S \in SUBSET (Product \cup Activity), NEW q \in Product, NEW at,
           OnChain(S, q, at) # {}
    PROVE  Nearest(S, q, at) \in S
<1>. DEFINE chain == Chain(q)
            hits(i) == {x \in S : at[x] = chain[i]}
            found == {i \in DOMAIN chain : hits(i) # {}}
            isFirst(i) == hits(i) # {} /\ \A j \in 1..(i - 1) : hits(j) = {}
            first == CHOOSE i \in DOMAIN chain : isFirst(i)
<1>1. chain \in Seq(Location \cup {None})
  <2>1. NameOf[q] \in Name /\ Place[NameOf[q]] \in Location \cup {None}
    BY LinkAssumption
  <2>2. Fallback \in Seq(Location \cup {None})
    BY LinkAssumption
  <2>3. QED
    BY <2>1, <2>2 DEF Chain
<1>. HIDE DEF chain
<1>2. found \in SUBSET Nat /\ found # {}
  BY <1>1 DEF OnChain, chain
<1>3. PICK i \in found : \A j \in found : i <= j
  BY <1>2, LeastNumber
<1>4. i \in DOMAIN chain /\ isFirst(i)
  BY <1>1, <1>3
<1>5. hits(first) # {}
  BY <1>4
<1>6. Least(hits(first)) \in hits(first)
  BY <1>5, LeastIsMember
<1>7. Nearest(S, q, at) = Least(hits(first))
  BY DEF Nearest, chain
<1>8. QED
  BY <1>6, <1>7

\* A new target is a node that counts as produced, or an activity.
LEMMA TargetType ==
    ASSUME nodes \subseteq Product, NEW q \in Product
    PROVE  \/ Target(q) = Unlinked
           \/ Target(q) \in nodes \cap Produced(edges)
           \/ Target(q) \in Activity
<1>1. CASE Stem[NameOf[q]] # None /\ Siblings(q) # {}
  <2>1. Siblings(q) \in SUBSET (Product \cup Activity)
    BY DEF Siblings
  <2>2. Sibling(q) \in Siblings(q)
    <3>1. CASE OnChain(Siblings(q), q, SiblingPlace) # {}
      BY <2>1, <3>1, NearestIsMember DEF Sibling
    <3>2. CASE OnChain(Siblings(q), q, SiblingPlace) = {}
      BY <1>1, <2>1, <3>2, LeastIsMember DEF Sibling
    <3>3. QED
      BY <3>1, <3>2
  <2>3. Target(q) = Sibling(q)
    BY <1>1 DEF Target
  <2>4. QED
    BY <2>2, <2>3 DEF Siblings
<1>2. CASE Stem[NameOf[q]] # None /\ Siblings(q) = {} /\ Hits(q) # {}
  <2>1. Hits(q) \in SUBSET Nat
    BY <1>2, LinkAssumption DEF Hits
  <2>2. PICK i \in Hits(q) : \A j \in Hits(q) : i <= j
    BY <1>2, <2>1, LeastNumber
  <2>. DEFINE k == CHOOSE n \in Hits(q) : \A j \in Hits(q) : n <= j
              here == {a \in Activity : Catalog[a].name = Candidates[Stem[NameOf[q]]][k]}
  <2>3. k \in Hits(q)
    BY <2>2
  <2>4. Named(q, k) # {}
    BY <2>3 DEF Hits
  <2>5. Named(q, k) \in SUBSET (Product \cup Activity)
    BY DEF Named, OnChain
  <2>. HIDE DEF k
  <2>6. OnChain(Named(q, k), q, ActivityPlace) # {}
    BY <2>4 DEF Named, OnChain
  <2>7. Nearest(Named(q, k), q, ActivityPlace) \in Named(q, k)
    BY <2>5, <2>6, NearestIsMember
  <2>8. Target(q) = Nearest(Named(q, k), q, ActivityPlace)
    BY <1>2 DEF Target, EcoinventHit, k
  <2>9. QED
    BY <2>7, <2>8 DEF Named, OnChain
<1>3. CASE ~(Stem[NameOf[q]] # None /\ (Siblings(q) # {} \/ Hits(q) # {}))
  BY <1>3 DEF Target
<1>4. QED
  BY <1>1, <1>2, <1>3

-----------------------------------------------------------------------------
(* Types *)

LEMMA SourceFacts == TypeInv => WellFormed(source)
BY SourceAssumption DEF TypeInv

\* Whose exchange it is, of which kind and amount.
SameCore(x, y) ==
    /\ y.of = x.of /\ y.type = x.type /\ y.functional = x.functional
    /\ y.stub = x.stub /\ y.n = x.n /\ y.alloc = x.alloc

LEMMA RelabelledType ==
    ASSUME NEW x \in Exchange, NEW table \in [Name -> Label \cup {None}]
    PROVE  /\ Relabelled(x, table) \in Exchange
           /\ SameCore(x, Relabelled(x, table))
           /\ Relabelled(x, table).to = x.to
           /\ Relabelled(x, table).unit = x.unit
           /\ Relabelled(x, table).measure = x.measure
<1>1. x.label \in Label /\ x.label.name \in Name
  BY DEF Exchange, Label
<1>2. CASE table[x.label.name] = None
  BY <1>2 DEF Relabelled, SameCore
<1>3. CASE table[x.label.name] # None
  <2>1. table[x.label.name] \in Label
    BY <1>1, <1>3
  <2>2. Relabelled(x, table) = [x EXCEPT !.label = table[x.label.name]]
    BY <1>3 DEF Relabelled
  <2>3. QED
    BY <2>1, <2>2 DEF Exchange, SameCore
<1>4. QED
  BY <1>2, <1>3

\* The relinker changes the target, the label and the unit.
LEMMA ReroutedType ==
    ASSUME NEW x \in Exchange, NEW t \in Product \cup Activity
    PROVE  /\ Rerouted(x, t) \in Exchange
           /\ SameCore(x, Rerouted(x, t))
           /\ Rerouted(x, t).measure = x.measure
           /\ Rerouted(x, t).to = t
<1>1. CASE t \in Product
  <2>. DEFINE l == [x.label EXCEPT !.name = NameOf[t], !.loc = Place[NameOf[t]]]
  <2>1. x.label \in Label
    BY DEF Exchange
  <2>2. UnitOf[t] \in Unit /\ l \in Label
    BY <1>1, <2>1, LinkAssumption DEF Label
  <2>3. Rerouted(x, t) = [x EXCEPT !.to = t, !.unit = UnitOf[t], !.label = l]
    BY <1>1, <2>1 DEF Rerouted, Exchange, Label
  <2>. HIDE DEF l
  <2>4. QED
    BY <1>1, <2>2, <2>3 DEF Exchange, SameCore
<1>2. CASE t \in Activity
  <2>. DEFINE l == [name |-> Catalog[t].name, loc |-> Catalog[t].loc, ref |-> Catalog[t].ref]
  <2>1. t \notin Product /\ Catalog[t] \in [name : Name, unit : Unit, loc : Location, ref : Ref]
    BY <1>2, LinkAssumption
  <2>2. l \in Label
    BY <2>1 DEF Label
  <2>3. Rerouted(x, t) = [x EXCEPT !.to = t, !.unit = Catalog[t].unit, !.label = l]
    BY <2>1 DEF Rerouted
  <2>. HIDE DEF l
  <2>4. QED
    BY <1>2, <2>1, <2>2, <2>3 DEF Exchange, SameCore
<1>3. QED
  BY <1>1, <1>2

LEMMA RelinkedType ==
    ASSUME TypeInv, NEW e \in DOMAIN edges
    PROVE  /\ Relinked(edges[e]) \in Exchange
           /\ SameCore(edges[e], Relinked(edges[e]))
           /\ Relinked(edges[e]).measure = edges[e].measure
<1>. DEFINE x == edges[e]
            t == Target(x.to)
<1>1. x \in Exchange /\ nodes \subseteq Product
  BY DEF TypeInv
<1>. HIDE DEF x
<1>2. CASE x.to \notin Orphans(edges)
  BY <1>1, <1>2 DEF Relinked, SameCore, x
<1>3. CASE x.to \in Orphans(edges) /\ t = Unlinked
  <2>1. Relinked(x) = [x EXCEPT !.to = Unlinked]
    BY <1>3 DEF Relinked
  <2>2. QED
    BY <1>1, <2>1 DEF Exchange, SameCore, x
<1>4. CASE x.to \in Orphans(edges) /\ t # Unlinked
  <2>1. t \in Product \cup Activity
    BY <1>1, <1>4, TargetType DEF Orphans
  <2>2. Relinked(x) = Rerouted(x, t)
    BY <1>4 DEF Relinked
  <2>. HIDE DEF t
  <2>3. QED
    BY <1>1, <2>1, <2>2, ReroutedType DEF x
<1>5. QED
  BY <1>2, <1>3, <1>4

\* What every pass of the matcher keeps: who takes how much of what, a link
\* that is there, and that a number is told in the unit of its link.
Sound(x) == /\ x.measure = x.unit
            /\ x.to \in Activity => x.unit = Catalog[x.to].unit

Pass(x, y) ==
    /\ y \in Exchange /\ SameCore(x, y)
    /\ x.to # Unlinked => y = x
    /\ y.to # x.to => y.to \in Activity /\ x.type = "technosphere"
    /\ Sound(x) => Sound(y)

LEMMA PassTransitive ==
    ASSUME NEW x, NEW y, NEW z, Pass(x, y), Pass(y, z)
    PROVE  Pass(x, z)
<1>1. CASE x.to # Unlinked
  BY <1>1 DEF Pass
<1>2. CASE x.to = Unlinked /\ y.to # Unlinked
  <2>1. z = y
    BY <1>2 DEF Pass
  <2>2. QED
    BY <2>1
<1>3. CASE x.to = Unlinked /\ y.to = Unlinked
  BY <1>3 DEF Pass, SameCore
<1>4. QED
  BY <1>1, <1>2, <1>3

\* Both ends of a product link are converted alike.
LEMMA HarmonisedFacts ==
    ASSUME NEW x \in Exchange
    PROVE  /\ Harmonised(x) \in Exchange
           /\ SameCore(x, Harmonised(x))
           /\ Harmonised(x).to = x.to /\ Harmonised(x).label = x.label
           /\ x.measure = x.unit => Harmonised(x).measure = Harmonised(x).unit
<1>1. CASE x.label.name \in Electricity /\ x.unit = Megajoule
  <2>1. Harmonised(x) = [x EXCEPT !.unit = KilowattHour,
                           !.measure = IF @ = Megajoule THEN KilowattHour ELSE Garbled]
    BY <1>1 DEF Harmonised, Rescaled
  <2>2. QED
    BY <1>1, <2>1, LinkAssumption DEF SameCore, Exchange
<1>2. CASE ~(x.label.name \in Electricity /\ x.unit = Megajoule)
  BY <1>2 DEF Harmonised, SameCore
<1>3. QED
  BY <1>1, <1>2

LEMMA ConvertedPass ==
    ASSUME NEW x \in Exchange
    PROVE  Pass(x, Converted(x))
<1>1. x.unit \in Unit /\ Conversion[x.unit] \in Unit \cup {None}
  BY LinkAssumption DEF Exchange
<1>2. CASE IsUnlinked(x) /\ Conversion[x.unit] # None
  <2>1. Converted(x) = [x EXCEPT !.unit = Conversion[x.unit],
                  !.measure = IF @ = x.unit THEN Conversion[x.unit] ELSE Garbled]
    BY <1>2 DEF Converted, Rescaled
  <2>2. Converted(x) \in Exchange
    BY <1>1, <1>2, <2>1 DEF Exchange
  <2>3. Converted(x).to = Unlinked /\ x.to = Unlinked /\ Unlinked \notin Activity
    BY <1>2, <2>1, LinkAssumption DEF Exchange, IsUnlinked
  <2>4. SameCore(x, Converted(x))
    BY <2>1 DEF Exchange, SameCore
  <2>5. Sound(x) => Sound(Converted(x))
    BY <2>1, <2>3 DEF Exchange, Sound
  <2>6. QED
    BY <2>2, <2>3, <2>4, <2>5 DEF Pass
<1>3. CASE ~(IsUnlinked(x) /\ Conversion[x.unit] # None)
  BY <1>3 DEF Pass, SameCore, Converted
<1>4. QED
  BY <1>2, <1>3

LEMMA CustomisedPass ==
    ASSUME NEW x \in Exchange
    PROVE  Pass(x, Customised(x))
<1>1. CASE x.to = Unlinked
  <2>1. Customised(x) = Relabelled(x, CustomFix)
    BY <1>1 DEF Customised
  <2>2. Relabelled(x, CustomFix) \in Exchange /\ SameCore(x, Relabelled(x, CustomFix))
    BY RelabelledType, LinkAssumption
  <2>3. Sound(x) => Sound(Relabelled(x, CustomFix))
    BY RelabelledType, LinkAssumption DEF Sound
  <2>4. Relabelled(x, CustomFix).to = x.to
    BY RelabelledType, LinkAssumption
  <2>5. QED
    BY <1>1, <2>1, <2>2, <2>3, <2>4 DEF Pass
<1>2. CASE x.to # Unlinked
  BY <1>2 DEF Pass, SameCore, Customised
<1>3. QED
  BY <1>1, <1>2

\* A pass links what is not linked, to one of its hits.
LEMMA LinkedToPass ==
    ASSUME NEW x \in Exchange, NEW H \in SUBSET Activity,
           \A a \in H : Catalog[a].unit = x.unit
    PROVE  Pass(x, LinkedTo(x, H))
<1>1. CASE IsUnlinked(x) /\ Cardinality(H) = 1
  <2>. DEFINE a == CHOOSE b \in H : TRUE
  <2>1. H # {}
    BY <1>1, FS_EmptySet
  <2>2. a \in H
    BY <2>1
  <2>3. LinkedTo(x, H) = [x EXCEPT !.to = a]
    BY <1>1 DEF LinkedTo
  <2>. HIDE DEF a
  <2>4. QED
    BY <1>1, <2>2, <2>3 DEF Pass, SameCore, Sound, IsUnlinked, Exchange
<1>2. CASE ~(IsUnlinked(x) /\ Cardinality(H) = 1)
  BY <1>2 DEF Pass, SameCore, LinkedTo
<1>3. QED
  BY <1>1, <1>2

LEMMA StrictPass ==
    ASSUME NEW x \in Exchange
    PROVE  Pass(x, Strict(x))
<1>. DEFINE H == {a \in RelaxedHits(x) : Catalog[a].ref = x.label.ref}
<1>1. H \in SUBSET Activity /\ \A a \in H : Catalog[a].unit = x.unit
  BY DEF RelaxedHits
<1>2. Strict(x) = LinkedTo(x, H)
  BY DEF Strict
<1>. HIDE DEF H
<1>3. QED
  BY <1>1, <1>2, LinkedToPass

LEMMA RelaxedPass ==
    ASSUME NEW x \in Exchange
    PROVE  Pass(x, Relaxed(x))
<1>1. RelaxedHits(x) \in SUBSET Activity /\ \A a \in RelaxedHits(x) : Catalog[a].unit = x.unit
  BY DEF RelaxedHits
<1>2. QED
  BY <1>1, LinkedToPass DEF Relaxed

\* All passes but the first.
LEMMA MatchedPass ==
    ASSUME NEW x \in Exchange
    PROVE  Pass(Harmonised(x), Matched(x))
<1>. DEFINE h == Harmonised(x)
            s1 == Strict(h)
            c == Converted(s1)
            s2 == Strict(c)
            u == Customised(s2)
            s3 == Strict(u)
<1>1. h \in Exchange
  BY HarmonisedFacts
<1>. HIDE DEF h
<1>2. Pass(h, s1) /\ s1 \in Exchange
  BY <1>1, StrictPass DEF Pass
<1>. HIDE DEF s1
<1>3. Pass(s1, c) /\ c \in Exchange
  BY <1>2, ConvertedPass DEF Pass
<1>. HIDE DEF c
<1>4. Pass(c, s2) /\ s2 \in Exchange
  BY <1>3, StrictPass DEF Pass
<1>. HIDE DEF s2
<1>5. Pass(s2, u) /\ u \in Exchange
  BY <1>4, CustomisedPass DEF Pass
<1>. HIDE DEF u
<1>6. Pass(u, s3) /\ s3 \in Exchange
  BY <1>5, StrictPass DEF Pass
<1>. HIDE DEF s3
<1>7. Pass(s3, Relaxed(s3))
  BY <1>6, RelaxedPass
<1>8. Matched(x) = Relaxed(s3)
  BY DEF Matched, s3, u, s2, c, s1, h
<1>9. Pass(h, c)
  BY <1>2, <1>3, PassTransitive
<1>10. Pass(h, s2)
  BY <1>9, <1>4, PassTransitive
<1>11. Pass(h, u)
  BY <1>10, <1>5, PassTransitive
<1>12. Pass(h, s3)
  BY <1>11, <1>6, PassTransitive
<1>13. Pass(h, Relaxed(s3))
  BY <1>12, <1>7, PassTransitive
<1>14. QED
  BY <1>8, <1>13 DEF h

\* The matcher as a whole.
LEMMA MatchedFacts ==
    ASSUME NEW x \in Exchange
    PROVE  /\ Matched(x) \in Exchange /\ SameCore(x, Matched(x))
           /\ x.to # Unlinked => Matched(x) = Harmonised(x) /\ Matched(x).to = x.to
           /\ Matched(x).to # x.to => /\ Matched(x).to \in Activity
                                      /\ x.type = "technosphere"
           /\ x.measure = x.unit /\ x.to \notin Activity => Sound(Matched(x))
<1>. DEFINE h == Harmonised(x)
            m == Matched(x)
<1>1. /\ h \in Exchange /\ SameCore(x, h) /\ h.to = x.to
      /\ x.measure = x.unit => h.measure = h.unit
  BY HarmonisedFacts
<1>2. Pass(h, m)
  BY MatchedPass
<1>. HIDE DEF h, m
<1>3. m \in Exchange /\ SameCore(x, m)
  BY <1>1, <1>2 DEF Pass, SameCore
<1>4. x.to # Unlinked => m = h /\ m.to = x.to
  BY <1>1, <1>2 DEF Pass
<1>5. m.to # x.to => m.to \in Activity /\ x.type = "technosphere"
  BY <1>1, <1>2 DEF Pass, SameCore
<1>6. x.measure = x.unit /\ x.to \notin Activity => Sound(m)
  BY <1>1, <1>2 DEF Pass, Sound
<1>7. QED
  BY <1>3, <1>4, <1>5, <1>6 DEF h, m

LEMMA TypeStep == TypeInv /\ [Next]_vars => TypeInv'
<1>. SUFFICES ASSUME TypeInv, [Next]_vars PROVE TypeInv'
  OBVIOUS
<1>. USE DEF TypeInv, Stages, Early, Middle, BeforeRelink, AfterRelink
<1>1. CASE DeleteAggregates
  BY <1>1 DEF DeleteAggregates, KeptProcesses, KeptProducts, OfLive, Keep
<1>2. CASE LinkInternal
  <2>1. ASSUME NEW e \in DOMAIN edges PROVE LinkedByName(edges[e]) \in Exchange
    <3>1. CASE edges[e].to = Unlinked /\ Cardinality(Namesakes(edges[e])) = 1
      <4>1. Namesakes(edges[e]) # {}
        BY <3>1, FS_EmptySet
      <4>2. (CHOOSE q \in Namesakes(edges[e]) : TRUE) \in Product
        BY <4>1 DEF Namesakes
      <4>3. QED
        BY <3>1, <4>2, ZenonT(30) DEF LinkedByName, Exchange
    <3>2. CASE ~(edges[e].to = Unlinked /\ Cardinality(Namesakes(edges[e])) = 1)
      BY <3>2 DEF LinkedByName
    <3>3. QED
      BY <3>1, <3>2
  <2>2. QED
    BY <1>2, <2>1 DEF LinkInternal
<1>3. CASE CorrectLabels
  <2>1. ASSUME NEW e \in DOMAIN edges
        PROVE  [edges[e] EXCEPT !.label.name = Corrected[@]] \in Exchange
    <3>1. edges[e].label \in Label /\ Corrected[edges[e].label.name] \in Name
      BY LinkAssumption DEF Exchange, Label
    <3>2. QED
      BY <3>1 DEF Exchange, Label
  <2>2. QED
    BY <1>3, <2>1 DEF CorrectLabels
<1>4. CASE RestoreNames
  BY <1>4, RelabelledType, LinkAssumption DEF RestoreNames
<1>5. CASE Promote
  <2>1. ASSUME NEW e \in DOMAIN edges PROVE Flipped(edges)[e] \in Exchange
    BY DEF Flipped, Exchange
  <2>2. DOMAIN Flipped(edges) = DOMAIN edges
    BY DEF Flipped
  <2>3. QED
    BY <1>5, <2>1, <2>2 DEF Promote, Promoted, Keep
<1>6. CASE FixDummies
  <2>1. ASSUME NEW e \in DOMAIN edges PROVE Fixed(edges)[e] \in Exchange
    BY DEF Fixed, Exchange
  <2>2. DOMAIN Fixed(edges) = DOMAIN edges
    BY DEF Fixed
  <2>3. QED
    BY <1>6, <2>1, <2>2 DEF FixDummies
<1>7. CASE Reclassify
  <2>1. ASSUME NEW e \in DOMAIN edges PROVE Reclassified(edges)[e] \in Exchange
    BY DEF Reclassified, Exchange
  <2>2. DOMAIN Reclassified(edges) = DOMAIN edges
    BY DEF Reclassified
  <2>3. QED
    BY <1>7, <2>1, <2>2 DEF Reclassify
<1>8. CASE Purge
  BY <1>8 DEF Purge, OfLive, Keep
<1>9. CASE RelinkOrphans
  BY <1>9, RelinkedType DEF RelinkOrphans
<1>10. CASE MatchTechnosphere
  BY <1>10, MatchedFacts DEF MatchTechnosphere
<1>11. CASE ExportUnlinked
  BY <1>11 DEF ExportUnlinked
<1>12. CASE BuildFrame
  BY <1>12 DEF BuildFrame, Keep
<1>13. CASE UNCHANGED vars
  BY <1>13 DEF vars
<1>14. QED
  BY <1>1, <1>2, <1>3, <1>4, <1>5, <1>6, <1>7, <1>8, <1>9, <1>10, <1>11, <1>12, <1>13
  DEF Next

-----------------------------------------------------------------------------
(* What a well-formed inventory says of its processes *)

\* What the parser yields of an exchange.
LEMMA SourceExchange ==
    ASSUME NEW S, WellFormed(S), NEW e \in DOMAIN S.edges
    PROVE  /\ S.edges[e] \in Exchange
           /\ S.edges[e].measure = S.edges[e].unit /\ S.edges[e].alloc = 1
           /\ S.edges[e].label.loc = None /\ S.edges[e].label.ref = None
           /\ Output(S.edges[e]) =>
                /\ S.edges[e].to \in Product
                /\ S.edges[e].label.name = NameOf[S.edges[e].to]
                /\ S.edges[e].unit = UnitOf[S.edges[e].to]
           /\ ~Output(S.edges[e]) => S.edges[e].to = Unlinked
           /\ S.edges[e].stub => /\ S.edges[e].type = "production"
                                 /\ ~S.edges[e].functional /\ S.edges[e].n = 0
                                 /\ \A f \in DOMAIN S.edges :
                                      /\ S.edges[f].of = S.edges[e].of
                                      /\ S.edges[f].type = "production"
                                      => f = e
<1>. DEFINE x == S.edges[e]
<1>1. WellFormed(S)!4!(e)
  BY DEF WellFormed
<1>2. QED
  BY <1>1 DEF Output

LEMMA StubFacts ==
    ASSUME NEW S, WellFormed(S), NEW e \in Stubs(S.edges)
    PROVE  /\ e \in DOMAIN S.edges
           /\ S.edges[e].type = "production" /\ ~S.edges[e].functional
           /\ S.edges[e].n = 0 /\ S.edges[e].stub
           /\ \A f \in Of(S.edges, S.edges[e].of) :
                S.edges[f].type = "production" => f = e
BY SourceExchange DEF Stubs, Production, Functional, Of

\* The three kinds of process.
Made(E, p) == Of(E, p) \cap Real(E) \cap Functional(E)
Treated(E, p) == Of(E, p) \cap Consumption(E) \cap Functional(E)

LEMMA PromotedIff ==
    ASSUME NEW E, NEW p \in Process
    PROVE  p \in ToPromote(E) <=> Made(E, p) = {} /\ Treated(E, p) # {}
BY DEF ToPromote, Made, Treated

\* No functional exchange stands beside a dummy that survives.
LEMMA StubIsAlone ==
    ASSUME NEW S, WellFormed(S), NEW e \in Stubs(S.edges), Survives(S, e),
           NEW f \in Of(S.edges, S.edges[e].of)
    PROVE  ~S.edges[f].functional
<1>. DEFINE p == S.edges[e].of
<1>1. /\ e \in DOMAIN S.edges /\ S.edges[e].type = "production" /\ S.edges[e].n = 0
      /\ \A g \in Of(S.edges, p) : S.edges[g].type = "production" => g = e
      /\ ~S.edges[e].functional
  BY StubFacts
<1>2. p \in Process
  BY <1>1, SourceExchange DEF Exchange
<1>3. p \notin ToPromote(S.edges)
  BY <1>1 DEF Survives, Output
<1>4. Made(S.edges, p) = {}
  BY <1>1 DEF Made, Real, Production
<1>5. Treated(S.edges, p) = {}
  BY <1>2, <1>3, <1>4, PromotedIff
<1>6. S.edges[f].type \in {"production", "technosphere"}
  BY SourceExchange DEF Exchange, Of
<1>7. QED
  BY <1>1, <1>5, <1>6 DEF Treated, Consumption, Functional, Of

\* What is left of the outputs is what the process provides.
LEMMA ProvidesIff ==
    ASSUME NEW S, WellFormed(S), NEW p \in Process, NEW e \in Of(S.edges, p)
    PROVE  e \in Provides(S, p) <=>
             /\ Survives(S, e) /\ MadeFunctional(S, e) /\ MadeProduction(S, e)
             /\ e \in Stubs(S.edges) \/ S.edges[e].n # 0
<1>. DEFINE E == S.edges
            x == E[e]
            right == /\ Survives(S, e) /\ MadeFunctional(S, e) /\ MadeProduction(S, e)
                     /\ e \in Stubs(S.edges) \/ x.n # 0
<1>1. e \in DOMAIN E /\ x.of = p /\ x.type \in {"production", "technosphere"}
  BY SourceExchange DEF Exchange, Of
<1>2. e \in Stubs(E) => /\ x.type = "production" /\ ~x.functional /\ x.n = 0
                        /\ \A f \in Of(E, p) : E[f].type = "production" => f = e
  BY <1>1, StubFacts
<1>3. CASE Made(E, p) # {}
  <2>1. Provides(S, p) = Made(E, p)
    BY <1>3 DEF Provides, Made, Treated
  <2>2. p \notin ToPromote(E)
    BY <1>3, PromotedIff
  <2>3. e \notin Stubs(E)
    BY <1>2, <1>3 DEF Made, Real, Production, Functional
  <2>4. right <=> x.functional /\ x.type = "production" /\ x.n # 0
    BY <1>1, <2>2, <2>3 DEF Survives, MadeFunctional, MadeProduction
  <2>5. e \in Made(E, p) <=> x.functional /\ x.type = "production" /\ x.n # 0
    BY <1>1 DEF Made, Real, Production, Functional
  <2>6. QED
    BY <2>1, <2>4, <2>5
<1>4. CASE Made(E, p) = {} /\ Treated(E, p) # {}
  <2>1. Provides(S, p) = {f \in Treated(E, p) : E[f].n # 0}
    BY <1>4 DEF Provides, Made, Treated
  <2>2. p \in ToPromote(E)
    BY <1>4, PromotedIff
  <2>3. right <=> x.functional /\ x.n # 0
    BY <1>1, <1>2, <2>2 DEF Survives, MadeFunctional, MadeProduction, Output
  <2>4. e \in Treated(E, p) <=> x.functional /\ x.type = "technosphere"
    BY <1>1 DEF Treated, Consumption, Functional
  <2>5. ~(x.functional /\ x.type = "production" /\ x.n # 0)
    BY <1>1, <1>4 DEF Made, Real, Production, Functional
  <2>6. QED
    BY <1>1, <2>1, <2>3, <2>4, <2>5
<1>5. CASE Made(E, p) = {} /\ Treated(E, p) = {}
  <2>1. Provides(S, p) = Of(E, p) \cap Stubs(E)
    BY <1>5 DEF Provides, Made, Treated
  <2>2. p \notin ToPromote(E)
    BY <1>5, PromotedIff
  <2>3. ~(x.functional /\ x.type = "production" /\ x.n # 0)
    BY <1>1, <1>5 DEF Made, Real, Production, Functional
  <2>4. ~(x.functional /\ x.type = "technosphere")
    BY <1>1, <1>5 DEF Treated, Consumption, Functional
  <2>5. right <=> e \in Stubs(E)
    BY <1>1, <1>2, <2>2, <2>3, <2>4 DEF Survives, MadeFunctional, MadeProduction
  <2>6. QED
    BY <2>1, <2>5
<1>6. QED
  BY <1>3, <1>4, <1>5

LEMMA ProvidesType ==
    ASSUME NEW S, NEW p
    PROVE  Provides(S, p) \subseteq Of(S.edges, p)
<1>1. CASE Made(S.edges, p) # {}
  BY <1>1 DEF Provides, Made, Treated
<1>2. CASE Made(S.edges, p) = {} /\ Treated(S.edges, p) # {}
  BY <1>2 DEF Provides, Made, Treated
<1>3. CASE Made(S.edges, p) = {} /\ Treated(S.edges, p) = {}
  BY <1>3 DEF Provides, Made, Treated
<1>4. QED
  BY <1>1, <1>2, <1>3

\* The processes that keep an output are those that provide something, or
\* only make an amount of zero.
LEMMA ServingIff ==
    ASSUME NEW S, WellFormed(S)
    PROVE  Serving(S) = {p \in KeptProcesses(S) : Provides(S, p) # {} \/ MakesZero(S, p)}
<1>. DEFINE E == S.edges
<1>. SUFFICES ASSUME NEW p \in KeptProcesses(S)
              PROVE  (\E e \in Of(E, p) : Survives(S, e) /\ MadeFunctional(S, e))
                     <=> Provides(S, p) # {} \/ MakesZero(S, p)
  BY DEF Serving
<1>1. p \in Process
  BY DEF KeptProcesses
<1>2. Provides(S, p) # {} => \E e \in Of(E, p) : Survives(S, e) /\ MadeFunctional(S, e)
  BY <1>1, ProvidesIff, ProvidesType
<1>3. ASSUME MakesZero(S, p)
      PROVE  \E e \in Of(E, p) : Survives(S, e) /\ MadeFunctional(S, e)
  <2>1. PICK e \in Of(E, p) : E[e].functional
    BY <1>3 DEF MakesZero, Functional
  <2>2. p \notin ToPromote(E)
    BY <1>3 DEF MakesZero, ToPromote
  <2>3. QED
    BY <2>1, <2>2 DEF Survives, MadeFunctional, Of
<1>4. ASSUME NEW e \in Of(E, p), Survives(S, e), MadeFunctional(S, e)
      PROVE  Provides(S, p) # {} \/ MakesZero(S, p)
  <2>1. e \in DOMAIN E /\ E[e].of = p /\ E[e].type \in {"production", "technosphere"}
    BY SourceExchange DEF Exchange, Of
  <2>2. CASE p \in ToPromote(E)
    <3>1. e \notin Stubs(E)
      BY <1>4, <2>1, <2>2, StubFacts DEF Survives, Output
    <3>2. MadeProduction(S, e) /\ E[e].n # 0
      BY <1>4, <2>1, <2>2, <3>1 DEF Survives, MadeFunctional, MadeProduction, Output
    <3>3. QED
      BY <1>1, <1>4, <3>2, ProvidesIff
  <2>3. CASE p \notin ToPromote(E) /\ Made(E, p) # {}
    BY <2>3 DEF Provides, Made, Treated
  <2>4. CASE p \notin ToPromote(E) /\ Made(E, p) = {}
    <3>1. Treated(E, p) = {}
      BY <1>1, <2>4, PromotedIff
    <3>2. CASE e \in Stubs(E)
      BY <2>4, <3>1, <3>2 DEF Provides, Made, Treated
    <3>3. CASE E[e].functional
      BY <2>1, <3>1, <3>3 DEF MakesZero, Treated, Production, Functional, Consumption, Of
    <3>4. QED
      BY <1>4, <3>2, <3>3 DEF MadeFunctional
  <2>5. QED
    BY <2>2, <2>3, <2>4
<1>5. QED
  BY <1>2, <1>3, <1>4

\* A listed system process is no consumer, so that its products are those of
\* its productions, all of which are kept.
LEMMA SystemProcessFacts ==
    ASSUME NEW S, WellFormed(S), NEW p \in Process, ListedProcess(S, p), IsSystemProcess(S, p),
           NEW q \in Product, q \in Targets(S.edges, Provides(S, p))
    PROVE  /\ q \in KeptProducts(S)
           /\ \E f \in Of(S.edges, p) : /\ Survives(S, f) /\ MadeFunctional(S, f)
                                        /\ S.edges[f].to = q
<1>. DEFINE E == S.edges
<1>1. PICK f \in Provides(S, p) : E[f].to = q
  BY DEF Targets
<1>2. f \in Of(E, p) /\ Survives(S, f) /\ MadeFunctional(S, f)
  BY <1>1, ProvidesType, ProvidesIff
<1>3. f \in DOMAIN E /\ E[f].of = p /\ E[f].type \in {"production", "technosphere"}
  BY <1>2, SourceExchange DEF Exchange, Of
<1>4. f \in Production(E)
  BY <1>2, <1>3 DEF IsSystemProcess, Consumption, Production, Of
<1>5. q \in Paired(S)
  BY <1>1, <1>3, <1>4 DEF Paired
<1>6. QED
  BY <1>1, <1>2, <1>5 DEF KeptProducts

-----------------------------------------------------------------------------
(* The inductive invariant *)

LEMMA InitInv == Init => IndInv
<1>. SUFFICES ASSUME Init PROVE IndInv
  OBVIOUS
<1>. USE DEF Stages, Early, Middle, BeforeRelink, AfterRelink
<1>1. stage = "parsed" /\ source \in Sources /\ live = Process /\ nodes = Product
      /\ edges = source.edges /\ rerouted = {}
  BY DEF Init
<1>2. WellFormed(source)
  BY <1>1, SourceAssumption
<1>3. TypeInv
  BY <1>1, <1>2, SourceExchange DEF TypeInv
<1>4. LiveInv
  BY <1>1 DEF LiveInv
<1>5. DomainInv
  <2>1. \A e \in DOMAIN edges : source.edges[e].of \in live
    BY <1>1, <1>2, SourceExchange DEF Exchange
  <2>2. QED
    BY <1>1, <2>1 DEF DomainInv
<1>6. ShapeInv
  <2>. SUFFICES ASSUME NEW e \in DOMAIN edges PROVE Shape(e)
    BY DEF ShapeInv
  <2>1. /\ source.edges[e].alloc = 1
        /\ Output(source.edges[e]) \/ source.edges[e].to = Unlinked
        /\ source.edges[e].functional => Output(source.edges[e])
    BY <1>1, <1>2, SourceExchange DEF Output
  <2>2. QED
    BY <1>1, <2>1 DEF Shape
<1>7. UnitInv
  <2>1. ASSUME NEW e \in DOMAIN edges
        PROVE  /\ edges[e].measure = edges[e].unit /\ edges[e].to \notin Activity
               /\ edges[e].label \in Label
               /\ edges[e].label.loc = None /\ edges[e].label.ref = None
               /\ edges[e].to \in Product => /\ edges[e].label.name = NameOf[edges[e].to]
                                             /\ edges[e].unit = UnitOf[edges[e].to]
    <3>. DEFINE x == source.edges[e]
    <3>1. /\ x \in Exchange /\ x.measure = x.unit /\ x.label.loc = None /\ x.label.ref = None
          /\ Output(x) => /\ x.to \in Product /\ x.label.name = NameOf[x.to]
                          /\ x.unit = UnitOf[x.to]
          /\ ~Output(x) => x.to = Unlinked
      BY <1>1, <1>2, SourceExchange
    <3>2. Product \cap Activity = {} /\ Unlinked \notin Product \cup Activity
      BY LinkAssumption
    <3>3. x.label \in Label
      BY <3>1 DEF Exchange
    <3>4. QED
      BY <1>1, <3>1, <3>2, <3>3
  <2>2. ASSUME NEW e \in DOMAIN edges, NEW f \in DOMAIN edges,
               edges[e].to \in Product, edges[e].to = edges[f].to
        PROVE  edges[e].label = edges[f].label /\ edges[e].unit = edges[f].unit
    BY <2>1, <2>2 DEF Label
  <2>3. QED
    BY <1>1, <2>1, <2>2 DEF UnitInv
<1>8. SupplyInv /\ ReachedInv
  BY <1>1 DEF SupplyInv, ReachedInv
<1>9. LabelInv
  <2>1. \A e \in Consumption(source.edges) : e \in DOMAIN edges /\ edges[e] = source.edges[e]
    BY <1>1 DEF Consumption
  <2>2. QED
    BY <1>1, <2>1 DEF LabelInv, LabelOk
<1>10. QED
  BY <1>3, <1>4, <1>5, <1>6, <1>7, <1>8, <1>9 DEF IndInv

LEMMA SourceStays == [Next]_vars => source' = source
BY DEF Next, vars, DeleteAggregates, LinkInternal, CorrectLabels, RestoreNames, Promote,
       FixDummies, Reclassify, Purge, RelinkOrphans, MatchTechnosphere, ExportUnlinked,
       BuildFrame

\* Nobody comes back to life.
LEMMA LiveShrinks == LiveInv /\ [Next]_vars => live' \subseteq live
BY DEF LiveInv, Early, Middle, BeforeRelink, Next, vars, DeleteAggregates, KeptProcesses,
       LinkInternal, CorrectLabels, RestoreNames, Promote, FixDummies, Reclassify, Purge,
       RelinkOrphans, MatchTechnosphere, ExportUnlinked, BuildFrame

LEMMA LiveStep == IndInv /\ [Next]_vars => LiveInv'
<1>. SUFFICES ASSUME IndInv, [Next]_vars PROVE LiveInv'
  OBVIOUS
<1>. USE DEF Stages, Early, Middle, BeforeRelink, AfterRelink
<1>0. TypeInv /\ LiveInv /\ DomainInv /\ ShapeInv /\ source' = source
  BY SourceStays DEF IndInv
<1>1. CASE DeleteAggregates
  BY <1>0, <1>1 DEF DeleteAggregates, LiveInv
<1>2. CASE Purge
  <2>1. stage = "reclassified" /\ live = KeptProcesses(source) /\ nodes = KeptProducts(source)
    BY <1>0, <1>2 DEF Purge, LiveInv
  <2>2. ASSUME NEW e \in DOMAIN edges
        PROVE  /\ edges[e].of = source.edges[e].of /\ e \in DOMAIN source.edges
               /\ Survives(source, e)
               /\ edges[e].type = "production" \/ edges[e].functional
                  <=> MadeFunctional(source, e)
    BY <1>0, <2>1 DEF TypeInv, DomainInv, ShapeInv, Shape
  <2>3. ASSUME NEW p \in live
        PROVE  HasFunctionalOutput(p) <=>
                 \E e \in Of(source.edges, p) : Survives(source, e) /\ MadeFunctional(source, e)
    <3>1. \A e \in Of(source.edges, p) : Survives(source, e) => e \in Of(edges, p)
      BY <1>0, <2>1, <2>2, <2>3 DEF Of, DomainInv
    <3>2. Of(edges, p) \subseteq Of(source.edges, p)
      BY <2>2 DEF Of
    <3>3. \A e \in Of(edges, p) : e \in DOMAIN edges
      BY DEF Of
    <3>4. QED
      BY <2>2, <3>1, <3>2, <3>3 DEF HasFunctionalOutput, Production, Functional
  <2>4. live' = Serving(source)
    BY <1>2, <2>1, <2>3 DEF Purge, Serving
  <2>5. QED
    BY <1>0, <1>2, <2>1, <2>4 DEF Purge, LiveInv
<1>3. CASE ~DeleteAggregates /\ ~Purge
  BY <1>0, <1>3 DEF LiveInv, Next, vars, LinkInternal, CorrectLabels, RestoreNames, Promote,
     FixDummies, Reclassify, RelinkOrphans, MatchTechnosphere, ExportUnlinked, BuildFrame
<1>4. QED
  BY <1>1, <1>2, <1>3

\* The promoter decides on the graph as it would on the inventory.
LEMMA PromoteAgrees ==
    ASSUME IndInv, stage \in Early
    PROVE  /\ \A p \in live : p \in ToPromote(edges) <=> p \in ToPromote(source.edges)
           /\ \A p \in ToPromote(edges) : p \in live
<1>1. TypeInv /\ DomainInv /\ ShapeInv
  BY DEF IndInv
<1>2. ASSUME NEW e \in DOMAIN edges
      PROVE  /\ e \in DOMAIN source.edges /\ edges[e].of = source.edges[e].of
             /\ edges[e].type = source.edges[e].type /\ edges[e].n = source.edges[e].n
             /\ edges[e].functional <=> source.edges[e].functional
             /\ edges[e].of \in live
  BY <1>1 DEF TypeInv, DomainInv, ShapeInv, Shape
<1>3. ASSUME NEW p \in live PROVE Of(edges, p) = Of(source.edges, p)
  BY <1>1, <1>2 DEF Of, DomainInv, Early
<1>4. ASSUME NEW p \in live
      PROVE  Made(edges, p) = Made(source.edges, p) /\ Treated(edges, p) = Treated(source.edges, p)
  <2>1. \A e \in Of(edges, p) : e \in DOMAIN edges
    BY DEF Of
  <2>2. QED
    BY <1>2, <1>3, <2>1 DEF Made, Treated, Real, Production, Consumption, Functional
<1>5. live \subseteq Process
  BY <1>1 DEF TypeInv
<1>6. \A p \in ToPromote(edges) : p \in live
  BY <1>2 DEF ToPromote, Of
<1>7. QED
  BY <1>4, <1>5, <1>6, PromotedIff

\* What the promoter makes of an exchange, and which ones it leaves.
LEMMA PromotedFacts ==
    ASSUME IndInv, stage = "restored"
    PROVE  /\ DOMAIN Promoted(edges) = {e \in DOMAIN edges : Survives(source, e)}
           /\ \A e \in DOMAIN Promoted(edges) :
                /\ SameCore([edges[e] EXCEPT !.type = Promoted(edges)[e].type],
                            Promoted(edges)[e])
                /\ Promoted(edges)[e].to = edges[e].to
                /\ Promoted(edges)[e].label = edges[e].label
                /\ Promoted(edges)[e].unit = edges[e].unit
                /\ Promoted(edges)[e].measure = edges[e].measure
                /\ Promoted(edges)[e].type = "production" <=> MadeProduction(source, e)
                /\ ~edges[e].functional => Promoted(edges)[e] = edges[e]
<1>. DEFINE F == Flipped(edges)
            up == ToPromote(edges)
<1>1. TypeInv /\ DomainInv /\ ShapeInv
  BY DEF IndInv
<1>2. /\ \A p \in live : p \in up <=> p \in ToPromote(source.edges)
      /\ \A p \in up : p \in live
  BY PromoteAgrees DEF Early
<1>3. ASSUME NEW e \in DOMAIN edges
      PROVE  /\ edges[e] \in Exchange /\ edges[e].of \in live
             /\ edges[e].of = source.edges[e].of /\ edges[e].n = source.edges[e].n
             /\ edges[e].type = source.edges[e].type
             /\ edges[e].functional <=> source.edges[e].functional
  BY <1>1 DEF TypeInv, DomainInv, ShapeInv, Shape, Early
<1>. HIDE DEF up
<1>4. ASSUME NEW e \in DOMAIN edges
      PROVE  /\ e \in DOMAIN F
             /\ F[e] = IF edges[e].functional /\ edges[e].of \in up
                         THEN [edges[e] EXCEPT !.type = "production"] ELSE edges[e]
  BY DEF Flipped, up
<1>5. DOMAIN F = DOMAIN edges
  BY DEF Flipped
<1>. HIDE DEF F
<1>6. ASSUME NEW e \in DOMAIN edges
      PROVE  /\ F[e].of = edges[e].of /\ F[e].n = edges[e].n
             /\ F[e].type = "production" <=> MadeProduction(source, e)
             /\ SameCore([edges[e] EXCEPT !.type = F[e].type], F[e])
             /\ F[e].to = edges[e].to /\ F[e].label = edges[e].label
             /\ F[e].unit = edges[e].unit /\ F[e].measure = edges[e].measure
             /\ ~edges[e].functional => F[e] = edges[e]
  <2>1. CASE edges[e].functional /\ edges[e].of \in up
    <3>1. F[e] = [edges[e] EXCEPT !.type = "production"]
      BY <1>4, <2>1
    <3>2. MadeProduction(source, e)
      BY <1>2, <1>3, <2>1 DEF MadeProduction
    <3>3. QED
      BY <1>3, <2>1, <3>1, <3>2 DEF SameCore, Exchange
  <2>2. CASE ~(edges[e].functional /\ edges[e].of \in up)
    <3>1. F[e] = edges[e]
      BY <1>4, <2>2
    <3>2. MadeProduction(source, e) <=> edges[e].type = "production"
      BY <1>2, <1>3, <2>2 DEF MadeProduction
    <3>3. QED
      BY <1>3, <3>1, <3>2 DEF SameCore, Exchange
  <2>3. QED
    BY <2>1, <2>2
<1>7. ASSUME NEW e \in DOMAIN edges
      PROVE  (F[e].of \in up => e \notin Production(F) \ Real(F)) <=> Survives(source, e)
  BY <1>2, <1>3, <1>5, <1>6 DEF Production, Real, Survives, MadeProduction, Output
<1>8. Promoted(edges) = [e \in {d \in DOMAIN edges : Survives(source, d)} |-> F[e]]
  BY <1>5, <1>7 DEF Promoted, Keep, F, up
<1>9. QED
  BY <1>6, <1>8

LEMMA DomainStep == IndInv /\ [Next]_vars => DomainInv'
<1>. SUFFICES ASSUME IndInv, [Next]_vars PROVE DomainInv'
  OBVIOUS
<1>. USE DEF Stages, Early, Middle, BeforeRelink, AfterRelink
<1>0. TypeInv /\ LiveInv /\ DomainInv /\ ShapeInv /\ UnitInv /\ source' = source
  BY SourceStays DEF IndInv
<1>1. CASE DeleteAggregates
  <2>1. stage = "parsed" /\ stage' = "deleted" /\ live' \subseteq live
        /\ edges' = OfLive(edges, live')
    BY <1>1, <1>0, LiveShrinks DEF DeleteAggregates
  <2>2. \A e \in DOMAIN edges : edges[e].of = source.edges[e].of
    BY <1>0 DEF ShapeInv, Shape
  <2>3. DOMAIN edges' = {e \in DOMAIN edges : source.edges[e].of \in live'}
    BY <2>1, <2>2 DEF OfLive, Keep
  <2>4. QED
    BY <1>0, <2>1, <2>3 DEF DomainInv
<1>2. CASE Promote
  <2>1. stage = "restored" /\ stage' = "promoted" /\ live' = live /\ edges' = Promoted(edges)
    BY <1>2 DEF Promote
  <2>2. DOMAIN edges' = {e \in DOMAIN edges : Survives(source, e)}
    BY <2>1, PromotedFacts
  <2>3. QED
    BY <1>0, <2>1, <2>2 DEF DomainInv
<1>3. CASE Purge
  <2>1. stage = "reclassified" /\ stage' = "purged" /\ live' \subseteq live
        /\ edges' = OfLive(edges, live')
    BY <1>3, <1>0, LiveShrinks DEF Purge
  <2>2. \A e \in DOMAIN edges : edges[e].of = source.edges[e].of
    BY <1>0 DEF ShapeInv, Shape
  <2>3. DOMAIN edges' = {e \in DOMAIN edges : source.edges[e].of \in live'}
    BY <2>1, <2>2 DEF OfLive, Keep
  <2>4. QED
    BY <1>0, <2>1, <2>3 DEF DomainInv
<1>4. CASE BuildFrame
  <2>1. stage = "exported" /\ stage' = "frame" /\ live' = live
    BY <1>4 DEF BuildFrame
  <2>2. DOMAIN edges' = {e \in DOMAIN edges : edges[e].to # Unlinked}
        /\ \A e \in DOMAIN edges' : edges'[e] = edges[e]
    BY <1>4 DEF BuildFrame, Keep
  <2>3. ASSUME NEW e \in DOMAIN edges, MadeFunctional(source, e) PROVE edges[e].to # Unlinked
    <3>1. e \in DOMAIN source.edges /\ WellFormed(source)
      BY <1>0, SourceFacts DEF TypeInv
    <3>2. Output(source.edges[e])
      BY <2>3, <3>1, StubFacts DEF MadeFunctional, Output
    <3>3. edges[e].to = source.edges[e].to
      BY <1>0, <2>1, <2>3 DEF ShapeInv, Shape
    <3>4. QED
      BY <3>1, <3>2, <3>3, SourceExchange, LinkAssumption
  <2>4. QED
    BY <1>0, <2>1, <2>2, <2>3 DEF DomainInv
<1>5. CASE ~DeleteAggregates /\ ~Promote /\ ~Purge /\ ~BuildFrame
  <2>1. DOMAIN edges' = DOMAIN edges /\ live' = live
    BY <1>5 DEF Next, vars, LinkInternal, CorrectLabels, RestoreNames, FixDummies, Fixed,
       Reclassify, Reclassified, RelinkOrphans, MatchTechnosphere, ExportUnlinked
  <2>2. (stage' \in Early <=> stage \in Early) 
        /\ (stage' = "frame" \/ stage = "frame" => UNCHANGED <<stage, edges>>)
    BY <1>5 DEF Next, vars, LinkInternal, CorrectLabels, RestoreNames, FixDummies,
       Reclassify, RelinkOrphans, MatchTechnosphere, ExportUnlinked
  <2>3. stage' = "frame" => \A e \in DOMAIN edges' : edges'[e].to # Unlinked
    BY <1>0, <2>2 DEF DomainInv
  <2>4. stage' = "frame" <=> stage = "frame"
    BY <2>2
  <2>. QED
    BY <1>0, <2>1, <2>2, <2>3, <2>4 DEF DomainInv
<1>6. QED
  BY <1>1, <1>2, <1>3, <1>4, <1>5

\* The steps that leave every exchange that remains as it is.
LEMMA QuietFacts ==
    ASSUME IndInv, DeleteAggregates \/ Purge \/ ExportUnlinked \/ BuildFrame \/ UNCHANGED vars,
           NEW e \in DOMAIN edges'
    PROVE  e \in DOMAIN edges /\ edges'[e] = edges[e] /\ rerouted' = rerouted
BY DEF DeleteAggregates, Purge, ExportUnlinked, BuildFrame, OfLive, Keep, vars

LEMMA LinkFacts ==
    ASSUME IndInv, NEW x \in Exchange
    PROVE  \/ LinkedByName(x) = x
           \/ /\ x.to = Unlinked
              /\ \E q \in Namesakes(x) : LinkedByName(x) = [x EXCEPT !.to = q]
<1>1. CASE x.to = Unlinked /\ Cardinality(Namesakes(x)) = 1
  <2>1. Namesakes(x) # {}
    BY <1>1, FS_EmptySet
  <2>2. QED
    BY <1>1, <2>1 DEF LinkedByName
<1>2. CASE ~(x.to = Unlinked /\ Cardinality(Namesakes(x)) = 1)
  BY <1>2 DEF LinkedByName
<1>3. QED
  BY <1>1, <1>2

\* The steps that rename: correction, then restoring.
LEMMA RenamedFacts ==
    ASSUME NEW x \in Exchange
    PROVE  LET c == [x EXCEPT !.label.name = Corrected[@]]
               r == Relabelled(x, Restored)
           IN  /\ SameCore(x, c) /\ c.to = x.to /\ c.unit = x.unit /\ c.measure = x.measure
               /\ SameCore(x, r) /\ r.to = x.to /\ r.unit = x.unit /\ r.measure = x.measure
<1>1. Restored \in [Name -> Label \cup {None}]
  BY LinkAssumption
<1>2. QED
  BY <1>1, RelabelledType DEF SameCore, Exchange

\* The dummies are the same as in the inventory, and stand alone.
LEMMA FixedFacts ==
    ASSUME IndInv, stage = "promoted", NEW e \in DOMAIN edges
    PROVE  /\ e \in Stubs(source.edges) =>
                Fixed(edges)[e] = [edges[e] EXCEPT !.n = 1, !.functional = TRUE, !.alloc = 1]
           /\ e \notin Stubs(source.edges) => Fixed(edges)[e] = edges[e]
<1>1. TypeInv /\ DomainInv /\ ShapeInv /\ WellFormed(source)
  BY SourceFacts DEF IndInv
<1>2. ASSUME NEW f \in DOMAIN edges
      PROVE  /\ f \in DOMAIN source.edges /\ Survives(source, f)
             /\ edges[f].of = source.edges[f].of /\ edges[f].stub = source.edges[f].stub
             /\ edges[f].type = "production" <=> MadeProduction(source, f)
             /\ edges[f].functional <=> source.edges[f].functional
  BY <1>1 DEF TypeInv, DomainInv, ShapeInv, Shape, Early
<1>3. ASSUME NEW f \in DOMAIN edges
      PROVE  f \in Stubs(edges) <=> f \in Stubs(source.edges)
  BY <1>2 DEF Stubs, Production, Functional, MadeProduction
<1>4. ~Beside(edges, e)
  <2>. SUFFICES ASSUME NEW f \in Stubs(edges), edges[f].of = edges[e].of, e \in Functional(edges)
                PROVE  FALSE
    BY DEF Beside
  <2>1. f \in DOMAIN edges
    BY DEF Stubs, Production
  <2>2. f \in Stubs(source.edges) /\ Survives(source, f)
    BY <1>2, <1>3, <2>1
  <2>3. e \in Of(source.edges, source.edges[f].of) /\ source.edges[e].functional
    BY <1>2, <2>1 DEF Of, Functional
  <2>4. QED
    BY <1>1, <2>2, <2>3, StubIsAlone
<1>5. e \in Stubs(edges) <=> e \in Stubs(source.edges)
  BY <1>3
<1>6. QED
  BY <1>4, <1>5 DEF Fixed

\* Who stands for an output keeps its target when the orphans are relinked.
LEMMA OutputStays ==
    ASSUME NEW e \in DOMAIN edges, Output(edges[e])
    PROVE  /\ edges[e].to \in Produced(edges) /\ edges[e].to \notin Orphans(edges)
           /\ Relinked(edges[e]) = edges[e]
BY DEF Output, Produced, Production, Functional, Targets, Orphans, Relinked

LEMMA ShapeStep == IndInv /\ [Next]_vars => ShapeInv'
<1>. SUFFICES ASSUME IndInv, [Next]_vars, NEW e \in DOMAIN edges' PROVE Shape(e)'
  BY DEF ShapeInv
<1>. DEFINE x == edges[e]
            y == edges'[e]
            s == source.edges[e]
<1>. USE DEF Stages, Early, Middle, BeforeRelink, AfterRelink
<1>0. /\ TypeInv /\ LiveInv /\ DomainInv /\ source' = source
      /\ WellFormed(source)
  BY SourceStays, SourceFacts DEF IndInv
<1>1. e \in DOMAIN edges
  BY PromotedFacts DEF Next, vars, DeleteAggregates, OfLive, Keep, LinkInternal, CorrectLabels,
     RestoreNames, Promote, FixDummies, Fixed, Reclassify, Reclassified, Purge, RelinkOrphans,
     MatchTechnosphere, ExportUnlinked, BuildFrame
<1>2. x \in Exchange /\ Shape(e) /\ e \in DOMAIN source.edges
  BY <1>0, <1>1 DEF IndInv, TypeInv, ShapeInv
<1>3. /\ s.functional => Output(s)
      /\ Output(s) => s.to \in Product /\ s.to # Unlinked
      /\ e \in Stubs(source.edges) => Output(s)
      /\ MadeFunctional(source, e) => Output(s)
  BY <1>0, <1>2, SourceExchange, StubFacts, LinkAssumption DEF Output, MadeFunctional
<1>4. CASE DeleteAggregates \/ Purge \/ ExportUnlinked \/ BuildFrame \/ UNCHANGED vars
  <2>1. y = x
    BY <1>4, QuietFacts
  <2>2. \/ stage = "parsed" /\ stage' = "deleted"
        \/ stage = "reclassified" /\ stage' = "purged"
        \/ stage = "matched" /\ stage' = "exported"
        \/ stage = "exported" /\ stage' = "frame"
        \/ stage' = stage
    BY <1>4 DEF DeleteAggregates, Purge, ExportUnlinked, BuildFrame, vars
  <2>3. ~Output(s) /\ stage = "parsed" => x.to = Unlinked
    BY <1>0, <1>1, <1>2, SourceExchange DEF IndInv, UnitInv
  <2>4. QED
    BY <1>0, <1>2, <2>1, <2>2, <2>3 DEF Shape
<1>5. CASE LinkInternal
  <2>1. stage = "deleted" /\ stage' = "linked" /\ y = LinkedByName(x)
        /\ nodes = KeptProducts(source)
    BY <1>0, <1>1, <1>5 DEF LinkInternal, LiveInv
  <2>2. y = x \/ (x.to = Unlinked /\ \E q \in nodes : y = [x EXCEPT !.to = q])
    BY <1>2, <2>1, LinkFacts DEF Namesakes
  <2>3. CASE y = x
    BY <1>0, <1>2, <2>1, <2>3 DEF Shape
  <2>4. CASE x.to = Unlinked /\ \E q \in nodes : y = [x EXCEPT !.to = q]
    <3>1. SameCore(x, y) /\ y.to \in nodes
      BY <1>2, <2>4 DEF SameCore, Exchange
    <3>2. ~Output(s) /\ ~s.functional
      BY <1>2, <1>3, <2>1, <2>4 DEF Shape
    <3>3. QED
      BY <1>0, <1>2, <2>1, <3>1, <3>2 DEF Shape, SameCore
  <2>5. QED
    BY <2>2, <2>3, <2>4
<1>6. CASE CorrectLabels \/ RestoreNames
  <2>1. \/ stage = "linked" /\ stage' = "corrected"
        \/ stage = "corrected" /\ stage' = "restored"
    BY <1>6 DEF CorrectLabels, RestoreNames
  <2>2. SameCore(x, y) /\ y.to = x.to
    BY <1>1, <1>2, <1>6, RenamedFacts DEF CorrectLabels, RestoreNames
  <2>3. QED
    BY <1>0, <1>2, <2>1, <2>2 DEF Shape, SameCore
<1>7. CASE Promote
  <2>1. stage = "restored" /\ stage' = "promoted" /\ edges' = Promoted(edges)
    BY <1>7 DEF Promote
  <2>2. /\ SameCore([x EXCEPT !.type = y.type], y) /\ y.to = x.to
        /\ y.type = "production" <=> MadeProduction(source, e)
    BY <2>1, PromotedFacts
  <2>3. /\ y.of = x.of /\ y.n = x.n /\ y.functional = x.functional /\ y.alloc = x.alloc
        /\ y.stub = x.stub
    BY <1>2, <2>2 DEF SameCore, Exchange
  <2>4. QED
    BY <1>0, <1>2, <2>1, <2>2, <2>3 DEF Shape
<1>8. CASE FixDummies
  <2>1. stage = "promoted" /\ stage' = "fixed" /\ y = Fixed(edges)[e]
    BY <1>8 DEF FixDummies
  <2>2. CASE e \in Stubs(source.edges)
    <3>1. y = [x EXCEPT !.n = 1, !.functional = TRUE, !.alloc = 1]
      BY <1>1, <2>1, <2>2, FixedFacts
    <3>2. /\ y.n = 1 /\ y.functional /\ y.alloc = 1 /\ y.of = x.of /\ y.stub = x.stub
          /\ y.type = x.type /\ y.to = x.to
      BY <1>2, <3>1 DEF Exchange
    <3>3. QED
      BY <1>0, <1>2, <1>3, <2>1, <2>2, <3>2 DEF Shape, MadeFunctional
  <2>3. CASE e \notin Stubs(source.edges)
    <3>1. y = x
      BY <1>1, <2>1, <2>3, FixedFacts
    <3>2. QED
      BY <1>0, <1>2, <2>1, <2>3, <3>1 DEF Shape, MadeFunctional
  <2>4. QED
    BY <2>2, <2>3
<1>9. CASE Reclassify
  <2>1. stage = "fixed" /\ stage' = "reclassified"
    BY <1>9 DEF Reclassify
  <2>2. y = IF x.functional THEN x ELSE [x EXCEPT !.type = "technosphere"]
    BY <1>1, <1>9 DEF Reclassify, Reclassified
  <2>3. /\ y.type = "production" <=> x.type = "production" /\ x.functional
        /\ y.n = x.n /\ y.functional = x.functional /\ y.alloc = x.alloc /\ y.of = x.of
        /\ y.to = x.to /\ y.stub = x.stub
    BY <1>2, <2>2 DEF Exchange
  <2>4. QED
    BY <1>0, <1>2, <2>1, <2>3 DEF Shape
<1>10. CASE RelinkOrphans
  <2>1. stage = "purged" /\ stage' = "relinked" /\ y = Relinked(x)
    BY <1>1, <1>10 DEF RelinkOrphans
  <2>2. SameCore(x, y)
    BY <1>0, <1>1, <2>1, RelinkedType
  <2>3. x.functional => y = x
    BY <1>1, <2>1, OutputStays DEF Output
  <2>4. QED
    BY <1>0, <1>2, <2>1, <2>2, <2>3 DEF Shape, SameCore
<1>11. CASE MatchTechnosphere
  <2>1. stage = "relinked" /\ stage' = "matched" /\ y = Matched(x)
    BY <1>1, <1>11 DEF MatchTechnosphere
  <2>2. SameCore(x, y) /\ (x.to # Unlinked => y.to = x.to)
    BY <1>2, <2>1, MatchedFacts
  <2>3. x.functional => x.to # Unlinked
    BY <1>2, <1>3, <2>1 DEF Shape
  <2>4. QED
    BY <1>0, <1>2, <2>1, <2>2, <2>3 DEF Shape, SameCore
<1>12. QED
  BY <1>4, <1>5, <1>6, <1>7, <1>8, <1>9, <1>10, <1>11 DEF Next

\* Measure and unit, and the label, of an exchange after each step.
Told(x, y) == y.label = x.label /\ y.unit = x.unit /\ y.measure = x.measure /\ y.to = x.to

LEMMA ToldFacts ==
    ASSUME IndInv,
           \/ DeleteAggregates \/ Promote \/ FixDummies \/ Reclassify \/ Purge
           \/ ExportUnlinked \/ BuildFrame \/ UNCHANGED vars,
           NEW e \in DOMAIN edges'
    PROVE  /\ e \in DOMAIN edges /\ Told(edges[e], edges'[e]) /\ rerouted' = rerouted
           /\ Output(edges'[e]) => Output(edges[e])
<1>. TypeInv /\ ShapeInv
  BY DEF IndInv
<1>1. CASE DeleteAggregates \/ Purge \/ ExportUnlinked \/ BuildFrame \/ UNCHANGED vars
  BY <1>1, QuietFacts DEF Told
<1>2. CASE Promote
  <2>1. stage = "restored" /\ edges' = Promoted(edges) /\ rerouted' = rerouted
    BY <1>2 DEF Promote
  <2>2. /\ e \in DOMAIN edges /\ Told(edges[e], edges'[e])
        /\ edges'[e].functional = edges[e].functional
        /\ ~edges[e].functional => edges'[e] = edges[e]
    BY <2>1, PromotedFacts DEF Told, SameCore, TypeInv, Exchange
  <2>3. QED
    BY <2>1, <2>2 DEF Output
<1>3. CASE FixDummies
  <2>1. /\ stage = "promoted" /\ edges' = Fixed(edges) /\ rerouted' = rerouted
        /\ e \in DOMAIN edges /\ edges[e] \in Exchange
    BY <1>3 DEF FixDummies, Fixed, TypeInv
  <2>2. Told(edges[e], edges'[e])
    BY <2>1, FixedFacts DEF Told, Exchange
  <2>3. CASE e \in Stubs(source.edges)
    <3>1. source.edges[e].type = "production"
      BY <2>3 DEF Stubs, Production
    <3>2. MadeProduction(source, e)
      BY <3>1 DEF MadeProduction
    <3>3. edges[e].type = "production"
      BY <2>1, <3>2 DEF ShapeInv, Shape
    <3>4. QED
      BY <2>1, <2>2, <3>3 DEF Output
  <2>4. CASE e \notin Stubs(source.edges)
    BY <2>1, <2>2, <2>4, FixedFacts
  <2>5. QED
    BY <2>3, <2>4
<1>4. CASE Reclassify
  <2>1. /\ e \in DOMAIN edges /\ rerouted' = rerouted /\ edges[e] \in Exchange
        /\ edges'[e] = IF edges[e].functional THEN edges[e]
                       ELSE [edges[e] EXCEPT !.type = "technosphere"]
    BY <1>4 DEF Reclassify, Reclassified, TypeInv
  <2>2. QED
    BY <2>1 DEF Told, Output, Exchange
<1>5. QED
  BY <1>1, <1>2, <1>3, <1>4

\* Ends of a product link that were told alike are told alike.
Alike(x, z) == x.to \in Product /\ x.to = z.to => x.label = z.label /\ x.unit = z.unit

LEMMA UnitStep == IndInv /\ [Next]_vars => UnitInv'
<1>. SUFFICES ASSUME IndInv, [Next]_vars PROVE UnitInv'
  OBVIOUS
<1>. USE DEF Stages, Early, Middle, BeforeRelink, AfterRelink
<1>0. /\ TypeInv /\ LiveInv /\ DomainInv /\ ShapeInv /\ UnitInv /\ source' = source
      /\ WellFormed(source)
  BY SourceStays, SourceFacts DEF IndInv
<1>a. /\ Product \cap Activity = {} /\ Unlinked \notin Product \cup Activity
  BY LinkAssumption
<1>1. CASE \/ DeleteAggregates \/ Promote \/ FixDummies \/ Reclassify \/ Purge
           \/ ExportUnlinked \/ BuildFrame \/ UNCHANGED vars
  <2>1. \A e \in DOMAIN edges' : 
          /\ e \in DOMAIN edges /\ Told(edges[e], edges'[e]) /\ rerouted' = rerouted
          /\ Output(edges'[e]) => Output(edges[e])
    BY <1>1, ToldFacts
  <2>2. rerouted' = rerouted
    BY <1>1 DEF DeleteAggregates, Promote, FixDummies, Reclassify, Purge, ExportUnlinked,
       BuildFrame, vars
  <2>3. /\ stage' \in BeforeRelink => stage \in BeforeRelink
        /\ stage \in {"matched", "exported", "frame"} => stage' \in {"matched", "exported", "frame"}
        /\ stage' \in {"parsed", "deleted"} =>
             stage \in {"parsed", "deleted"} /\ \A e \in DOMAIN edges' : edges'[e] = edges[e]
    BY <1>1, QuietFacts DEF DeleteAggregates, Promote, FixDummies, Reclassify, Purge,
       ExportUnlinked, BuildFrame, vars
  <2>4. QED
    BY <1>0, <2>1, <2>2, <2>3 DEF UnitInv, Told
<1>2. CASE LinkInternal
  <2>1. /\ stage = "deleted" /\ stage' = "linked" /\ rerouted' = {} /\ rerouted = {}
        /\ DOMAIN edges' = DOMAIN edges /\ nodes \subseteq Product
    BY <1>0, <1>2 DEF LinkInternal, UnitInv, TypeInv
  <2>2. ASSUME NEW e \in DOMAIN edges
        PROVE  LET y == edges'[e] IN
               /\ y.measure = y.unit /\ y.to \notin Activity
               /\ y.label \in Label /\ y.label.loc = None /\ y.label.ref = None
               /\ y.to \in Product => y.label.name = NameOf[y.to] /\ y.unit = UnitOf[y.to]
    <3>. DEFINE x == source.edges[e]
                y == edges'[e]
    <3>1. edges[e] = x /\ y = LinkedByName(x) /\ e \in DOMAIN source.edges
      BY <1>0, <1>2, <2>1 DEF LinkInternal, UnitInv, TypeInv
    <3>2. /\ x \in Exchange /\ x.measure = x.unit /\ x.label.loc = None /\ x.label.ref = None
          /\ x.to \in Product => x.label.name = NameOf[x.to] /\ x.unit = UnitOf[x.to]
          /\ x.to \notin Activity
      BY <1>0, <1>a, <3>1, SourceExchange
    <3>3. x.label \in Label
      BY <3>2 DEF Exchange
    <3>4. CASE y = x
      BY <3>2, <3>3, <3>4
    <3>5. CASE \E q \in Namesakes(x) : y = [x EXCEPT !.to = q]
      <4>1. PICK q \in Product : /\ y = [x EXCEPT !.to = q]
                                 /\ NameOf[q] = x.label.name /\ UnitOf[q] = x.unit
        BY <2>1, <3>5 DEF Namesakes
      <4>2. /\ y.to = q /\ y.label = x.label /\ y.unit = x.unit /\ y.measure = x.measure
        BY <3>2, <4>1 DEF Exchange
      <4>3. QED
        BY <1>a, <3>2, <3>3, <4>1, <4>2
    <3>6. QED
      BY <3>1, <3>2, <3>4, <3>5, LinkFacts
  <2>3. ASSUME NEW e \in DOMAIN edges, NEW f \in DOMAIN edges
        PROVE  Alike(edges'[e], edges'[f])
    BY <2>2 DEF Alike, Label
  <2>4. QED
    BY <2>1, <2>2, <2>3 DEF UnitInv, Alike
<1>3. CASE CorrectLabels \/ RestoreNames
  <2>1. /\ stage \in BeforeRelink /\ stage' \in {"corrected", "restored"}
        /\ rerouted' = {} /\ rerouted = {} /\ DOMAIN edges' = DOMAIN edges
    BY <1>0, <1>3 DEF CorrectLabels, RestoreNames, UnitInv
  <2>2. ASSUME NEW e \in DOMAIN edges
        PROVE  /\ edges'[e].to = edges[e].to /\ edges'[e].unit = edges[e].unit
               /\ edges'[e].measure = edges[e].measure /\ edges[e] \in Exchange
    <3>1. edges[e] \in Exchange
      BY <1>0 DEF TypeInv
    <3>2. \/ edges'[e] = [edges[e] EXCEPT !.label.name = Corrected[@]]
          \/ edges'[e] = Relabelled(edges[e], Restored)
      BY <1>3 DEF CorrectLabels, RestoreNames
    <3>3. QED
      BY <3>1, <3>2, RenamedFacts
  <2>3. ASSUME NEW e \in DOMAIN edges, NEW f \in DOMAIN edges, edges[e].label = edges[f].label
        PROVE  edges'[e].label = edges'[f].label
    <3>1. CASE CorrectLabels
      <4>1. \A d \in DOMAIN edges :
              edges'[d].label = [edges[d].label EXCEPT !.name = Corrected[edges[d].label.name]]
        BY <1>0, <3>1 DEF CorrectLabels, TypeInv, Exchange, Label
      <4>2. QED
        BY <2>3, <4>1
    <3>2. CASE RestoreNames
      <4>1. \A d \in DOMAIN edges :
              edges'[d].label = IF Restored[edges[d].label.name] = None THEN edges[d].label
                                ELSE Restored[edges[d].label.name]
        BY <1>0, <3>2 DEF RestoreNames, Relabelled, TypeInv, Exchange
      <4>2. QED
        BY <2>3, <4>1
    <3>3. QED
      BY <1>3, <3>1, <3>2
  <2>4. QED
    BY <1>0, <2>1, <2>2, <2>3 DEF UnitInv
<1>4. CASE RelinkOrphans
  <2>1. /\ stage = "purged" /\ stage' = "relinked" /\ DOMAIN edges' = DOMAIN edges
        /\ rerouted = {}
        /\ \A e \in DOMAIN edges : edges'[e] = Relinked(edges[e])
        /\ rerouted' = {e \in DOMAIN edges : edges[e].to \in Orphans(edges)
                                             /\ Target(edges[e].to) # Unlinked}
    BY <1>0, <1>4 DEF RelinkOrphans, UnitInv
  <2>2. ASSUME NEW e \in DOMAIN edges \ rerouted'
        PROVE  \/ edges'[e] = edges[e]
               \/ /\ edges'[e].to = Unlinked /\ edges'[e].unit = edges[e].unit
                  /\ edges'[e].measure = edges[e].measure
    <3>1. CASE edges[e].to \notin Orphans(edges)
      BY <2>1, <3>1 DEF Relinked
    <3>2. CASE edges[e].to \in Orphans(edges)
      <4>1. Target(edges[e].to) = Unlinked
        BY <2>1, <2>2, <3>2
      <4>2. edges'[e] = [edges[e] EXCEPT !.to = Unlinked]
        BY <2>1, <3>2, <4>1 DEF Relinked
      <4>3. QED
        BY <1>0, <4>2 DEF TypeInv, Exchange
    <3>3. QED
      BY <3>1, <3>2
  <2>3. ASSUME NEW e \in DOMAIN edges, Output(edges'[e]) PROVE e \notin rerouted'
    <3>1. Output(edges[e])
      BY <1>0, <2>1, <2>3, RelinkedType DEF Output, SameCore
    <3>2. QED
      BY <2>1, <3>1, OutputStays
  <2>4. QED
    BY <1>0, <1>a, <2>1, <2>2, <2>3 DEF UnitInv
<1>5. CASE MatchTechnosphere
  <2>1. /\ stage = "relinked" /\ stage' = "matched" /\ DOMAIN edges' = DOMAIN edges
        /\ rerouted' = rerouted
        /\ \A e \in DOMAIN edges : edges'[e] = Matched(edges[e])
    BY <1>5 DEF MatchTechnosphere
  <2>2. ASSUME NEW e \in DOMAIN edges
        PROVE  /\ edges[e] \in Exchange /\ SameCore(edges[e], edges'[e])
               /\ edges[e].to # Unlinked =>
                    edges'[e] = Harmonised(edges[e]) /\ edges'[e].to = edges[e].to
               /\ edges'[e].to # edges[e].to => edges'[e].to \in Activity
               /\ edges[e].measure = edges[e].unit /\ edges[e].to \notin Activity
                  => Sound(edges'[e])
    BY <1>0, <2>1, MatchedFacts DEF TypeInv
  <2>3. ASSUME NEW e \in DOMAIN edges \ rerouted PROVE Sound(edges'[e])
    BY <1>0, <2>1, <2>2 DEF UnitInv
  <2>4. ASSUME NEW e \in DOMAIN edges \ rerouted, NEW f \in DOMAIN edges \ rerouted,
               edges'[e].to \in Product, edges'[e].to = edges'[f].to
        PROVE  edges'[e].label = edges'[f].label /\ edges'[e].unit = edges'[f].unit
    <3>1. /\ edges'[e] = Harmonised(edges[e]) /\ edges'[f] = Harmonised(edges[f])
          /\ edges[e].to \in Product /\ edges[e].to = edges[f].to
      BY <1>a, <2>2, <2>4
    <3>2. edges[e].label = edges[f].label /\ edges[e].unit = edges[f].unit
      BY <1>0, <3>1 DEF UnitInv
    <3>3. \A x \in Exchange :
            /\ Harmonised(x).label = x.label
            /\ Harmonised(x).unit = IF x.label.name \in Electricity /\ x.unit = Megajoule
                                      THEN KilowattHour ELSE x.unit
      BY DEF Harmonised, Rescaled, Exchange
    <3>4. QED
      BY <2>2, <3>1, <3>2, <3>3
  <2>5. ASSUME NEW e \in DOMAIN edges, Output(edges'[e]) PROVE e \notin rerouted
    BY <1>0, <2>2, <2>5 DEF UnitInv, SameCore, Output
  <2>6. QED
    BY <2>1, <2>3, <2>4, <2>5 DEF UnitInv, Sound
<1>6. QED
  BY <1>1, <1>2, <1>3, <1>4, <1>5 DEF Next

\* A link to a product is moved by the relinker alone.
LEMMA TargetsStay ==
    ASSUME IndInv, [Next]_vars, ~RelinkOrphans,
           NEW e \in DOMAIN edges', e \in DOMAIN edges, edges[e].to # Unlinked
    PROVE  edges'[e].to = edges[e].to
<1>1. edges[e] \in Exchange
  BY DEF IndInv, TypeInv
<1>2. CASE \/ DeleteAggregates \/ Promote \/ FixDummies \/ Reclassify \/ Purge
           \/ ExportUnlinked \/ BuildFrame \/ UNCHANGED vars
  BY <1>2, ToldFacts DEF Told
<1>3. CASE LinkInternal
  BY <1>3 DEF LinkInternal, LinkedByName
<1>4. CASE CorrectLabels \/ RestoreNames
  BY <1>1, <1>4, RenamedFacts DEF CorrectLabels, RestoreNames
<1>5. CASE MatchTechnosphere
  BY <1>1, <1>5, MatchedFacts DEF MatchTechnosphere
<1>6. QED
  BY <1>2, <1>3, <1>4, <1>5 DEF Next

LEMMA SupplyStep == IndInv /\ [Next]_vars => SupplyInv'
<1>. SUFFICES ASSUME IndInv, [Next]_vars PROVE SupplyInv'
  OBVIOUS
<1>. USE DEF Stages, Early, Middle, BeforeRelink, AfterRelink
<1>0. /\ TypeInv /\ LiveInv /\ DomainInv /\ ShapeInv /\ SupplyInv /\ source' = source
      /\ WellFormed(source)
  BY SourceStays, SourceFacts DEF IndInv
<1>a. /\ Product \cap Activity = {} /\ Unlinked \notin Product \cup Activity
  BY LinkAssumption
<1>1. CASE RelinkOrphans
  <2>1. /\ stage = "purged" /\ stage' = "relinked" /\ DOMAIN edges' = DOMAIN edges
        /\ \A e \in DOMAIN edges : edges'[e] = Relinked(edges[e])
        /\ nodes = KeptProducts(source) /\ nodes \subseteq Product
    BY <1>0, <1>1 DEF RelinkOrphans, LiveInv, TypeInv
  <2>2. Produced(edges) \subseteq Produced(edges')
    <3>. SUFFICES ASSUME NEW f \in DOMAIN edges, Output(edges[f])
                  PROVE  edges[f].to \in Produced(edges')
      BY DEF Produced, Targets, Production, Functional, Output
    <3>1. edges'[f] = edges[f]
      BY <2>1, OutputStays
    <3>2. f \in DOMAIN edges' /\ Output(edges'[f])
      BY <2>1, <3>1
    <3>3. QED
      BY <3>1, <3>2 DEF Produced, Targets, Production, Functional, Output
  <2>3. ASSUME NEW e \in DOMAIN edges, edges'[e].to \in Product
        PROVE  \/ edges'[e].to \in Produced(edges')
               \/ e \in Production(source.edges) /\ edges'[e].to \notin KeptProducts(source)
    <3>. DEFINE x == edges[e]
                y == edges'[e]
    <3>1. x \in Exchange /\ y = Relinked(x) /\ e \in DOMAIN source.edges
      BY <1>0, <2>1 DEF TypeInv
    <3>2. CASE x.to \in Orphans(edges)
      <4>1. Target(x.to) # Unlinked
        BY <1>a, <2>3, <3>1, <3>2 DEF Relinked, Exchange
      <4>2. Target(x.to) \in Product \cup Activity /\ x.to \in Product
        BY <2>1, <3>2, <4>1, TargetType DEF Orphans
      <4>3. y = Rerouted(x, Target(x.to))
        BY <3>1, <3>2, <4>1 DEF Relinked
      <4>4. y.to = Target(x.to)
        BY <3>1, <4>2, <4>3, ReroutedType
      <4>5. y.to \in Produced(edges)
        BY <1>a, <2>1, <2>3, <4>1, <4>2, <4>4, TargetType
      <4>6. QED
        BY <2>2, <4>5
    <3>3. CASE x.to \notin Orphans(edges) /\ x.to \in nodes
      <4>1. y = x /\ x.to \in Produced(edges)
        BY <3>1, <3>3 DEF Relinked, Orphans
      <4>2. QED
        BY <2>2, <4>1
    <3>4. CASE x.to \notin nodes
      <4>1. y = x
        BY <3>1, <3>4 DEF Relinked, Orphans
      <4>2. Output(source.edges[e])
        BY <1>0, <1>a, <2>1, <2>3, <3>4, <4>1 DEF ShapeInv, Shape
      <4>3. CASE source.edges[e].type = "production"
        BY <2>1, <3>1, <3>4, <4>1, <4>3 DEF Production
      <4>4. CASE source.edges[e].functional
        <5>1. x.functional
          BY <1>0, <2>1, <4>4 DEF ShapeInv, Shape, MadeFunctional
        <5>2. QED
          BY <2>2, <4>1, <5>1, OutputStays DEF Output
      <4>5. QED
        BY <4>2, <4>3, <4>4 DEF Output
    <3>5. QED
      BY <3>2, <3>3, <3>4
  <2>4. QED
    BY <1>0, <2>1, <2>3 DEF SupplyInv
<1>2. CASE MatchTechnosphere
  <2>1. /\ stage = "relinked" /\ stage' = "matched" /\ DOMAIN edges' = DOMAIN edges
        /\ \A e \in DOMAIN edges : edges'[e] = Matched(edges[e])
    BY <1>2 DEF MatchTechnosphere
  <2>2. ASSUME NEW e \in DOMAIN edges
        PROVE  /\ SameCore(edges[e], edges'[e])
               /\ edges[e].to # Unlinked => edges'[e].to = edges[e].to
               /\ edges'[e].to # edges[e].to => edges'[e].to \in Activity
    BY <1>0, <2>1, MatchedFacts DEF TypeInv
  <2>3. ASSUME NEW q \in Product, q \in Produced(edges) PROVE q \in Produced(edges')
    <3>1. PICK f \in DOMAIN edges : Output(edges[f]) /\ edges[f].to = q
      BY <2>3 DEF Produced, Targets, Production, Functional, Output
    <3>2. f \in DOMAIN edges' /\ Output(edges'[f]) /\ edges'[f].to = q
      BY <1>a, <2>1, <2>2, <3>1 DEF Output, SameCore
    <3>3. QED
      BY <3>2 DEF Produced, Targets, Production, Functional, Output
  <2>4. ASSUME NEW e \in DOMAIN edges, edges'[e].to \in Product
        PROVE  edges[e].to \in Product /\ edges'[e].to = edges[e].to
    BY <1>a, <2>2, <2>4
  <2>5. QED
    BY <1>0, <2>1, <2>3, <2>4 DEF SupplyInv
<1>3. CASE ExportUnlinked
  BY <1>0, <1>3 DEF ExportUnlinked, SupplyInv, Produced, Production, Functional, Residual
<1>4. CASE UNCHANGED vars
  BY <1>0, <1>4 DEF vars, SupplyInv, Produced, Production, Functional, Residual
<1>5. CASE ~RelinkOrphans /\ ~MatchTechnosphere /\ ~ExportUnlinked /\ ~UNCHANGED vars
  BY <1>5 DEF Next, vars, SupplyInv, DeleteAggregates, LinkInternal, CorrectLabels, RestoreNames,
     Promote, FixDummies, Reclassify, Purge, BuildFrame
<1>6. QED
  BY <1>1, <1>2, <1>3, <1>4, <1>5

\* An input that was not linked in the inventory stays until the frame is built.
LEMMA InputRemains ==
    ASSUME IndInv, NEW e \in Consumption(source.edges), source.edges[e].to = Unlinked
    PROVE  /\ e \in DOMAIN source.edges /\ ~Output(source.edges[e]) /\ e \notin Stubs(source.edges)
           /\ Survives(source, e)
           /\ source.edges[e].of \in live /\ stage # "frame" => e \in DOMAIN edges
<1>1. TypeInv /\ DomainInv /\ WellFormed(source)
  BY SourceFacts DEF IndInv
<1>2. e \in DOMAIN source.edges /\ source.edges[e].type = "technosphere"
  BY DEF Consumption
<1>3. ~Output(source.edges[e])
  BY <1>1, <1>2, SourceExchange, LinkAssumption
<1>4. e \notin Stubs(source.edges)
  BY <1>2 DEF Stubs, Production
<1>5. Survives(source, e)
  BY <1>3 DEF Survives
<1>6. QED
  BY <1>1, <1>2, <1>3, <1>4, <1>5 DEF DomainInv

LEMMA ReachedStep == IndInv /\ [Next]_vars => ReachedInv'
<1>. SUFFICES ASSUME IndInv, [Next]_vars, stage' \notin {"parsed", "deleted"},
                      NEW p \in live', NEW e \in Consumption(source.edges), NEW q \in Product,
                      AsksFor(e, p, q)'
               PROVE  e \in DOMAIN edges' /\ edges'[e].to = q
  BY SourceStays DEF ReachedInv
<1>. USE DEF Stages, Early, Middle, BeforeRelink, AfterRelink
<1>1. /\ TypeInv /\ LiveInv /\ DomainInv /\ DomainInv' /\ ShapeInv /\ ReachedInv
      /\ source' = source /\ WellFormed(source)
  BY SourceStays, SourceFacts, DomainStep DEF IndInv
<1>2. AsksFor(e, p, q) /\ p \in live /\ p \in Process
  BY <1>1, LiveShrinks DEF AsksFor, TypeInv
<1>3. /\ source.edges[e].to = Unlinked /\ source.edges[e].of \in live
      /\ source.edges[e].of \in live'
  BY <1>1, <1>2 DEF AsksFor
<1>4. ~Output(source.edges[e]) /\ e \in DOMAIN source.edges /\ Survives(source, e)
  BY <1>3, InputRemains
<1>5. q \in KeptProducts(source)
      /\ \E f \in Of(source.edges, p) : /\ Survives(source, f) /\ MadeFunctional(source, f)
                                        /\ source.edges[f].to = q
  BY <1>1, <1>2, SystemProcessFacts DEF AsksFor
<1>6. CASE LinkInternal
  <2>1. /\ stage = "deleted" /\ nodes = KeptProducts(source) /\ e \in DOMAIN edges
        /\ edges[e] = source.edges[e] /\ edges'[e] = LinkedByName(edges[e])
        /\ DOMAIN edges' = DOMAIN edges /\ nodes \subseteq Product
    BY <1>1, <1>3, <1>6, InputRemains DEF LinkInternal, LiveInv, TypeInv, IndInv, UnitInv
  <2>2. Namesakes(edges[e]) = {q}
    BY <1>2, <1>5, <2>1 DEF Namesakes, AsksFor
  <2>3. Cardinality({q}) = 1 /\ (CHOOSE r \in {q} : TRUE) = q
    BY FS_Singleton
  <2>4. edges'[e] = [edges[e] EXCEPT !.to = q]
    BY <1>3, <2>1, <2>2, <2>3 DEF LinkedByName
  <2>5. QED
    BY <1>1, <2>1, <2>4 DEF TypeInv, Exchange
<1>7. CASE ~LinkInternal
  <2>1. stage \notin {"parsed", "deleted"}
    BY <1>7 DEF Next, vars, DeleteAggregates, CorrectLabels, RestoreNames, Promote,
       FixDummies, Reclassify, Purge, RelinkOrphans, MatchTechnosphere, ExportUnlinked, BuildFrame
  <2>2. e \in DOMAIN edges /\ edges[e].to = q /\ q # Unlinked
    BY <1>1, <1>2, <2>1, LinkAssumption DEF ReachedInv
  <2>3. e \in DOMAIN edges'
    <3>1. CASE BuildFrame
      BY <2>2, <3>1 DEF BuildFrame, Keep
    <3>2. CASE stage' # "frame"
      BY <1>1, <1>3, <1>4, <3>2 DEF DomainInv
    <3>3. CASE UNCHANGED vars
      BY <2>2, <3>3 DEF vars
    <3>4. QED
      BY <3>1, <3>2, <3>3 DEF Next, DeleteAggregates, LinkInternal, CorrectLabels, RestoreNames,
         Promote, FixDummies, Reclassify, Purge, RelinkOrphans, MatchTechnosphere, ExportUnlinked
  <2>4. CASE RelinkOrphans
    <3>1. /\ stage = "purged" /\ edges'[e] = Relinked(edges[e])
      BY <2>2, <2>4 DEF RelinkOrphans
    <3>2. PICK f \in Of(source.edges, p) : /\ Survives(source, f) /\ MadeFunctional(source, f)
                                           /\ source.edges[f].to = q
      BY <1>5
    <3>3. f \in DOMAIN edges
      BY <1>1, <1>2, <3>1, <3>2 DEF Of, DomainInv
    <3>4. edges[f].functional /\ edges[f].to = q
      BY <1>1, <3>1, <3>2, <3>3 DEF ShapeInv, Shape
    <3>5. q \notin Orphans(edges)
      BY <3>3, <3>4, OutputStays DEF Output
    <3>6. QED
      BY <2>2, <2>3, <3>1, <3>5 DEF Relinked
  <2>5. CASE ~RelinkOrphans
    BY <2>2, <2>3, <2>5, TargetsStay
  <2>6. QED
    BY <2>4, <2>5
<1>8. QED
  BY <1>6, <1>7

-----------------------------------------------------------------------------
(* The last of the matcher: a label that names one activity *)

LEMMA LinkedToOne ==
    ASSUME NEW x \in Exchange, IsUnlinked(x), NEW a \in Activity
    PROVE  LinkedTo(x, {a}) = [x EXCEPT !.to = a] /\ LinkedTo(x, {a}).to = a
<1>1. Cardinality({a}) = 1 /\ (CHOOSE b \in {a} : TRUE) = a
  BY FS_Singleton
<1>2. QED
  BY <1>1 DEF LinkedTo, Exchange

LEMMA MatcherReaches ==
    ASSUME NEW x \in Exchange, IsUnlinked(x), NEW a \in Activity,
           RelaxedHits(Harmonised(x)) = {a},
           \/ Catalog[a].ref = Harmonised(x).label.ref
           \/ /\ Conversion[Harmonised(x).unit] = None
              /\ CustomFix[Harmonised(x).label.name] = None
    PROVE  Matched(x).to = a
<1>. DEFINE h == Harmonised(x)
<1>1. h \in Exchange /\ IsUnlinked(h)
  BY HarmonisedFacts DEF IsUnlinked, SameCore
<1>2. a # Unlinked
  BY LinkAssumption
<1>3. CASE Catalog[a].ref = h.label.ref
  <2>. DEFINE s1 == Strict(h)
              c == Converted(s1)
              s2 == Strict(c)
              u == Customised(s2)
              s3 == Strict(u)
  <2>1. {b \in RelaxedHits(h) : Catalog[b].ref = h.label.ref} = {a}
    BY <1>3
  <2>2. s1.to = a /\ s1 \in Exchange
    BY <1>1, <2>1, LinkedToOne, StrictPass DEF Strict, Pass
  <2>. HIDE DEF h, s1
  <2>3. c = s1
    BY <1>2, <2>2, ConvertedPass DEF Pass
  <2>4. s2 = c
    BY <1>2, <2>2, <2>3, StrictPass DEF Pass
  <2>5. u = s2
    BY <1>2, <2>2, <2>3, <2>4, CustomisedPass DEF Pass
  <2>6. s3 = u
    BY <1>2, <2>2, <2>3, <2>4, <2>5, StrictPass DEF Pass
  <2>7. Relaxed(s3) = s3
    BY <1>2, <2>2, <2>3, <2>4, <2>5, <2>6, RelaxedPass DEF Pass
  <2>8. Matched(x) = Relaxed(s3)
    BY DEF Matched, h, s1
  <2>9. QED
    BY <2>2, <2>3, <2>4, <2>5, <2>6, <2>7, <2>8
<1>4. CASE /\ Catalog[a].ref # h.label.ref
           /\ Conversion[h.unit] = None /\ CustomFix[h.label.name] = None
  <2>1. {b \in RelaxedHits(h) : Catalog[b].ref = h.label.ref} = {}
    BY <1>4
  <2>2. Cardinality({}) = 0
    BY FS_EmptySet
  <2>3. Strict(h) = h
    BY <2>1, <2>2 DEF Strict, LinkedTo
  <2>4. Converted(h) = h
    BY <1>4 DEF Converted
  <2>5. Customised(h) = h
    BY <1>4 DEF Customised, Relabelled
  <2>6. Relaxed(h).to = a
    BY <1>1, LinkedToOne DEF Relaxed
  <2>7. Matched(x) = Relaxed(Strict(Customised(Strict(Converted(Strict(h))))))
    BY DEF Matched
  <2>. HIDE DEF h
  <2>8. QED
    BY <2>3, <2>4, <2>5, <2>6, <2>7
<1>5. QED
  BY <1>3, <1>4

\* Nothing before the relinker touches an unlinked input but the renaming.
LEMMA InputIsQuiet ==
    ASSUME IndInv, Promote \/ FixDummies \/ Reclassify,
           NEW e \in Consumption(source.edges), source.edges[e].to = Unlinked,
           e \in DOMAIN edges, e \in DOMAIN edges'
    PROVE  edges'[e] = edges[e]
<1>1. TypeInv /\ ShapeInv /\ edges[e] \in Exchange /\ e \in DOMAIN source.edges
  BY DEF IndInv, TypeInv
<1>2. /\ ~source.edges[e].functional /\ e \notin Stubs(source.edges)
      /\ source.edges[e].type # "production"
  BY InputRemains DEF Output
<1>3. CASE Promote
  <2>1. stage = "restored" /\ edges' = Promoted(edges)
    BY <1>3 DEF Promote
  <2>2. ~edges[e].functional
    BY <1>1, <1>2, <2>1 DEF ShapeInv, Shape, Early
  <2>3. QED
    BY <2>1, <2>2, PromotedFacts
<1>4. CASE FixDummies
  BY <1>2, <1>4, FixedFacts DEF FixDummies
<1>5. CASE Reclassify
  <2>1. edges[e].type # "production"
    BY <1>1, <1>2, <1>5, StubFacts DEF Reclassify, ShapeInv, Shape, Early, MadeFunctional,
       MadeProduction
  <2>2. edges[e].type = "technosphere"
    BY <1>1, <2>1 DEF Exchange
  <2>3. [edges[e] EXCEPT !.type = "technosphere"] = edges[e]
    BY <1>1, <2>2 DEF Exchange
  <2>4. QED
    BY <1>5, <2>3 DEF Reclassify, Reclassified
<1>6. QED
  BY <1>3, <1>4, <1>5

LEMMA LabelStep == IndInv /\ [Next]_vars => LabelInv'
<1>. SUFFICES ASSUME IndInv, [Next]_vars, NEW e \in Consumption(source.edges), AsksOutside(e)'
              PROVE
                /\ stage' # "frame" => e \in DOMAIN edges'
                /\ stage' \in {"parsed", "deleted", "linked"} => edges'[e] = source.edges[e]
                /\ stage' = "corrected" => edges'[e] = WithCorrected(e)
                /\ stage' \in Middle \cup {"restored", "purged", "relinked"} =>
                     edges'[e] = WithRestored(e)
                /\ stage' \in AfterRelink \ {"relinked"} =>
                     \A a \in Activity : Leads(e, a) => e \in DOMAIN edges' /\ edges'[e].to = a
  <2>1. SUFFICES ASSUME IndInv, [Next]_vars, NEW e \in Consumption(source.edges), AsksOutside(e)'
                 PROVE  LabelOk(e)'
    BY SourceStays DEF LabelInv
  <2>2. /\ source' = source /\ WithCorrected(e)' = WithCorrected(e)
        /\ WithRestored(e)' = WithRestored(e)
    BY <2>1, SourceStays DEF WithCorrected, WithRestored
  <2>3. \A a : Leads(e, a)' = Leads(e, a)
    BY <2>2 DEF Leads
  <2>4. QED
    BY <2>1, <2>2, <2>3 DEF LabelOk
<1>. USE DEF Stages, Early, Middle, BeforeRelink, AfterRelink
<1>1. /\ TypeInv /\ LiveInv /\ DomainInv /\ DomainInv' /\ ShapeInv /\ LabelInv
      /\ source' = source /\ WellFormed(source)
  BY SourceStays, SourceFacts, DomainStep DEF IndInv
<1>2. AsksOutside(e) /\ source.edges[e].of \in live' /\ source.edges[e].of \in live
      /\ source.edges[e].to = Unlinked
  BY <1>1, LiveShrinks DEF AsksOutside
<1>3. e \in DOMAIN source.edges /\ Survives(source, e) /\ source.edges[e] \in Exchange
  BY <1>1, <1>2, InputRemains, SourceExchange
<1>4. stage' # "frame" => e \in DOMAIN edges'
  BY <1>1, <1>2, <1>3 DEF DomainInv
<1>5. stage # "frame" => e \in DOMAIN edges
  BY <1>1, <1>2, <1>3 DEF DomainInv
<1>6. /\ stage \in {"parsed", "deleted", "linked"} => edges[e] = source.edges[e]
      /\ stage = "corrected" => edges[e] = WithCorrected(e)
      /\ stage \in Middle \cup {"restored", "purged", "relinked"} =>
           edges[e] = WithRestored(e)
      /\ stage \in AfterRelink \ {"relinked"} =>
           \A a \in Activity : Leads(e, a) => e \in DOMAIN edges /\ edges[e].to = a
  BY <1>1, <1>2 DEF LabelInv, LabelOk
<1>7. CASE DeleteAggregates
  BY <1>4, <1>5, <1>6, <1>7, QuietFacts DEF DeleteAggregates
<1>8. CASE LinkInternal
  <2>1. /\ stage = "deleted" /\ stage' = "linked" /\ e \in DOMAIN edges
        /\ edges'[e] = LinkedByName(edges[e]) /\ nodes \subseteq Product
    BY <1>1, <1>5, <1>8 DEF LinkInternal, TypeInv
  <2>2. Namesakes(source.edges[e]) = {}
    BY <1>2, <2>1 DEF Namesakes, AsksOutside
  <2>3. Cardinality({}) # 1
    BY FS_EmptySet
  <2>4. QED
    BY <1>4, <1>6, <2>1, <2>2, <2>3 DEF LinkedByName
<1>9. CASE CorrectLabels
  BY <1>4, <1>5, <1>6, <1>9 DEF CorrectLabels, WithCorrected
<1>10. CASE RestoreNames
  BY <1>4, <1>5, <1>6, <1>10 DEF RestoreNames, WithRestored
<1>11. CASE Promote \/ FixDummies \/ Reclassify
  <2>1. e \in DOMAIN edges /\ e \in DOMAIN edges'
        /\ stage \in Middle \cup {"restored"} /\ stage' \in Middle
    BY <1>4, <1>5, <1>11 DEF Promote, FixDummies, Reclassify
  <2>2. edges'[e] = edges[e]
    BY <1>2, <1>11, <2>1, InputIsQuiet
  <2>3. QED
    BY <1>6, <2>1, <2>2
<1>12. CASE Purge
  BY <1>4, <1>5, <1>6, <1>12, QuietFacts DEF Purge
<1>13. CASE RelinkOrphans
  <2>1. /\ stage = "purged" /\ stage' = "relinked" /\ e \in DOMAIN edges
        /\ edges'[e] = Relinked(edges[e]) /\ edges[e] = WithRestored(e)
    BY <1>5, <1>6, <1>13 DEF RelinkOrphans
  <2>2. edges[e].to = Unlinked
    <3>1. WithCorrected(e) \in Exchange /\ WithCorrected(e).to = Unlinked
      <4>1. source.edges[e].label \in Label
        BY <1>3 DEF Exchange
      <4>2. Corrected[source.edges[e].label.name] \in Name
        BY <4>1, LinkAssumption DEF Label
      <4>3. QED
        BY <1>2, <1>3, <4>1, <4>2 DEF WithCorrected, Exchange, Label
    <3>2. QED
      BY <2>1, <3>1, RelabelledType, LinkAssumption DEF WithRestored
  <2>3. edges[e].to \notin Orphans(edges)
    BY <1>1, <2>2, LinkAssumption DEF Orphans, TypeInv
  <2>4. QED
    BY <1>4, <2>1, <2>3 DEF Relinked
<1>14. CASE MatchTechnosphere
  <2>1. /\ stage = "relinked" /\ stage' = "matched" /\ e \in DOMAIN edges
        /\ e \in DOMAIN edges' /\ edges'[e] = Matched(WithRestored(e))
    BY <1>5, <1>6, <1>14 DEF MatchTechnosphere
  <2>2. WithRestored(e) \in Exchange /\ IsUnlinked(WithRestored(e))
    <3>1. /\ WithCorrected(e) \in Exchange /\ WithCorrected(e).to = Unlinked
          /\ WithCorrected(e).type = "technosphere"
      <4>1. source.edges[e].label \in Label /\ source.edges[e].type = "technosphere"
        BY <1>3 DEF Exchange, Consumption
      <4>2. Corrected[source.edges[e].label.name] \in Name
        BY <4>1, LinkAssumption DEF Label
      <4>3. QED
        BY <1>2, <1>3, <4>1, <4>2 DEF WithCorrected, Exchange, Label
    <3>2. QED
      BY <3>1, RelabelledType, LinkAssumption DEF WithRestored, IsUnlinked, SameCore
  <2>3. ASSUME NEW a \in Activity, Leads(e, a) PROVE Matched(WithRestored(e)).to = a
    BY <2>2, <2>3, MatcherReaches DEF Leads
  <2>4. QED
    BY <2>1, <2>3
<1>15. CASE ExportUnlinked
  BY <1>4, <1>5, <1>6, <1>15 DEF ExportUnlinked
<1>16. CASE BuildFrame
  <2>1. Unlinked \notin Activity
    BY LinkAssumption
  <2>2. QED
    BY <1>5, <1>6, <1>16, <2>1 DEF BuildFrame, Keep
<1>17. CASE UNCHANGED vars
  BY <1>4, <1>6, <1>17 DEF vars
<1>18. QED
  BY <1>7, <1>8, <1>9, <1>10, <1>11, <1>12, <1>13, <1>14, <1>15, <1>16, <1>17 DEF Next

-----------------------------------------------------------------------------
(* The theorems *)

\* Every inventory well-formed in the parser's sense, put through the chain of
\* transforms, satisfies the inductive invariant at each of them.
THEOREM Inductive == Spec => []IndInv
<1>1. Init => IndInv
  BY InitInv
<1>2. IndInv /\ [Next]_vars => IndInv'
  <2>. SUFFICES ASSUME IndInv, [Next]_vars PROVE IndInv'
    OBVIOUS
  <2>1. TypeInv'
    BY TypeStep DEF IndInv
  <2>2. QED
    BY <2>1, LiveStep, DomainStep, ShapeStep, UnitStep, SupplyStep, ReachedStep, LabelStep
    DEF IndInv
<1>3. QED
  BY <1>1, <1>2, PTL DEF Spec

\* Each process that reaches the scoring frame makes there exactly what its
\* source says it provides, by the amount the source gives, with an allocation
\* of one (promoter before dummy fixer, fixer before reclassifier and purger).
THEOREM ReferenceIsKept == Spec => []ReferenceKept
<1>1. IndInv => ReferenceKept
  <2>. SUFFICES ASSUME IndInv, stage = "frame"
                PROVE  ReferenceKept!2
    BY DEF ReferenceKept
  <2>. USE DEF Early, Middle, BeforeRelink, AfterRelink
  <2>1. /\ TypeInv /\ LiveInv /\ DomainInv /\ ShapeInv /\ WellFormed(source)
    BY SourceFacts DEF IndInv
  <2>2. live = Serving(source) /\ live \subseteq Process
    BY <2>1 DEF LiveInv, TypeInv
  <2>3. ASSUME NEW e \in DOMAIN edges
        PROVE  /\ e \in DOMAIN source.edges /\ Survives(source, e)
               /\ edges[e].of = source.edges[e].of /\ edges[e].alloc = 1
               /\ edges[e].n = IF e \in Stubs(source.edges) THEN 1 ELSE source.edges[e].n
               /\ edges[e].functional <=> MadeFunctional(source, e)
               /\ edges[e].functional => edges[e].to = source.edges[e].to
               /\ edges[e].type = "production" <=>
                    MadeFunctional(source, e) /\ MadeProduction(source, e)
    BY <2>1 DEF TypeInv, DomainInv, ShapeInv, Shape
  <2>4. ASSUME NEW p \in live
        PROVE  /\ Of(edges, p) \cap Real(edges) = Provides(source, p)
               /\ \A e \in Provides(source, p) :
                    /\ edges[e].n = IF e \in Stubs(source.edges) THEN 1 ELSE source.edges[e].n
                    /\ edges[e].alloc = 1
                    /\ edges[e].to = source.edges[e].to
    <3>1. ASSUME NEW e \in Provides(source, p)
          PROVE  /\ e \in Of(source.edges, p) /\ e \in DOMAIN edges
                 /\ MadeFunctional(source, e) /\ MadeProduction(source, e)
                 /\ e \in Stubs(source.edges) \/ source.edges[e].n # 0
      <4>1. e \in Of(source.edges, p)
        BY ProvidesType
      <4>2. /\ Survives(source, e) /\ MadeFunctional(source, e) /\ MadeProduction(source, e)
            /\ e \in Stubs(source.edges) \/ source.edges[e].n # 0
        BY <2>1, <2>2, <4>1, ProvidesIff
      <4>3. e \in DOMAIN edges
        BY <2>1, <4>1, <4>2 DEF Of, DomainInv
      <4>4. QED
        BY <4>1, <4>2, <4>3
    <3>2. ASSUME NEW e \in Of(edges, p) \cap Real(edges) PROVE e \in Provides(source, p)
      <4>1. e \in DOMAIN edges /\ e \in Of(source.edges, p)
        BY <2>3 DEF Of
      <4>2. /\ MadeFunctional(source, e) /\ MadeProduction(source, e)
            /\ e \in Stubs(source.edges) \/ source.edges[e].n # 0
        BY <2>3, <4>1 DEF Real, Production
      <4>3. QED
        BY <2>1, <2>2, <2>3, <4>1, <4>2, ProvidesIff
    <3>3. ASSUME NEW e \in Provides(source, p) PROVE e \in Of(edges, p) \cap Real(edges)
      BY <2>3, <3>1 DEF Of, Real, Production
    <3>4. QED
      BY <2>3, <3>1, <3>2, <3>3
  <2>5. QED
    BY <2>1, <2>2, <2>4, ServingIff
<1>2. QED
  BY <1>1, Inductive, PTL

\* When the residuals have been exported no input with an amount is lost: it is
\* linked to ecoinvent or to what is really made, or it is reported.
THEOREM NothingIsLost == Spec => []NothingSilentlyLost
<1>1. IndInv => NothingSilentlyLost
  <2>. SUFFICES ASSUME IndInv, stage = "exported", NEW e \in Consumption(edges)
                PROVE  \/ edges[e].to \in Activity \cup Targets(edges, Real(edges))
                       \/ edges[e].to = Unlinked /\ edges[e].label.name \in report \cup Dummy
                       \/ edges[e].to \in Product /\ Excused(e, edges[e].to)
    BY DEF NothingSilentlyLost
  <2>1. /\ e \in DOMAIN edges /\ edges[e] \in Exchange /\ edges[e].type = "technosphere"
        /\ SupplyInv
    BY DEF Consumption, IndInv, TypeInv
  <2>2. CASE edges[e].to = Unlinked
    BY <2>1, <2>2 DEF SupplyInv, Residual, IsUnlinked
  <2>3. CASE edges[e].to \in Product
    <3>1. \/ edges[e].to \in Produced(edges)
          \/ e \in Production(source.edges) /\ edges[e].to \notin KeptProducts(source)
      BY <2>1, <2>3 DEF SupplyInv, AfterRelink
    <3>2. ASSUME edges[e].to \in Produced(edges)
          PROVE  \/ edges[e].to \in Targets(edges, Real(edges))
                 \/ edges[e].to \in Targets(edges, Production(edges) \ Real(edges))
                 \/ edges[e].to \in Targets(edges, Consumption(edges) \cap Functional(edges))
      <4>1. PICK f \in Production(edges) \cup Functional(edges) : edges[f].to = edges[e].to
        BY <3>2 DEF Produced, Targets
      <4>2. f \in DOMAIN edges /\ edges[f] \in Exchange
        BY DEF IndInv, TypeInv, Production, Functional
      <4>3. f \in Production(edges) \/ f \in Consumption(edges) \cap Functional(edges)
        BY <4>2 DEF Production, Consumption, Exchange
      <4>4. QED
        BY <4>1, <4>3 DEF Targets
    <3>3. QED
      BY <2>3, <3>1, <3>2 DEF Excused
  <2>4. QED
    BY <2>1, <2>2, <2>3 DEF Exchange
<1>2. QED
  BY <1>1, Inductive, PTL

\* Both ends of a link tell their quantity in one unit, but where the relinker
\* carried a number over to a target of another unit.
THEOREM UnitsStayAgreed == Spec => []UnitsAgree
<1>1. IndInv => UnitsAgree
  <2>. SUFFICES ASSUME IndInv, stage = "frame", NEW e \in Consumption(edges) \ rerouted
                PROVE  IF edges[e].to \in Activity
                         THEN edges[e].measure = Catalog[edges[e].to].unit
                         ELSE \A f \in Production(edges) :
                                edges[f].to = edges[e].to => edges[f].measure = edges[e].measure
    BY DEF UnitsAgree
  <2>1. /\ e \in DOMAIN edges /\ edges[e] \in Exchange /\ edges[e].to # Unlinked
        /\ UnitInv
    BY DEF Consumption, IndInv, TypeInv, DomainInv
  <2>2. edges[e].to \in Activity => edges[e].measure = Catalog[edges[e].to].unit
    BY <2>1 DEF UnitInv
  <2>3. ASSUME NEW f \in Production(edges), edges[f].to = edges[e].to,
               edges[e].to \notin Activity
        PROVE  edges[f].measure = edges[e].measure
    <3>1. edges[e].to \in Product
      BY <2>1, <2>3 DEF Exchange
    <3>2. f \in DOMAIN edges \ rerouted
      BY <2>1 DEF UnitInv, Output, Production
    <3>3. QED
      BY <2>1, <2>3, <3>1, <3>2 DEF UnitInv
  <2>4. QED
    BY <2>2, <2>3
<1>2. QED
  BY <1>1, Inductive, PTL

\* Consumers of a listed system process that is kept reach it in the frame.
THEOREM SystemProcessIsReached == Spec => []SystemProcessReached
<1>1. IndInv => SystemProcessReached
  BY DEF IndInv, ReachedInv, SystemProcessReached, AsksFor
<1>2. QED
  BY <1>1, Inductive, PTL

\* A label that corrections and restore rows turn into that of one activity
\* leads to it, even if the row's reference product is stale.
THEOREM LabelsLead == Spec => []LabelsLeadToEcoinvent
<1>1. IndInv => LabelsLeadToEcoinvent
  <2>. SUFFICES ASSUME IndInv, stage = "frame", NEW e \in Consumption(source.edges),
                       AsksOutside(e), NEW a \in Activity,
                       RelaxedHits(Harmonised(WithRestored(e))) = {a},
                       \/ Catalog[a].ref = Harmonised(WithRestored(e)).label.ref
                       \/ /\ Conversion[Harmonised(WithRestored(e)).unit] = None
                          /\ CustomFix[Harmonised(WithRestored(e)).label.name] = None
                PROVE  e \in DOMAIN edges /\ edges[e].to = a
    BY DEF LabelsLeadToEcoinvent, AsksOutside, WithRestored, WithCorrected
  <2>1. LabelInv
    BY DEF IndInv
  <2>2. QED
    BY <2>1 DEF LabelInv, LabelOk, Leads, AfterRelink
<1>2. QED
  BY <1>1, Inductive, PTL

\* No transform moves or cuts the link to a product that is really made.
THEOREM LinksStay == Spec => ProducedLinksStay
<1>1. ASSUME IndInv, [Next]_vars, NEW e \in DOMAIN edges \cap DOMAIN edges',
             edges[e].to \in Targets(edges, Real(edges) \cap Functional(edges))
      PROVE  edges'[e].to = edges[e].to
  <2>1. PICK f \in Functional(edges) : edges[f].to = edges[e].to
    BY <1>1 DEF Targets
  <2>2. f \in DOMAIN edges /\ Output(edges[f])
    BY DEF Functional, Output
  <2>3. CASE RelinkOrphans
    <3>1. edges[e].to \notin Orphans(edges)
      BY <2>1, <2>2, OutputStays
    <3>2. edges'[e] = Relinked(edges[e])
      BY <2>3 DEF RelinkOrphans
    <3>3. QED
      BY <3>1, <3>2 DEF Relinked
  <2>4. CASE ~RelinkOrphans
    <3>1. edges[f].to = source.edges[f].to /\ f \in DOMAIN source.edges /\ WellFormed(source)
      BY <1>1, <2>1, <2>2, SourceFacts DEF IndInv, TypeInv, ShapeInv, Shape, Functional
    <3>2. MadeFunctional(source, f)
      BY <1>1, <2>1, <2>2 DEF IndInv, TypeInv, ShapeInv, Shape, MadeFunctional, Functional,
         Stages, Early, Middle, BeforeRelink, AfterRelink
    <3>3. Output(source.edges[f])
      BY <3>1, <3>2, StubFacts DEF MadeFunctional, Output
    <3>4. edges[e].to # Unlinked
      BY <2>1, <3>1, <3>3, SourceExchange, LinkAssumption
    <3>5. QED
      BY <1>1, <2>4, <3>4, TargetsStay
  <2>5. QED
    BY <2>3, <2>4
<1>2. IndInv /\ [Next]_vars =>
        [\A e \in DOMAIN edges \cap DOMAIN edges' :
           edges[e].to \in Targets(edges, Real(edges) \cap Functional(edges))
           => edges'[e].to = edges[e].to]_vars
  BY <1>1
<1>3. QED
  BY <1>2, Inductive, PTL DEF Spec, ProducedLinksStay
=============================================================================
