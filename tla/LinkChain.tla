------------------------------- MODULE LinkChain -------------------------------
(***************************************************************************)
(* The technosphere side of LinkAllPipeline.run: from the parsed SimaPro   *)
(* inventory to the exchanges of the scoring frame.  Processes and product *)
(* nodes are deleted, linked, relabelled, promoted, reclassified, purged,  *)
(* relinked and matched against ecoinvent, one transform after the other,  *)
(* each deciding by what the ones before it left.                          *)
(*                                                                         *)
(* A name is an opaque value; what the transforms read off it (its SimaPro *)
(* stem and location, whether it is electricity or a dummy) is given by    *)
(* constant functions.  An amount is n, which no rescaling changes, and    *)
(* the unit its number is measured in: a conversion keeps n and changes    *)
(* both units, a relink may change the unit field alone.                   *)
(***************************************************************************)
EXTENDS Naturals, Sequences, FiniteSets

CONSTANTS
    Process,      \* codes of Agribalyse processes
    Product,      \* codes of Agribalyse product nodes
    Activity,     \* codes of ecoinvent activities
    Edge,         \* exchanges
    Name, Unit, Location, Ref,
    ProcessName,  \* [Process -> Name]
    NameOf, UnitOf,   \* name and unit of a product node
    Stem, Place,  \* (display, suffix) and location of a SimaPro name
    Candidates,   \* the ecoinvent names a stem may stand for, in order
    Fallback,     \* OrphanProductRelinker._LOCATION_FALLBACK
    Rank,         \* siblings by (location, code), activities by code
    Catalog,      \* ecoinvent_catalog.parquet
    Corrected,    \* edge_label_corrections.parquet
    Restored,     \* the simapro-ecoinvent datapackages
    CustomFix,    \* custom_technosphere_fixes.json
    Conversion,   \* target of the first usable unit conversion
    Electricity,  \* names of electricity
    Dummy,        \* names that contain "[dummy]"
    Megajoule, KilowattHour,
    Unlinked, None,   \* no `input`; no stem, location, row, unit ...
    Garbled,      \* a number that measures nothing any more
    Sources       \* the inventories the chain starts from

Label == [name : Name, loc : Location \cup {None}, ref : Ref \cup {None}]

Exchange == [of : Process, type : {"production", "technosphere"}, functional : BOOLEAN,
             stub : BOOLEAN,    \* the comment of bw_simapro_csv's dummy edge
             n : Nat, measure : Unit \cup {Garbled}, alloc : {0, 1},
             to : Product \cup Activity \cup {Unlinked}, unit : Unit, label : Label]

\* A row of deletions.parquet; a row with a code does not match by name.
DeletionRow == [kind : {"process"}, code : Process \cup {None}, name : Name]
          \cup [kind : {"product"}, code : Product \cup {None}, name : Name]

\* What the parser yields: an exchange that stands for an output of its
\* process carries the product node and its name and unit, any other exchange
\* is not linked yet; the dummy is the only production of its process.
WellFormed(S) ==
    /\ DOMAIN S.edges \subseteq Edge
    /\ S.multi \subseteq Process /\ S.emits \subseteq Process
    /\ S.deletions \subseteq DeletionRow
    /\ \A e \in DOMAIN S.edges :
         LET x == S.edges[e] IN
         /\ x \in Exchange
         /\ x.measure = x.unit /\ x.alloc = 1 /\ x.label.loc = None /\ x.label.ref = None
         /\ IF x.type = "production" \/ x.functional
              THEN x.to \in Product /\ x.label.name = NameOf[x.to] /\ x.unit = UnitOf[x.to]
              ELSE x.to = Unlinked
         /\ x.stub => /\ x.type = "production" /\ ~x.functional /\ x.n = 0
                      /\ \A f \in DOMAIN S.edges :
                           S.edges[f].of = x.of /\ S.edges[f].type = "production" => f = e

ASSUME LinkAssumption ==
    /\ ProcessName \in [Process -> Name]
    /\ NameOf \in [Product -> Name] /\ UnitOf \in [Product -> Unit]
    /\ Place \in [Name -> Location \cup {None}]
    /\ Fallback \in Seq(Location)
    /\ \A n \in Name : Stem[n] # None => Candidates[Stem[n]] \in Seq(Name)
    /\ Rank \in [Product \cup Activity -> Nat]
    /\ \A a, b \in Product \cup Activity : Rank[a] = Rank[b] => a = b
    /\ Catalog \in [Activity -> [name : Name, unit : Unit, loc : Location, ref : Ref]]
    /\ Corrected \in [Name -> Name]
    /\ Restored \in [Name -> Label \cup {None}] /\ CustomFix \in [Name -> Label \cup {None}]
    /\ Conversion \in [Unit -> Unit \cup {None}]
    /\ KilowattHour \in Unit
    /\ Product \cap Activity = {} /\ Unlinked \notin Product \cup Activity

ASSUME SourceAssumption == \A S \in Sources : WellFormed(S)

VARIABLES
    stage,     \* the transform the graph has been through
    source,    \* the parsed inventory
    live,      \* the processes in sp.data
    nodes,     \* the product nodes in sp.data
    edges,     \* the exchanges of the processes in sp.data
    rerouted,  \* history: exchanges OrphanProductRelinker gave a new target
    report     \* unlinked/technosphere_unlinked.json

vars == <<stage, source, live, nodes, edges, rerouted, report>>

-----------------------------------------------------------------------------

Of(E, p) == {e \in DOMAIN E : E[e].of = p}
Production(E) == {e \in DOMAIN E : E[e].type = "production"}
Consumption(E) == {e \in DOMAIN E : E[e].type = "technosphere"}
Functional(E) == {e \in DOMAIN E : E[e].functional}
\* A production that carries an amount.
Real(E) == {e \in Production(E) : E[e].n # 0}
Targets(E, D) == {E[e].to : e \in D}

Keep(E, D) == [e \in DOMAIN E \cap D |-> E[e]]
OfLive(E, P) == Keep(E, {e \in DOMAIN E : E[e].of \in P})

-----------------------------------------------------------------------------
(* AggregateDeleter *)

Listed(S, k, c, n) == \E r \in S.deletions :
    r.kind = k /\ IF r.code # None THEN r.code = c ELSE r.name = n
ListedProcess(S, p) == Listed(S, "process", p, ProcessName[p])
ListedProduct(S, q) == Listed(S, "product", q, NameOf[q])

\* Emissions and no inputs: the upstream chain is in the emissions.
IsSystemProcess(S, p) ==
    /\ p \notin S.multi
    /\ p \in S.emits
    /\ Of(S.edges, p) \cap Consumption(S.edges) = {}

\* Mutant: the products of a kept process are not looked up.
PairedNone(S) == {}

\* The products of the listed processes that are kept.
Paired(S) == {S.edges[e].to : e \in {f \in Production(S.edges) :
    ListedProcess(S, S.edges[f].of) /\ IsSystemProcess(S, S.edges[f].of)}}
PairedNames(S) == {NameOf[q] : q \in Paired(S)}

\* A multifunctional process is treated as a product is.
KeptProcesses(S) == {p \in Process :
    ListedProcess(S, p) => \/ IsSystemProcess(S, p)
                           \/ p \in S.multi /\ ProcessName[p] \in PairedNames(S)}

KeptProducts(S) == {q \in Product :
    ListedProduct(S, q) => q \in Paired(S) \/ NameOf[q] \in PairedNames(S)}

DeleteAggregates ==
    /\ stage = "parsed"
    /\ stage' = "deleted"
    /\ live' = KeptProcesses(source)
    /\ nodes' = KeptProducts(source)
    /\ edges' = OfLive(edges, live')
    /\ UNCHANGED <<source, rerouted, report>>

-----------------------------------------------------------------------------
(* InternalAgbLinker: name and unit, ambiguous keys stay unlinked *)

Namesakes(e) == {q \in nodes : NameOf[q] = e.label.name /\ UnitOf[q] = e.unit}

LinkedByName(e) ==
    IF e.to = Unlinked /\ Cardinality(Namesakes(e)) = 1
      THEN [e EXCEPT !.to = CHOOSE q \in Namesakes(e) : TRUE] ELSE e

LinkInternal ==
    /\ stage = "deleted"
    /\ stage' = "linked"
    /\ edges' = [e \in DOMAIN edges |-> LinkedByName(edges[e])]
    /\ UNCHANGED <<source, live, nodes, rerouted, report>>

-----------------------------------------------------------------------------
(* EdgeLabelCorrector and RestoreSimaproNamesTransform rename every         *)
(* exchange, linked or not; product nodes keep their names.                *)

CorrectLabels ==
    /\ stage = "linked"
    /\ stage' = "corrected"
    /\ edges' = [e \in DOMAIN edges |-> [edges[e] EXCEPT !.label.name = Corrected[@]]]
    /\ UNCHANGED <<source, live, nodes, rerouted, report>>

Relabelled(e, table) ==
    IF table[e.label.name] = None THEN e ELSE [e EXCEPT !.label = table[@.name]]

RestoreNames ==
    /\ stage = "corrected"
    /\ stage' = "restored"
    /\ edges' = [e \in DOMAIN edges |-> Relabelled(edges[e], Restored)]
    /\ UNCHANGED <<source, live, nodes, rerouted, report>>

-----------------------------------------------------------------------------
(* WasteTreatmentFunctionalPromoter *)

\* Nothing it makes is functional, but something it takes in is.
ToPromote(E) == {p \in Process :
    /\ Of(E, p) \cap Real(E) \cap Functional(E) = {}
    /\ Of(E, p) \cap Consumption(E) \cap Functional(E) # {}}

Flipped(E) == [e \in DOMAIN E |->
    IF E[e].functional /\ E[e].of \in ToPromote(E)
      THEN [E[e] EXCEPT !.type = "production"] ELSE E[e]]

\* Mutant: the empty productions stay.
PromotedWithStubs(E) == Flipped(E)

\* The empty productions go, the promoted ones among them.
Promoted(E) == LET F == Flipped(E) IN
    Keep(F, {e \in DOMAIN F : F[e].of \in ToPromote(E) => e \notin Production(F) \ Real(F)})

Promote ==
    /\ stage = "restored"
    /\ stage' = "promoted"
    /\ edges' = Promoted(edges)
    /\ UNCHANGED <<source, live, nodes, rerouted, report>>

-----------------------------------------------------------------------------
(* WasteTreatmentDummyFixer, ProductionReclassifier, OrphanActivityPurger *)

Stubs(E) == {e \in Production(E) \ Functional(E) : E[e].stub}

Beside(E, e) == e \in Functional(E) /\ \E f \in Stubs(E) : E[f].of = E[e].of

Fixed(E) == [e \in DOMAIN E |->
    IF e \in Stubs(E) THEN [E[e] EXCEPT !.n = 1, !.functional = TRUE, !.alloc = 1]
    ELSE IF Beside(E, e) THEN [E[e] EXCEPT !.alloc = 0]
    ELSE E[e]]

FixDummies ==
    /\ stage = "promoted"
    /\ stage' = "fixed"
    /\ edges' = Fixed(edges)
    /\ UNCHANGED <<source, live, nodes, rerouted, report>>

Reclassified(E) == [e \in DOMAIN E |->
    IF E[e].functional THEN E[e] ELSE [E[e] EXCEPT !.type = "technosphere"]]

Reclassify ==
    /\ stage = "fixed"
    /\ stage' = "reclassified"
    /\ edges' = Reclassified(edges)
    /\ UNCHANGED <<source, live, nodes, rerouted, report>>

HasFunctionalOutput(p) ==
    \E e \in Of(edges, p) : e \in Production(edges) \/ e \in Functional(edges)

Purge ==
    /\ stage = "reclassified"
    /\ stage' = "purged"
    /\ live' = {p \in live : HasFunctionalOutput(p)}
    /\ edges' = OfLive(edges, live')
    /\ UNCHANGED <<source, nodes, rerouted, report>>

-----------------------------------------------------------------------------
(* OrphanProductRelinker *)

\* Mutant: only the treated products count.
ProducedTreated(E) == Targets(E, Consumption(E) \cap Functional(E))

\* What counts as produced: the functional inputs do, too.
Produced(E) == Targets(E, Production(E) \cup Functional(E))

\* Product nodes that nothing produces.
Orphans(E) == nodes \ Produced(E)

Least(S) == CHOOSE x \in S : \A y \in S : Rank[x] <= Rank[y]

Chain(q) == <<Place[NameOf[q]]>> \o Fallback

\* The first of S along the chain of q; at gives the place of each of S.
Nearest(S, q, at) ==
    LET hits(i) == {x \in S : at[x] = Chain(q)[i]}
        first == CHOOSE i \in DOMAIN Chain(q) :
                   hits(i) # {} /\ \A j \in 1..(i - 1) : hits(j) = {}
    IN Least(hits(first))

OnChain(S, q, at) == {x \in S : \E i \in DOMAIN Chain(q) : at[x] = Chain(q)[i]}

\* Produced products of the same stem, anywhere if none is on the chain.
SiblingPlace == [r \in Product |-> Place[NameOf[r]]]
Siblings(q) == {r \in nodes \cap Produced(edges) : Stem[NameOf[r]] = Stem[NameOf[q]]}
Sibling(q) == IF OnChain(Siblings(q), q, SiblingPlace) # {}
                THEN Nearest(Siblings(q), q, SiblingPlace) ELSE Least(Siblings(q))

\* Else the activities of the first candidate name that has one on the chain.
ActivityPlace == [a \in Activity |-> Catalog[a].loc]
Named(q, i) == OnChain({a \in Activity : Catalog[a].name = Candidates[Stem[NameOf[q]]][i]},
                       q, ActivityPlace)
Hits(q) == {i \in DOMAIN Candidates[Stem[NameOf[q]]] : Named(q, i) # {}}
EcoinventHit(q) == Nearest(Named(q, CHOOSE i \in Hits(q) : \A j \in Hits(q) : i <= j),
                           q, ActivityPlace)

Target(q) == CASE Stem[NameOf[q]] = None -> Unlinked
               [] Stem[NameOf[q]] # None /\ Siblings(q) # {} -> Sibling(q)
               [] Stem[NameOf[q]] # None /\ Siblings(q) = {} /\ Hits(q) # {} -> EcoinventHit(q)
               [] OTHER -> Unlinked

\* The exchange gets the name, location and unit of its target; the number
\* stays.  Product nodes have no reference product.
Rerouted(e, t) ==
    IF t \in Product
      THEN [e EXCEPT !.to = t, !.unit = UnitOf[t], !.label.name = NameOf[t],
                     !.label.loc = Place[NameOf[t]]]
      ELSE [e EXCEPT !.to = t, !.unit = Catalog[t].unit,
                     !.label = [name |-> Catalog[t].name, loc |-> Catalog[t].loc,
                                ref |-> Catalog[t].ref]]

\* Mutant: an exchange without a new target keeps its old one.
RelinkedOrKept(e) ==
    IF e.to \notin Orphans(edges) \/ Target(e.to) = Unlinked THEN e
    ELSE Rerouted(e, Target(e.to))

Relinked(e) ==
    IF e.to \notin Orphans(edges) THEN e
    ELSE IF Target(e.to) = Unlinked THEN [e EXCEPT !.to = Unlinked]
    ELSE Rerouted(e, Target(e.to))

RelinkOrphans ==
    /\ stage = "purged"
    /\ stage' = "relinked"
    /\ edges' = [e \in DOMAIN edges |-> Relinked(edges[e])]
    /\ nodes' = nodes \ Orphans(edges)
    /\ rerouted' = {e \in DOMAIN edges : edges[e].to \in Orphans(edges)
                                         /\ Target(edges[e].to) # Unlinked}
    /\ UNCHANGED <<source, live, report>>

-----------------------------------------------------------------------------
(* TechnosphereMatcher.match *)

IsUnlinked(e) == e.type = "technosphere" /\ e.to = Unlinked

Rescaled(e, u, v) ==
    [e EXCEPT !.unit = v, !.measure = IF @ = u THEN v ELSE Garbled]

\* Every exchange of electricity, linked or not.
Harmonised(e) == IF e.label.name \in Electricity /\ e.unit = Megajoule
                   THEN Rescaled(e, Megajoule, KilowattHour) ELSE e

LinkedTo(e, hits) == IF IsUnlinked(e) /\ Cardinality(hits) = 1
                       THEN [e EXCEPT !.to = CHOOSE a \in hits : TRUE] ELSE e

RelaxedHits(e) == {a \in Activity : /\ Catalog[a].name = e.label.name
                                    /\ Catalog[a].unit = e.unit
                                    /\ Catalog[a].loc = e.label.loc}
Strict(e) == LinkedTo(e, {a \in RelaxedHits(e) : Catalog[a].ref = e.label.ref})

\* Mutant: the reference product is looked at once more.
RelaxedToStrict(e) == Strict(e)

Relaxed(e) == LinkedTo(e, RelaxedHits(e))

\* Mutant: linked exchanges are converted, too.
ConvertedAny(e) == IF e.type = "technosphere" /\ Conversion[e.unit] # None
                     THEN Rescaled(e, e.unit, Conversion[e.unit]) ELSE e

Converted(e) == IF IsUnlinked(e) /\ Conversion[e.unit] # None
                  THEN Rescaled(e, e.unit, Conversion[e.unit]) ELSE e

Customised(e) == IF e.to = Unlinked THEN Relabelled(e, CustomFix) ELSE e

Matched(e) == Relaxed(Strict(Customised(Strict(Converted(Strict(Harmonised(e)))))))

MatchTechnosphere ==
    /\ stage = "relinked"
    /\ stage' = "matched"
    /\ edges' = [e \in DOMAIN edges |-> Matched(edges[e])]
    /\ UNCHANGED <<source, live, nodes, rerouted, report>>

-----------------------------------------------------------------------------
(* UnlinkedExporter, then drop_unlinked and ExchangeFrameBuilder *)

Residual(E) == {E[e].label.name : e \in {f \in DOMAIN E : IsUnlinked(E[f])}} \ Dummy

ExportUnlinked ==
    /\ stage = "matched"
    /\ stage' = "exported"
    /\ report' = Residual(edges)
    /\ UNCHANGED <<source, live, nodes, edges, rerouted>>

BuildFrame ==
    /\ stage = "exported"
    /\ stage' = "frame"
    /\ edges' = Keep(edges, {e \in DOMAIN edges : edges[e].to # Unlinked})
    /\ UNCHANGED <<source, live, nodes, rerouted, report>>

-----------------------------------------------------------------------------

Init ==
    /\ stage = "parsed"
    /\ source \in Sources
    /\ live = Process
    /\ nodes = Product
    /\ edges = source.edges
    /\ rerouted = {}
    /\ report = {}

Next == \/ DeleteAggregates \/ LinkInternal \/ CorrectLabels \/ RestoreNames
        \/ Promote \/ FixDummies \/ Reclassify \/ Purge
        \/ RelinkOrphans \/ MatchTechnosphere \/ ExportUnlinked \/ BuildFrame

Spec == Init /\ [][Next]_vars

-----------------------------------------------------------------------------
(* Properties *)

\* What a process provides, read off its source: what it makes; else the
\* waste it treats; else, by convention, one unit of nothing.
Provides(S, p) ==
    LET E == S.edges
        made == Of(E, p) \cap Real(E) \cap Functional(E)
        treated == Of(E, p) \cap Consumption(E) \cap Functional(E)
    IN CASE made # {}                    -> made
         [] made = {} /\ treated # {}    -> {e \in treated : E[e].n # 0}
         [] made = {} /\ treated = {}    -> Of(E, p) \cap Stubs(E)

\* A process stays in the graph that only makes an amount of zero.
MakesZero(S, p) ==
    LET E == S.edges
    IN /\ Of(E, p) \cap Production(E) \cap Functional(E) # {}
       /\ Of(E, p) \cap Consumption(E) \cap Functional(E) = {}

\* "WasteTreatmentFunctionalPromoter MUST run before WasteTreatmentDummyFixer"
\* (pipelines/link_all.py): a process reaches the frame iff it is not deleted
\* and provides something, and there it makes exactly what its source says it
\* provides, in the amount the source gives, with an allocation factor of one.
ReferenceKept ==
    stage = "frame" =>
        /\ live = {p \in KeptProcesses(source) :
                     Provides(source, p) # {} \/ MakesZero(source, p)}
        /\ \A p \in live :
             /\ Of(edges, p) \cap Real(edges) = Provides(source, p)
             /\ \A e \in Provides(source, p) :
                  /\ edges[e].n = IF e \in Stubs(source.edges) THEN 1 ELSE source.edges[e].n
                  /\ edges[e].alloc = 1
                  /\ edges[e].to = source.edges[e].to

\* Why an input of product q may find nobody who makes it: q is only made in
\* an amount of zero, or only named as a treatment by a process that makes
\* something else, or its node was deleted under the row that names it.
Excused(e, q) ==
    \/ q \in Targets(edges, Production(edges) \ Real(edges))
    \/ q \in Targets(edges, Consumption(edges) \cap Functional(edges))
    \/ e \in Production(source.edges) /\ q \notin KeptProducts(source)

\* "Nothing is silently lost" (transforms/orphan_activity_purger.py): when the
\* residuals have been exported, an input that carries an amount is linked to
\* ecoinvent or to a product that is really made, or it is in the report, or
\* it is a dummy; with three exceptions, which DanglingEdgePruner drops later.
NothingSilentlyLost ==
    stage = "exported" =>
        \A e \in Consumption(edges) :
            \/ edges[e].to \in Activity \cup Targets(edges, Real(edges))
            \/ edges[e].to = Unlinked /\ edges[e].label.name \in report \cup Dummy
            \/ edges[e].to \in Product /\ Excused(e, edges[e].to)

\* A quantity is told in one unit on both ends of a link, however the labels
\* and units were rewritten on the way; only a relink to a target of another
\* unit carries its number over as it is.
UnitsAgree ==
    stage = "frame" =>
        \A e \in Consumption(edges) \ rerouted :
            IF edges[e].to \in Activity
              THEN edges[e].measure = Catalog[edges[e].to].unit
              ELSE \A f \in Production(edges) :
                     edges[f].to = edges[e].to => edges[f].measure = edges[e].measure

\* "AGB consumers reach the AGB system process via the pre-existing
\* technosphere link" (transforms/deletions.py): whoever asks for the product
\* of a listed system process by name and unit gets it, when no other product
\* goes by them.
SystemProcessReached ==
    stage = "frame" =>
        \A p \in live, e \in Consumption(source.edges) :
            LET asked == source.edges[e] IN
            /\ ListedProcess(source, p) /\ IsSystemProcess(source, p)
            /\ asked.of \in live /\ asked.to = Unlinked
            => \A q \in Targets(source.edges, Provides(source, p)) :
                 {r \in Product : NameOf[r] = asked.label.name /\ UnitOf[r] = asked.unit} = {q}
                 => e \in DOMAIN edges /\ edges[e].to = q

\* "Edge labels MUST run before RestoreSimaproNamesTransform"
\* (pipelines/link_all.py) and the relaxed pass "catches stale labels"
\* (matching/technosphere.py): an input no product goes by, whose corrected
\* label a restore row turns into the name and location of one activity with
\* its unit, ends linked to it, even if the row's reference product is stale,
\* as long as no conversion of the unit or custom fix comes before.
LabelsLeadToEcoinvent ==
    stage = "frame" =>
        \A e \in Consumption(source.edges) :
            LET asked == source.edges[e]
                h == Harmonised(Relabelled([asked EXCEPT !.label.name = Corrected[@]], Restored))
            IN  /\ asked.of \in live /\ asked.to = Unlinked
                /\ \A q \in Product : NameOf[q] = asked.label.name => UnitOf[q] # asked.unit
                => \A a \in Activity :
                     /\ RelaxedHits(h) = {a}
                     /\ \/ Catalog[a].ref = h.label.ref
                        \/ Conversion[h.unit] = None /\ CustomFix[h.label.name] = None
                     => e \in DOMAIN edges /\ edges[e].to = a

\* No transform ever moves or cuts the link to a product that is really made.
ProducedLinksStay ==
    [][ \A e \in DOMAIN edges \cap DOMAIN edges' :
          edges[e].to \in Targets(edges, Real(edges) \cap Functional(edges))
          => edges'[e].to = edges[e].to ]_vars

\* A sibling "that some activity in sp.data actually produces (or consumes as
\* a functional=True waste-treatment input that the promoter has already
\* flipped to production)" (transforms/orphan_product_relinker.py): every
\* exchange that is moved to a sibling is moved to a product with a producer.
SiblingIsProduced ==
    stage = "relinked" =>
        \A e \in rerouted :
            edges[e].to \in Product => edges[e].to \in Targets(edges, Production(edges))
=============================================================================
