--------------------------- MODULE BioLink_proofs ---------------------------
(***************************************************************************)
(* Proofs about BioLink: what a link makes of an exchange is a function of *)
(* the CSV, the tables and the catalog, a catalog with more regional rows  *)
(* makes the same of it, and on the whole way it is converted once.        *)
(***************************************************************************)
EXTENDS BioLink, TLAPS, NaturalsInduction, WellFoundedInduction

LEMMA LeastNumber ==
    ASSUME NEW T \in SUBSET Nat, T # {}
    PROVE  \E m \in T : \A n \in T : m <= n
<1>1. PICK m \in T : \A n \in T : <<n, m>> \notin OpToRel(<, Nat)
  BY NatLessThanWellFounded, WFMin
<1>2. \A n \in T : ~ (n < m)
  BY <1>1 DEF OpToRel
<1>3. QED
  BY <1>2

\* What is true of 0, and of n if of n - 1, is true up to any bound.
LEMMA Induction ==
    ASSUME NEW L \in Nat, NEW T, 0 \in T, \A n \in 1..L : n - 1 \in T => n \in T
    PROVE  \A n \in 0..L : n \in T
<1>1. SUFFICES ASSUME NEW k \in 0..L, k \notin T PROVE FALSE
  OBVIOUS
<1>. DEFINE Bad == {n \in 0..L : n \notin T}
<1>2. PICK m \in Bad : \A n \in Bad : m <= n
  <2>1. Bad \in SUBSET Nat /\ Bad # {}
    BY <1>1
  <2>2. QED
    BY <2>1, LeastNumber
<1>3. m \in 1..L /\ m - 1 \in 0..L /\ m - 1 \notin Bad
  BY <1>2
<1>4. QED
  BY <1>2, <1>3

\* Each loop of the model is a function that satisfies its equation.
LEMMA PickedLoop ==
    ASSUME NEW s, Len(s) \in Nat, NEW I
    PROVE  \E f : /\ f[0] = << >>
                  /\ \A i \in 1..Len(s) : f[i] = IF i \in I THEN Append(f[i - 1], s[i]) ELSE f[i - 1]
                  /\ Picked(s, I) = f[Len(s)]
<1>. DEFINE Step(a, i) == IF i \in I THEN Append(a, s[i]) ELSE a
            Ok(f, n) == f[0] = << >> /\ \A i \in 1..n : f[i] = Step(f[i - 1], i)
            T == {n \in 0..Len(s) : \E f : Ok(f, n)}
            Body(f) == [i \in 0..Len(s) |-> IF i = 0 THEN << >> ELSE Step(f[i - 1], i)]
<1>. HIDE DEF Step
<1>1. 0 \in T
  <2>1. Ok([i \in 0..0 |-> << >>], 0)
    OBVIOUS
  <2>. HIDE DEF Ok
  <2>2. QED
    BY <2>1
<1>2. ASSUME NEW n \in 1..Len(s), n - 1 \in T PROVE n \in T
  <2>1. PICK g : Ok(g, n - 1)
    BY <1>2
  <2>. DEFINE f == [i \in 0..n |-> IF i = n THEN Step(g[n - 1], n) ELSE g[i]]
  <2>2. /\ \A i \in 0..n - 1 : f[i] = g[i]
        /\ f[n] = Step(f[n - 1], n)
    OBVIOUS
  <2>. HIDE DEF f
  <2>3. Ok(f, n)
    <3>1. f[0] = << >>
      BY <2>1, <2>2
    <3>2. ASSUME NEW i \in 1..n PROVE f[i] = Step(f[i - 1], i)
      <4>1. CASE i = n
        BY <2>2, <4>1
      <4>2. CASE i # n
        BY <2>1, <2>2, <4>2
      <4>3. QED
        BY <4>1, <4>2
    <3>3. QED
      BY <3>1, <3>2
  <2>4. QED
    BY <2>3
<1>3. PICK g : Ok(g, Len(s))
  <2>. HIDE DEF Ok
  <2>1. \A n \in 0..Len(s) : n \in T
    <3>. HIDE DEF T
    <3>1. QED
      BY <1>1, <1>2, Induction
  <2>2. QED
    BY <2>1
<1>. DEFINE h == [i \in 0..Len(s) |-> g[i]]
<1>4. h = Body(h)
  BY <1>3
<1>. DEFINE f == CHOOSE f : f = Body(f)
<1>5. f = Body(f)
  BY <1>4
<1>6. Picked(s, I) = f[Len(s)]
  BY DEF Picked, Step
<1>. HIDE DEF f
<1>7. \A i \in 0..Len(s) : f[i] = IF i = 0 THEN f[0] ELSE Step(f[i - 1], i)
  BY <1>5
<1>8. f[0] = << >>
  BY <1>5
<1>9. QED
  BY <1>6, <1>7, <1>8 DEF Step


-----------------------------------------------------------------------------
(* The tables of the registry *)

LEMMA PickedFacts ==
    ASSUME NEW X, NEW s \in Seq(X), NEW I
    PROVE  Picked(s, I) \in Seq(X)
<1>1. Len(s) \in Nat /\ \A i \in 1..Len(s) : s[i] \in X
  OBVIOUS
<1>2. PICK f : /\ f[0] = << >>
               /\ \A i \in 1..Len(s) : f[i] = IF i \in I THEN Append(f[i - 1], s[i]) ELSE f[i - 1]
               /\ Picked(s, I) = f[Len(s)]
  BY <1>1, PickedLoop
<1>. DEFINE T == {i \in 0..Len(s) : f[i] \in Seq(X)}
<1>3. 0 \in T
  <2>1. f[0] \in Seq(X)
    BY <1>2
  <2>2. QED
    BY <1>1, <2>1
<1>4. ASSUME NEW i \in 1..Len(s), i - 1 \in T PROVE i \in T
  <2>1. f[i - 1] \in Seq(X) /\ s[i] \in X
    BY <1>1, <1>4
  <2>2. Append(f[i - 1], s[i]) \in Seq(X)
    BY <2>1
  <2>3. f[i] \in Seq(X)
    BY <1>2, <2>1, <2>2
  <2>4. i \in 0..Len(s)
    BY <1>1
  <2>5. QED
    BY <2>3, <2>4
<1>5. \A i \in 0..Len(s) : i \in T
  <2>. HIDE DEF T
  <2>1. QED
    BY <1>1, <1>3, <1>4, Induction
<1>6. Len(s) \in 0..Len(s)
  BY <1>1
<1>7. QED
  BY <1>2, <1>5, <1>6

\* A table whose rows point at plain codes.
PlainRow(r) == r.code \in PlainCodes /\ r.tname \in Nat /\ r.tier \in 1..12 /\ r.prov \in Nat
PlainTable(s) == s \in Seq(Range(s)) /\ \A i \in DOMAIN s : PlainRow(s[i])

LEMMA TableOf ==
    ASSUME NEW X, NEW s \in Seq(X), \A r \in X : PlainRow(r)
    PROVE  PlainTable(s)
<1>1. DOMAIN s = 1..Len(s) /\ Len(s) \in Nat /\ \A i \in 1..Len(s) : s[i] \in X
  OBVIOUS
<1>2. \A i \in 1..Len(s) : s[i] \in Range(s)
  BY <1>1 DEF Range
<1>3. s \in Seq(Range(s))
  BY <1>1, <1>2
<1>4. QED
  BY <1>1, <1>3 DEF PlainTable

LEMMA RowsOf ==
    ASSUME NEW s, PlainTable(s)
    PROVE  \E X : s \in Seq(X) /\ \A r \in X : PlainRow(r)
<1>1. s \in Seq(Range(s)) /\ \A r \in Range(s) : PlainRow(r)
  BY DEF PlainTable, Range
<1>2. QED
  BY <1>1

LEMMA JoinedTables ==
    ASSUME NEW s, NEW t, PlainTable(s), PlainTable(t)
    PROVE  PlainTable(s \o t)
<1>1. PICK X : s \in Seq(X) /\ \A r \in X : PlainRow(r)
  BY RowsOf
<1>2. PICK Y : t \in Seq(Y) /\ \A r \in Y : PlainRow(r)
  BY RowsOf
<1>3. s \in Seq(X \cup Y) /\ t \in Seq(X \cup Y)
  BY <1>1, <1>2
<1>4. s \o t \in Seq(X \cup Y)
  BY <1>3
<1>5. \A r \in X \cup Y : PlainRow(r)
  BY <1>1, <1>2
<1>6. QED
  BY <1>4, <1>5, TableOf

LEMMA PickedTable ==
    ASSUME NEW s, PlainTable(s), NEW I
    PROVE  PlainTable(Picked(s, I))
<1>1. PICK X : s \in Seq(X) /\ \A r \in X : PlainRow(r)
  BY RowsOf
<1>2. Picked(s, I) \in Seq(X)
  BY <1>1, PickedFacts
<1>3. QED
  BY <1>1, <1>2, TableOf

\* A source of entries, of which some become rows.
Entries(s) == s \in Seq(Range(s)) /\ \A i \in DOMAIN s : IsEntry(s[i])

LEMMA PickedEntries ==
    ASSUME NEW s, Entries(s), NEW I
    PROVE  /\ Len(Picked(s, I)) \in Nat /\ DOMAIN Picked(s, I) = 1..Len(Picked(s, I))
           /\ \A i \in DOMAIN Picked(s, I) : IsEntry(Picked(s, I)[i])
<1>1. s \in Seq(Range(s)) /\ \A e \in Range(s) : IsEntry(e)
  BY DEF Entries, Range
<1>2. Picked(s, I) \in Seq(Range(s))
  BY <1>1, PickedFacts
<1>3. PICK p : p = Picked(s, I)
  OBVIOUS
<1>4. Len(p) \in Nat /\ DOMAIN p = 1..Len(p) /\ \A i \in DOMAIN p : p[i] \in Range(s)
  BY <1>2, <1>3
<1>5. QED
  BY <1>1, <1>3, <1>4

LEMMA MappedTable ==
    ASSUME NEW f, NEW n \in Nat, DOMAIN f = 1..n, f = [i \in 1..n |-> f[i]],
           \A i \in 1..n : PlainRow(f[i])
    PROVE  PlainTable(f)
<1>1. f \in Seq(Range(f))
  BY DEF Range
<1>2. QED
  BY <1>1 DEF PlainTable

LEMMA PlainNoCode == NoCode \in PlainCodes
BY DEF NoCode, PlainCodes

LEMMA RowFacts ==
    ASSUME NEW e, e.tname \in Nat, NEW bucket, NEW db, NEW conv,
           NEW code \in PlainCodes, NEW tier \in 1..12, NEW prov \in Nat
    PROVE  PlainRow(Row(e, bucket, db, code, conv, tier, prov))
<1>1. PICK r : r = Row(e, bucket, db, code, conv, tier, prov)
  OBVIOUS
<1>2. r.code = code /\ r.tname = e.tname /\ r.tier = tier /\ r.prov = prov
  BY <1>1 DEF Row
<1>3. QED
  BY <1>1, <1>2 DEF PlainRow

LEMMA PlaceholderTable ==
    ASSUME NEW s, Entries(s), NEW tier \in 1..12, NEW prov \in Nat
    PROVE  PlainTable(PlaceholderRows(s, tier, prov))
<1>1. PICK p : p = Picked(s, {i \in DOMAIN s : s[i].name # NoName})
  OBVIOUS
<1>2. Len(p) \in Nat /\ DOMAIN p = 1..Len(p) /\ \A i \in DOMAIN p : IsEntry(p[i])
  BY <1>1, PickedEntries
<1>3. PICK f : f = [i \in 1..Len(p) |->
                      Row(p[i], Bucket(p[i].cats), "", NoCode, One, tier, prov)]
  OBVIOUS
<1>4. ASSUME NEW i \in 1..Len(p) PROVE PlainRow(f[i])
  <2>1. p[i].code \in PlainCodes /\ p[i].tname \in Nat /\ p[i].tier \in 1..12
    BY <1>2 DEF IsEntry
  <2>2. PlainRow(Row(p[i], Bucket(p[i].cats), "", NoCode, One, tier, prov))
    BY <2>1, PlainNoCode, RowFacts
  <2>3. QED
    BY <1>3, <2>2
<1>5. PlainTable(f)
  BY <1>2, <1>3, <1>4, MappedTable
<1>6. PlaceholderRows(s, tier, prov) = f
  BY <1>1, <1>2, <1>3 DEF PlaceholderRows, Mapped
<1>7. QED
  BY <1>5, <1>6

LEMMA RandonneurTable ==
    ASSUME NEW s, Entries(s), NEW tier \in 1..12
    PROVE  PlainTable(RandonneurRows(s, tier))
<1>1. Len(s) \in Nat /\ DOMAIN s = 1..Len(s) /\ \A i \in DOMAIN s : IsEntry(s[i])
  BY DEF Entries
<1>2. PICK f : f = [i \in 1..Len(s) |->
                      Row(s[i], Bucket(s[i].cats), "", s[i].code, s[i].conv, tier, ProvRandonneur)]
  OBVIOUS
<1>3. ASSUME NEW i \in 1..Len(s) PROVE PlainRow(f[i])
  <2>1. s[i].code \in PlainCodes /\ s[i].tname \in Nat /\ s[i].tier \in 1..12
    BY <1>1 DEF IsEntry
  <2>2. PlainRow(Row(s[i], Bucket(s[i].cats), "", s[i].code, s[i].conv, tier, ProvRandonneur))
    BY <2>1, PlainNoCode, RowFacts DEF ProvRandonneur
  <2>3. QED
    BY <1>2, <2>2
<1>4. PlainTable(f)
  BY <1>1, <1>2, <1>3, MappedTable
<1>5. RandonneurRows(s, tier) = f
  BY <1>1, <1>2 DEF RandonneurRows, Mapped
<1>6. QED
  BY <1>4, <1>5

LEMMA FlowmapperTable ==
    ASSUME NEW s, Entries(s)
    PROVE  PlainTable(FlowmapperRows(s))
<1>1. PICK p : p = Picked(s, {i \in DOMAIN s : s[i].code # NoCode \/ s[i].tname # 0})
  OBVIOUS
<1>2. Len(p) \in Nat /\ DOMAIN p = 1..Len(p) /\ \A i \in DOMAIN p : IsEntry(p[i])
  BY <1>1, PickedEntries
<1>3. PICK f : f = [i \in 1..Len(p) |->
                      Row(p[i], Bucket(p[i].cats), "", p[i].code,
                          IF p[i].fault = "nan" THEN One ELSE p[i].conv, AgribalyseEi, ProvFlowmapper)]
  OBVIOUS
<1>4. ASSUME NEW i \in 1..Len(p) PROVE PlainRow(f[i])
  <2>1. p[i].code \in PlainCodes /\ p[i].tname \in Nat /\ p[i].tier \in 1..12
    BY <1>2 DEF IsEntry
  <2>2. AgribalyseEi \in 1..12 /\ ProvFlowmapper \in Nat
    BY DEF AgribalyseEi, ProvFlowmapper
  <2>3. PICK conv : conv = IF p[i].fault = "nan" THEN One ELSE p[i].conv
    OBVIOUS
  <2>4. PlainRow(Row(p[i], Bucket(p[i].cats), "", p[i].code, conv, AgribalyseEi, ProvFlowmapper))
    BY <2>1, <2>2, RowFacts
  <2>5. QED
    BY <1>3, <2>3, <2>4
<1>5. PlainTable(f)
  BY <1>2, <1>3, <1>4, MappedTable
<1>6. FlowmapperRows(s) = f
  BY <1>1, <1>2, <1>3 DEF FlowmapperRows, Mapped
<1>7. QED
  BY <1>5, <1>6

LEMMA HarmonisedTable ==
    ASSUME NEW s, Entries(s), NEW valid
    PROVE  PlainTable(HarmonisedRows(s, valid))
<1>1. PICK p : p = Picked(s, {i \in DOMAIN s : s[i].ef31 /\ s[i].code \in valid})
  OBVIOUS
<1>2. Len(p) \in Nat /\ DOMAIN p = 1..Len(p) /\ \A i \in DOMAIN p : IsEntry(p[i])
  BY <1>1, PickedEntries
<1>3. PICK f : f = [i \in 1..Len(p) |->
                      Row(p[i], p[i].iri, "ef", p[i].code, One, Harmonised, ProvHarmonised)]
  OBVIOUS
<1>4. ASSUME NEW i \in 1..Len(p) PROVE PlainRow(f[i])
  <2>1. p[i].code \in PlainCodes /\ p[i].tname \in Nat /\ p[i].tier \in 1..12
    BY <1>2 DEF IsEntry
  <2>2. Harmonised \in 1..12 /\ ProvHarmonised \in Nat
    BY DEF Harmonised, ProvHarmonised
  <2>3. PlainRow(Row(p[i], p[i].iri, "ef", p[i].code, One, Harmonised, ProvHarmonised))
    BY <2>1, <2>2, PlainNoCode, RowFacts
  <2>4. QED
    BY <1>3, <2>3
<1>5. PlainTable(f)
  BY <1>2, <1>3, <1>4, MappedTable
<1>6. HarmonisedRows(s, valid) = f
  BY <1>1, <1>2, <1>3 DEF HarmonisedRows, Mapped
<1>7. QED
  BY <1>5, <1>6

LEMMA CuratedTable ==
    ASSUME NEW s, Entries(s)
    PROVE  PlainTable(CuratedRows(s))
<1>1. PICK p : p = Picked(s, {i \in DOMAIN s : ~s[i].dead})
  OBVIOUS
<1>2. Len(p) \in Nat /\ DOMAIN p = 1..Len(p) /\ \A i \in DOMAIN p : IsEntry(p[i])
  BY <1>1, PickedEntries
<1>3. PICK f : f = [i \in 1..Len(p) |->
                      Row(p[i], Bucket(p[i].cats), p[i].db, p[i].code, p[i].conv, p[i].tier, ProvCurated)]
  OBVIOUS
<1>4. ASSUME NEW i \in 1..Len(p) PROVE PlainRow(f[i])
  <2>1. p[i].code \in PlainCodes /\ p[i].tname \in Nat /\ p[i].tier \in 1..12
    BY <1>2 DEF IsEntry
  <2>2. PlainRow(Row(p[i], Bucket(p[i].cats), p[i].db, p[i].code, p[i].conv, p[i].tier, ProvCurated))
    BY <2>1, PlainNoCode, RowFacts DEF ProvCurated
  <2>3. QED
    BY <1>3, <2>2
<1>5. PlainTable(f)
  BY <1>2, <1>3, <1>4, MappedTable
<1>6. CuratedRows(s) = f
  BY <1>1, <1>2, <1>3 DEF CuratedRows, Mapped
<1>7. QED
  BY <1>5, <1>6

LEMMA LlmTable ==
    ASSUME NEW s, Entries(s)
    PROVE  PlainTable(LlmRows(s))
<1>1. PICK p : p = Picked(s, {i \in DOMAIN s : s[i].accept /\ s[i].tname # 0})
  OBVIOUS
<1>2. Len(p) \in Nat /\ DOMAIN p = 1..Len(p) /\ \A i \in DOMAIN p : IsEntry(p[i])
  BY <1>1, PickedEntries
<1>3. PICK f : f = [i \in 1..Len(p) |->
                      Row(p[i], "unspecified", "biosphere3", NoCode, p[i].conv, LlmOverrides, ProvLlm)]
  OBVIOUS
<1>4. ASSUME NEW i \in 1..Len(p) PROVE PlainRow(f[i])
  <2>1. p[i].code \in PlainCodes /\ p[i].tname \in Nat /\ p[i].tier \in 1..12
    BY <1>2 DEF IsEntry
  <2>2. LlmOverrides \in 1..12 /\ ProvLlm \in Nat
    BY DEF LlmOverrides, ProvLlm
  <2>3. PlainRow(Row(p[i], "unspecified", "biosphere3", NoCode, p[i].conv, LlmOverrides, ProvLlm))
    BY <2>1, <2>2, PlainNoCode, RowFacts
  <2>4. QED
    BY <1>3, <2>3
<1>5. PlainTable(f)
  BY <1>2, <1>3, <1>4, MappedTable
<1>6. LlmRows(s) = f
  BY <1>1, <1>2, <1>3 DEF LlmRows, Mapped
<1>7. QED
  BY <1>5, <1>6

\* Every row a build leaves in the biosphere table points at a plain code.
LEMMA TablesFacts ==
    ASSUME NEW src \in SourceSets
    PROVE  PlainTable(Tables(src).bio)
<1>1. /\ Entries(src.eiSheet) /\ Entries(src.efSheet) /\ Entries(src.agbMatches)
      /\ Entries(src.spMatches) /\ Entries(src.flowmap) /\ Entries(src.waterM3)
      /\ Entries(src.harmonised) /\ Entries(src.curated) /\ Entries(src.llm)
  BY SourceAssumption DEF Lists, Entries
<1>. DEFINE a == PlaceholderRows(src.eiSheet, CuratedTargeted, ProvEiSheet)
            b == PlaceholderRows(src.efSheet, EfPlaceholder, ProvEfSheet)
            c == RandonneurRows(src.agbMatches, RandonneurAgb)
            d == RandonneurRows(src.spMatches, RandonneurSp)
            e == FlowmapperRows(src.flowmap)
            f == RandonneurRows(src.waterM3, WaterM3)
            g == HarmonisedRows(src.harmonised, src.efUuids)
            h == CuratedRows(src.curated)
            i == LlmRows(src.llm)
<1>2. PlainTable(a) /\ PlainTable(b)
  BY <1>1, PlaceholderTable DEF CuratedTargeted, EfPlaceholder, ProvEiSheet, ProvEfSheet
<1>3. PlainTable(c) /\ PlainTable(d) /\ PlainTable(f)
  BY <1>1, RandonneurTable DEF RandonneurAgb, RandonneurSp, WaterM3
<1>4. PlainTable(e) /\ PlainTable(g) /\ PlainTable(h) /\ PlainTable(i)
  BY <1>1, FlowmapperTable, HarmonisedTable, CuratedTable, LlmTable
<1>5. PICK all : all = a \o b \o c \o d \o e \o f \o g \o h \o i
  OBVIOUS
<1>6. PlainTable(all)
  <2>. HIDE DEF a, b, c, d, e, f, g, h, i
  <2>1. PlainTable(a \o b)
    BY <1>2, JoinedTables
  <2>2. PlainTable(a \o b \o c)
    BY <1>3, <2>1, JoinedTables
  <2>3. PlainTable(a \o b \o c \o d)
    BY <1>3, <2>2, JoinedTables
  <2>4. PlainTable(a \o b \o c \o d \o e)
    BY <1>4, <2>3, JoinedTables
  <2>5. PlainTable(a \o b \o c \o d \o e \o f)
    BY <1>3, <2>4, JoinedTables
  <2>6. PlainTable(a \o b \o c \o d \o e \o f \o g)
    BY <1>4, <2>5, JoinedTables
  <2>7. PlainTable(a \o b \o c \o d \o e \o f \o g \o h)
    BY <1>4, <2>6, JoinedTables
  <2>8. PlainTable(a \o b \o c \o d \o e \o f \o g \o h \o i)
    BY <1>4, <2>7, JoinedTables
  <2>9. QED
    BY <1>5, <2>8
<1>7. Tables(src).bio = Dedupe(all)
  BY <1>5 DEF Tables, BiosphereTable
<1>8. PlainTable(Dedupe(all))
  BY <1>6, PickedTable DEF Dedupe, Firsts
<1>9. QED
  BY <1>7, <1>8

-----------------------------------------------------------------------------
(* Catalogs *)

Tokens == {""} \cup ISO2 \cup AGGREGATE
Codes == Nat \X Tokens
Base(code) == <<code[1], "">>

FlowRow(f) ==
    /\ DOMAIN f = {"db", "code", "name", "unit", "cats"}
    /\ f.code \in Codes /\ f.code[1] # 0 /\ f.db # ""

CopyOf(g, b) ==
    /\ ~Synthetic(b.code) /\ b.db = g.db /\ b.code = Base(g.code)
    /\ g = [b EXCEPT !.code = g.code]

\* A catalog has one flow of a code, and a synthetic row is the copy of the
\* row it was made from.
CatalogInv(c) ==
    /\ \A f \in c : FlowRow(f)
    /\ \A f \in c, g \in c : f.db = g.db /\ f.code = g.code => f = g
    /\ \A g \in c : Synthetic(g.code) => g.db \in RegionalDbs /\ \E b \in c : CopyOf(g, b)

LEMMA BaseFacts ==
    ASSUME NEW code
    PROVE  Base(code)[1] = code[1] /\ Base(code)[2] = "" /\ ~Synthetic(Base(code))
BY DEF Base, Synthetic

LEMMA CodeFacts ==
    ASSUME NEW code \in Codes
    PROVE  /\ code[1] \in Nat /\ code[2] \in Tokens /\ code = <<code[1], code[2]>>
           /\ ~Synthetic(code) => code = Base(code) /\ code \in PlainCodes
<1>1. code[1] \in Nat /\ code[2] \in Tokens /\ code = <<code[1], code[2]>>
  BY DEF Codes
<1>2. ASSUME ~Synthetic(code) PROVE code = Base(code) /\ code \in PlainCodes
  <2>1. code[2] = ""
    BY <1>2 DEF Synthetic
  <2>2. code = Base(code)
    BY <1>1, <2>1 DEF Base
  <2>3. code \in PlainCodes
    BY <1>1, <2>1 DEF PlainCodes
  <2>4. QED
    BY <2>2, <2>3
<1>3. QED
  BY <1>1, <1>2

LEMMA PlainFacts ==
    ASSUME NEW code \in PlainCodes
    PROVE  code \in Codes /\ ~Synthetic(code) /\ Base(code) = code /\ code[1] \in Nat
<1>1. code[1] \in Nat /\ code[2] = "" /\ code = <<code[1], code[2]>>
  <2>1. PICK plain : plain = {""}
    OBVIOUS
  <2>2. code \in Nat \X plain
    BY <2>1 DEF PlainCodes
  <2>3. code[1] \in Nat /\ code[2] \in plain /\ code = <<code[1], code[2]>>
    BY <2>2
  <2>4. QED
    BY <2>1, <2>3
<1>2. code \in Codes
  BY <1>1 DEF Codes, Tokens
<1>3. QED
  BY <1>1, <1>2 DEF Synthetic, Base

LEMMA CopyFacts ==
    ASSUME NEW g, NEW b, FlowRow(b), CopyOf(g, b)
    PROVE  /\ g.name = b.name /\ g.unit = b.unit /\ g.cats = b.cats /\ g.db = b.db
           /\ DOMAIN g = DOMAIN b
BY DEF CopyOf, FlowRow

LEMMA NewCatalog ==
    ASSUME NEW s \in Snapshots, NEW u
    PROVE  CatalogInv(CatalogOf(s, u))
<1>. DEFINE c == CatalogOf(s, u)
<1>1. \A f \in c : f \in s \cup EfUniverse
  BY DEF CatalogOf
<1>2. ASSUME NEW f \in c PROVE FlowRow(f) /\ ~Synthetic(f.code)
  <2>1. IsFlow(f)
    BY <1>1, FlowAssumption
  <2>2. f.code \in PlainCodes /\ f.code # NoCode
    BY <2>1 DEF IsFlow
  <2>3. f.code[1] # 0
    <3>1. f.code = <<f.code[1], "">>
      BY <2>2, PlainFacts DEF Base
    <3>2. QED
      BY <2>2, <3>1 DEF NoCode
  <2>4. QED
    BY <2>1, <2>2, <2>3, PlainFacts DEF IsFlow, FlowRow
<1>3. \A f \in c, g \in c : f.db = g.db /\ f.code = g.code => f = g
  BY <1>1, FlowAssumption
<1>4. QED
  BY <1>2, <1>3 DEF CatalogInv

\* What the augmenter leaves is a catalog with the same base rows, in which a
\* base row has a copy for every synthetic code in use.
LEMMA AugmentFacts ==
    ASSUME NEW c, CatalogInv(c),
           \A x \in DOMAIN inv : Synthetic(inv[x].input.code) =>
             inv[x].input.code \in Codes /\ inv[x].input.db \in RegionalDbs
    PROVE  /\ CatalogInv(Augmented(c))
           /\ BaseRows(Augmented(c)) = BaseRows(c)
           /\ \A x \in DOMAIN inv : Synthetic(inv[x].input.code) =>
                \A f \in Get(c, inv[x].input.db, Base(inv[x].input.code)) :
                  [f EXCEPT !.code = inv[x].input.code] \in Augmented(c)
<1>. DEFINE a == Augmented(c)
            Made(g) == \E x \in DOMAIN inv : \E b \in c :
                         /\ Synthetic(inv[x].input.code) /\ inv[x].input.db \in RegionalDbs
                         /\ Get(c, inv[x].input.db, inv[x].input.code) = {}
                         /\ b.db = inv[x].input.db /\ b.code = Base(inv[x].input.code)
                         /\ g = [b EXCEPT !.code = inv[x].input.code]
<1>1. \A g : g \in a <=> g \in c \/ Made(g)
  <2>. DEFINE used == {inv[x].input : x \in {y \in DOMAIN inv : Synthetic(inv[y].input.code)}}
              new == {v \in used : v.db \in RegionalDbs /\ Get(c, v.db, v.code) = {}}
              Copies(u) == {[f EXCEPT !.code = u.code] : f \in Get(BaseRows(c), u.db, Base(u.code))}
  <2>1. a = c \cup UNION {Copies(u) : u \in new}
    BY DEF Augmented, Base
  <2>2. \A u, g : g \in Copies(u) <=>
          \E b \in c : b.db = u.db /\ b.code = Base(u.code) /\ g = [b EXCEPT !.code = u.code]
    BY BaseFacts DEF Get, BaseRows
  <2>3. \A u : u \in new <=> \E x \in DOMAIN inv :
          /\ u = inv[x].input /\ Synthetic(u.code)
          /\ u.db \in RegionalDbs /\ Get(c, u.db, u.code) = {}
    OBVIOUS
  <2>4. ASSUME NEW g, g \in a PROVE g \in c \/ Made(g)
    <3>. HIDE DEF Copies, new, a
    <3>1. g \in c \/ \E u \in new : g \in Copies(u)
      BY <2>1, <2>4
    <3>2. ASSUME NEW u \in new, g \in Copies(u) PROVE Made(g)
      BY <2>2, <2>3, <3>2
    <3>3. QED
      BY <3>1, <3>2
  <2>5. ASSUME NEW g, Made(g) PROVE g \in a
    <3>1. PICK x \in DOMAIN inv, b \in c :
                         /\ Synthetic(inv[x].input.code) /\ inv[x].input.db \in RegionalDbs
                         /\ Get(c, inv[x].input.db, inv[x].input.code) = {}
                         /\ b.db = inv[x].input.db /\ b.code = Base(inv[x].input.code)
                         /\ g = [b EXCEPT !.code = inv[x].input.code]
      BY <2>5
    <3>2. PICK u : u = inv[x].input
      OBVIOUS
    <3>. HIDE DEF Copies, new, a
    <3>3. u \in new /\ g \in Copies(u)
      BY <2>2, <2>3, <3>1, <3>2
    <3>4. QED
      BY <2>1, <3>3
  <2>6. QED
    BY <2>1, <2>4, <2>5
<1>2. ASSUME NEW g, Made(g)
      PROVE  /\ FlowRow(g) /\ Synthetic(g.code) /\ g.db \in RegionalDbs
             /\ \E b \in c : CopyOf(g, b)
             /\ \A f \in c : ~(f.db = g.db /\ f.code = g.code)
  <2>1. PICK x \in DOMAIN inv, b \in c :
                         /\ Synthetic(inv[x].input.code) /\ inv[x].input.db \in RegionalDbs
                         /\ Get(c, inv[x].input.db, inv[x].input.code) = {}
                         /\ b.db = inv[x].input.db /\ b.code = Base(inv[x].input.code)
                         /\ g = [b EXCEPT !.code = inv[x].input.code]
    BY <1>2
  <2>2. PICK code : code = inv[x].input.code
    OBVIOUS
  <2>3. FlowRow(b) /\ code \in Codes /\ Synthetic(code)
    BY <2>1, <2>2 DEF CatalogInv
  <2>4. /\ DOMAIN g = DOMAIN b /\ g.code = code /\ g.db = b.db
    BY <2>1, <2>2, <2>3 DEF FlowRow
  <2>5. b.code[1] = code[1] /\ ~Synthetic(b.code)
    BY <2>1, <2>2, BaseFacts
  <2>6. FlowRow(g)
    BY <2>3, <2>4, <2>5 DEF FlowRow
  <2>7. CopyOf(g, b)
    BY <2>1, <2>2, <2>4, <2>5 DEF CopyOf
  <2>8. \A f \in c : ~(f.db = g.db /\ f.code = g.code)
    BY <2>1, <2>2, <2>4 DEF Get
  <2>9. QED
    BY <2>1, <2>3, <2>4, <2>6, <2>7, <2>8
<1>3. ASSUME NEW f, NEW g, Made(f), Made(g), f.db = g.db, f.code = g.code
      PROVE  f = g
  <2>1. PICK b \in c : CopyOf(f, b)
    BY <1>2, <1>3
  <2>2. PICK d \in c : CopyOf(g, d)
    BY <1>2, <1>3
  <2>3. b = d
    BY <1>3, <2>1, <2>2 DEF CopyOf, CatalogInv
  <2>4. QED
    BY <1>3, <2>1, <2>2, <2>3 DEF CopyOf
<1>. HIDE DEF a
<1>4. ASSUME NEW x \in DOMAIN inv, Synthetic(inv[x].input.code),
             NEW f \in Get(c, inv[x].input.db, Base(inv[x].input.code))
      PROVE  [f EXCEPT !.code = inv[x].input.code] \in a
  <2>1. PICK u : u = inv[x].input
    OBVIOUS
  <2>2. u.code \in Codes /\ u.db \in RegionalDbs /\ Synthetic(u.code)
    BY <1>4, <2>1
  <2>3. f \in c /\ f.db = u.db /\ f.code = Base(u.code)
    BY <1>4, <2>1 DEF Get
  <2>4. CASE Get(c, u.db, u.code) = {}
    <3>1. Made([f EXCEPT !.code = u.code])
      BY <2>1, <2>2, <2>3, <2>4
    <3>. HIDE DEF Made
    <3>2. QED
      BY <1>1, <2>1, <3>1
  <2>5. CASE Get(c, u.db, u.code) # {}
    <3>1. PICK g \in c : g.db = u.db /\ g.code = u.code
      BY <2>5 DEF Get
    <3>2. PICK b \in c : CopyOf(g, b)
      BY <2>2, <3>1 DEF CatalogInv
    <3>3. b = f
      BY <2>3, <3>1, <3>2 DEF CopyOf, CatalogInv
    <3>4. g = [f EXCEPT !.code = u.code]
      BY <3>1, <3>2, <3>3 DEF CopyOf
    <3>. HIDE DEF Made
    <3>5. QED
      BY <1>1, <2>1, <3>1, <3>4
  <2>6. QED
    BY <2>4, <2>5
<1>. HIDE DEF Made
<1>5. BaseRows(a) = BaseRows(c)
  BY <1>1, <1>2 DEF BaseRows
<1>6. CatalogInv(a)
  <2>1. \A f \in a : FlowRow(f)
    BY <1>1, <1>2 DEF CatalogInv
  <2>2. ASSUME NEW f \in a, NEW g \in a, f.db = g.db, f.code = g.code PROVE f = g
    <3>1. CASE f \in c /\ g \in c
      BY <2>2, <3>1 DEF CatalogInv
    <3>2. CASE Made(f) /\ Made(g)
      BY <1>3, <2>2, <3>2
    <3>3. ~(f \in c /\ Made(g)) /\ ~(g \in c /\ Made(f))
      BY <1>2, <2>2
    <3>4. QED
      BY <1>1, <3>1, <3>2, <3>3
  <2>3. ASSUME NEW g \in a, Synthetic(g.code)
        PROVE  g.db \in RegionalDbs /\ \E b \in a : CopyOf(g, b)
    <3>1. CASE g \in c
      BY <1>1, <2>3, <3>1 DEF CatalogInv
    <3>2. CASE Made(g)
      BY <1>1, <1>2, <3>2
    <3>3. QED
      BY <1>1, <3>1, <3>2
  <2>4. QED
    BY <2>1, <2>2, <2>3 DEF CatalogInv
<1>7. QED
  BY <1>4, <1>5, <1>6 DEF a

-----------------------------------------------------------------------------
(* The smallest code *)

LEMMA LexAsymmetric ==
    ASSUME NEW n \in Nat, NEW s, NEW t, DOMAIN s = 1..n, DOMAIN t = 1..n,
           \A i \in 1..n : s[i] \in Int /\ t[i] \in Int,
           Lex(s, t), Lex(t, s)
    PROVE  FALSE
<1>1. PICK i \in 1..n : s[i] < t[i] /\ \A j \in 1..i - 1 : s[j] = t[j]
  BY DEF Lex
<1>2. PICK j \in 1..n : t[j] < s[j] /\ \A k \in 1..j - 1 : t[k] = s[k]
  BY DEF Lex
<1>3. CASE i < j
  BY <1>1, <1>2, <1>3
<1>4. CASE j < i
  BY <1>1, <1>2, <1>4
<1>5. CASE i = j
  BY <1>1, <1>2, <1>5
<1>6. QED
  BY <1>3, <1>4, <1>5

LEMMA RankFacts ==
    /\ \A r \in Tokens : RegionRank[r] \in Nat
    /\ \A r, q \in Tokens : RegionRank[r] = RegionRank[q] => r = q
    /\ RegionRank[""] = 0
BY DEF RegionRank, Tokens, ISO2, AGGREGATE

LEMMA KeyFacts ==
    ASSUME NEW code \in Codes
    PROVE  /\ DOMAIN CodeKey(code) = 1..2
           /\ CodeKey(code)[1] = code[1] /\ CodeKey(code)[2] = RegionRank[code[2]]
           /\ \A i \in 1..2 : CodeKey(code)[i] \in Nat
<1>1. code[1] \in Nat /\ RegionRank[code[2]] \in Nat
  BY CodeFacts, RankFacts
<1>2. /\ DOMAIN CodeKey(code) = 1..2
      /\ CodeKey(code)[1] = code[1] /\ CodeKey(code)[2] = RegionRank[code[2]]
  BY DEF CodeKey
<1>3. QED
  BY <1>1, <1>2

\* Flows of one database that bring the base of a synthetic flow along.
Closed(c, S) ==
    /\ S \subseteq c
    /\ \A f \in S, g \in S : f.db = g.db
    /\ \A g \in S : Synthetic(g.code) => \E b \in S : CopyOf(g, b)

LEMMA SmallestFacts ==
    ASSUME NEW c, CatalogInv(c), NEW S, Closed(c, S), S # {}
    PROVE  /\ Smallest(S) \in S /\ ~Synthetic(Smallest(S).code)
           /\ \A g \in S : g # Smallest(S) => Lex(CodeKey(Smallest(S).code), CodeKey(g.code))
<1>. DEFINE First == {f.code[1] : f \in S}
            Least(f) == \A g \in S : f = g \/ Lex(CodeKey(f.code), CodeKey(g.code))
<1>1. \A f \in S : f \in c /\ f.code \in Codes /\ f.code[1] \in Nat /\ f.code[2] \in Tokens
  BY CodeFacts DEF Closed, CatalogInv, FlowRow
<1>2. PICK m \in First : \A k \in First : m <= k
  <2>1. First \in SUBSET Nat /\ First # {}
    BY <1>1
  <2>. HIDE DEF First
  <2>2. QED
    BY <2>1, LeastNumber
<1>. DEFINE Rank == {RegionRank[f.code[2]] : f \in {g \in S : g.code[1] = m}}
<1>3. PICK r \in Rank : \A k \in Rank : r <= k
  <2>1. \A f \in S : RegionRank[f.code[2]] \in Nat
    BY <1>1, RankFacts
  <2>2. PICK f \in S : f.code[1] = m
    OBVIOUS
  <2>3. Rank \in SUBSET Nat /\ Rank # {}
    BY <2>1, <2>2
  <2>. HIDE DEF Rank
  <2>4. QED
    BY <2>3, LeastNumber
<1>4. PICK f \in S : f.code[1] = m /\ RegionRank[f.code[2]] = r
  OBVIOUS
<1>5. ASSUME NEW g \in S, f # g PROVE Lex(CodeKey(f.code), CodeKey(g.code))
  <2>1. f.code # g.code
    BY <1>1, <1>5 DEF Closed, CatalogInv
  <2>2. f.code[1] <= g.code[1]
    BY <1>2, <1>4
  <2>3. f.code[1] = g.code[1] => RegionRank[f.code[2]] < RegionRank[g.code[2]]
    <3>1. ASSUME f.code[1] = g.code[1] PROVE f.code[2] # g.code[2]
      <4>1. f.code = <<f.code[1], f.code[2]>> /\ g.code = <<g.code[1], g.code[2]>>
        BY <1>1, CodeFacts
      <4>2. QED
        BY <2>1, <3>1, <4>1
    <3>2. ASSUME f.code[1] = g.code[1] PROVE RegionRank[f.code[2]] <= RegionRank[g.code[2]]
      BY <1>3, <1>4, <3>2
    <3>3. /\ RegionRank[f.code[2]] \in Nat /\ RegionRank[g.code[2]] \in Nat
          /\ RegionRank[f.code[2]] = RegionRank[g.code[2]] => f.code[2] = g.code[2]
      BY <1>1, RankFacts
    <3>4. QED
      BY <3>1, <3>2, <3>3
  <2>4. PICK s, t : s = CodeKey(f.code) /\ t = CodeKey(g.code)
    OBVIOUS
  <2>5. /\ DOMAIN s = 1..2 /\ s[1] = f.code[1] /\ s[2] = RegionRank[f.code[2]]
        /\ t[1] = g.code[1] /\ t[2] = RegionRank[g.code[2]]
        /\ s[1] \in Nat /\ t[1] \in Nat
    BY <1>1, <2>4, KeyFacts
  <2>6. CASE s[1] = t[1]
    <3>1. 2 \in DOMAIN s /\ s[2] < t[2] /\ \A j \in 1..2 - 1 : s[j] = t[j]
      BY <2>3, <2>5, <2>6
    <3>2. QED
      BY <2>4, <3>1 DEF Lex
  <2>7. CASE s[1] # t[1]
    <3>1. 1 \in DOMAIN s /\ s[1] < t[1] /\ \A j \in 1..1 - 1 : s[j] = t[j]
      BY <2>2, <2>5, <2>7
    <3>2. QED
      BY <2>4, <3>1 DEF Lex
  <2>8. QED
    BY <2>6, <2>7
<1>6. Smallest(S) \in S /\ Least(Smallest(S))
  <2>1. Least(f)
    BY <1>5
  <2>2. Smallest(S) = CHOOSE h \in S : Least(h)
    BY DEF Smallest
  <2>. HIDE DEF Least
  <2>3. QED
    BY <2>1, <2>2
<1>7. ~Synthetic(Smallest(S).code)
  <2>1. PICK h : h = Smallest(S)
    OBVIOUS
  <2>2. SUFFICES ASSUME Synthetic(h.code) PROVE FALSE
    BY <2>1
  <2>3. PICK b \in S : CopyOf(h, b)
    BY <1>6, <2>1, <2>2 DEF Closed
  <2>4. h # b /\ b.code[1] = h.code[1] /\ b.code[2] = ""
    BY <2>2, <2>3, BaseFacts DEF CopyOf
  <2>5. Lex(CodeKey(h.code), CodeKey(b.code))
    BY <1>6, <2>1, <2>4
  <2>6. PICK s, t : s = CodeKey(h.code) /\ t = CodeKey(b.code)
    OBVIOUS
  <2>7. /\ DOMAIN s = 1..2 /\ s[1] = t[1] /\ s[2] \in Nat /\ t[2] = 0 /\ s[1] \in Nat
    <3>1. h.code \in Codes /\ b.code \in Codes
      BY <1>1, <1>6, <2>1
    <3>2. /\ DOMAIN s = 1..2 /\ s[1] = h.code[1] /\ s[2] \in Nat /\ s[1] \in Nat
      BY <2>6, <3>1, KeyFacts
    <3>3. t[1] = b.code[1] /\ t[2] = RegionRank[b.code[2]]
      BY <2>6, <3>1, KeyFacts
    <3>4. QED
      BY <2>4, <3>2, <3>3, RankFacts
  <2>8. QED
    BY <2>5, <2>6, <2>7 DEF Lex
<1>8. QED
  BY <1>6, <1>7

\* More regional rows do not change what is smallest.
LEMMA SmallestSame ==
    ASSUME NEW c, CatalogInv(c), NEW S, Closed(c, S), S # {},
           NEW d, CatalogInv(d), NEW T, Closed(d, T), T # {},
           \A f : ~Synthetic(f.code) => (f \in S <=> f \in T)
    PROVE  Smallest(S) = Smallest(T)
<1>1. PICK f : f = Smallest(S)
  OBVIOUS
<1>2. PICK g : g = Smallest(T)
  OBVIOUS
<1>3. /\ f \in S /\ ~Synthetic(f.code) /\ g \in T /\ ~Synthetic(g.code)
      /\ f # g => Lex(CodeKey(f.code), CodeKey(g.code)) /\ Lex(CodeKey(g.code), CodeKey(f.code))
  BY <1>1, <1>2, SmallestFacts
<1>4. f.code \in Codes /\ g.code \in Codes
  BY <1>3 DEF Closed, CatalogInv, FlowRow
<1>5. f = g
  <2>1. SUFFICES ASSUME f # g PROVE FALSE
    OBVIOUS
  <2>2. PICK s, t : s = CodeKey(f.code) /\ t = CodeKey(g.code)
    OBVIOUS
  <2>3. DOMAIN s = 1..2 /\ DOMAIN t = 1..2 /\ \A i \in 1..2 : s[i] \in Int /\ t[i] \in Int
    BY <1>4, <2>2, KeyFacts
  <2>4. QED
    BY <1>3, <2>1, <2>2, <2>3, LexAsymmetric
<1>6. QED
  BY <1>1, <1>2, <1>5

-----------------------------------------------------------------------------
(* Lookups in a catalog, and in one with other regional rows *)

SameBase(c, d) ==
    /\ CatalogInv(c) /\ CatalogInv(d)
    /\ \A f : ~Synthetic(f.code) => (f \in c <=> f \in d)

LEMMA GetSame ==
    ASSUME NEW c, NEW d, SameBase(c, d), NEW db, NEW code \in PlainCodes
    PROVE  Get(c, db, code) = Get(d, db, code)
<1>1. ~Synthetic(code)
  BY PlainFacts
<1>2. QED
  BY <1>1 DEF Get, SameBase

LEMMA NamedClosed ==
    ASSUME NEW c, CatalogInv(c), NEW db, NEW n, NEW bucket
    PROVE  Closed(c, Named(c, db, n, bucket))
<1>1. ASSUME NEW g \in Named(c, db, n, bucket), Synthetic(g.code)
      PROVE  \E b \in Named(c, db, n, bucket) : CopyOf(g, b)
  <2>1. g \in c /\ g.db = db /\ g.name = n /\ Bucket(g.cats) = bucket
    BY <1>1 DEF Named
  <2>2. PICK b \in c : CopyOf(g, b)
    BY <1>1, <2>1 DEF CatalogInv
  <2>3. g.name = b.name /\ g.cats = b.cats /\ g.db = b.db
    BY <2>2, CopyFacts DEF CatalogInv
  <2>4. b \in Named(c, db, n, bucket)
    BY <2>1, <2>3 DEF Named
  <2>5. QED
    BY <2>2, <2>4
<1>2. /\ Named(c, db, n, bucket) \subseteq c
      /\ \A f \in Named(c, db, n, bucket), g \in Named(c, db, n, bucket) : f.db = g.db
  BY DEF Named
<1>3. QED
  BY <1>1, <1>2 DEF Closed

LEMMA NamedSame ==
    ASSUME NEW c, NEW d, SameBase(c, d), NEW db, NEW n, NEW bucket
    PROVE  /\ \A f : ~Synthetic(f.code) =>
                (f \in Named(c, db, n, bucket) <=> f \in Named(d, db, n, bucket))
           /\ Named(c, db, n, bucket) = {} <=> Named(d, db, n, bucket) = {}
<1>1. \A f : ~Synthetic(f.code) =>
        (f \in Named(c, db, n, bucket) <=> f \in Named(d, db, n, bucket))
  BY DEF Named, SameBase
<1>2. Closed(c, Named(c, db, n, bucket)) /\ Closed(d, Named(d, db, n, bucket))
  BY NamedClosed DEF SameBase
<1>3. \A g, b : CopyOf(g, b) => ~Synthetic(b.code)
  BY DEF CopyOf
<1>4. /\ \A g \in Named(c, db, n, bucket) : \E b \in Named(c, db, n, bucket) : ~Synthetic(b.code)
      /\ \A g \in Named(d, db, n, bucket) : \E b \in Named(d, db, n, bucket) : ~Synthetic(b.code)
  BY <1>2, <1>3 DEF Closed
<1>5. QED
  BY <1>1, <1>4

LEMMA FirstHitFacts ==
    ASSUME NEW X, NEW dbs \in Seq(X), NEW hits
    PROVE  \/ FirstHit(dbs, hits) = {} /\ \A i \in DOMAIN dbs : hits[dbs[i]] = {}
           \/ \E i \in DOMAIN dbs : FirstHit(dbs, hits) = hits[dbs[i]] /\ hits[dbs[i]] # {}
<1>. DEFINE found == {i \in DOMAIN dbs : hits[dbs[i]] # {}}
            first == CHOOSE i \in found : \A j \in found : i <= j
<1>1. CASE found = {}
  BY <1>1 DEF FirstHit
<1>2. CASE found # {}
  <2>1. found \in SUBSET Nat
    OBVIOUS
  <2>2. FirstHit(dbs, hits) = hits[dbs[first]]
    BY <1>2 DEF FirstHit
  <2>. HIDE DEF found
  <2>3. first \in found
    BY <1>2, <2>1, LeastNumber
  <2>. HIDE DEF first
  <2>4. QED
    BY <2>2, <2>3 DEF found
<1>3. QED
  BY <1>1, <1>2

LEMMA PrefsFacts ==
    ASSUME NEW row
    PROVE  Prefs(row) \in Seq(Range(Prefs(row)))
<1>1. PICK X : X = {row.db, Bio, Ef, Bio3}
  OBVIOUS
<1>2. PICK all : all = <<Bio, Ef, Bio3>>
  OBVIOUS
<1>3. all \in Seq(X) /\ <<row.db>> \in Seq(X)
  BY <1>1, <1>2
<1>4. Picked(all, {i \in DOMAIN all : all[i] # row.db}) \in Seq(X)
  BY <1>3, PickedFacts
<1>5. <<row.db>> \o Picked(all, {i \in DOMAIN all : all[i] # row.db}) \in Seq(X)
  BY <1>3, <1>4
<1>6. PICK p : p = Prefs(row)
  OBVIOUS
<1>7. p \in Seq(X)
  BY <1>2, <1>3, <1>5, <1>6 DEF Prefs
<1>8. DOMAIN p = 1..Len(p) /\ Len(p) \in Nat /\ \A i \in 1..Len(p) : p[i] \in Range(p)
  BY <1>7 DEF Range
<1>9. p \in Seq(Range(p))
  BY <1>7, <1>8
<1>10. QED
  BY <1>6, <1>9

LEMMA UuidSame ==
    ASSUME NEW c, NEW d, SameBase(c, d), NEW row, row.code \in PlainCodes, NEW bucket
    PROVE  /\ ByUuid(c, row, bucket) = ByUuid(d, row, bucket)
           /\ PinnedFlow(c, row) = PinnedFlow(d, row)
<1>1. \A db : Get(c, db, row.code) = Get(d, db, row.code)
  BY GetSame
<1>2. /\ [db \in Range(Prefs(row)) |-> Get(c, db, row.code)]
         = [db \in Range(Prefs(row)) |-> Get(d, db, row.code)]
      /\ [db \in Range(Prefs(row)) |-> {f \in Get(c, db, row.code) : BucketFits(f, bucket)}]
         = [db \in Range(Prefs(row)) |-> {f \in Get(d, db, row.code) : BucketFits(f, bucket)}]
  BY <1>1
<1>3. QED
  BY <1>1, <1>2 DEF ByUuid, PinnedFlow

LEMMA UuidFacts ==
    ASSUME NEW c, NEW row, NEW bucket, NEW f \in ByUuid(c, row, bucket)
    PROVE  f \in c /\ f.code = row.code /\ BucketFits(f, bucket)
<1>. DEFINE hits == [db \in Range(Prefs(row)) |-> {g \in Get(c, db, row.code) : BucketFits(g, bucket)}]
<1>1. f \in FirstHit(Prefs(row), hits)
  BY DEF ByUuid
<1>2. \A i \in DOMAIN Prefs(row) :
        hits[Prefs(row)[i]] = {g \in Get(c, Prefs(row)[i], row.code) : BucketFits(g, bucket)}
  BY DEF Range
<1>. HIDE DEF hits
<1>3. PICK i \in DOMAIN Prefs(row) : f \in hits[Prefs(row)[i]]
  BY <1>1, PrefsFacts, FirstHitFacts
<1>4. QED
  BY <1>2, <1>3 DEF Get

\* A search by name brings the base of a synthetic flow along.
LEMMA NameInFacts ==
    ASSUME NEW c, CatalogInv(c), NEW row, NEW bucket
    PROVE  /\ Closed(c, ByNameIn(c, row, bucket))
           /\ \A f \in ByNameIn(c, row, bucket) : Bucket(f.cats) = bucket
<1>. DEFINE hits == [db \in Range(Prefs(row)) |-> Named(c, db, row.tname, bucket)]
<1>1. ByNameIn(c, row, bucket) = FirstHit(Prefs(row), hits)
  BY DEF ByNameIn
<1>2. \A i \in DOMAIN Prefs(row) : hits[Prefs(row)[i]] = Named(c, Prefs(row)[i], row.tname, bucket)
  BY DEF Range
<1>. HIDE DEF hits
<1>3. \/ ByNameIn(c, row, bucket) = {}
      \/ \E db : ByNameIn(c, row, bucket) = Named(c, db, row.tname, bucket)
  BY <1>1, <1>2, PrefsFacts, FirstHitFacts
<1>4. CASE ByNameIn(c, row, bucket) = {}
  BY <1>4 DEF Closed
<1>5. CASE \E db : ByNameIn(c, row, bucket) = Named(c, db, row.tname, bucket)
  <2>1. PICK db : ByNameIn(c, row, bucket) = Named(c, db, row.tname, bucket)
    BY <1>5
  <2>2. Closed(c, Named(c, db, row.tname, bucket))
    BY NamedClosed
  <2>3. \A f \in Named(c, db, row.tname, bucket) : Bucket(f.cats) = bucket
    BY DEF Named
  <2>4. QED
    BY <2>1, <2>2, <2>3
<1>6. QED
  BY <1>3, <1>4, <1>5

\* Two searches that find something in the same databases stop in the same one.
LEMMA NameInSame ==
    ASSUME NEW c, NEW d, SameBase(c, d), NEW row, NEW bucket
    PROVE  /\ ByNameIn(c, row, bucket) = {} <=> ByNameIn(d, row, bucket) = {}
           /\ \A f : ~Synthetic(f.code) =>
                (f \in ByNameIn(c, row, bucket) <=> f \in ByNameIn(d, row, bucket))
<1>. DEFINE hits == [db \in Range(Prefs(row)) |-> Named(c, db, row.tname, bucket)]
            others == [db \in Range(Prefs(row)) |-> Named(d, db, row.tname, bucket)]
<1>1. /\ ByNameIn(c, row, bucket) = FirstHit(Prefs(row), hits)
      /\ ByNameIn(d, row, bucket) = FirstHit(Prefs(row), others)
  BY DEF ByNameIn
<1>2. \A i \in DOMAIN Prefs(row) : /\ hits[Prefs(row)[i]] = Named(c, Prefs(row)[i], row.tname, bucket)
                                   /\ others[Prefs(row)[i]] = Named(d, Prefs(row)[i], row.tname, bucket)
  BY DEF Range
<1>. HIDE DEF hits, others
<1>3. \A db : /\ Named(c, db, row.tname, bucket) = {} <=> Named(d, db, row.tname, bucket) = {}
              /\ \A f : ~Synthetic(f.code) =>
                   (f \in Named(c, db, row.tname, bucket) <=> f \in Named(d, db, row.tname, bucket))
  BY NamedSame
<1>4. \A i \in DOMAIN Prefs(row) : hits[Prefs(row)[i]] = {} <=> others[Prefs(row)[i]] = {}
  BY <1>2, <1>3
<1>5. \/ FirstHit(Prefs(row), hits) = {} /\ FirstHit(Prefs(row), others) = {}
      \/ \E i \in DOMAIN Prefs(row) : /\ hits[Prefs(row)[i]] # {} /\ others[Prefs(row)[i]] # {}
                                      /\ FirstHit(Prefs(row), hits) = hits[Prefs(row)[i]]
                                      /\ FirstHit(Prefs(row), others) = others[Prefs(row)[i]]
  <2>. DEFINE found == {i \in DOMAIN Prefs(row) : hits[Prefs(row)[i]] # {}}
              first == CHOOSE i \in found : \A j \in found : i <= j
  <2>1. found = {i \in DOMAIN Prefs(row) : others[Prefs(row)[i]] # {}}
    BY <1>4
  <2>2. CASE found = {}
    BY <2>1, <2>2 DEF FirstHit
  <2>3. CASE found # {}
    <3>1. found \in SUBSET Nat
      BY PrefsFacts
    <3>2. /\ FirstHit(Prefs(row), hits) = hits[Prefs(row)[first]]
          /\ FirstHit(Prefs(row), others) = others[Prefs(row)[first]]
      BY <2>1, <2>3 DEF FirstHit
    <3>. HIDE DEF found
    <3>3. first \in found
      BY <2>3, <3>1, LeastNumber
    <3>. HIDE DEF first
    <3>4. QED
      BY <2>1, <3>2, <3>3 DEF found
  <2>4. QED
    BY <2>2, <2>3
<1>6. QED
  BY <1>1, <1>2, <1>3, <1>5

LEMMA ByNameFacts ==
    ASSUME NEW c, CatalogInv(c), NEW row, NEW bucket
    PROVE  /\ Closed(c, ByName(c, row, bucket))
           /\ \A f \in ByName(c, row, bucket) : BucketFits(f, bucket)
<1>1. Closed(c, {})
  BY DEF Closed
<1>2. QED
  BY <1>1, NameInFacts DEF ByName, BucketFits

LEMMA ByNameSame ==
    ASSUME NEW c, NEW d, SameBase(c, d), NEW row, NEW bucket
    PROVE  /\ ByName(c, row, bucket) = {} <=> ByName(d, row, bucket) = {}
           /\ \A f : ~Synthetic(f.code) =>
                (f \in ByName(c, row, bucket) <=> f \in ByName(d, row, bucket))
BY NameInSame DEF ByName

\* A row has one target at most: the flow it pins, or a base flow whose
\* compartment fits.
LEMMA TargetFacts ==
    ASSUME NEW c, CatalogInv(c), NEW row, PlainRow(row), NEW bucket,
           NEW g \in Target(c, row, bucket)
    PROVE  /\ Target(c, row, bucket) = {g} /\ g.code \in PlainCodes
           /\ \/ Pins(row) /\ g.db = row.db /\ g.code = row.code
              \/ \E f \in c : g.db = f.db /\ g.code = f.code /\ BucketFits(f, bucket)
<1>1. CASE Pins(row)
  BY <1>1 DEF Target, PlainRow
<1>2. ASSUME NEW f \in c, f.code \in PlainCodes, BucketFits(f, bucket),
             Target(c, row, bucket) = {[db |-> f.db, code |-> f.code, unit |-> f.unit]}
      PROVE  /\ Target(c, row, bucket) = {g} /\ g.code \in PlainCodes
             /\ \E h \in c : g.db = h.db /\ g.code = h.code /\ BucketFits(h, bucket)
  BY <1>2
<1>3. CASE ~Pins(row) /\ ByUuid(c, row, bucket) # {}
  <2>1. PICK f : f = CHOOSE h \in ByUuid(c, row, bucket) : TRUE
    OBVIOUS
  <2>2. f \in ByUuid(c, row, bucket)
    BY <1>3, <2>1
  <2>3. f \in c /\ f.code \in PlainCodes /\ BucketFits(f, bucket)
    BY <2>2, UuidFacts DEF PlainRow
  <2>4. Target(c, row, bucket) = {[db |-> f.db, code |-> f.code, unit |-> f.unit]}
    BY <1>3, <2>1 DEF Target
  <2>5. QED
    BY <1>2, <2>3, <2>4
<1>4. CASE ~Pins(row) /\ ByUuid(c, row, bucket) = {} /\ ByName(c, row, bucket) # {}
  <2>1. PICK f : f = Smallest(ByName(c, row, bucket))
    OBVIOUS
  <2>2. f \in ByName(c, row, bucket) /\ ~Synthetic(f.code)
    BY <1>4, <2>1, ByNameFacts, SmallestFacts
  <2>3. f \in c /\ BucketFits(f, bucket)
    BY <2>2, ByNameFacts DEF Closed
  <2>4. f.code \in PlainCodes
    BY <2>2, <2>3, CodeFacts DEF CatalogInv, FlowRow
  <2>5. Target(c, row, bucket) = {[db |-> f.db, code |-> f.code, unit |-> f.unit]}
    BY <1>4, <2>1 DEF Target
  <2>6. QED
    BY <1>2, <2>3, <2>4, <2>5
<1>5. QED
  BY <1>1, <1>3, <1>4 DEF Target

LEMMA TargetSame ==
    ASSUME NEW c, NEW d, SameBase(c, d), NEW row, PlainRow(row), NEW bucket
    PROVE  Target(c, row, bucket) = Target(d, row, bucket)
<1>1. /\ row.code \in PlainCodes
      /\ \A db : Get(c, db, row.code) = Get(d, db, row.code)
      /\ ByUuid(c, row, bucket) = ByUuid(d, row, bucket)
  BY GetSame, UuidSame DEF PlainRow
<1>2. PinnedUnit(c, row) = PinnedUnit(d, row)
  <2>1. Get(c, row.db, row.code) = Get(d, row.db, row.code)
    BY <1>1
  <2>2. QED
    BY <2>1, SMTT(30) DEF PinnedUnit
<1>3. ByName(c, row, bucket) = {} <=> ByName(d, row, bucket) = {}
  BY ByNameSame
<1>4. ASSUME ByName(c, row, bucket) # {}
      PROVE  Smallest(ByName(c, row, bucket)) = Smallest(ByName(d, row, bucket))
  <2>1. CatalogInv(c) /\ CatalogInv(d)
    BY DEF SameBase
  <2>2. Closed(c, ByName(c, row, bucket)) /\ Closed(d, ByName(d, row, bucket))
    BY <2>1, ByNameFacts
  <2>3. QED
    BY <1>3, <1>4, <2>1, <2>2, ByNameSame, SmallestSame
<1>5. QED
  BY <1>1, <1>2, <1>3, <1>4 DEF Target

-----------------------------------------------------------------------------
(* Candidates and the best of them *)

LEMMA CandidateFacts ==
    ASSUME NEW t, PlainTable(t.bio), NEW e, NEW k \in Candidates(t, e)
    PROVE  /\ PlainRow(k.row) /\ k.pos \in Nat
           /\ \E i \in DOMAIN t.bio : k.row = t.bio[i]
<1>. DEFINE bio == t.bio
            Place(k1) == \E i \in DOMAIN bio : \E p \in Nat : k1 = [row |-> bio[i], pos |-> p + i]
<1>1. Len(bio) \in Nat /\ DOMAIN bio = 1..Len(bio) /\ \A i \in DOMAIN bio : PlainRow(bio[i])
  BY DEF PlainTable
<1>. HIDE DEF bio
<1>2. ASSUME k \in Lookup(bio, e.name, Bucket(e.cats)) PROVE Place(k)
  <2>1. \/ \E i \in DOMAIN bio : k = [row |-> bio[i], pos |-> 0 + i]
        \/ \E i \in DOMAIN bio : k = [row |-> bio[i], pos |-> Len(bio) + i]
    BY <1>2 DEF Lookup
  <2>2. QED
    BY <1>1, <2>1
<1>3. ASSUME k \in ByCas(bio, e.cas, e.name) PROVE Place(k)
  <2>1. PICK i \in DOMAIN bio : k = [row |-> bio[i], pos |-> 2 * Len(bio) + i]
    BY <1>3 DEF ByCas
  <2>2. 2 * Len(bio) \in Nat
    BY <1>1
  <2>3. QED
    BY <2>1, <2>2
<1>4. Place(k)
  BY <1>2, <1>3 DEF Candidates, bio
<1>5. QED
  BY <1>1, <1>4 DEF bio

LEMMA SubRankFacts ==
    ASSUME NEW c, NEW row, NEW sub
    PROVE  SubRank(c, row, sub) \in Nat
BY DEF SubRank

LEMMA SortKeyFacts ==
    ASSUME NEW t, PlainTable(t.bio), NEW c, NEW e, NEW k \in Candidates(t, e)
    PROVE  /\ DOMAIN SortKey(c, e, k) = 1..7
           /\ \A i \in 1..7 : SortKey(c, e, k)[i] \in Int
           /\ SortKey(c, e, k)[1] = k.row.tier
<1>1. PlainRow(k.row) /\ k.pos \in Nat
  BY CandidateFacts
<1>2. k.row.code[1] \in Nat /\ RegionRank[k.row.code[2]] \in Nat
  BY <1>1, PlainFacts, CodeFacts, RankFacts DEF PlainRow
<1>3. k.row.tier \in Nat /\ k.row.prov \in Nat /\ k.row.tname \in Nat
  BY <1>1 DEF PlainRow
<1>4. PICK r : r = SubRank(c, k.row, e.cats.sub)
  OBVIOUS
<1>5. r \in Nat
  BY <1>4, SubRankFacts
<1>6. PICK s : s = <<k.row.tier, k.row.prov, r, k.row.code[1], RegionRank[k.row.code[2]],
                     k.row.tname, k.pos>>
  OBVIOUS
<1>7. s = SortKey(c, e, k)
  BY <1>4, <1>6 DEF SortKey
<1>8. /\ DOMAIN s = 1..7 /\ s[1] \in Int /\ s[2] \in Int /\ s[3] \in Int /\ s[4] \in Int
      /\ s[5] \in Int /\ s[6] \in Int /\ s[7] \in Int /\ s[1] = k.row.tier
  BY <1>1, <1>2, <1>3, <1>5, <1>6
<1>9. \A i \in 1..7 : s[i] \in Int
  BY <1>8
<1>10. QED
  BY <1>7, <1>8, <1>9

\* No two candidates are the best.
LEMMA BestIsOne ==
    ASSUME NEW t, PlainTable(t.bio), NEW c, NEW e,
           NEW k \in BestCandidate(t, c, e), NEW j \in BestCandidate(t, c, e)
    PROVE  k = j
<1>1. SUFFICES ASSUME k # j PROVE FALSE
  OBVIOUS
<1>2. /\ k \in Candidates(t, e) /\ j \in Candidates(t, e)
      /\ Lex(SortKey(c, e, k), SortKey(c, e, j)) /\ Lex(SortKey(c, e, j), SortKey(c, e, k))
  BY <1>1 DEF BestCandidate
<1>3. PICK s, r : s = SortKey(c, e, k) /\ r = SortKey(c, e, j)
  OBVIOUS
<1>4. DOMAIN s = 1..7 /\ DOMAIN r = 1..7 /\ \A i \in 1..7 : s[i] \in Int /\ r[i] \in Int
  BY <1>2, <1>3, SortKeyFacts
<1>5. QED
  BY <1>2, <1>3, <1>4, LexAsymmetric

\* A candidate is usable, and sorted, by the base rows of the catalog.
LEMMA UsableSame ==
    ASSUME NEW t, PlainTable(t.bio), NEW c, NEW d, SameBase(c, d), NEW e,
           NEW k \in Candidates(t, e)
    PROVE  /\ Usable(t, c, e, k) <=> Usable(t, d, e, k)
           /\ SortKey(c, e, k) = SortKey(d, e, k)
           /\ Target(c, k.row, Bucket(e.cats)) = Target(d, k.row, Bucket(e.cats))
<1>1. PlainRow(k.row)
  BY CandidateFacts
<1>2. Target(c, k.row, Bucket(e.cats)) = Target(d, k.row, Bucket(e.cats))
  BY <1>1, TargetSame
<1>3. PinnedFlow(c, k.row) = PinnedFlow(d, k.row)
  BY <1>1, UuidSame DEF PlainRow
<1>4. SubRank(c, k.row, e.cats.sub) = SubRank(d, k.row, e.cats.sub)
  <2>1. PICK p, q : p = PinnedFlow(c, k.row) /\ q = PinnedFlow(d, k.row)
    OBVIOUS
  <2>2. QED
    BY <1>3, Zenon DEF SubRank
<1>5. SortKey(c, e, k) = SortKey(d, e, k)
  BY <1>4 DEF SortKey
<1>6. Usable(t, c, e, k) <=> Usable(t, d, e, k)
  BY <1>2, Zenon DEF Usable
<1>7. QED
  BY <1>2, <1>5, <1>6


-----------------------------------------------------------------------------
(* From the CSV to the prelinker *)

Fields ==
    {"name", "unit", "cats", "cas", "amount", "code", "input", "tier", "row",
     "unitIn", "snap", "spname", "loc"}

\* The exchange as the prelinker meets it.
Prepared(src, o) == Normalised(src, Flowmapped(src.flowmap, Snapshotted(o)))

\* What every stage keeps of the exchange o of the CSV: its first spelling,
\* and no region but the one it had.
Derived(o, e) ==
    /\ DOMAIN e = Fields /\ e.snap = o.name /\ o.name # NoName
    /\ Region(e.name) \in {"", Region(o.name)}
    /\ Region(SourceName(e)) \in {"", Region(o.name)}
    /\ e.code \in PlainCodes

Unlinked(o, e) == Derived(o, e) /\ e.input = NoInput /\ e.tier = 0 /\ e.spname = NoName

LEMMA NoRegion == \A n : Region(<<n, "">>) = ""
BY DEF Region, IsRegion, ISO2, AGGREGATE

LEMMA Renamed ==
    ASSUME NEW o, NEW e, Unlinked(o, e), NEW f, DOMAIN f = Fields,
           f.snap = e.snap, f.spname = e.spname, f.input = e.input, f.tier = e.tier,
           f.code \in PlainCodes, Region(f.name) \in {"", Region(o.name)}
    PROVE  Unlinked(o, f)
BY DEF Unlinked, Derived, SourceName

LEMMA FlowmappedFacts ==
    ASSUME NEW o, NEW e, Unlinked(o, e), NEW rules, Entries(rules)
    PROVE  Unlinked(o, Flowmapped(rules, e))
<1>. DEFINE places == RuleFor(rules, e)
            first == CHOOSE i \in places : \A j \in places : i <= j
<1>1. CASE places = {}
  BY <1>1 DEF Flowmapped
<1>2. CASE places # {}
  <2>1. places \in SUBSET Nat /\ places \subseteq DOMAIN rules
    BY DEF RuleFor, Entries
  <2>2. PICK r : r = rules[first]
    OBVIOUS
  <2>3. Flowmapped(rules, e) = [e EXCEPT !.name = <<r.tname, "">>, !.unit = r.tunit, !.code = r.code,
                                          !.amount = Times(e.amount, Repaired(r))]
    BY <1>2, <2>2 DEF Flowmapped
  <2>. HIDE DEF places
  <2>4. first \in places
    BY <1>2, <2>1, LeastNumber
  <2>. HIDE DEF first
  <2>5. r.code \in PlainCodes
    BY <2>1, <2>2, <2>4 DEF Entries, IsEntry
  <2>6. PICK amount : amount = Times(e.amount, Repaired(r))
    OBVIOUS
  <2>7. PICK f : f = [e EXCEPT !.name = <<r.tname, "">>, !.unit = r.tunit, !.code = r.code,
                                 !.amount = amount]
    OBVIOUS
  <2>8. /\ DOMAIN f = Fields /\ f.snap = e.snap /\ f.spname = e.spname /\ f.input = e.input
        /\ f.tier = e.tier /\ f.code = r.code /\ f.name = <<r.tname, "">>
    BY <2>7 DEF Unlinked, Derived, Fields
  <2>9. Region(<<r.tname, "">>) = ""
    BY NoRegion
  <2>10. Region(f.name) \in {"", Region(o.name)} /\ f.code \in PlainCodes
    BY <2>5, <2>8, <2>9
  <2>11. Unlinked(o, f)
    BY <2>8, <2>10, Renamed
  <2>12. Flowmapped(rules, e) = f
    BY <2>3, <2>6, <2>7
  <2>13. QED
    BY <2>11, <2>12
<1>3. QED
  BY <1>1, <1>2

LEMMA NormalisedFacts ==
    ASSUME NEW src, NEW o, NEW e, Unlinked(o, e)
    PROVE  Unlinked(o, Normalised(src, e))
<1>1. ASSUME NEW a, Unlinked(o, a) PROVE Unlinked(o, UnitSpelled(src, a))
  <2>1. ASSUME NEW u PROVE Unlinked(o, [a EXCEPT !.unit = u])
    <3>1. PICK f : f = [a EXCEPT !.unit = u]
      OBVIOUS
    <3>2. /\ DOMAIN f = Fields /\ f.snap = a.snap /\ f.spname = a.spname /\ f.input = a.input
          /\ f.tier = a.tier /\ f.code = a.code /\ f.name = a.name
      BY <1>1, <3>1 DEF Unlinked, Derived, Fields
    <3>3. QED
      BY <1>1, <3>1, <3>2, Renamed DEF Unlinked, Derived
  <2>2. QED
    BY <1>1, <2>1 DEF UnitSpelled
<1>2. ASSUME NEW a, Unlinked(o, a), NEW v PROVE Unlinked(o, [a EXCEPT !.cats = v])
  <2>1. PICK f : f = [a EXCEPT !.cats = v]
    OBVIOUS
  <2>2. /\ DOMAIN f = Fields /\ f.snap = a.snap /\ f.spname = a.spname /\ f.input = a.input
        /\ f.tier = a.tier /\ f.code = a.code /\ f.name = a.name
    BY <1>2, <2>1 DEF Unlinked, Derived, Fields
  <2>3. QED
    BY <1>2, <2>1, <2>2, Renamed DEF Unlinked, Derived
<1>3. ASSUME NEW a, Unlinked(o, a) PROVE Unlinked(o, InEcoinventCats(a))
  <2>1. \E v : InEcoinventCats(a) = [a EXCEPT !.cats = v]
    BY <1>3 DEF InEcoinventCats, Unlinked, Derived, Fields
  <2>2. QED
    BY <1>2, <1>3, <2>1
<1>4. ASSUME NEW a, Unlinked(o, a) PROVE Unlinked(o, InEcoinventNames(src, a))
  <2>1. CASE InEcoinventNames(src, a) = a
    BY <1>4, <2>1
  <2>2. CASE InEcoinventNames(src, a) # a
    <3>1. PICK key : key = <<a.cats.top, a.name>>
      OBVIOUS
    <3>2. key \in DOMAIN BioNames /\ InEcoinventNames(src, a) = [a EXCEPT !.name = BioNames[key]]
      BY <2>2, <3>1 DEF InEcoinventNames
    <3>3. Region(BioNames[key]) \in {"", Region(a.name)}
      BY <3>1, <3>2, NameAssumption
    <3>4. PICK f : f = [a EXCEPT !.name = BioNames[key]]
      OBVIOUS
    <3>5. /\ DOMAIN f = Fields /\ f.snap = a.snap /\ f.spname = a.spname /\ f.input = a.input
          /\ f.tier = a.tier /\ f.code = a.code /\ f.name = BioNames[key]
      BY <1>4, <3>4 DEF Unlinked, Derived, Fields
    <3>6. Region(f.name) \in {"", Region(o.name)} /\ f.code \in PlainCodes
      BY <1>4, <3>3, <3>5 DEF Unlinked, Derived
    <3>7. QED
      BY <1>4, <3>2, <3>4, <3>5, <3>6, Renamed
  <2>3. QED
    BY <2>1, <2>2
<1>5. ASSUME NEW a, Unlinked(o, a) PROVE Unlinked(o, Migrated(src, a))
  <2>1. CASE Migrated(src, a) = a
    BY <1>5, <2>1
  <2>2. CASE Migrated(src, a) # a
    <3>1. PICK to : to = Migrations[a.name]
      OBVIOUS
    <3>2. PICK amount : amount = Times(a.amount, to.factor)
      OBVIOUS
    <3>3. /\ a.name \in DOMAIN Migrations
          /\ Migrated(src, a) = [a EXCEPT !.name = to.name, !.unit = to.unit, !.amount = amount]
      <4>1. PICK g : g = [a EXCEPT !.name = to.name, !.unit = to.unit]
        OBVIOUS
      <4>2. g.amount = a.amount
        BY <1>5, <4>1 DEF Unlinked, Derived, Fields
      <4>3. QED
        BY <2>2, <3>1, <3>2, <4>1, <4>2 DEF Migrated
    <3>4. Region(to.name) \in {"", Region(a.name)}
      BY <3>1, <3>3, NameAssumption
    <3>5. PICK f : f = [a EXCEPT !.name = to.name, !.unit = to.unit, !.amount = amount]
      OBVIOUS
    <3>6. /\ DOMAIN f = Fields /\ f.snap = a.snap /\ f.spname = a.spname /\ f.input = a.input
          /\ f.tier = a.tier /\ f.code = a.code /\ f.name = to.name
      BY <1>5, <3>5 DEF Unlinked, Derived, Fields
    <3>7. Region(f.name) \in {"", Region(o.name)} /\ f.code \in PlainCodes
      BY <1>5, <3>4, <3>6 DEF Unlinked, Derived
    <3>8. QED
      BY <1>5, <3>3, <3>5, <3>6, <3>7, Renamed
  <2>3. QED
    BY <2>1, <2>2
<1>6. ASSUME NEW a, Unlinked(o, a) PROVE Unlinked(o, WithoutUnspecified(a))
  <2>1. \E v : WithoutUnspecified(a) = a \/ WithoutUnspecified(a) = [a EXCEPT !.cats = v]
    BY <1>6 DEF WithoutUnspecified, Unlinked, Derived, Fields
  <2>2. QED
    BY <1>2, <1>6, <2>1
<1>7. QED
  BY <1>1, <1>3, <1>4, <1>5, <1>6 DEF Normalised

LEMMA SnapshottedFacts ==
    ASSUME NEW o, IsParsed(o)
    PROVE  Unlinked(o, Snapshotted(o))
<1>1. PICK e : e = [o EXCEPT !.snap = o.name]
  OBVIOUS
<1>2. /\ DOMAIN e = Fields /\ e.snap = o.name /\ e.name = o.name /\ e.spname = NoName
      /\ e.input = NoInput /\ e.tier = 0 /\ e.code = NoCode /\ o.name # NoName
  BY <1>1 DEF IsParsed, Fields
<1>3. Snapshotted(o) = e
  BY <1>1 DEF Snapshotted, IsParsed
<1>4. QED
  BY <1>2, <1>3, PlainNoCode DEF Unlinked, Derived, SourceName

LEMMA MappedFacts ==
    ASSUME NEW src \in SourceSets, NEW o, IsParsed(o)
    PROVE  Unlinked(o, Flowmapped(src.flowmap, Snapshotted(o)))
<1>1. Entries(src.flowmap)
  BY SourceAssumption DEF Lists, Entries
<1>2. QED
  BY <1>1, SnapshottedFacts, FlowmappedFacts

LEMMA PreparedFacts ==
    ASSUME NEW src \in SourceSets, NEW o, IsParsed(o)
    PROVE  Unlinked(o, Prepared(src, o))
BY MappedFacts, NormalisedFacts DEF Prepared

-----------------------------------------------------------------------------
(* The prelinker *)

AlikeTo(c, db, e) == {f \in c : f.db = db /\ <<f.name, "">> = e.name /\ f.unit = e.unit}
Exact(c, db, e) == {f \in AlikeTo(c, db, e) : f.cats = e.cats}
InTop(c, db, e) ==
    {f \in AlikeTo(c, db, e) : e.cats.sub # "" /\ Bucket(f.cats) = Bucket(e.cats)}
ByCode(c, db, e) == IF e.code = NoCode THEN {} ELSE Get(c, db, e.code)

LEMMA HitsAre ==
    ASSUME NEW c, NEW db, NEW e
    PROVE  PrelinkHits(c, db, e) =
             IF ByCode(c, db, e) # {} THEN ByCode(c, db, e)
             ELSE IF Single(Exact(c, db, e)) THEN Exact(c, db, e)
             ELSE IF Single(InTop(c, db, e)) THEN InTop(c, db, e) ELSE {}
BY DEF PrelinkHits, ByCode, Exact, InTop, AlikeTo

LEMMA AlikeClosed ==
    ASSUME NEW c, CatalogInv(c), NEW db, NEW e
    PROVE  Closed(c, Exact(c, db, e)) /\ Closed(c, InTop(c, db, e))
<1>1. ASSUME NEW g \in c, Synthetic(g.code)
      PROVE  \E b \in c : CopyOf(g, b) /\ g.name = b.name /\ g.unit = b.unit
                                       /\ g.cats = b.cats /\ g.db = b.db
  <2>1. PICK b \in c : CopyOf(g, b)
    BY <1>1 DEF CatalogInv
  <2>2. QED
    BY <2>1, CopyFacts DEF CatalogInv
<1>2. \A g \in Exact(c, db, e) : Synthetic(g.code) => \E b \in Exact(c, db, e) : CopyOf(g, b)
  BY <1>1 DEF Exact, AlikeTo
<1>3. \A g \in InTop(c, db, e) : Synthetic(g.code) => \E b \in InTop(c, db, e) : CopyOf(g, b)
  BY <1>1 DEF InTop, AlikeTo
<1>4. /\ Exact(c, db, e) \subseteq c /\ \A f \in Exact(c, db, e) : f.db = db
      /\ InTop(c, db, e) \subseteq c /\ \A f \in InTop(c, db, e) : f.db = db
  BY DEF Exact, InTop, AlikeTo
<1>5. QED
  BY <1>2, <1>3, <1>4 DEF Closed

LEMMA SingleIsBase ==
    ASSUME NEW c, NEW S, Closed(c, S), Single(S), NEW f \in S
    PROVE  ~Synthetic(f.code)
<1>1. S = {f}
  BY DEF Single
<1>2. \A b : CopyOf(f, b) => ~Synthetic(b.code)
  BY DEF CopyOf
<1>3. QED
  BY <1>1, <1>2 DEF Closed

\* What the prelinker finds are base flows of its database.
LEMMA HitFacts ==
    ASSUME NEW c, CatalogInv(c), NEW db, NEW e, e.code \in PlainCodes,
           NEW f \in PrelinkHits(c, db, e)
    PROVE  f \in c /\ f.db = db /\ ~Synthetic(f.code) /\ f.code \in PlainCodes /\ f.code # NoCode
<1>1. CASE f \in ByCode(c, db, e)
  BY <1>1, PlainFacts DEF ByCode, Get
<1>2. CASE f \in Exact(c, db, e) /\ Single(Exact(c, db, e))
  <2>1. ~Synthetic(f.code)
    BY <1>2, AlikeClosed, SingleIsBase
  <2>2. f \in c /\ f.db = db
    BY <1>2 DEF Exact, AlikeTo
  <2>3. QED
    BY <2>1, <2>2, CodeFacts DEF CatalogInv, FlowRow, NoCode
<1>3. CASE f \in InTop(c, db, e) /\ Single(InTop(c, db, e))
  <2>1. ~Synthetic(f.code)
    BY <1>3, AlikeClosed, SingleIsBase
  <2>2. f \in c /\ f.db = db
    BY <1>3 DEF InTop, AlikeTo
  <2>3. QED
    BY <2>1, <2>2, CodeFacts DEF CatalogInv, FlowRow, NoCode
<1>4. QED
  BY <1>1, <1>2, <1>3, HitsAre

\* A set that lost its uniqueness does not get it back, and one that has
\* nothing gets nothing.
LEMMA GrownHits ==
    ASSUME NEW c, NEW d, SameBase(c, d), c \subseteq d, NEW db, NEW e, e.code \in PlainCodes,
           PrelinkHits(c, db, e) = {}
    PROVE  PrelinkHits(d, db, e) = {}
<1>1. ByCode(c, db, e) = ByCode(d, db, e)
  BY GetSame DEF ByCode
<1>2. \A S, T : S \subseteq T /\ S # {} /\ ~Single(S) => ~Single(T)
  <2>1. SUFFICES ASSUME NEW S, NEW T, S \subseteq T, S # {}, ~Single(S), Single(T) PROVE FALSE
    OBVIOUS
  <2>2. PICK f : T = {f}
    BY <2>1 DEF Single
  <2>3. S = {f}
    BY <2>1, <2>2
  <2>4. QED
    BY <2>1, <2>3 DEF Single
<1>3. \A S, T : Closed(c, S) /\ Closed(d, T) /\ S = {}
               /\ (\A f : ~Synthetic(f.code) => (f \in S <=> f \in T)) => T = {}
  <2>1. \A g, b : CopyOf(g, b) => ~Synthetic(b.code)
    BY DEF CopyOf
  <2>2. QED
    BY <2>1 DEF Closed
<1>4. ~Single({})
  BY DEF Single
<1>5. /\ Closed(c, Exact(c, db, e)) /\ Closed(c, InTop(c, db, e))
      /\ Closed(d, Exact(d, db, e)) /\ Closed(d, InTop(d, db, e))
  BY AlikeClosed DEF SameBase
<1>6. /\ \A f : ~Synthetic(f.code) => (f \in Exact(c, db, e) <=> f \in Exact(d, db, e))
      /\ \A f : ~Synthetic(f.code) => (f \in InTop(c, db, e) <=> f \in InTop(d, db, e))
      /\ Exact(c, db, e) \subseteq Exact(d, db, e) /\ InTop(c, db, e) \subseteq InTop(d, db, e)
  BY DEF Exact, InTop, AlikeTo, SameBase
<1>7. Single(Exact(d, db, e)) => Single(Exact(c, db, e))
  BY <1>2, <1>3, <1>4, <1>5, <1>6
<1>8. Single(InTop(d, db, e)) => Single(InTop(c, db, e))
  BY <1>2, <1>3, <1>4, <1>5, <1>6
<1>9. ByCode(c, db, e) = {} /\ ~Single(Exact(c, db, e)) /\ ~Single(InTop(c, db, e))
  BY HitsAre DEF Single
<1>10. QED
  BY <1>1, <1>7, <1>8, <1>9, HitsAre

LEMMA SameDb ==
    ASSUME NEW c, NEW d, SameBase(c, d)
    PROVE  PrelinkDb(c) = PrelinkDb(d) /\ PrelinkDb(c) \in {Bio, Bio3}
<1>1. ASSUME NEW a, NEW b, SameBase(a, b), NEW f \in a, f.db = Bio
      PROVE  \E g \in b : g.db = Bio
  <2>1. CASE ~Synthetic(f.code)
    BY <1>1, <2>1 DEF SameBase
  <2>2. CASE Synthetic(f.code)
    <3>1. PICK g \in a : CopyOf(f, g)
      BY <1>1, <2>2 DEF SameBase, CatalogInv
    <3>2. QED
      BY <1>1, <3>1 DEF SameBase, CopyOf
  <2>3. QED
    BY <2>1, <2>2
<1>2. SameBase(d, c)
  BY DEF SameBase
<1>3. QED
  BY <1>1, <1>2 DEF PrelinkDb

-----------------------------------------------------------------------------
(* From the prelinker to the sweep *)

LinkFits(t, c, e) ==
    /\ \E i \in DOMAIN t.bio : e.row = t.bio[i]
    /\ \/ Pins(e.row) /\ e.input.db = e.row.db /\ Base(e.input.code) = e.row.code
       \/ \E f \in c : /\ f.db = e.input.db /\ f.code = Base(e.input.code)
                       /\ BucketFits(f, Bucket(e.cats))

\* What holds of the exchange o of the CSV from the prelinker on.
Sound(t, c, o, e) ==
    /\ Derived(o, e) /\ DOMAIN e.input = {"db", "code"} /\ e.input.code \in Codes
    /\ Synthetic(e.input.code) =>
         e.input.db \in RegionalDbs /\ e.input.code[2] = Region(o.name)
    /\ IF e.tier = 0 THEN e.input.db \in {"", Bio, Bio3} ELSE LinkFits(t, c, e)

LEMMA StrippedFacts ==
    ASSUME NEW o, NEW e, Unlinked(o, e)
    PROVE  /\ Derived(o, Stripped(e)) /\ Stripped(e).input = NoInput /\ Stripped(e).tier = 0
           /\ Stripped(e).code = e.code
<1>1. CASE Stripped(e) = e
  BY <1>1 DEF Unlinked
<1>2. CASE Stripped(e) # e
  <2>1. PICK s : s = [e EXCEPT !.spname = e.name, !.name = <<e.name[1], "">>]
    OBVIOUS
  <2>2. s = Stripped(e)
    BY <1>2, <2>1 DEF Stripped, Unlinked
  <2>3. /\ DOMAIN s = Fields /\ s.snap = e.snap /\ s.spname = e.name /\ s.input = e.input
        /\ s.tier = e.tier /\ s.code = e.code /\ s.name = <<e.name[1], "">>
    BY <2>1 DEF Unlinked, Derived, Fields
  <2>4. Region(s.name) = ""
    BY <2>3, NoRegion
  <2>5. SourceName(s) = e.name \/ SourceName(s) = s.name
    BY <2>3 DEF SourceName
  <2>6. QED
    BY <2>2, <2>3, <2>4, <2>5 DEF Unlinked, Derived
<1>3. QED
  BY <1>1, <1>2

\* The prelinker strips the name, and links or does not.
LEMMA PrelinkedIs ==
    ASSUME NEW o, NEW e, Unlinked(o, e), NEW c, NEW db
    PROVE  \/ PrelinkHits(c, db, e) = {} /\ Prelinked(c, db, e) = Stripped(e)
           \/ \E f \in PrelinkHits(c, db, e) :
                Prelinked(c, db, e) = [Stripped(e) EXCEPT !.input = [db |-> f.db, code |-> f.code]]
<1>1. CASE PrelinkHits(c, db, e) = {}
  BY <1>1 DEF Prelinked
<1>2. CASE PrelinkHits(c, db, e) # {}
  <2>1. PICK f : f = CHOOSE h \in PrelinkHits(c, db, e) : TRUE
    OBVIOUS
  <2>2. f \in PrelinkHits(c, db, e)
    BY <1>2, <2>1
  <2>3. PICK link : link = [db |-> f.db, code |-> f.code]
    OBVIOUS
  <2>4. PICK a : a = [e EXCEPT !.input = link]
    OBVIOUS
  <2>5. Prelinked(c, db, e) = Stripped(a)
    BY <1>2, <2>1, <2>3, <2>4 DEF Prelinked, Unlinked
  <2>6. /\ DOMAIN a = Fields /\ a.loc = e.loc /\ a.name = e.name /\ a.spname = e.spname
    BY <2>4 DEF Unlinked, Derived, Fields
  <2>7. Stripped(a) = [Stripped(e) EXCEPT !.input = link]
    <3>1. CASE e.loc # "" /\ e.name[2] = e.loc
      <4>1. /\ Stripped(a) = [a EXCEPT !.spname = e.name, !.name = <<e.name[1], "">>]
            /\ Stripped(e) = [e EXCEPT !.spname = e.name, !.name = <<e.name[1], "">>]
        BY <2>6, <3>1 DEF Stripped, Unlinked
      <4>2. [[e EXCEPT !.input = link] EXCEPT !.spname = e.name, !.name = <<e.name[1], "">>]
              = [[e EXCEPT !.spname = e.name, !.name = <<e.name[1], "">>] EXCEPT !.input = link]
        OBVIOUS
      <4>3. QED
        BY <2>4, <4>1, <4>2
    <3>2. CASE ~(e.loc # "" /\ e.name[2] = e.loc)
      BY <2>4, <2>6, <3>2 DEF Stripped
    <3>3. QED
      BY <3>1, <3>2
  <2>8. QED
    BY <2>2, <2>3, <2>5, <2>7
<1>3. QED
  BY <1>1, <1>2

LEMMA PrelinkedFacts ==
    ASSUME NEW o, NEW e, Unlinked(o, e), NEW c, CatalogInv(c), NEW db \in {Bio, Bio3}, NEW t
    PROVE  Sound(t, c, o, Prelinked(c, db, e)) /\ Prelinked(c, db, e).tier = 0
<1>1. PICK p : p = Prelinked(c, db, e)
  OBVIOUS
<1>2. PICK s : s = Stripped(e)
  OBVIOUS
<1>3. Derived(o, s) /\ s.input = NoInput /\ s.tier = 0 /\ e.code \in PlainCodes
  BY <1>2, StrippedFacts DEF Unlinked, Derived
<1>4. CASE p = s
  <2>1. /\ NoInput.code \in Codes /\ ~Synthetic(NoInput.code) /\ NoInput.db = ""
        /\ DOMAIN NoInput = {"db", "code"}
    BY PlainNoCode, PlainFacts DEF NoInput
  <2>2. QED
    BY <1>1, <1>3, <1>4, <2>1 DEF Sound
<1>5. CASE \E f \in PrelinkHits(c, db, e) : p = [s EXCEPT !.input = [db |-> f.db, code |-> f.code]]
  <2>1. PICK f \in PrelinkHits(c, db, e) : p = [s EXCEPT !.input = [db |-> f.db, code |-> f.code]]
    BY <1>5
  <2>2. f.db = db /\ ~Synthetic(f.code) /\ f.code \in PlainCodes
    BY <1>3, HitFacts
  <2>3. PICK link : link = [db |-> f.db, code |-> f.code]
    OBVIOUS
  <2>4. /\ DOMAIN p = Fields /\ p.snap = s.snap /\ p.spname = s.spname /\ p.name = s.name
        /\ p.tier = s.tier /\ p.code = s.code /\ p.input = link
    BY <1>3, <2>1, <2>3 DEF Derived, Fields
  <2>5. Derived(o, p)
    BY <1>3, <2>4 DEF Derived, SourceName
  <2>6. /\ link.code \in Codes /\ ~Synthetic(link.code) /\ link.db = db
        /\ DOMAIN link = {"db", "code"}
    BY <2>2, <2>3, PlainFacts
  <2>7. QED
    BY <1>1, <1>3, <2>4, <2>5, <2>6 DEF Sound
<1>6. QED
  BY <1>1, <1>2, <1>4, <1>5, PrelinkedIs

\* The link a match makes of a target.
LinkTo(c, e, g) ==
    IF Region(SourceName(e)) # "" /\ g.db \in RegionalDbs /\ WaterFlow(c, g.db, g.code)
    THEN Suffixed([db |-> g.db, code |-> g.code], Region(SourceName(e)))
    ELSE [db |-> g.db, code |-> g.code]

LEMMA RegionToken == \A n : Region(n) \in Tokens /\ (Region(n) = "" <=> ~(Region(n) # ""))
BY DEF Region, IsRegion, Tokens

LEMMA SuffixedFacts ==
    ASSUME NEW input, DOMAIN input = {"db", "code"}, input.code \in Codes, NEW r \in Tokens
    PROVE  /\ DOMAIN Suffixed(input, r) = {"db", "code"}
           /\ Suffixed(input, r).db = input.db /\ Suffixed(input, r).code \in Codes
           /\ Suffixed(input, r).code[1] = input.code[1] /\ Suffixed(input, r).code[2] = r
           /\ Base(Suffixed(input, r).code) = Base(input.code)
<1>1. PICK code : code = <<input.code[1], r>>
  OBVIOUS
<1>2. code \in Codes /\ code[1] = input.code[1] /\ code[2] = r
  BY <1>1, CodeFacts DEF Codes
<1>3. PICK s : s = [input EXCEPT !.code = code]
  OBVIOUS
<1>4. DOMAIN s = {"db", "code"} /\ s.db = input.db /\ s.code = code
  BY <1>3
<1>5. s = Suffixed(input, r)
  BY <1>1, <1>3 DEF Suffixed
<1>6. Base(code) = Base(input.code)
  BY <1>2 DEF Base
<1>7. QED
  BY <1>2, <1>4, <1>5, <1>6

LEMMA LinkToFacts ==
    ASSUME NEW c, NEW e, NEW g, g.code \in PlainCodes
    PROVE  /\ DOMAIN LinkTo(c, e, g) = {"db", "code"}
           /\ LinkTo(c, e, g).db = g.db /\ LinkTo(c, e, g).code \in Codes
           /\ Base(LinkTo(c, e, g).code) = g.code
           /\ Synthetic(LinkTo(c, e, g).code) =>
                g.db \in RegionalDbs /\ LinkTo(c, e, g).code[2] = Region(SourceName(e))
<1>1. PICK link : link = [db |-> g.db, code |-> g.code]
  OBVIOUS
<1>2. /\ DOMAIN link = {"db", "code"} /\ link.db = g.db /\ link.code = g.code /\ link.code \in Codes
      /\ Base(link.code) = g.code /\ ~Synthetic(link.code)
  BY <1>1, PlainFacts
<1>3. PICK r : r = Region(SourceName(e))
  OBVIOUS
<1>4. r \in Tokens
  BY <1>3, RegionToken
<1>5. CASE LinkTo(c, e, g) = link
  BY <1>2, <1>5
<1>6. CASE r # "" /\ g.db \in RegionalDbs /\ LinkTo(c, e, g) = Suffixed(link, r)
  <2>1. PICK l : l = Suffixed(link, r)
    OBVIOUS
  <2>2. /\ DOMAIN l = {"db", "code"} /\ l.db = link.db /\ l.code \in Codes
        /\ l.code[2] = r /\ Base(l.code) = Base(link.code)
    BY <1>2, <1>4, <2>1, SuffixedFacts
  <2>3. QED
    BY <1>2, <1>3, <1>6, <2>1, <2>2
<1>7. QED
  BY <1>1, <1>3, <1>5, <1>6 DEF LinkTo

LEMMA MatchToFacts ==
    ASSUME NEW t, NEW c, NEW e, DOMAIN e = Fields, NEW k, NEW g,
           Target(c, k.row, Bucket(e.cats)) = {g}
    PROVE  LET m == MatchTo(t, c, e, k)
           IN  /\ DOMAIN m = Fields /\ m.input = LinkTo(c, e, g) /\ m.tier = k.row.tier
               /\ m.row = k.row /\ m.name = e.name /\ m.cats = e.cats /\ m.snap = e.snap
               /\ m.spname = e.spname /\ m.code = e.code
<1>1. (CHOOSE x \in Target(c, k.row, Bucket(e.cats)) : TRUE) = g
  OBVIOUS
<1>2. PICK link : link = LinkTo(c, e, g)
  OBVIOUS
<1>3. \E amount, unit :
        MatchTo(t, c, e, k) = [e EXCEPT !.input = link, !.tier = k.row.tier, !.row = k.row,
                                        !.unitIn = e.unit, !.amount = amount, !.unit = unit]
  BY <1>1, <1>2, Zenon DEF MatchTo, LinkTo
<1>4. PICK amount, unit :
        MatchTo(t, c, e, k) = [e EXCEPT !.input = link, !.tier = k.row.tier, !.row = k.row,
                                        !.unitIn = e.unit, !.amount = amount, !.unit = unit]
  BY <1>3
<1>5. PICK m : m = [e EXCEPT !.input = link, !.tier = k.row.tier, !.row = k.row,
                             !.unitIn = e.unit, !.amount = amount, !.unit = unit]
  OBVIOUS
<1>6. /\ DOMAIN m = Fields /\ m.input = link /\ m.tier = k.row.tier
      /\ m.row = k.row /\ m.name = e.name /\ m.cats = e.cats /\ m.snap = e.snap
      /\ m.spname = e.spname /\ m.code = e.code
  BY <1>5 DEF Fields
<1>7. QED
  BY <1>2, <1>4, <1>5, <1>6

\* The best candidate is a row of the table with one target.
LEMMA BestFacts ==
    ASSUME NEW t, PlainTable(t.bio), NEW c, CatalogInv(c), NEW e, NEW k \in BestCandidate(t, c, e)
    PROVE  /\ k \in Candidates(t, e) /\ Usable(t, c, e, k) /\ PlainRow(k.row)
           /\ \E i \in DOMAIN t.bio : k.row = t.bio[i]
           /\ \E g : /\ Target(c, k.row, Bucket(e.cats)) = {g} /\ g.code \in PlainCodes
                     /\ \/ Pins(k.row) /\ g.db = k.row.db /\ g.code = k.row.code
                        \/ \E f \in c : g.db = f.db /\ g.code = f.code /\ BucketFits(f, Bucket(e.cats))
<1>1. k \in Candidates(t, e) /\ Usable(t, c, e, k)
  BY DEF BestCandidate
<1>2. PlainRow(k.row) /\ \E i \in DOMAIN t.bio : k.row = t.bio[i]
  BY <1>1, CandidateFacts
<1>3. PICK g : g \in Target(c, k.row, Bucket(e.cats))
  BY <1>1 DEF Usable
<1>4. QED
  BY <1>1, <1>2, <1>3, TargetFacts

LEMMA MatchedIs ==
    ASSUME NEW t, PlainTable(t.bio), NEW c, NEW e
    PROVE  \/ BestCandidate(t, c, e) = {} /\ Matched(t, c, e) = e
           \/ \E k \in BestCandidate(t, c, e) : Matched(t, c, e) = MatchTo(t, c, e, k)
BY DEF Matched

LEMMA MatchedFacts ==
    ASSUME NEW t, PlainTable(t.bio), NEW c, CatalogInv(c), NEW o, NEW e, Sound(t, c, o, e)
    PROVE  Sound(t, c, o, Matched(t, c, e))
<1>1. CASE Matched(t, c, e) = e
  BY <1>1
<1>2. CASE \E k \in BestCandidate(t, c, e) : Matched(t, c, e) = MatchTo(t, c, e, k)
  <2>1. PICK k \in BestCandidate(t, c, e) : Matched(t, c, e) = MatchTo(t, c, e, k)
    BY <1>2
  <2>2. PlainRow(k.row) /\ \E i \in DOMAIN t.bio : k.row = t.bio[i]
    BY BestFacts
  <2>3. PICK g : /\ Target(c, k.row, Bucket(e.cats)) = {g} /\ g.code \in PlainCodes
                 /\ \/ Pins(k.row) /\ g.db = k.row.db /\ g.code = k.row.code
                    \/ \E f \in c : g.db = f.db /\ g.code = f.code /\ BucketFits(f, Bucket(e.cats))
    BY BestFacts
  <2>4. PICK m : m = MatchTo(t, c, e, k)
    OBVIOUS
  <2>5. DOMAIN e = Fields
    BY DEF Sound, Derived
  <2>6. /\ DOMAIN m = Fields /\ m.input = LinkTo(c, e, g) /\ m.tier = k.row.tier
        /\ m.row = k.row /\ m.name = e.name /\ m.cats = e.cats /\ m.snap = e.snap
        /\ m.spname = e.spname /\ m.code = e.code
    BY <2>3, <2>4, <2>5, MatchToFacts
  <2>7. PICK link : link = LinkTo(c, e, g)
    OBVIOUS
  <2>8. /\ DOMAIN link = {"db", "code"} /\ link.db = g.db /\ link.code \in Codes /\ Base(link.code) = g.code
        /\ Synthetic(link.code) =>
             link.db \in RegionalDbs /\ link.code[2] = Region(SourceName(e))
    BY <2>3, <2>7, LinkToFacts
  <2>9. Derived(o, m)
    BY <2>6 DEF Sound, Derived, SourceName
  <2>10. Synthetic(link.code) => link.code[2] = Region(o.name)
    BY <2>8 DEF Sound, Derived, Synthetic
  <2>11. LinkFits(t, c, m)
    BY <2>2, <2>3, <2>6, <2>7, <2>8 DEF LinkFits
  <2>12. m.tier # 0
    BY <2>2, <2>6 DEF PlainRow
  <2>13. QED
    BY <2>1, <2>4, <2>6, <2>7, <2>8, <2>9, <2>10, <2>11, <2>12 DEF Sound
<1>3. QED
  BY <1>1, <1>2, MatchedIs

\* The sweep is through.
Swept(o, e) ==
    /\ e.input # NoInput /\ Region(o.name) # "" /\ e.input.db \in RegionalDbs
    /\ e.name[1] \in WaterNames
    => Synthetic(e.input.code)

LEMMA RegionalisedFacts ==
    ASSUME NEW t, NEW c, NEW o, NEW e, Sound(t, c, o, e)
    PROVE  /\ Sound(t, c, o, Regionalised(e)) /\ Swept(o, Regionalised(e))
           /\ e.input # NoInput => /\ Regionalised(e).input # NoInput
                                   /\ Regionalised(e).input.code[1] = e.input.code[1]
           /\ Regionalised(e).tier = e.tier /\ Regionalised(e).code = e.code
<1>1. PICK r : r = Region(o.name)
  OBVIOUS
<1>2. PICK a : a = Regionalised(e)
  OBVIOUS
<1>3. e.snap = o.name /\ o.name # NoName /\ r \in Tokens
  BY <1>1, RegionToken DEF Sound, Derived
<1>. DEFINE Needed == /\ e.input # NoInput /\ ~Synthetic(e.input.code)
                      /\ r # "" /\ e.input.db \in RegionalDbs /\ e.name[1] \in WaterNames
<1>4. a = IF Needed THEN [e EXCEPT !.input = Suffixed(e.input, r)] ELSE e
  BY <1>1, <1>2, <1>3 DEF Regionalised
<1>5. CASE ~Needed
  <2>1. a = e
    BY <1>4, <1>5
  <2>2. Swept(o, e)
    BY <1>1, <1>5 DEF Swept
  <2>3. QED
    BY <1>2, <2>1, <2>2
<1>6. CASE Needed
  <2>1. PICK link : link = Suffixed(e.input, r)
    OBVIOUS
  <2>2. /\ DOMAIN link = {"db", "code"}
        /\ link.db = e.input.db /\ link.code \in Codes /\ link.code[1] = e.input.code[1]
        /\ link.code[2] = r /\ Base(link.code) = Base(e.input.code)
    BY <1>3, <1>6, <2>1, SuffixedFacts DEF Sound
  <2>3. a = [e EXCEPT !.input = link]
    BY <1>4, <1>6, <2>1
  <2>4. /\ DOMAIN a = Fields /\ a.input = link /\ a.tier = e.tier
        /\ a.row = e.row /\ a.name = e.name /\ a.cats = e.cats /\ a.snap = e.snap
        /\ a.spname = e.spname /\ a.code = e.code
    BY <2>3 DEF Sound, Derived, Fields
  <2>5. Derived(o, a)
    BY <2>4 DEF Sound, Derived, SourceName
  <2>6. Synthetic(link.code) /\ link # NoInput
    <3>1. ~Synthetic(NoInput.code)
      BY PlainNoCode, PlainFacts DEF NoInput
    <3>2. QED
      BY <1>6, <2>2, <3>1 DEF Synthetic
  <2>7. LinkFits(t, c, e) => LinkFits(t, c, a)
    BY <2>2, <2>4 DEF LinkFits
  <2>8. Sound(t, c, o, a)
    BY <1>1, <1>6, <2>2, <2>4, <2>5, <2>7 DEF Sound
  <2>9. Swept(o, a)
    BY <2>4, <2>6 DEF Swept
  <2>10. QED
    BY <1>2, <2>2, <2>4, <2>6, <2>8, <2>9
<1>7. QED
  BY <1>5, <1>6

-----------------------------------------------------------------------------
(* Linking once more *)

Same(p, q) ==
    /\ DOMAIN p = Fields /\ DOMAIN q = Fields
    /\ p.name = q.name /\ p.unit = q.unit /\ p.cats = q.cats /\ p.cas = q.cas
    /\ p.snap = q.snap /\ p.spname = q.spname

\* What was best is best in a catalog with other regional rows, unless an
\* exchange that had no link has one.
LEMMA BestSame ==
    ASSUME NEW t, PlainTable(t.bio), NEW c, NEW d, SameBase(c, d), NEW p, NEW q, Same(p, q),
           p.input = q.input \/ p.input # NoInput, NEW k \in BestCandidate(t, c, p)
    PROVE  k \in BestCandidate(t, d, q)
<1>1. Candidates(t, p) = Candidates(t, q)
  BY DEF Candidates, Same
<1>2. ASSUME NEW j \in Candidates(t, p)
      PROVE  /\ SortKey(c, p, j) = SortKey(d, q, j)
             /\ (\E g \in Target(c, j.row, Bucket(p.cats)) : Factor(t, j.row, p.unit, g.unit) # {})
                <=> (\E g \in Target(d, j.row, Bucket(q.cats)) : Factor(t, j.row, q.unit, g.unit) # {})
  <2>1. /\ SortKey(c, p, j) = SortKey(d, p, j)
        /\ Target(c, j.row, Bucket(p.cats)) = Target(d, j.row, Bucket(p.cats))
    BY UsableSame
  <2>2. p.cats = q.cats /\ p.unit = q.unit
    BY DEF Same
  <2>3. SortKey(d, p, j) = SortKey(d, q, j)
    BY <2>2 DEF SortKey
  <2>4. QED
    BY <2>1, <2>2, <2>3
<1>3. /\ k \in Candidates(t, p) /\ Usable(t, c, p, k)
      /\ \A j \in Candidates(t, p) : Usable(t, c, p, j) /\ j # k =>
           Lex(SortKey(c, p, k), SortKey(c, p, j))
  BY DEF BestCandidate
<1>4. Usable(t, d, q, k)
  BY <1>2, <1>3 DEF Usable
<1>5. ASSUME NEW j \in Candidates(t, p), Usable(t, d, q, j), j # k
      PROVE  Lex(SortKey(d, q, k), SortKey(d, q, j))
  <2>1. CASE Usable(t, c, p, j)
    BY <1>2, <1>3, <1>5, <2>1
  <2>2. CASE ~Usable(t, c, p, j)
    <3>1. j.row.tier \in FillOnly /\ k.row.tier \notin FillOnly
      BY <1>2, <1>3, <1>5, <2>2 DEF Usable
    <3>2. PlainRow(k.row) /\ PlainRow(j.row)
      BY <1>3, CandidateFacts
    <3>3. k.row.tier < j.row.tier
      BY <3>1, <3>2 DEF PlainRow, FillOnly
    <3>4. PICK s, r : s = SortKey(d, q, k) /\ r = SortKey(d, q, j)
      OBVIOUS
    <3>5. DOMAIN s = 1..7 /\ s[1] = k.row.tier /\ r[1] = j.row.tier
      BY <1>1, <1>3, <3>4, SortKeyFacts
    <3>6. 1 \in DOMAIN s /\ s[1] < r[1] /\ \A i \in 1..1 - 1 : s[i] = r[i]
      BY <3>3, <3>5
    <3>7. QED
      BY <3>4, <3>6 DEF Lex
  <2>3. QED
    BY <2>1, <2>2
<1>6. QED
  BY <1>1, <1>3, <1>4, <1>5 DEF BestCandidate

LEMMA LinkSame ==
    ASSUME NEW c, NEW d, SameBase(c, d), NEW p, NEW q, Same(p, q), NEW g, g.code \in PlainCodes
    PROVE  LinkTo(c, p, g) = LinkTo(d, q, g)
<1>1. Get(c, g.db, g.code) = Get(d, g.db, g.code)
  BY GetSame
<1>2. WaterFlow(c, g.db, g.code) <=> WaterFlow(d, g.db, g.code)
  BY <1>1 DEF WaterFlow
<1>3. SourceName(p) = SourceName(q)
  BY DEF SourceName, Same
<1>4. QED
  BY <1>2, <1>3 DEF LinkTo

LEMMA SweptSame ==
    ASSUME NEW p, NEW q, DOMAIN p = Fields, DOMAIN q = Fields, p.input = q.input,
           p.name = q.name, p.snap = q.snap, p.spname = q.spname
    PROVE  Regionalised(p).input = Regionalised(q).input
<1>1. PICK r : r = Region(IF p.snap # NoName THEN p.snap ELSE SourceName(p))
  OBVIOUS
<1>2. r = Region(IF q.snap # NoName THEN q.snap ELSE SourceName(q))
  BY <1>1 DEF SourceName
<1>. DEFINE Needed(e) == /\ e.input # NoInput /\ ~Synthetic(e.input.code)
                         /\ r # "" /\ e.input.db \in RegionalDbs /\ e.name[1] \in WaterNames
<1>3. PICK link : link = Suffixed(p.input, r)
  OBVIOUS
<1>4. /\ Regionalised(p) = IF Needed(p) THEN [p EXCEPT !.input = link] ELSE p
      /\ Regionalised(q) = IF Needed(q) THEN [q EXCEPT !.input = link] ELSE q
  BY <1>1, <1>2, <1>3 DEF Regionalised
<1>5. Needed(p) <=> Needed(q)
  OBVIOUS
<1>. HIDE DEF Needed
<1>6. QED
  BY <1>4, <1>5 DEF Fields

\* An exchange matched over both catalogs gets one link, and stays.
LEMMA MatchedSame ==
    ASSUME NEW t, PlainTable(t.bio), NEW c, NEW d, SameBase(c, d), NEW p, NEW q, Same(p, q),
           p.input = q.input \/ p.input # NoInput, BestCandidate(t, c, p) # {}
    PROVE  /\ Kept(Matched(t, c, p)) /\ Kept(Matched(t, d, q))
           /\ Regionalised(Matched(t, c, p)).input = Regionalised(Matched(t, d, q)).input
<1>1. CatalogInv(c) /\ CatalogInv(d) /\ p.cats = q.cats /\ DOMAIN p = Fields /\ DOMAIN q = Fields
  BY DEF SameBase, Same
<1>2. PICK k \in BestCandidate(t, c, p) : Matched(t, c, p) = MatchTo(t, c, p, k)
  BY MatchedIs
<1>3. k \in BestCandidate(t, d, q)
  BY BestSame
<1>4. Matched(t, d, q) = MatchTo(t, d, q, k)
  <2>1. PICK j \in BestCandidate(t, d, q) : Matched(t, d, q) = MatchTo(t, d, q, j)
    BY <1>3, MatchedIs
  <2>2. QED
    BY <1>3, <2>1, BestIsOne
<1>5. PICK g : /\ Target(c, k.row, Bucket(p.cats)) = {g} /\ g.code \in PlainCodes
               /\ \/ Pins(k.row) /\ g.db = k.row.db /\ g.code = k.row.code
                  \/ \E f \in c : g.db = f.db /\ g.code = f.code /\ BucketFits(f, Bucket(p.cats))
  <2>1. CatalogInv(c)
    BY <1>1
  <2>2. QED
    BY ONLY <2>1, PlainTable(t.bio), k \in BestCandidate(t, c, p), BestFacts
<1>6. g.db # ""
  BY <1>1, <1>5 DEF Pins, CatalogInv, FlowRow
<1>7. Target(d, k.row, Bucket(q.cats)) = {g}
  BY <1>1, <1>5, BestFacts, TargetSame
<1>8. PICK link : link = LinkTo(c, p, g)
  OBVIOUS
<1>9. link = LinkTo(d, q, g) /\ link # NoInput
  <2>1. link = LinkTo(d, q, g)
    BY <1>5, <1>8, LinkSame
  <2>2. link.db = g.db
    BY <1>5, <1>8, LinkToFacts
  <2>3. NoInput.db = ""
    BY DEF NoInput
  <2>4. QED
    BY <1>6, <2>1, <2>2, <2>3
<1>10. PICK m, n : m = MatchTo(t, c, p, k) /\ n = MatchTo(t, d, q, k)
  OBVIOUS
<1>11. /\ DOMAIN m = Fields /\ m.input = link /\ m.name = p.name /\ m.snap = p.snap
       /\ m.spname = p.spname
  BY <1>1, <1>5, <1>8, <1>10, MatchToFacts
<1>12. /\ DOMAIN n = Fields /\ n.input = link /\ n.name = q.name /\ n.snap = q.snap
       /\ n.spname = q.spname
  BY <1>1, <1>7, <1>9, <1>10, MatchToFacts
<1>13. Regionalised(m).input = Regionalised(n).input
  BY <1>11, <1>12, SweptSame DEF Same
<1>14. Kept(m) /\ Kept(n)
  BY <1>9, <1>11, <1>12 DEF Kept
<1>15. QED
  BY <1>2, <1>4, <1>10, <1>13, <1>14

\* The exchange o as a link over the tables t and the catalog c leaves it.
Pre(src, c, o) == Prelinked(c, PrelinkDb(c), Prepared(src, o))
Mat(src, t, c, o) == Matched(t, c, Pre(src, c, o))
Final(src, t, c, o) == Regionalised(Mat(src, t, c, o))

LEMMA FinalFacts ==
    ASSUME NEW src \in SourceSets, NEW o, IsParsed(o), NEW t, PlainTable(t.bio),
           NEW c, CatalogInv(c)
    PROVE  /\ Unlinked(o, Prepared(src, o))
           /\ Sound(t, c, o, Pre(src, c, o)) /\ Sound(t, c, o, Mat(src, t, c, o))
           /\ Sound(t, c, o, Final(src, t, c, o)) /\ Swept(o, Final(src, t, c, o))
<1>1. Unlinked(o, Prepared(src, o))
  BY PreparedFacts
<1>2. PrelinkDb(c) \in {Bio, Bio3}
  BY DEF PrelinkDb
<1>3. Sound(t, c, o, Pre(src, c, o))
  BY <1>1, <1>2, PrelinkedFacts DEF Pre
<1>4. Sound(t, c, o, Mat(src, t, c, o))
  BY <1>3, MatchedFacts DEF Mat
<1>5. QED
  BY <1>1, <1>3, <1>4, RegionalisedFacts DEF Final

\* A link over a catalog in which only regional rows are new.
LEMMA Relinked ==
    ASSUME NEW src \in SourceSets, NEW o, IsParsed(o), NEW t, PlainTable(t.bio),
           NEW c, NEW d, SameBase(c, d), c \subseteq d
    PROVE  \/ /\ Kept(Mat(src, t, c, o)) <=> Kept(Mat(src, t, d, o))
              /\ Final(src, t, c, o).input = Final(src, t, d, o).input
           \/ Kept(Mat(src, t, c, o)) /\ PrelinkedByName(Final(src, t, c, o))
<1>1. PICK e : e = Prepared(src, o)
  OBVIOUS
<1>2. Unlinked(o, e) /\ e.code \in PlainCodes
  BY <1>1, PreparedFacts DEF Unlinked, Derived
<1>3. PICK db : db = PrelinkDb(c) /\ db = PrelinkDb(d) /\ db \in {Bio, Bio3}
  BY SameDb
<1>4. CatalogInv(c) /\ CatalogInv(d) /\ SameBase(d, c)
  BY DEF SameBase
<1>5. PICK p, q : p = Prelinked(c, db, e) /\ q = Prelinked(d, db, e)
  OBVIOUS
<1>6. /\ Mat(src, t, c, o) = Matched(t, c, p) /\ Mat(src, t, d, o) = Matched(t, d, q)
  BY <1>1, <1>3, <1>5 DEF Mat, Pre
<1>7. Sound(t, c, o, p) /\ Sound(t, d, o, q) /\ p.tier = 0
  BY <1>2, <1>3, <1>4, <1>5, PrelinkedFacts
<1>8. Same(p, q) /\ p.code = e.code
  <2>1. PICK s : s = Stripped(e)
    OBVIOUS
  <2>2. DOMAIN s = Fields /\ s.code = e.code
    BY <1>2, <2>1, StrippedFacts DEF Derived
  <2>3. p = s \/ \E v : p = [s EXCEPT !.input = v]
    BY <1>2, <1>5, <2>1, PrelinkedIs
  <2>4. q = s \/ \E v : q = [s EXCEPT !.input = v]
    BY <1>2, <1>5, <2>1, PrelinkedIs
  <2>5. ASSUME NEW a, a = s \/ \E v : a = [s EXCEPT !.input = v]
        PROVE  /\ DOMAIN a = Fields /\ a.name = s.name /\ a.unit = s.unit /\ a.cats = s.cats
               /\ a.cas = s.cas /\ a.snap = s.snap /\ a.spname = s.spname /\ a.code = s.code
    BY <2>2, <2>5 DEF Fields
  <2>6. QED
    BY <2>2, <2>3, <2>4, <2>5 DEF Same
<1>9. CASE p = q
  <2>1. CASE BestCandidate(t, c, p) # {}
    <3>1. /\ Kept(Matched(t, c, p)) /\ Kept(Matched(t, d, q))
          /\ Regionalised(Matched(t, c, p)).input = Regionalised(Matched(t, d, q)).input
      BY <1>8, <1>9, <2>1, MatchedSame
    <3>2. QED
      BY <1>6, <3>1 DEF Final
  <2>2. CASE BestCandidate(t, c, p) = {}
    <3>1. ASSUME NEW k \in BestCandidate(t, d, q) PROVE FALSE
      <4>1. k \in BestCandidate(t, c, p)
        BY <1>4, <1>8, <1>9, BestSame
      <4>2. QED
        BY <2>2, <4>1
    <3>2. Matched(t, c, p) = p /\ Matched(t, d, q) = p
      BY <1>9, <2>2, <3>1, MatchedIs
    <3>3. QED
      BY <1>6, <3>2 DEF Final
  <2>3. QED
    BY <2>1, <2>2
<1>10. CASE PrelinkHits(c, db, e) = PrelinkHits(d, db, e)
  <2>1. p = q
    BY <1>5, <1>10, Zenon DEF Prelinked
  <2>2. QED
    BY <1>9, <2>1
<1>11. CASE PrelinkHits(c, db, e) = {}
  <2>1. PrelinkHits(d, db, e) = {}
    BY <1>2, <1>11, GrownHits
  <2>2. QED
    BY <1>10, <1>11, <2>1
<1>12. CASE ByCode(c, db, e) # {}
  <2>1. ByCode(c, db, e) = ByCode(d, db, e)
    BY <1>2, GetSame DEF ByCode
  <2>2. PrelinkHits(c, db, e) = PrelinkHits(d, db, e)
    BY <1>12, <2>1, HitsAre
  <2>3. QED
    BY <1>10, <2>2
<1>13. CASE ByCode(c, db, e) = {} /\ PrelinkHits(c, db, e) # {}
  <2>1. PICK f \in PrelinkHits(c, db, e) : p.input = [db |-> f.db, code |-> f.code]
    <3>1. PICK s : s = Stripped(e)
      OBVIOUS
    <3>2. DOMAIN s = Fields
      BY <1>2, <3>1, StrippedFacts DEF Derived
    <3>3. PICK f \in PrelinkHits(c, db, e) : p = [s EXCEPT !.input = [db |-> f.db, code |-> f.code]]
      BY <1>2, <1>5, <1>13, <3>1, PrelinkedIs
    <3>4. QED
      BY <3>2, <3>3 DEF Fields
  <2>2. f \in c /\ f.db = db /\ f.code \in PlainCodes /\ f.code # NoCode
    BY <1>2, <1>4, HitFacts
  <2>3. p.input # NoInput /\ p.input.code = f.code
    <3>1. NoInput.code = NoCode
      BY DEF NoInput
    <3>2. QED
      BY <2>1, <2>2, <3>1
  <2>4. f.code[1] # e.code[1]
    <3>1. SUFFICES ASSUME f.code[1] = e.code[1] PROVE FALSE
      OBVIOUS
    <3>2. f.code = e.code
      BY <1>2, <2>2, <3>1, PlainFacts DEF Base
    <3>3. f \in ByCode(c, db, e)
      BY <2>2, <3>2 DEF ByCode, Get
    <3>4. QED
      BY <1>13, <3>3
  <2>5. CASE BestCandidate(t, c, p) # {}
    <3>1. /\ Kept(Matched(t, c, p)) /\ Kept(Matched(t, d, q))
          /\ Regionalised(Matched(t, c, p)).input = Regionalised(Matched(t, d, q)).input
      BY <1>8, <2>3, <2>5, MatchedSame
    <3>2. QED
      BY <1>6, <3>1 DEF Final
  <2>6. CASE BestCandidate(t, c, p) = {}
    <3>1. Matched(t, c, p) = p
      BY <2>6, MatchedIs
    <3>2. PICK a : a = Regionalised(p)
      OBVIOUS
    <3>3. a.input # NoInput /\ a.input.code[1] = f.code[1] /\ a.tier = 0 /\ a.code = e.code
      BY <1>7, <1>8, <2>3, <3>2, RegionalisedFacts
    <3>4. PrelinkedByName(a) /\ Kept(p)
      BY <2>3, <2>4, <3>3 DEF PrelinkedByName, Kept
    <3>5. QED
      BY <1>6, <3>1, <3>2, <3>4 DEF Final
  <2>7. QED
    BY <2>5, <2>6
<1>14. QED
  BY <1>11, <1>12, <1>13

-----------------------------------------------------------------------------
(* The invariant *)

Remaining(src, t, c, i) == {x \in DOMAIN i : Kept(Mat(src, t, c, i[x]))}
Result(src, t, c, i) == [x \in Remaining(src, t, c, i) |-> Final(src, t, c, i[x])]

\* The commands change the tables between links only, and every catalog is
\* one.
FilesInv ==
    /\ sources \in SourceSets /\ base \in Snapshots /\ csv \in Inventories
    /\ pc \in {"idle", "parsed", "snapshotted", "mapped", "normalised", "loaded",
               "prelinked", "matched", "suffixed", "augmented"}
    /\ tables \in {NoTables, Tables(sources)}
    /\ pc # "idle" => tables # NoTables
    /\ CatalogInv(rows) /\ CatalogInv(cat)

\* The inventory is a function of the CSV, the sources, the tables and the
\* catalog this link has loaded.
StageInv ==
    /\ pc = "idle" => inv = << >>
    /\ pc = "parsed" => inv = csv
    /\ pc = "snapshotted" => inv = [x \in DOMAIN csv |-> Snapshotted(csv[x])]
    /\ pc = "mapped" =>
         inv = [x \in DOMAIN csv |-> Flowmapped(sources.flowmap, Snapshotted(csv[x]))]
    /\ pc \in {"normalised", "loaded"} => inv = [x \in DOMAIN csv |-> Prepared(sources, csv[x])]
    /\ pc = "prelinked" => inv = [x \in DOMAIN csv |-> Pre(sources, cat, csv[x])]
    /\ pc = "matched" =>
         inv = [x \in Remaining(sources, tables, cat, csv) |-> Mat(sources, tables, cat, csv[x])]
    /\ pc \in {"suffixed", "augmented"} => inv = Result(sources, tables, cat, csv)

\* So was what the previous link left.
PastInv ==
    past # None =>
      /\ CatalogInv(past.cat) /\ past.tables = Tables(sources)
      /\ past.inv = Result(sources, past.tables, past.cat, csv)

LinkInv == FilesInv /\ StageInv /\ PastInv

LEMMA EmptyCatalog == CatalogInv({})
BY DEF CatalogInv

LEMMA InitInv == Init => LinkInv
BY EmptyCatalog DEF Init, LinkInv, FilesInv, StageInv, PastInv

LEMMA Parsed ==
    ASSUME FilesInv, NEW x \in DOMAIN csv
    PROVE  IsParsed(csv[x])
BY ParseAssumption DEF FilesInv

LEMMA Plain ==
    ASSUME FilesInv, pc # "idle"
    PROVE  tables = Tables(sources) /\ PlainTable(tables.bio)
BY TablesFacts DEF FilesInv

\* What the sweep has been through.
LEMMA ResultFacts ==
    ASSUME FilesInv, NEW t, PlainTable(t.bio), NEW c, CatalogInv(c),
           NEW r, r = Result(sources, t, c, csv), NEW x \in DOMAIN r
    PROVE  /\ x \in DOMAIN csv /\ Sound(t, c, csv[x], r[x]) /\ Swept(csv[x], r[x])
           /\ r[x] = Final(sources, t, c, csv[x]) /\ Kept(Mat(sources, t, c, csv[x]))
<1>1. /\ x \in DOMAIN csv /\ Kept(Mat(sources, t, c, csv[x]))
      /\ r[x] = Final(sources, t, c, csv[x])
  BY DEF Result, Remaining
<1>2. sources \in SourceSets /\ IsParsed(csv[x])
  BY <1>1, Parsed DEF FilesInv
<1>3. QED
  BY <1>1, <1>2, FinalFacts

LEMMA UsedCodes ==
    ASSUME LinkInv, pc = "suffixed"
    PROVE  \A x \in DOMAIN inv : Synthetic(inv[x].input.code) =>
             inv[x].input.code \in Codes /\ inv[x].input.db \in RegionalDbs
<1>1. PlainTable(tables.bio) /\ CatalogInv(cat) /\ inv = Result(sources, tables, cat, csv) /\ FilesInv
  BY Plain DEF LinkInv, FilesInv, StageInv
<1>2. ASSUME NEW x \in DOMAIN inv PROVE Sound(tables, cat, csv[x], inv[x])
  BY <1>1, ResultFacts
<1>3. QED
  BY <1>2 DEF Sound

LEMMA FilesStep ==
    ASSUME LinkInv, [Next]_vars
    PROVE  FilesInv'
<1>1. FilesInv
  BY DEF LinkInv
<1>2. CASE BuildRegistry
  BY <1>1, <1>2 DEF BuildRegistry, FilesInv
<1>3. CASE BuildEfFlows
  BY <1>1, <1>3 DEF BuildEfFlows, FilesInv
<1>4. CASE BuildCatalog
  <2>1. CatalogInv(CatalogOf(base, efFlows))
    BY <1>1, NewCatalog DEF FilesInv
  <2>2. QED
    BY <1>1, <1>4, <2>1 DEF BuildCatalog, FilesInv, files
<1>5. CASE StartLink
  BY <1>1, <1>5, EmptyCatalog DEF StartLink, Stage, FilesInv, files
<1>6. CASE Snapshot \/ ApplyFlowmap \/ NormaliseLabels \/ Prelink \/ Match \/ ApplySuffix
  BY <1>1, <1>6 DEF Snapshot, ApplyFlowmap, NormaliseLabels, Prelink, Match, ApplySuffix,
                    Stage, FilesInv, files
<1>7. CASE LoadCatalog
  BY <1>1, <1>7 DEF LoadCatalog, Stage, FilesInv, files
<1>8. CASE Augment
  <2>1. CatalogInv(Augmented(rows))
    BY <1>1, <1>8, UsedCodes, AugmentFacts DEF Augment, FilesInv
  <2>2. QED
    BY <1>1, <1>8, <2>1 DEF Augment, FilesInv, files
<1>9. CASE FinishLink
  BY <1>1, <1>9, EmptyCatalog DEF FinishLink, FilesInv, files
<1>10. CASE UNCHANGED vars
  BY <1>1, <1>10 DEF vars, FilesInv
<1>11. QED
  BY <1>2, <1>3, <1>4, <1>5, <1>6, <1>7, <1>8, <1>9, <1>10 DEF Next

LEMMA StageStep ==
    ASSUME LinkInv, [Next]_vars
    PROVE  StageInv'
<1>1. StageInv
  BY DEF LinkInv
<1>2. CASE BuildRegistry \/ BuildEfFlows \/ BuildCatalog \/ Augment \/ FinishLink \/ UNCHANGED vars
  BY <1>1, <1>2 DEF BuildRegistry, BuildEfFlows, BuildCatalog, Augment, FinishLink, vars,
                    StageInv, files
<1>3. CASE StartLink
  BY <1>1, <1>3 DEF StartLink, Stage, StageInv, files
<1>4. CASE Snapshot
  BY <1>1, <1>4 DEF Snapshot, Stage, StageInv, files
<1>5. CASE ApplyFlowmap
  BY <1>1, <1>5 DEF ApplyFlowmap, Stage, StageInv, files
<1>6. CASE NormaliseLabels
  BY <1>1, <1>6 DEF NormaliseLabels, Stage, StageInv, Prepared, files
<1>7. CASE LoadCatalog
  BY <1>1, <1>7 DEF LoadCatalog, Stage, StageInv, files
<1>8. CASE Prelink
  BY <1>1, <1>8 DEF Prelink, Stage, StageInv, Pre, files
<1>9. CASE Match
  <2>1. inv = [x \in DOMAIN csv |-> Pre(sources, cat, csv[x])]
    BY <1>1, <1>9 DEF Match, Stage, StageInv
  <2>. DEFINE matched == [x \in DOMAIN inv |-> Matched(tables, cat, inv[x])]
  <2>2. matched = [x \in DOMAIN csv |-> Mat(sources, tables, cat, csv[x])]
    BY <2>1 DEF Mat
  <2>3. inv' = [x \in {y \in DOMAIN inv : Kept(matched[y])} |-> matched[x]]
    BY <1>9 DEF Match, Stage
  <2>4. inv' = [x \in Remaining(sources, tables, cat, csv) |-> Mat(sources, tables, cat, csv[x])]
    BY <2>1, <2>2, <2>3 DEF Remaining
  <2>5. pc' = "matched" /\ UNCHANGED <<sources, tables, cat, csv>>
    BY <1>9 DEF Match, Stage, files
  <2>6. QED
    BY <2>4, <2>5 DEF StageInv
<1>10. CASE ApplySuffix
  BY <1>1, <1>10 DEF ApplySuffix, Stage, StageInv, Result, Final, files
<1>11. QED
  BY <1>2, <1>3, <1>4, <1>5, <1>6, <1>7, <1>8, <1>9, <1>10 DEF Next

LEMMA PastStep ==
    ASSUME LinkInv, [Next]_vars
    PROVE  PastInv'
<1>1. PastInv
  BY DEF LinkInv
<1>2. CASE FinishLink
  <2>1. CatalogInv(cat) /\ tables = Tables(sources) /\ inv = Result(sources, tables, cat, csv)
    BY <1>2, Plain DEF FinishLink, LinkInv, FilesInv, StageInv
  <2>2. /\ past'.cat = cat /\ past'.tables = tables /\ past'.inv = inv
        /\ sources' = sources /\ csv' = csv
    BY <1>2 DEF FinishLink, files
  <2>3. QED
    BY <2>1, <2>2 DEF PastInv
<1>3. CASE ~FinishLink
  <2>1. UNCHANGED <<past, sources, csv>>
    BY <1>3 DEF Next, vars, BuildRegistry, BuildEfFlows, BuildCatalog, StartLink, Snapshot,
                ApplyFlowmap, NormaliseLabels, LoadCatalog, Prelink, Match, ApplySuffix, Augment,
                Stage, files
  <2>2. QED
    BY <1>1, <2>1 DEF PastInv
<1>4. QED
  BY <1>2, <1>3

\* LinkInv holds in every state.
THEOREM Inductive == Spec => []LinkInv
<1>1. Init => LinkInv
  BY InitInv
<1>2. LinkInv /\ [Next]_vars => LinkInv'
  BY FilesStep, StageStep, PastStep DEF LinkInv
<1>3. QED
  BY <1>1, <1>2, PTL DEF Spec

-----------------------------------------------------------------------------
(* Regions, compartments and pins *)

LEMMA UnlinkedIsSound ==
    ASSUME NEW o, NEW e, Unlinked(o, e), NEW t, NEW c
    PROVE  Sound(t, c, o, e)
<1>1. /\ NoInput.code \in Codes /\ ~Synthetic(NoInput.code) /\ NoInput.db = ""
      /\ DOMAIN NoInput = {"db", "code"}
  BY PlainNoCode, PlainFacts DEF NoInput
<1>2. QED
  BY <1>1 DEF Unlinked, Sound

LEMMA SoundNow ==
    ASSUME LinkInv, NEW x \in DOMAIN inv
    PROVE  /\ x \in DOMAIN csv
           /\ pc = "parsed" => inv[x].tier = 0
           /\ pc # "parsed" => Sound(tables, cat, csv[x], inv[x])
<1>1. FilesInv /\ StageInv /\ sources \in SourceSets /\ CatalogInv(cat)
  BY DEF LinkInv, FilesInv
<1>2. pc # "idle"
  BY <1>1 DEF StageInv
<1>3. PlainTable(tables.bio)
  BY <1>1, <1>2, Plain
<1>4. x \in DOMAIN csv
  BY <1>1, <1>2 DEF StageInv, FilesInv, Result, Remaining
<1>5. IsParsed(csv[x])
  BY <1>1, <1>4, Parsed
<1>6. CASE pc = "parsed"
  BY <1>1, <1>4, <1>5, <1>6 DEF StageInv, IsParsed
<1>7. CASE pc = "snapshotted"
  <2>1. inv[x] = Snapshotted(csv[x])
    BY <1>1, <1>4, <1>7 DEF StageInv
  <2>2. QED
    BY <1>4, <1>5, <1>7, <2>1, SnapshottedFacts, UnlinkedIsSound
<1>8. CASE pc = "mapped"
  <2>1. inv[x] = Flowmapped(sources.flowmap, Snapshotted(csv[x]))
    BY <1>1, <1>4, <1>8 DEF StageInv
  <2>2. QED
    BY <1>1, <1>4, <1>5, <1>8, <2>1, MappedFacts, UnlinkedIsSound
<1>9. CASE pc \in {"normalised", "loaded"}
  <2>1. inv[x] = Prepared(sources, csv[x])
    BY <1>1, <1>4, <1>9 DEF StageInv
  <2>2. QED
    BY <1>1, <1>4, <1>5, <1>9, <2>1, PreparedFacts, UnlinkedIsSound
<1>10. CASE pc \in {"prelinked", "matched"}
  <2>1. inv[x] = Pre(sources, cat, csv[x]) \/ inv[x] = Mat(sources, tables, cat, csv[x])
    BY <1>1, <1>4, <1>10 DEF StageInv
  <2>2. QED
    BY <1>1, <1>3, <1>4, <1>5, <1>10, <2>1, FinalFacts
<1>11. CASE pc \in {"suffixed", "augmented"}
  <2>1. inv = Result(sources, tables, cat, csv)
    BY <1>1, <1>11 DEF StageInv
  <2>2. QED
    BY <1>1, <1>3, <1>4, <1>11, <2>1, ResultFacts
<1>12. QED
  BY <1>1, <1>2, <1>6, <1>7, <1>8, <1>9, <1>10, <1>11 DEF FilesInv

\* The region of a flow survives the flowmap, the strip and the match: after
\* the sweep a synthetic code carries the region its exchange had in the CSV,
\* and a water flow that had one is synthetic.
THEOREM RegionsSurvive == Spec => []RegionKept
<1>1. LinkInv => RegionKept
  <2>1. SUFFICES ASSUME LinkInv, pc \in {"suffixed", "augmented"},
                        NEW x \in DOMAIN inv, Linked(x)
                 PROVE  LET region == Region(csv[x].name)  code == inv[x].input.code
                        IN  /\ Synthetic(code) => code[2] = region
                            /\ region # "" /\ inv[x].input.db \in RegionalDbs
                                 /\ inv[x].name[1] \in WaterNames
                                 => Synthetic(code)
    BY DEF RegionKept
  <2>2. /\ FilesInv /\ PlainTable(tables.bio) /\ CatalogInv(cat)
        /\ inv = Result(sources, tables, cat, csv)
    BY <2>1, Plain DEF LinkInv, FilesInv, StageInv
  <2>3. Sound(tables, cat, csv[x], inv[x]) /\ Swept(csv[x], inv[x])
    BY <2>1, <2>2, ResultFacts
  <2>4. QED
    BY <2>1, <2>3 DEF Sound, Swept, Linked
<1>2. QED
  BY <1>1, Inductive, PTL

\* No match crosses compartments, unless its row pins database and code.
THEOREM CompartmentsHold == Spec => []CompartmentKept
<1>1. LinkInv => CompartmentKept
  <2>1. SUFFICES ASSUME LinkInv, NEW x \in DOMAIN inv, inv[x].tier # 0, Crosses(x)
                 PROVE  inv[x].row.db # "" /\ inv[x].row.code # NoCode
    BY DEF CompartmentKept
  <2>2. Sound(tables, cat, csv[x], inv[x])
    BY <2>1, SoundNow
  <2>3. PICK e : e = inv[x]
    OBVIOUS
  <2>4. LinkFits(tables, cat, e)
    BY <2>1, <2>2, <2>3 DEF Sound
  <2>5. PICK f \in cat : /\ f.db = e.input.db /\ f.code = Base(e.input.code)
                         /\ Bucket(f.cats) \notin {Bucket(e.cats), "unspecified"}
    BY <2>1, <2>3 DEF Crosses, TargetOf, Get, Base
  <2>6. ASSUME NEW g \in cat, g.db = e.input.db, g.code = Base(e.input.code)
        PROVE  g = f
    BY <2>1, <2>5, <2>6 DEF LinkInv, FilesInv, CatalogInv
  <2>7. Pins(e.row)
    BY <2>4, <2>5, <2>6 DEF LinkFits, BucketFits
  <2>8. QED
    BY <2>3, <2>7 DEF Pins
<1>2. QED
  BY <1>1, Inductive, PTL

LEMMA TablesIndex ==
    \A src : Tables(src).efIndex = src.efUuids
BY DEF Tables

\* A catalog built after the EF flows of the current registry has a row for
\* every EF flow a link points at, pinned rows included.
THEOREM PinsHaveRows == Spec => []PinsResolve
<1>1. LinkInv => PinsResolve
  <2>1. SUFFICES ASSUME LinkInv,
                        pc \notin {"idle", "parsed", "snapshotted", "mapped", "normalised"},
                        CatalogOf(base, EfFlows(tables, MethodUuids)) \subseteq cat,
                        NEW x \in DOMAIN inv, inv[x].input.db = Ef,
                        inv[x].row.code \in sources.efUuids
                 PROVE  TargetOf(x) # {}
    BY DEF PinsResolve
  <2>2. Sound(tables, cat, csv[x], inv[x])
    BY <2>1, SoundNow
  <2>3. PICK e : e = inv[x]
    OBVIOUS
  <2>4. Ef \notin {"", Bio, Bio3}
    BY DEF Ef, Bio, Bio3
  <2>5. LinkFits(tables, cat, e)
    BY <2>1, <2>2, <2>3, <2>4 DEF Sound
  <2>6. ASSUME NEW f \in cat, f.db = Ef, f.code = Base(e.input.code) PROVE TargetOf(x) # {}
    BY <2>1, <2>3, <2>6 DEF TargetOf, Get, Base
  <2>7. CASE Pins(e.row) /\ e.row.db = Ef /\ Base(e.input.code) = e.row.code
    <3>1. tables = Tables(sources) /\ sources \in SourceSets
      BY <2>1, Plain DEF LinkInv, FilesInv
    <3>2. PICK i \in DOMAIN tables.bio : e.row = tables.bio[i]
      BY <2>5 DEF LinkFits
    <3>3. e.row.code \in tables.efIndex
      BY <2>1, <2>3, <3>1, TablesIndex
    <3>4. e.row.db = "ef" /\ e.row.code # NoCode
      BY <2>7 DEF Pins, Ef
    <3>5. e.row.code \in EfFlows(tables, MethodUuids)
      BY <3>2, <3>3, <3>4 DEF EfFlows
    <3>6. PICK f \in EfUniverse : f.code = e.row.code
      BY <2>1, <2>3, <3>1, SourceAssumption
    <3>7. f.db = Ef
      BY FlowAssumption
    <3>8. f \in cat
      BY <2>1, <3>5, <3>6 DEF CatalogOf
    <3>9. QED
      BY <2>6, <2>7, <3>6, <3>7, <3>8
  <2>8. QED
    BY <2>1, <2>3, <2>5, <2>6, <2>7 DEF LinkFits
<1>2. QED
  BY <1>1, Inductive, PTL

\* The augmenter leaves every synthetic code in use a row in the file, alike
\* its base, if the file still has that base, and touches no base row.
THEOREM AugmentationCovers == Spec => AugmentCovers
<1>1. ASSUME LinkInv, [Next]_vars, pc = "suffixed" /\ pc' = "augmented"
      PROVE  /\ BaseRows(rows') = BaseRows(rows)
             /\ \A x \in DOMAIN inv :
                  LET u == inv[x].input
                  IN  Synthetic(u.code) =>
                        \A f \in Get(rows, u.db, <<u.code[1], "">>) :
                          [f EXCEPT !.code = u.code] \in rows'
  <2>1. Augment
    BY <1>1 DEF Next, vars, files, BuildRegistry, BuildEfFlows, BuildCatalog, StartLink, Snapshot,
                ApplyFlowmap, NormaliseLabels, LoadCatalog, Prelink, Match, ApplySuffix,
                FinishLink, Stage
  <2>2. rows' = Augmented(rows) /\ CatalogInv(rows)
    BY <1>1, <2>1 DEF Augment, LinkInv, FilesInv
  <2>3. /\ BaseRows(Augmented(rows)) = BaseRows(rows)
        /\ \A x \in DOMAIN inv : Synthetic(inv[x].input.code) =>
             \A f \in Get(rows, inv[x].input.db, Base(inv[x].input.code)) :
               [f EXCEPT !.code = inv[x].input.code] \in Augmented(rows)
    BY <1>1, <2>2, UsedCodes, AugmentFacts
  <2>4. QED
    BY <2>2, <2>3 DEF Base
<1>2. QED
  BY <1>1, Inductive, PTL DEF Spec, AugmentCovers

-----------------------------------------------------------------------------
(* The second link *)

\* A second link of the same CSV over the same registry and base catalog gives
\* every exchange the link it had, except one the first had linked by name in
\* the prelinker.
THEOREM LinksSettle == Spec => []RelinkSettles
<1>1. LinkInv => RelinkSettles
  <2>1. SUFFICES ASSUME LinkInv, SameReads, NEW x \in DOMAIN inv \cup DOMAIN past.inv
                 PROVE  \/ /\ x \in DOMAIN inv /\ x \in DOMAIN past.inv
                           /\ inv[x].input = past.inv[x].input
                        \/ x \in DOMAIN past.inv /\ PrelinkedByName(past.inv[x])
    BY DEF RelinkSettles, SameLink
  <2>2. pc = "augmented" /\ past # None /\ past.tables = tables
    BY <2>1 DEF SameReads
  <2>3. PICK c : c = past.cat
    OBVIOUS
  <2>4. /\ FilesInv /\ sources \in SourceSets /\ PlainTable(tables.bio)
        /\ CatalogInv(c) /\ CatalogInv(cat)
        /\ inv = Result(sources, tables, cat, csv)
        /\ past.inv = Result(sources, tables, c, csv)
    BY <2>1, <2>2, <2>3, Plain DEF LinkInv, FilesInv, StageInv, PastInv
  <2>5. SameBase(c, cat) /\ c \subseteq cat
    <3>1. c \subseteq cat /\ BaseRows(cat) = BaseRows(c)
      BY <2>1, <2>3 DEF SameReads
    <3>2. ASSUME NEW f, ~Synthetic(f.code) PROVE f \in c <=> f \in cat
      <4>1. f \in BaseRows(c) <=> f \in c
        BY <3>2 DEF BaseRows
      <4>2. f \in BaseRows(cat) <=> f \in cat
        BY <3>2 DEF BaseRows
      <4>3. QED
        BY <3>1, <4>1, <4>2
    <3>3. QED
      BY <2>4, <3>1, <3>2 DEF SameBase
  <2>6. /\ x \in DOMAIN csv
        /\ x \in DOMAIN inv <=> Kept(Mat(sources, tables, cat, csv[x]))
        /\ x \in DOMAIN past.inv <=> Kept(Mat(sources, tables, c, csv[x]))
    BY <2>1, <2>4 DEF Result, Remaining
  <2>7. /\ x \in DOMAIN inv => inv[x] = Final(sources, tables, cat, csv[x])
        /\ x \in DOMAIN past.inv => past.inv[x] = Final(sources, tables, c, csv[x])
    BY <2>4 DEF Result
  <2>8. IsParsed(csv[x])
    BY <2>4, <2>6, Parsed
  <2>9. \/ /\ Kept(Mat(sources, tables, c, csv[x])) <=> Kept(Mat(sources, tables, cat, csv[x]))
           /\ Final(sources, tables, c, csv[x]).input = Final(sources, tables, cat, csv[x]).input
        \/ /\ Kept(Mat(sources, tables, c, csv[x]))
           /\ PrelinkedByName(Final(sources, tables, c, csv[x]))
    BY <2>4, <2>5, <2>8, Relinked
  <2>10. QED
    BY <2>1, <2>6, <2>7, <2>9
<1>2. QED
  BY <1>1, Inductive, PTL

-----------------------------------------------------------------------------
(* Quantities: whole numbers of grains *)

\* Of a number without remainder, the part that is left after one division
\* still has none for the next.
LEMMA WholeParts ==
    ASSUME NEW a \in Int, NEW d \in Nat \ {0}, NEW m \in Nat \ {0}, a % (d * m) = 0
    PROVE  \E q \in Int : a = d * (m * q)
<1>1. PICK b : b = d * m
  OBVIOUS
<1>2. b \in Nat \ {0}
  BY <1>1
<1>3. PICK q \in Int : a = b * q
  <2>1. PICK y, r : y = a \div b /\ r = a % b
    OBVIOUS
  <2>2. y \in Int /\ a = b * y + r
    BY <1>2, <2>1
  <2>3. r = 0
    BY <1>1, <2>1
  <2>4. a = b * y
    BY <1>2, <2>2, <2>3
  <2>5. QED
    BY <2>2, <2>4
<1>4. b * q = d * (m * q)
  BY <1>1
<1>5. QED
  BY <1>3, <1>4

LEMMA DivideBack ==
    ASSUME NEW d \in Nat \ {0}, NEW x \in Int
    PROVE  (d * x) \div d = x /\ (d * x) % d = 0
<1>1. PICK a, y, r : a = d * x /\ y = a \div d /\ r = a % d
  OBVIOUS
<1>2. a \in Int
  BY <1>1
<1>3. y \in Int /\ r \in Int /\ a = d * y + r /\ 0 <= r /\ r < d
  BY <1>1, <1>2
<1>4. PICK z : z = x - y
  OBVIOUS
<1>5. z \in Int /\ d * z = r
  BY <1>1, <1>3, <1>4
<1>6. z >= 1 => d * z >= d
  BY <1>5
<1>7. z <= -1 => d * z <= -d
  BY <1>5
<1>8. z = 0
  BY <1>3, <1>5, <1>6, <1>7
<1>9. r = 0 /\ y = x
  BY <1>3, <1>4, <1>5, <1>8
<1>10. QED
  BY <1>1, <1>9

LEMMA CancelFactor ==
    ASSUME NEW x \in Int, NEW y \in Int, NEW d \in Nat \ {0}, x * d = y * d
    PROVE  x = y
<1>1. d * x = d * y
  OBVIOUS
<1>2. (d * x) \div d = x /\ (d * y) \div d = y
  BY DivideBack
<1>3. QED
  BY <1>1, <1>2

\* A conversion of a whole number of grains is exact, and leaves whole what the
\* conversions to come divide by.
LEMMA TimesFacts ==
    ASSUME NEW a \in Int, NEW f, f.num \in Nat \ {0}, f.den \in Nat \ {0}, NEW m \in Nat \ {0},
           a % (f.den * m) = 0
    PROVE  /\ Times(a, f) \in Int /\ Times(a, f) * f.den = a * f.num
           /\ Times(a, f) % m = 0
<1>1. PICK n, d : n = f.num /\ d = f.den
  OBVIOUS
<1>2. n \in Int /\ d \in Nat \ {0}
  BY <1>1
<1>3. PICK q \in Int : a = d * (m * q)
  <2>1. a % (d * m) = 0
    BY <1>1
  <2>2. QED
    BY <1>2, <2>1, WholeParts
<1>4. PICK p : p = n * q
  OBVIOUS
<1>5. p \in Int /\ m * p \in Int
  BY <1>2, <1>4
<1>6. a * n = d * (m * p)
  BY <1>2, <1>3, <1>4
<1>7. (a * n) \div d = m * p
  BY <1>2, <1>5, <1>6, DivideBack
<1>8. Times(a, f) = m * p
  BY <1>1, <1>7 DEF Times
<1>9. (m * p) % m = 0
  BY <1>5, DivideBack
<1>10. (m * p) * d = a * n
  BY <1>2, <1>5, <1>6
<1>11. QED
  BY <1>1, <1>5, <1>8, <1>9, <1>10

\* The quantity of an amount in some unit.
Quantity(amount, unit) == amount * UnitSize[unit]

LEMMA SizeFacts ==
    ASSUME NEW u \in DOMAIN UnitSize, NEW a \in Int
    PROVE  UnitSize[u] \in Int /\ Quantity(a, u) \in Int
<1>1. UnitSize[u] \in Int
  BY UnitAssumption
<1>2. PICK s : s = UnitSize[u]
  OBVIOUS
<1>3. a * s \in Int
  BY <1>1, <1>2
<1>4. QED
  BY <1>1, <1>2, <1>3 DEF Quantity

\* A right factor keeps it.
LEMMA RightKeeps ==
    ASSUME NEW f, NEW u, NEW v, Right(f, u, v), NEW a \in Int, NEW b \in Int,
           b * f.den = a * f.num
    PROVE  Quantity(b, v) = Quantity(a, u)
<1>1. PICK n, d : n = f.num /\ d = f.den
  OBVIOUS
<1>2. PICK s, t : s = UnitSize[u] /\ t = UnitSize[v]
  OBVIOUS
<1>3. n \in Int /\ d \in Nat \ {0} /\ s * d = t * n /\ b * d = a * n
  BY <1>1, <1>2 DEF Right
<1>4. s \in Int /\ t \in Int
  BY <1>2, SizeFacts DEF Right
<1>5. (b * t) * d = (a * s) * d
  <2>1. (b * t) * d = (b * d) * t
    BY <1>3, <1>4
  <2>2. (a * n) * t = a * (t * n)
    BY <1>3, <1>4
  <2>3. (a * s) * d = a * (s * d)
    BY <1>3, <1>4
  <2>4. QED
    BY <1>3, <2>1, <2>2, <2>3
<1>6. b * t \in Int /\ a * s \in Int
  BY <1>4
<1>7. b * t = a * s
  BY <1>3, <1>5, <1>6, CancelFactor
<1>8. QED
  BY <1>2, <1>7 DEF Quantity

\* What stands for the same unit has the same size.
LEMMA SameSize ==
    ASSUME NEW u, NEW v, Right(One, u, v), NEW a
    PROVE  UnitSize[u] = UnitSize[v] /\ Quantity(a, u) = Quantity(a, v)
<1>1. PICK s, t : s = UnitSize[u] /\ t = UnitSize[v]
  OBVIOUS
<1>2. s \in Int /\ t \in Int
  <2>1. u \in DOMAIN UnitSize /\ v \in DOMAIN UnitSize
    BY DEF Right
  <2>2. QED
    BY <1>1, <2>1, UnitAssumption
<1>3. One.num = 1 /\ One.den = 1
  BY DEF One
<1>4. s * 1 = t * 1
  BY <1>1, <1>3 DEF Right
<1>5. s = t
  BY <1>2, <1>4
<1>6. QED
  BY <1>1, <1>5 DEF Quantity

-----------------------------------------------------------------------------
(* Quantities: from the CSV to the prelinker *)

\* The exchange o of the CSV, converted or not.
Kin(o, e) ==
    /\ e.unit \in DOMAIN UnitSize /\ e.amount \in Int
    /\ Quantity(e.amount, e.unit) = Quantity(o.amount, o.unit)

\* ... between the flowmap and the migrations,
Mid(src, o, e) ==
    /\ DOMAIN e = Fields /\ Kin(o, e)
    /\ \A g \in MigrationFactors, h \in MatchFactors(src) : e.amount % (g.den * h.den) = 0

\* ... and before the match.
Late(src, o, e) ==
    /\ DOMAIN e = Fields /\ Kin(o, e) /\ UnitName(src, e.unit) = e.unit
    /\ \A h \in MatchFactors(src) : e.amount % h.den = 0

\* The factors of all tables are proper fractions.
LEMMA FactorsAreGood ==
    ASSUME NEW src \in SourceSets
    PROVE  /\ \A f \in FlowmapFactors(src) : f.den \in Nat \ {0}
           /\ \A g \in MigrationFactors : g.den \in Nat \ {0}
           /\ \A h \in MatchFactors(src) : h.den \in Nat \ {0}
<1>1. One.den \in Nat \ {0}
  BY DEF One
<1>2. \A i \in DOMAIN src.flowmap : Repaired(src.flowmap[i]).den \in Nat \ {0}
  BY FactorAssumption DEF Right
<1>3. \A i \in DOMAIN Tables(src).conv : Tables(src).conv[i].factor.den \in Nat \ {0}
  BY FactorAssumption DEF Right
<1>4. \A i \in DOMAIN Tables(src).bio : Tables(src).bio[i].conv.den \in Nat \ {0}
  BY FactorAssumption
<1>5. \A n \in DOMAIN Migrations : Migrations[n].factor.den \in Nat \ {0}
  BY MigrationAssumption
<1>6. QED
  BY <1>1, <1>2, <1>3, <1>4, <1>5 DEF FlowmapFactors, MigrationFactors, MatchFactors

\* The flowmap rescales by its repaired factor, once.
LEMMA FlowmappedKeeps ==
    ASSUME NEW src \in SourceSets, NEW i \in Inventories, NEW x \in DOMAIN i,
           NEW e, DOMAIN e = Fields, e.amount = i[x].amount, e.unit = i[x].unit
    PROVE  Mid(src, i[x], Flowmapped(src.flowmap, e))
<1>. DEFINE places == RuleFor(src.flowmap, e)
            first == CHOOSE p \in places : \A q \in places : p <= q
<1>1. PICK a : a = i[x].amount
  OBVIOUS
<1>2. a \in Int /\ i[x].unit \in DOMAIN UnitSize
  BY <1>1, UnitAssumption
<1>3. ASSUME NEW f \in FlowmapFactors(src), NEW g \in MigrationFactors, NEW h \in MatchFactors(src)
      PROVE  a % (f.den * (g.den * h.den)) = 0
  BY <1>1, GrainAssumption
<1>4. ASSUME NEW g \in MigrationFactors, NEW h \in MatchFactors(src)
      PROVE  g.den * h.den \in Nat \ {0}
  <2>1. PICK p, q : p = g.den /\ q = h.den
    OBVIOUS
  <2>2. p \in Nat \ {0} /\ q \in Nat \ {0}
    BY <2>1, FactorsAreGood
  <2>3. p * q \in Nat \ {0}
    BY <2>2
  <2>4. QED
    BY <2>1, <2>3
<1>5. CASE places = {}
  <2>1. Flowmapped(src.flowmap, e) = e
    BY <1>5 DEF Flowmapped
  <2>2. ASSUME NEW g \in MigrationFactors, NEW h \in MatchFactors(src)
        PROVE  a % (g.den * h.den) = 0
    <3>1. PICK m : m = g.den * h.den
      OBVIOUS
    <3>2. m \in Nat \ {0}
      BY <1>4, <3>1
    <3>3. One \in FlowmapFactors(src) /\ One.den = 1
      BY DEF FlowmapFactors, One
    <3>4. a % (1 * m) = 0
      BY <1>3, <3>1, <3>3
    <3>5. 1 * m = m
      BY <3>2
    <3>6. QED
      BY <3>1, <3>4, <3>5
  <2>3. QED
    BY <1>1, <1>2, <2>1, <2>2 DEF Mid, Kin
<1>6. CASE places # {}
  <2>1. places \in SUBSET Nat /\ places \subseteq DOMAIN src.flowmap
    <3>1. Entries(src.flowmap)
      BY SourceAssumption DEF Lists, Entries
    <3>2. QED
      BY <3>1 DEF RuleFor, Entries
  <2>2. PICK r : r = src.flowmap[first]
    OBVIOUS
  <2>3. PICK f : f = Repaired(r)
    OBVIOUS
  <2>4. PICK b : b = Times(a, f)
    OBVIOUS
  <2>5. PICK n : n = [e EXCEPT !.name = <<r.tname, "">>, !.unit = r.tunit, !.code = r.code, !.amount = b]
    OBVIOUS
  <2>6. Flowmapped(src.flowmap, e) = n
    BY <1>1, <1>6, <2>2, <2>3, <2>4, <2>5 DEF Flowmapped
  <2>. HIDE DEF places
  <2>7. first \in places
    BY <1>6, <2>1, LeastNumber
  <2>. HIDE DEF first
  <2>8. r.unit = e.unit
    BY <2>2, <2>7 DEF RuleFor, places
  <2>9. Right(f, r.unit, r.tunit) /\ f \in FlowmapFactors(src)
    BY <2>1, <2>2, <2>3, <2>7, FactorAssumption DEF FlowmapFactors
  <2>10. f.num \in Nat \ {0} /\ f.den \in Nat \ {0} /\ r.tunit \in DOMAIN UnitSize
    BY <2>9 DEF Right
  <2>11. ASSUME NEW g \in MigrationFactors, NEW h \in MatchFactors(src)
         PROVE  b \in Int /\ b * f.den = a * f.num /\ b % (g.den * h.den) = 0
    <3>1. PICK m : m = g.den * h.den
      OBVIOUS
    <3>2. m \in Nat \ {0} /\ a % (f.den * m) = 0
      BY <1>3, <1>4, <2>9, <3>1
    <3>3. Times(a, f) \in Int /\ Times(a, f) * f.den = a * f.num /\ Times(a, f) % m = 0
      BY <1>2, <2>10, <3>2, TimesFacts
    <3>4. QED
      BY <2>4, <3>1, <3>3
  <2>12. b \in Int /\ b * f.den = a * f.num
    <3>1. One \in MigrationFactors /\ One \in MatchFactors(src)
      BY DEF MigrationFactors, MatchFactors
    <3>2. QED
      BY <2>11, <3>1
  <2>13. Quantity(b, r.tunit) = Quantity(a, r.unit)
    BY <1>2, <2>9, <2>12, RightKeeps
  <2>14. DOMAIN n = Fields /\ n.unit = r.tunit /\ n.amount = b
    BY <2>5 DEF Fields
  <2>15. QED
    BY <1>1, <2>6, <2>8, <2>10, <2>11, <2>12, <2>13, <2>14 DEF Mid, Kin
<1>7. QED
  BY <1>5, <1>6

\* So do the normalisers: a spelling is one of the same unit, and a migration
\* rescales what is in the unit it migrates from.
LEMMA UnitSpelledKeeps ==
    ASSUME NEW src \in SourceSets, NEW o, NEW e, Mid(src, o, e)
    PROVE  /\ Mid(src, o, UnitSpelled(src, e))
           /\ UnitName(src, UnitSpelled(src, e).unit) = UnitSpelled(src, e).unit
<1>1. PICK u : u = UnitName(src, e.unit)
  OBVIOUS
<1>2. PICK f : f = [e EXCEPT !.unit = u]
  OBVIOUS
<1>3. DOMAIN f = Fields /\ f.unit = u /\ f.amount = e.amount
  BY <1>2 DEF Mid, Fields
<1>4. UnitSpelled(src, e) = f
  BY <1>1, <1>2 DEF UnitSpelled
<1>5. Right(One, e.unit, u) /\ UnitName(src, u) = u
  BY <1>1, FactorAssumption DEF Mid, Kin
<1>6. Quantity(e.amount, e.unit) = Quantity(e.amount, u)
  BY <1>5, SameSize
<1>7. u \in DOMAIN UnitSize
  BY <1>5 DEF Right
<1>8. QED
  BY <1>3, <1>4, <1>5, <1>6, <1>7 DEF Mid, Kin

LEMMA MigratedKeeps ==
    ASSUME NEW src \in SourceSets, NEW o, NEW e, Mid(src, o, e), UnitName(src, e.unit) = e.unit,
           e.name \in DOMAIN Migrations =>
             Right(Migrations[e.name].factor, e.unit, Migrations[e.name].unit)
    PROVE  Late(src, o, Migrated(src, e))
<1>1. CASE Migrated(src, e) = e
  <2>1. ASSUME NEW h \in MatchFactors(src) PROVE e.amount % h.den = 0
    <3>1. One \in MigrationFactors /\ One.den = 1
      BY DEF MigrationFactors, One
    <3>2. PICK d : d = h.den
      OBVIOUS
    <3>3. d \in Nat \ {0} /\ e.amount % (1 * d) = 0
      BY <3>1, <3>2, FactorsAreGood DEF Mid
    <3>4. 1 * d = d
      BY <3>3
    <3>5. QED
      BY <3>2, <3>3, <3>4
  <2>2. QED
    BY <1>1, <2>1 DEF Mid, Late
<1>2. CASE Migrated(src, e) # e
  <2>1. PICK to : to = Migrations[e.name]
    OBVIOUS
  <2>2. PICK b : b = Times(e.amount, to.factor)
    OBVIOUS
  <2>3. PICK n : n = [e EXCEPT !.name = to.name, !.unit = to.unit, !.amount = b]
    OBVIOUS
  <2>4. e.name \in DOMAIN Migrations /\ Migrated(src, e) = n
    <3>1. PICK g : g = [e EXCEPT !.name = to.name, !.unit = to.unit]
      OBVIOUS
    <3>2. g.amount = e.amount
      BY <3>1 DEF Mid, Fields
    <3>3. QED
      BY <1>2, <2>1, <2>2, <2>3, <3>1, <3>2 DEF Migrated
  <2>5. DOMAIN n = Fields /\ n.unit = to.unit /\ n.amount = b
    BY <2>3 DEF Mid, Fields
  <2>6. PICK f : f = to.factor
    OBVIOUS
  <2>7. Right(f, e.unit, to.unit) /\ f \in MigrationFactors /\ UnitName(src, to.unit) = to.unit
    BY <2>1, <2>4, <2>6, MigrationAssumption DEF MigrationFactors
  <2>8. f.num \in Nat \ {0} /\ f.den \in Nat \ {0} /\ to.unit \in DOMAIN UnitSize
    BY <2>7 DEF Right
  <2>9. PICK a : a = e.amount
    OBVIOUS
  <2>10. a \in Int
    BY <2>9 DEF Mid, Kin
  <2>11. ASSUME NEW h \in MatchFactors(src)
         PROVE  b \in Int /\ b * f.den = a * f.num /\ b % h.den = 0
    <3>1. PICK d : d = h.den
      OBVIOUS
    <3>2. d \in Nat \ {0} /\ a % (f.den * d) = 0
      BY <2>7, <2>9, <3>1, FactorsAreGood DEF Mid
    <3>3. Times(a, f) \in Int /\ Times(a, f) * f.den = a * f.num /\ Times(a, f) % d = 0
      BY <2>8, <2>10, <3>2, TimesFacts
    <3>4. QED
      BY <2>2, <2>6, <2>9, <3>1, <3>3
  <2>12. b \in Int /\ b * f.den = a * f.num
    <3>1. One \in MatchFactors(src)
      BY DEF MatchFactors
    <3>2. QED
      BY <2>11, <3>1
  <2>13. Quantity(b, to.unit) = Quantity(a, e.unit)
    BY <2>7, <2>10, <2>12, RightKeeps
  <2>14. QED
    BY <2>4, <2>5, <2>7, <2>8, <2>9, <2>11, <2>12, <2>13 DEF Late, Mid, Kin
<1>3. QED
  BY <1>1, <1>2

\* What changes neither unit nor amount keeps the quantity.
Untouched(e, f) == DOMAIN f = DOMAIN e /\ f.unit = e.unit /\ f.amount = e.amount

LEMMA CatsUntouched ==
    ASSUME NEW e, DOMAIN e = Fields
    PROVE  Untouched(e, InEcoinventCats(e)) /\ Untouched(e, WithoutUnspecified(e))
<1>1. ASSUME NEW v PROVE Untouched(e, [e EXCEPT !.cats = v])
  BY DEF Untouched, Fields
<1>2. \E v : InEcoinventCats(e) = [e EXCEPT !.cats = v]
  BY DEF InEcoinventCats, Fields
<1>3. \E v : WithoutUnspecified(e) = e \/ WithoutUnspecified(e) = [e EXCEPT !.cats = v]
  BY DEF WithoutUnspecified, Fields
<1>4. Untouched(e, e)
  BY DEF Untouched
<1>5. QED
  BY <1>1, <1>2, <1>3, <1>4

LEMMA NamesUntouched ==
    ASSUME NEW src, NEW e, DOMAIN e = Fields
    PROVE  Untouched(e, InEcoinventNames(src, e)) /\ Untouched(e, Stripped(e))
<1>1. ASSUME NEW v PROVE Untouched(e, [e EXCEPT !.name = v])
  BY DEF Untouched, Fields
<1>2. ASSUME NEW v, NEW w PROVE Untouched(e, [e EXCEPT !.spname = v, !.name = w])
  BY DEF Untouched, Fields
<1>3. Untouched(e, e)
  BY DEF Untouched
<1>4. Untouched(e, InEcoinventNames(src, e))
  BY <1>1, <1>3 DEF InEcoinventNames
<1>5. Untouched(e, Stripped(e))
  <2>1. CASE Stripped(e) = e
    BY <1>3, <2>1
  <2>2. CASE Stripped(e) # e
    <3>1. Stripped(e) = [e EXCEPT !.spname = IF e.spname = NoName THEN e.name ELSE e.spname,
                                  !.name = <<e.name[1], "">>]
      BY <2>2 DEF Stripped
    <3>2. PICK v, w : v = (IF e.spname = NoName THEN e.name ELSE e.spname) /\ w = <<e.name[1], "">>
      OBVIOUS
    <3>3. Stripped(e) = [e EXCEPT !.spname = v, !.name = w]
      BY <3>1, <3>2
    <3>4. Untouched(e, [e EXCEPT !.spname = v, !.name = w])
      BY <1>2
    <3>5. QED
      BY <3>3, <3>4
  <2>3. QED
    BY <2>1, <2>2
<1>6. QED
  BY <1>4, <1>5

LEMMA UntouchedIsKin ==
    ASSUME NEW src, NEW o, NEW e, NEW f, Untouched(e, f)
    PROVE  (Mid(src, o, e) => Mid(src, o, f)) /\ (Late(src, o, e) => Late(src, o, f))
BY DEF Untouched, Mid, Late, Kin

LEMMA PreparedKeeps ==
    ASSUME NEW src \in SourceSets, NEW i \in Inventories, NEW x \in DOMAIN i
    PROVE  /\ Kin(i[x], Snapshotted(i[x]))
           /\ Mid(src, i[x], Flowmapped(src.flowmap, Snapshotted(i[x])))
           /\ Late(src, i[x], Prepared(src, i[x]))
<1>1. PICK o : o = i[x]
  OBVIOUS
<1>2. IsParsed(o)
  BY <1>1, ParseAssumption
<1>3. PICK s : s = Snapshotted(o)
  OBVIOUS
<1>4. DOMAIN s = Fields /\ s.amount = o.amount /\ s.unit = o.unit
  BY <1>2, <1>3 DEF Snapshotted, IsParsed, Fields
<1>5. Kin(o, s)
  BY <1>1, <1>4, UnitAssumption DEF Kin
<1>6. PICK a : a = Flowmapped(src.flowmap, s)
  OBVIOUS
<1>7. Mid(src, o, a)
  BY <1>1, <1>4, <1>6, FlowmappedKeeps
<1>8. PICK b : b = UnitSpelled(src, a)
  OBVIOUS
<1>9. Mid(src, o, b) /\ UnitName(src, b.unit) = b.unit
  BY <1>7, <1>8, UnitSpelledKeeps
<1>10. PICK c : c = InEcoinventCats(b)
  OBVIOUS
<1>11. Untouched(b, c)
  BY <1>9, <1>10, CatsUntouched DEF Mid
<1>12. Mid(src, o, c) /\ UnitName(src, c.unit) = c.unit
  BY <1>9, <1>11, UntouchedIsKin DEF Untouched
<1>13. PICK d : d = InEcoinventNames(src, c)
  OBVIOUS
<1>14. Untouched(c, d)
  BY <1>12, <1>13, NamesUntouched DEF Mid
<1>15. Mid(src, o, d) /\ UnitName(src, d.unit) = d.unit
  BY <1>12, <1>14, UntouchedIsKin DEF Untouched
<1>16. d = BeforeMigration(src, i[x])
  BY <1>1, <1>3, <1>6, <1>8, <1>10, <1>13 DEF BeforeMigration
<1>17. d.name \in DOMAIN Migrations => Right(Migrations[d.name].factor, d.unit, Migrations[d.name].unit)
  BY <1>16, MigrationAssumption
<1>18. PICK m : m = Migrated(src, d)
  OBVIOUS
<1>19. Late(src, o, m)
  BY <1>15, <1>17, <1>18, MigratedKeeps
<1>20. PICK p : p = WithoutUnspecified(m)
  OBVIOUS
<1>21. Untouched(m, p)
  BY <1>19, <1>20, CatsUntouched DEF Late
<1>22. Late(src, o, p)
  BY <1>19, <1>21, UntouchedIsKin
<1>23. p = Prepared(src, o)
  BY <1>3, <1>6, <1>8, <1>10, <1>13, <1>18, <1>20 DEF Prepared, Normalised
<1>24. QED
  BY <1>1, <1>3, <1>5, <1>6, <1>7, <1>22, <1>23

-----------------------------------------------------------------------------
(* Quantities: the match *)

\* The base rows of a catalog are flows of the snapshots.
Rooted(c) == CatalogInv(c) /\ BaseRows(c) \subseteq AllFlows

LEMMA FoundByName ==
    ASSUME NEW c, NEW row, NEW bucket, NEW f \in ByName(c, row, bucket)
    PROVE  f.name = row.tname
<1>1. ASSUME NEW b, f \in ByNameIn(c, row, b) PROVE f.name = row.tname
  <2>. DEFINE hits == [db \in Range(Prefs(row)) |-> Named(c, db, row.tname, b)]
  <2>1. f \in FirstHit(Prefs(row), hits)
    BY <1>1 DEF ByNameIn
  <2>2. \A i \in DOMAIN Prefs(row) : hits[Prefs(row)[i]] = Named(c, Prefs(row)[i], row.tname, b)
    BY DEF Range
  <2>. HIDE DEF hits
  <2>3. PICK i \in DOMAIN Prefs(row) : f \in hits[Prefs(row)[i]]
    BY <2>1, PrefsFacts, FirstHitFacts
  <2>4. QED
    BY <2>2, <2>3 DEF Named
<1>2. QED
  BY <1>1 DEF ByName

\* A target has the unit of its flow, or the one the row was written for.
LEMMA TargetUnit ==
    ASSUME NEW c, Rooted(c), NEW row, PlainRow(row), NEW bucket, NEW g \in Target(c, row, bucket)
    PROVE  /\ g.unit \in TargetUnits(row) \cup {""}
           /\ \A f \in Get(c, g.db, g.code) : f.unit = g.unit /\ f \in AllFlows
<1>1. CatalogInv(c) /\ \A f \in c : ~Synthetic(f.code) => f \in AllFlows
  BY DEF Rooted, BaseRows
<1>2. ~Synthetic(row.code)
  BY PlainFacts DEF PlainRow
<1>3. ASSUME NEW f \in c, ~Synthetic(f.code), f.code = row.code \/ f.name = row.tname,
             g.db = f.db, g.code = f.code, g.unit = f.unit
      PROVE  /\ g.unit \in TargetUnits(row)
             /\ \A h \in Get(c, g.db, g.code) : h.unit = g.unit /\ h \in AllFlows
  <2>1. f \in AllFlows
    BY <1>1, <1>3
  <2>2. \A h \in Get(c, g.db, g.code) : h = f
    BY <1>1, <1>3 DEF Get, CatalogInv
  <2>3. QED
    BY <1>3, <2>1, <2>2 DEF TargetUnits
<1>4. CASE Pins(row)
  <2>1. g.db = row.db /\ g.code = row.code /\ g.unit = PinnedUnit(c, row)
    BY <1>4 DEF Target
  <2>2. CASE Get(c, row.db, row.code) = {}
    <3>1. g.unit = row.tunit
      BY <2>1, <2>2 DEF PinnedUnit
    <3>2. QED
      BY <2>1, <2>2, <3>1 DEF TargetUnits
  <2>3. CASE Get(c, row.db, row.code) # {}
    <3>1. PICK f : f = CHOOSE h \in Get(c, row.db, row.code) : TRUE
      OBVIOUS
    <3>2. f \in Get(c, row.db, row.code)
      BY <2>3, <3>1
    <3>3. g.unit = f.unit
      BY <2>1, <2>3, <3>1 DEF PinnedUnit
    <3>4. f \in c /\ f.db = row.db /\ f.code = row.code
      BY <3>2 DEF Get
    <3>5. QED
      BY <1>2, <1>3, <2>1, <3>3, <3>4
  <2>4. QED
    BY <2>2, <2>3
<1>5. CASE ~Pins(row) /\ ByUuid(c, row, bucket) # {}
  <2>1. PICK f : f = CHOOSE h \in ByUuid(c, row, bucket) : TRUE
    OBVIOUS
  <2>2. f \in ByUuid(c, row, bucket)
    BY <1>5, <2>1
  <2>3. f \in c /\ f.code = row.code
    BY <2>2, UuidFacts
  <2>4. g = [db |-> f.db, code |-> f.code, unit |-> f.unit]
    BY <1>5, <2>1 DEF Target
  <2>5. g.db = f.db /\ g.code = f.code /\ g.unit = f.unit
    BY <2>4
  <2>6. QED
    BY <1>2, <1>3, <2>3, <2>5
<1>6. CASE ~Pins(row) /\ ByUuid(c, row, bucket) = {} /\ ByName(c, row, bucket) # {}
  <2>1. PICK f : f = Smallest(ByName(c, row, bucket))
    OBVIOUS
  <2>2. f \in ByName(c, row, bucket) /\ ~Synthetic(f.code)
    BY <1>1, <1>6, <2>1, ByNameFacts, SmallestFacts
  <2>3. f \in c /\ f.name = row.tname
    BY <1>1, <2>2, ByNameFacts, FoundByName DEF Closed
  <2>4. g = [db |-> f.db, code |-> f.code, unit |-> f.unit]
    BY <1>6, <2>1 DEF Target
  <2>5. g.db = f.db /\ g.code = f.code /\ g.unit = f.unit
    BY <2>4
  <2>6. QED
    BY <1>3, <2>2, <2>3, <2>5
<1>7. QED
  BY <1>4, <1>5, <1>6 DEF Target

\* The global table leads from unit to unit.
LEMMA MultiplierIsRight ==
    ASSUME NEW src \in SourceSets, NEW u \in DOMAIN UnitSize, NEW v \in DOMAIN UnitSize,
           NEW f \in Multiplier(Tables(src), u, v)
    PROVE  Right(f, u, v) /\ f \in MatchFactors(src)
<1>1. PICK t : t = Tables(src)
  OBVIOUS
<1>2. PICK p, q : p = Canonical(t, u) /\ q = Canonical(t, v)
  OBVIOUS
<1>3. Right(One, u, p) /\ Right(One, v, q)
  BY <1>1, <1>2, FactorAssumption
<1>4. UnitSize[u] = UnitSize[p] /\ UnitSize[v] = UnitSize[q]
  BY <1>3, SameSize
<1>5. CASE p = q
  <2>1. f = One
    BY <1>1, <1>2, <1>5 DEF Multiplier
  <2>2. One.num = 1 /\ One.den = 1
    BY DEF One
  <2>3. Right(One, u, v)
    BY <1>4, <1>5, <2>2 DEF Right
  <2>4. QED
    BY <2>1, <2>3 DEF MatchFactors
<1>6. CASE p # q
  <2>1. PICK j \in DOMAIN t.conv : t.conv[j].from = p /\ t.conv[j].to = q /\ f = t.conv[j].factor
    BY <1>1, <1>2, <1>6 DEF Multiplier
  <2>2. Right(f, p, q)
    BY <1>1, <2>1, FactorAssumption
  <2>3. Right(f, u, v)
    BY <1>4, <2>2 DEF Right
  <2>4. QED
    BY <1>1, <2>1, <2>3 DEF MatchFactors
<1>7. QED
  BY <1>5, <1>6

\* The target and the factor a match takes, and what it makes of them.
ChosenTarget(c, e, k) == CHOOSE x \in Target(c, k.row, Bucket(e.cats)) : TRUE
ChosenFactor(t, c, e, k) ==
    CHOOSE x \in Factor(t, k.row, e.unit, ChosenTarget(c, e, k).unit) : TRUE

MatchWith(c, e, k, g, f) ==
    [e EXCEPT !.input = LinkTo(c, e, g), !.tier = k.row.tier, !.row = k.row, !.unitIn = e.unit,
              !.amount = IF f = One THEN e.amount ELSE Times(e.amount, f),
              !.unit = IF f = One \/ g.unit = "" THEN e.unit ELSE g.unit]

\* What the match with k leaves of e.
MatchIs(t, c, e, k, m) ==
    \E g, f :
      /\ g \in Target(c, k.row, Bucket(e.cats)) /\ f \in Factor(t, k.row, e.unit, g.unit)
      /\ m.row = k.row /\ m.tier = k.row.tier /\ m.unitIn = e.unit
      /\ m.input.db = g.db /\ Base(m.input.code) = g.code
      /\ m.amount = IF f = One THEN e.amount ELSE Times(e.amount, f)
      /\ m.unit = IF f = One \/ g.unit = "" THEN e.unit ELSE g.unit

LEMMA MatchLeaves ==
    ASSUME NEW t, PlainTable(t.bio), NEW c, CatalogInv(c), NEW e, DOMAIN e = Fields,
           NEW k \in BestCandidate(t, c, e)
    PROVE  MatchIs(t, c, e, k, MatchTo(t, c, e, k))
<1>1. PICK g : /\ Target(c, k.row, Bucket(e.cats)) = {g} /\ g.code \in PlainCodes
               /\ \/ Pins(k.row) /\ g.db = k.row.db /\ g.code = k.row.code
                  \/ \E f \in c : g.db = f.db /\ g.code = f.code /\ BucketFits(f, Bucket(e.cats))
  BY BestFacts
<1>2. Usable(t, c, e, k)
  BY BestFacts
<1>3. Factor(t, k.row, e.unit, g.unit) # {}
  BY <1>1, <1>2 DEF Usable
<1>4. ChosenTarget(c, e, k) = g
  BY <1>1 DEF ChosenTarget
<1>5. PICK f : f = ChosenFactor(t, c, e, k)
  OBVIOUS
<1>6. f \in Factor(t, k.row, e.unit, g.unit)
  BY <1>3, <1>4, <1>5 DEF ChosenFactor
<1>7. MatchTo(t, c, e, k) = MatchWith(c, e, k, ChosenTarget(c, e, k), ChosenFactor(t, c, e, k))
  BY Zenon DEF MatchTo, MatchWith, LinkTo, ChosenTarget, ChosenFactor
<1>8. PICK m : m = MatchWith(c, e, k, g, f)
  OBVIOUS
<1>9. /\ m.row = k.row /\ m.tier = k.row.tier /\ m.unitIn = e.unit /\ m.input = LinkTo(c, e, g)
      /\ m.amount = IF f = One THEN e.amount ELSE Times(e.amount, f)
      /\ m.unit = IF f = One \/ g.unit = "" THEN e.unit ELSE g.unit
  BY <1>8 DEF MatchWith, Fields
<1>10. m.input.db = g.db /\ Base(m.input.code) = g.code
  <2>1. g.code \in PlainCodes
    BY <1>1
  <2>2. LinkTo(c, e, g).db = g.db /\ Base(LinkTo(c, e, g).code) = g.code
    BY <2>1, LinkToFacts
  <2>3. QED
    BY <1>9, <2>2
<1>11. MatchIs(t, c, e, k, m)
  <2>1. g \in Target(c, k.row, Bucket(e.cats))
    BY <1>1
  <2>2. QED
    BY <1>6, <1>9, <1>10, <2>1, Zenon DEF MatchIs
<1>12. QED
  BY <1>4, <1>5, <1>7, <1>8, <1>11

\* What QuantityKept says of the exchange e that was made of o.
Foreign(src, t, e) ==
    /\ Multiplier(t, e.unitIn, e.unit) = {}
    /\ e.row.sunit # e.unitIn \/ Unrepaired(src, e.row)

Measured(c, e) == \A f \in Get(c, e.input.db, Base(e.input.code)) : e.unit = f.unit

Converted(src, t, c, o, e) ==
    \/ e.tier # 0 /\ Foreign(src, t, e)
    \/ Quantity(e.amount, e.unit) = Quantity(o.amount, o.unit) /\ (e.tier # 0 => Measured(c, e))

LEMMA MatchToKeeps ==
    ASSUME NEW src \in SourceSets, NEW t, t = Tables(src), NEW c, Rooted(c), NEW o, NEW e, Late(src, o, e),
           NEW k \in BestCandidate(t, c, e)
    PROVE  Converted(src, t, c, o, MatchTo(t, c, e, k))
<1>1. PlainTable(t.bio)
  BY TablesFacts
<1>2. CatalogInv(c) /\ DOMAIN e = Fields
  BY DEF Rooted, Late, Kin
<1>3. PlainRow(k.row) /\ \E n \in DOMAIN t.bio : k.row = t.bio[n]
  BY <1>1, <1>2, BestFacts
<1>4. PICK row, m : row = k.row /\ m = MatchTo(t, c, e, k)
  OBVIOUS
<1>5. PlainRow(row) /\ \E n \in DOMAIN t.bio : row = t.bio[n]
  BY <1>3, <1>4
<1>6. MatchIs(t, c, e, k, m)
  BY <1>1, <1>2, <1>4, MatchLeaves
<1>7. PICK g, f :
        /\ g \in Target(c, row, Bucket(e.cats)) /\ f \in Factor(t, row, e.unit, g.unit)
        /\ m.row = row /\ m.tier = row.tier /\ m.unitIn = e.unit
        /\ m.input.db = g.db /\ Base(m.input.code) = g.code
        /\ m.amount = IF f = One THEN e.amount ELSE Times(e.amount, f)
        /\ m.unit = IF f = One \/ g.unit = "" THEN e.unit ELSE g.unit
  BY <1>4, <1>6 DEF MatchIs
<1>8. e.unit \in DOMAIN UnitSize /\ e.amount \in Int /\ UnitName(src, e.unit) = e.unit
  BY DEF Late, Kin
<1>9. m.tier # 0
  <2>1. row.tier # 0
    BY <1>5 DEF PlainRow
  <2>2. QED
    BY <1>7, <2>1
<1>10. /\ g.unit \in TargetUnits(row) \cup {""}
       /\ \A h \in Get(c, g.db, g.code) : h.unit = g.unit /\ h \in AllFlows
  BY <1>5, <1>7, TargetUnit
<1>11. g.unit # "" => g.unit \in DOMAIN UnitSize
  <2>1. row.tunit \in DOMAIN UnitSize \cup {""}
    BY <1>5, FactorAssumption
  <2>2. \A h \in AllFlows : h.unit \in DOMAIN UnitSize
    BY UnitAssumption
  <2>3. QED
    BY <1>10, <2>1, <2>2 DEF TargetUnits
<1>12. Quantity(e.amount, e.unit) = Quantity(o.amount, o.unit)
  BY DEF Late, Kin
\* A factor that is right, and written for the unit of the exchange.
<1>13. ASSUME f # One, g.unit # "", Right(f, e.unit, g.unit), f \in MatchFactors(src)
       PROVE  Converted(src, t, c, o, m)
  <2>1. PICK a, b : a = e.amount /\ b = Times(e.amount, f)
    OBVIOUS
  <2>2. f.num \in Nat \ {0} /\ f.den \in Nat \ {0}
    BY <1>13 DEF Right
  <2>3. a \in Int /\ a % f.den = 0
    BY <1>8, <1>13, <2>1 DEF Late
  <2>4. f.den * 1 = f.den
    BY <2>2
  <2>5. a % (f.den * 1) = 0
    BY <2>3, <2>4
  <2>6. Times(a, f) \in Int /\ Times(a, f) * f.den = a * f.num
    BY <2>2, <2>3, <2>5, TimesFacts
  <2>7. Quantity(b, g.unit) = Quantity(a, e.unit)
    <3>1. b \in Int /\ b * f.den = a * f.num
      BY <2>1, <2>6
    <3>2. Right(f, e.unit, g.unit)
      BY <1>13
    <3>3. QED
      BY <2>3, <3>1, <3>2, RightKeeps
  <2>8. m.amount = b /\ m.unit = g.unit
    BY <1>7, <1>13, <2>1
  <2>9. Measured(c, m)
    BY <1>7, <1>10, <2>8 DEF Measured
  <2>10. QED
    BY <1>12, <2>1, <2>7, <2>8, <2>9 DEF Converted
\* The exchange is left as it is.
<1>14. ASSUME f = One, \A h \in Get(c, g.db, g.code) : h.unit = e.unit
       PROVE  Converted(src, t, c, o, m)
  <2>1. m.amount = e.amount /\ m.unit = e.unit
    BY <1>7, <1>14
  <2>2. Measured(c, m)
    BY <1>7, <1>14, <2>1 DEF Measured
  <2>3. QED
    BY <1>12, <2>1, <2>2 DEF Converted
<1>15. CASE g.unit = ""
  <2>1. f = One
    BY <1>7, <1>15 DEF Factor
  <2>2. \A h \in Get(c, g.db, g.code) : FALSE
    BY <1>10, <1>15, UnitAssumption
  <2>3. QED
    BY <1>4, <1>14, <2>1, <2>2
<1>16. CASE g.unit # "" /\ Multiplier(t, e.unit, g.unit) # {}
  <2>1. f \in Multiplier(t, e.unit, g.unit)
    BY <1>7, <1>16 DEF Factor
  <2>2. CASE f = One
    <3>1. \A h \in Get(c, g.db, g.code) : h.unit = e.unit
      BY <1>8, <1>10, <2>1, <2>2, FactorAssumption
    <3>2. QED
      BY <1>4, <1>14, <2>2, <3>1
  <2>3. CASE f # One
    <3>1. Right(f, e.unit, g.unit) /\ f \in MatchFactors(src)
      BY <1>8, <1>11, <1>16, <2>1, MultiplierIsRight
    <3>2. QED
      BY <1>4, <1>13, <1>16, <2>3, <3>1
  <2>4. QED
    BY <2>2, <2>3
<1>17. CASE g.unit # "" /\ Multiplier(t, e.unit, g.unit) = {}
  <2>1. f = row.conv /\ row.conv # One
    BY <1>7, <1>17 DEF Factor
  <2>2. m.unit = g.unit
    BY <1>7, <1>17, <2>1
  <2>3. CASE row.sunit # e.unit \/ Unrepaired(src, row)
    BY <1>4, <1>7, <1>9, <1>17, <2>2, <2>3 DEF Converted, Foreign
  <2>4. CASE row.sunit = e.unit /\ ~Unrepaired(src, row)
    <3>1. Right(f, e.unit, g.unit)
      BY <1>5, <1>10, <1>17, <2>1, <2>4, FactorAssumption
    <3>2. f \in MatchFactors(src)
      BY <1>5, <2>1 DEF MatchFactors
    <3>3. QED
      BY <1>4, <1>13, <1>17, <2>1, <3>1, <3>2
  <2>5. QED
    BY <2>3, <2>4
<1>18. QED
  BY <1>15, <1>16, <1>17

\* The prelinker touches neither unit nor amount, nor does the sweep.
LEMMA PrelinkedUntouched ==
    ASSUME NEW o, NEW e, Unlinked(o, e), NEW c, NEW db
    PROVE  Untouched(e, Prelinked(c, db, e))
<1>1. PICK s : s = Stripped(e)
  OBVIOUS
<1>2. DOMAIN e = Fields
  BY DEF Unlinked, Derived
<1>3. Untouched(e, s)
  BY <1>1, <1>2, NamesUntouched
<1>4. ASSUME NEW v PROVE Untouched(e, [s EXCEPT !.input = v])
  BY <1>2, <1>3 DEF Untouched, Fields
<1>5. CASE Prelinked(c, db, e) = s
  BY <1>3, <1>5
<1>6. CASE \E v : Prelinked(c, db, e) = [s EXCEPT !.input = v]
  BY <1>4, <1>6
<1>7. QED
  BY <1>1, <1>5, <1>6, PrelinkedIs

LEMMA SweepConverts ==
    ASSUME NEW src, NEW t, NEW c, NEW o, NEW p, NEW e, Sound(t, c, p, e), Converted(src, t, c, o, e)
    PROVE  Converted(src, t, c, o, Regionalised(e))
<1>1. CASE Regionalised(e) = e
  BY <1>1
<1>2. CASE Regionalised(e) # e
  <2>1. PICK r : /\ r \in Tokens /\ Regionalised(e) = [e EXCEPT !.input = Suffixed(e.input, r)]
    BY <1>2, RegionToken DEF Regionalised
  <2>2. PICK link : link = Suffixed(e.input, r)
    OBVIOUS
  <2>3. link.db = e.input.db /\ Base(link.code) = Base(e.input.code)
    BY <2>1, <2>2, SuffixedFacts DEF Sound
  <2>4. PICK a : a = [e EXCEPT !.input = link]
    OBVIOUS
  <2>5. /\ a.input = link /\ a.tier = e.tier /\ a.row = e.row /\ a.unit = e.unit
        /\ a.unitIn = e.unitIn /\ a.amount = e.amount
    BY <2>4 DEF Sound, Derived, Fields
  <2>6. Converted(src, t, c, o, a)
    BY <2>3, <2>5 DEF Converted, Foreign, Measured
  <2>7. QED
    BY <2>1, <2>2, <2>4, <2>6
<1>3. QED
  BY <1>1, <1>2

\* The whole way of an exchange.
LEMMA FinalKeeps ==
    ASSUME NEW src \in SourceSets, NEW i \in Inventories, NEW x \in DOMAIN i,
           NEW t, t = Tables(src), NEW c, Rooted(c)
    PROVE  /\ Late(src, i[x], Pre(src, c, i[x]))
           /\ Converted(src, t, c, i[x], Mat(src, t, c, i[x]))
           /\ Converted(src, t, c, i[x], Final(src, t, c, i[x]))
<1>1. PICK o : o = i[x]
  OBVIOUS
<1>2. IsParsed(o) /\ PlainTable(t.bio) /\ CatalogInv(c)
  BY <1>1, ParseAssumption, TablesFacts DEF Rooted
<1>3. PICK e : e = Pre(src, c, o)
  OBVIOUS
<1>4. Unlinked(o, Prepared(src, o)) /\ Sound(t, c, o, Mat(src, t, c, o))
  BY <1>2, FinalFacts
<1>5. Late(src, o, e)
  BY <1>1, <1>3, <1>4, PreparedKeeps, PrelinkedUntouched, UntouchedIsKin DEF Pre
<1>6. e.tier = 0
  <2>1. PrelinkDb(c) \in {Bio, Bio3}
    BY DEF PrelinkDb
  <2>2. QED
    BY <1>2, <1>3, <1>4, <2>1, PrelinkedFacts DEF Pre
<1>7. Converted(src, t, c, o, Mat(src, t, c, o))
  <2>1. CASE Matched(t, c, e) = e
    BY <1>3, <1>5, <1>6, <2>1 DEF Mat, Late, Kin, Converted
  <2>2. CASE \E k \in BestCandidate(t, c, e) : Matched(t, c, e) = MatchTo(t, c, e, k)
    BY <1>3, <1>5, <2>2, MatchToKeeps DEF Mat
  <2>3. QED
    BY <1>2, <2>1, <2>2, MatchedIs
<1>8. Converted(src, t, c, o, Final(src, t, c, o))
  BY <1>4, <1>7, SweepConverts DEF Final
<1>9. QED
  BY <1>1, <1>3, <1>5, <1>7, <1>8

\* Whoever wrote the catalog file, its base rows are flows of the snapshots.
RootInv == BaseRows(rows) \subseteq AllFlows /\ BaseRows(cat) \subseteq AllFlows

LEMMA CatalogsAreRooted == Spec => []RootInv
<1>1. Init => RootInv
  BY DEF Init, RootInv, BaseRows
<1>2. LinkInv /\ RootInv /\ [Next]_vars => RootInv'
  <2>. SUFFICES ASSUME LinkInv, RootInv, [Next]_vars PROVE RootInv'
    OBVIOUS
  <2>1. CASE BuildCatalog
    <3>1. rows' \subseteq AllFlows
      BY <2>1 DEF BuildCatalog, CatalogOf, AllFlows, LinkInv, FilesInv
    <3>2. QED
      BY <2>1, <3>1 DEF RootInv, BuildCatalog, BaseRows
  <2>2. CASE LoadCatalog
    BY <2>2 DEF RootInv, LoadCatalog, Stage
  <2>3. CASE Augment
    <3>1. BaseRows(Augmented(rows)) = BaseRows(rows)
      BY <2>3, AugmentFacts, UsedCodes DEF Augment, LinkInv, FilesInv
    <3>2. QED
      BY <2>3, <3>1 DEF RootInv, Augment
  <2>4. CASE UNCHANGED rows /\ cat' = {}
    BY <2>4 DEF RootInv, BaseRows
  <2>5. CASE UNCHANGED <<rows, cat>>
    BY <2>5 DEF RootInv
  <2>6. QED
    BY <2>1, <2>2, <2>3, <2>4, <2>5 DEF Next, BuildRegistry, BuildEfFlows, StartLink, Snapshot, ApplyFlowmap,
       NormaliseLabels, Prelink, Match, ApplySuffix, FinishLink, Stage, files, vars
<1>3. QED
  BY <1>1, <1>2, Inductive, PTL DEF Spec

\* Between flowmap, migrations and matcher an exchange is converted once, and
\* what the matcher linked is measured in the unit of its flow, unless the row
\* it used is for another unit or carries a factor only the applier repairs.
THEOREM QuantitiesHold == Spec => []QuantityKept
<1>1. LinkInv /\ RootInv => QuantityKept
  <2>. SUFFICES ASSUME LinkInv, RootInv, NEW x \in DOMAIN inv
                PROVE  \/ inv[x].tier # 0 /\ ForeignFactor(inv[x])
                       \/ /\ SameQuantity(x)
                          /\ inv[x].tier # 0 => \A f \in TargetOf(x) : inv[x].unit = f.unit
    BY DEF QuantityKept
  <2>1. FilesInv /\ StageInv /\ sources \in SourceSets /\ csv \in Inventories /\ Rooted(cat)
    BY DEF LinkInv, FilesInv, RootInv, Rooted
  <2>2. pc # "idle" /\ x \in DOMAIN csv
    BY <2>1, SoundNow DEF StageInv
  <2>3. tables = Tables(sources) /\ IsParsed(csv[x])
    BY <2>1, <2>2, Plain, Parsed
  <2>4. PICK o, e : o = csv[x] /\ e = inv[x]
    OBVIOUS
  <2>5. SUFFICES Converted(sources, tables, cat, o, e)
    BY <2>4 DEF Converted, Foreign, ForeignFactor, Measured, SameQuantity, Quantity, TargetOf, Base
  <2>6. ASSUME Kin(o, e), e.tier = 0 PROVE Converted(sources, tables, cat, o, e)
    BY <2>6 DEF Kin, Converted
  <2>7. CASE pc = "parsed"
    BY <2>1, <2>3, <2>4, <2>7 DEF StageInv, IsParsed, Converted
  <2>8. CASE pc = "snapshotted"
    <3>1. e = Snapshotted(csv[x])
      BY <2>1, <2>2, <2>4, <2>8 DEF StageInv
    <3>2. Kin(o, e) /\ e.tier = 0
      BY <2>1, <2>2, <2>3, <2>4, <3>1, PreparedKeeps, SnapshottedFacts DEF Unlinked
    <3>3. QED
      BY <2>6, <3>2
  <2>9. CASE pc = "mapped"
    <3>1. e = Flowmapped(sources.flowmap, Snapshotted(csv[x]))
      BY <2>1, <2>2, <2>4, <2>9 DEF StageInv
    <3>2. Kin(o, e) /\ e.tier = 0
      BY <2>1, <2>2, <2>3, <2>4, <3>1, PreparedKeeps, MappedFacts DEF Unlinked, Mid
    <3>3. QED
      BY <2>6, <3>2
  <2>10. CASE pc \in {"normalised", "loaded"}
    <3>1. e = Prepared(sources, csv[x])
      BY <2>1, <2>2, <2>4, <2>10 DEF StageInv
    <3>2. Kin(o, e) /\ e.tier = 0
      BY <2>1, <2>2, <2>3, <2>4, <3>1, PreparedKeeps, PreparedFacts DEF Unlinked, Late
    <3>3. QED
      BY <2>6, <3>2
  <2>11. CASE pc = "prelinked"
    <3>1. e = Pre(sources, cat, csv[x])
      BY <2>1, <2>2, <2>4, <2>11 DEF StageInv
    <3>2. Kin(o, e)
      BY <2>1, <2>2, <2>3, <2>4, <3>1, FinalKeeps DEF Late
    <3>3. e.tier = 0
      <4>1. PrelinkDb(cat) \in {Bio, Bio3}
        BY DEF PrelinkDb
      <4>2. QED
        BY <2>1, <2>3, <3>1, <4>1, PreparedFacts, PrelinkedFacts DEF Pre, Rooted
    <3>4. QED
      BY <2>6, <3>2, <3>3
  <2>12. CASE pc = "matched"
    <3>1. e = Mat(sources, tables, cat, csv[x])
      BY <2>1, <2>4, <2>12 DEF StageInv
    <3>2. QED
      BY <2>1, <2>2, <2>3, <2>4, <3>1, FinalKeeps
  <2>13. CASE pc \in {"suffixed", "augmented"}
    <3>1. e = Final(sources, tables, cat, csv[x])
      BY <2>1, <2>4, <2>13 DEF StageInv, Result
    <3>2. QED
      BY <2>1, <2>2, <2>3, <2>4, <3>1, FinalKeeps
  <2>14. QED
    BY <2>1, <2>2, <2>7, <2>8, <2>9, <2>10, <2>11, <2>12, <2>13 DEF FilesInv
<1>2. QED
  BY <1>1, Inductive, CatalogsAreRooted, PTL

=============================================================================
