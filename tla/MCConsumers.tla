------------------------------ MODULE MCConsumers ------------------------------
(* A catalog of six entries and two reference sheets, after any frame of
   MCEmitChain; for the export, two methods of which one or both correct. *)
EXTENDS Consumers, MCEmitChain

Entry(id, type, name, code, label) ==
    [id |-> id, type |-> type, name |-> name, code |-> code, label |-> label]

Duck == <<0, 8110, 0>>
Rice(suffix) == <<0, 9341, suffix>>

\* 13 and 14 are storage twins, 14 a product nobody makes; an activity carries
\* the code of its product; the orchard (20) is of no scoreable type.
MCEntries ==
    <<Entry(1, "process", "rice", <<2, 9341, 0>>, Blank),
      Entry(3, "multifunctional", "duck at plant", Duck, Blank),
      Entry(13, "product", "duck", Duck, "Ambient (long)"),
      Entry(14, "product", "duck frozen", Duck, "Frozen"),
      Entry(15, "product", "rice", Rice(1), Blank),
      Entry(20, "process waste", "rice", Rice(2), Blank)>>

MCWithin ==
    {<<"duck", n>> : n \in {"duck", "duck at plant", "duck frozen"}}
    \cup {<<n, n>> : n \in {"rice", "duck at plant", "duck frozen"}}
    \cup {<<"at plant", "duck at plant">>}

MCWidth == [rice |-> 4, duck |-> 4] @@ ("duck at plant" :> 13) @@ ("duck frozen" :> 11)

Ref(agb, ciqual, lci, storage) ==
    [agb |-> agb, ciqual |-> ciqual, lci |-> lci, storage |-> storage, corrected |-> FALSE]

ByCodes ==
    <<Ref(Duck, Duck, "duck", "Glace"),
      [Ref(Duck, Duck, "duck", "Ambiant") EXCEPT !.corrected = TRUE],
      Ref(Duck, Duck, "duck frozen", "Congele"),
      Ref(Rice(1), Rice(0), "rice", "Ambiant"),
      Ref(Rice(2), Rice(0), Blank, "Ambiant"),
      Ref(Duck, Blank, "at plant", "Frais")>>

ByNames ==
    <<Ref(Blank, Duck, Blank, "Frais"),
      Ref(Blank, Blank, "duck", "Frais"),
      Ref(Blank, Blank, "at plant", "Frais"),
      Ref(Blank, Blank, "rice", "Frais"),
      Ref(Duck, Duck, "duck frozen", "Congele"),
      Ref(Duck, Duck, "duck at plant", "Congele")>>

Job(sheet, mode, first, workers) ==
    [sheet |-> sheet, mode |-> mode, first |-> first, workers |-> workers, registered |-> TRUE]

MCOptions ==
    {Job(ByCodes, "all", 9, 1), Job(ByCodes, "all", 9, 2), Job(ByCodes, "all", 2, 2),
     Job(ByNames, "all", 9, 4), Job(ByNames, "exact_name", 9, 1),
     [Job(ByNames, "all", 1, 1) EXCEPT !.registered = FALSE]}

\* Method 2 has no CF for flow 22; column 4 is a split, and 6 and 16 none at all.
MCCharacterised == <<{21, 22}, {21}>>
MCCorrections == {<<{1, 4, 8}, {}>>, <<{1, 3, 4}, {3, 6}>>}
=============================================================================
