----------------------------- MODULE OverridePlan -----------------------------
(***************************************************************************)
(* From a dds-set-parameter command to the amounts of the linked link.    *)
(* The process parameters of a SimaPro export are joined to the emitted    *)
(* datasets, commands keep override rows in source/parameter_overrides.csv *)
(* and every link folds that file into the graph: rows become one          *)
(* environment per process, and the exchanges whose formula depends on an  *)
(* overridden parameter are rescaled.                                      *)
(*                                                                         *)
(* An amount is its scale (what the transforms multiplied it by) times the *)
(* value of its formula, in integers: the ratio of two evaluations is      *)
(* exact, the rounding of floats is left out.                              *)
(***************************************************************************)
EXTENDS Integers, Sequences, Functions

CONSTANTS
    Process,      \* codes of datasets
    Synthetic,    \* those that are uuid4s, made up by the export
    Input,        \* normalised names of input parameters
    Calculated,   \* normalised names of calculated parameters
    Spelling,     \* lower-cased names a user may type
    Norm,         \* _norm_by_user_name, a function on the known spellings
    Formula,
    Refs,         \* the names a formula mentions
    Value(_, _),  \* its value in an environment, or NonFinite
    NonFinite,    \* no number: a division by zero
    Global,       \* the scope "*"
    None,         \* no identifier, no parent, no override, no formula
    Exports,      \* what the export hands to the extractor
    Amount,       \* the values a command may set
    MaxCommands   \* bound: the set and clear commands of a behaviour

ASSUME ConstantsAssumption ==
    /\ Synthetic \subseteq Process /\ Global \notin Process
    /\ None \notin Process \cup Spelling \cup Formula \cup Int \cup {Global}
    /\ NonFinite \notin Int
    /\ DOMAIN Norm \subseteq Spelling
    /\ \A s \in DOMAIN Norm : Norm[s] \in Input \cup Calculated
    /\ Refs \in [Formula -> SUBSET (Input \cup Calculated)]
    /\ Amount \subseteq Int /\ MaxCommands \in Nat

VARIABLES
    export,     \* [blocks, data]: the process blocks and the datasets
    params,     \* the parameter rows, one record per mirrored block
    rows,       \* parameter_overrides.csv; << >> when there is none
    partial,    \* parameter_overrides.csv.partial
    pending,    \* the rows the command in progress is writing
    pc,         \* "parse", "refused", "idle" or "save"
    clock,      \* the commands so far; the set_at of the next row follows
    confirmed,  \* the rows a command has reported as saved, not cleared since
    link        \* the rows the last link has read and what it made of them

store == <<rows, partial, pending, clock, confirmed>>
vars == <<export, params, store, pc, link>>

Scope == Process \cup {Global}
Row == [name : Spelling, scope : Scope, value : Amount, at : 1..MaxCommands]
RowKey(r) == <<r.name, r.scope>>

-----------------------------------------------------------------------------
(* Joining parameters to datasets *)

\* The elements of a sequence that are in S, in their order.  Loops are
\* recursive functions here, which proofs can take apart.
Subsequence(s, S) ==
    LET kept[i \in 0..Len(s)] ==
          IF i = 0 THEN << >>
          ELSE IF s[i] \in S THEN Append(kept[i - 1], s[i]) ELSE kept[i - 1]
    IN kept[Len(s)]

Parents(E) == Subsequence(E.data, {d \in Range(E.data) : d.parent = None})
ChildrenOf(E, c) == {d \in Range(E.data) : d.parent = c}

\* A block carries the identifier of its dataset, or none and the export
\* made the code of the dataset up.
Paired(b, d) == IF b.id # None THEN b.id = d.code ELSE d.code \in Synthetic

Joinable(E) ==
    /\ Len(Parents(E)) = Len(E.blocks)
    /\ \A i \in DOMAIN E.blocks : Paired(E.blocks[i], Parents(E)[i])

\* The rows of a block, under the code of its dataset and of each child.
Rows(E) ==
    UNION {LET c == Parents(E)[i].code IN
             {[code |-> c, block |-> E.blocks[i], parent |-> None]}
             \cup {[code |-> d.code, block |-> E.blocks[i], parent |-> c] :
                      d \in ChildrenOf(E, c)} :
             i \in DOMAIN E.blocks}

Extract ==
    /\ pc = "parse" /\ Joinable(export)
    /\ params' = Rows(export)
    /\ pc' = "idle"
    /\ UNCHANGED <<export, store, link>>

RefuseToJoin ==
    /\ pc = "parse" /\ ~Joinable(export)
    /\ pc' = "refused"
    /\ UNCHANGED <<export, params, store, link>>

-----------------------------------------------------------------------------
(* The plan: which value a parameter of a process takes.  P is the          *)
(* "parameters" of a ParameterReevaluator.                                  *)

BlockOf(P, c) == (CHOOSE p \in P : p.code = c).block
Defining(P, n) == {p.code : p \in {q \in P : n \in DOMAIN q.block.given}}
MultifunctionalChildren(P, c) == {p.code : p \in {q \in P : q.parent = c}}

\* resolve_name and the scope check of plan
Applicable(P, r) ==
    /\ r.name \in DOMAIN Norm
    /\ Norm[r.name] \in Input
    /\ r.scope = Global \/ r.scope \in Defining(P, Norm[r.name])

\* Tier 0 is "*", tier 1 a parent's row for its children, tier 2 the scope.
Codes(P, tier, r) ==
    LET defining == Defining(P, Norm[r.name]) IN
    {c \in Process :
        \/ tier = 0 /\ r.scope = Global /\ c \in defining
        \/ tier = 1 /\ r.scope # Global /\ c \in MultifunctionalChildren(P, r.scope) \cap defining
        \/ tier = 2 /\ c = r.scope}

Targets(P, r) == UNION {Codes(P, tier, r) : tier \in 0..2}

Written(P, plan, tier, r) ==
    [c \in Process |-> [n \in Input |->
        IF c \in Codes(P, tier, r) /\ n = Norm[r.name] THEN r.value ELSE plan[c][n]]]

\* The rows of one tier, in the order of the file, over what is planned.
Overlay(P, plan, tier, rs) ==
    LET over[i \in 0..Len(rs)] ==
          IF i = 0 THEN plan ELSE Written(P, over[i - 1], tier, rs[i])
    IN over[Len(rs)]

Unset == [n \in Input |-> None]
Blank == [c \in Process |-> Unset]
Plan(P, rs) == Overlay(P, Overlay(P, Overlay(P, Blank, 0, rs), 1, rs), 2, rs)
Overridden(plan, c) == {n \in Input : plan[c][n] # None}
Planned(plan) == {c \in Process : Overridden(plan, c) # {}}

-----------------------------------------------------------------------------
(* Re-evaluating a process *)

\* A formula is evaluated on the names it mentions.
Evaluate(f, e) == Value(f, [n \in Refs[f] \cap DOMAIN e |-> e[n]])

Given(b, over) ==
    [n \in DOMAIN b.given |-> IF over[n] # None THEN over[n] ELSE b.given[n]]

WithCalculated(e, k) ==
    [n \in DOMAIN e \cup {k.name} |-> IF n = k.name THEN Evaluate(k.formula, e) ELSE e[n]]

\* The calculated parameters of a block stand in the order ParameterSet
\* evaluates them in, each after those its formula mentions.
Environment(b, over) ==
    LET env[i \in 0..Len(b.calcs)] ==
          IF i = 0 THEN Given(b, over) ELSE WithCalculated(env[i - 1], b.calcs[i])
    IN env[Len(b.calcs)]

References(f, names) == Refs[f] \cap names # {}

Grown(b, names) ==
    names \cup {k.name : k \in {j \in Range(b.calcs) : References(j.formula, names)}}

Influenced(b, names) ==
    LET closure[i \in 0..Len(b.calcs)] ==
          IF i = 0 THEN names ELSE Grown(b, closure[i - 1])
    IN closure[Len(b.calcs)]

Touched(d, names) ==
    {x \in DOMAIN d.exchanges :
        d.exchanges[x].formula # None /\ References(d.exchanges[x].formula, names)}

Uses(P, d, plan) == Touched(d, Influenced(BlockOf(P, d.code), Overridden(plan, d.code)))

\* What the transforms and the matcher left before any override.
LinkedAmount(E, d, x) ==
    IF d.exchanges[x].formula = None THEN d.exchanges[x].scale
    ELSE d.exchanges[x].scale *
         Evaluate(d.exchanges[x].formula, Environment(E.blocks[d.from], Unset))

Evaluated(P, d, x, over) ==
    Evaluate(d.exchanges[x].formula, Environment(BlockOf(P, d.code), over))

\* Without a baseline there is no scale: the exchange keeps its amount.
Unpatchable(P, d, x) == Evaluated(P, d, x, Unset) = 0

Quotient(a, b) == IF b > 0 THEN a \div b ELSE (-a) \div (-b)

Ratio(E, P, d, x, plan) ==
    IF Unpatchable(P, d, x) THEN LinkedAmount(E, d, x)
    ELSE Quotient(LinkedAmount(E, d, x) * Evaluated(P, d, x, plan[d.code]),
                  Evaluated(P, d, x, Unset))

NewAmount(E, P, d, x, plan) ==
    IF d.code \in Planned(plan) /\ x \in Uses(P, d, plan) THEN Ratio(E, P, d, x, plan)
    ELSE LinkedAmount(E, d, x)

\* ratio_patch raises: an unknown row, or a result that is no number in a
\* calculated parameter or in an exchange that depends on an override.
Raises(E, P, rs) ==
    \/ \E r \in Range(rs) : ~Applicable(P, r)
    \/ \E c \in Planned(Plan(P, rs)) :
         \E v \in Range(Environment(BlockOf(P, c), Plan(P, rs)[c])) : v \notin Int
    \/ \E d \in Range(E.data) :
         /\ d.code \in Planned(Plan(P, rs))
         /\ \E x \in Uses(P, d, Plan(P, rs)) :
              Evaluated(P, d, x, Plan(P, rs)[d.code]) \notin Int

Patched(E, P, rs) == [i \in DOMAIN E.data |->
    [x \in DOMAIN E.data[i].exchanges |-> NewAmount(E, P, E.data[i], x, Plan(P, rs))]]

\* The exchanges that are reported as left unchanged.
Unpatched(E, P, rs) == UNION {{<<i, x>> : x \in
    {y \in Uses(P, E.data[i], Plan(P, rs)) :
        /\ E.data[i].code \in Planned(Plan(P, rs))
        /\ Unpatchable(P, E.data[i], y)
        /\ Evaluated(P, E.data[i], y, Plan(P, rs)[E.data[i].code]) # 0}} : i \in DOMAIN E.data}

\* Mutant: a use through a calculated parameter is not seen.
UnusedDirectly(E, P, rs) == {s \in {r.name : r \in Range(rs)} :
    \A r \in Range(rs) : r.name = s =>
        \A d \in Range(E.data) : d.code \in Targets(P, r) => Touched(d, {Norm[s]}) = {}}

\* The names that are reported as not referenced by any formula.
Unused(E, P, rs) == {s \in {r.name : r \in Range(rs)} :
    \A r \in Range(rs) : r.name = s =>
        \A d \in Range(E.data) : d.code \in Targets(P, r) =>
            Touched(d, Influenced(BlockOf(P, d.code), {Norm[s]})) = {}}

\* What bw_simapro_csv hands over: every dataset is of a block and has its
\* identifier, or a uuid4 if it has none; a child has the block of its parent;
\* and the amounts are numbers.  Of the order, that the export keeps it (as
\* far as nothing is missing) where no identifier could show the contrary.
WellFormed(E) ==
    /\ E.blocks \in Seq(Range(E.blocks)) /\ E.data \in Seq(Range(E.data))
    /\ \A b \in Range(E.blocks) :
         /\ b.id \notin Synthetic
         /\ DOMAIN b.given \subseteq Input
         /\ b.calcs \in Seq([name : Calculated, formula : Formula])
    /\ \A i, j \in DOMAIN E.blocks :
         E.blocks[i].id = E.blocks[j].id => i = j \/ E.blocks[i].id = None
    /\ \A d \in Range(E.data) :
         /\ d.code \in Process /\ d.from \in DOMAIN E.blocks
         /\ d.parent = None => Paired(E.blocks[d.from], d)
         /\ d.parent # None => \E p \in Range(E.data) :
              p.parent = None /\ p.code = d.parent /\ p.from = d.from
         /\ \A e \in Range(E.data) : e.code = d.code => e.from = d.from /\ e.parent = d.parent
         /\ \A x \in DOMAIN d.exchanges :
              /\ d.exchanges[x].scale \in Int
              /\ d.exchanges[x].formula \in Formula \cup {None}
              /\ d.exchanges[x].formula # None =>
                   Evaluate(d.exchanges[x].formula, Environment(E.blocks[d.from], Unset)) \in Int
    /\ Len(Parents(E)) = Len(E.blocks) =>
         \A i, j \in DOMAIN Parents(E) :
             i < j /\ {Parents(E)[i].code, Parents(E)[j].code} \subseteq Synthetic
                => Parents(E)[i].from < Parents(E)[j].from

ASSUME ExportAssumption == \A E \in Exports : WellFormed(E)

-----------------------------------------------------------------------------
(* The commands *)

Init ==
    /\ export \in Exports
    /\ params = {} /\ pc = "parse"
    /\ rows = << >> /\ partial = << >> /\ pending = << >>
    /\ clock = 0 /\ confirmed = {}
    /\ link = None

\* Mutant: a row is replaced where it stands.
UpsertInPlace(rs, r) ==
    IF \E i \in DOMAIN rs : RowKey(rs[i]) = RowKey(r)
    THEN [i \in DOMAIN rs |-> IF RowKey(rs[i]) = RowKey(r) THEN r ELSE rs[i]]
    ELSE Append(rs, r)

Upsert(rs, r) == Append(Subsequence(rs, {x \in Range(rs) : RowKey(x) # RowKey(r)}), r)

\* Mutant: the name and the scope are validated, the effect is not.
AcceptedUnseen(r) == Applicable(params, r)

\* The preview that comes before anything is saved knows this row only.
Accepted(r) == ~Raises(export, params, <<r>>)

\* dds-set-parameter up to the write; the check for a linked cache and the
\* rescore that follows are commands of WhatIf.
Set(name, scope, value) ==
    LET r == [name |-> name, scope |-> scope, value |-> value, at |-> clock + 1] IN
    /\ pc = "idle" /\ clock < MaxCommands
    /\ Accepted(r)
    /\ clock' = clock + 1
    /\ pending' = Upsert(rows, r)
    /\ pc' = "save"
    /\ UNCHANGED <<export, params, rows, partial, confirmed, link>>

Matches(r, name, scope) ==
    /\ name = None \/ r.name = name
    /\ scope = None \/ r.scope = scope

\* dds-clear-parameters; an empty store has no file.
Clear(name, scope) ==
    LET kept == Subsequence(rows, {r \in Range(rows) : ~Matches(r, name, scope)}) IN
    /\ pc = "idle" /\ rows # << >> /\ clock < MaxCommands
    /\ clock' = clock + 1
    /\ confirmed' = {r \in confirmed : ~Matches(r, name, scope)}
    /\ \/ /\ kept # << >>
          /\ pending' = kept /\ pc' = "save"
          /\ UNCHANGED rows
       \/ /\ kept = << >>
          /\ rows' = << >>
          /\ UNCHANGED <<pending, pc>>
    /\ UNCHANGED <<export, params, partial, link>>

\* Mutant: the file itself is opened for writing.
WriteInPlace ==
    /\ pc = "save" /\ partial # pending
    /\ partial' = Append(partial, pending[Len(partial) + 1])
    /\ rows' = partial'
    /\ UNCHANGED <<export, params, pending, pc, clock, confirmed, link>>

WriteRow ==
    /\ pc = "save" /\ partial # pending
    /\ partial' = Append(partial, pending[Len(partial) + 1])
    /\ UNCHANGED <<export, params, rows, pending, pc, clock, confirmed, link>>

\* os.replace, and the report of the command: what it set is saved.
Replace ==
    LET new == {r \in Range(pending) : r.at = clock} IN
    /\ pc = "save" /\ partial = pending
    /\ rows' = pending
    /\ confirmed' = {r \in confirmed : \A q \in new : RowKey(r) # RowKey(q)} \cup new
    /\ partial' = << >> /\ pending' = << >> /\ pc' = "idle"
    /\ UNCHANGED <<export, params, clock, link>>

\* The command is killed or runs into an error; nobody reads what it leaves
\* in the .partial file, and the next save truncates it.
Die ==
    /\ pc = "save"
    /\ partial' = << >> /\ pending' = << >> /\ pc' = "idle"
    /\ UNCHANGED <<export, params, rows, clock, confirmed, link>>

\* ParameterOverridesApplier.apply, in a full link and in a fast replay.
Link ==
    /\ pc = "idle"
    /\ IF Raises(export, params, rows)
       THEN link' = [of |-> rows, raised |-> TRUE]
       ELSE link' = [of |-> rows, raised |-> FALSE,
                     amounts |-> Patched(export, params, rows),
                     unpatched |-> Unpatched(export, params, rows),
                     unused |-> Unused(export, params, rows)]
    /\ UNCHANGED <<export, params, store, pc>>

Next ==
    \/ Extract \/ RefuseToJoin
    \/ \E name \in Spelling, scope \in Scope, value \in Amount : Set(name, scope, value)
    \/ \E name \in Spelling \cup {None}, scope \in Scope \cup {None} : Clear(name, scope)
    \/ WriteRow \/ Replace \/ Die
    \/ Link

Spec == Init /\ [][Next]_vars

-----------------------------------------------------------------------------
(* Properties *)

Dataset == DOMAIN export.data
Linked == link # None /\ ~link.raised
Broken == link # None /\ link.raised

\* What a user who has typed the commands of rs expects of parameter n of a
\* dataset: the most specific row, and the latest of those; a row of a
\* multifunctional parent is more specific than "*".
Specificity(d, r) == IF r.scope = d.code THEN 2 ELSE IF r.scope = d.parent THEN 1 ELSE 0
Beats(d, r, q) == \/ Specificity(d, r) > Specificity(d, q)
                  \/ Specificity(d, r) = Specificity(d, q) /\ r.at > q.at
Asked(E, d, rs) == [n \in Input |->
    LET for == {r \in Range(rs) : Norm[r.name] = n /\ r.scope \in {Global, d.code, d.parent}} IN
    IF for = {} \/ n \notin DOMAIN E.blocks[d.from].given THEN None
    ELSE (CHOOSE r \in for : \A q \in for \ {r} : Beats(d, r, q)).value]

\* A linked amount is the scale of the exchange times its formula, evaluated
\* from scratch with the values asked for.
Reference(E, d, x, rs) ==
    IF d.exchanges[x].formula = None THEN d.exchanges[x].scale
    ELSE d.exchanges[x].scale *
         Evaluate(d.exchanges[x].formula, Environment(E.blocks[d.from], Asked(E, d, rs)))

\* After a link every amount of the graph is the one the commands ask for,
\* whatever their order, spellings and scopes, however long the chain of
\* calculated parameters, and whichever block the export says a dataset is
\* of; an exchange that is not is reported (ratio_patch).
AmountsAreAsked ==
    Linked =>
        \A i \in Dataset : \A x \in DOMAIN export.data[i].exchanges :
            \/ link.amounts[i][x] = Reference(export, export.data[i], x, link.of)
            \/ <<i, x>> \in link.unpatched

\* A row that a command has reported as saved stays in the file until it is
\* cleared or set again, whichever later commands are killed (save).
ConfirmedSurvives == confirmed \subseteq Range(rows)

\* A link raises only when two rows meet on one dataset: one row alone has
\* been through the preview before it was saved (execute).
FailureNeedsTwo ==
    Broken =>
        \E i, j \in DOMAIN link.of :
            i # j /\ Targets(params, link.of[i]) \cap Targets(params, link.of[j]) # {}

\* A parameter reported to have no effect on the scores has none: without its
\* rows the graph is the same (_unused_warnings).
NoEffectIsTrue ==
    Linked =>
        \A s \in link.unused :
            Patched(export, params, Subsequence(link.of, {r \in Range(link.of) : r.name # s}))
                = link.amounts

=============================================================================
