------------------------------ MODULE LRUStore ------------------------------
(***************************************************************************)
(* What ScoringPackageStore promises while no process is killed: a cache   *)
(* of the MaxPackages most recently used packages.  Every write is one     *)
(* atomic use, nothing else changes the cache.                             *)
(***************************************************************************)
EXTENDS Naturals, FiniteSets

CONSTANTS Package, MaxPackages

VARIABLES cache,   \* for each package a reader can load, the ones used since
          killed   \* was a process killed?

Init == cache = [p \in {} |-> {}] /\ killed = FALSE

\* What is used since q once p is used.
Since(q, p) == IF q = p THEN {} ELSE cache[q] \cup {p}

Use(p) ==
    /\ ~killed
    /\ cache' = [q \in {x \in DOMAIN cache \cup {p} : Cardinality(Since(x, p)) < MaxPackages}
                   |-> Since(q, p)]
    /\ UNCHANGED killed

\* The promise ends with the first kill.
Broken == killed' = TRUE

Next == Broken \/ \E p \in Package : Use(p)

Spec == Init /\ [][Next]_<<cache, killed>>
=============================================================================
