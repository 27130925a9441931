------------------------- MODULE PackageStore_proofs -------------------------
(***************************************************************************)
(* Theorems about PackageStore, for any number of packages, readers and    *)
(* files: while no process is killed the store is an LRU cache, and a load *)
(* fails only for a package that MaxPackages others pushed out.            *)
(***************************************************************************)
EXTENDS PackageStore, FiniteSetTheorems, WellFoundedInduction, TLAPS

Pcs == {"idle", "files", "sweep", "evict"}
WriterState == [pc : Pcs, pkg : Package \cup {NoDir}, todo : SUBSET File,
                open : File \cup {NoDir}, victims : SUBSET Package]
ReaderState == [pkg : Package \cup {NoDir}, todo : SUBSET File, newer : SUBSET Package]

TypeInv ==
    /\ target \in [Package -> Dir \cup {NoDir}]
    /\ partial \in [Package -> Dir \cup {NoDir}]
    /\ writer \in WriterState
    /\ reader \in [Reader -> ReaderState]
    /\ writes \in Nat /\ reads \in Nat /\ kills \in Nat

\* R orders D strictly and totally.
Ordered(R, D) ==
    /\ R \subseteq D \X D
    /\ \A d, e \in D : <<d, e>> \in R <=> d # e /\ <<e, d>> \notin R
    /\ \A a, b, c \in D : <<a, b>> \in R /\ <<b, c>> \in R => <<a, c>> \in R

\* mtimes order the directories, even when a kill left some behind.
OrderInv == Ordered(recent, Directories)

\* What has been written of the package under way.
WriterInv ==
    /\ writer.pc = "files" =>
         /\ writer.pkg \in Package /\ target[writer.pkg] = NoDir /\ partial[writer.pkg] # NoDir
         /\ \A f \in File \ writer.todo : partial[writer.pkg][f] = "whole"
         /\ writer.open # NoDir => writer.open \in writer.todo
    /\ writer.pc = "sweep" => writer.pkg \in Package
    /\ writer.pc = "evict" => writer.victims \subseteq Finals
    /\ writer.pc = "idle" => writer = IdleWriter

\* While no process is killed: what is there is whole or the one victim, the
\* package under way is the newest, and one more than MaxPackages are there at
\* most, and only between the rename and the end of the eviction.
KillFreeInv ==
    kills = 0 =>
      /\ \A p \in Finals : target[p] # Whole => writer.pc = "evict" /\ p \in writer.victims
      /\ \A p \in Package : partial[p] # NoDir => writer.pc = "files" /\ p = writer.pkg
      /\ writer.pc \in {"idle", "files"} => Cardinality(Finals) <= MaxPackages
      /\ writer.pc = "files" =>
           \A p \in Finals : Newer(Draft(writer.pkg), Final(p))
      /\ writer.pc = "sweep" =>
           /\ Cardinality(Finals) <= MaxPackages + 1
           /\ writer.pkg \in Finals
           /\ \A p \in Finals \ {writer.pkg} : Newer(Final(writer.pkg), Final(p))
      /\ writer.pc = "evict" =>
           /\ \A v, w \in writer.victims : v = w
           /\ \A v \in writer.victims :
                target[v] = Whole => Cardinality(Above(v)) >= MaxPackages
           /\ Cardinality(Finals \ writer.victims) <= MaxPackages
           /\ writer.victims # {} => Cardinality(Package) >= MaxPackages

\* What a reader has noted since its package was last used.
ReaderOk(r) ==
    /\ reader[r].pkg \in Package
    /\ reader[r].pkg \in Live => NewerThan(reader[r].pkg) \subseteq reader[r].newer
    /\ reader[r].pkg \notin Live => Cardinality(reader[r].newer) >= MaxPackages

ReaderInv == kills = 0 => \A r \in Reader : reader[r] # IdleReader => ReaderOk(r)

IndInv == TypeInv /\ OrderInv /\ WriterInv /\ KillFreeInv /\ ReaderInv

-----------------------------------------------------------------------------
(* Orders *)

\* A set of numbers has a least one, and a bounded one a largest.
LEMMA LeastNumber ==
    ASSUME NEW T \in SUBSET Nat, T # {}
    PROVE  \E m \in T : \A n \in T : m <= n
<1>1. PICK m \in T : \A n \in T : <<n, m>> \notin OpToRel(<, Nat)
  BY NatLessThanWellFounded, WFMin
<1>2. \A n \in T : ~ (n < m)
  BY <1>1 DEF OpToRel
<1>3. QED
  BY <1>2

LEMMA LargestNumber ==
    ASSUME NEW T \in SUBSET Nat, T # {}, NEW k \in Nat, \A n \in T : n <= k
    PROVE  \E m \in T : \A n \in T : n <= m
<1>. DEFINE U == {k - n : n \in T}
<1>1. U \in SUBSET Nat /\ U # {}
  <2>1. \A n \in T : n \in Nat /\ n <= k /\ k - n \in Nat
    OBVIOUS
  <2>2. QED
    BY <2>1
<1>2. PICK u \in U : \A v \in U : u <= v
  BY <1>1, LeastNumber
<1>3. PICK m \in T : u = k - m
  BY <1>2
<1>4. ASSUME NEW n \in T PROVE n <= m
  BY <1>2, <1>3
<1>5. QED
  BY <1>4

LEMMA Names ==
    /\ \A p, q : Final(p) = Final(q) <=> p = q
    /\ \A p, q : Draft(p) = Draft(q) <=> p = q
    /\ \A p, q : Final(p) # Draft(q)
BY DEF Final, Draft

LEMMA DirectoriesAre ==
    /\ \A d : d \in Directories <=> \/ \E p \in Finals : d = Final(p)
                                    \/ \E p \in Package : partial[p] # NoDir /\ d = Draft(p)
    /\ \A p \in Package : /\ Final(p) \in Directories <=> target[p] # NoDir
                          /\ Draft(p) \in Directories <=> partial[p] # NoDir
BY Names DEF Directories, Finals

\* A renewed directory is newer than all others, whose order stays.
LEMMA Renewing ==
    ASSUME OrderInv, NEW d
    PROVE  /\ Ordered(Renewed(d), Directories \cup {d})
           /\ \A a, b : <<a, b>> \in Renewed(d) <=>
                IF a = d THEN b \in Directories /\ b # d
                ELSE b # d /\ <<a, b>> \in recent
<1>1. ASSUME NEW a, NEW b
      PROVE  <<a, b>> \in Renewed(d) <=>
                IF a = d THEN b \in Directories /\ b # d
                ELSE b # d /\ <<a, b>> \in recent
  BY DEF Renewed, Without
<1>2. Renewed(d) \subseteq (Directories \cup {d}) \X (Directories \cup {d})
  BY DEF OrderInv, Ordered, Renewed, Without
<1>3. ASSUME NEW a \in Directories \cup {d}, NEW b \in Directories \cup {d}
      PROVE  <<a, b>> \in Renewed(d) <=> a # b /\ <<b, a>> \notin Renewed(d)
  BY <1>1 DEF OrderInv, Ordered
<1>4. ASSUME NEW a \in Directories \cup {d}, NEW b \in Directories \cup {d},
             NEW c \in Directories \cup {d},
             <<a, b>> \in Renewed(d), <<b, c>> \in Renewed(d)
      PROVE  <<a, c>> \in Renewed(d)
  BY <1>1, <1>4 DEF OrderInv, Ordered
<1>. HIDE DEF Renewed
<1>5. QED
  BY <1>1, <1>2, <1>3, <1>4 DEF Ordered

\* A part of the order is the order of a part.
LEMMA Restricting ==
    ASSUME OrderInv, NEW D \in SUBSET Directories,
           NEW R \in SUBSET recent,
           \A x \in recent : x \in R <=> x[1] \in D /\ x[2] \in D
    PROVE  Ordered(R, D)
<1>1. R \subseteq D \X D
  BY DEF OrderInv, Ordered
<1>2. \A a, b \in D : <<a, b>> \in R <=> <<a, b>> \in recent
  OBVIOUS
<1>3. QED
  BY <1>1, <1>2 DEF OrderInv, Ordered

\* Renaming keeps the order.
LEMMA Renaming ==
    ASSUME OrderInv, NEW p \in Package, target[p] = NoDir
    PROVE  LET R == {<<Renamed(x[1], p), Renamed(x[2], p)>> : x \in recent}
               D == {Renamed(d, p) : d \in Directories}
           IN  /\ Ordered(R, D)
               /\ \A a, b \in Directories :
                    <<Renamed(a, p), Renamed(b, p)>> \in R <=> <<a, b>> \in recent
<1>. DEFINE As(d) == Renamed(d, p)
            R == {<<As(x[1]), As(x[2])>> : x \in recent}
            D == {As(d) : d \in Directories}
<1>1. Final(p) \notin Directories
  BY DirectoriesAre
<1>2. \A a, b \in Directories : As(a) = As(b) <=> a = b
  BY <1>1, Names DEF Renamed
<1>. HIDE DEF As
<1>3. \A x \in recent : x[1] \in Directories /\ x[2] \in Directories /\ x = <<x[1], x[2]>>
  BY DEF OrderInv, Ordered
<1>4. ASSUME NEW a \in Directories, NEW b \in Directories
      PROVE  <<As(a), As(b)>> \in R <=> <<a, b>> \in recent
  BY <1>2, <1>3
<1>5. R \subseteq D \X D
  BY <1>3
<1>6. ASSUME NEW d \in D, NEW e \in D PROVE <<d, e>> \in R <=> d # e /\ <<e, d>> \notin R
  <2>1. PICK a \in Directories, b \in Directories : d = As(a) /\ e = As(b)
    OBVIOUS
  <2>2. <<a, b>> \in recent <=> a # b /\ <<b, a>> \notin recent
    BY DEF OrderInv, Ordered
  <2>. HIDE DEF R
  <2>3. QED
    BY <1>2, <1>4, <2>1, <2>2
<1>7. ASSUME NEW d \in D, NEW e \in D, NEW f \in D, <<d, e>> \in R, <<e, f>> \in R
      PROVE  <<d, f>> \in R
  <2>1. PICK a \in Directories, b \in Directories, c \in Directories :
          d = As(a) /\ e = As(b) /\ f = As(c)
    OBVIOUS
  <2>. HIDE DEF R
  <2>2. <<a, b>> \in recent /\ <<b, c>> \in recent
    BY <1>4, <1>7, <2>1
  <2>3. <<a, c>> \in recent
    BY <2>2 DEF OrderInv, Ordered
  <2>4. QED
    BY <1>4, <2>1, <2>3
<1>. HIDE DEF R, D
<1>8. Ordered(R, D)
  BY <1>5, <1>6, <1>7 DEF Ordered
<1>9. QED
  BY <1>4, <1>8 DEF R, D, As

\* Of finitely many packages one is the oldest.
LEMMA OldestExists ==
    ASSUME OrderInv, Finals # {}
    PROVE  \E p \in Finals : Above(p) = Finals \ {p}
<1>1. IsFiniteSet(Finals) /\ Cardinality(Finals) \in Nat
  BY StoreAssumption, FS_Subset, FS_CardinalityType DEF Finals
<1>2. ASSUME NEW p \in Finals
      PROVE  /\ Above(p) \subseteq Finals /\ IsFiniteSet(Above(p))
             /\ Cardinality(Above(p)) \in Nat /\ Cardinality(Above(p)) <= Cardinality(Finals)
  BY <1>1, FS_Subset, FS_CardinalityType DEF Above
<1>. DEFINE T == {Cardinality(Above(p)) : p \in Finals}
<1>3. PICK m \in T : \A n \in T : n <= m
  <2>1. T \in SUBSET Nat /\ T # {} /\ \A n \in T : n <= Cardinality(Finals)
    BY <1>2
  <2>. HIDE DEF T
  <2>2. QED
    BY <1>1, <2>1, LargestNumber
<1>4. PICK p \in Finals : m = Cardinality(Above(p))
  BY <1>3
<1>5. ASSUME NEW q \in Finals, q # p, q \notin Above(p) PROVE FALSE
  <2>1. /\ Final(p) \in Directories /\ Final(q) \in Directories /\ Final(p) # Final(q)
        /\ \A r \in Finals : Final(r) \in Directories
    BY <1>5, DirectoriesAre, Names DEF Finals
  <2>2. p \in Above(q) /\ p \notin Above(p)
    BY <1>5, <2>1 DEF Above, Newer, OrderInv, Ordered
  <2>3. Above(p) \cup {p} \subseteq Above(q)
    BY <2>1, <2>2 DEF Above, Newer, OrderInv, Ordered
  <2>4. Cardinality(Above(p) \cup {p}) = Cardinality(Above(p)) + 1
    BY <1>2, <2>2, FS_AddElement
  <2>5. Cardinality(Above(p)) + 1 <= Cardinality(Above(q))
    BY <1>2, <2>3, <2>4, FS_Subset
  <2>6. Cardinality(Above(q)) \in T
    OBVIOUS
  <2>7. Cardinality(Above(q)) <= Cardinality(Above(p))
    BY <1>3, <1>4, <2>6
  <2>8. /\ Cardinality(Above(p)) \in Nat /\ Cardinality(Above(q)) \in Nat
    BY <1>2
  <2>. HIDE DEF T
  <2>9. QED
    BY <2>5, <2>7, <2>8
<1>6. p \notin Above(p)
  BY DirectoriesAre DEF Above, Newer, OrderInv, Ordered, Finals
<1>7. QED
  BY <1>2, <1>5, <1>6

-----------------------------------------------------------------------------
(* Types and order *)

LEMMA TypeStep == TypeInv /\ WriterInv /\ [Next]_vars => TypeInv'
<1>. SUFFICES ASSUME TypeInv, WriterInv, [Next]_vars PROVE TypeInv'
  OBVIOUS
<1>. USE DEF TypeInv, WriterState, ReaderState, Pcs
<1>1. Empty \in Dir
  BY DEF Empty, Dir
<1>2. ASSUME NEW p \in Package PROVE Noted(p) \in [Reader -> ReaderState]
  BY DEF Noted, IdleReader
<1>3. ASSUME NEW p \in Package, NEW f \in File, NEW s \in {"absent", "torn", "whole"},
             partial[p] # NoDir
      PROVE  [partial EXCEPT ![p][f] = s] \in [Package -> Dir \cup {NoDir}]
  BY <1>3 DEF Dir
<1>4. ASSUME NEW p \in Package, NEW f \in File, target[p] # NoDir
      PROVE  [target EXCEPT ![p][f] = "absent"] \in [Package -> Dir \cup {NoDir}]
  BY <1>4 DEF Dir
<1>5. ASSUME NEW p \in Package, Touch(p) \/ Start(p) PROVE TypeInv'
  <2>1. writes' \in Nat /\ UNCHANGED <<target, reads, kills>>
    BY <1>5 DEF Touch, Start, Begin
  <2>2. partial' \in [Package -> Dir \cup {NoDir}]
    BY <1>1, <1>5 DEF Touch, Start
  <2>3. writer' \in WriterState
    BY <1>5 DEF Touch, Start, IdleWriter
  <2>4. reader' \in [Reader -> ReaderState]
    BY <1>2, <1>5 DEF Touch, Start
  <2>5. QED
    BY <2>1, <2>2, <2>3, <2>4
<1>6. CASE Open
  <2>1. PICK f \in writer.todo :
          /\ partial' = [partial EXCEPT ![writer.pkg][f] = "torn"]
          /\ writer' = [writer EXCEPT !.open = f]
    BY <1>6 DEF Open
  <2>2. partial' \in [Package -> Dir \cup {NoDir}]
    BY <1>3, <1>6, <2>1 DEF Open, WriterInv
  <2>3. QED
    BY <1>6, <2>1, <2>2 DEF Open, bounds
<1>7. CASE Close
  <2>1. writer.open \in File /\ writer.pkg \in Package /\ partial[writer.pkg] # NoDir
    BY <1>7 DEF Close, WriterInv
  <2>2. QED
    BY <1>3, <1>7, <2>1 DEF Close, bounds
<1>8. CASE Rename
  BY <1>2, <1>8 DEF Rename, bounds, WriterInv
<1>9. CASE Sweep
  BY <1>9 DEF Sweep, Victims, Finals, bounds
<1>10. CASE Unlink
  <2>1. PICK p \in writer.victims, f \in File : target' = [target EXCEPT ![p][f] = "absent"]
    BY <1>10 DEF Unlink
  <2>2. p \in Package /\ target[p] # NoDir
    BY <1>10, <2>1 DEF Unlink, WriterInv, Finals
  <2>3. QED
    BY <1>4, <1>10, <2>1, <2>2 DEF Unlink, bounds
<1>11. CASE RemoveDir
  BY <1>11 DEF RemoveDir, bounds
<1>12. CASE Return
  BY <1>12 DEF Return, IdleWriter, bounds
<1>13. ASSUME NEW r \in Reader, ReadFile(r) \/ ReadFails(r) PROVE TypeInv'
  <2>1. IdleReader \in ReaderState
    BY DEF IdleReader
  <2>2. ASSUME NEW T \in SUBSET reader[r].todo
        PROVE  [reader[r] EXCEPT !.todo = T] \in ReaderState
    OBVIOUS
  <2>3. reader' \in [Reader -> ReaderState]
    BY <1>13, <2>1, <2>2 DEF ReadFile, ReadFails
  <2>4. QED
    BY <1>13, <2>3 DEF ReadFile, ReadFails, bounds
<1>14. CASE \E r \in Reader, p \in Package : BeginRead(r, p)
  BY <1>14 DEF BeginRead, NewerThan, Live
<1>15. CASE Kill
  BY <1>15 DEF Kill, IdleWriter
<1>16. CASE UNCHANGED vars
  BY <1>16 DEF vars, bounds
<1>17. QED
  BY <1>5, <1>6, <1>7, <1>8, <1>9, <1>10, <1>11, <1>12, <1>13, <1>14, <1>15, <1>16
  DEF Next, Write

LEMMA SameDirectories ==
    ASSUME \A q \in Package : (target'[q] # NoDir) <=> (target[q] # NoDir),
           \A q \in Package : (partial'[q] # NoDir) <=> (partial[q] # NoDir)
    PROVE  Directories' = Directories
BY DEF Directories

LEMMA RenewedOrder ==
    ASSUME OrderInv, NEW d, Directories' = Directories \cup {d}, recent' = Renewed(d)
    PROVE  OrderInv'
BY Renewing DEF OrderInv

\* Opening and closing files, and unlinking them, keep the directories.
LEMMA FileSteps ==
    ASSUME TypeInv, NEW p \in Package, NEW f \in File, NEW s \in {"absent", "torn", "whole"}
    PROVE  /\ partial[p] # NoDir =>
                \A q \in Package : ([partial EXCEPT ![p][f] = s][q] # NoDir) <=> (partial[q] # NoDir)
           /\ target[p] # NoDir =>
                \A q \in Package : ([target EXCEPT ![p][f] = s][q] # NoDir) <=> (target[q] # NoDir)
<1>1. \A x \in Dir : [x EXCEPT ![f] = s] # NoDir
  BY NoDirAssumption DEF Dir
<1>2. QED
  BY <1>1 DEF TypeInv

LEMMA OrderStep == TypeInv /\ WriterInv /\ OrderInv /\ [Next]_vars => OrderInv'
<1>. SUFFICES ASSUME TypeInv, WriterInv, OrderInv, [Next]_vars PROVE OrderInv'
  OBVIOUS
<1>1. ASSUME NEW p \in Package, Touch(p) PROVE OrderInv'
  <2>1. Directories' = Directories /\ recent' = Renewed(Final(p))
    BY <1>1 DEF Touch, Begin, Directories
  <2>2. Final(p) \in Directories
    BY <1>1, DirectoriesAre DEF Touch
  <2>3. QED
    BY <2>1, <2>2, RenewedOrder
<1>2. ASSUME NEW p \in Package, Start(p) PROVE OrderInv'
  <2>1. CASE partial[p] # NoDir
    BY <1>2, <2>1 DEF Start, Begin, OrderInv, Directories
  <2>2. CASE partial[p] = NoDir
    <3>1. /\ target' = target /\ partial' = [partial EXCEPT ![p] = Empty]
          /\ recent' = Renewed(Draft(p))
      BY <1>2, <2>2 DEF Start, Begin
    <3>2. Empty # NoDir
      BY NoDirAssumption DEF Empty, Dir
    <3>3. Directories' = Directories \cup {Draft(p)}
      BY <3>1, <3>2 DEF Directories, TypeInv
    <3>4. QED
      BY <3>1, <3>3, RenewedOrder
  <2>3. QED
    BY <2>1, <2>2
<1>3. CASE Open
  <2>1. PICK f \in writer.todo :
          /\ partial' = [partial EXCEPT ![writer.pkg][f] = "torn"]
          /\ recent' = IF partial[writer.pkg][f] = "absent"
                         THEN Renewed(Draft(writer.pkg)) ELSE recent
    BY <1>3 DEF Open
  <2>2. /\ writer.pkg \in Package /\ partial[writer.pkg] # NoDir /\ target' = target
        /\ f \in File
    BY <1>3 DEF Open, WriterInv, TypeInv, WriterState
  <2>3. Directories' = Directories /\ Draft(writer.pkg) \in Directories
    BY <2>1, <2>2, FileSteps, SameDirectories, DirectoriesAre
  <2>4. CASE recent' = recent
    BY <2>3, <2>4 DEF OrderInv
  <2>5. CASE recent' = Renewed(Draft(writer.pkg))
    BY <2>3, <2>5, RenewedOrder
  <2>6. QED
    BY <2>1, <2>4, <2>5
<1>4. CASE Close
  <2>1. /\ partial' = [partial EXCEPT ![writer.pkg][writer.open] = "whole"]
        /\ writer.pkg \in Package /\ partial[writer.pkg] # NoDir
        /\ target' = target /\ recent' = recent /\ writer.open \in File
    BY <1>4 DEF Close, WriterInv, TypeInv, WriterState
  <2>2. Directories' = Directories
    BY <2>1, FileSteps, SameDirectories
  <2>3. QED
    BY <2>1, <2>2 DEF OrderInv
<1>5. CASE Rename
  <2>. DEFINE p == writer.pkg
  <2>1. /\ p \in Package /\ target[p] = NoDir /\ partial[p] # NoDir
        /\ target' = [target EXCEPT ![p] = partial[p]]
        /\ partial' = [partial EXCEPT ![p] = NoDir]
        /\ recent' = {<<Renamed(x[1], p), Renamed(x[2], p)>> : x \in recent}
    BY <1>5 DEF Rename, WriterInv
  <2>. HIDE DEF p
  <2>2. Directories' = {Renamed(d, p) : d \in Directories}
    <3>1. ASSUME NEW d \in Directories' PROVE d \in {Renamed(e, p) : e \in Directories}
      <4>1. CASE \E q \in Package : target'[q] # NoDir /\ d = Final(q)
        <5>1. PICK q \in Package : target'[q] # NoDir /\ d = Final(q)
          BY <4>1
        <5>2. CASE q = p
          <6>1. Draft(p) \in Directories /\ d = Renamed(Draft(p), p)
            BY <2>1, <5>1, <5>2, DirectoriesAre DEF Renamed
          <6>2. QED
            BY <6>1
        <5>3. CASE q # p
          <6>1. d \in Directories /\ d = Renamed(d, p)
            BY <2>1, <5>1, <5>3, DirectoriesAre, Names DEF Renamed, TypeInv
          <6>2. QED
            BY <6>1
        <5>4. QED
          BY <5>2, <5>3
      <4>2. CASE \E q \in Package : partial'[q] # NoDir /\ d = Draft(q)
        <5>1. PICK q \in Package : partial'[q] # NoDir /\ d = Draft(q)
          BY <4>2
        <5>2. q # p
          BY <2>1, <5>1 DEF TypeInv
        <5>3. d \in Directories /\ d = Renamed(d, p)
          BY <2>1, <5>1, <5>2, DirectoriesAre, Names DEF Renamed, TypeInv
        <5>4. QED
          BY <5>3
      <4>3. QED
        BY <4>1, <4>2 DEF Directories
    <3>2. ASSUME NEW e \in Directories PROVE Renamed(e, p) \in Directories'
      <4>1. \A q \in Package : /\ target'[q] = IF q = p THEN partial[p] ELSE target[q]
                               /\ partial'[q] = IF q = p THEN NoDir ELSE partial[q]
        BY <2>1 DEF TypeInv
      <4>2. CASE e = Draft(p)
        BY <2>1, <4>1, <4>2 DEF Renamed, Directories
      <4>3. CASE e # Draft(p)
        <5>1. Renamed(e, p) = e
          BY <4>3 DEF Renamed
        <5>2. \/ \E q \in Package : target[q] # NoDir /\ e = Final(q)
              \/ \E q \in Package : partial[q] # NoDir /\ e = Draft(q)
          BY DEF Directories
        <5>3. QED
          BY <2>1, <4>1, <4>3, <5>1, <5>2 DEF Directories
      <4>4. QED
        BY <4>2, <4>3
    <3>3. QED
      BY <3>1, <3>2
  <2>3. QED
    BY <2>1, <2>2, Renaming DEF OrderInv
<1>6. CASE Sweep
  <2>. DEFINE D == {Final(p) : p \in Finals}
  <2>1. /\ recent' = {x \in recent : \E p, q \in Package : x = <<Final(p), Final(q)>>}
        /\ target' = target /\ partial' = [p \in Package |-> NoDir]
    BY <1>6 DEF Sweep
  <2>2. Directories' = D
    BY <2>1 DEF Directories, Finals
  <2>3. D \in SUBSET Directories
    BY DEF Directories, Finals
  <2>4. ASSUME NEW x \in recent
        PROVE  x \in recent' <=> x[1] \in D /\ x[2] \in D
    <3>1. x[1] \in Directories /\ x[2] \in Directories /\ x = <<x[1], x[2]>>
      BY DEF OrderInv, Ordered
    <3>2. ASSUME x \in recent' PROVE x[1] \in D /\ x[2] \in D
      <4>1. PICK p \in Package, q \in Package : x = <<Final(p), Final(q)>>
        BY <2>1, <3>2
      <4>2. p \in Finals /\ q \in Finals
        BY <3>1, <4>1, DirectoriesAre DEF Finals
      <4>3. QED
        BY <4>1, <4>2
    <3>3. ASSUME x[1] \in D, x[2] \in D PROVE x \in recent'
      BY <2>1, <3>1, <3>3 DEF Finals
    <3>4. QED
      BY <3>2, <3>3
  <2>5. Ordered(recent', D)
    BY <2>1, <2>3, <2>4, Restricting
  <2>6. QED
    BY <2>2, <2>5 DEF OrderInv
<1>7. CASE Unlink
  <2>1. PICK p \in writer.victims, f \in File :
          target' = [target EXCEPT ![p][f] = "absent"] /\ recent' = Renewed(Final(p))
    BY <1>7 DEF Unlink
  <2>2. p \in Package /\ target[p] # NoDir /\ partial' = partial
    BY <1>7, <2>1 DEF Unlink, WriterInv, Finals
  <2>3. Directories' = Directories /\ Final(p) \in Directories
    BY <2>1, <2>2, FileSteps, SameDirectories, DirectoriesAre
  <2>4. QED
    BY <2>1, <2>3, RenewedOrder
<1>8. CASE RemoveDir
  <2>1. PICK p \in writer.victims :
          target' = [target EXCEPT ![p] = NoDir] /\ recent' = Without(Final(p))
    BY <1>8 DEF RemoveDir
  <2>2. p \in Package /\ partial' = partial
    BY <1>8, <2>1 DEF RemoveDir, WriterInv, Finals
  <2>3. Directories' = Directories \ {Final(p)}
    BY <2>1, <2>2, Names DEF Directories, TypeInv
  <2>4. \A x \in recent : x \in recent' <=> x[1] \in Directories' /\ x[2] \in Directories'
    BY <2>1, <2>3 DEF Without, OrderInv, Ordered
  <2>5. recent' \subseteq recent
    BY <2>1 DEF Without
  <2>6. QED
    BY <2>3, <2>4, <2>5, Restricting DEF OrderInv
<1>9. ASSUME UNCHANGED <<target, partial, recent>> PROVE OrderInv'
  BY <1>9 DEF OrderInv, Directories
<1>10. QED
  BY <1>1, <1>2, <1>3, <1>4, <1>5, <1>6, <1>7, <1>8, <1>9
  DEF Next, Write, Return, ReadFile, ReadFails, BeginRead, Kill, vars

LEMMA WriterStep == TypeInv /\ WriterInv /\ [Next]_vars => WriterInv'
<1>. SUFFICES ASSUME TypeInv, WriterInv, [Next]_vars PROVE WriterInv'
  OBVIOUS
<1>. USE DEF WriterInv
<1>1. ASSUME NEW p \in Package, Touch(p) PROVE WriterInv'
  BY <1>1 DEF Touch, Begin, IdleWriter
<1>2. ASSUME NEW p \in Package, Start(p) PROVE WriterInv'
  <2>1. /\ writer' = [IdleWriter EXCEPT !.pc = "files", !.pkg = p, !.todo = File]
        /\ target' = target /\ target[p] = NoDir
    BY <1>2 DEF Start, Begin
  <2>2. /\ writer'.pc = "files" /\ writer'.pkg = p /\ writer'.todo = File /\ writer'.open = NoDir
    BY <2>1 DEF IdleWriter
  <2>3. partial'[p] # NoDir
    BY <1>2, NoDirAssumption DEF Start, TypeInv, Empty, Dir
  <2>4. QED
    BY <2>1, <2>2, <2>3
<1>3. CASE Open
  <2>1. PICK f \in writer.todo :
          /\ partial' = [partial EXCEPT ![writer.pkg][f] = "torn"]
          /\ writer' = [writer EXCEPT !.open = f]
          /\ writer.pc = "files" /\ target' = target
    BY <1>3 DEF Open
  <2>2. f \in File /\ writer.pkg \in Package /\ partial[writer.pkg] # NoDir
    BY <2>1 DEF TypeInv, WriterState
  <2>3. /\ writer'.pc = "files" /\ writer'.pkg = writer.pkg /\ writer'.todo = writer.todo
        /\ writer'.open = f
    BY <2>1 DEF TypeInv, WriterState
  <2>4. partial'[writer.pkg] # NoDir
    BY <2>1, <2>2, FileSteps
  <2>5. \A g \in File \ writer.todo : partial'[writer.pkg][g] = "whole"
    BY <2>1, <2>2 DEF TypeInv, Dir
  <2>6. QED
    BY <2>1, <2>2, <2>3, <2>4, <2>5
<1>4. CASE Close
  <2>1. /\ partial' = [partial EXCEPT ![writer.pkg][writer.open] = "whole"]
        /\ writer' = [writer EXCEPT !.open = NoDir, !.todo = @ \ {writer.open}]
        /\ writer.pc = "files" /\ target' = target /\ writer.open \in File
        /\ writer.pkg \in Package /\ partial[writer.pkg] # NoDir
    BY <1>4 DEF Close, TypeInv, WriterState
  <2>2. /\ writer'.pc = "files" /\ writer'.pkg = writer.pkg
        /\ writer'.todo = writer.todo \ {writer.open} /\ writer'.open = NoDir
    BY <2>1 DEF TypeInv, WriterState
  <2>3. partial'[writer.pkg] # NoDir
    BY <2>1, FileSteps
  <2>4. \A g \in File \ writer'.todo : partial'[writer.pkg][g] = "whole"
    BY <2>1, <2>2 DEF TypeInv, Dir
  <2>5. QED
    BY <2>1, <2>2, <2>3, <2>4
<1>5. CASE Rename
  BY <1>5 DEF Rename, TypeInv, WriterState
<1>6. CASE Sweep
  BY <1>6 DEF Sweep, TypeInv, WriterState, Victims, Finals
<1>7. CASE Unlink
  <2>1. PICK p \in writer.victims, f \in File :
          target' = [target EXCEPT ![p][f] = "absent"]
    BY <1>7 DEF Unlink
  <2>2. /\ writer' = writer /\ writer.pc = "evict"
        /\ p \in Package /\ target[p] # NoDir
    BY <1>7, <2>1 DEF Unlink, Finals
  <2>3. Finals' = Finals
    BY <2>1, <2>2, FileSteps DEF Finals
  <2>4. QED
    BY <2>2, <2>3
<1>8. CASE RemoveDir
  BY <1>8 DEF RemoveDir, TypeInv, WriterState, Finals
<1>9. CASE Return \/ Kill
  BY <1>9 DEF Return, Kill, IdleWriter
<1>10. ASSUME UNCHANGED <<target, partial, writer>> PROVE WriterInv'
  BY <1>10 DEF Finals
<1>11. QED
  BY <1>1, <1>2, <1>3, <1>4, <1>5, <1>6, <1>7, <1>8, <1>9, <1>10
  DEF Next, Write, ReadFile, ReadFails, BeginRead, vars

-----------------------------------------------------------------------------
(* What the steps do to the packages and their order *)

Inv == TypeInv /\ OrderInv /\ WriterInv

\* Finite sets of packages.
LEMMA PackagesFinite ==
    ASSUME NEW S \in SUBSET Package
    PROVE  IsFiniteSet(S) /\ Cardinality(S) \in Nat
BY StoreAssumption, FS_Subset, FS_CardinalityType

LEMMA FinalsOrdered ==
    ASSUME OrderInv
    PROVE  /\ \A p \in Finals : Above(p) \subseteq Finals \ {p}
           /\ \A p, q \in Finals : p # q => (p \in Above(q) <=> q \notin Above(p))
           /\ \A p, q \in Finals : p \in Above(q) => Above(p) \subseteq Above(q)
<1>1. \A p \in Finals : Final(p) \in Directories
  BY DirectoriesAre DEF Finals
<1>2. \A p, q \in Finals : Final(p) = Final(q) <=> p = q
  BY Names
<1>3. QED
  BY <1>1, <1>2 DEF Above, Newer, OrderInv, Ordered

\* The steps that neither use nor remove a package.
Quiet == \/ \E p \in Package : Start(p)
         \/ Open \/ Close \/ Sweep \/ Return \/ Kill
         \/ \E r \in Reader : ReadFile(r) \/ ReadFails(r) \/ \E p \in Package : BeginRead(r, p)
         \/ UNCHANGED vars

LEMMA QuietFacts ==
    ASSUME Inv, Quiet
    PROVE  /\ target' = target /\ Finals' = Finals /\ Live' = Live
           /\ \A p : Above(p)' = Above(p) /\ NewerThan(p)' = NewerThan(p)
<1>1. target' = target
  BY DEF Quiet, Start, Begin, Open, Close, Sweep, Return, Kill, ReadFile, ReadFails, BeginRead, vars
<1>2. Finals' = Finals /\ Live' = Live
  BY <1>1 DEF Finals, Live
<1>3. \/ recent' = recent \/ \E q \in Package : recent' = Renewed(Draft(q))
      \/ recent' = {x \in recent : \E p, q \in Package : x = <<Final(p), Final(q)>>}
  BY DEF Quiet, Start, Open, Close, Sweep, Return, Kill, ReadFile, ReadFails, BeginRead, vars,
     Inv, WriterInv
<1>4. ASSUME NEW p \in Package, NEW q \in Package
      PROVE  Newer(Final(q), Final(p))' <=> Newer(Final(q), Final(p))
  <2>1. CASE recent' = recent
    BY <2>1 DEF Newer
  <2>2. ASSUME NEW s \in Package, recent' = Renewed(Draft(s))
        PROVE  Newer(Final(q), Final(p))' <=> Newer(Final(q), Final(p))
    <3>1. <<Final(q), Final(p)>> \in Renewed(Draft(s)) <=> <<Final(q), Final(p)>> \in recent
      BY Renewing, Names DEF Inv
    <3>2. QED
      BY <2>2, <3>1 DEF Newer
  <2>3. CASE recent' = {x \in recent : \E a, b \in Package : x = <<Final(a), Final(b)>>}
    BY <2>3 DEF Newer
  <2>4. QED
    BY <1>3, <2>1, <2>2, <2>3
<1>5. ASSUME NEW p PROVE Above(p)' = Above(p)
  <2>1. CASE p \in Package
    BY <1>2, <1>4, <2>1 DEF Above, Finals
  <2>2. CASE p \notin Package
    <3>1. ASSUME NEW a, NEW b, NEW s \in Package
          PROVE  <<Final(a), Final(p)>> \in Renewed(Draft(s)) <=> <<Final(a), Final(p)>> \in recent
      BY Renewing, Names DEF Inv
    <3>2. Final(p) \notin Directories
      BY <2>2, DirectoriesAre, Names DEF Finals
    <3>3. \A a : <<Final(a), Final(p)>> \notin recent
      BY <3>2 DEF Inv, OrderInv, Ordered
    <3>4. \A a : <<Final(a), Final(p)>> \notin recent'
      BY <1>3, <3>1, <3>3
    <3>5. QED
      BY <3>3, <3>4 DEF Above, Newer
  <2>3. QED
    BY <2>1, <2>2
<1>6. QED
  BY <1>1, <1>2, <1>5 DEF NewerThan

\* Every package that is there is whole, but for the victim.
LEMMA OthersWhole ==
    ASSUME Inv, KillFreeInv, kills = 0
    PROVE  /\ \A p \in Finals : p \notin Live => writer.pc = "evict" /\ p \in writer.victims
           /\ Live \subseteq Finals
           /\ \A p \in Live : NewerThan(p) = Above(p) \cap Live
BY NoDirAssumption DEF KillFreeInv, Live, Finals, NewerThan, Whole, Dir

Used(p) == Touch(p) \/ (Rename /\ p = writer.pkg)

\* A use makes its package the newest one.
LEMMA UseOrder ==
    ASSUME Inv, KillFreeInv, kills = 0, NEW p \in Package, Used(p)
    PROVE  /\ Finals' = Finals \cup {p} /\ target'[p] # NoDir
           /\ \A q \in Package \ {p} : target'[q] = target[q]
           /\ Above(p)' = {}
           /\ \A q \in Finals \ {p} : Above(q)' = Above(q) \cup {p}
           /\ Live = Finals /\ Live' = Finals'
<1>1. CASE Touch(p)
  <2>1. target' = target /\ recent' = Renewed(Final(p)) /\ target[p] # NoDir /\ writer = IdleWriter
    BY <1>1 DEF Touch, Begin
  <2>2. Finals' = Finals /\ p \in Finals /\ Finals = Finals \cup {p}
    BY <2>1 DEF Finals
  <2>3. \A q, s \in Finals : Newer(Final(s), Final(q))' <=> q # p /\ (s = p \/ Newer(Final(s), Final(q)))
    <3>1. \A q \in Finals : Final(q) \in Directories
      BY DirectoriesAre DEF Finals
    <3>2. SUFFICES ASSUME NEW q \in Finals, NEW s \in Finals
                   PROVE  <<Final(s), Final(q)>> \in Renewed(Final(p))
                            <=> q # p /\ (s = p \/ <<Final(s), Final(q)>> \in recent)
      BY <2>1 DEF Newer
    <3>3. <<Final(s), Final(q)>> \in Renewed(Final(p)) <=>
            IF Final(s) = Final(p) THEN Final(q) \in Directories /\ Final(q) # Final(p)
            ELSE Final(q) # Final(p) /\ <<Final(s), Final(q)>> \in recent
      BY Renewing DEF Inv
    <3>4. (Final(s) = Final(p) <=> s = p) /\ (Final(q) = Final(p) <=> q = p)
      BY Names
    <3>5. QED
      BY <3>1, <3>3, <3>4
  <2>4. Above(p)' = {}
    BY <2>2, <2>3 DEF Above
  <2>5. ASSUME NEW q \in Finals \ {p} PROVE Above(q)' = Above(q) \cup {p}
    BY <2>2, <2>3 DEF Above
  <2>6. Live = Finals
    BY <2>1, OthersWhole DEF IdleWriter
  <2>7. Live' = Live
    BY <2>1 DEF Live
  <2>8. QED
    BY <2>1, <2>2, <2>4, <2>5, <2>6, <2>7
<1>2. CASE Rename /\ p = writer.pkg
  <2>1. /\ writer.pc = "files" /\ writer.todo = {}
        /\ target' = [target EXCEPT ![p] = partial[p]]
        /\ recent' = {<<Renamed(x[1], p), Renamed(x[2], p)>> : x \in recent}
    BY <1>2 DEF Rename, Complete
  <2>2. /\ target[p] = NoDir /\ partial[p] # NoDir /\ partial[p] \in Dir
        /\ \A f \in File : partial[p][f] = "whole"
    BY <1>2, <2>1 DEF Inv, TypeInv, WriterInv
  <2>3. partial[p] = Whole
    BY <2>2 DEF Dir, Whole
  <2>4. target'[p] = Whole /\ Whole # NoDir /\ \A q \in Package \ {p} : target'[q] = target[q]
    BY <2>1, <2>2, <2>3 DEF Inv, TypeInv
  <2>5. Finals' = Finals \cup {p} /\ p \notin Finals
    BY <2>2, <2>4 DEF Finals
  <2>6. Live = Finals
    BY <2>1, OthersWhole
  <2>7. Live' = Finals'
    BY <2>4, <2>6 DEF Live, Finals
  <2>8. \A q \in Finals : Newer(Draft(p), Final(q))
    BY <1>2, <2>1 DEF KillFreeInv
  <2>9. /\ \A q \in Finals : Final(q) \in Directories /\ Renamed(Final(q), p) = Final(q)
        /\ Draft(p) \in Directories /\ Renamed(Draft(p), p) = Final(p)
    BY <2>2, DirectoriesAre, Names DEF Renamed, Finals
  <2>10. /\ Ordered(recent', {Renamed(d, p) : d \in Directories})
         /\ \A a, b \in Directories :
              <<Renamed(a, p), Renamed(b, p)>> \in recent' <=> <<a, b>> \in recent
    BY <2>1, <2>2, Renaming DEF Inv
  <2>11. \A q, s \in Finals : Newer(Final(s), Final(q))' <=> Newer(Final(s), Final(q))
    <3>1. SUFFICES ASSUME NEW q \in Finals, NEW s \in Finals
                   PROVE  <<Final(s), Final(q)>> \in recent' <=> <<Final(s), Final(q)>> \in recent
      BY DEF Newer
    <3>2. <<Renamed(Final(s), p), Renamed(Final(q), p)>> \in recent' <=> <<Final(s), Final(q)>> \in recent
      BY <2>9, <2>10
    <3>3. QED
      BY <3>2, <2>9
  <2>12. ASSUME NEW q \in Finals PROVE Newer(Final(p), Final(q))' /\ ~Newer(Final(q), Final(p))'
    <3>1. <<Final(p), Final(q)>> \in recent' <=> <<Draft(p), Final(q)>> \in recent
      BY <2>9, <2>10
    <3>2. <<Final(q), Final(p)>> \in recent' <=> <<Final(q), Draft(p)>> \in recent
      BY <2>9, <2>10
    <3>3. <<Draft(p), Final(q)>> \in recent /\ <<Final(q), Draft(p)>> \notin recent
      BY <2>8, <2>9 DEF Inv, OrderInv, Ordered, Newer
    <3>4. QED
      BY <3>1, <3>2, <3>3 DEF Newer
  <2>13. ~Newer(Final(p), Final(p))'
    BY <2>9, <2>10 DEF Ordered, Newer
  <2>14. Above(p)' = {}
    BY <2>5, <2>12, <2>13 DEF Above
  <2>15. ASSUME NEW q \in Finals \ {p} PROVE Above(q)' = Above(q) \cup {p}
    BY <2>5, <2>11, <2>12 DEF Above
  <2>16. QED
    BY <2>4, <2>5, <2>6, <2>7, <2>14, <2>15
<1>3. QED
  BY <1>1, <1>2 DEF Used

LEMMA UseFacts ==
    ASSUME Inv, KillFreeInv, kills = 0, NEW p \in Package, Used(p)
    PROVE  /\ Live' = Live \cup {p}
           /\ NewerThan(p)' = {}
           /\ \A q \in Live \ {p} : NewerThan(q)' = NewerThan(q) \cup {p}
<1>1. /\ Finals' = Finals \cup {p} /\ Above(p)' = {}
      /\ \A q \in Finals \ {p} : Above(q)' = Above(q) \cup {p}
      /\ Live = Finals /\ Live' = Finals'
  BY UseOrder
<1>2. \A q : Above(q) \subseteq Finals
  BY DEF Above
<1>3. NewerThan(p)' = {}
  BY <1>1 DEF NewerThan
<1>4. ASSUME NEW q \in Live \ {p} PROVE NewerThan(q)' = NewerThan(q) \cup {p}
  <2>1. NewerThan(q)' = Above(q)' \cap Live'
    BY <1>1, <1>4 DEF NewerThan
  <2>2. NewerThan(q) = Above(q) \cap Live
    BY <1>4 DEF NewerThan
  <2>3. QED
    BY <1>1, <1>2, <2>1, <2>2
<1>5. QED
  BY <1>1, <1>3, <1>4

\* A victim is the oldest package, so removing it changes no other's place.
LEMMA OldestVictim ==
    ASSUME Inv, KillFreeInv, kills = 0, writer.pc = "evict", NEW v \in writer.victims
    PROVE  /\ v \in Finals /\ writer.victims = {v}
           /\ v \in Live => /\ Cardinality(NewerThan(v)) >= MaxPackages
                            /\ \A q \in Live \ {v} : v \notin Above(q)
<1>1. /\ writer.victims = {v} /\ v \in Finals
      /\ Cardinality(Finals \ {v}) <= MaxPackages
      /\ target[v] = Whole => Cardinality(Above(v)) >= MaxPackages
  BY DEF KillFreeInv, Inv, WriterInv
<1>2. ASSUME v \in Live
      PROVE  /\ Cardinality(NewerThan(v)) >= MaxPackages
             /\ \A q \in Live \ {v} : v \notin Above(q)
  <2>1. /\ Cardinality(Above(v)) >= MaxPackages /\ Above(v) \subseteq Finals \ {v}
    BY <1>1, <1>2, FinalsOrdered DEF Live, Inv
  <2>2. /\ IsFiniteSet(Finals \ {v}) /\ Cardinality(Finals \ {v}) \in Nat
        /\ Cardinality(Above(v)) \in Nat
    BY <2>1, PackagesFinite DEF Finals
  <2>3. Above(v) = Finals \ {v}
    <3>1. Cardinality(Above(v)) <= Cardinality(Finals \ {v})
      BY <2>1, <2>2, FS_Subset
    <3>2. Cardinality(Above(v)) = Cardinality(Finals \ {v})
      BY <1>1, <2>1, <2>2, <3>1, StoreAssumption
    <3>3. QED
      BY <2>1, <2>2, <3>2, FS_Subset
  <2>4. Finals \ {v} \subseteq Live /\ Live \subseteq Finals
    BY <1>1, OthersWhole
  <2>5. NewerThan(v) = Above(v)
    BY <1>2, <2>3, <2>4 DEF NewerThan
  <2>6. \A q \in Live \ {v} : v \notin Above(q)
    BY <1>1, <2>3, <2>4, FinalsOrdered DEF Inv
  <2>7. QED
    BY <2>1, <2>5, <2>6
<1>3. QED
  BY <1>1, <1>2

LEMMA UnlinkFacts ==
    ASSUME Inv, KillFreeInv, kills = 0, Unlink
    PROVE  \E v \in writer.victims :
             /\ v \in Finals /\ Finals' = Finals
             /\ \A q \in Package \ {v} : target'[q] = target[q]
             /\ target'[v] # Whole
             /\ v \in Live => Cardinality(NewerThan(v)) >= MaxPackages
             /\ Live' = Live \ {v}
             /\ \A q \in Live' : NewerThan(q)' = NewerThan(q)
<1>1. PICK v \in writer.victims, f \in File :
        /\ target' = [target EXCEPT ![v][f] = "absent"]
        /\ recent' = Renewed(Final(v))
        /\ writer.pc = "evict"
  BY DEF Unlink
<1>2. /\ v \in Finals /\ v \in Package /\ target[v] \in Dir
      /\ v \in Live => /\ Cardinality(NewerThan(v)) >= MaxPackages
                       /\ \A q \in Live \ {v} : v \notin Above(q)
  BY <1>1, OldestVictim DEF Finals, Inv, TypeInv
<1>3. /\ \A q \in Package \ {v} : target'[q] = target[q]
      /\ target'[v][f] = "absent"
  BY <1>1, <1>2 DEF Inv, TypeInv, Dir
<1>4. target'[v] # Whole
  BY <1>3 DEF Whole
<1>5. Finals' = Finals
  BY <1>1, <1>2, FileSteps DEF Finals, Inv
<1>6. Live' = Live \ {v}
  BY <1>2, <1>3, <1>4 DEF Live
<1>7. ASSUME NEW q \in Live' PROVE NewerThan(q)' = NewerThan(q)
  <2>1. q \in Live /\ q # v /\ Live \subseteq Finals
    BY <1>6, <1>7, OthersWhole
  <2>2. \A s \in Live' : Newer(Final(s), Final(q))' <=> Newer(Final(s), Final(q))
    <3>1. SUFFICES ASSUME NEW s \in Live'
                   PROVE  <<Final(s), Final(q)>> \in Renewed(Final(v)) <=> <<Final(s), Final(q)>> \in recent
      BY <1>1 DEF Newer
    <3>2. s # v /\ Final(s) # Final(v) /\ Final(q) # Final(v)
      BY <1>6, <2>1, Names
    <3>3. QED
      BY <3>2, Renewing DEF Inv
  <2>3. NewerThan(q) = {s \in Finals : Newer(Final(s), Final(q))} \cap Live
    BY <2>1 DEF NewerThan, Above
  <2>4. NewerThan(q)' = {s \in Finals' : Newer(Final(s), Final(q))'} \cap Live'
    BY <1>7 DEF NewerThan, Above
  <2>5. v \in Live => v \notin Above(q)
    BY <1>2, <2>1
  <2>6. QED
    BY <1>5, <1>6, <2>1, <2>2, <2>3, <2>4, <2>5 DEF Above
<1>8. QED
  BY <1>2, <1>3, <1>4, <1>5, <1>6, <1>7

LEMMA RemoveDirFacts ==
    ASSUME Inv, KillFreeInv, kills = 0, RemoveDir
    PROVE  \E v \in writer.victims :
             /\ writer.victims = {v} /\ writer'.victims = {} /\ writer'.pc = "evict"
             /\ Finals' = Finals \ {v}
             /\ \A q \in Package \ {v} : target'[q] = target[q]
             /\ Live' = Live
             /\ \A q \in Live' : NewerThan(q)' = NewerThan(q)
<1>1. PICK v \in writer.victims :
        /\ target[v] = Empty /\ target' = [target EXCEPT ![v] = NoDir]
        /\ recent' = Without(Final(v))
        /\ writer' = [writer EXCEPT !.victims = @ \ {v}]
        /\ writer.pc = "evict"
  BY DEF RemoveDir
<1>2. writer.victims = {v} /\ v \in Finals /\ v \in Package
  BY <1>1, OldestVictim DEF Finals
<1>3. writer'.victims = {} /\ writer'.pc = "evict"
  BY <1>1, <1>2 DEF Inv, TypeInv, WriterState
<1>4. /\ \A q \in Package \ {v} : target'[q] = target[q]
      /\ target'[v] = NoDir
  BY <1>1, <1>2 DEF Inv, TypeInv
<1>5. Finals' = Finals \ {v}
  BY <1>4 DEF Finals
<1>6. Empty # Whole /\ NoDir # Whole
  <2>1. Empty[Ids] # Whole[Ids] /\ Whole \in Dir
    BY DEF Empty, Whole, File, Dir
  <2>2. QED
    BY <2>1, NoDirAssumption
<1>7. Live' = Live /\ v \notin Live
  BY <1>1, <1>4, <1>6 DEF Live
<1>8. ASSUME NEW q \in Live' PROVE NewerThan(q)' = NewerThan(q)
  <2>1. \A s \in Live : Newer(Final(s), Final(q))' <=> Newer(Final(s), Final(q))
    BY <1>1, <1>7, <1>8, Names DEF Newer, Without
  <2>2. Live \subseteq Finals /\ Live \subseteq Finals \ {v}
    BY <1>7, OthersWhole
  <2>3. NewerThan(q) = {s \in Live : Newer(Final(s), Final(q))}
    BY <1>7, <1>8, <2>2 DEF NewerThan, Above
  <2>4. NewerThan(q)' = {s \in Finals' : Newer(Final(s), Final(q))'} \cap Live'
    BY <1>8 DEF NewerThan, Above
  <2>5. QED
    BY <1>5, <1>7, <2>1, <2>2, <2>3, <2>4
<1>9. QED
  BY <1>2, <1>3, <1>4, <1>5, <1>7, <1>8

-----------------------------------------------------------------------------

\* Every step of the system, by what it does to the packages.
LEMMA StepCases ==
    ASSUME [Next]_vars
    PROVE  \/ Quiet
           \/ \E p \in Package : Touch(p)
           \/ Rename \/ Unlink \/ RemoveDir
BY DEF Next, Write, Quiet

LEMMA KillsStep ==
    ASSUME Inv, [Next]_vars
    PROVE  kills' = kills \/ (Kill /\ kills' # 0)
<1>1. CASE Kill
  BY <1>1 DEF Kill, Inv, TypeInv
<1>2. ASSUME NEW p \in Package, Touch(p) \/ Start(p) PROVE kills' = kills
  BY <1>2 DEF Touch, Start, Begin
<1>3. ASSUME Write PROVE kills' = kills
  BY <1>3 DEF Write, Open, Close, Rename, Sweep, Unlink, RemoveDir, Return, bounds
<1>4. ASSUME NEW r \in Reader, ReadFile(r) \/ ReadFails(r) \/ \E p \in Package : BeginRead(r, p)
      PROVE  kills' = kills
  BY <1>4 DEF ReadFile, ReadFails, BeginRead, bounds
<1>5. QED
  BY <1>1, <1>2, <1>3, <1>4 DEF Next, vars, bounds

LEMMA ReaderStep ==
    ASSUME Inv, KillFreeInv, ReaderInv, [Next]_vars
    PROVE  ReaderInv'
<1>. SUFFICES ASSUME kills' = 0, NEW r \in Reader, reader'[r] # IdleReader
              PROVE  ReaderOk(r)'
  BY DEF ReaderInv
<1>. DEFINE Good(b) == /\ b \in Package /\ reader'[r].pkg = b
                       /\ b \in Live' => NewerThan(b)' \subseteq reader'[r].newer
                       /\ b \notin Live' => Cardinality(reader'[r].newer) >= MaxPackages
<1>0. kills = 0
  BY KillsStep
<1>1. PICK a :
        /\ a = reader[r].pkg
        /\ reader[r] # IdleReader =>
             /\ a \in Package
             /\ a \in Live => NewerThan(a) \subseteq reader[r].newer
             /\ a \notin Live => Cardinality(reader[r].newer) >= MaxPackages
        /\ reader[r].newer \subseteq Package /\ reader \in [Reader -> ReaderState]
  BY <1>0 DEF ReaderInv, ReaderOk, Inv, TypeInv, ReaderState
<1>2. ASSUME NEW p \in Package, Used(p)
      PROVE  \E b : Good(b)
  <2>1. reader' = Noted(p)
    BY <1>2 DEF Used, Touch, Rename
  <2>2. reader[r] # IdleReader
    BY <2>1 DEF Noted
  <2>3. /\ reader'[r].pkg = a
        /\ reader'[r].newer = IF a = p THEN {} ELSE reader[r].newer \cup {p}
    BY <1>1, <2>1, <2>2 DEF Noted, ReaderState
  <2>4. /\ Live' = Live \cup {p} /\ NewerThan(p)' = {}
        /\ \A q \in Live \ {p} : NewerThan(q)' = NewerThan(q) \cup {p}
    BY <1>0, <1>2, UseFacts
  <2>5. Cardinality(reader[r].newer) <= Cardinality(reader[r].newer \cup {p})
    BY <1>1, PackagesFinite, FS_Subset
  <2>6. /\ Cardinality(reader[r].newer) \in Nat /\ Cardinality(reader[r].newer \cup {p}) \in Nat
    BY <1>1, PackagesFinite
  <2>7. CASE a = p
    BY <1>1, <2>2, <2>3, <2>4, <2>7
  <2>8. CASE a # p
    <3>1. a \in Live' <=> a \in Live
      BY <2>4, <2>8
    <3>2. a \in Live => NewerThan(a)' \subseteq reader[r].newer \cup {p}
      BY <1>1, <2>2, <2>4, <2>8
    <3>3. a \notin Live => Cardinality(reader[r].newer \cup {p}) >= MaxPackages
      BY <1>1, <2>2, <2>5, <2>6, StoreAssumption
    <3>4. QED
      BY <1>1, <2>2, <2>3, <2>8, <3>1, <3>2, <3>3
  <2>9. QED
    BY <2>7, <2>8
<1>3. ASSUME Quiet PROVE \E b : Good(b)
  <2>1. Live' = Live /\ \A q : NewerThan(q)' = NewerThan(q)
    BY <1>3, QuietFacts
  <2>2. ASSUME NEW p \in Package, NEW s \in Reader, BeginRead(s, p), s = r
        PROVE  \E b : Good(b)
    <3>1. reader'[r].pkg = p /\ reader'[r].newer = NewerThan(p) /\ p \in Finals
      BY <1>1, <2>2 DEF BeginRead, Finals
    <3>2. p \notin Live => NewerThan(p) = Package /\ Cardinality(Package) >= MaxPackages
      <4>1. p \notin Live => writer.pc = "evict" /\ writer.victims # {}
        BY <1>0, <3>1, OthersWhole
      <4>2. QED
        BY <1>0, <4>1 DEF NewerThan, KillFreeInv
    <3>3. QED
      BY <2>1, <3>1, <3>2
  <2>3. ASSUME \/ reader'[r] = reader[r]
               \/ \E T : reader'[r] = [reader[r] EXCEPT !.todo = T] /\ reader[r] # IdleReader
        PROVE  \E b : Good(b)
    <3>1. /\ reader'[r].pkg = a /\ reader'[r].newer = reader[r].newer
          /\ reader[r] # IdleReader
      BY <1>1, <2>3 DEF ReaderState
    <3>2. QED
      BY <1>1, <2>1, <3>1
  <2>4. ASSUME NEW s \in Reader, ReadFile(s), s = r
        PROVE  \E T : reader'[r] = [reader[r] EXCEPT !.todo = T] /\ reader[r] # IdleReader
    <3>1. Wanted(r) # {} /\ reader'[r] \in {IdleReader} \cup {[reader[r] EXCEPT !.todo = reader[r].todo \ {f}] : f \in Wanted(r)}
      BY <1>1, <2>4 DEF ReadFile
    <3>2. reader[r] # IdleReader
      BY <3>1 DEF Wanted, IdleReader
    <3>3. QED
      BY <3>1, <3>2
  <2>5. ASSUME NEW s \in Reader, ReadFails(s), s = r PROVE FALSE
    BY <1>1, <2>5 DEF ReadFails
  <2>6. ASSUME NEW s \in Reader, s # r, ReadFile(s) \/ ReadFails(s) \/ \E p \in Package : BeginRead(s, p)
        PROVE  reader'[r] = reader[r]
    BY <1>1, <2>6 DEF ReadFile, ReadFails, BeginRead
  <2>7. ASSUME \/ \E p \in Package : Start(p)
               \/ Open \/ Close \/ Sweep \/ Return \/ Kill \/ UNCHANGED vars
        PROVE  reader'[r] = reader[r]
    BY <2>7 DEF Start, Open, Close, Sweep, Return, Kill, vars
  <2>8. QED
    BY <1>3, <2>2, <2>3, <2>4, <2>5, <2>6, <2>7 DEF Quiet
<1>4. ASSUME Unlink PROVE \E b : Good(b)
  <2>1. PICK v \in writer.victims :
          /\ v \in Live => Cardinality(NewerThan(v)) >= MaxPackages
          /\ Live' = Live \ {v}
          /\ \A q \in Live' : NewerThan(q)' = NewerThan(q)
    BY <1>0, <1>4, UnlinkFacts
  <2>2. reader'[r] = reader[r] /\ reader[r] # IdleReader
    BY <1>4 DEF Unlink
  <2>3. ASSUME a = v, v \in Live
        PROVE  Cardinality(reader[r].newer) >= MaxPackages
    <3>1. NewerThan(v) \subseteq reader[r].newer
      BY <1>1, <2>2, <2>3
    <3>2. /\ Cardinality(NewerThan(v)) <= Cardinality(reader[r].newer)
          /\ Cardinality(reader[r].newer) \in Nat /\ Cardinality(NewerThan(v)) \in Nat
      BY <1>1, <3>1, PackagesFinite, FS_Subset
    <3>3. QED
      BY <2>1, <2>3, <3>2, StoreAssumption
  <2>4. QED
    BY <1>1, <2>1, <2>2, <2>3
<1>5. ASSUME RemoveDir PROVE \E b : Good(b)
  <2>1. Live' = Live /\ \A q \in Live' : NewerThan(q)' = NewerThan(q)
    BY <1>0, <1>5, RemoveDirFacts
  <2>2. reader'[r] = reader[r] /\ reader[r] # IdleReader
    BY <1>5 DEF RemoveDir
  <2>3. QED
    BY <1>1, <2>1, <2>2
<1>6. ASSUME Rename PROVE Used(writer.pkg) /\ writer.pkg \in Package
  BY <1>6 DEF Used, Rename, Inv, WriterInv
<1>7. PICK b : Good(b)
  BY <1>2, <1>3, <1>4, <1>5, <1>6, StepCases DEF Used
<1>8. QED
  BY <1>7 DEF ReaderOk

\* Of the packages all but one are there when an eviction begins.
LEMMA OneVictim ==
    ASSUME Inv, KillFreeInv, kills = 0, writer.pc = "sweep"
    PROVE  /\ \A v, w \in Victims : v = w
           /\ \A v \in Victims : Cardinality(Above(v)) >= MaxPackages
           /\ Cardinality(Finals \ Victims) <= MaxPackages
           /\ Victims # {} => Cardinality(Package) >= MaxPackages
<1>1. /\ Cardinality(Finals) <= MaxPackages + 1
      /\ writer.pkg \in Finals
      /\ \A p \in Finals \ {writer.pkg} : Newer(Final(writer.pkg), Final(p))
  BY DEF KillFreeInv
<1>2. /\ IsFiniteSet(Finals) /\ Cardinality(Finals) \in Nat /\ MaxPackages \in Nat /\ MaxPackages > 0
  BY PackagesFinite, StoreAssumption DEF Finals
<1>3. ASSUME NEW v \in Finals
      PROVE  /\ Above(v) \subseteq Finals \ {v} /\ IsFiniteSet(Above(v))
             /\ Cardinality(Above(v)) \in Nat
             /\ Cardinality(Finals \ {v}) = Cardinality(Finals) - 1
             /\ Cardinality(Above(v)) <= Cardinality(Finals \ {v})
             /\ Cardinality(Above(v)) = Cardinality(Finals \ {v}) => Above(v) = Finals \ {v}
  <2>1. Above(v) \subseteq Finals \ {v}
    BY FinalsOrdered DEF Inv
  <2>2. IsFiniteSet(Finals \ {v}) /\ Cardinality(Finals \ {v}) = Cardinality(Finals) - 1
    BY <1>2, FS_RemoveElement
  <2>3. QED
    BY <2>1, <2>2, PackagesFinite, FS_Subset DEF Finals
<1>4. ASSUME NEW v \in Finals, Cardinality(Above(v)) >= MaxPackages
      PROVE  Above(v) = Finals \ {v}
  <2>1. /\ Cardinality(Above(v)) <= Cardinality(Finals \ {v})
        /\ Cardinality(Finals \ {v}) = Cardinality(Finals) - 1
        /\ Cardinality(Above(v)) \in Nat
    BY <1>3
  <2>2. Cardinality(Above(v)) = Cardinality(Finals \ {v})
    BY <1>1, <1>2, <1>4, <2>1
  <2>3. QED
    BY <1>3, <2>2
<1>5. ASSUME NEW v \in Victims, NEW w \in Victims PROVE v = w
  <2>1. v \in Finals /\ w \in Finals /\ Above(v) = Finals \ {v} /\ Above(w) = Finals \ {w}
    BY <1>4, <1>5 DEF Victims
  <2>2. QED
    BY <2>1, FinalsOrdered DEF Inv
<1>6. \A v \in Victims : Cardinality(Above(v)) >= MaxPackages
  BY DEF Victims
<1>7. Cardinality(Finals \ Victims) <= MaxPackages
  <2>1. CASE Victims = {}
    <3>1. PICK p \in Finals : Above(p) = Finals \ {p}
      BY <1>1, OldestExists DEF Inv
    <3>2. CASE p = writer.pkg
      <4>1. \A q \in Finals \ {p} : p \in Above(q) /\ q \in Above(p)
        BY <1>1, <3>1, <3>2 DEF Above
      <4>2. Finals = {p}
        BY <4>1, FinalsOrdered DEF Inv
      <4>3. Finals \ Victims = {p} /\ Cardinality({p}) = 1
        BY <2>1, <4>2, FS_Singleton
      <4>4. QED
        BY <1>2, <4>3
    <3>3. CASE p # writer.pkg
      <4>1. ~ (Cardinality(Above(p)) >= MaxPackages)
        BY <2>1, <3>3 DEF Victims
      <4>2. Cardinality(Finals) - 1 < MaxPackages
        BY <1>2, <1>3, <3>1, <4>1
      <4>3. Finals \ Victims = Finals
        BY <2>1
      <4>4. QED
        BY <1>2, <4>2, <4>3
    <3>4. QED
      BY <3>2, <3>3
  <2>2. ASSUME NEW v \in Victims PROVE Cardinality(Finals \ Victims) <= MaxPackages
    <3>1. Victims = {v} /\ v \in Finals
      BY <1>5, <2>2 DEF Victims
    <3>2. Finals \ Victims = Finals \ {v} /\ Cardinality(Finals \ {v}) = Cardinality(Finals) - 1
      BY <1>3, <3>1
    <3>3. Cardinality(Finals \ {v}) <= MaxPackages
      BY <1>1, <1>2, <3>2
    <3>4. QED
      BY <3>2, <3>3
  <2>3. QED
    BY <2>1, <2>2
<1>8. ASSUME NEW v \in Victims PROVE Cardinality(Package) >= MaxPackages
  <2>1. v \in Finals /\ Cardinality(Above(v)) >= MaxPackages /\ Above(v) \subseteq Package
    BY <1>6, <1>8 DEF Victims, Above, Finals
  <2>2. /\ Cardinality(Above(v)) <= Cardinality(Package)
        /\ Cardinality(Above(v)) \in Nat /\ Cardinality(Package) \in Nat
    BY <2>1, PackagesFinite, FS_Subset, StoreAssumption
  <2>3. QED
    BY <2>1, <2>2, <1>2
<1>9. QED
  BY <1>5, <1>6, <1>7, <1>8

LEMMA KillFreeStep ==
    ASSUME Inv, KillFreeInv, [Next]_vars
    PROVE  KillFreeInv'
<1>. SUFFICES ASSUME kills' = 0 PROVE KillFreeInv'
  BY DEF KillFreeInv
<1>0. kills = 0
  BY KillsStep
<1>. USE <1>0 DEF KillFreeInv
<1>1. ASSUME NEW p \in Package, Touch(p) PROVE KillFreeInv'
  <2>1. writer' = writer /\ writer = IdleWriter /\ target' = target /\ partial' = partial
    BY <1>1 DEF Touch, Begin
  <2>2. Finals' = Finals /\ writer.pc = "idle" /\ Whole' = Whole
    BY <2>1 DEF Finals, IdleWriter, Whole
  <2>3. QED
    BY <2>1, <2>2
<1>2. ASSUME NEW p \in Package, Start(p) PROVE KillFreeInv'
  <2>1. /\ writer = IdleWriter /\ target' = target
        /\ writer'.pc = "files" /\ writer'.pkg = p
    BY <1>2 DEF Start, Begin, IdleWriter
  <2>2. Finals' = Finals /\ writer.pc = "idle" /\ Whole' = Whole
    BY <2>1 DEF Finals, IdleWriter, Whole
  <2>3. partial[p] = NoDir
    BY <2>2
  <2>4. recent' = Renewed(Draft(p)) /\ partial' = [partial EXCEPT ![p] = Empty]
    BY <1>2, <2>3 DEF Start
  <2>5. \A q \in Finals' : Newer(Draft(p), Final(q))'
    <3>1. ASSUME NEW q \in Finals PROVE Final(q) \in Directories /\ Final(q) # Draft(p)
      BY DirectoriesAre, Names DEF Finals
    <3>2. QED
      BY <2>2, <2>4, <3>1 DEF Newer, Renewed
  <2>6. \A q \in Package : partial'[q] # NoDir => q = p
    BY <2>2, <2>4 DEF Inv, TypeInv
  <2>7. QED
    BY <2>1, <2>2, <2>5, <2>6
<1>3. CASE Open \/ Close
  <2>1. PICK f \in File, s \in {"torn", "whole"} :
          /\ partial' = [partial EXCEPT ![writer.pkg][f] = s]
          /\ writer.pc = "files" /\ writer'.pc = "files" /\ writer'.pkg = writer.pkg
          /\ target' = target
          /\ recent' = recent \/ recent' = Renewed(Draft(writer.pkg))
    <3>1. CASE Open
      BY <3>1 DEF Open, Inv, TypeInv, WriterState
    <3>2. CASE Close
      BY <3>2 DEF Close, Inv, TypeInv, WriterState
    <3>3. QED
      BY <1>3, <3>1, <3>2
  <2>2. writer.pkg \in Package /\ partial[writer.pkg] # NoDir
    BY <2>1 DEF Inv, WriterInv
  <2>3. Finals' = Finals /\ Whole' = Whole
    BY <2>1 DEF Finals, Whole
  <2>4. \A q \in Package : (partial'[q] # NoDir) <=> (partial[q] # NoDir)
    BY <2>1, <2>2, FileSteps DEF Inv
  <2>5. \A q \in Finals : Newer(Draft(writer.pkg), Final(q))'
    <3>1. ASSUME NEW q \in Finals
          PROVE  /\ Final(q) \in Directories /\ Final(q) # Draft(writer.pkg)
                 /\ Newer(Draft(writer.pkg), Final(q))
      BY <2>1, DirectoriesAre, Names DEF Finals
    <3>2. QED
      BY <2>1, <3>1 DEF Newer, Renewed
  <2>6. QED
    BY <2>1, <2>3, <2>4, <2>5
<1>4. CASE Rename
  <2>1. /\ writer.pkg \in Package /\ writer.pc = "files" /\ Used(writer.pkg)
        /\ writer'.pc = "sweep" /\ writer'.pkg = writer.pkg
        /\ partial' = [partial EXCEPT ![writer.pkg] = NoDir]
    BY <1>4 DEF Rename, Used, Inv, WriterInv, TypeInv, WriterState
  <2>2. /\ Finals' = Finals \cup {writer.pkg} /\ target'[writer.pkg] # NoDir
        /\ \A q \in Finals \ {writer.pkg} : Above(q)' = Above(q) \cup {writer.pkg}
        /\ Live' = Finals'
    BY <2>1, UseOrder
  <2>3. \A q \in Finals' : target'[q] = Whole'
    BY <2>2 DEF Live
  <2>4. Cardinality(Finals') <= MaxPackages + 1
    <3>1. IsFiniteSet(Finals) /\ Cardinality(Finals) \in Nat /\ Cardinality(Finals) <= MaxPackages
      BY <2>1, PackagesFinite DEF Finals
    <3>2. Cardinality(Finals \cup {writer.pkg}) \in {Cardinality(Finals), Cardinality(Finals) + 1}
      BY <3>1, FS_AddElement
    <3>3. QED
      BY <2>2, <3>1, <3>2, StoreAssumption
  <2>5. \A q \in Finals' \ {writer.pkg} : Newer(Final(writer.pkg), Final(q))'
    BY <2>1, <2>2 DEF Above
  <2>6. \A q \in Package : partial'[q] = NoDir
    BY <2>1 DEF Inv, TypeInv
  <2>7. QED
    BY <2>1, <2>2, <2>3, <2>4, <2>5, <2>6
<1>5. CASE Sweep
  <2>1. /\ writer.pc = "sweep" /\ writer'.pc = "evict" /\ writer'.victims = Victims
        /\ partial' = [p \in Package |-> NoDir]
    BY <1>5 DEF Sweep, Inv, TypeInv, WriterState
  <2>2. target' = target /\ Finals' = Finals /\ \A p : Above(p)' = Above(p)
    BY <1>5, QuietFacts DEF Quiet
  <2>3. \A p \in Finals : target[p] = Whole
    BY <2>1
  <2>4. \A p \in Finals' : target'[p] = Whole'
    BY <2>2, <2>3 DEF Whole
  <2>5. /\ \A v, w \in writer'.victims : v = w
        /\ \A v \in writer'.victims : Cardinality(Above(v)') >= MaxPackages
        /\ Cardinality(Finals' \ writer'.victims) <= MaxPackages
        /\ writer'.victims # {} => Cardinality(Package) >= MaxPackages
    BY <2>1, <2>2, OneVictim
  <2>6. QED
    BY <2>1, <2>4, <2>5
<1>6. CASE Unlink
  <2>1. PICK v \in writer.victims :
          /\ v \in Finals /\ Finals' = Finals
          /\ \A q \in Package \ {v} : target'[q] = target[q]
          /\ target'[v] # Whole
    BY <1>6, UnlinkFacts
  <2>2. writer' = writer /\ writer.pc = "evict" /\ partial' = partial
    BY <1>6 DEF Unlink
  <2>3. writer.victims = {v}
    BY <2>2, OldestVictim
  <2>4. \A p \in Finals : p # v => target'[p] = Whole
    BY <2>1, <2>3 DEF Finals
  <2>5. Whole' = Whole
    BY DEF Whole
  <2>6. QED
    BY <2>1, <2>2, <2>3, <2>4, <2>5
<1>7. CASE RemoveDir
  <2>1. PICK v \in writer.victims :
          /\ writer.victims = {v} /\ writer'.victims = {} /\ writer'.pc = "evict"
          /\ Finals' = Finals \ {v}
          /\ \A q \in Package \ {v} : target'[q] = target[q]
    BY <1>7, RemoveDirFacts
  <2>2. writer.pc = "evict" /\ partial' = partial
    BY <1>7 DEF RemoveDir
  <2>3. \A p \in Finals' : target'[p] = Whole /\ Whole' = Whole
    BY <2>1 DEF Finals, Whole
  <2>4. Finals' \ writer'.victims = Finals \ writer.victims
    BY <2>1
  <2>5. QED
    BY <2>1, <2>2, <2>3, <2>4
<1>8. CASE Return
  <2>1. /\ writer.pc = "evict" /\ writer.victims = {} /\ writer'.pc = "idle"
        /\ target' = target /\ partial' = partial
    BY <1>8 DEF Return, IdleWriter
  <2>2. Finals' = Finals /\ Finals \ writer.victims = Finals /\ Whole' = Whole
    BY <2>1 DEF Finals, Whole
  <2>3. QED
    BY <2>1, <2>2
<1>9. ASSUME UNCHANGED <<target, partial, recent, writer>> PROVE KillFreeInv'
  BY <1>9 DEF Finals, Above, Newer, Draft, Final, Whole
<1>10. ASSUME \/ \E r \in Reader : ReadFile(r) \/ ReadFails(r) \/ \E p \in Package : BeginRead(r, p)
              \/ UNCHANGED vars
       PROVE  UNCHANGED <<target, partial, recent, writer>>
  BY <1>10 DEF ReadFile, ReadFails, BeginRead, vars
<1>11. ~Kill
  BY KillsStep DEF Kill, Inv, TypeInv
<1>12. QED
  BY <1>1, <1>2, <1>3, <1>4, <1>5, <1>6, <1>7, <1>8, <1>9, <1>10, <1>11 DEF Next, Write

-----------------------------------------------------------------------------
(* The invariant *)

LEMMA InvInit == Init => IndInv
<1>. SUFFICES ASSUME Init PROVE IndInv
  OBVIOUS
<1>1. /\ Finals = {} /\ Directories = {} /\ recent = {} /\ writer = IdleWriter
      /\ \A r \in Reader : reader[r] = IdleReader
  BY DEF Init, Finals, Directories
<1>2. TypeInv
  BY DEF Init, TypeInv, WriterState, ReaderState, Pcs, IdleWriter, IdleReader
<1>3. OrderInv
  BY <1>1 DEF OrderInv, Ordered
<1>4. WriterInv
  BY <1>1 DEF WriterInv, IdleWriter
<1>5. KillFreeInv
  <2>1. Cardinality(Finals) <= MaxPackages
    BY <1>1, FS_EmptySet, StoreAssumption
  <2>2. \A p \in Package : partial[p] = NoDir
    BY DEF Init
  <2>3. QED
    BY <1>1, <2>1, <2>2 DEF KillFreeInv, IdleWriter
<1>6. ReaderInv
  BY <1>1 DEF ReaderInv
<1>7. QED
  BY <1>2, <1>3, <1>4, <1>5, <1>6 DEF IndInv

LEMMA InvStep == IndInv /\ [Next]_vars => IndInv'
BY TypeStep, OrderStep, WriterStep, KillFreeStep, ReaderStep DEF IndInv, Inv

\* Whatever is killed and wherever, the mtimes order the directories of the
\* store, and a file not yet to be written of the package under way is whole;
\* while nothing is killed, at most one package is too many, it is the oldest
\* and the only one that is not whole, and a reader's package is there or was
\* pushed out.
THEOREM Inductive == Spec => []IndInv
<1>1. Init => IndInv
  BY InvInit
<1>2. IndInv /\ [Next]_vars => IndInv'
  BY InvStep
<1>3. QED
  BY <1>1, <1>2, PTL DEF Spec

-----------------------------------------------------------------------------
(* The store is an LRU cache *)

LEMMA SameCardinality == \A S : LRU!Cardinality(S) = Cardinality(S)
BY DEF LRU!Cardinality, Cardinality

LEMMA UseIsUse ==
    ASSUME Inv, KillFreeInv, kills = 0, kills' = 0, NEW p \in Package, Used(p)
    PROVE  LRU!Use(p)
<1>. DEFINE K == {x \in Kept \cup {p} : Cardinality(IF x = p THEN {} ELSE NewerThan(x) \cup {p}) < MaxPackages}
<1>1. /\ Live' = Live \cup {p} /\ NewerThan(p)' = {}
      /\ \A q \in Live \ {p} : NewerThan(q)' = NewerThan(q) \cup {p}
  BY UseFacts
<1>2. Kept' = {q \in Live' : Cardinality(NewerThan(q)') < MaxPackages}
  BY DEF Kept
<1>3. ASSUME NEW q \in Live \ {p}, Cardinality(NewerThan(q) \cup {p}) < MaxPackages
      PROVE  Cardinality(NewerThan(q)) < MaxPackages
  <2>1. NewerThan(q) \subseteq Package /\ NewerThan(q) \cup {p} \subseteq Package
    BY DEF NewerThan, Above, Live
  <2>2. /\ Cardinality(NewerThan(q)) <= Cardinality(NewerThan(q) \cup {p})
        /\ Cardinality(NewerThan(q)) \in Nat /\ Cardinality(NewerThan(q) \cup {p}) \in Nat
    BY <2>1, PackagesFinite, FS_Subset
  <2>3. QED
    BY <1>3, <2>2, StoreAssumption
<1>4. Cardinality({}) < MaxPackages
  BY FS_EmptySet, StoreAssumption
<1>5. Kept' = K
  <2>1. ASSUME NEW q PROVE q \in Kept' <=> q \in K
    <3>1. CASE q = p
      BY <1>1, <1>2, <1>4, <3>1
    <3>2. CASE q # p
      <4>1. q \in K <=> q \in Live /\ Cardinality(NewerThan(q)) < MaxPackages
                          /\ Cardinality(NewerThan(q) \cup {p}) < MaxPackages
        BY <3>2 DEF Kept
      <4>2. q \in Kept' <=> q \in Live /\ Cardinality(NewerThan(q) \cup {p}) < MaxPackages
        BY <1>1, <1>2, <3>2
      <4>3. QED
        BY <1>3, <3>2, <4>1, <4>2
    <3>3. QED
      BY <3>1, <3>2
  <2>2. QED
    BY <2>1
<1>6. \A q \in K : NewerThan(q)' = IF q = p THEN {} ELSE NewerThan(q) \cup {p}
  BY <1>1 DEF Kept
<1>7. [q \in Kept |-> NewerThan(q)]' = [q \in K |-> IF q = p THEN {} ELSE NewerThan(q) \cup {p}]
  BY <1>5, <1>6
<1>8. \A q \in Kept \cup {p} :
        LRU!Since(q, p) = IF q = p THEN {} ELSE NewerThan(q) \cup {p}
  BY DEF LRU!Since
<1>9. K = {x \in DOMAIN [q \in Kept |-> NewerThan(q)] \cup {p} :
              LRU!Cardinality(LRU!Since(x, p)) < MaxPackages}
  BY <1>8, SameCardinality
<1>10. QED
  BY <1>7, <1>8, <1>9 DEF LRU!Use

LEMMA RefinementStep ==
    ASSUME Inv, KillFreeInv, [Next]_vars
    PROVE  [LRU!Next]_<<[p \in Kept |-> NewerThan(p)], kills # 0>>
<1>1. CASE kills' # 0
  BY <1>1 DEF LRU!Next, LRU!Broken
<1>2. ASSUME kills' = 0, kills = 0, NEW p \in Package, Used(p) PROVE LRU!Next
  BY <1>2, UseIsUse DEF LRU!Next
<1>3. ASSUME kills' = 0, kills = 0, Kept' = Kept, \A q \in Kept : NewerThan(q)' = NewerThan(q)
      PROVE  UNCHANGED <<[p \in Kept |-> NewerThan(p)], kills # 0>>
  BY <1>3
<1>4. ASSUME kills' = 0, kills = 0, Quiet \/ Unlink \/ RemoveDir
      PROVE  Kept' = Kept /\ \A q \in Kept : NewerThan(q)' = NewerThan(q)
  <2>1. CASE Quiet
    BY <2>1, QuietFacts DEF Kept
  <2>2. CASE Unlink
    <3>1. PICK v \in writer.victims :
            /\ v \in Live => Cardinality(NewerThan(v)) >= MaxPackages
            /\ Live' = Live \ {v}
            /\ \A q \in Live' : NewerThan(q)' = NewerThan(q)
      BY <1>4, <2>2, UnlinkFacts
    <3>2. v \in Live => ~ (Cardinality(NewerThan(v)) < MaxPackages)
      <4>1. NewerThan(v) \subseteq Package
        BY DEF NewerThan, Above, Finals
      <4>2. QED
        BY <3>1, <4>1, PackagesFinite, StoreAssumption
    <3>3. Kept' = {q \in Live' : Cardinality(NewerThan(q)') < MaxPackages}
      BY DEF Kept
    <3>4. QED
      BY <3>1, <3>2, <3>3 DEF Kept
  <2>3. CASE RemoveDir
    <3>1. Live' = Live /\ \A q \in Live' : NewerThan(q)' = NewerThan(q)
      BY <1>4, <2>3, RemoveDirFacts
    <3>2. Kept' = {q \in Live' : Cardinality(NewerThan(q)') < MaxPackages}
      BY DEF Kept
    <3>3. QED
      BY <3>1, <3>2 DEF Kept
  <2>4. QED
    BY <1>4, <2>1, <2>2, <2>3
<1>5. kills' = 0 => kills = 0
  BY KillsStep
<1>6. ASSUME Rename PROVE Used(writer.pkg) /\ writer.pkg \in Package
  BY <1>6 DEF Used, Rename, Inv, WriterInv
<1>7. QED
  BY <1>1, <1>2, <1>3, <1>4, <1>5, <1>6, StepCases DEF Used

\* Until the first kill, the store is an LRU cache of MaxPackages packages:
\* writing one file at a time, renaming, and removing a victim file by file is
\* for its readers one atomic use, that pushes out the least recently used
\* package and no other.
THEOREM StoreIsLRU == Spec => IsLRU
<1>1. Init => LRU!Init
  <2>1. SUFFICES ASSUME Init PROVE LRU!Init
    OBVIOUS
  <2>2. Live = {}
    <3>1. Whole \in Dir
      BY DEF Whole, Dir
    <3>2. QED
      BY <2>1, <3>1, NoDirAssumption DEF Init, Live
  <2>3. Kept = {}
    BY <2>2 DEF Kept
  <2>4. [p \in Kept |-> NewerThan(p)] = [p \in {} |-> {}]
    BY <2>3
  <2>5. QED
    BY <2>1, <2>4 DEF LRU!Init, Init
<1>2. IndInv /\ [Next]_vars => [LRU!Next]_<<[p \in Kept |-> NewerThan(p)], kills # 0>>
  BY RefinementStep DEF IndInv, Inv
<1>3. QED
  BY <1>1, <1>2, Inductive, PTL DEF Spec, IsLRU, LRU!Spec

\* Until the first kill, a load fails only when MaxPackages other packages were
\* used after the reader's own, whatever the interleaving of its file reads
\* with writes and evictions.
THEOREM LoadsFailOnlyIfEvicted == Spec => FailsOnlyIfEvicted
<1>1. ASSUME IndInv, NEW r \in Reader, kills = 0, ReadFails(r)
      PROVE  Cardinality(reader[r].newer) >= MaxPackages
  <2>1. PICK f \in Wanted(r) : ~Loads(r, f)
    BY <1>1 DEF ReadFails
  <2>2. f \in File /\ reader[r] # IdleReader
    <3>1. f \in reader[r].todo /\ reader[r] \in ReaderState
      BY <1>1, <2>1 DEF Wanted, IndInv, TypeInv
    <3>2. QED
      BY <3>1 DEF ReaderState, IdleReader
  <2>3. ReaderOk(r)
    BY <1>1, <2>2 DEF IndInv, ReaderInv
  <2>4. reader[r].pkg \notin Live
    <3>1. ASSUME reader[r].pkg \in Live PROVE Loads(r, f)
      <4>1. target[reader[r].pkg] = Whole /\ Whole[f] = "whole" /\ Whole \in Dir
        BY <2>2, <3>1 DEF Live, Whole, Dir
      <4>2. QED
        BY <4>1, NoDirAssumption DEF Loads
    <3>2. QED
      BY <2>1, <3>1
  <2>5. QED
    BY <2>3, <2>4 DEF ReaderOk
<1>2. IndInv /\ [Next]_vars =>
        [ \A r \in Reader :
            kills = 0 /\ ReadFails(r) => Cardinality(reader[r].newer) >= MaxPackages ]_vars
  BY <1>1
<1>3. QED
  BY <1>2, Inductive, PTL DEF Spec, FailsOnlyIfEvicted
=============================================================================
