----------------------------- MODULE KeyMask_proofs -----------------------------
(***************************************************************************)
(* Key masks for every library: whatever order the packaging tool meets the   *)
(* files in, each has the mask of its place, and what was encrypted decrypts. *)
(***************************************************************************)
EXTENDS KeyMask, SequenceTheorems, WellFoundedInduction, TLAPS

-----------------------------------------------------------------------------
(* Lemmas on directories.                                                    *)

Directories == Seq(Names)

\* The first names of a directory.
LEMMA FirstNames ==
  ASSUME NEW d \in Directories, NEW k \in 0..Len(d)
  PROVE  /\ SubSeq(d, 1, k) \in Directories
         /\ Len(SubSeq(d, 1, k)) = k
         /\ \A j \in 1..k : SubSeq(d, 1, k)[j] = d[j]
  <1>1. Len(d) \in Nat /\ d \in [1..Len(d) -> Names]
    BY LenProperties DEF Directories
  <1>2. \A j \in 1..k : d[j] \in Names
    BY <1>1
  <1>3. /\ SubSeq(d, 1, k) \in Seq(Names)
        /\ Len(SubSeq(d, 1, k)) = IF 1 <= k THEN k - 1 + 1 ELSE 0
        /\ \A j \in 1..k - 1 + 1 : SubSeq(d, 1, k)[j] = d[1 + j - 1]
    BY <1>1, <1>2, SubSeqProperties
  <1>4. QED
    BY <1>1, <1>3 DEF Directories

\* All names of a directory, none of them, and the first of the first ones.
LEMMA AllNames ==
  ASSUME NEW d \in Directories
  PROVE  /\ Len(d) \in Nat /\ SubSeq(d, 1, Len(d)) = d /\ SubSeq(d, 1, 0) = Root
         /\ \A k \in 0..Len(d) : \A j \in 0..k :
              SubSeq(SubSeq(d, 1, k), 1, j) = SubSeq(d, 1, j)
         /\ Len(d) = 0 => d = Root
  <1>1. Len(d) \in Nat /\ Len(d) \in 0..Len(d) /\ 0 \in 0..Len(d)
    BY LenProperties DEF Directories
  <1>2. SubSeq(d, 1, Len(d)) = d
    BY <1>1, FirstNames, SeqEqual DEF Directories
  <1>3. SubSeq(d, 1, 0) = Root
    BY SubSeqEmpty DEF Root
  <1>4. ASSUME NEW k \in 0..Len(d), NEW j \in 0..k
        PROVE  SubSeq(SubSeq(d, 1, k), 1, j) = SubSeq(d, 1, j)
    <2> DEFINE e == SubSeq(d, 1, k)
    <2>1. e \in Directories /\ Len(e) = k /\ \A n \in 1..k : e[n] = d[n]
      BY FirstNames
    <2>2. j \in 0..Len(d) /\ j \in 0..Len(e)
      BY <1>1, <2>1
    <2> HIDE DEF e
    <2>3. /\ SubSeq(e, 1, j) \in Directories /\ Len(SubSeq(e, 1, j)) = j
          /\ \A n \in 1..j : SubSeq(e, 1, j)[n] = e[n]
      BY <2>1, <2>2, FirstNames
    <2>4. /\ SubSeq(d, 1, j) \in Directories /\ Len(SubSeq(d, 1, j)) = j
          /\ \A n \in 1..j : SubSeq(d, 1, j)[n] = d[n]
      BY <2>2, FirstNames
    <2>5. \A n \in 1..j : SubSeq(e, 1, j)[n] = SubSeq(d, 1, j)[n]
      BY <2>1, <2>3, <2>4
    <2>6. SubSeq(e, 1, j) = SubSeq(d, 1, j)
      BY <2>3, <2>4, <2>5, SeqEqual DEF Directories
    <2>7. QED
      BY <2>6 DEF e
  <1>5. Len(d) = 0 => d = Root
    BY <1>2, <1>3
  <1>6. QED
    BY <1>1, <1>2, <1>3, <1>4, <1>5

\* The directories on the way to d lie one below the other.
LEMMA LineageIsAChain ==
  ASSUME NEW d \in Directories
  PROVE  /\ d \in Lineage(d) /\ Root \in Lineage(d)
         /\ \A p \in Lineage(d) : /\ p \in Directories /\ Len(p) \in Nat /\ Len(p) <= Len(d)
                                  /\ p = SubSeq(d, 1, Len(p))
         /\ \A p, q \in Lineage(d) : Len(p) <= Len(q) => p \in Lineage(q)
         /\ \A q \in Lineage(d) : Lineage(q) \subseteq Lineage(d)
         /\ \A p, q \in Lineage(d) : Len(p) = Len(q) => p = q
  <1>1. Len(d) \in Nat /\ SubSeq(d, 1, Len(d)) = d /\ SubSeq(d, 1, 0) = Root
    BY AllNames
  <1>2. d \in Lineage(d) /\ Root \in Lineage(d)
    <2>1. 0 \in 0..Len(d) /\ Len(d) \in 0..Len(d)
      BY <1>1
    <2>2. QED
      BY <1>1, <2>1 DEF Lineage
  <1>3. ASSUME NEW p \in Lineage(d)
        PROVE  /\ p \in Directories /\ Len(p) \in Nat /\ Len(p) <= Len(d)
               /\ p = SubSeq(d, 1, Len(p))
    <2>1. PICK k \in 0..Len(d) : p = SubSeq(d, 1, k)
      BY DEF Lineage
    <2>2. p \in Directories /\ Len(p) = k
      BY <2>1, FirstNames
    <2>3. QED
      BY <1>1, <2>1, <2>2
  <1>4. ASSUME NEW q \in Lineage(d), NEW j \in 0..Len(q)
        PROVE  SubSeq(q, 1, j) = SubSeq(d, 1, j)
    <2>1. q = SubSeq(d, 1, Len(q)) /\ Len(q) \in 0..Len(d)
      BY <1>1, <1>3
    <2>2. SubSeq(SubSeq(d, 1, Len(q)), 1, j) = SubSeq(d, 1, j)
      BY <2>1, AllNames
    <2>3. QED
      BY <2>1, <2>2
  <1>5. ASSUME NEW p \in Lineage(d), NEW q \in Lineage(d), Len(p) <= Len(q)
        PROVE  p \in Lineage(q)
    <2>1. Len(p) \in 0..Len(q)
      BY <1>3, <1>5
    <2>2. p = SubSeq(q, 1, Len(p))
      BY <1>3, <1>4, <2>1
    <2>3. QED
      BY <2>1, <2>2 DEF Lineage
  <1>6. ASSUME NEW q \in Lineage(d), NEW p \in Lineage(q)
        PROVE  p \in Lineage(d)
    <2>1. PICK k \in 0..Len(q) : p = SubSeq(q, 1, k)
      BY DEF Lineage
    <2>2. k \in 0..Len(d) /\ p = SubSeq(d, 1, k)
      BY <1>1, <1>3, <1>4, <2>1
    <2>3. QED
      BY <2>2 DEF Lineage
  <1>7. ASSUME NEW p \in Lineage(d), NEW q \in Lineage(d), Len(p) = Len(q)
        PROVE  p = q
    <2>1. p = SubSeq(d, 1, Len(p)) /\ q = SubSeq(d, 1, Len(q))
      BY <1>3
    <2>2. QED
      BY <1>7, <2>1
  <1>8. QED
    BY <1>2, <1>3, <1>5, <1>6, <1>7

\* The way to a directory is the way to its parent and the directory itself.
LEMMA LineageOfParent ==
  ASSUME NEW d \in Directories
  PROVE  /\ Lineage(Root) = {Root} /\ Root \in Directories
         /\ d # Root => /\ Parent(d) \in Directories /\ Len(d) = Len(Parent(d)) + 1
                        /\ Lineage(d) = Lineage(Parent(d)) \cup {d}
                        /\ d \notin Lineage(Parent(d))
  <1>1. Len(d) \in Nat /\ SubSeq(d, 1, Len(d)) = d
    BY AllNames
  <1>2. Root \in Directories /\ Len(Root) = 0
    BY EmptySeq DEF Root, Directories
  <1>3. Lineage(Root) = {Root}
    <2>1. \A k \in 0..Len(Root) : k = 0
      BY <1>2
    <2>2. SubSeq(Root, 1, 0) = Root
      BY <1>2, AllNames
    <2>3. 0 \in 0..Len(Root)
      BY <1>2
    <2>4. QED
      BY <2>1, <2>2, <2>3 DEF Lineage
  <1>4. ASSUME d # Root
        PROVE  /\ Parent(d) \in Directories /\ Len(d) = Len(Parent(d)) + 1
               /\ Lineage(d) = Lineage(Parent(d)) \cup {d}
               /\ d \notin Lineage(Parent(d))
    <2>1. Len(d) # 0
      BY <1>4, AllNames
    <2>2. Len(d) - 1 \in 0..Len(d) /\ Parent(d) = SubSeq(d, 1, Len(d) - 1)
      BY <1>1, <2>1 DEF Parent, Front
    <2>3. Parent(d) \in Directories /\ Len(Parent(d)) = Len(d) - 1 /\ Parent(d) \in Lineage(d)
      BY <2>2, FirstNames DEF Lineage
    <2>4. Lineage(Parent(d)) \subseteq Lineage(d) /\ d \in Lineage(d)
      BY <2>3, LineageIsAChain
    <2>5. ASSUME NEW p \in Lineage(d), p # d
          PROVE  p \in Lineage(Parent(d))
      <3>1. Len(p) \in Nat /\ Len(p) <= Len(d) /\ Len(p) # Len(d)
        BY <2>4, <2>5, LineageIsAChain
      <3>2. Len(p) <= Len(Parent(d))
        BY <1>1, <2>3, <3>1
      <3>3. QED
        BY <2>3, <3>2, LineageIsAChain
    <2>6. d \notin Lineage(Parent(d))
      BY <1>1, <2>3, LineageIsAChain
    <2>7. QED
      BY <1>1, <2>3, <2>4, <2>5, <2>6
  <1>5. QED
    BY <1>2, <1>3, <1>4

\* The order of the natural numbers as a relation.
LEMMA LessThan == OpToRel(<, Nat) = {ss \in Nat \X Nat : ss[1] < ss[2]}
  BY DEF OpToRel

\* A set of numbers that is not empty has a least one.
LEMMA LeastNumber ==
  ASSUME NEW S \in SUBSET Nat, S # {}
  PROVE  \E m \in S : \A x \in S : m <= x
  <1> DEFINE R == {ss \in Nat \X Nat : ss[1] < ss[2]}
  <1>1. IsWellFoundedOn(R, Nat)
    BY LessThan, NatLessThanWellFounded, Zenon
  <1>2. PICK m \in S : \A x \in S : ~(<<x, m>> \in R)
    BY <1>1, WFMin
  <1>3. ASSUME NEW x \in S PROVE m <= x
    <2>1. m \in Nat /\ x \in Nat /\ <<x, m>> \in Nat \X Nat /\ <<x, m>>[1] = x /\ <<x, m>>[2] = m
      OBVIOUS
    <2>2. ~(x < m)
      BY <1>2, <2>1
    <2>3. QED
      BY <2>1, <2>2
  <1>4. QED
    BY <1>3

\* Of some directories on the way to d one is the nearest.
LEMMA NearestExists ==
  ASSUME NEW d \in Directories, NEW P \in SUBSET Lineage(d), P # {}
  PROVE  \E p \in P : \A q \in P : Len(q) <= Len(p)
  <1> DEFINE S == {Len(d) - Len(p) : p \in P}
  <1>1. Len(d) \in Nat /\ \A p \in P : Len(p) \in Nat /\ Len(p) <= Len(d)
    BY AllNames, LineageIsAChain
  <1>2. S \in SUBSET Nat /\ S # {}
    BY <1>1
  <1>3. PICK m \in S : \A x \in S : m <= x
    <2> HIDE DEF S
    <2>1. QED
      BY <1>2, LeastNumber
  <1>4. PICK p \in P : m = Len(d) - Len(p)
    BY <1>3
  <1>5. ASSUME NEW q \in P PROVE Len(q) <= Len(p)
    <2>1. Len(d) - Len(p) <= Len(d) - Len(q)
      BY <1>3, <1>4
    <2>2. QED
      BY <1>1, <2>1
  <1>6. QED
    BY <1>5

-----------------------------------------------------------------------------
(* Lemmas on masks. A table t of encrypted files stands for the variable.     *)

\* The packages on the way to d, and m is the mask the nearest of P stores.
PackagesOf(t, d) == {p \in Lineage(d) : PackageOf(p) \in DOMAIN t}
NearestOf(t, P, m) ==
  IF P = {} THEN m = NoMask
  ELSE \E p \in P : (\A q \in P : Len(q) <= Len(p)) /\ m = t[PackageOf(p)].tail

\* Packages, KeyOfNearest and MisKeyed for the table t.
Before(t, i) == {d \in Lineage(Dir(i)) : PackageOf(d) \in DOMAIN t /\ PackageOf(d) # i}
Mis(t, i) ==
  i \in Added /\ \E d, e \in Before(t, i) : PackageOf(d) \in Empty /\ Len(d) < Len(e)

\* What the properties say of the files, in the words used here.
LEMMA TablesOfFiles ==
  ASSUME NEW i
  PROVE  /\ Packages(i) = Before(files, i)
         /\ KeyOfNearest(i) <=> NearestOf(files, Before(files, i), files[i].mask)
         /\ MisKeyed(i) <=> Mis(files, i)
  BY DEF Packages, Before, KeyOfNearest, NearestOf, MisKeyed, Mis

\* Where a file is, and what its key depends on.
LEMMA PlaceOfFile ==
  ASSUME NEW i \in Items \cup Added, NEW t
  PROVE  /\ Dir(i) \in Directories
         /\ \A d : i = PackageOf(d) <=> IsPackage(i) /\ Dir(i) = d
         /\ ~IsPackage(i) => Before(t, i) = PackagesOf(t, Dir(i))
         /\ IsPackage(i) /\ Dir(i) = Root => Before(t, i) = {}
         /\ IsPackage(i) /\ Dir(i) # Root => Before(t, i) = PackagesOf(t, Parent(Dir(i)))
  <1>1. i \in Seq(Names) \X Names
    BY ItemAssumption
  <1>2. Dir(i) \in Directories /\ i = <<i[1], i[2]>>
    BY <1>1 DEF Dir, Directories
  <1>3. ASSUME NEW d PROVE i = PackageOf(d) <=> IsPackage(i) /\ Dir(i) = d
    BY <1>2 DEF PackageOf, IsPackage, Dir
  <1>4. ASSUME ~IsPackage(i) PROVE Before(t, i) = PackagesOf(t, Dir(i))
    BY <1>3, <1>4 DEF Before, PackagesOf
  <1>5. ASSUME IsPackage(i), Dir(i) = Root PROVE Before(t, i) = {}
    BY <1>2, <1>3, <1>5, LineageOfParent DEF Before
  <1>6. ASSUME IsPackage(i), Dir(i) # Root
        PROVE  Before(t, i) = PackagesOf(t, Parent(Dir(i)))
    <2>1. /\ Lineage(Dir(i)) = Lineage(Parent(Dir(i))) \cup {Dir(i)}
          /\ Dir(i) \notin Lineage(Parent(Dir(i)))
      BY <1>2, <1>6, LineageOfParent
    <2>2. QED
      BY <1>3, <1>6, <2>1 DEF Before, PackagesOf
  <1>7. QED
    BY <1>2, <1>3, <1>4, <1>5, <1>6

\* The nearest package is one, and so is its mask.
LEMMA NearestIsUnique ==
  ASSUME NEW d \in Directories, NEW P \in SUBSET Lineage(d), NEW t, NEW m, NEW n,
         NearestOf(t, P, m), NearestOf(t, P, n)
  PROVE  m = n
  <1>1. CASE P = {}
    BY <1>1 DEF NearestOf
  <1>2. CASE P # {}
    <2>1. PICK p \in P : (\A q \in P : Len(q) <= Len(p)) /\ m = t[PackageOf(p)].tail
      BY <1>2 DEF NearestOf
    <2>2. PICK q \in P : (\A r \in P : Len(r) <= Len(q)) /\ n = t[PackageOf(q)].tail
      BY <1>2 DEF NearestOf
    <2>3. Len(p) \in Nat /\ Len(q) \in Nat /\ Len(p) <= Len(q) /\ Len(q) <= Len(p)
      BY <2>1, <2>2, LineageIsAChain
    <2>4. p = q
      BY <2>3, LineageIsAChain
    <2>5. QED
      BY <2>1, <2>2, <2>4
  <1>3. QED
    BY <1>1, <1>2

\* A cache fits a table if it has for each directory the mask of its nearest package.
Fits(t, c) == \A q \in DOMAIN c : NearestOf(t, PackagesOf(t, q), c[q])

\* The search upwards finds the mask of the nearest package, provided that the
\* packages on the way are cached, and the directories it passes have no other.
LEMMA NearestFits ==
  ASSUME NEW t, NEW c, NEW d \in Directories, Fits(t, c), PackagesOf(t, d) \subseteq DOMAIN c
  PROVE  /\ NearestOf(t, PackagesOf(t, d), Nearest(c, d))
         /\ \A p \in Lineage(d) : (\A q \in Ancestors(c, d) : Len(p) > Len(q)) =>
              PackagesOf(t, p) = PackagesOf(t, d)
         /\ PackagesOf(t, d) \subseteq Ancestors(c, d)
  <1>1. PackagesOf(t, d) \subseteq Ancestors(c, d)
    BY DEF PackagesOf, Ancestors
  <1>2. NearestOf(t, PackagesOf(t, d), Nearest(c, d))
    <2>1. CASE Ancestors(c, d) = {}
      BY <1>1, <2>1 DEF Nearest, NearestOf
    <2>2. CASE Ancestors(c, d) # {}
      <3> DEFINE p == CHOOSE p \in Ancestors(c, d) : \A q \in Ancestors(c, d) : Len(q) <= Len(p)
      <3>1. Ancestors(c, d) \in SUBSET Lineage(d)
        BY DEF Ancestors
      <3>2. p \in Ancestors(c, d) /\ \A q \in Ancestors(c, d) : Len(q) <= Len(p)
        BY <2>2, <3>1, NearestExists
      <3>3. Nearest(c, d) = c[p]
        BY <2>2 DEF Nearest
      <3> HIDE DEF p
      <3>4. NearestOf(t, PackagesOf(t, p), c[p])
        BY <3>2 DEF Fits, Ancestors
      <3>5. p \in Lineage(d) /\ Lineage(p) \subseteq Lineage(d)
        BY <3>1, <3>2, LineageIsAChain
      <3>6. ASSUME NEW q \in PackagesOf(t, d) PROVE q \in Lineage(p)
        <4>1. q \in Lineage(d) /\ Len(q) <= Len(p)
          BY <1>1, <3>2, <3>6 DEF PackagesOf
        <4>2. QED
          BY <3>5, <4>1, LineageIsAChain
      <3>7. PackagesOf(t, p) = PackagesOf(t, d)
        BY <3>5, <3>6 DEF PackagesOf
      <3>8. QED
        BY <3>3, <3>4, <3>7
    <2>3. QED
      BY <2>1, <2>2
  <1>3. ASSUME NEW p \in Lineage(d), \A q \in Ancestors(c, d) : Len(p) > Len(q)
        PROVE  PackagesOf(t, p) = PackagesOf(t, d)
    <2>1. Lineage(p) \subseteq Lineage(d)
      BY LineageIsAChain
    <2>2. ASSUME NEW q \in PackagesOf(t, d) PROVE q \in Lineage(p)
      <3>1. q \in Lineage(d) /\ Len(p) > Len(q)
        BY <1>1, <1>3 DEF PackagesOf
      <3>2. Len(q) \in Nat /\ Len(p) \in Nat /\ Len(q) <= Len(p)
        BY <3>1, LineageIsAChain
      <3>3. QED
        BY <3>1, <3>2, LineageIsAChain
    <2>3. QED
      BY <2>1, <2>2 DEF PackagesOf
  <1>4. QED
    BY <1>1, <1>2, <1>3

\* So does the cache that mlle_mask_key leaves behind.
LEMMA RememberedFits ==
  ASSUME NEW t, NEW c, NEW d \in Directories, Fits(t, c), PackagesOf(t, d) \subseteq DOMAIN c
  PROVE  /\ Fits(t, Remembered(c, d))
         /\ DOMAIN c \subseteq DOMAIN Remembered(c, d)
         /\ DOMAIN Remembered(c, d) \subseteq DOMAIN c \cup Lineage(d)
  <1>1. d \in Lineage(d)
    BY LineageIsAChain
  <1>2. CASE DOMAIN c = {}
    <2>1. /\ DOMAIN Remembered(c, d) = {d} /\ Remembered(c, d)[d] = NoMask
          /\ PackagesOf(t, d) = {}
      BY <1>2 DEF Remembered, Put, EmptyCache
    <2>2. QED
      BY <1>1, <1>2, <2>1 DEF Fits, NearestOf
  <1>3. CASE DOMAIN c # {}
    <2> DEFINE below == {p \in Lineage(d) : \A q \in Ancestors(c, d) : Len(p) > Len(q)}
    <2>1. /\ DOMAIN Remembered(c, d) = DOMAIN c \cup below
          /\ \A p \in DOMAIN c \cup below :
               Remembered(c, d)[p] = IF p \in DOMAIN c THEN c[p] ELSE Nearest(c, d)
      BY <1>3 DEF Remembered
    <2>2. ASSUME NEW p \in DOMAIN c \cup below
          PROVE  NearestOf(t, PackagesOf(t, p), Remembered(c, d)[p])
      <3>1. CASE p \in DOMAIN c
        BY <2>1, <3>1 DEF Fits
      <3>2. CASE p \notin DOMAIN c
        <4>1. PackagesOf(t, p) = PackagesOf(t, d)
          BY <2>2, <3>2, NearestFits
        <4>2. Remembered(c, d)[p] = Nearest(c, d)
          BY <2>1, <3>2
        <4>3. QED
          BY <4>1, <4>2, NearestFits
      <3>3. QED
        BY <3>1, <3>2
    <2> HIDE DEF below
    <2>3. Fits(t, Remembered(c, d))
      BY <2>1, <2>2 DEF Fits
    <2>4. below \subseteq Lineage(d)
      BY DEF below
    <2>5. QED
      BY <2>1, <2>3, <2>4
  <1>4. QED
    BY <1>2, <1>3

-----------------------------------------------------------------------------
(* Lemmas on the files that are encrypted.                                   *)

\* Each has the mask of its place, but for those that encrypt_file gave another;
\* none that lies below a package has the bare key; what the packaging tool
\* encrypted lies below nothing that was added.
GoodFiles(t) ==
  /\ DOMAIN t \subseteq Items \cup Added
  /\ \A i \in DOMAIN t : IsPackage(i) => t[i].tail # NoMask
  /\ \A i \in DOMAIN t : NearestOf(t, Before(t, i), t[i].mask) \/ Mis(t, i)
  /\ \A i \in DOMAIN t : Before(t, i) # {} => t[i].mask # NoMask
  /\ \A i \in DOMAIN t \cap Items : \A d \in Lineage(Dir(i)) :
       PackageOf(d) \in DOMAIN t => PackageOf(d) \in Items

\* Another file changes no mask, if a package comes before all that is below it.
LEMMA SamePackages ==
  ASSUME NEW t, NEW i \in Items \cup Added, NEW r, i \notin DOMAIN t,
         NEW u, u = Put(t, i, r), NEW d, IsPackage(i) => Dir(i) \notin Lineage(d)
  PROVE  PackagesOf(u, d) = PackagesOf(t, d)
  <1>1. DOMAIN u = DOMAIN t \cup {i}
    BY DEF Put
  <1>2. \A p : i = PackageOf(p) <=> IsPackage(i) /\ Dir(i) = p
    BY PlaceOfFile
  <1>3. \A p \in Lineage(d) : PackageOf(p) \in DOMAIN u <=> PackageOf(p) \in DOMAIN t
    BY <1>1, <1>2
  <1>4. QED
    BY <1>3 DEF PackagesOf

\* Packages that keep what they store keep what is the nearest mask.
LEMMA SameNearest ==
  ASSUME NEW t, NEW u, NEW P, NEW m, \A p \in P : u[PackageOf(p)] = t[PackageOf(p)]
  PROVE  NearestOf(u, P, m) <=> NearestOf(t, P, m)
  BY DEF NearestOf

\* The file j depends on the same packages as before.
LEMMA SamePlace ==
  ASSUME NEW t, NEW i \in Items \cup Added, NEW r, i \notin DOMAIN t,
         NEW u, u = Put(t, i, r), NEW j, IsPackage(i) => Dir(i) \notin Lineage(Dir(j))
  PROVE  Before(u, j) = Before(t, j)
  <1>1. DOMAIN u = DOMAIN t \cup {i}
    BY DEF Put
  <1>2. \A d : i = PackageOf(d) <=> IsPackage(i) /\ Dir(i) = d
    BY PlaceOfFile
  <1>3. \A p \in Lineage(Dir(j)) : PackageOf(p) \in DOMAIN u <=> PackageOf(p) \in DOMAIN t
    BY <1>1, <1>2
  <1>4. QED
    BY <1>3 DEF Before

\* The files stay good when one with a good mask is added.
LEMMA OneMoreFile ==
  ASSUME NEW t, GoodFiles(t), NEW i \in Items \cup Added, i \notin DOMAIN t, NEW r,
         IsPackage(i) => r.tail # NoMask /\ \A j \in DOMAIN t : Dir(i) \notin Lineage(Dir(j)),
         NearestOf(t, Before(t, i), r.mask) \/ Mis(t, i),
         Before(t, i) # {} => r.mask # NoMask,
         i \in Items => \A d \in Lineage(Dir(i)) : PackageOf(d) \in DOMAIN t => PackageOf(d) \in Items
  PROVE  GoodFiles(Put(t, i, r))
  <1> DEFINE u == Put(t, i, r)
  <1>0. u = Put(t, i, r)
    OBVIOUS
  <1> HIDE DEF u
  <1>1. /\ DOMAIN u = DOMAIN t \cup {i} /\ u[i] = r
        /\ \A j \in DOMAIN t : u[j] = t[j]
    BY <1>0 DEF Put
  <1>3. Before(u, i) = Before(t, i)
    BY <1>1 DEF Before
  <1>2. ASSUME NEW j \in DOMAIN t PROVE Before(u, j) = Before(t, j)
    <2>1. IsPackage(i) => Dir(i) \notin Lineage(Dir(j))
      OBVIOUS
    <2>2. QED
      BY <1>0, <2>1, SamePlace
  <1>4. \A j \in DOMAIN u : Before(u, j) = Before(t, j) /\ Mis(u, j) = Mis(t, j)
    BY <1>1, <1>2, <1>3 DEF Mis
  <1>5. ASSUME NEW j, NEW m
        PROVE  NearestOf(u, Before(t, j), m) <=> NearestOf(t, Before(t, j), m)
    <2>1. \A p \in Before(t, j) : u[PackageOf(p)] = t[PackageOf(p)]
      BY <1>1 DEF Before
    <2>2. QED
      BY <2>1, SameNearest
  <1>6. ASSUME NEW j \in DOMAIN u
        PROVE  /\ IsPackage(j) => u[j].tail # NoMask
               /\ NearestOf(u, Before(u, j), u[j].mask) \/ Mis(u, j)
               /\ Before(u, j) # {} => u[j].mask # NoMask
    <2>1. CASE j = i
      BY <1>1, <1>4, <1>5, <2>1
    <2>2. CASE j \in DOMAIN t
      BY <1>1, <1>4, <1>5, <2>2 DEF GoodFiles
    <2>3. QED
      BY <1>1, <2>1, <2>2
  <1>7. ASSUME NEW j \in DOMAIN u \cap Items, NEW d \in Lineage(Dir(j)), PackageOf(d) \in DOMAIN u
        PROVE  PackageOf(d) \in Items
    <2>1. i = PackageOf(d) <=> IsPackage(i) /\ Dir(i) = d
      BY PlaceOfFile
    <2>2. CASE j = i
      BY <1>1, <1>7, <2>2
    <2>3. CASE j \in DOMAIN t
      <3>1. PackageOf(d) # i
        BY <2>1, <2>3
      <3>2. QED
        BY <1>1, <1>7, <2>3, <3>1 DEF GoodFiles
    <2>4. QED
      BY <1>1, <2>2, <2>3
  <1>8. DOMAIN u \subseteq Items \cup Added
    BY <1>1 DEF GoodFiles
  <1>9. GoodFiles(u)
    BY <1>6, <1>7, <1>8 DEF GoodFiles
  <1>10. QED
    BY <1>9 DEF u

\* A package above a file that is not mis-keyed is not mis-keyed either.
LEMMA PackagesAboveAreGood ==
  ASSUME NEW t, GoodFiles(t), NEW i \in DOMAIN t, NEW d \in Before(t, i), Mis(t, PackageOf(d))
  PROVE  Mis(t, i) /\ \E e \in Before(t, i) : PackageOf(e) \in Empty
  <1>1. /\ i \in Items \cup Added /\ d \in Lineage(Dir(i)) /\ Dir(i) \in Directories
        /\ PackageOf(d) \in DOMAIN t /\ PackageOf(d) \in Added /\ PackageOf(d) # i
    BY PlaceOfFile DEF GoodFiles, Before, Mis
  <1>2. Dir(PackageOf(d)) = d
    BY DEF Dir, PackageOf
  <1>3. d \in Directories /\ Lineage(d) \subseteq Lineage(Dir(i))
    BY <1>1, LineageIsAChain
  <1>4. ASSUME NEW e \in Before(t, PackageOf(d)) PROVE e \in Before(t, i)
    <2>1. e \in Lineage(d) /\ PackageOf(e) \in DOMAIN t /\ PackageOf(e) # PackageOf(d)
      BY <1>2 DEF Before
    <2>2. PackageOf(e) # i
      <3>1. SUFFICES ASSUME PackageOf(e) = i PROVE FALSE
        OBVIOUS
      <3>2. Dir(i) = e
        BY <3>1 DEF Dir, PackageOf
      <3>3. Len(e) \in Nat /\ Len(d) \in Nat /\ Len(e) <= Len(d) /\ Len(d) <= Len(e)
        BY <1>1, <1>3, <2>1, <3>2, LineageIsAChain
      <3>4. e \in Lineage(d) /\ d \in Lineage(d) /\ Len(e) = Len(d)
        BY <1>3, <2>1, <3>3, LineageIsAChain
      <3>5. e = d
        BY <1>3, <3>4, LineageIsAChain
      <3>6. QED
        BY <2>1, <3>5
    <2>3. QED
      BY <1>3, <2>1, <2>2 DEF Before
  <1>5. i \in Added
    <2>1. SUFFICES ASSUME i \in Items PROVE FALSE
      BY <1>1
    <2>2. PackageOf(d) \in Items
      BY <1>1, <2>1 DEF GoodFiles
    <2>3. QED
      BY <1>1, <2>2, ItemAssumption
  <1>6. PICK e, f \in Before(t, PackageOf(d)) : PackageOf(e) \in Empty /\ Len(e) < Len(f)
    BY DEF Mis
  <1>7. e \in Before(t, i) /\ f \in Before(t, i)
    BY <1>4, <1>6
  <1>8. QED
    BY <1>5, <1>6, <1>7 DEF Mis

-----------------------------------------------------------------------------
(* Encryption.                                                               *)

\* mlle_mask_key finds the mask of the nearest package, if those on the way are
\* cached.
LEMMA MaskKeyIsNearest ==
  ASSUME NEW t, NEW i \in Items \cup Added, NEW c, Fits(t, c),
         Before(t, i) \subseteq DOMAIN c, MaskKey(c, i).ok
  PROVE  /\ NearestOf(t, Before(t, i), MaskKey(c, i).mask)
         /\ IsPackage(i) => MaskKey(c, i).tail = fresh
  <1> DEFINE d == Dir(i)
  <1>1. d \in Directories
    BY PlaceOfFile
  <1>2. CASE ~IsPackage(i)
    <2>1. Before(t, i) = PackagesOf(t, d) /\ MaskKey(c, i).mask = Nearest(c, d)
      BY <1>2, PlaceOfFile DEF MaskKey
    <2> HIDE DEF d
    <2>2. NearestOf(t, PackagesOf(t, d), Nearest(c, d))
      BY <1>1, <2>1, NearestFits
    <2>3. QED
      BY <1>2, <2>1, <2>2
  <1>3. CASE IsPackage(i)
    <2>1. d \notin DOMAIN c
      BY <1>3 DEF MaskKey
    <2>2. MaskKey(c, i).tail = fresh
      BY <1>3, <2>1 DEF MaskKey
    <2>3. CASE d = Root \/ DOMAIN c = {}
      <3>1. MaskKey(c, i).mask = NoMask
        BY <1>3, <2>1, <2>3 DEF MaskKey
      <3>2. Before(t, i) = {}
        BY <1>3, <2>3, PlaceOfFile
      <3>3. QED
        BY <2>2, <3>1, <3>2 DEF NearestOf
    <2>4. CASE d # Root /\ DOMAIN c # {}
      <3>1. MaskKey(c, i).mask = Nearest(c, Parent(d))
        BY <1>3, <2>1, <2>4 DEF MaskKey
      <3>2. Parent(d) \in Directories /\ Before(t, i) = PackagesOf(t, Parent(d))
        BY <1>1, <1>3, <2>4, LineageOfParent, PlaceOfFile
      <3> HIDE DEF d
      <3>3. NearestOf(t, PackagesOf(t, Parent(d)), Nearest(c, Parent(d)))
        BY <3>2, NearestFits
      <3>4. QED
        BY <2>2, <3>1, <3>2, <3>3
    <2>5. QED
      BY <2>3, <2>4
  <1>4. QED
    BY <1>2, <1>3

\* The cache of the packaging tool has every package that is encrypted, no
\* directory that lies on the way to no encrypted file, and the right masks.
CacheOfTool(t, c) ==
  /\ Fits(t, c)
  /\ \A i \in DOMAIN t : IsPackage(i) => Dir(i) \in DOMAIN c
  /\ \A d \in DOMAIN c : \E j \in DOMAIN t : d \in Lineage(Dir(j))

\* The cache after one more file.
LEMMA CacheAfterFile ==
  ASSUME NEW t, NEW c, CacheOfTool(t, c), DOMAIN t \subseteq Items,
         NEW i \in Items, i \notin DOMAIN t, NEW r,
         IsPackage(i) => r.tail = fresh /\ \A j \in DOMAIN t : Dir(i) \notin Lineage(Dir(j))
  PROVE  MaskKey(c, i).ok /\ CacheOfTool(Put(t, i, r), MaskKey(c, i).cache)
  <1> DEFINE d == Dir(i)
             u == Put(t, i, r)
             e == MaskKey(c, i).cache
  <1>0. u = Put(t, i, r)
    OBVIOUS
  <1>1. d \in Directories /\ d \in Lineage(d)
    BY PlaceOfFile, LineageIsAChain
  <1>2. /\ DOMAIN u = DOMAIN t \cup {i} /\ u[i] = r
        /\ \A j \in DOMAIN t : u[j] = t[j]
    BY DEF Put
  <1>3. \A p \in Directories : PackagesOf(t, p) \subseteq DOMAIN c
    BY DEF PackagesOf, CacheOfTool, IsPackage, PackageOf, Dir
  <1>4. ASSUME NEW p, IsPackage(i) => d \notin Lineage(p), NEW m, NearestOf(t, PackagesOf(t, p), m)
        PROVE  NearestOf(u, PackagesOf(u, p), m)
    <2>1. PackagesOf(u, p) = PackagesOf(t, p)
      BY <1>0, <1>4, SamePackages
    <2>2. \A q \in PackagesOf(t, p) : u[PackageOf(q)] = t[PackageOf(q)]
      BY <1>2 DEF PackagesOf
    <2> HIDE DEF u
    <2>3. QED
      BY <1>4, <2>1, <2>2, SameNearest
  <1>5. CASE ~IsPackage(i)
    <2>1. e = Remembered(c, d) /\ MaskKey(c, i).ok
      BY <1>5 DEF MaskKey
    <2> HIDE DEF d, u, e
    <2>2. /\ Fits(t, e) /\ DOMAIN c \subseteq DOMAIN e
          /\ DOMAIN e \subseteq DOMAIN c \cup Lineage(d)
      BY <1>1, <1>3, <2>1, RememberedFits DEF CacheOfTool
    <2>3. Fits(u, e)
      BY <1>4, <1>5, <2>2 DEF Fits
    <2>4. ASSUME NEW q \in DOMAIN e PROVE \E j \in DOMAIN u : q \in Lineage(Dir(j))
      BY <1>2, <2>2 DEF CacheOfTool, d
    <2>5. \A j \in DOMAIN u : IsPackage(j) => Dir(j) \in DOMAIN e
      BY <1>2, <1>5, <2>2 DEF CacheOfTool
    <2>6. QED
      BY <2>1, <2>3, <2>4, <2>5 DEF CacheOfTool, u, e
  <1>6. CASE IsPackage(i)
    <2>1. i = PackageOf(d) /\ r.tail = fresh /\ \A j \in DOMAIN t : d \notin Lineage(Dir(j))
      BY <1>6, PlaceOfFile
    <2>2. d \notin DOMAIN c /\ MaskKey(c, i).ok
      BY <1>6, <2>1 DEF CacheOfTool, MaskKey
    <2>3. PICK f : /\ e = Put(f, d, fresh) /\ Fits(t, f) /\ DOMAIN c \subseteq DOMAIN f
                   /\ \A q \in DOMAIN f : q \in DOMAIN c \/ (d # Root /\ q \in Lineage(Parent(d)))
      <3>1. CASE d = Root \/ DOMAIN c = {}
        <4>1. e = Put(c, d, fresh)
          BY <1>6, <2>2, <3>1 DEF MaskKey
        <4>2. QED
          BY <4>1 DEF CacheOfTool
      <3>2. CASE d # Root /\ DOMAIN c # {}
        <4>1. e = Put(Remembered(c, Parent(d)), d, fresh)
          BY <1>6, <2>2, <3>2 DEF MaskKey
        <4>2. Parent(d) \in Directories
          BY <1>1, <3>2, LineageOfParent
        <4> DEFINE g == Remembered(c, Parent(d))
        <4>3. g = Remembered(c, Parent(d))
          OBVIOUS
        <4> HIDE DEF d, g, e
        <4>4. /\ Fits(t, g) /\ DOMAIN c \subseteq DOMAIN g
              /\ DOMAIN g \subseteq DOMAIN c \cup Lineage(Parent(d))
          BY <1>3, <4>2, <4>3, RememberedFits DEF CacheOfTool
        <4>5. e = Put(g, d, fresh)
          BY <4>1, <4>3
        <4>6. QED
          BY <3>2, <4>4, <4>5
      <3>3. QED
        BY <3>1, <3>2
    <2>4. ASSUME NEW q \in DOMAIN f PROVE d \notin Lineage(q)
      <3>1. CASE q \in DOMAIN c
        <4>1. PICK j \in DOMAIN t : q \in Lineage(Dir(j))
          BY <3>1 DEF CacheOfTool
        <4>2. Dir(j) \in Directories
          BY PlaceOfFile
        <4>3. Lineage(q) \subseteq Lineage(Dir(j))
          BY <4>1, <4>2, LineageIsAChain
        <4>4. QED
          BY <2>1, <4>3
      <3>2. CASE d # Root /\ q \in Lineage(Parent(d))
        <4>1. Parent(d) \in Directories /\ d \notin Lineage(Parent(d))
          BY <1>1, <3>2, LineageOfParent
        <4>2. Lineage(q) \subseteq Lineage(Parent(d))
          BY <3>2, <4>1, LineageIsAChain
        <4>3. QED
          BY <4>1, <4>2
      <3>3. QED
        BY <2>3, <3>1, <3>2
    <2>5. /\ DOMAIN e = DOMAIN f \cup {d} /\ e[d] = fresh
          /\ \A q \in DOMAIN f : q # d => e[q] = f[q]
      BY <2>3 DEF Put
    <2>6. NearestOf(u, PackagesOf(u, d), fresh)
      <3> HIDE DEF u, e
      <3>1. d \in PackagesOf(u, d)
        BY <1>1, <1>2, <2>1 DEF PackagesOf
      <3>2. \A q \in PackagesOf(u, d) : Len(q) <= Len(d)
        BY <1>1, LineageIsAChain DEF PackagesOf
      <3>3. fresh = u[PackageOf(d)].tail
        BY <1>2, <2>1
      <3>4. QED
        BY <3>1, <3>2, <3>3 DEF NearestOf
    <2> HIDE DEF d, u, e
    <2>7. ASSUME NEW q \in DOMAIN e PROVE NearestOf(u, PackagesOf(u, q), e[q])
      <3>1. CASE q = d
        BY <2>5, <2>6, <3>1
      <3>2. CASE q # d
        <4>1. q \in DOMAIN f /\ e[q] = f[q] /\ d \notin Lineage(q)
          BY <2>4, <2>5, <3>2
        <4>2. NearestOf(t, PackagesOf(t, q), f[q])
          BY <2>3, <4>1 DEF Fits
        <4>3. QED
          BY <1>4, <4>1, <4>2
      <3>3. QED
        BY <3>1, <3>2
    <2>8. ASSUME NEW q \in DOMAIN e PROVE \E j \in DOMAIN u : q \in Lineage(Dir(j))
      <3>1. CASE q \in DOMAIN c
        BY <1>2, <3>1 DEF CacheOfTool
      <3>2. CASE q \in Lineage(d)
        BY <1>2, <3>2 DEF d
      <3>3. d # Root => Lineage(Parent(d)) \subseteq Lineage(d)
        BY <1>1, LineageOfParent
      <3>4. QED
        BY <1>1, <2>3, <2>5, <3>1, <3>2, <3>3
    <2>9. \A j \in DOMAIN u : IsPackage(j) => Dir(j) \in DOMAIN e
      BY <1>2, <2>3, <2>5 DEF CacheOfTool, d
    <2>10. QED
      BY <2>2, <2>7, <2>8, <2>9 DEF CacheOfTool, Fits, u, e
  <1>7. QED
    BY <1>5, <1>6

\* The nearest of some packages that are encrypted stores a mask.
LEMMA NearestIsAMask ==
  ASSUME NEW t, GoodFiles(t), NEW P, P # {}, \A p \in P : PackageOf(p) \in DOMAIN t,
         NEW m, NearestOf(t, P, m)
  PROVE  m # NoMask
  <1>1. PICK p \in P : m = t[PackageOf(p)].tail
    BY DEF NearestOf
  <1>2. IsPackage(PackageOf(p)) /\ PackageOf(p) \in DOMAIN t
    BY DEF IsPackage, PackageOf
  <1>3. QED
    BY <1>1, <1>2 DEF GoodFiles

\* What holds while the packaging tool is in the directories of stack.
ToolAtWork ==
  /\ DOMAIN files \subseteq Items /\ CacheOfTool(files, cache)
  /\ stack \in Seq(Directories)
  /\ stack = <<>> => DOMAIN files = {}
  /\ \A n \in DOMAIN stack : PackageOf(stack[n]) \in Items => PackageOf(stack[n]) \in DOMAIN files

\* Who has which mask, and what the packaging tool has in its cache.
MaskInv ==
  /\ phase \in {"encrypt", "serve", "crash"} /\ fresh \in Nat \ {0}
  /\ GoodFiles(files)
  /\ phase = "encrypt" => ToolAtWork

\* The packaging tool encrypts one more file.
LEMMA ToolEncrypts ==
  ASSUME fresh \in Nat \ {0}, GoodFiles(files), ToolAtWork,
         NEW i \in Items, i \notin DOMAIN files, Encrypt(cache, i),
         IsPackage(i) => \A j \in DOMAIN files : Dir(i) \notin Lineage(Dir(j))
  PROVE  /\ phase' = phase /\ fresh' \in Nat \ {0}
         /\ GoodFiles(files') /\ CacheOfTool(files', cache')
         /\ DOMAIN files' = DOMAIN files \cup {i}
  <1> DEFINE k == MaskKey(cache, i)
             r == [mask |-> k.mask, tail |-> k.tail]
  <1>1. ASSUME NEW d \in Before(files, i) PROVE d \in DOMAIN cache /\ PackageOf(d) \in DOMAIN files
    <2>1. PackageOf(d) \in DOMAIN files /\ IsPackage(PackageOf(d)) /\ Dir(PackageOf(d)) = d
      BY DEF Before, IsPackage, PackageOf, Dir
    <2>2. QED
      BY <2>1 DEF ToolAtWork, CacheOfTool
  <1>2. CacheOfTool(files, cache) /\ Fits(files, cache) /\ DOMAIN files \subseteq Items
    BY DEF ToolAtWork, CacheOfTool
  <1>3. k.ok
    <2> DEFINE s == [mask |-> NoMask, tail |-> fresh]
    <2>1. s.tail = fresh
      OBVIOUS
    <2> HIDE DEF s
    <2>2. IsPackage(i) => s.tail = fresh /\ \A j \in DOMAIN files : Dir(i) \notin Lineage(Dir(j))
      BY <2>1
    <2>3. QED
      BY <1>2, <2>2, CacheAfterFile
  <1>4. NearestOf(files, Before(files, i), k.mask) /\ (IsPackage(i) => k.tail = fresh)
    BY <1>1, <1>2, <1>3, MaskKeyIsNearest
  <1>5. r.mask = k.mask /\ r.tail = k.tail
    OBVIOUS
  <1>6. /\ cache' = k.cache /\ files' = Put(files, i, r) /\ phase' = phase
        /\ fresh' = IF IsPackage(i) THEN fresh + 1 ELSE fresh
    BY <1>3 DEF Encrypt
  <1> HIDE DEF r
  <1>7. /\ IsPackage(i) => r.tail = fresh /\ \A j \in DOMAIN files : Dir(i) \notin Lineage(Dir(j))
        /\ IsPackage(i) => r.tail # NoMask /\ \A j \in DOMAIN files : Dir(i) \notin Lineage(Dir(j))
    BY <1>4, <1>5 DEF NoMask
  <1>8. CacheOfTool(Put(files, i, r), k.cache)
    BY <1>2, <1>7, CacheAfterFile
  <1>9. Before(files, i) # {} => r.mask # NoMask
    BY <1>1, <1>4, <1>5, NearestIsAMask
  <1>10. \A d \in Lineage(Dir(i)) : PackageOf(d) \in DOMAIN files => PackageOf(d) \in Items
    BY <1>2
  <1>11. GoodFiles(Put(files, i, r))
    BY <1>4, <1>5, <1>7, <1>9, <1>10, OneMoreFile
  <1>12. DOMAIN files' = DOMAIN files \cup {i} /\ fresh' \in Nat \ {0}
    BY <1>6 DEF Put
  <1>13. QED
    BY <1>6, <1>8, <1>11, <1>12

\* The directories of the library.
LEMMA TreeOfDirectories == \A d \in Tree : d \in Directories
  <1>1. ASSUME NEW i \in Items, NEW d \in Lineage(Dir(i)) PROVE d \in Directories
    BY PlaceOfFile, LineageIsAChain
  <1>2. QED
    BY <1>1 DEF Tree

\* The tool enters a directory from which nothing is encrypted yet.
LEMMA ToolEnters ==
  ASSUME MaskInv, NEW d \in Directories, Enter(d), \A j \in DOMAIN files : d \notin Lineage(Dir(j))
  PROVE  MaskInv'
  <1>1. /\ phase = "encrypt" /\ stack' = Append(stack, d) /\ ToolAtWork
        /\ fresh \in Nat \ {0} /\ GoodFiles(files) /\ DOMAIN files \subseteq Items
    BY DEF Enter, MaskInv, ToolAtWork
  <1>2. /\ stack \in Seq(Directories) /\ stack' \in Seq(Directories) /\ stack' # <<>>
        /\ DOMAIN stack' = DOMAIN stack \cup {Len(stack) + 1}
        /\ \A n \in DOMAIN stack : stack'[n] = stack[n]
        /\ stack'[Len(stack) + 1] = d
    BY <1>1 DEF ToolAtWork
  <1>3. CASE PackageOf(d) \in Items
    <2> DEFINE i == PackageOf(d)
    <2>1. i \in Items /\ Dir(i) = d
      BY <1>3 DEF Dir, PackageOf
    <2>2. Encrypt(cache, i)
      BY <1>3 DEF Enter
    <2>3. d \in Lineage(d)
      BY LineageIsAChain
    <2> HIDE DEF i
    <2>4. i \notin DOMAIN files
      BY <2>1, <2>3
    <2>5. IsPackage(i) => \A j \in DOMAIN files : Dir(i) \notin Lineage(Dir(j))
      BY <2>1
    <2>6. /\ phase' = phase /\ fresh' \in Nat \ {0}
          /\ GoodFiles(files') /\ CacheOfTool(files', cache')
          /\ DOMAIN files' = DOMAIN files \cup {i}
      BY <1>1, <2>1, <2>2, <2>4, <2>5, ToolEncrypts
    <2>7. \A n \in DOMAIN stack' : PackageOf(stack'[n]) \in Items => PackageOf(stack'[n]) \in DOMAIN files'
      BY <1>1, <1>2, <2>6 DEF ToolAtWork, i
    <2>8. ToolAtWork'
      BY <1>1, <1>2, <2>1, <2>6, <2>7 DEF ToolAtWork
    <2>9. QED
      BY <1>1, <2>6, <2>8 DEF MaskInv
  <1>4. CASE PackageOf(d) \notin Items
    <2>1. UNCHANGED <<phase, files, cache, fresh>>
      BY <1>4 DEF Enter
    <2>2. \A n \in DOMAIN stack' : PackageOf(stack'[n]) \in Items => PackageOf(stack'[n]) \in DOMAIN files'
      BY <1>1, <1>2, <1>4, <2>1 DEF ToolAtWork
    <2>3. ToolAtWork'
      BY <1>1, <1>2, <2>1, <2>2 DEF ToolAtWork
    <2>4. QED
      BY <1>1, <2>1, <2>3 DEF MaskInv
  <1>5. QED
    BY <1>3, <1>4

\* Entering a directory encrypts its package.mo, before all that is below it.
LEMMA EnterKeepsMasks == MaskInv /\ (EnterRoot \/ EnterFolder) => MaskInv'
  <1>1. ASSUME MaskInv, EnterRoot PROVE MaskInv'
    <2>1. stack = <<>> /\ Enter(Root) /\ phase = "encrypt"
      BY <1>1 DEF EnterRoot, Enter
    <2>2. DOMAIN files = {}
      BY <1>1, <2>1 DEF MaskInv, ToolAtWork
    <2>3. Root \in Directories
      BY EmptySeq DEF Root, Directories
    <2>4. QED
      BY <1>1, <2>1, <2>2, <2>3, ToolEnters
  <1>2. ASSUME MaskInv, EnterFolder PROVE MaskInv'
    <2>1. PICK d \in Folders(Last(stack)) : Enter(d)
      BY <1>2 DEF EnterFolder
    <2>2. d \in Directories /\ Untouched(d)
      BY TreeOfDirectories DEF Folders
    <2>3. DOMAIN files \subseteq Items
      BY <1>2, <2>1 DEF MaskInv, ToolAtWork, Enter
    <2>4. \A j \in DOMAIN files : d \notin Lineage(Dir(j))
      BY <2>2, <2>3 DEF Untouched, Pending
    <2>5. QED
      BY <1>2, <2>1, <2>2, <2>4, ToolEnters
  <1>3. QED
    BY <1>1, <1>2

\* An entry is encrypted after the package.mo of the directory it is in.
LEMMA EncryptEntryKeepsMasks == MaskInv /\ EncryptEntry => MaskInv'
  <1> SUFFICES ASSUME MaskInv, EncryptEntry PROVE MaskInv'
    OBVIOUS
  <1>1. PICK i \in Entries(Last(stack)) : Encrypt(cache, i)
    BY DEF EncryptEntry
  <1>2. /\ phase = "encrypt" /\ stack # <<>> /\ ToolAtWork /\ UNCHANGED stack
        /\ fresh \in Nat \ {0} /\ GoodFiles(files)
    BY DEF EncryptEntry, MaskInv
  <1>3. i \in Items /\ i \notin DOMAIN files /\ Dir(i) = Last(stack)
    BY DEF Entries, Pending
  <1>4. ~IsPackage(i)
    <2>1. Len(stack) \in DOMAIN stack /\ Last(stack) = stack[Len(stack)]
      BY <1>2 DEF ToolAtWork, Last
    <2>2. IsPackage(i) => i = PackageOf(Last(stack))
      BY <1>3, PlaceOfFile
    <2>3. QED
      BY <1>2, <1>3, <2>1, <2>2 DEF ToolAtWork
  <1>5. /\ phase' = phase /\ fresh' \in Nat \ {0}
        /\ GoodFiles(files') /\ CacheOfTool(files', cache')
        /\ DOMAIN files' = DOMAIN files \cup {i}
    BY <1>1, <1>2, <1>3, <1>4, ToolEncrypts
  <1>6. ToolAtWork'
    BY <1>2, <1>3, <1>5 DEF ToolAtWork
  <1>7. QED
    BY <1>2, <1>5, <1>6 DEF MaskInv

\* Leaving a directory encrypts nothing.
LEMMA LeaveKeepsMasks == MaskInv /\ Leave => MaskInv'
  <1> SUFFICES ASSUME MaskInv, Leave PROVE MaskInv'
    OBVIOUS
  <1>1. /\ phase = "encrypt" /\ ToolAtWork /\ stack # <<>> /\ stack' = Front(stack)
        /\ UNCHANGED <<files, fresh>> /\ fresh \in Nat \ {0} /\ GoodFiles(files)
    BY DEF Leave, MaskInv
  <1>2. CASE Len(stack) = 1
    BY <1>1, <1>2 DEF Leave, MaskInv
  <1>3. CASE Len(stack) # 1
    <2>1. UNCHANGED <<phase, cache>>
      BY <1>3 DEF Leave
    <2>2. stack \in Seq(Directories) /\ Len(stack) \in Nat /\ Len(stack) > 1
      <3>1. stack \in Seq(Directories)
        BY <1>1 DEF ToolAtWork
      <3>2. Len(stack) \in Nat \ {0}
        BY <1>1, <3>1, EmptySeq
      <3> DEFINE n == Len(stack)
      <3>3. n \in Nat \ {0} /\ n # 1
        BY <1>3, <3>2
      <3> HIDE DEF n
      <3>4. n \in Nat /\ n > 1
        BY <3>3
      <3>5. QED
        BY <3>1, <3>4 DEF n
    <2>3. /\ stack' \in Seq(Directories) /\ Len(stack') = Len(stack) - 1
          /\ \A n \in 1..Len(stack) - 1 : stack'[n] = stack[n]
      BY <1>1, <2>2 DEF Front
    <2>4. stack' # <<>> /\ DOMAIN stack' = 1..Len(stack) - 1 /\ DOMAIN stack = 1..Len(stack)
      BY <2>2, <2>3
    <2>5. ToolAtWork'
      BY <1>1, <2>1, <2>3, <2>4 DEF ToolAtWork
    <2>6. QED
      BY <1>1, <2>1, <2>5 DEF MaskInv
  <1>4. QED
    BY <1>2, <1>3

-----------------------------------------------------------------------------
(* Decryption: the walk of mlle_demask_key from the root down.                *)

\* The masks in c are those that the packages of their directories store.
Right(t, c) == \A q \in DOMAIN c : PackageOf(q) \in DOMAIN t /\ c[q] = t[PackageOf(q)].tail

\* The result r of a search that started with cache c and met the packages P. It
\* fails below an empty package, having cached one more mask; a search that
\* starts without any has then cached those of the packages down to that one.
FoundIn(c, P, r) ==
  /\ r.flag \in {-1, 0, 1} /\ Right(files, r.cache) /\ DOMAIN c \subseteq DOMAIN r.cache
  /\ r.flag = -1 => r.mask = NoMask /\ P # {}
  /\ (\A q \in P : ~Mis(files, PackageOf(q))) =>
       IF r.flag # -1 THEN NearestOf(files, P, r.mask)
       ELSE (\E q \in P : PackageOf(q) \in Empty) /\ DOMAIN r.cache # DOMAIN c
  /\ DOMAIN c = {} =>
       IF r.flag # -1 THEN \A q \in P : q \in DOMAIN r.cache /\ PackageOf(q) \notin Empty
       ELSE \E q \in P : /\ PackageOf(q) \in Empty
                         /\ \A p \in P : Len(p) <= Len(q) => p \in DOMAIN r.cache
Found(c, p, r) ==
  /\ FoundIn(c, PackagesOf(files, p), r)
  /\ r.flag = 0 => PackageOf(p) \in DOMAIN files
  /\ r.flag = 1 => PackageOf(p) \notin DOMAIN files

\* The packages on the way to p are those above p and its own.
LEMMA PackagesAbove ==
  ASSUME NEW t, NEW p \in Directories
  PROVE  /\ PackagesOf(t, p) = Before(t, PackageOf(p))
                                \cup (IF PackageOf(p) \in DOMAIN t THEN {p} ELSE {})
         /\ \A q \in Before(t, PackageOf(p)) : Len(q) < Len(p) /\ PackageOf(q) \in DOMAIN t
         /\ \A q \in PackagesOf(t, p) : Len(q) <= Len(p)
         /\ Before(t, PackageOf(p)) \subseteq Lineage(p)
  <1>1. Dir(PackageOf(p)) = p /\ \A q : PackageOf(q) = PackageOf(p) <=> q = p
    BY DEF Dir, PackageOf
  <1>2. p \in Lineage(p) /\ Len(p) \in Nat
    BY LineageIsAChain
  <1>3. PackagesOf(t, p) = Before(t, PackageOf(p))
                           \cup (IF PackageOf(p) \in DOMAIN t THEN {p} ELSE {})
    BY <1>1, <1>2 DEF PackagesOf, Before
  <1>4. ASSUME NEW q \in Before(t, PackageOf(p)) PROVE Len(q) < Len(p) /\ PackageOf(q) \in DOMAIN t
    <2>1. q \in Lineage(p) /\ q # p /\ PackageOf(q) \in DOMAIN t
      BY <1>1 DEF Before
    <2>2. Len(q) \in Nat /\ Len(q) <= Len(p) /\ Len(q) # Len(p)
      BY <1>2, <2>1, LineageIsAChain
    <2>3. QED
      BY <1>2, <2>1, <2>2
  <1>5. \A q \in PackagesOf(t, p) : Len(q) <= Len(p)
    BY LineageIsAChain DEF PackagesOf
  <1>6. Before(t, PackageOf(p)) \subseteq Lineage(p)
    BY <1>1 DEF Before
  <1>7. QED
    BY <1>3, <1>4, <1>5, <1>6

\* The package of p itself stores the nearest mask for what is in p.
LEMMA OwnPackageIsNearest ==
  ASSUME NEW t, NEW p \in Directories, PackageOf(p) \in DOMAIN t
  PROVE  NearestOf(t, PackagesOf(t, p), t[PackageOf(p)].tail)
  <1>1. p \in PackagesOf(t, p) /\ \A q \in PackagesOf(t, p) : Len(q) <= Len(p)
    BY PackagesAbove
  <1>2. QED
    BY <1>1 DEF NearestOf

\* One directory further down.
LEMMA DemaskOneBelow ==
  ASSUME GoodFiles(files), NEW c, Right(files, c), NEW p \in Directories, NEW above,
         FoundIn(c, Before(files, PackageOf(p)), above), above.flag # 0
  PROVE  Found(c, p, DemaskBelow(c, p, above))
  <1> DEFINE A == Before(files, PackageOf(p))
             P == PackagesOf(files, p)
             package == files[PackageOf(p)]
             opened == Store(above.cache, p, package.tail)
             r == DemaskBelow(c, p, above)
  <1>1. CASE p \in DOMAIN c
    <2>1. r = [cache |-> c, mask |-> c[p], flag |-> 0]
      BY <1>1 DEF DemaskBelow
    <2>2. PackageOf(p) \in DOMAIN files /\ c[p] = package.tail
      BY <1>1 DEF Right
    <2>3. NearestOf(files, P, c[p])
      BY <2>2, OwnPackageIsNearest
    <2> HIDE DEF P, r
    <2>4. r.cache = c /\ r.mask = c[p] /\ r.flag = 0
      BY <2>1
    <2>5. FoundIn(c, P, r)
      BY <1>1, <2>3, <2>4 DEF FoundIn
    <2>6. QED
      BY <2>2, <2>4, <2>5 DEF Found, P, r
  <1>2. CASE p \notin DOMAIN c /\ PackageOf(p) \notin DOMAIN files
    <2>1. r = above /\ P = A
      BY <1>2, PackagesAbove DEF DemaskBelow
    <2> HIDE DEF P, r, A
    <2>2. FoundIn(c, A, above)
      BY DEF A
    <2>3. QED
      BY <1>2, <2>1, <2>2 DEF Found, P, r
  <1>3. CASE p \notin DOMAIN c /\ PackageOf(p) \in DOMAIN files
    <2>1. P = A \cup {p} /\ \A q \in A : Len(q) < Len(p)
      BY <1>3, PackagesAbove
    <2>2. \A q \in A : Len(q) \in Nat /\ Len(p) \in Nat
      BY LineageIsAChain, PackagesAbove
    <2>3. A \in SUBSET Lineage(p)
      BY PackagesAbove
    <2>4. FoundIn(c, A, above)
      OBVIOUS
    <2>5. NearestOf(files, A, package.mask) \/ Mis(files, PackageOf(p))
      BY <1>3 DEF GoodFiles
    <2>6. A # {} => package.mask # NoMask
      BY <1>3 DEF GoodFiles
    <2>7. Mis(files, PackageOf(p)) => \E q \in A : PackageOf(q) \in Empty
      BY DEF Mis
    <2>8. ASSUME NEW q \in A, Mis(files, PackageOf(q)) PROVE \E e \in A : PackageOf(e) \in Empty
      BY <1>3, <2>8, PackagesAboveAreGood
    <2>9. r = IF package.mask # above.mask
              THEN [cache |-> above.cache, mask |-> NoMask, flag |-> -1]
              ELSE IF PackageOf(p) \in Empty
              THEN [cache |-> opened, mask |-> NoMask, flag |-> -1]
              ELSE [cache |-> opened, mask |-> package.tail, flag |-> 0]
      BY <1>3 DEF DemaskBelow
    <2>10. /\ p \in DOMAIN opened /\ DOMAIN opened = DOMAIN above.cache \cup {p}
           /\ Right(files, above.cache) => Right(files, opened)
      BY <1>3 DEF Store, Put, Right
    <2>11. NearestOf(files, P, package.tail)
      BY <1>3, OwnPackageIsNearest
    <2> HIDE DEF A, P, package, opened, r
    <2>12. above.flag # -1 => above.flag = 1
      BY <2>4 DEF FoundIn
    <2>13. ASSUME NEW m, NearestOf(files, A, m), NearestOf(files, A, package.mask)
           PROVE  m = package.mask
      BY <2>3, <2>13, NearestIsUnique
    <2>14. CASE package.mask # above.mask
      <3>1. r.cache = above.cache /\ r.mask = NoMask /\ r.flag = -1
        BY <2>9, <2>14
      <3>2. ASSUME \A q \in P : ~Mis(files, PackageOf(q))
            PROVE  (\E q \in P : PackageOf(q) \in Empty) /\ DOMAIN r.cache # DOMAIN c
        <4>1. \A q \in A : ~Mis(files, PackageOf(q))
          BY <2>1, <3>2
        <4>2. NearestOf(files, A, package.mask)
          BY <2>1, <2>5, <3>2
        <4>3. above.flag = -1
          BY <2>4, <2>13, <2>14, <4>1, <4>2 DEF FoundIn
        <4>4. QED
          BY <2>1, <2>4, <3>1, <4>1, <4>3 DEF FoundIn
      <3>3. ASSUME DOMAIN c = {}
            PROVE  \E q \in P : /\ PackageOf(q) \in Empty
                                /\ \A e \in P : Len(e) <= Len(q) => e \in DOMAIN r.cache
        <4>1. above.flag = -1
          <5>1. SUFFICES ASSUME above.flag # -1 PROVE FALSE
            OBVIOUS
          <5>2. \A q \in A : PackageOf(q) \notin Empty
            BY <2>4, <3>3, <5>1 DEF FoundIn
          <5>3. NearestOf(files, A, package.mask) /\ \A q \in A : ~Mis(files, PackageOf(q))
            BY <2>5, <2>7, <2>8, <5>2
          <5>4. NearestOf(files, A, above.mask)
            BY <2>4, <5>1, <5>3 DEF FoundIn
          <5>5. QED
            BY <2>13, <2>14, <5>3, <5>4
        <4>2. PICK q \in A : /\ PackageOf(q) \in Empty
                             /\ \A e \in A : Len(e) <= Len(q) => e \in DOMAIN above.cache
          BY <2>4, <3>3, <4>1 DEF FoundIn
        <4>3. ~(Len(p) <= Len(q))
          BY <2>1, <2>2
        <4>4. QED
          BY <2>1, <3>1, <4>2, <4>3
      <3>4. FoundIn(c, P, r)
        BY <2>1, <2>4, <3>1, <3>2, <3>3 DEF FoundIn
      <3>5. QED
        BY <3>1, <3>4 DEF Found, P, r
    <2>15. CASE package.mask = above.mask
      <3>1. above.flag = 1
        BY <2>4, <2>6, <2>12, <2>15 DEF FoundIn
      <3>2. Right(files, opened) /\ DOMAIN c \subseteq DOMAIN opened
        BY <2>4, <2>10 DEF FoundIn
      <3>3. DOMAIN c = {} => \A q \in P : q \in DOMAIN opened /\ (q # p => PackageOf(q) \notin Empty)
        BY <2>1, <2>4, <2>10, <3>1 DEF FoundIn
      <3>4. CASE PackageOf(p) \in Empty
        <4>1. r.cache = opened /\ r.mask = NoMask /\ r.flag = -1
          BY <2>9, <2>15, <3>4
        <4>2. p \in P /\ DOMAIN opened # DOMAIN c
          BY <1>3, <2>1, <2>10
        <4>3. FoundIn(c, P, r)
          BY <3>2, <3>3, <3>4, <4>1, <4>2 DEF FoundIn
        <4>4. QED
          BY <4>1, <4>3 DEF Found, P, r
      <3>5. CASE PackageOf(p) \notin Empty
        <4>1. r.cache = opened /\ r.mask = package.tail /\ r.flag = 0
          BY <2>9, <2>15, <3>5
        <4>2. FoundIn(c, P, r)
          BY <2>11, <3>2, <3>3, <3>5, <4>1 DEF FoundIn
        <4>3. QED
          BY <1>3, <4>1, <4>2 DEF Found, P, r
      <3>6. QED
        BY <3>4, <3>5
    <2>16. QED
      BY <2>14, <2>15
  <1>4. QED
    BY <1>1, <1>2, <1>3

\* The packages that the key of a package.mo depends on.
LEMMA BeforePackage ==
  ASSUME NEW t, NEW p \in Directories
  PROVE  /\ p = Root => Before(t, PackageOf(p)) = {}
         /\ p # Root => Before(t, PackageOf(p)) = PackagesOf(t, Parent(p))
  <1>1. Dir(PackageOf(p)) = p /\ \A q : PackageOf(q) = PackageOf(p) <=> q = p
    BY DEF Dir, PackageOf
  <1>2. CASE p = Root
    BY <1>1, <1>2, LineageOfParent DEF Before
  <1>3. CASE p # Root
    <2>1. Lineage(p) = Lineage(Parent(p)) \cup {p} /\ p \notin Lineage(Parent(p))
      BY <1>3, LineageOfParent
    <2>2. QED
      BY <1>1, <1>3, <2>1 DEF Before, PackagesOf
  <1>4. QED
    BY <1>2, <1>3

\* The search for a package.mo starts with nothing found at the root, and with
\* what was found for the directory above elsewhere.
LEMMA FoundAtRoot ==
  ASSUME NEW c, Right(files, c)
  PROVE  FoundIn(c, {}, AtRoot(c)) /\ AtRoot(c).flag # 0
  <1>1. AtRoot(c).cache = c /\ AtRoot(c).mask = NoMask /\ AtRoot(c).flag = 1
    BY DEF AtRoot
  <1>2. QED
    BY <1>1 DEF FoundIn, NearestOf

\* What is found for the directory above, taken over for its package.moc.
LEMMA FoundAbove ==
  ASSUME NEW c, NEW p \in Directories, p # Root, NEW s, Found(c, Parent(p), s)
  PROVE  /\ FoundIn(c, Before(files, PackageOf(p)), ForPackage(s))
         /\ ForPackage(s).flag # 0
  <1> DEFINE r == ForPackage(s)
             P == PackagesOf(files, Parent(p))
  <1>1. /\ r.cache = s.cache /\ r.mask = s.mask
        /\ r.flag = IF s.flag < 0 THEN -1 ELSE 1
    BY DEF ForPackage
  <1>2. Before(files, PackageOf(p)) = P
    BY BeforePackage
  <1>3. FoundIn(c, P, s)
    BY DEF Found
  <1> HIDE DEF r, P
  <1>4. s.flag \in {-1, 0, 1}
    BY <1>3 DEF FoundIn
  <1>5. r.flag # 0 /\ r.flag \in {-1, 1} /\ (r.flag = -1 <=> s.flag = -1)
    BY <1>1, <1>4
  <1>6. FoundIn(c, P, r)
    BY <1>1, <1>3, <1>5 DEF FoundIn
  <1>7. QED
    BY <1>2, <1>5, <1>6 DEF r

\* The walk as the recursive function of DemaskKey, for as many names as k.
WalkTo(c, d, g, k) ==
  [n \in 0..k |->
     DemaskBelow(c, SubSeq(d, 1, n), IF n = 0 THEN AtRoot(c) ELSE ForPackage(g[n-1]))]

\* The walk down to any depth exists: there is no least depth at which it does not.
LEMMA WalkExists ==
  ASSUME NEW c, NEW d, NEW k \in Nat
  PROVE  \E g : g = WalkTo(c, d, g, k)
  <1> DEFINE Walks(m) == \E g : g = WalkTo(c, d, g, m)
             S == {m \in Nat : ~Walks(m)}
             At(n, above) == DemaskBelow(c, SubSeq(d, 1, n), above)
  <1>1. SUFFICES ASSUME S # {} PROVE FALSE
    OBVIOUS
  <1>2. PICK m \in S : \A x \in S : m <= x
    <2>1. S \in SUBSET Nat
      OBVIOUS
    <2> HIDE DEF S
    <2>2. QED
      BY <1>1, <2>1, LeastNumber
  <1>3. m # 0
    <2>1. Walks(0)
      <3> DEFINE g == [n \in 0..0 |-> At(0, AtRoot(c))]
      <3> HIDE DEF At
      <3>1. g = [n \in 0..0 |-> At(n, IF n = 0 THEN AtRoot(c) ELSE ForPackage(g[n-1]))]
        OBVIOUS
      <3>2. g = WalkTo(c, d, g, 0)
        BY <3>1 DEF WalkTo, At
      <3>3. QED
        BY <3>2
    <2>2. QED
      BY <2>1, <1>2
  <1>4. m - 1 \in Nat /\ m - 1 \notin S
    BY <1>2, <1>3
  <1>5. PICK g : g = WalkTo(c, d, g, m - 1)
    <2>1. Walks(m - 1)
      BY <1>4
    <2>2. QED
      BY <2>1
  <1> DEFINE h == [n \in 0..m |-> IF n = m THEN At(m, ForPackage(g[m-1])) ELSE g[n]]
  <1>6. \A n \in 0..m-1 : g[n] = At(n, IF n = 0 THEN AtRoot(c) ELSE ForPackage(g[n-1]))
    BY <1>5 DEF WalkTo
  <1> HIDE DEF At
  <1>7. ASSUME NEW n \in 0..m
        PROVE  h[n] = At(n, IF n = 0 THEN AtRoot(c) ELSE ForPackage(h[n-1]))
    <2>1. CASE n = 0
      BY <1>3, <1>4, <1>6, <2>1
    <2>2. CASE n = m
      BY <1>3, <1>4, <2>2
    <2>3. CASE n # 0 /\ n # m
      <3>1. n \in 0..m-1 /\ n - 1 \in 0..m /\ n - 1 # m
        BY <2>3, <1>4
      <3>2. g[n] = At(n, ForPackage(g[n-1]))
        BY <1>6, <2>3, <3>1
      <3>3. QED
        BY <2>3, <3>1, <3>2
    <2>4. QED
      BY <2>1, <2>2, <2>3
  <1>8. h = WalkTo(c, d, h, m)
    <2>1. h = [n \in 0..m |-> At(n, IF n = 0 THEN AtRoot(c) ELSE ForPackage(h[n-1]))]
      BY <1>7
    <2>2. QED
      BY <2>1 DEF WalkTo, At
  <1>9. Walks(m)
    BY <1>8
  <1>10. QED
    BY <1>2, <1>9

\* DemaskKey is what the walk comes to at the directory itself.
LEMMA DemaskIsTheWalk ==
  ASSUME NEW c, NEW d \in Directories
  PROVE  \E g : g = WalkTo(c, d, g, Len(d)) /\ DemaskKey(c, d) = g[Len(d)]
  <1> DEFINE f == CHOOSE g : g = WalkTo(c, d, g, Len(d))
  <1>1. Len(d) \in Nat
    BY AllNames
  <1>2. f = WalkTo(c, d, f, Len(d))
    BY <1>1, WalkExists
  <1>3. DemaskKey(c, d) = f[Len(d)]
    BY DEF DemaskKey, WalkTo
  <1>4. QED
    BY <1>2, <1>3

\* What mlle_demask_key finds for the files of d, and what it leaves in the cache.
LEMMA DemaskFinds ==
  ASSUME GoodFiles(files), NEW c, Right(files, c), NEW d \in Directories
  PROVE  Found(c, d, DemaskKey(c, d))
  <1>1. PICK g : g = WalkTo(c, d, g, Len(d)) /\ DemaskKey(c, d) = g[Len(d)]
    BY DemaskIsTheWalk
  <1>2. Len(d) \in Nat /\ SubSeq(d, 1, Len(d)) = d /\ SubSeq(d, 1, 0) = Root
    BY AllNames
  <1> DEFINE At(n) == SubSeq(d, 1, n)
             S == {n \in 0..Len(d) : ~Found(c, At(n), g[n])}
  <1>3. \A n \in 0..Len(d) :
          g[n] = DemaskBelow(c, At(n), IF n = 0 THEN AtRoot(c) ELSE ForPackage(g[n-1]))
    BY <1>1 DEF WalkTo
  <1>4. SUFFICES ASSUME S # {} PROVE FALSE
    <2>1. Len(d) \in 0..Len(d) /\ At(Len(d)) = d
      BY <1>2
    <2>2. ASSUME S = {} PROVE Found(c, At(Len(d)), g[Len(d)])
      BY <2>1, <2>2
    <2>3. QED
      BY <1>1, <2>1, <2>2
  <1>5. PICK m \in S : \A x \in S : m <= x
    <2>1. S \in SUBSET Nat
      OBVIOUS
    <2> HIDE DEF S
    <2>2. QED
      BY <1>4, <2>1, LeastNumber
  <1>6. m \in 0..Len(d) /\ At(m) \in Directories /\ Len(At(m)) = m
    BY <1>5, FirstNames
  <1>7. CASE m = 0
    <2>1. At(m) = Root /\ g[m] = DemaskBelow(c, Root, AtRoot(c)) /\ Root \in Directories
      BY <1>2, <1>3, <1>6, <1>7
    <2>2. FoundIn(c, Before(files, PackageOf(Root)), AtRoot(c)) /\ AtRoot(c).flag # 0
      BY <2>1, FoundAtRoot, BeforePackage
    <2>3. Found(c, Root, g[m])
      BY <2>1, <2>2, DemaskOneBelow
    <2>4. QED
      BY <1>5, <2>1, <2>3
  <1>8. CASE m # 0
    <2>1. m - 1 \in 0..Len(d) /\ m - 1 \notin S
      BY <1>2, <1>5, <1>6, <1>8
    <2>2. Found(c, At(m-1), g[m-1])
      BY <2>1
    <2>3. At(m) # Root /\ Parent(At(m)) = At(m-1)
      <3>1. Parent(At(m)) = SubSeq(SubSeq(d, 1, m), 1, m - 1)
        BY <1>6 DEF Parent, Front
      <3>2. m - 1 \in 0..m
        BY <1>6, <1>8
      <3>3. SubSeq(SubSeq(d, 1, m), 1, m - 1) = SubSeq(d, 1, m - 1)
        BY <1>6, <3>2, AllNames
      <3>4. Len(Root) = 0
        BY EmptySeq DEF Root
      <3>5. QED
        BY <1>6, <1>8, <3>1, <3>3, <3>4
    <2>4. g[m] = DemaskBelow(c, At(m), ForPackage(g[m-1]))
      BY <1>3, <1>6, <1>8
    <2> DEFINE s == g[m-1]
               p == At(m)
    <2>5. Found(c, Parent(p), s) /\ p \in Directories /\ p # Root
      BY <1>6, <2>2, <2>3
    <2>6. g[m] = DemaskBelow(c, p, ForPackage(s)) /\ ~Found(c, p, g[m])
      BY <1>5, <2>4
    <2> HIDE DEF s, p
    <2>7. /\ FoundIn(c, Before(files, PackageOf(p)), ForPackage(s))
          /\ ForPackage(s).flag # 0
      BY <2>5, FoundAbove
    <2>8. Found(c, p, DemaskBelow(c, p, ForPackage(s)))
      BY <2>5, <2>7, DemaskOneBelow
    <2>9. QED
      BY <2>6, <2>8
  <1>9. QED
    BY <1>7, <1>8

\* ... and for any file: the packages its key depends on.
LEMMA FindKeyFinds ==
  ASSUME GoodFiles(files), NEW c, Right(files, c), NEW i \in Items \cup Added
  PROVE  /\ FoundIn(c, Before(files, i), FindKey(c, i))
         /\ ~IsPackage(i) => /\ Found(c, Dir(i), FindKey(c, i))
                             /\ Before(files, i) = PackagesOf(files, Dir(i))
         /\ IsPackage(i) => FindKey(c, i).flag # 0
  <1>1. Dir(i) \in Directories
    BY PlaceOfFile
  <1>2. CASE ~IsPackage(i)
    <2>1. Found(c, Dir(i), DemaskKey(c, Dir(i)))
      BY <1>1, DemaskFinds
    <2>2. FindKey(c, i) = DemaskKey(c, Dir(i)) /\ Before(files, i) = PackagesOf(files, Dir(i))
      BY <1>2, PlaceOfFile DEF FindKey
    <2>3. QED
      BY <1>2, <2>1, <2>2 DEF Found
  <1>3. CASE IsPackage(i) /\ Dir(i) = Root
    <2>1. FindKey(c, i) = AtRoot(c) /\ Before(files, i) = {}
      BY <1>3, PlaceOfFile DEF FindKey
    <2>2. QED
      BY <1>3, <2>1, FoundAtRoot
  <1>4. CASE IsPackage(i) /\ Dir(i) # Root
    <2>1. FindKey(c, i) = ForPackage(DemaskKey(c, Parent(Dir(i)))) /\ i = PackageOf(Dir(i))
      BY <1>4, PlaceOfFile DEF FindKey
    <2>2. Found(c, Parent(Dir(i)), DemaskKey(c, Parent(Dir(i))))
      BY <1>1, <1>4, LineageOfParent, DemaskFinds
    <2>3. /\ FoundIn(c, Before(files, i), ForPackage(DemaskKey(c, Parent(Dir(i)))))
          /\ ForPackage(DemaskKey(c, Parent(Dir(i)))).flag # 0
      BY <1>1, <1>4, <2>1, <2>2, FoundAbove
    <2>4. QED
      BY <1>4, <2>1, <2>3
  <1>5. QED
    BY <1>2, <1>3, <1>4

-----------------------------------------------------------------------------
(* Adding files: every file has the mask of its place.                       *)

\* A file below a package whose mask is cached gets some mask, and a package.mo
\* a fresh one to store.
LEMMA MaskKeyIsAMask ==
  ASSUME NEW t, GoodFiles(t), NEW c, Right(t, c), NEW i \in Items \cup Added, MaskKey(c, i).ok
  PROVE  /\ IsPackage(i) => MaskKey(c, i).tail = fresh
         /\ Before(t, i) \cap DOMAIN c # {} => MaskKey(c, i).mask # NoMask
  <1>1. IsPackage(i) => MaskKey(c, i).tail = fresh
    BY DEF MaskKey
  <1>2. ASSUME Before(t, i) \cap DOMAIN c # {}
        PROVE  \E d \in Directories : /\ MaskKey(c, i).mask = Nearest(c, d)
                                      /\ Before(t, i) = PackagesOf(t, d)
    <2>1. CASE ~IsPackage(i)
      BY <2>1, PlaceOfFile DEF MaskKey
    <2>2. CASE IsPackage(i)
      <3>1. Dir(i) # Root /\ Before(t, i) = PackagesOf(t, Parent(Dir(i))) /\ Dir(i) \in Directories
        BY <1>2, <2>2, PlaceOfFile
      <3>2. MaskKey(c, i).mask = Nearest(c, Parent(Dir(i)))
        BY <1>2, <2>2, <3>1 DEF MaskKey
      <3>3. QED
        BY <3>1, <3>2, LineageOfParent
    <2>3. QED
      BY <2>1, <2>2
  <1>3. ASSUME Before(t, i) \cap DOMAIN c # {} PROVE MaskKey(c, i).mask # NoMask
    <2>1. PICK d \in Directories : /\ MaskKey(c, i).mask = Nearest(c, d)
                                   /\ Before(t, i) = PackagesOf(t, d)
      BY <1>2, <1>3
    <2> DEFINE p == CHOOSE p \in Ancestors(c, d) : \A q \in Ancestors(c, d) : Len(q) <= Len(p)
    <2>2. Ancestors(c, d) # {} /\ Ancestors(c, d) \in SUBSET Lineage(d)
      BY <1>3, <2>1 DEF PackagesOf, Ancestors
    <2>3. p \in Ancestors(c, d)
      BY <2>2, NearestExists
    <2>4. Nearest(c, d) = c[p]
      BY <2>2 DEF Nearest
    <2> HIDE DEF p
    <2>5. PackageOf(p) \in DOMAIN t /\ c[p] = t[PackageOf(p)].tail
      BY <2>3 DEF Ancestors, Right
    <2>6. IsPackage(PackageOf(p))
      BY DEF IsPackage, PackageOf
    <2>7. QED
      BY <2>1, <2>4, <2>5, <2>6 DEF GoodFiles
  <1>4. QED
    BY <1>1, <1>3

\* A cache with the masks that packages store has the nearest ones.
LEMMA RightFits ==
  ASSUME NEW t, DOMAIN t \subseteq Items \cup Added, NEW c, Right(t, c)
  PROVE  Fits(t, c)
  <1>1. ASSUME NEW q \in DOMAIN c PROVE NearestOf(t, PackagesOf(t, q), c[q])
    <2>1. PackageOf(q) \in DOMAIN t /\ c[q] = t[PackageOf(q)].tail /\ Dir(PackageOf(q)) = q
      BY DEF Right, Dir, PackageOf
    <2>2. q \in Directories
      BY <2>1, PlaceOfFile
    <2>3. QED
      BY <2>1, <2>2, OwnPackageIsNearest
  <1>2. QED
    BY <1>1 DEF Fits

\* encrypt_file gives a file the mask of its place, or the file is one of MisKeyed.
LEMMA AddFileKeepsMasks == MaskInv /\ AddFile => MaskInv'
  <1> SUFFICES ASSUME MaskInv, AddFile PROVE MaskInv'
    OBVIOUS
  <1>1. PICK i \in Added \ DOMAIN files : InOrder(i) /\ Adds(i, FindKey(EmptyCache, i).cache)
    BY DEF AddFile
  <1> DEFINE found == FindKey(EmptyCache, i)
             c == found.cache
             k == MaskKey(c, i)
             r == [mask |-> k.mask, tail |-> k.tail]
             B == Before(files, i)
  <1>2. GoodFiles(files) /\ fresh \in Nat \ {0} /\ i \in Items \cup Added /\ phase = "serve"
    BY DEF MaskInv, AddFile
  <1>3. Right(files, EmptyCache) /\ DOMAIN EmptyCache = {}
    BY DEF Right, EmptyCache
  <1>4. FoundIn(EmptyCache, B, found)
    BY <1>2, <1>3, FindKeyFinds
  <1>5. /\ k.ok /\ files' = Put(files, i, r) /\ phase' = phase
        /\ fresh' = IF IsPackage(i) THEN fresh + 1 ELSE fresh
    BY <1>1 DEF Adds
  <1>6. r.mask = k.mask /\ r.tail = k.tail
    OBVIOUS
  <1>7. B \subseteq Lineage(Dir(i)) /\ Dir(i) \in Directories
    BY <1>2, PlaceOfFile DEF Before
  <1> HIDE DEF found, r, B
  <1>8. Right(files, c)
    BY <1>4 DEF FoundIn
  <1>9. Fits(files, c)
    BY <1>2, <1>8, RightFits DEF GoodFiles
  <1> HIDE DEF c, k
  <1>10. (IsPackage(i) => k.tail = fresh) /\ (B \cap DOMAIN c # {} => k.mask # NoMask)
    BY <1>2, <1>5, <1>8, MaskKeyIsAMask DEF k, B
  <1>11. B \subseteq DOMAIN c \/ \E p, q \in B : /\ PackageOf(q) \in Empty /\ q \in DOMAIN c
                                                /\ ~(Len(p) <= Len(q))
    <2>1. CASE found.flag # -1
      BY <1>3, <1>4, <2>1 DEF FoundIn, c
    <2>2. CASE found.flag = -1
      <3>1. PICK q \in B : /\ PackageOf(q) \in Empty
                           /\ \A p \in B : Len(p) <= Len(q) => p \in DOMAIN c
        BY <1>3, <1>4, <2>2 DEF FoundIn, c
      <3>2. Len(q) <= Len(q)
        BY <1>7, LineageIsAChain
      <3>3. QED
        BY <3>1, <3>2
    <2>3. QED
      BY <2>1, <2>2
  <1>12. (NearestOf(files, B, r.mask) \/ Mis(files, i)) /\ (B # {} => r.mask # NoMask)
    <2>1. CASE B \subseteq DOMAIN c
      <3>1. NearestOf(files, B, k.mask)
        BY <1>2, <1>5, <1>9, <2>1, MaskKeyIsNearest DEF k, B
      <3>2. QED
        BY <1>6, <1>10, <2>1, <3>1
    <2>2. CASE \E p, q \in B : PackageOf(q) \in Empty /\ q \in DOMAIN c /\ ~(Len(p) <= Len(q))
      <3>1. PICK p, q \in B : PackageOf(q) \in Empty /\ q \in DOMAIN c /\ ~(Len(p) <= Len(q))
        BY <2>2
      <3>2. Len(p) \in Nat /\ Len(q) \in Nat
        BY <1>7, LineageIsAChain
      <3>3. Len(q) < Len(p)
        BY <3>1, <3>2
      <3>4. Mis(files, i)
        BY <1>1, <3>1, <3>3 DEF Mis, B
      <3>5. QED
        BY <1>6, <1>10, <3>1, <3>4
    <2>3. QED
      BY <1>11, <2>1, <2>2
  <1>13. IsPackage(i) => r.tail # NoMask /\ \A j \in DOMAIN files : Dir(i) \notin Lineage(Dir(j))
    BY <1>1, <1>2, <1>6, <1>10 DEF InOrder, NoMask
  <1>14. i \notin DOMAIN files /\ i \notin Items
    BY <1>1, ItemAssumption
  <1>15. GoodFiles(Put(files, i, r))
    BY <1>2, <1>12, <1>13, <1>14, OneMoreFile DEF B
  <1>16. QED
    BY <1>2, <1>5, <1>15 DEF MaskInv

\* At first there are no files.
LEMMA MaskInit == Init => MaskInv
  <1> SUFFICES ASSUME Init PROVE MaskInv
    OBVIOUS
  <1>1. /\ phase = "encrypt" /\ stack = <<>> /\ DOMAIN files = {} /\ cache = EmptyCache /\ fresh = 1
        /\ DOMAIN cache = {}
    BY DEF Init, EmptyCache
  <1>2. GoodFiles(files)
    BY <1>1 DEF GoodFiles
  <1>3. CacheOfTool(files, cache)
    BY <1>1 DEF CacheOfTool, Fits
  <1>4. stack \in Seq(Directories) /\ DOMAIN stack = {}
    BY <1>1
  <1>5. ToolAtWork
    BY <1>1, <1>3, <1>4 DEF ToolAtWork
  <1>6. QED
    BY <1>1, <1>2, <1>5 DEF MaskInv

\* Every step keeps the masks of the files right.
LEMMA MaskStep == MaskInv /\ [Next]_vars => MaskInv'
  <1> SUFFICES ASSUME MaskInv, [Next]_vars PROVE MaskInv'
    OBVIOUS
  <1>1. CASE EnterRoot \/ EnterFolder
    BY <1>1, EnterKeepsMasks
  <1>2. CASE EncryptEntry
    BY <1>2, EncryptEntryKeepsMasks
  <1>3. CASE Leave
    BY <1>3, LeaveKeepsMasks
  <1>4. CASE ReadFile
    <2>1. phase = "serve" /\ phase' \in {"crash", "serve"} /\ UNCHANGED <<files, fresh>>
      BY <1>4 DEF ReadFile
    <2>2. QED
      BY <2>1 DEF MaskInv
  <1>5. CASE NewLve
    BY <1>5 DEF NewLve, MaskInv
  <1>6. CASE AddFile
    BY <1>6, AddFileKeepsMasks
  <1>7. CASE UNCHANGED vars
    BY <1>7 DEF vars, MaskInv, ToolAtWork
  <1>8. QED
    BY <1>1, <1>2, <1>3, <1>4, <1>5, <1>6, <1>7 DEF Next

\* Every file has the mask of its nearest package.mo, for every library, every
\* order in which directories are listed and every file that is added later, but
\* for those that encrypt_file adds below a package.mo without contents and
\* another package.mo; and the packaging tool is never refused a package.mo.
THEOREM MaskOfPlace == Spec => []MaskOfNearestPackage
  <1>1. MaskInv => MaskOfNearestPackage
    BY TablesOfFiles DEF MaskInv, GoodFiles, MaskOfNearestPackage
  <1>2. QED
    BY <1>1, MaskInit, MaskStep, PTL DEF Spec

-----------------------------------------------------------------------------
(* Reading: what was encrypted decrypts.                                     *)

\* What a request finds and leaves behind, if the cache is right and the
\* directory of the file has a package.mo.
LEMMA DecryptedWell ==
  ASSUME GoodFiles(files), NEW c, Right(files, c), NEW i \in DOMAIN files,
         PackageOf(Dir(i)) \in DOMAIN files
  PROVE  /\ Right(files, Decrypted(c, i).cache)
         /\ Decrypted(c, i).outcome \in {"contents", "failed"}
         /\ Decrypted(c, i).outcome = "failed" => EmptyAbove(i)
         /\ Mis(files, i) \/ Decrypted(c, i).outcome = "contents"
                          \/ DOMAIN Decrypted(c, i).cache # DOMAIN c
  <1> DEFINE k == FindKey(c, i)
             B == Before(files, i)
             r == Decrypted(c, i)
  <1>1. i \in Items \cup Added /\ Dir(i) \in Directories /\ B \in SUBSET Lineage(Dir(i))
    BY PlaceOfFile DEF GoodFiles, Before
  <1>2. FoundIn(c, B, k)
    BY <1>1, FindKeyFinds
  <1>3. ASSUME ~IsPackage(i) PROVE k.flag # 1
    <2>1. Found(c, Dir(i), k)
      BY <1>1, <1>3, FindKeyFinds
    <2>2. QED
      BY <2>1 DEF Found
  <1>4. ASSUME IsPackage(i) PROVE k.flag # 0 /\ i = PackageOf(Dir(i))
    BY <1>1, <1>4, FindKeyFinds, PlaceOfFile
  <1>5. ASSUME NEW q \in B, Mis(files, PackageOf(q))
        PROVE  Mis(files, i) /\ \E e \in B : PackageOf(e) \in Empty
    BY <1>5, PackagesAboveAreGood
  <1>6. /\ NearestOf(files, B, files[i].mask) \/ Mis(files, i)
        /\ B # {} => files[i].mask # NoMask
        /\ Mis(files, i) => \E e \in B : PackageOf(e) \in Empty
    BY DEF GoodFiles, Mis
  <1>7. r = IF k.mask # files[i].mask THEN [cache |-> k.cache, outcome |-> "failed"]
            ELSE IF k.flag = 0 THEN [cache |-> k.cache, outcome |-> "contents"]
            ELSE IF IsPackage(i) THEN
              [cache |-> Store(k.cache, Dir(i), files[i].tail), outcome |-> "contents"]
            ELSE Decrypted(c, i)
    BY DEF Decrypted
  <1> HIDE DEF k, B, r
  <1>8. k.flag \in {-1, 0, 1} /\ Right(files, k.cache)
    BY <1>2 DEF FoundIn
  <1>9. k.flag = -1 => k.mask # files[i].mask
    BY <1>2, <1>6 DEF FoundIn
  <1>10. ASSUME \A q \in B : ~Mis(files, PackageOf(q)), ~Mis(files, i), k.flag # -1
         PROVE  k.mask = files[i].mask
    <2>1. NearestOf(files, B, k.mask)
      BY <1>2, <1>10 DEF FoundIn
    <2>2. NearestOf(files, B, files[i].mask)
      BY <1>6, <1>10
    <2>3. QED
      BY <1>1, <2>1, <2>2, NearestIsUnique
  <1>11. CASE k.mask # files[i].mask
    <2>1. r.cache = k.cache /\ r.outcome = "failed"
      BY <1>7, <1>11
    <2>2. \E e \in B : PackageOf(e) \in Empty
      <3>1. CASE k.flag # -1
        BY <1>5, <1>6, <1>10, <1>11, <3>1
      <3>2. CASE \E q \in B : Mis(files, PackageOf(q))
        BY <1>5, <3>2
      <3>3. CASE k.flag = -1 /\ \A q \in B : ~Mis(files, PackageOf(q))
        BY <1>2, <3>3 DEF FoundIn
      <3>4. QED
        BY <3>1, <3>2, <3>3
    <2>3. EmptyAbove(i)
      BY <1>1, <2>2 DEF EmptyAbove
    <2>4. Mis(files, i) \/ DOMAIN k.cache # DOMAIN c
      <3>1. SUFFICES ASSUME ~Mis(files, i) PROVE DOMAIN k.cache # DOMAIN c
        OBVIOUS
      <3>2. \A q \in B : ~Mis(files, PackageOf(q))
        BY <1>5, <3>1
      <3>3. k.flag = -1
        BY <1>10, <1>11, <3>1, <3>2
      <3>4. QED
        BY <1>2, <3>2, <3>3 DEF FoundIn
    <2>5. QED
      BY <1>8, <2>1, <2>3, <2>4 DEF r
  <1>12. CASE k.mask = files[i].mask
    <2>1. k.flag # -1
      BY <1>9, <1>12
    <2>2. CASE k.flag = 0
      <3>1. r.cache = k.cache /\ r.outcome = "contents"
        BY <1>7, <1>12, <2>2
      <3>2. QED
        BY <1>8, <3>1 DEF r
    <2>3. CASE k.flag = 1
      <3>1. IsPackage(i) /\ i = PackageOf(Dir(i))
        BY <1>3, <1>4, <2>3
      <3>2. r.cache = Store(k.cache, Dir(i), files[i].tail) /\ r.outcome = "contents"
        BY <1>7, <1>12, <2>3, <3>1
      <3>3. Right(files, r.cache)
        BY <1>8, <3>1, <3>2 DEF Right, Store, Put
      <3>4. QED
        BY <3>2, <3>3 DEF r
    <2>4. QED
      BY <1>8, <2>1, <2>2, <2>3
  <1>13. QED
    BY <1>11, <1>12

\* The library has a package.mo wherever it has a file.
EveryDirectoryIsAPackage == \A i \in Items : PackageOf(Dir(i)) \in Items

\* What the LVE has in its cache, and how the last request went.
ReadInv ==
  /\ phase # "crash"
  /\ \A i \in DOMAIN files : PackageOf(Dir(i)) \in DOMAIN files
  /\ phase = "encrypt" => request = NoRequest
  /\ phase = "serve" => Right(files, cache)
  /\ request[2] \notin {"none", "contents"} =>
       /\ request[2] = "failed" /\ EmptyAbove(request[1])
       /\ phase = "serve" /\ request[1] \in DOMAIN files

\* At first nothing has been requested.
LEMMA ReadInit == Init => ReadInv
  BY DEF Init, ReadInv, NoRequest

\* While the library is encrypted, each file follows its package.mo.
LEMMA ToolKeepsReading ==
  ASSUME EveryDirectoryIsAPackage, MaskInv, ReadInv, EnterRoot \/ EnterFolder \/ EncryptEntry
  PROVE  ReadInv'
  <1>1. phase = "encrypt" /\ UNCHANGED request /\ request = NoRequest /\ ToolAtWork
    BY DEF EnterRoot, EnterFolder, EncryptEntry, Enter, ReadInv, MaskInv
  <1>2. MaskInv'
    BY EnterKeepsMasks, EncryptEntryKeepsMasks
  <1>3. request'[2] = "none"
    BY <1>1 DEF NoRequest
  <1>4. \/ UNCHANGED <<phase, files>>
        \/ \E i \in Items : /\ Encrypt(cache, i)
                            /\ i = PackageOf(Dir(i)) \/ PackageOf(Dir(i)) \in DOMAIN files
    <2>1. CASE EncryptEntry
      <3>1. PICK i \in Entries(Last(stack)) : Encrypt(cache, i)
        BY <2>1 DEF EncryptEntry
      <3>2. i \in Items /\ Dir(i) = Last(stack)
        BY DEF Entries
      <3>3. Len(stack) \in DOMAIN stack /\ Last(stack) = stack[Len(stack)]
        BY <1>1, <2>1 DEF ToolAtWork, Last, EncryptEntry
      <3>4. PackageOf(Dir(i)) \in DOMAIN files
        BY <1>1, <3>2, <3>3 DEF ToolAtWork, EveryDirectoryIsAPackage
      <3>5. QED
        BY <3>1, <3>2, <3>4
    <2>2. ASSUME NEW d, Enter(d)
          PROVE  \/ UNCHANGED <<phase, files>>
                 \/ \E i \in Items : Encrypt(cache, i) /\ i = PackageOf(Dir(i))
      <3>1. CASE PackageOf(d) \in Items
        <4>1. Encrypt(cache, PackageOf(d)) /\ PackageOf(d) = PackageOf(Dir(PackageOf(d)))
          BY <2>2, <3>1 DEF Enter, Dir, PackageOf
        <4>2. QED
          BY <3>1, <4>1
      <3>2. CASE PackageOf(d) \notin Items
        BY <2>2, <3>2 DEF Enter
      <3>3. QED
        BY <3>1, <3>2
    <2>3. CASE EnterRoot \/ EnterFolder
      <3>1. PICK d : Enter(d)
        BY <2>3 DEF EnterRoot, EnterFolder
      <3>2. QED
        BY <2>2, <3>1
    <2>4. QED
      BY <2>1, <2>3
  <1>5. CASE UNCHANGED <<phase, files>>
    BY <1>1, <1>3, <1>5 DEF ReadInv
  <1>6. ASSUME NEW i \in Items, Encrypt(cache, i),
               i = PackageOf(Dir(i)) \/ PackageOf(Dir(i)) \in DOMAIN files
        PROVE  ReadInv'
    <2>1. phase' \in {phase, "refused"} /\ phase' \in {"encrypt", "serve", "crash"}
      BY <1>2, <1>6 DEF Encrypt, MaskInv
    <2>2. phase' = "encrypt"
      BY <1>1, <2>1
    <2>3. DOMAIN files' = DOMAIN files \cup {i}
      BY <1>1, <1>6, <2>2 DEF Encrypt, Put
    <2>4. \A j \in DOMAIN files' : PackageOf(Dir(j)) \in DOMAIN files'
      BY <1>6, <2>3 DEF ReadInv
    <2>5. QED
      BY <1>1, <1>3, <2>2, <2>4 DEF ReadInv
  <1>7. QED
    BY <1>4, <1>5, <1>6

\* The first LVE starts with an empty cache.
LEMMA LeaveKeepsReading == MaskInv /\ ReadInv /\ Leave => ReadInv'
  <1> SUFFICES ASSUME MaskInv, ReadInv, Leave PROVE ReadInv'
    OBVIOUS
  <1>1. phase = "encrypt" /\ UNCHANGED <<files, request>> /\ request = NoRequest
    BY DEF Leave, ReadInv
  <1>2. request'[2] = "none"
    BY <1>1 DEF NoRequest
  <1>3. CASE Len(stack) = 1
    <2>1. phase' = "serve" /\ DOMAIN cache' = {}
      BY <1>3 DEF Leave, EmptyCache
    <2>2. QED
      BY <1>1, <1>2, <2>1 DEF ReadInv, Right
  <1>4. CASE Len(stack) # 1
    BY <1>1, <1>2, <1>4 DEF Leave, ReadInv
  <1>5. QED
    BY <1>3, <1>4

\* A request leaves the masks of package.moc files in the cache, and fails below an
\* empty one at most.
LEMMA ReadFileKeepsReading == MaskInv /\ ReadInv /\ ReadFile => ReadInv'
  <1> SUFFICES ASSUME MaskInv, ReadInv, ReadFile PROVE ReadInv'
    OBVIOUS
  <1>1. PICK i \in DOMAIN files : /\ request' = <<i, Decrypted(cache, i).outcome>>
                                  /\ cache' = Decrypted(cache, i).cache
                                  /\ phase' = IF Decrypted(cache, i).outcome = "crash"
                                                THEN "crash" ELSE phase
    BY DEF ReadFile
  <1>2. phase = "serve" /\ UNCHANGED files /\ GoodFiles(files) /\ Right(files, cache)
    BY DEF ReadFile, MaskInv, ReadInv
  <1>3. PackageOf(Dir(i)) \in DOMAIN files
    BY DEF ReadInv
  <1> DEFINE r == Decrypted(cache, i)
  <1>4. /\ Right(files, r.cache) /\ r.outcome \in {"contents", "failed"}
        /\ r.outcome = "failed" => EmptyAbove(i)
    BY <1>2, <1>3, DecryptedWell
  <1> HIDE DEF r
  <1>5. request' = <<i, r.outcome>> /\ cache' = r.cache /\ phase' = "serve"
    BY <1>1, <1>2, <1>4 DEF r
  <1>6. request'[1] = i /\ request'[2] = r.outcome
    BY <1>5
  <1>7. Right(files', cache')
    BY <1>2, <1>4, <1>5
  <1>8. EmptyAbove(request'[1]) <=> EmptyAbove(i)
    BY <1>6
  <1>9. QED
    BY <1>2, <1>4, <1>5, <1>6, <1>7, <1>8 DEF ReadInv

\* encrypt_file leaves the LVE and what it has cached alone.
LEMMA AddFileKeepsReading == MaskInv /\ ReadInv /\ AddFile => ReadInv'
  <1> SUFFICES ASSUME MaskInv, ReadInv, AddFile PROVE ReadInv'
    OBVIOUS
  <1>1. PICK i \in Added \ DOMAIN files : InOrder(i) /\ Adds(i, FindKey(EmptyCache, i).cache)
    BY DEF AddFile
  <1>2. PICK r : files' = Put(files, i, r)
    BY <1>1 DEF Adds
  <1>3. phase = "serve" /\ UNCHANGED <<phase, cache, request>>
    BY <1>1 DEF AddFile, Adds
  <1>4. DOMAIN files' = DOMAIN files \cup {i} /\ \A j \in DOMAIN files : files'[j] = files[j]
    BY <1>1, <1>2 DEF Put
  <1>5. Right(files', cache')
    BY <1>3, <1>4 DEF Right, ReadInv
  <1>6. PackageOf(Dir(i)) \in DOMAIN files'
    <2>1. IsPackage(i) => i = PackageOf(Dir(i))
      BY <1>1, PlaceOfFile
    <2>2. QED
      BY <1>1, <1>4, <2>1 DEF InOrder
  <1>7. QED
    BY <1>3, <1>4, <1>5, <1>6 DEF ReadInv

\* Every step keeps the cache of the LVE right.
LEMMA ReadStep ==
  ASSUME EveryDirectoryIsAPackage, MaskInv, ReadInv, [Next]_vars
  PROVE  ReadInv'
  <1>1. CASE EnterRoot \/ EnterFolder \/ EncryptEntry
    BY <1>1, ToolKeepsReading
  <1>2. CASE Leave
    BY <1>2, LeaveKeepsReading
  <1>3. CASE ReadFile
    BY <1>3, ReadFileKeepsReading
  <1>4. CASE NewLve
    <2>1. /\ phase = "serve" /\ DOMAIN cache' = {} /\ request'[2] = "none"
          /\ UNCHANGED <<phase, files>>
      BY <1>4 DEF NewLve, EmptyCache, NoRequest
    <2>2. QED
      BY <2>1 DEF ReadInv, Right
  <1>5. CASE AddFile
    BY <1>5, AddFileKeepsReading
  <1>6. CASE UNCHANGED vars
    BY <1>6 DEF vars, ReadInv
  <1>7. QED
    BY <1>1, <1>2, <1>3, <1>4, <1>5, <1>6 DEF Next

\* If every directory with files has a package.mo, a mask in the LVE's cache is
\* the one that the package.mo of its directory stores, in whatever order the
\* tool asks for files.
THEOREM CacheHoldsWhatPackagesStore ==
  ASSUME EveryDirectoryIsAPackage
  PROVE  Spec => []CacheIsRight
  <1>1. ReadInv => CacheIsRight
    BY DEF ReadInv, Right, CacheIsRight
  <1>2. MaskInv /\ ReadInv /\ [Next]_vars => ReadInv'
    BY ReadStep
  <1>3. QED
    BY <1>1, <1>2, MaskInit, ReadInit, MaskStep, PTL DEF Spec

\* If every directory with files has a package.mo, every file decrypts to what
\* was encrypted, in any order of requests: only a package.mo without contents
\* makes a request below it fail, and the next one comes one such package
\* further, unless encrypt_file gave the file the wrong mask.
THEOREM EncryptedFilesDecrypt ==
  ASSUME EveryDirectoryIsAPackage
  PROVE  Spec => []RoundTrip
  <1>1. MaskInv /\ ReadInv => RoundTrip
    <2> SUFFICES ASSUME MaskInv, ReadInv, request[2] \notin {"none", "contents"}
                 PROVE  /\ request[2] = "failed" /\ EmptyAbove(request[1])
                        /\ Heals(request[1]) \/ MisKeyed(request[1])
      BY DEF RoundTrip
    <2> DEFINE i == request[1]
    <2>1. /\ request[2] = "failed" /\ EmptyAbove(i) /\ phase = "serve" /\ i \in DOMAIN files
          /\ PackageOf(Dir(i)) \in DOMAIN files /\ Right(files, cache) /\ GoodFiles(files)
      BY DEF ReadInv, MaskInv
    <2> HIDE DEF i
    <2>2. Mis(files, i) \/ Decrypted(cache, i).outcome = "contents"
                        \/ DOMAIN Decrypted(cache, i).cache # DOMAIN cache
      BY <2>1, DecryptedWell
    <2>3. Heals(i) \/ MisKeyed(i)
      BY <2>2, TablesOfFiles DEF Heals
    <2>4. QED
      BY <2>1, <2>3 DEF i
  <1>2. MaskInv /\ ReadInv /\ [Next]_vars => ReadInv'
    BY ReadStep
  <1>3. QED
    BY <1>1, <1>2, MaskInit, ReadInit, MaskStep, PTL DEF Spec
=============================================================================
