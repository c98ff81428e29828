------------------------------ MODULE FileProofs ------------------------------
(***************************************************************************)
(* Proofs about the rows of the file system model of MCData, a part of it: *)
(* the search for the place of a row, the differences a scan finds, and    *)
(* what overlapping scans, watches and options leave of them, for every    *)
(* value of the constants that keeps its assumptions.                      *)
(***************************************************************************)
EXTENDS MCData, Integers, SequenceTheorems, FiniteSetTheorems, WellFoundedInduction, TLAPS

(* A run of DataSpec is a run of the file system model.                    *)
LEMMA DirectoryKeepsItsSpec == DataSpec => Directory!Spec
<1>1. DataInit => Directory!Init
  BY DEF DataInit
<1>2. [DataNext]_dataVars => [Directory!Next]_Directory!vars
  <2>1. DataNext => Directory!Next \/ UNCHANGED dirVars
    BY DEF DataNext
  <2>2. UNCHANGED dataVars => UNCHANGED dirVars
    BY DEF dataVars
  <2>3. UNCHANGED dirVars => UNCHANGED Directory!vars
    BY DEF dirVars, Directory!vars
  <2> QED BY <2>1, <2>2, <2>3
<1> QED BY <1>1, <1>2, PTL DEF DataSpec, Directory!Spec

(* A set of natural numbers that is not empty has a least one.             *)
LEMMA LeastNumber ==
  ASSUME NEW S \in SUBSET Nat, S # {}
  PROVE  \E m \in S : \A k \in S : m <= k
<1> DEFINE R == OpToRel(<, Nat)
<1>1. IsWellFoundedOn(R, Nat)
  BY NatLessThanWellFounded
<1>2. \A x \in Nat, y \in Nat : x < y => <<x, y>> \in R
  BY DEF OpToRel
<1> HIDE DEF R
<1>3. \E x \in S : \A y \in S : ~ (<<y, x>> \in R)
  BY <1>1, WFMin
<1>4. PICK m \in S : \A y \in S : ~ (<<y, m>> \in R)
  BY <1>3
<1>5. ASSUME NEW k \in S PROVE m <= k
  <2>1. m \in Nat /\ k \in Nat
    BY <1>4, <1>5
  <2>2. ~ (k < m)
    BY <1>2, <1>4, <1>5, <2>1
  <2> QED BY <2>1, <2>2
<1> QED BY <1>4, <1>5

(* What holds of 0 and goes over to the next number holds of all.          *)
LEMMA EveryNumber ==
  ASSUME NEW P \in SUBSET Nat, 0 \in P, \A n \in P : n + 1 \in P
  PROVE  P = Nat
<1> SUFFICES ASSUME Nat \ P # {} PROVE FALSE
  OBVIOUS
<1>1. PICK m \in Nat \ P : \A k \in Nat \ P : m <= k
  <2>1. Nat \ P \in SUBSET Nat /\ Nat \ P # {}
    OBVIOUS
  <2> QED BY ONLY <2>1, LeastNumber
<1>2. m # 0 /\ m - 1 \in Nat /\ m - 1 \in P
  BY <1>1
<1>3. (m - 1) + 1 = m
  BY <1>1
<1> QED BY <1>1, <1>2, <1>3

-----------------------------------------------------------------------------
(***************************************************************************)
(* A finite set can be put into any order that compares all of it.         *)
(***************************************************************************)
Orders(R, S) ==
  /\ \A x \in S : <<x, x>> \notin R
  /\ \A x, y, z \in S : <<x, y>> \in R /\ <<y, z>> \in R => <<x, z>> \in R
  /\ \A x, y \in S : x # y => <<x, y>> \in R \/ <<y, x>> \in R

InOrder(s, n, R) == \A i, j \in 1 .. n : i < j => <<s[i], s[j]>> \in R

LEMMA OrderExists ==
  ASSUME NEW S, IsFiniteSet(S), NEW R, Orders(R, S)
  PROVE  \E s \in [1 .. Cardinality(S) -> S] : InOrder(s, Cardinality(S), R)
<1> DEFINE n == Cardinality(S)
           below(x) == {y \in S : <<y, x>> \in R}
           place == [x \in S |-> Cardinality(below(x)) + 1]
<1>0. n \in Nat
  BY FS_CardinalityType
<1>1. ASSUME NEW x \in S
      PROVE  IsFiniteSet(below(x)) /\ Cardinality(below(x)) \in Nat /\ Cardinality(below(x)) < n
  <2>1. below(x) \in SUBSET (S \ {x}) /\ below(x) \in SUBSET S
    BY DEF Orders
  <2>2. IsFiniteSet(S \ {x}) /\ Cardinality(S \ {x}) = n - 1
    BY FS_RemoveElement
  <2> HIDE DEF below
  <2>3. IsFiniteSet(below(x)) /\ Cardinality(below(x)) <= n - 1
    BY <2>1, <2>2, FS_Subset
  <2>4. Cardinality(below(x)) \in Nat
    BY <2>3, FS_CardinalityType
  <2> HIDE DEF n
  <2> QED BY <1>0, <2>3, <2>4
<1>2. ASSUME NEW x \in S, NEW y \in S, <<x, y>> \in R
      PROVE  Cardinality(below(x)) < Cardinality(below(y))
  <2>1. below(x) \in SUBSET below(y) /\ x \in below(y) /\ x \notin below(x)
    BY <1>2 DEF Orders
  <2>2. IsFiniteSet(below(y)) /\ IsFiniteSet(below(x))
    BY <1>1
  <2>3. Cardinality(below(x)) \in Nat /\ Cardinality(below(y)) \in Nat
    BY <1>1
  <2> HIDE DEF below
  <2>4. Cardinality(below(x)) <= Cardinality(below(y)) /\ Cardinality(below(x)) # Cardinality(below(y))
    BY <2>1, <2>2, FS_Subset
  <2> QED BY <2>3, <2>4
<1> HIDE DEF below
<1>3. place \in [S -> 1 .. n]
  <2> SUFFICES ASSUME NEW x \in S PROVE Cardinality(below(x)) + 1 \in 1 .. n
    OBVIOUS
  <2> HIDE DEF n
  <2> QED BY <1>0, <1>1
<1>4. \A x, y \in S : <<x, y>> \in R => place[x] < place[y]
  BY <1>1, <1>2
<1>5. \A x, y \in S : place[x] = place[y] => x = y
  <2> HIDE DEF place, n
  <2> SUFFICES ASSUME NEW x \in S, NEW y \in S, x # y PROVE place[x] # place[y]
    OBVIOUS
  <2>1. place[x] \in Int /\ place[y] \in Int
    BY <1>3
  <2>2. place[x] < place[y] \/ place[y] < place[x]
    BY <1>4 DEF Orders
  <2> QED BY <2>1, <2>2
<1> HIDE DEF place
<1>6. place \in Injection(S, 1 .. n)
  BY <1>3, <1>5 DEF Injection, IsInjective
<1>7. place \in Surjection(S, 1 .. n)
  <2>1. IsFiniteSet(1 .. n) /\ Cardinality(1 .. n) = n
    BY <1>0, FS_Interval
  <2> QED BY <1>6, <2>1, FS_Injection
<1>8. \A i \in 1 .. n : \E x \in S : place[x] = i
  BY <1>7 DEF Surjection
<1> DEFINE s == [i \in 1 .. n |-> CHOOSE x \in S : place[x] = i]
<1>9. \A i \in 1 .. n : s[i] \in S /\ place[s[i]] = i
  BY <1>8
<1>10. s \in [1 .. n -> S]
  BY <1>9
<1> HIDE DEF s
<1>11. ASSUME NEW i \in 1 .. n, NEW j \in 1 .. n, i < j PROVE <<s[i], s[j]>> \in R
  <2>1. s[i] \in S /\ s[j] \in S /\ place[s[i]] = i /\ place[s[j]] = j
    BY <1>9
  <2>2. i \in Int /\ j \in Int
    OBVIOUS
  <2>3. s[i] # s[j]
    BY <1>11, <2>1, <2>2
  <2>4. CASE <<s[j], s[i]>> \in R
    <3>1. j < i
      BY <1>4, <2>1, <2>4
    <3> QED BY <1>11, <2>2, <3>1
  <2> QED BY <2>1, <2>3, <2>4 DEF Orders
<1>12. InOrder(s, n, R)
  BY <1>11 DEF InOrder
<1> QED BY <1>10, <1>12

(* Then all of the set is there, and nothing twice.                        *)
LEMMA OrderedIsAll ==
  ASSUME NEW S, IsFiniteSet(S), NEW R, Orders(R, S),
         NEW s \in [1 .. Cardinality(S) -> S], InOrder(s, Cardinality(S), R)
  PROVE  \A x \in S : \E i \in 1 .. Cardinality(S) : s[i] = x
<1> DEFINE n == Cardinality(S)
<1>0. n \in Nat
  BY FS_CardinalityType
<1>1. ASSUME NEW i \in 1 .. n, NEW j \in 1 .. n, s[i] = s[j] PROVE i = j
  <2>1. s[i] \in S /\ ~(i < j) /\ ~(j < i)
    BY <1>1 DEF InOrder, Orders
  <2> QED BY <2>1
<1>2. s \in Injection(1 .. n, S)
  BY <1>1 DEF Injection, IsInjective
<1>3. IsFiniteSet(1 .. n) /\ Cardinality(1 .. n) = n
  BY <1>0, FS_Interval
<1>4. s \in Surjection(1 .. n, S)
  BY <1>2, <1>3, FS_Injection
<1> QED BY <1>4 DEF Surjection

(* A function that is given by its first value and by what each step makes *)
(* of a value exists.                                                      *)
Stepwise(f, A, a, m, g) ==
  f \in [0 .. m -> A] /\ f = [n \in 0 .. m |-> IF n = 0 THEN a ELSE g[n][f[n - 1]]]

LEMMA StepsExist ==
  ASSUME NEW A, NEW a \in A, NEW m \in Nat, NEW g \in [1 .. m -> [A -> A]]
  PROVE  \E f : Stepwise(f, A, a, m, g)
<1> DEFINE Good(f, k) == f \in [0 .. k -> A] /\ f[0] = a /\ \A n \in 1 .. k : f[n] = g[n][f[n - 1]]
           P == {k \in Nat : k <= m => \E f : Good(f, k)}
<1>1. 0 \in P
  <2> DEFINE f == [n \in 0 .. 0 |-> a]
  <2>1. Good(f, 0)
    OBVIOUS
  <2> QED BY <2>1
<1>2. ASSUME NEW k \in P PROVE k + 1 \in P
  <2>0. k \in Nat /\ k + 1 \in Nat
    OBVIOUS
  <2>1. CASE k + 1 <= m
    <3>1. PICK f : Good(f, k)
      BY <2>1
    <3>2. f[k] \in A /\ k + 1 \in 1 .. m
      BY <2>1, <3>1
    <3>3. g[k + 1][f[k]] \in A
      BY <3>2
    <3> DEFINE h == [n \in 0 .. k + 1 |-> IF n <= k THEN f[n] ELSE g[k + 1][f[k]]]
    <3>4. h \in [0 .. k + 1 -> A] /\ h[0] = a
      BY <3>1, <3>3
    <3>5. ASSUME NEW n \in 1 .. k + 1 PROVE h[n] = g[n][h[n - 1]]
      <4>1. CASE n <= k
        <5>1. n \in 1 .. k /\ n - 1 \in 0 .. k
          BY <4>1
        <5>2. h[n] = f[n] /\ h[n - 1] = f[n - 1]
          BY <5>1
        <5> QED BY <3>1, <5>1, <5>2
      <4>2. CASE n = k + 1
        BY <4>2
      <4> QED BY <4>1, <4>2
    <3>6. Good(h, k + 1)
      BY <3>4, <3>5
    <3> HIDE DEF h, Good
    <3> QED BY <2>0, <3>6
  <2>2. CASE ~ (k + 1 <= m)
    BY <2>0, <2>2
  <2> QED BY <2>1, <2>2
<1> HIDE DEF P
<1>3. P = Nat
  <2>1. P \in SUBSET Nat
    BY DEF P
  <2> QED BY ONLY <2>1, <1>1, <1>2, EveryNumber
<1>4. PICK f : Good(f, m)
  BY <1>3 DEF P
<1>5. f = [n \in 0 .. m |-> IF n = 0 THEN a ELSE g[n][f[n - 1]]]
  BY <1>4
<1> QED BY <1>4, <1>5 DEF Stepwise

FilePaths == Folders \cup LooseFiles

(* Sets that hold the directory of p and what each of them is in.          *)
Upwards(p) == {S \in SUBSET Folders : /\ FolderOf[p] \in S
                                      /\ \A e \in S \cap DOMAIN FolderOf : FolderOf[e] \in S}

LEMMA BelowIs ==
  \A p, d : Directory!Below(p, d) <=> p \in DOMAIN FolderOf /\ \A S \in Upwards(p) : d \in S
BY DEF Directory!Below, Upwards

(* The directory of a path is above it, and so is all that is above that.  *)
LEMMA FolderIsAbove ==
  ASSUME NEW p \in DOMAIN FolderOf
  PROVE  /\ FolderOf[p] \in Folders
         /\ Directory!Below(p, FolderOf[p])
         /\ \A d : Directory!Below(FolderOf[p], d) => Directory!Below(p, d)
<1>1. FolderOf[p] \in Folders
  BY FoldersAssumption
<1>2. Directory!Below(p, FolderOf[p])
  BY BelowIs DEF Upwards
<1>3. ASSUME NEW d, Directory!Below(FolderOf[p], d) PROVE Directory!Below(p, d)
  <2>1. FolderOf[p] \in DOMAIN FolderOf
    BY <1>3, BelowIs
  <2>2. ASSUME NEW S \in Upwards(p) PROVE S \in Upwards(FolderOf[p])
    BY <2>1 DEF Upwards
  <2> QED BY <1>3, <2>2, BelowIs
<1> QED BY <1>1, <1>2, <1>3

LEMMA AboveIsFolder ==
  ASSUME NEW p, NEW d, Directory!Below(p, d)
  PROVE  p \in DOMAIN FolderOf /\ d \in Folders
<1>1. p \in DOMAIN FolderOf
  BY BelowIs
<1>2. Folders \in Upwards(p)
  BY <1>1, FoldersAssumption DEF Upwards
<1> QED BY <1>1, <1>2, BelowIs

LEMMA BelowTwice ==
  ASSUME NEW p, NEW e, NEW d, Directory!Below(p, e), Directory!Below(e, d)
  PROVE  Directory!Below(p, d)
<1>1. p \in DOMAIN FolderOf /\ e \in DOMAIN FolderOf
  BY BelowIs
<1>2. ASSUME NEW S \in Upwards(p) PROVE d \in S
  <2>1. e \in S
    BY BelowIs
  <2>2. S \in Upwards(e)
    BY <1>1, <2>1 DEF Upwards
  <2> QED BY <2>2, BelowIs
<1> QED BY <1>1, <1>2, BelowIs

(* What is above a path is its directory or above that.                    *)
LEMMA AboveOrFolder ==
  ASSUME NEW p, NEW d, Directory!Below(p, d)
  PROVE  d = FolderOf[p] \/ Directory!Below(FolderOf[p], d)
<1> DEFINE q == FolderOf[p]
           S == {x \in Folders : x = q \/ Directory!Below(q, x)}
<1>1. p \in DOMAIN FolderOf /\ q \in Folders
  BY AboveIsFolder, FolderIsAbove
<1>2. ASSUME NEW e \in S \cap DOMAIN FolderOf PROVE FolderOf[e] \in S
  <2>1. FolderOf[e] \in Folders /\ Directory!Below(e, FolderOf[e])
    BY FolderIsAbove
  <2>2. e = q \/ Directory!Below(q, e)
    OBVIOUS
  <2>3. Directory!Below(q, FolderOf[e])
    BY ONLY <2>1, <2>2, BelowTwice
  <2> QED BY <2>1, <2>3
<1>3. S \in Upwards(p)
  <2>1. S \in SUBSET Folders /\ q \in S
    BY <1>1
  <2> HIDE DEF S
  <2> QED BY <1>2, <2>1 DEF Upwards
<1>4. d \in S
  BY <1>3, BelowIs
<1> QED BY <1>4

(* Of two directories above a path one is above the other.                 *)
LEMMA OneLine ==
  ASSUME NEW p, NEW d, NEW e, Directory!Below(p, d), Directory!Below(p, e)
  PROVE  e = d \/ Directory!Below(e, d) \/ Directory!Below(d, e)
<1> DEFINE near(x) == x = d \/ Directory!Below(x, d) \/ Directory!Below(d, x)
           S == {x \in Folders : near(x)}
<1>1. p \in DOMAIN FolderOf /\ FolderOf[p] \in Folders
  BY AboveIsFolder, FolderIsAbove
<1>2. near(FolderOf[p])
  BY AboveOrFolder
<1>3. ASSUME NEW x \in S \cap DOMAIN FolderOf PROVE FolderOf[x] \in S
  <2>1. FolderOf[x] \in Folders /\ Directory!Below(x, FolderOf[x])
    BY FolderIsAbove
  <2>2. CASE x = d
    BY <2>1, <2>2
  <2>3. CASE Directory!Below(x, d)
    <3>1. d = FolderOf[x] \/ Directory!Below(FolderOf[x], d)
      BY ONLY <2>3, AboveOrFolder
    <3> QED BY <2>1, <3>1
  <2>4. CASE Directory!Below(d, x)
    <3>1. Directory!Below(d, FolderOf[x])
      BY ONLY <2>1, <2>4, BelowTwice
    <3> QED BY <2>1, <3>1
  <2> QED BY <2>2, <2>3, <2>4
<1>4. S \in Upwards(p)
  <2>1. S \in SUBSET Folders /\ FolderOf[p] \in S
    BY <1>1, <1>2
  <2> HIDE DEF S
  <2> QED BY <1>3, <2>1 DEF Upwards
<1>5. e \in S
  BY <1>4, BelowIs
<1> QED BY <1>5

(* What is reached from a directory that is itself reached is what is      *)
(* reached and below it.                                                   *)
LEMMA ReachedTwice ==
  ASSUME NEW d, NEW top, NEW h, Directory!Reached(d, top, h), NEW p
  PROVE  Directory!Reached(p, d, h) <=> Directory!Reached(p, top, h) /\ Directory!Below(p, d)
<1>1. Directory!Below(d, top)
  BY DEF Directory!Reached
<1>2. ASSUME Directory!Reached(p, d, h)
      PROVE  Directory!Reached(p, top, h) /\ Directory!Below(p, d)
  <2>1. Directory!Below(p, d)
    BY <1>2 DEF Directory!Reached
  <2>2. Directory!Below(p, top)
    BY <1>1, <2>1, BelowTwice
  <2>3. ASSUME ~h, NEW e \in DotFolders, Directory!Below(p, e), Directory!Below(e, top)
        PROVE  FALSE
    <3>1. e # d /\ ~Directory!Below(d, e)
      BY <2>3 DEF Directory!Reached
    <3>2. ~Directory!Below(e, d)
      BY <1>2, <2>3 DEF Directory!Reached
    <3> QED BY ONLY <2>1, <2>3, <3>1, <3>2, OneLine
  <2> QED BY <1>2, <2>1, <2>2, <2>3 DEF Directory!Reached
<1>3. ASSUME Directory!Reached(p, top, h), Directory!Below(p, d)
      PROVE  Directory!Reached(p, d, h)
  <2>1. ASSUME NEW e, Directory!Below(e, d) PROVE Directory!Below(e, top)
    BY <1>1, <2>1, BelowTwice
  <2> QED BY <1>3, <2>1 DEF Directory!Reached
<1> QED BY <1>2, <1>3

DirectoryIsSet == dirOpt.reverse \in BOOLEAN /\ dirOpt.path \in Folders \cup {None}

(* The order of the rows, as it is now, is an order of all paths.          *)
LEMMA BeforeOrders ==
  ASSUME DirectoryIsSet
  PROVE  /\ \A x \in FilePaths : ~Directory!Before(x, x)
         /\ \A x, y, z \in FilePaths : Directory!Before(x, y) /\ Directory!Before(y, z)
                                      => Directory!Before(x, z)
         /\ \A x, y \in FilePaths : x # y => Directory!Before(x, y) \/ Directory!Before(y, x)
<1> DEFINE rank == NameRank[dirOpt.path]
<1>0. /\ \A x \in FilePaths : rank[x] \in Nat
      /\ \A x, y \in FilePaths : rank[x] = rank[y] => x = y
  BY FoldersAssumption DEF FilePaths, DirectoryIsSet
<1>1. CASE dirOpt.reverse = FALSE
  <2>1. \A x, y : Directory!Before(x, y) <=>
           \/ x \in Folders /\ y \notin Folders
           \/ (x \in Folders <=> y \in Folders) /\ rank[x] < rank[y]
    BY <1>1 DEF Directory!Before, Directory!Precedes
  <2> HIDE DEF rank
  <2> QED BY ONLY <1>0, <2>1
<1>2. CASE dirOpt.reverse = TRUE
  <2>1. \A x, y : Directory!Before(x, y) <=>
           \/ y \in Folders /\ x \notin Folders
           \/ (y \in Folders <=> x \in Folders) /\ rank[y] < rank[x]
    BY <1>2 DEF Directory!Before, Directory!Precedes
  <2> HIDE DEF rank
  <2> QED BY ONLY <1>0, <2>1
<1> QED BY <1>1, <1>2 DEF DirectoryIsSet

Rising(s) == \A i, j \in 1 .. Len(s) : i < j => Directory!Before(s[i], s[j])
Distinct(s) == \A i, j \in 1 .. Len(s) : s[i] = s[j] => i = j

(* What rises is in the order of the options.                              *)
LEMMA RisingIs ==
  ASSUME NEW s \in Seq(FilePaths)
  PROVE  Directory!InOrder(s, dirOpt) <=> Rising(s)
<1>1. DOMAIN s = 1 .. Len(s)
  OBVIOUS
<1> QED BY <1>1 DEF Directory!InOrder, Rising, Directory!Before

LEMMA SortedIs ==
  ASSUME DirectoryIsSet, NEW S \in SUBSET FilePaths
  PROVE  LET s == Directory!Sorted(S)
         IN  /\ s \in Seq(S) /\ Rising(s) /\ Distinct(s)
             /\ Directory!ToSet(s) = S
<1> DEFINE s == Directory!Sorted(S)
           R == {pair \in S \X S : Directory!Before(pair[1], pair[2])}
           n == Cardinality(S)
<1>1. IsFiniteSet(S)
  <2>1. IsFiniteSet(FilePaths)
    BY FoldersAssumption DEF FilePaths
  <2> QED BY <2>1, FS_Subset
<1>2. \A x, y \in S : <<x, y>> \in R <=> Directory!Before(x, y)
  OBVIOUS
<1> HIDE DEF R
<1>3. Orders(R, S)
  <2>1. \A x \in S : x \in FilePaths
    OBVIOUS
  <2> QED BY ONLY <1>2, <2>1, BeforeOrders, DirectoryIsSet DEF Orders
<1>4. n \in Nat
  BY <1>1, FS_CardinalityType
<1>5. Directory!Cardinality(S) = n
  BY Zenon DEF Directory!Cardinality, Cardinality
<1>6. s = CHOOSE t \in [1 .. n -> S] :
             \A i, j \in DOMAIN t : i < j => Directory!Before(t[i], t[j])
  BY <1>5 DEF Directory!Sorted
<1> HIDE DEF s, n
<1>7. \E t \in [1 .. n -> S] : \A i, j \in DOMAIN t : i < j => Directory!Before(t[i], t[j])
  <2>1. PICK t \in [1 .. n -> S] : InOrder(t, n, R)
    BY <1>1, <1>3, OrderExists DEF n
  <2>2. ASSUME NEW i \in DOMAIN t, NEW j \in DOMAIN t, i < j
        PROVE  Directory!Before(t[i], t[j])
    <3>1. t[i] \in S /\ t[j] \in S /\ <<t[i], t[j]>> \in R
      BY <2>1, <2>2 DEF InOrder
    <3> QED BY <1>2, <3>1
  <2> QED BY <2>2
<1>8. s \in [1 .. n -> S] /\ \A i, j \in DOMAIN s : i < j => Directory!Before(s[i], s[j])
  BY <1>6, <1>7, Zenon
<1>9. s \in Seq(S) /\ Len(s) = n
  BY <1>4, <1>8
<1>10. Rising(s)
  BY <1>8, <1>9 DEF Rising
<1>11. Distinct(s)
  <2>1. \A i \in 1 .. n : s[i] \in FilePaths
    BY <1>8
  <2>2. \A x \in FilePaths : ~Directory!Before(x, x)
    BY BeforeOrders
  <2> QED BY <1>4, <1>9, <1>10, <2>1, <2>2 DEF Rising, Distinct
<1>12. InOrder(s, n, R)
  BY <1>2, <1>8 DEF InOrder
<1>13. \A x \in S : \E i \in 1 .. n : s[i] = x
  BY <1>1, <1>3, <1>8, <1>12, OrderedIsAll, ZenonT(30) DEF n
<1>14. Directory!ToSet(s) = S
  BY <1>8, <1>13 DEF Directory!ToSet
<1> QED BY <1>9, <1>10, <1>11, <1>14 DEF s

(***************************************************************************)
(* The binary search.  What is before the window sorts before the path,    *)
(* what is behind the window does not.                                     *)
(***************************************************************************)
Windows(s) == {w \in [first : Nat, n : Nat] : 1 <= w.first /\ w.first + w.n <= Len(s) + 1}
Split(s, p, w) ==
  \A i \in 1 .. Len(s) : /\ i < w.first => Directory!Before(s[i], p)
                         /\ i >= w.first + w.n => ~Directory!Before(s[i], p)

LEMMA HalveIs ==
  ASSUME DirectoryIsSet, NEW s \in Seq(FilePaths), NEW p \in FilePaths, NEW w \in Windows(s)
  PROVE  LET v == Directory!Halve(s, p, w)
         IN  /\ v \in Windows(s)
             /\ IF w.n = 0 THEN v.n = 0 ELSE v.n < w.n
             /\ Rising(s) /\ Split(s, p, w) => Split(s, p, v)
<1> DEFINE v == Directory!Halve(s, p, w)
           half == w.n \div 2
           mid == w.first + half
<1>0. /\ w \in [first : Nat, n : Nat] /\ w.first \in Nat /\ w.n \in Nat
      /\ 1 <= w.first /\ w.first + w.n <= Len(s) + 1 /\ Len(s) \in Nat
  BY DEF Windows
<1>1. CASE w.n = 0
  <2>1. v = w
    BY <1>1 DEF Directory!Halve
  <2> HIDE DEF v
  <2> QED BY <1>1, <2>1 DEF v
<1>2. CASE w.n # 0
  <2>1. half \in Nat /\ half < w.n
    BY <1>0, <1>2
  <2>2. mid \in 1 .. Len(s) /\ mid \in Nat
    BY <1>0, <2>1
  <2>3. CASE Directory!Before(s[mid], p)
    <3>1. v = [first |-> mid + 1, n |-> w.n - half - 1]
      BY <1>2, <2>3 DEF Directory!Halve
    <3> HIDE DEF mid, v, half
    <3>2. v.first = mid + 1 /\ v.n = w.n - half - 1
      BY <3>1
    <3>3. w.n - half - 1 \in Nat /\ mid + 1 \in Nat /\ (mid + 1) + (w.n - half - 1) = w.first + w.n
      BY <1>0, <2>1, <2>2 DEF mid
    <3>4. v \in Windows(s)
      BY <1>0, <3>1, <3>3, <2>2 DEF Windows
    <3>5. v.n < w.n
      BY <1>0, <2>1, <3>2
    <3>6. ASSUME Rising(s), Split(s, p, w) PROVE Split(s, p, v)
      <4>1. ASSUME NEW i \in 1 .. Len(s), i < mid + 1 PROVE Directory!Before(s[i], p)
        <5>1. CASE i = mid
          BY <2>3, <5>1
        <5>2. CASE i # mid
          <6>1. i < mid
            BY <2>2, <4>1, <5>2
          <6>2. Directory!Before(s[i], s[mid])
            BY <2>2, <3>6, <6>1 DEF Rising
          <6>3. s[i] \in FilePaths /\ s[mid] \in FilePaths
            BY <2>2
          <6> QED BY <2>3, <6>2, <6>3, BeforeOrders
        <5> QED BY <5>1, <5>2
      <4>2. \A i \in 1 .. Len(s) : i >= v.first + v.n => ~Directory!Before(s[i], p)
        BY <1>0, <3>2, <3>3, <3>6 DEF Split
      <4> QED BY <3>2, <4>1, <4>2 DEF Split
    <3> QED BY <1>2, <3>4, <3>5, <3>6 DEF v
  <2>4. CASE ~Directory!Before(s[mid], p)
    <3>1. v = [first |-> w.first, n |-> half]
      BY <1>2, <2>4 DEF Directory!Halve
    <3> HIDE DEF v, half
    <3>2. v.first = w.first /\ v.n = half
      BY <3>1
    <3>3. v \in Windows(s)
      BY <1>0, <2>1, <3>1 DEF Windows
    <3>4. v.n < w.n
      BY <2>1, <3>2
    <3>5. ASSUME Rising(s), Split(s, p, w) PROVE Split(s, p, v)
      <4>1. ASSUME NEW i \in 1 .. Len(s), i >= mid PROVE ~Directory!Before(s[i], p)
        <5>1. CASE i = mid
          BY <2>4, <5>1
        <5>2. CASE i # mid
          <6> HIDE DEF mid
          <6>1. mid < i
            BY <2>2, <4>1, <5>2
          <6>2. Directory!Before(s[mid], s[i])
            BY <2>2, <3>5, <6>1 DEF Rising
          <6>3. s[i] \in FilePaths /\ s[mid] \in FilePaths
            BY <2>2
          <6> QED BY <2>4, <6>2, <6>3, BeforeOrders
        <5> QED BY <5>1, <5>2
      <4>2. \A i \in 1 .. Len(s) : i < v.first => Directory!Before(s[i], p)
        BY <3>2, <3>5 DEF Split
      <4> QED BY <3>2, <4>1, <4>2 DEF Split
    <3> QED BY <1>2, <3>3, <3>4, <3>5 DEF v
  <2> QED BY <2>3, <2>4
<1> QED BY <1>1, <1>2

LEMMA LowerBoundIs ==
  ASSUME DirectoryIsSet, NEW s \in Seq(FilePaths), NEW p \in FilePaths
  PROVE  LET row == Directory!LowerBound(s, p)
         IN  /\ row \in 1 .. Len(s) + 1
             /\ Rising(s) => \A i \in 1 .. Len(s) :
                                /\ i < row => Directory!Before(s[i], p)
                                /\ i >= row => ~Directory!Before(s[i], p)
<1> DEFINE n == Len(s)
           W == Windows(s)
           w0 == [first |-> 1, n |-> Len(s)]
           step(w) == Directory!Halve(s, p, w)
           g == [k \in 1 .. n |-> [w \in W |-> step(w)]]
           Steps(f) == [k \in 0 .. n |-> IF k = 0 THEN w0 ELSE step(f[k - 1])]
           F == CHOOSE f : f = Steps(f)
<1>0. n \in Nat
  OBVIOUS
<1>1. w0 \in W /\ w0.first = 1 /\ w0.n = n
  BY <1>0 DEF Windows
<1>2. Directory!LowerBound(s, p) = F[n].first
  BY Zenon DEF Directory!LowerBound
<1>3. \A w \in W : /\ step(w) \in W
                   /\ IF w.n = 0 THEN step(w).n = 0 ELSE step(w).n < w.n
                   /\ Rising(s) /\ Split(s, p, w) => Split(s, p, step(w))
  BY HalveIs
<1> HIDE DEF step, w0, W, n
<1>4. \E f \in [0 .. n -> W] : f = Steps(f)
  <2>1. g \in [1 .. n -> [W -> W]]
    BY <1>3
  <2>2. PICK f : Stepwise(f, W, w0, n, g)
    <3> HIDE DEF g
    <3> QED BY ONLY <1>0, <1>1, <2>1, StepsExist
  <2>3. ASSUME NEW k \in 0 .. n, k # 0 PROVE g[k][f[k - 1]] = step(f[k - 1])
    <3>1. k \in 1 .. n /\ k - 1 \in 0 .. n
      BY <1>0, <2>3
    <3>2. f[k - 1] \in W
      BY <2>2, <3>1 DEF Stepwise
    <3> QED BY <3>1, <3>2
  <2>4. f = Steps(f) /\ f \in [0 .. n -> W]
    BY <2>2, <2>3 DEF Stepwise
  <2> QED BY <2>4
<1>5. F = Steps(F)
  <2> HIDE DEF Steps
  <2> QED BY <1>4, Zenon
<1> HIDE DEF F
<1>6. F[0] = w0 /\ \A k \in 1 .. n : F[k] = step(F[k - 1])
  <2>1. F[0] = w0
    BY <1>0, <1>5
  <2>2. ASSUME NEW k \in 1 .. n PROVE F[k] = step(F[k - 1])
    BY <1>0, <1>5
  <2> QED BY <2>1, <2>2
<1> HIDE DEF Steps
<1> DEFINE Fine(k) == /\ F[k] \in W /\ F[k].n + k <= n
                      /\ Rising(s) => Split(s, p, F[k])
           P == {k \in Nat : k <= n => Fine(k)}
<1>7. 0 \in P
  <2>1. Split(s, p, w0)
    <3>1. \A i \in 1 .. Len(s) : ~(i < 1) /\ ~(i >= 1 + n)
      BY DEF n
    <3> QED BY <1>1, <3>1 DEF Split
  <2> QED BY <1>0, <1>1, <1>6, <2>1
<1>8. ASSUME NEW k \in P PROVE k + 1 \in P
  <2>1. k \in Nat /\ k + 1 \in Nat
    OBVIOUS
  <2>2. ASSUME k + 1 <= n PROVE Fine(k + 1)
    <3>1. Fine(k)
      BY <1>0, <2>1, <2>2
    <3>2. F[k + 1] = step(F[k])
      BY <1>0, <1>6, <2>1, <2>2
    <3>3. F[k].n \in Nat /\ F[k + 1].n \in Nat
      BY <1>3, <3>1, <3>2 DEF W, Windows
    <3>4. F[k + 1] \in W /\ (Rising(s) => Split(s, p, F[k + 1]))
      BY <1>3, <3>1, <3>2
    <3>5. F[k + 1].n + (k + 1) <= n
      <4>1. IF F[k].n = 0 THEN F[k + 1].n = 0 ELSE F[k + 1].n < F[k].n
        BY <1>3, <3>1, <3>2
      <4>2. F[k].n + k <= n
        BY <3>1
      <4> QED BY <1>0, <2>1, <2>2, <3>3, <4>1, <4>2
    <3> QED BY <3>4, <3>5
  <2> QED BY <2>1, <2>2
<1> HIDE DEF P
<1>9. P = Nat
  <2>1. P \in SUBSET Nat
    BY DEF P
  <2> QED BY ONLY <2>1, <1>7, <1>8, EveryNumber
<1>10. Fine(n)
  BY <1>0, <1>9 DEF P
<1> DEFINE row == F[n].first
<1>11. row \in 1 .. Len(s) + 1 /\ F[n].first + F[n].n = row
  BY <1>0, <1>10 DEF W, Windows, n
<1>12. Rising(s) => \A i \in 1 .. Len(s) : /\ i < row => Directory!Before(s[i], p)
                                           /\ i >= row => ~Directory!Before(s[i], p)
  BY <1>10, <1>11 DEF Split
<1> QED BY <1>2, <1>11, <1>12

(* What is where after one row is inserted.                                *)
LEMMA RowInserted ==
  ASSUME NEW S, NEW s \in Seq(S), NEW i \in 1 .. Len(s) + 1, NEW e \in S
  PROVE  LET r == Directory!InsertAt(s, i, e)
         IN  /\ r \in Seq(S) /\ Len(r) = Len(s) + 1
             /\ \A k \in 1 .. Len(r) :
                   r[k] = IF k < i THEN s[k] ELSE IF k = i THEN e ELSE s[k - 1]
<1> DEFINE r == Directory!InsertAt(s, i, e)
           front == SubSeq(s, 1, i - 1)
           one == <<e>>
           back == SubSeq(s, i, Len(s))
<1>0. Len(s) \in Nat /\ i \in Nat
  OBVIOUS
<1>1. one \in Seq(S) /\ Len(one) = 1 /\ one[1] = e
  OBVIOUS
<1>2. r = (front \o one) \o back
  BY DEF Directory!InsertAt
<1>3. front \in Seq(S) /\ Len(front) = i - 1 /\ \A k \in 1 .. i - 1 : front[k] = s[k]
  OBVIOUS
<1>4. back \in Seq(S) /\ Len(back) = Len(s) + 1 - i
      /\ \A k \in 1 .. Len(s) + 1 - i : back[k] = s[k + i - 1]
  OBVIOUS
<1> HIDE DEF r, front, back, one
<1> DEFINE left == front \o one
<1>5. left \in Seq(S) /\ Len(left) = i
      /\ \A k \in 1 .. i : left[k] = IF k < i THEN s[k] ELSE e
  <2>1. left \in Seq(S)
    BY <1>1, <1>3, ConcatProperties
  <2>2. Len(left) = i
    <3>1. Len(left) = Len(front) + Len(one)
      BY <1>1, <1>3, ConcatProperties
    <3> QED BY <1>0, <1>1, <1>3, <3>1
  <2>3. ASSUME NEW k \in 1 .. i PROVE left[k] = IF k < i THEN s[k] ELSE e
    <3>1. left[k] = IF k <= Len(front) THEN front[k] ELSE one[k - Len(front)]
      <4>1. k \in 1 .. Len(front) + Len(one)
        BY <1>0, <1>1, <1>3
      <4> QED BY <1>1, <1>3, <4>1, ConcatProperties
    <3> QED BY <1>0, <1>1, <1>3, <3>1
  <2> QED BY <2>1, <2>2, <2>3
<1> HIDE DEF left
<1>6. r = left \o back
  BY <1>2 DEF left
<1>7. r \in Seq(S) /\ Len(r) = Len(s) + 1
  <2>1. r \in Seq(S) /\ Len(r) = Len(left) + Len(back)
    BY <1>4, <1>5, <1>6, ConcatProperties
  <2> QED BY <1>0, <1>4, <1>5, <2>1
<1>8. ASSUME NEW k \in 1 .. Len(r)
      PROVE  r[k] = IF k < i THEN s[k] ELSE IF k = i THEN e ELSE s[k - 1]
  <2>1. CASE k <= i
    BY <1>0, <1>4, <1>5, <1>6, <1>7, <2>1
  <2>2. CASE k > i
    <3>1. r[k] = back[k - i] /\ k - i \in 1 .. Len(s) + 1 - i
      BY <1>0, <1>4, <1>5, <1>6, <1>7, <2>2
    <3>2. (k - i) + i - 1 = k - 1
      BY <1>0
    <3>3. back[k - i] = s[k - 1]
      BY <1>4, <3>1, <3>2
    <3> QED BY <1>0, <2>2, <3>1, <3>3
  <2> QED BY <1>0, <2>1, <2>2
<1>9. /\ r \in Seq(S) /\ Len(r) = Len(s) + 1
      /\ \A k \in 1 .. Len(r) : r[k] = IF k < i THEN s[k] ELSE IF k = i THEN e ELSE s[k - 1]
  BY <1>7, <1>8
<1> QED BY <1>9 DEF r

(***************************************************************************)
(* One row more.  A run goes on before the row at its end, and the path    *)
(* that was inserted last is the row before that.                          *)
(***************************************************************************)
Batches == {acc \in [rows : Seq(FilePaths), at : Nat] : acc.at <= Len(acc.rows) + 1}
InRun(acc, p) == acc.at # 0 => acc.at >= 2 /\ Directory!Before(acc.rows[acc.at - 1], p)

LEMMA InsertRowIs ==
  ASSUME DirectoryIsSet, NEW acc \in Batches, NEW p \in FilePaths
  PROVE  LET r == Directory!InsertRow(acc, p)
         IN  /\ r \in Batches
             /\ r.at >= 2 /\ r.at - 1 <= Len(r.rows) /\ r.rows[r.at - 1] = p
             /\ Directory!ToSet(r.rows) = Directory!ToSet(acc.rows) \cup {p}
             /\ p \notin Directory!ToSet(acc.rows) =>
                   /\ Distinct(acc.rows) => Distinct(r.rows)
                   /\ Rising(acc.rows) /\ InRun(acc, p) => Rising(r.rows)
<1> DEFINE s == acc.rows
           joins == acc.at # 0 /\ (acc.at > Len(s) \/ Directory!Before(p, s[acc.at]))
           row == IF joins THEN acc.at ELSE Directory!LowerBound(s, p)
           t == Directory!InsertAt(s, row, p)
           r == Directory!InsertRow(acc, p)
<1>0. s \in Seq(FilePaths) /\ acc.at \in Nat /\ acc.at <= Len(s) + 1 /\ Len(s) \in Nat
  BY DEF Batches
<1>1. r = [rows |-> t, at |-> row + 1]
  BY Zenon DEF Directory!InsertRow
<1>2. row \in 1 .. Len(s) + 1
  <2>1. Directory!LowerBound(s, p) \in 1 .. Len(s) + 1
    BY <1>0, LowerBoundIs
  <2> HIDE DEF s
  <2> QED BY <1>0, <2>1
<1>3. ASSUME Rising(s), InRun(acc, p), p \notin Directory!ToSet(s), NEW i \in 1 .. Len(s)
      PROVE  /\ i < row => Directory!Before(s[i], p)
             /\ i >= row => Directory!Before(p, s[i])
  <2>0. /\ s[i] \in FilePaths /\ s[i] # p /\ i \in Nat
    BY <1>0, <1>3 DEF Directory!ToSet
  <2>1. CASE joins
    <3>1. row = acc.at /\ acc.at >= 2 /\ Directory!Before(s[acc.at - 1], p)
      BY <1>3, <2>1 DEF InRun
    <3>2. ASSUME i < row PROVE Directory!Before(s[i], p)
      <4>1. acc.at - 1 \in 1 .. Len(s) /\ i <= acc.at - 1
        BY <1>0, <2>0, <3>1, <3>2
      <4>2. s[acc.at - 1] \in FilePaths
        BY <1>0, <4>1
      <4>3. i = acc.at - 1 \/ Directory!Before(s[i], s[acc.at - 1])
        BY <1>0, <1>3, <2>0, <4>1 DEF Rising
      <4> HIDE DEF s
      <4> QED BY ONLY <2>0, <3>1, <4>2, <4>3, p \in FilePaths, BeforeOrders, DirectoryIsSet
    <3>3. ASSUME i >= row PROVE Directory!Before(p, s[i])
      <4>1. acc.at \in 1 .. Len(s) /\ Directory!Before(p, s[acc.at])
        BY <1>0, <2>0, <2>1, <3>1, <3>3
      <4>2. s[acc.at] \in FilePaths
        BY <1>0, <4>1
      <4>3. i = acc.at \/ Directory!Before(s[acc.at], s[i])
        BY <1>0, <1>3, <2>0, <3>1, <3>3, <4>1 DEF Rising
      <4> HIDE DEF s
      <4> QED BY ONLY <2>0, <4>1, <4>2, <4>3, p \in FilePaths, BeforeOrders, DirectoryIsSet
    <3> QED BY <3>2, <3>3
  <2>2. CASE ~joins
    <3>1. row = Directory!LowerBound(s, p)
      BY <2>2
    <3> HIDE DEF s, row
    <3>2. /\ i < row => Directory!Before(s[i], p)
          /\ i >= row => ~Directory!Before(s[i], p)
      BY <1>0, <1>3, <3>1, LowerBoundIs
    <3> QED BY <2>0, <3>2, BeforeOrders
  <2> QED BY <2>1, <2>2
<1> HIDE DEF s, row
<1>4. /\ t \in Seq(FilePaths) /\ Len(t) = Len(s) + 1
      /\ \A k \in 1 .. Len(t) : t[k] = IF k < row THEN s[k] ELSE IF k = row THEN p ELSE s[k - 1]
  BY <1>0, <1>2, RowInserted
<1> HIDE DEF t, r
<1>5. r.rows = t /\ r.at = row + 1 /\ r \in Batches
  BY <1>0, <1>1, <1>2, <1>4 DEF Batches
<1>6. r.at >= 2 /\ r.at - 1 <= Len(r.rows) /\ r.rows[r.at - 1] = p
  BY <1>0, <1>2, <1>4, <1>5
<1>7. Directory!ToSet(t) = Directory!ToSet(s) \cup {p}
  <2>1. ASSUME NEW k \in 1 .. Len(t) PROVE t[k] \in Directory!ToSet(s) \cup {p}
    <3>1. CASE k < row
      BY <1>0, <1>2, <1>4, <3>1 DEF Directory!ToSet
    <3>2. CASE k = row
      BY <1>4, <3>2
    <3>3. CASE k > row
      <4>1. k - 1 \in 1 .. Len(s) /\ t[k] = s[k - 1]
        BY <1>0, <1>2, <1>4, <3>3
      <4> QED BY <1>0, <4>1 DEF Directory!ToSet
    <3> QED BY <1>2, <3>1, <3>2, <3>3
  <2>2. ASSUME NEW i \in 1 .. Len(s) PROVE s[i] \in Directory!ToSet(t)
    <3>1. CASE i < row
      BY <1>0, <1>2, <1>4, <3>1 DEF Directory!ToSet
    <3>2. CASE i >= row
      <4>1. i + 1 \in 1 .. Len(t) /\ t[i + 1] = s[i]
        BY <1>0, <1>2, <1>4, <3>2
      <4> QED BY <1>4, <4>1 DEF Directory!ToSet
    <3> QED BY <1>2, <3>1, <3>2
  <2>3. p \in Directory!ToSet(t)
    BY <1>0, <1>2, <1>4 DEF Directory!ToSet
  <2> QED BY <1>0, <1>4, <2>1, <2>2, <2>3 DEF Directory!ToSet
<1>8. ASSUME p \notin Directory!ToSet(s), Distinct(s) PROVE Distinct(t)
  <2>0. \A i \in 1 .. Len(s) : s[i] # p
    BY <1>0, <1>8 DEF Directory!ToSet
  <2> SUFFICES ASSUME NEW i \in 1 .. Len(t), NEW j \in 1 .. Len(t), i < j PROVE t[i] # t[j]
    BY <1>0, <1>4 DEF Distinct
  <2>1. CASE j < row
    BY <1>0, <1>2, <1>4, <1>8, <2>1 DEF Distinct
  <2>2. CASE j = row
    BY <1>0, <1>2, <1>4, <2>0, <2>2
  <2>3. CASE j > row
    <3>1. j - 1 \in 1 .. Len(s) /\ t[j] = s[j - 1]
      BY <1>0, <1>2, <1>4, <2>3
    <3>2. CASE i < row
      <4>1. i \in 1 .. Len(s) /\ t[i] = s[i] /\ i # j - 1
        BY <1>0, <1>2, <1>4, <2>3, <3>2
      <4> QED BY <1>8, <3>1, <4>1 DEF Distinct
    <3>3. CASE i = row
      BY <1>4, <2>0, <3>1, <3>3
    <3>4. CASE i > row
      <4>1. i - 1 \in 1 .. Len(s) /\ t[i] = s[i - 1] /\ i - 1 # j - 1
        BY <1>0, <1>2, <1>4, <3>4
      <4> QED BY <1>8, <3>1, <4>1 DEF Distinct
    <3> QED BY <1>2, <3>2, <3>3, <3>4
  <2> QED BY <1>2, <2>1, <2>2, <2>3
<1>9. ASSUME p \notin Directory!ToSet(s), Rising(s), InRun(acc, p) PROVE Rising(t)
  <2>0. \A i \in 1 .. Len(s) : /\ i < row => Directory!Before(s[i], p)
                               /\ i >= row => Directory!Before(p, s[i])
    BY <1>3, <1>9
  <2> SUFFICES ASSUME NEW i \in 1 .. Len(t), NEW j \in 1 .. Len(t), i < j
               PROVE  Directory!Before(t[i], t[j])
    BY DEF Rising
  <2>1. CASE j < row
    BY <1>0, <1>2, <1>4, <1>9, <2>1 DEF Rising
  <2>2. CASE j = row
    BY <1>0, <1>2, <1>4, <2>0, <2>2
  <2>3. CASE j > row
    <3>1. j - 1 \in 1 .. Len(s) /\ t[j] = s[j - 1] /\ j - 1 >= row
      BY <1>0, <1>2, <1>4, <2>3
    <3>2. CASE i < row
      <4>1. i \in 1 .. Len(s) /\ t[i] = s[i] /\ i < j - 1
        BY <1>0, <1>2, <1>4, <2>3, <3>2
      <4> QED BY <1>9, <3>1, <4>1 DEF Rising
    <3>3. CASE i = row
      BY <1>4, <2>0, <3>1, <3>3
    <3>4. CASE i > row
      <4>1. i - 1 \in 1 .. Len(s) /\ t[i] = s[i - 1] /\ i - 1 < j - 1
        BY <1>0, <1>2, <1>4, <3>4
      <4> QED BY <1>9, <3>1, <4>1 DEF Rising
    <3> QED BY <1>2, <3>2, <3>3, <3>4
  <2> QED BY <1>2, <2>1, <2>2, <2>3
<1> QED BY <1>5, <1>6, <1>7, <1>8, <1>9 DEF s, r

(***************************************************************************)
(* Removal and insertion of many rows.                                     *)
(***************************************************************************)
\* The rows among the first n of s.
Firsts(s, n) == {s[i] : i \in 1 .. n}

LEMMA WithoutIs ==
  ASSUME NEW s \in Seq(FilePaths), NEW removed
  PROVE  LET r == Directory!Without(s, removed)
         IN  /\ r \in Seq(FilePaths)
             /\ Directory!ToSet(r) = Directory!ToSet(s) \ removed
             /\ Distinct(s) => Distinct(r)
             /\ Rising(s) => Rising(r)
<1> DEFINE n == Len(s)
           A == Seq(FilePaths)
           step(k, r) == IF s[k] \in removed THEN r ELSE Append(r, s[k])
           g == [k \in 1 .. n |-> [r \in A |-> step(k, r)]]
           Steps(f) == [k \in 0 .. n |-> IF k = 0 THEN <<>> ELSE step(k, f[k - 1])]
           F == CHOOSE f : f = Steps(f)
<1>0. n \in Nat /\ \A k \in 1 .. n : s[k] \in FilePaths
  OBVIOUS
<1>1. <<>> \in A
  OBVIOUS
<1>2. Directory!Without(s, removed) = F[n]
  BY Zenon DEF Directory!Without
<1>3. \A k \in 1 .. n, r \in A : step(k, r) \in A
  BY <1>0
<1> HIDE DEF step, A, n
<1>4. \E f \in [0 .. n -> A] : f = Steps(f)
  <2>1. g \in [1 .. n -> [A -> A]]
    BY <1>3
  <2>2. PICK f : Stepwise(f, A, <<>>, n, g)
    <3> HIDE DEF g
    <3> QED BY ONLY <1>0, <1>1, <2>1, StepsExist
  <2>3. ASSUME NEW k \in 0 .. n, k # 0 PROVE g[k][f[k - 1]] = step(k, f[k - 1])
    <3>1. k \in 1 .. n /\ k - 1 \in 0 .. n
      BY <1>0, <2>3
    <3>2. f[k - 1] \in A
      BY <2>2, <3>1 DEF Stepwise
    <3> QED BY <3>1, <3>2
  <2>4. f = Steps(f) /\ f \in [0 .. n -> A]
    BY <2>2, <2>3 DEF Stepwise
  <2> QED BY <2>4
<1>5. F = Steps(F)
  <2> HIDE DEF Steps
  <2> QED BY <1>4, Zenon
<1> HIDE DEF F
<1>6. F[0] = <<>> /\ \A k \in 1 .. n : F[k] = step(k, F[k - 1])
  <2>1. F[0] = <<>>
    BY <1>0, <1>5
  <2>2. ASSUME NEW k \in 1 .. n PROVE F[k] = step(k, F[k - 1])
    BY <1>0, <1>5
  <2> QED BY <2>1, <2>2
<1> HIDE DEF Steps
<1> DEFINE Fine(k) == /\ F[k] \in Seq(FilePaths)
                      /\ Directory!ToSet(F[k]) = Firsts(s, k) \ removed
                      /\ Distinct(s) => Distinct(F[k])
                      /\ Rising(s) => Rising(F[k])
           P == {k \in Nat : k <= n => Fine(k)}
<1>7. 0 \in P
  <2>1. F[0] = <<>>
    BY <1>6
  <2>2. Firsts(s, 0) = {} /\ Directory!ToSet(<<>>) = {}
    BY DEF Firsts, Directory!ToSet
  <2>3. Distinct(<<>>) /\ Rising(<<>>)
    BY DEF Distinct, Rising
  <2>4. <<>> \in Seq(FilePaths)
    OBVIOUS
  <2>5. Fine(0)
    BY <2>1, <2>2, <2>3, <2>4
  <2> QED BY <2>5
<1>8. ASSUME NEW k \in P PROVE k + 1 \in P
  <2>1. k \in Nat /\ k + 1 \in Nat
    OBVIOUS
  <2>2. ASSUME k + 1 <= n PROVE Fine(k + 1)
    <3>1. Fine(k)
      BY <1>0, <2>1, <2>2
    <3> DEFINE q == s[k + 1]
               old == F[k]
    <3>2. k + 1 \in 1 .. n /\ q \in FilePaths /\ (k + 1) - 1 = k
      BY <1>0, <2>1, <2>2
    <3>3. F[k + 1] = IF q \in removed THEN old ELSE Append(old, q)
      BY <1>6, <3>2 DEF step
    <3>4. Firsts(s, k + 1) = Firsts(s, k) \cup {q}
      <4>1. 1 .. k + 1 = (1 .. k) \cup {k + 1}
        BY <2>1
      <4> QED BY <4>1 DEF Firsts
    <3>5. CASE q \in removed
      BY <3>1, <3>3, <3>4, <3>5
    <3>6. CASE q \notin removed
      <4> DEFINE new == Append(old, q)
      <4>1. new = F[k + 1]
        BY <3>3, <3>6
      <4>2. /\ old \in Seq(FilePaths) /\ Directory!ToSet(old) = Firsts(s, k) \ removed
            /\ Distinct(s) => Distinct(old)
            /\ Rising(s) => Rising(old)
        BY <3>1
      <4> HIDE DEF old, q, Fine
      <4>3. /\ new \in Seq(FilePaths) /\ Len(new) = Len(old) + 1
            /\ \A i \in 1 .. Len(old) : new[i] = old[i]
            /\ new[Len(old) + 1] = q /\ Len(old) \in Nat
        BY <3>2, <4>2
      <4> HIDE DEF new
      <4>4. \A i \in 1 .. Len(old) : \E j \in 1 .. k : old[i] = s[j]
        <5>1. \A i \in 1 .. Len(old) : old[i] \in Directory!ToSet(old)
          BY <4>2 DEF Directory!ToSet
        <5>2. \A i \in 1 .. Len(old) : old[i] \in Firsts(s, k)
          BY <4>2, <5>1
        <5> QED BY <5>2 DEF Firsts
      <4>5. Directory!ToSet(new) = Directory!ToSet(old) \cup {q}
        <5>1. 1 .. Len(new) = (1 .. Len(old)) \cup {Len(old) + 1}
          BY <4>3
        <5> QED BY <4>2, <4>3, <5>1, SMTT(30) DEF Directory!ToSet
      <4>6. ASSUME Distinct(s) PROVE Distinct(new)
        <5>1. \A j \in 1 .. k : s[j] # q
          BY <2>1, <3>2, <4>6 DEF Distinct, n, q
        <5>2. \A i \in 1 .. Len(old) : old[i] # q
          BY <4>4, <5>1
        <5> SUFFICES ASSUME NEW i \in 1 .. Len(new), NEW j \in 1 .. Len(new), i < j
                     PROVE  new[i] # new[j]
          BY <4>3 DEF Distinct
        <5>3. i \in 1 .. Len(old) /\ new[i] = old[i]
          BY <4>3
        <5>4. CASE j \in 1 .. Len(old)
          BY <4>2, <4>3, <4>6, <5>3, <5>4 DEF Distinct
        <5>5. CASE j = Len(old) + 1
          BY <4>3, <5>2, <5>3, <5>5
        <5> QED BY <4>3, <5>4, <5>5
      <4>7. ASSUME Rising(s) PROVE Rising(new)
        <5>1. \A j \in 1 .. k : Directory!Before(s[j], q)
          BY <2>1, <3>2, <4>7 DEF Rising, n, q
        <5>2. \A i \in 1 .. Len(old) : Directory!Before(old[i], q)
          BY <4>4, <5>1
        <5> SUFFICES ASSUME NEW i \in 1 .. Len(new), NEW j \in 1 .. Len(new), i < j
                     PROVE  Directory!Before(new[i], new[j])
          BY DEF Rising
        <5>3. i \in 1 .. Len(old) /\ new[i] = old[i]
          BY <4>3
        <5>4. CASE j \in 1 .. Len(old)
          BY <4>2, <4>3, <4>7, <5>3, <5>4 DEF Rising
        <5>5. CASE j = Len(old) + 1
          BY <4>3, <5>2, <5>3, <5>5
        <5> QED BY <4>3, <5>4, <5>5
      <4>8. Directory!ToSet(new) = Firsts(s, k + 1) \ removed
        BY <3>4, <3>6, <4>2, <4>5
      <4> QED BY <4>1, <4>3, <4>6, <4>7, <4>8 DEF Fine
    <3> QED BY <3>5, <3>6
  <2> QED BY <2>1, <2>2
<1> HIDE DEF P
<1>9. P = Nat
  <2>1. P \in SUBSET Nat
    BY DEF P
  <2> QED BY ONLY <2>1, <1>7, <1>8, EveryNumber
<1>10. Fine(n)
  BY <1>0, <1>9 DEF P
<1>11. Firsts(s, n) = Directory!ToSet(s)
  BY DEF Firsts, Directory!ToSet, n
<1> QED BY <1>2, <1>10, <1>11

LEMMA WithIs ==
  ASSUME DirectoryIsSet, NEW s \in Seq(FilePaths), NEW new \in Seq(FilePaths),
         Distinct(new), \A i \in 1 .. Len(new) : new[i] \notin Directory!ToSet(s)
  PROVE  LET r == Directory!With(s, new)
         IN  /\ r \in Seq(FilePaths)
             /\ Directory!ToSet(r) = Directory!ToSet(s) \cup Directory!ToSet(new)
             /\ Distinct(s) => Distinct(r)
             /\ Rising(s) /\ Rising(new) => Rising(r)
<1> DEFINE n == Len(new)
           A == Batches
           a == [rows |-> s, at |-> 0]
           step(k, acc) == Directory!InsertRow(acc, new[k])
           g == [k \in 1 .. n |-> [acc \in A |-> step(k, acc)]]
           Steps(f) == [k \in 0 .. n |-> IF k = 0 THEN a ELSE step(k, f[k - 1])]
           F == CHOOSE f : f = Steps(f)
<1>0. n \in Nat /\ \A k \in 1 .. n : new[k] \in FilePaths
  OBVIOUS
<1>1. a \in A /\ a.rows = s /\ a.at = 0
  BY DEF Batches
<1>2. Directory!With(s, new) = F[n].rows
  BY Zenon DEF Directory!With
<1>3. \A k \in 1 .. n, acc \in A : step(k, acc) \in A
  BY <1>0, InsertRowIs
<1> HIDE DEF step, A, n, a
<1>4. \E f \in [0 .. n -> A] : f = Steps(f)
  <2>1. g \in [1 .. n -> [A -> A]]
    BY <1>3
  <2>2. PICK f : Stepwise(f, A, a, n, g)
    <3> HIDE DEF g
    <3> QED BY ONLY <1>0, <1>1, <2>1, StepsExist
  <2>3. ASSUME NEW k \in 0 .. n, k # 0 PROVE g[k][f[k - 1]] = step(k, f[k - 1])
    <3>1. k \in 1 .. n /\ k - 1 \in 0 .. n
      BY <1>0, <2>3
    <3>2. f[k - 1] \in A
      BY <2>2, <3>1 DEF Stepwise
    <3> QED BY <3>1, <3>2
  <2>4. f = Steps(f) /\ f \in [0 .. n -> A]
    BY <2>2, <2>3 DEF Stepwise
  <2> QED BY <2>4
<1>5. F = Steps(F)
  <2> HIDE DEF Steps
  <2> QED BY <1>4, Zenon
<1> HIDE DEF F
<1>6. F[0] = a /\ \A k \in 1 .. n : F[k] = step(k, F[k - 1])
  <2>1. F[0] = a
    BY <1>0, <1>5
  <2>2. ASSUME NEW k \in 1 .. n PROVE F[k] = step(k, F[k - 1])
    BY <1>0, <1>5
  <2> QED BY <2>1, <2>2
<1> HIDE DEF Steps
<1> DEFINE Fine(k) ==
             /\ F[k] \in Batches
             /\ Directory!ToSet(F[k].rows) = Directory!ToSet(s) \cup Firsts(new, k)
             /\ Distinct(s) => Distinct(F[k].rows)
             /\ Rising(s) /\ Rising(new) => Rising(F[k].rows)
             /\ IF k = 0 THEN F[k].at = 0
                ELSE F[k].at >= 2 /\ F[k].rows[F[k].at - 1] = new[k]
           P == {k \in Nat : k <= n => Fine(k)}
<1>7. 0 \in P
  <2>1. Firsts(new, 0) = {}
    BY DEF Firsts
  <2> QED BY <1>0, <1>1, <1>6, <2>1 DEF A
<1>8. ASSUME NEW k \in P PROVE k + 1 \in P
  <2>1. k \in Nat /\ k + 1 \in Nat
    OBVIOUS
  <2>2. ASSUME k + 1 <= n PROVE Fine(k + 1)
    <3>1. Fine(k)
      BY <1>0, <2>1, <2>2
    <3> DEFINE q == new[k + 1]
               old == F[k]
               r == F[k + 1]
    <3>2. k + 1 \in 1 .. n /\ q \in FilePaths /\ (k + 1) - 1 = k /\ k + 1 # 0
      BY <1>0, <2>1, <2>2
    <3>3. r = Directory!InsertRow(old, q)
      BY <1>6, <3>2 DEF step
    <3>4. Firsts(new, k + 1) = Firsts(new, k) \cup {q}
      <4>1. 1 .. k + 1 = (1 .. k) \cup {k + 1}
        BY <2>1
      <4> QED BY <4>1 DEF Firsts
    <3>5. q \notin Directory!ToSet(old.rows)
      <4>1. q \notin Directory!ToSet(s)
        BY <3>2 DEF n
      <4>2. q \notin Firsts(new, k)
        BY <1>0, <2>1, <2>2 DEF Distinct, Firsts, n
      <4> QED BY <3>1, <4>1, <4>2
    <3>6. Rising(new) => InRun(old, q)
      <4>1. CASE k = 0
        BY <3>1, <4>1 DEF InRun
      <4>2. CASE k # 0
        <5>1. k \in 1 .. n /\ k + 1 \in 1 .. n /\ k < k + 1
          BY <1>0, <2>1, <2>2, <4>2
        <5>2. Rising(new) => Directory!Before(new[k], q)
          BY <5>1 DEF Rising, n
        <5> QED BY <3>1, <4>2, <5>2 DEF InRun
      <4> QED BY <4>1, <4>2
    <3>7. /\ old \in Batches
          /\ Directory!ToSet(old.rows) = Directory!ToSet(s) \cup Firsts(new, k)
          /\ Distinct(s) => Distinct(old.rows)
          /\ Rising(s) /\ Rising(new) => Rising(old.rows)
      BY <3>1
    <3> HIDE DEF old, q, r, Fine
    <3>8. /\ r \in Batches
          /\ r.at >= 2 /\ r.at - 1 <= Len(r.rows) /\ r.rows[r.at - 1] = q
          /\ Directory!ToSet(r.rows) = Directory!ToSet(old.rows) \cup {q}
          /\ Distinct(old.rows) => Distinct(r.rows)
          /\ Rising(old.rows) /\ InRun(old, q) => Rising(r.rows)
      BY <3>2, <3>3, <3>5, <3>7, InsertRowIs
    <3>9. Directory!ToSet(r.rows) = Directory!ToSet(s) \cup Firsts(new, k + 1)
      BY <3>4, <3>7, <3>8
    <3> QED BY <3>2, <3>6, <3>7, <3>8, <3>9 DEF Fine, r, q
  <2> QED BY <2>1, <2>2
<1> HIDE DEF P
<1>9. P = Nat
  <2>1. P \in SUBSET Nat
    BY DEF P
  <2> QED BY ONLY <2>1, <1>7, <1>8, EveryNumber
<1>10. Fine(n)
  BY <1>0, <1>9 DEF P
<1>11. Firsts(new, n) = Directory!ToSet(new)
  BY DEF Firsts, Directory!ToSet, n
<1>12. F[n].rows \in Seq(FilePaths)
  BY <1>10 DEF Batches
<1> QED BY <1>2, <1>10, <1>11, <1>12

(* What the rows are after a difference is applied, whatever they were:    *)
(* nothing is there twice, and if those that stay are in order, all are.   *)
LEMMA AppliedIs ==
  ASSUME DirectoryIsSet, dirEntries \in Seq(FilePaths),
         NEW removed, NEW added \in SUBSET FilePaths
  PROVE  LET r == Directory!Applied(removed, added)
         IN  /\ r \in Seq(FilePaths)
             /\ Directory!ToSet(r) = (Directory!ToSet(dirEntries) \ removed) \cup added
             /\ Distinct(dirEntries) => Distinct(r)
             /\ Rising(dirEntries) => Rising(Directory!Without(dirEntries, removed))
             /\ Rising(Directory!Without(dirEntries, removed)) => Rising(r)
<1> DEFINE kept == Directory!Without(dirEntries, removed)
           lacking == added \ Directory!ToSet(kept)
           new == Directory!Sorted(lacking)
           r == Directory!Applied(removed, added)
<1>1. r = Directory!With(kept, new)
  BY Zenon DEF Directory!Applied
<1>2. /\ kept \in Seq(FilePaths)
      /\ Directory!ToSet(kept) = Directory!ToSet(dirEntries) \ removed
      /\ Distinct(dirEntries) => Distinct(kept)
      /\ Rising(dirEntries) => Rising(kept)
  BY WithoutIs
<1>3. lacking \in SUBSET FilePaths
  OBVIOUS
<1> HIDE DEF kept
<1>4. new \in Seq(lacking) /\ Rising(new) /\ Distinct(new) /\ Directory!ToSet(new) = lacking
  <2> HIDE DEF lacking
  <2> QED BY <1>3, SortedIs
<1>5. new \in Seq(FilePaths) /\ \A i \in 1 .. Len(new) : new[i] \notin Directory!ToSet(kept)
  <2>1. \A i \in 1 .. Len(new) : new[i] \in lacking
    BY <1>4
  <2> HIDE DEF new
  <2>2. new \in Seq(FilePaths)
    BY <1>3, <1>4
  <2> QED BY <2>1, <2>2
<1> HIDE DEF new, r
<1>6. /\ r \in Seq(FilePaths)
      /\ Directory!ToSet(r) = Directory!ToSet(kept) \cup Directory!ToSet(new)
      /\ Distinct(kept) => Distinct(r)
      /\ Rising(kept) /\ Rising(new) => Rising(r)
  BY <1>1, <1>2, <1>4, <1>5, WithIs
<1>7. Directory!ToSet(r) = (Directory!ToSet(dirEntries) \ removed) \cup added
  BY <1>2, <1>4, <1>6
<1> QED BY <1>2, <1>4, <1>6, <1>7 DEF r, kept

(***************************************************************************)
(* The invariant of the rows.  Each of its parts says what is still known  *)
(* on the schedules that the history does not blame.                       *)
(***************************************************************************)
Options == [path : Folders \cup {None}, recursive : BOOLEAN, watch : BOOLEAN,
            hidden : BOOLEAN, filter : FileFilters, reverse : BOOLEAN]
ScanOptions == [recursive : BOOLEAN, hidden : BOOLEAN, filter : FileFilters]
ScanRecords == [dir : Folders, old : SUBSET FilePaths,
                phase : {"running", "ended", "refused", "done"},
                opt : ScanOptions, cancelled : BOOLEAN,
                removed : SUBSET FilePaths, added : SUBSET FilePaths]
Listings == [path : Folders, hidden : BOOLEAN, dirs : SUBSET Folders]

\* The map of the scans in flight names scans of the directory it says.
FuturesFit(map) ==
  /\ map \in [DOMAIN map -> 1 .. Len(dirScans)] /\ DOMAIN map \subseteq Folders
  /\ \A d \in DOMAIN map : dirScans[map[d]].dir = d

RowTypes ==
  /\ dirOpt \in Options
  /\ dirEntries \in Seq(FilePaths)
  /\ dirScans \in Seq(ScanRecords)
  /\ FuturesFit(dirFutures)
  /\ dirWatched \in SUBSET Folders /\ dirNotices \in SUBSET dirWatched
  /\ dirListings \in SUBSET Listings
  /\ dirBlame \in SUBSET Directory!Blames

ScanOf(o) == [recursive |-> o.recursive, hidden |-> o.hidden, filter |-> o.filter]

\* What a scan of d reads anew if the rows are those of directory top.
Covers(d, top, p) == d = top \/ Directory!Below(p, d)

NewScan(d, o) ==
  [dir |-> d, old |-> {p \in Directory!ToSet(dirEntries) : Covers(d, o.path, p)},
   phase |-> "running", opt |-> ScanOf(o), cancelled |-> FALSE, removed |-> {}, added |-> {}]

\* The scans as cancellations leave them.
Cancelled(known) ==
  /\ known \in Seq(ScanRecords) /\ Len(known) = Len(dirScans)
  /\ \A i \in 1 .. Len(dirScans) : \/ known[i] = dirScans[i]
                                   \/ known[i] = [dirScans[i] EXCEPT !.cancelled = TRUE]

LEMMA NewScanType ==
  ASSUME RowTypes, NEW d \in Folders, NEW o \in Options
  PROVE  NewScan(d, o) \in ScanRecords
<1>1. Directory!ToSet(dirEntries) \in SUBSET FilePaths
  BY DEF RowTypes, Directory!ToSet
<1>2. {p \in Directory!ToSet(dirEntries) : Covers(d, o.path, p)} \in SUBSET FilePaths
  BY <1>1
<1>3. ScanOf(o) \in ScanOptions
  BY DEF ScanOf, Options, ScanOptions
<1> QED BY <1>2, <1>3 DEF NewScan, ScanRecords

(* Starting a scan: the new one is the last, and the one that is cancelled *)
(* is the one the map names.                                               *)
LEMMA StartScanIs ==
  ASSUME RowTypes, NEW d \in Folders, NEW o \in Options, NEW known, Cancelled(known),
         NEW map, FuturesFit(map), Directory!StartScan(d, known, map, o)
  PROVE  /\ dirScans' \in Seq(ScanRecords) /\ Len(dirScans') = Len(dirScans) + 1
         /\ dirScans'[Len(dirScans) + 1] = NewScan(d, o)
         /\ \A i \in 1 .. Len(dirScans) :
               /\ dirScans'[i].dir = dirScans[i].dir /\ dirScans'[i].phase = dirScans[i].phase
               /\ dirScans[i].cancelled => dirScans'[i].cancelled
               /\ dirScans'[i].cancelled /\ ~known[i].cancelled => d \in DOMAIN map /\ map[d] = i
         /\ FuturesFit(dirFutures)'
         /\ "overlap" \notin dirBlame' => \A i \in 1 .. Len(dirScans) : ~Directory!Live(i)'
         /\ dirBlame' \in SUBSET Directory!Blames
         /\ "watch" \notin dirBlame' => "watch" \notin dirBlame
         /\ "order" \notin dirBlame' => /\ "order" \notin dirBlame
                                        /\ o = dirOpt \/ Directory!InOrder(dirEntries, o)
         /\ d # o.path => dirBlame \subseteq dirBlame'
<1> DEFINE n == Len(dirScans)
           known2 == IF d \in DOMAIN map
                     THEN [known EXCEPT ![map[d]].cancelled = TRUE] ELSE known
           new == NewScan(d, o)
           overlap == \E i \in DOMAIN dirScans : Directory!Live(i) /\ ~known2[i].cancelled
           order == o # dirOpt /\ ~Directory!InOrder(dirEntries, o)
<1>0. /\ n \in Nat /\ dirScans \in Seq(ScanRecords) /\ DOMAIN dirScans = 1 .. n
      /\ known \in Seq(ScanRecords) /\ Len(known) = n /\ DOMAIN known = 1 .. n
  BY DEF RowTypes, Cancelled
<1>1. new \in ScanRecords
  BY NewScanType
<1>2. /\ dirScans' = Append(known2, new)
      /\ dirFutures' = [e \in DOMAIN map \cup {d} |-> IF e = d THEN n + 1 ELSE map[e]]
      /\ dirBlame' = (dirBlame \ IF d = o.path THEN {"overlap", "unseen"} ELSE {})
                     \cup Directory!Note("overlap", overlap) \cup Directory!Note("order", order)
  BY Zenon DEF Directory!StartScan, NewScan, ScanOf, Covers
<1>3. \A i \in 1 .. n : /\ known[i] \in ScanRecords
                        /\ known[i].dir = dirScans[i].dir /\ known[i].phase = dirScans[i].phase
                        /\ dirScans[i].cancelled => known[i].cancelled
  <2> SUFFICES ASSUME NEW i \in 1 .. n
               PROVE  /\ known[i] \in ScanRecords
                      /\ known[i].dir = dirScans[i].dir /\ known[i].phase = dirScans[i].phase
                      /\ dirScans[i].cancelled => known[i].cancelled
    OBVIOUS
  <2>1. known[i] \in ScanRecords /\ dirScans[i] \in ScanRecords
    BY <1>0
  <2>2. known[i] = dirScans[i] \/ known[i] = [dirScans[i] EXCEPT !.cancelled = TRUE]
    BY DEF Cancelled
  <2> QED BY <2>1, <2>2 DEF ScanRecords
<1>4. /\ known2 \in Seq(ScanRecords) /\ Len(known2) = n
      /\ \A i \in 1 .. n :
            /\ known2[i].dir = known[i].dir /\ known2[i].phase = known[i].phase
            /\ known[i].cancelled => known2[i].cancelled
            /\ known2[i].cancelled /\ ~known[i].cancelled => d \in DOMAIN map /\ map[d] = i
  <2>1. CASE d \in DOMAIN map
    <3>1. map[d] \in 1 .. n
      BY <2>1 DEF FuturesFit
    <3> DEFINE k == map[d]
               one == [known[k] EXCEPT !.cancelled = TRUE]
    <3>2. known2 = [known EXCEPT ![k] = one]
      BY <2>1
    <3>3. one \in ScanRecords /\ one.dir = known[k].dir /\ one.phase = known[k].phase /\ one.cancelled
      BY <1>3, <3>1 DEF ScanRecords
    <3>4. known2 \in Seq(ScanRecords) /\ Len(known2) = n
          /\ \A i \in 1 .. n : known2[i] = IF i = k THEN one ELSE known[i]
      <4> HIDE DEF known2, one
      <4> QED BY <1>0, <3>1, <3>2, <3>3
    <3> HIDE DEF known2, one
    <3> QED BY <2>1, <3>1, <3>3, <3>4
  <2>2. CASE d \notin DOMAIN map
    BY <1>0, <2>2
  <2> QED BY <2>1, <2>2
<1> HIDE DEF known2, new
<1>5. /\ dirScans' \in Seq(ScanRecords) /\ Len(dirScans') = n + 1 /\ dirScans'[n + 1] = new
      /\ \A i \in 1 .. n : dirScans'[i] = known2[i]
  BY <1>0, <1>1, <1>2, <1>4
<1>6. FuturesFit(dirFutures)'
  <2>1. DOMAIN dirFutures' = DOMAIN map \cup {d}
    BY <1>2
  <2>2. ASSUME NEW e \in DOMAIN map \cup {d}
        PROVE  dirFutures'[e] \in 1 .. n + 1 /\ dirScans'[dirFutures'[e]].dir = e
    <3>1. CASE e = d
      <4>1. dirFutures'[e] = n + 1
        BY <1>2, <3>1
      <4> QED BY <1>0, <1>5, <3>1, <4>1 DEF new, NewScan
    <3>2. CASE e # d
      <4>1. dirFutures'[e] = map[e] /\ e \in DOMAIN map
        BY <1>2, <3>2
      <4>2. map[e] \in 1 .. n /\ dirScans[map[e]].dir = e
        BY <4>1 DEF FuturesFit
      <4>3. dirScans'[map[e]].dir = e
        BY <1>3, <1>4, <1>5, <4>2
      <4> QED BY <1>0, <4>1, <4>2, <4>3
    <3> QED BY <3>1, <3>2
  <2>3. DOMAIN map \cup {d} \subseteq Folders
    BY DEF FuturesFit
  <2>4. dirFutures' \in [DOMAIN dirFutures' -> 1 .. Len(dirScans')]
    BY <1>2, <1>5, <2>1, <2>2
  <2> QED BY <2>1, <2>2, <2>3, <2>4 DEF FuturesFit
<1> HIDE DEF overlap, order
<1>7. /\ "overlap" \notin dirBlame' => ~overlap
      /\ "order" \notin dirBlame' => "order" \notin dirBlame /\ ~order
      /\ "watch" \notin dirBlame' => "watch" \notin dirBlame
      /\ d # o.path => dirBlame \subseteq dirBlame'
      /\ dirBlame' \in SUBSET Directory!Blames
  <2>1. /\ overlap => "overlap" \in dirBlame'
        /\ order => "order" \in dirBlame'
    BY <1>2, Zenon DEF Directory!Note
  <2>2. "order" \in dirBlame => "order" \in dirBlame'
    BY <1>2
  <2>3. "watch" \in dirBlame => "watch" \in dirBlame'
    BY <1>2
  <2>4. dirBlame' \in SUBSET Directory!Blames
    <3>1. Directory!Note("overlap", overlap) \in SUBSET {"overlap", "order"}
      BY DEF Directory!Note
    <3>2. Directory!Note("order", order) \in SUBSET {"overlap", "order"}
      BY DEF Directory!Note
    <3>3. dirBlame \in SUBSET Directory!Blames /\ {"overlap", "order"} \in SUBSET Directory!Blames
      BY DEF RowTypes, Directory!Blames
    <3> QED BY <1>2, <3>1, <3>2, <3>3
  <2>5. d # o.path => dirBlame \subseteq dirBlame'
    BY <1>2
  <2> QED BY <2>1, <2>2, <2>3, <2>4, <2>5
<1>8. ~order => o = dirOpt \/ Directory!InOrder(dirEntries, o)
  BY Zenon DEF order
<1>9. ASSUME "overlap" \notin dirBlame', NEW i \in 1 .. n PROVE ~Directory!Live(i)'
  <2>1. ~(Directory!Live(i) /\ ~known2[i].cancelled)
    BY <1>0, <1>7, <1>9 DEF overlap
  <2>2. dirScans'[i] = known2[i] /\ dirScans'[i].phase = dirScans[i].phase
        /\ (dirScans[i].cancelled => dirScans'[i].cancelled)
    BY <1>3, <1>4, <1>5
  <2> QED BY <2>1, <2>2 DEF Directory!Live
<1>10. \A i \in 1 .. n :
               /\ dirScans'[i].dir = dirScans[i].dir /\ dirScans'[i].phase = dirScans[i].phase
               /\ dirScans[i].cancelled => dirScans'[i].cancelled
               /\ dirScans'[i].cancelled /\ ~known[i].cancelled => d \in DOMAIN map /\ map[d] = i
  BY <1>3, <1>4, <1>5
<1> QED BY <1>5, <1>6, <1>7, <1>8, <1>9, <1>10 DEF new

Reads(i) == Directory!Live(i) /\ dirScans[i].phase = "running"
HasRead(i) == Directory!Live(i) /\ dirScans[i].phase = "ended"

\* Only directories that may be entered are watched,
WatchesReach ==
  /\ \A e \in dirWatched : e = dirOpt.path \/ Directory!Reached(e, dirOpt.path, dirOpt.hidden)
  /\ dirOpt.path = None => dirWatched = {}
  /\ \A l \in dirListings : \A e \in l.dirs : Directory!Reached(e, l.path, l.hidden)

\* and subdirectories only if they are read.
WatchesAsked ==
  "watch" \notin dirBlame => \A e \in dirWatched : e = dirOpt.path \/ dirOpt.recursive

\* One scan is in flight at most.  It reads with the options of now what is
\* shown, and changes nothing of which it does not read all.
OnlyScan(i) ==
  /\ \A j \in 1 .. Len(dirScans) : Directory!Live(j) => i = j
  /\ dirOpt.path # None
  /\ dirScans[i].opt = ScanOf(dirOpt)
  /\ "watch" \notin dirBlame =>
        \/ dirScans[i].dir = dirOpt.path
        \/ dirOpt.recursive /\ Directory!Reached(dirScans[i].dir, dirOpt.path, dirOpt.hidden)
  /\ dirScans[i].phase = "running" =>
        dirScans[i].old = {p \in Directory!ToSet(dirEntries) : Covers(dirScans[i].dir, dirOpt.path, p)}
  /\ \A p \in dirScans[i].removed \cup dirScans[i].added : Covers(dirScans[i].dir, dirOpt.path, p)

OneScan ==
  "overlap" \notin dirBlame =>
     \A i \in 1 .. Len(dirScans) : Directory!Live(i) => OnlyScan(i)

\* What is there, what will be read again, and what the rows will be once the
\* difference that was found is applied.
Wanted == IF dirOpt.path = None THEN {} ELSE Directory!Scanned(dirOpt.path, dirOpt)
Awaited(p) ==
  \/ \E d \in dirNotices : Covers(d, dirOpt.path, p)
  \/ \E i \in 1 .. Len(dirScans) : Reads(i) /\ Covers(dirScans[i].dir, dirOpt.path, p)
ToBeShown(p) ==
  \/ /\ p \in Directory!ToSet(dirEntries)
     /\ \A i \in 1 .. Len(dirScans) : HasRead(i) => p \notin dirScans[i].removed
  \/ \E i \in 1 .. Len(dirScans) : HasRead(i) /\ p \in dirScans[i].added

RowsRight ==
  dirBlame \subseteq {"order"} =>
     \A p \in FilePaths : Awaited(p) \/ (ToBeShown(p) <=> p \in Wanted)

RowsInOrder == "order" \notin dirBlame => Rising(dirEntries)

DirInv ==
  /\ RowTypes /\ WatchesReach /\ WatchesAsked /\ OneScan /\ RowsRight
  /\ Distinct(dirEntries) /\ RowsInOrder

(* A scan of a part reads that part of what a scan of all would.           *)
LEMMA PartIsRead ==
  ASSUME dirOpt \in Options, dirOpt.path # None, NEW d,
         d = dirOpt.path \/ (dirOpt.recursive /\ Directory!Reached(d, dirOpt.path, dirOpt.hidden)),
         NEW p
  PROVE  p \in Directory!Scanned(d, ScanOf(dirOpt)) <=> p \in Wanted /\ Covers(d, dirOpt.path, p)
<1> DEFINE o == dirOpt
<1>1. /\ ScanOf(o).recursive = o.recursive /\ ScanOf(o).hidden = o.hidden
      /\ ScanOf(o).filter = o.filter
  BY DEF ScanOf
<1>2. p \in Directory!Scanned(d, ScanOf(o)) <=>
        /\ p \in dirDisk \cap o.filter
        /\ Directory!Reached(p, d, o.hidden)
        /\ o.recursive \/ FolderOf[p] = d
  BY <1>1 DEF Directory!Scanned
<1>3. p \in Wanted <=>
        /\ p \in dirDisk \cap o.filter
        /\ Directory!Reached(p, o.path, o.hidden)
        /\ o.recursive \/ FolderOf[p] = o.path
  BY DEF Wanted, Directory!Scanned
<1>4. CASE d = o.path
  BY <1>2, <1>3, <1>4 DEF Covers
<1>5. CASE d # o.path
  <2>1. Directory!Reached(p, d, o.hidden)
          <=> Directory!Reached(p, o.path, o.hidden) /\ Directory!Below(p, d)
    BY <1>5, ReachedTwice
  <2> QED BY <1>2, <1>3, <1>5, <2>1 DEF Covers
<1> QED BY <1>4, <1>5

(* What the invariant promises when all is at rest.                        *)
LEMMA RowsAreRight ==
  ASSUME DirInv
  PROVE  /\ Directory!TypeOK /\ Directory!NoRowTwice /\ Directory!RowsSorted
         /\ Directory!RowsSettle
<1>0. /\ dirEntries \in Seq(FilePaths) /\ dirScans \in Seq(ScanRecords) /\ dirOpt \in Options
      /\ DOMAIN dirEntries = 1 .. Len(dirEntries) /\ DOMAIN dirScans = 1 .. Len(dirScans)
  BY DEF DirInv, RowTypes
<1>1. Directory!TypeOK
  <2>1. dirEntries \in Seq(Directory!AllPaths)
    BY <1>0 DEF Directory!AllPaths, FilePaths
  <2>2. \A i \in DOMAIN dirScans : dirScans[i].phase \in {"running", "ended", "refused", "done"}
    <3>1. \A i \in DOMAIN dirScans : dirScans[i] \in ScanRecords
      BY <1>0
    <3> QED BY <3>1 DEF ScanRecords
  <2>3. DOMAIN dirFutures \subseteq Folders
    BY DEF DirInv, RowTypes, FuturesFit
  <2>4. dirWatched \cup dirNotices \subseteq Folders /\ dirBlame \subseteq Directory!Blames
    BY DEF DirInv, RowTypes
  <2> QED BY <1>0, <2>1, <2>2, <2>3, <2>4 DEF Directory!TypeOK, Options
<1>2. Directory!NoRowTwice
  BY <1>0 DEF DirInv, Distinct, Directory!NoRowTwice
<1>3. Directory!RowsSorted
  BY <1>0, RisingIs DEF DirInv, RowsInOrder, Directory!RowsSorted
<1>4. Directory!RowsSettle
  <2> SUFFICES ASSUME Directory!Quiet, dirBlame \subseteq {"order"}
               PROVE  Directory!ToSet(dirEntries) = Wanted
    BY DEF Directory!RowsSettle, Wanted
  <2>1. \A i \in 1 .. Len(dirScans) : ~Directory!Live(i)
    BY <1>0 DEF Directory!Quiet, Directory!Live
  <2>2. dirNotices = {}
    BY DEF Directory!Quiet
  <2>3. \A p \in FilePaths : ~Awaited(p) /\ (ToBeShown(p) <=> p \in Directory!ToSet(dirEntries))
    BY <2>1, <2>2 DEF Awaited, ToBeShown, Reads, HasRead
  <2>4. \A p \in FilePaths : ToBeShown(p) <=> p \in Wanted
    BY <2>3 DEF DirInv, RowsRight
  <2>5. Directory!ToSet(dirEntries) \subseteq FilePaths
    BY <1>0 DEF Directory!ToSet
  <2>6. Wanted \subseteq FilePaths
    <3>1. dirOpt.filter \subseteq FilePaths
      BY <1>0, FoldersAssumption DEF Options, FilePaths
    <3> QED BY <3>1 DEF Wanted, Directory!Scanned
  <2> QED BY <2>3, <2>4, <2>5, <2>6
<1> QED BY <1>1, <1>2, <1>3, <1>4

LEMMA DirInit == Directory!Init => DirInv
<1> SUFFICES ASSUME Directory!Init PROVE DirInv
  OBVIOUS
<1>1. /\ dirOpt = [path |-> None, recursive |-> FALSE, watch |-> TRUE, hidden |-> FALSE,
                   filter |-> Directory!AllPaths, reverse |-> FALSE]
      /\ dirEntries = <<>> /\ dirScans = <<>> /\ dirFutures = <<>>
      /\ dirWatched = {} /\ dirListings = {} /\ dirNotices = {} /\ dirBlame = {}
  BY DEF Directory!Init
<1>2. dirOpt \in Options
  <2>1. Directory!AllPaths \in FileFilters
    BY FoldersAssumption DEF Directory!AllPaths
  <2> QED BY <1>1, <2>1 DEF Options
<1>3. FuturesFit(dirFutures)
  BY <1>1 DEF FuturesFit
<1>4. RowTypes
  BY <1>1, <1>2, <1>3 DEF RowTypes
<1>5. Len(dirScans) = 0 /\ Directory!ToSet(dirEntries) = {} /\ dirOpt.path = None
  BY <1>1 DEF Directory!ToSet
<1>6. OneScan
  BY <1>5 DEF OneScan
<1>7. RowsRight
  BY <1>5 DEF RowsRight, ToBeShown, Wanted
<1>8. Distinct(dirEntries) /\ RowsInOrder
  BY <1>1 DEF Distinct, RowsInOrder, Rising
<1> QED BY <1>1, <1>4, <1>6, <1>7, <1>8 DEF DirInv, WatchesReach, WatchesAsked

(***************************************************************************)
(* The steps.                                                              *)
(***************************************************************************)
(* A new scan is the only one, as far as no other is blamed.               *)
LEMMA NewScanIsOnly ==
  ASSUME RowTypes, NEW m \in Nat, m = Len(dirScans) + 1, NEW d \in Folders, NEW o \in Options, dirOpt' = o, dirEntries' = dirEntries,
         o.path # None,
         "watch" \notin dirBlame' => d = o.path \/ (o.recursive /\ Directory!Reached(d, o.path, o.hidden)),
         dirScans'[m] = NewScan(d, o), Len(dirScans') = m,
         "overlap" \notin dirBlame' => \A i \in 1 .. Len(dirScans) : ~Directory!Live(i)'
  PROVE  /\ OneScan'
         /\ Reads(m)' /\ dirScans'[m].dir = d
<1>0. Len(dirScans) \in Nat /\ m \in 1 .. Len(dirScans')
  BY DEF RowTypes
<1>1. /\ dirScans'[m].dir = d /\ dirScans'[m].phase = "running" /\ dirScans'[m].cancelled = FALSE
      /\ dirScans'[m].opt = ScanOf(o) /\ dirScans'[m].removed = {} /\ dirScans'[m].added = {}
      /\ dirScans'[m].old = {p \in Directory!ToSet(dirEntries) : Covers(d, o.path, p)}
  BY DEF NewScan
<1>2. Reads(m)'
  BY <1>1 DEF Reads, Directory!Live
<1>3. ASSUME "overlap" \notin dirBlame', NEW i \in 1 .. Len(dirScans'), Directory!Live(i)'
      PROVE  i = m
  BY <1>0, <1>3
<1>4. ASSUME "overlap" \notin dirBlame' PROVE OnlyScan(m)'
  <2>1. \A j \in 1 .. Len(dirScans') : Directory!Live(j)' => m = j
    BY <1>3, <1>4
  <2>2. ScanOf(dirOpt)' = ScanOf(o)
    BY DEF ScanOf
  <2>3. Directory!ToSet(dirEntries)' = Directory!ToSet(dirEntries)
    BY DEF Directory!ToSet
  <2>4. \A p : Covers(dirScans[m].dir, dirOpt.path, p)' <=> Covers(d, o.path, p)
    BY <1>1 DEF Covers
  <2>5. \A e, t, h : Directory!Reached(e, t, h)' <=> Directory!Reached(e, t, h)
    OBVIOUS
  <2>6. dirScans'[m].old = {p \in Directory!ToSet(dirEntries)' : Covers(dirScans'[m].dir, dirOpt'.path, p)}
    BY <1>1, <2>3
  <2> QED BY <1>1, <2>1, <2>2, <2>6 DEF OnlyScan
<1>5. OneScan'
  BY <1>3, <1>4 DEF OneScan
<1> QED BY <1>1, <1>2, <1>5

(* Subdirectories that are listed may be entered from the directory shown. *)
LEMMA SubdirsAre ==
  ASSUME NEW o \in Options, o.path # None, NEW d,
         d = o.path \/ Directory!Reached(d, o.path, o.hidden),
         NEW l \in Directory!ListSubdirs(d, o)
  PROVE  l \in Listings /\ \A e \in l.dirs : Directory!Reached(e, l.path, l.hidden)
<1> DEFINE dirs == {e \in Folders : Directory!Reached(e, d, o.hidden)}
<1>1. l = [path |-> o.path, hidden |-> o.hidden, dirs |-> dirs]
  BY DEF Directory!ListSubdirs
<1>2. l.path = o.path /\ l.hidden = o.hidden /\ l.dirs = dirs
  BY <1>1
<1>3. l \in Listings
  BY <1>1 DEF Options, Listings
<1>4. ASSUME NEW e \in dirs PROVE Directory!Reached(e, o.path, o.hidden)
  BY <1>4, ReachedTwice
<1> QED BY <1>2, <1>3, <1>4

(* The order is the same as long as neither the path nor its reverse is    *)
(* another.                                                                *)
LEMMA SameOrder ==
  ASSUME dirOpt'.reverse = dirOpt.reverse, dirOpt'.path = dirOpt.path
  PROVE  \A p, q : Directory!Before(p, q)' <=> Directory!Before(p, q)
BY DEF Directory!Before, Directory!Precedes

(* What is in the order of the options to come rises then.                 *)
LEMMA WillRise ==
  ASSUME NEW s \in Seq(FilePaths), NEW o, dirOpt' = o, dirEntries' = s, Directory!InOrder(s, o)
  PROVE  Rising(dirEntries)'
<1>1. DOMAIN s = 1 .. Len(s)
  OBVIOUS
<1>2. \A p, q : Directory!Before(p, q)' <=> Directory!Precedes(p, q, o)
  BY DEF Directory!Before, Directory!Precedes
<1> QED BY <1>1, <1>2 DEF Directory!InOrder, Rising

LEMMA DirUpdateKeeps ==
  ASSUME DirInv, NEW o \in Options, Directory!Update(o)
  PROVE  DirInv'
<1>0. RowTypes /\ WatchesReach /\ WatchesAsked /\ OneScan /\ RowsRight
      /\ Distinct(dirEntries) /\ RowsInOrder /\ None \notin Folders
  BY FoldersAssumption DEF DirInv
<1>1. /\ dirOpt' = o /\ dirNotices' = {} /\ dirDisk' = dirDisk
      /\ dirWatched' = IF o.watch /\ o.path # None THEN {o.path} ELSE {}
      /\ dirListings' = dirListings \cup
           (IF o.path # None THEN Directory!ListSubdirs(o.path, o) ELSE {})
  BY Zenon DEF Directory!Update
<1>2. o.path \in Folders \/ o.path = None
  BY DEF Options
<1>3. \A l \in dirListings' : l \in Listings /\ \A e \in l.dirs : Directory!Reached(e, l.path, l.hidden)
  <2>1. \A l \in dirListings : l \in Listings /\ \A e \in l.dirs : Directory!Reached(e, l.path, l.hidden)
    BY <1>0 DEF WatchesReach, RowTypes
  <2>2. o.path # None => \A l \in Directory!ListSubdirs(o.path, o) :
                           l \in Listings /\ \A e \in l.dirs : Directory!Reached(e, l.path, l.hidden)
    BY SubdirsAre
  <2> QED BY <1>1, <2>1, <2>2
<1>4. dirWatched' \in SUBSET Folders /\ (\A e \in dirWatched' : e = o.path)
      /\ (o.path = None => dirWatched' = {})
  BY <1>1, <1>2
<1>5. WatchesReach'
  BY <1>1, <1>3, <1>4 DEF WatchesReach
<1>6. WatchesAsked'
  BY <1>1, <1>4 DEF WatchesAsked
<1>7. /\ dirOpt' \in Options /\ dirWatched' \in SUBSET Folders /\ dirNotices' \in SUBSET dirWatched'
      /\ dirListings' \in SUBSET Listings
  BY <1>1, <1>3, <1>4
<1>8. CASE o.path = None
  <2>1. /\ dirEntries' = <<>> /\ dirScans' = dirScans /\ dirFutures' = dirFutures
        /\ dirBlame' = Directory!Note("overlap", \E i \in DOMAIN dirScans : Directory!Live(i))
    BY <1>8, Zenon DEF Directory!Update
  <2>2. DOMAIN dirScans = 1 .. Len(dirScans)
    BY <1>0 DEF RowTypes
  <2>3. dirBlame' \subseteq {"overlap"}
        /\ ("overlap" \notin dirBlame' => \A i \in 1 .. Len(dirScans) : ~Directory!Live(i))
    BY <2>1, <2>2 DEF Directory!Note
  <2>4. \A i : Directory!Live(i)' <=> Directory!Live(i)
    BY <2>1 DEF Directory!Live
  <2>5. RowTypes'
    <3>1. FuturesFit(dirFutures)'
      BY <1>0, <2>1 DEF RowTypes, FuturesFit
    <3>2. dirBlame' \in SUBSET Directory!Blames
      BY <2>3 DEF Directory!Blames
    <3>3. dirEntries' \in Seq(FilePaths) /\ dirScans' \in Seq(ScanRecords)
      BY <1>0, <2>1 DEF RowTypes
    <3> QED BY <1>7, <3>1, <3>2, <3>3 DEF RowTypes
  <2>6. OneScan'
    BY <2>1, <2>3, <2>4 DEF OneScan
  <2>7. RowsRight'
    <3> SUFFICES ASSUME dirBlame' \subseteq {"order"}, NEW p \in FilePaths
                 PROVE  ~ToBeShown(p)' /\ p \notin Wanted'
      BY DEF RowsRight
    <3>1. \A i \in 1 .. Len(dirScans) : ~Directory!Live(i)
      BY <2>3
    <3>2. p \notin Directory!ToSet(dirEntries)'
      BY <2>1 DEF Directory!ToSet
    <3>3. ~ToBeShown(p)'
      BY <2>1, <2>4, <3>1, <3>2 DEF ToBeShown, HasRead
    <3>4. p \notin Wanted'
      BY <1>1, <1>8 DEF Wanted
    <3> QED BY <3>3, <3>4
  <2>8. Distinct(dirEntries)' /\ RowsInOrder'
    BY <2>1 DEF Distinct, RowsInOrder, Rising
  <2> QED BY <1>5, <1>6, <2>5, <2>6, <2>7, <2>8 DEF DirInv
<1>9. CASE o.path # None
  <2> DEFINE ids == {dirFutures[d] : d \in DOMAIN dirFutures}
             known == Directory!Cancel(ids)
             none == <<>>
  <2>1. Directory!StartScan(o.path, known, none, o) /\ dirEntries' = dirEntries
    BY <1>9, Zenon DEF Directory!Update
  <2>2. Cancelled(known)
    <3>1. known = [i \in DOMAIN dirScans |->
                    IF i \in ids THEN [dirScans[i] EXCEPT !.cancelled = TRUE] ELSE dirScans[i]]
      BY DEF Directory!Cancel
    <3> HIDE DEF known, ids
    <3>2. dirScans \in Seq(ScanRecords) /\ DOMAIN dirScans = 1 .. Len(dirScans) /\ Len(dirScans) \in Nat
      BY <1>0 DEF RowTypes
    <3>3. \A i \in 1 .. Len(dirScans) : /\ dirScans[i] \in ScanRecords
                                        /\ [dirScans[i] EXCEPT !.cancelled = TRUE] \in ScanRecords
      <4> SUFFICES ASSUME NEW i \in 1 .. Len(dirScans)
                   PROVE  /\ dirScans[i] \in ScanRecords
                          /\ [dirScans[i] EXCEPT !.cancelled = TRUE] \in ScanRecords
        OBVIOUS
      <4>1. dirScans[i] \in ScanRecords
        BY <3>2
      <4> QED BY <4>1 DEF ScanRecords
    <3>4. known \in Seq(ScanRecords) /\ Len(known) = Len(dirScans)
          /\ \A i \in 1 .. Len(dirScans) :
                known[i] = IF i \in ids THEN [dirScans[i] EXCEPT !.cancelled = TRUE] ELSE dirScans[i]
      BY <3>1, <3>2, <3>3
    <3> QED BY <3>4 DEF Cancelled
  <2>3. FuturesFit(none)
    BY DEF FuturesFit
  <2> HIDE DEF known, none
  <2>4. /\ dirScans' \in Seq(ScanRecords) /\ Len(dirScans') = Len(dirScans) + 1
        /\ dirScans'[Len(dirScans) + 1] = NewScan(o.path, o)
        /\ FuturesFit(dirFutures)'
        /\ "overlap" \notin dirBlame' => \A i \in 1 .. Len(dirScans) : ~Directory!Live(i)'
        /\ dirBlame' \in SUBSET Directory!Blames
        /\ "order" \notin dirBlame' => /\ "order" \notin dirBlame
                                       /\ o = dirOpt \/ Directory!InOrder(dirEntries, o)
    BY <1>0, <1>2, <1>9, <2>1, <2>2, <2>3, StartScanIs
  <2>5. PICK m \in Nat : m = Len(dirScans) + 1
    BY <1>0 DEF RowTypes
  <2>6. OneScan' /\ Reads(m)' /\ dirScans'[m].dir = o.path
    BY <1>0, <1>1, <1>2, <1>9, <2>1, <2>4, <2>5, NewScanIsOnly
  <2>7. RowTypes'
    BY <1>0, <1>7, <2>1, <2>4 DEF RowTypes
  <2>8. RowsRight'
    <3>1. m \in 1 .. Len(dirScans')
      BY <2>4, <2>5
    <3>2. \A p : Covers(dirScans[m].dir, dirOpt.path, p)'
      BY <1>1, <2>6 DEF Covers
    <3>3. \A p : Awaited(p)'
      BY <2>6, <3>1, <3>2 DEF Awaited
    <3> QED BY <3>3 DEF RowsRight
  <2>9. Distinct(dirEntries)'
    BY <1>0, <2>1 DEF Distinct
  <2>10. RowsInOrder'
    <3> SUFFICES ASSUME "order" \notin dirBlame' PROVE Rising(dirEntries)'
      BY DEF RowsInOrder
    <3>1. CASE Directory!InOrder(dirEntries, o)
      <4>1. dirEntries \in Seq(FilePaths)
        BY <1>0 DEF RowTypes
      <4> QED BY <1>1, <2>1, <3>1, <4>1, WillRise
    <3>2. CASE o = dirOpt
      <4>1. Rising(dirEntries)
        BY <1>0, <2>4 DEF RowsInOrder
      <4>2. \A p, q : Directory!Before(p, q)' <=> Directory!Before(p, q)
        BY <1>1, <3>2, SameOrder
      <4> QED BY <2>1, <4>1, <4>2 DEF Rising
    <3> QED BY <2>4, <3>1, <3>2
  <2> QED BY <1>5, <1>6, <2>6, <2>7, <2>8, <2>9, <2>10 DEF DirInv
<1> QED BY <1>8, <1>9

LEMMA DirectoryChangedKeeps ==
  ASSUME DirInv, NEW d \in dirNotices, Directory!DirectoryChanged(d)
  PROVE  DirInv'
<1>0. RowTypes /\ WatchesReach /\ WatchesAsked /\ OneScan /\ RowsRight
      /\ Distinct(dirEntries) /\ RowsInOrder /\ dirOpt \in Options
  BY DEF DirInv, RowTypes
<1>1. /\ dirOpt' = dirOpt /\ dirEntries' = dirEntries /\ dirWatched' = dirWatched /\ dirDisk' = dirDisk
      /\ dirNotices' = dirNotices \ {d}
      /\ dirListings' = dirListings \cup Directory!ListSubdirs(d, dirOpt)
      /\ Directory!StartScan(d, dirScans, dirFutures, dirOpt)
  BY Zenon DEF Directory!DirectoryChanged
<1>2. /\ d \in dirWatched /\ d \in Folders /\ dirOpt.path # None
      /\ d = dirOpt.path \/ Directory!Reached(d, dirOpt.path, dirOpt.hidden)
      /\ "watch" \notin dirBlame => d = dirOpt.path \/ dirOpt.recursive
  BY <1>0 DEF RowTypes, WatchesReach, WatchesAsked
<1>3. \A l \in dirListings' : l \in Listings /\ \A e \in l.dirs : Directory!Reached(e, l.path, l.hidden)
  <2>1. \A l \in dirListings : l \in Listings /\ \A e \in l.dirs : Directory!Reached(e, l.path, l.hidden)
    BY <1>0 DEF WatchesReach, RowTypes
  <2>2. \A l \in Directory!ListSubdirs(d, dirOpt) :
           l \in Listings /\ \A e \in l.dirs : Directory!Reached(e, l.path, l.hidden)
    BY <1>0, <1>2, SubdirsAre
  <2> QED BY <1>1, <2>1, <2>2
<1>4. Cancelled(dirScans)
  BY <1>0 DEF RowTypes, Cancelled
<1>5. FuturesFit(dirFutures)
  BY <1>0 DEF RowTypes
<1>6. /\ dirScans' \in Seq(ScanRecords) /\ Len(dirScans') = Len(dirScans) + 1
      /\ dirScans'[Len(dirScans) + 1] = NewScan(d, dirOpt)
      /\ \A i \in 1 .. Len(dirScans) :
            /\ dirScans'[i].dir = dirScans[i].dir /\ dirScans'[i].phase = dirScans[i].phase
            /\ dirScans[i].cancelled => dirScans'[i].cancelled
            /\ dirScans'[i].cancelled /\ ~dirScans[i].cancelled
                  => d \in DOMAIN dirFutures /\ dirFutures[d] = i
      /\ FuturesFit(dirFutures)'
      /\ "overlap" \notin dirBlame' => \A i \in 1 .. Len(dirScans) : ~Directory!Live(i)'
      /\ dirBlame' \in SUBSET Directory!Blames
      /\ "watch" \notin dirBlame' => "watch" \notin dirBlame
      /\ "order" \notin dirBlame' => "order" \notin dirBlame
      /\ d # dirOpt.path => dirBlame \subseteq dirBlame'
  BY <1>0, <1>1, <1>2, <1>4, <1>5, StartScanIs
<1>7. PICK m \in Nat : m = Len(dirScans) + 1
  BY <1>0 DEF RowTypes
<1>8. OneScan' /\ Reads(m)' /\ dirScans'[m].dir = d
  BY <1>0, <1>1, <1>2, <1>6, <1>7, NewScanIsOnly
<1>9. RowTypes'
  <2>1. dirListings' \in SUBSET Listings
    BY <1>3
  <2>2. dirNotices' \in SUBSET dirWatched' /\ dirWatched' \in SUBSET Folders
    BY <1>0, <1>1 DEF RowTypes
  <2> QED BY <1>0, <1>1, <1>6, <2>1, <2>2 DEF RowTypes
<1>10. WatchesReach'
  BY <1>0, <1>1, <1>3 DEF WatchesReach
<1>11. WatchesAsked'
  BY <1>0, <1>1, <1>6 DEF WatchesAsked
<1>12. Distinct(dirEntries)' /\ RowsInOrder'
  <2>1. \A p, q : Directory!Before(p, q)' <=> Directory!Before(p, q)
    BY <1>1, SameOrder
  <2> QED BY <1>0, <1>1, <1>6, <2>1 DEF Distinct, RowsInOrder, Rising
<1>13. RowsRight'
  <2> SUFFICES ASSUME dirBlame' \subseteq {"order"}, NEW p \in FilePaths, ~Awaited(p)'
               PROVE  ToBeShown(p)' <=> p \in Wanted'
    BY DEF RowsRight
  <2>0. m \in 1 .. Len(dirScans') /\ dirOpt'.path = dirOpt.path
    BY <1>1, <1>6, <1>7
  <2>1. ~Covers(d, dirOpt.path, p)
    <3>1. Covers(dirScans[m].dir, dirOpt.path, p)' <=> Covers(d, dirOpt.path, p)
      BY <1>1, <1>8 DEF Covers
    <3> QED BY <1>8, <2>0, <3>1 DEF Awaited
  <2>2. d # dirOpt.path
    BY <2>1 DEF Covers
  <2>3. dirBlame \subseteq {"order"} /\ "overlap" \notin dirBlame /\ "overlap" \notin dirBlame'
    BY <1>6, <2>2
  <2>4. \A i \in 1 .. Len(dirScans) : ~Directory!Live(i)'
    BY <1>6, <2>3
  <2>5. ASSUME NEW i \in 1 .. Len(dirScans), Directory!Live(i) PROVE dirScans[i].dir = d
    <3>1. dirScans'[i].cancelled /\ ~dirScans[i].cancelled
      BY <1>6, <2>4, <2>5 DEF Directory!Live
    <3>2. d \in DOMAIN dirFutures /\ dirFutures[d] = i
      BY <1>6, <3>1
    <3> QED BY <1>5, <3>2 DEF FuturesFit
  <2>6. ~Awaited(p)
    <3>1. ASSUME NEW e \in dirNotices PROVE ~Covers(e, dirOpt.path, p)
      <4>1. CASE e = d
        BY <2>1, <4>1
      <4>2. CASE e # d
        <5>1. e \in dirNotices'
          BY <1>1, <4>2
        <5>2. Covers(e, dirOpt.path, p)' <=> Covers(e, dirOpt.path, p)
          BY <1>1 DEF Covers
        <5> QED BY <5>1, <5>2 DEF Awaited
      <4> QED BY <4>1, <4>2
    <3>2. \A i \in 1 .. Len(dirScans) : Reads(i) => ~Covers(dirScans[i].dir, dirOpt.path, p)
      BY <2>1, <2>5 DEF Reads
    <3> QED BY <3>1, <3>2 DEF Awaited
  <2>7. ToBeShown(p) <=> p \in Wanted
    BY <1>0, <2>3, <2>6 DEF RowsRight
  <2>8. ToBeShown(p) <=> p \in Directory!ToSet(dirEntries)
    <3>1. ASSUME NEW i \in 1 .. Len(dirScans), HasRead(i)
          PROVE  p \notin dirScans[i].removed /\ p \notin dirScans[i].added
      <4>1. Directory!Live(i) /\ dirScans[i].dir = d
        BY <2>5, <3>1 DEF HasRead
      <4>2. OnlyScan(i)
        BY <1>0, <2>3, <4>1 DEF OneScan
      <4> QED BY <2>1, <4>1, <4>2 DEF OnlyScan
    <3> QED BY <3>1 DEF ToBeShown
  <2>9. ToBeShown(p)' <=> p \in Directory!ToSet(dirEntries)'
    <3>1. ASSUME NEW i \in 1 .. Len(dirScans') PROVE ~HasRead(i)'
      <4>1. CASE i = m
        BY <1>8, <4>1 DEF Reads, HasRead
      <4>2. CASE i # m
        <5>1. i \in 1 .. Len(dirScans)
          BY <1>0, <1>6, <1>7, <4>2 DEF RowTypes
        <5> QED BY <2>4, <5>1 DEF HasRead
      <4> QED BY <4>1, <4>2
    <3> QED BY <3>1 DEF ToBeShown
  <2>10. Directory!ToSet(dirEntries)' = Directory!ToSet(dirEntries) /\ Wanted' = Wanted
    BY <1>1 DEF Directory!ToSet, Wanted, Directory!Scanned
  <2> QED BY <2>7, <2>8, <2>9, <2>10
<1> QED BY <1>8, <1>9, <1>10, <1>11, <1>12, <1>13 DEF DirInv

\* Scan i becomes s, the others stay.
OneChanges(i, s) ==
  /\ dirScans' \in Seq(ScanRecords) /\ Len(dirScans') = Len(dirScans)
  /\ \A j \in 1 .. Len(dirScans) : dirScans'[j] = IF j = i THEN s ELSE dirScans[j]

SettingsStay == UNCHANGED <<dirOpt, dirWatched, dirListings, dirNotices, dirDisk>>
RestStays == SettingsStay /\ dirBlame' = dirBlame

\* The history, "order" aside.
OrderAside == dirBlame \ {"order"} \subseteq dirBlame' /\ dirBlame' \subseteq dirBlame

(* What does not depend on the scans and the rows stays.                   *)
LEMMA RestKeeps ==
  ASSUME DirInv, SettingsStay, OrderAside
  PROVE  /\ WatchesReach' /\ WatchesAsked'
         /\ dirOpt' \in Options /\ dirWatched' \in SUBSET Folders
         /\ dirNotices' \in SUBSET dirWatched' /\ dirListings' \in SUBSET Listings
         /\ dirBlame' \in SUBSET Directory!Blames
         /\ Wanted' = Wanted
<1>1. RowTypes /\ WatchesReach /\ WatchesAsked
  BY DEF DirInv
<1>2. Wanted' = Wanted
  BY DEF SettingsStay, Wanted, Directory!Scanned
<1>3. WatchesReach'
  BY <1>1 DEF SettingsStay, WatchesReach
<1>4. WatchesAsked'
  BY <1>1 DEF SettingsStay, OrderAside, WatchesAsked
<1> QED BY <1>1, <1>2, <1>3, <1>4 DEF SettingsStay, OrderAside, RowTypes

(* A scan that does not count changes nothing that counts.                 *)
LEMMA DeadScanKeeps ==
  ASSUME DirInv, RestStays, dirEntries' = dirEntries, FuturesFit(dirFutures)',
         NEW i \in 1 .. Len(dirScans), ~Directory!Live(i),
         NEW s \in ScanRecords, OneChanges(i, s), ~Directory!Live(i)'
  PROVE  DirInv'
<1>0. RowTypes /\ OneScan /\ RowsRight /\ Distinct(dirEntries) /\ RowsInOrder
  BY DEF DirInv
<1>1. /\ WatchesReach' /\ WatchesAsked'
      /\ dirOpt' \in Options /\ dirWatched' \in SUBSET Folders
      /\ dirNotices' \in SUBSET dirWatched' /\ dirListings' \in SUBSET Listings
      /\ dirBlame' \in SUBSET Directory!Blames
      /\ Wanted' = Wanted
  BY RestKeeps DEF RestStays, OrderAside
<1>2. dirScans' \in Seq(ScanRecords) /\ Len(dirScans') = Len(dirScans)
      /\ \A j \in 1 .. Len(dirScans) : j # i => dirScans'[j] = dirScans[j]
  BY DEF OneChanges
<1>3. RowTypes'
  BY <1>0, <1>1, <1>2 DEF RowTypes
<1>4. \A j \in 1 .. Len(dirScans) : /\ Directory!Live(j)' <=> Directory!Live(j)
                                    /\ Directory!Live(j) => dirScans'[j] = dirScans[j]
  BY <1>2 DEF Directory!Live
<1>5. Directory!ToSet(dirEntries)' = Directory!ToSet(dirEntries) /\ dirOpt' = dirOpt
      /\ dirBlame' = dirBlame /\ dirNotices' = dirNotices
  BY DEF Directory!ToSet, RestStays, SettingsStay
<1>6. OneScan'
  <2> SUFFICES ASSUME "overlap" \notin dirBlame, NEW j \in 1 .. Len(dirScans), Directory!Live(j)
               PROVE  OnlyScan(j)'
    BY <1>2, <1>4, <1>5 DEF OneScan
  <2>1. OnlyScan(j) /\ dirScans'[j] = dirScans[j]
    BY <1>0, <1>4 DEF OneScan
  <2>2. \A k \in 1 .. Len(dirScans) : Directory!Live(k)' => j = k
    BY <1>4, <2>1 DEF OnlyScan
  <2>3. ScanOf(dirOpt)' = ScanOf(dirOpt)
    BY <1>5 DEF ScanOf
  <2> QED BY <1>2, <1>5, <2>1, <2>2, <2>3 DEF OnlyScan, Covers
<1>7. RowsRight'
  <2>1. \A j \in 1 .. Len(dirScans) : /\ Reads(j)' <=> Reads(j)
                                      /\ HasRead(j)' <=> HasRead(j)
    BY <1>4 DEF Reads, HasRead
  <2>2. \A p : Awaited(p)' <=> Awaited(p)
    BY <1>2, <1>4, <1>5, <2>1 DEF Awaited, Covers, Reads
  <2>3. \A p : ToBeShown(p)' <=> ToBeShown(p)
    BY <1>2, <1>4, <1>5, <2>1 DEF ToBeShown, HasRead
  <2> QED BY <1>0, <1>1, <1>5, <2>2, <2>3 DEF RowsRight
<1>8. Distinct(dirEntries)' /\ RowsInOrder'
  <2>1. \A p, q : Directory!Before(p, q)' <=> Directory!Before(p, q)
    BY <1>5, SameOrder
  <2> QED BY <1>0, <1>5, <2>1 DEF Distinct, RowsInOrder, Rising
<1> QED BY <1>1, <1>3, <1>6, <1>7, <1>8 DEF DirInv

(* A scan that is through or given up is done with.                        *)
LEMMA FinishedIs ==
  ASSUME RowTypes, NEW i \in 1 .. Len(dirScans), dirScans' = Directory!Finished(i),
         Directory!Forget(i)
  PROVE  \E s \in ScanRecords : OneChanges(i, s) /\ s.phase = "done" /\ FuturesFit(dirFutures)'
<1> DEFINE s == [dirScans[i] EXCEPT !.phase = "done", !.old = {}, !.removed = {}, !.added = {}]
<1>1. dirScans' = [dirScans EXCEPT ![i] = s]
  BY DEF Directory!Finished
<1>2. dirScans \in Seq(ScanRecords) /\ dirScans[i] \in ScanRecords /\ FuturesFit(dirFutures)
  BY DEF RowTypes
<1>3. s \in ScanRecords /\ s.phase = "done" /\ s.dir = dirScans[i].dir
  BY <1>2 DEF ScanRecords
<1> HIDE DEF s
<1>4. OneChanges(i, s)
  BY <1>1, <1>2, <1>3 DEF OneChanges
<1>5. FuturesFit(dirFutures)'
  <2>1. dirFutures' = [e \in DOMAIN dirFutures \ {dirScans[i].dir} |-> dirFutures[e]]
    BY DEF Directory!Forget
  <2>2. \A j \in 1 .. Len(dirScans) : dirScans'[j].dir = dirScans[j].dir
    BY <1>3, <1>4 DEF OneChanges
  <2>3. Len(dirScans') = Len(dirScans)
    BY <1>4 DEF OneChanges
  <2> QED BY <1>2, <2>1, <2>2, <2>3 DEF FuturesFit
<1> QED BY <1>3, <1>4, <1>5

(* The map stays right as long as no scan changes its directory.           *)
LEMMA MapStays ==
  ASSUME RowTypes, dirFutures' = dirFutures, NEW i, NEW s, OneChanges(i, s),
         i \in 1 .. Len(dirScans) => s.dir = dirScans[i].dir
  PROVE  FuturesFit(dirFutures)'
<1>1. \A j \in 1 .. Len(dirScans) : dirScans'[j].dir = dirScans[j].dir
  BY DEF OneChanges
<1>2. Len(dirScans') = Len(dirScans)
  BY DEF OneChanges
<1> QED BY <1>1, <1>2 DEF RowTypes, FuturesFit

LEMMA OnCanceledKeeps ==
  ASSUME DirInv, NEW i \in 1 .. Len(dirScans), Directory!OnCanceled(i)
  PROVE  DirInv'
<1>1. /\ dirScans[i].phase = "refused" /\ dirScans' = Directory!Finished(i) /\ Directory!Forget(i)
      /\ RestStays /\ dirEntries' = dirEntries
  BY Zenon DEF Directory!OnCanceled, RestStays, SettingsStay
<1>2. RowTypes
  BY DEF DirInv
<1>3. PICK s \in ScanRecords : OneChanges(i, s) /\ s.phase = "done" /\ FuturesFit(dirFutures)'
  BY <1>1, <1>2, FinishedIs
<1>4. ~Directory!Live(i)
  BY <1>1 DEF Directory!Live
<1>5. ~Directory!Live(i)'
  BY <1>3 DEF Directory!Live, OneChanges
<1> QED BY <1>1, <1>3, <1>4, <1>5, DeadScanKeeps

LEMMA DeliverKeeps ==
  ASSUME DirInv, NEW i \in 1 .. Len(dirScans), Directory!Deliver(i)
  PROVE  DirInv'
<1>0. /\ RowTypes /\ OneScan /\ RowsRight /\ Distinct(dirEntries) /\ RowsInOrder
      /\ dirScans \in Seq(ScanRecords) /\ dirScans[i] \in ScanRecords
      /\ dirEntries \in Seq(FilePaths) /\ DirectoryIsSet
  BY DEF DirInv, RowTypes, Options, DirectoryIsSet
<1>1. dirScans[i].phase = "ended" /\ SettingsStay
  BY Zenon DEF Directory!Deliver, SettingsStay
<1>2. CASE dirScans[i].cancelled
  <2>1. /\ dirScans' = [dirScans EXCEPT ![i].phase = "refused"]
        /\ dirEntries' = dirEntries /\ dirFutures' = dirFutures /\ dirBlame' = dirBlame
    BY <1>2, Zenon DEF Directory!Deliver
  <2> DEFINE s == [dirScans[i] EXCEPT !.phase = "refused"]
  <2>2. s \in ScanRecords /\ s.phase = "refused" /\ s.dir = dirScans[i].dir
    BY <1>0 DEF ScanRecords
  <2>3. dirScans' = [dirScans EXCEPT ![i] = s]
    BY <2>1
  <2> HIDE DEF s
  <2>4. OneChanges(i, s)
    BY <1>0, <2>2, <2>3 DEF OneChanges
  <2>5. FuturesFit(dirFutures)'
    BY <1>0, <2>1, <2>2, <2>4, MapStays
  <2>6. ~Directory!Live(i)
    BY <1>2 DEF Directory!Live
  <2>7. ~Directory!Live(i)'
    BY <2>2, <2>4 DEF Directory!Live, OneChanges
  <2>8. RestStays
    BY <1>1, <2>1 DEF RestStays
  <2> QED BY <2>1, <2>2, <2>4, <2>5, <2>6, <2>7, <2>8, DeadScanKeeps
<1>3. CASE ~dirScans[i].cancelled
  <2> DEFINE removed == dirScans[i].removed
             added == dirScans[i].added
             kept == Directory!Without(dirEntries, removed)
             ordered == Directory!InOrder(kept, dirOpt)
  <2>1. /\ dirScans' = Directory!Finished(i) /\ Directory!Forget(i)
        /\ dirEntries' = Directory!Applied(removed, added)
        /\ dirBlame' = dirBlame \ Directory!Note("order", ordered)
    BY <1>3, Zenon DEF Directory!Deliver
  <2>2. added \in SUBSET FilePaths
    BY <1>0 DEF ScanRecords
  <2>3. /\ dirEntries' \in Seq(FilePaths)
        /\ Directory!ToSet(dirEntries') = (Directory!ToSet(dirEntries) \ removed) \cup added
        /\ Distinct(dirEntries) => Distinct(dirEntries')
        /\ Rising(dirEntries) => Rising(dirEntries')
        /\ ordered => Rising(dirEntries')
    <3> HIDE DEF removed, added
    <3>1. kept \in Seq(FilePaths)
      BY <1>0, WithoutIs
    <3>2. ordered <=> Rising(kept)
      <4> HIDE DEF kept
      <4> QED BY <3>1, RisingIs DEF ordered
    <3> HIDE DEF ordered
    <3> QED BY <1>0, <2>1, <2>2, <3>2, AppliedIs
  <2>4. PICK s \in ScanRecords : OneChanges(i, s) /\ s.phase = "done" /\ FuturesFit(dirFutures)'
    BY <1>0, <2>1, FinishedIs
  <2>5. /\ dirScans' \in Seq(ScanRecords) /\ Len(dirScans') = Len(dirScans)
        /\ dirScans'[i].phase = "done"
        /\ \A j \in 1 .. Len(dirScans) : j # i => dirScans'[j] = dirScans[j]
    BY <2>4 DEF OneChanges
  <2>8. /\ dirOpt' = dirOpt /\ dirNotices' = dirNotices
        /\ OrderAside /\ ("order" \notin dirBlame' => "order" \notin dirBlame \/ ordered)
    <3> HIDE DEF ordered
    <3>1. Directory!Note("order", ordered) \subseteq {"order"}
          /\ (~ordered => Directory!Note("order", ordered) = {})
      BY DEF Directory!Note
    <3> QED BY <1>1, <2>1, <3>1 DEF SettingsStay, OrderAside
  <2>6. /\ WatchesReach' /\ WatchesAsked'
        /\ dirOpt' \in Options /\ dirWatched' \in SUBSET Folders
        /\ dirNotices' \in SUBSET dirWatched' /\ dirListings' \in SUBSET Listings
        /\ dirBlame' \in SUBSET Directory!Blames
        /\ Wanted' = Wanted
    BY <1>1, <2>8, RestKeeps
  <2>7. RowTypes'
    BY <2>3, <2>4, <2>5, <2>6 DEF RowTypes
  <2>9. Directory!Live(i) /\ HasRead(i)
    BY <1>1, <1>3 DEF Directory!Live, HasRead
  <2>10. ASSUME "overlap" \notin dirBlame
         PROVE  /\ \A j \in 1 .. Len(dirScans) : Directory!Live(j) => j = i
                /\ \A j \in 1 .. Len(dirScans') : ~Directory!Live(j)'
    <3>1. OnlyScan(i)
      BY <1>0, <2>9, <2>10 DEF OneScan
    <3>2. \A j \in 1 .. Len(dirScans) : Directory!Live(j) => j = i
      BY <3>1 DEF OnlyScan
    <3> QED BY <2>5, <3>2 DEF Directory!Live
  <2>11. OneScan'
    BY <2>8, <2>10 DEF OneScan, OrderAside
  <2>12. RowsRight'
    <3> SUFFICES ASSUME dirBlame \subseteq {"order"}, NEW p \in FilePaths
                 PROVE  Awaited(p)' \/ (ToBeShown(p)' <=> p \in Wanted')
      BY <2>8 DEF RowsRight, OrderAside
    <3>1. "overlap" \notin dirBlame
      OBVIOUS
    <3>2. Awaited(p) => Awaited(p)'
      <4>1. \A j \in 1 .. Len(dirScans) : ~Reads(j)
        BY <1>1, <2>10, <3>1 DEF Reads
      <4> QED BY <2>8, <4>1 DEF Awaited, Covers
    <3>3. ToBeShown(p) <=> (p \in Directory!ToSet(dirEntries) /\ p \notin removed) \/ p \in added
      <4>1. \A j \in 1 .. Len(dirScans) : HasRead(j) <=> j = i
        BY <2>9, <2>10, <3>1 DEF HasRead
      <4> QED BY <4>1 DEF ToBeShown
    <3>4. ToBeShown(p)' <=> p \in Directory!ToSet(dirEntries')
      <4>1. \A j \in 1 .. Len(dirScans') : ~HasRead(j)'
        BY <2>10, <3>1 DEF HasRead
      <4>2. Directory!ToSet(dirEntries)' = Directory!ToSet(dirEntries')
        BY DEF Directory!ToSet
      <4> QED BY <4>1, <4>2 DEF ToBeShown
    <3>5. Awaited(p) \/ (ToBeShown(p) <=> p \in Wanted)
      BY <1>0 DEF RowsRight
    <3> HIDE DEF removed, added
    <3> QED BY <2>3, <2>6, <3>2, <3>3, <3>4, <3>5
  <2>13. Distinct(dirEntries)' /\ RowsInOrder'
    <3>1. \A p, q : Directory!Before(p, q)' <=> Directory!Before(p, q)
      BY <2>8, SameOrder
    <3>2. Distinct(dirEntries') => Distinct(dirEntries)'
      BY DEF Distinct
    <3>3. Rising(dirEntries') => Rising(dirEntries)'
      BY <3>1 DEF Rising
    <3> HIDE DEF ordered
    <3> QED BY <1>0, <2>3, <2>8, <3>2, <3>3 DEF RowsInOrder
  <2> QED BY <2>6, <2>7, <2>11, <2>12, <2>13 DEF DirInv
<1> QED BY <1>2, <1>3

(* Three fields of one record of a sequence.                               *)
InPlace(q, i, phase, gone, new) ==
  [q EXCEPT ![i].phase = phase, ![i].removed = gone, ![i].added = new]
Alone(q, i, phase, gone, new) ==
  [q[i] EXCEPT !.phase = phase, !.removed = gone, !.added = new]

LEMMA FieldsChange ==
  ASSUME NEW q \in Seq(ScanRecords), NEW i \in 1 .. Len(q), NEW phase, NEW gone, NEW new
  PROVE  InPlace(q, i, phase, gone, new)
           = [j \in 1 .. Len(q) |-> IF j = i THEN Alone(q, i, phase, gone, new) ELSE q[j]]
<1> DEFINE q1 == [q EXCEPT ![i].phase = phase]
           q2 == [q1 EXCEPT ![i].removed = gone]
           q3 == [q2 EXCEPT ![i].added = new]
           s1 == [q[i] EXCEPT !.phase = phase]
           s2 == [s1 EXCEPT !.removed = gone]
           s3 == [s2 EXCEPT !.added = new]
<1>0. DOMAIN q = 1 .. Len(q)
  OBVIOUS
<1>1. q1 = [j \in 1 .. Len(q) |-> IF j = i THEN s1 ELSE q[j]]
  BY <1>0
<1> HIDE DEF q1, s1
<1>2. q2 = [j \in 1 .. Len(q) |-> IF j = i THEN s2 ELSE q[j]]
  BY <1>1
<1> HIDE DEF q2, s2
<1>3. q3 = [j \in 1 .. Len(q) |-> IF j = i THEN s3 ELSE q[j]]
  BY <1>2
<1>4. q3 = InPlace(q, i, phase, gone, new) /\ s3 = Alone(q, i, phase, gone, new)
  BY DEF q2, q1, s2, s1, InPlace, Alone
<1> QED BY <1>3, <1>4

LEMMA ScanDirKeeps ==
  ASSUME DirInv, NEW i \in 1 .. Len(dirScans), Directory!ScanDir(i)
  PROVE  DirInv'
<1> DEFINE job == dirScans[i]
           now == Directory!Scanned(job.dir, job.opt)
           gone == IF job.cancelled THEN {} ELSE job.old \ now
           new == IF job.cancelled THEN {} ELSE now \ job.old
           s == [job EXCEPT !.phase = "ended", !.removed = gone, !.added = new]
<1>0. /\ RowTypes /\ OneScan /\ RowsRight /\ Distinct(dirEntries) /\ RowsInOrder
      /\ dirScans \in Seq(ScanRecords) /\ job \in ScanRecords /\ dirOpt \in Options
  BY DEF DirInv, RowTypes
<1>1. /\ job.phase = "running" /\ RestStays /\ dirEntries' = dirEntries /\ dirFutures' = dirFutures
  BY Zenon DEF Directory!ScanDir, RestStays, SettingsStay
<1>2. dirScans' = [dirScans EXCEPT ![i].phase = "ended", ![i].removed = gone, ![i].added = new]
  BY Zenon DEF Directory!ScanDir
<1>3. now \in SUBSET FilePaths /\ job.old \in SUBSET FilePaths
  <2>1. job.opt.filter \in FileFilters /\ job.old \in SUBSET FilePaths
    BY <1>0 DEF ScanRecords, ScanOptions
  <2>2. job.opt.filter \subseteq FilePaths
    BY <2>1, FoldersAssumption DEF FilePaths
  <2> QED BY <2>1, <2>2 DEF Directory!Scanned
<1> HIDE DEF now
<1>4. /\ s \in ScanRecords /\ s.phase = "ended" /\ s.dir = job.dir /\ s.opt = job.opt
      /\ s.cancelled = job.cancelled
      /\ ~job.cancelled => s.removed = job.old \ now /\ s.added = now \ job.old
  <2>1. gone \in SUBSET FilePaths /\ new \in SUBSET FilePaths
    BY <1>3
  <2> QED BY <1>0, <2>1 DEF ScanRecords
<1>5. OneChanges(i, s)
  <2>2. dirScans' = [j \in 1 .. Len(dirScans) |-> IF j = i THEN s ELSE dirScans[j]]
    <3> HIDE DEF gone, new
    <3>1. dirScans' = InPlace(dirScans, i, "ended", gone, new)
      BY <1>2 DEF InPlace
    <3>2. s = Alone(dirScans, i, "ended", gone, new)
      BY DEF Alone
    <3> HIDE DEF s
    <3> QED BY <1>0, <3>1, <3>2, FieldsChange
  <2> HIDE DEF s, job
  <2>1. \A j \in 1 .. Len(dirScans) : dirScans'[j] = IF j = i THEN s ELSE dirScans[j]
    BY <2>2
  <2>3. dirScans' \in Seq(ScanRecords) /\ Len(dirScans') = Len(dirScans)
    BY <1>0, <1>4, <2>2
  <2> QED BY <2>1, <2>3 DEF OneChanges
<1>6. FuturesFit(dirFutures)'
  <2> HIDE DEF s
  <2> QED BY <1>0, <1>1, <1>4, <1>5, MapStays
<1>7. /\ dirScans' \in Seq(ScanRecords) /\ Len(dirScans') = Len(dirScans) /\ dirScans'[i] = s
      /\ \A j \in 1 .. Len(dirScans) : j # i => dirScans'[j] = dirScans[j]
  BY <1>5 DEF OneChanges
<1> HIDE DEF s
<1>8. CASE job.cancelled
  <2>1. ~Directory!Live(i) /\ ~Directory!Live(i)'
    BY <1>4, <1>7, <1>8 DEF Directory!Live
  <2> QED BY <1>1, <1>4, <1>5, <1>6, <2>1, DeadScanKeeps
<1>9. CASE ~job.cancelled
  <2>1. Directory!Live(i) /\ Reads(i) /\ ~HasRead(i)
    BY <1>1, <1>9 DEF Directory!Live, Reads, HasRead
  <2>2. Directory!Live(i)' /\ HasRead(i)' /\ ~Reads(i)'
    BY <1>4, <1>7, <1>9 DEF Directory!Live, Reads, HasRead
  <2>3. \A j \in 1 .. Len(dirScans) : Directory!Live(j)' <=> Directory!Live(j)
    BY <1>7, <2>1, <2>2 DEF Directory!Live
  <2>4. /\ WatchesReach' /\ WatchesAsked'
        /\ dirOpt' \in Options /\ dirWatched' \in SUBSET Folders
        /\ dirNotices' \in SUBSET dirWatched' /\ dirListings' \in SUBSET Listings
        /\ dirBlame' \in SUBSET Directory!Blames
        /\ Wanted' = Wanted
    BY <1>1, RestKeeps DEF RestStays, OrderAside
  <2>5. RowTypes'
    BY <1>0, <1>1, <1>6, <1>7, <2>4 DEF RowTypes
  <2>6. dirOpt' = dirOpt /\ dirBlame' = dirBlame /\ dirNotices' = dirNotices
        /\ Directory!ToSet(dirEntries)' = Directory!ToSet(dirEntries)
    BY <1>1 DEF RestStays, SettingsStay, Directory!ToSet
  <2>7. ASSUME "overlap" \notin dirBlame
        PROVE  /\ OnlyScan(i)
               /\ \A j \in 1 .. Len(dirScans) : Directory!Live(j) => j = i
    <3>1. OnlyScan(i)
      BY <1>0, <2>1, <2>7 DEF OneScan
    <3> QED BY <3>1 DEF OnlyScan
  <2>8. ASSUME "overlap" \notin dirBlame, NEW p \in s.removed \cup s.added
        PROVE  Covers(job.dir, dirOpt.path, p)
    <3>1. OnlyScan(i)
      BY <2>7, <2>8
    <3>2. CASE p \in job.old
      BY <1>1, <3>1, <3>2 DEF OnlyScan
    <3>3. CASE p \in now
      <4>1. Directory!Below(p, job.dir)
        BY <3>3 DEF now, Directory!Scanned, Directory!Reached
      <4> QED BY <4>1 DEF Covers
    <3> QED BY <1>4, <1>9, <2>8, <3>2, <3>3
  <2>9. OneScan'
    <3> SUFFICES ASSUME "overlap" \notin dirBlame PROVE OnlyScan(i)'
      BY <1>7, <2>3, <2>6, <2>7 DEF OneScan
    <3>1. OnlyScan(i)
      BY <2>7
    <3>2. \A j \in 1 .. Len(dirScans') : Directory!Live(j)' => i = j
      BY <1>7, <2>3, <2>7
    <3>3. ScanOf(dirOpt)' = ScanOf(dirOpt)
      BY <2>6 DEF ScanOf
    <3>4. \A p \in dirScans'[i].removed \cup dirScans'[i].added :
             Covers(dirScans[i].dir, dirOpt.path, p)'
      BY <1>4, <1>7, <2>6, <2>8 DEF Covers
    <3> QED BY <1>4, <1>7, <2>6, <3>1, <3>2, <3>3, <3>4 DEF OnlyScan
  <2>10. RowsRight'
    <3> SUFFICES ASSUME dirBlame \subseteq {"order"}, NEW p \in FilePaths, ~Awaited(p)'
                 PROVE  ToBeShown(p)' <=> p \in Wanted
      BY <2>4, <2>6 DEF RowsRight
    <3>1. "overlap" \notin dirBlame /\ "watch" \notin dirBlame
      OBVIOUS
    <3>2. OnlyScan(i) /\ \A j \in 1 .. Len(dirScans) : Directory!Live(j) => j = i
      BY <2>7, <3>1
    <3>3. ToBeShown(p)' <=>
            (p \in Directory!ToSet(dirEntries) /\ p \notin job.old \ now) \/ p \in now \ job.old
      <4>1. \A j \in 1 .. Len(dirScans') : HasRead(j)' <=> j = i
        BY <1>7, <2>2, <2>3, <3>2 DEF HasRead
      <4> QED BY <1>4, <1>7, <1>9, <2>6, <4>1 DEF ToBeShown
    <3>4. job.old = {q \in Directory!ToSet(dirEntries) : Covers(job.dir, dirOpt.path, q)}
      BY <1>1, <3>2 DEF OnlyScan
    <3>5. p \in now <=> p \in Wanted /\ Covers(job.dir, dirOpt.path, p)
      <4>1. job.opt = ScanOf(dirOpt) /\ dirOpt.path # None
            /\ (job.dir = dirOpt.path
                \/ (dirOpt.recursive /\ Directory!Reached(job.dir, dirOpt.path, dirOpt.hidden)))
        BY <3>1, <3>2 DEF OnlyScan
      <4> HIDE DEF job
      <4> QED BY <1>0, <4>1, PartIsRead DEF now
    <3>6. CASE Covers(job.dir, dirOpt.path, p)
      BY <3>3, <3>4, <3>5, <3>6
    <3>7. CASE ~Covers(job.dir, dirOpt.path, p)
      <4>1. ~Awaited(p)
        <5>1. \A j \in 1 .. Len(dirScans) : Reads(j) => j = i
          BY <3>2 DEF Reads
        <5>2. \A d \in dirNotices : ~Covers(d, dirOpt.path, p)
          BY <2>6 DEF Awaited, Covers
        <5> QED BY <3>7, <5>1, <5>2 DEF Awaited
      <4>2. ToBeShown(p) <=> p \in Wanted
        BY <1>0, <4>1 DEF RowsRight
      <4>3. ToBeShown(p) <=> p \in Directory!ToSet(dirEntries)
        <5>1. \A j \in 1 .. Len(dirScans) : ~HasRead(j)
          BY <2>1, <3>2 DEF HasRead
        <5> QED BY <5>1 DEF ToBeShown
      <4> QED BY <3>3, <3>4, <3>5, <3>7, <4>2, <4>3
    <3> QED BY <3>6, <3>7
  <2>11. Distinct(dirEntries)' /\ RowsInOrder'
    <3>1. \A p, q : Directory!Before(p, q)' <=> Directory!Before(p, q)
      BY <2>6, SameOrder
    <3> QED BY <1>0, <1>1, <2>6, <3>1 DEF Distinct, RowsInOrder, Rising
  <2> QED BY <2>4, <2>5, <2>9, <2>10, <2>11 DEF DirInv
<1> QED BY <1>8, <1>9

(* What depends on the scans and the rows stays as they do.                *)
LEMMA ScansStay ==
  ASSUME DirInv, UNCHANGED <<dirOpt, dirEntries, dirScans, dirFutures>>,
         dirBlame \subseteq dirBlame', dirBlame' \in SUBSET Directory!Blames
  PROVE  /\ OneScan' /\ Distinct(dirEntries)' /\ RowsInOrder' /\ FuturesFit(dirFutures)'
         /\ \A p : ToBeShown(p)' <=> ToBeShown(p)
         /\ \A i : Reads(i)' <=> Reads(i)
<1>0. OneScan /\ Distinct(dirEntries) /\ RowsInOrder /\ RowTypes
  BY DEF DirInv
<1>1. \A i : Directory!Live(i)' <=> Directory!Live(i)
  BY DEF Directory!Live
<1>2. Directory!ToSet(dirEntries)' = Directory!ToSet(dirEntries) /\ ScanOf(dirOpt)' = ScanOf(dirOpt)
  BY DEF Directory!ToSet, ScanOf
<1>3. ASSUME NEW i, OnlyScan(i) PROVE OnlyScan(i)'
  <2>1. "watch" \notin dirBlame' => "watch" \notin dirBlame
    OBVIOUS
  <2>2. \A j \in 1 .. Len(dirScans') : Directory!Live(j)' => i = j
    BY <1>1, <1>3 DEF OnlyScan
  <2> QED BY <1>2, <1>3, <2>1, <2>2 DEF OnlyScan, Covers
<1>4. OneScan'
  <2>1. "overlap" \notin dirBlame' => "overlap" \notin dirBlame
    OBVIOUS
  <2> QED BY <1>0, <1>1, <1>3, <2>1 DEF OneScan
<1>5. \A p, q : Directory!Before(p, q)' <=> Directory!Before(p, q)
  BY SameOrder
<1>6. Distinct(dirEntries)' /\ RowsInOrder' /\ FuturesFit(dirFutures)'
  BY <1>0, <1>5 DEF Distinct, RowsInOrder, Rising, RowTypes, FuturesFit
<1>7. \A i : /\ Reads(i)' <=> Reads(i)
             /\ HasRead(i)' <=> HasRead(i)
  BY <1>1 DEF Reads, HasRead
<1>8. \A p : ToBeShown(p)' <=> ToBeShown(p)
  BY <1>2, <1>7 DEF ToBeShown
<1> QED BY <1>4, <1>6, <1>7, <1>8

LEMMA AddWatchesKeeps ==
  ASSUME DirInv, NEW l \in dirListings, Directory!AddWatches(l)
  PROVE  DirInv'
<1> DEFINE adds == l.path = dirOpt.path /\ l.hidden = dirOpt.hidden
           cause == dirWatched' # dirWatched /\ ~(dirOpt.recursive /\ dirOpt.watch)
<1>0. RowTypes /\ WatchesReach /\ WatchesAsked /\ RowsRight /\ l \in Listings
      /\ None \notin Folders
  BY FoldersAssumption DEF DirInv, RowTypes
<1>1. /\ dirListings' = dirListings \ {l}
      /\ dirWatched' = IF adds THEN dirWatched \cup l.dirs ELSE dirWatched
      /\ dirBlame' = dirBlame \cup Directory!Note("watch", cause)
      /\ UNCHANGED <<dirOpt, dirEntries, dirScans, dirFutures>>
      /\ dirNotices' = dirNotices /\ dirDisk' = dirDisk
  BY Zenon DEF Directory!AddWatches
<1>2. l.path \in Folders /\ l.dirs \in SUBSET Folders
  BY <1>0 DEF Listings
<1> HIDE DEF cause
<1>3. /\ dirBlame \subseteq dirBlame' /\ dirBlame' \in SUBSET Directory!Blames
      /\ "watch" \notin dirBlame' => "watch" \notin dirBlame /\ ~cause
  <2>1. Directory!Note("watch", cause) \in SUBSET {"watch"}
        /\ (cause => "watch" \in Directory!Note("watch", cause))
    BY DEF Directory!Note
  <2>2. dirBlame \in SUBSET Directory!Blames /\ {"watch"} \in SUBSET Directory!Blames
    BY <1>0 DEF RowTypes, Directory!Blames
  <2> QED BY <1>1, <2>1, <2>2
<1>4. /\ OneScan' /\ Distinct(dirEntries)' /\ RowsInOrder' /\ FuturesFit(dirFutures)'
      /\ \A p : ToBeShown(p)' <=> ToBeShown(p)
      /\ \A i : Reads(i)' <=> Reads(i)
  BY <1>1, <1>3, ScansStay
<1>5. dirWatched \subseteq dirWatched' /\ dirWatched' \in SUBSET Folders
  BY <1>0, <1>1, <1>2 DEF RowTypes
<1>6. RowTypes'
  BY <1>0, <1>1, <1>3, <1>4, <1>5 DEF RowTypes
<1>7. WatchesReach'
  <2>1. ASSUME NEW e \in dirWatched'
        PROVE  e = dirOpt.path \/ Directory!Reached(e, dirOpt.path, dirOpt.hidden)
    <3>1. CASE e \in dirWatched
      BY <1>0, <3>1 DEF WatchesReach
    <3>2. CASE e \notin dirWatched
      <4>1. adds /\ e \in l.dirs
        BY <1>1, <3>2
      <4> QED BY <1>0, <4>1 DEF WatchesReach
    <3> QED BY <3>1, <3>2
  <2>2. dirOpt.path = None => dirWatched' = {}
    BY <1>0, <1>1, <1>2 DEF WatchesReach
  <2> QED BY <1>0, <1>1, <2>1, <2>2 DEF WatchesReach
<1>8. WatchesAsked'
  <2> SUFFICES ASSUME "watch" \notin dirBlame', NEW e \in dirWatched'
               PROVE  e = dirOpt.path \/ dirOpt.recursive
    BY <1>1 DEF WatchesAsked
  <2>1. "watch" \notin dirBlame /\ ~cause
    BY <1>3
  <2>2. CASE dirWatched' = dirWatched
    BY <1>0, <2>1, <2>2 DEF WatchesAsked
  <2>3. CASE dirWatched' # dirWatched
    BY <2>1, <2>3, Zenon DEF cause
  <2> QED BY <2>2, <2>3
<1>9. RowsRight'
  <2>1. \A p : Awaited(p)' <=> Awaited(p)
    BY <1>1, <1>4 DEF Awaited, Covers
  <2>2. Wanted' = Wanted
    BY <1>1 DEF Wanted, Directory!Scanned
  <2> QED BY <1>0, <1>3, <1>4, <2>1, <2>2 DEF RowsRight
<1> QED BY <1>4, <1>6, <1>7, <1>8, <1>9 DEF DirInv

LEMMA EditDiskKeeps ==
  ASSUME DirInv, NEW f \in LooseFiles, Directory!EditDisk(f)
  PROVE  DirInv'
<1> DEFINE d == FolderOf[f]
           cause == d \notin dirWatched /\ Directory!Below(f, dirOpt.path)
<1>0. RowTypes /\ WatchesReach /\ WatchesAsked /\ RowsRight
  BY DEF DirInv
<1>1. /\ dirDisk' = IF f \in dirDisk THEN dirDisk \ {f} ELSE dirDisk \cup {f}
      /\ dirNotices' = IF d \in dirWatched THEN dirNotices \cup {d} ELSE dirNotices
      /\ dirBlame' = dirBlame \cup Directory!Note("unseen", cause)
      /\ UNCHANGED <<dirOpt, dirEntries, dirScans, dirFutures>>
      /\ dirWatched' = dirWatched /\ dirListings' = dirListings
  BY Zenon DEF Directory!EditDisk
<1>2. f \in DOMAIN FolderOf /\ Directory!Below(f, d)
  BY FoldersAssumption, FolderIsAbove
<1> HIDE DEF cause
<1>3. /\ dirBlame \subseteq dirBlame' /\ dirBlame' \in SUBSET Directory!Blames
      /\ "unseen" \notin dirBlame' => ~cause
      /\ "watch" \notin dirBlame' => "watch" \notin dirBlame
  <2>1. Directory!Note("unseen", cause) \in SUBSET {"unseen"}
        /\ (cause => "unseen" \in Directory!Note("unseen", cause))
    BY DEF Directory!Note
  <2>2. dirBlame \in SUBSET Directory!Blames /\ {"unseen"} \in SUBSET Directory!Blames
    BY <1>0 DEF RowTypes, Directory!Blames
  <2> QED BY <1>1, <2>1, <2>2
<1>4. /\ OneScan' /\ Distinct(dirEntries)' /\ RowsInOrder' /\ FuturesFit(dirFutures)'
      /\ \A p : ToBeShown(p)' <=> ToBeShown(p)
      /\ \A i : Reads(i)' <=> Reads(i)
  BY <1>1, <1>3, ScansStay
<1>5. RowTypes'
  <2>1. dirNotices' \in SUBSET dirWatched'
    BY <1>0, <1>1 DEF RowTypes
  <2> QED BY <1>0, <1>1, <1>3, <1>4, <2>1 DEF RowTypes
<1>6. WatchesReach'
  BY <1>0, <1>1 DEF WatchesReach
<1>7. WatchesAsked'
  BY <1>0, <1>1, <1>3 DEF WatchesAsked
<1>8. RowsRight'
  <2> SUFFICES ASSUME dirBlame' \subseteq {"order"}, NEW p \in FilePaths, ~Awaited(p)'
               PROVE  ToBeShown(p)' <=> p \in Wanted'
    BY DEF RowsRight
  <2>1. dirBlame \subseteq {"order"} /\ ~cause
    BY <1>3
  <2>2. ~Awaited(p)
    <3>1. dirNotices \subseteq dirNotices'
      BY <1>1
    <3> QED BY <1>1, <1>4, <3>1 DEF Awaited, Covers
  <2>3. ToBeShown(p) <=> p \in Wanted
    BY <1>0, <2>1, <2>2 DEF RowsRight
  <2>4. p \in Wanted' <=> p \in Wanted
    <3>1. CASE p # f
      <4>1. p \in dirDisk' <=> p \in dirDisk
        BY <1>1, <3>1
      <4> QED BY <1>1, <4>1 DEF Wanted, Directory!Scanned
    <3>2. CASE p = f
      <4>1. ~Directory!Below(f, dirOpt.path)
        <5>1. CASE d \in dirWatched
          <6>1. d \in dirNotices'
            BY <1>1, <5>1
          <6>2. Covers(d, dirOpt.path, p)'
            BY <1>2, <3>2 DEF Covers
          <6> QED BY <6>1, <6>2 DEF Awaited
        <5>2. CASE d \notin dirWatched
          BY <2>1, <5>2, Zenon DEF cause
        <5> QED BY <5>1, <5>2
      <4>2. ~Directory!Reached(f, dirOpt.path, dirOpt.hidden)
        BY <4>1 DEF Directory!Reached
      <4> QED BY <1>1, <3>2, <4>2 DEF Wanted, Directory!Scanned
    <3> QED BY <3>1, <3>2
  <2> QED BY <1>4, <2>3, <2>4
<1> QED BY <1>4, <1>5, <1>6, <1>7, <1>8 DEF DirInv

LEMMA DirStep == DirInv /\ [Directory!Next]_Directory!vars => DirInv'
<1> SUFFICES ASSUME DirInv, [Directory!Next]_Directory!vars PROVE DirInv'
  OBVIOUS
<1>0. dirOpt \in Options /\ DOMAIN dirScans = 1 .. Len(dirScans)
  BY DEF DirInv, RowTypes
<1>1. CASE Directory!Qml
  <2>1. \E o \in Options : Directory!Update(o)
    <3>1. \A v \in Folders \cup {None} : [dirOpt EXCEPT !.path = v] \in Options
      BY <1>0 DEF Options
    <3>2. \A v \in BOOLEAN : /\ [dirOpt EXCEPT !.recursive = v] \in Options
                             /\ [dirOpt EXCEPT !.watch = v] \in Options
                             /\ [dirOpt EXCEPT !.hidden = v] \in Options
                             /\ [dirOpt EXCEPT !.reverse = v] \in Options
      BY <1>0 DEF Options
    <3>3. \A v \in FileFilters : [dirOpt EXCEPT !.filter = v] \in Options
      BY <1>0 DEF Options
    <3>4. /\ dirOpt.recursive \in BOOLEAN /\ dirOpt.watch \in BOOLEAN
          /\ dirOpt.hidden \in BOOLEAN /\ dirOpt.reverse \in BOOLEAN
      BY <1>0 DEF Options
    <3>5. /\ (~dirOpt.recursive) \in BOOLEAN /\ (~dirOpt.watch) \in BOOLEAN
          /\ (~dirOpt.hidden) \in BOOLEAN /\ (~dirOpt.reverse) \in BOOLEAN
      BY <3>4
    <3> DEFINE o1 == [dirOpt EXCEPT !.recursive = ~@]
               o2 == [dirOpt EXCEPT !.watch = ~@]
               o3 == [dirOpt EXCEPT !.hidden = ~@]
               o4 == [dirOpt EXCEPT !.reverse = ~@]
    <3>6. o1 \in Options /\ o2 \in Options /\ o3 \in Options /\ o4 \in Options
      BY <3>2, <3>5
    <3>7. CASE \E v \in Folders \cup {None} : Directory!SetPath(v)
      BY <3>1, <3>7 DEF Directory!SetPath
    <3>8. CASE \E v \in FileFilters : Directory!SetFilter(v)
      BY <3>3, <3>8 DEF Directory!SetFilter
    <3>9. CASE Directory!SetRecursive
      BY <3>6, <3>9 DEF Directory!SetRecursive
    <3>10. CASE Directory!SetWatchChanges
      BY <3>6, <3>10 DEF Directory!SetWatchChanges
    <3>11. CASE Directory!SetShowHidden
      BY <3>6, <3>11 DEF Directory!SetShowHidden
    <3>12. CASE Directory!SetSortReverse
      BY <3>6, <3>12 DEF Directory!SetSortReverse
    <3> QED BY <1>1, <3>7, <3>8, <3>9, <3>10, <3>11, <3>12, Zenon DEF Directory!Qml
  <2> QED BY <2>1, DirUpdateKeeps
<1>2. CASE \E i \in DOMAIN dirScans : Directory!ScanDir(i) \/ Directory!Deliver(i) \/ Directory!OnCanceled(i)
  BY <1>0, <1>2, ScanDirKeeps, DeliverKeeps, OnCanceledKeeps
<1>3. CASE \E l \in dirListings : Directory!AddWatches(l)
  BY <1>3, AddWatchesKeeps
<1>4. CASE \E d \in dirNotices : Directory!DirectoryChanged(d)
  BY <1>4, DirectoryChangedKeeps
<1>5. CASE \E f \in LooseFiles : Directory!EditDisk(f)
  BY <1>5, EditDiskKeeps
<1>6. CASE UNCHANGED Directory!vars
  <2>1. UNCHANGED <<dirOpt, dirEntries, dirScans, dirFutures>> /\ dirWatched' = dirWatched
        /\ dirListings' = dirListings /\ dirNotices' = dirNotices /\ dirDisk' = dirDisk
        /\ dirBlame' = dirBlame
    BY <1>6 DEF Directory!vars
  <2>2. RestStays
    BY <2>1 DEF RestStays, SettingsStay
  <2>3. dirBlame \subseteq dirBlame' /\ dirBlame' \in SUBSET Directory!Blames /\ RowTypes /\ RowsRight
    BY <2>1 DEF DirInv, RowTypes
  <2>4. /\ OneScan' /\ Distinct(dirEntries)' /\ RowsInOrder' /\ FuturesFit(dirFutures)'
        /\ \A p : ToBeShown(p)' <=> ToBeShown(p)
        /\ \A i : Reads(i)' <=> Reads(i)
    BY <2>1, <2>3, ScansStay
  <2>5. /\ WatchesReach' /\ WatchesAsked'
        /\ dirOpt' \in Options /\ dirWatched' \in SUBSET Folders
        /\ dirNotices' \in SUBSET dirWatched' /\ dirListings' \in SUBSET Listings
        /\ dirBlame' \in SUBSET Directory!Blames
        /\ Wanted' = Wanted
    BY <2>2, RestKeeps DEF RestStays, OrderAside
  <2>6. RowTypes'
    BY <2>1, <2>3, <2>4, <2>5 DEF RowTypes
  <2>7. RowsRight'
    <3>1. \A p : Awaited(p)' <=> Awaited(p)
      BY <2>1, <2>4 DEF Awaited, Covers
    <3> QED BY <2>1, <2>3, <2>4, <2>5, <3>1 DEF RowsRight
  <2> QED BY <2>4, <2>5, <2>6, <2>7 DEF DirInv
<1> QED BY <1>1, <1>2, <1>3, <1>4, <1>5, <1>6, Zenon DEF Directory!Next

(* FileSystemModel: whichever differences were applied in whichever order, *)
(* no path has two rows; the rows are in the order of compareEntries, but  *)
(* from a setPath or setSortReverse that asks for another order than they  *)
(* stand in until a scan leaves them in order; and at rest they are the    *)
(* files of the directory, unless scans overlapped or a change went        *)
(* unwatched.                                                              *)
THEOREM RowsAreTheFiles == DataSpec => []RowsFollowTheDisk
<1>1. DirInv => RowsFollowTheDisk
  BY RowsAreRight DEF RowsFollowTheDisk
<1> QED BY <1>1, DirectoryKeepsItsSpec, DirInit, DirStep, PTL DEF Directory!Spec
===============================================================================
