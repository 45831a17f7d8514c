------------------------------- MODULE FatInvariant ---------------------------
(***************************************************************************)
(* The inductive invariant of FatVolume and the steps within a call: the   *)
(* transfers, the seek and the allocation table.  FatProofs goes on with   *)
(* the calls and has the theorems.                                         *)
(*                                                                         *)
(* A state has one chain of clusters for every file (ch[n]) and one that   *)
(* is nobody's: that which remove_chain is freeing, or the cluster that    *)
(* create_chain has marked and not yet linked.  The chains share no        *)
(* cluster, the table links each to its end, the entries and the FILs name *)
(* their heads, and the disk is what is seen through the window but for    *)
(* the window's own sector.                                                *)
(***************************************************************************)
EXTENDS FatVolume, FiniteSetTheorems, SequenceTheorems, TLAPS

-----------------------------------------------------------------------------
(* Arithmetic *)

\* The sizes are positive numbers, and a cluster is of whole sectors.
LEMMA Sizes ==
  /\ BCS \in Nat \ {0} /\ SS \in Nat \ {0} /\ CSize \in Nat \ {0} /\ BCS = CSize * SS
  /\ LastCluster \in Nat /\ LastCluster >= 2
  /\ NFree \in Nat \ {0} /\ NFree = LastCluster - 1 /\ Eoc = LastCluster + 1 /\ Unknown = NFree + 1
  /\ Cardinality(Names) \in Nat
  /\ FatPerSector \in Nat \ {0} /\ DirPerSector \in Nat \ {0}
PROOF
<1>1. CSize * SS \in Nat \ {0}
  BY SizeAssumption
<1> QED
  BY <1>1, SizeAssumption, FS_CardinalityType DEF BCS, NFree, Eoc, Unknown

\* Quotient and remainder, and that they are the only ones.
LEMMA Division ==
  ASSUME NEW a \in Int, NEW b \in Nat \ {0}
  PROVE  /\ a \div b \in Int /\ a % b \in 0..(b - 1) /\ a = b * (a \div b) + (a % b)
         /\ a \in Nat => a \div b \in Nat
OBVIOUS

\* The quotient and the remainder of a number written as b * q + r.
LEMMA Quotient ==
  ASSUME NEW b \in Nat \ {0}, NEW q \in Int, NEW r \in 0..(b - 1)
  PROVE  (b * q + r) \div b = q /\ (b * q + r) % b = r
PROOF
<1> DEFINE a == b * q + r
           p == a \div b
           s == a % b
<1>0. a \in Int
  OBVIOUS
<1> HIDE DEF a
<1>1. p \in Int /\ s \in 0..(b - 1) /\ a = b * p + s
  BY <1>0, Division
<1> USE DEF a
<1> HIDE DEF p, s
<1>2. b * (p - q) = r - s
  BY <1>1
<1>3. p - q \in Int /\ r - s < b /\ r - s > -b
  BY <1>1
<1>4. CASE p - q >= 1
  <2>1. b * (p - q) >= b
    BY <1>4, <1>3
  <2> QED
    BY <2>1, <1>2, <1>3
<1>5. CASE p - q <= -1
  <2>1. b * (p - q) <= -b
    BY <1>5, <1>3
  <2> QED
    BY <2>1, <1>2, <1>3
<1>6. CASE p = q
  <2>1. b * (p - q) = 0
    BY <1>6
  <2> QED
    BY <1>1, <1>2, <1>6, <2>1
<1>7. p = q /\ s = r
  BY <1>1, <1>4, <1>5, <1>6, <1>3
<1> QED
  BY <1>7 DEF p, s

\* A position is a number of whole clusters and a place in the next one.
LEMMA Split ==
  ASSUME NEW p \in Nat
  PROVE  /\ BCS \in Nat \ {0} /\ p \div BCS \in Nat /\ p % BCS \in 0..(BCS - 1)
         /\ p = BCS * (p \div BCS) + (p % BCS)
PROOF
<1>1. BCS \in Nat \ {0}
  BY Sizes
<1>2. ASSUME NEW b \in Nat \ {0}
      PROVE  p \div b \in Nat /\ p % b \in 0..(b - 1) /\ p = b * (p \div b) + (p % b)
  OBVIOUS
<1> QED
  BY <1>1, <1>2

\* The cluster of a chain, from 1 on, that the unit before a position and the one after
\* it are in.
ToCluster(p) == ((p - 1) \div BCS) + 1
AtCluster(p) == (p \div BCS) + 1

\* The cluster a unit is in, and the one that ends with a pointer on its boundary.
LEMMA Places ==
  ASSUME NEW p \in Nat
  PROVE  /\ p % BCS \in 0..(BCS - 1) /\ p \div BCS \in Nat /\ p = BCS * (p \div BCS) + (p % BCS)
         /\ AtCluster(p) \in Nat \ {0}
         /\ p > 0 => ToCluster(p) = (IF p % BCS = 0 THEN p \div BCS ELSE AtCluster(p))
         /\ p > 0 /\ p % BCS = 0 => ToCluster(p) \in Nat \ {0} /\ AtCluster(p) = ToCluster(p) + 1
PROOF
<1> DEFINE q == p \div BCS
           r == p % BCS
<1>1. BCS \in Nat \ {0} /\ q \in Nat /\ r \in 0..(BCS - 1) /\ p = BCS * q + r
  BY Split
<1>2. AtCluster(p) = q + 1
  BY DEF AtCluster
<1> HIDE DEF q, r
<1>3. ASSUME r # 0 PROVE ToCluster(p) = q + 1
  <2>1. p - 1 = BCS * q + (r - 1) /\ r - 1 \in 0..(BCS - 1)
    BY <1>1, <1>3
  <2> QED
    BY <2>1, <1>1, Quotient DEF ToCluster
<1>4. ASSUME p > 0, r = 0 PROVE ToCluster(p) = q /\ q > 0
  <2>1. q # 0
    BY <1>1, <1>4
  <2>2. BCS * q = BCS * (q - 1) + BCS
    BY <1>1
  <2>3. p - 1 = BCS * (q - 1) + (BCS - 1) /\ BCS - 1 \in 0..(BCS - 1) /\ q - 1 \in Int
    BY <1>1, <1>4, <2>2
  <2>4. (p - 1) \div BCS = q - 1
    BY <2>3, <1>1, Quotient
  <2> QED
    BY <2>1, <2>4, <1>1 DEF ToCluster
<1> QED
  BY <1>1, <1>2, <1>3, <1>4 DEF q, r

\* What a step of k units does to them.
LEMMA Onwards ==
  ASSUME NEW p \in Nat, NEW k \in Nat, (p % BCS) + k <= BCS
  PROVE  /\ k > 0 => ToCluster(p + k) = AtCluster(p)
         /\ (p % BCS) + k < BCS => AtCluster(p + k) = AtCluster(p)
         /\ k = BCS => (p + k) % BCS = 0 /\ AtCluster(p + k) = AtCluster(p) + 1
         /\ \A l \in Nat : AtCluster(p) <= l => p + k <= l * BCS
PROOF
<1> DEFINE q == p \div BCS
           r == p % BCS
<1>1. BCS \in Nat \ {0} /\ q \in Nat /\ r \in 0..(BCS - 1) /\ p = BCS * q + r
  BY Split
<1>2. AtCluster(p) = q + 1 /\ r + k <= BCS
  BY DEF AtCluster
<1> HIDE DEF q, r
<1>3. ASSUME k > 0 PROVE ToCluster(p + k) = q + 1
  <2>1. (p + k) - 1 = BCS * q + (r + k - 1) /\ r + k - 1 \in 0..(BCS - 1)
    BY <1>1, <1>3, <1>2
  <2> QED
    BY <2>1, <1>1, Quotient DEF ToCluster
<1>4. ASSUME r + k < BCS PROVE AtCluster(p + k) = q + 1
  <2>1. p + k = BCS * q + (r + k) /\ r + k \in 0..(BCS - 1)
    BY <1>1, <1>4
  <2> QED
    BY <2>1, <1>1, Quotient DEF AtCluster
<1>5. ASSUME k = BCS PROVE (p + k) % BCS = 0 /\ AtCluster(p + k) = q + 2
  <2>1. BCS * (q + 1) = BCS * q + BCS
    BY <1>1
  <2>2. p + k = BCS * (q + 1) + 0 /\ 0 \in 0..(BCS - 1) /\ q + 1 \in Int
    BY <1>1, <1>5, <1>2, <2>1
  <2>3. (p + k) \div BCS = q + 1 /\ (p + k) % BCS = 0
    BY <2>2, <1>1, Quotient
  <2> QED
    BY <2>3, <1>1 DEF AtCluster
<1>6. ASSUME NEW l \in Nat, q + 1 <= l PROVE p + k <= l * BCS
  <2>1. BCS * (q + 1) <= BCS * l /\ BCS * (q + 1) = BCS * q + BCS
    BY <1>1, <1>6
  <2>2. l * BCS = BCS * l
    BY <1>1
  <2>3. p + k <= BCS * q + BCS
    BY <1>1, <1>2
  <2> HIDE DEF q, r
  <2>4. BCS * q \in Int /\ BCS * l \in Int /\ p + k \in Int /\ BCS * (q + 1) \in Int
    BY <1>1
  <2> QED
    BY <2>1, <2>2, <2>3, <2>4
<1>7. (p % BCS) + k = r + k
  BY DEF r
<1> QED
  BY <1>1, <1>2, <1>3, <1>4, <1>5, <1>6, <1>7

\* A pointer within a chain of l clusters is in one of them.
LEMMA InChain ==
  ASSUME NEW p \in Nat, NEW l \in Nat, p <= l * BCS
  PROVE  /\ p > 0 => ToCluster(p) \in 1..l
         /\ p < l * BCS => AtCluster(p) \in 1..l
PROOF
<1> DEFINE q == p \div BCS
           r == p % BCS
<1>1. BCS \in Nat \ {0} /\ q \in Nat /\ r \in 0..(BCS - 1) /\ p = BCS * q + r
  BY Split
<1>2. AtCluster(p) = q + 1
  BY DEF AtCluster
<1>3. p > 0 => ToCluster(p) = (IF r = 0 THEN q ELSE q + 1)
  BY Places DEF AtCluster
<1>4. p > 0 /\ r = 0 => q >= 1
  BY <1>1
<1> HIDE DEF q, r
<1>5. l * BCS = BCS * l
  BY <1>1
<1>6. ASSUME q >= l PROVE BCS * q >= BCS * l
  BY <1>1, <1>6
<1>7. ASSUME q > l PROVE BCS * q >= BCS * l + BCS
  <2>1. BCS * q >= BCS * (l + 1) /\ BCS * (l + 1) = BCS * l + BCS
    BY <1>1, <1>7
  <2> QED
    BY <2>1
<1>8. BCS * q \in Int /\ BCS * l \in Int
  BY <1>1
<1>9. p < l * BCS => q + 1 <= l
  BY <1>1, <1>5, <1>6, <1>8
<1>10. q <= l /\ (r # 0 => q < l)
  BY <1>1, <1>5, <1>6, <1>7, <1>8
<1> QED
  BY <1>1, <1>2, <1>3, <1>4, <1>9, <1>10
\* The sector of a cluster a position is in, and what is left of it.
LEMMA InSector ==
  ASSUME NEW p \in Nat
  PROVE  /\ (p % BCS) \div SS \in 0..(CSize - 1)
         /\ p % SS \in 0..(SS - 1)
         /\ \A k \in Nat : k <= SS - (p % SS) => (p % BCS) + k <= BCS
PROOF
<1> DEFINE q == p \div BCS
           r == p % BCS
           j == r \div SS
           t == r % SS
<1>1. BCS \in Nat \ {0} /\ q \in Nat /\ r \in 0..(BCS - 1) /\ p = BCS * q + r
  BY Split
<1>2. SS \in Nat \ {0} /\ CSize \in Nat \ {0} /\ BCS = SS * CSize
  BY Sizes
<1>3. j \in Nat /\ t \in 0..(SS - 1) /\ r = SS * j + t
  <2>1. ASSUME NEW a \in Nat, NEW b \in Nat \ {0}
        PROVE  a \div b \in Nat /\ a % b \in 0..(b - 1) /\ a = b * (a \div b) + (a % b)
    OBVIOUS
  <2>2. r \in Nat /\ SS \in Nat \ {0}
    BY <1>1, <1>2
  <2> HIDE DEF q, r
  <2> QED
    BY <2>1, <2>2
<1> HIDE DEF q, r, j, t
<1>4. j < CSize
  <2> SUFFICES ASSUME j >= CSize PROVE FALSE
    BY <1>2, <1>3
  <2>1. SS * j >= SS * CSize
    BY <1>2, <1>3
  <2>2. SS * j \in Int
    BY <1>2, <1>3
  <2> QED
    BY <1>1, <1>2, <1>3, <2>1, <2>2
<1>5. p % SS = t
  <2>1. BCS * q = SS * (CSize * q) /\ CSize * q \in Nat
    BY <1>1, <1>2
  <2>2. SS * (CSize * q + j) = SS * (CSize * q) + SS * j
    BY <1>1, <1>2, <1>3, <2>1
  <2>3. p = SS * (CSize * q + j) + t /\ CSize * q + j \in Int
    BY <1>1, <1>2, <1>3, <2>1, <2>2
  <2> QED
    BY <2>3, <1>2, <1>3, Quotient
<1>6. r + (SS - t) <= BCS
  <2>1. SS * (j + 1) <= SS * CSize /\ SS * (j + 1) = SS * j + SS
    BY <1>2, <1>3, <1>4
  <2>2. SS * j \in Int
    BY <1>2, <1>3
  <2> QED
    BY <1>1, <1>2, <1>3, <2>1, <2>2
<1>7. (p % BCS) \div SS = j /\ p % BCS = r
  BY DEF j, r
<1> QED
  BY <1>1, <1>2, <1>3, <1>4, <1>5, <1>6, <1>7

\* Where a seek starts that does not go back.
LEMMA SeekBase ==
  ASSUME NEW p \in Nat \ {0}
  PROVE  LET base == ((p - 1) \div BCS) * BCS
         IN  /\ base \in Nat /\ base < p /\ base % BCS = 0 /\ AtCluster(base) = ToCluster(p)
             /\ \A o \in Nat : o > 0 /\ (o - 1) \div BCS >= (p - 1) \div BCS => o > base
PROOF
<1> DEFINE h == (p - 1) \div BCS
<1>1. p - 1 \in Nat
  OBVIOUS
<1>2. BCS \in Nat \ {0} /\ h \in Nat /\ p - 1 = BCS * h + ((p - 1) % BCS)
      /\ (p - 1) % BCS \in 0..(BCS - 1)
  BY <1>1, Split
<1>3. ToCluster(p) = h + 1
  BY DEF ToCluster
<1> HIDE DEF h
<1>4. h * BCS = BCS * h + 0 /\ h * BCS \in Nat
  BY <1>2
<1>5. (h * BCS) \div BCS = h /\ (h * BCS) % BCS = 0
  <2>1. 0 \in 0..(BCS - 1) /\ h \in Int
    BY <1>2
  <2>2. (BCS * h + 0) \div BCS = h /\ (BCS * h + 0) % BCS = 0
    BY <1>2, <2>1, Quotient
  <2> QED
    BY <2>2, <1>4
<1>6. AtCluster(h * BCS) = h + 1
  BY <1>5 DEF AtCluster
<1>7. h * BCS < p
  BY <1>2, <1>4
<1>8. ASSUME NEW o \in Nat, o > 0, (o - 1) \div BCS >= h PROVE o > h * BCS
  <2>1. o - 1 \in Nat
    BY <1>8
  <2>2. (o - 1) \div BCS \in Nat /\ o - 1 = BCS * ((o - 1) \div BCS) + ((o - 1) % BCS)
        /\ (o - 1) % BCS \in 0..(BCS - 1)
    BY <2>1, Split
  <2>3. BCS * ((o - 1) \div BCS) >= BCS * h
    BY <1>2, <1>8, <2>2
  <2>4. BCS * ((o - 1) \div BCS) \in Int /\ BCS * h \in Int
    BY <1>2, <2>2
  <2> QED
    BY <2>2, <2>3, <2>4, <1>2, <1>4
<1> QED
  BY <1>3, <1>4, <1>5, <1>6, <1>7, <1>8 DEF h

-----------------------------------------------------------------------------
(* The least element *)

\* A set of numbers has a least one.
LEMMA LeastNumber ==
  ASSUME NEW T \in SUBSET Nat, T # {}
  PROVE  \E m \in T : \A k \in T : m <= k
PROOF
<1> DEFINE R == StrictSubsetOrdering(Nat)
           F == FiniteSubsetsOf(Nat)
           Segs == {0..k : k \in T}
<1>1. IsWellFoundedOn(R, F)
  BY FS_StrictSubsetOrderingWellFounded
<1>2. Segs \subseteq F
  <2> SUFFICES ASSUME NEW k \in T PROVE 0..k \in F
    OBVIOUS
  <2>1. IsFiniteSet(0..k)
    BY FS_Interval
  <2> QED
    BY <2>1 DEF FiniteSubsetsOf
<1>3. Segs # {}
  OBVIOUS
<1> HIDE DEF Segs
<1>4. PICK x \in Segs : \A y \in Segs : ~ (<<y, x>> \in R)
  BY <1>1, <1>2, <1>3, WFMin
<1>5. PICK m \in T : x = 0..m
  BY <1>4 DEF Segs
<1>6. ASSUME NEW k \in T, k < m PROVE FALSE
  <2>1. 0..k \in Segs
    BY DEF Segs
  <2>2. 0..k \subseteq 0..m /\ m \in 0..m /\ m \notin 0..k
    BY <1>6
  <2>3. <<0..k, 0..m>> \in R
    BY <1>2, <1>4, <1>5, <2>1, <2>2 DEF StrictSubsetOrdering
  <2> QED
    BY <1>4, <1>5, <2>1, <2>3
<1> QED
  BY <1>6

\* First, the operator of dir_find and dir_register, is the least member.
LEMMA FirstIs ==
  ASSUME NEW T \in SUBSET Nat, T # {}
  PROVE  First(T) \in T /\ \A k \in T : First(T) <= k
BY LeastNumber DEF First

\* Least is the same, or 0 for the empty set.
LEMMA LeastIs ==
  ASSUME NEW T \in SUBSET (Nat \ {0})
  PROVE  /\ Least(T) = 0 <=> T = {}
         /\ Least(T) # 0 => Least(T) \in T /\ \A k \in T : Least(T) <= k
BY FirstIs DEF Least

-----------------------------------------------------------------------------
(* Chains *)

\* Each file has a chain of clusters, and so has nobody: one that is being freed, or a
\* cluster that is taken and not yet linked.
Nobody == CHOOSE x : x \notin Names
Owners == Names \cup {Nobody}
Chainings == [Owners -> Seq(Clusters)]

Links == {0, Eoc} \cup Clusters
Tables == [Clusters -> Links]

\* The first cluster of a chain, and the link of its k-th.
Head0(s) == IF s = <<>> THEN 0 ELSE s[1]
After(s, k) == IF k = Len(s) THEN Eoc ELSE s[k + 1]

Linked(t, s) == \A k \in 1..Len(s) : t[s[k]] = After(s, k)
Distinct(ch) ==
  \A o, p \in Owners : \A k \in 1..Len(ch[o]), l \in 1..Len(ch[p]) :
    ch[o][k] = ch[p][l] => o = p /\ k = l
Chained(t, ch) == ch \in Chainings /\ (\A o \in Owners : Linked(t, ch[o])) /\ Distinct(ch)
InSome(ch, c) == \E o \in Owners : \E k \in 1..Len(ch[o]) : ch[o][k] = c
Complete(t, ch) == \A c \in Clusters : t[c] = 0 \/ InSome(ch, c)

\* A chain between two owners is nobody's: no file has that name.
LEMMA NobodyIs == Nobody \notin Names
BY NoSetContainsEverything DEF Nobody

\* Links and marks of the table are told apart: 0, 1 and the end are no clusters.
LEMMA Numbers ==
  /\ \A c \in Clusters : c \in Nat /\ c # 0 /\ c # 1 /\ c # Eoc /\ c \in 1..LastCluster
  /\ Eoc \notin Clusters /\ Eoc # 0 /\ Eoc # 1 /\ 0 \notin Clusters /\ 1 \notin Clusters
  /\ Eoc \in Nat
BY Sizes DEF Clusters

\* What the table has for each cluster of a chain.
LEMMA LinkOf ==
  ASSUME NEW s \in Seq(Clusters), NEW k \in 1..Len(s)
  PROVE  /\ s[k] \in Clusters /\ k \in Nat /\ Len(s) \in Nat
         /\ k = Len(s) => After(s, k) = Eoc
         /\ k # Len(s) => After(s, k) = s[k + 1] /\ k + 1 \in 1..Len(s) /\ After(s, k) \in Clusters
         /\ After(s, k) # 0 /\ After(s, k) # 1
BY Numbers DEF After

\* The first cluster of a chain, 0 for a chain of none.
LEMMA HeadOf ==
  ASSUME NEW s \in Seq(Clusters)
  PROVE  /\ Head0(s) \in {0} \cup Clusters
         /\ Head0(s) = 0 <=> s = <<>>
         /\ Len(s) > 0 <=> s # <<>>
         /\ s # <<>> => 1 \in 1..Len(s) /\ Head0(s) = s[1]
PROOF
<1>1. s # <<>> <=> Len(s) > 0
  OBVIOUS
<1>2. s # <<>> => 1 \in 1..Len(s) /\ s[1] \in Clusters
  BY <1>1
<1> QED
  BY <1>1, <1>2, Numbers DEF Head0

\* What is marked as free is in no chain.
LEMMA FreeIsInNone ==
  ASSUME NEW t, NEW ch, Chained(t, ch), NEW d \in Clusters, t[d] = 0,
         NEW o \in Owners, NEW k \in 1..Len(ch[o])
  PROVE  ch[o][k] # d
PROOF
<1>1. ch[o] \in Seq(Clusters) /\ t[ch[o][k]] = After(ch[o], k)
  BY DEF Chained, Linked, Chainings
<1> QED
  BY <1>1, LinkOf

\* A cluster is marked as the end of a chain of its own.
LEMMA NewChain ==
  ASSUME NEW t \in Tables, NEW ch, Chained(t, ch), NEW o \in Owners, ch[o] = <<>>,
         NEW d \in Clusters, t[d] = 0
  PROVE  LET u == [t EXCEPT ![d] = Eoc]
             x == [ch EXCEPT ![o] = <<d>>]
         IN  Chained(u, x) /\ (Complete(t, ch) => Complete(u, x))
PROOF
<1> DEFINE u == [t EXCEPT ![d] = Eoc]
           x == [ch EXCEPT ![o] = <<d>>]
<1>1. ch \in Chainings /\ (\A p \in Owners : Linked(t, ch[p])) /\ Distinct(ch)
  BY DEF Chained
<1>2. x \in Chainings /\ x[o] = <<d>> /\ (\A p \in Owners \ {o} : x[p] = ch[p])
  BY <1>1 DEF Chainings
<1>3. u[d] = Eoc /\ (\A c \in Clusters \ {d} : u[c] = t[c])
  BY DEF Tables
<1>4. \A p \in Owners \ {o} : \A k \in 1..Len(ch[p]) : ch[p][k] # d /\ ch[p][k] \in Clusters
  BY FreeIsInNone, <1>1, LinkOf DEF Chainings
<1>0. \A k \in 1..Len(ch[o]) : FALSE
  OBVIOUS
<1>5. Len(<<d>>) = 1 /\ <<d>>[1] = d /\ (\A k \in 1..Len(<<d>>) : k = 1)
  OBVIOUS
<1> HIDE DEF u, x
<1>6. ASSUME NEW p \in Owners PROVE Linked(u, x[p])
  <2>1. CASE p = o
    BY <2>1, <1>2, <1>3, <1>5 DEF Linked, After
  <2>2. CASE p # o
    BY <2>2, <1>1, <1>2, <1>3, <1>4 DEF Linked
  <2> QED
    BY <2>1, <2>2
<1>7. Distinct(x)
  <2> SUFFICES ASSUME NEW p \in Owners, NEW q \in Owners, NEW k \in 1..Len(x[p]),
                      NEW l \in 1..Len(x[q]), x[p][k] = x[q][l]
               PROVE  p = q /\ k = l
    BY DEF Distinct
  <2>1. CASE p = o /\ q = o
    BY <2>1, <1>2, <1>5
  <2>2. CASE p = o /\ q # o
    BY <2>2, <1>2, <1>4, <1>5
  <2>3. CASE p # o /\ q = o
    BY <2>3, <1>2, <1>4, <1>5
  <2>4. CASE p # o /\ q # o
    BY <2>4, <1>1, <1>2 DEF Distinct
  <2> QED
    BY <2>1, <2>2, <2>3, <2>4
<1>8. ASSUME Complete(t, ch), NEW c \in Clusters PROVE u[c] = 0 \/ InSome(x, c)
  <2>1. CASE c = d
    BY <2>1, <1>2, <1>5 DEF InSome
  <2>2. CASE c # d
    <3>1. CASE t[c] = 0
      BY <3>1, <2>2, <1>3
    <3>2. CASE t[c] # 0
      <4>1. PICK p \in Owners : \E k \in 1..Len(ch[p]) : ch[p][k] = c
        BY <3>2, <1>8 DEF Complete, InSome
      <4>2. p # o
        BY <4>1, <1>0
      <4> QED
        BY <4>1, <4>2, <1>2 DEF InSome
    <3> QED
      BY <3>1, <3>2
  <2> QED
    BY <2>1, <2>2
<1>9. Chained(u, x)
  BY <1>2, <1>6, <1>7 DEF Chained
<1>10. Complete(t, ch) => Complete(u, x)
  BY <1>8 DEF Complete
<1> QED
  BY <1>9, <1>10 DEF u, x

\* A chain moves to one who has none.
LEMMA MoveChain ==
  ASSUME NEW t, NEW ch, Chained(t, ch), NEW o \in Owners, NEW m \in Owners, ch[m] = <<>>, m # o
  PROVE  LET x == [ch EXCEPT ![m] = ch[o], ![o] = <<>>]
         IN  Chained(t, x) /\ (Complete(t, ch) => Complete(t, x))
PROOF
<1> DEFINE x == [ch EXCEPT ![m] = ch[o], ![o] = <<>>]
<1>1. ch \in Chainings /\ (\A p \in Owners : Linked(t, ch[p])) /\ Distinct(ch)
  BY DEF Chained
<1>2. x \in Chainings /\ x[m] = ch[o] /\ x[o] = <<>> /\ (\A p \in Owners \ {m, o} : x[p] = ch[p])
  BY <1>1 DEF Chainings
<1>3. Len(<<>>) = 0 /\ (\A k \in 1..Len(<<>>) : FALSE)
  OBVIOUS
<1> HIDE DEF x
<1>4. ASSUME NEW p \in Owners PROVE Linked(t, x[p])
  BY <1>1, <1>2, <1>3 DEF Linked
<1>5. Distinct(x)
  <2> DEFINE from == [p \in Owners |-> IF p = m THEN o ELSE p]
  <2>1. \A p \in Owners : p # o => x[p] = ch[from[p]] /\ from[p] \in Owners
    BY <1>2
  <2>2. \A p, q \in Owners : p # o /\ q # o /\ from[p] = from[q] => p = q
    OBVIOUS
  <2> HIDE DEF from
  <2> QED
    BY <1>1, <1>2, <1>3, <2>1, <2>2 DEF Distinct
<1>6. ASSUME NEW c \in Clusters, InSome(ch, c) PROVE InSome(x, c)
  <2>1. PICK p \in Owners : \E k \in 1..Len(ch[p]) : ch[p][k] = c
    BY <1>6 DEF InSome
  <2>2. p # m
    BY <2>1, <1>3
  <2>3. CASE p = o
    BY <2>1, <2>3, <1>2 DEF InSome
  <2>4. CASE p # o
    BY <2>1, <2>2, <2>4, <1>2 DEF InSome
  <2> QED
    BY <2>3, <2>4
<1>7. Chained(t, x)
  BY <1>2, <1>4, <1>5 DEF Chained
<1> QED
  BY <1>6, <1>7 DEF Complete, x
\* Two owners get other chains.
LEMMA OtherChains ==
  ASSUME NEW ch \in Chainings, NEW o \in Owners, NEW m \in Owners, o # m,
         NEW a \in Seq(Clusters), NEW b \in Seq(Clusters)
  PROVE  LET x == [ch EXCEPT ![o] = a, ![m] = b]
         IN  x \in Chainings /\ x[o] = a /\ x[m] = b /\ \A p \in Owners \ {o, m} : x[p] = ch[p]
BY DEF Chainings

\* A chain with one cluster more.
LEMMA AppendIs ==
  ASSUME NEW S, NEW s \in Seq(S), NEW d \in S
  PROVE  /\ Append(s, d) \in Seq(S) /\ Len(Append(s, d)) = Len(s) + 1 /\ Len(s) \in Nat
         /\ \A k \in 1..Len(s) : Append(s, d)[k] = s[k]
         /\ Append(s, d)[Len(s) + 1] = d
OBVIOUS

\* A chain cut in two.
LEMMA PartsAre ==
  ASSUME NEW S, NEW s \in Seq(S), NEW i \in 1..Len(s)
  PROVE  LET a == SubSeq(s, 1, i)
             b == SubSeq(s, i + 1, Len(s))
         IN  /\ a \in Seq(S) /\ Len(a) = i /\ (\A k \in 1..i : a[k] = s[k])
             /\ b \in Seq(S) /\ Len(b) = Len(s) - i /\ (\A k \in 1..(Len(s) - i) : b[k] = s[k + i])
PROOF
<1> DEFINE a == SubSeq(s, 1, i)
           b == SubSeq(s, i + 1, Len(s))
<1>1. Len(s) \in Nat /\ i \in Nat /\ i >= 1 /\ i <= Len(s) /\ \A k \in 1..Len(s) : s[k] \in S
  OBVIOUS
<1>2. /\ a \in Seq(S) /\ Len(a) = (IF 1 <= i THEN i - 1 + 1 ELSE 0)
      /\ \A k \in 1..(i - 1 + 1) : a[k] = s[1 + k - 1]
  BY <1>1, SubSeqProperties
<1>3. /\ b \in Seq(S)
      /\ Len(b) = (IF i + 1 <= Len(s) THEN Len(s) - (i + 1) + 1 ELSE 0)
      /\ \A k \in 1..(Len(s) - (i + 1) + 1) : b[k] = s[(i + 1) + k - 1]
  BY <1>1, SubSeqProperties
<1> HIDE DEF a, b
<1>4. Len(a) = i /\ (\A k \in 1..i : a[k] = s[k])
  BY <1>1, <1>2
<1>5. Len(b) = Len(s) - i /\ (\A k \in 1..(Len(s) - i) : b[k] = s[k + i])
  <2>1. \A k \in 1..(Len(s) - i) : k \in 1..(Len(s) - (i + 1) + 1) /\ (i + 1) + k - 1 = k + i
    BY <1>1
  <2> QED
    BY <1>1, <1>3, <2>1
<1> QED
  BY <1>2, <1>3, <1>4, <1>5 DEF a, b

\* A chain without its first cluster.
LEMMA TailIs ==
  ASSUME NEW S, NEW s \in Seq(S), s # <<>>
  PROVE  /\ Tail(s) \in Seq(S) /\ Len(Tail(s)) = Len(s) - 1 /\ Len(s) \in Nat \ {0}
         /\ \A k \in 1..(Len(s) - 1) : Tail(s)[k] = s[k + 1]
OBVIOUS

\* The cluster taken is linked to the end of a file's chain.
LEMMA JoinChain ==
  ASSUME NEW t \in Tables, NEW ch, Chained(t, ch), NEW n \in Names, ch[n] # <<>>,
         NEW d \in Clusters, ch[Nobody] = <<d>>
  PROVE  LET u == [t EXCEPT ![ch[n][Len(ch[n])]] = d]
             x == [ch EXCEPT ![n] = Append(@, d), ![Nobody] = <<>>]
         IN  Chained(u, x) /\ (Complete(t, ch) => Complete(u, x))
PROOF
<1> DEFINE s == ch[n]
           e == s[Len(s)]
           u == [t EXCEPT ![e] = d]
           x == [ch EXCEPT ![n] = Append(@, d), ![Nobody] = <<>>]
<1>1. ch \in Chainings /\ (\A p \in Owners : Linked(t, ch[p])) /\ Distinct(ch)
  BY DEF Chained
<1>2. n \in Owners /\ Nobody \in Owners /\ n # Nobody /\ s \in Seq(Clusters) /\ d \in Clusters
  BY <1>1, NobodyIs DEF Owners, Chainings
<1>3. /\ x \in Chainings /\ x[n] = Append(s, d) /\ x[Nobody] = <<>>
      /\ (\A p \in Owners \ {n, Nobody} : x[p] = ch[p])
  <2> DEFINE a == Append(s, d)
  <2>1. a \in Seq(Clusters)
    BY <1>2, AppendIs
  <2> DEFINE nil == <<>>
  <2>2. nil \in Seq(Clusters)
    OBVIOUS
  <2>3. x = [ch EXCEPT ![n] = a, ![Nobody] = nil]
    OBVIOUS
  <2> HIDE DEF a, nil, x
  <2>4. x \in Chainings /\ x[n] = a /\ x[Nobody] = nil /\ \A p \in Owners \ {n, Nobody} : x[p] = ch[p]
    BY <1>1, <1>2, <2>1, <2>2, <2>3 DEF Chainings
  <2> QED
    BY <2>4 DEF a, nil
<1>4. Len(s) \in Nat \ {0} /\ Len(s) \in 1..Len(s) /\ e \in Clusters
  <2>1. Len(s) \in Nat /\ Len(s) > 0
    BY <1>2, HeadOf
  <2> HIDE DEF s
  <2> QED
    BY <1>2, <2>1
<1>5. u[e] = d /\ (\A c \in Clusters \ {e} : u[c] = t[c]) /\ t[d] = Eoc
  <2>1. Linked(t, <<d>>) /\ Len(<<d>>) = 1 /\ <<d>>[1] = d
    BY <1>1, <1>2
  <2>2. t[d] = Eoc
    BY <2>1 DEF Linked, After
  <2> QED
    BY <1>4, <2>2 DEF Tables
<1>6. \A p \in Owners \ {n} : \A k \in 1..Len(ch[p]) : ch[p][k] # e /\ ch[p][k] \in Clusters
  BY <1>1, <1>2, <1>4 DEF Distinct, Chainings
<1>7. \A k \in 1..Len(s) : k # Len(s) => s[k] # e
  BY <1>1, <1>2, <1>4 DEF Distinct
<1>8. \A p \in Owners \ {Nobody} : \A k \in 1..Len(ch[p]) : ch[p][k] # d
  <2>1. Len(<<d>>) = 1 /\ 1 \in 1..Len(ch[Nobody]) /\ ch[Nobody][1] = d
    OBVIOUS
  <2> QED
    BY <1>1, <1>2, <2>1 DEF Distinct
<1>9. \A k \in 1..(Len(s) + 1) : x[n][k] = (IF k = Len(s) + 1 THEN d ELSE s[k])
  <2>1. \A k \in 1..(Len(s) + 1) : k = Len(s) + 1 \/ k \in 1..Len(s)
    BY <1>4
  <2>2. Append(s, d)[Len(s) + 1] = d /\ \A k \in 1..Len(s) : Append(s, d)[k] = s[k]
    BY <1>2, AppendIs
  <2> HIDE DEF s, x
  <2> QED
    BY <1>3, <2>1, <2>2
<1>10. Len(x[n]) = Len(s) + 1
  BY <1>2, <1>3, AppendIs
<1>11. Len(<<>>) = 0
  OBVIOUS
<1>12. \A k \in 1..Len(s) : s[k] \in Clusters /\ t[s[k]] = After(s, k)
  BY <1>1, <1>2 DEF Linked
<1>13. \A k \in 1..Len(ch[Nobody]) : ch[Nobody][k] = d
  OBVIOUS
<1> HIDE DEF u, x, e
<1>14. ASSUME NEW p \in Owners PROVE Linked(u, x[p])
  <2>1. CASE p = Nobody
    BY <2>1, <1>3, <1>11 DEF Linked
  <2>2. CASE p = n
    <3> SUFFICES ASSUME NEW k \in 1..(Len(s) + 1) PROVE u[x[n][k]] = After(x[n], k)
      BY <2>2, <1>10 DEF Linked
    <3>1. CASE k = Len(s) + 1
      <4>1. d # e
        BY <1>2, <1>4, <1>8 DEF e
      <4> QED
        BY <3>1, <4>1, <1>2, <1>5, <1>9, <1>10 DEF After
    <3>2. CASE k = Len(s)
      BY <3>2, <1>4, <1>5, <1>9, <1>10 DEF After, e
    <3>3. CASE k \notin {Len(s), Len(s) + 1}
      <4>1. k \in 1..Len(s) /\ k + 1 \in 1..Len(s) /\ s[k] # e
        BY <3>3, <1>4, <1>7
      <4> QED
        BY <3>3, <4>1, <1>4, <1>5, <1>9, <1>10, <1>12 DEF After
    <3> QED
      BY <3>1, <3>2, <3>3
  <2>3. CASE p \notin {n, Nobody}
    BY <2>3, <1>1, <1>3, <1>5, <1>6 DEF Linked
  <2> QED
    BY <2>1, <2>2, <2>3
<1>15. Distinct(x)
  <2> SUFFICES ASSUME NEW p \in Owners, NEW q \in Owners, NEW k \in 1..Len(x[p]),
                      NEW l \in 1..Len(x[q]), x[p][k] = x[q][l]
               PROVE  p = q /\ k = l
    BY DEF Distinct
  <2>1. p # Nobody /\ q # Nobody
    BY <1>3, <1>11
  <2>2. CASE p = n /\ q = n
    BY SMTT(30), <2>2, <1>1, <1>2, <1>4, <1>8, <1>9, <1>10 DEF Distinct
  <2>3. CASE p = n /\ q # n
    BY <2>1, <2>3, <1>1, <1>2, <1>3, <1>4, <1>8, <1>9, <1>10 DEF Distinct
  <2>4. CASE p # n /\ q = n
    BY <2>1, <2>4, <1>1, <1>2, <1>3, <1>4, <1>8, <1>9, <1>10 DEF Distinct
  <2>5. CASE p # n /\ q # n
    BY <2>1, <2>5, <1>1, <1>3 DEF Distinct
  <2> QED
    BY <2>2, <2>3, <2>4, <2>5
<1>16. ASSUME NEW c \in Clusters, InSome(ch, c) PROVE InSome(x, c)
  <2>1. PICK p \in Owners : \E k \in 1..Len(ch[p]) : ch[p][k] = c
    BY <1>16 DEF InSome
  <2>2. CASE p = Nobody
    <3>1. c = d /\ Len(s) + 1 \in 1..(Len(s) + 1)
      BY <2>1, <2>2, <1>13, <1>4
    <3> QED
      BY <3>1, <1>2, <1>9, <1>10 DEF InSome
  <2>3. CASE p = n
    <3>1. PICK k \in 1..Len(s) : s[k] = c
      BY <2>1, <2>3
    <3>2. k \in 1..(Len(s) + 1) /\ x[n][k] = c
      BY <3>1, <1>4, <1>9
    <3> QED
      BY <3>2, <1>2, <1>10 DEF InSome
  <2>4. CASE p \notin {n, Nobody}
    BY <2>1, <2>4, <1>3 DEF InSome
  <2> QED
    BY <2>2, <2>3, <2>4
<1>17. InSome(ch, e)
  BY <1>2, <1>4 DEF InSome, e
<1>18. ASSUME Complete(t, ch), NEW c \in Clusters PROVE u[c] = 0 \/ InSome(x, c)
  BY <1>5, <1>16, <1>17, <1>18 DEF Complete
<1>19. Chained(u, x)
  BY <1>3, <1>14, <1>15 DEF Chained
<1>20. Complete(t, ch) => Complete(u, x)
  BY <1>18 DEF Complete
<1> QED
  BY <1>19, <1>20 DEF u, x, e, s

\* A file's chain ends at its i-th cluster; what follows is nobody's.
LEMMA CutChain ==
  ASSUME NEW t \in Tables, NEW ch, Chained(t, ch), NEW n \in Names, ch[Nobody] = <<>>,
         NEW i \in 1..Len(ch[n]), i # Len(ch[n])
  PROVE  LET u == [t EXCEPT ![ch[n][i]] = Eoc]
             x == [ch EXCEPT ![n] = SubSeq(@, 1, i), ![Nobody] = SubSeq(ch[n], i + 1, Len(ch[n]))]
         IN  Chained(u, x) /\ (Complete(t, ch) => Complete(u, x))
PROOF
<1> DEFINE s == ch[n]
           e == s[i]
           a == SubSeq(s, 1, i)
           b == SubSeq(s, i + 1, Len(s))
           u == [t EXCEPT ![e] = Eoc]
           x == [ch EXCEPT ![n] = SubSeq(@, 1, i), ![Nobody] = b]
<1>1. ch \in Chainings /\ (\A p \in Owners : Linked(t, ch[p])) /\ Distinct(ch)
  BY DEF Chained
<1>2. n \in Owners /\ Nobody \in Owners /\ n # Nobody /\ s \in Seq(Clusters)
  BY <1>1, NobodyIs DEF Owners, Chainings
<1>3. /\ a \in Seq(Clusters) /\ Len(a) = i /\ (\A k \in 1..i : a[k] = s[k])
      /\ b \in Seq(Clusters) /\ Len(b) = Len(s) - i /\ (\A k \in 1..(Len(s) - i) : b[k] = s[k + i])
  BY <1>2, PartsAre
<1>4. /\ x \in Chainings /\ x[n] = a /\ x[Nobody] = b
      /\ (\A p \in Owners \ {n, Nobody} : x[p] = ch[p])
  BY <1>1, <1>2, <1>3 DEF Chainings
<1>5. Len(s) \in Nat /\ i \in Nat /\ i < Len(s) /\ e \in Clusters
  BY <1>2
<1>6. u[e] = Eoc /\ (\A c \in Clusters \ {e} : u[c] = t[c])
  BY <1>5 DEF Tables
<1>7. \A p \in Owners \ {n} : \A k \in 1..Len(ch[p]) : ch[p][k] # e /\ ch[p][k] \in Clusters
  BY <1>1, <1>2, <1>5 DEF Distinct, Chainings
<1>8. \A k \in 1..Len(s) : s[k] \in Clusters /\ t[s[k]] = After(s, k) /\ (k # i => s[k] # e)
  BY <1>1, <1>2 DEF Linked, Distinct
<1> HIDE DEF u, x, e, a, b
<1>9. ASSUME NEW p \in Owners PROVE Linked(u, x[p])
  <2>1. CASE p = n
    <3> SUFFICES ASSUME NEW k \in 1..i PROVE u[a[k]] = After(a, k)
      BY <2>1, <1>3, <1>4 DEF Linked
    <3>1. CASE k = i
      BY <3>1, <1>3, <1>6 DEF After, e
    <3>2. CASE k # i
      <4>1. k \in 1..Len(s) /\ k + 1 \in 1..i /\ k # Len(s)
        BY <3>2, <1>5
      <4>2. u[a[k]] = s[k + 1]
        <5>1. a[k] = s[k]
          BY <1>3
        <5>2. s[k] \in Clusters \ {e} /\ t[s[k]] = s[k + 1]
          BY <3>2, <4>1, <1>8 DEF After
        <5> QED
          BY <5>1, <5>2, <1>6
      <4>3. After(a, k) = a[k + 1] /\ a[k + 1] = s[k + 1]
        BY <3>2, <4>1, <1>3 DEF After
      <4> QED
        BY <4>2, <4>3
    <3> QED
      BY <3>1, <3>2
  <2>2. CASE p = Nobody
    <3> SUFFICES ASSUME NEW k \in 1..(Len(s) - i) PROVE u[b[k]] = After(b, k)
      BY <2>2, <1>3, <1>4 DEF Linked
    <3>1. k + i \in 1..Len(s) /\ k + i # i /\ b[k] = s[k + i]
      BY <1>3, <1>5
    <3>2. u[b[k]] = After(s, k + i)
      BY <3>1, <1>6, <1>8
    <3>3. CASE k = Len(s) - i
      BY <3>2, <3>3, <1>3, <1>5 DEF After
    <3>4. CASE k # Len(s) - i
      <4>1. k + 1 \in 1..(Len(s) - i) /\ k + i # Len(s) /\ (k + 1) + i = (k + i) + 1
        BY <3>4, <1>5
      <4> QED
        BY <3>2, <3>4, <4>1, <1>3 DEF After
    <3> QED
      BY <3>3, <3>4
  <2>3. CASE p \notin {n, Nobody}
    BY <2>3, <1>1, <1>4, <1>6, <1>7 DEF Linked
  <2> QED
    BY <2>1, <2>2, <2>3
<1> DEFINE own == [p \in Owners |-> IF p = Nobody THEN n ELSE p]
           off == [p \in Owners |-> IF p = Nobody THEN i ELSE 0]
<1>10. ASSUME NEW p \in Owners, NEW k \in 1..Len(x[p])
       PROVE  /\ own[p] \in Owners /\ k + off[p] \in 1..Len(ch[own[p]])
              /\ x[p][k] = ch[own[p]][k + off[p]]
  <2>1. CASE p = n
    BY <2>1, <1>2, <1>3, <1>4, <1>5
  <2>2. CASE p = Nobody
    BY <2>2, <1>2, <1>3, <1>4, <1>5
  <2>3. CASE p \notin {n, Nobody}
    <3>1. x[p] = ch[p] /\ ch[p] \in Seq(Clusters) /\ own[p] = p /\ off[p] = 0 /\ k + 0 = k
      BY <2>3, <1>1, <1>4 DEF Chainings
    <3> QED
      BY <3>1
  <2> QED
    BY <2>1, <2>2, <2>3
<1>11. Distinct(x)
  <2> SUFFICES ASSUME NEW p \in Owners, NEW q \in Owners, NEW k \in 1..Len(x[p]),
                      NEW l \in 1..Len(x[q]), x[p][k] = x[q][l]
               PROVE  p = q /\ k = l
    BY DEF Distinct
  <2>1. own[p] = own[q] /\ k + off[p] = l + off[q]
    <3>1. /\ own[p] \in Owners /\ own[q] \in Owners
          /\ k + off[p] \in 1..Len(ch[own[p]]) /\ l + off[q] \in 1..Len(ch[own[q]])
          /\ ch[own[p]][k + off[p]] = ch[own[q]][l + off[q]]
      BY <1>10
    <3> HIDE DEF own, off
    <3>2. \A o1, o2 \in Owners : \A k1 \in 1..Len(ch[o1]), k2 \in 1..Len(ch[o2]) :
            ch[o1][k1] = ch[o2][k2] => o1 = o2 /\ k1 = k2
      BY <1>1 DEF Distinct
    <3>3. PICK o1, o2, k1, k2 : o1 = own[p] /\ o2 = own[q] /\ k1 = k + off[p] /\ k2 = l + off[q]
      OBVIOUS
    <3>4. o1 = o2 /\ k1 = k2
      <4>1. /\ o1 \in Owners /\ o2 \in Owners /\ k1 \in 1..Len(ch[o1]) /\ k2 \in 1..Len(ch[o2])
            /\ ch[o1][k1] = ch[o2][k2]
        BY <3>1, <3>3
      <4> QED
        BY <3>2, <4>1
    <3> QED
      BY <3>3, <3>4
  <2>2. k \in Nat /\ l \in Nat /\ k >= 1 /\ l >= 1 /\ (p = n => k <= i) /\ (q = n => l <= i)
    <3>1. x[p] \in Seq(Clusters) /\ x[q] \in Seq(Clusters)
      BY <1>4 DEF Chainings
    <3>2. Len(x[p]) \in Nat /\ Len(x[q]) \in Nat
      BY <3>1
    <3> QED
      BY <1>3, <1>4, <3>2
  <2> QED
    BY <2>1, <2>2, <1>2, <1>5
<1>12. ASSUME NEW c \in Clusters, InSome(ch, c) PROVE InSome(x, c)
  <2>1. PICK p \in Owners : \E k \in 1..Len(ch[p]) : ch[p][k] = c
    BY <1>12 DEF InSome
  <2>2. CASE p = n
    <3>1. PICK k \in 1..Len(s) : s[k] = c
      BY <2>1, <2>2
    <3>2. CASE k <= i
      <4>1. k \in 1..Len(x[n]) /\ x[n][k] = c
        BY <3>1, <3>2, <1>3, <1>4, <1>5
      <4> QED
        BY <4>1, <1>2 DEF InSome
    <3>3. CASE k > i
      <4>1. k - i \in 1..Len(x[Nobody]) /\ x[Nobody][k - i] = c
        BY <3>1, <3>3, <1>3, <1>4, <1>5
      <4> QED
        BY <4>1, <1>2 DEF InSome
    <3> QED
      BY <3>2, <3>3, <1>5
  <2>3. CASE p # n
    <3>1. p # Nobody
      BY <2>1
    <3> QED
      BY <2>1, <2>3, <3>1, <1>4 DEF InSome
  <2> QED
    BY <2>2, <2>3
<1>13. InSome(ch, e)
  BY <1>2, <1>5 DEF InSome, e
<1>14. ASSUME Complete(t, ch), NEW c \in Clusters PROVE u[c] = 0 \/ InSome(x, c)
  BY <1>6, <1>12, <1>13, <1>14 DEF Complete
<1>15. Chained(u, x)
  BY <1>4, <1>9, <1>11 DEF Chained
<1>16. Complete(t, ch) => Complete(u, x)
  BY <1>14 DEF Complete
<1> QED
  BY <1>15, <1>16 DEF u, x, e, a, b, s
\* The first cluster of nobody's chain is marked as free.
LEMMA PopChain ==
  ASSUME NEW t \in Tables, NEW ch, Chained(t, ch), ch[Nobody] # <<>>
  PROVE  LET s == ch[Nobody]
             u == [t EXCEPT ![s[1]] = 0]
             x == [ch EXCEPT ![Nobody] = Tail(@)]
         IN  /\ Chained(u, x) /\ (Complete(t, ch) => Complete(u, x))
             /\ s[1] \in Clusters /\ t[s[1]] \in Clusters \cup {Eoc}
             /\ x[Nobody] = Tail(s) /\ (\A o \in Names : x[o] = ch[o])
             /\ t[s[1]] = Eoc => Tail(s) = <<>>
             /\ t[s[1]] # Eoc => Tail(s) # <<>> /\ t[s[1]] = Head0(Tail(s)) /\ t[s[1]] \in Clusters
PROOF
<1> DEFINE s == ch[Nobody]
           d == s[1]
           r == Tail(s)
           u == [t EXCEPT ![d] = 0]
           x == [ch EXCEPT ![Nobody] = r]
<1>1. ch \in Chainings /\ (\A p \in Owners : Linked(t, ch[p])) /\ Distinct(ch)
  BY DEF Chained
<1>2. Nobody \in Owners /\ s \in Seq(Clusters) /\ s # <<>> /\ \A o \in Names : o \in Owners /\ o # Nobody
  BY <1>1, NobodyIs DEF Owners, Chainings
<1>3. /\ Len(s) \in Nat \ {0} /\ 1 \in 1..Len(s) /\ d \in Clusters
      /\ r \in Seq(Clusters) /\ Len(r) = Len(s) - 1 /\ \A k \in 1..(Len(s) - 1) : r[k] = s[k + 1]
  <2>1. s[1] \in Clusters /\ 1 \in 1..Len(s)
    BY <1>2, HeadOf
  <2> HIDE DEF s
  <2> QED
    BY <1>2, <2>1, TailIs
<1>4. u[d] = 0 /\ \A c \in Clusters \ {d} : u[c] = t[c]
  BY <1>3 DEF Tables
<1>5. x \in Chainings /\ x[Nobody] = r /\ (\A p \in Owners \ {Nobody} : x[p] = ch[p])
  BY <1>1, <1>2, <1>3 DEF Chainings
<1>6. t[d] = After(s, 1)
  BY <1>1, <1>2, <1>3 DEF Linked
<1> HIDE DEF u, x, r, d, s
<1>7. \A p \in Owners \ {Nobody} : \A k \in 1..Len(ch[p]) : ch[p][k] # d /\ ch[p][k] \in Clusters
  <2>1. \A p \in Owners \ {Nobody} : \A k \in 1..Len(ch[p]) : ch[p][k] \in Clusters
    BY <1>1 DEF Chainings
  <2> QED
    BY <1>1, <1>2, <1>3, <2>1 DEF Distinct, d, s
<1>8. \A k \in 1..Len(s) : s[k] \in Clusters /\ (k # 1 => s[k] # d) /\ t[s[k]] = After(s, k)
  <2>1. \A k \in 1..Len(s) : s[k] \in Clusters
    BY <1>2
  <2> QED
    BY <1>1, <1>2, <1>3, <2>1 DEF Distinct, Linked, d, s
<1>9. ASSUME NEW p \in Owners PROVE Linked(u, x[p])
  <2>1. CASE p = Nobody
    <3> SUFFICES ASSUME NEW k \in 1..(Len(s) - 1) PROVE u[r[k]] = After(r, k)
      BY <2>1, <1>3, <1>5 DEF Linked
    <3>1. k + 1 \in 1..Len(s) /\ k + 1 # 1 /\ r[k] = s[k + 1]
      BY <1>3
    <3>2. u[r[k]] = After(s, k + 1)
      BY <3>1, <1>4, <1>8
    <3>3. k = Len(s) - 1 <=> k + 1 = Len(s)
      BY <1>3
    <3>4. k # Len(s) - 1 => k + 1 \in 1..(Len(s) - 1)
      BY <1>3
    <3>5. CASE k = Len(s) - 1
      BY <3>2, <3>3, <3>5, <1>3 DEF After
    <3>6. CASE k # Len(s) - 1
      <4>1. After(s, k + 1) = s[(k + 1) + 1] /\ After(r, k) = r[k + 1]
        BY <3>3, <3>6, <1>3 DEF After
      <4> QED
        BY <3>2, <3>4, <3>6, <4>1, <1>3
    <3> QED
      BY <3>5, <3>6
  <2>2. CASE p # Nobody
    <3>1. Linked(t, ch[p]) /\ x[p] = ch[p]
      BY <2>2, <1>1, <1>5
    <3> QED
      BY <3>1, <2>2, <1>4, <1>7 DEF Linked
  <2> QED
    BY <2>1, <2>2
<1> DEFINE off == [p \in Owners |-> IF p = Nobody THEN 1 ELSE 0]
<1>10. ASSUME NEW p \in Owners, NEW k \in 1..Len(x[p])
       PROVE  k \in Nat /\ k + off[p] \in 1..Len(ch[p]) /\ x[p][k] = ch[p][k + off[p]]
  <2>1. CASE p = Nobody
    BY <2>1, <1>2, <1>3, <1>5 DEF s
  <2>2. CASE p # Nobody
    <3>1. x[p] = ch[p] /\ ch[p] \in Seq(Clusters) /\ off[p] = 0 /\ k + 0 = k
      BY <2>2, <1>1, <1>5 DEF Chainings
    <3> QED
      BY <3>1
  <2> QED
    BY <2>1, <2>2
<1>11. Distinct(x)
  <2> SUFFICES ASSUME NEW p \in Owners, NEW q \in Owners, NEW k \in 1..Len(x[p]),
                      NEW l \in 1..Len(x[q]), x[p][k] = x[q][l]
               PROVE  p = q /\ k = l
    BY DEF Distinct
  <2>1. /\ k \in Nat /\ k + off[p] \in 1..Len(ch[p]) /\ x[p][k] = ch[p][k + off[p]]
        /\ l \in Nat /\ l + off[q] \in 1..Len(ch[q]) /\ x[q][l] = ch[q][l + off[q]]
    BY <1>10
  <2>2. off[p] \in Nat /\ off[q] \in Nat
    OBVIOUS
  <2> HIDE DEF off
  <2>3. p = q /\ k + off[p] = l + off[q]
    <3>1. ch[p][k + off[p]] = ch[q][l + off[q]]
      BY <2>1
    <3> QED
      BY <1>1, <2>1, <3>1 DEF Distinct
  <2> QED
    BY <2>1, <2>2, <2>3
<1>12. ASSUME NEW c \in Clusters, c # d, InSome(ch, c) PROVE InSome(x, c)
  <2>1. PICK p \in Owners : \E k \in 1..Len(ch[p]) : ch[p][k] = c
    BY <1>12 DEF InSome
  <2>2. CASE p = Nobody
    <3>1. PICK k \in 1..Len(s) : s[k] = c
      BY <2>1, <2>2 DEF s
    <3>2. k # 1
      BY <3>1, <1>12 DEF d
    <3>3. k - 1 \in 1..(Len(s) - 1) /\ (k - 1) + 1 = k
      BY <3>2, <1>3
    <3>4. k - 1 \in 1..Len(x[Nobody]) /\ x[Nobody][k - 1] = c
      BY <3>1, <3>3, <1>3, <1>5
    <3> QED
      BY <3>4, <1>2 DEF InSome
  <2>3. CASE p # Nobody
    BY <2>1, <2>3, <1>5 DEF InSome
  <2> QED
    BY <2>2, <2>3
<1>13. ASSUME Complete(t, ch), NEW c \in Clusters PROVE u[c] = 0 \/ InSome(x, c)
  BY <1>4, <1>12, <1>13 DEF Complete
<1>14. Chained(u, x) /\ (Complete(t, ch) => Complete(u, x))
  BY <1>5, <1>9, <1>11, <1>13 DEF Chained, Complete
<1>15. r = <<>> <=> Len(s) = 1
  <2>1. Len(r) > 0 <=> r # <<>>
    BY <1>3, HeadOf
  <2> QED
    BY <1>3, <2>1
<1>16. t[d] \in Clusters \cup {Eoc} /\ (t[d] = Eoc => r = <<>>)
  <2>1. CASE Len(s) = 1
    BY <2>1, <1>6, <1>15 DEF After
  <2>2. CASE Len(s) # 1
    <3>1. After(s, 1) \in Clusters
      BY <2>2, <1>2, <1>3, LinkOf
    <3> QED
      BY <3>1, <1>6, Numbers
  <2> QED
    BY <2>1, <2>2
<1>17. t[d] # Eoc => r # <<>> /\ t[d] = Head0(r) /\ t[d] \in Clusters
  <2> SUFFICES ASSUME t[d] # Eoc PROVE r # <<>> /\ t[d] = Head0(r)
    BY <1>16
  <2>1. Len(s) # 1
    BY <1>6 DEF After
  <2>2. r # <<>>
    BY <2>1, <1>15
  <2>3. 1 \in 1..(Len(s) - 1) /\ 1 + 1 = 2
    BY <2>1, <1>3
  <2>4. r[1] = s[2] /\ After(s, 1) = s[2]
    BY <2>1, <2>3, <1>3 DEF After
  <2> QED
    BY <2>2, <2>4, <1>6 DEF Head0
<1>18. x[Nobody] = r /\ \A o \in Names : x[o] = ch[o]
  BY <1>2, <1>5
<1> QED
  BY <1>3, <1>14, <1>16, <1>17, <1>18 DEF u, x, r, d, s

-----------------------------------------------------------------------------
(* The chain of a table from a cluster on *)

\* There is only one.
LEMMA OneChain ==
  ASSUME NEW t, NEW s \in Seq(Clusters), NEW r \in Seq(Clusters),
         Linked(t, s), Linked(t, r), Head0(s) = Head0(r)
  PROVE  s = r
PROOF
<1>1. Len(s) \in Nat /\ Len(r) \in Nat
  OBVIOUS
<1>2. s = <<>> <=> r = <<>>
  BY HeadOf
<1> DEFINE T == {k \in Nat : k \in 1..Len(s) /\ k \in 1..Len(r) /\ s[k] # r[k]}
<1>3. T = {}
  <2> SUFFICES ASSUME T # {} PROVE FALSE
    OBVIOUS
  <2>1. T \in SUBSET Nat
    OBVIOUS
  <2> HIDE DEF T
  <2>2. PICK m \in T : \A k \in T : m <= k
    BY <2>1, LeastNumber
  <2>3. m \in Nat /\ m \in 1..Len(s) /\ m \in 1..Len(r) /\ s[m] # r[m]
    BY DEF T
  <2>4. m # 1
    <3>1. s # <<>> /\ r # <<>>
      BY <2>3
    <3> QED
      BY <2>3, <3>1 DEF Head0
  <2>5. m - 1 \in Nat /\ m - 1 \in 1..Len(s) /\ m - 1 \in 1..Len(r) /\ m - 1 # Len(s) /\ m - 1 # Len(r)
        /\ (m - 1) + 1 = m /\ ~(m <= m - 1)
    BY <2>3, <2>4, <1>1
  <2>6. s[m - 1] = r[m - 1]
    BY <2>2, <2>5 DEF T
  <2>7. t[s[m - 1]] = s[m] /\ t[r[m - 1]] = r[m]
    BY <2>5 DEF Linked, After
  <2> QED
    BY <2>3, <2>6, <2>7
<1>4. \A k \in 1..Len(s) : k \in 1..Len(r) => s[k] = r[k]
  BY <1>3, <1>1
<1>5. ASSUME NEW a \in Seq(Clusters), NEW b \in Seq(Clusters), a # <<>>, Linked(t, a), Linked(t, b),
             \A k \in 1..Len(a) : k \in 1..Len(b) => a[k] = b[k], Len(a) < Len(b)
      PROVE  FALSE
  <2>1. Len(a) \in 1..Len(a) /\ Len(a) \in 1..Len(b) /\ Len(a) # Len(b)
    <3>1. Len(a) \in Nat /\ Len(b) \in Nat /\ Len(a) > 0
      BY <1>5, HeadOf
    <3> QED
      BY <3>1, <1>5
  <2>2. a[Len(a)] = b[Len(a)]
    BY <1>5, <2>1
  <2>3. t[a[Len(a)]] = Eoc
    BY <1>5, <2>1 DEF Linked, After
  <2>4. t[b[Len(a)]] = After(b, Len(a)) /\ After(b, Len(a)) \in Clusters
    BY <1>5, <2>1, LinkOf DEF Linked
  <2> QED
    BY <2>2, <2>3, <2>4, Numbers
<1>6. ~(Len(s) < Len(r))
  <2>1. CASE s = <<>>
    BY <2>1, <1>2
  <2>2. CASE s # <<>>
    BY <2>2, <1>4, <1>5
  <2> QED
    BY <2>1, <2>2
<1>7. ~(Len(r) < Len(s))
  <2>1. CASE r = <<>>
    BY <2>1, <1>2
  <2>2. CASE r # <<>>
    BY <2>2, <1>4, <1>5
  <2> QED
    BY <2>1, <2>2
<1>8. Len(s) = Len(r)
  BY <1>1, <1>6, <1>7
<1> QED
  BY <1>4, <1>8, SeqEqual

\* The volume has n_fatent - 2 clusters.
LEMMA ClustersAre == IsFiniteSet(Clusters) /\ Cardinality(Clusters) = NFree
PROOF
<1>1. 2 \in Int /\ LastCluster \in Int /\ ~(2 > LastCluster) /\ LastCluster - 2 + 1 = NFree
  BY Sizes
<1> QED
  BY <1>1, FS_Interval DEF Clusters

\* A chain that meets no cluster twice is one of Chains.
LEMMA InChains ==
  ASSUME NEW s \in Seq(Clusters), \A k, l \in 1..Len(s) : s[k] = s[l] => k = l
  PROVE  s \in Chains
PROOF
<1>1. Len(s) \in Nat /\ s \in [1..Len(s) -> Clusters]
  OBVIOUS
<1>2. s \in Injection(1..Len(s), Clusters)
  BY <1>1 DEF Injection, IsInjective
<1>3. Cardinality(1..Len(s)) <= NFree
  BY <1>2, ClustersAre, FS_Injection
<1>4. Cardinality(1..Len(s)) = Len(s)
  <2>1. 1 \in Int /\ Len(s) \in Int
    BY <1>1
  <2>2. Cardinality(1..Len(s)) = IF 1 > Len(s) THEN 0 ELSE Len(s) - 1 + 1
    BY <2>1, FS_Interval
  <2> QED
    BY <2>2, <1>1
<1>5. Len(s) \in 0..NFree
  BY <1>1, <1>3, <1>4, Sizes
<1> QED
  BY <1>2, <1>5 DEF Chains

\* A member of Chains names no cluster twice.
LEMMA OfChains ==
  ASSUME NEW s \in Chains
  PROVE  s \in Seq(Clusters) /\ \A k, l \in 1..Len(s) : s[k] = s[l] => k = l
PROOF
<1>1. PICK k \in 0..NFree : s \in Injection(1..k, Clusters)
  BY DEF Chains
<1>2. k \in Nat /\ s \in [1..k -> Clusters] /\ IsInjective(s)
  BY <1>1, Sizes DEF Injection
<1>3. s \in Seq(Clusters) /\ Len(s) = k
  BY <1>2
<1> QED
  BY <1>2, <1>3 DEF IsInjective

\* The chain of a table from a cluster on is the linked sequence that starts there.
LEMMA ChainIs ==
  ASSUME NEW t, NEW s \in Seq(Clusters), Linked(t, s), \A k, l \in 1..Len(s) : s[k] = s[l] => k = l
  PROVE  /\ s \in Chains /\ IsChain(t, Head0(s), s)
         /\ Chain(t, Head0(s)) = s
         /\ Within(t, Head0(s)) = {s[k] : k \in 1..Len(s)}
PROOF
<1>1. s \in Chains
  BY InChains
<1>2. ASSUME NEW r \in Seq(Clusters) PROVE IsChain(t, Head0(s), r) <=> Head0(s) = Head0(r) /\ Linked(t, r)
  <2>1. DOMAIN r = 1..Len(r)
    OBVIOUS
  <2>2. IsChain(t, Head0(s), r)
        <=> Head0(s) = Head0(r) /\ \A k \in DOMAIN r : t[r[k]] = After(r, k)
    BY Zenon DEF IsChain, Head0, After
  <2> QED
    BY <2>1, <2>2, Zenon DEF Linked
<1>3. IsChain(t, Head0(s), s)
  BY <1>2
<1>4. ASSUME NEW r \in Chains, IsChain(t, Head0(s), r) PROVE r = s
  BY <1>2, <1>4, OfChains, OneChain
<1>5. Chain(t, Head0(s)) = s
  BY <1>1, <1>3, <1>4 DEF Chain
<1>6. DOMAIN s = 1..Len(s)
  OBVIOUS
<1> QED
  BY <1>1, <1>3, <1>5, <1>6 DEF Within

-----------------------------------------------------------------------------
(* The inductive invariant *)

\* Types. An entry, a FIL, a call, and everything.
FilFields == {"open", "mode", "slot", "sclust", "size", "fptr", "clust", "sect", "buf", "dirty", "mod"}
CallFields == {"op", "n", "m", "mode", "pc", "res", "slot", "cl", "top", "new", "left", "short", "at", "got"}

EntryOk(e) == e.kind = "file" => e.name \in Names /\ e.clust \in {0} \cup Clusters /\ e.size \in Nat
DirTyped(d) == DOMAIN d = Slots /\ \A i \in Slots : EntryOk(d[i])

IsFil(f) ==
  /\ DOMAIN f = FilFields /\ f.open = TRUE
  /\ f.slot \in Slots /\ f.sclust \in {0} \cup Clusters /\ f.size \in Nat /\ f.fptr \in Nat
  /\ f.clust \in {0} \cup Clusters /\ f.mod \in BOOLEAN
IsCall(c) ==
  /\ DOMAIN c = CallFields /\ c.op # "none" /\ c.n \in Names /\ c.m \in Names /\ c.res # "FR_INT_ERR"
  /\ c.left \in Nat /\ c.short \in BOOLEAN

DiskTyped(d) ==
  /\ DOMAIN d = {"fat", "dir", "info"} /\ d.fat \in Tables /\ DirTyped(d.dir)
  /\ d.info.free \in 0..Unknown
VolTyped(v) == DOMAIN v = {"fat", "dir"} /\ v.fat \in Tables /\ DirTyped(v.dir)
FsTyped == DOMAIN fs = {"last", "free", "fsi"} /\ fs.free \in 0..Unknown
FilesTyped == DOMAIN file = Names /\ \A n \in Names : file[n] = NoFile \/ IsFil(file[n])
Typed ==
  /\ DiskTyped(disk) /\ VolTyped(vol) /\ FsTyped /\ FilesTyped
  /\ DOMAIN win = {"sect", "dirty"} /\ win.dirty \in BOOLEAN
  /\ call = Idle \/ IsCall(call)
  /\ loose \subseteq Names
  /\ failures \in Nat

\* What the call does, and that it is with file n.
Doing(ops, pcs) == call.op \in ops /\ call.pc \in pcs
With(n, ops, pcs) == Doing(ops, pcs) /\ call.n = n

\* The old entry of a file that is being renamed, and an entry yet to be synchronised.
Removing == Doing({"rename"}, {"remove"})
Excused(i) == Doing({"rename"}, {"remove"}) /\ i = call.slot
Loose(n) == n \in loose /\ ~With(n, {"sync", "close"}, {"window", "info", "done"})
Cutting(n) == With(n, {"truncate"}, {"free", "cut"})
Seeking(n) == With(n, {"seek", "open"}, {"seek", "seeked", "grow", "link"})

\* The chain that is nobody's.
Floating(ch) ==
  /\ call.pc = "free" => ch[Nobody] # <<>> /\ call.cl = Head0(ch[Nobody])
  /\ call.pc = "link" => ch[Nobody] = <<call.new>>
  /\ call.pc \notin {"free", "link"} => ch[Nobody] = <<>>

IsFile(i) == vol.dir[i].kind = "file"
\* No name twice, and no file after a blank entry, where a search ends.
Names1(d) ==
  \A i, j \in Slots : d[i].kind = "file" /\ d[j].kind = "file" /\ d[i].name = d[j].name => i = j
BlanksLast(d) == \A i, j \in Slots : i < j /\ d[i].kind = "blank" => d[j].kind = "blank"
DirOK(d) == Names1(d) /\ BlanksLast(d)
\* The directory without the entry that f_rename is about to remove.
DirLeft == [vol.dir EXCEPT ![call.slot] = Deleted]

\* What an entry says of its file's chain: while the file is open its length may
\* lag behind, and after f_truncate nothing is said until it is synchronised.
Room(s) == Len(s) * BCS
EntryFits(ch, i) ==
  LET e == vol.dir[i]
      s == ch[e.name]
  IN  /\ IsOpen(e.name) /\ ~Loose(e.name) =>
           e.clust \in {0, Head0(s)} /\ (e.clust = 0 => e.size = 0) /\ e.size <= Room(s)
      /\ ~IsOpen(e.name) => e.clust = Head0(s) /\ e.size <= Room(s)
EntriesFit(ch) == \A i \in Slots : IsFile(i) /\ ~Excused(i) => EntryFits(ch, i)
\* A file without an entry has no clusters.
Unnamed(ch) ==
  \A n \in Names :
    (\A i \in Slots : IsFile(i) /\ vol.dir[i].name = n => Excused(i)) => ch[n] = <<>>

InCluster(s, c, i) == i \in 1..Len(s) /\ c = s[i]
\* The cluster of the file is that of the unit after its pointer.
Ahead(n) ==
  \/ With(n, {"read", "write"}, {"sector"}) \/ With(n, {"seek", "open"}, {"seek"})
  \/ With(n, {"seek"}, {"grow", "link"}) /\ call.cl # 0
PointerFits(ch, n) ==
  LET f == file[n]
  IN  /\ Ahead(n) => InCluster(ch[n], f.clust, AtCluster(f.fptr))
      /\ ~Ahead(n) /\ f.fptr > 0 => InCluster(ch[n], f.clust, ToCluster(f.fptr))
      /\ f.fptr <= Room(ch[n])
      /\ ~Seeking(n) => f.fptr <= f.size
\* The chain of an open file starts where the FIL says and holds its length.
ChainFits(ch, n) ==
  LET f == file[n]
      s == ch[n]
  IN  /\ Cutting(n) => (f.fptr = 0 => s = <<>>) /\ (f.fptr # 0 => f.sclust = Head0(s))
      /\ ~Cutting(n) => f.sclust = Head0(s) /\ f.size <= Room(s)
\* Its entry is there.
SlotFits(n) ==
  LET f == file[n]
      e == vol.dir[f.slot]
  IN  /\ e.kind = "file" /\ e.name = n
      \* the entry is that of the file, unless it is marked as changed
      /\ \/ With(n, {"write"}, {"next", "sector", "grow", "link"}) \/ Cutting(n)
         \/ f.mod
         \/ e.clust = f.sclust
         \/ /\ With(n, {"seek"}, {"seek", "seeked", "grow", "link"}) /\ f.size = 0
            /\ IF call.pc = "seeked" THEN f.fptr > 0 ELSE f.fptr + call.left > 0
FileFits(ch, n) == PointerFits(ch, n) /\ ChainFits(ch, n) /\ SlotFits(n)
FilesFit(ch) == \A n \in Names : IsOpen(n) => FileFits(ch, n)

\* A truncated file is open and changed until f_sync or f_close is done.
LooseFit == \A n \in loose :
  (IsOpen(n) /\ (file[n].mod \/ Cutting(n))) \/ With(n, {"sync", "close"}, {"done"})

\* Where each call is.
Growing(f) ==
  /\ call.cl = 0 => f.fptr = 0 /\ f.sclust = 0 /\ call.pc = "grow"
  /\ call.cl # 0 => f.clust = call.cl /\ call.cl \in Clusters
Phase(op, f, pc) ==
  /\ op = "none" => call = Idle
  /\ op = "open" =>
       /\ pc \in {"free", "emptied", "seek", "seeked", "done"}
       /\ pc \in {"free", "emptied"} =>
            /\ ~IsOpen(call.n) /\ call.slot \in Slots /\ vol.dir[call.slot] = Entry(call.n, 0, 0)
       /\ pc \in {"seek", "seeked"} => IsOpen(call.n)
       /\ pc = "seek" => call.left > 0 /\ f.fptr % BCS = 0 /\ f.fptr + call.left <= f.size
  /\ op = "read" =>
       /\ pc \in {"next", "sector", "done"} /\ IsOpen(call.n)
       /\ f.fptr + call.left <= f.size
       /\ pc # "done" => call.left > 0
       /\ pc = "next" => f.fptr % BCS = 0
  /\ op = "write" =>
       /\ pc \in {"next", "sector", "grow", "link", "done"} /\ IsOpen(call.n)
       /\ pc # "done" => call.left > 0
       /\ pc = "next" => f.fptr % BCS = 0
       /\ pc \in {"grow", "link"} => Growing(f) /\ f.fptr % BCS = 0 /\ (call.cl # 0 => f.fptr > 0)
       /\ pc = "done" => f.mod
  /\ op = "seek" =>
       /\ pc \in {"seek", "seeked", "grow", "link", "done"} /\ IsOpen(call.n)
       /\ pc \in {"seek", "grow", "link"} => call.left > 0 /\ f.fptr % BCS = 0
       /\ pc = "seek" /\ "WRITE" \notin f.mode => f.fptr + call.left <= f.size
       /\ pc \in {"grow", "link"} =>
            Growing(f) /\ "WRITE" \in f.mode /\ (call.cl # 0 => call.left > BCS)
  /\ op = "truncate" =>
       /\ pc \in {"free", "cut", "done"} /\ IsOpen(call.n)
       /\ pc = "done" => f.mod
  /\ op \in {"sync", "close"} =>
       /\ pc \in {"entry", "window", "info", "done"}
       /\ pc # "done" => IsOpen(call.n)
       /\ pc = "entry" => f.mod
       /\ pc \in {"window", "info"} => vol.dir[f.slot] = Entry(call.n, f.sclust, f.size)
  /\ op = "unlink" => pc \in {"free", "window", "info", "done"} /\ ~IsOpen(call.n)
  /\ op = "rename" =>
       /\ pc \in {"remove", "window", "info", "done"} /\ ~IsOpen(call.n) /\ ~IsOpen(call.m)
       /\ pc = "remove" =>
            /\ call.slot \in Slots /\ IsFile(call.slot) /\ vol.dir[call.slot].name = call.n
            /\ \E j \in Slots \ {call.slot} : IsFile(j) /\ vol.dir[j].name = call.m
            /\ DirOK(DirLeft)
  /\ pc = "link" => call.new \in Clusters /\ fs.free # 0 /\ vol.fat[call.cl] = Eoc
  /\ op \in {"none", "open", "read", "write", "seek", "truncate", "sync", "close", "unlink", "rename"}
  /\ pc = "info" => ~win.dirty
InPhase == Phase(call.op, file[call.n], call.pc)

\* Until the power fails the free count is right once it is known.
Counts ==
  failures = 0 =>
    /\ fs.free # Unknown => fs.free = Cardinality(FreeNow) + (IF call.pc = "link" THEN 1 ELSE 0)
    /\ InCall /\ call.short => FreeNow = {} /\ call.pc = "done"

\* The disk differs from what is seen through the window in the window's sector only.
Agrees ==
  /\ \A c \in Clusters : disk.fat[c] = vol.fat[c] \/ (win.dirty /\ FatSector(c) = win.sect)
  /\ \A i \in Slots : disk.dir[i] = vol.dir[i] \/ (win.dirty /\ DirSector(i) = win.sect)

\* A table and a directory are as they should be, with h[i] the chain of slot i.
FineWith(t, d, h) ==
  /\ h \in [Slots -> Seq(Clusters)]
  /\ \A i \in Slots : d[i].kind = "file" =>
       d[i].clust = Head0(h[i]) /\ d[i].size <= Room(h[i]) /\ Linked(t, h[i])
  /\ \A i, j \in Slots : d[i].kind = "file" /\ d[j].kind = "file" =>
       \A k \in 1..Len(h[i]), l \in 1..Len(h[j]) : h[i][k] = h[j][l] => i = j /\ k = l
Fine(t, d) == DirOK(d) /\ \E h : FineWith(t, d, h)

\* The disk is fine unless a truncated file is not yet synchronised, or f_rename
\* is between its two entries.
Steady ==
  /\ \A n \in loose : With(n, {"sync", "close"}, {"info", "done"})
  /\ ~Doing({"rename"}, {"window"})
DiskFine == Steady => Fine(disk.fat, disk.dir)

\* What the chains have to do with the table, the entries and the files.
ChainsFit(ch) ==
  /\ Chained(vol.fat, ch) /\ (failures = 0 => Complete(vol.fat, ch)) /\ Floating(ch)
  /\ EntriesFit(ch) /\ Unnamed(ch) /\ FilesFit(ch)
FatInv ==
  /\ Typed /\ (~Removing => DirOK(vol.dir)) /\ LooseFit /\ InPhase /\ Counts /\ Agrees /\ DiskFine
  /\ \E ch : ChainsFit(ch)

-----------------------------------------------------------------------------
(* The directory *)

\* The slots of the directory, of which there is one for every name.
LEMMA SlotsAre ==
  ASSUME NEW n \in Names
  PROVE  Slots \subseteq Nat \ {0} /\ Cardinality(Names) \in Slots /\ Cardinality(Names) \in Nat \ {0}
PROOF
<1>1. Names # {} /\ IsFiniteSet(Names) /\ Cardinality(Names) \in Nat
  BY Sizes, SizeAssumption
<1>2. Cardinality(Names) # 0
  BY <1>1, FS_EmptySet
<1> QED
  BY <1>1, <1>2 DEF Slots

\* dir_find
LEMMA SlotOfIs ==
  ASSUME NEW n \in Names, DirTyped(vol.dir), DirOK(vol.dir)
  PROVE  /\ SlotOf(n) \in {0} \cup Slots /\ StopsAt(n) \in {0} \cup Slots
         /\ SlotOf(n) # 0 => IsFile(SlotOf(n)) /\ vol.dir[SlotOf(n)].name = n
         /\ SlotOf(n) = 0 => \A i \in Slots : IsFile(i) => vol.dir[i].name # n
PROOF
<1> DEFINE T == {i \in Slots : vol.dir[i].kind = "blank" \/ (~IsFree(vol.dir[i]) /\ vol.dir[i].name = n)}
           s == Least(T)
<1>1. T \in SUBSET (Nat \ {0}) /\ T \subseteq Slots
  BY SlotsAre
<1>2. StopsAt(n) = s
  BY DEF StopsAt
<1>3. (s = 0 <=> T = {}) /\ (s # 0 => s \in T /\ \A k \in T : s <= k)
  <2> HIDE DEF T
  <2> QED
    BY <1>1, LeastIs
<1> HIDE DEF s
<1>4. CASE T = {}
  <2>1. SlotOf(n) = 0 /\ StopsAt(n) = 0
    BY <1>2, <1>3, <1>4 DEF SlotOf
  <2>2. \A i \in Slots : IsFile(i) => vol.dir[i].name # n
    BY <1>4 DEF IsFile, IsFree
  <2> QED
    BY <2>1, <2>2
<1>5. CASE T # {} /\ ~IsFree(vol.dir[s])
  <2>1. s # 0 /\ s \in T /\ s \in Slots
    BY <1>1, <1>3, <1>5
  <2>2. SlotOf(n) = s
    BY <1>2, <1>5, <2>1 DEF SlotOf
  <2>3. IsFile(s) /\ vol.dir[s].name = n
    BY <1>5, <2>1 DEF IsFile, IsFree
  <2> QED
    BY <1>2, <2>1, <2>2, <2>3
<1>6. CASE T # {} /\ IsFree(vol.dir[s])
  <2>1. s # 0 /\ s \in T /\ s \in Slots /\ \A k \in T : s <= k
    BY <1>1, <1>3, <1>6
  <2>2. SlotOf(n) = 0
    BY <1>2, <1>6 DEF SlotOf
  <2>3. vol.dir[s].kind = "blank"
    BY <1>6, <2>1
  <2>4. ASSUME NEW i \in Slots, IsFile(i), vol.dir[i].name = n PROVE FALSE
    <3>1. i \in T
      BY <2>4 DEF IsFile, IsFree
    <3>2. s <= i /\ s # i
      BY <2>1, <2>3, <2>4, <3>1 DEF IsFile
    <3>3. s < i
      BY <1>1, <2>1, <3>1, <3>2
    <3> QED
      BY <2>1, <2>3, <2>4, <3>3 DEF DirOK, BlanksLast, IsFile
  <2> QED
    BY <1>2, <2>1, <2>2, <2>4
<1> QED
  BY <1>4, <1>5, <1>6

\* dir_register takes the first entry that is free, if there is one.
LEMMA FirstFree ==
  ASSUME NEW n \in Names, DirTyped(vol.dir), \E k \in Slots : IsFree(vol.dir[k])
  PROVE  /\ FreeSlot \in Slots /\ ~IsFile(FreeSlot)
         /\ \A i \in Slots : i < FreeSlot => IsFile(i)
PROOF
<1> DEFINE T == {i \in Slots : IsFree(vol.dir[i])}
<1>1. T # {}
  OBVIOUS
<1>2. T \in SUBSET Nat /\ T \subseteq Slots /\ Slots \subseteq Nat
  BY SlotsAre
<1>3. FreeSlot = First(T)
  BY DEF FreeSlot
<1>4. First(T) \in T /\ \A k \in T : First(T) <= k
  <2> HIDE DEF T
  <2> QED
    BY <1>1, <1>2, FirstIs
<1>5. FreeSlot \in Slots /\ IsFree(vol.dir[FreeSlot])
  BY <1>3, <1>4
<1>6. ASSUME NEW i \in Slots, i < FreeSlot PROVE IsFile(i)
  <2>1. i \notin T
    BY <1>2, <1>3, <1>4, <1>5, <1>6
  <2> QED
    BY <2>1 DEF IsFile, IsFree
<1> QED
  BY <1>5, <1>6 DEF IsFile, IsFree

\* If a file has no entry then one is free, for there are as many as files.
LEMMA FreeSlotIs ==
  ASSUME NEW n \in Names, DirTyped(vol.dir), DirOK(vol.dir),
         \A i \in Slots : IsFile(i) => vol.dir[i].name # n
  PROVE  /\ FreeSlot \in Slots /\ ~IsFile(FreeSlot)
         /\ \A i \in Slots : i < FreeSlot => IsFile(i)
PROOF
<1>1. \E k \in Slots : IsFree(vol.dir[k])
  <2> SUFFICES ASSUME \A k \in Slots : ~IsFree(vol.dir[k]) PROVE FALSE
    OBVIOUS
  <2>1. \A i \in Slots : IsFile(i) /\ vol.dir[i].name \in Names \ {n}
    BY DEF IsFile, IsFree, DirTyped, EntryOk
  <2> DEFINE f == [i \in Slots |-> vol.dir[i].name]
  <2>2. f \in [Slots -> Names \ {n}]
    BY <2>1
  <2>3. IsFiniteSet(Slots) /\ Cardinality(Slots) = Cardinality(Names)
    <3>1. 1 \in Int /\ Cardinality(Names) \in Int /\ Cardinality(Names) >= 1
      BY SlotsAre
    <3>2. IsFiniteSet(1..Cardinality(Names))
          /\ Cardinality(1..Cardinality(Names))
             = (IF 1 > Cardinality(Names) THEN 0 ELSE Cardinality(Names) - 1 + 1)
      BY <3>1, FS_Interval
    <3> QED
      BY <3>1, <3>2 DEF Slots
  <2>4. IsFiniteSet(Names \ {n}) /\ Cardinality(Names \ {n}) = Cardinality(Names) - 1
    BY SizeAssumption, FS_RemoveElement
  <2>5. Cardinality(Names \ {n}) < Cardinality(Slots)
    BY <2>3, <2>4, SlotsAre
  <2>6. PICK i, j \in Slots : i # j /\ f[i] = f[j]
    <3> HIDE DEF f
    <3> QED
      BY <2>2, <2>3, <2>4, <2>5, FS_PigeonHole
  <2> QED
    BY <2>1, <2>6 DEF DirOK, Names1, IsFile
<1> QED
  BY <1>1, FirstFree

\* A directory without one of its entries, if only that one has a name twice.
LEMMA LeftIsOK ==
  ASSUME NEW d, DOMAIN d = Slots, d = [x \in Slots |-> d[x]], NEW i \in Slots, d[i].kind = "file", BlanksLast(d),
         \A j, k \in Slots \ {i} :
           d[j].kind = "file" /\ d[k].kind = "file" /\ d[j].name = d[k].name => j = k
  PROVE  DirOK([d EXCEPT ![i] = Deleted])
PROOF
<1>e. PICK e : e = [d EXCEPT ![i] = Deleted]
  OBVIOUS
<1>1. e[i].kind = "deleted" /\ \A j \in Slots \ {i} : e[j] = d[j]
  BY <1>e DEF Deleted
<1>2. Names1(e)
  BY <1>1 DEF Names1
<1>3. BlanksLast(e)
  BY <1>1 DEF BlanksLast
<1> QED
  BY <1>e, <1>2, <1>3 DEF DirOK

\* The sector a search ends in is one of those it looks at.
LEMMA LastIsSeen ==
  ASSUME NEW n \in Names, NEW i \in {0} \cup Slots
  PROVE  LastSeen(i) \in SectorsTo(i) /\ (i # 0 => DirSector(i) \in SectorsTo(i))
PROOF
<1>1. Slots \subseteq Nat \ {0} /\ Cardinality(Names) \in Slots
  BY SlotsAre
<1>2. CASE i = 0
  BY <1>1, <1>2 DEF LastSeen, SectorsTo, WayTo
<1>3. CASE i # 0
  <2>1. i \in 1..i
    BY <1>1, <1>3
  <2> QED
    BY <1>3, <2>1 DEF LastSeen, SectorsTo, WayTo
<1> QED
  BY <1>2, <1>3

-----------------------------------------------------------------------------
(* The search for a free cluster *)

\* create_chain starts its search within the table.
LEMMA SearchIs ==
  ASSUME NEW c \in {0} \cup Clusters, VolTyped(vol)
  PROVE  SearchFrom(c) \in 1..LastCluster /\ (c # 0 => Near(c) \in Clusters)
PROOF
<1>1. LastCluster \in Nat /\ LastCluster >= 2 /\ Clusters = 2..LastCluster
  BY Sizes DEF Clusters
<1>2. c \in Nat /\ (c # 0 => c \in Clusters)
  BY <1>1
<1>3. \A d \in Clusters : d \in 1..LastCluster
  BY <1>1
<1>4. 1 \in 1..LastCluster
  BY <1>1
<1>5. SearchFrom(c) \in 1..LastCluster
  BY <1>2, <1>3, <1>4 DEF SearchFrom
<1>6. ASSUME c # 0 PROVE Near(c) \in Clusters
  BY <1>1, <1>2, <1>6 DEF Near
<1> QED
  BY <1>5, <1>6

\* It looks at each cluster once.
LEMMA BeforeIs ==
  ASSUME NEW c \in {0} \cup Clusters, VolTyped(vol), NEW d \in Clusters
  PROVE  Before(c, d) \in 0..(NFree - 1)
PROOF
<1>1. SearchFrom(c) \in Int /\ d \in Int /\ NFree \in Nat \ {0}
  BY SearchIs, Numbers, Sizes
<1> DEFINE a == d - SearchFrom(c) - 1
<1>2. a \in Int
  BY <1>1
<1>3. Before(c, d) = a % NFree
  BY DEF Before
<1> HIDE DEF a
<1>4. a % NFree \in 0..(NFree - 1)
  BY <1>1, <1>2, Division
<1> QED
  BY <1>3, <1>4

\* What it takes is free.
LEMMA NearestIs ==
  ASSUME NEW c \in {0} \cup Clusters, VolTyped(vol), FreeNow # {}
  PROVE  Nearest(c) \in Clusters /\ vol.fat[Nearest(c)] = 0
PROOF
<1> DEFINE T == {Before(c, d) : d \in FreeNow}
<1>1. \A d \in FreeNow : d \in Clusters /\ Before(c, d) \in Nat
  BY BeforeIs, Sizes DEF FreeNow
<1>2. T \in SUBSET Nat /\ T # {}
  BY <1>1
<1>3. PICK m \in T : \A k \in T : m <= k
  <2> HIDE DEF T
  <2> QED
    BY <1>2, LeastNumber
<1>4. \E d \in FreeNow : \A e \in FreeNow : Before(c, d) <= Before(c, e)
  BY <1>3
<1>5. Nearest(c) \in FreeNow
  BY <1>4 DEF Nearest
<1> QED
  BY <1>5 DEF FreeNow

\* The last cluster it looks at is one of the volume.
LEMMA FarthestIs ==
  ASSUME NEW c \in {0} \cup Clusters, VolTyped(vol)
  PROVE  Farthest(c) \in Clusters
PROOF
<1> DEFINE s == SearchFrom(c)
           d == IF s = 1 THEN LastCluster ELSE s
<1>1. s \in 1..LastCluster /\ LastCluster \in Nat /\ LastCluster >= 2 /\ NFree = LastCluster - 1
  BY SearchIs, Sizes
<1>2. d \in Clusters
  BY <1>1 DEF Clusters
<1>3. Before(c, d) = NFree - 1
  <2>1. d - s - 1 = (IF s = 1 THEN NFree - 1 ELSE -1) /\ NFree \in Nat \ {0}
    BY <1>1
  <2>2. -1 = NFree * (-1) + (NFree - 1) /\ NFree - 1 = NFree * 0 + (NFree - 1)
        /\ NFree - 1 \in 0..(NFree - 1) /\ -1 \in Int /\ 0 \in Int
    BY <2>1
  <2>3. (NFree * (-1) + (NFree - 1)) % NFree = NFree - 1 /\ (NFree * 0 + (NFree - 1)) % NFree = NFree - 1
    BY <2>1, <2>2, Quotient
  <2>4. (d - s - 1) % NFree = NFree - 1
    BY <2>1, <2>2, <2>3
  <2> QED
    BY <2>4 DEF Before
<1>4. \E e \in Clusters : Before(c, e) = NFree - 1
  BY <1>2, <1>3
<1> QED
  BY <1>4 DEF Farthest

\* The sector of the cluster it takes is among those it looks at.
LEMMA SeenLast ==
  ASSUME NEW c \in {0} \cup Clusters, VolTyped(vol), NEW d \in Clusters
  PROVE  FatSector(d) \in SeenTo(c, d)
PROOF
<1>1. Before(c, d) <= Before(c, d)
  BY BeforeIs, Sizes
<1> QED
  BY <1>1 DEF SeenTo

-----------------------------------------------------------------------------
(* The window *)

WindowFits ==
  /\ DiskTyped(disk) /\ VolTyped(vol) /\ Agrees
  /\ DOMAIN win = {"sect", "dirty"} /\ win.dirty \in BOOLEAN
\* A disk is as it is seen through the window.
AsSeen(d) == (\A c \in Clusters : d.fat[c] = vol.fat[c]) /\ (\A i \in Slots : d.dir[i] = vol.dir[i])

\* A disk the window is written to agrees with what is seen.
LEMMA WrittenIs ==
  ASSUME WindowFits
  PROVE  /\ DiskTyped(Written)
         /\ win.dirty => AsSeen(Written)
         /\ ~win.dirty => AsSeen(disk)
PROOF
<1> DEFINE F == [c \in Clusters |-> IF FatSector(c) = win.sect THEN vol.fat[c] ELSE disk.fat[c]]
           D == [i \in Slots |-> IF DirSector(i) = win.sect THEN vol.dir[i] ELSE disk.dir[i]]
<1>1. DOMAIN disk = {"fat", "dir", "info"} /\ Written = [disk EXCEPT !.fat = F, !.dir = D]
  BY DEF WindowFits, DiskTyped, Written
<1>2. F \in Tables
  BY DEF WindowFits, DiskTyped, VolTyped, Tables
<1>3. DirTyped(D)
  BY DEF WindowFits, DiskTyped, VolTyped, DirTyped
<1>4. ~win.dirty => AsSeen(disk)
  BY DEF WindowFits, Agrees, AsSeen
<1>5. win.dirty => (\A c \in Clusters : F[c] = vol.fat[c]) /\ (\A i \in Slots : D[i] = vol.dir[i])
  BY DEF WindowFits, Agrees
<1> HIDE DEF F, D
<1>6. Written.fat = F /\ Written.dir = D /\ Written.info = disk.info /\ DOMAIN Written = {"fat", "dir", "info"}
  BY <1>1
<1>7. DiskTyped(Written)
  BY <1>2, <1>3, <1>6 DEF WindowFits, DiskTyped
<1> QED
  BY <1>4, <1>5, <1>6, <1>7 DEF AsSeen

\* move_window keeps the window and the disk in agreement: a changed sector is
\* written before another one is read.
LEMMA WindowKeeps ==
  ASSUME WindowFits, NEW S, NEW s \in S, NEW changed \in BOOLEAN, Window(S, s, changed),
         VolTyped(vol'),
         \A c \in Clusters : vol'.fat[c] = vol.fat[c] \/ (changed /\ FatSector(c) = s),
         \A i \in Slots : vol'.dir[i] = vol.dir[i] \/ (changed /\ DirSector(i) = s)
  PROVE  WindowFits' /\ (disk' = disk \/ AsSeen(disk'))
PROOF
<1> DEFINE moves == ~(S \subseteq {win.sect})
<1>1. /\ disk' = IF moves /\ win.dirty THEN Written ELSE disk
      /\ win' = [sect |-> s, dirty |-> changed \/ (win.dirty /\ ~moves)]
  BY DEF Window
<1>2. win.dirty \in BOOLEAN /\ DiskTyped(disk) /\ VolTyped(vol) /\ Agrees
  BY DEF WindowFits
<1>3. ~moves => s = win.sect
  OBVIOUS
<1>4. moves \in BOOLEAN
  OBVIOUS
<1> HIDE DEF moves
<1>5. win'.sect = s /\ win'.dirty = (changed \/ (win.dirty /\ ~moves)) /\ DOMAIN win' = {"sect", "dirty"}
      /\ win'.dirty \in BOOLEAN
  BY <1>1, <1>2, <1>4
<1>6. CASE moves /\ win.dirty
  <2>1. disk' = Written /\ AsSeen(disk') /\ DiskTyped(disk')
    BY <1>1, <1>6, WrittenIs
  <2>2. Agrees'
    BY <1>5, <2>1 DEF Agrees, AsSeen
  <2> QED
    BY <1>5, <2>1, <2>2 DEF WindowFits
<1>7. CASE moves /\ ~win.dirty
  <2>1. disk' = disk /\ AsSeen(disk')
    BY <1>1, <1>7, WrittenIs
  <2>2. Agrees'
    BY <1>5, <2>1 DEF Agrees, AsSeen
  <2> QED
    BY <1>2, <1>5, <2>1, <2>2 DEF WindowFits
<1>8. CASE ~moves
  <2>1. disk' = disk /\ s = win.sect /\ win'.dirty = (changed \/ win.dirty)
    BY <1>1, <1>3, <1>5, <1>8
  <2>2. Agrees'
    BY <1>2, <1>5, <2>1 DEF Agrees
  <2> QED
    BY <1>2, <1>5, <2>1, <2>2 DEF WindowFits
<1> QED
  BY <1>6, <1>7, <1>8

\* So does a step that only reads through the window,
LEMMA SeesKeeps ==
  ASSUME WindowFits, NEW S, NEW s \in S, Sees(S, s)
  PROVE  WindowFits' /\ (disk' = disk \/ AsSeen(disk')) /\ vol' = vol
PROOF
<1>1. Window(S, s, FALSE) /\ vol' = vol
  BY DEF Sees
<1>2. VolTyped(vol')
  BY <1>1 DEF WindowFits
<1>3. (\A c \in Clusters : vol'.fat[c] = vol.fat[c]) /\ (\A i \in Slots : vol'.dir[i] = vol.dir[i])
  BY <1>1
<1> QED
  BY <1>1, <1>2, <1>3, WindowKeeps

\* one that does not use it,
LEMMA SeesNothingKeeps ==
  ASSUME WindowFits, SeesNothing
  PROVE  WindowFits' /\ disk' = disk /\ vol' = vol
BY DEF SeesNothing, WindowFits, Agrees

\* one that reads an entry of the table,
LEMMA SeesFatKeeps ==
  ASSUME WindowFits, NEW c, SeesFat(c)
  PROVE  WindowFits' /\ (disk' = disk \/ AsSeen(disk')) /\ vol' = vol
PROOF
<1>1. CASE c \in Clusters
  <2>1. Sees({FatSector(c)}, FatSector(c))
    BY <1>1 DEF SeesFat
  <2> QED
    BY <2>1, SeesKeeps
<1>2. CASE c \notin Clusters
  BY <1>2, SeesNothingKeeps DEF SeesFat
<1> QED
  BY <1>1, <1>2

\* one that writes an entry of the table,
LEMMA PutFatKeeps ==
  ASSUME WindowFits, NEW S, NEW c \in Clusters, NEW x \in Links, PutFat(S, c, x)
  PROVE  /\ WindowFits' /\ (disk' = disk \/ AsSeen(disk'))
         /\ vol'.fat = [vol.fat EXCEPT ![c] = x] /\ vol'.dir = vol.dir
PROOF
<1>1. Window(S \cup {FatSector(c)}, FatSector(c), TRUE) /\ vol' = [vol EXCEPT !.fat[c] = x]
  BY DEF PutFat
<1>2. vol.fat \in Tables /\ DOMAIN vol = {"fat", "dir"} /\ DirTyped(vol.dir)
  BY DEF WindowFits, VolTyped
<1>3. vol'.fat = [vol.fat EXCEPT ![c] = x] /\ vol'.dir = vol.dir /\ DOMAIN vol' = {"fat", "dir"}
  BY <1>1, <1>2
<1>4. vol'.fat \in Tables
  BY <1>2, <1>3 DEF Tables
<1>5. VolTyped(vol')
  BY <1>2, <1>3, <1>4 DEF VolTyped
<1>6. \A d \in Clusters : vol'.fat[d] = vol.fat[d] \/ (TRUE /\ FatSector(d) = FatSector(c))
  BY <1>2, <1>3 DEF Tables
<1>7. \A i \in Slots : vol'.dir[i] = vol.dir[i]
  BY <1>3
<1>8. FatSector(c) \in S \cup {FatSector(c)}
  OBVIOUS
<1>9. WindowFits' /\ (disk' = disk \/ AsSeen(disk'))
  BY <1>1, <1>5, <1>6, <1>7, <1>8, WindowKeeps
<1> QED
  BY <1>3, <1>9

\* and one that writes an entry of the directory.
LEMMA PutDirKeeps ==
  ASSUME WindowFits, NEW S, NEW i \in Slots, NEW e, EntryOk(e), PutDir(S, i, e)
  PROVE  /\ WindowFits' /\ (disk' = disk \/ AsSeen(disk'))
         /\ vol'.fat = vol.fat /\ vol'.dir[i] = e /\ \A j \in Slots \ {i} : vol'.dir[j] = vol.dir[j]
PROOF
<1>1. Window(S \cup {DirSector(i)}, DirSector(i), TRUE) /\ vol' = [vol EXCEPT !.dir[i] = e]
  BY DEF PutDir
<1>2. vol.fat \in Tables /\ DOMAIN vol = {"fat", "dir"} /\ DirTyped(vol.dir)
  BY DEF WindowFits, VolTyped
<1>3. vol'.dir = [vol.dir EXCEPT ![i] = e] /\ vol'.fat = vol.fat /\ DOMAIN vol' = {"fat", "dir"}
  BY <1>1, <1>2
<1>4. vol'.dir[i] = e /\ \A j \in Slots \ {i} : vol'.dir[j] = vol.dir[j]
  BY <1>2, <1>3 DEF DirTyped
<1>5. DirTyped(vol'.dir)
  BY <1>2, <1>3, <1>4 DEF DirTyped
<1>6. VolTyped(vol')
  BY <1>2, <1>3, <1>5 DEF VolTyped
<1>7. \A j \in Slots : vol'.dir[j] = vol.dir[j] \/ (TRUE /\ DirSector(j) = DirSector(i))
  BY <1>4
<1>8. \A c \in Clusters : vol'.fat[c] = vol.fat[c]
  BY <1>3
<1>9. DirSector(i) \in S \cup {DirSector(i)}
  OBVIOUS
<1>10. WindowFits' /\ (disk' = disk \/ AsSeen(disk'))
  BY <1>1, <1>6, <1>7, <1>8, <1>9, WindowKeeps
<1> QED
  BY <1>3, <1>4, <1>10

-----------------------------------------------------------------------------
(* What is on the disk is fine *)

\* Every entry seen through the window is one of its file.
Settled == (\A n \in Names : ~Loose(n)) /\ ~Doing({"rename"}, {"remove"})

\* How many units a chain has room for.
LEMMA RoomIs ==
  ASSUME NEW s \in Seq(Clusters)
  PROVE  Room(s) \in Nat /\ (s = <<>> => Room(s) = 0) /\ (s # <<>> => Room(s) >= BCS)
         /\ \A r \in Seq(Clusters) : Len(r) = Len(s) + 1 => Room(r) = Room(s) + BCS
PROOF
<1>1. Len(s) \in Nat /\ (s = <<>> => Len(s) = 0) /\ (s # <<>> => Len(s) >= 1) /\ BCS \in Nat \ {0}
  BY HeadOf, Sizes
<1>2. \A a \in Nat, b \in Nat : a * b \in Nat /\ (a >= 1 => a * b >= b) /\ (a + 1) * b = a * b + b /\ 0 * b = 0
  <2>1. ASSUME NEW a \in Nat, NEW b \in Nat PROVE a * b \in Nat /\ (a + 1) * b = a * b + b /\ 0 * b = 0
    OBVIOUS
  <2>2. ASSUME NEW a \in Nat, NEW b \in Nat, a >= 1 PROVE a * b >= b
    <3>1. a - 1 \in Nat /\ (a - 1) + 1 = a
      BY <2>2
    <3>2. (a - 1) * b \in Nat /\ ((a - 1) + 1) * b = (a - 1) * b + b
      BY <2>1, <3>1
    <3> DEFINE m == (a - 1) * b
               q == a * b
    <3>3. m \in Nat /\ q = m + b
      BY <3>1, <3>2
    <3> HIDE DEF m, q
    <3>4. q >= b
      BY <3>3
    <3> QED
      BY <3>4 DEF q
  <2> QED
    BY <2>1, <2>2
<1> DEFINE l == Len(s)
<1>3. l * BCS \in Nat /\ (l >= 1 => l * BCS >= BCS) /\ (l + 1) * BCS = l * BCS + BCS /\ 0 * BCS = 0
  BY <1>1, <1>2
<1> QED
  BY <1>1, <1>3 DEF Room

\* What is seen is fine when no file is loose and no entry excused.
LEMMA VolFine ==
  ASSUME NEW ch, ChainsFit(ch), VolTyped(vol), DirOK(vol.dir), Settled
  PROVE  Fine(vol.fat, vol.dir)
PROOF
<1> DEFINE h == [i \in Slots |-> IF IsFile(i) /\ vol.dir[i].clust # 0 THEN ch[vol.dir[i].name] ELSE <<>>]
<1>1. ch \in Chainings /\ (\A o \in Owners : Linked(vol.fat, ch[o])) /\ Distinct(ch)
  BY DEF ChainsFit, Chained
<1>2. \A i \in Slots : IsFile(i) => vol.dir[i].name \in Names /\ vol.dir[i].size \in Nat
  BY DEF VolTyped, DirTyped, EntryOk, IsFile
<1>3. \A n \in Names : n \in Owners /\ ch[n] \in Seq(Clusters)
  BY <1>1 DEF Owners, Chainings
<1>4. <<>> \in Seq(Clusters) /\ Len(<<>>) = 0
  OBVIOUS
<1>5. h \in [Slots -> Seq(Clusters)]
  BY <1>2, <1>3, <1>4
<1>6. ASSUME NEW i \in Slots, IsFile(i)
      PROVE  vol.dir[i].clust = Head0(h[i]) /\ vol.dir[i].size <= Room(h[i]) /\ Linked(vol.fat, h[i])
  <2> DEFINE e == vol.dir[i]
             s == ch[e.name]
  <2>1. EntryFits(ch, i)
    BY <1>6 DEF ChainsFit, EntriesFit, Settled, Excused
  <2>2. e.name \in Names /\ ~Loose(e.name) /\ e.size \in Nat
    BY <1>2, <1>6 DEF Settled
  <2>3. s \in Seq(Clusters) /\ (Head0(s) = 0 <=> s = <<>>) /\ (s = <<>> => Room(s) = 0) /\ Linked(vol.fat, s)
    BY <1>1, <1>3, <2>2, HeadOf, RoomIs
  <2>4. /\ e.clust # 0 => e.clust = Head0(s) /\ e.size <= Room(s)
        /\ e.clust = 0 => e.size = 0
    <3>1. CASE IsOpen(e.name)
      BY <2>1, <2>2, <3>1 DEF EntryFits
    <3>2. CASE ~IsOpen(e.name)
      <4>1. e.clust = Head0(s) /\ e.size <= Room(s)
        BY <2>1, <3>2 DEF EntryFits
      <4> HIDE DEF e, s
      <4> QED
        BY <4>1, <2>2, <2>3
    <3> QED
      BY <3>1, <3>2
  <2>5. CASE e.clust # 0
    BY <1>6, <2>3, <2>4, <2>5
  <2>6. CASE e.clust = 0
    <3>1. h[i] = <<>>
      BY <2>6
    <3>2. \A k \in 1..Len(<<>>) : FALSE
      OBVIOUS
    <3>3. Linked(vol.fat, <<>>)
      BY <3>2, Zenon DEF Linked
    <3>4. Room(<<>>) = 0
      BY <1>4, RoomIs
    <3>5. Head0(<<>>) = 0
      BY DEF Head0
    <3> QED
      BY <2>4, <2>6, <3>1, <3>3, <3>4, <3>5, <1>2, <1>6
  <2> QED
    BY <2>5, <2>6
<1>7. ASSUME NEW i \in Slots, NEW j \in Slots, IsFile(i), IsFile(j),
             NEW k \in 1..Len(h[i]), NEW l \in 1..Len(h[j]), h[i][k] = h[j][l]
      PROVE  i = j /\ k = l
  <2>1. h[i] = ch[vol.dir[i].name] /\ h[j] = ch[vol.dir[j].name]
    BY <1>4, <1>7
  <2>2. vol.dir[i].name \in Owners /\ vol.dir[j].name \in Owners
    BY <1>2, <1>3, <1>7
  <2> HIDE DEF h
  <2>3. vol.dir[i].name = vol.dir[j].name /\ k = l
    BY <1>1, <1>7, <2>1, <2>2 DEF Distinct
  <2> QED
    BY <1>7, <2>3 DEF DirOK, Names1, IsFile
<1> HIDE DEF h
<1>8. FineWith(vol.fat, vol.dir, h)
  BY <1>5, <1>6, <1>7 DEF FineWith, IsFile
<1> QED
  BY <1>8 DEF Fine

\* Then a disk that agrees with it is fine too.
LEMMA FineCarries ==
  ASSUME NEW d, AsSeen(d), Fine(vol.fat, vol.dir)
  PROVE  Fine(d.fat, d.dir)
PROOF
<1>1. (\A c \in Clusters : d.fat[c] = vol.fat[c]) /\ (\A i \in Slots : d.dir[i] = vol.dir[i])
  BY DEF AsSeen
<1>2. DirOK(d.dir)
  BY <1>1 DEF Fine, DirOK, Names1, BlanksLast
<1>3. PICK h : FineWith(vol.fat, vol.dir, h)
  BY DEF Fine
<1>4. \A i \in Slots : \A k \in 1..Len(h[i]) : h[i][k] \in Clusters
  BY <1>3 DEF FineWith
<1>5. \A i \in Slots : Linked(vol.fat, h[i]) => Linked(d.fat, h[i])
  BY <1>1, <1>4 DEF Linked
<1>6. FineWith(d.fat, d.dir, h)
  BY <1>1, <1>3, <1>5 DEF FineWith
<1> QED
  BY <1>2, <1>6 DEF Fine

\* A step that writes the window when what is seen is fine leaves a fine disk.
LEMMA DiskStaysFine ==
  ASSUME DiskFine, NEW ch, ChainsFit(ch), VolTyped(vol), DirOK(vol.dir),
         Steady' => (disk' = disk /\ Steady) \/ (AsSeen(disk') /\ Settled)
  PROVE  DiskFine'
PROOF
<1> SUFFICES ASSUME Steady' PROVE Fine(disk'.fat, disk'.dir)
  BY DEF DiskFine
<1>1. CASE disk' = disk /\ Steady
  BY <1>1 DEF DiskFine
<1>2. CASE AsSeen(disk') /\ Settled
  BY <1>2, VolFine, FineCarries
<1> QED
  BY <1>1, <1>2

\* At most steps the window is all that moves.
LEMMA StaysFine ==
  ASSUME DiskFine, NEW ch, ChainsFit(ch), VolTyped(vol), DirOK(vol.dir), loose \subseteq Names,
         disk' = disk \/ AsSeen(disk'), Steady' => Steady /\ ~Doing({"rename"}, {"remove"})
  PROVE  DiskFine'
PROOF
<1>1. Steady /\ ~Doing({"rename"}, {"remove"}) => Settled
  BY DEF Steady, Settled, Loose, With, Doing
<1> QED
  BY <1>1, DiskStaysFine

-----------------------------------------------------------------------------
(* What a step leaves alone *)

\* The call, if there is one, is with file n, before the step and after it.
On(n) == InCall => call.n = n
LooseFits(n) == (IsOpen(n) /\ (file[n].mod \/ Cutting(n))) \/ With(n, {"sync", "close"}, {"done"})

\* A write is not cut short, or no cluster is free.
StaysShort ==
  InCall' /\ call'.short =>
    \/ InCall /\ call.short /\ call.pc # "done"
    \/ failures = 0 => FreeNow = {} /\ call'.pc = "done"

\* A file that a call is not about stays as it fits.
LEMMA OthersFit ==
  ASSUME NEW ch, NEW ch2, NEW n \in Names, NEW m \in Names, m # n, FileFits(ch, m),
         On(n), On(n)', file'[m] = file[m], ch2[m] = ch[m],
         vol'.dir[file[m].slot] = vol.dir[file[m].slot]
  PROVE  FileFits(ch2, m)'
PROOF
<1>1. \A ops, pcs : "none" \notin ops => ~With(m, ops, pcs) /\ ~With(m, ops, pcs)'
  BY DEF On, InCall, With, Doing
<1>2. ~Ahead(m) /\ ~Ahead(m)' /\ ~Seeking(m) /\ ~Seeking(m)' /\ ~Cutting(m) /\ ~Cutting(m)'
  BY <1>1 DEF Ahead, Seeking, Cutting
<1>3. ~With(m, {"write"}, {"next", "sector", "grow", "link"})
      /\ ~With(m, {"seek"}, {"seek", "seeked", "grow", "link"})
  BY <1>1
<1>4. PointerFits(ch2, m)'
  BY <1>2 DEF FileFits, PointerFits
<1>5. ChainFits(ch2, m)'
  BY <1>2 DEF FileFits, ChainFits
<1>6. SlotFits(m)'
  BY <1>2, <1>3 DEF FileFits, SlotFits
<1> QED
  BY <1>4, <1>5, <1>6 DEF FileFits

\* An entry stays as it fits when its file and its chain stay.
LEMMA EntryStays ==
  ASSUME NEW ch, NEW ch2, NEW i, EntryFits(ch, i), vol'.dir[i] = vol.dir[i],
         NEW n, n = vol.dir[i].name, ch2[n] = ch[n],
         IsOpen(n)' <=> IsOpen(n), Loose(n) => Loose(n)'
  PROVE  EntryFits(ch2, i)'
PROOF
<1>1. vol'.dir[i].name = n
  OBVIOUS
<1>2. vol.dir[i].name = n
  OBVIOUS
<1> QED
  BY <1>1, <1>2 DEF EntryFits, IsOpen, Loose, With

\* Whether another file is loose does not depend on the call.
LEMMA LooseOthers ==
  ASSUME NEW n \in Names, NEW m \in Names, m # n, On(n), On(n)', loose' = loose
  PROVE  (Loose(m) <=> m \in loose) /\ (Loose(m)' <=> m \in loose)
BY DEF Loose, With, Doing, On, InCall

\* The entries fit after a step with one file, if that file's entry does.
LEMMA EntriesStay ==
  ASSUME NEW ch, NEW ch2, NEW n \in Names, VolTyped(vol), EntriesFit(ch), Unnamed(ch),
         ~Removing, ~Removing', vol'.dir = vol.dir, loose' = loose, On(n), On(n)',
         \A m \in Names \ {n} : file'[m] = file[m] /\ ch2[m] = ch[m],
         \A i \in Slots : IsFile(i) /\ vol.dir[i].name = n => EntryFits(ch2, i)',
         (\A i \in Slots : IsFile(i) => vol.dir[i].name # n) => ch2[n] = <<>>
  PROVE  EntriesFit(ch2)' /\ Unnamed(ch2)'
PROOF
<1>1. \A i \in Slots : ~Excused(i) /\ ~Excused(i)' /\ (IsFile(i)' <=> IsFile(i))
  BY DEF Excused, Removing, IsFile
<1>2. ASSUME NEW i \in Slots, IsFile(i) PROVE EntryFits(ch2, i)'
  <2> DEFINE m == vol.dir[i].name
  <2>1. CASE m = n
    BY <1>2, <2>1
  <2>2. CASE m # n
    <3>1. m \in Names /\ EntryFits(ch, i)
      BY <1>1, <1>2 DEF EntriesFit, VolTyped, DirTyped, EntryOk, IsFile
    <3>2. (IsOpen(m)' <=> IsOpen(m)) /\ (Loose(m) => Loose(m)') /\ ch2[m] = ch[m]
      BY <2>2, <3>1, LooseOthers DEF IsOpen
    <3>3. EntryFits(ch2, i)'
      BY <3>1, <3>2, EntryStays
    <3> QED
      BY <3>3
  <2> QED
    BY <2>1, <2>2
<1>3. EntriesFit(ch2)'
  BY <1>1, <1>2 DEF EntriesFit
<1>4. ASSUME NEW m \in Names, \A i \in Slots : IsFile(i)' /\ vol'.dir[i].name = m => Excused(i)'
      PROVE  ch2[m] = <<>>
  <2>1. \A i \in Slots : IsFile(i) => vol.dir[i].name # m
    BY <1>1, <1>4
  <2>2. CASE m = n
    BY <2>1, <2>2
  <2>3. CASE m # n
    BY <2>1, <2>3 DEF Unnamed
  <2> QED
    BY <2>2, <2>3
<1> QED
  BY <1>3, <1>4 DEF Unnamed

\* What is said of the loose files holds after a step with one file.
LEMMA LooseStays ==
  ASSUME LooseFit, NEW n \in Names, On(n), On(n)', loose' = loose, loose \subseteq Names,
         \A m \in Names \ {n} : file'[m] = file[m],
         n \in loose => LooseFits(n)'
  PROVE  LooseFit'
PROOF
<1> SUFFICES ASSUME NEW m \in loose PROVE LooseFits(m)'
  BY DEF LooseFit, LooseFits
<1>1. CASE m # n
  <2>1. m \in Names /\ LooseFits(m)
    BY DEF LooseFit, LooseFits
  <2>2. ~Cutting(m) /\ ~With(m, {"sync", "close"}, {"done"})
    BY <1>1 DEF On, InCall, With, Doing, Cutting
  <2>3. IsOpen(m) /\ file[m].mod
    BY <2>1, <2>2 DEF LooseFits
  <2> QED
    BY <1>1, <2>1, <2>3 DEF LooseFits, IsOpen
<1>2. CASE m = n
  BY <1>2
<1> QED
  BY <1>1, <1>2

\* The free count stays right when the table and the count do not change.
LEMMA CountsStay ==
  ASSUME Counts, vol'.fat = vol.fat, fs'.free = fs.free, failures' = failures,
         call.pc # "link", call'.pc # "link",
         StaysShort
  PROVE  Counts'
PROOF
<1>1. FreeNow' = FreeNow
  BY DEF FreeNow
<1> QED
  BY <1>1 DEF Counts, StaysShort

\* Only f_sync, f_close and f_rename make a disk steady.
LEMMA SteadyStays ==
  ASSUME loose' = loose, call.op \notin {"sync", "close", "rename"},
         call'.op \notin {"sync", "close", "rename"}
  PROVE  Steady' => Steady
BY DEF Steady, With, Doing

\* A step that touches neither chains nor entries, and opens and closes nothing.
LEMMA QuietChains ==
  ASSUME VolTyped(vol), NEW ch, ChainsFit(ch), NEW n \in Names, On(n), On(n)',
         vol' = vol, failures' = failures, loose' = loose,
         {call.pc, call'.pc} \cap {"free", "link"} = {}, ~Removing, ~Removing',
         \A m \in Names \ {n} : file'[m] = file[m],
         IsOpen(n)' <=> IsOpen(n), Loose(n) => Loose(n)',
         IsOpen(n) => FileFits(ch, n)'
  PROVE  ChainsFit(ch)'
PROOF
<1>1. /\ Chained(vol.fat, ch) /\ (failures = 0 => Complete(vol.fat, ch)) /\ Floating(ch)
      /\ EntriesFit(ch) /\ Unnamed(ch) /\ FilesFit(ch)
  BY DEF ChainsFit
<1>2. Chained(vol.fat, ch)' /\ (failures = 0 => Complete(vol.fat, ch))' /\ Floating(ch)'
  BY <1>1 DEF Floating
<1>3. \A i \in Slots : IsFile(i) /\ vol.dir[i].name = n => EntryFits(ch, i)'
  <2> SUFFICES ASSUME NEW i \in Slots, IsFile(i), vol.dir[i].name = n PROVE EntryFits(ch, i)'
    OBVIOUS
  <2>1. EntryFits(ch, i)
    BY <1>1 DEF EntriesFit, Excused, Removing
  <2> QED
    BY <2>1, EntryStays
<1>4. (\A i \in Slots : IsFile(i) => vol.dir[i].name # n) => ch[n] = <<>>
  BY <1>1 DEF Unnamed
<1>5. EntriesFit(ch)' /\ Unnamed(ch)'
  BY <1>1, <1>3, <1>4, EntriesStay
<1>6. ASSUME NEW m \in Names, IsOpen(m)' PROVE FileFits(ch, m)'
  <2>1. CASE m = n
    BY <1>6, <2>1
  <2>2. CASE m # n
    <3>1. FileFits(ch, m)
      BY <1>1, <1>6, <2>2 DEF FilesFit, IsOpen
    <3> QED
      BY <2>2, <3>1, OthersFit
  <2> QED
    BY <2>1, <2>2
<1>7. FilesFit(ch)'
  BY <1>6 DEF FilesFit
<1> QED
  BY <1>2, <1>5, <1>7 DEF ChainsFit

\* A step that changes the FIL of one file and neither table nor directory keeps
\* the invariant if what it leaves in the FIL fits.
LEMMA QuietKeeps ==
  ASSUME FatInv, NEW n \in Names, On(n), On(n)',
         vol' = vol, failures' = failures, loose' = loose, fs'.free = fs.free,
         WindowFits', disk' = disk \/ AsSeen(disk'), Steady' => Steady,
         {call.pc, call'.pc} \cap {"free", "link"} = {}, ~Removing, ~Removing',
         StaysShort,
         \A m \in Names \ {n} : file'[m] = file[m],
         IsOpen(n)' <=> IsOpen(n), Loose(n) => Loose(n)',
         IsOpen(n) => \A ch : ChainsFit(ch) => FileFits(ch, n)',
         n \in loose => LooseFits(n)', Typed', InPhase'
  PROVE  FatInv'
PROOF
<1>1. /\ Typed /\ DirOK(vol.dir) /\ LooseFit /\ InPhase /\ Counts /\ Agrees /\ DiskFine
      /\ VolTyped(vol) /\ loose \subseteq Names
  BY DEF FatInv, Typed
<1>2. PICK ch : ChainsFit(ch)
  BY DEF FatInv
<1>3. ChainsFit(ch)'
  BY <1>1, <1>2, QuietChains
<1>4. LooseFit'
  BY <1>1, LooseStays
<1>5. Counts'
  BY <1>1, CountsStay
<1>6. DiskFine'
  BY <1>1, <1>2, StaysFine DEF Removing
<1>7. Agrees' /\ DirOK(vol.dir)'
  BY <1>1 DEF WindowFits
<1> QED
  BY <1>3, <1>4, <1>5, <1>6, <1>7 DEF FatInv

-----------------------------------------------------------------------------
(* A file and its chain *)

\* The first unit is in the first cluster.
LEMMA AtZero == AtCluster(0) = 1
PROOF
<1>1. 0 = BCS * 0 + 0 /\ 0 \in 0..(BCS - 1) /\ BCS \in Nat \ {0} /\ 0 \in Int
  BY Sizes
<1>2. (BCS * 0 + 0) \div BCS = 0
  BY <1>1, Quotient
<1> QED
  BY <1>1, <1>2 DEF AtCluster

\* The link of a cluster of a chain.
LEMMA StepOn ==
  ASSUME NEW t, NEW s \in Seq(Clusters), Linked(t, s), NEW c, NEW i, InCluster(s, c, i)
  PROVE  /\ c \in Clusters /\ i \in Nat \ {0} /\ Len(s) \in Nat /\ i <= Len(s)
         /\ t[c] \in Clusters \cup {Eoc} /\ (t[c] = Eoc <=> i = Len(s))
         /\ i # Len(s) => InCluster(s, t[c], i + 1) /\ t[c] \in Clusters
PROOF
<1>1. i \in 1..Len(s) /\ c = s[i] /\ Len(s) \in Nat
  BY DEF InCluster
<1>2. t[c] = After(s, i)
  BY <1>1 DEF Linked
<1>3. CASE i = Len(s)
  <2>1. After(s, i) = Eoc
    BY <1>3 DEF After
  <2> QED
    BY <1>1, <1>2, <1>3, <2>1
<1>4. CASE i # Len(s)
  <2>1. After(s, i) = s[i + 1] /\ i + 1 \in 1..Len(s) /\ s[i + 1] \in Clusters
    BY <1>1, <1>4 DEF After
  <2>2. t[c] \in Clusters /\ t[c] # Eoc /\ InCluster(s, t[c], i + 1)
    BY <1>2, <2>1, Numbers DEF InCluster
  <2> QED
    BY <1>1, <1>4, <2>2
<1> QED
  BY <1>3, <1>4

\* From a cluster boundary the pointer goes on to the next cluster, if it is in the file.
LEMMA NextCluster ==
  ASSUME NEW t, NEW s \in Seq(Clusters), Linked(t, s), NEW p \in Nat, p % BCS = 0, p < Room(s),
         NEW c, p > 0 => InCluster(s, c, ToCluster(p))
  PROVE  /\ p = 0 => InCluster(s, Head0(s), AtCluster(p)) /\ Head0(s) \in Clusters
         /\ p # 0 => InCluster(s, t[c], AtCluster(p)) /\ t[c] \in Clusters /\ c \in Clusters
PROOF
<1>1. AtCluster(p) \in 1..Len(s) /\ Len(s) \in Nat
  <2>1. Len(s) \in Nat /\ Room(s) \in Nat
    BY RoomIs
  <2>2. p <= Room(s)
    BY <2>1
  <2>3. p <= Len(s) * BCS /\ p < Len(s) * BCS
    BY <2>2 DEF Room
  <2> QED
    BY <2>1, <2>3, InChain
<1>2. CASE p = 0
  <2>1. AtCluster(p) = 1 /\ s # <<>>
    BY <1>1, <1>2, AtZero
  <2>2. Head0(s) = s[1] /\ s[1] \in Clusters
    BY <2>1, HeadOf
  <2> QED
    BY <1>1, <1>2, <2>1, <2>2 DEF InCluster
<1>3. CASE p # 0
  <2>1. ToCluster(p) \in Nat /\ AtCluster(p) = ToCluster(p) + 1 /\ InCluster(s, c, ToCluster(p))
    BY <1>3, Places
  <2>2. ToCluster(p) # Len(s)
    BY <1>1, <2>1
  <2> QED
    BY <1>3, <2>1, <2>2, StepOn
<1> QED
  BY <1>2, <1>3

\* A part of a sector is read or written.
LEMMA InPartIs ==
  ASSUME NEW f, f.fptr \in Nat, NEW len \in Nat \ {0}
  PROVE  InPart(f, len) \in 1..len /\ InPart(f, len) <= SS - (f.fptr % SS) /\ InPart(f, len) \in Nat
PROOF
<1>1. f.fptr % SS \in 0..(SS - 1) /\ SS \in Nat \ {0}
  BY InSector, Sizes
<1> DEFINE r == f.fptr % SS
<1> HIDE DEF r
<1>2. InPart(f, len) = IF len < SS - r THEN len ELSE SS - r
  BY DEF InPart, r
<1>3. r \in 0..(SS - 1) /\ SS \in Nat
  BY <1>1 DEF r
<1>4. InPart(f, len) \in 1..len /\ InPart(f, len) <= SS - r
  BY <1>2, <1>3
<1> QED
  BY <1>4 DEF r

\* Where a transfer of k units leaves the pointer and the call.
LEMMA Transferred ==
  ASSUME NEW s \in Seq(Clusters), NEW c, NEW p \in Nat, InCluster(s, c, AtCluster(p)),
         NEW left \in Nat, NEW k \in 1..left, k <= SS - (p % SS)
  PROVE  LET pc == PcAt(p + k, left - k)
         IN  /\ p + k \in Nat /\ p + k > 0 /\ left - k \in Nat /\ p + k <= Room(s)
             /\ InCluster(s, c, ToCluster(p + k))
             /\ pc \in {"done", "next", "sector"}
             /\ pc = "sector" => InCluster(s, c, AtCluster(p + k))
             /\ pc = "next" => (p + k) % BCS = 0
             /\ pc = "done" <=> left - k = 0
PROOF
<1>1. k \in Nat /\ k > 0 /\ p + k \in Nat /\ p + k > 0 /\ left - k \in Nat
  OBVIOUS
<1>2. (p % BCS) + k <= BCS
  BY <1>1, InSector
<1>3. Len(s) \in Nat /\ AtCluster(p) \in 1..Len(s) /\ AtCluster(p) <= Len(s)
  BY DEF InCluster
<1>4. ToCluster(p + k) = AtCluster(p) /\ p + k <= Len(s) * BCS
  BY <1>1, <1>2, <1>3, Onwards
<1>5. (p + k) % BCS # 0 => ToCluster(p + k) = AtCluster(p + k)
  BY <1>1, Places
<1> DEFINE pc == PcAt(p + k, left - k)
<1>6. /\ left - k = 0 => pc = "done"
      /\ left - k > 0 /\ (p + k) % BCS = 0 => pc = "next"
      /\ left - k > 0 /\ (p + k) % BCS # 0 => pc = "sector"
  <2> DEFINE l == left - k
             b == ((p + k) % BCS = 0)
  <2>1. l \in Nat /\ pc = (CASE l = 0 -> "done" [] l > 0 /\ b -> "next" [] OTHER -> "sector")
    BY <1>1 DEF PcAt
  <2> HIDE DEF l, b, pc
  <2>2. (l = 0 => pc = "done") /\ (l > 0 /\ b => pc = "next") /\ (l > 0 /\ ~b => pc = "sector")
    BY <2>1
  <2> QED
    BY <2>2 DEF l, b
<1>7. left - k = 0 \/ left - k > 0
  BY <1>1
<1> HIDE DEF pc
<1>8. /\ pc \in {"done", "next", "sector"} /\ (pc = "done" <=> left - k = 0)
      /\ (pc = "sector" => (p + k) % BCS # 0) /\ (pc = "next" => (p + k) % BCS = 0)
  BY <1>6, <1>7
<1>9. p + k <= Room(s) /\ InCluster(s, c, ToCluster(p + k))
  BY <1>4 DEF Room
<1>10. pc = "sector" => InCluster(s, c, AtCluster(p + k))
  BY <1>5, <1>8, <1>9
<1> QED
  BY <1>1, <1>8, <1>9, <1>10 DEF pc

-----------------------------------------------------------------------------
(* What the invariant says of the file and the call *)

\* The parts of the invariant that most steps look at.
LEMMA Parts ==
  ASSUME FatInv
  PROVE  /\ WindowFits /\ VolTyped(vol) /\ FsTyped /\ FilesTyped /\ loose \subseteq Names
         /\ failures \in Nat /\ (InCall => IsCall(call)) /\ (~InCall => call = Idle)
         /\ DirTyped(vol.dir) /\ (~Removing => DirOK(vol.dir)) /\ vol.fat \in Tables
         /\ Phase(call.op, file[call.n], call.pc)
         /\ \A n \in Names : IsOpen(n) <=> IsFil(file[n])
         /\ \A n \in Names : ~IsOpen(n) => file[n] = NoFile
PROOF
<1>1. /\ Typed /\ (~Removing => DirOK(vol.dir)) /\ InPhase /\ Agrees
  BY DEF FatInv
<1>2. WindowFits /\ VolTyped(vol) /\ FsTyped /\ FilesTyped /\ loose \subseteq Names /\ failures \in Nat
      /\ (call = Idle \/ IsCall(call)) /\ DirTyped(vol.dir) /\ vol.fat \in Tables
  BY <1>1 DEF Typed, WindowFits, VolTyped
<1>3. Phase(call.op, file[call.n], call.pc)
  BY <1>1 DEF InPhase
<1>4. ~InCall => call = Idle
  BY <1>3 DEF Phase, InCall
<1>5. InCall => IsCall(call)
  BY <1>2 DEF InCall, Idle
<1>6. ASSUME NEW n \in Names PROVE (IsOpen(n) <=> IsFil(file[n])) /\ (~IsOpen(n) => file[n] = NoFile)
  BY <1>2 DEF FilesTyped, IsOpen, IsFil, NoFile
<1> QED
  BY <1>1, <1>2, <1>3, <1>4, <1>5, <1>6

\* The types after a step, from those of its parts.
LEMMA TypedNext ==
  ASSUME WindowFits', FsTyped', FilesTyped', call' = Idle \/ IsCall(call'), loose' \subseteq Names,
         failures' \in Nat
  PROVE  Typed'
BY DEF Typed, WindowFits

\* A step that sets the FIL of one file leaves the others.
LEMMA FileSet ==
  ASSUME FilesTyped, NEW n \in Names, NEW f, IsFil(f) \/ f = NoFile, SetFile(n, f)
  PROVE  FilesTyped' /\ file'[n] = f /\ \A m \in Names \ {n} : file'[m] = file[m]
BY DEF FilesTyped, SetFile

\* What the invariant says of one file and its chain.
LEMMA OfFile ==
  ASSUME NEW ch, ChainsFit(ch), NEW n \in Names
  PROVE  /\ ch[n] \in Seq(Clusters) /\ Linked(vol.fat, ch[n])
         /\ IsOpen(n) => FileFits(ch, n)
BY DEF ChainsFit, Chained, Chainings, Owners, FilesFit

-----------------------------------------------------------------------------
(* Reading and writing *)

\* The step that writes the sector buffer back.
LEMMA FlushBufferKeeps ==
  ASSUME FatInv, FlushBuffer
  PROVE  FatInv'
PROOF
<1>1. /\ WindowFits /\ FsTyped /\ FilesTyped /\ loose \subseteq Names /\ failures \in Nat
      /\ (InCall => IsCall(call)) /\ Phase(call.op, file[call.n], call.pc)
      /\ \A m \in Names : IsOpen(m) <=> IsFil(file[m])
  BY Parts
<1>2. /\ call.pc \in {"sector", "seeked"} /\ SetFile(call.n, [file[call.n] EXCEPT !.dirty = FALSE])
      /\ UNCHANGED <<disk, vol, win, fs, call, loose, failures>>
  BY DEF FlushBuffer
<1>3. PICK n \in Names : n = call.n /\ InCall /\ IsOpen(n) /\ call.op \in {"read", "write", "seek", "open"}
  BY <1>1, <1>2 DEF Phase, IsCall, InCall, Idle
<1> DEFINE f == file[n]
           g == [f EXCEPT !.dirty = FALSE]
<1>4. IsFil(f)
  BY <1>1, <1>3
<1>5. /\ IsFil(g) /\ g.open = TRUE /\ g.slot = f.slot /\ g.sclust = f.sclust /\ g.size = f.size
      /\ g.fptr = f.fptr /\ g.clust = f.clust /\ g.mod = f.mod /\ g.mode = f.mode
  BY <1>4 DEF IsFil, FilFields
<1>6. SetFile(n, g)
  BY <1>2, <1>3
<1> HIDE DEF g
<1>7. FilesTyped' /\ file'[n] = g /\ \A m \in Names \ {n} : file'[m] = file[m]
  BY <1>1, <1>3, <1>5, <1>6, FileSet
<1> HIDE DEF f
<1>8. WindowFits' /\ disk' = disk /\ vol' = vol
  BY <1>1, <1>2, SeesNothingKeeps DEF SeesNothing
<1>9. IsOpen(n)' /\ IsOpen(n)
  BY <1>3, <1>5, <1>7 DEF IsOpen
<1>10. ASSUME NEW ch, ChainsFit(ch) PROVE FileFits(ch, n)'
  <2>1. FileFits(ch, n)
    BY <1>3, <1>10, OfFile
  <2>2. PointerFits(ch, n)'
    BY <1>2, <1>5, <1>7, <2>1 DEF FileFits, PointerFits, Ahead, Seeking, With, Doing, f
  <2>3. ChainFits(ch, n)'
    BY <1>2, <1>5, <1>7, <2>1 DEF FileFits, ChainFits, Cutting, With, Doing, f
  <2>4. SlotFits(n)'
    BY <1>2, <1>5, <1>7, <2>1 DEF FileFits, SlotFits, Cutting, With, Doing, f
  <2> QED
    BY <2>2, <2>3, <2>4 DEF FileFits
<1>11. n \in loose => LooseFits(n)'
  BY <1>2, <1>3, <1>5, <1>7, <1>9 DEF FatInv, LooseFit, LooseFits, Cutting, With, Doing, f
<1>12. Typed'
  BY <1>1, <1>2, <1>3, <1>7, <1>8, TypedNext DEF FsTyped
<1>13. InPhase'
  BY <1>1, <1>2, <1>3, <1>5, <1>7, <1>9 DEF InPhase, Phase, f, Growing
<1>14. On(n) /\ On(n)' /\ ~Removing /\ ~Removing' /\ (Loose(n) => Loose(n)')
  BY <1>2, <1>3 DEF On, Removing, Doing, Loose, With
<1>15. Steady' => Steady
  BY <1>2 DEF Steady, With, Doing
<1>16. {call.pc, call'.pc} \cap {"free", "link"} = {} /\ StaysShort
  BY <1>2, <1>3 DEF InCall, StaysShort
<1> QED
  BY <1>2, <1>3, <1>7, <1>8, <1>9, <1>10, <1>11, <1>12, <1>13, <1>14, <1>15, <1>16, QuietKeeps

\* The calls that move the pointer of a file, or nothing yet.
Moving == {"open", "read", "write", "seek", "truncate"}

\* A step of such a call with one open file.
LEMMA FileStep ==
  ASSUME FatInv, NEW n \in Names, On(n), IsOpen(n), call.op \in Moving \cup {"none"},
         NEW c, call' = c, IsCall(c), c.n = n, c.op \in Moving,
         NEW g, IsFil(g), FilesTyped', file'[n] = g, \A m \in Names \ {n} : file'[m] = file[m],
         fs' = fs, loose' = loose, failures' = failures, vol' = vol,
         WindowFits', disk' = disk \/ AsSeen(disk'),
         {call.pc, c.pc} \cap {"free", "link"} = {},
         c.short => \/ InCall /\ call.short /\ call.pc # "done"
                    \/ failures = 0 => FreeNow = {} /\ c.pc = "done",
         n \in loose => g.mod \/ Cutting(n)', InPhase',
         \A ch : ChainsFit(ch) => FileFits(ch, n)'
  PROVE  FatInv'
PROOF
<1>1. WindowFits /\ FsTyped /\ FilesTyped /\ loose \subseteq Names /\ failures \in Nat
  BY Parts
<1>2. FilesTyped' /\ file'[n] = g /\ \A m \in Names \ {n} : file'[m] = file[m]
  OBVIOUS
<1>3. IsOpen(n)' /\ InCall' /\ On(n)'
  BY <1>2 DEF IsOpen, IsFil, IsCall, InCall, On
<1>4. Typed'
  BY <1>1, <1>2, TypedNext DEF FsTyped
<1>5. ~Removing /\ ~Removing' /\ (Loose(n) => Loose(n)') /\ (Steady' => Steady)
  BY DEF Removing, Doing, Loose, With, Steady, Moving
<1>6. n \in loose => LooseFits(n)'
  BY <1>2, <1>3 DEF LooseFits
<1>7. {call.pc, call'.pc} \cap {"free", "link"} = {}
      /\ StaysShort
  BY DEF StaysShort
<1> QED
  BY <1>2, <1>3, <1>4, <1>5, <1>6, <1>7, QuietKeeps

-----------------------------------------------------------------------------
(* Reading and writing *)

\* f_read on a cluster boundary: it never meets the end of the chain.
LEMMA NextToReadKeeps ==
  ASSUME FatInv, NextToRead
  PROVE  FatInv'
PROOF
<1>1. /\ WindowFits /\ VolTyped(vol) /\ IsCall(call) /\ Phase(call.op, file[call.n], call.pc)
      /\ \A m \in Names : IsOpen(m) <=> IsFil(file[m])
  BY Parts DEF NextToRead, At, InCall
<1>2. /\ call.op = "read" /\ call.pc = "next"
      /\ UNCHANGED <<fs, loose, failures>>
  BY DEF NextToRead, At
<1>3. PICK n \in Names : n = call.n /\ InCall /\ IsOpen(n)
  BY <1>1, <1>2 DEF Phase, IsCall, InCall
<1> DEFINE f == file[n]
           x == IF f.fptr = 0 THEN f.sclust ELSE get_fat(f.clust)
<1>4. IsFil(f) /\ call.left \in Nat \ {0} /\ f.fptr + call.left <= f.size /\ f.fptr % BCS = 0
  BY <1>1, <1>2, <1>3 DEF Phase, IsCall
<1>5. ASSUME NEW ch, ChainsFit(ch)
      PROVE  x \in Clusters /\ InCluster(ch[n], x, AtCluster(f.fptr))
  <2>1. ch[n] \in Seq(Clusters) /\ Linked(vol.fat, ch[n]) /\ FileFits(ch, n)
    BY <1>3, <1>5, OfFile
  <2>2. f.sclust = Head0(ch[n]) /\ f.size <= Room(ch[n])
        /\ (f.fptr > 0 => InCluster(ch[n], f.clust, ToCluster(f.fptr)))
    BY <1>2, <2>1 DEF FileFits, PointerFits, ChainFits, Ahead, Cutting, With, Doing
  <2>3. f.fptr < Room(ch[n]) /\ f.fptr \in Nat
    <3>1. Room(ch[n]) \in Nat /\ f.fptr \in Nat /\ f.size \in Nat
      BY <2>1, <1>4, RoomIs DEF IsFil
    <3> HIDE DEF f
    <3> QED
      BY <3>1, <2>2, <1>4
  <2> HIDE DEF f
  <2>4. /\ f.fptr = 0 => InCluster(ch[n], Head0(ch[n]), AtCluster(f.fptr)) /\ Head0(ch[n]) \in Clusters
        /\ f.fptr # 0 => InCluster(ch[n], vol.fat[f.clust], AtCluster(f.fptr))
                         /\ vol.fat[f.clust] \in Clusters /\ f.clust \in Clusters
    BY <2>1, <2>2, <2>3, <1>4, NextCluster
  <2> QED
    BY <2>2, <2>4 DEF get_fat
<1>6. x \in Clusters
  BY <1>5 DEF FatInv
<1> DEFINE g == [f EXCEPT !.clust = x]
           c == [call EXCEPT !.pc = "sector"]
<1>7. SetFile(n, g) /\ call' = c /\ (IF f.fptr = 0 THEN SeesNothing ELSE SeesFat(f.clust))
  BY <1>3, <1>6 DEF NextToRead, Goes
<1>8. /\ IsFil(g) /\ g.open = TRUE /\ g.slot = f.slot /\ g.sclust = f.sclust /\ g.size = f.size
      /\ g.fptr = f.fptr /\ g.clust = x /\ g.mod = f.mod
  BY <1>4, <1>6 DEF IsFil, FilFields
<1>9. IsCall(c) /\ c.n = n /\ c.op = "read" /\ c.pc = "sector" /\ c.short = call.short /\ c.left = call.left
  BY <1>1, <1>2, <1>3 DEF IsCall, CallFields
<1>10. WindowFits' /\ (disk' = disk \/ AsSeen(disk')) /\ vol' = vol
  BY <1>1, <1>7, SeesNothingKeeps, SeesFatKeeps
<1>11. file'[n] = g /\ FilesTyped' /\ \A m \in Names \ {n} : file'[m] = file[m]
  BY <1>7, <1>8, FileSet, Parts
<1> HIDE DEF g, c, x
<1>12. ASSUME NEW ch, ChainsFit(ch) PROVE FileFits(ch, n)'
  <2>1. FileFits(ch, n) /\ InCluster(ch[n], x, AtCluster(f.fptr))
    BY <1>3, <1>5, <1>12, OfFile
  <2>2. PointerFits(ch, n)'
    BY <1>2, <1>3, <1>7, <1>8, <1>9, <1>11, <2>1 DEF FileFits, PointerFits, Ahead, Seeking, With, Doing
  <2>3. ChainFits(ch, n)'
    BY <1>2, <1>3, <1>7, <1>8, <1>9, <1>11, <2>1 DEF FileFits, ChainFits, Cutting, With, Doing
  <2>4. SlotFits(n)'
    BY <1>2, <1>3, <1>7, <1>8, <1>9, <1>10, <1>11, <2>1 DEF FileFits, SlotFits, Cutting, With, Doing
  <2> QED
    BY <2>2, <2>3, <2>4 DEF FileFits
<1>13. n \in loose => g.mod \/ Cutting(n)'
  BY <1>2, <1>8 DEF FatInv, LooseFit, Cutting, With, Doing
<1>14. InPhase'
  BY <1>3, <1>4, <1>7, <1>8, <1>9, <1>11 DEF InPhase, Phase, IsOpen
<1>15. On(n) /\ {call.pc, c.pc} \cap {"free", "link"} = {}
       /\ call.op \in Moving /\ c.op \in Moving /\ (c.short => InCall /\ call.short /\ call.pc # "done")
  BY <1>2, <1>3, <1>9 DEF On, Moving
<1> QED
  BY <1>2, <1>3, <1>7, <1>8, <1>9, <1>10, <1>11, <1>12, <1>13, <1>14, <1>15, FileStep

\* A transfer of k units in the sector of the pointer; the buffer may change, and
\* what is written may make the file longer.
LEMMA TransferKeeps ==
  ASSUME FatInv, call.op \in {"read", "write"}, call.pc = "sector",
         NEW n \in Names, n = call.n, IsOpen(n), NEW k, k = InPart(file[n], call.left),
         NEW g, SetFile(n, g), IsFil(g), g.slot = file[n].slot, g.sclust = file[n].sclust,
         g.clust = file[n].clust, g.fptr = file[n].fptr + k,
         call.op = "read" => g.size = file[n].size /\ g.mod = file[n].mod,
         call.op = "write" =>
           /\ g.size = IF file[n].fptr + k > file[n].size THEN file[n].fptr + k ELSE file[n].size
           /\ g.mod = (file[n].mod \/ call.left - k = 0),
         NEW c, call' = c, DOMAIN c = CallFields,
         \A x \in CallFields \ {"left", "pc", "at", "got"} : c[x] = call[x],
         c.left = call.left - k, c.pc = PcAt(file[n].fptr + k, call.left - k),
         UNCHANGED <<disk, vol, win, fs, loose, failures>>
  PROVE  FatInv'
PROOF
<1> DEFINE f == file[n]
<1>1. /\ WindowFits /\ VolTyped(vol) /\ IsCall(call) /\ Phase(call.op, f, call.pc)
      /\ IsFil(f) /\ InCall
  BY Parts DEF InCall
<1>2. /\ call.left \in Nat \ {0} /\ f.fptr \in Nat /\ f.size \in Nat
      /\ call.op = "read" => f.fptr + call.left <= f.size
  BY <1>1 DEF Phase, IsCall, IsFil
<1>3. k \in 1..call.left /\ k <= SS - (f.fptr % SS)
  BY <1>2, InPartIs
<1>4. ASSUME NEW ch, ChainsFit(ch)
      PROVE  /\ ch[n] \in Seq(Clusters) /\ FileFits(ch, n) /\ InCluster(ch[n], f.clust, AtCluster(f.fptr))
             /\ g.fptr > 0 /\ g.fptr <= Room(ch[n]) /\ c.left \in Nat
             /\ InCluster(ch[n], f.clust, ToCluster(g.fptr))
             /\ c.pc \in {"done", "next", "sector"}
             /\ c.pc = "sector" => InCluster(ch[n], f.clust, AtCluster(g.fptr))
             /\ c.pc = "next" => g.fptr % BCS = 0
             /\ c.pc = "done" <=> c.left = 0
  <2>1. ch[n] \in Seq(Clusters) /\ FileFits(ch, n)
    BY <1>4, OfFile
  <2>2. InCluster(ch[n], f.clust, AtCluster(f.fptr))
    BY <1>1, <2>1 DEF FileFits, PointerFits, Ahead, With, Doing
  <2> DEFINE s == ch[n]
             a == f.clust
             p == f.fptr
             left == call.left
  <2>3. s \in Seq(Clusters) /\ InCluster(s, a, AtCluster(p)) /\ p \in Nat /\ left \in Nat
        /\ k \in 1..left /\ k <= SS - (p % SS)
    BY <1>2, <1>3, <2>1, <2>2
  <2>4. g.fptr = p + k /\ c.left = left - k /\ c.pc = PcAt(p + k, left - k) /\ a = f.clust
    OBVIOUS
  <2> HIDE DEF s, a, p, left, f
  <2>5. /\ p + k > 0 /\ left - k \in Nat /\ p + k <= Room(s)
        /\ InCluster(s, a, ToCluster(p + k))
        /\ PcAt(p + k, left - k) \in {"done", "next", "sector"}
        /\ PcAt(p + k, left - k) = "sector" => InCluster(s, a, AtCluster(p + k))
        /\ PcAt(p + k, left - k) = "next" => (p + k) % BCS = 0
        /\ PcAt(p + k, left - k) = "done" <=> left - k = 0
    BY <2>3, Transferred
  <2>6. /\ g.fptr > 0 /\ g.fptr <= Room(s) /\ c.left \in Nat
        /\ InCluster(s, f.clust, ToCluster(g.fptr))
        /\ c.pc \in {"done", "next", "sector"}
        /\ c.pc = "sector" => InCluster(s, f.clust, AtCluster(g.fptr))
        /\ c.pc = "next" => g.fptr % BCS = 0
        /\ c.pc = "done" <=> c.left = 0
    BY <2>4, <2>5
  <2> QED
    BY <2>1, <2>2, <2>6 DEF s
<1>5. /\ g.fptr \in Nat /\ g.size \in Nat /\ g.fptr <= g.size
      /\ call.op = "read" => g.fptr + c.left <= g.size
      /\ g.size = f.size \/ g.size = g.fptr
  <2> DEFINE p == f.fptr
             left == call.left
             size == f.size
  <2>1. /\ p \in Nat /\ left \in Nat /\ size \in Nat /\ k \in 1..left /\ g.fptr = p + k
        /\ c.left = left - k
        /\ call.op = "read" => p + left <= size /\ g.size = size
        /\ call.op = "write" => g.size = IF p + k > size THEN p + k ELSE size
    BY <1>2, <1>3
  <2>2. g.size = size => g.size = f.size
    OBVIOUS
  <2> HIDE DEF p, left, size
  <2> QED
    BY <2>1, <2>2
<1> HIDE DEF f
<1>6. file'[n] = g /\ FilesTyped' /\ \A m \in Names \ {n} : file'[m] = file[m]
  BY FileSet, Parts
<1>7. PICK ch0 : ChainsFit(ch0)
  BY DEF FatInv
<1>8. /\ c.pc \in {"done", "next", "sector"} /\ c.left \in Nat /\ (c.pc = "done" <=> c.left = 0)
      /\ (c.pc = "next" => g.fptr % BCS = 0)
  BY <1>4, <1>7
<1>9. IsCall(c) /\ c.n = n /\ c.op = call.op /\ c.short = call.short
  BY <1>1, <1>8 DEF IsCall, CallFields
<1>10. ASSUME NEW ch, ChainsFit(ch) PROVE FileFits(ch, n)'
  <2>1. PointerFits(ch, n)'
    BY <1>4, <1>5, <1>6, <1>8, <1>9, <1>10 DEF PointerFits, Ahead, Seeking, With, Doing, f
  <2>2. ChainFits(ch, n)'
    BY <1>4, <1>5, <1>6, <1>9, <1>10 DEF FileFits, ChainFits, Cutting, With, Doing, f
  <2>3. SlotFits(n) /\ file'[n].slot = f.slot /\ file'[n].sclust = f.sclust /\ vol' = vol
    BY <1>4, <1>6, <1>10 DEF FileFits, f
  <2>4. call'.op = call.op /\ call'.n = n /\ call'.pc = c.pc /\ file'[n].mod = g.mod
    BY <1>6, <1>9
  <2>5. ASSUME call.op = "read" PROVE SlotFits(n)'
    <3>1. vol.dir[f.slot].kind = "file" /\ vol.dir[f.slot].name = n
          /\ (f.mod \/ vol.dir[f.slot].clust = f.sclust)
      BY <2>3, <2>5 DEF SlotFits, Cutting, With, Doing, f
    <3>2. g.mod = f.mod
      BY <2>5 DEF f
    <3> QED
      BY <1>6, <2>3, <3>1, <3>2 DEF SlotFits, f
  <2>6. ASSUME call.op = "write" PROVE SlotFits(n)'
    <3>1. vol.dir[f.slot].kind = "file" /\ vol.dir[f.slot].name = n
      BY <2>3, <2>6 DEF SlotFits, f
    <3>2. g.mod \/ With(n, {"write"}, {"next", "sector", "grow", "link"})'
      BY <1>8, <2>4, <2>6 DEF With, Doing
    <3> QED
      BY <1>6, <2>3, <3>1, <3>2 DEF SlotFits, f
  <2> QED
    BY <2>1, <2>2, <2>5, <2>6 DEF FileFits
<1>11. n \in loose => g.mod \/ Cutting(n)'
  BY DEF FatInv, LooseFit, Cutting, With, Doing
<1>12. IsOpen(n)'
  BY <1>6 DEF IsOpen, IsFil
<1>13. InPhase'
  <2>1. CASE call.op = "read"
    BY <1>1, <1>5, <1>6, <1>8, <1>9, <1>12, <2>1 DEF InPhase, Phase
  <2>2. CASE call.op = "write"
    <3>1. c.pc = "done" => g.mod = TRUE
      BY <1>8, <2>2
    <3> QED
      BY <1>1, <1>5, <1>6, <1>8, <1>9, <1>12, <2>2, <3>1 DEF InPhase, Phase
  <2> QED
    BY <2>1, <2>2
<1>14. WindowFits' /\ disk' = disk /\ vol' = vol
  BY <1>1, SeesNothingKeeps DEF SeesNothing
<1>15. On(n) /\ {call.pc, c.pc} \cap {"free", "link"} = {}
       /\ call.op \in Moving /\ c.op \in Moving /\ (c.short => InCall /\ call.short /\ call.pc # "done")
  BY <1>1, <1>8, <1>9 DEF On, Moving
<1> QED
  BY <1>1, <1>6, <1>9, <1>10, <1>11, <1>13, <1>14, <1>15, FileStep

\* A transfer is with an open file.
LEMMA InTransfer ==
  ASSUME FatInv, call.op \in {"read", "write"}
  PROVE  /\ IsCall(call) /\ \E n \in Names : n = call.n /\ IsOpen(n) /\ IsFil(file[n])
BY Parts DEF Phase, InCall, IsCall

\* f_read, one sector or a part of one.
LEMMA ReadSectorKeeps ==
  ASSUME FatInv, ReadSector
  PROVE  FatInv'
PROOF
<1>1. /\ call.op = "read" /\ call.pc = "sector" /\ UNCHANGED <<disk, vol, win, fs, loose, failures>>
  BY DEF ReadSector, At
<1>2. PICK n \in Names : n = call.n /\ IsOpen(n) /\ IsFil(file[n])
  BY <1>1, InTransfer
<1> DEFINE f == file[n]
           direct == Direct(f, call.left)
           loads == AtSector(f) /\ f.sect # Here(f)
           buf == IF ~direct /\ loads THEN data[Here(f)] ELSE f.buf
           sect == IF ~direct /\ loads THEN Here(f) ELSE f.sect
           p == f.fptr % SS
           k == InPart(f, call.left)
           units == IF direct THEN Latest(f) ELSE [u \in 1..k |-> buf[p + u]]
           g == [f EXCEPT !.fptr = f.fptr + k, !.buf = buf, !.sect = sect]
           pc == PcAt(f.fptr + k, call.left - k)
           left == call.left - k
           c == [[call EXCEPT !.left = left, !.pc = pc] EXCEPT !.at = f.fptr, !.got = units]
<1>3. SetFile(n, g) /\ call' = c
  BY <1>2 DEF ReadSector, Transfers
<1>4. IsFil(f) /\ IsCall(call)
  BY <1>1, <1>2, InTransfer
<1>5. call.left \in Nat /\ f.fptr \in Nat
  BY <1>4 DEF IsCall, IsFil
<1>6. k \in Nat
  <2>1. f.fptr % SS \in 0..(SS - 1) /\ SS \in Nat \ {0}
    BY <1>5, InSector, Sizes
  <2> HIDE DEF f
  <2> QED
    BY <1>5, <2>1 DEF InPart
<1> HIDE DEF buf, sect, units, k, pc, left
<1>7. /\ IsFil(g) /\ g.slot = f.slot /\ g.sclust = f.sclust /\ g.clust = f.clust
      /\ g.fptr = f.fptr + k /\ g.size = f.size /\ g.mod = f.mod
  BY <1>4, <1>5, <1>6 DEF IsFil, FilFields
<1>8. /\ DOMAIN c = CallFields /\ c.left = left /\ c.pc = pc
      /\ \A x \in CallFields \ {"left", "pc", "at", "got"} : c[x] = call[x]
  BY <1>4 DEF IsCall, CallFields
<1> HIDE DEF g, c
<1> QED
  BY <1>1, <1>2, <1>3, <1>7, <1>8, TransferKeeps DEF k, pc, left

\* f_write, one sector or a part of one.
LEMMA WriteSectorKeeps ==
  ASSUME FatInv, WriteSector
  PROVE  FatInv'
PROOF
<1>1. /\ call.op = "write" /\ call.pc = "sector" /\ UNCHANGED <<disk, vol, win, fs, loose, failures>>
  BY DEF WriteSector, At
<1>2. PICK n \in Names : n = call.n /\ IsOpen(n) /\ IsFil(file[n])
  BY <1>1, InTransfer
<1> DEFINE f == file[n]
           fills == AtSector(f) /\ f.sect # Here(f) /\ f.fptr < f.size
           p == f.fptr % SS
           k == InPart(f, call.left)
           new == [u \in 1..SS |-> IF u \in (p + 1)..(p + k) THEN calls
                                   ELSE IF fills THEN data[Here(f)][u] ELSE f.buf[u]]
           end == f.fptr + k
           left == call.left - k
           size == IF end > f.size THEN end ELSE f.size
           mod == f.mod \/ left = 0
           here == Here(f)
           e == [f EXCEPT !.fptr = end, !.size = size, !.mod = mod]
           pc == PcAt(end, left)
           c == [call EXCEPT !.left = left, !.pc = pc]
<1>3. call' = c /\ ( \/ SetFile(n, e) \/ SetFile(n, [e EXCEPT !.buf = new])
                     \/ SetFile(n, [e EXCEPT !.buf = new, !.sect = here, !.dirty = TRUE]))
  BY <1>2 DEF WriteSector, Transfers
<1>4. IsFil(f) /\ IsCall(call)
  BY <1>1, <1>2, InTransfer
<1>5. call.left \in Nat /\ f.fptr \in Nat /\ f.size \in Nat
  BY <1>4 DEF IsCall, IsFil
<1>6. k \in Nat
  <2>1. f.fptr % SS \in 0..(SS - 1) /\ SS \in Nat \ {0}
    BY <1>5, InSector, Sizes
  <2> HIDE DEF f
  <2> QED
    BY <1>5, <2>1 DEF InPart
<1>7. end \in Nat /\ size \in Nat /\ mod \in BOOLEAN
  BY <1>5, <1>6
<1> HIDE DEF new, here, k, pc, left, end, size, mod
<1>8. /\ DOMAIN c = CallFields /\ c.left = left /\ c.pc = pc
      /\ \A x \in CallFields \ {"left", "pc", "at", "got"} : c[x] = call[x]
  BY <1>4 DEF IsCall, CallFields
<1>9. ASSUME NEW g, g = e \/ g = [e EXCEPT !.buf = new]
                          \/ g = [e EXCEPT !.buf = new, !.sect = here, !.dirty = TRUE]
      PROVE  /\ IsFil(g) /\ g.slot = f.slot /\ g.sclust = f.sclust /\ g.clust = f.clust
             /\ g.fptr = end /\ g.size = size /\ g.mod = mod
  <2>1. CASE g = e
    BY <1>4, <1>7, <2>1 DEF IsFil, FilFields
  <2>2. CASE g = [e EXCEPT !.buf = new]
    BY <1>4, <1>7, <2>2 DEF IsFil, FilFields
  <2>3. CASE g = [e EXCEPT !.buf = new, !.sect = here, !.dirty = TRUE]
    BY <1>4, <1>7, <2>3 DEF IsFil, FilFields
  <2> QED
    BY <1>9, <2>1, <2>2, <2>3
<1> HIDE DEF e, c
<1>10. PICK g : (g = e \/ g = [e EXCEPT !.buf = new]
                   \/ g = [e EXCEPT !.buf = new, !.sect = here, !.dirty = TRUE]) /\ SetFile(n, g)
  BY <1>3
<1>11. /\ IsFil(g) /\ g.slot = f.slot /\ g.sclust = f.sclust /\ g.clust = f.clust
       /\ g.fptr = end /\ g.size = size /\ g.mod = mod
  BY <1>9, <1>10
<1>12. /\ k = InPart(file[n], call.left) /\ end = file[n].fptr + k /\ left = call.left - k
       /\ g.fptr = file[n].fptr + k /\ pc = PcAt(file[n].fptr + k, left)
       /\ g.size = (IF file[n].fptr + k > file[n].size THEN file[n].fptr + k ELSE file[n].size)
       /\ g.mod = (file[n].mod \/ call.left - k = 0)
  BY <1>11 DEF k, end, left, size, mod, pc
<1>13. call.op # "read"
  BY <1>1
<1> QED
  BY SMTT(30), <1>1, <1>2, <1>3, <1>8, <1>10, <1>11, <1>12, <1>13, TransferKeeps

-----------------------------------------------------------------------------
(* A call begins *)

\* Between two calls.
LEMMA AtRest ==
  ASSUME FatInv, ~InCall
  PROVE  /\ call.op = "none" /\ call.pc = "idle" /\ \A ops, pcs : "none" \notin ops => ~Doing(ops, pcs)
         /\ ~Removing /\ DirOK(vol.dir)
BY Parts DEF Idle, Doing, Removing

\* What a call is when it begins.
LEMMA NewCallIs ==
  ASSUME NEW n \in Names, NEW op, op # "none", NEW pc, NEW left \in Nat
  PROVE  LET c == [NewCall(op, n, pc) EXCEPT !.left = left]
         IN  /\ IsCall(c) /\ c.op = op /\ c.n = n /\ c.m = n /\ c.pc = pc /\ c.left = left
             /\ ~c.short /\ c.res = "FR_OK" /\ c.slot = 0 /\ c.cl = 0
BY DEF NewCall, IsCall, CallFields

\* A step that changes no FIL.
LEMMA SameFile ==
  ASSUME FatInv, file' = file, NEW n \in Names
  PROVE  FilesTyped' /\ file'[n] = file[n] /\ \A m \in Names \ {n} : file'[m] = file[m]
BY Parts DEF FilesTyped

\* Where a transfer goes on.
LEMMA PcAtIs ==
  ASSUME NEW p \in Nat, NEW left \in Nat
  PROVE  /\ PcAt(p, left) \in {"done", "next", "sector"}
         /\ PcAt(p, left) = "done" <=> left = 0
         /\ PcAt(p, left) = "next" => p % BCS = 0
         /\ PcAt(p, left) = "sector" => p % BCS # 0
PROOF
<1> DEFINE b == (p % BCS = 0)
           pc == PcAt(p, left)
<1>1. pc = (CASE left = 0 -> "done" [] left > 0 /\ b -> "next" [] OTHER -> "sector")
  BY DEF PcAt
<1> HIDE DEF b, pc
<1>2. left = 0 \/ left > 0
  OBVIOUS
<1>3. (left = 0 => pc = "done") /\ (left > 0 /\ b => pc = "next") /\ (left > 0 /\ ~b => pc = "sector")
  BY <1>1
<1>4. /\ pc \in {"done", "next", "sector"} /\ (pc = "done" <=> left = 0) /\ (pc = "next" => b)
      /\ (pc = "sector" => ~b)
  BY <1>2, <1>3
<1> QED
  BY <1>4 DEF b, pc

\* Between calls the pointer is in the cluster it came to.
LEMMA PointerAtRest ==
  ASSUME FatInv, ~InCall, NEW n \in Names, IsOpen(n), NEW ch, ChainsFit(ch)
  PROVE  LET f == file[n]
             e == vol.dir[f.slot]
             s == ch[n]
         IN  /\ s \in Seq(Clusters) /\ Linked(vol.fat, s) /\ FileFits(ch, n)
             /\ IsFil(f) /\ f.fptr <= f.size /\ f.size <= Room(s) /\ f.sclust = Head0(s)
             /\ f.fptr > 0 => InCluster(s, f.clust, ToCluster(f.fptr))
             /\ f.fptr > 0 /\ f.fptr % BCS # 0 => InCluster(s, f.clust, AtCluster(f.fptr))
             /\ e.kind = "file" /\ e.name = n /\ (f.mod \/ e.clust = f.sclust)
             /\ n \in loose => f.mod
PROOF
<1>1. ch[n] \in Seq(Clusters) /\ Linked(vol.fat, ch[n]) /\ FileFits(ch, n) /\ IsFil(file[n])
  BY OfFile, Parts
<1>2. ~Ahead(n) /\ ~Seeking(n) /\ ~Cutting(n) /\ \A ops, pcs : "none" \notin ops => ~With(n, ops, pcs)
  BY AtRest DEF Ahead, Seeking, Cutting, With
<1>3. file[n].fptr \in Nat
  BY <1>1 DEF IsFil
<1>4. file[n].fptr > 0 => InCluster(ch[n], file[n].clust, ToCluster(file[n].fptr))
  BY <1>1, <1>2 DEF FileFits, PointerFits
<1>5. file[n].fptr > 0 /\ file[n].fptr % BCS # 0 => ToCluster(file[n].fptr) = AtCluster(file[n].fptr)
  BY <1>3, Places
<1>6. n \in loose => file[n].mod
  BY <1>2 DEF FatInv, LooseFit
<1>7. vol.dir[file[n].slot].kind = "file" /\ vol.dir[file[n].slot].name = n
      /\ (file[n].mod \/ vol.dir[file[n].slot].clust = file[n].sclust)
  BY <1>1, <1>2 DEF FileFits, SlotFits
<1> QED
  BY <1>1, <1>2, <1>4, <1>5, <1>6, <1>7 DEF FileFits, PointerFits, ChainFits

\* A transfer begins at the pointer and, if it reads, stays within the file.
LEMMA TransferBegins ==
  ASSUME FatInv, ~InCall, NEW n \in Names, IsOpen(n), NEW op \in {"read", "write"}, NEW left \in Nat,
         op = "write" => left > 0, op = "read" => file[n].fptr + left <= file[n].size,
         call' = [NewCall(op, n, PcAt(file[n].fptr, left)) EXCEPT !.left = left],
         UNCHANGED <<disk, vol, win, fs, file, loose, failures>>
  PROVE  FatInv'
PROOF
<1> DEFINE f == file[n]
           pc == PcAt(f.fptr, left)
           c == [NewCall(op, n, pc) EXCEPT !.left = left]
<1>1. /\ WindowFits /\ IsFil(f) /\ f.fptr \in Nat /\ call.op = "none" /\ call.pc = "idle"
  BY Parts, AtRest DEF IsFil
<1>2. /\ pc \in {"done", "next", "sector"} /\ (pc = "done" <=> left = 0)
      /\ (pc = "next" => f.fptr % BCS = 0) /\ (pc = "sector" => f.fptr % BCS # 0)
  BY <1>1, PcAtIs
<1>3. call' = c /\ file' = file /\ op # "none"
  OBVIOUS
<1> HIDE DEF pc
<1>4. /\ IsCall(c) /\ c.op = op /\ c.n = n /\ c.pc = pc /\ c.left = left /\ ~c.short
  BY <1>3, NewCallIs
<1> HIDE DEF c, pc
<1>5. FilesTyped' /\ file'[n] = f /\ \A m \in Names \ {n} : file'[m] = file[m]
  BY <1>3, SameFile
<1>6. WindowFits' /\ disk' = disk /\ vol' = vol
  BY <1>1, SeesNothingKeeps DEF SeesNothing
<1>7. ASSUME NEW ch, ChainsFit(ch) PROVE FileFits(ch, n)'
  <2>1. /\ ch[n] \in Seq(Clusters) /\ FileFits(ch, n) /\ f.fptr <= f.size /\ f.size <= Room(ch[n])
        /\ f.sclust = Head0(ch[n])
        /\ f.fptr > 0 => InCluster(ch[n], f.clust, ToCluster(f.fptr))
        /\ f.fptr > 0 /\ f.fptr % BCS # 0 => InCluster(ch[n], f.clust, AtCluster(f.fptr))
        /\ vol.dir[f.slot].kind = "file" /\ vol.dir[f.slot].name = n
        /\ (f.mod \/ vol.dir[f.slot].clust = f.sclust)
    BY <1>7, PointerAtRest
  <2>2. pc = "sector" => f.fptr > 0
    <3>1. 0 % BCS = 0
      BY Sizes
    <3> HIDE DEF f
    <3> QED
      BY <1>1, <1>2, <3>1
  <2>3. f.fptr <= Room(ch[n])
    <3>1. Room(ch[n]) \in Nat /\ f.size \in Nat
      BY <1>1, <2>1, RoomIs DEF IsFil
    <3> HIDE DEF f
    <3> QED
      BY <1>1, <2>1, <3>1
  <2>4. PointerFits(ch, n)'
    BY <1>2, <1>3, <1>4, <1>5, <2>1, <2>2, <2>3 DEF PointerFits, Ahead, Seeking, With, Doing
  <2>5. ChainFits(ch, n)'
    BY <1>3, <1>4, <1>5, <2>1 DEF ChainFits, Cutting, With, Doing
  <2>6. SlotFits(n)'
    BY <1>5, <1>6, <2>1 DEF SlotFits
  <2> QED
    BY <2>4, <2>5, <2>6 DEF FileFits
<1>8. n \in loose => f.mod
  BY PointerAtRest DEF FatInv
<1>9. IsOpen(n)'
  BY <1>3 DEF IsOpen
<1>10. InPhase'
  <2>1. /\ c.pc \in {"done", "next", "sector"} /\ (c.pc = "next" => f.fptr % BCS = 0)
        /\ op = "read" => f.fptr + c.left <= f.size
        /\ op = "write" => c.pc # "done"
        /\ c.pc # "done" => c.left > 0
    BY <1>2, <1>4
  <2>2. call'.n = n /\ call'.op = op /\ file'[n] = f
    BY <1>3, <1>4, <1>5
  <2> HIDE DEF f
  <2>3. CASE op = "read"
    BY <1>3, <1>9, <2>1, <2>2, <2>3 DEF InPhase, Phase
  <2>4. CASE op = "write"
    BY <1>3, <1>9, <2>1, <2>2, <2>4 DEF InPhase, Phase
  <2> QED
    BY <2>3, <2>4
<1>11. On(n) /\ {call.pc, c.pc} \cap {"free", "link"} = {}
       /\ call.op \in Moving \cup {"none"} /\ c.op \in Moving /\ (c.short => InCall /\ call.short /\ call.pc # "done")
  BY <1>1, <1>2, <1>4 DEF On, Moving
<1> QED
  BY <1>1, <1>3, <1>4, <1>5, <1>6, <1>7, <1>8, <1>10, <1>11, FileStep

\* f_read begins.
LEMMA ReadFileKeeps ==
  ASSUME FatInv, ~InCall, NEW n \in Names, NEW len \in Lengths, ReadFile(n, len)
  PROVE  FatInv'
PROOF
<1> DEFINE f == file[n]
           remain == f.size - f.fptr
           left == IF len > remain THEN remain ELSE len
<1>1. /\ IsOpen(n) /\ call' = [NewCall("read", n, PcAt(f.fptr, left)) EXCEPT !.left = left]
      /\ UNCHANGED <<disk, vol, win, fs, file, loose, failures>>
  BY DEF ReadFile, Begins
<1>2. PICK ch : ChainsFit(ch)
  BY DEF FatInv
<1>3. IsFil(f) /\ f.fptr <= f.size
  BY <1>1, <1>2, PointerAtRest
<1>4. left \in Nat /\ f.fptr + left <= f.size
  <2>1. len \in Nat /\ f.fptr \in Nat /\ f.size \in Nat
    BY <1>3, SizeAssumption DEF IsFil
  <2> HIDE DEF f
  <2> QED
    BY <1>3, <2>1
<1> HIDE DEF left
<1> QED
  BY <1>1, <1>4, TransferBegins

\* f_write begins.
LEMMA WriteFileKeeps ==
  ASSUME FatInv, ~InCall, NEW n \in Names, NEW len \in Lengths, WriteFile(n, len)
  PROVE  FatInv'
PROOF
<1>1. /\ IsOpen(n) /\ call' = [NewCall("write", n, PcAt(file[n].fptr, len)) EXCEPT !.left = len]
      /\ UNCHANGED <<disk, vol, win, fs, file, loose, failures>>
  BY DEF WriteFile, Begins
<1>2. len \in Nat /\ len > 0
  BY SizeAssumption
<1> QED
  BY <1>1, <1>2, TransferBegins

\* The next cluster of a file that is written is looked for.
LEMMA NextToWriteKeeps ==
  ASSUME FatInv, NextToWrite
  PROVE  FatInv'
PROOF
<1>1. /\ call.op = "write" /\ call.pc = "next" /\ UNCHANGED <<disk, vol, win, fs, loose, failures>>
  BY DEF NextToWrite, At
<1>2. PICK n \in Names : n = call.n /\ IsOpen(n) /\ IsFil(file[n])
  BY <1>1, InTransfer
<1> DEFINE f == file[n]
<1>3. /\ WindowFits /\ IsCall(call) /\ InCall /\ IsFil(f) /\ Phase(call.op, f, call.pc)
  BY <1>1, <1>2, Parts DEF InCall
<1>4. f.fptr \in Nat /\ call.left \in Nat /\ call.left > 0 /\ f.fptr % BCS = 0
  BY <1>1, <1>3 DEF IsFil, IsCall, Phase
<1>5. ASSUME NEW ch, ChainsFit(ch)
      PROVE  /\ ch[n] \in Seq(Clusters) /\ FileFits(ch, n) /\ f.sclust = Head0(ch[n])
             /\ f.fptr > 0 => InCluster(ch[n], f.clust, ToCluster(f.fptr)) /\ f.clust \in Clusters
             /\ f.fptr = 0 /\ f.sclust # 0 => InCluster(ch[n], f.sclust, AtCluster(f.fptr))
  <2>1. ch[n] \in Seq(Clusters) /\ FileFits(ch, n) /\ Linked(vol.fat, ch[n])
    BY <1>2, <1>5, OfFile
  <2>2. /\ f.sclust = Head0(ch[n])
        /\ f.fptr > 0 => InCluster(ch[n], f.clust, ToCluster(f.fptr))
    BY <1>1, <2>1 DEF FileFits, PointerFits, ChainFits, Ahead, Cutting, With, Doing
  <2>3. f.fptr > 0 => f.clust \in Clusters
    BY <2>1, <2>2, StepOn
  <2>4. f.sclust # 0 => InCluster(ch[n], f.sclust, 1)
    BY <2>1, <2>2, HeadOf DEF InCluster
  <2> QED
    BY <2>1, <2>2, <2>3, <2>4, AtZero
<1>6. PICK ch0 : ChainsFit(ch0)
  BY DEF FatInv
<1>7. f.fptr > 0 => f.clust \in Clusters /\ f.clust # 0
  BY <1>5, <1>6, Numbers
<1>8. WindowFits' /\ disk' = disk /\ vol' = vol
  BY <1>1, <1>3, SeesNothingKeeps DEF SeesNothing
<1>9. CASE f.fptr = 0 /\ f.sclust # 0
  <2> DEFINE g == [f EXCEPT !.clust = f.sclust]
             c == [call EXCEPT !.pc = "sector"]
  <2>1. SetFile(n, g) /\ call' = c
    BY <1>2, <1>9 DEF NextToWrite, Goes
  <2>2. /\ IsFil(g) /\ g.slot = f.slot /\ g.sclust = f.sclust /\ g.size = f.size
        /\ g.fptr = f.fptr /\ g.clust = f.sclust /\ g.mod = f.mod
    BY <1>3 DEF IsFil, FilFields
  <2>3. IsCall(c) /\ c.n = n /\ c.op = "write" /\ c.pc = "sector" /\ c.short = call.short /\ c.left = call.left
    BY <1>1, <1>2, <1>3 DEF IsCall, CallFields
  <2>4. file'[n] = g /\ FilesTyped' /\ \A m \in Names \ {n} : file'[m] = file[m]
    BY <2>1, <2>2, FileSet, Parts
  <2> HIDE DEF g, c
  <2>5. ASSUME NEW ch, ChainsFit(ch) PROVE FileFits(ch, n)'
    <3>1. ch[n] \in Seq(Clusters) /\ FileFits(ch, n) /\ InCluster(ch[n], g.clust, AtCluster(g.fptr))
      BY <1>5, <1>9, <2>2, <2>5
    <3>2. PointerFits(ch, n)'
      BY <1>1, <1>2, <2>1, <2>2, <2>3, <2>4, <3>1 DEF FileFits, PointerFits, Ahead, Seeking, With, Doing
    <3>3. ChainFits(ch, n)'
      BY <1>1, <2>1, <2>2, <2>3, <2>4, <3>1 DEF FileFits, ChainFits, Cutting, With, Doing
    <3>4. SlotFits(n)'
      BY <1>1, <1>2, <1>8, <2>1, <2>2, <2>3, <2>4, <3>1 DEF FileFits, SlotFits, Cutting, With, Doing
    <3> QED
      BY <3>2, <3>3, <3>4 DEF FileFits
  <2>6. n \in loose => g.mod \/ Cutting(n)'
    BY <1>1, <2>2 DEF FatInv, LooseFit, Cutting, With, Doing
  <2>7. InPhase'
    BY <1>4, <2>1, <2>2, <2>3, <2>4 DEF InPhase, Phase, IsOpen, IsFil
  <2>8. On(n) /\ {call.pc, c.pc} \cap {"free", "link"} = {}
         /\ call.op \in Moving /\ c.op \in Moving /\ (c.short => InCall /\ call.short /\ call.pc # "done")
    BY <1>1, <1>2, <1>3, <2>3 DEF On, Moving
  <2> QED
    BY <1>1, <1>2, <1>8, <2>1, <2>2, <2>3, <2>4, <2>5, <2>6, <2>7, <2>8, FileStep
<1>10. CASE ~(f.fptr = 0 /\ f.sclust # 0)
  <2> DEFINE cl == IF f.fptr = 0 THEN 0 ELSE f.clust
             c == [call EXCEPT !.pc = "grow", !.cl = cl]
  <2>1. file' = file /\ call' = c
    BY <1>2, <1>10 DEF NextToWrite
  <2>2. f.sclust \in {0} \cup Clusters
    BY <1>3 DEF IsFil
  <2>3. (cl = 0 => f.fptr = 0 /\ f.sclust = 0) /\ (cl # 0 => f.clust = cl /\ cl \in Clusters /\ f.fptr > 0)
    BY <1>4, <1>7, <1>10
  <2> HIDE DEF cl
  <2>4. IsCall(c) /\ c.n = n /\ c.op = "write" /\ c.pc = "grow" /\ c.short = call.short /\ c.left = call.left
        /\ c.cl = cl
    BY <1>1, <1>2, <1>3 DEF IsCall, CallFields
  <2>5. file'[n] = f /\ FilesTyped' /\ \A m \in Names \ {n} : file'[m] = file[m]
    BY <2>1, SameFile
  <2> HIDE DEF c
  <2>6. ASSUME NEW ch, ChainsFit(ch) PROVE FileFits(ch, n)'
    <3>1. FileFits(ch, n) /\ (f.fptr > 0 => InCluster(ch[n], f.clust, ToCluster(f.fptr)))
      BY <1>5, <2>6
    <3>2. PointerFits(ch, n)'
      BY <1>1, <1>2, <2>1, <2>3, <2>4, <2>5, <3>1 DEF FileFits, PointerFits, Ahead, Seeking, With, Doing
    <3>3. ChainFits(ch, n)'
      BY <1>1, <2>1, <2>4, <2>5, <3>1 DEF FileFits, ChainFits, Cutting, With, Doing
    <3>4. SlotFits(n)'
      BY <1>1, <1>2, <1>8, <2>1, <2>4, <2>5, <3>1 DEF FileFits, SlotFits, Cutting, With, Doing
    <3> QED
      BY <3>2, <3>3, <3>4 DEF FileFits
  <2>7. n \in loose => f.mod \/ Cutting(n)'
    BY <1>1 DEF FatInv, LooseFit, Cutting, With, Doing
  <2>8. InPhase'
    BY <1>2, <1>4, <2>1, <2>3, <2>4, <2>5 DEF InPhase, Phase, IsOpen, Growing
  <2>9. On(n) /\ {call.pc, c.pc} \cap {"free", "link"} = {}
         /\ call.op \in Moving /\ c.op \in Moving /\ (c.short => InCall /\ call.short /\ call.pc # "done")
    BY <1>1, <1>2, <1>3, <2>4 DEF On, Moving
  <2> QED
    BY <1>1, <1>2, <1>3, <1>8, <2>1, <2>4, <2>5, <2>6, <2>7, <2>8, <2>9, FileStep
<1> QED
  BY <1>9, <1>10

-----------------------------------------------------------------------------
(* Seeking *)

\* The cluster after the pointer's, if there is one, a cluster further on.
LEMMA ClusterOn ==
  ASSUME NEW s \in Seq(Clusters), NEW p \in Nat, p % BCS = 0
  PROVE  /\ (p + BCS) % BCS = 0 /\ AtCluster(p + BCS) = AtCluster(p) + 1 /\ p + BCS \in Nat
         /\ ToCluster(p + BCS) = AtCluster(p)
         /\ \A d : InCluster(s, d, AtCluster(p + BCS)) => p + BCS <= Room(s)
         /\ \A d : InCluster(s, d, AtCluster(p)) => p + BCS <= Room(s)
         /\ p + BCS < Room(s) => AtCluster(p) + 1 <= Len(s)
PROOF
<1>1. BCS \in Nat /\ BCS > 0 /\ (p % BCS) + BCS <= BCS /\ p + BCS \in Nat /\ Len(s) \in Nat
  BY Sizes
<1>2. (p + BCS) % BCS = 0 /\ AtCluster(p + BCS) = AtCluster(p) + 1 /\ ToCluster(p + BCS) = AtCluster(p)
      /\ \A l \in Nat : AtCluster(p) <= l => p + BCS <= l * BCS
  BY <1>1, Onwards
<1>3. ASSUME NEW d, InCluster(s, d, AtCluster(p)) PROVE p + BCS <= Room(s)
  BY <1>1, <1>2, <1>3 DEF InCluster, Room
<1>4. AtCluster(p) \in Nat /\ AtCluster(p + BCS) \in Nat
  BY <1>1, Places
<1>5. ASSUME NEW d, InCluster(s, d, AtCluster(p + BCS)) PROVE p + BCS <= Room(s)
  <2>1. AtCluster(p) + 1 \in 1..Len(s)
    BY <1>2, <1>5 DEF InCluster
  <2>2. AtCluster(p) <= Len(s)
    BY <1>1, <1>4, <2>1
  <2> QED
    BY <1>1, <1>2, <2>2 DEF Room
<1>6. ASSUME p + BCS < Room(s) PROVE AtCluster(p) + 1 <= Len(s)
  <2>1. p + BCS < Len(s) * BCS /\ p + BCS <= Len(s) * BCS
    BY <1>1, <1>6, RoomIs DEF Room
  <2>2. AtCluster(p + BCS) \in 1..Len(s)
    BY <1>1, <2>1, InChain
  <2> QED
    BY <1>1, <1>2, <1>4, <2>2
<1> QED
  BY <1>1, <1>2, <1>3, <1>5, <1>6

\* f_lseek begins, from the pointer's cluster or from the first.
LEMMA SeekFileKeeps ==
  ASSUME FatInv, ~InCall, NEW n \in Names, NEW offset \in Offsets, SeekFile(n, offset)
  PROVE  FatInv'
PROOF
<1> DEFINE f == file[n]
           ofs == Clip(f, offset)
           here == (f.fptr - 1) \div BCS
           near == f.fptr > 0 /\ (ofs - 1) \div BCS >= here
           base == IF near THEN here * BCS ELSE 0
           pc == CASE ofs = 0 -> "seeked" [] ofs > 0 /\ ~near /\ f.sclust = 0 -> "grow" [] OTHER -> "seek"
           left == ofs - base
           clust == IF near \/ ofs = 0 THEN f.clust ELSE f.sclust
           c == [NewCall("seek", n, pc) EXCEPT !.left = left]
           g == [f EXCEPT !.fptr = base, !.clust = clust]
<1>1. /\ IsOpen(n) /\ call' = c /\ SetFile(n, g)
      /\ UNCHANGED <<disk, vol, win, fs, loose, failures>>
  BY DEF SeekFile, Begins
<1>2. ASSUME NEW ch, ChainsFit(ch)
      PROVE  /\ ch[n] \in Seq(Clusters) /\ Linked(vol.fat, ch[n]) /\ FileFits(ch, n)
             /\ IsFil(f) /\ f.fptr <= f.size /\ f.size <= Room(ch[n]) /\ f.sclust = Head0(ch[n])
             /\ f.fptr > 0 => InCluster(ch[n], f.clust, ToCluster(f.fptr))
             /\ vol.dir[f.slot].kind = "file" /\ vol.dir[f.slot].name = n
             /\ (f.mod \/ vol.dir[f.slot].clust = f.sclust)
             /\ n \in loose => f.mod
  BY <1>1, <1>2, PointerAtRest
<1>3. /\ WindowFits /\ IsFil(f) /\ f.fptr \in Nat /\ f.size \in Nat /\ f.clust \in {0} \cup Clusters
      /\ f.sclust \in {0} \cup Clusters /\ call.op = "none" /\ call.pc = "idle"
  BY <1>1, Parts, AtRest DEF IsFil
<1>4. ofs \in Nat /\ ("WRITE" \notin f.mode => ofs <= f.size)
  <2>1. offset \in Nat
    BY SizeAssumption
  <2> DEFINE o == ofs
  <2>2. o = IF offset > f.size /\ "WRITE" \notin f.mode THEN f.size ELSE offset
    BY DEF Clip
  <2> HIDE DEF o, f
  <2>3. o \in Nat /\ ("WRITE" \notin f.mode => o <= f.size)
    BY <1>3, <2>1, <2>2
  <2> QED
    BY <2>3 DEF o
<1> HIDE DEF ofs
<1>5. BCS \in Nat \ {0}
  BY Sizes
<1>6. near => /\ base \in Nat /\ base < f.fptr /\ base % BCS = 0 /\ AtCluster(base) = ToCluster(f.fptr)
              /\ ofs > base /\ ofs > 0
  <2> SUFFICES ASSUME near PROVE base \in Nat /\ base < f.fptr /\ base % BCS = 0 /\ AtCluster(base) = ToCluster(f.fptr)
                                 /\ ofs > base /\ ofs > 0
    OBVIOUS
  <2> DEFINE p == f.fptr
             b == ((p - 1) \div BCS) * BCS
  <2>1. p \in Nat \ {0} /\ (ofs - 1) \div BCS >= (p - 1) \div BCS /\ base = b
    BY <1>3
  <2>2. p = f.fptr
    OBVIOUS
  <2> HIDE DEF p
  <2>3. b \in Nat /\ b < p /\ b % BCS = 0 /\ AtCluster(b) = ToCluster(p)
        /\ \A o \in Nat : o > 0 /\ (o - 1) \div BCS >= (p - 1) \div BCS => o > b
    BY <2>1, SeekBase
  <2>4. ofs # 0
    <3> SUFFICES ASSUME ofs = 0 PROVE FALSE
      OBVIOUS
    <3> DEFINE a == -1
    <3>1. BCS * (-1) + (BCS - 1) = a /\ BCS - 1 \in 0..(BCS - 1) /\ -1 \in Int
      BY <1>5
    <3>2. (BCS * (-1) + (BCS - 1)) \div BCS = -1
      BY <1>5, <3>1, Quotient
    <3>3. a \div BCS = -1
      BY <3>1, <3>2
    <3>4. (p - 1) \div BCS \in Nat
      <4>1. p - 1 \in Nat
        BY <2>1
      <4> QED
        BY <4>1, Split
    <3> DEFINE q == (p - 1) \div BCS
    <3>5. ofs - 1 = a
      OBVIOUS
    <3>6. a \div BCS >= q
      BY <2>1, <3>5
    <3> HIDE DEF a, q
    <3>7. q \in Nat
      BY <3>4 DEF q
    <3> QED
      BY <3>3, <3>6, <3>7
  <2>5. ofs > 0
    BY <1>4, <2>4
  <2>6. ofs > b
    BY <1>4, <2>1, <2>3, <2>5
  <2> QED
    BY <2>1, <2>2, <2>3, <2>5, <2>6
<1>7. /\ base \in Nat /\ base % BCS = 0 /\ left \in Nat /\ (ofs > 0 => left > 0) /\ base + left = ofs
      /\ clust \in {0} \cup Clusters /\ (ofs = 0 => ~near /\ base = 0)
      /\ ~near => base = 0
  <2>1. 0 % BCS = 0
    BY <1>5
  <2>2. CASE near
    BY <1>3, <1>4, <1>6, <2>2
  <2>3. CASE ~near
    <3>1. base = 0
      BY <2>3
    <3>2. left = ofs
      BY <1>4, <3>1
    <3>3. clust \in {0} \cup Clusters
      BY <1>3
    <3> HIDE DEF near, base, left, clust
    <3> QED
      BY <1>4, <2>1, <2>3, <3>1, <3>2, <3>3
  <2> QED
    BY <2>2, <2>3
<1>8. /\ pc \in {"seeked", "grow", "seek"} /\ (pc = "seeked" <=> ofs = 0)
      /\ pc = "grow" => ofs > 0 /\ ~near /\ f.sclust = 0
      /\ pc = "seek" => ofs > 0 /\ (near \/ f.sclust # 0)
  <2> HIDE DEF near
  <2>1. ofs = 0 \/ ofs > 0
    BY <1>4
  <2> HIDE DEF f
  <2> QED
    BY <2>1
<1>9. /\ IsFil(g) /\ g.slot = f.slot /\ g.sclust = f.sclust /\ g.size = f.size
      /\ g.fptr = base /\ g.clust = clust /\ g.mod = f.mod /\ g.mode = f.mode
  <2> HIDE DEF base, clust
  <2> QED
    BY <1>3, <1>7 DEF IsFil, FilFields
<1> HIDE DEF pc, left
<1>10. /\ IsCall(c) /\ c.op = "seek" /\ c.n = n /\ c.pc = pc /\ c.left = left /\ ~c.short /\ c.cl = 0
  BY <1>7, NewCallIs
<1>11. file'[n] = g /\ FilesTyped' /\ \A m \in Names \ {n} : file'[m] = file[m]
  BY <1>1, <1>9, FileSet, Parts
<1> HIDE DEF g, c
<1>12. WindowFits' /\ disk' = disk /\ vol' = vol
  BY <1>1, <1>3, SeesNothingKeeps DEF SeesNothing
<1>13. ASSUME NEW ch, ChainsFit(ch) PROVE FileFits(ch, n)'
  <2> DEFINE s == ch[n]
  <2>1. Room(s) \in Nat
    BY <1>2, <1>13, RoomIs
  <2>2. base <= Room(s)
    <3>1. CASE near
      <4> DEFINE p == f.fptr
                 b == base
                 size == f.size
                 r == Room(s)
      <4>1. b < p /\ p <= size /\ size <= r /\ b \in Nat /\ p \in Nat /\ size \in Nat /\ r \in Nat
        BY <1>2, <1>3, <1>6, <1>13, <2>1, <3>1
      <4> HIDE DEF b, p, size, r
      <4>2. b <= r
        BY <4>1
      <4> QED
        BY <4>2 DEF b, r
    <3>2. CASE ~near
      <4> HIDE DEF near, base, s
      <4> QED
        BY <1>7, <2>1, <3>2
    <3> QED
      BY <3>1, <3>2
  <2>3. pc = "seek" => InCluster(s, clust, AtCluster(base))
    <3>1. CASE near
      BY <1>2, <1>6, <1>13, <3>1
    <3>2. ASSUME ~near, pc = "seek" PROVE InCluster(s, clust, AtCluster(base))
      <4>1. base = 0 /\ clust = f.sclust /\ f.sclust # 0
        BY <1>7, <1>8, <3>2 DEF clust
      <4>2. InCluster(s, f.sclust, 1)
        BY <1>2, <1>13, <4>1, HeadOf DEF InCluster
      <4> HIDE DEF base, clust
      <4> QED
        BY <4>1, <4>2, AtZero
    <3> QED
      BY <3>1, <3>2
  <2>4. pc # "seek" => base = 0
    BY <1>7, <1>8
  <2> HIDE DEF base, clust, near
  <2>5. PointerFits(ch, n)'
    BY <1>1, <1>7, <1>8, <1>9, <1>10, <1>11, <2>2, <2>3, <2>4 DEF PointerFits, Ahead, Seeking, With, Doing
  <2>6. ChainFits(ch, n)'
    BY <1>1, <1>2, <1>9, <1>10, <1>11, <1>13 DEF ChainFits, Cutting, With, Doing
  <2>7. SlotFits(n)'
    BY <1>2, <1>9, <1>11, <1>12, <1>13 DEF SlotFits
  <2> QED
    BY <2>5, <2>6, <2>7 DEF FileFits
<1>14. n \in loose => g.mod
  BY <1>2, <1>9 DEF FatInv
<1>15. pc = "grow" => "WRITE" \in f.mode
  <2> SUFFICES ASSUME pc = "grow", "WRITE" \notin f.mode PROVE FALSE
    OBVIOUS
  <2>1. PICK ch : ChainsFit(ch)
    BY DEF FatInv
  <2>2. f.size <= Room(ch[n]) /\ Room(ch[n]) = 0
    BY <1>2, <1>8, <2>1, HeadOf, RoomIs
  <2> QED
    BY <1>3, <1>4, <1>8, <2>2
<1> HIDE DEF base, clust, near
<1>16. InPhase'
  <2>1. /\ c.pc \in {"seeked", "grow", "seek"} /\ (c.pc # "seeked" => c.left > 0) /\ g.fptr % BCS = 0
        /\ g.fptr + c.left = ofs /\ ("WRITE" \notin f.mode => ofs <= g.size) /\ c.cl = 0
        /\ c.pc = "grow" => g.fptr = 0 /\ g.sclust = 0 /\ "WRITE" \in g.mode
    BY <1>4, <1>7, <1>8, <1>9, <1>10, <1>15
  <2>2. "WRITE" \notin g.mode => g.fptr + c.left <= g.size
    BY <1>9, <2>1
  <2>3. call'.n = n /\ call'.op = "seek" /\ file'[n] = g /\ IsOpen(n)'
    BY <1>1, <1>9, <1>10, <1>11 DEF IsOpen, IsFil
  <2> QED
    BY <1>1, <2>1, <2>2, <2>3 DEF InPhase, Phase, Growing
<1>17. On(n) /\ {call.pc, c.pc} \cap {"free", "link"} = {}
       /\ call.op \in Moving \cup {"none"} /\ c.op \in Moving
  BY <1>3, <1>8, <1>10 DEF On, Moving
<1> QED
  BY <1>1, <1>9, <1>10, <1>11, <1>12, <1>13, <1>14, <1>16, <1>17, FileStep

\* The file of a call that is on its way.
LEMMA InSeek ==
  ASSUME FatInv, call.pc \in {"seek", "seeked"}
  PROVE  /\ call.op \in {"open", "seek"} /\ IsCall(call) /\ InCall
         /\ \E n \in Names : n = call.n /\ IsOpen(n) /\ IsFil(file[n])
PROOF
<1>1. Phase(call.op, file[call.n], call.pc) /\ (InCall => IsCall(call)) /\ (~InCall => call = Idle)
  BY Parts
<1>2. call.op \in {"open", "seek"} /\ InCall /\ IsOpen(call.n)
  BY <1>1 DEF Phase, InCall, Idle
<1> QED
  BY <1>1, <1>2, Parts DEF IsCall

\* It goes one cluster on,
LEMMA SeekOnKeeps ==
  ASSUME FatInv, SeekOn
  PROVE  FatInv'
PROOF
<1>1. /\ call.pc = "seek" /\ call.left > BCS /\ UNCHANGED <<fs, loose, failures>>
  BY DEF SeekOn
<1>2. PICK n \in Names : n = call.n /\ IsOpen(n) /\ IsFil(file[n])
  BY <1>1, InSeek
<1> DEFINE f == file[n]
           d == get_fat(f.clust)
           stretches == call.op = "seek" /\ "WRITE" \in f.mode
<1>3. /\ WindowFits /\ IsCall(call) /\ InCall /\ IsFil(f) /\ Phase(call.op, f, call.pc)
      /\ call.op \in {"open", "seek"}
  BY <1>1, <1>2, InSeek, Parts
<1>4. /\ f.fptr \in Nat /\ f.size \in Nat /\ call.left \in Nat /\ BCS \in Nat \ {0} /\ f.fptr % BCS = 0
      /\ ~stretches => f.fptr + call.left <= f.size
  BY <1>1, <1>3, Sizes DEF IsFil, IsCall, Phase
<1>5. ASSUME NEW ch, ChainsFit(ch)
      PROVE  /\ ch[n] \in Seq(Clusters) /\ Linked(vol.fat, ch[n]) /\ FileFits(ch, n)
             /\ InCluster(ch[n], f.clust, AtCluster(f.fptr)) /\ f.clust \in Clusters
             /\ f.fptr + BCS <= Room(ch[n])
             /\ ~stretches => InCluster(ch[n], d, AtCluster(f.fptr + BCS)) /\ d \in Clusters
  <2> DEFINE s == ch[n]
             p == f.fptr
             a == f.clust
  <2>1. s \in Seq(Clusters) /\ Linked(vol.fat, s) /\ FileFits(ch, n)
    BY <1>2, <1>5, OfFile
  <2>2. InCluster(s, a, AtCluster(p)) /\ f.size <= Room(s)
    BY <1>1, <1>2, <1>3, <2>1 DEF FileFits, PointerFits, ChainFits, Ahead, Cutting, With, Doing
  <2>3. a \in Clusters /\ d = vol.fat[a] /\ p = f.fptr
    BY <2>1, <2>2, StepOn DEF get_fat
  <2> HIDE DEF d, s, a
  <2>4. /\ p + BCS <= Room(s) /\ AtCluster(p + BCS) = AtCluster(p) + 1 /\ p + BCS \in Nat
        /\ p + BCS < Room(s) => AtCluster(p) + 1 <= Len(s)
    BY <1>4, <2>1, <2>2, ClusterOn
  <2>5. ASSUME ~stretches PROVE InCluster(s, d, AtCluster(p + BCS)) /\ d \in Clusters
    <3>1. Room(s) \in Nat
      BY <2>1, RoomIs
    <3>2. p + BCS < Room(s)
      <4> DEFINE size == f.size
                 l == call.left
                 b == BCS
                 r == Room(s)
      <4>1. p \in Nat /\ size \in Nat /\ l \in Nat /\ b \in Nat /\ r \in Nat
            /\ l > b /\ p + l <= size /\ size <= r
        BY <1>1, <1>4, <2>2, <2>5, <3>1
      <4> HIDE DEF p, size, l, b, r
      <4>2. p + b < r
        BY <4>1
      <4> QED
        BY <4>2 DEF b, r
    <3>3. AtCluster(p) \in Nat /\ Len(s) \in Nat /\ AtCluster(p) # Len(s)
      <4>0. p \in Nat
        BY <1>4
      <4> HIDE DEF p
      <4>1. AtCluster(p) + 1 <= Len(s) /\ AtCluster(p) \in Nat /\ Len(s) \in Nat
        BY <2>1, <2>4, <3>2, <4>0, Places
      <4> QED
        BY <4>1
    <3>4. InCluster(s, vol.fat[a], AtCluster(p) + 1) /\ vol.fat[a] \in Clusters
      BY <2>1, <2>2, <3>3, StepOn
    <3> QED
      BY <2>3, <2>4, <3>4
  <2>6. s = ch[n] /\ a = f.clust
    BY DEF s, a
  <2> HIDE DEF p, stretches
  <2> QED
    BY <2>1, <2>2, <2>3, <2>4, <2>5, <2>6
<1>6. PICK ch0 : ChainsFit(ch0)
  BY DEF FatInv
<1>7. f.clust \in Clusters /\ (~stretches => d \in Clusters)
  BY <1>5, <1>6
<1>8. CASE stretches
  <2> DEFINE cl == f.clust
             c == [call EXCEPT !.pc = "grow", !.cl = cl]
  <2>1. call' = c /\ SeesNothing /\ file' = file /\ call.op = "seek" /\ "WRITE" \in f.mode
    BY <1>2, <1>8 DEF SeekOn
  <2> HIDE DEF cl
  <2>2. IsCall(c) /\ c.n = n /\ c.op = "seek" /\ c.pc = "grow" /\ c.short = call.short /\ c.left = call.left
        /\ c.cl = f.clust /\ c.cl # 0
    BY <1>2, <1>3, <1>7, <2>1, Numbers DEF IsCall, CallFields, cl
  <2>3. file'[n] = f /\ FilesTyped' /\ \A m \in Names \ {n} : file'[m] = file[m]
    BY <2>1, SameFile
  <2>4. WindowFits' /\ disk' = disk /\ vol' = vol
    BY <1>3, <2>1, SeesNothingKeeps
  <2> HIDE DEF c, d
  <2>5. ASSUME NEW ch, ChainsFit(ch) PROVE FileFits(ch, n)'
    <3>1. FileFits(ch, n) /\ InCluster(ch[n], f.clust, AtCluster(f.fptr))
      BY <1>5, <2>5
    <3>2. PointerFits(ch, n)'
      BY <1>1, <1>2, <2>1, <2>2, <2>3, <3>1 DEF FileFits, PointerFits, Ahead, Seeking, With, Doing
    <3>3. ChainFits(ch, n)'
      BY <1>1, <2>1, <2>2, <2>3, <3>1 DEF FileFits, ChainFits, Cutting, With, Doing
    <3>4. SlotFits(n)'
      BY <1>1, <1>2, <2>1, <2>2, <2>3, <2>4, <3>1 DEF FileFits, SlotFits, Cutting, With, Doing
    <3> QED
      BY <3>2, <3>3, <3>4 DEF FileFits
  <2>6. n \in loose => f.mod \/ Cutting(n)'
    BY <1>1 DEF FatInv, LooseFit, Cutting, With, Doing
  <2>7. InPhase'
    BY <1>1, <1>2, <1>4, <1>7, <2>1, <2>2, <2>3 DEF InPhase, Phase, IsOpen, Growing
  <2>8. On(n) /\ {call.pc, c.pc} \cap {"free", "link"} = {}
         /\ call.op \in Moving /\ c.op \in Moving /\ (c.short => InCall /\ call.short /\ call.pc # "done")
    BY <1>1, <1>2, <1>3, <2>1, <2>2 DEF On, Moving
  <2> QED
    BY <1>1, <1>2, <1>3, <2>1, <2>2, <2>3, <2>4, <2>5, <2>6, <2>7, <2>8, FileStep
<1>9. CASE ~stretches
  <2> DEFINE p == f.fptr + BCS
             left == call.left - BCS
             g == [f EXCEPT !.fptr = p, !.clust = d]
             c == [call EXCEPT !.left = left]
  <2>1. call' = c /\ SeesFat(f.clust) /\ SetFile(n, g)
    BY <1>2, <1>7, <1>9 DEF SeekOn
  <2>2. p \in Nat /\ left \in Nat /\ left > 0 /\ p + left = f.fptr + call.left /\ p % BCS = 0
    <3>1. (f.fptr + BCS) % BCS = 0
      BY <1>4, <1>5, <1>6, ClusterOn
    <3>2. call.left > BCS /\ call.left \in Nat /\ BCS \in Nat /\ f.fptr \in Nat
      BY <1>1, <1>4
    <3> HIDE DEF f
    <3> QED
      BY <3>1, <3>2
  <2>3. /\ IsFil(g) /\ g.slot = f.slot /\ g.sclust = f.sclust /\ g.size = f.size
        /\ g.fptr = p /\ g.clust = d /\ g.mod = f.mod /\ g.mode = f.mode
    <3> HIDE DEF p, d
    <3> QED
      BY <1>3, <1>7, <1>9, <2>2 DEF IsFil, FilFields
  <2> HIDE DEF left, p
  <2>4. IsCall(c) /\ c.n = n /\ c.op = call.op /\ c.pc = "seek" /\ c.short = call.short /\ c.left = left
    BY <1>1, <1>2, <1>3, <2>2 DEF IsCall, CallFields
  <2>5. file'[n] = g /\ FilesTyped' /\ \A m \in Names \ {n} : file'[m] = file[m]
    BY <2>1, <2>3, FileSet, Parts
  <2>6. WindowFits' /\ (disk' = disk \/ AsSeen(disk')) /\ vol' = vol
    BY <1>3, <2>1, SeesFatKeeps
  <2> HIDE DEF c, g, d
  <2>7. ASSUME NEW ch, ChainsFit(ch) PROVE FileFits(ch, n)'
    <3>1. FileFits(ch, n) /\ InCluster(ch[n], d, AtCluster(p)) /\ p <= Room(ch[n])
      BY <1>5, <1>9, <2>7 DEF p
    <3>2. PointerFits(ch, n)'
      BY <1>2, <1>3, <2>1, <2>3, <2>4, <2>5, <3>1 DEF PointerFits, Ahead, Seeking, With, Doing
    <3>3. ChainFits(ch, n)'
      BY <1>1, <2>1, <2>3, <2>4, <2>5, <3>1 DEF FileFits, ChainFits, Cutting, With, Doing
    <3>4. SlotFits(n)'
      BY <1>1, <1>2, <2>1, <2>2, <2>3, <2>4, <2>5, <2>6, <3>1 DEF FileFits, SlotFits, Cutting, With, Doing
    <3> QED
      BY <3>2, <3>3, <3>4 DEF FileFits
  <2>8. n \in loose => g.mod \/ Cutting(n)'
    BY <1>1, <2>3 DEF FatInv, LooseFit, Cutting, With, Doing
  <2>9. InPhase'
    <3>1. /\ c.pc = "seek" /\ c.left > 0 /\ g.fptr % BCS = 0 /\ g.fptr + c.left <= g.size
          /\ call'.n = n /\ call'.op = call.op /\ file'[n] = g /\ IsOpen(n)'
      BY <1>4, <1>9, <2>1, <2>2, <2>3, <2>4, <2>5 DEF IsOpen, IsFil
    <3> HIDE DEF f
    <3>2. CASE call.op = "open"
      BY <2>1, <3>1, <3>2 DEF InPhase, Phase
    <3>3. CASE call.op = "seek"
      BY <2>1, <3>1, <3>3 DEF InPhase, Phase
    <3> QED
      BY <1>3, <3>2, <3>3
  <2>10. On(n) /\ {call.pc, c.pc} \cap {"free", "link"} = {}
         /\ call.op \in Moving /\ c.op \in Moving /\ (c.short => InCall /\ call.short /\ call.pc # "done")
    BY <1>1, <1>2, <1>3, <2>1, <2>4 DEF On, Moving
  <2> QED
    BY <1>1, <1>2, <1>3, <2>1, <2>3, <2>4, <2>5, <2>6, <2>7, <2>8, <2>9, <2>10, FileStep
<1> QED
  BY <1>8, <1>9

\* ends in a cluster,
LEMMA SeekInClusterKeeps ==
  ASSUME FatInv, SeekInCluster
  PROVE  FatInv'
PROOF
<1>1. /\ call.pc = "seek" /\ call.left <= BCS /\ UNCHANGED <<disk, vol, win, fs, loose, failures>>
  BY DEF SeekInCluster
<1>2. PICK n \in Names : n = call.n /\ IsOpen(n) /\ IsFil(file[n])
  BY <1>1, InSeek
<1> DEFINE f == file[n]
           p == f.fptr + call.left
           g == [f EXCEPT !.fptr = p]
           c == [call EXCEPT !.pc = "seeked"]
<1>3. /\ WindowFits /\ IsCall(call) /\ InCall /\ IsFil(f) /\ Phase(call.op, f, call.pc)
      /\ call.op \in {"open", "seek"}
  BY <1>1, <1>2, InSeek, Parts
<1>4. /\ f.fptr \in Nat /\ call.left \in Nat /\ call.left > 0 /\ f.fptr % BCS = 0 /\ BCS \in Nat
      /\ p \in Nat /\ p > 0
  <2>1. /\ f.fptr \in Nat /\ call.left \in Nat /\ call.left > 0 /\ f.fptr % BCS = 0 /\ BCS \in Nat
    BY <1>1, <1>3, Sizes DEF IsFil, IsCall, Phase
  <2> HIDE DEF f
  <2> QED
    BY <2>1
<1>5. ASSUME NEW ch, ChainsFit(ch)
      PROVE  ch[n] \in Seq(Clusters) /\ FileFits(ch, n) /\ InCluster(ch[n], f.clust, ToCluster(p)) /\ p <= Room(ch[n])
  <2>1. ch[n] \in Seq(Clusters) /\ FileFits(ch, n)
    BY <1>2, <1>5, OfFile
  <2>2. InCluster(ch[n], f.clust, AtCluster(f.fptr))
    BY <1>1, <1>2, <1>3, <2>1 DEF FileFits, PointerFits, Ahead, With, Doing
  <2> DEFINE q == f.fptr
             k == call.left
             a == f.clust
  <2>3. q \in Nat /\ k \in Nat /\ k > 0 /\ (q % BCS) + k <= BCS /\ p = q + k
    <3>1. q \in Nat /\ k \in Nat /\ k > 0 /\ q % BCS = 0 /\ k <= BCS /\ BCS \in Nat /\ p = q + k
      BY <1>1, <1>4
    <3> HIDE DEF q, k, p
    <3> QED
      BY <3>1
  <2>4. AtCluster(q) <= Len(ch[n]) /\ Len(ch[n]) \in Nat /\ InCluster(ch[n], a, AtCluster(q))
    BY <2>2 DEF InCluster
  <2>5. a = f.clust
    OBVIOUS
  <2> HIDE DEF q, k, p, f, a
  <2>6. ToCluster(q + k) = AtCluster(q) /\ q + k <= Len(ch[n]) * BCS
    BY <2>3, <2>4, Onwards
  <2> QED
    BY <2>1, <2>3, <2>4, <2>5, <2>6 DEF Room
<1>6. SetFile(n, g) /\ call' = c
  BY <1>2 DEF SeekInCluster, Goes
<1> HIDE DEF p
<1>7. /\ IsFil(g) /\ g.slot = f.slot /\ g.sclust = f.sclust /\ g.size = f.size
      /\ g.fptr = p /\ g.clust = f.clust /\ g.mod = f.mod /\ g.mode = f.mode
  BY <1>3, <1>4 DEF IsFil, FilFields
<1>8. IsCall(c) /\ c.n = n /\ c.op = call.op /\ c.pc = "seeked" /\ c.short = call.short /\ c.left = call.left
  BY <1>1, <1>2, <1>3 DEF IsCall, CallFields
<1>9. file'[n] = g /\ FilesTyped' /\ \A m \in Names \ {n} : file'[m] = file[m]
  BY <1>6, <1>7, FileSet, Parts
<1>10. WindowFits' /\ disk' = disk /\ vol' = vol
  BY <1>1, <1>3, SeesNothingKeeps DEF SeesNothing
<1> HIDE DEF c, g
<1>11. ASSUME NEW ch, ChainsFit(ch) PROVE FileFits(ch, n)'
  <2>1. FileFits(ch, n) /\ InCluster(ch[n], f.clust, ToCluster(p)) /\ p <= Room(ch[n])
    BY <1>5, <1>11
  <2>2. PointerFits(ch, n)'
    BY <1>2, <1>3, <1>6, <1>7, <1>8, <1>9, <2>1 DEF PointerFits, Ahead, Seeking, With, Doing
  <2>3. ChainFits(ch, n)'
    BY <1>1, <1>6, <1>7, <1>8, <1>9, <2>1 DEF FileFits, ChainFits, Cutting, With, Doing
  <2>4. SlotFits(n)'
    BY <1>1, <1>2, <1>4, <1>6, <1>7, <1>8, <1>9, <1>10, <2>1 DEF FileFits, SlotFits, Cutting, With, Doing
  <2> QED
    BY <2>2, <2>3, <2>4 DEF FileFits
<1>12. n \in loose => g.mod \/ Cutting(n)'
  BY <1>1, <1>7 DEF FatInv, LooseFit, Cutting, With, Doing
<1>13. InPhase'
  BY <1>3, <1>6, <1>7, <1>8, <1>9 DEF InPhase, Phase, IsOpen, IsFil
<1>14. On(n) /\ {call.pc, c.pc} \cap {"free", "link"} = {}
       /\ call.op \in Moving /\ c.op \in Moving /\ (c.short => InCall /\ call.short /\ call.pc # "done")
  BY <1>1, <1>2, <1>3, <1>8 DEF On, Moving
<1> QED
  BY <1>1, <1>2, <1>6, <1>7, <1>8, <1>9, <1>10, <1>11, <1>12, <1>13, <1>14, FileStep

\* and makes the file longer if it went past its end.
LEMMA SeekedKeeps ==
  ASSUME FatInv, Seeked
  PROVE  FatInv'
PROOF
<1>1. /\ call.pc = "seeked" /\ UNCHANGED <<disk, vol, win, fs, loose, failures>>
  BY DEF Seeked
<1>2. PICK n \in Names : n = call.n /\ IsOpen(n) /\ IsFil(file[n])
  BY <1>1, InSeek
<1> DEFINE f == file[n]
           longer == f.fptr > f.size
           loads == ~AtSector(f) /\ f.sect # Here(f)
           size == IF longer THEN f.fptr ELSE f.size
           mod == f.mod \/ longer
           buf == IF loads THEN data[Here(f)] ELSE f.buf
           sect == IF loads THEN Here(f) ELSE f.sect
           g == [f EXCEPT !.size = size, !.mod = mod, !.buf = buf, !.sect = sect]
           c == [call EXCEPT !.pc = "done", !.res = "FR_OK"]
<1>3. /\ WindowFits /\ IsCall(call) /\ InCall /\ IsFil(f) /\ call.op \in {"open", "seek"}
  BY <1>1, <1>2, InSeek, Parts
<1>4. /\ f.fptr \in Nat /\ f.size \in Nat /\ mod \in BOOLEAN /\ size \in Nat
      /\ f.fptr <= size /\ (size = f.fptr \/ size = f.size)
      /\ f.size = 0 /\ f.fptr > 0 => mod
  <2>1. f.fptr \in Nat /\ f.size \in Nat /\ f.mod \in BOOLEAN
    BY <1>3 DEF IsFil
  <2> HIDE DEF f
  <2> QED
    BY <2>1
<1>5. SetFile(n, g) /\ call' = c
  BY <1>2 DEF Seeked, Ends
<1>6. f.mod => mod
  OBVIOUS
<1> HIDE DEF size, mod, buf, sect
<1>7. /\ IsFil(g) /\ g.slot = f.slot /\ g.sclust = f.sclust /\ g.size = size
      /\ g.fptr = f.fptr /\ g.clust = f.clust /\ g.mod = mod
  BY <1>3, <1>4 DEF IsFil, FilFields
<1>8. IsCall(c) /\ c.n = n /\ c.op = call.op /\ c.pc = "done" /\ c.short = call.short
  BY <1>2, <1>3 DEF IsCall, CallFields
<1>9. file'[n] = g /\ FilesTyped' /\ \A m \in Names \ {n} : file'[m] = file[m]
  BY <1>5, <1>7, FileSet, Parts
<1>10. WindowFits' /\ disk' = disk /\ vol' = vol
  BY <1>1, <1>3, SeesNothingKeeps DEF SeesNothing
<1> HIDE DEF c, g
<1>11. ASSUME NEW ch, ChainsFit(ch) PROVE FileFits(ch, n)'
  <2>1. FileFits(ch, n)
    BY <1>2, <1>11, OfFile
  <2>2. PointerFits(ch, n)'
    BY <1>1, <1>2, <1>4, <1>5, <1>7, <1>8, <1>9, <2>1 DEF FileFits, PointerFits, Ahead, Seeking, With, Doing
  <2>3. ChainFits(ch, n)'
    <3>1. f.sclust = Head0(ch[n]) /\ f.size <= Room(ch[n]) /\ f.fptr <= Room(ch[n])
      BY <1>1, <2>1 DEF FileFits, ChainFits, PointerFits, Cutting, With, Doing
    <3>2. size <= Room(ch[n])
      BY <1>4, <3>1
    <3> QED
      BY <1>1, <1>5, <1>7, <1>8, <1>9, <3>1, <3>2 DEF ChainFits, Cutting, With, Doing
  <2>4. SlotFits(n)'
    <3>1. vol.dir[f.slot].kind = "file" /\ vol.dir[f.slot].name = n
          /\ (f.mod \/ vol.dir[f.slot].clust = f.sclust \/ (f.size = 0 /\ f.fptr > 0))
      BY <1>1, <2>1 DEF FileFits, SlotFits, Cutting, With, Doing
    <3>2. g.mod \/ vol.dir[f.slot].clust = f.sclust
      BY <1>4, <1>6, <1>7, <3>1
    <3> QED
      BY <1>7, <1>9, <1>10, <3>1, <3>2 DEF SlotFits
  <2> QED
    BY <2>2, <2>3, <2>4 DEF FileFits
<1>12. n \in loose => g.mod \/ Cutting(n)'
  BY <1>1, <1>6, <1>7 DEF FatInv, LooseFit, Cutting, With, Doing
<1>13. InPhase'
  BY <1>3, <1>5, <1>7, <1>8, <1>9 DEF InPhase, Phase, IsOpen, IsFil
<1>14. On(n) /\ {call.pc, c.pc} \cap {"free", "link"} = {}
       /\ call.op \in Moving /\ c.op \in Moving /\ (c.short => InCall /\ call.short /\ call.pc # "done")
  BY <1>1, <1>2, <1>3, <1>8 DEF On, Moving
<1> QED
  BY <1>1, <1>2, <1>5, <1>7, <1>8, <1>9, <1>10, <1>11, <1>12, <1>13, <1>14, FileStep

\* f_truncate sets the length once the chain is freed.
LEMMA CutKeeps ==
  ASSUME FatInv, Cut
  PROVE  FatInv'
PROOF
<1>1. /\ call.pc = "cut" /\ UNCHANGED <<disk, vol, win, fs, loose, failures>>
  BY DEF Cut
<1>2. /\ WindowFits /\ call.op = "truncate" /\ IsCall(call) /\ InCall
      /\ \E n \in Names : n = call.n /\ IsOpen(n) /\ IsFil(file[n])
  <2>1. Phase(call.op, file[call.n], call.pc) /\ (InCall => IsCall(call)) /\ (~InCall => call = Idle) /\ WindowFits
    BY Parts
  <2>2. call.op = "truncate" /\ InCall /\ IsOpen(call.n)
    BY <1>1, <2>1 DEF Phase, InCall, Idle
  <2> QED
    BY <2>1, <2>2, Parts DEF IsCall
<1>3. PICK n \in Names : n = call.n /\ IsOpen(n) /\ IsFil(file[n])
  BY <1>2
<1> DEFINE f == file[n]
           sclust == IF f.fptr = 0 THEN 0 ELSE f.sclust
           p == f.fptr
           g == [f EXCEPT !.sclust = sclust, !.size = p, !.mod = TRUE, !.dirty = FALSE]
           c == [call EXCEPT !.pc = "done", !.res = "FR_OK"]
<1>4. SetFile(n, g) /\ call' = c
  BY <1>3 DEF Cut, Ends
<1>5. p \in Nat /\ sclust \in {0} \cup Clusters
  BY <1>3 DEF IsFil
<1> HIDE DEF sclust, p
<1>6. /\ IsFil(g) /\ g.slot = f.slot /\ g.sclust = sclust /\ g.size = p
      /\ g.fptr = f.fptr /\ g.clust = f.clust /\ g.mod = TRUE
  BY <1>3, <1>5 DEF IsFil, FilFields
<1>7. IsCall(c) /\ c.n = n /\ c.op = "truncate" /\ c.pc = "done" /\ c.short = call.short
  BY <1>2, <1>3 DEF IsCall, CallFields
<1>8. file'[n] = g /\ FilesTyped' /\ \A m \in Names \ {n} : file'[m] = file[m]
  BY <1>4, <1>6, FileSet, Parts
<1>9. WindowFits' /\ disk' = disk /\ vol' = vol
  BY <1>1, <1>2, SeesNothingKeeps DEF SeesNothing
<1> HIDE DEF c, g
<1>10. ASSUME NEW ch, ChainsFit(ch) PROVE FileFits(ch, n)'
  <2>1. FileFits(ch, n) /\ f.fptr = p /\ (f.fptr = 0 => sclust = 0) /\ (f.fptr # 0 => sclust = f.sclust)
    BY <1>3, <1>10, OfFile DEF p, sclust
  <2>2. PointerFits(ch, n)'
    <3>1. g.fptr <= g.size
      BY <1>5, <1>6, <2>1
    <3> QED
      BY <1>1, <1>2, <1>4, <1>6, <1>7, <1>8, <2>1, <3>1 DEF FileFits, PointerFits, Ahead, Seeking, With, Doing
  <2>3. ChainFits(ch, n)'
    <3>1. sclust = Head0(ch[n]) /\ p <= Room(ch[n])
      BY <1>1, <1>2, <1>3, <2>1 DEF FileFits, ChainFits, PointerFits, Cutting, With, Doing, Head0
    <3> QED
      BY <1>4, <1>6, <1>7, <1>8, <3>1 DEF ChainFits, Cutting, With, Doing
  <2>4. SlotFits(n)'
    BY <1>6, <1>8, <1>9, <2>1 DEF FileFits, SlotFits
  <2> QED
    BY <2>2, <2>3, <2>4 DEF FileFits
<1>11. n \in loose => g.mod \/ Cutting(n)'
  BY <1>6
<1>12. InPhase'
  BY <1>4, <1>6, <1>7, <1>8 DEF InPhase, Phase, IsOpen, IsFil
<1>13. On(n) /\ {call.pc, c.pc} \cap {"free", "link"} = {}
       /\ call.op \in Moving /\ c.op \in Moving /\ (c.short => InCall /\ call.short /\ call.pc # "done")
  BY <1>1, <1>2, <1>3, <1>7 DEF On, Moving
<1> QED
  BY <1>1, <1>3, <1>4, <1>6, <1>7, <1>8, <1>9, <1>10, <1>11, <1>12, <1>13, FileStep

-----------------------------------------------------------------------------
(* The allocation table *)

\* A step that changes the chain of one file, or nobody's.
LEMMA TableKeeps ==
  ASSUME FatInv, NEW n \in Names, On(n), On(n)', vol'.dir = vol.dir, loose' = loose, failures' = failures,
         ~Removing, ~Removing', WindowFits', disk' = disk \/ AsSeen(disk'), Steady' => Steady,
         \A m \in Names \ {n} : file'[m] = file[m],
         NEW ch, ChainsFit(ch), NEW ch2, Chained(vol'.fat, ch2),
         Complete(vol.fat, ch) => Complete(vol'.fat, ch2), Floating(ch2)',
         \A m \in Names \ {n} : ch2[m] = ch[m],
         IsOpen(n)' => FileFits(ch2, n)',
         \A i \in Slots : IsFile(i) /\ vol.dir[i].name = n => EntryFits(ch2, i)',
         (\A i \in Slots : IsFile(i) => vol.dir[i].name # n) => ch2[n] = <<>>,
         n \in loose => LooseFits(n)', Typed', InPhase', Counts'
  PROVE  FatInv'
PROOF
<1>1. /\ DirOK(vol.dir) /\ LooseFit /\ DiskFine /\ VolTyped(vol) /\ loose \subseteq Names
  BY DEF FatInv, Typed
<1>2. /\ Chained(vol.fat, ch) /\ (failures = 0 => Complete(vol.fat, ch))
      /\ EntriesFit(ch) /\ Unnamed(ch) /\ FilesFit(ch)
  BY DEF ChainsFit
<1>3. Chained(vol.fat, ch2)' /\ (failures = 0 => Complete(vol.fat, ch2))'
  BY <1>2
<1>4. EntriesFit(ch2)' /\ Unnamed(ch2)'
  BY <1>1, <1>2, EntriesStay
<1>5. ASSUME NEW m \in Names, IsOpen(m)' PROVE FileFits(ch2, m)'
  <2>1. CASE m = n
    BY <1>5, <2>1
  <2>2. CASE m # n
    <3>1. FileFits(ch, m)
      BY <1>2, <1>5, <2>2 DEF FilesFit, IsOpen
    <3> QED
      BY <2>2, <3>1, OthersFit
  <2> QED
    BY <2>1, <2>2
<1>6. FilesFit(ch2)'
  BY <1>5 DEF FilesFit
<1>7. ChainsFit(ch2)'
  BY <1>3, <1>4, <1>6 DEF ChainsFit
<1>8. LooseFit'
  BY <1>1, LooseStays
<1>9. DiskFine'
  BY <1>1, StaysFine DEF Removing
<1>10. Agrees' /\ DirOK(vol.dir)'
  BY <1>1 DEF WindowFits
<1> QED
  BY <1>7, <1>8, <1>9, <1>10 DEF FatInv

\* The call that needs a cluster, and what it knows.
LEMMA InGrowth ==
  ASSUME FatInv, call.pc \in {"grow", "link"}
  PROVE  /\ call.op \in {"write", "seek"} /\ IsCall(call) /\ InCall /\ WindowFits
         /\ call.left \in Nat /\ call.left > 0 /\ ~Removing
         /\ \E n \in Names :
              LET f == file[n]
              IN  /\ n = call.n /\ IsOpen(n) /\ IsFil(f) /\ f.fptr \in Nat /\ f.fptr % BCS = 0
                  /\ Growing(f) /\ (call.op = "write" /\ call.cl # 0 => f.fptr > 0)
                  /\ call.op = "seek" => "WRITE" \in f.mode /\ (call.cl # 0 => call.left > BCS)
         /\ call.pc = "link" => call.new \in Clusters /\ fs.free # 0 /\ vol.fat[call.cl] = Eoc
PROOF
<1>1. Phase(call.op, file[call.n], call.pc) /\ (InCall => IsCall(call)) /\ (~InCall => call = Idle) /\ WindowFits
  BY Parts
<1>2. call.op \in {"write", "seek"} /\ InCall /\ IsOpen(call.n)
  BY <1>1 DEF Phase, InCall, Idle
<1>3. IsCall(call) /\ call.n \in Names /\ call.left \in Nat
  BY <1>1, <1>2 DEF IsCall
<1>4. IsFil(file[call.n]) /\ file[call.n].fptr \in Nat
  BY <1>2, <1>3, Parts DEF IsFil
<1> DEFINE f == file[call.n]
<1>5. /\ call.left > 0 /\ f.fptr % BCS = 0 /\ Growing(f) /\ (call.op = "write" /\ call.cl # 0 => f.fptr > 0)
      /\ call.op = "seek" => "WRITE" \in f.mode /\ (call.cl # 0 => call.left > BCS)
      /\ call.pc = "link" => call.new \in Clusters /\ fs.free # 0 /\ vol.fat[call.cl] = Eoc
  BY <1>1, <1>2 DEF Phase
<1>6. ~Removing
  BY <1>2 DEF Removing, Doing
<1> QED
  BY <1>1, <1>2, <1>3, <1>4, <1>5, <1>6

\* Its file and its chain.
LEMMA GrowthIs ==
  ASSUME FatInv, call.pc \in {"grow", "link"}, NEW n \in Names, n = call.n, NEW ch, ChainsFit(ch)
  PROVE  LET f == file[n]
             s == ch[n]
         IN  /\ s \in Seq(Clusters) /\ Linked(vol.fat, s) /\ FileFits(ch, n) /\ IsOpen(n)
             /\ f.sclust = Head0(s) /\ f.size <= Room(s) /\ f.fptr <= Room(s)
             /\ call.cl = 0 => s = <<>> /\ f.sclust = 0 /\ f.fptr = 0 /\ f.size = 0
             /\ call.cl # 0 /\ call.op = "write" => InCluster(s, call.cl, ToCluster(f.fptr))
             /\ call.cl # 0 /\ call.op = "seek" => InCluster(s, call.cl, AtCluster(f.fptr))
             /\ call.cl # 0 => s # <<>> /\ call.cl \in Clusters /\ f.clust = call.cl
                               /\ (vol.fat[call.cl] = Eoc => call.cl = s[Len(s)])
PROOF
<1> DEFINE f == file[n]
           s == ch[n]
<1>1. /\ IsOpen(n) /\ IsFil(f) /\ f.fptr \in Nat /\ Growing(f) /\ call.op \in {"write", "seek"}
      /\ (call.op = "write" /\ call.cl # 0 => f.fptr > 0)
  BY InGrowth
<1>2. s \in Seq(Clusters) /\ Linked(vol.fat, s) /\ FileFits(ch, n)
  BY <1>1, OfFile
<1>3. f.sclust = Head0(s) /\ f.size <= Room(s) /\ f.fptr <= Room(s)
  BY <1>1, <1>2 DEF FileFits, ChainFits, PointerFits, Cutting, With, Doing
<1>4. call.cl = 0 => s = <<>> /\ f.sclust = 0 /\ f.fptr = 0 /\ f.size = 0
  <2> SUFFICES ASSUME call.cl = 0 PROVE s = <<>> /\ f.sclust = 0 /\ f.fptr = 0 /\ f.size = 0
    OBVIOUS
  <2>1. s = <<>> /\ f.sclust = 0 /\ f.fptr = 0 /\ Room(s) = 0
    BY <1>1, <1>2, <1>3, HeadOf, RoomIs DEF Growing
  <2>2. f.size \in Nat
    BY <1>1 DEF IsFil
  <2> QED
    BY <1>3, <2>1, <2>2
<1>5. call.cl # 0 => f.clust = call.cl /\ call.cl \in Clusters
  BY <1>1 DEF Growing
<1>6. call.cl # 0 /\ call.op = "write" => InCluster(s, call.cl, ToCluster(f.fptr))
  BY <1>1, <1>2, <1>5 DEF FileFits, PointerFits, Ahead, With, Doing
<1>7. call.cl # 0 /\ call.op = "seek" => InCluster(s, call.cl, AtCluster(f.fptr))
  BY <1>1, <1>2, <1>5 DEF FileFits, PointerFits, Ahead, With, Doing
<1>8. ASSUME call.cl # 0 PROVE s # <<>> /\ (vol.fat[call.cl] = Eoc => call.cl = s[Len(s)])
  <2>1. PICK i : InCluster(s, call.cl, i)
    BY <1>1, <1>6, <1>7, <1>8
  <2>2. i \in 1..Len(s) /\ call.cl = s[i] /\ (vol.fat[call.cl] = Eoc <=> i = Len(s))
    BY <1>2, <2>1, StepOn DEF InCluster
  <2>3. s # <<>>
    BY <2>2
  <2> QED
    BY <2>2, <2>3
<1> QED
  BY <1>1, <1>2, <1>3, <1>4, <1>5, <1>6, <1>7, <1>8

\* GoesOnIn: the file has the cluster and the call goes on.
LEMMA GoesOnIs ==
  ASSUME FatInv, call.pc \in {"grow", "link"}, NEW n \in Names, n = call.n, NEW d \in Clusters, GoesOnIn(d),
         NEW k, k = (IF call.op = "seek" /\ call.cl # 0 THEN BCS ELSE 0)
  PROVE  LET f == file[n]
             g == file'[n]
             c == call'
         IN  /\ FilesTyped' /\ (\A m \in Names \ {n} : file'[m] = file[m])
             /\ IsFil(g) /\ g.slot = f.slot /\ g.size = f.size /\ g.mod = f.mod /\ g.clust = d
             /\ g.sclust = (IF f.sclust = 0 THEN d ELSE f.sclust) /\ g.fptr = f.fptr + k
             /\ IsCall(c) /\ c.n = n /\ c.op = call.op /\ c.short = call.short
             /\ c.pc = (IF call.op = "seek" THEN "seek" ELSE "sector")
             /\ c.left = call.left - k /\ c.left > 0
             /\ k \in Nat /\ g.fptr % BCS = 0 /\ g.fptr + c.left = f.fptr + call.left
             /\ InPhase' /\ IsOpen(n)' /\ On(n)' /\ ~Removing' /\ On(n)
PROOF
<1> DEFINE f == file[n]
           fptr == f.fptr + k
           sclust == IF f.sclust = 0 THEN d ELSE f.sclust
           g == [[f EXCEPT !.clust = d, !.sclust = sclust] EXCEPT !.fptr = @ + k]
           pc == IF call.op = "seek" THEN "seek" ELSE "sector"
           left == call.left - k
           c == [call EXCEPT !.pc = pc, !.left = left]
<1>1. /\ IsOpen(n) /\ IsFil(f) /\ f.fptr \in Nat /\ f.fptr % BCS = 0 /\ call.op \in {"write", "seek"}
      /\ call.op = "seek" => "WRITE" \in f.mode /\ (call.cl # 0 => call.left > BCS)
      /\ IsCall(call) /\ InCall /\ call.left \in Nat /\ call.left > 0
  BY InGrowth
<1>2. BCS \in Nat \ {0}
  BY Sizes
<1>3. k \in Nat /\ (k = 0 \/ k = BCS) /\ (k = BCS => call.left > BCS)
  BY <1>1, <1>2
<1>4. SetFile(n, g) /\ call' = c
  BY DEF GoesOnIn
<1>5. fptr \in Nat /\ left \in Nat /\ left > 0 /\ sclust \in {0} \cup Clusters /\ fptr + left = f.fptr + call.left
  <2>1. f.sclust \in {0} \cup Clusters
    BY <1>1 DEF IsFil
  <2> HIDE DEF f
  <2> QED
    BY <1>1, <1>2, <1>3, <2>1
<1>6. fptr % BCS = 0
  <2>1. CASE k = 0
    BY <1>1, <2>1
  <2>2. CASE k = BCS
    <3> DEFINE p == f.fptr
    <3>1. p \in Nat /\ p % BCS = 0 /\ BCS \in Nat /\ (p % BCS) + BCS <= BCS
      BY <1>1, <1>2
    <3>2. fptr = p + BCS
      BY <2>2
    <3> HIDE DEF p, fptr
    <3>3. (p + BCS) % BCS = 0
      BY <3>1, Onwards
    <3> QED
      BY <3>2, <3>3
  <2> QED
    BY <1>3, <2>1, <2>2
<1>7. g = [f EXCEPT !.clust = d, !.sclust = sclust, !.fptr = fptr]
  <2> HIDE DEF sclust
  <2> QED
    BY <1>1 DEF IsFil, FilFields
<1> HIDE DEF fptr, left, sclust, pc, g
<1>8. /\ IsFil(g) /\ g.slot = f.slot /\ g.size = f.size /\ g.mod = f.mod /\ g.clust = d /\ g.sclust = sclust
      /\ g.fptr = fptr /\ g.mode = f.mode
  BY <1>1, <1>5, <1>7 DEF IsFil, FilFields
<1>9. /\ IsCall(c) /\ c.n = n /\ c.op = call.op /\ c.short = call.short /\ c.pc = pc /\ c.left = left
  BY <1>1, <1>5 DEF IsCall, CallFields
<1>10. FilesTyped' /\ file'[n] = g /\ (\A m \in Names \ {n} : file'[m] = file[m])
  BY <1>4, <1>8, FileSet, Parts
<1> HIDE DEF c
<1>11. IsOpen(n)' /\ On(n)' /\ ~Removing' /\ On(n)
  BY <1>1, <1>4, <1>8, <1>9, <1>10 DEF IsOpen, IsFil, On, Removing, Doing
<1>12. InPhase'
  <2>1. call'.n = n /\ call'.op = call.op /\ call'.left > 0 /\ file'[n] = g /\ g.fptr % BCS = 0
    BY <1>4, <1>5, <1>6, <1>8, <1>9, <1>10
  <2>2. CASE call.op = "write"
    <3>1. call'.pc = "sector"
      BY <1>4, <1>9, <2>2 DEF pc
    <3> QED
      BY <1>11, <2>1, <2>2, <3>1 DEF InPhase, Phase
  <2>3. CASE call.op = "seek"
    <3>1. call'.pc = "seek" /\ "WRITE" \in g.mode
      BY <1>1, <1>4, <1>8, <1>9, <2>3 DEF pc
    <3> QED
      BY <1>11, <2>1, <2>3, <3>1 DEF InPhase, Phase
  <2> QED
    BY <1>1, <2>2, <2>3
<1>13. fptr = f.fptr + k /\ sclust = (IF f.sclust = 0 THEN d ELSE f.sclust) /\ left = call.left - k
       /\ pc = (IF call.op = "seek" THEN "seek" ELSE "sector")
  BY DEF fptr, sclust, left, pc
<1> QED
  BY <1>3, <1>4, <1>5, <1>6, <1>8, <1>9, <1>10, <1>11, <1>12, <1>13

\* A file whose chain got a cluster longer fits it.
LEMMA GrownFits ==
  ASSUME FatInv, call.pc \in {"grow", "link"}, NEW n \in Names, n = call.n, NEW d \in Clusters, GoesOnIn(d),
         NEW ch, ChainsFit(ch), NEW ch2, ch2[n] \in Seq(Clusters), vol'.dir = vol.dir,
         NEW k, k = (IF call.op = "seek" /\ call.cl # 0 THEN BCS ELSE 0),
         InCluster(ch2[n], d, AtCluster(file[n].fptr + k)), Room(ch[n]) <= Room(ch2[n]),
         (IF file[n].sclust = 0 THEN d ELSE file[n].sclust) = Head0(ch2[n])
  PROVE  FileFits(ch2, n)'
PROOF
<1> DEFINE f == file[n]
           g == file'[n]
           c == call'
           s == ch2[n]
<1>1. /\ call.op \in {"write", "seek"} /\ f.fptr \in Nat /\ IsFil(f) /\ call.left > 0 /\ call.left \in Nat
      /\ (call.op = "write" /\ call.cl # 0 => f.fptr > 0)
  BY InGrowth
<1>2. /\ IsFil(g) /\ g.slot = f.slot /\ g.size = f.size /\ g.mod = f.mod /\ g.clust = d
      /\ g.sclust = (IF f.sclust = 0 THEN d ELSE f.sclust) /\ g.fptr = f.fptr + k
      /\ c.n = n /\ c.op = call.op /\ c.pc = (IF call.op = "seek" THEN "seek" ELSE "sector")
      /\ c.left > 0 /\ g.fptr % BCS = 0 /\ g.fptr + c.left = f.fptr + call.left
  BY GoesOnIs
<1>3. /\ FileFits(ch, n) /\ f.sclust = Head0(ch[n]) /\ f.size <= Room(ch[n]) /\ ch[n] \in Seq(Clusters)
      /\ (call.cl = 0 => f.sclust = 0)
      /\ (f.sclust = 0 => f.size = 0)
  <2>1. /\ FileFits(ch, n) /\ f.sclust = Head0(ch[n]) /\ f.size <= Room(ch[n]) /\ ch[n] \in Seq(Clusters)
        /\ (call.cl = 0 => f.sclust = 0)
    BY GrowthIs
  <2>2. f.sclust = 0 => f.size <= 0 /\ f.size \in Nat
    BY <1>1, <2>1, HeadOf, RoomIs DEF IsFil
  <2> HIDE DEF f
  <2> QED
    BY <2>1, <2>2
<1>4. g.fptr \in Nat /\ g.size \in Nat
  BY <1>2 DEF IsFil
<1>5. InCluster(s, g.clust, AtCluster(g.fptr)) /\ g.fptr <= Room(s)
  <2>1. InCluster(s, d, AtCluster(f.fptr + k))
    OBVIOUS
  <2>2. InCluster(s, d, AtCluster(g.fptr)) /\ g.clust = d
    BY <1>2, <2>1
  <2> DEFINE p == g.fptr
  <2>3. p \in Nat /\ p % BCS = 0 /\ s \in Seq(Clusters) /\ InCluster(s, d, AtCluster(p))
    BY <1>2, <1>4, <2>2
  <2> HIDE DEF p, s
  <2>4. p + BCS <= Room(s)
    BY <2>3, ClusterOn
  <2>5. Room(s) \in Nat /\ BCS \in Nat
    BY <2>3, RoomIs, Sizes
  <2>6. p <= Room(s)
    BY <2>3, <2>4, <2>5
  <2> QED
    BY <2>2, <2>6 DEF p
<1>6. call.op = "write" => g.fptr <= g.size
  <2>1. call.op = "write" => f.fptr <= f.size
    BY <1>3 DEF FileFits, PointerFits, Seeking, With, Doing
  <2>2. call.op = "write" => k = 0
    OBVIOUS
  <2> HIDE DEF f, g
  <2> QED
    BY <1>1, <1>2, <2>1, <2>2
<1>7. g.size <= Room(s)
  <2>1. Room(ch[n]) \in Nat /\ Room(s) \in Nat /\ f.size \in Nat /\ Room(ch[n]) <= Room(s)
    BY <1>1, <1>3, RoomIs DEF IsFil
  <2> HIDE DEF f, g, s
  <2> QED
    BY <1>2, <1>3, <2>1
<1>8. PointerFits(ch2, n)'
  BY <1>1, <1>2, <1>5, <1>6 DEF PointerFits, Ahead, Seeking, With, Doing
<1>9. ChainFits(ch2, n)'
  BY <1>1, <1>2, <1>7 DEF ChainFits, Cutting, With, Doing
<1>10. SlotFits(n)'
  <2>1. vol.dir[f.slot].kind = "file" /\ vol.dir[f.slot].name = n
    BY <1>3 DEF FileFits, SlotFits
  <2>2. CASE call.op = "write"
    <3>1. With(n, {"write"}, {"next", "sector", "grow", "link"})'
      BY <1>2, <2>2 DEF With, Doing
    <3>2. SlotFits(n)'
      BY <1>2, <2>1, <3>1 DEF SlotFits
    <3> QED
      BY <3>2
  <2>3. CASE call.op = "seek"
    <3>1. f.mod \/ vol.dir[f.slot].clust = f.sclust \/ f.size = 0
      BY <1>1, <1>3, <2>3 DEF FileFits, SlotFits, Cutting, With, Doing
    <3>2. With(n, {"seek"}, {"seek", "seeked", "grow", "link"})' /\ call'.pc = "seek"
      BY <1>2, <2>3 DEF With, Doing
    <3>3. g.fptr + c.left > 0
      BY <1>1, <1>2, <1>4
    <3>4. g.mod \/ vol.dir[f.slot].clust = g.sclust \/ g.size = 0
      BY <1>2, <1>3, <3>1
    <3>5. SlotFits(n)'
      BY <1>2, <2>1, <3>2, <3>3, <3>4 DEF SlotFits
    <3> QED
      BY <3>5
  <2> QED
    BY <1>1, <2>2, <2>3
<1> QED
  BY <1>8, <1>9, <1>10 DEF FileFits

\* Where the next cluster is, once there is one.
LEMMA NextIs ==
  ASSUME FatInv, call.pc \in {"grow", "link"}, NEW n \in Names, n = call.n, NEW ch, ChainsFit(ch),
         NEW k, k = (IF call.op = "seek" /\ call.cl # 0 THEN BCS ELSE 0), call.cl # 0
  PROVE  \A i : InCluster(ch[n], call.cl, i) /\ vol.fat[call.cl] \in Clusters \cup {Eoc} =>
           \E j \in Nat : InCluster(ch[n], call.cl, j) /\ AtCluster(file[n].fptr + k) = j + 1
PROOF
<1> DEFINE f == file[n]
           s == ch[n]
<1>1. /\ call.op \in {"write", "seek"} /\ f.fptr \in Nat /\ f.fptr % BCS = 0
      /\ (call.op = "write" => f.fptr > 0)
  BY InGrowth
<1>2. /\ s \in Seq(Clusters)
      /\ call.op = "write" => InCluster(s, call.cl, ToCluster(f.fptr))
      /\ call.op = "seek" => InCluster(s, call.cl, AtCluster(f.fptr))
  BY GrowthIs
<1> DEFINE p == f.fptr
<1>3. p \in Nat /\ p % BCS = 0 /\ BCS \in Nat
  BY <1>1, Sizes
<1>4. CASE call.op = "write"
  <2>1. k = 0 /\ p > 0 /\ InCluster(s, call.cl, ToCluster(p))
    BY <1>1, <1>2, <1>4
  <2>2. p = f.fptr
    OBVIOUS
  <2> HIDE DEF p, s, f
  <2>3. ToCluster(p) \in Nat /\ AtCluster(p) = ToCluster(p) + 1
    BY <1>3, <2>1, Places
  <2>4. p + k = p
    BY <1>3, <2>1
  <2>5. InCluster(s, call.cl, ToCluster(p)) /\ AtCluster(p + k) = ToCluster(p) + 1 /\ ToCluster(p) \in Nat
    BY <2>1, <2>3, <2>4
  <2> QED
    BY <2>2, <2>5 DEF s, f
<1>5. CASE call.op = "seek"
  <2>1. k = BCS /\ InCluster(s, call.cl, AtCluster(p))
    BY <1>2, <1>5
  <2>2. p = f.fptr
    OBVIOUS
  <2> HIDE DEF p, s, f
  <2>3. AtCluster(p) \in Nat /\ AtCluster(p + k) = AtCluster(p) + 1
    BY <1>2, <1>3, <2>1, ClusterOn, Places
  <2> QED
    BY <2>1, <2>2, <2>3 DEF s, f
<1> QED
  BY <1>1, <1>4, <1>5

\* create_chain in a chain that goes on: it is never a broken one.
LEMMA FollowChainKeeps ==
  ASSUME FatInv, FollowChain
  PROVE  FatInv'
PROOF
<1> DEFINE d == vol.fat[call.cl]
<1>1. /\ call.pc = "grow" /\ call.cl # 0 /\ d # Eoc /\ SeesFat(call.cl)
      /\ UNCHANGED <<fs, loose, failures>>
  BY DEF FollowChain
<1>2. PICK n \in Names : n = call.n /\ IsOpen(n) /\ IsFil(file[n])
  BY <1>1, InGrowth
<1>3. /\ call.op \in {"write", "seek"} /\ InCall /\ WindowFits
  BY <1>1, InGrowth
<1> DEFINE k == IF call.op = "seek" /\ call.cl # 0 THEN BCS ELSE 0
           f == file[n]
<1>4. ASSUME NEW ch, ChainsFit(ch)
      PROVE  /\ d \in Clusters /\ InCluster(ch[n], d, AtCluster(f.fptr + k)) /\ ch[n] \in Seq(Clusters)
             /\ f.sclust = Head0(ch[n]) /\ f.sclust # 0 /\ Room(ch[n]) \in Nat
  <2>1. /\ ch[n] \in Seq(Clusters) /\ Linked(vol.fat, ch[n]) /\ f.sclust = Head0(ch[n]) /\ ch[n] # <<>>
        /\ call.op = "write" => InCluster(ch[n], call.cl, ToCluster(f.fptr))
        /\ call.op = "seek" => InCluster(ch[n], call.cl, AtCluster(f.fptr))
    BY <1>1, <1>2, <1>4, GrowthIs
  <2>2. PICK i : InCluster(ch[n], call.cl, i)
    BY <1>3, <2>1
  <2>3. d \in Clusters \cup {Eoc}
    BY <2>1, <2>2, StepOn
  <2>4. PICK j \in Nat : InCluster(ch[n], call.cl, j) /\ AtCluster(file[n].fptr + k) = j + 1
    <3>1. \A c : InCluster(ch[n], call.cl, c) /\ vol.fat[call.cl] \in Clusters \cup {Eoc} =>
            \E m \in Nat : InCluster(ch[n], call.cl, m) /\ AtCluster(file[n].fptr + k) = m + 1
      BY <1>1, <1>2, <1>4, NextIs
    <3> QED
      BY <2>2, <2>3, <3>1
  <2>5. j # Len(ch[n])
    BY <1>1, <2>1, <2>4, StepOn
  <2>6. InCluster(ch[n], d, j + 1) /\ d \in Clusters
    BY <2>1, <2>4, <2>5, StepOn
  <2> QED
    BY <2>1, <2>4, <2>6, HeadOf, RoomIs
<1>5. PICK ch0 : ChainsFit(ch0)
  BY DEF FatInv
<1>6. d \in Clusters
  BY <1>4, <1>5
<1>7. GoesOnIn(d)
  BY <1>6 DEF FollowChain
<1>8. WindowFits' /\ (disk' = disk \/ AsSeen(disk')) /\ vol' = vol
  BY <1>1, <1>3, SeesFatKeeps
<1> HIDE DEF d
<1>9. /\ FilesTyped' /\ (\A m \in Names \ {n} : file'[m] = file[m])
      /\ IsFil(file'[n]) /\ file'[n].mod = f.mod
      /\ IsCall(call') /\ call'.n = n /\ call'.op = call.op /\ call'.short = call.short
      /\ call'.pc = (IF call.op = "seek" THEN "seek" ELSE "sector")
      /\ InPhase' /\ On(n)
  BY <1>1, <1>2, <1>6, <1>7, GoesOnIs
<1>10. ASSUME NEW ch, ChainsFit(ch) PROVE FileFits(ch, n)'
  <2>1. /\ InCluster(ch[n], d, AtCluster(f.fptr + k)) /\ ch[n] \in Seq(Clusters)
        /\ (IF f.sclust = 0 THEN d ELSE f.sclust) = Head0(ch[n]) /\ Room(ch[n]) <= Room(ch[n])
    BY <1>4, <1>10
  <2>2. vol'.dir = vol.dir
    BY <1>8
  <2> QED
    BY <1>1, <1>2, <1>6, <1>7, <1>10, <2>1, <2>2, GrownFits
<1>11. n \in loose => file'[n].mod \/ Cutting(n)'
  BY <1>1, <1>9 DEF FatInv, LooseFit, Cutting, With, Doing
<1>12. {call.pc, call'.pc} \cap {"free", "link"} = {}
       /\ call.op \in Moving /\ call'.op \in Moving /\ (call'.short => InCall /\ call.short /\ call.pc # "done")
  BY <1>1, <1>3, <1>9 DEF Moving
<1> QED
  BY <1>1, <1>2, <1>8, <1>9, <1>10, <1>11, <1>12, FileStep

\* Until the power fails, a count of 0 means that no cluster is free.
LEMMA NoneIsFree ==
  ASSUME FatInv, call.pc # "link", failures = 0, fs.free = 0
  PROVE  FreeNow = {}
PROOF
<1>1. IsFiniteSet(FreeNow)
  <2>1. IsFiniteSet(2..LastCluster)
    BY Sizes, FS_Interval
  <2> QED
    BY <2>1, FS_Subset DEF FreeNow, Clusters
<1>2. Cardinality(FreeNow) = 0
  <2>1. fs.free = Cardinality(FreeNow) + 0 /\ Cardinality(FreeNow) \in Nat
    BY <1>1, Sizes, FS_CardinalityType DEF FatInv, Counts
  <2> QED
    BY <2>1
<1> QED
  BY <1>1, <1>2, FS_EmptySet

\* create_chain finds no free cluster: a write is cut short.
LEMMA VolumeFullKeeps ==
  ASSUME FatInv, VolumeFull
  PROVE  FatInv'
PROOF
<1>1. /\ call.pc = "grow" /\ (call.cl # 0 => vol.fat[call.cl] = Eoc) /\ (fs.free = 0 \/ FreeNow = {})
      /\ GoesNoFurther /\ UNCHANGED <<fs, loose, failures>>
  BY DEF VolumeFull
<1>2. PICK n \in Names : n = call.n /\ IsOpen(n) /\ IsFil(file[n])
  BY <1>1, InGrowth
<1> DEFINE f == file[n]
<1>3. /\ call.op \in {"write", "seek"} /\ InCall /\ WindowFits /\ IsCall(call) /\ f.fptr \in Nat
      /\ f.fptr % BCS = 0 /\ VolTyped(vol) /\ BCS \in Nat \ {0} /\ f.size \in Nat
  BY <1>1, <1>2, InGrowth, Parts, Sizes DEF IsFil
<1>4. ASSUME NEW ch, ChainsFit(ch)
      PROVE  /\ ch[n] \in Seq(Clusters) /\ FileFits(ch, n)
             /\ f.sclust = Head0(ch[n]) /\ f.size <= Room(ch[n]) /\ f.fptr <= Room(ch[n])
             /\ call.cl = 0 => ch[n] = <<>> /\ f.sclust = 0 /\ f.fptr = 0 /\ f.size = 0
             /\ call.cl # 0 /\ call.op = "write" => InCluster(ch[n], call.cl, ToCluster(f.fptr))
             /\ call.cl # 0 /\ call.op = "seek" => InCluster(ch[n], call.cl, AtCluster(f.fptr))
             /\ call.cl # 0 => f.clust = call.cl
  BY <1>1, <1>2, <1>4, GrowthIs
<1>5. PICK ch0 : ChainsFit(ch0)
  BY DEF FatInv
<1>6. call.cl \in {0} \cup Clusters
  BY <1>1, <1>2, <1>5, GrowthIs
<1>7. WindowFits' /\ (disk' = disk \/ AsSeen(disk')) /\ vol' = vol
  <2> DEFINE far == Farthest(call.cl)
  <2>1. far \in Clusters /\ FatSector(far) \in SeenTo(call.cl, far)
    BY <1>3, <1>6, FarthestIs, SeenLast
  <2>2. \/ Sees(SeenTo(call.cl, far), FatSector(far))
        \/ SeesFat(call.cl)
        \/ SeesNothing
    BY DEF VolumeFull
  <2> HIDE DEF far
  <2> QED
    BY <1>3, <2>1, <2>2, SeesKeeps, SeesFatKeeps, SeesNothingKeeps
<1>8. failures = 0 => FreeNow = {}
  BY <1>1, NoneIsFree
<1>9. n \in loose => f.mod
  BY <1>1 DEF FatInv, LooseFit, Cutting, With, Doing
<1>10. CASE call.op = "write"
  <2> DEFINE g == [f EXCEPT !.mod = TRUE]
             c == [call EXCEPT !.pc = "done", !.short = TRUE]
  <2>1. SetFile(n, g) /\ call' = c
    BY <1>1, <1>2, <1>10 DEF GoesNoFurther
  <2>2. /\ IsFil(g) /\ g.slot = f.slot /\ g.sclust = f.sclust /\ g.size = f.size
        /\ g.fptr = f.fptr /\ g.clust = f.clust /\ g.mod = TRUE
    BY <1>2 DEF IsFil, FilFields
  <2>3. IsCall(c) /\ c.n = n /\ c.op = "write" /\ c.pc = "done"
    BY <1>2, <1>3, <1>10 DEF IsCall, CallFields
  <2>4. file'[n] = g /\ FilesTyped' /\ \A m \in Names \ {n} : file'[m] = file[m]
    BY <2>1, <2>2, FileSet, Parts
  <2> HIDE DEF g, c
  <2>5. ASSUME NEW ch, ChainsFit(ch) PROVE FileFits(ch, n)'
    <3>1. /\ FileFits(ch, n) /\ f.sclust = Head0(ch[n]) /\ f.size <= Room(ch[n]) /\ f.fptr <= Room(ch[n])
          /\ (f.fptr > 0 => InCluster(ch[n], f.clust, ToCluster(f.fptr)))
      BY <1>3, <1>4, <1>10, <2>5
    <3>2. f.fptr <= f.size
      BY <1>10, <3>1 DEF FileFits, PointerFits, Seeking, With, Doing
    <3>3. PointerFits(ch, n)'
      BY <2>1, <2>2, <2>3, <2>4, <3>1, <3>2 DEF PointerFits, Ahead, Seeking, With, Doing
    <3>4. ChainFits(ch, n)'
      BY <2>1, <2>2, <2>3, <2>4, <3>1 DEF ChainFits, Cutting, With, Doing
    <3>5. SlotFits(n)'
      BY <1>7, <2>2, <2>4, <3>1 DEF FileFits, SlotFits
    <3> QED
      BY <3>3, <3>4, <3>5 DEF FileFits
  <2>6. InPhase'
    BY <2>1, <2>2, <2>3, <2>4 DEF InPhase, Phase, IsOpen, IsFil
  <2>7. On(n) /\ {call.pc, c.pc} \cap {"free", "link"} = {} /\ call.op \in Moving /\ c.op \in Moving
    BY <1>1, <1>2, <1>10, <2>3 DEF On, Moving
  <2>8. (n \in loose => g.mod \/ Cutting(n)')
        /\ (c.short => \/ InCall /\ call.short /\ call.pc # "done"
                       \/ failures = 0 => FreeNow = {} /\ c.pc = "done")
    BY <1>8, <2>2, <2>3
  <2> QED
    BY <1>1, <1>2, <1>7, <2>1, <2>2, <2>3, <2>4, <2>5, <2>6, <2>7, <2>8, FileStep
<1>11. CASE call.op = "seek"
  <2> DEFINE p == IF call.cl = 0 THEN f.fptr ELSE f.fptr + BCS
             clust == IF call.cl = 0 THEN 0 ELSE f.clust
             g == IF call.cl = 0 THEN [f EXCEPT !.clust = 0] ELSE [f EXCEPT !.fptr = p]
             c == [call EXCEPT !.pc = "seeked"]
  <2>1. SetFile(n, g) /\ call' = c
    BY <1>1, <1>2, <1>11 DEF GoesNoFurther, Goes
  <2>2. p \in Nat /\ (call.cl # 0 => p > 0)
    <3> HIDE DEF f
    <3> QED
      BY <1>3
  <2>3. /\ IsFil(g) /\ g.slot = f.slot /\ g.sclust = f.sclust /\ g.size = f.size
        /\ g.fptr = p /\ g.clust = clust /\ g.mod = f.mod
    <3>1. CASE call.cl = 0
      BY <1>2, <3>1 DEF IsFil, FilFields
    <3>2. CASE call.cl # 0
      <4> HIDE DEF p
      <4> QED
        BY <1>2, <2>2, <3>2 DEF IsFil, FilFields
    <3> QED
      BY <3>1, <3>2
  <2>4. IsCall(c) /\ c.n = n /\ c.op = "seek" /\ c.pc = "seeked" /\ c.short = call.short
    BY <1>2, <1>3, <1>11 DEF IsCall, CallFields
  <2> HIDE DEF g, c
  <2>5. file'[n] = g /\ FilesTyped' /\ \A m \in Names \ {n} : file'[m] = file[m]
    BY <2>1, <2>3, FileSet, Parts
  <2>6. ASSUME NEW ch, ChainsFit(ch) PROVE FileFits(ch, n)'
    <3>1. /\ FileFits(ch, n) /\ f.sclust = Head0(ch[n]) /\ f.size <= Room(ch[n])
          /\ ch[n] \in Seq(Clusters)
      BY <1>4, <2>6
    <3>2. p <= Room(ch[n]) /\ (p > 0 => InCluster(ch[n], clust, ToCluster(p)))
      <4>1. CASE call.cl = 0
        <5>1. p = 0 /\ Room(ch[n]) \in Nat
          BY <1>4, <2>6, <3>1, <4>1, RoomIs
        <5> HIDE DEF p
        <5> QED
          BY <5>1
      <4>2. CASE call.cl # 0
        <5> DEFINE q == f.fptr
        <5>1. /\ InCluster(ch[n], f.clust, AtCluster(q)) /\ q \in Nat /\ q % BCS = 0 /\ p = q + BCS
              /\ clust = f.clust
          BY <1>3, <1>4, <1>11, <2>6, <4>2
        <5> HIDE DEF q, p, f, clust
        <5>2. q + BCS <= Room(ch[n]) /\ ToCluster(q + BCS) = AtCluster(q)
          BY <3>1, <5>1, ClusterOn
        <5> QED
          BY <5>1, <5>2
      <4> QED
        BY <4>1, <4>2
    <3> HIDE DEF p, clust
    <3>3. PointerFits(ch, n)'
      BY <2>1, <2>3, <2>4, <2>5, <3>2 DEF PointerFits, Ahead, Seeking, With, Doing
    <3>4. ChainFits(ch, n)'
      BY <2>1, <2>3, <2>4, <2>5, <3>1 DEF ChainFits, Cutting, With, Doing
    <3>5. SlotFits(n)'
      <4> DEFINE e == vol.dir[f.slot]
      <4>1. e.kind = "file" /\ e.name = n /\ (f.mod \/ e.clust = f.sclust \/ f.size = 0)
        BY <1>1, <1>11, <3>1 DEF FileFits, SlotFits, Cutting, With, Doing
      <4>2. f.mod \/ e.clust = f.sclust \/ (f.size = 0 /\ p > 0)
        <5>1. CASE call.cl # 0
          BY <2>2, <4>1, <5>1
        <5>2. ASSUME call.cl = 0, ~f.mod PROVE e.clust = f.sclust
          <6>1. f.slot \in Slots /\ IsFile(f.slot) /\ ~Loose(n) /\ ~Excused(f.slot)
            BY <1>2, <1>9, <1>11, <4>1, <5>2 DEF IsFil, IsFile, Loose, Excused, Doing
          <6>2. EntryFits(ch, f.slot)
            BY <2>6, <6>1 DEF ChainsFit, EntriesFit
          <6>3. e.clust \in {0, Head0(ch[n])}
            BY <1>2, <4>1, <6>1, <6>2 DEF EntryFits
          <6> QED
            BY <1>4, <2>6, <3>1, <5>2, <6>3
        <5> QED
          BY <4>1, <5>1, <5>2
      <4>3. With(n, {"seek"}, {"seek", "seeked", "grow", "link"})' /\ call'.pc = "seeked"
        BY <2>1, <2>4 DEF With, Doing
      <4> QED
        BY <1>7, <2>3, <2>5, <4>1, <4>2, <4>3 DEF SlotFits
    <3> QED
      BY <3>3, <3>4, <3>5 DEF FileFits
  <2>7. InPhase'
    BY <2>1, <2>3, <2>4, <2>5 DEF InPhase, Phase, IsOpen, IsFil
  <2>8. On(n) /\ {call.pc, c.pc} \cap {"free", "link"} = {} /\ call.op \in Moving /\ c.op \in Moving
    BY <1>1, <1>2, <1>11, <2>4 DEF On, Moving
  <2>9. (n \in loose => g.mod \/ Cutting(n)') /\ (c.short => InCall /\ call.short /\ call.pc # "done")
    BY <1>1, <1>3, <1>9, <2>3, <2>4
  <2> QED
    BY <1>1, <1>2, <1>7, <2>1, <2>3, <2>4, <2>5, <2>6, <2>7, <2>8, <2>9, FileStep
<1> QED
  BY <1>3, <1>10, <1>11

-----------------------------------------------------------------------------
(* The free clusters and their count *)

\* The free clusters are finitely many.
LEMMA FreeNowIs ==
  /\ IsFiniteSet(FreeNow) /\ Cardinality(FreeNow) \in Nat /\ Cardinality(FreeNow) <= NFree
  /\ FreeNow \subseteq Clusters /\ IsFiniteSet(Clusters) /\ Cardinality(Clusters) = NFree
PROOF
<1>1. IsFiniteSet(2..LastCluster) /\ Cardinality(2..LastCluster) = LastCluster - 2 + 1
  BY Sizes, FS_Interval
<1>2. IsFiniteSet(Clusters) /\ Cardinality(Clusters) = NFree /\ FreeNow \subseteq Clusters
  BY <1>1, Sizes DEF Clusters, FreeNow
<1>3. IsFiniteSet(FreeNow) /\ Cardinality(FreeNow) <= Cardinality(Clusters)
  BY <1>2, FS_Subset
<1> QED
  BY <1>2, <1>3, FS_CardinalityType

\* An entry that is given a mark or a link is one free cluster less,
LEMMA OneLess ==
  ASSUME VolTyped(vol), NEW d \in Clusters, vol.fat[d] = 0, NEW x, x # 0, vol'.fat = [vol.fat EXCEPT ![d] = x]
  PROVE  Cardinality(FreeNow') = Cardinality(FreeNow) - 1 /\ Cardinality(FreeNow) > 0
PROOF
<1>1. vol.fat \in Tables
  BY DEF VolTyped
<1>2. FreeNow' = FreeNow \ {d} /\ d \in FreeNow
  BY <1>1 DEF FreeNow, Tables
<1>3. IsFiniteSet(FreeNow) /\ Cardinality(FreeNow) \in Nat
  BY FreeNowIs
<1>4. Cardinality(FreeNow \ {d}) = Cardinality(FreeNow) - 1 /\ Cardinality(FreeNow) # 0
  BY <1>2, <1>3, FS_RemoveElement, FS_EmptySet
<1> QED
  BY <1>2, <1>3, <1>4

\* one that is set to 0 is one more,
LEMMA OneMore ==
  ASSUME VolTyped(vol), NEW d \in Clusters, vol.fat[d] # 0, vol'.fat = [vol.fat EXCEPT ![d] = 0]
  PROVE  Cardinality(FreeNow') = Cardinality(FreeNow) + 1 /\ Cardinality(FreeNow) < NFree
PROOF
<1>1. vol.fat \in Tables
  BY DEF VolTyped
<1>2. FreeNow' = FreeNow \cup {d} /\ d \notin FreeNow
  BY <1>1 DEF FreeNow, Tables
<1>3. IsFiniteSet(FreeNow) /\ Cardinality(FreeNow) \in Nat /\ IsFiniteSet(Clusters)
      /\ Cardinality(Clusters) = NFree /\ FreeNow \subseteq Clusters
  BY FreeNowIs
<1>4. Cardinality(FreeNow \cup {d}) = Cardinality(FreeNow) + 1
  BY <1>2, <1>3, FS_AddElement
<1>5. FreeNow \cup {d} \subseteq Clusters
  BY <1>3
<1>6. Cardinality(FreeNow \cup {d}) <= Cardinality(Clusters)
  BY <1>3, <1>5, FS_Subset
<1> QED
  BY <1>2, <1>3, <1>4, <1>6, Sizes

\* and one that only changes makes no difference.
LEMMA NoneMore ==
  ASSUME VolTyped(vol), NEW d \in Clusters, vol.fat[d] # 0, NEW x, x # 0, vol'.fat = [vol.fat EXCEPT ![d] = x]
  PROVE  FreeNow' = FreeNow
BY DEF FreeNow, Tables, VolTyped

\* The count after create_chain.
LEMMA GivenIs ==
  ASSUME FsTyped, fs.free # 0, NEW c, fs' = Given(c)
  PROVE  /\ FsTyped' /\ (fs.free = Unknown => fs'.free = Unknown)
         /\ fs.free # Unknown => fs'.free = fs.free - 1 /\ fs'.free # Unknown
PROOF
<1> DEFINE free == IF fs.free <= NFree THEN fs.free - 1 ELSE fs.free
<1>1. fs.free \in 0..Unknown /\ Unknown = NFree + 1 /\ NFree \in Nat
  BY Sizes DEF FsTyped
<1>2. free \in 0..Unknown /\ (fs.free = Unknown => free = Unknown)
      /\ (fs.free # Unknown => free = fs.free - 1 /\ free # Unknown)
  BY <1>1
<1>3. fs' = [fs EXCEPT !.last = c, !.free = free, !.fsi = TRUE]
  BY DEF Given
<1> HIDE DEF free
<1>4. fs'.free = free /\ DOMAIN fs' = {"last", "free", "fsi"}
  BY <1>3 DEF FsTyped
<1> QED
  BY <1>2, <1>4 DEF FsTyped

\* The count after remove_chain has freed a cluster.
LEMMA CountedIs ==
  ASSUME FsTyped, fs' = Counted
  PROVE  /\ FsTyped' /\ (fs.free < NFree => fs'.free = fs.free + 1) /\ (~(fs.free < NFree) => fs'.free = fs.free)
PROOF
<1>1. fs.free \in 0..Unknown /\ Unknown = NFree + 1 /\ NFree \in Nat
  BY Sizes DEF FsTyped
<1>2. CASE fs.free < NFree
  <2> DEFINE free == fs.free + 1
  <2>1. fs' = [fs EXCEPT !.free = free, !.fsi = TRUE]
    BY <1>2 DEF Counted
  <2>2. free \in 0..Unknown
    BY <1>1, <1>2
  <2>3. free = fs.free + 1
    OBVIOUS
  <2> HIDE DEF free
  <2>4. fs'.free = free /\ DOMAIN fs' = {"last", "free", "fsi"}
    BY <2>1 DEF FsTyped
  <2> QED
    BY <1>2, <2>2, <2>3, <2>4 DEF FsTyped
<1>3. CASE ~(fs.free < NFree)
  BY <1>3 DEF Counted, FsTyped
<1> QED
  BY <1>2, <1>3

-----------------------------------------------------------------------------
(* A chain gets longer *)

\* The entry of a file whose chain grows still names its first cluster, or none.
LEMMA GrownEntries ==
  ASSUME FatInv, call.pc \in {"grow", "link"}, NEW n \in Names, n = call.n, NEW ch, ChainsFit(ch), NEW ch2,
         vol'.dir = vol.dir, loose' = loose, IsOpen(n)', call'.op = call.op,
         ch[n] = <<>> \/ Head0(ch2[n]) = Head0(ch[n]), Room(ch[n]) <= Room(ch2[n]),
         ch2[n] \in Seq(Clusters)
  PROVE  /\ \A i \in Slots : IsFile(i) /\ vol.dir[i].name = n => EntryFits(ch2, i)'
         /\ \E i \in Slots : IsFile(i) /\ vol.dir[i].name = n
PROOF
<1>1. /\ call.op \in {"write", "seek"} /\ IsOpen(n) /\ IsFil(file[n]) /\ VolTyped(vol)
  BY InGrowth, Parts
<1>2. (Loose(n) <=> n \in loose) /\ (Loose(n)' <=> n \in loose)
  BY <1>1 DEF Loose, With, Doing
<1>3. FileFits(ch, n) /\ ch[n] \in Seq(Clusters)
  BY <1>1, OfFile
<1>4. Room(ch[n]) \in Nat /\ Room(ch2[n]) \in Nat
  BY <1>3, RoomIs
<1>5. ASSUME NEW i \in Slots, IsFile(i), vol.dir[i].name = n PROVE EntryFits(ch2, i)'
  <2> DEFINE e == vol.dir[i]
  <2>1. EntryFits(ch, i)
    BY <1>1, <1>5 DEF ChainsFit, EntriesFit, Excused, Doing
  <2>2. e.size \in Nat
    BY <1>1, <1>5 DEF VolTyped, DirTyped, EntryOk, IsFile
  <2>3. n \notin loose =>
          e.clust \in {0, Head0(ch[n])} /\ (e.clust = 0 => e.size = 0) /\ e.size <= Room(ch[n])
    BY <1>1, <1>2, <1>5, <2>1 DEF EntryFits
  <2>4. n \notin loose => e.clust \in {0, Head0(ch2[n])} /\ e.size <= Room(ch2[n])
    <3>1. ch[n] = <<>> => Head0(ch[n]) = 0
      BY DEF Head0
    <3>2. n \notin loose => e.clust \in {0, Head0(ch2[n])}
      BY <2>3, <3>1
    <3>3. n \notin loose => e.size <= Room(ch2[n])
      BY <1>4, <2>2, <2>3
    <3> QED
      BY <3>2, <3>3
  <2>5. vol'.dir[i] = e
    OBVIOUS
  <2> HIDE DEF e
  <2>6. e.name = n
    BY <1>5 DEF e
  <2> QED
    BY <1>2, <2>3, <2>4, <2>5, <2>6 DEF EntryFits
<1>6. file[n].slot \in Slots /\ IsFile(file[n].slot) /\ vol.dir[file[n].slot].name = n
  BY <1>1, <1>3 DEF IsFil, FileFits, SlotFits, IsFile
<1> QED
  BY <1>5, <1>6

\* create_chain marks a free cluster as the end of a chain.
LEMMA TakeClusterKeeps ==
  ASSUME FatInv, TakeCluster
  PROVE  FatInv'
PROOF
<1>a. PICK a : a = call.cl
  OBVIOUS
<1>d. PICK d : d = Nearest(a)
  OBVIOUS
<1>1. /\ call.pc = "grow" /\ (a # 0 => vol.fat[a] = Eoc) /\ fs.free # 0 /\ FreeNow # {}
      /\ PutFat(SeenTo(a, d), d, Eoc) /\ UNCHANGED <<loose, failures>>
  BY <1>a, <1>d DEF TakeCluster, NewMark
<1>2. PICK n \in Names : n = call.n /\ IsOpen(n) /\ IsFil(file[n]) /\ Growing(file[n])
  BY <1>1, InGrowth
<1>3. /\ call.op \in {"write", "seek"} /\ InCall /\ WindowFits /\ IsCall(call) /\ VolTyped(vol)
      /\ FsTyped /\ FilesTyped /\ loose \subseteq Names /\ failures \in Nat /\ ~Removing
  BY <1>1, InGrowth, Parts
<1>4. PICK ch : ChainsFit(ch)
  BY DEF FatInv
<1>5. a \in {0} \cup Clusters
  BY <1>a, <1>1, <1>2, <1>4, GrowthIs
<1>6. d \in Clusters /\ vol.fat[d] = 0
  BY <1>d, <1>1, <1>3, <1>5, NearestIs
<1>7. a = call.cl
  BY <1>a
<1>8. (a = 0 => fs' = Given(d) /\ GoesOnIn(d))
      /\ (a # 0 => call' = [call EXCEPT !.pc = "link", !.new = d] /\ UNCHANGED <<fs, file>>)
  BY <1>a, <1>d DEF TakeCluster, NewMark
<1>9. /\ WindowFits' /\ (disk' = disk \/ AsSeen(disk'))
      /\ vol'.fat = [vol.fat EXCEPT ![d] = Eoc] /\ vol'.dir = vol.dir
  BY <1>1, <1>3, <1>6, PutFatKeeps DEF Links
<1>10. /\ Chained(vol.fat, ch) /\ ch[Nobody] = <<>> /\ ch \in Chainings /\ vol.fat \in Tables
  BY <1>1, <1>3, <1>4 DEF ChainsFit, Floating, Chained, VolTyped
<1>11. Cardinality(FreeNow') = Cardinality(FreeNow) - 1 /\ Cardinality(FreeNow) > 0
       /\ Cardinality(FreeNow) \in Nat
  BY <1>3, <1>6, <1>9, Numbers, OneLess, FreeNowIs
<1>12. failures = 0 /\ call.short => FALSE
  BY <1>1, <1>3 DEF FatInv, Counts
<1>13. failures = 0 /\ fs.free # Unknown => fs.free = Cardinality(FreeNow)
  BY <1>1, <1>11 DEF FatInv, Counts
<1>14. n \in loose => file[n].mod
  BY <1>1 DEF FatInv, LooseFit, Cutting, With, Doing
<1>15. n \in Owners /\ Nobody \in Owners /\ n # Nobody
  BY NobodyIs DEF Owners
<1>16. CASE a = 0
  <2> DEFINE ch2 == [ch EXCEPT ![n] = <<d>>]
  <2>1. /\ ch[n] = <<>> /\ file[n].sclust = 0 /\ file[n].fptr = 0 /\ Room(ch[n]) <= Room(ch[n])
    <3>1. ch[n] = <<>> /\ file[n].sclust = 0 /\ file[n].fptr = 0 /\ ch[n] \in Seq(Clusters)
      BY <1>1, <1>2, <1>4, <1>7, <1>16, GrowthIs
    <3>2. Room(ch[n]) \in Nat
      BY <3>1, RoomIs
    <3>3. Room(ch[n]) <= Room(ch[n])
      BY <3>2
    <3> QED
      BY <3>1, <3>3
  <2>2. Chained(vol'.fat, ch2) /\ (Complete(vol.fat, ch) => Complete(vol'.fat, ch2))
    BY <1>6, <1>9, <1>10, <1>15, <2>1, NewChain
  <2>3. ch2[n] = <<d>> /\ \A p \in Owners \ {n} : ch2[p] = ch[p]
    BY <1>10, <1>15 DEF Chainings
  <2> HIDE DEF ch2
  <2>4. <<d>> \in Seq(Clusters) /\ Head0(<<d>>) = d /\ InCluster(<<d>>, d, 1)
    BY <1>6 DEF Head0, InCluster
  <2>5. Room(ch[n]) <= Room(ch2[n])
    <3>1. Room(ch2[n]) \in Nat
      BY <2>3, <2>4, RoomIs
    <3>2. Room(ch[n]) = 0
      <4>1. <<>> \in Seq(Clusters)
        OBVIOUS
      <4> QED
        BY <2>1, <4>1, RoomIs
    <3> QED
      BY <3>1, <3>2
  <2>k. PICK k : k = (IF call.op = "seek" /\ call.cl # 0 THEN BCS ELSE 0)
    OBVIOUS
  <2>6. k = 0 /\ file[n].fptr + k = 0
    <3>1. k = 0
      BY <1>7, <1>16, <2>k
    <3> QED
      BY <2>1, <3>1
  <2>7. GoesOnIn(d) /\ fs' = Given(d)
    BY <1>8, <1>16
  <2>8. /\ FilesTyped' /\ (\A m \in Names \ {n} : file'[m] = file[m])
        /\ IsFil(file'[n]) /\ file'[n].mod = file[n].mod
        /\ IsCall(call') /\ call'.n = n /\ call'.op = call.op /\ call'.short = call.short
        /\ call'.pc = (IF call.op = "seek" THEN "seek" ELSE "sector")
        /\ InPhase' /\ On(n) /\ On(n)' /\ ~Removing' /\ IsOpen(n)'
    BY <1>1, <1>2, <1>6, <2>7, <2>k, GoesOnIs
  <2>9. FileFits(ch2, n)'
    <3>1. InCluster(ch2[n], d, AtCluster(file[n].fptr + k))
      BY <2>3, <2>4, <2>6, AtZero
    <3>2. (IF file[n].sclust = 0 THEN d ELSE file[n].sclust) = Head0(ch2[n]) /\ ch2[n] \in Seq(Clusters)
      BY <2>1, <2>3, <2>4
    <3> QED
      BY <1>1, <1>2, <1>4, <1>6, <1>9, <2>5, <2>7, <2>k, <3>1, <3>2, GrownFits
  <2>10. /\ \A i \in Slots : IsFile(i) /\ vol.dir[i].name = n => EntryFits(ch2, i)'
         /\ \E i \in Slots : IsFile(i) /\ vol.dir[i].name = n
    <3>1. /\ ch2[n] \in Seq(Clusters) /\ (ch[n] = <<>> \/ Head0(ch2[n]) = Head0(ch[n]))
          /\ call.pc \in {"grow", "link"} /\ loose' = loose /\ call'.op = call.op /\ IsOpen(n)'
      BY <1>1, <2>1, <2>3, <2>4, <2>8
    <3> QED
      BY <1>2, <1>4, <1>9, <2>5, <3>1, GrownEntries
  <2>11. Floating(ch2)'
    BY <1>3, <1>10, <1>15, <2>3, <2>8 DEF Floating
  <2>12. FsTyped' /\ (fs.free = Unknown => fs'.free = Unknown)
         /\ (fs.free # Unknown => fs'.free = fs.free - 1 /\ fs'.free # Unknown)
    BY <1>1, <1>3, <2>7, GivenIs
  <2>13. Typed'
    BY <1>1, <1>3, <1>9, <2>8, <2>12, TypedNext
  <2>14. Counts'
    <3>1. call'.pc # "link"
      BY <2>8
    <3>2. ASSUME failures' = 0, fs'.free # Unknown PROVE fs'.free = Cardinality(FreeNow') + 0
      BY <1>1, <1>11, <1>13, <2>12, <3>2
    <3>3. ASSUME failures' = 0, call'.short PROVE FALSE
      BY <1>1, <1>12, <2>8, <3>3
    <3> QED
      BY <3>1, <3>2, <3>3 DEF Counts
  <2>15. n \in loose => LooseFits(n)'
    BY <1>14, <2>8 DEF LooseFits
  <2>16. Steady' => Steady
    BY <1>1, <1>3, <2>8, SteadyStays
  <2>17. \A m \in Names \ {n} : ch2[m] = ch[m]
    BY <2>3 DEF Owners
  <2> QED
    BY <1>1, <1>3, <1>4, <1>9, <2>2, <2>8, <2>9, <2>10, <2>11, <2>13, <2>14, <2>15, <2>16, <2>17, TableKeeps
<1>17. CASE a # 0
  <2> DEFINE ch2 == [ch EXCEPT ![Nobody] = <<d>>]
  <2>1. Chained(vol'.fat, ch2) /\ (Complete(vol.fat, ch) => Complete(vol'.fat, ch2))
    <3> HIDE DEF ch2
    <3>1. /\ Chained([vol.fat EXCEPT ![d] = Eoc], [ch EXCEPT ![Nobody] = <<d>>])
          /\ Complete(vol.fat, ch) => Complete([vol.fat EXCEPT ![d] = Eoc], [ch EXCEPT ![Nobody] = <<d>>])
      BY <1>6, <1>10, <1>15, NewChain, Zenon
    <3>2. ch2 = [ch EXCEPT ![Nobody] = <<d>>]
      BY DEF ch2
    <3> QED
      BY <1>9, <3>1, <3>2
  <2> DEFINE f == file[n]
             c == [call EXCEPT !.pc = "link", !.new = d]
  <2>2. ch2[Nobody] = <<d>> /\ \A m \in Names : ch2[m] = ch[m]
    BY <1>10, <1>15, NobodyIs DEF Chainings, Owners
  <2> HIDE DEF ch2
  <2>3. call' = c /\ file' = file /\ fs' = fs
    BY <1>8, <1>17
  <2>4. IsCall(c) /\ c.n = n /\ c.op = call.op /\ c.pc = "link" /\ c.short = call.short /\ c.left = call.left
        /\ c.cl = a /\ c.new = d
    BY <1>2, <1>3, <1>7 DEF IsCall, CallFields
  <2>5. file'[n] = f /\ FilesTyped' /\ \A m \in Names \ {n} : file'[m] = file[m]
    BY <2>3, SameFile
  <2> HIDE DEF c
  <2>6. FileFits(ch2, n)'
    <3>1. FileFits(ch, n)
      BY <1>2, <1>4, OfFile
    <3>2. PointerFits(ch2, n)'
      BY <1>1, <1>2, <1>3, <1>7, <1>17, <2>2, <2>3, <2>4, <2>5, <3>1
         DEF FileFits, PointerFits, Ahead, Seeking, With, Doing
    <3>3. ChainFits(ch2, n)'
      BY <1>1, <2>2, <2>3, <2>4, <2>5, <3>1 DEF FileFits, ChainFits, Cutting, With, Doing
    <3>4. SlotFits(n)'
      BY <1>1, <1>2, <1>9, <2>3, <2>4, <2>5, <3>1 DEF FileFits, SlotFits, Cutting, With, Doing
    <3> QED
      BY <3>2, <3>3, <3>4 DEF FileFits
  <2>7. IsOpen(n)' /\ On(n) /\ On(n)' /\ ~Removing'
    BY <1>2, <1>3, <2>3, <2>4, <2>5 DEF IsOpen, On, Removing, Doing
  <2>8. /\ \A i \in Slots : IsFile(i) /\ vol.dir[i].name = n => EntryFits(ch2, i)'
        /\ \E i \in Slots : IsFile(i) /\ vol.dir[i].name = n
    <3>1. ch2[n] = ch[n] /\ ch[n] \in Seq(Clusters) /\ call'.op = call.op
      BY <1>4, <2>2, <2>3, <2>4, OfFile
    <3>2. Room(ch[n]) <= Room(ch2[n]) /\ Head0(ch2[n]) = Head0(ch[n]) /\ ch2[n] \in Seq(Clusters)
      BY <3>1, RoomIs
    <3> QED
      BY <1>1, <1>2, <1>4, <1>9, <2>7, <3>1, <3>2, GrownEntries
  <2>9. Floating(ch2)'
    BY <2>2, <2>3, <2>4 DEF Floating
  <2>10. Typed'
    BY <1>1, <1>3, <1>9, <2>3, <2>4, <2>5, TypedNext DEF FsTyped
  <2>11. Counts'
    <3>1. call'.pc = "link"
      BY <2>3, <2>4
    <3>2. ASSUME failures' = 0, fs'.free # Unknown PROVE fs'.free = Cardinality(FreeNow') + 1
      BY <1>1, <1>11, <1>13, <2>3, <3>2
    <3>3. ASSUME failures' = 0, call'.short PROVE FALSE
      BY <1>1, <1>12, <2>3, <2>4, <3>3
    <3> QED
      BY <3>1, <3>2, <3>3 DEF Counts
  <2>12. n \in loose => LooseFits(n)'
    BY <1>14, <2>5, <2>7 DEF LooseFits
  <2>13. Steady' => Steady
    BY <1>1, <1>3, <2>3, <2>4, SteadyStays
  <2>14. InPhase'
    <3>1. vol'.fat[a] = Eoc
      BY <1>1, <1>5, <1>6, <1>9, <1>10, <1>17, Numbers DEF Tables
    <3>2. /\ Phase(call.op, f, call.pc)
      BY <1>2, Parts
    <3>3. call'.cl = a /\ call'.new \in Clusters /\ fs'.free # 0 /\ call'.n = n /\ call'.op = call.op
          /\ call'.left = call.left /\ call'.pc = "link"
      BY <1>1, <1>6, <2>3, <2>4
    <3>4. CASE call.op = "write"
      BY <1>1, <1>7, <1>17, <2>5, <2>7, <3>1, <3>2, <3>3, <3>4 DEF InPhase, Phase, Growing
    <3>5. CASE call.op = "seek"
      BY <1>1, <1>7, <1>17, <2>5, <2>7, <3>1, <3>2, <3>3, <3>5 DEF InPhase, Phase, Growing
    <3> QED
      BY <1>3, <3>4, <3>5
  <2>15. \A m \in Names \ {n} : ch2[m] = ch[m]
    BY <2>2
  <2> QED
    BY <1>1, <1>3, <1>4, <1>9, <2>1, <2>5, <2>6, <2>7, <2>8, <2>9, <2>10, <2>11, <2>12, <2>13, <2>14, <2>15, TableKeeps
<1> QED
  BY <1>16, <1>17

\* And links the file's chain to it.
LEMMA LinkClusterKeeps ==
  ASSUME FatInv, LinkCluster
  PROVE  FatInv'
PROOF
<1>a. PICK a : a = call.cl
  OBVIOUS
<1>d. PICK d : d = call.new
  OBVIOUS
<1>1. /\ call.pc = "link" /\ PutFat({}, a, d) /\ fs' = Given(d) /\ GoesOnIn(d)
      /\ UNCHANGED <<loose, failures>>
  BY <1>a, <1>d DEF LinkCluster
<1>2. PICK n \in Names : n = call.n /\ IsOpen(n) /\ IsFil(file[n]) /\ Growing(file[n])
  BY <1>1, InGrowth
<1>3. /\ call.op \in {"write", "seek"} /\ InCall /\ WindowFits /\ IsCall(call) /\ VolTyped(vol)
      /\ FsTyped /\ FilesTyped /\ loose \subseteq Names /\ failures \in Nat /\ ~Removing
      /\ d \in Clusters /\ fs.free # 0 /\ vol.fat[a] = Eoc /\ vol.fat \in Tables
  BY <1>a, <1>d, <1>1, InGrowth, Parts
<1>4. PICK ch : ChainsFit(ch)
  BY DEF FatInv
<1>5. a # 0 /\ a \in Clusters
  BY <1>a, <1>1, <1>2 DEF Growing
<1>6. /\ WindowFits' /\ (disk' = disk \/ AsSeen(disk'))
      /\ vol'.fat = [vol.fat EXCEPT ![a] = d] /\ vol'.dir = vol.dir
  BY <1>1, <1>3, <1>5, PutFatKeeps DEF Links
<1>7. /\ Chained(vol.fat, ch) /\ ch[Nobody] = <<d>> /\ ch \in Chainings
  BY <1>d, <1>1, <1>4 DEF ChainsFit, Floating, Chained
<1>8. n \in Owners /\ Nobody \in Owners /\ n # Nobody
  BY NobodyIs DEF Owners
<1>9. PICK s : s = ch[n]
  OBVIOUS
<1>10. /\ s \in Seq(Clusters) /\ Linked(vol.fat, s) /\ file[n].sclust = Head0(s) /\ s # <<>>
       /\ a = s[Len(s)]
  BY <1>a, <1>1, <1>2, <1>3, <1>4, <1>5, <1>9, GrowthIs
<1>11. \E i : InCluster(s, a, i)
  BY <1>a, <1>1, <1>2, <1>3, <1>4, <1>5, <1>9, GrowthIs
<1>12. FreeNow' = FreeNow
  BY <1>3, <1>5, <1>6, Numbers, NoneMore
<1>13. PICK ch2 : ch2 = [ch EXCEPT ![n] = Append(@, d), ![Nobody] = <<>>]
  OBVIOUS
<1>14. Chained(vol'.fat, ch2) /\ (Complete(vol.fat, ch) => Complete(vol'.fat, ch2))
  <2>1. /\ Chained([vol.fat EXCEPT ![ch[n][Len(ch[n])]] = d], [ch EXCEPT ![n] = Append(@, d), ![Nobody] = <<>>])
        /\ Complete(vol.fat, ch) =>
             Complete([vol.fat EXCEPT ![ch[n][Len(ch[n])]] = d], [ch EXCEPT ![n] = Append(@, d), ![Nobody] = <<>>])
    BY <1>3, <1>7, <1>9, <1>10, JoinChain
  <2> QED
    BY <1>6, <1>9, <1>10, <1>13, <2>1
<1>15. /\ ch2[n] = Append(s, d) /\ ch2[Nobody] = <<>> /\ \A p \in Names \ {n} : ch2[p] = ch[p]
  <2>1. [ch EXCEPT ![n] = Append(@, d)] = [ch EXCEPT ![n] = Append(s, d)]
    BY <1>7, <1>9
  <2>2. Append(s, d) \in Seq(Clusters) /\ <<>> \in Seq(Clusters)
    BY <1>3, <1>10, AppendIs
  <2>3. ch2 = [ch EXCEPT ![n] = Append(s, d), ![Nobody] = <<>>]
    BY <1>7, <1>9, <1>13
  <2>4. PICK e : e = Append(s, d)
    OBVIOUS
  <2>5. ch2 = [ch EXCEPT ![n] = e, ![Nobody] = <<>>] /\ DOMAIN ch = Owners
    BY <1>7, <2>3, <2>4 DEF Chainings
  <2>6. ch2[n] = e /\ ch2[Nobody] = <<>> /\ \A p \in Owners \ {n, Nobody} : ch2[p] = ch[p]
    BY <1>8, <2>5
  <2> QED
    BY <2>4, <2>6, NobodyIs DEF Owners
<1>16. /\ ch2[n] \in Seq(Clusters) /\ Len(ch2[n]) = Len(s) + 1 /\ Len(s) \in Nat \ {0}
       /\ Head0(ch2[n]) = Head0(s) /\ InCluster(ch2[n], d, Len(s) + 1) /\ ch2[n] # <<>>
  <2>1. /\ ch2[n] \in Seq(Clusters) /\ Len(ch2[n]) = Len(s) + 1 /\ Len(s) \in Nat
        /\ (\A k \in 1..Len(s) : ch2[n][k] = s[k]) /\ ch2[n][Len(s) + 1] = d
    BY <1>3, <1>10, <1>15, AppendIs
  <2>2. Len(s) > 0 /\ 1 \in 1..Len(s) /\ Head0(s) = s[1]
    BY <1>10, HeadOf
  <2>3. ch2[n] # <<>>
    BY <2>1, <2>2
  <2> QED
    BY <2>1, <2>2, <2>3 DEF Head0, InCluster
<1>17. Room(s) <= Room(ch2[n]) /\ Room(s) \in Nat
  <2>1. Room(ch2[n]) = Room(s) + BCS /\ Room(s) \in Nat
    BY <1>10, <1>16, RoomIs
  <2> QED
    BY <2>1, Sizes
<1>k. PICK k : k = (IF call.op = "seek" /\ call.cl # 0 THEN BCS ELSE 0)
  OBVIOUS
<1>18. AtCluster(file[n].fptr + k) = Len(s) + 1
  <2>1. PICK j \in Nat : InCluster(s, a, j) /\ AtCluster(file[n].fptr + k) = j + 1
    BY <1>a, <1>k, <1>1, <1>2, <1>3, <1>4, <1>5, <1>9, <1>11, NextIs
  <2>2. j = Len(s)
    BY <1>3, <1>10, <2>1, StepOn
  <2> QED
    BY <2>1, <2>2
<1>19. /\ FilesTyped' /\ (\A m \in Names \ {n} : file'[m] = file[m])
       /\ IsFil(file'[n]) /\ file'[n].mod = file[n].mod
       /\ IsCall(call') /\ call'.n = n /\ call'.op = call.op /\ call'.short = call.short
       /\ call'.pc = (IF call.op = "seek" THEN "seek" ELSE "sector")
       /\ InPhase' /\ On(n) /\ On(n)' /\ ~Removing' /\ IsOpen(n)'
  BY <1>k, <1>1, <1>2, <1>3, GoesOnIs
<1>20. FileFits(ch2, n)'
  <2>1. InCluster(ch2[n], d, AtCluster(file[n].fptr + k)) /\ Room(ch[n]) <= Room(ch2[n])
    BY <1>9, <1>16, <1>17, <1>18
  <2>2. (IF file[n].sclust = 0 THEN d ELSE file[n].sclust) = Head0(ch2[n])
    BY <1>10, <1>16, HeadOf
  <2> QED
    BY <1>k, <1>1, <1>2, <1>3, <1>4, <1>6, <1>16, <2>1, <2>2, GrownFits
<1>21. /\ \A i \in Slots : IsFile(i) /\ vol.dir[i].name = n => EntryFits(ch2, i)'
       /\ \E i \in Slots : IsFile(i) /\ vol.dir[i].name = n
  <2>1. /\ Head0(ch2[n]) = Head0(ch[n]) /\ Room(ch[n]) <= Room(ch2[n])
        /\ call.pc \in {"grow", "link"} /\ loose' = loose /\ call'.op = call.op /\ IsOpen(n)'
    BY <1>1, <1>9, <1>16, <1>17, <1>19
  <2> QED
    BY <1>2, <1>4, <1>6, <1>16, <2>1, GrownEntries
<1>22. Floating(ch2)'
  BY <1>3, <1>15, <1>19 DEF Floating
<1>23. FsTyped' /\ (fs.free = Unknown => fs'.free = Unknown)
       /\ (fs.free # Unknown => fs'.free = fs.free - 1 /\ fs'.free # Unknown)
  BY <1>1, <1>3, GivenIs
<1>24. Typed'
  BY <1>1, <1>3, <1>6, <1>19, <1>23, TypedNext
<1>25. Counts'
  <2>1. call'.pc # "link"
    BY <1>19
  <2>2. ASSUME failures' = 0, fs'.free # Unknown PROVE fs'.free = Cardinality(FreeNow') + 0
    <3>1. Cardinality(FreeNow) \in Nat
      BY FreeNowIs
    <3>2. fs.free = Cardinality(FreeNow) + 1
      BY <1>1, <1>23, <2>2 DEF FatInv, Counts
    <3> QED
      BY <1>12, <1>23, <2>2, <3>1, <3>2
  <2>3. ASSUME failures' = 0, call'.short PROVE FALSE
    BY <1>1, <1>3, <1>19, <2>3 DEF FatInv, Counts
  <2> QED
    BY <2>1, <2>2, <2>3 DEF Counts
<1>26. n \in loose => LooseFits(n)'
  <2>1. n \in loose => file[n].mod
    BY <1>1 DEF FatInv, LooseFit, Cutting, With, Doing
  <2> QED
    BY <1>19, <2>1 DEF LooseFits
<1>27. Steady' => Steady
  BY <1>1, <1>3, <1>19, SteadyStays
<1> QED
  BY <1>1, <1>3, <1>4, <1>6, <1>14, <1>15, <1>19, <1>20, <1>21, <1>22, <1>24, <1>25, <1>26, <1>27, TableKeeps

\* remove_chain frees the first cluster of a chain that is nobody's.
LEMMA FreeClusterKeeps ==
  ASSUME FatInv, FreeCluster
  PROVE  FatInv'
PROOF
<1>a. PICK a : a = call.cl
  OBVIOUS
<1>1. call.pc = "free" /\ InCall
  <2>1. call.pc = "free"
    BY DEF FreeCluster
  <2> QED
    BY <2>1, Parts DEF Idle, InCall
<1>2. /\ WindowFits /\ IsCall(call) /\ VolTyped(vol) /\ FsTyped /\ FilesTyped
      /\ loose \subseteq Names /\ failures \in Nat /\ vol.fat \in Tables
      /\ Phase(call.op, file[call.n], call.pc)
  BY <1>1, Parts
<1>3. PICK n \in Names : n = call.n
  BY <1>2 DEF IsCall
<1>4. PICK ch : ChainsFit(ch)
  BY DEF FatInv
<1>5. call.op \in {"open", "truncate", "unlink"} /\ ~Removing
  <2>1. call.op # "none"
    BY <1>1 DEF InCall
  <2>2. call.op \in {"open", "truncate", "unlink"}
    BY <1>1, <1>2, <2>1 DEF Phase
  <2> QED
    BY <1>1, <2>2 DEF Removing, Doing
<1>6. Chained(vol.fat, ch) /\ ch[Nobody] # <<>> /\ a = Head0(ch[Nobody])
  BY <1>a, <1>1, <1>4 DEF ChainsFit, Floating
<1>7. PICK s : s = ch[Nobody]
  OBVIOUS
<1>8. PICK u : u = [vol.fat EXCEPT ![a] = 0]
  OBVIOUS
<1>9. PICK ch2 : ch2 = [ch EXCEPT ![Nobody] = Tail(@)]
  OBVIOUS
<1>10. a = s[1]
  BY <1>6, <1>7 DEF Head0
<1>11. /\ Chained(u, ch2) /\ (Complete(vol.fat, ch) => Complete(u, ch2))
       /\ a \in Clusters /\ vol.fat[a] \in Clusters \cup {Eoc}
       /\ ch2[Nobody] = Tail(s) /\ (\A o \in Names : ch2[o] = ch[o])
       /\ vol.fat[a] = Eoc => Tail(s) = <<>>
       /\ vol.fat[a] # Eoc => Tail(s) # <<>> /\ vol.fat[a] = Head0(Tail(s)) /\ vol.fat[a] \in Clusters
  <2>1. LET r == ch[Nobody]
            t == [vol.fat EXCEPT ![r[1]] = 0]
            x == [ch EXCEPT ![Nobody] = Tail(@)]
        IN  /\ Chained(t, x) /\ (Complete(vol.fat, ch) => Complete(t, x))
            /\ r[1] \in Clusters /\ vol.fat[r[1]] \in Clusters \cup {Eoc}
            /\ x[Nobody] = Tail(r) /\ (\A o \in Names : x[o] = ch[o])
            /\ vol.fat[r[1]] = Eoc => Tail(r) = <<>>
            /\ vol.fat[r[1]] # Eoc =>
                 Tail(r) # <<>> /\ vol.fat[r[1]] = Head0(Tail(r)) /\ vol.fat[r[1]] \in Clusters
    BY <1>2, <1>6, PopChain, Zenon
  <2> QED
    BY <1>7, <1>8, <1>9, <1>10, <2>1, Zenon
<1>12. PICK nxt : nxt = vol.fat[a]
  OBVIOUS
<1>13. nxt \notin {0, 1} /\ get_fat(a) = nxt
  BY <1>11, <1>12, Numbers DEF get_fat
<1>14. PICK pc : pc = (IF nxt \in Clusters THEN "free" ELSE Freed)
  OBVIOUS
<1>15. /\ PutFat({}, a, 0) /\ fs' = Counted /\ call' = [call EXCEPT !.cl = nxt, !.pc = pc]
       /\ UNCHANGED <<file, loose, failures>>
  BY <1>a, <1>13, <1>14 DEF FreeCluster
<1>16. /\ WindowFits' /\ (disk' = disk \/ AsSeen(disk'))
       /\ vol'.fat = [vol.fat EXCEPT ![a] = 0] /\ vol'.dir = vol.dir
  BY <1>2, <1>11, <1>15, PutFatKeeps DEF Links
<1>17. pc \in {"free", "emptied", "cut", "window"} /\ (nxt \in Clusters => pc = "free") /\ (nxt \notin Clusters => pc = Freed)
  BY <1>14 DEF Freed
<1>18. /\ IsCall(call') /\ call'.n = n /\ call'.op = call.op /\ call'.pc = pc /\ call'.cl = nxt
       /\ call'.short = call.short /\ call'.slot = call.slot
  BY <1>2, <1>3, <1>15 DEF IsCall, CallFields
<1>19. /\ nxt \in Clusters => Tail(s) # <<>> /\ nxt = Head0(Tail(s))
       /\ nxt \notin Clusters => Tail(s) = <<>>
  BY <1>11, <1>12, Numbers
<1>20. Floating(ch2)'
  <2>1. nxt \notin Clusters => pc # "free"
    BY <1>17 DEF Freed
  <2> QED
    BY <1>11, <1>17, <1>18, <1>19, <2>1 DEF Floating
<1>21. /\ Cardinality(FreeNow') = Cardinality(FreeNow) + 1 /\ Cardinality(FreeNow) < NFree
       /\ Cardinality(FreeNow) \in Nat
  BY <1>2, <1>11, <1>12, <1>13, <1>16, OneMore, FreeNowIs
<1>22. FsTyped' /\ (fs.free < NFree => fs'.free = fs.free + 1) /\ (~(fs.free < NFree) => fs'.free = fs.free)
  BY <1>2, <1>15, CountedIs
<1>23. Counts'
  <2>1. call'.pc # "link"
    BY <1>17, <1>18
  <2>2. fs.free \in 0..Unknown /\ Unknown = NFree + 1 /\ NFree \in Nat
    BY <1>2, Sizes DEF FsTyped
  <2>3. ASSUME failures' = 0, fs'.free # Unknown PROVE fs'.free = Cardinality(FreeNow') + 0
    <3>1. fs.free # Unknown
      BY <1>22, <2>2, <2>3
    <3>2. fs.free = Cardinality(FreeNow) + 0
      BY <1>1, <1>15, <2>3, <3>1 DEF FatInv, Counts
    <3> QED
      BY <1>21, <1>22, <2>2, <3>1, <3>2
  <2>4. ASSUME failures' = 0, call'.short PROVE FALSE
    BY <1>1, <1>15, <1>18, <2>4 DEF FatInv, Counts
  <2> QED
    BY <2>1, <2>3, <2>4 DEF Counts
<1>24. Steady' => Steady
  BY <1>5, <1>15, <1>18, SteadyStays
<1>25. On(n) /\ On(n)' /\ ~Removing'
  BY <1>3, <1>17, <1>18 DEF On, Removing, Doing
<1>26. FilesTyped' /\ file'[n] = file[n] /\ \A m \in Names \ {n} : file'[m] = file[m]
  BY <1>15, SameFile
<1>27. Typed'
  BY <1>2, <1>15, <1>16, <1>18, <1>22, <1>26, TypedNext
<1>28. call.op = "truncate" => pc \in {"free", "cut"}
  BY <1>17 DEF Freed
<1>29. (call.op = "truncate" => Cutting(n) /\ Cutting(n)') /\ (call.op # "truncate" => ~IsOpen(n))
       /\ (call.op = "truncate" => IsOpen(n))
  BY <1>1, <1>2, <1>3, <1>5, <1>18, <1>28 DEF Cutting, With, Doing, Phase
<1>30. ASSUME IsOpen(n)' PROVE FileFits(ch2, n)'
  <2>1. IsOpen(n) /\ call.op = "truncate"
    BY <1>26, <1>29, <1>30 DEF IsOpen
  <2>2. FileFits(ch, n) /\ ch2[n] = ch[n] /\ file[n].slot \in Slots
    BY <1>4, <1>11, <2>1, OfFile, Parts DEF IsFil
  <2>3. PointerFits(ch2, n)'
    BY <1>1, <1>3, <1>17, <1>18, <1>26, <2>1, <2>2 DEF FileFits, PointerFits, Ahead, Seeking, With, Doing
  <2>4. ChainFits(ch2, n)'
    BY <1>26, <1>29, <2>1, <2>2 DEF FileFits, ChainFits
  <2>5. SlotFits(n)'
    BY <1>16, <1>26, <1>29, <2>1, <2>2 DEF FileFits, SlotFits
  <2> QED
    BY <2>3, <2>4, <2>5 DEF FileFits
<1>31. ASSUME NEW i \in Slots, IsFile(i), vol.dir[i].name = n PROVE EntryFits(ch2, i)'
  <2>1. EntryFits(ch, i)
    BY <1>4, <1>5, <1>31 DEF ChainsFit, EntriesFit, Excused, Removing
  <2>2. Loose(n) => Loose(n)'
    BY <1>5, <1>15, <1>18 DEF Loose, With, Doing
  <2>3. IsOpen(n)' <=> IsOpen(n)
    BY <1>26 DEF IsOpen
  <2> QED
    BY <1>11, <1>16, <1>31, <2>1, <2>2, <2>3, EntryStays
<1>32. (\A i \in Slots : IsFile(i) => vol.dir[i].name # n) => ch2[n] = <<>>
  BY <1>4, <1>11 DEF ChainsFit, Unnamed
<1>33. n \in loose => LooseFits(n)'
  <2>1. n \in loose => LooseFits(n)
    BY DEF FatInv, LooseFit, LooseFits
  <2>2. ~With(n, {"sync", "close"}, {"done"})
    BY <1>5 DEF With, Doing
  <2> QED
    BY <1>26, <1>29, <2>1, <2>2 DEF LooseFits, IsOpen
<1>34. InPhase'
  <2>1. CASE call.op = "open"
    <3>1. pc \in {"free", "emptied"}
      BY <1>17, <2>1 DEF Freed
    <3>2. ~IsOpen(n) /\ call.slot \in Slots /\ vol.dir[call.slot] = Entry(n, 0, 0)
      BY <1>1, <1>2, <1>3, <2>1 DEF Phase
    <3>3. IsOpen(n)' <=> IsOpen(n)
      BY <1>26 DEF IsOpen
    <3> QED
      BY <1>16, <1>18, <2>1, <3>1, <3>2, <3>3 DEF InPhase, Phase
  <2>2. CASE call.op = "truncate"
    <3>1. IsOpen(n)'
      BY <1>26, <1>29, <2>2 DEF IsOpen
    <3> QED
      BY <1>18, <1>28, <2>2, <3>1 DEF InPhase, Phase
  <2>3. CASE call.op = "unlink"
    <3>1. pc \in {"free", "window"}
      BY <1>17, <2>3 DEF Freed
    <3>2. ~IsOpen(n)'
      BY <1>26, <1>29, <2>3 DEF IsOpen
    <3> QED
      BY <1>18, <2>3, <3>1, <3>2 DEF InPhase, Phase
  <2> QED
    BY <1>5, <2>1, <2>2, <2>3
<1> QED
  BY <1>4, <1>5, <1>8, <1>11, <1>15, <1>16, <1>20, <1>23, <1>24, <1>25, <1>26, <1>27, <1>30, <1>31, <1>32,
     <1>33, <1>34, TableKeeps
=============================================================================
