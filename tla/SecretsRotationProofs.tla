------------------------ MODULE SecretsRotationProofs ------------------------
(***************************************************************************)
(* Proofs about SecretsRotation, for any number of rotations, changes and  *)
(* failures: as long as no rotation was initiated every key is that of one *)
(* certificate authority; a served removal leaves nothing; a served request*)
(* fits the nodes' configuration; a completed rotation drops the old key;  *)
(* and only its preparation interrupts the nodes' trust.                   *)
(***************************************************************************)
EXTENDS SecretsRotation, FiniteSetTheorems, NaturalsInduction, SequenceTheorems, TLAPS

----------------------------------------------------------------------------
(* New numbers and the last of several indices. *)

\* A set of numbers has a least one.
LEMMA LeastNumber ==
  ASSUME NEW T \in SUBSET Nat, T # {}
  PROVE  \E x \in T : \A y \in T : x <= y
<1>1. IsWellFoundedOn(OpToRel(<, Nat), Nat)
  BY NatLessThanWellFounded, Zenon
<1>2. PICK x \in T : \A y \in T : ~ (<<y, x>> \in OpToRel(<, Nat))
  BY <1>1, WFMin, Zenon
<1>3. \A y \in T : ~ (y < x)
  BY <1>2 DEF OpToRel
<1>4. QED
  BY <1>3

LEMMA MaxOfIndices ==
  ASSUME NEW n \in Nat, NEW S \in SUBSET (1 .. n), S # {}
  PROVE  Max(S) \in S
<1> DEFINE T == {k \in Nat : \E i \in S : k = n - i}
<1>1. PICK i \in S : TRUE
  OBVIOUS
<1>2. n - i \in T
  OBVIOUS
<1>3. PICK k \in T : \A m \in T : k <= m
  BY <1>2, LeastNumber
<1>4. PICK j \in S : k = n - j
  BY <1>3
<1>5. \A y \in S : j >= y
  <2>1. SUFFICES ASSUME NEW y \in S PROVE j >= y
    OBVIOUS
  <2>2. n - y \in T
    OBVIOUS
  <2>3. k <= n - y
    BY <1>3, <2>2
  <2>4. QED
    BY <1>4, <2>3
<1>6. QED
  BY <1>5 DEF Max

\* What is fresh is positive and in no finite set it is not to be in.
LEMMA FreshIsNew ==
  ASSUME NEW S, IsFiniteSet(S)
  PROVE  Fresh(S) \in Nat \ {0} /\ Fresh(S) \notin S
<1> DEFINE n == Cardinality(S)
           I == 1 .. n + 1
<1>1. n \in Nat
  BY FS_CardinalityType
<1>2. \E k \in I : k \notin S
  <2>1. SUFFICES ASSUME I \subseteq S PROVE FALSE
    OBVIOUS
  <2>2. Cardinality(I) = n + 1
    BY <1>1, FS_Interval
  <2>3. Cardinality(I) <= n
    BY <2>1, FS_Subset
  <2>4. QED
    BY <1>1, <2>2, <2>3
<1>3. QED
  BY <1>1, <1>2 DEF Fresh

LEMMA FiniteKeys ==
  ASSUME NEW X, NEW s \in Seq(X), NEW f \in [DOMAIN s -> Nat]
  PROVE  IsFiniteSet({f[i] : i \in DOMAIN s})
<1> DEFINE T == {f[i] : i \in DOMAIN s}
<1>1. IsFiniteSet(DOMAIN s)
  BY FS_Interval
<1>2. f \in Surjection(DOMAIN s, T)
  BY DEF Surjection
<1>3. QED
  BY <1>1, <1>2, FS_Surjection

\* The sequence without one element has the others, and no more.
LEMMA RemoveAtFacts ==
  ASSUME NEW X, NEW s \in Seq(X), NEW i \in DOMAIN s
  PROVE  /\ RemoveAt(s, i) \in Seq(X)
         /\ Len(RemoveAt(s, i)) = Len(s) - 1
         /\ \A j \in DOMAIN RemoveAt(s, i) : \E k \in DOMAIN s : RemoveAt(s, i)[j] = s[k]
         /\ \A k \in DOMAIN s \ {i} : \E j \in DOMAIN RemoveAt(s, i) : RemoveAt(s, i)[j] = s[k]
<1> DEFINE a == SubSeq(s, 1, i - 1)
           b == SubSeq(s, i + 1, Len(s))
<1>1. /\ Len(s) \in Nat /\ DOMAIN s = 1 .. Len(s) /\ i \in 1 .. Len(s)
      /\ \A j \in 1 .. Len(s) : s[j] \in X
  BY LenProperties, ElementOfSeq
<1>2. /\ a \in Seq(X) /\ Len(a) = i - 1
      /\ \A j \in 1 .. i - 1 : a[j] = s[j]
  <2>1. 1 \in Int /\ i - 1 \in Int /\ \A j \in 1 .. i - 1 : s[j] \in X
    BY <1>1
  <2> HIDE DEF a
  <2>2. /\ a \in Seq(X) /\ Len(a) = IF 1 <= i - 1 THEN i - 1 - 1 + 1 ELSE 0
        /\ \A j \in 1 .. i - 1 - 1 + 1 : a[j] = s[1 + j - 1]
    BY <2>1, SubSeqProperties DEF a
  <2>3. QED BY <1>1, <2>2
<1>3. /\ b \in Seq(X) /\ Len(b) = Len(s) - i
      /\ \A j \in 1 .. Len(s) - i : b[j] = s[i + j]
  <2>1. i + 1 \in Int /\ Len(s) \in Int /\ \A j \in i + 1 .. Len(s) : s[j] \in X
    BY <1>1
  <2> HIDE DEF b
  <2>2. /\ b \in Seq(X)
        /\ Len(b) = IF i + 1 <= Len(s) THEN Len(s) - (i + 1) + 1 ELSE 0
        /\ \A j \in 1 .. Len(s) - (i + 1) + 1 : b[j] = s[i + 1 + j - 1]
    BY <2>1, SubSeqProperties DEF b
  <2>3. Len(b) = Len(s) - i
    BY <1>1, <2>2
  <2>4. \A j \in 1 .. Len(s) - i : b[j] = s[i + j]
    <3>1. SUFFICES ASSUME NEW j \in 1 .. Len(s) - i PROVE b[j] = s[i + j]
      OBVIOUS
    <3>2. j \in 1 .. Len(s) - (i + 1) + 1 /\ i + 1 + j - 1 = i + j
      BY <1>1
    <3>3. QED BY <2>2, <3>2
  <2>5. QED BY <2>2, <2>3, <2>4
<1> HIDE DEF a, b
<1>4. /\ a \o b \in Seq(X) /\ Len(a \o b) = Len(a) + Len(b)
      /\ \A j \in 1 .. Len(a) + Len(b) :
            (a \o b)[j] = IF j <= Len(a) THEN a[j] ELSE b[j - Len(a)]
  BY <1>2, <1>3, ConcatProperties
<1>5. Len(a) + Len(b) = Len(s) - 1 /\ DOMAIN (a \o b) = 1 .. Len(s) - 1
  <2>1. Len(a) + Len(b) = Len(s) - 1
    BY <1>1, <1>2, <1>3
  <2>2. DOMAIN (a \o b) = 1 .. Len(a \o b)
    BY <1>4, LenProperties
  <2>3. QED BY <1>4, <2>1, <2>2
<1>6. \A j \in 1 .. Len(s) - 1 : \E k \in DOMAIN s : (a \o b)[j] = s[k]
  <2>1. SUFFICES ASSUME NEW j \in 1 .. Len(s) - 1
                 PROVE  \E k \in DOMAIN s : (a \o b)[j] = s[k]
    OBVIOUS
  <2>2. CASE j <= Len(a)
    <3>1. j \in 1 .. i - 1 /\ j \in DOMAIN s
      BY <1>1, <1>2, <2>2
    <3>2. QED BY <1>2, <1>4, <1>5, <2>2, <3>1
  <2>3. CASE ~(j <= Len(a))
    <3>1. j - Len(a) \in 1 .. Len(s) - i /\ i + (j - Len(a)) \in DOMAIN s
      BY <1>1, <1>2, <2>1, <2>3
    <3>2. b[j - Len(a)] = s[i + (j - Len(a))]
      BY <1>3, <3>1
    <3>3. QED BY <1>4, <1>5, <2>3, <3>1, <3>2
  <2>4. QED BY <2>2, <2>3
<1>7. \A k \in DOMAIN s \ {i} : \E j \in 1 .. Len(s) - 1 : (a \o b)[j] = s[k]
  <2>1. SUFFICES ASSUME NEW k \in DOMAIN s \ {i}
                 PROVE  \E j \in 1 .. Len(s) - 1 : (a \o b)[j] = s[k]
    OBVIOUS
  <2>2. CASE k < i
    <3>1. k \in 1 .. i - 1 /\ k \in 1 .. Len(s) - 1 /\ k <= Len(a)
      BY <1>1, <1>2, <2>2
    <3>2. QED BY <1>2, <1>4, <1>5, <3>1
  <2>3. CASE k > i
    <3>1. /\ k - i \in 1 .. Len(s) - i /\ k - 1 \in 1 .. Len(s) - 1
          /\ ~(k - 1 <= Len(a)) /\ k - 1 - Len(a) = k - i /\ i + (k - i) = k
      BY <1>1, <1>2, <2>3
    <3>2. b[k - i] = s[k]
      BY <1>3, <3>1
    <3>3. (a \o b)[k - 1] = b[k - 1 - Len(a)]
      BY <1>4, <1>5, <3>1
    <3>4. QED BY <3>1, <3>2, <3>3
  <2>4. k \in Nat /\ i \in Nat /\ k # i
    BY <1>1, <2>1
  <2>5. k < i \/ k > i
    BY <2>4
  <2>6. QED BY <2>2, <2>3, <2>5
<1>8. RemoveAt(s, i) = a \o b
  BY DEF RemoveAt, a, b
<1>9. QED
  BY <1>4, <1>5, <1>6, <1>7, <1>8

\* A sequence with one more element has that and the former ones.
LEMMA AppendFacts ==
  ASSUME NEW X, NEW s \in Seq(X), NEW e \in X
  PROVE  /\ Append(s, e) \in Seq(X)
         /\ Len(Append(s, e)) = Len(s) + 1
         /\ \A j \in DOMAIN Append(s, e) :
               Append(s, e)[j] = e \/ \E k \in DOMAIN s : Append(s, e)[j] = s[k]
<1>1. /\ Append(s, e) \in Seq(X) /\ Len(Append(s, e)) = Len(s) + 1
      /\ \A j \in 1 .. Len(s) : Append(s, e)[j] = s[j]
      /\ Append(s, e)[Len(s) + 1] = e
  BY AppendProperties
<1>2. /\ Len(s) \in Nat /\ DOMAIN s = 1 .. Len(s)
      /\ DOMAIN Append(s, e) = 1 .. Len(s) + 1
  BY <1>1, LenProperties
<1>3. QED
  BY <1>1, <1>2

----------------------------------------------------------------------------
(* The types. *)

SInv == TypeOK /\ IsFiniteSet(config) /\ IsFiniteSet(node)

LEMMA Elements ==
  ASSUME TypeOK
  PROVE  /\ \A i \in DOMAIN cas : cas[i] \in CA
         /\ \A i \in DOMAIN saved : saved[i] \in CA
         /\ \A i \in DOMAIN leaves : leaves[i] \in Leaf
<1>1. cas \in Seq(CA) /\ saved \in Seq(CA) /\ leaves \in Seq(Leaf)
  BY DEF TypeOK
<1>2. DOMAIN cas = 1 .. Len(cas) /\ DOMAIN saved = 1 .. Len(saved)
      /\ DOMAIN leaves = 1 .. Len(leaves)
  BY <1>1, LenProperties
<1>3. QED
  BY <1>1, <1>2, ElementOfSeq

LEMMA KeysAreFinite ==
  ASSUME SInv
  PROVE  IsFiniteSet(KeysInUse)
<1>0. cas \in Seq(CA) /\ saved \in Seq(CA) /\ leaves \in Seq(Leaf)
  BY DEF SInv, TypeOK
<1>1. IsFiniteSet({cas[i].key : i \in DOMAIN cas})
  <2> DEFINE f == [i \in DOMAIN cas |-> cas[i].key]
  <2>1. f \in [DOMAIN cas -> Nat]
    BY Elements DEF SInv, CA
  <2>2. IsFiniteSet({f[i] : i \in DOMAIN cas})
    <3> HIDE DEF f
    <3>1. QED BY <1>0, <2>1, FiniteKeys
  <2>3. {f[i] : i \in DOMAIN cas} = {cas[i].key : i \in DOMAIN cas}
    OBVIOUS
  <2>4. QED BY <2>2, <2>3
<1>2. IsFiniteSet({saved[i].key : i \in DOMAIN saved})
  <2> DEFINE f == [i \in DOMAIN saved |-> saved[i].key]
  <2>1. f \in [DOMAIN saved -> Nat]
    BY Elements DEF SInv, CA
  <2>2. IsFiniteSet({f[i] : i \in DOMAIN saved})
    <3> HIDE DEF f
    <3>1. QED BY <1>0, <2>1, FiniteKeys
  <2>3. {f[i] : i \in DOMAIN saved} = {saved[i].key : i \in DOMAIN saved}
    OBVIOUS
  <2>4. QED BY <2>2, <2>3
<1>3. IsFiniteSet({leaves[i].ca : i \in DOMAIN leaves})
  <2> DEFINE f == [i \in DOMAIN leaves |-> leaves[i].ca]
  <2>1. f \in [DOMAIN leaves -> Nat]
    BY Elements DEF SInv, Leaf
  <2>2. IsFiniteSet({f[i] : i \in DOMAIN leaves})
    <3> HIDE DEF f
    <3>1. QED BY <1>0, <2>1, FiniteKeys
  <2>3. {f[i] : i \in DOMAIN leaves} = {leaves[i].ca : i \in DOMAIN leaves}
    OBVIOUS
  <2>4. QED BY <2>2, <2>3
<1>4. IsFiniteSet({ingress.ca}) /\ IsFiniteSet(config) /\ IsFiniteSet(node)
  BY FS_Singleton DEF SInv
<1>5. QED
  BY <1>1, <1>2, <1>3, <1>4, FS_Union DEF KeysInUse

LEMMA TimesAreFinite ==
  ASSUME SInv
  PROVE  IsFiniteSet({leaves[i].time : i \in DOMAIN leaves} \cup {ingress.time})
<1> DEFINE f == [i \in DOMAIN leaves |-> leaves[i].time]
<1>1. leaves \in Seq(Leaf) /\ f \in [DOMAIN leaves -> Nat]
  BY Elements DEF SInv, TypeOK, Leaf
<1>2. IsFiniteSet({f[i] : i \in DOMAIN leaves})
  <2> HIDE DEF f
  <2>1. QED BY <1>1, FiniteKeys
<1>3. {f[i] : i \in DOMAIN leaves} = {leaves[i].time : i \in DOMAIN leaves}
  OBVIOUS
<1>4. IsFiniteSet({ingress.time})
  BY FS_Singleton
<1>5. QED
  BY <1>2, <1>3, <1>4, FS_Union, Zenon

LEMMA LastIndex ==
  ASSUME NEW X, NEW s \in Seq(X), s # <<>>
  PROVE  Len(s) \in DOMAIN s
<1>1. Len(s) \in Nat \ {0} /\ DOMAIN s = 1 .. Len(s)
  BY EmptySeq, LenProperties
<1>2. QED
  BY <1>1

LEMMA Times ==
  ASSUME SInv
  PROVE  CATime \in Nat /\ LeafTime \in Nat
<1>0. cas \in Seq(CA) /\ leaves \in Seq(Leaf) /\ use.time \in Nat
  BY DEF SInv, TypeOK
<1>1. cas # <<>> => Newest(cas) \in CA
  BY <1>0, LastIndex, Elements DEF SInv, Newest
<1>2. leaves # <<>> => Newest(leaves) \in Leaf
  BY <1>0, LastIndex, Elements DEF SInv, Newest
<1>3. Fresh({leaves[i].time : i \in DOMAIN leaves} \cup {ingress.time}) \in Nat
  BY TimesAreFinite, FreshIsNew
<1>4. CATime \in Nat
  BY <1>0, <1>1 DEF CATime, CA
<1>5. LeafTime \in Nat
  BY <1>2, <1>3 DEF LeafTime, Leaf
<1>6. QED BY <1>4, <1>5

LEMMA OldKey ==
  ASSUME NEW s \in Seq(CA), NEW key
  PROVE  OldCA(s, key) \in Nat
<1> DEFINE others == {i \in DOMAIN s : s[i].key # key}
<1>1. others \in SUBSET (1 .. Len(s)) /\ Len(s) \in Nat
  BY LenProperties
<1>2. CASE others = {}
  BY <1>2 DEF OldCA, NewestOther
<1>3. CASE others # {}
  <2>1. Max(others) \in others
    <3> HIDE DEF others
    <3>1. QED BY <1>1, <1>3, MaxOfIndices
  <2>2. s[Max(others)] \in CA
    BY <1>1, <2>1, ElementOfSeq
  <2>3. s[Max(others)].key \in Nat
    BY <2>2 DEF CA
  <2>4. OldCA(s, key) = 0 \/ OldCA(s, key) = s[Max(others)].key
    BY <1>3 DEF OldCA, NewestOther
  <2>5. QED BY <2>3, <2>4
<1>4. QED BY <1>2, <1>3

\* The CA which is created is a CA with a new key.
LEMMA NewCA ==
  ASSUME SInv, GenerateCA
  PROVE  /\ cas' \in Seq(CA)
         /\ cas' = cas \/ cas' = Append(cas, [time |-> CATime, key |-> Fresh(KeysInUse)])
         /\ [time |-> CATime, key |-> Fresh(KeysInUse)] \in CA
         /\ Fresh(KeysInUse) \in Nat \ {0} /\ Fresh(KeysInUse) \notin KeysInUse
<1>1. cas \in Seq(CA)
  BY DEF SInv, TypeOK
<1>2. Fresh(KeysInUse) \in Nat \ {0} /\ Fresh(KeysInUse) \notin KeysInUse
  BY KeysAreFinite, FreshIsNew
<1>3. [time |-> CATime, key |-> Fresh(KeysInUse)] \in CA
  BY <1>2, Times DEF CA
<1>4. cas' = cas \/ cas' = Append(cas, [time |-> CATime, key |-> Fresh(KeysInUse)])
  BY DEF GenerateCA
<1>5. QED
  BY <1>1, <1>2, <1>3, <1>4, AppendFacts

LEMMA NewLeaf ==
  ASSUME SInv, GenerateLeaf
  PROVE  /\ leaves' \in Seq(Leaf)
         /\ \/ leaves' = leaves
            \/ leaves' = Append(leaves, [ca |-> WantedLeaf.ca, time |-> WantedLeaf.time,
                                         aged |-> FALSE])
         /\ [ca |-> WantedLeaf.ca, time |-> WantedLeaf.time, aged |-> FALSE] \in Leaf
<1>1. leaves \in Seq(Leaf) /\ store.cur \in Nat /\ store.leafTime \in Nat
  BY DEF SInv, TypeOK
<1>2. [ca |-> WantedLeaf.ca, time |-> WantedLeaf.time, aged |-> FALSE] \in Leaf
  BY <1>1 DEF WantedLeaf, Leaf
<1>3. \/ leaves' = leaves
      \/ leaves' = Append(leaves, [ca |-> WantedLeaf.ca, time |-> WantedLeaf.time,
                                   aged |-> FALSE])
  BY DEF GenerateLeaf
<1>4. QED
  BY <1>1, <1>2, <1>3, AppendFacts

LEMMA NewStore ==
  ASSUME SInv, GenerateCA
  PROVE  /\ store' \in [cur : Nat, old : Nat, leafTime : Nat]
         /\ \E i \in DOMAIN cas' : store'.cur = cas'[i].key
         /\ store'.old = OldCA(cas', store'.cur)
<1>1. cas' \in Seq(CA)
  BY NewCA
<1>2. PICK i \in DOMAIN cas' : store' = Stored(cas', cas'[i].key)
  BY DEF GenerateCA
<1>3. cas'[i].key \in Nat
  <2>1. i \in 1 .. Len(cas')
    BY <1>1, LenProperties
  <2>2. cas'[i] \in CA
    BY <1>1, <2>1, ElementOfSeq
  <2>3. QED BY <2>2 DEF CA
<1>4. OldCA(cas', cas'[i].key) \in Nat /\ LeafTime \in Nat
  BY <1>1, OldKey, Times
<1>5. QED
  BY <1>2, <1>3, <1>4 DEF Stored

LEMMA Aged ==
  ASSUME SInv, Age
  PROVE  /\ leaves' \in Seq(Leaf)
         /\ DOMAIN leaves' = DOMAIN leaves
         /\ \A i \in DOMAIN leaves : leaves'[i].ca = leaves[i].ca
                                    /\ leaves'[i].time = leaves[i].time
<1>1. leaves \in Seq(Leaf) /\ \A i \in DOMAIN leaves : leaves[i] \in Leaf
  BY Elements DEF SInv, TypeOK
<1>2. leaves' = [i \in DOMAIN leaves |-> [leaves[i] EXCEPT !.aged = TRUE]]
  BY DEF Age
<1>3. \A i \in DOMAIN leaves : [leaves[i] EXCEPT !.aged = TRUE] \in Leaf
                              /\ [leaves[i] EXCEPT !.aged = TRUE].ca = leaves[i].ca
                              /\ [leaves[i] EXCEPT !.aged = TRUE].time = leaves[i].time
  BY <1>1 DEF Leaf
<1>4. leaves' \in [1 .. Len(leaves) -> Leaf] /\ Len(leaves) \in Nat
  BY <1>1, <1>2, <1>3, LenProperties
<1>5. leaves' \in Seq(Leaf)
  BY <1>4, SeqDef
<1>6. QED
  BY <1>2, <1>3, <1>5

LEMMA PairIsFinite ==
  ASSUME NEW x, NEW y
  PROVE  IsFiniteSet({x, y})
<1>1. {x, y} = {x} \cup {y}
  OBVIOUS
<1>2. IsFiniteSet({x}) /\ IsFiniteSet({y})
  BY FS_Singleton
<1>3. QED
  BY <1>1, <1>2, FS_Union

LEMMA TypeStep ==
  ASSUME SInv, [Next]_vars
  PROVE  SInv'
<1> USE DEF SInv, TypeOK, Phases, NoUse, NoStore, None, owner, secrets
<1>0. cas \in Seq(CA) /\ saved \in Seq(CA) /\ leaves \in Seq(Leaf)
      /\ IsFiniteSet(config) /\ IsFiniteSet(node)
  OBVIOUS
<1>1. CASE UNCHANGED vars
  BY <1>1 DEF vars
<1>2. CASE Rotation
  <2>1. CASE StartRotation
    <3>1. time' = time + 1 /\ phase' = "Preparing" /\ due' = TRUE /\ clean' = FALSE
      BY <2>1 DEF StartRotation, NewPhase
    <3>2. UNCHANGED <<on, fate, pc, use, store, secrets, saved, ingress, config,
                      node, changes, fails>>
      BY <2>1 DEF StartRotation, NewPhase
    <3>3. time' \in Nat
      BY <3>1
    <3>4. phase' \in Phases /\ due' \in BOOLEAN /\ clean' \in BOOLEAN
      BY <3>1
    <3>5. QED BY <3>2, <3>3, <3>4
  <2>2. CASE Prepared
    BY <2>2 DEF Prepared, NewPhase
  <2>3. CASE StartCompleting
    BY <2>3 DEF StartCompleting, NewPhase
  <2>4. CASE Completed
    BY <2>4 DEF Completed, NewPhase
  <2>5. QED BY <1>2, <2>1, <2>2, <2>3, <2>4 DEF Rotation
<1>3. CASE Touch
  BY <1>3 DEF Touch
<1>4. CASE SwitchPurpose \/ Delete
  <2>1. CASE SwitchPurpose
    BY <2>1 DEF SwitchPurpose, Change
  <2>2. CASE Delete
    BY <2>2 DEF Delete, Change
  <2>3. QED BY <1>4, <2>1, <2>2
<1>5. CASE Migrate
  BY <1>5 DEF Migrate, Change, Persisted
<1>6. CASE Restore
  <2>1. <<>> \in Seq(CA)
    BY EmptySeq
  <2>2. QED BY <1>6, <2>1 DEF Restore
<1>7. CASE Age
  BY <1>7, Aged DEF Age
<1>8. CASE NodesCatchUp
  BY <1>8 DEF NodesCatchUp
<1>9. CASE CallFails
  BY <1>9 DEF CallFails, End
<1>10. CASE Start
  BY <1>10 DEF Start
<1>11. CASE GenerateCA
  <2>1. cas' \in Seq(CA) /\ store' \in [cur : Nat, old : Nat, leafTime : Nat]
    BY <1>11, NewCA, NewStore
  <2>2. pc' = "leaf" /\ UNCHANGED <<owner, due, use, leaves, ingress, config, node, clean, fails>>
    BY <1>11 DEF GenerateCA
  <2>3. QED BY <2>1, <2>2
<1>12. CASE GenerateLeaf
  BY <1>12, NewLeaf DEF GenerateLeaf
<1>13. CASE DeleteStaleCA
  <2>1. cas' \in Seq(CA)
    BY <1>0, <1>13, RemoveAtFacts DEF DeleteStaleCA
  <2>2. QED BY <1>13, <2>1 DEF DeleteStaleCA
<1>14. CASE DeleteStaleLeaf
  <2>1. leaves' \in Seq(Leaf)
    BY <1>0, <1>14, RemoveAtFacts DEF DeleteStaleLeaf
  <2>2. QED BY <1>14, <2>1 DEF DeleteStaleLeaf
<1>15. CASE CleanupDone
  BY <1>15 DEF CleanupDone
<1>16. CASE ApplyChart
  BY <1>16 DEF ApplyChart, WantedLeaf
<1>17. CASE WriteConfig
  <2>1. IsFiniteSet({store.cur, store.old})
    BY PairIsFinite
  <2>2. IsFiniteSet(config')
    BY <1>17, <2>1, FS_Subset DEF WriteConfig, CAFile, Bundle
  <2>3. config' \subseteq Nat
    BY <1>17 DEF WriteConfig, CAFile, Bundle
  <2>4. QED BY <1>17, <2>2, <2>3 DEF WriteConfig
<1>18. CASE WaitAndPatch
  BY <1>18 DEF WaitAndPatch, End
<1>19. CASE DeleteIngress
  BY <1>19 DEF DeleteIngress, End
<1>20. CASE DeleteChart
  BY <1>20 DEF DeleteChart
<1>21. CASE DeleteConfig
  BY <1>21, FS_EmptySet DEF DeleteConfig, End
<1>22. QED
  BY <1>1, <1>2, <1>3, <1>4, <1>5, <1>6, <1>7, <1>8, <1>9, <1>10, <1>11, <1>12,
     <1>13, <1>14, <1>15, <1>16, <1>17, <1>18, <1>19, <1>20, <1>21
     DEF Next, Actuator

----------------------------------------------------------------------------
(* A served removal leaves nothing. *)

Normal == {"leaf", "cleanup", "ingress", "config", "wait"}
Removing == {"erase", "chart", "resource"}

\* A removing call is one of a resource that goes, and the only one once served.
Control ==
    /\ pc \in Normal => store.cur # 0
    /\ pc \notin Normal => store = NoStore
    /\ pc \in Removing => fate # "kept"
    /\ fate # "kept" /\ ~due => pc \in Removing \cup {"idle"}
    /\ fate = "migrate" => pc \in Removing \cup {"idle"}
    /\ fate # "migrate" => saved = <<>>
    /\ use.time <= time

\* Every key is one.
Positive ==
    /\ \A i \in DOMAIN cas : cas[i].key # 0
    /\ \A i \in DOMAIN saved : saved[i].key # 0
    /\ \A i \in DOMAIN leaves : leaves[i].ca # 0
    /\ ingress # None => ingress.ca # 0

\* What a removing call has removed.
Removed ==
    /\ pc \in {"chart", "resource"} => cas = <<>> /\ leaves = <<>>
    /\ pc = "resource" => ingress = None
    /\ NothingRemains

RInv == SInv /\ Control /\ Positive /\ Removed

LEMMA ControlStep ==
  ASSUME SInv, Control, Positive, [Next]_vars
  PROVE  Control'
<1> USE DEF Control, Normal, Removing, NoStore, NoUse, owner, secrets
<1>0. /\ time \in Nat /\ use.time \in Nat
      /\ pc \in {"idle", "ca", "leaf", "cleanup", "ingress", "config", "wait",
                 "off", "erase", "chart", "resource"}
      /\ fate \in {"kept", "delete", "migrate"}
  BY DEF SInv, TypeOK
<1>1. CASE UNCHANGED vars
  BY <1>1 DEF vars
<1>2. CASE Rotation
  BY <1>0, <1>2 DEF Rotation, StartRotation, Prepared, StartCompleting, Completed, NewPhase
<1>3. CASE Touch
  BY <1>3 DEF Touch
<1>4. CASE SwitchPurpose \/ Delete
  BY <1>4 DEF SwitchPurpose, Delete, Change
<1>5. CASE Migrate
  BY <1>5 DEF Migrate, Change, Served
<1>6. CASE Restore
  BY <1>6 DEF Restore, Served
<1>7. CASE Age
  BY <1>7 DEF Age
<1>8. CASE NodesCatchUp
  BY <1>8 DEF NodesCatchUp
<1>9. CASE CallFails
  BY <1>0, <1>9 DEF CallFails, End
<1>10. CASE Start
  BY <1>0, <1>10 DEF Start
<1>11. CASE GenerateCA
  <2>1. store'.cur # 0
    <3>1. PICK i \in DOMAIN cas' : store'.cur = cas'[i].key
      BY <1>11, NewStore
    <3>2. CASE cas' = cas
      BY <3>1, <3>2 DEF Positive
    <3>3. CASE cas' = Append(cas, [time |-> CATime, key |-> Fresh(KeysInUse)])
      <4>1. \/ cas'[i] = [time |-> CATime, key |-> Fresh(KeysInUse)]
            \/ \E k \in DOMAIN cas : cas'[i] = cas[k]
        BY <1>11, <3>1, <3>3, NewCA, AppendFacts DEF SInv, TypeOK
      <4>2. QED BY <1>11, <3>1, <4>1, NewCA DEF Positive
    <3>4. QED BY <1>11, <3>2, <3>3, NewCA
  <2>2. /\ pc = "ca" /\ pc' = "leaf"
        /\ UNCHANGED <<phase, time, on, fate, saved, due, use>>
    BY <1>11 DEF GenerateCA
  <2>3. QED BY <2>1, <2>2
<1>12. CASE GenerateLeaf
  BY <1>12 DEF GenerateLeaf
<1>13. CASE DeleteStaleCA
  BY <1>13 DEF DeleteStaleCA
<1>14. CASE DeleteStaleLeaf
  BY <1>14 DEF DeleteStaleLeaf
<1>15. CASE CleanupDone
  BY <1>15 DEF CleanupDone
<1>16. CASE ApplyChart
  BY <1>16 DEF ApplyChart
<1>17. CASE WriteConfig
  BY <1>17 DEF WriteConfig
<1>18. CASE WaitAndPatch
  BY <1>0, <1>18 DEF WaitAndPatch, End
<1>19. CASE DeleteIngress
  BY <1>0, <1>19 DEF DeleteIngress, End
<1>20. CASE DeleteChart
  BY <1>20 DEF DeleteChart
<1>21. CASE DeleteConfig
  BY <1>0, <1>21 DEF DeleteConfig, End
<1>22. QED
  BY <1>1, <1>2, <1>3, <1>4, <1>5, <1>6, <1>7, <1>8, <1>9, <1>10, <1>11, <1>12,
     <1>13, <1>14, <1>15, <1>16, <1>17, <1>18, <1>19, <1>20, <1>21
     DEF Next, Actuator

LEMMA PositiveStep ==
  ASSUME SInv, Control, Positive, [Next]_vars
  PROVE  Positive'
<1> USE DEF Positive, owner, secrets
<1>0. cas \in Seq(CA) /\ saved \in Seq(CA) /\ leaves \in Seq(Leaf)
  BY DEF SInv, TypeOK
<1>1. CASE UNCHANGED vars
  BY <1>1 DEF vars
<1>2. CASE Rotation \/ Touch \/ SwitchPurpose \/ Delete \/ NodesCatchUp \/ CallFails
  BY <1>2 DEF Rotation, StartRotation, Prepared, StartCompleting, Completed, NewPhase,
              Touch, SwitchPurpose, Delete, Change, NodesCatchUp, CallFails
<1>3. CASE Start \/ CleanupDone \/ WriteConfig \/ WaitAndPatch \/ DeleteConfig
  BY <1>3 DEF Start, CleanupDone, WriteConfig, WaitAndPatch, DeleteConfig
<1>4. CASE Migrate
  BY <1>4 DEF Migrate, Change, Persisted
<1>5. CASE Restore
  BY <1>5 DEF Restore
<1>6. CASE Age
  BY <1>6, Aged DEF Age
<1>7. CASE GenerateCA
  <2>1. \A i \in DOMAIN cas' : cas'[i].key # 0
    <3>1. SUFFICES ASSUME NEW i \in DOMAIN cas' PROVE cas'[i].key # 0
      OBVIOUS
    <3>2. CASE cas' = cas
      BY <3>1, <3>2
    <3>3. CASE cas' = Append(cas, [time |-> CATime, key |-> Fresh(KeysInUse)])
      <4>1. \/ cas'[i] = [time |-> CATime, key |-> Fresh(KeysInUse)]
            \/ \E k \in DOMAIN cas : cas'[i] = cas[k]
        BY <1>0, <1>7, <3>1, <3>3, NewCA, AppendFacts
      <4>2. QED BY <1>7, <3>1, <4>1, NewCA
    <3>4. QED BY <1>7, <3>2, <3>3, NewCA
  <2>2. UNCHANGED <<saved, leaves, ingress>>
    BY <1>7 DEF GenerateCA
  <2>3. QED BY <2>1, <2>2
<1>8. CASE GenerateLeaf
  <2>1. \A i \in DOMAIN leaves' : leaves'[i].ca # 0
    <3>1. SUFFICES ASSUME NEW i \in DOMAIN leaves' PROVE leaves'[i].ca # 0
      OBVIOUS
    <3> DEFINE new == [ca |-> WantedLeaf.ca, time |-> WantedLeaf.time, aged |-> FALSE]
    <3>2. new.ca # 0
      BY <1>8 DEF GenerateLeaf, WantedLeaf, Control, Normal
    <3>3. CASE leaves' = leaves
      BY <3>1, <3>3
    <3>4. CASE leaves' = Append(leaves, new)
      <4>1. leaves'[i] = new \/ \E k \in DOMAIN leaves : leaves'[i] = leaves[k]
        BY <1>0, <1>8, <3>1, <3>4, NewLeaf, AppendFacts
      <4>2. QED BY <3>2, <4>1
    <3>5. QED BY <1>8, <3>3, <3>4, NewLeaf
  <2>2. UNCHANGED <<cas, saved, ingress>>
    BY <1>8 DEF GenerateLeaf
  <2>3. QED BY <2>1, <2>2
<1>9. CASE DeleteStaleCA
  <2>1. PICK i \in DOMAIN cas : cas' = RemoveAt(cas, i)
    BY <1>9 DEF DeleteStaleCA
  <2>2. \A j \in DOMAIN cas' : \E k \in DOMAIN cas : cas'[j] = cas[k]
    BY <1>0, <2>1, RemoveAtFacts
  <2>3. QED BY <1>9, <2>2 DEF DeleteStaleCA
<1>10. CASE DeleteStaleLeaf
  <2>1. PICK i \in DOMAIN leaves : leaves' = RemoveAt(leaves, i)
    BY <1>10 DEF DeleteStaleLeaf
  <2>2. \A j \in DOMAIN leaves' : \E k \in DOMAIN leaves : leaves'[j] = leaves[k]
    BY <1>0, <2>1, RemoveAtFacts
  <2>3. QED BY <1>10, <2>2 DEF DeleteStaleLeaf
<1>11. CASE ApplyChart
  BY <1>11 DEF ApplyChart, WantedLeaf, Control, Normal
<1>12. CASE DeleteIngress \/ DeleteChart
  BY <1>12 DEF DeleteIngress, DeleteChart
<1>13. QED
  BY <1>1, <1>2, <1>3, <1>4, <1>5, <1>6, <1>7, <1>8, <1>9, <1>10, <1>11, <1>12
     DEF Next, Actuator

LEMMA RemovedStep ==
  ASSUME RInv, [Next]_vars
  PROVE  Removed'
<1> USE DEF RInv, Removed, NothingRemains, Served, owner, secrets
<1>0. /\ cas \in Seq(CA) /\ saved \in Seq(CA) /\ leaves \in Seq(Leaf)
      /\ fate \in {"kept", "delete", "migrate"}
  BY DEF SInv, TypeOK
<1>1. CASE UNCHANGED vars
  BY <1>1 DEF vars
<1>2. CASE Rotation
  BY <1>2 DEF Rotation, StartRotation, Prepared, StartCompleting, Completed, NewPhase
<1>3. CASE Touch \/ SwitchPurpose \/ Delete \/ Migrate
  BY <1>3 DEF Touch, SwitchPurpose, Delete, Migrate, Change
<1>4. CASE Restore
  BY <1>4 DEF Restore
<1>5. CASE Age
  <2>1. leaves # <<>>
    BY <1>5 DEF Age
  <2>2. pc = "idle" /\ UNCHANGED <<fate, due, pc, cas, ingress, config>>
    BY <1>5 DEF Age
  <2>3. QED BY <2>1, <2>2
<1>6. CASE NodesCatchUp
  BY <1>6 DEF NodesCatchUp
<1>7. CASE CallFails
  BY <1>7 DEF CallFails, End
<1>8. CASE Start
  BY <1>8 DEF Start
<1>9. CASE GenerateCA \/ GenerateLeaf
  BY <1>9 DEF GenerateCA, GenerateLeaf
<1>10. CASE DeleteStaleCA \/ DeleteStaleLeaf
  BY <1>10 DEF DeleteStaleCA, DeleteStaleLeaf, Cleaning
<1>11. CASE CleanupDone
  <2>1. CASE pc = "cleanup"
    BY <1>11, <2>1 DEF CleanupDone
  <2>2. CASE pc = "erase"
    <3>1. store = NoStore
      BY <2>2 DEF Control, Normal
    <3>2. /\ \A i \in DOMAIN cas : ~StaleCA(cas[i])
          /\ \A i \in DOMAIN leaves : ~StaleLeaf(leaves[i])
      BY <1>11, <2>2 DEF CleanupDone, Cleaning
    <3>3. cas = <<>>
      <4>1. SUFFICES ASSUME cas # <<>> PROVE FALSE
        OBVIOUS
      <4>2. Len(cas) \in DOMAIN cas
        BY <1>0, <4>1, LastIndex
      <4>3. cas[Len(cas)].key # 0
        BY <4>2 DEF Positive
      <4>4. QED BY <3>1, <3>2, <4>2, <4>3 DEF StaleCA, NoStore
    <3>4. leaves = <<>>
      <4>1. SUFFICES ASSUME leaves # <<>> PROVE FALSE
        OBVIOUS
      <4>2. Len(leaves) \in DOMAIN leaves
        BY <1>0, <4>1, LastIndex
      <4>3. leaves[Len(leaves)].ca # 0
        BY <4>2 DEF Positive
      <4>4. Name(leaves[Len(leaves)]) # WantedLeaf
        BY <3>1, <4>3 DEF Name, WantedLeaf, NoStore
      <4>5. QED BY <3>2, <4>2, <4>4 DEF StaleLeaf
    <3>5. pc' = "chart" /\ UNCHANGED <<cas, leaves>>
      BY <1>11, <2>2 DEF CleanupDone
    <3>6. QED BY <3>3, <3>4, <3>5
  <2>3. QED BY <1>11, <2>1, <2>2 DEF CleanupDone
<1>12. CASE ApplyChart \/ WriteConfig
  BY <1>12 DEF ApplyChart, WriteConfig
<1>13. CASE WaitAndPatch \/ DeleteIngress
  <2>1. fate' # "kept" => due'
    BY <1>13 DEF WaitAndPatch, DeleteIngress, Control, Removing
  <2>2. pc' = "idle"
    BY <1>13 DEF WaitAndPatch, DeleteIngress, End
  <2>3. QED BY <2>1, <2>2
<1>14. CASE DeleteChart
  BY <1>14 DEF DeleteChart
<1>15. CASE DeleteConfig
  BY <1>15 DEF DeleteConfig, End
<1>16. QED
  BY <1>1, <1>2, <1>3, <1>4, <1>5, <1>6, <1>7, <1>8, <1>9, <1>10, <1>11, <1>12,
     <1>13, <1>14, <1>15
     DEF Next, Actuator

LEMMA InitRInv ==
  ASSUME Init
  PROVE  RInv
<1> USE DEF Init
<1>1. TypeOK
  <2>1. <<>> \in Seq(CA) /\ <<>> \in Seq(Leaf)
    BY EmptySeq
  <2>2. QED BY <2>1 DEF TypeOK, Phases, NoUse, NoStore, None
<1>2. SInv
  BY <1>1, FS_EmptySet DEF SInv
<1>3. Control
  <2>1. use.time <= time
    BY DEF NoUse
  <2>2. pc = "idle" /\ fate = "kept" /\ store = NoStore /\ saved = <<>>
    OBVIOUS
  <2>3. QED BY <2>1, <2>2 DEF Control, Normal, Removing
<1>4. Positive /\ Removed
  BY DEF Positive, Removed, NothingRemains
<1>5. QED BY <1>2, <1>3, <1>4 DEF RInv

LEMMA RInvStep ==
  ASSUME RInv, [Next]_vars
  PROVE  RInv'
<1>1. SInv /\ Control /\ Positive
  BY DEF RInv
<1>2. SInv'
  BY <1>1, TypeStep
<1>3. Control' /\ Positive'
  BY <1>1, ControlStep, PositiveStep
<1>4. Removed'
  BY RemovedStep
<1>5. QED BY <1>2, <1>3, <1>4 DEF RInv

(***************************************************************************)
(* Every variable has its type, for any number of rotations, switches,     *)
(* moves and failing calls.                                                *)
(***************************************************************************)
THEOREM TypeCorrect == Spec => []TypeOK
<1>1. Init => RInv
  BY InitRInv
<1>2. RInv /\ [Next]_vars => RInv'
  BY RInvStep
<1>3. RInv => TypeOK
  BY DEF RInv, SInv
<1>4. QED
  BY <1>1, <1>2, <1>3, PTL DEF Spec

(***************************************************************************)
(* A served removal leaves no secret, no Ingress and no configuration      *)
(* (shoot_cp_actuator.go:334-365), for any number of rotations, switches,  *)
(* moves and failing calls.                                                *)
(***************************************************************************)
THEOREM RemovalComplete == Spec => []NothingRemains
<1>1. Init => RInv
  BY InitRInv
<1>2. RInv /\ [Next]_vars => RInv'
  BY RInvStep
<1>3. RInv => NothingRemains
  BY DEF RInv, Removed
<1>4. QED
  BY <1>1, <1>2, <1>3, PTL DEF Spec

----------------------------------------------------------------------------
(* Until the first rotation there is one authority. *)

\* Every key is k.
OneKey(k) ==
    /\ \A i \in DOMAIN cas : cas[i].key = k
    /\ \A i \in DOMAIN saved : saved[i].key = k
    /\ ingress.ca \in {0, k} /\ store.cur \in {0, k} /\ store.old = 0
    /\ config \subseteq {k} /\ node \subseteq {k}

\* No key was ever used.
Virgin == ingress.ca = 0 /\ config = {} /\ node = {}

\* The CA is where the next call finds it, unless nothing was made yet.
OneAuthority ==
    /\ \E k \in Nat : OneKey(k)
    /\ Len(cas) <= 1 /\ Len(saved) <= 1
    /\ pc \in Normal => cas # <<>>
    /\ (fate = "kept" \/ pc = "ca") /\ cas = <<>> => Virgin
    /\ fate = "migrate" /\ saved = <<>> => Virgin

AInv == RInv /\ (time = 0 => OneAuthority)

\* The key in the secret of the CA is what the nodes and the Ingress have.
LEMMA GenerateCAStep ==
  ASSUME RInv, OneAuthority, time = 0, GenerateCA
  PROVE  OneAuthority'
<1> DEFINE new == [time |-> CATime, key |-> Fresh(KeysInUse)]
<1>0. /\ cas \in Seq(CA) /\ cas' \in Seq(CA) /\ SInv
      /\ \A i \in DOMAIN cas : cas[i] \in CA
  BY NewCA, Elements DEF RInv, SInv, TypeOK
<1>1. /\ pc = "ca" /\ pc' = "leaf"
      /\ UNCHANGED <<fate, saved, ingress, config, node>>
  BY DEF GenerateCA, owner
<1>2. PICK i \in DOMAIN cas' : store'.cur = cas'[i].key
  BY <1>0, NewStore
<1>3. store'.old = OldCA(cas', store'.cur)
  BY <1>0, NewStore
<1>4. ASSUME NEW k \in Nat, \A j \in DOMAIN cas' : cas'[j].key = k
      PROVE  store'.cur = k /\ store'.old = 0
  BY <1>2, <1>3, <1>4 DEF OldCA, NewestOther
<1>5. CASE cas = <<>>
  <2>1. ingress.ca = 0 /\ config = {} /\ node = {}
    BY <1>1, <1>5 DEF OneAuthority, Virgin
  <2>2. saved = <<>>
    <3>1. fate # "migrate"
      BY <1>1 DEF RInv, Control, Removing
    <3>2. QED BY <3>1 DEF RInv, Control
  <2>3. cas' = Append(cas, new) /\ new \in CA
    BY <1>0, <1>5, NewCA DEF GenerateCA
  <2>4. Len(cas') = 1 /\ \A j \in DOMAIN cas' : cas'[j] = new
    <3>1. Len(cas) = 0
      BY <1>5
    <3>2. DOMAIN cas = {}
      BY <1>5
    <3>3. QED BY <1>0, <2>3, <3>1, <3>2, AppendFacts
  <2>5. cas' # <<>>
    BY <2>4
  <2>6. PICK k \in Nat : k = new.key
    BY <2>3 DEF CA
  <2>7. (\A j \in DOMAIN cas' : cas'[j].key = k) /\ store'.cur = k /\ store'.old = 0
    BY <1>4, <2>4, <2>6
  <2>8. OneKey(k)'
    BY <1>1, <2>1, <2>2, <2>7 DEF OneKey
  <2>9. Len(saved') <= 1 /\ (fate = "migrate" => FALSE)
    BY <1>1 DEF OneAuthority, RInv, Control, Removing
  <2>10. Len(cas') <= 1
    BY <2>4
  <2>11. QED
    BY <1>1, <2>5, <2>6, <2>8, <2>9, <2>10 DEF OneAuthority
<1>6. CASE cas # <<>>
  <2>1. PICK k \in Nat : OneKey(k)
    BY DEF OneAuthority
  <2>2. Len(cas) \in DOMAIN cas
    BY <1>0, <1>6, LastIndex
  <2>3. use.time = 0
    <3>1. use.time <= 0 /\ use.time \in Nat
      BY DEF RInv, SInv, TypeOK, Control
    <3>2. QED BY <3>1
  <2>4. CATime = cas[Len(cas)].time
    BY <1>6, <2>3 DEF CATime, Newest
  <2>5. cas' = cas
    BY <2>2, <2>4 DEF GenerateCA
  <2>6. store'.cur = k /\ store'.old = 0
    BY <1>4, <2>1, <2>5 DEF OneKey
  <2>7. OneKey(k)'
    BY <1>1, <2>1, <2>5, <2>6 DEF OneKey
  <2>8. fate # "migrate"
    BY <1>1 DEF RInv, Control, Removing
  <2>9. QED
    BY <1>1, <1>6, <2>5, <2>7, <2>8 DEF OneAuthority
<1>7. QED
  BY <1>5, <1>6

LEMMA DeleteStaleCAStep ==
  ASSUME RInv, OneAuthority, DeleteStaleCA
  PROVE  OneAuthority'
<1>0. cas \in Seq(CA) /\ Len(cas) <= 1
  BY DEF RInv, SInv, TypeOK, OneAuthority
<1>1. PICK i \in DOMAIN cas : StaleCA(cas[i]) /\ cas' = RemoveAt(cas, i)
  BY DEF DeleteStaleCA
<1>2. /\ pc \in {"cleanup", "erase"}
      /\ UNCHANGED <<fate, pc, store, saved, ingress, config, node>>
  BY DEF DeleteStaleCA, Cleaning, owner
<1>3. PICK k \in Nat : OneKey(k)
  BY DEF OneAuthority
<1>4. pc = "erase"
  <2>1. SUFFICES ASSUME pc = "cleanup" PROVE FALSE
    BY <1>2
  <2>2. store.cur = k
    BY <1>3, <2>1 DEF RInv, Control, Normal, OneKey
  <2>3. cas[i].key = k
    BY <1>3 DEF OneKey
  <2>4. QED BY <1>1, <2>2, <2>3 DEF StaleCA
<1>5. fate # "kept"
  BY <1>4 DEF RInv, Control, Removing
<1>6. /\ Len(cas') = Len(cas) - 1
      /\ \A j \in DOMAIN cas' : \E l \in DOMAIN cas : cas'[j] = cas[l]
  BY <1>0, <1>1, RemoveAtFacts
<1>7. Len(cas') <= 1
  <2>1. Len(cas) \in Nat
    BY <1>0, LenProperties
  <2>2. QED BY <1>0, <1>6, <2>1
<1>8. OneKey(k)'
  BY <1>2, <1>3, <1>6 DEF OneKey
<1>9. QED
  BY <1>2, <1>4, <1>5, <1>7, <1>8 DEF OneAuthority, Normal, Virgin

LEMMA OneAuthorityStep ==
  ASSUME RInv, OneAuthority, time = 0, [Next]_vars, time' = 0
  PROVE  OneAuthority'
<1> USE DEF OneAuthority, OneKey, Virgin, Normal, owner, secrets
<1>0. PICK k \in Nat : OneKey(k)
  OBVIOUS
<1>1. CASE UNCHANGED vars
  BY <1>1 DEF vars
<1>2. CASE Rotation
  BY <1>2 DEF Rotation, StartRotation, Prepared, StartCompleting, Completed, NewPhase
<1>3. CASE Touch \/ SwitchPurpose
  BY <1>3 DEF Touch, SwitchPurpose, Change
<1>4. CASE Delete
  BY <1>4 DEF Delete, Change
<1>5. CASE Migrate
  <2>1. fate = "kept" /\ pc = "idle"
    BY <1>5 DEF Migrate, Change, Served
  <2>2. /\ fate' = "migrate" /\ saved' = cas
        /\ UNCHANGED <<pc, cas, store, ingress, config, node>>
    BY <1>5 DEF Migrate, Change, Persisted
  <2>3. OneKey(k)'
    BY <1>0, <2>2
  <2>4. QED BY <2>1, <2>2, <2>3
<1>6. CASE Restore
  <2>1. fate = "migrate" /\ pc = "idle"
    BY <1>6 DEF Restore, Served
  <2>2. /\ fate' = "kept" /\ cas' = saved /\ saved' = <<>>
        /\ UNCHANGED <<pc, store, ingress, config, node>>
    BY <1>6 DEF Restore
  <2>3. OneKey(k)'
    BY <1>0, <2>2
  <2>4. Len(saved') <= 1
    BY <2>2
  <2>5. QED BY <2>1, <2>2, <2>3, <2>4
<1>7. CASE Age
  BY <1>7 DEF Age
<1>8. CASE NodesCatchUp
  <2>1. OneKey(k)'
    BY <1>0, <1>8 DEF NodesCatchUp
  <2>2. config # {} /\ UNCHANGED <<fate, pc, cas, saved>>
    BY <1>8 DEF NodesCatchUp
  <2>3. QED BY <2>1, <2>2
<1>9. CASE CallFails \/ WaitAndPatch
  <2>1. /\ pc' = "idle" /\ store' = NoStore
        /\ UNCHANGED <<fate, cas, saved, ingress, config, node>>
    BY <1>9 DEF CallFails, WaitAndPatch, End
  <2>2. OneKey(k)'
    BY <1>0, <2>1 DEF NoStore
  <2>3. QED BY <2>1, <2>2
<1>10. CASE Start
  BY <1>10 DEF Start
<1>11. CASE GenerateCA
  BY <1>11, GenerateCAStep
<1>12. CASE GenerateLeaf \/ DeleteStaleLeaf \/ CleanupDone
  <2>1. /\ pc' \in Normal => pc \in Normal
        /\ pc' # "ca"
        /\ UNCHANGED <<fate, cas, saved, store, ingress, config, node>>
    BY <1>12 DEF GenerateLeaf, DeleteStaleLeaf, CleanupDone, Cleaning
  <2>2. QED BY <2>1
<1>13. CASE DeleteStaleCA
  BY <1>13, DeleteStaleCAStep
<1>14. CASE ApplyChart
  <2>1. /\ ingress' = WantedLeaf /\ pc = "ingress" /\ pc' = "config"
        /\ UNCHANGED <<fate, cas, saved, store, config, node>>
    BY <1>14 DEF ApplyChart
  <2>2. OneKey(k)'
    BY <1>0, <2>1 DEF WantedLeaf
  <2>3. fate # "migrate"
    BY <2>1 DEF RInv, Control, Removing
  <2>4. QED BY <2>1, <2>2, <2>3
<1>15. CASE WriteConfig
  <2>1. /\ config' = Bundle /\ pc = "config" /\ pc' = "wait"
        /\ UNCHANGED <<fate, cas, saved, store, ingress, node>>
    BY <1>15 DEF WriteConfig, CAFile
  <2>2. OneKey(k)'
    BY <1>0, <2>1 DEF Bundle
  <2>3. fate # "migrate"
    BY <2>1 DEF RInv, Control, Removing
  <2>4. QED BY <2>1, <2>2, <2>3
<1>16. CASE DeleteIngress
  <2>1. /\ pc' = "idle" /\ ingress' = None /\ store' = NoStore
        /\ UNCHANGED <<fate, cas, saved, config, node>>
    BY <1>16 DEF DeleteIngress, End
  <2>2. OneKey(k)'
    BY <1>0, <2>1 DEF None, NoStore
  <2>3. QED BY <2>1, <2>2 DEF None
<1>17. CASE DeleteChart
  <2>1. /\ pc' = "resource" /\ ingress' = None
        /\ UNCHANGED <<fate, cas, saved, store, config, node>>
    BY <1>17 DEF DeleteChart
  <2>2. OneKey(k)'
    BY <1>0, <2>1 DEF None
  <2>3. QED BY <2>1, <2>2 DEF None
<1>18. CASE DeleteConfig
  <2>1. /\ pc' = "idle" /\ config' = {} /\ store' = NoStore
        /\ UNCHANGED <<fate, cas, saved, ingress, node>>
    BY <1>18 DEF DeleteConfig, End
  <2>2. OneKey(k)'
    BY <1>0, <2>1 DEF NoStore
  <2>3. QED BY <2>1, <2>2
<1>19. QED
  BY <1>1, <1>2, <1>3, <1>4, <1>5, <1>6, <1>7, <1>8, <1>9, <1>10, <1>11, <1>12,
     <1>13, <1>14, <1>15, <1>16, <1>17, <1>18
     DEF Next, Actuator

\* Rotations are only counted up.
LEMMA TimeGrows ==
  ASSUME SInv, [Next]_vars
  PROVE  time' = 0 => time = 0
<1>0. time \in Nat
  BY DEF SInv, TypeOK
<1>1. UNCHANGED time \/ StartRotation
  BY DEF vars, owner, Next, Rotation, Prepared, StartCompleting, Completed, Touch,
         SwitchPurpose, Delete, Migrate, Change, Restore, Age, NodesCatchUp, CallFails,
         Actuator, Start, GenerateCA, GenerateLeaf, DeleteStaleCA, DeleteStaleLeaf,
         CleanupDone, ApplyChart, WriteConfig, WaitAndPatch, DeleteIngress,
         DeleteChart, DeleteConfig
<1>2. CASE StartRotation
  BY <1>0, <1>2 DEF StartRotation
<1>3. QED
  BY <1>1, <1>2

(***************************************************************************)
(* As long as no rotation was ever initiated, the nodes trust the Ingress  *)
(* (config.go:37-45: the CA is persisted and never made twice), for any    *)
(* number of switches, moves and failing calls.                            *)
(***************************************************************************)
THEOREM TrustedUntilRotation == Spec => []OneAuthorityUntilRotation
<1>1. Init => AInv
  <2> SUFFICES ASSUME Init PROVE AInv
    OBVIOUS
  <2>1. OneKey(1)
    BY DEF Init, OneKey, None, NoStore
  <2>2. Len(cas) <= 1 /\ Len(saved) <= 1
    BY DEF Init
  <2>3. QED
    BY <2>1, <2>2, InitRInv DEF Init, AInv, OneAuthority, Virgin, Normal, None
<1>2. AInv /\ [Next]_vars => AInv'
  BY RInvStep, OneAuthorityStep, TimeGrows DEF AInv, RInv
<1>3. AInv => OneAuthorityUntilRotation
  <2> SUFFICES ASSUME AInv, time = 0, ingress # None, node # {} PROVE ingress.ca \in node
    BY DEF OneAuthorityUntilRotation
  <2>1. PICK k \in Nat : OneKey(k)
    BY DEF AInv, OneAuthority
  <2>2. ingress.ca = k
    BY <2>1 DEF AInv, RInv, Positive, OneKey
  <2>3. node = {k}
    BY <2>1 DEF OneKey
  <2>4. QED BY <2>2, <2>3
<1>4. QED
  BY <1>1, <1>2, <1>3, PTL DEF Spec

----------------------------------------------------------------------------
(* Rotations. *)

Cleaned == {"ingress", "config", "wait"}

\* What a call has done so far, and which rotation it has read.
InCall ==
    /\ pc \in Normal \ {"leaf"} => \E i \in DOMAIN leaves : Name(leaves[i]) = WantedLeaf
    /\ pc \in Cleaned => /\ \A i \in DOMAIN cas : cas[i].key \in {store.cur, store.old}
                         /\ \A i \in DOMAIN leaves : Name(leaves[i]) = WantedLeaf
    /\ pc \in {"config", "wait"} => ingress = WantedLeaf
    /\ pc = "wait" => config = Bundle
    /\ pc \in Normal /\ use.phase = "Completing" => store.old = 0
    /\ pc # "idle" /\ use.phase = "Completing" => phase = "Completing"
    /\ pc # "idle" /\ ~due => use.time = time /\ (pc = "off" => ~on)
    /\ pc # "idle" /\ phase # "Preparing" => use.time = time

\* A served request leaves an Ingress that fits the configuration.
Quiet == Served /\ on /\ fate = "kept" => HasSecret /\ ingress.ca \in config

\* No CA is of a rotation to come.
Bounded ==
    /\ \A i \in DOMAIN cas : cas[i].time <= time
    /\ \A i \in DOMAIN saved : saved[i].time <= time
    /\ 0 \notin config /\ 0 \notin node

\* The key of the CA of the last rotation is k, 0 when it is not yet made.  The others
\* are used by calls only that have not seen that rotation.
Authority(k) ==
    /\ \A i \in DOMAIN cas : cas[i].time = time <=> cas[i].key = k
    /\ \A i \in DOMAIN saved : saved[i].time = time <=> saved[i].key = k
    /\ pc \in Normal /\ use.time = time => store.cur = k
    /\ pc # "idle" /\ use.time # time => k = 0
    /\ k # 0 /\ (fate = "kept" \/ pc = "ca") => \E i \in DOMAIN cas : cas[i].time = time
    /\ k # 0 /\ fate = "migrate" => \E i \in DOMAIN saved : saved[i].time = time
    /\ k \in node => config = {} \/ k \in config
    /\ phase # "Preparing" \/ (Served /\ fate = "kept") => ingress.ca \in {0, k}

\* A completed rotation has left this key alone.
Alone(k) ==
    clean => /\ k # 0 /\ phase \in {"Completing", "Completed"}
             /\ config \subseteq {k}
             /\ \A i \in DOMAIN leaves : leaves[i].ca = k
             /\ \A i \in DOMAIN cas : cas[i].key = k
             /\ \A i \in DOMAIN saved : saved[i].key = k
             /\ pc \in Normal => store.old = 0

TInv == RInv /\ InCall /\ Quiet /\ Bounded /\ \E k \in Nat : Authority(k) /\ Alone(k)

LEMMA InCallStep ==
  ASSUME RInv, InCall, [Next]_vars
  PROVE  InCall'
<1> USE DEF InCall, Cleaned, Normal, WantedLeaf, owner, secrets
<1>0. /\ cas \in Seq(CA) /\ leaves \in Seq(Leaf)
      /\ pc \in Normal => fate # "migrate"
  BY DEF RInv, SInv, TypeOK, Control, Removing
<1>1. CASE UNCHANGED vars
  BY <1>1 DEF vars, Bundle
<1>2. CASE StartRotation \/ StartCompleting
  BY <1>2 DEF StartRotation, StartCompleting, NewPhase, Bundle
<1>3. CASE Prepared \/ Completed
  BY <1>3 DEF Prepared, Completed, NewPhase, Served
<1>4. CASE Touch \/ SwitchPurpose \/ Delete \/ NodesCatchUp
  BY <1>4 DEF Touch, SwitchPurpose, Delete, Change, NodesCatchUp, Bundle
<1>5. CASE Migrate \/ Restore \/ Age
  BY <1>5 DEF Migrate, Change, Restore, Served, Age
<1>6. CASE CallFails \/ WaitAndPatch \/ DeleteIngress \/ DeleteConfig
  BY <1>6 DEF CallFails, WaitAndPatch, DeleteIngress, DeleteConfig, End
<1>7. CASE Start
  BY <1>7 DEF Start
<1>8. CASE GenerateCA
  <2>1. store'.old = OldCA(cas', store'.cur)
    BY <1>8, NewStore DEF RInv
  <2>2. use.phase = "Completing" => store'.old = 0
    BY <2>1 DEF OldCA
  <2>3. QED
    BY <1>8, <2>2 DEF GenerateCA
<1>9. CASE GenerateLeaf
  <2>1. \E i \in DOMAIN leaves' : Name(leaves'[i]) = WantedLeaf
    <3> DEFINE new == [ca |-> WantedLeaf.ca, time |-> WantedLeaf.time, aged |-> FALSE]
    <3>1. CASE leaves' = leaves
      <4>1. ~(\E i \in DOMAIN leaves : Name(leaves[i]) = WantedLeaf) => leaves' = Append(leaves, new)
        BY <1>9 DEF GenerateLeaf
      <4>2. Len(Append(leaves, new)) = Len(leaves) + 1 /\ Len(leaves) \in Nat
        BY <1>0, <1>9, NewLeaf, AppendFacts, LenProperties DEF RInv
      <4>3. leaves # Append(leaves, new)
        BY <4>2
      <4>4. QED
        BY <3>1, <4>1, <4>3
    <3>2. CASE leaves' = Append(leaves, new)
      <4>1. new \in Leaf
        BY <1>9, NewLeaf DEF RInv
      <4> HIDE DEF new
      <4>2. /\ Len(leaves) + 1 \in DOMAIN leaves' /\ leaves'[Len(leaves) + 1] = new
        <5>1. /\ leaves' \in Seq(Leaf) /\ Len(leaves') = Len(leaves) + 1 /\ Len(leaves) \in Nat
              /\ leaves'[Len(leaves) + 1] = new
          BY <1>0, <3>2, <4>1, AppendProperties, LenProperties
        <5>2. DOMAIN leaves' = 1 .. Len(leaves')
          BY <5>1, LenProperties
        <5>3. QED
          BY <5>1, <5>2
      <4>3. Name(new) = WantedLeaf
        BY DEF new, Name
      <4>4. QED
        BY <4>2, <4>3
    <3>3. QED
      BY <1>9, <3>1, <3>2, NewLeaf DEF RInv
  <2>2. QED
    BY <1>9, <2>1 DEF GenerateLeaf
<1>10. CASE DeleteStaleCA
  BY <1>10 DEF DeleteStaleCA, Cleaning
<1>11. CASE DeleteStaleLeaf
  <2>1. PICK i \in DOMAIN leaves : StaleLeaf(leaves[i]) /\ leaves' = RemoveAt(leaves, i)
    BY <1>11 DEF DeleteStaleLeaf
  <2>2. \A k \in DOMAIN leaves \ {i} : \E j \in DOMAIN leaves' : leaves'[j] = leaves[k]
    BY <1>0, <2>1, RemoveAtFacts
  <2>3. (\E k \in DOMAIN leaves : Name(leaves[k]) = WantedLeaf)
        => \E j \in DOMAIN leaves' : Name(leaves'[j]) = WantedLeaf
    BY <2>1, <2>2 DEF StaleLeaf
  <2>4. QED
    BY <1>11, <2>3 DEF DeleteStaleLeaf, Cleaning
<1>12. CASE CleanupDone
  <2>1. pc = "cleanup" => /\ \A i \in DOMAIN cas : cas[i].key \in {store.cur, store.old}
                          /\ \A i \in DOMAIN leaves : Name(leaves[i]) = WantedLeaf
    BY <1>12 DEF CleanupDone, Cleaning, StaleCA, StaleLeaf
  <2>2. QED
    BY <1>12, <2>1 DEF CleanupDone
<1>13. CASE ApplyChart \/ WriteConfig \/ DeleteChart
  BY <1>13 DEF ApplyChart, WriteConfig, DeleteChart, CAFile, Bundle
<1>14. QED
  BY <1>1, <1>2, <1>3, <1>4, <1>5, <1>6, <1>7, <1>8, <1>9, <1>10, <1>11, <1>12, <1>13
  DEF Next, Rotation, Actuator

LEMMA QuietStep ==
  ASSUME RInv, InCall, Quiet, [Next]_vars
  PROVE  Quiet'
<1> USE DEF Quiet, Served, owner, secrets
<1>0. UNCHANGED <<leaves, ingress>> => (HasSecret' <=> HasSecret)
  BY DEF HasSecret, Name
<1>1. CASE UNCHANGED vars
  BY <1>0, <1>1 DEF vars
<1>2. CASE Rotation
  <2>1. CASE StartRotation \/ StartCompleting
    BY <2>1 DEF StartRotation, StartCompleting, NewPhase
  <2>2. CASE Prepared \/ Completed
    <3>1. UNCHANGED <<due, pc, on, fate, leaves, ingress, config>>
      BY <2>2 DEF Prepared, Completed, NewPhase
    <3>2. QED
      BY <1>0, <3>1
  <2>3. QED
    BY <1>2, <2>1, <2>2 DEF Rotation
<1>3. CASE Touch \/ SwitchPurpose \/ Delete \/ Migrate \/ Restore
  BY <1>3 DEF Touch, SwitchPurpose, Delete, Migrate, Change, Restore
<1>13. CASE NodesCatchUp
  BY <1>0, <1>13 DEF NodesCatchUp
<1>4. CASE Age
  <2>1. DOMAIN leaves' = DOMAIN leaves /\ \A i \in DOMAIN leaves : Name(leaves'[i]) = Name(leaves[i])
    BY <1>4, Aged DEF RInv, Name
  <2>2. UNCHANGED <<pc, due, on, fate, ingress, config>>
    BY <1>4 DEF Age
  <2>3. QED
    BY <2>1, <2>2 DEF HasSecret
<1>5. CASE CallFails
  BY <1>5 DEF CallFails
<1>6. CASE Start
  BY <1>6 DEF Start
<1>7. CASE GenerateCA \/ GenerateLeaf \/ CleanupDone
  BY <1>7 DEF GenerateCA, GenerateLeaf, CleanupDone
<1>8. CASE DeleteStaleCA \/ DeleteStaleLeaf
  BY <1>8 DEF DeleteStaleCA, DeleteStaleLeaf, Cleaning
<1>9. CASE ApplyChart \/ WriteConfig \/ DeleteChart
  BY <1>9 DEF ApplyChart, WriteConfig, DeleteChart
<1>10. CASE WaitAndPatch
  <2>1. pc = "wait" /\ UNCHANGED <<leaves, ingress, config>>
    BY <1>10 DEF WaitAndPatch
  <2>2. ingress = WantedLeaf /\ config = Bundle /\ \E i \in DOMAIN leaves : Name(leaves[i]) = ingress
    BY <2>1 DEF InCall, Normal
  <2>3. store.cur # 0
    BY <2>1 DEF RInv, Control, Normal
  <2>4. ingress.ca \in config
    BY <2>2, <2>3 DEF WantedLeaf, Bundle
  <2>5. QED
    BY <2>1, <2>2, <2>4 DEF HasSecret
<1>11. CASE DeleteIngress
  BY <1>11 DEF DeleteIngress, InCall
<1>12. CASE DeleteConfig
  BY <1>12 DEF DeleteConfig, RInv, Control, Removing
<1>14. QED
  BY <1>1, <1>2, <1>3, <1>4, <1>5, <1>6, <1>7, <1>8, <1>9, <1>10, <1>11, <1>12, <1>13
  DEF Next, Actuator

\* The CA that a call makes or finds is named after the rotation that it has read, or
\* after that of a CA that exists.
LEMMA NewTime ==
  ASSUME RInv, Bounded, GenerateCA
  PROVE  /\ CATime <= time /\ CATime \in Nat
         /\ use.time = time => CATime = time
         /\ use.time # time /\ CATime = time => \E i \in DOMAIN cas : cas[i].time = time
<1>1. /\ SInv /\ cas \in Seq(CA) /\ time \in Nat /\ use.time \in Nat /\ use.time <= time
  BY DEF RInv, SInv, TypeOK, Control
<1>2. CATime \in Nat
  BY <1>1, Times
<1>3. CASE use.time # 0
  BY <1>1, <1>2, <1>3 DEF CATime
<1>4. CASE use.time = 0 /\ cas = <<>>
  BY <1>1, <1>2, <1>4 DEF CATime
<1>5. CASE use.time = 0 /\ cas # <<>>
  <2>1. Len(cas) \in DOMAIN cas /\ CATime = cas[Len(cas)].time
    BY <1>1, <1>5, LastIndex DEF CATime, Newest
  <2>2. CATime <= time
    BY <2>1 DEF Bounded
  <2>3. QED
    BY <1>1, <1>2, <1>5, <2>1, <2>2
<1>6. QED
  BY <1>3, <1>4, <1>5

LEMMA BoundedStep ==
  ASSUME RInv, Bounded, [Next]_vars
  PROVE  Bounded'
<1> USE DEF Bounded, owner, secrets
<1>0. /\ cas \in Seq(CA) /\ time \in Nat /\ SInv
      /\ \A i \in DOMAIN cas : cas[i].time \in Nat
      /\ \A i \in DOMAIN saved : saved[i].time \in Nat
  BY Elements DEF RInv, SInv, TypeOK, CA
<1>1. CASE UNCHANGED vars
  BY <1>1 DEF vars
<1>2. CASE StartRotation
  BY <1>0, <1>2 DEF StartRotation, NewPhase
<1>3. CASE Prepared \/ StartCompleting \/ Completed
  BY <1>3 DEF Prepared, StartCompleting, Completed, NewPhase
<1>4. CASE Touch \/ SwitchPurpose \/ Delete \/ Migrate \/ Restore \/ NodesCatchUp \/ Age
  BY <1>4 DEF Touch, SwitchPurpose, Delete, Migrate, Change, Persisted, Restore, NodesCatchUp, Age
<1>5. CASE CallFails \/ Start \/ GenerateLeaf \/ CleanupDone \/ DeleteStaleLeaf
  BY <1>5 DEF CallFails, Start, GenerateLeaf, CleanupDone, DeleteStaleLeaf
<1>6. CASE ApplyChart \/ DeleteChart \/ WaitAndPatch \/ DeleteIngress \/ DeleteConfig
  BY <1>6 DEF ApplyChart, DeleteChart, WaitAndPatch, DeleteIngress, DeleteConfig
<1>7. CASE WriteConfig
  BY <1>7 DEF WriteConfig, CAFile, Bundle
<1>8. CASE GenerateCA
  <2> DEFINE new == [time |-> CATime, key |-> Fresh(KeysInUse)]
  <2>1. new.time <= time
    BY <1>8, NewTime
  <2>2. \A i \in DOMAIN cas' : cas'[i] = new \/ \E k \in DOMAIN cas : cas'[i] = cas[k]
    BY <1>0, <1>8, NewCA, AppendFacts
  <2>3. UNCHANGED <<time, saved, config, node>>
    BY <1>8 DEF GenerateCA
  <2> HIDE DEF new
  <2>4. QED
    BY <2>1, <2>2, <2>3
<1>9. CASE DeleteStaleCA
  <2>1. PICK i \in DOMAIN cas : cas' = RemoveAt(cas, i)
    BY <1>9 DEF DeleteStaleCA
  <2>2. \A j \in DOMAIN cas' : \E k \in DOMAIN cas : cas'[j] = cas[k]
    BY <1>0, <2>1, RemoveAtFacts
  <2>3. QED
    BY <1>9, <2>2 DEF DeleteStaleCA
<1>10. QED
  BY <1>1, <1>2, <1>3, <1>4, <1>5, <1>6, <1>7, <1>8, <1>9
  DEF Next, Rotation, Actuator

\* The CA that a call makes is the first of the last rotation, or not of it.
LEMMA AuthorityGenerateCA ==
  ASSUME RInv, InCall, Bounded, NEW k \in Nat, Authority(k), Alone(k), GenerateCA
  PROVE  \E j \in Nat : Authority(j)' /\ Alone(j)'
<1> DEFINE new == [time |-> CATime, key |-> Fresh(KeysInUse)]
<1>0. /\ pc = "ca" /\ pc' = "leaf" /\ SInv /\ cas \in Seq(CA) /\ time \in Nat
      /\ UNCHANGED <<phase, time, on, fate, saved, due, use, leaves, ingress, config, node, clean>>
  BY DEF GenerateCA, owner, RInv, SInv, TypeOK
<1>1. PICK c \in DOMAIN cas' : cas'[c].time = CATime /\ store' = Stored(cas', cas'[c].key)
  BY DEF GenerateCA
<1>2. /\ store'.cur = cas'[c].key /\ store'.old = OldCA(cas', cas'[c].key)
  BY <1>1 DEF Stored
<1>3. fate # "migrate" /\ saved = <<>> /\ fate' # "migrate" /\ saved' = <<>>
  BY <1>0 DEF RInv, Control, Removing
<1>4. /\ CATime \in Nat
      /\ use.time = time => CATime = time
      /\ use.time # time /\ CATime = time => \E i \in DOMAIN cas : cas[i].time = time
  BY NewTime
<1>5. Fresh(KeysInUse) \in Nat \ {0} /\ Fresh(KeysInUse) \notin KeysInUse
  BY <1>0, KeysAreFinite, FreshIsNew
<1>6. (phase # "Preparing" => use.time = time) /\ (clean => use.time = time)
  BY <1>0 DEF InCall, Alone
<1>7. CASE cas' = cas
  <2>1. Authority(k)'
    <3>1. use.time = time => store'.cur = k
      BY <1>1, <1>2, <1>4, <1>7 DEF Authority
    <3>2. QED
      BY <1>0, <1>3, <1>7, <3>1 DEF Authority, Normal, Served
  <2>2. Alone(k)'
    <3>1. clean => store'.old = 0
      BY <1>1, <1>2, <1>7 DEF Alone, OldCA, NewestOther
    <3>2. QED
      BY <1>0, <1>7, <3>1 DEF Alone, Normal
  <2>3. QED
    BY <2>1, <2>2
<1>8. CASE cas' # cas
  <2>1. cas' = Append(cas, new) /\ \A i \in DOMAIN cas : cas[i].time # CATime
    BY <1>8 DEF GenerateCA
  <2>2. /\ \A i \in DOMAIN cas' : cas'[i] = new \/ \E l \in DOMAIN cas : cas'[i] = cas[l]
        /\ \A l \in DOMAIN cas : l \in DOMAIN cas' /\ cas'[l] = cas[l]
        /\ Len(cas) + 1 \in DOMAIN cas' /\ cas'[Len(cas) + 1] = new
    <3>1. new \in CA
      BY <1>0, NewCA
    <3> HIDE DEF new
    <3>2. /\ \A i \in DOMAIN cas' : cas'[i] = new \/ \E l \in DOMAIN cas : cas'[i] = cas[l]
          /\ cas' \in Seq(CA) /\ Len(cas') = Len(cas) + 1
      BY <1>0, <2>1, <3>1, AppendFacts
    <3>3. /\ \A l \in 1 .. Len(cas) : cas'[l] = cas[l]
          /\ cas'[Len(cas) + 1] = new
      BY <1>0, <2>1, <3>1, AppendProperties
    <3>4. DOMAIN cas = 1 .. Len(cas) /\ DOMAIN cas' = 1 .. Len(cas) + 1 /\ Len(cas) \in Nat
      BY <1>0, <3>2, LenProperties
    <3>5. QED
      BY <3>2, <3>3, <3>4
  <2>3. new.time = CATime /\ new.key = Fresh(KeysInUse)
    OBVIOUS
  <2> HIDE DEF new
  <2>4. k = 0
    <3>1. CASE use.time # time
      BY <1>0, <3>1 DEF Authority
    <3>2. CASE use.time = time
      BY <1>0, <1>4, <2>1, <3>2 DEF Authority
    <3>3. QED
      BY <3>1, <3>2
  <2>5. ~clean /\ ~clean'
    BY <1>0, <2>4 DEF Alone
  <2>6. /\ \A i \in DOMAIN cas : cas[i].time # time /\ cas[i].key # 0
        /\ \A i \in DOMAIN cas : cas[i].key # new.key
    <3>1. \A i \in DOMAIN cas : cas[i].key # 0
      BY DEF RInv, Positive
    <3>2. \A i \in DOMAIN cas : cas[i].key \in KeysInUse
      BY DEF KeysInUse
    <3>3. QED
      BY <1>5, <2>3, <2>4, <3>1, <3>2 DEF Authority
  <2>7. CASE CATime = time
    <3>0. PICK j \in Nat : j = new.key
      BY <1>5, <2>3
    <3>1. use.time = time
      BY <1>4, <2>1, <2>7
    <3>2. j \in Nat /\ j # 0 /\ j \notin node
      BY <1>5, <2>3, <3>0 DEF KeysInUse
    <3>3. \A i \in DOMAIN cas' : cas'[i].time = time <=> cas'[i].key = j
      BY <2>2, <2>3, <2>6, <2>7, <3>0
    <3>4. store'.cur = j
      BY <1>1, <1>2, <2>7, <3>3
    <3>5. \E i \in DOMAIN cas' : cas'[i].time = time
      BY <2>2, <2>3, <2>7
    <3>6. phase # "Preparing" => ingress.ca \in {0, j}
      BY <2>4 DEF Authority
    <3>7. Authority(j)'
      BY <1>0, <1>3, <3>1, <3>2, <3>3, <3>4, <3>5, <3>6 DEF Authority, Normal, Served
    <3>8. QED
      BY <2>5, <3>2, <3>7 DEF Alone
  <2>8. CASE CATime # time
    <3>1. use.time # time
      BY <1>4, <2>8
    <3>2. \A i \in DOMAIN cas' : cas'[i].time # time /\ cas'[i].key # 0
      BY <1>5, <2>2, <2>3, <2>6, <2>8
    <3>3. Authority(k)'
      BY <1>0, <1>3, <2>4, <3>1, <3>2 DEF Authority, Normal, Served
    <3>4. QED
      BY <2>5, <3>3 DEF Alone
  <2>9. QED
    BY <2>7, <2>8
<1>9. QED
  BY <1>7, <1>8

LEMMA AuthorityDeleteStaleCA ==
  ASSUME RInv, InCall, NEW k \in Nat, Authority(k), Alone(k), DeleteStaleCA
  PROVE  Authority(k)' /\ Alone(k)'
<1>1. PICK i \in DOMAIN cas : StaleCA(cas[i]) /\ cas' = RemoveAt(cas, i)
  BY DEF DeleteStaleCA
<1>2. /\ pc \in {"cleanup", "erase"} /\ cas \in Seq(CA)
      /\ UNCHANGED <<phase, time, on, fate, saved, due, pc, use, store, leaves, ingress,
                     config, node, clean>>
  BY DEF DeleteStaleCA, Cleaning, owner, RInv, SInv, TypeOK
<1>3. /\ \A j \in DOMAIN cas' : \E l \in DOMAIN cas : cas'[j] = cas[l]
      /\ \A l \in DOMAIN cas \ {i} : \E j \in DOMAIN cas' : cas'[j] = cas[l]
  BY <1>1, <1>2, RemoveAtFacts
<1>4. Alone(k)'
  BY <1>2, <1>3 DEF Alone
<1>5. k # 0 /\ fate = "kept" => \E j \in DOMAIN cas' : cas'[j].time = time
  <2>1. SUFFICES ASSUME k # 0, fate = "kept" PROVE \E j \in DOMAIN cas' : cas'[j].time = time
    OBVIOUS
  <2>2. pc = "cleanup"
    BY <1>2, <2>1 DEF RInv, Control, Removing
  <2>3. store.cur = k
    BY <2>1, <2>2 DEF Authority, Normal
  <2>4. PICK l \in DOMAIN cas : cas[l].time = time
    BY <2>1 DEF Authority
  <2>5. cas[l].key = k
    BY <2>4 DEF Authority
  <2>6. l # i
    BY <1>1, <2>3, <2>5 DEF StaleCA
  <2>7. QED
    BY <1>3, <2>4, <2>6
<1>6. \A j \in DOMAIN cas' : cas'[j].time = time <=> cas'[j].key = k
  BY <1>3 DEF Authority
<1>7. Authority(k)'
  BY <1>2, <1>5, <1>6 DEF Authority, Served
<1>8. QED
  BY <1>4, <1>7

LEMMA AuthorityStep ==
  ASSUME RInv, InCall, Quiet, Bounded, NEW k \in Nat, Authority(k), Alone(k), [Next]_vars
  PROVE  \E j \in Nat : Authority(j)' /\ Alone(j)'
<1> USE DEF owner, secrets
<1>0. /\ cas \in Seq(CA) /\ saved \in Seq(CA) /\ leaves \in Seq(Leaf) /\ SInv /\ time \in Nat
      /\ fate \in {"kept", "delete", "migrate"} /\ use.time \in Nat /\ use.time <= time
      /\ \A i \in DOMAIN cas : cas[i] \in CA
      /\ \A i \in DOMAIN saved : saved[i] \in CA
  BY Elements DEF RInv, SInv, TypeOK, Control
<1>1. ASSUME UNCHANGED vars PROVE Authority(k)' /\ Alone(k)'
  BY <1>1 DEF vars, Authority, Alone, Served
<1>2. ASSUME StartRotation PROVE Authority(0)' /\ Alone(0)'
  <2>1. /\ time' = time + 1 /\ ~clean' /\ phase' = "Preparing" /\ due' = TRUE
        /\ UNCHANGED <<on, fate, pc, use, store, cas, leaves, saved, ingress, config, node>>
    BY <1>2 DEF StartRotation, NewPhase
  <2>2. /\ \A i \in DOMAIN cas : cas[i].time # time + 1 /\ cas[i].key # 0
        /\ \A i \in DOMAIN saved : saved[i].time # time + 1 /\ saved[i].key # 0
    BY <1>0 DEF RInv, Positive, Bounded, CA
  <2>3. use.time # time + 1
    BY <1>0
  <2>4. QED
    BY <2>1, <2>2, <2>3 DEF Authority, Alone, Served, Bounded
<1>3. ASSUME Prepared \/ Completed \/ StartCompleting PROVE Authority(k)' /\ Alone(k)'
  <2>1. /\ UNCHANGED <<time, on, fate, pc, use, store, cas, leaves, saved, ingress, config,
                       node, clean>>
        /\ phase = "Preparing" => Served /\ fate = "kept"
        /\ phase' \in {"Prepared", "Completing", "Completed"}
        /\ phase' = "Prepared" => phase = "Preparing"
        /\ phase' = "Completing" => phase = "Prepared"
        /\ fate = "kept"
    BY <1>3 DEF Prepared, Completed, StartCompleting, NewPhase
  <2>2. ingress.ca \in {0, k}
    BY <2>1 DEF Authority
  <2>3. Authority(k)'
    BY <2>1, <2>2 DEF Authority
  <2>4. Alone(k)'
    BY <2>1 DEF Alone
  <2>5. QED
    BY <2>3, <2>4
<1>4. ASSUME Touch \/ SwitchPurpose PROVE Authority(k)' /\ Alone(k)'
  BY <1>4 DEF Touch, SwitchPurpose, Change, Authority, Alone, Served
<1>5. ASSUME Delete PROVE Authority(k)' /\ Alone(k)'
  BY <1>5 DEF Delete, Change, Authority, Alone, Served
<1>6. ASSUME Migrate PROVE Authority(k)' /\ Alone(k)'
  <2>1. /\ fate = "kept" /\ fate' = "migrate" /\ saved' = cas /\ pc = "idle" /\ pc' = "idle"
        /\ UNCHANGED <<phase, time, use, store, cas, leaves, ingress, config, node, clean>>
    BY <1>6 DEF Migrate, Change, Persisted, Served
  <2>2. QED
    BY <2>1 DEF Authority, Alone, Served, Normal
<1>7. ASSUME Restore PROVE Authority(k)' /\ Alone(k)'
  <2>1. /\ fate = "migrate" /\ fate' = "kept" /\ cas' = saved /\ saved' = <<>> /\ due' = TRUE
        /\ pc = "idle" /\ pc' = "idle"
        /\ UNCHANGED <<phase, time, use, store, leaves, ingress, config, node, clean>>
    BY <1>7 DEF Restore, Served
  <2>2. QED
    BY <2>1 DEF Authority, Alone, Served, Normal
<1>8. ASSUME Age PROVE Authority(k)' /\ Alone(k)'
  BY <1>0, <1>8, Aged DEF Age, Authority, Alone, Served
<1>9. ASSUME NodesCatchUp PROVE Authority(k)' /\ Alone(k)'
  BY <1>9 DEF NodesCatchUp, Authority, Alone, Served
<1>10. ASSUME CallFails PROVE Authority(k)' /\ Alone(k)'
  BY <1>10 DEF CallFails, End, Authority, Alone, Served, Normal
<1>11. ASSUME Start PROVE Authority(k)' /\ Alone(k)'
  <2>1. /\ pc = "idle" /\ pc' \in {"ca", "off", "erase"} /\ use'.time = time
        /\ pc' = "ca" => fate = "kept"
        /\ UNCHANGED <<phase, time, fate, cas, leaves, saved, store, ingress, config, node, clean>>
    BY <1>11 DEF Start
  <2>2. QED
    BY <2>1 DEF Authority, Alone, Served, Normal
<1>12. ASSUME GenerateLeaf PROVE Authority(k)' /\ Alone(k)'
  <2>1. /\ pc = "leaf" /\ pc' = "cleanup"
        /\ UNCHANGED <<phase, time, fate, use, cas, saved, store, ingress, config, node, clean, due>>
    BY <1>12 DEF GenerateLeaf
  <2>2. Authority(k)'
    BY <2>1 DEF Authority, Served, Normal
  <2>3. clean => \A i \in DOMAIN leaves' : leaves'[i].ca = k
    <3>1. SUFFICES ASSUME clean, NEW i \in DOMAIN leaves' PROVE leaves'[i].ca = k
      OBVIOUS
    <3>2. store.cur = k
      BY <2>1, <3>1 DEF Authority, Alone, InCall, Normal
    <3> DEFINE new == [ca |-> WantedLeaf.ca, time |-> WantedLeaf.time, aged |-> FALSE]
    <3>3. new.ca = k
      BY <3>2 DEF WantedLeaf
    <3>4. CASE leaves' = leaves
      BY <3>1, <3>4 DEF Alone
    <3>5. CASE leaves' = Append(leaves, new)
      <4>1. leaves'[i] = new \/ \E l \in DOMAIN leaves : leaves'[i] = leaves[l]
        BY <1>0, <1>12, <3>1, <3>5, NewLeaf, AppendFacts
      <4>2. QED
        BY <3>1, <3>3, <4>1 DEF Alone
    <3>6. QED
      BY <1>0, <1>12, <3>4, <3>5, NewLeaf
  <2>4. Alone(k)'
    BY <2>1, <2>3 DEF Alone, Normal
  <2>5. QED
    BY <2>2, <2>4
<1>13. ASSUME DeleteStaleLeaf PROVE Authority(k)' /\ Alone(k)'
  <2>1. PICK i \in DOMAIN leaves : leaves' = RemoveAt(leaves, i)
    BY <1>13 DEF DeleteStaleLeaf
  <2>2. \A j \in DOMAIN leaves' : \E l \in DOMAIN leaves : leaves'[j] = leaves[l]
    BY <1>0, <2>1, RemoveAtFacts
  <2>3. UNCHANGED <<phase, time, fate, pc, use, cas, saved, store, ingress, config, node, clean, due>>
    BY <1>13 DEF DeleteStaleLeaf
  <2>4. QED
    BY <2>2, <2>3 DEF Authority, Alone, Served
<1>14. ASSUME CleanupDone \/ DeleteChart PROVE Authority(k)' /\ Alone(k)'
  <2>1. /\ pc' # "idle" /\ pc' # "ca" /\ pc # "idle" /\ (pc' \in Normal => pc \in Normal)
        /\ ingress' \in {ingress, None}
        /\ UNCHANGED <<phase, time, fate, use, cas, saved, store, leaves, config, node, clean>>
    BY <1>14 DEF CleanupDone, DeleteChart, Normal
  <2>2. QED
    BY <2>1 DEF Authority, Alone, Served, None
<1>15. ASSUME ApplyChart PROVE Authority(k)' /\ Alone(k)'
  <2>1. /\ pc = "ingress" /\ pc' = "config" /\ ingress' = WantedLeaf
        /\ UNCHANGED <<phase, time, fate, use, cas, saved, store, leaves, config, node, clean>>
    BY <1>15 DEF ApplyChart
  <2>2. phase # "Preparing" => ingress'.ca = k
    BY <2>1 DEF InCall, Authority, Normal, WantedLeaf
  <2>3. QED
    BY <2>1, <2>2 DEF Authority, Alone, Served, Normal
<1>16. ASSUME WriteConfig PROVE Authority(k)' /\ Alone(k)'
  <2>1. /\ pc = "config" /\ pc' = "wait" /\ config' = {store.cur, store.old} \ {0}
        /\ UNCHANGED <<phase, time, fate, use, cas, saved, store, leaves, ingress, node, clean>>
    BY <1>16 DEF WriteConfig, CAFile, Bundle
  <2>2. use.time = time => store.cur = k
    BY <2>1 DEF Authority, Normal
  <2>3. k \in node => k # 0 /\ use.time = time
    BY <2>1 DEF Bounded, Authority
  <2>4. Authority(k)'
    BY <2>1, <2>2, <2>3 DEF Authority, Served, Normal
  <2>5. Alone(k)'
    BY <2>1, <2>2 DEF Alone, InCall, Normal
  <2>6. QED
    BY <2>4, <2>5
<1>17. ASSUME WaitAndPatch PROVE Authority(k)' /\ Alone(k)'
  <2>1. /\ pc = "wait" /\ pc' = "idle" /\ clean' = (clean \/ (phase = "Completing" /\ use.phase = "Completing"))
        /\ UNCHANGED <<phase, time, fate, cas, saved, leaves, ingress, config, node, due>>
    BY <1>17 DEF WaitAndPatch, End
  <2>2. ingress = WantedLeaf /\ config = Bundle /\ fate # "migrate" /\ saved = <<>>
    BY <2>1 DEF InCall, RInv, Control, Removing
  <2>3. use.time = time => store.cur = k /\ k # 0
    BY <2>1 DEF Authority, RInv, Control, Normal
  <2>4. ~due => ingress.ca = k
    BY <2>1, <2>2, <2>3 DEF InCall, WantedLeaf
  <2>5. Authority(k)'
    BY <2>1, <2>4 DEF Authority, Served, Normal
  <2>6. CASE clean
    <3>1. Alone(k)'
      BY <2>1, <2>6 DEF Alone, Normal
    <3>2. QED
      BY <2>5, <3>1
  <2>7. CASE phase = "Completing" /\ use.phase = "Completing"
    <3>1. store.old = 0 /\ use.time = time
      BY <2>1, <2>7 DEF InCall, Normal
    <3>2. /\ \A i \in DOMAIN cas : cas[i].key = k
          /\ \A i \in DOMAIN leaves : leaves[i].ca = k
      BY <2>1, <2>3, <3>1 DEF InCall, Cleaned, RInv, Positive, Name, WantedLeaf
    <3>3. Alone(k)'
      <4>1. config \subseteq {k}
        BY <2>2, <2>3, <3>1 DEF Bundle
      <4>2. saved' = <<>> /\ pc' \notin Normal
        BY <2>1, <2>2 DEF Normal
      <4>3. QED
        BY <2>1, <2>3, <2>7, <3>1, <3>2, <4>1, <4>2 DEF Alone
    <3>4. QED
      BY <2>5, <3>3
  <2>8. CASE ~clean'
    BY <2>5, <2>8 DEF Alone
  <2>9. QED
    BY <2>1, <2>5, <2>6, <2>7, <2>8
<1>18. ASSUME DeleteIngress \/ DeleteConfig PROVE Authority(k)' /\ Alone(k)'
  <2>1. /\ pc \in {"off", "resource"} /\ pc' = "idle"
        /\ pc = "resource" => fate # "kept"
        /\ ingress' = None \/ (UNCHANGED ingress /\ pc = "resource")
        /\ config' \in {config, {}}
        /\ UNCHANGED <<phase, time, fate, cas, saved, leaves, node, clean, due>>
    BY <1>18 DEF DeleteIngress, DeleteConfig, End, RInv, Control, Removing
  <2>2. QED
    BY <2>1 DEF Authority, Alone, Served, Normal, None
<1>19. QED
  BY <1>1, <1>2, <1>3, <1>4, <1>5, <1>6, <1>7, <1>8, <1>9, <1>10, <1>11, <1>12, <1>13,
     <1>14, <1>15, <1>16, <1>17, <1>18, AuthorityGenerateCA, AuthorityDeleteStaleCA
  DEF Next, Rotation, Actuator

LEMMA InitTInv == Init => TInv
<1> SUFFICES ASSUME Init PROVE TInv
  OBVIOUS
<1>1. cas = <<>> /\ leaves = <<>> /\ saved = <<>> /\ pc = "idle" /\ due = TRUE /\ phase = "None"
      /\ fate = "kept" /\ ingress = None /\ config = {} /\ node = {} /\ clean = FALSE
  BY DEF Init
<1>2. InCall /\ Quiet /\ Bounded
  BY <1>1 DEF InCall, Quiet, Bounded, Normal, Cleaned, Served
<1>3. Authority(0)
  BY <1>1 DEF Authority, Normal, None, Served
<1>4. Alone(0)
  BY <1>1 DEF Alone
<1>5. QED
  BY <1>2, <1>3, <1>4, InitRInv DEF TInv

LEMMA TInvStep == TInv /\ [Next]_vars => TInv'
<1> SUFFICES ASSUME TInv, [Next]_vars PROVE TInv'
  OBVIOUS
<1>1. RInv' /\ InCall' /\ Quiet' /\ Bounded'
  BY RInvStep, InCallStep, QuietStep, BoundedStep DEF TInv
<1>2. PICK k \in Nat : Authority(k) /\ Alone(k)
  BY DEF TInv
<1>3. \E j \in Nat : Authority(j)' /\ Alone(j)'
  BY <1>2, AuthorityStep DEF TInv
<1>4. QED
  BY <1>1, <1>3 DEF TInv

LEMMA RotationInvariant == Spec => []TInv
<1>1. QED
  BY InitTInv, TInvStep, PTL DEF Spec

(***************************************************************************)
(* After a served request and once the nodes have caught up they trust the *)
(* certificate of Loki's Ingress: the same call hands the leaf to the      *)
(* chart and the bundle with its CA to promtail-config (config.go:37-68,   *)
(* shoot_cp_actuator.go), whatever failed before.                          *)
(***************************************************************************)
THEOREM QuietTrusted == Spec => []QuietMeansTrusted
<1>1. TInv => QuietMeansTrusted
  BY DEF TInv, Quiet, QuietMeansTrusted, Trusted
<1>2. QED
  BY <1>1, RotationInvariant, PTL

(***************************************************************************)
(* A completed rotation leaves no secret, no leaf and no configuration with*)
(* the former CA (the option IgnoreOldSecrets in the phase Completing, and *)
(* the cleanup), for any number of rotations, moves and failing calls.     *)
(***************************************************************************)
THEOREM RotationDropsOldKey == Spec => []OldKeyDropped
<1>1. TInv => OldKeyDropped
  <2>1. SUFFICES ASSUME TInv, clean, NEW i \in DOMAIN cas
                 PROVE  /\ cas[i].time = time
                        /\ config \subseteq {cas[i].key}
                        /\ \A l \in DOMAIN leaves : leaves[l].ca = cas[i].key
    BY DEF OldKeyDropped
  <2>2. PICK k \in Nat : Authority(k) /\ Alone(k)
    BY <2>1 DEF TInv
  <2>3. cas[i].key = k
    BY <2>1, <2>2 DEF Alone
  <2>4. cas[i].time = time
    BY <2>2, <2>3 DEF Authority
  <2>5. config \subseteq {k} /\ \A l \in DOMAIN leaves : leaves[l].ca = k
    BY <2>1, <2>2 DEF Alone
  <2>6. QED
    BY <2>3, <2>4, <2>5
<1>2. QED
  BY <1>1, RotationInvariant, PTL

\* Outside of the preparation a trusted Ingress has the last rotation's CA.
LEMMA TrustStep ==
  ASSUME TInv, [Next]_vars, phase # "Preparing", ingress.ca \in node, ingress' # None
  PROVE  ingress'.ca \in node'
<1>1. PICK k \in Nat : Authority(k) /\ Alone(k)
  BY DEF TInv
<1>2. ingress.ca = k /\ k # 0
  BY <1>1 DEF TInv, Bounded, Authority
<1>3. CASE ApplyChart
  <2>1. pc = "ingress" /\ ingress' = WantedLeaf /\ node' = node
    BY <1>3 DEF ApplyChart
  <2>2. store.cur = k
    BY <1>1, <2>1 DEF TInv, InCall, Authority, Normal
  <2>3. QED
    BY <1>2, <2>1, <2>2 DEF WantedLeaf
<1>4. CASE NodesCatchUp
  <2>1. config # {} /\ node' = config /\ ingress' = ingress
    BY <1>4 DEF NodesCatchUp
  <2>2. k \in config
    BY <1>1, <1>2, <2>1 DEF Authority
  <2>3. QED
    BY <1>2, <2>1, <2>2
<1>5. CASE ~ApplyChart /\ ~NodesCatchUp
  <2>1. node' = node /\ ingress' \in {ingress, None}
    BY <1>5 DEF vars, owner, Next, Rotation, NewPhase, StartRotation, Prepared, StartCompleting,
       Completed, Touch, SwitchPurpose, Delete, Migrate, Change, Restore, Age, CallFails,
       Actuator, Start, GenerateCA, GenerateLeaf, DeleteStaleCA, DeleteStaleLeaf,
       CleanupDone, WriteConfig, WaitAndPatch, DeleteIngress, DeleteChart, DeleteConfig
  <2>2. QED
    BY <2>1
<1>6. QED
  BY <1>3, <1>4, <1>5

(***************************************************************************)
(* Only the preparation of a rotation interrupts the nodes' trust: every   *)
(* bundle and every leaf after it has the new CA (config.go:56), until the *)
(* next rotation.                                                          *)
(***************************************************************************)
THEOREM TrustKept == Spec => TrustNeverLost
<1>1. TInv /\ [Next]_vars
      => [phase # "Preparing" /\ ingress.ca \in node /\ ingress' # None
          => ingress'.ca \in node']_vars
  BY TrustStep
<1>2. QED
  BY <1>1, RotationInvariant, PTL DEF Spec, TrustNeverLost

=============================================================================
