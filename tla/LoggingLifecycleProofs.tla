------------------------ MODULE LoggingLifecycleProofs ------------------------
(***************************************************************************)
(* Proofs about LoggingLifecycle, for any parts, bounds and staleness of   *)
(* the cache: the types, and that nothing deployed is ever left without    *)
(* the finalizer.  The latter needs an owner that asks for a migration     *)
(* only while the controller is quiet; TLC finds a counterexample without. *)
(***************************************************************************)
EXTENDS LoggingLifecycle, TLAPS

----------------------------------------------------------------------------
(* Facts about versions. *)

LEMMA AbsentType == \A t \in Nat : Absent(t) \in Version
  BY DEF Absent, Version, Annotations, OpTypes, OpStates

LEMMA CreatedType ==
  \A t \in Nat, a \in Annotations : Created(t, a) \in Version
  BY DEF Created, Absent, Version, Annotations, OpTypes, OpStates

LEMMA WithoutFinalizerType ==
  \A v \in Version : WithoutFinalizer(v) \in Version
  BY AbsentType DEF WithoutFinalizer, Version

LEMMA OwnerWriteType ==
  ASSUME NEW v \in Version, NEW t \in Nat, NEW g \in Nat, NEW a \in Annotations
  PROVE  /\ [v EXCEPT !.by = "owner", !.ts = t, !.gen = g, !.ann = a] \in Version
         /\ [v EXCEPT !.by = "owner", !.ts = t, !.ann = a] \in Version
  BY DEF Version

LEMMA OwnerDeleteType ==
  ASSUME NEW v \in Version, NEW t \in Nat, NEW g \in Nat
  PROVE  [v EXCEPT !.by = "owner", !.ts = t, !.deleting = TRUE, !.gen = g] \in Version
  BY DEF Version

LEMMA ComputeOperationTypeType ==
  \A v \in Version : ComputeOperationType(v) \in OpTypes
  BY DEF ComputeOperationType, Version, OpTypes

\* Everything but the status, and the kind of the write, is the same.
SameMetadata(v, w) ==
  /\ w.exists = v.exists /\ w.ts = v.ts /\ w.gen = v.gen
  /\ w.deleting = v.deleting /\ w.fin = v.fin /\ w.ann = v.ann

(***************************************************************************)
(* A status patch changes the status only, and the operation type at most  *)
(* to that of the patch.                                                   *)
(***************************************************************************)
StatusPatched(v, t, w) ==
  /\ w \in Version
  /\ w.opType \in {t, v.opType}
  /\ SameMetadata(v, w)

LEMMA WithLastOperationPatches ==
  ASSUME NEW v \in Version, NEW m \in Version, NEW t \in OpTypes, NEW s \in OpStates
  PROVE  StatusPatched(v, t, WithLastOperation(v, m, t, s))
<1> DEFINE a == Merge(m.opType, t, v.opType)
           b == Merge(m.opState, s, v.opState)
<1>1. a \in OpTypes /\ a \in {t, v.opType}
  BY DEF Merge, Version
<1>2. b \in OpStates
  BY DEF Merge, Version
<1>3. WithLastOperation(v, m, t, s) = [v EXCEPT !.opType = a, !.opState = b]
  BY DEF WithLastOperation
<1> HIDE DEF a, b
<1> QED
  BY <1>1, <1>2, <1>3 DEF Version, StatusPatched, SameMetadata

LEMMA ObservedPatches ==
  ASSUME NEW v \in Version, NEW t, NEW w, StatusPatched(v, t, w),
         NEW m \in Version, NEW e \in BOOLEAN
  PROVE  StatusPatched(v, t, Observed(w, m, e))
<1> DEFINE a == Merge(m.obs, m.gen, w.obs)
           b == e \/ Merge(m.err, e, w.err)
<1>1. a \in Nat
  BY DEF Merge, Version, StatusPatched
<1>2. b \in BOOLEAN
  BY DEF Merge, Version, StatusPatched
<1>3. Observed(w, m, e) = [w EXCEPT !.obs = a, !.err = b]
  BY DEF Observed
<1> HIDE DEF a, b
<1> QED
  BY <1>1, <1>2, <1>3 DEF Version, StatusPatched, SameMetadata

LEMMA ByStatusPatches ==
  ASSUME NEW v \in Version, NEW t, NEW w, StatusPatched(v, t, w)
  PROVE  StatusPatched(v, t, [w EXCEPT !.by = "status"])
  BY DEF Version, StatusPatched, SameMetadata

LEMMA CustomPatches ==
  ASSUME NEW v \in Version, NEW m \in Version, NEW t \in OpTypes
  PROVE  /\ StatusPatched(v, t, [ProcessingCustom(v, m, t) EXCEPT !.by = "status"])
         /\ StatusPatched(v, t, [SuccessCustom(v, m, t) EXCEPT !.by = "status"])
         /\ StatusPatched(v, t, [ErrorCustom(v, m, t) EXCEPT !.by = "status"])
<1>1. {"Processing", "Error", "Succeeded"} \subseteq OpStates
  BY DEF OpStates
<1>2. StatusPatched(v, t, ProcessingCustom(v, m, t))
  BY <1>1, WithLastOperationPatches DEF ProcessingCustom
<1>3. StatusPatched(v, t, SuccessCustom(v, m, t))
  BY <1>1, WithLastOperationPatches, ObservedPatches DEF SuccessCustom
<1>4. StatusPatched(v, t, ErrorCustom(v, m, t))
  BY <1>1, WithLastOperationPatches, ObservedPatches DEF ErrorCustom
<1> QED
  BY <1>2, <1>3, <1>4, ByStatusPatches

----------------------------------------------------------------------------
(* Facts about the sequence of versions. *)

LEMMA AppendFacts ==
  ASSUME NEW S, NEW s \in Seq(S), s # <<>>, NEW w \in S
  PROVE  /\ Append(s, w) \in Seq(S)
         /\ Append(s, w) # <<>>
         /\ Len(Append(s, w)) = Len(s) + 1
         /\ Append(s, w)[1] = s[1]
         /\ Append(s, w)[Len(Append(s, w))] = w
         /\ \A i \in 1 .. Len(s) : Append(s, w)[i] = s[i]
  OBVIOUS

LEMMA TailFacts ==
  ASSUME NEW S, NEW s \in Seq(S), Len(s) > 1
  PROVE  /\ Tail(s) \in Seq(S)
         /\ Tail(s) # <<>>
         /\ Len(Tail(s)) = Len(s) - 1
         /\ Tail(s)[Len(Tail(s))] = s[Len(s)]
         /\ \A i \in 1 .. Len(Tail(s)) : Tail(s)[i] = s[i + 1]
<1>1. Tail(s) \in Seq(S) /\ Len(Tail(s)) = Len(s) - 1
  OBVIOUS
<1>2. \A i \in 1 .. Len(s) - 1 : Tail(s)[i] = s[i + 1]
  OBVIOUS
<1>3. Len(s) \in Nat /\ Len(s) - 1 \in 1 .. Len(s) - 1
  OBVIOUS
<1>4. Tail(s)[Len(s) - 1] = s[(Len(s) - 1) + 1]
  BY <1>2, <1>3
<1>5. (Len(s) - 1) + 1 = Len(s)
  BY <1>3
<1>6. Len(Tail(s)) # 0
  BY <1>1, <1>3
<1>7. Tail(s) # <<>>
  <2>1. Len(<<>>) = 0
    OBVIOUS
  <2> QED
    BY <1>6, <2>1, Zenon
<1>8. Tail(s)[Len(Tail(s))] = s[Len(s)]
  BY <1>1, <1>4, <1>5
<1>9. \A i \in 1 .. Len(Tail(s)) : Tail(s)[i] = s[i + 1]
  BY <1>1, <1>2
<1> QED
  BY <1>1, <1>7, <1>8, <1>9

LEMMA SingletonFacts ==
  ASSUME NEW S, NEW w \in S
  PROVE  <<w>> \in Seq(S) /\ <<w>> # <<>> /\ Len(<<w>>) = 1 /\ <<w>>[1] = w
<1>1. <<w>> \in Seq(S)
  OBVIOUS
<1>2. <<w>> # <<>>
  OBVIOUS
<1>3. Len(<<w>>) = 1
  OBVIOUS
<1>4. <<w>>[1] = w
  OBVIOUS
<1> QED
  BY <1>1, <1>2, <1>3, <1>4

LEMMA NonEmptyFacts ==
  ASSUME NEW S, NEW s \in Seq(S), s # <<>>
  PROVE  /\ Len(s) \in Nat \ {0}
         /\ 1 \in 1 .. Len(s) /\ Len(s) \in 1 .. Len(s)
         /\ \A i \in 1 .. Len(s) : s[i] \in S
  OBVIOUS

----------------------------------------------------------------------------
(***************************************************************************)
(* What holds of the versions a lagging cache still has to see.  s is the  *)
(* sequence of versions, from the cached to the stored one.                *)
(***************************************************************************)
Migrating(v) == v.ann = "migrate"
Awaiting(v) == v.ann \in {"restore", "wait-for-state"}

\* No pass that starts from v deploys without adding the finalizer first.
Safe(v) == v.fin => v.deleting \/ Migrating(v)

Newest(s) == s[Len(s)]

AbsentIsBlank(s) ==
  \A i \in 1 .. Len(s) :
     ~s[i].exists => ~s[i].fin /\ ~Retired(s[i]) /\ ~s[i].deleting

\* A pass that relies on the finalizer of a stale version finds it stored.
StaleIsGuarded(s) == \A i \in 1 .. Len(s) : Safe(s[i]) \/ Newest(s).fin

\* Once under migration or deletion, a resource never becomes deployable.
RetiredForGood(s) ==
  \A i, j \in 1 .. Len(s) :
     i <= j => /\ Retired(s[i]) \/ s[i].deleting => Safe(s[j])
               /\ Retired(s[i]) => ~Awaiting(s[j])

\* A migration is requested when the cache is up to date.
MigrationIsNext(s) ==
  \A i, j \in 2 .. Len(s) : i <= j /\ Migrating(s[j]) => Migrating(s[i])

History(s) ==
  AbsentIsBlank(s) /\ StaleIsGuarded(s) /\ RetiredForGood(s) /\ MigrationIsNext(s)

NeverMigrating(s) == \A i \in 1 .. Len(s) : ~Migrating(s[i])
NeverAwaiting(s) == \A i \in 1 .. Len(s) : ~Awaiting(s[i])
AlwaysSafe(s) == \A i \in 1 .. Len(s) : Safe(s[i])
Noticed(s) == NeverMigrating(s) \/ Migrating(s[1])

\* What a single version satisfies, and what a write may make of the stored one.
Proper(w) ==
  /\ ~w.exists => ~w.fin /\ ~Retired(w) /\ ~w.deleting
  /\ Retired(w) \/ w.deleting => Safe(w)
  /\ Retired(w) => ~Awaiting(w)

Extends(v, w) ==
  /\ Safe(v) => Safe(w)
  /\ Awaiting(w) => Awaiting(v)

MayFollow(s, w) ==
  /\ Proper(w)
  /\ \/ Extends(Newest(s), w)
     \/ Len(s) = 1 /\ ~Retired(s[1]) /\ ~s[1].deleting
  /\ Newest(s).fin => w.fin \/ AlwaysSafe(s)
  /\ Migrating(w) => Migrating(Newest(s)) \/ Len(s) = 1

LEMMA SingletonHistory ==
  ASSUME NEW w \in Version, Proper(w)
  PROVE  History(<<w>>) /\ Noticed(<<w>>)
<1>1. Len(<<w>>) = 1 /\ <<w>>[1] = w
  BY SingletonFacts
<1>2. \A i \in 1 .. Len(<<w>>) : <<w>>[i] = w
  BY <1>1
<1> QED
  BY <1>1, <1>2 DEF History, AbsentIsBlank, StaleIsGuarded, RetiredForGood,
     MigrationIsNext, Noticed, NeverMigrating, Newest, Proper, Safe

LEMMA NewestIsProper ==
  ASSUME NEW s \in Seq(Version), s # <<>>, History(s)
  PROVE  Proper(Newest(s)) /\ Newest(s) \in Version
<1>1. Len(s) \in 1 .. Len(s) /\ \A i \in 1 .. Len(s) : s[i] \in Version
  BY NonEmptyFacts
<1> QED
  BY <1>1 DEF History, AbsentIsBlank, RetiredForGood, Newest, Proper

LEMMA AppendHistory ==
  ASSUME NEW s \in Seq(Version), s # <<>>, History(s),
         NEW w \in Version, MayFollow(s, w)
  PROVE  History(Append(s, w))
<1> DEFINE t == Append(s, w)
           n == Len(s)
<1>1. /\ n \in Nat \ {0} /\ Len(t) = n + 1 /\ t[n + 1] = w
      /\ \A i \in 1 .. n : t[i] = s[i]
  BY AppendFacts, NonEmptyFacts
<1>2. \A i \in 1 .. n + 1 : i \in 1 .. n \/ i = n + 1
  BY <1>1
<1>3. n \in 1 .. n /\ 1 \in 1 .. n
  BY <1>1
<1> HIDE DEF t
<1>4. AbsentIsBlank(t)
  BY <1>1, <1>2 DEF AbsentIsBlank, History, MayFollow, Proper
<1>5. StaleIsGuarded(t)
  <2>1. Safe(w) \/ w.fin
    BY <1>1 DEF Newest, Safe
  <2>2. ASSUME NEW i \in 1 .. n
        PROVE  Safe(s[i]) \/ w.fin
    BY <1>1 DEF StaleIsGuarded, History, MayFollow, AlwaysSafe
  <2>3. Newest(t) = w
    BY <1>1 DEF Newest
  <2> QED
    BY <1>1, <1>2, <2>1, <2>2, <2>3 DEF StaleIsGuarded
<1>6. RetiredForGood(t)
  <2>1. ASSUME NEW i \in 1 .. n
        PROVE  /\ Retired(s[i]) \/ s[i].deleting => Safe(w)
               /\ Retired(s[i]) => ~Awaiting(w)
    <3>1. CASE Extends(Newest(s), w)
      BY <1>1, <1>3, <3>1 DEF RetiredForGood, History, Extends, Newest
    <3>2. CASE n = 1 /\ ~Retired(s[1]) /\ ~s[1].deleting
      BY <3>2
    <3> QED
      BY <3>1, <3>2 DEF MayFollow
  <2>2. Proper(w)
    BY DEF MayFollow
  <2>3. SUFFICES ASSUME NEW i \in 1 .. n + 1, NEW j \in 1 .. n + 1, i <= j
                 PROVE  /\ Retired(t[i]) \/ t[i].deleting => Safe(t[j])
                        /\ Retired(t[i]) => ~Awaiting(t[j])
    BY <1>1 DEF RetiredForGood
  <2>4. CASE j \in 1 .. n
    <3>1. i \in 1 .. n
      BY <1>1, <2>3, <2>4
    <3> QED
      BY <1>1, <2>3, <2>4, <3>1 DEF RetiredForGood, History
  <2>5. CASE j = n + 1
    BY <1>1, <1>2, <2>1, <2>2, <2>5 DEF Proper
  <2> QED
    BY <1>2, <2>4, <2>5
<1>7. MigrationIsNext(t)
  <2>1. SUFFICES ASSUME NEW i \in 2 .. n + 1, NEW j \in 2 .. n + 1, i <= j,
                        Migrating(t[j])
                 PROVE  Migrating(t[i])
    BY <1>1 DEF MigrationIsNext
  <2>2. CASE j \in 2 .. n
    BY <1>1, <2>1, <2>2 DEF MigrationIsNext, History
  <2>3. CASE j = n + 1 /\ i \in 2 .. n
    <3>1. Migrating(s[n])
      BY <1>1, <2>1, <2>3 DEF MayFollow, Newest
    <3> QED
      BY <1>1, <2>3, <3>1 DEF MigrationIsNext, History
  <2>4. CASE i = n + 1
    BY <1>1, <2>1, <2>4
  <2> QED
    BY <1>1, <2>2, <2>3, <2>4
<1> QED
  BY <1>4, <1>5, <1>6, <1>7 DEF History, t

LEMMA AppendEach ==
  ASSUME NEW s \in Seq(Version), s # <<>>, NEW w \in Version
  PROVE  /\ AlwaysSafe(s) /\ (Safe(Newest(s)) => Safe(w)) => AlwaysSafe(Append(s, w))
         /\ NeverAwaiting(s) /\ (Awaiting(w) => Awaiting(Newest(s)))
              => NeverAwaiting(Append(s, w))
         /\ NeverMigrating(s) /\ (Migrating(w) => Migrating(Newest(s)))
              => NeverMigrating(Append(s, w))
         /\ Noticed(s) /\ (Migrating(w) => Migrating(Newest(s)))
              => Noticed(Append(s, w))
<1> DEFINE t == Append(s, w)
           n == Len(s)
<1>1. /\ n \in Nat \ {0} /\ Len(t) = n + 1 /\ t[n + 1] = w /\ t[1] = s[1]
      /\ \A i \in 1 .. n : t[i] = s[i]
  BY AppendFacts, NonEmptyFacts
<1>2. \A i \in 1 .. n + 1 : i \in 1 .. n \/ i = n + 1
  BY <1>1
<1>3. n \in 1 .. n
  BY <1>1
<1> HIDE DEF t
<1>4. AlwaysSafe(s) /\ (Safe(Newest(s)) => Safe(w)) => AlwaysSafe(t)
  BY <1>1, <1>2, <1>3 DEF AlwaysSafe, Newest
<1>5. NeverAwaiting(s) /\ (Awaiting(w) => Awaiting(Newest(s))) => NeverAwaiting(t)
  BY <1>1, <1>2, <1>3 DEF NeverAwaiting, Newest
<1>6. NeverMigrating(s) /\ (Migrating(w) => Migrating(Newest(s))) => NeverMigrating(t)
  BY <1>1, <1>2, <1>3 DEF NeverMigrating, Newest
<1>7. Noticed(s) /\ (Migrating(w) => Migrating(Newest(s))) => Noticed(t)
  BY <1>1, <1>6 DEF Noticed
<1> QED
  BY <1>4, <1>5, <1>6, <1>7 DEF t

LEMMA TailHistory ==
  ASSUME NEW s \in Seq(Version), Len(s) > 1, History(s)
  PROVE  /\ History(Tail(s))
         /\ Newest(Tail(s)) = Newest(s)
         /\ NeverMigrating(s) => NeverMigrating(Tail(s))
         /\ NeverAwaiting(s) => NeverAwaiting(Tail(s))
         /\ AlwaysSafe(s) => AlwaysSafe(Tail(s))
         /\ Noticed(Tail(s))
<1> DEFINE t == Tail(s)
           n == Len(s)
<1>1. /\ n \in Nat /\ n > 1 /\ Len(t) = n - 1 /\ t[n - 1] = s[n]
      /\ \A i \in 1 .. n - 1 : t[i] = s[i + 1]
  BY TailFacts
<1>2. Newest(t) = Newest(s)
  BY <1>1 DEF Newest
<1>3. \A i \in 1 .. n - 1 : i + 1 \in 1 .. n /\ i + 1 \in 2 .. n
  BY <1>1
<1> HIDE DEF t
<1>4. AbsentIsBlank(t) /\ StaleIsGuarded(t)
  BY <1>1, <1>2, <1>3 DEF AbsentIsBlank, StaleIsGuarded, History
<1>5. RetiredForGood(t)
  <2>1. SUFFICES ASSUME NEW i \in 1 .. n - 1, NEW j \in 1 .. n - 1, i <= j
                 PROVE  /\ Retired(t[i]) \/ t[i].deleting => Safe(t[j])
                        /\ Retired(t[i]) => ~Awaiting(t[j])
    BY <1>1 DEF RetiredForGood
  <2>2. i + 1 <= j + 1
    BY <1>1, <2>1
  <2> QED
    BY <1>1, <1>3, <2>2 DEF RetiredForGood, History
<1>6. \A i, j \in 1 .. n - 1 : i <= j /\ Migrating(t[j]) => Migrating(t[i])
  <2>1. SUFFICES ASSUME NEW i \in 1 .. n - 1, NEW j \in 1 .. n - 1, i <= j,
                        Migrating(t[j])
                 PROVE  Migrating(t[i])
    OBVIOUS
  <2>2. i + 1 <= j + 1
    BY <1>1, <2>1
  <2> QED
    BY <1>1, <1>3, <2>1, <2>2 DEF MigrationIsNext, History
<1>7. MigrationIsNext(t)
  BY <1>1, <1>6 DEF MigrationIsNext
<1>8. Noticed(t)
  <2>1. ASSUME NEW i \in 1 .. n - 1, Migrating(t[i])
        PROVE  Migrating(t[1])
    <3>1. 1 \in 1 .. n - 1 /\ 1 <= i
      BY <1>1
    <3> QED
      BY <1>6, <2>1, <3>1
  <2> QED
    BY <1>1, <2>1 DEF Noticed, NeverMigrating
<1>9. /\ NeverMigrating(s) => NeverMigrating(t)
      /\ NeverAwaiting(s) => NeverAwaiting(t)
      /\ AlwaysSafe(s) => AlwaysSafe(t)
  BY <1>1, <1>3 DEF NeverMigrating, NeverAwaiting, AlwaysSafe
<1> QED
  BY <1>2, <1>4, <1>5, <1>7, <1>8, <1>9 DEF History, t

----------------------------------------------------------------------------
(* The types. *)

PassTypeOK ==
  /\ queued \in BOOLEAN /\ pc \in PCs /\ mine \in Version
  /\ fresh \in BOOLEAN /\ op \in OpTypes /\ input \in Nat

LEMMA VersionsType ==
  ASSUME TypeOK
  PROVE  /\ live \in Version /\ cache \in Version
         /\ Len(versions) \in Nat \ {0}
         /\ versions \in Seq(Version) /\ versions # <<>>
         /\ PassTypeOK
  BY NonEmptyFacts DEF TypeOK, live, cache, PassTypeOK

LEMMA FinishType ==
  ASSUME TypeOK, NEW failed \in BOOLEAN, Finish(failed)
  PROVE  PassTypeOK'
<1>1. Absent(0) \in Version
  BY AbsentType
<1> QED
  BY <1>1 DEF Finish, PassTypeOK, TypeOK, PCs, OpTypes

LEMMA AnsweredType ==
  ASSUME TypeOK, NEW v \in Version, NEW next \in PCs, Answered(v, next)
  PROVE  PassTypeOK' /\ fails' \in Nat
<1>1. CASE Proceed(v, next) /\ UNCHANGED fails
  <2>1. CASE next = "idle"
    BY <1>1, <2>1, FinishType DEF Proceed, TypeOK
  <2>2. CASE next # "idle"
    BY <1>1, <2>2 DEF Proceed, PassTypeOK, TypeOK
  <2> QED
    BY <2>1, <2>2
<1>2. CASE Finish(TRUE) /\ fails' = fails + 1
  <2>1. PassTypeOK'
    BY <1>2, FinishType
  <2>2. fails' \in Nat
    BY <1>2 DEF TypeOK
  <2> QED
    BY <2>1, <2>2
<1> QED
  BY <1>1, <1>2 DEF Answered

LEMMA AppendedType ==
  ASSUME TypeOK, NEW w \in Version, versions' = Append(versions, w)
  PROVE  versions' \in Seq(Version) /\ versions' # <<>>
  BY AppendFacts, VersionsType

LEMMA PatchType ==
  ASSUME TypeOK, NEW v \in Version, NEW next \in PCs, Patch(v, next)
  PROVE  TypeOK'
<1>1. CASE v = live
  <2>1. PassTypeOK' /\ fails' \in Nat /\ UNCHANGED <<versions, applied, crashes>>
    BY <1>1, AnsweredType DEF Patch
  <2> QED
    BY <2>1 DEF TypeOK, PassTypeOK
<1>2. CASE v # live
  <2> DEFINE w == [v EXCEPT !.by = "meta"]
  <2>1. w \in Version
    BY DEF Version
  <2>2. Answered(w, next) /\ versions' = Append(versions, w)
        /\ UNCHANGED <<applied, crashes>>
    BY <1>2 DEF Patch
  <2> HIDE DEF w
  <2>3. PassTypeOK' /\ fails' \in Nat /\ versions' \in Seq(Version) /\ versions' # <<>>
    BY <2>1, <2>2, AnsweredType, AppendedType
  <2> QED
    BY <2>2, <2>3 DEF TypeOK, PassTypeOK
<1> QED
  BY <1>1, <1>2

LEMMA StatusPatchType ==
  ASSUME TypeOK, NEW v, [v EXCEPT !.by = "status"] \in Version, NEW next \in PCs,
         StatusPatch(v, next)
  PROVE  TypeOK'
<1> DEFINE w == [v EXCEPT !.by = "status"]
<1>1. Answered(w, next) /\ versions' = Append(versions, w)
      /\ UNCHANGED <<applied, crashes>>
  BY DEF StatusPatch
<1>2. w \in Version
  OBVIOUS
<1> HIDE DEF w
<1>3. PassTypeOK' /\ fails' \in Nat /\ versions' \in Seq(Version) /\ versions' # <<>>
  BY <1>1, <1>2, AnsweredType, AppendedType
<1> QED
  BY <1>1, <1>3 DEF TypeOK, PassTypeOK

LEMMA OwnerPutType ==
  ASSUME TypeOK, NEW v \in Version, OwnerPut(v)
  PROVE  TypeOK'
<1>1. versions' \in Seq(Version) /\ versions' # <<>>
  <2>1. CASE pc = "down"
    BY <2>1, SingletonFacts DEF OwnerPut
  <2>2. CASE pc # "down"
    BY <2>2, AppendedType DEF OwnerPut
  <2> QED
    BY <2>1, <2>2
<1> QED
  BY <1>1 DEF OwnerPut, TypeOK

LEMMA OwnerType ==
  ASSUME TypeOK, Owner
  PROVE  TypeOK'
<1>1. live \in Version
  BY VersionsType
<1>2. live.ts \in Nat /\ live.ts + 1 \in Nat /\ live.gen \in Nat
  BY <1>1 DEF Version
<1>3. {"none", "reconcile", "migrate", "restore", "wait-for-state"} \subseteq Annotations
  BY DEF Annotations
<1>4. CASE OwnerCreate
  BY <1>2, <1>3, <1>4, CreatedType, OwnerPutType DEF OwnerCreate
<1>5. CASE OwnerReconcile
  <2>1. PICK g \in {0, 1} :
           OwnerPut([live EXCEPT !.by = "owner", !.ts = @ + 1, !.gen = @ + g,
                                 !.ann = "reconcile"])
    BY <1>5 DEF OwnerReconcile
  <2>2. live.gen + g \in Nat
    BY <1>2, <2>1
  <2> QED
    BY <1>1, <1>2, <1>3, <2>1, <2>2, OwnerWriteType, OwnerPutType
<1>6. CASE OwnerMigrate
  BY <1>1, <1>2, <1>3, <1>6, OwnerWriteType, OwnerPutType DEF OwnerMigrate
<1>7. CASE OwnerRestore
  BY <1>1, <1>2, <1>3, <1>7, OwnerWriteType, OwnerPutType DEF OwnerRestore
<1>8. CASE OwnerDelete
  <2> DEFINE g == IF live.deleting THEN live.gen ELSE live.gen + 1
             w == [live EXCEPT !.by = "owner", !.ts = @ + 1, !.deleting = TRUE, !.gen = g]
  <2>1. g \in Nat
    BY <1>2
  <2>2. OwnerPut(w) \/ OwnerPut(Absent(live.ts + 1))
    <3>1. CASE live.fin
      BY <1>8, <3>1 DEF OwnerDelete
    <3>2. CASE ~live.fin
      BY <1>8, <3>2 DEF OwnerDelete
    <3> QED
      BY <3>1, <3>2
  <2> HIDE DEF g
  <2>3. w \in Version
    BY <1>1, <1>2, <2>1, OwnerDeleteType
  <2>4. Absent(live.ts + 1) \in Version
    BY <1>2, AbsentType
  <2> HIDE DEF w
  <2> QED
    BY <2>2, <2>3, <2>4, OwnerPutType
<1> QED
  BY <1>4, <1>5, <1>6, <1>7, <1>8 DEF Owner

LEMMA EndPassType ==
  ASSUME TypeOK, NEW failed \in BOOLEAN, EndPass(failed)
  PROVE  TypeOK'
<1>1. PassTypeOK' /\ UNCHANGED <<versions, applied, fails, crashes>>
  BY FinishType DEF EndPass
<1> QED
  BY <1>1 DEF TypeOK, PassTypeOK

\* The steps of a pass that patch the metadata of the resource.
MetaPatches ==
  StripAnnotation \/ AddFinalizers \/ RemoveFinalizers \/ RemoveAllFinalizers
  \/ RemoveAnnotation

LEMMA MetaPatchesType ==
  ASSUME TypeOK, MetaPatches
  PROVE  TypeOK'
<1>1. live \in Version /\ mine \in Version
  BY VersionsType DEF PassTypeOK
<1>2. /\ [live EXCEPT !.ann = "none"] \in Version
      /\ [live EXCEPT !.fin = TRUE] \in Version
      /\ WithoutFinalizer(live) \in Version
  BY <1>1, WithoutFinalizerType DEF Version, Annotations
<1>3. {"get", "processing", "idle", "removeAnnotation"} \subseteq PCs
  BY DEF PCs, Calls
<1>4. live.exists \in BOOLEAN
  BY <1>1 DEF Version
<1>5. CASE StripAnnotation
  BY <1>2, <1>3, <1>5, PatchType, EndPassType DEF StripAnnotation
<1>6. CASE AddFinalizers
  BY <1>2, <1>3, <1>6, PatchType, EndPassType DEF AddFinalizers
<1>7. CASE RemoveFinalizers
  <2>1. CASE live.exists /\ fresh
    BY <1>2, <1>3, <1>7, <2>1, PatchType DEF RemoveFinalizers
  <2>2. CASE ~(live.exists /\ fresh)
    BY <1>4, <1>7, <2>2, EndPassType DEF RemoveFinalizers
  <2> QED
    BY <2>1, <2>2
<1>8. CASE RemoveAllFinalizers
  <2>1. CASE live.exists
    <3>1. PICK v \in Version : Patch(v, "removeAnnotation")
      <4>1. CASE mine.fin
        BY <1>2, <1>8, <2>1, <4>1 DEF RemoveAllFinalizers
      <4>2. CASE ~mine.fin
        BY <1>1, <1>8, <2>1, <4>2 DEF RemoveAllFinalizers
      <4> QED
        BY <4>1, <4>2
    <3> QED
      BY <1>3, <3>1, PatchType
  <2>2. CASE ~live.exists
    BY <1>3, <1>8, <2>2 DEF RemoveAllFinalizers, TypeOK
  <2> QED
    BY <2>1, <2>2
<1>9. CASE RemoveAnnotation
  <2>1. CASE live.exists
    <3>1. PICK v \in Version : Patch(v, "idle")
      <4>1. CASE mine.ann = "none"
        BY <1>1, <1>9, <2>1, <4>1 DEF RemoveAnnotation
      <4>2. CASE mine.ann # "none"
        BY <1>2, <1>9, <2>1, <4>2 DEF RemoveAnnotation
      <4> QED
        BY <4>1, <4>2
    <3> QED
      BY <1>3, <3>1, PatchType
  <2>2. CASE ~live.exists
    BY <1>9, <2>2, EndPassType DEF RemoveAnnotation
  <2> QED
    BY <2>1, <2>2
<1> QED
  BY <1>5, <1>6, <1>7, <1>8, <1>9 DEF MetaPatches

\* The steps of a pass that patch the status.
StatusPatches == Processing \/ Success \/ Error

LEMMA ErrorTypeType == \A t \in OpTypes : ErrorType(t) \in OpTypes
  BY DEF ErrorType, OpTypes

LEMMA AfterSuccessType == \A t, v : AfterSuccess(t, v) \in PCs
  BY DEF AfterSuccess, PCs, Calls

LEMMA StatusPatchesType ==
  ASSUME TypeOK, StatusPatches
  PROVE  TypeOK'
<1>1. live \in Version /\ mine \in Version /\ op \in OpTypes /\ ErrorType(op) \in OpTypes
  BY VersionsType, ErrorTypeType DEF PassTypeOK
<1>2. /\ [ProcessingCustom(live, mine, op) EXCEPT !.by = "status"] \in Version
      /\ [SuccessCustom(live, mine, op) EXCEPT !.by = "status"] \in Version
      /\ [ErrorCustom(live, mine, ErrorType(op)) EXCEPT !.by = "status"] \in Version
  BY <1>1, CustomPatches DEF StatusPatched
<1>3. CASE Processing
  <2>1. "actuator" \in PCs
    BY DEF PCs
  <2> QED
    BY <1>2, <1>3, <2>1, StatusPatchType, EndPassType DEF Processing
<1>4. CASE Success
  BY <1>2, <1>4, AfterSuccessType, StatusPatchType, EndPassType DEF Success
<1>5. CASE Error
  <2>1. PassTypeOK' /\ UNCHANGED <<applied, crashes>>
    BY <1>5, FinishType DEF Error
  <2>2. versions' \in Seq(Version) /\ versions' # <<>>
    <3>1. CASE UNCHANGED versions
      BY <3>1 DEF TypeOK
    <3>2. CASE ~UNCHANGED versions
      BY <1>2, <1>5, <3>2, AppendedType DEF Error
    <3> QED
      BY <3>1, <3>2
  <2>3. fails' \in Nat
    BY <1>5 DEF Error, TypeOK
  <2> QED
    BY <2>1, <2>2, <2>3 DEF TypeOK, PassTypeOK
<1> QED
  BY <1>3, <1>4, <1>5 DEF StatusPatches

\* The steps that write nothing to the API server.
LEMMA ReadingType ==
  ASSUME TypeOK, PickUp \/ Reconcile
  PROVE  TypeOK'
<1>1. live \in Version /\ cache \in Version
  BY VersionsType
<1>2. live.ts \in Nat /\ cache.ts \in Nat
  BY <1>1 DEF Version
<1>3. CASE PickUp
  BY <1>1, <1>3 DEF PickUp, TypeOK, PCs, Calls
<1>4. CASE Reconcile
  <2> DEFINE t == ComputeOperationType(cache)
             next == IF ~cache.exists \/ ShouldSkipOperation(t, cache) THEN "idle"
                     ELSE FirstCall(t, cache)
  <2>1. t \in OpTypes
    BY <1>1, ComputeOperationTypeType
  <2>2. next \in PCs
    BY DEF FirstCall, PCs, Calls
  <2>3. CASE next = "idle"
    <3>1. Finish(FALSE) /\ UNCHANGED <<versions, applied, fails, crashes>>
      BY <1>4, <2>3 DEF Reconcile
    <3> QED
      BY <3>1, EndPassType DEF EndPass
  <2>4. CASE next # "idle"
    <3>1. /\ pc' = next /\ mine' = cache /\ fresh' = (Len(versions) = 1)
          /\ op' = t /\ UNCHANGED queued
          /\ input' \in (IF StaleReads THEN 1 ELSE cache.ts) .. live.ts
          /\ UNCHANGED <<versions, applied, fails, crashes>>
      BY <1>4, <2>4 DEF Reconcile
    <3> HIDE DEF t, next
    <3>2. input' \in Nat
      BY <1>2, <3>1
    <3> QED
      BY <1>1, <2>1, <2>2, <3>1, <3>2 DEF TypeOK
  <2> QED
    BY <2>3, <2>4
<1> QED
  BY <1>3, <1>4

LEMMA InitType == Init => TypeOK
<1> SUFFICES ASSUME Init PROVE TypeOK
  OBVIOUS
<1>1. Absent(0) \in Version
  BY AbsentType
<1>2. <<Absent(0)>> \in Seq(Version) /\ <<Absent(0)>> # <<>>
  BY <1>1, SingletonFacts
<1> QED
  BY <1>1, <1>2 DEF Init, TypeOK, PCs, OpTypes

LEMMA TypeStep == TypeOK /\ [Next]_vars => TypeOK'
<1> SUFFICES ASSUME TypeOK, [Next]_vars
             PROVE  TypeOK'
  OBVIOUS
<1>1. CASE Owner
  BY <1>1, OwnerType
<1>2. CASE Deliver
  <2>1. Tail(versions) \in Seq(Version) /\ Tail(versions) # <<>>
    BY <1>2, TailFacts DEF Deliver, TypeOK
  <2>2. Admits(versions[1], versions[2]) \in BOOLEAN
    BY DEF Admits, UpdateAdmits, CreateAdmits, HasOperationAnnotation,
       LastOperationNotSuccessful
  <2> QED
    BY <1>2, <2>1, <2>2 DEF Deliver, TypeOK
<1>3. CASE MetaPatches
  BY <1>3, MetaPatchesType
<1>4. CASE StatusPatches
  BY <1>4, StatusPatchesType
<1>5. CASE PickUp \/ Reconcile
  BY <1>5, ReadingType
<1>6. CASE \E p \in Parts : Apply(p) \/ Remove(p)
  BY <1>6 DEF Apply, Remove, pass, TypeOK
<1>7. CASE ActuatorDone
  BY <1>7 DEF ActuatorDone, TypeOK, PCs, Calls
<1>8. CASE CallFails
  <2>1. PassTypeOK' /\ UNCHANGED <<versions, applied, crashes>>
    BY <1>8, FinishType DEF CallFails
  <2>2. fails' \in Nat
    BY <1>8 DEF CallFails, TypeOK
  <2> QED
    BY <2>1, <2>2 DEF TypeOK, PassTypeOK
<1>9. CASE ActuatorFails
  BY <1>9 DEF ActuatorFails, TypeOK, PCs, Calls
<1>10. CASE Crash
  <2>1. live \in Version /\ Absent(0) \in Version
    BY VersionsType, AbsentType
  <2>2. <<live>> \in Seq(Version) /\ <<live>> # <<>>
    BY <2>1, SingletonFacts
  <2>3. versions' \in Seq(Version) /\ versions' # <<>>
    BY <1>10, <2>2 DEF Crash
  <2>4. PassTypeOK'
    BY <1>10, <2>1 DEF Crash, PassTypeOK, PCs, OpTypes
  <2>5. crashes' \in Nat /\ UNCHANGED <<applied, fails>>
    BY <1>10 DEF Crash, TypeOK
  <2> QED
    BY <2>3, <2>4, <2>5 DEF TypeOK, PassTypeOK
<1>11. CASE Restart
  <2>1. live \in Version
    BY VersionsType
  <2>2. (live.exists /\ CreateAdmits(live)) \in BOOLEAN
    BY DEF CreateAdmits
  <2> QED
    BY <1>11, <2>2 DEF Restart, TypeOK, PCs
<1>12. CASE UNCHANGED vars
  BY <1>12 DEF vars, TypeOK
<1> QED
  BY <1>1, <1>2, <1>3, <1>4, <1>5, <1>6, <1>7, <1>8, <1>9, <1>10, <1>11, <1>12
  DEF Next, Worker, MetaPatches, StatusPatches

(***************************************************************************)
(* Every variable keeps its type: the versions are resources, the pass is  *)
(* at one of its calls, and the inputs of the parts are the owner's writes.*)
(***************************************************************************)
THEOREM TypeCorrect == Spec => []TypeOK
<1>1. Init => TypeOK
  BY InitType
<1>2. TypeOK /\ [Next]_vars => TypeOK'
  BY TypeStep
<1> QED
  BY <1>1, <1>2, PTL DEF Spec

----------------------------------------------------------------------------
(* The steps as LoggingPromise sees them. *)

LEMMA OnlyActuatorDeploys ==
  ASSUME [Next]_vars
  PROVE  UNCHANGED applied \/ \E p \in Parts : Apply(p) \/ Remove(p)
<1>1. Owner => UNCHANGED applied
  BY DEF Owner, OwnerCreate, OwnerReconcile, OwnerMigrate, OwnerRestore, OwnerDelete, OwnerPut
<1>2. Deliver \/ PickUp \/ Reconcile => UNCHANGED applied
  BY DEF Deliver, PickUp, Reconcile
<1>3. StripAnnotation \/ AddFinalizers \/ RemoveFinalizers \/ RemoveAllFinalizers
      \/ RemoveAnnotation => UNCHANGED applied
  BY DEF StripAnnotation, AddFinalizers, RemoveFinalizers, RemoveAllFinalizers,
     RemoveAnnotation, Patch, EndPass
<1>4. Processing \/ Success \/ Error => UNCHANGED applied
  BY DEF Processing, Success, Error, StatusPatch, EndPass
<1>5. ActuatorDone \/ CallFails \/ ActuatorFails \/ Crash \/ Restart => UNCHANGED applied
  BY DEF ActuatorDone, CallFails, ActuatorFails, Crash, Restart
<1>6. UNCHANGED vars => UNCHANGED applied
  BY DEF vars
<1> QED
  BY <1>1, <1>2, <1>3, <1>4, <1>5, <1>6 DEF Next, Worker

LEMMA InitPromised == Init => Promise!Init
<1>1. SUFFICES ASSUME Init PROVE Promise!Init
  OBVIOUS
<1>2. live = Absent(0)
  BY <1>1, SingletonFacts, AbsentType DEF Init, live
<1>3. live.fin = FALSE
  BY <1>2 DEF Absent
<1>4. Deployed = {}
  BY <1>1 DEF Init, Deployed
<1>5. QED
  BY <1>3, <1>4 DEF Promise!Init

\* Where nothing is orphaned, every step is one of the promise.
LEMMA StepPromised ==
  ASSUME TypeOK, TypeOK', NoOrphans, NoOrphans', [Next]_vars
  PROVE  [Promise!Next]_<<live.fin, Deployed>>
<1>1. live.fin \in BOOLEAN /\ live'.fin \in BOOLEAN
  <2>1. live \in Version
    BY VersionsType
  <2>2. versions' \in Seq(Version) /\ versions' # <<>>
    BY DEF TypeOK
  <2>3. live' \in Version
    BY <2>2, NonEmptyFacts DEF live
  <2>4. QED
    BY <2>1, <2>3 DEF Version
<1>2. CASE UNCHANGED applied
  <2>1. Deployed' = Deployed
    BY <1>2 DEF Deployed
  <2>2. CASE live'.fin = live.fin
    BY <2>1, <2>2
  <2>3. CASE ~live.fin /\ live'.fin
    BY <1>1, <2>1, <2>3 DEF Promise!Next, Promise!Hold
  <2>4. CASE live.fin /\ ~live'.fin
    BY <1>1, <2>1, <2>4 DEF Promise!Next, Promise!Release, NoOrphans
  <2>5. QED
    BY <1>1, <2>2, <2>3, <2>4
<1>3. CASE \E p \in Parts : Apply(p) \/ Remove(p)
  <2>1. PICK p \in Parts : Apply(p) \/ Remove(p)
    BY <1>3
  <2>2. applied \in [Parts -> Nat] /\ input \in Nat
    BY DEF TypeOK
  <2>3. PICK n : applied' = [applied EXCEPT ![p] = n] /\ applied[p] # n
    BY <2>1 DEF Apply, Remove
  <2>4. Deployed' = IF n # 0 THEN Deployed \cup {p} ELSE Deployed \ {p}
    BY <2>2, <2>3 DEF Deployed
  <2>5. p \in Deployed \/ p \in Deployed'
    BY <2>2, <2>3 DEF Deployed
  <2>6. live' = live /\ live.fin
    BY <2>1, <2>5 DEF Apply, Remove, live, NoOrphans
  <2>7. QED
    BY <2>1, <2>4, <2>6 DEF Promise!Next, Promise!Deploy, Promise!Undeploy
<1>4. QED
  BY <1>2, <1>3, OnlyActuatorDeploys

=============================================================================
