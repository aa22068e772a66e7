------------------------- MODULE LoggingQuietProofs -------------------------
(***************************************************************************)
(* When the controller of LoggingLifecycle comes to rest, proved for any   *)
(* parts and bounds: a resource under migration is migrated, a migrated one*)
(* has nothing deployed, and without a crash every part comes from the     *)
(* owner's last write.  Assumed of the cache: it has the controller's own  *)
(* writes, and the Cluster of the version that is read (~StaleReads); TLC  *)
(* finds a counterexample without.  The owner may write at any time.       *)
(***************************************************************************)
EXTENDS LoggingLifecycleProofs

----------------------------------------------------------------------------
(* The invariant. *)

InPass == {"addFinalizer", "processing", "actuator", "success", "error",
           "removeFinalizer", "removeAllFinalizers", "removeAnnotation"}
Recorded == InPass \ {"addFinalizer", "processing"}
AfterActuator == Recorded \ {"actuator", "error"}

\* What the owner's writes leave alone.
Kept(v, w) ==
  /\ w.opType = v.opType /\ w.opState = v.opState
  /\ v.deleting => w.deleting
  /\ v.ann = "migrate" => w.ann = "migrate"
  /\ w.ann = "wait-for-state" => v.ann = "wait-for-state"

\* When all that the cache lacks is the owner's, it has the stored status.
OwnerKeeps ==
  \A i \in 1 .. Len(versions) :
     /\ versions[i].exists /\ live.exists
     /\ \A k \in i + 1 .. Len(versions) : versions[k].by = "owner"
     => Kept(versions[i], live)

\* A migration has its annotation until everything of it is done.
Shaped(v) ==
  /\ v.ann # "none" \/ v.fin => v.exists
  /\ v.ann = "wait-for-state" => v.opType # "Restore"
  /\ v.exists /\ v.opType = "Migrate"
     => v.ann = "migrate" \/ (v.ann = "none" /\ v.opState = "Succeeded" /\ ~v.fin)

AllShaped == \A i \in 1 .. Len(versions) : Shaped(versions[i])

\* What the pass has recorded of its operation o when its next call is c; v is stored.
Progressed(c, o, v) ==
  /\ c \in InPass => o # "none"
  /\ c = "removeFinalizer" => o = "Delete"
  /\ c = "removeAllFinalizers" => o = "Migrate"
  /\ c = "removeAnnotation" => o \in {"Migrate", "Restore"}
  /\ c \in InPass /\ v.exists =>
       /\ o = "Migrate" => v.ann = "migrate"
       /\ o = "Delete" => v.deleting
       /\ o = "Restore" => v.ann # "wait-for-state"
       /\ c \in {"addFinalizer", "processing"} /\ o # "Migrate" => v.opType # "Migrate"
       /\ c \in Recorded => v.opType = o
       /\ c \in {"removeAllFinalizers", "removeAnnotation"} => v.opState = "Succeeded"
  /\ c = "removeAnnotation" /\ o = "Migrate" => ~v.fin
  /\ c = "strip" /\ v.exists => v.opType # "Migrate"

\* What the pass relies on of its copy.
CopyKept ==
  /\ pc \in InPass /\ live.exists => Kept(mine, live)
  /\ pc \in InPass /\ live.exists /\ op = "Migrate" => mine.ann = "migrate"
  /\ pc = "removeAllFinalizers" /\ live.fin => mine.fin

RemovedAll == op \in Removing /\ pc \in AfterActuator => Deployed = {}

\* An annotation migrate is not forgotten.
MigrationPending ==
  live.exists /\ live.ann = "migrate" /\ ~queued /\ Len(versions) = 1
  => pc \in {"down", "get"} \/ (pc \in InPass /\ op = "Migrate")

MInv ==
  /\ TypeOK /\ OwnerKeeps /\ AllShaped
  /\ Progressed(pc, op, live) /\ CopyKept /\ RemovedAll
  /\ MigratedStaysUndeployed /\ MigrationPending

\* No write of the owner is on its way to the cache.
NoneAsked == \A i \in 2 .. Len(versions) : versions[i].by # "owner"

\* Each of them will be admitted.
AllAdmitted ==
  \A i \in 2 .. Len(versions) :
     versions[i].by = "owner" =>
       IF versions[i].exists THEN Admits(versions[i - 1], versions[i]) ELSE i = Len(versions)

\* The owner's last write was seen and nothing has been asked for since.
Covered ==
  /\ crashes = 0 /\ ~queued /\ NoneAsked
  /\ live.exists /\ ~live.deleting /\ live.ann # "wait-for-state"

AppliedAll == \A p \in Parts : applied[p] = live.ts

\* The pass serves the owner's last write.
Serving ==
  /\ pc = "get" => live.ann # "reconcile"
  /\ pc \in InPass => mine = live
  /\ pc \in InPass /\ op \in Deploying =>
       input = live.ts /\ (live.ann = "none" \/ (live.ann = "restore" /\ op = "Restore"))
  /\ pc \in {"success", "removeAnnotation"} /\ op \in Deploying => AppliedAll
  /\ pc = "removeAnnotation" /\ op = "Restore" =>
       live.opState = "Succeeded" /\ ~live.err /\ live.obs = live.gen
  /\ pc = "idle" /\ live.opType # "Migrate" => CheckExtensionObject(live) /\ AppliedAll

QInv ==
  /\ crashes = 0 => pc # "down"
  /\ AllAdmitted
  /\ Covered => Serving

QuietInv == MInv /\ QInv

----------------------------------------------------------------------------
(* Facts about the versions. *)

LEMMA VersionFacts ==
  ASSUME TypeOK
  PROVE  /\ live \in Version /\ cache \in Version /\ mine \in Version
         /\ live = versions[Len(versions)] /\ cache = versions[1]
         /\ versions \in Seq(Version) /\ Len(versions) \in Nat \ {0}
         /\ \A i \in 1 .. Len(versions) : versions[i] \in Version
  BY VersionsType, NonEmptyFacts DEF live, cache, PassTypeOK

LEMMA AppendedVersions ==
  ASSUME TypeOK, NEW w \in Version, versions' = Append(versions, w)
  PROVE  /\ live' = w
         /\ Len(versions)' = Len(versions) + 1
         /\ versions'[Len(versions) + 1] = w
         /\ \A i \in 1 .. Len(versions) : versions'[i] = versions[i]
<1>1. /\ Len(Append(versions, w)) = Len(versions) + 1
      /\ Append(versions, w)[Len(Append(versions, w))] = w
      /\ \A i \in 1 .. Len(versions) : Append(versions, w)[i] = versions[i]
  BY VersionsType, AppendFacts
<1>2. QED
  BY <1>1 DEF live

LEMMA SingleVersion ==
  ASSUME NEW w \in Version, versions' = <<w>>
  PROVE  live' = w /\ Len(versions)' = 1 /\ versions'[1] = w
  BY SingletonFacts DEF live

LEMMA DeliveredVersions ==
  ASSUME TypeOK, Len(versions) > 1, versions' = Tail(versions)
  PROVE  /\ live' = live
         /\ Len(versions)' = Len(versions) - 1
         /\ \A i \in 1 .. Len(versions) - 1 : versions'[i] = versions[i + 1]
<1>1. /\ Len(Tail(versions)) = Len(versions) - 1
      /\ Tail(versions)[Len(Tail(versions))] = versions[Len(versions)]
      /\ \A i \in 1 .. Len(Tail(versions)) : Tail(versions)[i] = versions[i + 1]
  BY VersionFacts, TailFacts
<1>2. QED
  BY <1>1 DEF live

----------------------------------------------------------------------------
(* What a write may append. *)

LEMMA KeptTwice ==
  ASSUME NEW u, NEW v, NEW w, Kept(u, v), Kept(v, w)
  PROVE  Kept(u, w)
  BY DEF Kept

\* Own writes, and those of the owner that leave things alone.
Follows(w) ==
  /\ Shaped(w)
  /\ live.exists \/ Len(versions) = 1
  /\ w.by = "owner" /\ w.exists =>
       Admits(live, w) /\ (live.exists => Kept(live, w))

LEMMA AppendKeeps ==
  ASSUME TypeOK, OwnerKeeps, AllShaped, AllAdmitted, NEW w \in Version, Follows(w),
         versions' = Append(versions, w)
  PROVE  OwnerKeeps' /\ AllShaped' /\ AllAdmitted' /\ (NoneAsked' => NoneAsked /\ w.by # "owner")
<1> DEFINE n == Len(versions)
<1>1. /\ live' = w /\ Len(versions)' = n + 1 /\ versions'[n + 1] = w
      /\ \A i \in 1 .. n : versions'[i] = versions[i]
      /\ n \in Nat \ {0} /\ live = versions[n]
  BY AppendedVersions, VersionFacts
<1>2. OwnerKeeps'
  <2>1. SUFFICES ASSUME NEW i \in 1 .. n + 1, versions'[i].exists, w.exists,
                        \A k \in i + 1 .. n + 1 : versions'[k].by = "owner"
                 PROVE  Kept(versions'[i], w)
    BY <1>1 DEF OwnerKeeps
  <2>2. CASE i = n + 1
    BY <1>1, <2>2 DEF Kept
  <2>3. CASE i # n + 1
    <3>1. i \in 1 .. n /\ versions'[i] = versions[i] /\ w.by = "owner"
      BY <1>1, <2>1, <2>3
    <3>2. \A k \in i + 1 .. n : versions[k].by = "owner"
      BY <1>1, <2>1, <3>1
    <3>3. live.exists
      <4>1. CASE n = 1
        BY <1>1, <2>1, <3>1, <4>1
      <4>2. CASE n # 1
        BY <4>2 DEF Follows
      <4>3. QED
        BY <4>1, <4>2
    <3>4. Kept(versions[i], live)
      BY <2>1, <3>1, <3>2, <3>3 DEF OwnerKeeps
    <3>5. Kept(live, w)
      BY <2>1, <3>1, <3>3 DEF Follows
    <3>6. QED
      BY <3>1, <3>4, <3>5, KeptTwice
  <2>4. QED
    BY <2>2, <2>3
<1>3. AllShaped'
  BY <1>1 DEF AllShaped, Follows
<1>4. AllAdmitted'
  <2>1. SUFFICES ASSUME NEW i \in 2 .. n + 1, versions'[i].by = "owner"
                 PROVE  IF versions'[i].exists THEN Admits(versions'[i - 1], versions'[i])
                                               ELSE i = n + 1
    BY <1>1 DEF AllAdmitted
  <2>2. CASE i = n + 1
    <3>1. i - 1 = n /\ versions'[i - 1] = live /\ versions'[i] = w
      BY <1>1, <2>2
    <3>2. QED
      BY <2>1, <2>2, <3>1 DEF Follows
  <2>3. CASE i # n + 1
    <3>1. i \in 2 .. n /\ i - 1 \in 1 .. n /\ versions'[i] = versions[i]
          /\ versions'[i - 1] = versions[i - 1]
      BY <1>1, <2>3
    <3>2. versions[i].exists
      <4>1. SUFFICES ASSUME ~versions[i].exists PROVE FALSE
        OBVIOUS
      <4>2. i = n
        BY <2>1, <3>1, <4>1 DEF AllAdmitted
      <4>3. ~live.exists /\ n # 1
        BY <1>1, <3>1, <4>1, <4>2
      <4>4. QED
        BY <4>3 DEF Follows
    <3>3. QED
      BY <2>1, <3>1, <3>2 DEF AllAdmitted
  <2>4. QED
    BY <2>2, <2>3
<1>5. NoneAsked' => NoneAsked /\ w.by # "owner"
  <2>1. SUFFICES ASSUME NoneAsked' PROVE NoneAsked /\ w.by # "owner"
    OBVIOUS
  <2>2. \A i \in 2 .. n + 1 : versions'[i].by # "owner"
    BY <1>1, <2>1 DEF NoneAsked
  <2>3. QED
    BY <1>1, <2>2 DEF NoneAsked
<1>6. QED
  BY <1>2, <1>3, <1>4, <1>5

LEMMA SingleKeeps ==
  ASSUME NEW w \in Version, Shaped(w), versions' = <<w>>
  PROVE  OwnerKeeps' /\ AllShaped' /\ AllAdmitted'
<1>1. live' = w /\ Len(versions)' = 1 /\ versions'[1] = w
  BY SingleVersion
<1>2. OwnerKeeps'
  BY <1>1 DEF OwnerKeeps, Kept
<1>3. AllShaped' /\ AllAdmitted'
  BY <1>1 DEF AllShaped, AllAdmitted
<1>4. QED
  BY <1>2, <1>3

LEMMA UnchangedKeeps ==
  ASSUME OwnerKeeps, AllShaped, AllAdmitted, UNCHANGED versions
  PROVE  OwnerKeeps' /\ AllShaped' /\ AllAdmitted' /\ live' = live /\ (NoneAsked' <=> NoneAsked)
  BY DEF OwnerKeeps, AllShaped, AllAdmitted, NoneAsked, live

LEMMA DeliverKeeps ==
  ASSUME TypeOK, OwnerKeeps, AllShaped, AllAdmitted, Deliver
  PROVE  /\ OwnerKeeps' /\ AllShaped' /\ AllAdmitted' /\ live' = live
         /\ live.exists /\ NoneAsked' /\ ~queued' => NoneAsked
<1> DEFINE n == Len(versions)
<1>1. /\ live' = live /\ Len(versions)' = n - 1
      /\ \A i \in 1 .. n - 1 : versions'[i] = versions[i + 1]
      /\ n \in Nat \ {0, 1} /\ live = versions[n]
  BY DeliveredVersions, VersionFacts DEF Deliver
<1>2. OwnerKeeps'
  <2>1. SUFFICES ASSUME NEW i \in 1 .. n - 1, versions'[i].exists, live.exists,
                        \A k \in i + 1 .. n - 1 : versions'[k].by = "owner"
                 PROVE  Kept(versions'[i], live)
    BY <1>1 DEF OwnerKeeps
  <2>2. i + 1 \in 1 .. n /\ versions'[i] = versions[i + 1]
    BY <1>1
  <2>3. \A k \in (i + 1) + 1 .. n : versions[k].by = "owner"
    <3>1. SUFFICES ASSUME NEW k \in (i + 1) + 1 .. n PROVE versions[k].by = "owner"
      OBVIOUS
    <3>2. k - 1 \in i + 1 .. n - 1 /\ k - 1 \in 1 .. n - 1 /\ (k - 1) + 1 = k
      BY <1>1
    <3>3. versions'[k - 1] = versions[k]
      BY <1>1, <3>2
    <3>4. QED
      BY <2>1, <3>2, <3>3
  <2>4. QED
    BY <2>1, <2>2, <2>3 DEF OwnerKeeps
<1>3. AllShaped'
  BY <1>1 DEF AllShaped
<1>4. AllAdmitted'
  <2>1. SUFFICES ASSUME NEW i \in 2 .. n - 1, versions'[i].by = "owner"
                 PROVE  IF versions'[i].exists THEN Admits(versions'[i - 1], versions'[i])
                                               ELSE i = n - 1
    BY <1>1 DEF AllAdmitted
  <2>2. /\ i + 1 \in 2 .. n /\ versions'[i] = versions[i + 1]
        /\ versions'[i - 1] = versions[(i + 1) - 1]
    <3>1. i \in 1 .. n - 1 /\ i - 1 \in 1 .. n - 1 /\ (i - 1) + 1 = (i + 1) - 1
      BY <1>1
    <3>2. QED
      BY <1>1, <3>1
  <2>3. QED
    BY <1>1, <2>1, <2>2 DEF AllAdmitted
<1>5. ASSUME live.exists, NoneAsked', ~queued' PROVE NoneAsked
  <2>1. ~Admits(versions[1], versions[2])
    BY <1>5 DEF Deliver
  <2>2. \A i \in 3 .. n : versions[i].by # "owner"
    <3>1. SUFFICES ASSUME NEW i \in 3 .. n PROVE versions[i].by # "owner"
      OBVIOUS
    <3>2. i - 1 \in 2 .. n - 1 /\ i - 1 \in 1 .. n - 1 /\ (i - 1) + 1 = i
      BY <1>1
    <3>3. versions'[i - 1] = versions[i]
      BY <1>1, <3>2
    <3>4. QED
      BY <1>1, <1>5, <3>2, <3>3 DEF NoneAsked
  <2>3. versions[2].by # "owner"
    <3>1. SUFFICES ASSUME versions[2].by = "owner" PROVE FALSE
      OBVIOUS
    <3>2. 2 \in 2 .. n /\ 2 - 1 = 1
      BY <1>1
    <3>3. ~versions[2].exists
      BY <2>1, <3>1, <3>2 DEF AllAdmitted
    <3>4. n = 2
      BY <3>1, <3>2, <3>3 DEF AllAdmitted
    <3>5. QED
      BY <1>1, <1>5, <3>3, <3>4
  <2>4. QED
    BY <1>1, <2>2, <2>3 DEF NoneAsked
<1>6. QED
  BY <1>1, <1>2, <1>3, <1>4, <1>5

----------------------------------------------------------------------------
(* Status patches by a copy that knows the stored status. *)

\* w has the status of a patch with operation t and state s.
StatusOf(v, w, t, s) ==
  /\ w \in Version /\ w.by = "status" /\ SameMetadata(v, w)
  /\ w.opType = t /\ w.opState = s

LEMMA StatusWritten ==
  ASSUME NEW v \in Version, NEW m \in Version, NEW t \in OpTypes,
         m.opType = v.opType, m.opState = v.opState
  PROVE  /\ StatusOf(v, [ProcessingCustom(v, m, t) EXCEPT !.by = "status"], t, "Processing")
         /\ StatusOf(v, [SuccessCustom(v, m, t) EXCEPT !.by = "status"], t, "Succeeded")
         /\ StatusOf(v, [ErrorCustom(v, m, t) EXCEPT !.by = "status"], t, "Error")
<1> DEFINE p == [ProcessingCustom(v, m, t) EXCEPT !.by = "status"]
           s == [SuccessCustom(v, m, t) EXCEPT !.by = "status"]
           e == [ErrorCustom(v, m, t) EXCEPT !.by = "status"]
<1>1. /\ p \in Version /\ SameMetadata(v, p)
      /\ s \in Version /\ SameMetadata(v, s)
      /\ e \in Version /\ SameMetadata(v, e)
  BY CustomPatches DEF StatusPatched
<1>2. \A x \in OpStates : WithLastOperation(v, m, t, x) = [v EXCEPT !.opType = t, !.opState = x]
  BY DEF WithLastOperation, Merge
<1>3. {"Processing", "Succeeded", "Error"} \subseteq OpStates
  BY DEF OpStates
<1>4. p.by = "status" /\ p.opType = t /\ p.opState = "Processing"
  BY <1>2, <1>3 DEF ProcessingCustom, Version
<1>5. s.by = "status" /\ s.opType = t /\ s.opState = "Succeeded"
  BY <1>2, <1>3 DEF SuccessCustom, Observed, Version
<1>6. e.by = "status" /\ e.opType = t /\ e.opState = "Error"
  BY <1>2, <1>3 DEF ErrorCustom, Observed, Version
<1> HIDE DEF p, s, e
<1>7. StatusOf(v, p, t, "Processing") /\ StatusOf(v, s, t, "Succeeded") /\ StatusOf(v, e, t, "Error")
  BY <1>1, <1>4, <1>5, <1>6 DEF StatusOf
<1>8. QED
  BY <1>7 DEF p, s, e

\* A success is observed, and the error is gone.
LEMMA SuccessObserved ==
  ASSUME NEW v \in Version, NEW t \in OpTypes
  PROVE  LET w == [SuccessCustom(v, v, t) EXCEPT !.by = "status"]
         IN ~w.err /\ w.obs = v.gen
<1>1. WithLastOperation(v, v, t, "Succeeded") = [v EXCEPT !.opType = t, !.opState = "Succeeded"]
  BY DEF WithLastOperation, Merge
<1>2. SuccessCustom(v, v, t) = [v EXCEPT !.opType = t, !.opState = "Succeeded", !.obs = v.gen,
                                         !.err = FALSE]
  <2> DEFINE u == [v EXCEPT !.opType = t, !.opState = "Succeeded"]
  <2>1. u.obs = v.obs /\ u.err = v.err /\ v.err \in BOOLEAN
    BY DEF Version
  <2>2. Merge(v.obs, v.gen, u.obs) = v.gen
    BY <2>1 DEF Merge
  <2>3. FALSE \/ Merge(v.err, FALSE, u.err) = FALSE
    BY <2>1 DEF Merge
  <2>4. SuccessCustom(v, v, t) = [u EXCEPT !.obs = Merge(v.obs, v.gen, u.obs),
                                           !.err = FALSE \/ Merge(v.err, FALSE, u.err)]
    BY <1>1 DEF SuccessCustom, Observed
  <2>5. (FALSE \/ Merge(v.err, FALSE, u.err)) = FALSE
    BY <2>1 DEF Merge
  <2>6. QED
    BY <2>2, <2>4, <2>5 DEF Version
<1>3. QED
  BY <1>2 DEF Version

----------------------------------------------------------------------------
(* What a write of the controller does. *)

\* The stored version becomes w; the pass is at next, or failed.
Wrote(w, next) ==
  /\ w \in Version /\ live' = w /\ live.exists
  /\ \/ w = live /\ UNCHANGED versions
     \/ w.by # "owner" /\ versions' = Append(versions, w)
  /\ \/ pc' = "idle" /\ op' = "none" /\ queued' = TRUE
     \/ next = "idle" /\ pc' = "idle" /\ op' = "none" /\ queued' = queued
     \/ next # "idle" /\ pc' = next /\ mine' = w /\ UNCHANGED <<queued, op, input>>
  /\ UNCHANGED <<applied, crashes>>

\* The pass ends without a write.
Ended(failed) ==
  /\ pc' = "idle" /\ op' = "none" /\ queued' = (queued \/ failed)
  /\ UNCHANGED <<versions, applied, crashes>>

LEMMA EndPassEnds == ASSUME NEW failed, EndPass(failed) PROVE Ended(failed)
  BY DEF EndPass, Finish, Ended

LEMMA AnsweredWrites ==
  ASSUME NEW w, NEW next, Answered(w, next), queued \in BOOLEAN
  PROVE  \/ pc' = "idle" /\ op' = "none" /\ queued' = TRUE
         \/ next = "idle" /\ pc' = "idle" /\ op' = "none" /\ queued' = queued
         \/ next # "idle" /\ pc' = next /\ mine' = w /\ UNCHANGED <<queued, op, input>>
<1>1. CASE Finish(TRUE)
  BY <1>1 DEF Finish
<1>2. CASE Proceed(w, next)
  <2>1. CASE next = "idle"
    <3>1. pc' = "idle" /\ op' = "none" /\ queued' = (queued \/ FALSE)
      BY <1>2, <2>1 DEF Proceed, Finish
    <3>2. queued' = queued
      BY <3>1
    <3>3. QED
      BY <2>1, <3>1, <3>2
  <2>2. CASE next # "idle"
    BY <1>2, <2>2 DEF Proceed
  <2>3. QED
    BY <2>1, <2>2
<1>3. QED
  BY <1>1, <1>2 DEF Answered

\* Equal but for the kind of the write.
AlmostSame(v, w) ==
  /\ SameMetadata(v, w)
  /\ w.opType = v.opType /\ w.opState = v.opState /\ w.err = v.err /\ w.obs = v.obs

LEMMA PatchWrites ==
  ASSUME TypeOK, live.exists, NEW v \in Version, NEW next, Patch(v, next)
  PROVE  \E w \in Version : Wrote(w, next) /\ AlmostSame(v, w)
<1>0. queued \in BOOLEAN
  BY DEF TypeOK
<1>1. CASE v = live
  <2>1. Answered(live, next) /\ UNCHANGED <<versions, applied, crashes>> /\ live' = live
    BY <1>1 DEF Patch, live
  <2>2. Wrote(live, next)
    BY <1>0, <1>1, <2>1, AnsweredWrites DEF Wrote
  <2>3. AlmostSame(live, live)
    BY DEF AlmostSame, SameMetadata
  <2>4. QED
    BY <1>1, <2>2, <2>3
<1>2. CASE v # live
  <2> DEFINE w == [v EXCEPT !.by = "meta"]
  <2>1. Answered(w, next) /\ versions' = Append(versions, w) /\ UNCHANGED <<applied, crashes>>
    BY <1>2 DEF Patch
  <2>2. w \in Version /\ w.by # "owner" /\ AlmostSame(v, w)
    BY DEF Version, AlmostSame, SameMetadata
  <2> HIDE DEF w
  <2>3. live' = w
    BY <2>1, <2>2, AppendedVersions
  <2>4. Wrote(w, next)
    BY <1>0, <2>1, <2>2, <2>3, AnsweredWrites DEF Wrote
  <2>5. QED
    BY <2>2, <2>4
<1>3. QED
  BY <1>1, <1>2

LEMMA StatusPatchWrites ==
  ASSUME TypeOK, NEW v, NEW next, NEW t, NEW s, StatusPatch(v, next),
         StatusOf(live, [v EXCEPT !.by = "status"], t, s)
  PROVE  Wrote([v EXCEPT !.by = "status"], next)
<1> DEFINE w == [v EXCEPT !.by = "status"]
<1>0. queued \in BOOLEAN
  BY DEF TypeOK
<1>1. /\ Answered(w, next) /\ versions' = Append(versions, w) /\ live.exists
      /\ UNCHANGED <<applied, crashes>>
  BY DEF StatusPatch
<1>2. w \in Version /\ w.by # "owner"
  BY DEF StatusOf
<1> HIDE DEF w
<1>3. live' = w
  BY <1>1, <1>2, AppendedVersions
<1>4. Wrote(w, next)
  BY <1>0, <1>1, <1>2, <1>3, AnsweredWrites DEF Wrote
<1>5. QED
  BY <1>4 DEF w

\* A write of which the rest of the pass, or of the queue, takes care.
Fits(w, next) ==
  /\ Shaped(w)
  /\ IsMigrated(w) /\ w.exists => Deployed = {}
  /\ Progressed(next, op, w)
  /\ next \in InPass /\ w.exists /\ op = "Migrate" => w.ann = "migrate"
  /\ op \in Removing /\ next \in AfterActuator => Deployed = {}
  /\ w.exists /\ w.ann = "migrate" => pc # "strip" /\ (next = "idle" => op # "Migrate")

LEMMA WroteKeeps ==
  ASSUME MInv, QInv, NEW w, NEW next \in InPass \cup {"get", "idle"}, pc \in Calls \ {"get"},
         Wrote(w, next), Fits(w, next), TypeOK'
  PROVE  /\ MInv' /\ AllAdmitted' /\ (crashes' = 0 => pc' # "down")
         /\ NoneAsked' => NoneAsked
<1>1. /\ TypeOK /\ OwnerKeeps /\ AllShaped /\ AllAdmitted /\ w \in Version /\ live' = w
      /\ pc # "down" /\ pc' # "down" /\ pc' \in {"idle", next}
  BY DEF MInv, QInv, Wrote, Calls, InPass
<1>2. OwnerKeeps' /\ AllShaped' /\ AllAdmitted' /\ (NoneAsked' => NoneAsked)
  <2>1. CASE UNCHANGED versions
    BY <1>1, <2>1, UnchangedKeeps
  <2>2. CASE w.by # "owner" /\ versions' = Append(versions, w)
    <3>1. Follows(w)
      BY <2>2 DEF Follows, Fits, Wrote
    <3>2. QED
      BY <1>1, <2>2, <3>1, AppendKeeps
  <2>3. QED
    BY <2>1, <2>2 DEF Wrote
<1>3. Progressed(pc, op, live)' /\ CopyKept' /\ RemovedAll'
  <2>1. CASE pc' = "idle"
    BY <2>1 DEF Progressed, CopyKept, RemovedAll, InPass, Recorded, AfterActuator
  <2>2. CASE pc' = next /\ next # "idle" /\ mine' = w /\ op' = op
    <3>1. Progressed(pc, op, live)'
      BY <1>1, <2>2 DEF Fits
    <3>2. Kept(w, w)
      BY DEF Kept
    <3>3. CopyKept'
      BY <1>1, <2>2, <3>2 DEF CopyKept, Fits
    <3>4. Deployed' = Deployed
      BY DEF Wrote, Deployed
    <3>5. RemovedAll'
      BY <2>2, <3>4 DEF Fits, RemovedAll
    <3>6. QED
      BY <3>1, <3>3, <3>5
  <2>3. QED
    BY <2>1, <2>2 DEF Wrote
<1>4. MigratedStaysUndeployed'
  <2>1. Deployed' = Deployed
    BY DEF Wrote, Deployed
  <2>2. IsMigrated(live)' <=> IsMigrated(w)
    BY <1>1 DEF IsMigrated
  <2>3. QED
    BY <1>1, <2>1, <2>2 DEF MigratedStaysUndeployed, Fits
<1>5. MigrationPending'
  <2>1. SUFFICES ASSUME w.exists, w.ann = "migrate", ~queued', Len(versions)' = 1
                 PROVE  pc' = "get" \/ (pc' \in InPass /\ op' = "Migrate")
    BY <1>1 DEF MigrationPending
  <2>2. UNCHANGED versions /\ w = live
    <3>1. CASE versions' = Append(versions, w)
      BY <1>1, <2>1, <3>1, AppendedVersions, VersionFacts
    <3>2. QED
      BY <3>1 DEF Wrote
  <2>3. queued' = queued
    BY <2>1 DEF Wrote
  <2>4. op = "Migrate"
    BY <1>1, <2>1, <2>2, <2>3 DEF MInv, MigrationPending, Calls
  <2>5. QED
    BY <2>1, <2>4 DEF Wrote, Fits
<1>6. QED
  BY <1>1, <1>2, <1>3, <1>4, <1>5 DEF MInv

LEMMA EndedKeeps ==
  ASSUME MInv, QInv, NEW failed \in BOOLEAN, Ended(failed), TypeOK',
         failed \/ ~live.exists \/ live.ann # "migrate" \/ Len(versions) # 1
  PROVE  /\ MInv' /\ AllAdmitted' /\ (crashes' = 0 => pc' # "down")
         /\ NoneAsked' => NoneAsked
<1>1. /\ OwnerKeeps' /\ AllShaped' /\ AllAdmitted' /\ live' = live /\ (NoneAsked' => NoneAsked)
      /\ pc' = "idle" /\ Deployed' = Deployed /\ Len(versions)' = Len(versions)
  BY UnchangedKeeps DEF MInv, QInv, Ended, Deployed
<1>2. Progressed(pc, op, live)' /\ CopyKept' /\ RemovedAll'
  BY <1>1 DEF Progressed, CopyKept, RemovedAll, InPass, Recorded, AfterActuator
<1>3. MigratedStaysUndeployed'
  BY <1>1 DEF MInv, MigratedStaysUndeployed, IsMigrated
<1>4. MigrationPending'
  BY <1>1 DEF MigrationPending, Ended
<1>5. QED
  BY <1>1, <1>2, <1>3, <1>4 DEF MInv

----------------------------------------------------------------------------
(* The steps of a pass that write. *)

\* What was covered before a write that asks for nothing.
LEMMA CoveredBefore ==
  ASSUME NEW w, NEW next, Wrote(w, next), Covered', NoneAsked' => NoneAsked, queued \in BOOLEAN,
         live.deleting = w.deleting, live.ann = "wait-for-state" => w.ann = "wait-for-state"
  PROVE  /\ Covered
         /\ \/ next = "idle" /\ pc' = "idle"
            \/ next # "idle" /\ pc' = next /\ mine' = w /\ UNCHANGED <<op, input>>
  BY DEF Covered, Wrote

LEMMA StripAnnotationQuiet ==
  ASSUME QuietInv, StripAnnotation, TypeOK'
  PROVE  QuietInv'
<1>0. TypeOK /\ pc = "strip" /\ live \in Version /\ queued \in BOOLEAN
  BY VersionFacts DEF QuietInv, MInv, StripAnnotation, TypeOK
<1>1. CASE live.exists
  <2>1. [live EXCEPT !.ann = "none"] \in Version
    BY <1>0 DEF Version, Annotations
  <2>2. PICK w \in Version : Wrote(w, "get") /\ AlmostSame([live EXCEPT !.ann = "none"], w)
    BY <1>0, <1>1, <2>1, PatchWrites DEF StripAnnotation
  <2>3. w.ann = "none" /\ w.exists /\ w.opType = live.opType
    BY <1>0, <1>1, <2>2 DEF AlmostSame, SameMetadata, Version
  <2>4. live.opType # "Migrate"
    BY <1>0, <1>1 DEF QuietInv, MInv, Progressed
  <2>5. Fits(w, "get")
    BY <1>0, <2>3, <2>4 DEF Fits, Shaped, IsMigrated, Progressed, InPass, Recorded, AfterActuator
  <2>6. MInv' /\ AllAdmitted' /\ (crashes' = 0 => pc' # "down")
    BY <1>0, <2>2, <2>5, WroteKeeps DEF QuietInv, Calls, InPass
  <2>7. Covered' => Serving'
    BY <2>2, <2>3 DEF Serving, Wrote, Covered, InPass
  <2>8. QED
    BY <2>6, <2>7 DEF QuietInv, QInv
<1>2. CASE ~live.exists
  <2>1. Ended(TRUE)
    BY <1>2, EndPassEnds DEF StripAnnotation
  <2>2. MInv' /\ AllAdmitted' /\ (crashes' = 0 => pc' # "down")
    BY <2>1, EndedKeeps DEF QuietInv
  <2>3. QED
    BY <2>1, <2>2 DEF QuietInv, QInv, Covered, Ended
<1>3. QED
  BY <1>1, <1>2

LEMMA AddFinalizersQuiet ==
  ASSUME QuietInv, AddFinalizers, TypeOK'
  PROVE  QuietInv'
<1>0. TypeOK /\ pc = "addFinalizer" /\ live \in Version /\ queued \in BOOLEAN
  BY VersionFacts DEF QuietInv, MInv, AddFinalizers, TypeOK
<1>1. CASE live.exists /\ fresh
  <2>1. [live EXCEPT !.fin = TRUE] \in Version
    BY <1>0 DEF Version
  <2>2. PICK w \in Version : Wrote(w, "processing") /\ AlmostSame([live EXCEPT !.fin = TRUE], w)
    BY <1>0, <1>1, <2>1, PatchWrites DEF AddFinalizers
  <2>3. /\ w.exists /\ w.ann = live.ann /\ w.opType = live.opType /\ w.opState = live.opState
        /\ w.deleting = live.deleting /\ w.ts = live.ts
    BY <1>0, <1>1, <2>2 DEF AlmostSame, SameMetadata, Version
  <2>4. Shaped(live) /\ Progressed("addFinalizer", op, live)
    BY <1>0, VersionFacts DEF QuietInv, MInv, AllShaped
  <2>5. Shaped(w)
    BY <1>1, <2>3, <2>4 DEF Shaped, Progressed, InPass
  <2>6. Fits(w, "processing")
    <3>1. IsMigrated(w) => Deployed = {}
      BY <1>1, <2>3 DEF QuietInv, MInv, MigratedStaysUndeployed, IsMigrated
    <3>2. Progressed("processing", op, w)
      BY <1>1, <2>3, <2>4 DEF Progressed, InPass, Recorded
    <3>3. op = "Migrate" => w.ann = "migrate"
      BY <1>1, <2>3, <2>4 DEF Progressed, InPass
    <3>4. QED
      BY <1>0, <2>5, <3>1, <3>2, <3>3 DEF Fits, InPass, Recorded, AfterActuator
  <2>7. /\ MInv' /\ AllAdmitted' /\ (crashes' = 0 => pc' # "down")
        /\ NoneAsked' => NoneAsked
    BY <1>0, <2>2, <2>6, WroteKeeps DEF QuietInv, Calls, InPass
  <2>8. ASSUME Covered' PROVE Serving'
    <3>1. Covered /\ pc' = "processing" /\ mine' = w /\ UNCHANGED <<op, input>> /\ live' = w
      BY <1>0, <2>2, <2>3, <2>7, <2>8, CoveredBefore DEF Wrote
    <3>2. Serving
      BY <3>1 DEF QuietInv, QInv
    <3>3. QED
      BY <1>0, <2>3, <3>1, <3>2 DEF Serving, InPass
  <2>9. QED
    BY <2>7, <2>8 DEF QuietInv, QInv
<1>2. CASE ~(live.exists /\ fresh)
  <2>1. Ended(TRUE)
    BY <1>2, EndPassEnds DEF AddFinalizers
  <2>2. MInv' /\ AllAdmitted' /\ (crashes' = 0 => pc' # "down")
    BY <2>1, EndedKeeps DEF QuietInv
  <2>3. QED
    BY <2>1, <2>2 DEF QuietInv, QInv, Covered, Ended
<1>3. QED
  BY <1>1, <1>2

LEMMA ProcessingQuiet ==
  ASSUME QuietInv, Processing, TypeOK'
  PROVE  QuietInv'
<1>0. TypeOK /\ pc = "processing" /\ live \in Version /\ mine \in Version /\ queued \in BOOLEAN
      /\ op \in OpTypes
  BY VersionFacts DEF QuietInv, MInv, Processing, TypeOK
<1>1. CASE live.exists
  <2> DEFINE w == [ProcessingCustom(live, mine, op) EXCEPT !.by = "status"]
  <2>1. mine.opType = live.opType /\ mine.opState = live.opState
    BY <1>0, <1>1 DEF QuietInv, MInv, CopyKept, Kept, InPass
  <2>2. StatusOf(live, w, op, "Processing")
    BY <1>0, <2>1, StatusWritten
  <2>3. Wrote(w, "actuator")
    BY <1>0, <1>1, <2>2, StatusPatchWrites DEF Processing
  <2> HIDE DEF w
  <2>4. /\ w.exists /\ w.ann = live.ann /\ w.opType = op /\ w.opState = "Processing"
        /\ w.deleting = live.deleting /\ w.ts = live.ts
    BY <1>1, <2>2 DEF StatusOf, SameMetadata
  <2>5. Shaped(live) /\ Progressed("processing", op, live)
    BY <1>0, VersionFacts DEF QuietInv, MInv, AllShaped
  <2>6. Fits(w, "actuator")
    <3>1. Shaped(w)
      BY <1>1, <2>4, <2>5 DEF Shaped, Progressed, InPass
    <3>2. Progressed("actuator", op, w)
      BY <1>1, <2>4, <2>5 DEF Progressed, InPass, Recorded
    <3>3. op = "Migrate" => w.ann = "migrate"
      BY <1>1, <2>4, <2>5 DEF Progressed, InPass
    <3>4. QED
      BY <1>0, <2>4, <3>1, <3>2, <3>3 DEF Fits, InPass, Recorded, AfterActuator, IsMigrated
  <2>7. /\ MInv' /\ AllAdmitted' /\ (crashes' = 0 => pc' # "down")
        /\ NoneAsked' => NoneAsked
    BY <1>0, <2>3, <2>6, WroteKeeps DEF QuietInv, Calls, InPass
  <2>8. ASSUME Covered' PROVE Serving'
    <3>1. Covered /\ pc' = "actuator" /\ mine' = w /\ UNCHANGED <<op, input>> /\ live' = w
      BY <1>0, <2>3, <2>4, <2>7, <2>8, CoveredBefore DEF Wrote
    <3>2. Serving
      BY <3>1 DEF QuietInv, QInv
    <3>3. QED
      BY <1>0, <2>4, <3>1, <3>2 DEF Serving, InPass
  <2>9. QED
    BY <2>7, <2>8 DEF QuietInv, QInv
<1>2. CASE ~live.exists
  <2>1. Ended(TRUE)
    BY <1>2, EndPassEnds DEF Processing
  <2>2. MInv' /\ AllAdmitted' /\ (crashes' = 0 => pc' # "down")
    BY <2>1, EndedKeeps DEF QuietInv
  <2>3. QED
    BY <2>1, <2>2 DEF QuietInv, QInv, Covered, Ended
<1>3. QED
  BY <1>1, <1>2

LEMMA SuccessQuiet ==
  ASSUME QuietInv, Success, TypeOK'
  PROVE  QuietInv'
<1>0. TypeOK /\ pc = "success" /\ live \in Version /\ mine \in Version /\ queued \in BOOLEAN
      /\ op \in OpTypes
  BY VersionFacts DEF QuietInv, MInv, Success, TypeOK
<1>1. CASE live.exists
  <2> DEFINE w == [SuccessCustom(live, mine, op) EXCEPT !.by = "status"]
             next == AfterSuccess(op, live)
  <2>1. mine.opType = live.opType /\ mine.opState = live.opState
    BY <1>0, <1>1 DEF QuietInv, MInv, CopyKept, Kept, InPass
  <2>2. StatusOf(live, w, op, "Succeeded")
    BY <1>0, <2>1, StatusWritten
  <2>3. Wrote(w, next)
    BY <1>0, <1>1, <2>2, StatusPatchWrites DEF Success
  <2>4. mine = live => ~w.err /\ w.obs = live.gen
    BY <1>0, SuccessObserved
  <2> HIDE DEF w
  <2>5. /\ w.exists /\ w.ann = live.ann /\ w.opType = op /\ w.opState = "Succeeded"
        /\ w.deleting = live.deleting /\ w.ts = live.ts /\ w.gen = live.gen
    BY <1>1, <2>2 DEF StatusOf, SameMetadata
  <2>6. Shaped(live) /\ Progressed("success", op, live)
    BY <1>0, VersionFacts DEF QuietInv, MInv, AllShaped
  <2>7. /\ next \in {"removeFinalizer", "removeAllFinalizers", "removeAnnotation", "idle"}
        /\ next = "removeFinalizer" => op = "Delete"
        /\ next = "removeAllFinalizers" <=> op = "Migrate"
        /\ next = "removeAnnotation" <=> op = "Restore"
    BY <1>0 DEF AfterSuccess, OpTypes
  <2>8. op \in Removing => Deployed = {}
    BY <1>0 DEF QuietInv, MInv, RemovedAll, AfterActuator, Recorded, InPass
  <2> HIDE DEF next
  <2>9. Fits(w, next)
    <3>1. Shaped(w)
      BY <1>1, <2>5, <2>6 DEF Shaped, Progressed, InPass
    <3>2. Progressed(next, op, w)
      BY <1>1, <2>5, <2>6, <2>7 DEF Progressed, InPass, Recorded
    <3>3. op = "Migrate" => w.ann = "migrate"
      BY <1>1, <2>5, <2>6 DEF Progressed, InPass
    <3>4. QED
      BY <1>0, <2>5, <2>7, <2>8, <3>1, <3>2, <3>3 DEF Fits, IsMigrated, Removing
  <2>10. /\ MInv' /\ AllAdmitted' /\ (crashes' = 0 => pc' # "down")
         /\ NoneAsked' => NoneAsked
    BY <1>0, <2>3, <2>7, <2>9, WroteKeeps DEF QuietInv, Calls, InPass
  <2>11. ASSUME Covered' PROVE Serving'
    <3>1. /\ Covered /\ live' = w
          /\ \/ next = "idle" /\ pc' = "idle"
             \/ next # "idle" /\ pc' = next /\ mine' = w /\ UNCHANGED <<op, input>>
      BY <1>0, <2>3, <2>5, <2>10, <2>11, CoveredBefore DEF Wrote
    <3>2. Serving /\ ~live.deleting
      BY <3>1 DEF QuietInv, QInv, Covered
    <3>3. mine = live /\ ~w.err /\ w.obs = w.gen
      BY <1>0, <2>4, <2>5, <3>2 DEF Serving, InPass
    <3>4. op \in Deploying => /\ input = w.ts /\ (w.ann = "none" \/ (w.ann = "restore" /\ op = "Restore"))
                              /\ \A p \in Parts : applied[p] = w.ts
      BY <1>0, <2>5, <3>2 DEF Serving, InPass, AppliedAll
    <3>5. op # "Delete" /\ op # "none"
      BY <1>1, <2>6, <3>2 DEF Progressed, InPass
    <3>6. op \in Deploying \cup {"Migrate"}
      BY <1>0, <3>5 DEF OpTypes, Deploying
    <3>7. applied' = applied
      BY <2>3 DEF Wrote
    <3>8. AppliedAll' <=> \A p \in Parts : applied[p] = w.ts
      BY <3>1, <3>7 DEF AppliedAll
    <3>9. CASE pc' = "idle"
      <4>1. (op \in Deploying /\ op # "Restore") \/ op = "Migrate"
        BY <2>7, <3>1, <3>6, <3>9
      <4>2. live'.opType # "Migrate" => CheckExtensionObject(live') /\ AppliedAll'
        BY <2>5, <3>1, <3>3, <3>4, <3>8, <4>1 DEF CheckExtensionObject
      <4>3. QED
        BY <3>9, <4>2 DEF Serving, InPass
    <3>10. CASE pc' = next /\ mine' = w /\ UNCHANGED <<op, input>> /\ next # "idle"
      BY <2>5, <2>7, <3>1, <3>3, <3>4, <3>8, <3>10 DEF Serving, InPass
    <3>11. QED
      BY <3>1, <3>9, <3>10
  <2>12. QED
    BY <2>10, <2>11 DEF QuietInv, QInv
<1>2. CASE ~live.exists
  <2>1. Ended(TRUE)
    BY <1>2, EndPassEnds DEF Success
  <2>2. MInv' /\ AllAdmitted' /\ (crashes' = 0 => pc' # "down")
    BY <2>1, EndedKeeps DEF QuietInv
  <2>3. QED
    BY <2>1, <2>2 DEF QuietInv, QInv, Covered, Ended
<1>3. QED
  BY <1>1, <1>2

LEMMA ErrorQuiet ==
  ASSUME QuietInv, Error, TypeOK'
  PROVE  QuietInv'
<1>0. TypeOK /\ pc = "error" /\ live \in Version /\ mine \in Version /\ op \in OpTypes
      /\ ErrorType(op) \in OpTypes
  BY VersionFacts, ErrorTypeType DEF QuietInv, MInv, Error, TypeOK
<1>1. pc' = "idle" /\ op' = "none" /\ queued' = TRUE /\ UNCHANGED <<applied, crashes>>
  BY DEF Error, Finish
<1>2. CASE UNCHANGED versions
  <2>1. Ended(TRUE)
    BY <1>1, <1>2 DEF Ended
  <2>2. MInv' /\ AllAdmitted' /\ (crashes' = 0 => pc' # "down")
    BY <2>1, EndedKeeps DEF QuietInv
  <2>3. QED
    BY <1>1, <2>2 DEF QuietInv, QInv, Covered
<1>3. CASE ~UNCHANGED versions
  <2> DEFINE w == [ErrorCustom(live, mine, ErrorType(op)) EXCEPT !.by = "status"]
  <2>1. live.exists /\ versions' = Append(versions, w)
    BY <1>3 DEF Error
  <2>2. mine.opType = live.opType /\ mine.opState = live.opState
    BY <1>0, <2>1 DEF QuietInv, MInv, CopyKept, Kept, InPass
  <2>3. StatusOf(live, w, ErrorType(op), "Error")
    BY <1>0, <2>2, StatusWritten
  <2> HIDE DEF w
  <2>4. live' = w /\ w \in Version
    BY <1>0, <2>1, <2>3, AppendedVersions DEF StatusOf
  <2>5. Wrote(w, "idle")
    BY <1>1, <2>1, <2>3, <2>4 DEF Wrote, StatusOf
  <2>6. /\ w.exists /\ w.ann = live.ann /\ w.opState = "Error"
        /\ w.opType = "Migrate" => op = "Migrate"
        /\ w.opType = "Restore" => FALSE
    BY <2>1, <2>3 DEF StatusOf, SameMetadata, ErrorType
  <2>7. Shaped(live) /\ Progressed("error", op, live)
    BY <1>0, VersionFacts DEF QuietInv, MInv, AllShaped
  <2>8. Shaped(w)
    BY <2>1, <2>6, <2>7 DEF Shaped, Progressed, InPass
  <2>9. TypeOK /\ OwnerKeeps /\ AllShaped /\ AllAdmitted /\ Follows(w)
    BY <2>1, <2>3, <2>8 DEF QuietInv, MInv, QInv, Follows, StatusOf
  <2>10. OwnerKeeps' /\ AllShaped' /\ AllAdmitted'
    BY <2>1, <2>4, <2>9, AppendKeeps
  <2>11. Progressed(pc, op, live)' /\ CopyKept' /\ RemovedAll' /\ MigrationPending'
    BY <1>1 DEF Progressed, CopyKept, RemovedAll, MigrationPending, InPass, Recorded, AfterActuator
  <2>12. MigratedStaysUndeployed'
    BY <2>4, <2>6 DEF MigratedStaysUndeployed, IsMigrated
  <2>13. QED
    BY <1>1, <2>10, <2>11, <2>12 DEF QuietInv, MInv, QInv, Covered
<1>4. QED
  BY <1>2, <1>3

LEMMA WithoutFinalizerFields ==
  ASSUME NEW v \in Version, v.exists
  PROVE  /\ WithoutFinalizer(v).exists => /\ WithoutFinalizer(v) = [v EXCEPT !.fin = FALSE]
                                          /\ ~v.deleting
         /\ ~WithoutFinalizer(v).fin
         /\ WithoutFinalizer(v).ann # "none" => WithoutFinalizer(v).exists
  BY DEF WithoutFinalizer, Absent, Version

LEMMA RemoveFinalizersQuiet ==
  ASSUME QuietInv, RemoveFinalizers, TypeOK'
  PROVE  QuietInv'
<1>0. TypeOK /\ pc = "removeFinalizer" /\ live \in Version /\ queued \in BOOLEAN
      /\ Progressed("removeFinalizer", op, live)
  BY VersionFacts DEF QuietInv, MInv, RemoveFinalizers, TypeOK
<1>1. op = "Delete" /\ (live.exists => live.deleting)
  BY <1>0 DEF Progressed, InPass
<1>2. CASE live.exists /\ fresh
  <2>1. WithoutFinalizer(live) = Absent(live.ts) /\ Absent(live.ts) \in Version
    BY <1>0, <1>1, <1>2, AbsentType DEF WithoutFinalizer, Version
  <2>2. PICK w \in Version : Wrote(w, "idle") /\ AlmostSame(Absent(live.ts), w)
    BY <1>0, <1>2, <2>1, PatchWrites DEF RemoveFinalizers
  <2>3. ~w.exists /\ w.ann = "none" /\ ~w.fin /\ w.opType = "none"
    BY <2>2 DEF AlmostSame, SameMetadata, Absent
  <2>4. Fits(w, "idle")
    BY <1>0, <2>3 DEF Fits, Shaped, Progressed, InPass, Recorded, AfterActuator
  <2>5. MInv' /\ AllAdmitted' /\ (crashes' = 0 => pc' # "down")
    BY <1>0, <2>2, <2>4, WroteKeeps DEF QuietInv, Calls, InPass
  <2>6. ~Covered'
    BY <2>2, <2>3 DEF Covered, Wrote
  <2>7. QED
    BY <2>5, <2>6 DEF QuietInv, QInv
<1>3. CASE ~(live.exists /\ fresh)
  <2>1. Ended(live.exists) /\ live.exists \in BOOLEAN
    BY <1>0, <1>3, EndPassEnds DEF RemoveFinalizers, Version
  <2>2. MInv' /\ AllAdmitted' /\ (crashes' = 0 => pc' # "down")
    BY <2>1, EndedKeeps DEF QuietInv
  <2>3. ~Covered'
    BY <2>1 DEF Covered, Ended, live
  <2>4. QED
    BY <2>2, <2>3 DEF QuietInv, QInv
<1>4. QED
  BY <1>2, <1>3

LEMMA RemoveAllFinalizersQuiet ==
  ASSUME QuietInv, RemoveAllFinalizers, TypeOK'
  PROVE  QuietInv'
<1>0. /\ TypeOK /\ pc = "removeAllFinalizers" /\ live \in Version /\ queued \in BOOLEAN
      /\ Progressed("removeAllFinalizers", op, live) /\ Shaped(live)
      /\ Deployed = {} /\ op = "Migrate" /\ (live.fin => mine.fin)
  <2>1. pc = "removeAllFinalizers" /\ op = "Migrate"
    BY DEF QuietInv, MInv, RemoveAllFinalizers, Progressed
  <2>2. Deployed = {}
    BY <2>1 DEF QuietInv, MInv, RemovedAll, AfterActuator, Recorded, InPass, Removing
  <2>3. live.fin => mine.fin
    BY <2>1 DEF QuietInv, MInv, CopyKept
  <2>4. Shaped(live)
    BY VersionFacts DEF QuietInv, MInv, AllShaped
  <2>5. TypeOK /\ live \in Version /\ queued \in BOOLEAN
    BY VersionFacts DEF QuietInv, MInv, TypeOK
  <2>6. Progressed("removeAllFinalizers", op, live)
    BY <2>1 DEF QuietInv, MInv
  <2>7. QED
    BY <2>1, <2>2, <2>3, <2>4, <2>5, <2>6
<1>1. CASE live.exists
  <2> DEFINE v == IF mine.fin THEN WithoutFinalizer(live) ELSE live
  <2>1. /\ v \in Version /\ ~v.fin
        /\ v.ann # "none" => v.exists
        /\ v.exists => /\ v.ann = live.ann /\ v.opType = live.opType /\ v.opState = live.opState
                       /\ v.deleting = live.deleting /\ v.ts = live.ts
    <3>1. CASE mine.fin
      BY <1>0, <1>1, <3>1, WithoutFinalizerType, WithoutFinalizerFields DEF Version
    <3>2. CASE ~mine.fin
      BY <1>0, <1>1, <3>2
    <3>3. QED
      BY <3>1, <3>2
  <2> HIDE DEF v
  <2>2. Patch(v, "removeAnnotation")
    BY <1>1 DEF RemoveAllFinalizers, v
  <2>3. PICK w \in Version : Wrote(w, "removeAnnotation") /\ AlmostSame(v, w)
    BY <1>0, <1>1, <2>1, <2>2, PatchWrites
  <2>4. /\ ~w.fin /\ (w.ann # "none" => w.exists)
        /\ w.exists => /\ w.ann = live.ann /\ w.opType = live.opType /\ w.opState = live.opState
                       /\ w.deleting = live.deleting /\ w.ts = live.ts
    BY <2>1, <2>3 DEF AlmostSame, SameMetadata
  <2>5. live.ann = "migrate" /\ live.opType = "Migrate" /\ live.opState = "Succeeded"
    BY <1>0, <1>1 DEF Progressed, InPass, Recorded
  <2>6. Fits(w, "removeAnnotation")
    <3>1. Shaped(w)
      BY <2>4, <2>5 DEF Shaped
    <3>2. Progressed("removeAnnotation", op, w)
      BY <1>0, <2>4, <2>5 DEF Progressed, InPass, Recorded
    <3>3. QED
      BY <1>0, <2>4, <2>5, <3>1, <3>2 DEF Fits
  <2>7. /\ MInv' /\ AllAdmitted' /\ (crashes' = 0 => pc' # "down")
        /\ NoneAsked' => NoneAsked
    BY <1>0, <2>3, <2>6, WroteKeeps DEF QuietInv, Calls, InPass
  <2>8. ASSUME Covered' PROVE Serving'
    <3>1. w.exists /\ live' = w
      BY <2>3, <2>8 DEF Covered, Wrote
    <3>2. Covered /\ pc' = "removeAnnotation" /\ mine' = w /\ UNCHANGED <<op, input>>
      BY <1>0, <2>3, <2>4, <2>5, <2>7, <2>8, <3>1, CoveredBefore
    <3>3. Serving
      BY <3>2 DEF QuietInv, QInv
    <3>4. QED
      BY <1>0, <2>4, <3>1, <3>2, <3>3 DEF Serving, InPass, Deploying
  <2>9. QED
    BY <2>7, <2>8 DEF QuietInv, QInv
<1>2. CASE ~live.exists
  <2>1. pc' = "removeAnnotation" /\ UNCHANGED <<versions, queued, mine, op, input, applied, crashes>>
    BY <1>2 DEF RemoveAllFinalizers
  <2>2. OwnerKeeps' /\ AllShaped' /\ AllAdmitted' /\ live' = live
    BY <2>1, UnchangedKeeps DEF QuietInv, MInv, QInv
  <2>3. Deployed' = {}
    BY <1>0, <2>1 DEF Deployed
  <2>4. ~live.fin
    BY <1>0, <1>2 DEF Shaped
  <2>5. Progressed(pc, op, live)' /\ CopyKept' /\ RemovedAll'
    BY <1>0, <1>2, <2>1, <2>2, <2>3, <2>4 DEF Progressed, CopyKept, RemovedAll, InPass, Recorded
  <2>6. MigratedStaysUndeployed' /\ MigrationPending'
    BY <1>2, <2>2 DEF MigratedStaysUndeployed, MigrationPending
  <2>7. QED
    BY <1>2, <2>1, <2>2, <2>5, <2>6 DEF QuietInv, MInv, QInv, Covered
<1>3. QED
  BY <1>1, <1>2

LEMMA RemoveAnnotationQuiet ==
  ASSUME QuietInv, RemoveAnnotation, TypeOK'
  PROVE  QuietInv'
<1>0. /\ TypeOK /\ pc = "removeAnnotation" /\ live \in Version /\ queued \in BOOLEAN
      /\ Progressed("removeAnnotation", op, live) /\ Shaped(live)
      /\ op \in {"Migrate", "Restore"}
  <2>1. pc = "removeAnnotation" /\ op \in {"Migrate", "Restore"}
    BY DEF QuietInv, MInv, RemoveAnnotation, Progressed
  <2>2. QED
    BY <2>1, VersionFacts DEF QuietInv, MInv, TypeOK, AllShaped
<1>1. CASE live.exists
  <2> DEFINE v == IF mine.ann = "none" THEN live ELSE [live EXCEPT !.ann = "none"]
  <2>1. /\ v \in Version /\ v.exists /\ v.fin = live.fin /\ v.gen = live.gen
        /\ v.opType = live.opType /\ v.opState = live.opState /\ v.deleting = live.deleting
        /\ v.ts = live.ts /\ v.err = live.err /\ v.obs = live.obs
        /\ v.ann = IF mine.ann = "none" THEN live.ann ELSE "none"
    BY <1>0, <1>1 DEF Version, Annotations
  <2> HIDE DEF v
  <2>2. Patch(v, "idle")
    BY <1>1 DEF RemoveAnnotation, v
  <2>3. PICK w \in Version : Wrote(w, "idle") /\ AlmostSame(v, w)
    BY <1>0, <1>1, <2>1, <2>2, PatchWrites
  <2>4. /\ w.exists /\ w.fin = live.fin /\ w.gen = live.gen
        /\ w.opType = live.opType /\ w.opState = live.opState /\ w.deleting = live.deleting
        /\ w.ts = live.ts /\ w.err = live.err /\ w.obs = live.obs
        /\ w.ann = IF mine.ann = "none" THEN live.ann ELSE "none"
    BY <2>1, <2>3 DEF AlmostSame, SameMetadata
  <2>5. /\ live.opType = op /\ live.opState = "Succeeded"
        /\ op = "Migrate" => ~live.fin /\ mine.ann = "migrate"
        /\ op = "Restore" => live.ann # "wait-for-state"
    BY <1>0, <1>1 DEF Progressed, InPass, Recorded, QuietInv, MInv, CopyKept
  <2>6. live.ann # "wait-for-state"
    BY <1>0, <1>1, <2>5 DEF Shaped
  <2>7. Fits(w, "idle")
    <3>1. Shaped(w)
      BY <1>0, <1>1, <2>4, <2>5, <2>6 DEF Shaped
    <3>2. IsMigrated(w) => Deployed = {}
      BY <1>1, <2>4 DEF QuietInv, MInv, MigratedStaysUndeployed, IsMigrated
    <3>3. QED
      BY <1>0, <2>4, <2>5, <3>1, <3>2 DEF Fits, Progressed, InPass, Recorded, AfterActuator
  <2>8. /\ MInv' /\ AllAdmitted' /\ (crashes' = 0 => pc' # "down")
        /\ NoneAsked' => NoneAsked
    BY <1>0, <2>3, <2>7, WroteKeeps DEF QuietInv, Calls, InPass
  <2>9. ASSUME Covered' PROVE Serving'
    <3>1. Covered /\ pc' = "idle" /\ live' = w /\ applied' = applied
      BY <1>0, <2>3, <2>4, <2>6, <2>8, <2>9, CoveredBefore DEF Wrote
    <3>2. Serving
      BY <3>1 DEF QuietInv, QInv
    <3>3. CASE op = "Migrate"
      BY <2>4, <2>5, <3>1, <3>3 DEF Serving, InPass
    <3>4. CASE op = "Restore"
      <4>1. /\ mine = live /\ live.ann \in {"none", "restore"} /\ AppliedAll
            /\ ~live.err /\ live.obs = live.gen
        BY <1>0, <3>2, <3>4 DEF Serving, InPass, Deploying
      <4>2. CheckExtensionObject(w)
        BY <2>4, <2>5, <4>1 DEF CheckExtensionObject
      <4>3. AppliedAll'
        BY <2>4, <3>1, <4>1 DEF AppliedAll
      <4>4. QED
        BY <3>1, <4>2, <4>3 DEF Serving, InPass
    <3>5. QED
      BY <1>0, <3>3, <3>4
  <2>10. QED
    BY <2>8, <2>9 DEF QuietInv, QInv
<1>2. CASE ~live.exists
  <2>1. Ended(TRUE)
    BY <1>2, EndPassEnds DEF RemoveAnnotation
  <2>2. MInv' /\ AllAdmitted' /\ (crashes' = 0 => pc' # "down")
    BY <2>1, EndedKeeps DEF QuietInv
  <2>3. QED
    BY <2>1, <2>2 DEF QuietInv, QInv, Covered, Ended
<1>3. QED
  BY <1>1, <1>2

----------------------------------------------------------------------------
(* The steps that read, and those of the actuator. *)

\* With its own writes in the cache, a pass sees the status that is stored.
LEMMA CacheIsStored ==
  ASSUME ~StaleReads, TypeOK, OwnerKeeps, CacheReadable
  PROVE  /\ cache.exists /\ live.exists => Kept(cache, live)
         /\ NoneAsked => Len(versions) = 1
         /\ Len(versions) = 1 => cache = live
<1>1. Len(versions) \in Nat \ {0} /\ cache = versions[1] /\ live = versions[Len(versions)]
  BY VersionFacts
<1>2. \A i \in 2 .. Len(versions) : versions[i].by = "owner"
  BY DEF CacheReadable
<1>3. cache.exists /\ live.exists => Kept(cache, live)
  BY <1>1, <1>2 DEF OwnerKeeps
<1>4. NoneAsked => Len(versions) = 1
  <2>1. SUFFICES ASSUME NoneAsked, Len(versions) # 1 PROVE FALSE
    OBVIOUS
  <2>2. 2 \in 2 .. Len(versions)
    BY <1>1, <2>1
  <2>3. QED
    BY <1>2, <2>1, <2>2 DEF NoneAsked
<1>5. QED
  BY <1>1, <1>3, <1>4

LEMMA PickUpQuiet ==
  ASSUME ~StaleReads, QuietInv, PickUp, TypeOK'
  PROVE  QuietInv'
<1>0. /\ TypeOK /\ pc = "idle" /\ queued' = FALSE /\ cache \in Version
      /\ UNCHANGED <<versions, op, input, applied, crashes>>
      /\ Len(versions)' = Len(versions) /\ Deployed' = Deployed
  BY VersionFacts DEF QuietInv, MInv, PickUp, Deployed
<1>1. /\ OwnerKeeps' /\ AllShaped' /\ AllAdmitted' /\ live' = live /\ (NoneAsked' <=> NoneAsked)
  BY <1>0, UnchangedKeeps DEF QuietInv, MInv, QInv
<1>2. /\ cache.exists /\ live.exists => Kept(cache, live)
      /\ NoneAsked => Len(versions) = 1
      /\ Len(versions) = 1 => cache = live
  BY <1>0, CacheIsStored DEF QuietInv, MInv, PickUp
<1>3. Shaped(cache)
  BY VersionFacts DEF QuietInv, MInv, AllShaped
<1>4. \/ cache.ann = "wait-for-state" /\ pc' = "idle"
      \/ cache.ann = "reconcile" /\ pc' = "strip"
      \/ cache.ann \notin {"wait-for-state", "reconcile"} /\ pc' = "get"
  BY <1>0 DEF PickUp
<1>5. Progressed(pc, op, live)'
  <2>1. pc' = "strip" /\ live.exists => live.opType # "Migrate"
    BY <1>2, <1>3, <1>4 DEF Shaped, Kept
  <2>2. QED
    BY <1>1, <1>4, <2>1 DEF Progressed, InPass
<1>6. CopyKept' /\ RemovedAll'
  BY <1>4 DEF CopyKept, RemovedAll, InPass, Recorded, AfterActuator
<1>7. MigratedStaysUndeployed'
  BY <1>0, <1>1 DEF QuietInv, MInv, MigratedStaysUndeployed, IsMigrated
<1>8. MigrationPending'
  BY <1>0, <1>1, <1>2, <1>4 DEF MigrationPending
<1>9. Covered' => Serving'
  BY <1>0, <1>1, <1>2, <1>4 DEF Covered, Serving, InPass
<1>10. QED
  BY <1>0, <1>1, <1>4, <1>5, <1>6, <1>7, <1>8, <1>9 DEF QuietInv, MInv, QInv

LEMMA ReconcileQuiet ==
  ASSUME ~StaleReads, QuietInv, Reconcile, TypeOK'
  PROVE  QuietInv'
<1> DEFINE t == ComputeOperationType(cache)
           next == IF ~cache.exists \/ ShouldSkipOperation(t, cache) THEN "idle"
                   ELSE FirstCall(t, cache)
<1>0. /\ TypeOK /\ pc = "get" /\ cache \in Version /\ Shaped(cache)
      /\ t \in OpTypes
  BY VersionFacts, ComputeOperationTypeType DEF QuietInv, MInv, AllShaped, Reconcile
<1>1. /\ cache.exists /\ live.exists => Kept(cache, live)
      /\ NoneAsked => Len(versions) = 1
      /\ Len(versions) = 1 => cache = live
  BY <1>0, CacheIsStored DEF QuietInv, MInv, Reconcile
<1>2. cache.exists =>
        /\ t = "Migrate" <=> cache.ann = "migrate"
        /\ t = "Delete" <=> cache.deleting /\ cache.ann # "migrate"
        /\ cache.ann = "restore" /\ ~cache.deleting => t = "Restore"
        /\ t = "Restore" => cache.ann # "wait-for-state"
        /\ t # "none"
        /\ t # "Migrate" /\ cache.opType = "Migrate" => ShouldSkipOperation(t, cache)
  <2>1. SUFFICES ASSUME cache.exists
                 PROVE  /\ t = "Migrate" <=> cache.ann = "migrate"
                        /\ t = "Delete" <=> cache.deleting /\ cache.ann # "migrate"
                        /\ cache.ann = "restore" /\ ~cache.deleting => t = "Restore"
                        /\ t = "Restore" => cache.ann # "wait-for-state"
                        /\ t # "none"
                        /\ t # "Migrate" /\ cache.opType = "Migrate" => ShouldSkipOperation(t, cache)
    OBVIOUS
  <2>2. /\ cache.opType = "Migrate" /\ cache.ann # "migrate" => cache.opState = "Succeeded" /\ cache.ann = "none"
        /\ cache.ann = "wait-for-state" => cache.opType # "Restore"
        /\ cache.deleting \in BOOLEAN /\ cache.opType \in OpTypes
    BY <1>0, <2>1 DEF Shaped, Version
  <2>3. QED
    BY <2>2 DEF ComputeOperationType, ShouldSkipOperation, IsMigrated, OpTypes
<1>3. CASE next = "idle"
  <2>1. Ended(FALSE)
    BY <1>3 DEF Reconcile, Finish, Ended
  <2>2. cache.exists => ShouldSkipOperation(t, cache) \/ t = "Delete"
    BY <1>0, <1>3 DEF FirstCall
  <2>3. ~live.exists \/ live.ann # "migrate" \/ Len(versions) # 1
    BY <1>1, <1>2, <2>2 DEF ShouldSkipOperation
  <2>4. MInv' /\ AllAdmitted' /\ (crashes' = 0 => pc' # "down") /\ (NoneAsked' => NoneAsked)
    BY <2>1, <2>3, EndedKeeps DEF QuietInv
  <2>5. ASSUME Covered' PROVE Serving'
    <3>1. NoneAsked /\ live' = live /\ live.exists /\ ~live.deleting /\ pc' = "idle"
      BY <2>1, <2>4, <2>5 DEF Covered, Ended, live
    <3>2. cache = live
      BY <1>1, <3>1
    <3>3. live.opType = "Migrate"
      BY <1>2, <2>2, <3>1, <3>2 DEF ShouldSkipOperation, IsMigrated
    <3>4. QED
      BY <3>1, <3>3 DEF Serving, InPass
  <2>6. QED
    BY <2>4, <2>5 DEF QuietInv, QInv
<1>4. CASE next # "idle"
  <2>1. /\ pc' = next /\ mine' = cache /\ op' = t /\ queued' = queued
        /\ input' \in cache.ts .. live.ts
        /\ UNCHANGED <<versions, applied, crashes>>
    BY <1>4 DEF Reconcile
  <2>2. /\ cache.exists /\ ~ShouldSkipOperation(t, cache) /\ next \in {"addFinalizer", "processing"}
    BY <1>4 DEF FirstCall
  <2> HIDE DEF t, next
  <2>3. OwnerKeeps' /\ AllShaped' /\ AllAdmitted' /\ live' = live /\ (NoneAsked' <=> NoneAsked)
    BY <2>1, UnchangedKeeps DEF QuietInv, MInv, QInv
  <2>4. Progressed(pc, op, live)' /\ CopyKept'
    <3>1. live.exists =>
            /\ Kept(cache, live)
            /\ t = "Migrate" => live.ann = "migrate"
            /\ t = "Delete" => live.deleting
            /\ t = "Restore" => live.ann # "wait-for-state"
            /\ t # "Migrate" => live.opType # "Migrate"
      BY <1>1, <1>2, <2>2 DEF Kept
    <3>2. Progressed(next, t, live)
      BY <1>2, <2>2, <3>1 DEF Progressed, InPass, Recorded
    <3>3. QED
      BY <1>2, <2>1, <2>2, <2>3, <3>1, <3>2 DEF CopyKept
  <2>5. RemovedAll' /\ MigratedStaysUndeployed'
    BY <2>1, <2>2, <2>3 DEF RemovedAll, AfterActuator, Recorded, InPass, QuietInv, MInv,
       MigratedStaysUndeployed, Deployed, IsMigrated
  <2>6. MigrationPending'
    BY <1>1, <1>2, <2>1, <2>2, <2>3 DEF MigrationPending, InPass
  <2>7. ASSUME Covered' PROVE Serving'
    <3>1. Covered /\ NoneAsked /\ live' = live /\ ~live.deleting /\ live.ann # "wait-for-state"
      BY <2>1, <2>3, <2>7 DEF Covered
    <3>2. cache = live
      BY <1>1, <3>1
    <3>3. live.ann # "reconcile"
      BY <1>0, <3>1 DEF QuietInv, QInv, Serving
    <3>4. input' = live.ts
      <4>1. live.ts \in Nat
        BY <1>0, <3>2 DEF Version
      <4>2. QED
        BY <2>1, <3>2, <4>1
    <3>5. live.ann \in Annotations
      BY <1>0, <3>2 DEF Version
    <3>6. t \in Deploying => live.ann = "none" \/ (live.ann = "restore" /\ t = "Restore")
      BY <1>2, <2>2, <3>1, <3>2, <3>3, <3>5 DEF Annotations, Deploying
    <3>7. QED
      BY <2>1, <2>2, <3>1, <3>2, <3>4, <3>6 DEF Serving, InPass
  <2>8. QED
    BY <1>0, <2>1, <2>2, <2>3, <2>4, <2>5, <2>6, <2>7 DEF QuietInv, MInv, QInv
<1>5. QED
  BY <1>3, <1>4

LEMMA ActuatorQuiet ==
  ASSUME QuietInv, ActuatorDone \/ ActuatorFails \/ \E p \in Parts : Apply(p) \/ Remove(p), TypeOK'
  PROVE  QuietInv'
<1>0. /\ TypeOK /\ pc = "actuator" /\ pc' \in {"actuator", "success", "error"}
      /\ UNCHANGED <<versions, queued, mine, op, input, crashes>>
      /\ Len(versions)' = Len(versions)
  BY DEF QuietInv, MInv, ActuatorDone, ActuatorFails, Apply, Remove, pass
<1>1. OwnerKeeps' /\ AllShaped' /\ AllAdmitted' /\ live' = live /\ (NoneAsked' <=> NoneAsked)
  BY <1>0, UnchangedKeeps DEF QuietInv, MInv, QInv
<1>2. Progressed(pc, op, live)' /\ CopyKept'
  <2>1. Progressed("actuator", op, live) /\ CopyKept
    BY <1>0 DEF QuietInv, MInv
  <2>2. QED
    BY <1>0, <1>1, <2>1 DEF Progressed, CopyKept, InPass, Recorded
<1>3. MigrationPending'
  BY <1>0, <1>1 DEF QuietInv, MInv, MigrationPending, InPass
<1>4. applied \in [Parts -> Nat] /\ (live.exists => live.opType = op)
  BY <1>0 DEF QuietInv, MInv, TypeOK, Progressed, Recorded, InPass
<1>5. CASE ActuatorDone
  <2>1. /\ pc' = "success" /\ applied' = applied
        /\ \A p \in Parts : applied[p] = IF op \in Deploying THEN input ELSE 0
    BY <1>5 DEF ActuatorDone
  <2>2. op \in Removing => Deployed' = {}
    BY <2>1 DEF Deployed, Removing, Deploying
  <2>3. RemovedAll' /\ MigratedStaysUndeployed'
    BY <1>0, <1>1, <2>1, <2>2 DEF QuietInv, MInv, RemovedAll, MigratedStaysUndeployed, IsMigrated, Deployed
  <2>4. Covered' => Serving'
    <3>1. SUFFICES ASSUME Covered' PROVE Serving'
      OBVIOUS
    <3>2. Covered /\ Serving
      BY <1>0, <1>1, <3>1 DEF Covered, QuietInv, QInv
    <3>3. op \in Deploying => AppliedAll'
      BY <1>0, <1>1, <2>1, <3>2 DEF Serving, AppliedAll, InPass
    <3>4. QED
      BY <1>0, <1>1, <2>1, <3>2, <3>3 DEF Serving, InPass
  <2>5. QED
    BY <1>0, <1>1, <1>2, <1>3, <2>3, <2>4 DEF QuietInv, MInv, QInv
<1>6. CASE ~ActuatorDone
  <2>1. pc' \in {"actuator", "error"}
    BY <1>0, <1>6 DEF ActuatorFails, Apply, Remove, pass
  <2>2. RemovedAll'
    BY <2>1 DEF RemovedAll, AfterActuator
  <2>3. MigratedStaysUndeployed'
    <3>1. SUFFICES ASSUME live.exists, IsMigrated(live) PROVE Deployed' = {}
      BY <1>1 DEF MigratedStaysUndeployed, IsMigrated
    <3>2. op = "Migrate" /\ Deployed = {}
      BY <1>4, <3>1 DEF IsMigrated, QuietInv, MInv, MigratedStaysUndeployed
    <3>3. \A p \in Parts : ~Apply(p) /\ ~Remove(p)
      BY <3>2 DEF Apply, Remove, Deploying, Deployed
    <3>4. applied' = applied
      BY <1>6, <3>3 DEF ActuatorFails
    <3>5. QED
      BY <3>2, <3>4 DEF Deployed
  <2>4. Covered' => Serving'
    <3>1. SUFFICES ASSUME Covered' PROVE Serving'
      OBVIOUS
    <3>2. Covered /\ Serving
      BY <1>0, <1>1, <3>1 DEF Covered, QuietInv, QInv
    <3>3. QED
      BY <1>0, <1>1, <2>1, <3>2 DEF Serving, InPass
  <2>5. QED
    BY <1>0, <1>1, <1>2, <1>3, <2>1, <2>2, <2>3, <2>4 DEF QuietInv, MInv, QInv
<1>7. QED
  BY <1>5, <1>6

----------------------------------------------------------------------------
(* Failures, the watch and the owner. *)

LEMMA CallFailsQuiet ==
  ASSUME QuietInv, CallFails, TypeOK'
  PROVE  QuietInv'
<1>1. Ended(TRUE)
  BY DEF CallFails, Finish, Ended
<1>2. MInv' /\ AllAdmitted' /\ (crashes' = 0 => pc' # "down")
  BY <1>1, EndedKeeps DEF QuietInv
<1>3. QED
  BY <1>1, <1>2 DEF QuietInv, QInv, Covered, Ended

LEMMA CrashQuiet ==
  ASSUME QuietInv, Crash, TypeOK'
  PROVE  QuietInv'
<1>1. /\ pc' = "down" /\ crashes' # 0 /\ versions' = <<live>> /\ op' = "none"
      /\ applied' = applied /\ live \in Version /\ Shaped(live)
  <2>1. crashes \in Nat /\ live \in Version /\ Shaped(live)
    BY VersionFacts DEF QuietInv, MInv, AllShaped, TypeOK
  <2>2. QED
    BY <2>1 DEF Crash
<1>2. live' = live /\ OwnerKeeps' /\ AllShaped' /\ AllAdmitted'
  BY <1>1, SingleVersion, SingleKeeps
<1>3. Progressed(pc, op, live)' /\ CopyKept' /\ RemovedAll' /\ MigrationPending'
  BY <1>1 DEF Progressed, CopyKept, RemovedAll, MigrationPending, InPass, Recorded, AfterActuator
<1>4. MigratedStaysUndeployed'
  BY <1>1, <1>2 DEF QuietInv, MInv, MigratedStaysUndeployed, IsMigrated, Deployed
<1>5. QED
  BY <1>1, <1>2, <1>3, <1>4 DEF QuietInv, MInv, QInv, Covered

LEMMA RestartQuiet ==
  ASSUME QuietInv, Restart, TypeOK'
  PROVE  QuietInv'
<1>1. /\ pc = "down" /\ pc' = "idle" /\ queued' = (live.exists /\ CreateAdmits(live))
      /\ UNCHANGED <<versions, mine, op, applied, crashes>>
  BY DEF Restart
<1>2. OwnerKeeps' /\ AllShaped' /\ AllAdmitted' /\ live' = live
  BY <1>1, UnchangedKeeps DEF QuietInv, MInv, QInv
<1>3. Progressed(pc, op, live)' /\ CopyKept' /\ RemovedAll'
  BY <1>1 DEF Progressed, CopyKept, RemovedAll, InPass, Recorded, AfterActuator
<1>4. MigrationPending'
  BY <1>1, <1>2 DEF MigrationPending, CreateAdmits, HasOperationAnnotation
<1>5. MigratedStaysUndeployed'
  BY <1>1, <1>2 DEF QuietInv, MInv, MigratedStaysUndeployed, IsMigrated, Deployed
<1>6. crashes' # 0
  BY <1>1 DEF QuietInv, QInv
<1>7. QED
  BY <1>1, <1>2, <1>3, <1>4, <1>5, <1>6 DEF QuietInv, MInv, QInv, Covered

LEMMA DeliverQuiet ==
  ASSUME QuietInv, Deliver, TypeOK'
  PROVE  QuietInv'
<1>1. /\ OwnerKeeps' /\ AllShaped' /\ AllAdmitted' /\ live' = live
      /\ live.exists /\ NoneAsked' /\ ~queued' => NoneAsked
  BY DeliverKeeps DEF QuietInv, MInv, QInv
<1>2. /\ queued' = (queued \/ Admits(versions[1], versions[2]))
      /\ Len(versions) > 1 /\ versions' = Tail(versions) /\ pc # "down"
      /\ UNCHANGED <<pc, mine, op, input, applied, crashes>>
  BY DEF Deliver
<1>3. Len(versions)' = Len(versions) - 1 /\ Len(versions) \in Nat /\ live = versions[Len(versions)]
  BY <1>2, DeliveredVersions, VersionFacts DEF QuietInv, MInv
<1>4. Progressed(pc, op, live)' /\ CopyKept' /\ RemovedAll' /\ MigratedStaysUndeployed'
  BY <1>1, <1>2 DEF QuietInv, MInv, Progressed, CopyKept, RemovedAll, MigratedStaysUndeployed,
     IsMigrated, Deployed
<1>5. MigrationPending'
  <2>1. SUFFICES ASSUME live.exists, live.ann = "migrate", ~queued', Len(versions)' = 1
                 PROVE  FALSE
    BY <1>1 DEF MigrationPending
  <2>2. Len(versions) = 2 /\ live = versions[2]
    <3>1. \A n \in Nat : n - 1 = 1 => n = 2
      OBVIOUS
    <3>2. Len(versions) = 2
      BY <1>3, <2>1, <3>1
    <3>3. QED
      BY <1>3, <3>2
  <2>3. Admits(versions[1], live)
    BY <2>1 DEF Admits, UpdateAdmits, CreateAdmits, HasOperationAnnotation
  <2>4. QED
    BY <1>2, <2>1, <2>2, <2>3
<1>6. ASSUME Covered' PROVE Serving'
  <2>1. Covered
    BY <1>1, <1>2, <1>6 DEF Covered
  <2>2. Serving
    BY <2>1 DEF QuietInv, QInv
  <2>3. AppliedAll => AppliedAll'
    BY <1>1, <1>2 DEF AppliedAll
  <2>4. QED
    BY <1>1, <1>2, <2>2, <2>3 DEF Serving
<1>7. QED
  BY <1>1, <1>2, <1>4, <1>5, <1>6 DEF QuietInv, MInv, QInv

\* A write of the owner: a creation, when the controller is settled, or a change.
Asked(w) ==
  /\ w \in Version /\ w.by = "owner" /\ Shaped(w) /\ OwnerPut(w)
  /\ w.exists => Admits(live, w)
  /\ w.fin <=> live.fin
  /\ IF live.exists THEN w.exists => Kept(live, w)
     ELSE Settled /\ w.opType = "none"

LEMMA OwnerAsks ==
  ASSUME TypeOK, AllShaped, Owner
  PROVE  \E w \in Version : Asked(w)
<1>0. live \in Version /\ Shaped(live) /\ live.ts + 1 \in Nat
  <2>1. live \in Version /\ Shaped(live)
    BY VersionFacts DEF AllShaped
  <2>2. QED
    BY <2>1 DEF Version
<1>1. CASE OwnerCreate
  <2>1. PICK a \in {"none", "reconcile", "wait-for-state"} : OwnerPut(Created(live.ts + 1, a))
    BY <1>1 DEF OwnerCreate
  <2> DEFINE w == Created(live.ts + 1, a)
  <2>2. w \in Version
    BY <1>0, CreatedType DEF Annotations
  <2>3. w.by = "owner" /\ w.exists /\ ~w.fin /\ w.opType = "none" /\ w.opState = "none"
    BY DEF Created, Absent
  <2> HIDE DEF w
  <2>4. ~live.exists /\ Settled
    BY <1>1 DEF OwnerCreate
  <2>5. Admits(live, w)
    BY <2>3, <2>4 DEF Admits, CreateAdmits, LastOperationNotSuccessful
  <2>6. Shaped(w)
    BY <2>3 DEF Shaped
  <2>7. Asked(w)
    BY <1>0, <2>1, <2>2, <2>3, <2>4, <2>5, <2>6 DEF Asked, Shaped, w
  <2>8. QED
    BY <2>2, <2>7
<1>2. CASE OwnerReconcile
  <2>1. PICK g \in {0, 1} : OwnerPut([live EXCEPT !.by = "owner", !.ts = @ + 1, !.gen = @ + g,
                                                  !.ann = "reconcile"])
    BY <1>2 DEF OwnerReconcile
  <2> DEFINE w == [live EXCEPT !.by = "owner", !.ts = @ + 1, !.gen = @ + g, !.ann = "reconcile"]
  <2>2. live.exists /\ live.ann \in {"none", "reconcile"} /\ live.opType # "Migrate"
    BY <1>2 DEF OwnerReconcile
  <2>3. /\ w \in Version /\ w.by = "owner" /\ w.exists /\ w.fin = live.fin /\ w.ann = "reconcile"
        /\ w.opType = live.opType /\ w.opState = live.opState /\ w.deleting = live.deleting
    <3>1. live.gen + g \in Nat
      BY <1>0 DEF Version
    <3>2. w \in Version
      BY <1>0, <3>1, OwnerWriteType DEF Annotations
    <3>3. QED
      BY <1>0, <2>2, <3>2 DEF Version
  <2>4. OwnerPut(w)
    BY <2>1
  <2> HIDE DEF w
  <2>5. Admits(live, w)
    BY <2>2, <2>3 DEF Admits, UpdateAdmits, HasOperationAnnotation
  <2>6. Shaped(w) /\ Kept(live, w)
    BY <2>2, <2>3 DEF Shaped, Kept
  <2>7. QED
    BY <2>2, <2>3, <2>4, <2>5, <2>6 DEF Asked
<1>3. CASE OwnerMigrate
  <2> DEFINE w == [live EXCEPT !.by = "owner", !.ts = @ + 1, !.ann = "migrate"]
  <2>1. live.exists /\ OwnerPut(w)
    BY <1>3 DEF OwnerMigrate
  <2>2. /\ w \in Version /\ w.by = "owner" /\ w.exists /\ w.fin = live.fin /\ w.ann = "migrate"
        /\ w.opType = live.opType /\ w.opState = live.opState /\ w.deleting = live.deleting
    BY <1>0, <2>1 DEF Version, Annotations
  <2> HIDE DEF w
  <2>3. Admits(live, w)
    BY <2>1, <2>2 DEF Admits, UpdateAdmits, HasOperationAnnotation
  <2>4. Shaped(w) /\ Kept(live, w)
    BY <2>1, <2>2 DEF Shaped, Kept
  <2>5. QED
    BY <2>1, <2>2, <2>3, <2>4 DEF Asked
<1>4. CASE OwnerRestore
  <2> DEFINE w == [live EXCEPT !.by = "owner", !.ts = @ + 1, !.ann = "restore"]
  <2>1. live.exists /\ OwnerPut(w) /\ live.ann = "wait-for-state"
    BY <1>4 DEF OwnerRestore
  <2>2. /\ w \in Version /\ w.by = "owner" /\ w.exists /\ w.fin = live.fin /\ w.ann = "restore"
        /\ w.opType = live.opType /\ w.opState = live.opState /\ w.deleting = live.deleting
    BY <1>0, <2>1 DEF Version, Annotations
  <2> HIDE DEF w
  <2>3. Admits(live, w)
    BY <2>1, <2>2 DEF Admits, UpdateAdmits, HasOperationAnnotation
  <2>4. Shaped(w) /\ Kept(live, w)
    BY <1>0, <2>1, <2>2 DEF Shaped, Kept
  <2>5. QED
    BY <2>1, <2>2, <2>3, <2>4 DEF Asked
<1>5. CASE OwnerDelete
  <2>1. live.exists
    BY <1>5 DEF OwnerDelete
  <2>2. CASE live.fin
    <3> DEFINE g == IF live.deleting THEN live.gen ELSE live.gen + 1
               w == [live EXCEPT !.by = "owner", !.ts = @ + 1, !.deleting = TRUE, !.gen = g]
    <3>1. OwnerPut(w)
      BY <1>5, <2>2 DEF OwnerDelete
    <3>2. /\ w \in Version /\ w.by = "owner" /\ w.exists /\ w.fin = live.fin /\ w.ann = live.ann
          /\ w.opType = live.opType /\ w.opState = live.opState /\ w.deleting
      <4>1. g \in Nat
        BY <1>0 DEF Version
      <4> HIDE DEF g
      <4>2. w \in Version
        BY <1>0, <4>1, OwnerDeleteType
      <4>3. QED
        BY <1>0, <2>1, <4>2 DEF Version
    <3> HIDE DEF w
    <3>3. Admits(live, w)
      BY <2>1, <3>2 DEF Admits, UpdateAdmits, StatusEqual
    <3>4. Shaped(w) /\ Kept(live, w)
      BY <1>0, <2>1, <3>2 DEF Shaped, Kept
    <3>5. QED
      BY <2>1, <2>2, <3>1, <3>2, <3>3, <3>4 DEF Asked
  <2>3. CASE ~live.fin
    <3> DEFINE w == Absent(live.ts + 1)
    <3>1. OwnerPut(w)
      BY <1>5, <2>3 DEF OwnerDelete
    <3>2. w \in Version
      BY <1>0, AbsentType
    <3>3. w.by = "owner" /\ ~w.exists /\ ~w.fin /\ w.ann = "none"
      BY DEF Absent
    <3> HIDE DEF w
    <3>4. Shaped(w)
      BY <3>3 DEF Shaped
    <3>5. QED
      BY <2>1, <2>3, <3>1, <3>2, <3>3, <3>4 DEF Asked
  <2>4. QED
    BY <2>2, <2>3
<1>6. QED
  BY <1>1, <1>2, <1>3, <1>4, <1>5 DEF Owner

LEMMA OwnerQuiet ==
  ASSUME QuietInv, Owner, TypeOK'
  PROVE  QuietInv'
<1>0. TypeOK /\ OwnerKeeps /\ AllShaped /\ AllAdmitted
  BY DEF QuietInv, MInv, QInv
<1>1. PICK w \in Version : Asked(w)
  BY <1>0, OwnerAsks
<1>2. /\ versions' = IF pc = "down" THEN <<w>> ELSE Append(versions, w)
      /\ UNCHANGED <<queued, pc, mine, op, input, applied, crashes>>
  BY <1>1 DEF Asked, OwnerPut
<1>3. /\ OwnerKeeps' /\ AllShaped' /\ AllAdmitted' /\ live' = w
      /\ pc # "down" => ~NoneAsked' /\ Len(versions)' # 1
  <2>1. CASE pc = "down"
    BY <1>1, <1>2, <2>1, SingleKeeps, SingleVersion DEF Asked
  <2>2. CASE pc # "down"
    <3>1. Follows(w)
      BY <1>1 DEF Asked, Follows, Settled
    <3>2. versions' = Append(versions, w)
      BY <1>2, <2>2
    <3>3. Len(versions)' # 1
      BY <1>0, <3>2, AppendedVersions, VersionFacts
    <3>4. QED
      BY <1>0, <1>1, <3>1, <3>2, <3>3, AppendKeeps, AppendedVersions DEF Asked
  <2>3. QED
    BY <2>1, <2>2
<1>4. Progressed(pc, op, live)' /\ CopyKept'
  <2>1. Progressed(pc, op, live) /\ CopyKept
    BY DEF QuietInv, MInv
  <2>2. pc \in InPass \cup {"strip"} /\ w.exists => live.exists /\ Kept(live, w)
    BY <1>1 DEF Asked, Settled, InPass
  <2>3. w.fin => live.fin
    BY <1>1 DEF Asked
  <2>4. Progressed(pc, op, w)
    BY <2>1, <2>2, <2>3 DEF Progressed, Kept, InPass
  <2>5. pc \in InPass /\ w.exists => Kept(mine, w)
    BY <2>1, <2>2, KeptTwice DEF CopyKept
  <2>6. QED
    BY <1>2, <1>3, <2>1, <2>2, <2>3, <2>4, <2>5 DEF CopyKept
<1>5. Deployed' = Deployed
  BY <1>2 DEF Deployed
<1>6. RemovedAll' /\ MigrationPending'
  BY <1>2, <1>3, <1>5 DEF QuietInv, MInv, RemovedAll, MigrationPending
<1>7. MigratedStaysUndeployed'
  <2>1. w.exists /\ IsMigrated(w) => live.exists /\ IsMigrated(live)
    BY <1>1 DEF Asked, IsMigrated, Kept
  <2>2. QED
    BY <1>3, <1>5, <2>1 DEF QuietInv, MInv, MigratedStaysUndeployed, IsMigrated
<1>8. crashes' = 0 => pc' # "down"
  BY <1>2 DEF QuietInv, QInv
<1>9. ~Covered'
  BY <1>2, <1>3, <1>8 DEF Covered
<1>10. QED
  BY <1>3, <1>4, <1>6, <1>7, <1>8, <1>9 DEF QuietInv, MInv, QInv

LEMMA StutterQuiet ==
  ASSUME QuietInv, UNCHANGED vars
  PROVE  QuietInv'
<1>1. /\ UNCHANGED <<versions, queued, pc, mine, op, input, applied, crashes>>
      /\ TypeOK' /\ Len(versions)' = Len(versions)
  BY DEF vars, QuietInv, MInv, TypeOK
<1>2. OwnerKeeps' /\ AllShaped' /\ AllAdmitted' /\ live' = live /\ (NoneAsked' <=> NoneAsked)
  BY <1>1, UnchangedKeeps DEF QuietInv, MInv, QInv
<1>3. Progressed(pc, op, live)' /\ CopyKept' /\ RemovedAll' /\ MigratedStaysUndeployed'
  BY <1>1, <1>2 DEF QuietInv, MInv, Progressed, CopyKept, RemovedAll, MigratedStaysUndeployed,
     IsMigrated, Deployed
<1>4. MigrationPending'
  BY <1>1, <1>2 DEF QuietInv, MInv, MigrationPending
<1>5. Covered' => Serving'
  BY <1>1, <1>2 DEF QuietInv, QInv, Covered, Serving, AppliedAll
<1>6. QED
  BY <1>1, <1>2, <1>3, <1>4, <1>5 DEF QuietInv, MInv, QInv

LEMMA InitQuiet == Init => QuietInv
<1>1. SUFFICES ASSUME Init PROVE QuietInv
  OBVIOUS
<1>2. Absent(0) \in Version /\ versions = <<Absent(0)>> /\ pc = "idle" /\ op = "none"
  BY <1>1, AbsentType DEF Init
<1>3. Len(versions) = 1 /\ versions[1] = Absent(0) /\ live = Absent(0)
  BY <1>2, SingletonFacts DEF live
<1>4. ~live.exists /\ Shaped(live)
  BY <1>3 DEF Absent, Shaped
<1>5. OwnerKeeps /\ AllShaped /\ AllAdmitted
  BY <1>3, <1>4 DEF OwnerKeeps, AllShaped, AllAdmitted
<1>6. Progressed(pc, op, live) /\ CopyKept /\ RemovedAll
  BY <1>2 DEF Progressed, CopyKept, RemovedAll, InPass, Recorded, AfterActuator
<1>7. TypeOK
  BY <1>1, InitType
<1>8. QED
  BY <1>2, <1>4, <1>5, <1>6, <1>7 DEF QuietInv, MInv, QInv, MigratedStaysUndeployed,
     MigrationPending, Covered

LEMMA QuietStep ==
  ASSUME ~StaleReads, QuietInv, [Next]_vars
  PROVE  QuietInv'
<1>1. TypeOK'
  BY TypeStep DEF QuietInv, MInv
<1>2. CASE Worker
  BY <1>1, <1>2, PickUpQuiet, StripAnnotationQuiet, ReconcileQuiet, AddFinalizersQuiet,
     ProcessingQuiet, ErrorQuiet, SuccessQuiet, RemoveFinalizersQuiet, RemoveAllFinalizersQuiet,
     RemoveAnnotationQuiet, ActuatorQuiet DEF Worker
<1>3. CASE Owner \/ Deliver \/ CallFails \/ ActuatorFails \/ Crash \/ Restart
  BY <1>1, <1>3, OwnerQuiet, DeliverQuiet, CallFailsQuiet, ActuatorQuiet, CrashQuiet, RestartQuiet
<1>4. CASE UNCHANGED vars
  BY <1>4, StutterQuiet
<1>5. QED
  BY <1>2, <1>3, <1>4 DEF Next

----------------------------------------------------------------------------
(* The finalizer.  A hasty owner is no danger to it when the cache lacks *)
(* nothing but the owner's writes, which leave the finalizer alone.      *)

\* When all that the cache lacks is the owner's, it has the stored finalizer.
OwnerKeepsFinalizer ==
  \A i \in 1 .. Len(versions) :
     (\A k \in i + 1 .. Len(versions) : versions[k].by = "owner")
     => (versions[i].fin <=> live.fin)

\* From its finalizer on, a pass that deploys has it.
DeployHeld == op \in Deploying /\ pc \in InPass \ {"addFinalizer"} => live.fin

Held == OwnerKeepsFinalizer /\ DeployHeld /\ NoOrphans

HeldInv == QuietInv /\ Held

LEMMA AppendKeepsFinalizer ==
  ASSUME TypeOK, OwnerKeepsFinalizer, NEW w \in Version, w.by = "owner" => (w.fin <=> live.fin),
         versions' = Append(versions, w)
  PROVE  OwnerKeepsFinalizer'
<1> DEFINE n == Len(versions)
<1>1. /\ live' = w /\ Len(versions)' = n + 1 /\ versions'[n + 1] = w
      /\ \A i \in 1 .. n : versions'[i] = versions[i]
      /\ n \in Nat \ {0}
  BY AppendedVersions, VersionFacts
<1>2. SUFFICES ASSUME NEW i \in 1 .. n + 1,
                      \A k \in i + 1 .. n + 1 : versions'[k].by = "owner"
               PROVE  versions'[i].fin <=> w.fin
  BY <1>1 DEF OwnerKeepsFinalizer
<1>3. CASE i = n + 1
  BY <1>1, <1>3
<1>4. CASE i # n + 1
  <2>1. i \in 1 .. n /\ versions'[i] = versions[i] /\ w.by = "owner"
    BY <1>1, <1>2, <1>4
  <2>2. \A k \in i + 1 .. n : versions[k].by = "owner"
    BY <1>1, <1>2, <2>1
  <2>3. QED
    BY <2>1, <2>2 DEF OwnerKeepsFinalizer
<1>5. QED
  BY <1>3, <1>4

LEMMA SingleKeepsFinalizer ==
  ASSUME NEW w \in Version, versions' = <<w>>
  PROVE  OwnerKeepsFinalizer'
<1>1. live' = w /\ Len(versions)' = 1 /\ versions'[1] = w
  BY SingleVersion
<1>2. QED
  BY <1>1 DEF OwnerKeepsFinalizer

LEMMA DeliverKeepsFinalizer ==
  ASSUME TypeOK, OwnerKeepsFinalizer, Deliver
  PROVE  OwnerKeepsFinalizer' /\ live' = live
<1> DEFINE n == Len(versions)
<1>1. /\ live' = live /\ Len(versions)' = n - 1
      /\ \A i \in 1 .. n - 1 : versions'[i] = versions[i + 1]
      /\ n \in Nat \ {0, 1}
  BY DeliveredVersions, VersionFacts DEF Deliver
<1>2. SUFFICES ASSUME NEW i \in 1 .. n - 1,
                      \A k \in i + 1 .. n - 1 : versions'[k].by = "owner"
               PROVE  versions'[i].fin <=> live.fin
  BY <1>1 DEF OwnerKeepsFinalizer
<1>3. i + 1 \in 1 .. n /\ versions'[i] = versions[i + 1]
  BY <1>1
<1>4. \A k \in (i + 1) + 1 .. n : versions[k].by = "owner"
  <2>1. SUFFICES ASSUME NEW k \in (i + 1) + 1 .. n PROVE versions[k].by = "owner"
    OBVIOUS
  <2>2. k - 1 \in i + 1 .. n - 1 /\ k - 1 \in 1 .. n - 1 /\ (k - 1) + 1 = k
    BY <1>1
  <2>3. versions'[k - 1] = versions[k]
    BY <1>1, <2>2
  <2>4. QED
    BY <1>2, <2>2, <2>3
<1>5. QED
  BY <1>1, <1>3, <1>4 DEF OwnerKeepsFinalizer

LEMMA UnchangedKeepsFinalizer ==
  ASSUME OwnerKeepsFinalizer, UNCHANGED versions
  PROVE  OwnerKeepsFinalizer' /\ live' = live
  BY DEF OwnerKeepsFinalizer, live

\* A write that has the finalizer, where it may be needed.
LEMMA WroteHeld ==
  ASSUME TypeOK, Held, NEW w, NEW next \in InPass \cup {"get", "idle"}, Wrote(w, next),
         w.fin \/ Deployed = {},
         w.fin \/ op \notin Deploying \/ next \notin InPass \ {"addFinalizer"}
  PROVE  Held'
<1>1. w \in Version /\ live' = w /\ Deployed' = Deployed
  BY DEF Wrote, Deployed
<1>2. OwnerKeepsFinalizer'
  <2>1. CASE UNCHANGED versions
    BY <2>1, UnchangedKeepsFinalizer DEF Held
  <2>2. CASE w.by # "owner" /\ versions' = Append(versions, w)
    BY <1>1, <2>2, AppendKeepsFinalizer DEF Held
  <2>3. QED
    BY <2>1, <2>2 DEF Wrote
<1>3. DeployHeld'
  BY <1>1 DEF DeployHeld, Wrote, InPass
<1>4. NoOrphans'
  BY <1>1 DEF NoOrphans
<1>5. QED
  BY <1>2, <1>3, <1>4 DEF Held

\* The pass has ended, and the stored finalizer is what it was.
LEMMA EndedHeld ==
  ASSUME Held, OwnerKeepsFinalizer', live'.fin <=> live.fin, op' = "none", applied' = applied
  PROVE  Held'
  BY DEF Held, DeployHeld, NoOrphans, Deployed, Deploying

\* A step that writes nothing and that keeps the operation.
LEMMA SameHeld ==
  ASSUME Held, UNCHANGED <<versions, op, applied>>, pc \in InPass \ {"addFinalizer"} \/ pc' \notin InPass
  PROVE  Held'
<1>1. OwnerKeepsFinalizer' /\ live' = live
  BY UnchangedKeepsFinalizer DEF Held
<1>2. QED
  BY <1>1 DEF Held, DeployHeld, NoOrphans, Deployed

LEMMA PassEndsHeld ==
  ASSUME Held, NEW failed, Ended(failed)
  PROVE  Held'
<1>1. OwnerKeepsFinalizer' /\ live' = live
  BY UnchangedKeepsFinalizer DEF Held, Ended
<1>2. QED
  BY <1>1, EndedHeld DEF Ended

LEMMA MetadataHeld ==
  ASSUME HeldInv, StripAnnotation \/ AddFinalizers \/ RemoveAnnotation
  PROVE  Held'
<1>0. TypeOK /\ Held /\ live \in Version
  BY VersionFacts DEF HeldInv, QuietInv, MInv
<1>1. SUFFICES ASSUME live.exists, AddFinalizers => fresh PROVE Held'
  <2>1. ~live.exists \/ (AddFinalizers /\ ~fresh) => EndPass(TRUE)
    BY DEF StripAnnotation, AddFinalizers, RemoveAnnotation
  <2>2. QED
    BY <1>0, <1>1, <2>1, EndPassEnds, PassEndsHeld
<1>2. CASE StripAnnotation
  <2>1. [live EXCEPT !.ann = "none"] \in Version
    BY <1>0 DEF Version, Annotations
  <2>2. PICK w \in Version : Wrote(w, "get") /\ AlmostSame([live EXCEPT !.ann = "none"], w)
    BY <1>0, <1>1, <1>2, <2>1, PatchWrites DEF StripAnnotation
  <2>3. w.fin <=> live.fin
    BY <1>0, <2>2 DEF AlmostSame, SameMetadata, Version
  <2>4. QED
    BY <1>0, <2>2, <2>3, WroteHeld DEF Held, NoOrphans, InPass
<1>3. CASE AddFinalizers
  <2>1. [live EXCEPT !.fin = TRUE] \in Version
    BY <1>0 DEF Version
  <2>2. PICK w \in Version : Wrote(w, "processing") /\ AlmostSame([live EXCEPT !.fin = TRUE], w)
    BY <1>0, <1>1, <1>3, <2>1, PatchWrites DEF AddFinalizers
  <2>3. w.fin
    BY <1>0, <2>2 DEF AlmostSame, SameMetadata, Version
  <2>4. QED
    BY <1>0, <2>2, <2>3, WroteHeld DEF InPass
<1>4. CASE RemoveAnnotation
  <2> DEFINE v == IF mine.ann = "none" THEN live ELSE [live EXCEPT !.ann = "none"]
  <2>1. v \in Version /\ (v.fin <=> live.fin)
    BY <1>0 DEF Version, Annotations
  <2> HIDE DEF v
  <2>2. Patch(v, "idle")
    BY <1>1, <1>4 DEF RemoveAnnotation, v
  <2>3. PICK w \in Version : Wrote(w, "idle") /\ AlmostSame(v, w)
    BY <1>0, <1>1, <2>1, <2>2, PatchWrites
  <2>4. w.fin <=> live.fin
    BY <2>1, <2>3 DEF AlmostSame, SameMetadata
  <2>5. QED
    BY <1>0, <2>3, <2>4, WroteHeld DEF Held, NoOrphans, InPass
<1>5. QED
  BY <1>2, <1>3, <1>4

\* A status patch has the finalizer of what is stored.
LEMMA StatusHeld ==
  ASSUME HeldInv, Processing \/ Success \/ Error
  PROVE  Held'
<1>0. TypeOK /\ Held /\ live \in Version /\ mine \in Version /\ op \in OpTypes
      /\ ErrorType(op) \in OpTypes
  BY VersionFacts, ErrorTypeType DEF HeldInv, QuietInv, MInv, TypeOK
<1>1. live.exists /\ pc \in InPass => mine.opType = live.opType /\ mine.opState = live.opState
  BY DEF HeldInv, QuietInv, MInv, CopyKept, Kept
<1>2. CASE Processing /\ live.exists
  <2> DEFINE w == [ProcessingCustom(live, mine, op) EXCEPT !.by = "status"]
  <2>1. StatusOf(live, w, op, "Processing")
    BY <1>0, <1>1, <1>2, StatusWritten DEF Processing, InPass
  <2>2. Wrote(w, "actuator")
    BY <1>0, <1>2, <2>1, StatusPatchWrites DEF Processing
  <2> HIDE DEF w
  <2>3. w.fin <=> live.fin
    BY <2>1 DEF StatusOf, SameMetadata
  <2>4. op \in Deploying => live.fin
    BY <1>0, <1>2 DEF Held, DeployHeld, Processing, InPass
  <2>5. QED
    BY <1>0, <2>2, <2>3, <2>4, WroteHeld DEF Held, NoOrphans, InPass
<1>3. CASE Success /\ live.exists
  <2> DEFINE w == [SuccessCustom(live, mine, op) EXCEPT !.by = "status"]
             next == AfterSuccess(op, live)
  <2>1. StatusOf(live, w, op, "Succeeded")
    BY <1>0, <1>1, <1>3, StatusWritten DEF Success, InPass
  <2>2. Wrote(w, next)
    BY <1>0, <1>3, <2>1, StatusPatchWrites DEF Success
  <2>3. next \in InPass \cup {"get", "idle"}
    BY DEF AfterSuccess, InPass
  <2> HIDE DEF w, next
  <2>4. w.fin <=> live.fin
    BY <2>1 DEF StatusOf, SameMetadata
  <2>5. op \in Deploying => live.fin
    BY <1>0, <1>3 DEF Held, DeployHeld, Success, InPass
  <2>6. QED
    BY <1>0, <2>2, <2>3, <2>4, <2>5, WroteHeld DEF Held, NoOrphans
<1>4. CASE Error
  <2>1. op' = "none" /\ applied' = applied
    BY <1>4 DEF Error, Finish
  <2>2. CASE UNCHANGED versions
    BY <1>0, <2>1, <2>2, UnchangedKeepsFinalizer, EndedHeld DEF Held
  <2>3. CASE ~UNCHANGED versions
    <3> DEFINE w == [ErrorCustom(live, mine, ErrorType(op)) EXCEPT !.by = "status"]
    <3>1. live.exists /\ versions' = Append(versions, w)
      BY <1>4, <2>3 DEF Error
    <3>2. StatusOf(live, w, ErrorType(op), "Error")
      BY <1>0, <1>1, <1>4, <3>1, StatusWritten DEF Error, InPass
    <3> HIDE DEF w
    <3>3. w \in Version /\ w.by = "status" /\ (w.fin <=> live.fin)
      BY <3>2 DEF StatusOf, SameMetadata
    <3>4. OwnerKeepsFinalizer' /\ live' = w
      BY <1>0, <3>1, <3>3, AppendKeepsFinalizer, AppendedVersions DEF Held
    <3>5. QED
      BY <1>0, <2>1, <3>3, <3>4, EndedHeld
  <2>4. QED
    BY <2>2, <2>3
<1>5. CASE (Processing \/ Success) /\ ~live.exists
  BY <1>0, <1>5, EndPassEnds, PassEndsHeld DEF Processing, Success
<1>6. QED
  BY <1>2, <1>3, <1>4, <1>5

\* The finalizer is removed by a pass that has removed every part.
LEMMA ReleaseHeld ==
  ASSUME HeldInv, RemoveFinalizers \/ RemoveAllFinalizers
  PROVE  Held'
<1>0. /\ TypeOK /\ Held /\ live \in Version /\ op \in Removing /\ Deployed = {}
      /\ op \notin Deploying
  <2>1. op \in Removing
    BY DEF HeldInv, QuietInv, MInv, Progressed, Removing, RemoveFinalizers, RemoveAllFinalizers
  <2>2. Deployed = {}
    BY <2>1 DEF HeldInv, QuietInv, MInv, RemovedAll, RemoveFinalizers, RemoveAllFinalizers,
       AfterActuator, Recorded, InPass
  <2>3. QED
    BY <2>1, <2>2, VersionFacts DEF HeldInv, QuietInv, MInv, Removing, Deploying
<1>1. \A v, next : v \in Version /\ live.exists /\ next \in InPass \cup {"get", "idle"} /\ Patch(v, next)
                => Held'
  BY <1>0, PatchWrites, WroteHeld
<1>2. WithoutFinalizer(live) \in Version
  BY <1>0, WithoutFinalizerType
<1>3. CASE RemoveFinalizers
  <2>1. CASE live.exists /\ fresh
    BY <1>1, <1>2, <1>3, <2>1 DEF RemoveFinalizers
  <2>2. CASE ~(live.exists /\ fresh)
    BY <1>0, <1>3, <2>2, EndPassEnds, PassEndsHeld DEF RemoveFinalizers
  <2>3. QED
    BY <2>1, <2>2
<1>4. CASE RemoveAllFinalizers
  <2>1. CASE live.exists
    BY <1>0, <1>1, <1>2, <1>4, <2>1 DEF RemoveAllFinalizers, InPass
  <2>2. CASE ~live.exists
    BY <1>0, <1>4, <2>2, SameHeld DEF RemoveAllFinalizers, InPass
  <2>3. QED
    BY <2>1, <2>2
<1>5. QED
  BY <1>3, <1>4

\* A pass that starts without adding the finalizer has read that it is there.
LEMMA ReconcileHeld ==
  ASSUME ~StaleReads, HeldInv, Reconcile
  PROVE  Held'
<1> DEFINE t == ComputeOperationType(cache)
           next == IF ~cache.exists \/ ShouldSkipOperation(t, cache) THEN "idle"
                   ELSE FirstCall(t, cache)
<1>1. Held /\ TypeOK
  BY DEF HeldInv, QuietInv, MInv
<1>2. CASE next = "idle"
  BY <1>1, <1>2, PassEndsHeld DEF Reconcile, Finish, Ended
<1>3. CASE next # "idle"
  <2>1. pc' = next /\ op' = t /\ UNCHANGED <<versions, applied>>
    BY <1>3 DEF Reconcile
  <2>2. next \in {"processing", "addFinalizer"}
        /\ (t \in Deploying /\ next = "processing" => cache.fin)
    BY <1>3 DEF FirstCall, Deploying
  <2>3. cache.fin <=> live.fin
    <3>1. Len(versions) \in Nat \ {0} /\ cache = versions[1]
      BY <1>1, VersionFacts
    <3>2. \A i \in 2 .. Len(versions) : versions[i].by = "owner"
      BY DEF Reconcile, CacheReadable
    <3>3. QED
      BY <1>1, <3>1, <3>2 DEF Held, OwnerKeepsFinalizer
  <2> HIDE DEF next, t
  <2>4. OwnerKeepsFinalizer' /\ live' = live /\ Deployed' = Deployed
    BY <1>1, <2>1, UnchangedKeepsFinalizer DEF Held, Deployed
  <2>5. QED
    BY <1>1, <2>1, <2>2, <2>3, <2>4 DEF Held, DeployHeld, NoOrphans
<1>4. QED
  BY <1>2, <1>3

LEMMA ActuatorHeld ==
  ASSUME HeldInv, ActuatorDone \/ ActuatorFails \/ \E p \in Parts : Apply(p) \/ Remove(p)
  PROVE  Held'
<1>0. Held /\ pc \in InPass \ {"addFinalizer"} /\ applied \in [Parts -> Nat]
  BY DEF HeldInv, QuietInv, MInv, TypeOK, ActuatorDone, ActuatorFails, Apply, Remove, InPass
<1>1. CASE ActuatorDone \/ ActuatorFails
  BY <1>0, <1>1, SameHeld DEF ActuatorDone, ActuatorFails
<1>2. CASE \E p \in Parts : Apply(p) \/ Remove(p)
  <2>1. PICK p \in Parts : Apply(p) \/ Remove(p)
    BY <1>2
  <2>2. OwnerKeepsFinalizer' /\ live' = live /\ DeployHeld'
    BY <1>0, <2>1, UnchangedKeepsFinalizer DEF Held, DeployHeld, Apply, Remove, pass
  <2>3. NoOrphans'
    <3>1. CASE Apply(p)
      BY <1>0, <2>2, <3>1 DEF Apply, Held, DeployHeld, NoOrphans
    <3>2. CASE Remove(p)
      <4>1. Deployed' \subseteq Deployed
        BY <1>0, <3>2 DEF Remove, Deployed
      <4>2. QED
        BY <1>0, <2>2, <4>1 DEF Held, NoOrphans
    <3>3. QED
      BY <2>1, <3>1, <3>2
  <2>4. QED
    BY <2>2, <2>3 DEF Held
<1>3. QED
  BY <1>1, <1>2

LEMMA OwnerHeld ==
  ASSUME HeldInv, Owner
  PROVE  Held'
<1>0. TypeOK /\ Held /\ AllShaped
  BY DEF HeldInv, QuietInv, MInv
<1>1. PICK w \in Version : Asked(w)
  BY <1>0, OwnerAsks
<1>2. /\ versions' = IF pc = "down" THEN <<w>> ELSE Append(versions, w)
      /\ UNCHANGED <<pc, op, applied>> /\ (w.fin <=> live.fin)
  BY <1>1 DEF Asked, OwnerPut
<1>3. OwnerKeepsFinalizer' /\ live' = w
  <2>1. CASE pc = "down"
    BY <1>2, <2>1, SingleKeepsFinalizer, SingleVersion
  <2>2. CASE pc # "down"
    BY <1>0, <1>2, <2>2, AppendKeepsFinalizer, AppendedVersions DEF Held
  <2>3. QED
    BY <2>1, <2>2
<1>4. QED
  BY <1>0, <1>2, <1>3 DEF Held, DeployHeld, NoOrphans, Deployed

LEMMA HeldStep ==
  ASSUME ~StaleReads, HeldInv, [Next]_vars
  PROVE  Held'
<1>0. TypeOK /\ Held /\ live \in Version
  BY VersionFacts DEF HeldInv, QuietInv, MInv
<1>1. CASE PickUp
  BY <1>0, <1>1, SameHeld DEF PickUp, InPass
<1>2. CASE Deliver
  BY <1>0, <1>2, DeliverKeepsFinalizer
  DEF Deliver, Held, DeployHeld, NoOrphans, Deployed
<1>3. CASE CallFails
  BY <1>0, <1>3, PassEndsHeld DEF CallFails, Finish, Ended
<1>4. CASE Crash
  <2>1. OwnerKeepsFinalizer' /\ live' = live
    BY <1>0, <1>4, SingleKeepsFinalizer, SingleVersion DEF Crash
  <2>2. QED
    BY <1>0, <1>4, <2>1, EndedHeld DEF Crash
<1>5. CASE Restart
  BY <1>0, <1>5, SameHeld DEF Restart, InPass
<1>6. CASE UNCHANGED vars
  BY <1>0, <1>6, UnchangedKeepsFinalizer DEF vars, Held, DeployHeld, NoOrphans, Deployed
<1>7. QED
  BY <1>1, <1>2, <1>3, <1>4, <1>5, <1>6, MetadataHeld, StatusHeld, ReleaseHeld, ReconcileHeld,
     ActuatorHeld, OwnerHeld DEF Next, Worker

LEMMA InitHeld == Init => Held
<1>1. SUFFICES ASSUME Init PROVE Held
  OBVIOUS
<1>2. versions = <<Absent(0)>> /\ Absent(0) \in Version /\ op = "none" /\ Deployed = {}
  BY <1>1, AbsentType DEF Init, Deployed
<1>3. Len(versions) = 1 /\ versions[1] = live
  BY <1>2, SingletonFacts DEF live
<1>4. QED
  BY <1>2, <1>3 DEF Held, OwnerKeepsFinalizer, DeployHeld, Deploying, NoOrphans

----------------------------------------------------------------------------
(* The theorems. *)

(***************************************************************************)
(* When the controller has its own writes in the cache, QuietInv is an     *)
(* invariant, for any parts and bounds and whatever the owner asks for.    *)
(***************************************************************************)
THEOREM Quiescence == ASSUME ~StaleReads PROVE Spec => []QuietInv
<1>1. QuietInv /\ [Next]_vars => QuietInv'
  BY QuietStep
<1>2. QED
  BY <1>1, InitQuiet, PTL DEF Spec

(***************************************************************************)
(* A resource that is recorded as migrated has nothing deployed and stays  *)
(* so (reconciler.go: migrate() and shouldSkipOperation).                  *)
(***************************************************************************)
THEOREM MigratedUndeployed == ASSUME ~StaleReads PROVE Spec => []MigratedStaysUndeployed
<1>1. QuietInv => MigratedStaysUndeployed
  BY DEF QuietInv, MInv
<1>2. QED
  BY <1>1, Quiescence, PTL

(***************************************************************************)
(* No migration is left half-way, crashes included (reconciler.go: the     *)
(* annotation is removed last, and a create event admits it).              *)
(***************************************************************************)
THEOREM MigrationDone == ASSUME ~StaleReads PROVE Spec => []QuietMeansMigrated
<1>1. QuietInv => QuietMeansMigrated
  <2>1. SUFFICES ASSUME QuietInv, Quiet, live.exists, live.opType = "Migrate"
                 PROVE  IsMigrated(live) /\ ~live.fin /\ live.ann = "none" /\ Deployed = {}
    BY DEF QuietMeansMigrated
  <2>2. pc = "idle" /\ Len(versions) = 1 /\ ~queued
    BY <2>1 DEF Quiet
  <2>3. Shaped(live)
    BY <2>1, VersionFacts DEF QuietInv, MInv, AllShaped
  <2>4. live.ann # "migrate"
    BY <2>1, <2>2 DEF QuietInv, MInv, MigrationPending, InPass
  <2>5. live.opState = "Succeeded" /\ ~live.fin /\ live.ann = "none"
    BY <2>1, <2>3, <2>4 DEF Shaped
  <2>6. QED
    BY <2>1, <2>5 DEF QuietInv, MInv, MigratedStaysUndeployed, IsMigrated
<1>2. QED
  BY <1>1, Quiescence, PTL

(***************************************************************************)
(* No request is lost without a crash: when nothing is left to do, every   *)
(* part comes from the owner's last write and the resource is ready (the   *)
(* predicates of the watch, the queue, and the reconciler's reads).        *)
(***************************************************************************)
THEOREM RequestsApplied == ASSUME ~StaleReads PROVE Spec => []QuietMeansApplied
<1>1. QuietInv => QuietMeansApplied
  <2>1. SUFFICES ASSUME QuietInv, Quiet, crashes = 0, live.exists, ~live.deleting,
                        live.opType # "Migrate", live.ann # "wait-for-state"
                 PROVE  CheckExtensionObject(live) /\ \A p \in Parts : applied[p] = live.ts
    BY DEF QuietMeansApplied
  <2>2. NoneAsked
    BY <2>1 DEF Quiet, NoneAsked
  <2>3. Covered
    BY <2>1, <2>2 DEF Covered, Quiet
  <2>4. QED
    BY <2>1, <2>3 DEF QuietInv, QInv, Serving, Quiet, AppliedAll
<1>2. QED
  BY <1>1, Quiescence, PTL

(***************************************************************************)
(* Under the same assumption a pass that deploys has its finalizer, and    *)
(* what it has read of it is still so: the owner's writes, hasty or not,   *)
(* leave the finalizer alone.                                              *)
(***************************************************************************)
THEOREM HeldInvariance == ASSUME ~StaleReads PROVE Spec => []HeldInv
<1>1. Init => HeldInv
  BY InitQuiet, InitHeld DEF HeldInv
<1>2. HeldInv /\ [Next]_vars => HeldInv'
  BY QuietStep, HeldStep DEF HeldInv
<1>3. QED
  BY <1>1, <1>2, PTL DEF Spec

(***************************************************************************)
(* Nothing of the logging stack is left behind even when the owner asks for*)
(* a migration while a pass deploys, provided that the cache has the       *)
(* controller's own writes: then a pass knows whether the finalizer that   *)
(* it relies on is there (reconciler.go: reconcile() and delete()).        *)
(***************************************************************************)
THEOREM NothingOrphanedInHaste == ASSUME ~StaleReads PROVE Spec => []NoOrphans
<1>1. HeldInv => NoOrphans
  BY DEF HeldInv, Held
<1>2. QED
  BY <1>1, HeldInvariance, PTL

(***************************************************************************)
(* So the controller implements LoggingPromise with a hasty owner, too.    *)
(***************************************************************************)
THEOREM PromiseKeptInHaste == ASSUME ~StaleReads PROVE Spec => KeepsPromise
<1>1. HeldInv /\ HeldInv' /\ [Next]_vars => [Promise!Next]_<<live.fin, Deployed>>
  BY StepPromised DEF HeldInv, Held, QuietInv, MInv
<1>2. QED
  BY <1>1, InitPromised, HeldInvariance, PTL DEF Spec, KeepsPromise, Promise!Spec

=============================================================================
