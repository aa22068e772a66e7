------------------------ MODULE LoggingFinalizerProofs ------------------------
(***************************************************************************)
(* The finalizer protocol of LoggingLifecycle, proved: nothing deployed is *)
(* ever left without the finalizer, and every step of the controller is    *)
(* one LoggingPromise allows.  Assumed of the environment: the owner asks  *)
(* for a migration only while the controller is quiet (~HastyOwner).       *)
(*                                                                         *)
(* The invariant says why a pass may trust a cache that lags behind: what  *)
(* the versions not seen yet can be (History), that a migration is never   *)
(* among them during a pass that deploys, and that the finalizer the pass  *)
(* read in a stale version is still stored.                                *)
(***************************************************************************)
EXTENDS LoggingLifecycleProofs

\* The operations during which call c is made.
OpFits(c, t) ==
  CASE c \in {"idle", "down", "strip", "get"} -> t = "none"
    [] c = "addFinalizer" -> t \in Deploying
    [] c \in {"processing", "actuator", "success", "error"} -> t \in Deploying \cup Removing
    [] c = "removeFinalizer" -> t = "Delete"
    [] c = "removeAllFinalizers" -> t = "Migrate"
    [] c = "removeAnnotation" -> t \in {"Migrate", "Restore"}

AfterRemoval == {"success", "removeFinalizer", "removeAllFinalizers", "removeAnnotation"}

(* What a lagging cache may still have to see. *)

MigrationNoticed == (pc = "idle" /\ ~queued) \/ Noticed(versions)

NoMigrationInPass == pc = "strip" \/ op \in Deploying => NeverMigrating(versions)

RemovingIsSafe ==
  op \in Removing =>
    AlwaysSafe(versions) /\ (op = "Migrate" => NeverAwaiting(versions))

VersionsInv ==
  History(versions) /\ MigrationNoticed /\ NoMigrationInPass /\ RemovingIsSafe

(* What a pass may rely on. *)

DeployGuarded == op \in Deploying /\ pc # "addFinalizer" => live.fin

RemovedFirst == op \in Removing /\ pc \in AfterRemoval => Deployed = {}

CopyKnowsFinalizer ==
  /\ pc \in {"actuator", "success", "error", "removeFinalizer", "removeAllFinalizers"}
       => (live.fin => mine.fin)
  /\ pc = "removeAnnotation" /\ op = "Migrate" => ~live.fin

FreshCopy ==
  pc = "addFinalizer" /\ fresh =>
    /\ versions = <<mine>>
    /\ mine.exists
    /\ op = ComputeOperationType(mine)
    /\ ~ShouldSkipOperation(op, mine)

PassInv ==
  /\ OpFits(pc, op)
  /\ DeployGuarded /\ RemovedFirst /\ CopyKnowsFinalizer /\ FreshCopy

IInv == TypeOK /\ VersionsInv /\ PassInv /\ NoOrphans

----------------------------------------------------------------------------
(* Steps that write nothing, as far as the versions are concerned. *)

LEMMA LiveIsNewest == live = Newest(versions) /\ cache = versions[1]
  BY DEF live, cache, Newest

LEMMA LiveIsProper ==
  ASSUME IInv
  PROVE  Proper(live) /\ live \in Version
  BY NewestIsProper, LiveIsNewest, VersionsType DEF IInv, VersionsInv

\* A pass knows of every migration its cache has not seen yet.
LEMMA PassNotices ==
  ASSUME IInv, pc # "idle" \/ queued
  PROVE  Noticed(versions)
  BY DEF IInv, VersionsInv, MigrationNoticed

LEMMA UnchangedVersions ==
  ASSUME IInv, UNCHANGED versions, op' \in {op, "none"}, pc' # "strip",
         Noticed(versions)
  PROVE  VersionsInv'
<1>1. op' = op \/ op' = "none"
  OBVIOUS
<1>2. "none" \notin Deploying \cup Removing
  BY DEF Deploying, Removing
<1> QED
  BY <1>1, <1>2 DEF IInv, VersionsInv, MigrationNoticed, NoMigrationInPass, RemovingIsSafe

LEMMA FinishPass ==
  ASSUME IInv, NEW failed, Finish(failed), UNCHANGED applied,
         live.fin => live'.fin \/ Deployed = {}
  PROVE  PassInv' /\ NoOrphans'
<1>1. pc' = "idle" /\ op' = "none"
  BY DEF Finish
<1>2. Deployed' = Deployed
  BY DEF Deployed
<1>3. NoOrphans'
  BY <1>2 DEF NoOrphans, IInv
<1>4. PassInv'
  BY <1>1 DEF PassInv, OpFits, DeployGuarded, RemovedFirst, CopyKnowsFinalizer,
     FreshCopy, Deploying, Removing, AfterRemoval
<1> QED
  BY <1>3, <1>4

LEMMA EndPassInv ==
  ASSUME IInv, NEW failed \in BOOLEAN, EndPass(failed), pc # "idle"
  PROVE  IInv'
<1>1. TypeOK'
  BY EndPassType DEF IInv
<1>2. live' = live /\ UNCHANGED <<versions, applied>> /\ Finish(failed)
  BY DEF EndPass, live
<1>3. VersionsInv'
  BY <1>2, UnchangedVersions, PassNotices DEF Finish
<1>4. PassInv' /\ NoOrphans'
  BY <1>2, FinishPass
<1> QED
  BY <1>1, <1>3, <1>4 DEF IInv

----------------------------------------------------------------------------
(* Steps of a pass that write w, and go on with the call next. *)

\* A write of a pass that keeps what the versions satisfy.
Harmless(w) ==
  /\ w \in Version
  /\ MayFollow(versions, w)
  /\ op \in Removing => Extends(live, w)
  /\ Migrating(w) => Migrating(live)
  /\ live.fin => w.fin \/ Deployed = {}

\* The pass may make the call next once w is stored.
MayProceed(w, next) ==
  /\ next \notin {"strip", "addFinalizer", "down"}
  /\ next # "idle" =>
       /\ OpFits(next, op)
       /\ op \in Deploying => w.fin
       /\ op \in Removing /\ next \in AfterRemoval => Deployed = {}
       /\ next = "removeAnnotation" /\ op = "Migrate" => ~w.fin

LEMMA AppendedLive ==
  ASSUME IInv, NEW w \in Version, versions' = Append(versions, w)
  PROVE  live' = w
  BY AppendFacts, VersionsType DEF IInv, live

LEMMA AppendedVersions ==
  ASSUME IInv, pc # "idle", NEW w, Harmless(w), versions' = Append(versions, w),
         op' \in {op, "none"}, pc' # "strip"
  PROVE  VersionsInv'
<1>1. versions \in Seq(Version) /\ versions # <<>> /\ w \in Version
  BY VersionsType DEF IInv, Harmless
<1>2. History(versions')
  BY <1>1, AppendHistory DEF IInv, VersionsInv, Harmless
<1>3. Noticed(versions')
  BY <1>1, AppendEach, PassNotices, LiveIsNewest DEF Harmless
<1>4. op \in Deploying => NeverMigrating(versions')
  BY <1>1, AppendEach, LiveIsNewest
  DEF Harmless, IInv, VersionsInv, NoMigrationInPass
<1>5. op \in Removing =>
        AlwaysSafe(versions') /\ (op = "Migrate" => NeverAwaiting(versions'))
  BY <1>1, AppendEach, LiveIsNewest
  DEF Harmless, Extends, IInv, VersionsInv, RemovingIsSafe
<1>6. "none" \notin Deploying \cup Removing
  BY DEF Deploying, Removing
<1> QED
  BY <1>2, <1>3, <1>4, <1>5, <1>6
  DEF VersionsInv, MigrationNoticed, NoMigrationInPass, RemovingIsSafe

LEMMA AnsweredInv ==
  ASSUME IInv, pc # "idle", NEW w, NEW next, Answered(w, next),
         MayProceed(w, next), live' = w, UNCHANGED applied,
         live.fin => w.fin \/ Deployed = {}
  PROVE  PassInv' /\ NoOrphans' /\ op' \in {op, "none"} /\ pc' # "strip"
<1>1. CASE \E failed \in BOOLEAN : Finish(failed)
  BY <1>1, FinishPass DEF Finish
<1>2. CASE next # "idle" /\ pc' = next /\ mine' = w /\ UNCHANGED op
  <2>1. Deployed' = Deployed
    BY DEF Deployed
  <2>2. NoOrphans'
    BY <2>1 DEF NoOrphans, IInv
  <2>3. pc' = next /\ op' = op /\ mine' = live' /\ next # "addFinalizer"
    BY <1>2 DEF MayProceed
  <2>4. OpFits(pc', op') /\ DeployGuarded' /\ RemovedFirst'
    BY <1>2, <2>1, <2>3 DEF MayProceed, DeployGuarded, RemovedFirst
  <2>5. CopyKnowsFinalizer' /\ FreshCopy'
    BY <1>2, <2>3 DEF MayProceed, CopyKnowsFinalizer, FreshCopy
  <2> QED
    BY <1>2, <2>2, <2>4, <2>5 DEF PassInv, MayProceed
<1> QED
  BY <1>1, <1>2 DEF Answered, Proceed

LEMMA PatchInv ==
  ASSUME IInv, pc # "idle", NEW v \in Version, NEW next \in PCs, Patch(v, next),
         Harmless([v EXCEPT !.by = "meta"]),
         MayProceed([v EXCEPT !.by = "meta"], next)
  PROVE  IInv'
<1> DEFINE w == [v EXCEPT !.by = "meta"]
<1>1. TypeOK'
  BY PatchType DEF IInv
<1>2. CASE v = live
  <2>1. Answered(live, next) /\ UNCHANGED <<versions, applied>> /\ live' = live
    BY <1>2 DEF Patch, live
  <2>2. MayProceed(live, next)
    <3>1. w.fin = live.fin
      BY <1>2 DEF Version
    <3> HIDE DEF w
    <3> QED
      BY <3>1 DEF MayProceed, w
  <2>3. PassInv' /\ NoOrphans' /\ op' \in {op, "none"} /\ pc' # "strip"
    BY <2>1, <2>2, AnsweredInv
  <2>4. VersionsInv'
    BY <2>1, <2>3, UnchangedVersions, PassNotices
  <2> QED
    BY <1>1, <2>3, <2>4 DEF IInv
<1>3. CASE v # live
  <2>1. Answered(w, next) /\ versions' = Append(versions, w) /\ UNCHANGED applied
    BY <1>3 DEF Patch
  <2>2. Harmless(w) /\ MayProceed(w, next) /\ w \in Version
    BY DEF Harmless
  <2> HIDE DEF w
  <2>3. live' = w
    BY <2>1, <2>2, AppendedLive
  <2>4. PassInv' /\ NoOrphans' /\ op' \in {op, "none"} /\ pc' # "strip"
    BY <2>1, <2>2, <2>3, AnsweredInv DEF Harmless
  <2>5. VersionsInv'
    BY <2>1, <2>2, <2>4, AppendedVersions
  <2> QED
    BY <1>1, <2>4, <2>5 DEF IInv
<1> QED
  BY <1>2, <1>3

LEMMA StatusPatchInv ==
  ASSUME IInv, pc # "idle", NEW v, NEW next \in PCs, StatusPatch(v, next),
         Harmless([v EXCEPT !.by = "status"]),
         MayProceed([v EXCEPT !.by = "status"], next)
  PROVE  IInv'
<1> DEFINE w == [v EXCEPT !.by = "status"]
<1>1. Harmless(w) /\ MayProceed(w, next) /\ w \in Version
  BY DEF Harmless
<1>2. TypeOK'
  BY <1>1, StatusPatchType DEF IInv
<1>3. Answered(w, next) /\ versions' = Append(versions, w) /\ UNCHANGED applied
  BY DEF StatusPatch
<1> HIDE DEF w
<1>4. live' = w
  BY <1>1, <1>3, AppendedLive
<1>5. PassInv' /\ NoOrphans' /\ op' \in {op, "none"} /\ pc' # "strip"
  BY <1>1, <1>3, <1>4, AnsweredInv DEF Harmless
<1>6. VersionsInv'
  BY <1>1, <1>3, <1>5, AppendedVersions
<1> QED
  BY <1>2, <1>5, <1>6 DEF IInv

----------------------------------------------------------------------------
(* The writes of a pass are harmless. *)

\* A status patch changes none of what the invariant speaks of but opType.
LEMMA StatusIsHarmless ==
  ASSUME IInv, NEW w, NEW t, live.exists, StatusPatched(live, t, w),
         t = "Migrate" => op = "Migrate"
  PROVE  Harmless(w)
<1>1. Proper(live) /\ live \in Version
  BY LiveIsProper
<1>2. /\ w \in Version /\ w.exists /\ w.fin = live.fin /\ w.ann = live.ann
      /\ w.deleting = live.deleting /\ w.opType \in {t, live.opType}
  BY DEF StatusPatched, SameMetadata
<1>3. Extends(live, w) /\ (Migrating(w) <=> Migrating(live))
  BY <1>2 DEF Extends, Safe, Awaiting, Migrating
<1>4. op = "Migrate" => Safe(live) /\ ~Awaiting(live)
  <2>1. Len(versions) \in 1 .. Len(versions)
    BY NonEmptyFacts, VersionsType DEF IInv
  <2> QED
    BY <2>1 DEF IInv, VersionsInv, RemovingIsSafe, AlwaysSafe, NeverAwaiting, Removing, live
<1>5. Proper(w)
  <2>1. CASE Retired(live)
    BY <1>1, <1>2, <2>1 DEF Proper, Safe, Awaiting, Migrating
  <2>2. CASE ~Retired(live)
    BY <1>1, <1>2, <1>4, <2>2 DEF Proper, Safe, Awaiting, Migrating, Retired
  <2> QED
    BY <2>1, <2>2
<1> QED
  BY <1>2, <1>3, <1>5, LiveIsNewest DEF Harmless, MayFollow

LEMMA StripAnnotationInv ==
  ASSUME IInv, StripAnnotation
  PROVE  IInv'
<1> DEFINE v == [live EXCEPT !.ann = "none"]
           w == [v EXCEPT !.by = "meta"]
<1>1. pc = "strip" /\ op = "none" /\ Proper(live) /\ live \in Version
  BY LiveIsProper DEF StripAnnotation, IInv, PassInv, OpFits
<1>2. CASE live.exists
  <2>1. Patch(v, "get")
    BY <1>2 DEF StripAnnotation
  <2>2. v \in Version /\ w \in Version
    BY <1>1 DEF Version, Annotations
  <2>3. /\ w.exists /\ w.fin = live.fin /\ w.deleting = live.deleting
        /\ w.ann = "none" /\ w.opType = live.opType
    BY <1>1, <1>2 DEF Version
  <2>4. ~Migrating(live)
    <3>1. Len(versions) \in 1 .. Len(versions)
      BY NonEmptyFacts, VersionsType DEF IInv
    <3> QED
      BY <1>1, <3>1 DEF IInv, VersionsInv, NoMigrationInPass, NeverMigrating, live
  <2> HIDE DEF v, w
  <2>5. Extends(live, w) /\ Proper(w) /\ ~Migrating(w)
    BY <1>1, <2>3, <2>4 DEF Extends, Proper, Safe, Awaiting, Migrating, Retired
  <2>6. Harmless(w)
    BY <2>2, <2>3, <2>5, LiveIsNewest DEF Harmless, MayFollow
  <2>7. MayProceed(w, "get")
    BY <1>1 DEF MayProceed, OpFits, Deploying, Removing
  <2>8. "get" \in PCs
    BY DEF PCs, Calls
  <2> QED
    BY <1>1, <2>1, <2>2, <2>6, <2>7, <2>8, PatchInv DEF w
<1>3. CASE ~live.exists
  BY <1>1, <1>3, EndPassInv DEF StripAnnotation
<1> QED
  BY <1>2, <1>3

\* With the optimistic lock, the copy of addFinalizer is the stored resource.
LEMMA FreshIsDeployable ==
  ASSUME IInv, pc = "addFinalizer", fresh
  PROVE  /\ Len(versions) = 1 /\ versions[1] = live
         /\ live.exists /\ ~Retired(live) /\ ~live.deleting
<1>1. mine \in Version /\ versions = <<mine>> /\ mine.exists /\ op \in Deploying
      /\ op = ComputeOperationType(mine) /\ ~ShouldSkipOperation(op, mine)
  BY VersionsType DEF IInv, PassInv, FreshCopy, OpFits, PassTypeOK
<1>2. Len(versions) = 1 /\ versions[1] = mine /\ live = mine
  BY <1>1, SingletonFacts DEF live
<1>3. mine.ann # "migrate" /\ ~mine.deleting
  BY <1>1 DEF ComputeOperationType, Deploying
<1>4. mine.opType # "Migrate"
  <2>1. CASE mine.ann = "restore"
    BY <1>2, <2>1, LiveIsProper DEF Proper, Retired, Awaiting
  <2>2. CASE mine.ann # "restore"
    BY <1>1, <1>3, <2>2
    DEF ComputeOperationType, Deploying, ShouldSkipOperation, IsMigrated
  <2> QED
    BY <2>1, <2>2
<1> QED
  BY <1>1, <1>2, <1>3, <1>4 DEF Retired

LEMMA AddFinalizersInv ==
  ASSUME IInv, AddFinalizers
  PROVE  IInv'
<1> DEFINE v == [live EXCEPT !.fin = TRUE]
           w == [v EXCEPT !.by = "meta"]
<1>1. pc = "addFinalizer" /\ op \in Deploying /\ Proper(live) /\ live \in Version
  BY LiveIsProper DEF AddFinalizers, IInv, PassInv, OpFits
<1>2. CASE live.exists /\ fresh
  <2>1. Patch(v, "processing")
    BY <1>2 DEF AddFinalizers
  <2>2. v \in Version /\ w \in Version
    BY <1>1 DEF Version
  <2>3. /\ w.exists /\ w.fin /\ w.deleting = live.deleting
        /\ w.ann = live.ann /\ w.opType = live.opType
    BY <1>1, <1>2 DEF Version
  <2>4. /\ Len(versions) = 1 /\ versions[1] = live
        /\ ~Retired(live) /\ ~live.deleting
    BY <1>1, <1>2, FreshIsDeployable
  <2>5. "processing" \in PCs /\ op \notin Removing
    BY <1>1 DEF PCs, Calls, Deploying, Removing
  <2> HIDE DEF v, w
  <2>6. Proper(w) /\ ~Migrating(w)
    BY <2>3, <2>4 DEF Proper, Retired, Migrating
  <2>7. Harmless(w)
    BY <2>2, <2>3, <2>4, <2>5, <2>6 DEF Harmless, MayFollow
  <2>8. MayProceed(w, "processing")
    BY <1>1, <2>3, <2>5 DEF MayProceed, OpFits, AfterRemoval
  <2> QED
    BY <1>1, <2>1, <2>2, <2>5, <2>7, <2>8, PatchInv DEF w
<1>3. CASE ~(live.exists /\ fresh)
  BY <1>1, <1>3, EndPassInv DEF AddFinalizers
<1> QED
  BY <1>2, <1>3

LEMMA ProcessingInv ==
  ASSUME IInv, Processing
  PROVE  IInv'
<1> DEFINE v == ProcessingCustom(live, mine, op)
           w == [v EXCEPT !.by = "status"]
<1>1. pc = "processing" /\ op \in Deploying \cup Removing /\ live \in Version
      /\ mine \in Version /\ op \in OpTypes
  BY VersionsType DEF Processing, IInv, PassInv, OpFits, PassTypeOK
<1>2. CASE live.exists
  <2>1. StatusPatch(v, "actuator")
    BY <1>2 DEF Processing
  <2>2. StatusPatched(live, op, w)
    BY <1>1, CustomPatches
  <2> HIDE DEF v, w
  <2>3. Harmless(w) /\ w.fin = live.fin
    BY <1>2, <2>2, StatusIsHarmless DEF StatusPatched, SameMetadata
  <2>4. MayProceed(w, "actuator")
    BY <1>1, <2>3 DEF MayProceed, OpFits, AfterRemoval, IInv, PassInv, DeployGuarded
  <2>5. "actuator" \in PCs
    BY DEF PCs
  <2> QED
    BY <1>1, <2>1, <2>3, <2>4, <2>5, StatusPatchInv DEF w
<1>3. CASE ~live.exists
  BY <1>1, <1>3, EndPassInv DEF Processing
<1> QED
  BY <1>2, <1>3

LEMMA SuccessInv ==
  ASSUME IInv, Success
  PROVE  IInv'
<1> DEFINE v == SuccessCustom(live, mine, op)
           w == [v EXCEPT !.by = "status"]
           next == AfterSuccess(op, live)
<1>1. pc = "success" /\ op \in Deploying \cup Removing /\ live \in Version
      /\ mine \in Version /\ op \in OpTypes
  BY VersionsType DEF Success, IInv, PassInv, OpFits, PassTypeOK
<1>2. CASE live.exists
  <2>1. StatusPatch(v, next)
    BY <1>2 DEF Success
  <2>2. StatusPatched(live, op, w)
    BY <1>1, CustomPatches
  <2>3. next \in PCs
    BY AfterSuccessType
  <2>4. /\ next \in {"idle", "removeFinalizer", "removeAllFinalizers", "removeAnnotation"}
        /\ next = "removeFinalizer" => op = "Delete"
        /\ next = "removeAllFinalizers" => op = "Migrate"
        /\ next = "removeAnnotation" => op = "Restore"
    BY DEF AfterSuccess
  <2> HIDE DEF v, w, next
  <2>5. Harmless(w) /\ w.fin = live.fin
    BY <1>2, <2>2, StatusIsHarmless DEF StatusPatched, SameMetadata
  <2>6. MayProceed(w, next)
    BY <1>1, <2>4, <2>5
    DEF MayProceed, OpFits, AfterRemoval, IInv, PassInv, DeployGuarded, RemovedFirst
  <2> QED
    BY <1>1, <2>1, <2>3, <2>5, <2>6, StatusPatchInv DEF w
<1>3. CASE ~live.exists
  BY <1>1, <1>3, EndPassInv DEF Success
<1> QED
  BY <1>2, <1>3

LEMMA ErrorInv ==
  ASSUME IInv, Error
  PROVE  IInv'
<1> DEFINE w == [ErrorCustom(live, mine, ErrorType(op)) EXCEPT !.by = "status"]
<1>1. pc = "error" /\ live \in Version /\ mine \in Version /\ op \in OpTypes
      /\ ErrorType(op) \in OpTypes /\ Finish(TRUE) /\ UNCHANGED applied
  BY VersionsType, ErrorTypeType DEF Error, IInv, PassTypeOK
<1>2. TypeOK'
  BY StatusPatchesType DEF StatusPatches, IInv
<1>3. pc' # "strip" /\ op' = "none"
  BY <1>1 DEF Finish
<1>4. CASE live.exists /\ versions' = Append(versions, w)
  <2>1. StatusPatched(live, ErrorType(op), w)
    BY <1>1, CustomPatches
  <2> HIDE DEF w
  <2>2. ErrorType(op) = "Migrate" => op = "Migrate"
    BY DEF ErrorType
  <2>3. Harmless(w)
    BY <1>4, <2>1, <2>2, StatusIsHarmless
  <2>4. VersionsInv'
    BY <1>1, <1>3, <1>4, <2>3, AppendedVersions
  <2>5. live' = w
    BY <1>4, <2>3, AppendedLive DEF Harmless
  <2> QED
    BY <1>1, <1>2, <2>3, <2>4, <2>5, FinishPass DEF Harmless, IInv
<1>5. CASE UNCHANGED versions
  <2>1. live' = live
    BY <1>5 DEF live
  <2>2. VersionsInv'
    BY <1>1, <1>3, <1>5, UnchangedVersions, PassNotices
  <2> QED
    BY <1>1, <1>2, <2>1, <2>2, FinishPass DEF IInv
<1> QED
  BY <1>4, <1>5 DEF Error

\* A removed finalizer leaves nothing that a stale version could deploy.
LEMMA RemovedIsHarmless ==
  ASSUME IInv, live.exists, op \in Removing, Deployed = {}
  PROVE  /\ Harmless([WithoutFinalizer(live) EXCEPT !.by = "meta"])
         /\ ~[WithoutFinalizer(live) EXCEPT !.by = "meta"].fin
<1> DEFINE w == [WithoutFinalizer(live) EXCEPT !.by = "meta"]
<1>1. Proper(live) /\ live \in Version
  BY LiveIsProper
<1>2. w \in Version
  <2>1. WithoutFinalizer(live) \in Version
    BY <1>1, WithoutFinalizerType
  <2> QED
    BY <2>1 DEF Version
<1>3. \/ /\ ~w.exists /\ ~w.fin /\ ~w.deleting /\ w.ann = "none" /\ w.opType = "none"
      \/ /\ w.exists /\ ~w.fin /\ ~w.deleting /\ ~live.deleting
         /\ w.ann = live.ann /\ w.opType = live.opType
  <2>1. CASE live.deleting
    <3>1. live.ts \in Nat
      BY <1>1 DEF Version
    <3> QED
      BY <2>1, <3>1 DEF WithoutFinalizer, Absent
  <2>2. CASE ~live.deleting
    BY <1>1, <2>2 DEF WithoutFinalizer, Version
  <2> QED
    BY <2>1, <2>2
<1> HIDE DEF w
<1>4. Proper(w) /\ Extends(live, w) /\ (Migrating(w) => Migrating(live))
  BY <1>1, <1>3 DEF Proper, Extends, Safe, Awaiting, Migrating, Retired
<1>5. AlwaysSafe(versions)
  BY DEF IInv, VersionsInv, RemovingIsSafe
<1>6. Harmless(w)
  BY <1>2, <1>4, <1>5, LiveIsNewest DEF Harmless, MayFollow
<1> QED
  BY <1>3, <1>6 DEF w

LEMMA RemoveFinalizersInv ==
  ASSUME IInv, RemoveFinalizers
  PROVE  IInv'
<1>1. pc = "removeFinalizer" /\ op = "Delete" /\ live \in Version /\ live.exists \in BOOLEAN
  BY LiveIsProper DEF RemoveFinalizers, IInv, PassInv, OpFits, Version
<1>2. op \in Removing /\ Deployed = {}
  BY <1>1 DEF Removing, IInv, PassInv, RemovedFirst, AfterRemoval
<1>3. CASE live.exists /\ fresh
  <2> DEFINE v == WithoutFinalizer(live)
             w == [v EXCEPT !.by = "meta"]
  <2>1. Patch(v, "idle") /\ v \in Version
    BY <1>1, <1>3, WithoutFinalizerType DEF RemoveFinalizers
  <2>2. Harmless(w)
    BY <1>2, <1>3, RemovedIsHarmless
  <2>3. MayProceed(w, "idle") /\ "idle" \in PCs
    BY DEF MayProceed, PCs
  <2> HIDE DEF v
  <2> QED
    BY <1>1, <2>1, <2>2, <2>3, PatchInv
<1>4. CASE ~(live.exists /\ fresh)
  BY <1>1, <1>4, EndPassInv DEF RemoveFinalizers
<1> QED
  BY <1>3, <1>4

\* A patch that changes nothing is as good as no patch.
LEMMA SameIsHarmless ==
  ASSUME IInv, live.exists
  PROVE  /\ Harmless([live EXCEPT !.by = "meta"])
         /\ [live EXCEPT !.by = "meta"].fin = live.fin
<1> DEFINE w == [live EXCEPT !.by = "meta"]
<1>1. Proper(live) /\ live \in Version
  BY LiveIsProper
<1>2. w \in Version /\ w.exists /\ w.fin = live.fin /\ w.deleting = live.deleting
      /\ w.ann = live.ann /\ w.opType = live.opType
  BY <1>1 DEF Version
<1> HIDE DEF w
<1>3. Proper(w) /\ Extends(live, w) /\ (Migrating(w) => Migrating(live))
  BY <1>1, <1>2 DEF Proper, Extends, Safe, Awaiting, Migrating, Retired
<1>4. Harmless(w)
  BY <1>2, <1>3, LiveIsNewest DEF Harmless, MayFollow
<1> QED
  BY <1>2, <1>4 DEF w

LEMMA RemoveAllFinalizersInv ==
  ASSUME IInv, RemoveAllFinalizers
  PROVE  IInv'
<1>1. pc = "removeAllFinalizers" /\ op = "Migrate" /\ live \in Version
  BY LiveIsProper DEF RemoveAllFinalizers, IInv, PassInv, OpFits
<1>2. op \in Removing /\ op \notin Deploying /\ Deployed = {}
  BY <1>1 DEF Removing, Deploying, IInv, PassInv, RemovedFirst, AfterRemoval
<1>3. "removeAnnotation" \in PCs /\ OpFits("removeAnnotation", op)
  BY <1>1 DEF PCs, Calls, OpFits
<1>4. CASE live.exists /\ mine.fin
  <2> DEFINE v == WithoutFinalizer(live)
             w == [v EXCEPT !.by = "meta"]
  <2>1. Patch(v, "removeAnnotation") /\ v \in Version
    BY <1>1, <1>4, WithoutFinalizerType DEF RemoveAllFinalizers
  <2>2. Harmless(w) /\ ~w.fin
    BY <1>2, <1>4, RemovedIsHarmless
  <2>3. MayProceed(w, "removeAnnotation")
    BY <1>2, <1>3, <2>2 DEF MayProceed
  <2> HIDE DEF v
  <2> QED
    BY <1>1, <1>3, <2>1, <2>2, <2>3, PatchInv
<1>5. CASE live.exists /\ ~mine.fin
  <2> DEFINE w == [live EXCEPT !.by = "meta"]
  <2>1. Patch(live, "removeAnnotation")
    BY <1>5 DEF RemoveAllFinalizers
  <2>2. ~live.fin
    BY <1>1, <1>5 DEF IInv, PassInv, CopyKnowsFinalizer
  <2>3. Harmless(w) /\ ~w.fin
    BY <1>5, <2>2, SameIsHarmless
  <2>4. MayProceed(w, "removeAnnotation")
    BY <1>2, <1>3, <2>3 DEF MayProceed
  <2> QED
    BY <1>1, <1>3, <2>1, <2>3, <2>4, PatchInv
<1>6. CASE ~live.exists
  <2>1. pc' = "removeAnnotation"
        /\ UNCHANGED <<versions, queued, mine, fresh, op, input, applied, fails, crashes>>
    BY <1>6 DEF RemoveAllFinalizers
  <2>2. live' = live /\ Deployed' = Deployed
    BY <2>1 DEF live, Deployed
  <2>3. ~live.fin
    BY <1>6, LiveIsProper DEF Proper
  <2>4. TypeOK'
    BY MetaPatchesType DEF MetaPatches, IInv
  <2>5. VersionsInv'
    BY <1>1, <2>1, UnchangedVersions, PassNotices
  <2>6. PassInv' /\ NoOrphans'
    BY <1>1, <1>2, <1>3, <2>1, <2>2, <2>3
    DEF PassInv, DeployGuarded, RemovedFirst, CopyKnowsFinalizer, FreshCopy, NoOrphans
  <2> QED
    BY <2>4, <2>5, <2>6 DEF IInv
<1> QED
  BY <1>4, <1>5, <1>6

LEMMA RemoveAnnotationInv ==
  ASSUME IInv, RemoveAnnotation
  PROVE  IInv'
<1> DEFINE v == [live EXCEPT !.ann = "none"]
           w == [v EXCEPT !.by = "meta"]
<1>1. pc = "removeAnnotation" /\ op \in {"Migrate", "Restore"} /\ Proper(live)
      /\ live \in Version
  BY LiveIsProper DEF RemoveAnnotation, IInv, PassInv, OpFits
<1>2. "idle" \in PCs /\ \A x : MayProceed(x, "idle")
  BY DEF PCs, MayProceed
<1>3. CASE live.exists /\ mine.ann = "none"
  <2>1. Patch(live, "idle")
    BY <1>3 DEF RemoveAnnotation
  <2> QED
    BY <1>1, <1>2, <1>3, <2>1, SameIsHarmless, PatchInv
<1>4. CASE live.exists /\ mine.ann # "none"
  <2>1. Patch(v, "idle")
    BY <1>4 DEF RemoveAnnotation
  <2>2. v \in Version /\ w \in Version
    BY <1>1 DEF Version, Annotations
  <2>3. /\ w.exists /\ w.fin = live.fin /\ w.deleting = live.deleting
        /\ w.ann = "none" /\ w.opType = live.opType
    BY <1>1, <1>4 DEF Version
  <2>4. Migrating(live) => ~live.fin
    <3>1. CASE op = "Migrate"
      BY <1>1, <3>1 DEF IInv, PassInv, CopyKnowsFinalizer
    <3>2. CASE op = "Restore"
      <4>1. Len(versions) \in 1 .. Len(versions)
        BY NonEmptyFacts, VersionsType DEF IInv
      <4> QED
        BY <3>2, <4>1
        DEF IInv, VersionsInv, NoMigrationInPass, NeverMigrating, Deploying, live
    <3> QED
      BY <1>1, <3>1, <3>2
  <2> HIDE DEF v, w
  <2>5. Extends(live, w) /\ Proper(w) /\ ~Migrating(w)
    BY <1>1, <2>3, <2>4 DEF Extends, Proper, Safe, Awaiting, Migrating, Retired
  <2>6. Harmless(w)
    BY <2>2, <2>3, <2>5, LiveIsNewest DEF Harmless, MayFollow
  <2> QED
    BY <1>1, <1>2, <2>1, <2>2, <2>6, PatchInv DEF w
<1>5. CASE ~live.exists
  BY <1>1, <1>5, EndPassInv DEF RemoveAnnotation
<1> QED
  BY <1>3, <1>4, <1>5

----------------------------------------------------------------------------
(* The steps that start a pass. *)

LEMMA PickUpInv ==
  ASSUME IInv, PickUp
  PROVE  IInv'
<1>1. TypeOK'
  BY ReadingType DEF IInv
<1>2. /\ pc = "idle" /\ queued /\ op = "none" /\ op' = op
      /\ pc' \in {"idle", "strip", "get"}
      /\ pc' = "strip" => cache.ann = "reconcile"
      /\ UNCHANGED <<versions, applied>>
  BY DEF PickUp, IInv, PassInv, OpFits
<1>3. live' = live /\ Deployed' = Deployed
  BY <1>2 DEF live, Deployed
<1>4. Noticed(versions)
  BY <1>2, PassNotices
<1>5. pc' = "strip" => NeverMigrating(versions)
  BY <1>2, <1>4, LiveIsNewest DEF Noticed, Migrating
<1>6. op \notin Deploying /\ op \notin Removing
  BY <1>2 DEF Deploying, Removing
<1>7. VersionsInv'
  BY <1>2, <1>4, <1>5, <1>6
  DEF VersionsInv, IInv, MigrationNoticed, NoMigrationInPass, RemovingIsSafe
<1>8. PassInv' /\ NoOrphans'
  BY <1>2, <1>3, <1>6
  DEF IInv, PassInv, OpFits, DeployGuarded, RemovedFirst, CopyKnowsFinalizer, FreshCopy, NoOrphans
<1> QED
  BY <1>1, <1>7, <1>8 DEF IInv

\* A pass removes only for a resource that is safe from now on.
LEMMA RemovingStartsSafe ==
  ASSUME IInv, ComputeOperationType(cache) \in Removing
  PROVE  /\ AlwaysSafe(versions)
         /\ ComputeOperationType(cache) = "Migrate" => NeverAwaiting(versions)
<1>1. 1 \in 1 .. Len(versions) /\ cache = versions[1] /\ Len(versions) \in Nat
  BY NonEmptyFacts, VersionsType DEF IInv, cache
<1>2. \A j \in 1 .. Len(versions) : 1 <= j
  BY <1>1
<1>3. /\ Retired(cache) \/ cache.deleting
      /\ ComputeOperationType(cache) = "Migrate" => Retired(cache)
  BY DEF ComputeOperationType, Removing, Retired
<1> QED
  BY <1>1, <1>2, <1>3
  DEF IInv, VersionsInv, History, RetiredForGood, AlwaysSafe, NeverAwaiting

\* A pass that deploys has noticed every migration, and reads a true finalizer.
LEMMA DeployingStartsGuarded ==
  ASSUME IInv, pc = "get", ComputeOperationType(cache) \in Deploying
  PROVE  NeverMigrating(versions) /\ (cache.fin => live.fin)
<1>1. 1 \in 1 .. Len(versions) /\ cache = versions[1]
  BY NonEmptyFacts, VersionsType DEF IInv, cache
<1>2. ~Migrating(cache) /\ ~cache.deleting
  BY DEF ComputeOperationType, Deploying, Migrating
<1>3. NeverMigrating(versions)
  BY <1>1, <1>2, PassNotices DEF Noticed
<1>4. cache.fin => live.fin
  BY <1>1, <1>2, LiveIsNewest DEF IInv, VersionsInv, History, StaleIsGuarded, Safe
<1> QED
  BY <1>3, <1>4

LEMMA ReconcileInv ==
  ASSUME IInv, Reconcile
  PROVE  IInv'
<1> DEFINE t == ComputeOperationType(cache)
           next == IF ~cache.exists \/ ShouldSkipOperation(t, cache) THEN "idle"
                   ELSE FirstCall(t, cache)
<1>1. TypeOK'
  BY ReadingType DEF IInv
<1>2. pc = "get" /\ UNCHANGED <<versions, applied, fails, crashes>>
  BY DEF Reconcile
<1>3. live' = live /\ Deployed' = Deployed
  BY <1>2 DEF live, Deployed
<1>4. Noticed(versions)
  BY <1>2, PassNotices
<1>5. CASE next = "idle"
  <2>1. Finish(FALSE)
    BY <1>5 DEF Reconcile
  <2>2. VersionsInv'
    BY <1>2, <1>4, <2>1, UnchangedVersions DEF Finish
  <2> QED
    BY <1>1, <1>2, <1>3, <2>1, <2>2, FinishPass DEF IInv
<1>6. CASE next # "idle"
  <2>1. pc' = next /\ mine' = cache /\ fresh' = (Len(versions) = 1) /\ op' = t
    BY <1>6 DEF Reconcile
  <2>2. /\ cache.exists /\ ~ShouldSkipOperation(t, cache)
        /\ next \in {"processing", "addFinalizer"}
        /\ next = "addFinalizer" => t \notin Removing
        /\ next = "processing" => cache.fin \/ t = "Migrate"
    BY <1>6 DEF FirstCall, Removing
  <2>3. t \in Deploying \cup Removing
    <3>1. cache \in Version
      BY VersionsType DEF IInv
    <3> QED
      BY <3>1 DEF ComputeOperationType, Deploying, Removing, Version, OpTypes
  <2>4. "Migrate" \notin Deploying /\ Deploying \cap Removing = {}
    BY DEF Deploying, Removing
  <2>5. t \in Removing =>
          AlwaysSafe(versions) /\ (t = "Migrate" => NeverAwaiting(versions))
    BY RemovingStartsSafe
  <2>6. t \in Deploying => NeverMigrating(versions) /\ (cache.fin => live.fin)
    BY <1>2, DeployingStartsGuarded
  <2> HIDE DEF next
  <2>7. VersionsInv'
    <3>1. pc' # "strip"
      BY <2>1, <2>2
    <3> HIDE DEF t
    <3> QED
      BY <1>2, <1>4, <2>1, <2>4, <2>5, <2>6, <3>1
      DEF IInv, VersionsInv, MigrationNoticed, NoMigrationInPass, RemovingIsSafe
  <2>8. FreshCopy'
    <3>1. SUFFICES ASSUME Len(versions) = 1
                   PROVE  versions = <<cache>>
      BY <1>2, <2>1, <2>2 DEF FreshCopy
    <3>2. versions \in Seq(Version)
      BY VersionsType DEF IInv
    <3> QED
      BY <3>1, <3>2 DEF cache
  <2>9. OpFits(pc', op')
    <3> HIDE DEF t
    <3> QED
      BY <2>1, <2>2, <2>3 DEF OpFits
  <2>10. DeployGuarded' /\ RemovedFirst' /\ CopyKnowsFinalizer'
    <3> HIDE DEF t
    <3> QED
      BY <1>3, <2>1, <2>2, <2>4, <2>6
      DEF DeployGuarded, RemovedFirst, CopyKnowsFinalizer, AfterRemoval
  <2>11. NoOrphans'
    BY <1>3 DEF NoOrphans, IInv
  <2> QED
    BY <1>1, <2>7, <2>8, <2>9, <2>10, <2>11 DEF IInv, PassInv
<1> QED
  BY <1>5, <1>6

----------------------------------------------------------------------------
(* The owner's writes, which the pass does not know of. *)

LEMMA OwnerPutInv ==
  ASSUME IInv, NEW w \in Version, OwnerPut(w), Proper(w), w.fin = live.fin,
         Extends(live, w) \/ (Settled /\ ~live.exists),
         Migrating(w) => Migrating(live) \/ Quiet
  PROVE  IInv'
<1>1. TypeOK'
  BY OwnerPutType DEF IInv
<1>2. UNCHANGED <<queued, pc, mine, op, applied>> /\ ~fresh'
  BY DEF OwnerPut
<1>3. /\ versions \in Seq(Version) /\ versions # <<>> /\ live \in Version
      /\ Proper(live) /\ live = Newest(versions)
  BY VersionsType, LiveIsProper, LiveIsNewest DEF IInv
<1>4. Settled => op \notin Deploying /\ op \notin Removing /\ pc # "strip"
  BY DEF Settled, IInv, PassInv, OpFits, Deploying, Removing
<1>5. VersionsInv' /\ live' = w
  <2>1. CASE pc = "down"
    <3>1. versions' = <<w>>
      BY <2>1 DEF OwnerPut
    <3>2. History(versions') /\ Noticed(versions')
      BY <3>1, SingletonHistory
    <3>3. op \notin Deploying /\ op \notin Removing
      BY <2>1 DEF IInv, PassInv, OpFits, Deploying, Removing
    <3>4. live' = w
      BY <3>1, SingletonFacts DEF live
    <3> QED
      BY <1>2, <2>1, <3>2, <3>3, <3>4
      DEF VersionsInv, MigrationNoticed, NoMigrationInPass, RemovingIsSafe
  <2>2. CASE pc # "down"
    <3>1. versions' = Append(versions, w)
      BY <2>2 DEF OwnerPut
    <3>2. live' = w
      BY <3>1, AppendedLive
    <3>3. MayFollow(versions, w)
      <4>1. \/ Extends(live, w)
            \/ Len(versions) = 1 /\ ~Retired(versions[1]) /\ ~versions[1].deleting
        BY <1>3 DEF Settled, Proper, live
      <4>2. Migrating(w) => Migrating(live) \/ Len(versions) = 1
        BY DEF Quiet
      <4> QED
        BY <1>3, <4>1, <4>2 DEF MayFollow
    <3>4. History(versions')
      BY <1>3, <3>1, <3>3, AppendHistory DEF IInv, VersionsInv
    <3>5. MigrationNoticed'
      <4>1. CASE pc = "idle" /\ ~queued
        BY <1>2, <4>1 DEF MigrationNoticed
      <4>2. CASE ~(pc = "idle" /\ ~queued)
        <5>1. Noticed(versions) /\ (Migrating(w) => Migrating(live))
          BY <4>2, PassNotices DEF Quiet
        <5> QED
          BY <1>3, <3>1, <5>1, AppendEach DEF MigrationNoticed
      <4> QED
        BY <4>1, <4>2
    <3>6. NoMigrationInPass'
      <4>1. CASE pc = "strip" \/ op \in Deploying
        <5>1. NeverMigrating(versions) /\ (Migrating(w) => Migrating(live))
          BY <1>4, <4>1 DEF IInv, VersionsInv, NoMigrationInPass, Quiet, Settled
        <5> QED
          BY <1>3, <3>1, <5>1, AppendEach DEF NoMigrationInPass
      <4>2. CASE ~(pc = "strip" \/ op \in Deploying)
        BY <1>2, <4>2 DEF NoMigrationInPass
      <4> QED
        BY <4>1, <4>2
    <3>7. RemovingIsSafe'
      <4>1. CASE op \in Removing
        <5>1. Extends(live, w)
          BY <1>4, <4>1
        <5> QED
          BY <1>2, <1>3, <3>1, <4>1, <5>1, AppendEach
          DEF RemovingIsSafe, Extends, IInv, VersionsInv
      <4>2. CASE op \notin Removing
        BY <1>2, <4>2 DEF RemovingIsSafe
      <4> QED
        BY <4>1, <4>2
    <3> QED
      BY <3>2, <3>4, <3>5, <3>6, <3>7 DEF VersionsInv
  <2> QED
    BY <2>1, <2>2
<1>6. Deployed' = Deployed
  BY <1>2 DEF Deployed
<1>7. PassInv' /\ NoOrphans'
  BY <1>2, <1>5, <1>6
  DEF IInv, PassInv, DeployGuarded, RemovedFirst, CopyKnowsFinalizer, FreshCopy, NoOrphans
<1> QED
  BY <1>1, <1>5, <1>7 DEF IInv

LEMMA OwnerInv ==
  ASSUME IInv, Owner, ~HastyOwner
  PROVE  IInv'
<1>1. live \in Version /\ Proper(live)
  BY LiveIsProper
<1>2. live.ts \in Nat /\ live.ts + 1 \in Nat /\ live.gen \in Nat
  BY <1>1 DEF Version
<1>3. {"none", "reconcile", "migrate", "restore", "wait-for-state"} \subseteq Annotations
  BY DEF Annotations
<1>4. CASE OwnerCreate
  <2>1. PICK a \in {"none", "reconcile", "wait-for-state"} :
           OwnerPut(Created(live.ts + 1, a))
    BY <1>4 DEF OwnerCreate
  <2> DEFINE w == Created(live.ts + 1, a)
  <2>2. w \in Version
    BY <1>2, <1>3, <2>1, CreatedType
  <2>3. w.exists /\ ~w.fin /\ ~w.deleting /\ w.ann = a /\ w.opType = "none"
    BY <1>2, <2>1 DEF Created, Absent
  <2>4. ~live.fin /\ ~live.exists /\ Settled
    BY <1>1, <1>4 DEF OwnerCreate, Proper
  <2>5. w.fin = live.fin
    BY <1>1, <2>2, <2>3, <2>4 DEF Version
  <2> HIDE DEF w
  <2>6. Proper(w) /\ ~Migrating(w)
    BY <2>1, <2>3 DEF Proper, Safe, Retired, Migrating
  <2> QED
    BY <2>1, <2>2, <2>4, <2>5, <2>6, OwnerPutInv DEF w
<1>5. CASE OwnerReconcile
  <2>1. PICK g \in {0, 1} :
           OwnerPut([live EXCEPT !.by = "owner", !.ts = @ + 1, !.gen = @ + g,
                                 !.ann = "reconcile"])
    BY <1>5 DEF OwnerReconcile
  <2> DEFINE w == [live EXCEPT !.by = "owner", !.ts = @ + 1, !.gen = @ + g,
                               !.ann = "reconcile"]
  <2>2. live.gen + g \in Nat
    BY <1>2, <2>1
  <2>3. w \in Version
    BY <1>1, <1>2, <1>3, <2>2, OwnerWriteType
  <2>4. /\ w.exists = live.exists /\ w.fin = live.fin /\ w.deleting = live.deleting
        /\ w.ann = "reconcile" /\ w.opType = live.opType
    BY <1>1 DEF Version
  <2>5. live.exists /\ ~live.deleting /\ live.ann # "migrate" /\ live.opType # "Migrate"
    BY <1>5 DEF OwnerReconcile
  <2> HIDE DEF w
  <2>6. Proper(w) /\ Extends(live, w) /\ ~Migrating(w)
    BY <2>4, <2>5 DEF Proper, Extends, Safe, Retired, Migrating, Awaiting
  <2> QED
    BY <2>1, <2>3, <2>4, <2>6, OwnerPutInv DEF w
<1>6. CASE OwnerMigrate
  <2> DEFINE w == [live EXCEPT !.by = "owner", !.ts = @ + 1, !.ann = "migrate"]
  <2>1. OwnerPut(w) /\ Quiet /\ live.exists
    BY <1>6 DEF OwnerMigrate
  <2>2. w \in Version
    BY <1>1, <1>2, <1>3, OwnerWriteType
  <2>3. w.exists = live.exists /\ w.fin = live.fin /\ w.ann = "migrate"
    BY <1>1 DEF Version
  <2> HIDE DEF w
  <2>4. Proper(w) /\ Extends(live, w)
    BY <2>1, <2>3 DEF Proper, Extends, Safe, Migrating, Awaiting
  <2> QED
    BY <2>1, <2>2, <2>3, <2>4, OwnerPutInv
<1>7. CASE OwnerRestore
  <2> DEFINE w == [live EXCEPT !.by = "owner", !.ts = @ + 1, !.ann = "restore"]
  <2>1. OwnerPut(w) /\ live.exists /\ ~live.deleting /\ live.ann = "wait-for-state"
    BY <1>7 DEF OwnerRestore
  <2>2. w \in Version
    BY <1>1, <1>2, <1>3, OwnerWriteType
  <2>3. /\ w.exists = live.exists /\ w.fin = live.fin /\ w.deleting = live.deleting
        /\ w.ann = "restore" /\ w.opType = live.opType
    BY <1>1 DEF Version
  <2> HIDE DEF w
  <2>4. Proper(w) /\ Extends(live, w) /\ ~Migrating(w)
    BY <1>1, <2>1, <2>3 DEF Proper, Extends, Safe, Retired, Migrating, Awaiting
  <2> QED
    BY <2>1, <2>2, <2>3, <2>4, OwnerPutInv
<1>8. CASE OwnerDelete /\ live.fin
  <2> DEFINE g == IF live.deleting THEN live.gen ELSE live.gen + 1
             w == [live EXCEPT !.by = "owner", !.ts = @ + 1, !.deleting = TRUE, !.gen = g]
  <2>1. OwnerPut(w) /\ live.exists
    BY <1>8 DEF OwnerDelete
  <2>2. g \in Nat
    BY <1>2
  <2> HIDE DEF g
  <2>3. w \in Version
    BY <1>1, <1>2, <2>2, OwnerDeleteType
  <2>4. /\ w.exists = live.exists /\ w.fin = live.fin /\ w.deleting
        /\ w.ann = live.ann /\ w.opType = live.opType
    BY <1>1 DEF Version
  <2> HIDE DEF w
  <2>5. Proper(w) /\ Extends(live, w) /\ (Migrating(w) => Migrating(live))
    BY <1>1, <2>1, <2>4 DEF Proper, Extends, Safe, Retired, Migrating, Awaiting
  <2> QED
    BY <2>1, <2>3, <2>4, <2>5, OwnerPutInv
<1>9. CASE OwnerDelete /\ ~live.fin
  <2> DEFINE w == Absent(live.ts + 1)
  <2>1. OwnerPut(w)
    BY <1>9 DEF OwnerDelete
  <2>2. w \in Version
    BY <1>2, AbsentType
  <2>3. ~w.exists /\ ~w.fin /\ ~w.deleting /\ w.ann = "none" /\ w.opType = "none"
    BY <1>2 DEF Absent
  <2>4. w.fin = live.fin
    BY <1>1, <1>9, <2>2, <2>3 DEF Version
  <2> HIDE DEF w
  <2>5. Proper(w) /\ Extends(live, w) /\ ~Migrating(w)
    BY <2>3 DEF Proper, Extends, Safe, Retired, Migrating, Awaiting
  <2> QED
    BY <2>1, <2>2, <2>4, <2>5, OwnerPutInv
<1> QED
  BY <1>4, <1>5, <1>6, <1>7, <1>8, <1>9 DEF Owner

----------------------------------------------------------------------------
(* The watch, the actuator, failures and crashes. *)

LEMMA DeliverInv ==
  ASSUME IInv, Deliver, TypeOK'
  PROVE  IInv'
<1>1. /\ versions \in Seq(Version) /\ Len(versions) > 1
      /\ versions' = Tail(versions) /\ History(versions)
      /\ UNCHANGED <<pc, mine, fresh, op, applied>>
  BY VersionsType DEF Deliver, IInv, VersionsInv
<1>2. live' = live /\ Deployed' = Deployed
  BY <1>1, TailHistory, LiveIsNewest DEF Newest, live, Deployed
<1>3. VersionsInv'
  BY <1>1, TailHistory
  DEF IInv, VersionsInv, MigrationNoticed, NoMigrationInPass, RemovingIsSafe
<1>4. ~(pc = "addFinalizer" /\ fresh)
  <2>1. versions = <<mine>> => Len(versions) = 1
    OBVIOUS
  <2> QED
    BY <1>1, <2>1 DEF IInv, PassInv, FreshCopy
<1>5. PassInv' /\ NoOrphans'
  BY <1>1, <1>2, <1>4
  DEF IInv, PassInv, DeployGuarded, RemovedFirst, CopyKnowsFinalizer, FreshCopy, NoOrphans
<1> QED
  BY <1>3, <1>5 DEF IInv

\* Parts are deployed and removed under the finalizer only.
LEMMA ActuatorIsGuarded ==
  ASSUME IInv, NEW p \in Parts, Apply(p) \/ Remove(p)
  PROVE  live.fin
<1>1. CASE Apply(p)
  BY <1>1 DEF Apply, IInv, PassInv, DeployGuarded
<1>2. CASE Remove(p)
  BY <1>2 DEF Remove, Deployed, IInv, NoOrphans
<1> QED
  BY <1>1, <1>2

LEMMA ActuatorInv ==
  ASSUME IInv, NEW p \in Parts, Apply(p) \/ Remove(p), TypeOK'
  PROVE  IInv'
<1>1. pc = "actuator" /\ UNCHANGED <<versions, queued, pc, mine, fresh, op>>
  BY DEF Apply, Remove, pass
<1>2. live' = live /\ live.fin
  BY <1>1, ActuatorIsGuarded DEF live
<1>3. VersionsInv'
  BY <1>1 DEF IInv, VersionsInv, MigrationNoticed, NoMigrationInPass, RemovingIsSafe
<1>4. PassInv' /\ NoOrphans'
  BY <1>1, <1>2
  DEF IInv, PassInv, DeployGuarded, RemovedFirst, AfterRemoval, CopyKnowsFinalizer,
      FreshCopy, NoOrphans
<1> QED
  BY <1>3, <1>4 DEF IInv

LEMMA ActuatorEndsInv ==
  ASSUME IInv, ActuatorDone \/ ActuatorFails, TypeOK'
  PROVE  IInv'
<1>1. /\ pc = "actuator" /\ pc' \in {"success", "error"}
      /\ UNCHANGED <<versions, mine, op, applied>>
  BY DEF ActuatorDone, ActuatorFails
<1>2. live' = live /\ Deployed' = Deployed
  BY <1>1 DEF live, Deployed
<1>3. pc' = "success" /\ op \in Removing => Deployed = {}
  <2>1. Deploying \cap Removing = {}
    BY DEF Deploying, Removing
  <2> QED
    BY <2>1 DEF ActuatorDone, ActuatorFails, Deployed
<1>4. VersionsInv'
  BY <1>1, UnchangedVersions, PassNotices
<1>5. OpFits(pc', op')
  BY <1>1 DEF IInv, PassInv, OpFits
<1>6. PassInv' /\ NoOrphans'
  BY <1>1, <1>2, <1>3, <1>5
  DEF IInv, PassInv, DeployGuarded, RemovedFirst, AfterRemoval, CopyKnowsFinalizer,
      FreshCopy, NoOrphans
<1> QED
  BY <1>4, <1>6 DEF IInv

LEMMA CallFailsInv ==
  ASSUME IInv, CallFails, TypeOK'
  PROVE  IInv'
<1>1. pc # "idle" /\ Finish(TRUE) /\ UNCHANGED <<versions, applied>>
  BY DEF CallFails, Calls
<1>2. live' = live
  BY <1>1 DEF live
<1>3. VersionsInv'
  BY <1>1, UnchangedVersions, PassNotices DEF Finish
<1> QED
  BY <1>1, <1>2, <1>3, FinishPass DEF IInv

LEMMA CrashInv ==
  ASSUME IInv, Crash, TypeOK'
  PROVE  IInv'
<1>1. /\ versions' = <<live>> /\ pc' = "down" /\ op' = "none" /\ UNCHANGED applied
      /\ live \in Version /\ Proper(live)
  BY LiveIsProper DEF Crash
<1>2. live' = live /\ Deployed' = Deployed
  BY <1>1, SingletonFacts DEF live, Deployed
<1>3. History(versions') /\ Noticed(versions')
  BY <1>1, SingletonHistory
<1>4. "none" \notin Deploying \cup Removing
  BY DEF Deploying, Removing
<1>5. VersionsInv'
  BY <1>1, <1>3, <1>4
  DEF VersionsInv, MigrationNoticed, NoMigrationInPass, RemovingIsSafe
<1>6. PassInv' /\ NoOrphans'
  BY <1>1, <1>2, <1>4
  DEF IInv, PassInv, OpFits, DeployGuarded, RemovedFirst, CopyKnowsFinalizer, FreshCopy, NoOrphans
<1> QED
  BY <1>5, <1>6 DEF IInv

LEMMA RestartInv ==
  ASSUME IInv, Restart, TypeOK'
  PROVE  IInv'
<1>1. pc = "down" /\ pc' = "idle" /\ UNCHANGED <<versions, mine, fresh, op, applied>>
  BY DEF Restart
<1>2. live' = live /\ Deployed' = Deployed
  BY <1>1 DEF live, Deployed
<1>3. VersionsInv'
  BY <1>1, UnchangedVersions, PassNotices
<1>4. PassInv' /\ NoOrphans'
  BY <1>1, <1>2
  DEF IInv, PassInv, OpFits, DeployGuarded, RemovedFirst, AfterRemoval, CopyKnowsFinalizer,
      FreshCopy, NoOrphans
<1> QED
  BY <1>3, <1>4 DEF IInv

----------------------------------------------------------------------------
(* The theorems. *)

LEMMA InitInv == Init => IInv
<1> SUFFICES ASSUME Init PROVE IInv
  OBVIOUS
<1>1. Absent(0) \in Version /\ ~Absent(0).fin /\ ~Absent(0).deleting
      /\ Absent(0).ann = "none" /\ Absent(0).opType = "none"
  BY AbsentType DEF Absent
<1>2. versions = <<Absent(0)>> /\ op = "none" /\ pc = "idle"
  BY DEF Init
<1>3. TypeOK
  <2>1. <<Absent(0)>> \in Seq(Version) /\ <<Absent(0)>> # <<>>
    BY <1>1, SingletonFacts
  <2> QED
    BY <1>1, <2>1 DEF Init, TypeOK, PCs, OpTypes
<1>4. Proper(Absent(0))
  BY <1>1 DEF Proper, Safe, Retired, Awaiting
<1>5. History(versions) /\ Noticed(versions)
  BY <1>1, <1>2, <1>4, SingletonHistory
<1>6. "none" \notin Deploying \cup Removing
  BY DEF Deploying, Removing
<1>7. VersionsInv
  BY <1>2, <1>5, <1>6 DEF VersionsInv, MigrationNoticed, NoMigrationInPass, RemovingIsSafe
<1>8. PassInv
  BY <1>2, <1>6 DEF PassInv, OpFits, DeployGuarded, RemovedFirst, CopyKnowsFinalizer, FreshCopy
<1>9. NoOrphans
  BY DEF Init, NoOrphans, Deployed
<1> QED
  BY <1>3, <1>7, <1>8, <1>9 DEF IInv

LEMMA StepInv ==
  ASSUME ~HastyOwner, IInv, TypeOK', [Next]_vars
  PROVE  IInv'
<1>1. CASE Owner
  BY <1>1, OwnerInv
<1>2. CASE Deliver
  BY <1>2, DeliverInv
<1>3. CASE PickUp
  BY <1>3, PickUpInv
<1>4. CASE StripAnnotation
  BY <1>4, StripAnnotationInv
<1>5. CASE Reconcile
  BY <1>5, ReconcileInv
<1>6. CASE AddFinalizers
  BY <1>6, AddFinalizersInv
<1>7. CASE Processing
  BY <1>7, ProcessingInv
<1>8. CASE Error
  BY <1>8, ErrorInv
<1>9. CASE Success
  BY <1>9, SuccessInv
<1>10. CASE RemoveFinalizers
  BY <1>10, RemoveFinalizersInv
<1>11. CASE RemoveAllFinalizers
  BY <1>11, RemoveAllFinalizersInv
<1>12. CASE RemoveAnnotation
  BY <1>12, RemoveAnnotationInv
<1>13. CASE \E p \in Parts : Apply(p) \/ Remove(p)
  BY <1>13, ActuatorInv
<1>14. CASE ActuatorDone \/ ActuatorFails
  BY <1>14, ActuatorEndsInv
<1>15. CASE CallFails
  BY <1>15, CallFailsInv
<1>16. CASE Crash
  BY <1>16, CrashInv
<1>17. CASE Restart
  BY <1>17, RestartInv
<1>18. CASE UNCHANGED vars
  BY <1>18
  DEF vars, IInv, VersionsInv, MigrationNoticed, NoMigrationInPass, RemovingIsSafe,
      PassInv, DeployGuarded, RemovedFirst, CopyKnowsFinalizer, FreshCopy, NoOrphans,
      Deployed, live
<1> QED
  BY <1>1, <1>2, <1>3, <1>4, <1>5, <1>6, <1>7, <1>8, <1>9, <1>10, <1>11, <1>12, <1>13,
     <1>14, <1>15, <1>16, <1>17, <1>18 DEF Next, Worker

(***************************************************************************)
(* The inductive invariant holds, for any parts, bounds and staleness of   *)
(* the cache, when the owner asks for migrations in a quiet moment only.   *)
(***************************************************************************)
THEOREM Invariance == ASSUME ~HastyOwner PROVE Spec => []IInv
<1>1. Init => IInv
  BY InitInv
<1>2. IInv /\ TypeOK' /\ [Next]_vars => IInv'
  BY StepInv
<1>3. Spec => []TypeOK
  BY TypeCorrect
<1> QED
  BY <1>1, <1>2, <1>3, PTL DEF Spec

(***************************************************************************)
(* No part of the logging stack is deployed while the stored resource      *)
(* lacks the finalizer, whatever fails, is lost, is stale or crashes.      *)
(***************************************************************************)
THEOREM NothingOrphaned == ASSUME ~HastyOwner PROVE Spec => []NoOrphans
<1>1. IInv => NoOrphans
  BY DEF IInv
<1> QED
  BY <1>1, Invariance, PTL

----------------------------------------------------------------------------
(* The refinement of LoggingPromise. *)

(***************************************************************************)
(* The controller implements LoggingPromise, with the finalizer as the     *)
(* hold: the stack changes only while the resource is held, and the hold is*)
(* given up only when nothing of the stack is left.                        *)
(***************************************************************************)
THEOREM PromiseKept == ASSUME ~HastyOwner PROVE Spec => KeepsPromise
<1>1. IInv /\ IInv' /\ [Next]_vars => [Promise!Next]_<<live.fin, Deployed>>
  BY StepPromised DEF IInv
<1>2. QED
  BY <1>1, InitPromised, Invariance, PTL DEF Spec, KeepsPromise, Promise!Spec

=============================================================================
