--------------------------- MODULE LoggingLifecycle ---------------------------
(***************************************************************************)
(* The lifecycle controller of one Logging resource: the watch and its     *)
(* predicates, the work queue, the operation-annotation wrapper, the       *)
(* reconciler and its status and finalizer patches, step by API call, with *)
(* a stale cache, optimistic-lock conflicts, failing calls, lost replies   *)
(* and crashes.  The owner of the resource (gardenlet) is the environment. *)
(*                                                                         *)
(* The actuator is abstract: a call deploys or removes the Parts of the    *)
(* logging stack one at a time and may fail between any two of them.       *)
(* applied[p] is the number of the owner's write whose inputs (the Cluster *)
(* resource written before it) part p was deployed from, 0 when absent.    *)
(***************************************************************************)
EXTENDS LoggingObject, Sequences

CONSTANTS
    Parts,        \* the objects an actuator call deploys
    MaxTs,        \* bound on the owner's writes
    MaxLag,       \* bound on the watch events in flight
    MaxFails,     \* bound on failing calls
    MaxCrashes,   \* bound on crashes of the controller
    HastyOwner,   \* may the owner ask for a migration while a pass runs?
    StaleReads    \* may the caches lack the controller's own last writes, and
                  \* the Cluster that was written before the request?

ASSUME BoundsAssumption ==
    /\ MaxTs \in Nat /\ MaxLag \in Nat /\ MaxFails \in Nat
    /\ MaxCrashes \in Nat /\ HastyOwner \in BOOLEAN
    /\ StaleReads \in BOOLEAN

VARIABLES
    versions,  \* from the version in the cache (first) to the stored one (last)
    queued,    \* is the key in the work queue?
    pc,        \* the next API call of the worker's pass
    mine,      \* the worker's copy of the resource
    fresh,     \* is mine the stored version, by resourceVersion?
    op,        \* operation type of the pass
    input,     \* owner's write whose Cluster the pass has read
    applied,
    fails, crashes

vars == <<versions, queued, pc, mine, fresh, op, input, applied, fails, crashes>>
pass == <<queued, pc, mine, fresh, op, input>>

cache == versions[1]
live == versions[Len(versions)]

Calls == {"strip", "get", "addFinalizer", "processing", "success", "error",
          "removeFinalizer", "removeAllFinalizers", "removeAnnotation"}
PCs == Calls \cup {"down", "idle", "actuator"}

TypeOK ==
    /\ versions \in Seq(Version) /\ versions # <<>>
    /\ queued \in BOOLEAN
    /\ pc \in PCs
    /\ mine \in Version
    /\ fresh \in BOOLEAN
    /\ op \in OpTypes
    /\ input \in Nat
    /\ applied \in [Parts -> Nat]
    /\ fails \in Nat
    /\ crashes \in Nat

Init ==
    /\ versions = <<Absent(0)>>
    /\ queued = FALSE
    /\ pc = "idle"
    /\ mine = Absent(0)
    /\ fresh = FALSE
    /\ op = "none"
    /\ input = 0
    /\ applied = [p \in Parts |-> 0]
    /\ fails = 0
    /\ crashes = 0

----------------------------------------------------------------------------
(* The owner: gardenlet, or an operator with kubectl. *)

\* The controller has seen everything written so far and runs no pass.
Settled == pc \in {"idle", "down"} /\ Len(versions) = 1

\* It will not run one either before something is written.
Quiet == pc = "idle" /\ Len(versions) = 1 /\ ~queued

\* A controller that is down keeps no watch.
OwnerPut(v) ==
    /\ live.ts < MaxTs
    /\ versions' = IF pc = "down" THEN <<v>> ELSE Append(versions, v)
    /\ Len(versions) < MaxLag
    /\ fresh' = FALSE
    /\ UNCHANGED <<queued, pc, mine, op, input, applied, fails, crashes>>

OwnerCreate ==
    /\ ~live.exists
    /\ Settled
    /\ \E a \in {"none", "reconcile", "wait-for-state"} :
          OwnerPut(Created(live.ts + 1, a))

OwnerReconcile ==
    /\ live.exists /\ ~live.deleting
    /\ live.ann \in {"none", "reconcile"} /\ live.opType # "Migrate"
    /\ \E g \in {0, 1} :
          OwnerPut([live EXCEPT !.by = "owner", !.ts = @ + 1, !.gen = @ + g,
                                !.ann = "reconcile"])

OwnerMigrate ==
    /\ live.exists /\ ~live.deleting
    /\ live.ann \in {"none", "reconcile"} /\ live.opType # "Migrate"
    /\ HastyOwner \/ Quiet
    /\ OwnerPut([live EXCEPT !.by = "owner", !.ts = @ + 1, !.ann = "migrate"])

OwnerRestore ==
    /\ live.exists /\ ~live.deleting /\ live.ann = "wait-for-state"
    /\ OwnerPut([live EXCEPT !.by = "owner", !.ts = @ + 1, !.ann = "restore"])

\* Deletion is confirmed and touched by a new timestamp, also when repeated.
OwnerDelete ==
    /\ live.exists
    /\ OwnerPut(IF live.fin
                THEN [live EXCEPT !.by = "owner", !.ts = @ + 1, !.deleting = TRUE,
                                  !.gen = IF live.deleting THEN @ ELSE @ + 1]
                ELSE Absent(live.ts + 1))

Owner == OwnerCreate \/ OwnerReconcile \/ OwnerMigrate \/ OwnerRestore \/ OwnerDelete

----------------------------------------------------------------------------
(* The watch. *)

Deliver ==
    /\ pc # "down"
    /\ Len(versions) > 1
    /\ versions' = Tail(versions)
    /\ queued' = (queued \/ Admits(versions[1], versions[2]))
    /\ UNCHANGED <<pc, mine, fresh, op, input, applied, fails, crashes>>

----------------------------------------------------------------------------
(* Steps of a pass. *)

\* Mistake: a failed pass is forgotten.
FinishForGood(failed) ==
    /\ pc' = "idle"
    /\ mine' = Absent(0) /\ fresh' = FALSE /\ op' = "none" /\ input' = 0
    /\ UNCHANGED queued

\* The pass ends; the key stays queued when it failed or was admitted meanwhile.
Finish(failed) ==
    /\ pc' = "idle"
    /\ queued' = (queued \/ failed)
    /\ mine' = Absent(0)
    /\ fresh' = FALSE
    /\ op' = "none"
    /\ input' = 0

\* The reply v of a successful call refreshes the copy; next is the next call.
Proceed(v, next) ==
    IF next = "idle" THEN Finish(FALSE)
    ELSE /\ pc' = next
         /\ mine' = v
         /\ fresh' = TRUE
         /\ UNCHANGED <<queued, op, input>>

\* A call that wrote is answered, or its answer is lost and the pass fails.
Answered(v, next) ==
    \/ Proceed(v, next) /\ UNCHANGED fails
    \/ Finish(TRUE) /\ fails < MaxFails /\ fails' = fails + 1

\* A patch of the stored version; one that changes nothing makes no version.
Patch(v, next) ==
    /\ Len(versions) < MaxLag
    /\ IF v = live
       THEN Answered(live, next) /\ UNCHANGED versions
       ELSE LET w == [v EXCEPT !.by = "meta"]
            IN Answered(w, next) /\ versions' = Append(versions, w)
    /\ UNCHANGED <<applied, crashes>>

StatusPatch(v, next) ==
    /\ Len(versions) < MaxLag
    /\ live.exists
    /\ versions' = Append(versions, [v EXCEPT !.by = "status"])
    /\ Answered([v EXCEPT !.by = "status"], next)
    /\ UNCHANGED <<applied, crashes>>

\* The call answers with NotFound or Conflict, or does nothing: no write.
EndPass(failed) ==
    /\ Finish(failed)
    /\ UNCHANGED <<versions, applied, fails, crashes>>

\* Reading the cache: unless reads are stale, its own writes are there.
CacheReadable ==
    StaleReads \/ \A i \in 2 .. Len(versions) : versions[i].by = "owner"

----------------------------------------------------------------------------
(* The operation-annotation wrapper. *)

PickUp ==
    /\ pc = "idle" /\ queued
    /\ CacheReadable
    /\ queued' = FALSE
    /\ IF cache.ann = "wait-for-state"
       THEN UNCHANGED <<pc, mine, fresh>>
       ELSE /\ pc' = IF cache.ann = "reconcile" THEN "strip" ELSE "get"
            /\ mine' = cache
            /\ fresh' = (Len(versions) = 1)
    /\ UNCHANGED <<versions, op, input, applied, fails, crashes>>

\* The patch drops the key operation, whatever value is stored by now.
StripAnnotation ==
    /\ pc = "strip"
    /\ IF live.exists THEN Patch([live EXCEPT !.ann = "none"], "get")
                      ELSE EndPass(TRUE)

----------------------------------------------------------------------------
(* The reconciler. *)

\* Mistake: the finalizer is left to somebody else.
FirstCallUnguarded(t, v) == IF t = "Delete" /\ ~v.fin THEN "idle" ELSE "processing"

FirstCall(t, v) ==
    CASE t = "Migrate" -> "processing"
      [] t = "Delete" -> IF v.fin THEN "processing" ELSE "idle"
      [] OTHER -> IF v.fin THEN "processing" ELSE "addFinalizer"

\* The reconciler reads the cache again, then the Cluster.
Reconcile ==
    /\ pc = "get"
    /\ CacheReadable
    /\ LET t == ComputeOperationType(cache)
           next == IF ~cache.exists \/ ShouldSkipOperation(t, cache) THEN "idle"
                   ELSE FirstCall(t, cache)
       IN IF next = "idle" THEN Finish(FALSE)
          ELSE /\ pc' = next
               /\ mine' = cache
               /\ fresh' = (Len(versions) = 1)
               /\ op' = t
               /\ input' \in (IF StaleReads THEN 1 ELSE cache.ts) .. live.ts
               /\ UNCHANGED queued
    /\ UNCHANGED <<versions, applied, fails, crashes>>

AddFinalizers ==
    /\ pc = "addFinalizer"
    /\ IF live.exists /\ fresh THEN Patch([live EXCEPT !.fin = TRUE], "processing")
                               ELSE EndPass(TRUE)

Processing ==
    /\ pc = "processing"
    /\ IF live.exists THEN StatusPatch(ProcessingCustom(live, mine, op), "actuator")
                      ELSE EndPass(TRUE)

\* Mistake: the annotation's value is recorded as the type.
ErrorTypeOfAnnotation(t) == IF t = "Restore" THEN "restore" ELSE t

\* restore() records a failure under the type Delete.
ErrorType(t) == IF t = "Restore" THEN "Delete" ELSE t

\* The result of the error patch is ignored; the pass fails in any case.
Error ==
    /\ pc = "error"
    /\ Finish(TRUE)
    /\ \/ /\ live.exists
          /\ Len(versions) < MaxLag
          /\ versions' = Append(versions,
                 [ErrorCustom(live, mine, ErrorType(op)) EXCEPT !.by = "status"])
          /\ UNCHANGED fails
       \/ ~live.exists /\ UNCHANGED <<versions, fails>>
       \/ fails < MaxFails /\ fails' = fails + 1 /\ UNCHANGED versions
    /\ UNCHANGED <<applied, crashes>>

\* Mistake: migrate() keeps the finalizer.
AfterSuccessHolding(t, v) ==
    CASE t = "Delete" /\ v.fin -> "removeFinalizer"
      [] t \in {"Migrate", "Restore"} -> "removeAnnotation"
      [] OTHER -> "idle"

AfterSuccess(t, v) ==
    CASE t = "Delete" /\ v.fin -> "removeFinalizer"
      [] t = "Migrate" -> "removeAllFinalizers"
      [] t = "Restore" -> "removeAnnotation"
      [] OTHER -> "idle"

Success ==
    /\ pc = "success"
    /\ IF live.exists
       THEN StatusPatch(SuccessCustom(live, mine, op), AfterSuccess(op, live))
       ELSE EndPass(TRUE)

RemoveFinalizers ==
    /\ pc = "removeFinalizer"
    /\ IF live.exists /\ fresh THEN Patch(WithoutFinalizer(live), "idle")
                               ELSE EndPass(live.exists)

\* Without optimistic lock; NotFound is ignored.
RemoveAllFinalizers ==
    /\ pc = "removeAllFinalizers"
    /\ IF live.exists
       THEN Patch(IF mine.fin THEN WithoutFinalizer(live) ELSE live, "removeAnnotation")
       ELSE /\ pc' = "removeAnnotation"
            /\ UNCHANGED <<versions, queued, mine, fresh, op, input, applied, fails, crashes>>

\* The copy's annotations decide whether there is anything to remove.
RemoveAnnotation ==
    /\ pc = "removeAnnotation"
    /\ IF live.exists
       THEN Patch(IF mine.ann = "none" THEN live ELSE [live EXCEPT !.ann = "none"], "idle")
       ELSE EndPass(TRUE)

----------------------------------------------------------------------------
(* The actuator call of the pass. *)

Deployed == {p \in Parts : applied[p] # 0}

Apply(p) ==
    /\ pc = "actuator" /\ op \in Deploying
    /\ applied[p] # input
    /\ applied' = [applied EXCEPT ![p] = input]
    /\ UNCHANGED <<versions, pass, fails, crashes>>

Remove(p) ==
    /\ pc = "actuator" /\ op \in Removing
    /\ applied[p] # 0
    /\ applied' = [applied EXCEPT ![p] = 0]
    /\ UNCHANGED <<versions, pass, fails, crashes>>

ActuatorDone ==
    /\ pc = "actuator"
    /\ \A p \in Parts : applied[p] = IF op \in Deploying THEN input ELSE 0
    /\ pc' = "success"
    /\ UNCHANGED <<versions, queued, mine, fresh, op, input, applied, fails, crashes>>

----------------------------------------------------------------------------
(* Failures of the calls, and of the controller. *)

\* A call fails without effect. (A failed error patch is ignored: Error.)
CallFails ==
    /\ pc \in Calls \ {"error"}
    /\ fails < MaxFails
    /\ fails' = fails + 1
    /\ Finish(TRUE)
    /\ UNCHANGED <<versions, applied, crashes>>

\* Mistake: the error is logged and the pass goes on.
ActuatorFailureIgnored ==
    /\ pc = "actuator" /\ fails < MaxFails
    /\ fails' = fails + 1
    /\ pc' = "success"
    /\ UNCHANGED <<versions, queued, mine, fresh, op, input, applied, crashes>>

ActuatorFails ==
    /\ pc = "actuator"
    /\ fails < MaxFails
    /\ fails' = fails + 1
    /\ pc' = "error"
    /\ UNCHANGED <<versions, queued, mine, fresh, op, input, applied, crashes>>

\* The queue, the cache and the pass are lost; what is stored remains.
Crash ==
    /\ pc # "down"
    /\ crashes < MaxCrashes
    /\ crashes' = crashes + 1
    /\ pc' = "down"
    /\ versions' = <<live>>
    /\ queued' = FALSE
    /\ mine' = Absent(0)
    /\ fresh' = FALSE
    /\ op' = "none"
    /\ input' = 0
    /\ UNCHANGED <<applied, fails>>

\* The next leader lists the resource: one create event.
Restart ==
    /\ pc = "down"
    /\ pc' = "idle"
    /\ queued' = (live.exists /\ CreateAdmits(live))
    /\ UNCHANGED <<versions, mine, fresh, op, input, applied, fails, crashes>>

Worker ==
    \/ PickUp \/ StripAnnotation
    \/ Reconcile \/ AddFinalizers \/ Processing \/ Error \/ Success
    \/ RemoveFinalizers \/ RemoveAllFinalizers \/ RemoveAnnotation
    \/ \E p \in Parts : Apply(p) \/ Remove(p)
    \/ ActuatorDone

Next == Owner \/ Deliver \/ Worker \/ CallFails \/ ActuatorFails \/ Crash \/ Restart

Spec == Init /\ [][Next]_vars

\* The informer and the worker are never starved and a crashed leader is replaced.
FairSpec == Spec /\ WF_vars(Deliver) /\ WF_vars(Worker) /\ WF_vars(Restart)

----------------------------------------------------------------------------
(* Safety. *)

(***************************************************************************)
(* Nothing of the logging stack is left behind: as long as any part of it  *)
(* is deployed, the stored resource carries the finalizer, so it cannot    *)
(* vanish before delete() or migrate() has removed every part.             *)
(***************************************************************************)
NoOrphans == Deployed # {} => live.fin

(***************************************************************************)
(* A resource whose status says Migrate/Succeeded, on which the owner      *)
(* hands the shoot to the other seed, has no part deployed any more, and   *)
(* none is deployed again afterwards.                                      *)
(***************************************************************************)
MigratedStaysUndeployed == live.exists /\ IsMigrated(live) => Deployed = {}

(***************************************************************************)
(* No request is lost: when nothing is left to do (no event in flight, key *)
(* not queued, no pass) and the controller never crashed, every part comes *)
(* from the inputs of the owner's last write and the resource is ready.    *)
(* Failing calls, conflicts, lost replies and overtaking requests are      *)
(* repaired by the queue.                                                  *)
(***************************************************************************)
QuietMeansApplied ==
    Quiet /\ crashes = 0 /\ live.exists /\ ~live.deleting
    /\ live.opType # "Migrate" /\ live.ann # "wait-for-state"
    => CheckExtensionObject(live) /\ \A p \in Parts : applied[p] = live.ts

(***************************************************************************)
(* No migration is left half-way, crashes included: when nothing is left   *)
(* to do, a resource under migration is migrated, without finalizer and    *)
(* annotation, and nothing is deployed for it.                             *)
(***************************************************************************)
QuietMeansMigrated ==
    Quiet /\ live.exists /\ live.opType = "Migrate"
    => IsMigrated(live) /\ ~live.fin /\ live.ann = "none" /\ Deployed = {}

(***************************************************************************)
(* The owner's wait does not end early: a resource that passes the health  *)
(* check has every part deployed from the inputs of the owner's last write.*)
(***************************************************************************)
ReadyMeansApplied ==
    CheckExtensionObject(live) /\ ~live.deleting /\ ~IsMigrated(live)
    => \A p \in Parts : applied[p] >= live.ts

----------------------------------------------------------------------------
(* Liveness, under FairSpec; failures and crashes are finite (their bounds).*)

(***************************************************************************)
(* A deletion completes, whatever fails or crashes meanwhile: the finalizer*)
(* is removed and the resource vanishes.  The wrapper ignores a resource   *)
(* that still waits for its state, so those are excluded.                  *)
(***************************************************************************)
DeletionCompletes ==
    live.deleting /\ live.ann # "wait-for-state" ~> ~live.exists

(***************************************************************************)
(* A migration completes: once the controller has seen the annotation      *)
(* migrate, and does not just remove an earlier one (StripAnnotation drops *)
(* whatever value is stored by then), the resource ends without finalizer  *)
(* and annotation and with Migrate/Succeeded, or is gone.                  *)
(***************************************************************************)
MigrationCompletes ==
    cache.ann = "migrate" /\ live.ann = "migrate" /\ pc # "strip"
    ~> \/ ~live.exists
       \/ IsMigrated(live) /\ ~live.fin /\ live.ann = "none"

(***************************************************************************)
(* Each request of the owner is served: parts are eventually as new as the *)
(* request, unless a deletion, a migration or a crash comes in between.    *)
(***************************************************************************)
RequestHonoured ==
    \A n \in 1 .. MaxTs :
       (live.ts = n /\ HasOperationAnnotation(live))
       ~> \/ \A p \in Parts : applied[p] >= n
          \/ live.deleting \/ ~live.exists \/ Retired(live) \/ crashes > 0

----------------------------------------------------------------------------
(* What the controller promises, in the terms of LoggingPromise. *)

Promise == INSTANCE LoggingPromise WITH held <- live.fin, deployed <- Deployed

\* Every step of the controller is one the promise allows.
KeepsPromise == Promise!Spec

=============================================================================
