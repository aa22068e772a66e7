---------------------------- MODULE LoggingObject ----------------------------
(***************************************************************************)
(* The Logging extension resource as the API server stores it, and the     *)
(* pure decisions taken on it: which watch events are admitted to the      *)
(* queue, which operation a pass runs, what a status patch changes and     *)
(* when the owner of the resource considers it ready.                      *)
(*                                                                         *)
(* A value of this module is one stored VERSION of the resource.  The text *)
(* of descriptions, errors and timestamps is abstracted; the timestamp     *)
(* annotation becomes the number ts of the owner's last write.             *)
(***************************************************************************)
EXTENDS Naturals

Annotations == {"none", "reconcile", "migrate", "restore", "wait-for-state"}
OpTypes == {"none", "Create", "Reconcile", "Delete", "Migrate", "Restore"}
OpStates == {"none", "Processing", "Error", "Succeeded"}

(***************************************************************************)
(* by tells what kind of write produced the version: one of the owner, a   *)
(* metadata patch or a status patch of the controller.  Two consecutive    *)
(* versions have equal statuses iff the second is not a status patch: every*)
(* status patch renews lastOperation.lastUpdateTime.                       *)
(***************************************************************************)
Version == [exists : BOOLEAN, by : {"owner", "meta", "status"}, ts : Nat,
            gen : Nat, deleting : BOOLEAN, fin : BOOLEAN, ann : Annotations,
            opType : OpTypes, opState : OpStates, err : BOOLEAN, obs : Nat]

Absent(t) == [exists |-> FALSE, by |-> "owner", ts |-> t, gen |-> 0,
              deleting |-> FALSE, fin |-> FALSE, ann |-> "none",
              opType |-> "none", opState |-> "none", err |-> FALSE, obs |-> 0]

Created(t, a) == [Absent(t) EXCEPT !.exists = TRUE, !.gen = 1, !.ann = a]

\* A deleted resource is stored until its last finalizer is removed.
WithoutFinalizer(v) == IF v.deleting THEN Absent(v.ts) ELSE [v EXCEPT !.fin = FALSE]

----------------------------------------------------------------------------
(* The operation of a pass. *)

ComputeOperationType(v) ==
    CASE v.ann = "migrate" -> "Migrate"
      [] v.ann # "migrate" /\ v.deleting -> "Delete"
      [] v.ann = "restore" /\ ~v.deleting -> "Restore"
      [] OTHER ->
           IF v.opType = "none" THEN "Create"
           ELSE IF v.opType \in {"Create", "Migrate", "Restore"}
                   /\ v.opState # "Succeeded"
                THEN v.opType
                ELSE "Reconcile"

IsMigrated(v) == v.opType = "Migrate" /\ v.opState = "Succeeded"

\* Under migration, or migrated.
Retired(v) == v.ann = "migrate" \/ v.opType = "Migrate"

\* Mistake: a migrated resource is reconciled like any other.
NeverSkip(t, v) == FALSE

ShouldSkipOperation(t, v) == t \notin {"Migrate", "Restore"} /\ IsMigrated(v)

\* The operations whose actuator call deploys, and those whose call removes.
Deploying == {"Create", "Reconcile", "Restore"}
Removing == {"Delete", "Migrate"}

----------------------------------------------------------------------------
(* The predicates of the watch (DefaultControllerPredicates). *)

\* Mistake: the predicate forgets an operation.
HasOtherOperationAnnotation(v) == v.ann \in {"reconcile", "restore"}

HasOperationAnnotation(v) == v.ann \in {"reconcile", "restore", "migrate"}
LastOperationNotSuccessful(v) == v.opState # "Succeeded"
StatusEqual(old, new) == new.by # "status"

CreateAdmits(v) ==
    \/ HasOperationAnnotation(v)
    \/ v.deleting
    \/ LastOperationNotSuccessful(v)

\* Mistakes: only the annotations, or only deletion and failure, are admitted.
UpdateAdmitsAnnotated(old, new) == HasOperationAnnotation(new)
UpdateAdmitsUnannotated(old, new) ==
    \/ new.deleting /\ StatusEqual(old, new)
    \/ LastOperationNotSuccessful(new) /\ old.ts # new.ts

UpdateAdmits(old, new) ==
    \/ HasOperationAnnotation(new)
    \/ new.deleting /\ StatusEqual(old, new)
    \/ LastOperationNotSuccessful(new) /\ old.ts # new.ts

\* Delete events are never admitted.
Admits(old, new) ==
    /\ new.exists
    /\ IF old.exists THEN UpdateAdmits(old, new) ELSE CreateAdmits(new)

----------------------------------------------------------------------------
(***************************************************************************)
(* Status patches.  The patch sent is the difference between the local     *)
(* copy and the local copy with the new values, so a field which the local *)
(* copy already holds is not in the patch and keeps the stored value.      *)
(***************************************************************************)
Merge(local, new, stored) == IF new = local THEN stored ELSE new

WithLastOperation(stored, local, t, s) ==
    [stored EXCEPT !.opType = Merge(local.opType, t, stored.opType),
                   !.opState = Merge(local.opState, s, stored.opState)]

ProcessingCustom(stored, local, t) ==
    WithLastOperation(stored, local, t, "Processing")

\* A new error has a new time, so it is always in the patch.
Observed(stored, local, e) ==
    [stored EXCEPT !.obs = Merge(local.obs, local.gen, stored.obs),
                   !.err = e \/ Merge(local.err, e, stored.err)]

ErrorCustom(stored, local, t) ==
    Observed(WithLastOperation(stored, local, t, "Error"), local, TRUE)

SuccessCustom(stored, local, t) ==
    Observed(WithLastOperation(stored, local, t, "Succeeded"), local, FALSE)

----------------------------------------------------------------------------
\* When the owner, waiting for the resource, stops waiting.
CheckExtensionObject(v) ==
    /\ v.exists
    /\ ~v.err
    /\ v.obs = v.gen
    /\ v.ann = "none"
    /\ v.opState = "Succeeded"

=============================================================================
