---------------------------- MODULE SeedLokiVolume ----------------------------
(***************************************************************************)
(* The volume of the seed's Loki: the first thing a reconciliation of the  *)
(* seed actuator does is to make the PersistentVolumeClaim as large as the *)
(* code says, which takes a stop of Loki, a change or the deletion of the  *)
(* claim and the deletion of the StatefulSet, whose claim template cannot  *)
(* be changed; the chart then creates the StatefulSet again.  The call may *)
(* fail or the process may end between any two requests; it is repeated.   *)
(*                                                                         *)
(* The client of the manager reads the claim from the informer's cache,    *)
(* which may lack its last changes, the ones of an earlier call among them;*)
(* and a claim that is deleted is there until Kubernetes removes it.  The  *)
(* wait for the StatefulSet, which asks every five seconds, is taken to see*)
(* the replicas that the same call has patched: that cache is current.     *)
(***************************************************************************)
EXTENDS Sequences, Naturals

CONSTANTS
    Sizes,        \* of volumes
    MaxLag,       \* bound on changes of the claim that the cache lacks
    MaxFails,     \* bound on failing requests and crashes
    MaxUpgrades   \* bound on new versions of the extension, with another size

ASSUME VolumeAssumption ==
    /\ Sizes \subseteq Nat \ {0} /\ Sizes # {}
    /\ MaxLag \in Nat \ {0} /\ MaxFails \in Nat /\ MaxUpgrades \in Nat

VARIABLES
    size,      \* that the running version of the code wants
    pvc,       \* size of the claim, 0 when there is none
    dying,     \* is the claim being deleted?
    behind,    \* the sizes that the cache has still to get past; the first is in it
    sts,       \* the StatefulSet
    pod,       \* does Loki's pod run?
    due,       \* must the actuator be called (again)?
    pc,        \* its next request
    seen,      \* the size of the claim that it has read
    outdated,  \* history: that claim had changed since, or was being deleted
    fails, upgrades

claim == <<pvc, dying, behind>>
cluster == <<claim, sts, pod>>
vars == <<size, cluster, due, pc, seen, outdated, fails, upgrades>>

\* The size in the cache.
Cached == IF behind = <<>> THEN pvc ELSE Head(behind)

\* size: of the claim template; observed: the controller has seen the replicas.
StatefulSet == [exists : {TRUE}, size : Sizes, replicas : {0, 1}, observed : BOOLEAN]
NoStatefulSet == [exists |-> FALSE, size |-> 0, replicas |-> 0, observed |-> TRUE]
Fresh(s) == [exists |-> TRUE, size |-> s, replicas |-> 1, observed |-> FALSE]

TypeOK ==
    /\ size \in Sizes
    /\ pvc \in Sizes \cup {0}
    /\ dying \in BOOLEAN
    /\ behind \in Seq(Sizes \cup {0})
    /\ sts \in StatefulSet \cup {NoStatefulSet}
    /\ pod \in BOOLEAN
    /\ due \in BOOLEAN
    /\ pc \in {"idle", "get", "scale", "wait", "volume", "delete", "apply"}
    /\ seen \in Sizes \cup {0}
    /\ outdated \in BOOLEAN
    /\ fails \in 0 .. MaxFails
    /\ upgrades \in 0 .. MaxUpgrades

\* A Loki of another size may run already, or its removal has left the claim.
Init ==
    /\ size \in Sizes
    /\ pvc \in Sizes \cup {0}
    /\ dying = FALSE /\ behind = <<>>
    /\ \/ sts = NoStatefulSet /\ pod = FALSE
       \/ pvc # 0 /\ sts = [Fresh(pvc) EXCEPT !.observed = TRUE] /\ pod = TRUE
    /\ due = TRUE
    /\ pc = "idle"
    /\ seen = 0 /\ outdated = FALSE
    /\ fails = 0 /\ upgrades = 0

\* The stored claim changes; the cache has the former size until it is delivered.
SizeBecomes(s) ==
    /\ pvc' = s
    /\ IF s = pvc
       THEN UNCHANGED behind
       ELSE Len(behind) < MaxLag /\ behind' = Append(behind, pvc)

----------------------------------------------------------------------------
(* A call of the seed actuator. *)

Goto(next) == pc' = next /\ UNCHANGED <<size, due, fails, upgrades>>

Forget == seen' = 0 /\ outdated' = FALSE

Call ==
    /\ pc = "idle" /\ due
    /\ Goto("get")
    /\ Forget
    /\ UNCHANGED cluster

\* Mistake: a claim that does not exist is taken for one of another size.
GetClaimOrNone ==
    /\ pc = "get"
    /\ seen' = Cached
    /\ outdated' = (behind # <<>> \/ dying)
    /\ Goto(IF Cached = size THEN "apply" ELSE "scale")
    /\ UNCHANGED cluster

\* The deletion of a claim does not show in its size.
GetClaim ==
    /\ pc = "get"
    /\ seen' = Cached
    /\ outdated' = (behind # <<>> \/ dying)
    /\ Goto(IF Cached \in {0, size} THEN "apply" ELSE "scale")
    /\ UNCHANGED cluster

ScaleToZero ==
    /\ pc = "scale"
    /\ IF sts.exists
       THEN Goto("wait") /\ sts' = [sts EXCEPT !.replicas = 0, !.observed = FALSE]
       ELSE Goto("volume") /\ UNCHANGED sts
    /\ UNCHANGED <<claim, pod, seen, outdated>>

\* Mistake: the new replicas need not be observed, the pod need not be gone.
ScaledUnobserved == sts.replicas = 0

Scaled == sts.observed /\ sts.replicas = 0 /\ ~pod

WaitUntilScaled ==
    /\ pc = "wait"
    /\ Scaled
    /\ Goto("volume")
    /\ UNCHANGED <<cluster, seen, outdated>>

\* Mistake: the claim gets the wanted size on top of what it has.
GrownTo == size + seen

\* What the patch sets.
ChangedSize == size

\* Mistake: the comparison is the wrong way round.
MustShrinkSwapped == size > seen

MustShrink == size < seen

\* Grown in place; deleted when it must shrink; NotFound is ignored.  A claim that was read
\* as a smaller one cannot be shrunk by the patch: the API server rejects it.
ChangeClaim ==
    /\ pc = "volume"
    /\ IF pvc > size /\ ~MustShrink
       THEN pc' = "idle" /\ Forget /\ UNCHANGED claim
       ELSE /\ SizeBecomes(IF pvc = 0 \/ MustShrink THEN pvc ELSE ChangedSize)
            /\ dying' = (dying \/ (pvc # 0 /\ MustShrink))
            /\ pc' = "delete" /\ UNCHANGED <<seen, outdated>>
    /\ UNCHANGED <<size, sts, pod, due, fails, upgrades>>

DeleteStatefulSet ==
    /\ pc = "delete"
    /\ sts' = NoStatefulSet
    /\ pod' = FALSE
    /\ Goto("apply")
    /\ UNCHANGED <<claim, seen, outdated>>

\* Mistake: the StatefulSet is created but never scaled up again.
ApplyChartKeepingReplicas ==
    /\ pc = "apply"
    /\ IF sts.exists /\ sts.size # size
       THEN UNCHANGED <<sts, due>>
       ELSE /\ sts' = [Fresh(size) EXCEPT !.replicas = sts.replicas]
            /\ due' = FALSE
    /\ pc' = "idle" /\ Forget
    /\ UNCHANGED <<size, claim, pod, fails, upgrades>>

\* The API server rejects another claim template: the call fails.
ApplyChart ==
    /\ pc = "apply"
    /\ IF sts.exists /\ sts.size # size
       THEN UNCHANGED <<sts, due>>
       ELSE sts' = Fresh(size) /\ due' = FALSE
    /\ pc' = "idle" /\ Forget
    /\ UNCHANGED <<size, claim, pod, fails, upgrades>>

\* A request fails, the wait times out or the process ends.
CallFails ==
    /\ pc # "idle"
    /\ fails < MaxFails
    /\ fails' = fails + 1
    /\ pc' = "idle" /\ Forget
    /\ UNCHANGED <<size, cluster, due, upgrades>>

\* The new version reconciles its resources; its informer lists the claim anew.
Upgrade ==
    /\ upgrades < MaxUpgrades
    /\ upgrades' = upgrades + 1
    /\ size' \in Sizes \ {size}
    /\ due' = TRUE
    /\ pc' = "idle" /\ Forget
    /\ behind' = <<>>
    /\ UNCHANGED <<pvc, dying, sts, pod, fails>>

\* gardenlet reconciles the seed, and with it the Logging resource of the garden.
Request ==
    /\ ~due
    /\ due' = TRUE
    /\ UNCHANGED <<size, cluster, pc, seen, outdated, fails, upgrades>>

----------------------------------------------------------------------------
(* Kubernetes. *)

call == <<size, due, pc, seen, outdated, fails, upgrades>>

\* The StatefulSet controller starts or stops the pod; a pod needs a claim, and does not
\* get one that is being deleted.
StatefulSetController ==
    /\ sts.exists
    /\ ~sts.observed
    /\ sts.replicas = 1 => ~dying
    /\ sts' = [sts EXCEPT !.observed = TRUE]
    /\ pod' = (sts.replicas = 1)
    /\ SizeBecomes(IF sts.replicas = 1 /\ pvc = 0 THEN sts.size ELSE pvc)
    /\ UNCHANGED <<call, dying>>

\* A claim that is being deleted stays as long as a pod uses it.
RemoveClaim ==
    /\ dying /\ ~pod
    /\ SizeBecomes(0)
    /\ dying' = FALSE
    /\ UNCHANGED <<call, sts, pod>>

\* The informer gets the next change of the claim.
Deliver ==
    /\ behind # <<>>
    /\ behind' = Tail(behind)
    /\ UNCHANGED <<call, pvc, dying, sts, pod>>

Actuator ==
    \/ Call \/ GetClaim \/ ScaleToZero \/ WaitUntilScaled \/ ChangeClaim
    \/ DeleteStatefulSet \/ ApplyChart

Next ==
    \/ Actuator \/ CallFails \/ Upgrade \/ Request
    \/ StatefulSetController \/ RemoveClaim \/ Deliver

Spec == Init /\ [][Next]_vars

\* A failed call is repeated (the work queue), and Kubernetes works.  New requests
\* are not needed for what is stated here.
FairSpec ==
    /\ Spec
    /\ WF_vars(Actuator) /\ WF_vars(StatefulSetController)
    /\ WF_vars(RemoveClaim) /\ WF_vars(Deliver)

----------------------------------------------------------------------------
LokiRuns ==
    /\ pod /\ pvc = size /\ ~dying
    /\ sts.exists /\ sts.size = size /\ sts.replicas = 1

(***************************************************************************)
(* A claim in use is never changed or deleted, wherever a call fails and a *)
(* new one or a new version of the code starts, and however old the claim  *)
(* is that the call has read: Loki is stopped before.                      *)
(***************************************************************************)
ChangedOnlyDetached == [][pvc # 0 /\ <<pvc, dying>>' # <<pvc, dying>> => ~pod]_vars

(***************************************************************************)
(* Logs are dropped only when the volume must shrink: a claim that is as   *)
(* small as the code wants it, or smaller, is deleted by nobody but a call *)
(* that has read it as it was before its last change, or while Kubernetes  *)
(* was still deleting it.                                                  *)
(***************************************************************************)
DroppedOnlyToShrink == [][~dying /\ dying' => size < pvc \/ outdated]_vars

\* The claim was changed or deleted, and the StatefulSet not deleted any more.
Interrupted ==
    /\ sts.exists /\ sts.size # size /\ sts.replicas = 0
    /\ dying \/ pvc \in {0, size}

\* Nothing is left of the call that was interrupted, nor has another one stopped Loki.
Stranded == Interrupted /\ pc \in {"idle", "get", "apply"}

(***************************************************************************)
(* A resize that was interrupted there is not repaired by repeating the    *)
(* call, once the cache has the claim as it is now: each call finds it as  *)
(* it wants it and sends the same StatefulSet.  Of the steps modelled here *)
(* only a version that wants another size, or a call that still reads the  *)
(* claim as it was before, gets out (Delete would as well).                *)
(***************************************************************************)
OnlyUpgradeRepairs ==
    [][Stranded /\ ~Stranded' => size' # size \/ outdated']_vars

(***************************************************************************)
(* Whatever fails, Loki runs in the end, with a volume of the wanted size, *)
(* except after a call that failed between the change of the claim and the *)
(* deletion of the StatefulSet.                                            *)
(***************************************************************************)
RunsOrInterrupted == due ~> LokiRuns \/ Interrupted

(***************************************************************************)
(* Whatever fails, a reconciliation is completed in the end: Loki runs with*)
(* a claim of the size that the code wants.                                *)
(***************************************************************************)
ResizeCompletes == <>[]LokiRuns

=============================================================================
