-------------------------- MODULE SeedActuatorProofs --------------------------
(***************************************************************************)
(* Proofs about the resize of Loki's volume (SeedLokiVolume), for any      *)
(* sizes, failures and upgrades and any lag of the cache: a claim in use is*)
(* never changed, and a call that has read the claim of now deletes it only*)
(* to shrink it.  Then the whole call of the seed actuator, with the       *)
(* ConfigMaps it reads and the chart it applies, is shown to take the steps*)
(* of SeedLokiVolume as far as the volume is concerned: what is proved of  *)
(* the resize holds of the call.  Last, what the call configures: the      *)
(* sorted listing of the ConfigMaps and what is rendered from it, for any  *)
(* ConfigMaps of any length.  The library has no induction that could be   *)
(* used here, so each one is about a set: of the numbers for which the fact*)
(* holds (Upwards).                                                        *)
(***************************************************************************)
EXTENDS SeedActuator, FiniteSetTheorems, SequenceTheorems, TLAPS

\* Unless the cache was behind or the claim on its way out, the claim that the call has
\* read is the one that it will change.
ClaimIsSeen ==
  pc \in {"scale", "wait", "volume"} /\ ~outdated => seen = pvc /\ pvc # 0 /\ ~dying

\* Loki is stopped, and the controller has nothing left to do about it.
Detached == pc = "volume" => sts.observed /\ ~pod

\* There is no pod without a StatefulSet.
PodIsOwned == ~sts.exists => sts.observed /\ ~pod

IInv == TypeOK /\ ClaimIsSeen /\ Detached /\ PodIsOwned

----------------------------------------------------------------------------
(* The types. *)

LEMMA FreshType ==
  \A s \in Sizes : Fresh(s) \in StatefulSet /\ [Fresh(s) EXCEPT !.observed = TRUE] \in StatefulSet
  BY DEF Fresh, StatefulSet

LEMMA InitType == Init => TypeOK
<1>1. SUFFICES ASSUME Init PROVE TypeOK
  OBVIOUS
<1>2. sts \in StatefulSet \cup {NoStatefulSet}
  <2>1. CASE sts = NoStatefulSet
    BY <2>1
  <2>2. CASE sts # NoStatefulSet
    BY <1>1, <2>2, FreshType DEF Init
  <2>3. QED BY <2>1, <2>2
<1>3. pod \in BOOLEAN /\ due \in BOOLEAN
  BY <1>1, Zenon DEF Init
<1>4. fails \in 0 .. MaxFails /\ upgrades \in 0 .. MaxUpgrades
  BY <1>1, VolumeAssumption DEF Init
<1>5. behind \in Seq(Sizes \cup {0}) /\ seen \in Sizes \cup {0}
  BY <1>1 DEF Init
<1>6. dying \in BOOLEAN /\ outdated \in BOOLEAN
  BY <1>1, Zenon DEF Init
<1>7. QED
  BY <1>1, <1>2, <1>3, <1>4, <1>5, <1>6, Zenon DEF Init, TypeOK

LEMMA CachedType == TypeOK => Cached \in Sizes \cup {0}
<1>1. SUFFICES ASSUME TypeOK PROVE Cached \in Sizes \cup {0}
  OBVIOUS
<1>2. CASE behind = <<>>
  BY <1>1, <1>2 DEF TypeOK, Cached
<1>3. CASE behind # <<>>
  BY <1>1, <1>3 DEF TypeOK, Cached
<1>4. QED
  BY <1>2, <1>3

LEMMA SizeType ==
  ASSUME TypeOK, NEW s \in Sizes \cup {0}, SizeBecomes(s)
  PROVE  pvc' \in Sizes \cup {0} /\ behind' \in Seq(Sizes \cup {0})
<1>1. pvc \in Sizes \cup {0} /\ behind \in Seq(Sizes \cup {0})
  BY DEF TypeOK
<1>2. Append(behind, pvc) \in Seq(Sizes \cup {0})
  BY <1>1
<1>3. QED
  BY <1>1, <1>2 DEF SizeBecomes

LEMMA ScaledDown ==
  \A s \in StatefulSet : [s EXCEPT !.replicas = 0, !.observed = FALSE] \in StatefulSet
  BY DEF StatefulSet

LEMMA SeenByController ==
  \A s \in StatefulSet : [s EXCEPT !.observed = TRUE] \in StatefulSet
  BY DEF StatefulSet

LEMMA StatefulSetExists == \A s \in StatefulSet \cup {NoStatefulSet} : s.exists => s \in StatefulSet
  BY DEF NoStatefulSet

LEMMA NextType == TypeOK /\ [Next]_vars => TypeOK'
<1>1. SUFFICES ASSUME TypeOK, [Next]_vars PROVE TypeOK'
  OBVIOUS
<1>2. CASE Call
  BY <1>1, <1>2 DEF TypeOK, Call, Goto, Forget, cluster, claim
<1>3. CASE GetClaim
  <2>1. seen' \in Sizes \cup {0} /\ outdated' \in BOOLEAN
    BY <1>1, <1>3, CachedType DEF GetClaim
  <2>2. pc' \in {"scale", "apply"}
    BY <1>3 DEF GetClaim, Goto
  <2>3. QED
    BY <1>1, <1>3, <2>1, <2>2 DEF TypeOK, GetClaim, Goto, cluster, claim
<1>4. CASE ScaleToZero
  <2>1. CASE sts.exists
    BY <1>1, <1>4, <2>1, StatefulSetExists, ScaledDown DEF TypeOK, ScaleToZero, Goto, claim
  <2>2. CASE ~sts.exists
    BY <1>1, <1>4, <2>2 DEF TypeOK, ScaleToZero, Goto, claim
  <2>3. QED BY <2>1, <2>2
<1>5. CASE WaitUntilScaled
  BY <1>1, <1>5 DEF TypeOK, WaitUntilScaled, Goto, cluster, claim
<1>6. CASE ChangeClaim
  <2>1. CASE pvc > size /\ ~MustShrink
    BY <1>1, <1>6, <2>1 DEF TypeOK, ChangeClaim, Forget, claim
  <2>2. CASE ~(pvc > size /\ ~MustShrink)
    <3>1. pvc' \in Sizes \cup {0} /\ behind' \in Seq(Sizes \cup {0})
      <4>1. PICK s \in {pvc, size} : SizeBecomes(s)
        BY <1>6, <2>2 DEF ChangeClaim, ChangedSize
      <4>2. s \in Sizes \cup {0}
        BY <1>1 DEF TypeOK
      <4>3. QED
        BY <1>1, <4>1, <4>2, SizeType
    <3>2. dying' \in BOOLEAN /\ pc' = "delete" /\ UNCHANGED <<seen, outdated>>
      BY <1>6, <2>2 DEF ChangeClaim
    <3>3. UNCHANGED <<size, sts, pod, due, fails, upgrades>>
      BY <1>6 DEF ChangeClaim
    <3>4. QED
      BY <1>1, <3>1, <3>2, <3>3 DEF TypeOK
  <2>3. QED BY <2>1, <2>2
<1>7. CASE DeleteStatefulSet
  BY <1>1, <1>7 DEF TypeOK, DeleteStatefulSet, Goto, claim
<1>8. CASE ApplyChart
  BY <1>1, <1>8, FreshType DEF TypeOK, ApplyChart, Forget, claim
<1>9. CASE CallFails
  <2>1. fails' \in 0 .. MaxFails
    BY <1>1, <1>9, VolumeAssumption DEF TypeOK, CallFails
  <2>2. pc' = "idle" /\ seen' = 0 /\ outdated' = FALSE
    BY <1>9 DEF CallFails, Forget
  <2>3. UNCHANGED <<size, pvc, dying, behind, sts, pod, due, upgrades>>
    BY <1>9 DEF CallFails, cluster, claim
  <2>4. QED
    BY <1>1, <2>1, <2>2, <2>3, Zenon DEF TypeOK
<1>10. CASE Upgrade
  <2>1. upgrades' \in 0 .. MaxUpgrades
    BY <1>1, <1>10, VolumeAssumption DEF TypeOK, Upgrade
  <2>2. size' \in Sizes /\ due' \in BOOLEAN
    BY <1>10 DEF Upgrade
  <2>3. behind' \in Seq(Sizes \cup {0})
    BY <1>10 DEF Upgrade
  <2>4. pc' = "idle" /\ seen' = 0 /\ outdated' \in BOOLEAN
    BY <1>10 DEF Upgrade, Forget
  <2>5. UNCHANGED <<pvc, dying, sts, pod, fails>>
    BY <1>10 DEF Upgrade
  <2>6. QED
    BY <1>1, <2>1, <2>2, <2>3, <2>4, <2>5 DEF TypeOK
<1>11. CASE StatefulSetController
  <2>1. sts \in StatefulSet
    BY <1>1, <1>11, StatefulSetExists DEF TypeOK, StatefulSetController
  <2>2. sts' \in StatefulSet
    BY <1>11, <2>1, SeenByController DEF StatefulSetController
  <2>3. pvc' \in Sizes \cup {0} /\ behind' \in Seq(Sizes \cup {0})
    <3>1. PICK s \in {pvc, sts.size} : SizeBecomes(s)
      BY <1>11 DEF StatefulSetController
    <3>2. s \in Sizes \cup {0}
      BY <1>1, <2>1 DEF TypeOK, StatefulSet
    <3>3. QED
      BY <1>1, <3>1, <3>2, SizeType
  <2>4. pod' \in BOOLEAN /\ UNCHANGED <<size, due, pc, seen, outdated, fails, upgrades, dying>>
    BY <1>11 DEF StatefulSetController, call
  <2>5. QED
    BY <1>1, <2>2, <2>3, <2>4 DEF TypeOK
<1>12. CASE RemoveClaim
  <2>1. pvc' \in Sizes \cup {0} /\ behind' \in Seq(Sizes \cup {0})
    BY <1>1, <1>12, SizeType DEF RemoveClaim
  <2>2. QED
    BY <1>1, <1>12, <2>1 DEF TypeOK, RemoveClaim, call
<1>13. CASE Deliver
  BY <1>1, <1>13 DEF TypeOK, Deliver, call
<1>14. CASE Request
  BY <1>1, <1>14 DEF TypeOK, Request, cluster, claim
<1>15. CASE UNCHANGED vars
  BY <1>1, <1>15 DEF TypeOK, vars, cluster, claim
<1>16. QED
  BY <1>1, <1>2, <1>3, <1>4, <1>5, <1>6, <1>7, <1>8, <1>9, <1>10, <1>11, <1>12, <1>13,
     <1>14, <1>15
  DEF Next, Actuator

(***************************************************************************)
(* Every variable keeps its type, for any sizes.                           *)
(***************************************************************************)
THEOREM TypeCorrect == Spec => []TypeOK
  BY InitType, NextType, PTL DEF Spec

----------------------------------------------------------------------------
(* The invariant. *)

LEMMA InitInv == Init => IInv
<1>1. SUFFICES ASSUME Init PROVE ClaimIsSeen /\ Detached /\ PodIsOwned
  BY InitType DEF IInv
<1>2. ~sts.exists => sts = NoStatefulSet /\ ~pod
  BY <1>1 DEF Init, Fresh
<1>3. QED
  BY <1>1, <1>2 DEF Init, ClaimIsSeen, Detached, PodIsOwned, NoStatefulSet

LEMMA NextInv == IInv /\ [Next]_vars => IInv'
<1>1. SUFFICES ASSUME IInv, [Next]_vars PROVE (ClaimIsSeen /\ Detached /\ PodIsOwned)'
  BY NextType DEF IInv
<1>2. CASE Call
  BY <1>1, <1>2 DEF IInv, ClaimIsSeen, Detached, PodIsOwned, Call, Goto, cluster, claim
<1>3. CASE GetClaim
  BY <1>1, <1>3
  DEF IInv, ClaimIsSeen, Detached, PodIsOwned, GetClaim, Cached, Goto, cluster, claim
<1>4. CASE ScaleToZero
  <2>1. CASE sts.exists
    <3>1. sts'.exists
      BY <1>1, <1>4, <2>1, StatefulSetExists DEF IInv, TypeOK, ScaleToZero, StatefulSet
    <3>2. QED
      BY <1>1, <1>4, <2>1, <3>1
      DEF IInv, ClaimIsSeen, Detached, PodIsOwned, ScaleToZero, Goto, claim
  <2>2. CASE ~sts.exists
    BY <1>1, <1>4, <2>2
    DEF IInv, ClaimIsSeen, Detached, PodIsOwned, ScaleToZero, Goto, claim
  <2>3. QED BY <2>1, <2>2
<1>5. CASE WaitUntilScaled
  BY <1>1, <1>5
  DEF IInv, ClaimIsSeen, Detached, PodIsOwned, WaitUntilScaled, Scaled, Goto, cluster, claim
<1>6. CASE ChangeClaim
  <2>1. pc' \in {"idle", "delete"} /\ UNCHANGED <<sts, pod>>
    BY <1>6 DEF ChangeClaim
  <2>2. QED
    BY <1>1, <2>1 DEF IInv, ClaimIsSeen, Detached, PodIsOwned
<1>7. CASE DeleteStatefulSet
  BY <1>1, <1>7
  DEF IInv, ClaimIsSeen, Detached, PodIsOwned, DeleteStatefulSet, Goto, NoStatefulSet
<1>8. CASE ApplyChart
  BY <1>1, <1>8 DEF IInv, ClaimIsSeen, Detached, PodIsOwned, ApplyChart, Fresh
<1>9. CASE CallFails
  BY <1>1, <1>9 DEF IInv, ClaimIsSeen, Detached, PodIsOwned, CallFails, cluster
<1>10. CASE Upgrade
  BY <1>1, <1>10 DEF IInv, ClaimIsSeen, Detached, PodIsOwned, Upgrade
<1>11. CASE StatefulSetController
  <2>1. sts'.exists
    BY <1>1, <1>11, StatefulSetExists DEF IInv, TypeOK, StatefulSetController, StatefulSet
  <2>2. pc # "volume"
    BY <1>1, <1>11 DEF IInv, Detached, StatefulSetController
  <2>3. UNCHANGED <<pc, seen, outdated, dying>> /\ (pvc # 0 => pvc' = pvc)
    BY <1>11 DEF StatefulSetController, SizeBecomes, call
  <2>4. QED
    BY <1>1, <2>1, <2>2, <2>3 DEF IInv, ClaimIsSeen, Detached, PodIsOwned
<1>12. CASE RemoveClaim
  BY <1>1, <1>12 DEF IInv, ClaimIsSeen, Detached, PodIsOwned, RemoveClaim, call
<1>13. CASE Deliver
  BY <1>1, <1>13 DEF IInv, ClaimIsSeen, Detached, PodIsOwned, Deliver, call
<1>14. CASE Request
  BY <1>1, <1>14 DEF IInv, ClaimIsSeen, Detached, PodIsOwned, Request, cluster, claim
<1>15. CASE UNCHANGED vars
  BY <1>1, <1>15 DEF IInv, ClaimIsSeen, Detached, PodIsOwned, vars, cluster, claim
<1>16. QED
  BY <1>1, <1>2, <1>3, <1>4, <1>5, <1>6, <1>7, <1>8, <1>9, <1>10, <1>11, <1>12, <1>13,
     <1>14, <1>15
  DEF Next, Actuator

(***************************************************************************)
(* The invariant holds wherever calls fail and versions change, however far*)
(* the cache is behind: a call that has read the claim of now finds that   *)
(* claim when it changes it, and each call finds Loki stopped then.        *)
(***************************************************************************)
THEOREM Invariance == Spec => []IInv
  BY InitInv, NextInv, PTL DEF Spec

----------------------------------------------------------------------------
(* The claim. *)

\* Only the resize changes a claim that exists, and Kubernetes removes a deleted one.
LEMMA ClaimChanges ==
  /\ [Next]_vars /\ pvc # 0 /\ <<pvc, dying>>' # <<pvc, dying>> => ChangeClaim \/ RemoveClaim
  /\ [Next]_vars /\ ~dying /\ dying' => ChangeClaim
  BY DEF Next, Actuator, Call, GetClaim, ScaleToZero, WaitUntilScaled, DeleteStatefulSet,
         ApplyChart, CallFails, Upgrade, Request, StatefulSetController, SizeBecomes, Deliver,
         RemoveClaim, Goto, Forget, call, cluster, claim, vars

(***************************************************************************)
(* A claim in use is never changed or deleted: Loki is stopped before, for *)
(* any number of failures and upgrades and any lag of the cache.           *)
(***************************************************************************)
THEOREM DetachedFirst == Spec => ChangedOnlyDetached
<1>1. IInv /\ [Next]_vars => [pvc # 0 /\ <<pvc, dying>>' # <<pvc, dying>> => ~pod]_vars
  BY ClaimChanges DEF IInv, Detached, ChangeClaim, RemoveClaim
<1>2. QED
  BY <1>1, Invariance, PTL DEF Spec, ChangedOnlyDetached

(***************************************************************************)
(* A claim that is not larger than wanted is deleted only by a call that   *)
(* has read an outdated one: the wait for Loki's stop is between the read  *)
(* and the deletion, and nobody else changes the claim meanwhile.          *)
(***************************************************************************)
THEOREM DroppedToShrink == Spec => DroppedOnlyToShrink
<1>1. IInv /\ [Next]_vars => [~dying /\ dying' => size < pvc \/ outdated]_vars
  <2>1. SUFFICES ASSUME IInv, [Next]_vars, ~dying, dying', ~outdated PROVE size < pvc
    OBVIOUS
  <2>2. ChangeClaim /\ pc = "volume" /\ MustShrink
    <3>1. ChangeClaim
      BY <2>1, ClaimChanges
    <3>2. QED
      BY <2>1, <3>1 DEF ChangeClaim, claim
  <2>3. seen = pvc
    BY <2>1, <2>2 DEF IInv, ClaimIsSeen
  <2>4. QED
    BY <2>2, <2>3 DEF MustShrink
<1>2. QED
  BY <1>1, Invariance, PTL DEF Spec, DroppedOnlyToShrink

----------------------------------------------------------------------------
(* An interrupted resize. *)

(***************************************************************************)
(* Calls that are repeated do not repair a resize that was interrupted     *)
(* between the change of the claim and the deletion of the StatefulSet,    *)
(* except one that still reads the claim as it was before, or as it is     *)
(* deleted: any other leaves out the deletion of the StatefulSet, since the*)
(* claim has the size it wants or is gone.  Kubernetes only removes the    *)
(* claim, and makes no new one for a StatefulSet without replicas.         *)
(***************************************************************************)
THEOREM RepetitionIsInVain == Spec => OnlyUpgradeRepairs
<1>1. TypeOK /\ [Next]_vars => [Stranded /\ ~Stranded' => size' # size \/ outdated']_vars
  <2>1. SUFFICES ASSUME TypeOK, [Next]_vars, Stranded, size' = size, ~outdated'
                 PROVE  Stranded'
    OBVIOUS
  <2>2. CASE Call \/ CallFails \/ Request \/ UNCHANGED vars
    BY <2>1, <2>2 DEF Stranded, Interrupted, Call, CallFails, Request, Goto, Forget,
                      cluster, claim, vars
  <2>3. CASE GetClaim
    <3>1. behind = <<>> /\ ~dying
      BY <2>1, <2>3 DEF GetClaim
    <3>2. Cached \in {0, size}
      BY <2>1, <3>1 DEF Cached, Stranded, Interrupted
    <3>3. QED
      BY <2>1, <2>3, <3>2 DEF Stranded, Interrupted, GetClaim, Goto, cluster, claim
  <2>4. CASE ApplyChart
    BY <2>1, <2>4 DEF Stranded, Interrupted, ApplyChart, claim
  <2>5. CASE StatefulSetController
    <3>1. sts \in StatefulSet
      BY <2>1, StatefulSetExists DEF TypeOK, Stranded, Interrupted
    <3>2. sts'.exists /\ sts'.size = sts.size /\ sts'.replicas = sts.replicas
      BY <2>5, <3>1 DEF StatefulSetController, StatefulSet
    <3>3. UNCHANGED <<pvc, dying, pc>>
      BY <2>1, <2>5 DEF StatefulSetController, SizeBecomes, Stranded, Interrupted, call
    <3>4. QED
      BY <2>1, <3>2, <3>3 DEF Stranded, Interrupted
  <2>6. CASE RemoveClaim
    BY <2>1, <2>6 DEF Stranded, Interrupted, RemoveClaim, SizeBecomes, call
  <2>7. CASE Deliver
    BY <2>1, <2>7 DEF Stranded, Interrupted, Deliver, call
  <2>8. CASE Upgrade
    BY <2>1, <2>8 DEF Upgrade
  <2>9. CASE ScaleToZero \/ WaitUntilScaled \/ ChangeClaim \/ DeleteStatefulSet
    BY <2>1, <2>9 DEF Stranded, ScaleToZero, WaitUntilScaled, ChangeClaim, DeleteStatefulSet
  <2>10. QED
    BY <2>1, <2>2, <2>3, <2>4, <2>5, <2>6, <2>7, <2>8, <2>9 DEF Next, Actuator
<1>2. QED
  BY <1>1, TypeCorrect, PTL DEF Spec, OnlyUpgradeRepairs

----------------------------------------------------------------------------
(* The whole call. *)

\* No event of a ConfigMap is admitted, so that nobody but gardenlet asks for a call.
LEMMA NothingAdmitted ==
  ASSUME NEW obj \in {"logging", "shoot-info"}, ConfigMapChanges(obj), due \in BOOLEAN
  PROVE  UNCHANGED vars
<1>1. ~IsWithLoggingLabelOrShootInfo(obj)
  BY DEF IsWithLoggingLabelOrShootInfo
<1>2. due' = due
  BY <1>1 DEF ConfigMapChanges
<1>3. QED
  BY <1>2 DEF ConfigMapChanges, vars

LEMMA SeedStep == TypeOK /\ [SeedNext]_seedVars => [Next]_vars
<1>1. SUFFICES ASSUME TypeOK, [SeedNext]_seedVars PROVE [Next]_vars
  OBVIOUS
<1>2. due \in BOOLEAN
  BY <1>1 DEF TypeOK
<1>3. CASE Resize
  BY <1>3 DEF Resize, Next, Actuator
<1>4. CASE ReadShootInfo \/ ListConfigMaps \/ ApplyFluentBit
  BY <1>4 DEF ReadShootInfo, ListConfigMaps, ApplyFluentBit
<1>5. CASE ApplyLoki
  BY <1>5 DEF ApplyLoki, Next, Actuator
<1>6. CASE Broken \/ Requested \/ Kubernetes
  BY <1>6 DEF Broken, Requested, Kubernetes, Next
<1>7. CASE ExtensionWrites
  BY <1>2, <1>7, NothingAdmitted DEF ExtensionWrites
<1>8. CASE ShootInfoChanges
  BY <1>2, <1>8, NothingAdmitted DEF ShootInfoChanges
<1>9. CASE UNCHANGED seedVars
  BY <1>9 DEF seedVars
<1>10. QED
  BY <1>1, <1>3, <1>4, <1>5, <1>6, <1>7, <1>8, <1>9 DEF SeedNext, Reconcile

LEMMA SeedTypes == SeedSpec => []TypeOK
<1>1. SeedInit => TypeOK
  BY InitType DEF SeedInit
<1>2. TypeOK /\ [SeedNext]_seedVars => TypeOK'
  BY SeedStep, NextType
<1>3. QED
  BY <1>1, <1>2, PTL DEF SeedSpec

(***************************************************************************)
(* The seed actuator implements the resize of Loki's volume: each of its   *)
(* steps is one of SeedLokiVolume or leaves the volume alone, for any      *)
(* ConfigMaps, hours and bounds.                                           *)
(***************************************************************************)
THEOREM ImplementsResize == SeedSpec => Spec
<1>1. SeedInit => Init
  BY DEF SeedInit
<1>2. QED
  BY <1>1, SeedStep, SeedTypes, PTL DEF SeedSpec, Spec

(***************************************************************************)
(* So the claim of a running Loki is never changed by the whole call; and  *)
(* only a call that has read an outdated claim, or one that was being      *)
(* deleted, drops its data other than to shrink it, or repairs an          *)
(* interrupted resize without a new version.                               *)
(***************************************************************************)
THEOREM ClaimKept ==
  SeedSpec => ChangedOnlyDetached /\ DroppedOnlyToShrink /\ OnlyUpgradeRepairs
  BY ImplementsResize, DetachedFirst, DroppedToShrink, RepetitionIsInVain, PTL

----------------------------------------------------------------------------
(* Induction, for sets that are given. *)

LEMMA LeastOf ==
  ASSUME NEW S \in SUBSET Nat, S # {}
  PROVE  \E n \in S : \A m \in S : n <= m
<1>1. PICK n \in S : \A m \in S : <<m, n>> \notin OpToRel(<, Nat)
  BY NatLessThanWellFounded, WFMin
<1>2. \A m \in S : ~(m < n)
  BY <1>1 DEF OpToRel
<1>3. QED
  BY <1>2

LEMMA Upwards ==
  ASSUME NEW S, 0 \in S, \A n \in Nat : n \in S => n + 1 \in S
  PROVE  \A n \in Nat : n \in S
<1>1. SUFFICES ASSUME Nat \ S # {} PROVE FALSE
  OBVIOUS
<1>2. PICK n \in Nat \ S : \A m \in Nat \ S : n <= m
  BY <1>1, LeastOf
<1>3. n # 0 /\ n - 1 \in Nat /\ ~(n <= n - 1) /\ (n - 1) + 1 = n
  BY <1>2
<1>4. n - 1 \in S
  BY <1>2, <1>3
<1>5. QED
  BY <1>2, <1>3, <1>4

\* From a function on 1 .. n to a sequence.
LEMMA FunctionIsSeq ==
  ASSUME NEW n \in Nat, NEW S, NEW f \in [1 .. n -> S]
  PROVE  f \in Seq(S) /\ Len(f) = n /\ DOMAIN f = 1 .. n
  OBVIOUS

----------------------------------------------------------------------------
(* The order of the elements of a set. *)

IsAscending(s) == \A i, j \in DOMAIN s : i < j => s[i] < s[j]

LEMMA AscendingExists ==
  \A S \in SUBSET Nat : IsFiniteSet(S) => \E s \in SetToSeqs(S) : IsAscending(s)
<1> DEFINE Good == {n \in Nat : \A S \in SUBSET Nat : IsFiniteSet(S) /\ Cardinality(S) = n
                                   => \E s \in SetToSeqs(S) : IsAscending(s)}
<1>1. 0 \in Good
  <2>1. SUFFICES ASSUME NEW S \in SUBSET Nat, IsFiniteSet(S), Cardinality(S) = 0
                 PROVE  \E s \in SetToSeqs(S) : IsAscending(s)
    OBVIOUS
  <2> DEFINE s == [i \in 1 .. 0 |-> 0]
  <2>2. s \in [1 .. 0 -> S] /\ DOMAIN s = {}
    OBVIOUS
  <2>3. s \in SetToSeqs(S) /\ IsAscending(s)
    BY <2>1, <2>2 DEF SetToSeqs, IsAscending
  <2>4. QED
    BY <2>3
<1>2. ASSUME NEW n \in Nat, n \in Good PROVE n + 1 \in Good
  <2>1. SUFFICES ASSUME NEW S \in SUBSET Nat, IsFiniteSet(S), Cardinality(S) = n + 1
                 PROVE  \E s \in SetToSeqs(S) : IsAscending(s)
    OBVIOUS
  <2>2. S # {}
    BY <2>1, FS_EmptySet
  <2>3. PICK m \in S : \A k \in S : m <= k
    BY <2>2, LeastOf
  <2>4. /\ IsFiniteSet(S \ {m}) /\ Cardinality(S \ {m}) = n
        /\ S \ {m} \in SUBSET Nat
    BY <2>1, FS_RemoveElement
  <2>5. PICK t \in SetToSeqs(S \ {m}) : IsAscending(t)
    BY <1>2, <2>4
  <2>6. /\ t \in [1 .. n -> S \ {m}]
        /\ \A i, j \in 1 .. n : i < j => t[i] < t[j]
    BY <2>4, <2>5 DEF SetToSeqs, IsAscending
  <2> DEFINE s == [i \in 1 .. n + 1 |-> IF i = 1 THEN m ELSE t[i - 1]]
  <2>7. \A i \in 2 .. n + 1 : i - 1 \in 1 .. n /\ t[i - 1] \in S \ {m} /\ m < t[i - 1]
    <3>1. SUFFICES ASSUME NEW i \in 2 .. n + 1
                   PROVE  i - 1 \in 1 .. n /\ t[i - 1] \in S \ {m} /\ m < t[i - 1]
      OBVIOUS
    <3>2. i - 1 \in 1 .. n
      OBVIOUS
    <3>3. t[i - 1] \in S \ {m}
      BY <2>6, <3>2
    <3>4. m <= t[i - 1] /\ m \in Nat /\ t[i - 1] \in Nat /\ t[i - 1] # m
      BY <2>1, <2>3, <3>3
    <3>5. QED
      BY <3>2, <3>3, <3>4
  <2>8. s \in [1 .. n + 1 -> S]
    BY <2>7
  <2>9. \A i, j \in 1 .. n + 1 : i < j => s[i] < s[j]
    <3>1. SUFFICES ASSUME NEW i \in 1 .. n + 1, NEW j \in 1 .. n + 1, i < j
                   PROVE  s[i] < s[j]
      OBVIOUS
    <3>2. j \in 2 .. n + 1 /\ s[j] = t[j - 1]
      BY <3>1
    <3>3. CASE i = 1
      BY <2>7, <3>2, <3>3
    <3>4. CASE i # 1
      <4>1. i \in 2 .. n + 1 /\ s[i] = t[i - 1] /\ i - 1 < j - 1
        BY <3>1, <3>4
      <4>2. QED
        BY <2>6, <2>7, <3>2, <4>1
    <3>5. QED
      BY <3>3, <3>4
  <2>10. \A i, j \in 1 .. n + 1 : i # j => s[i] # s[j]
    <3>1. SUFFICES ASSUME NEW i \in 1 .. n + 1, NEW j \in 1 .. n + 1, i # j, s[i] = s[j]
                   PROVE  FALSE
      OBVIOUS
    <3>2. s[i] \in Nat /\ s[j] \in Nat
      BY <2>8, <2>1
    <3>3. i < j \/ j < i
      BY <3>1
    <3> HIDE DEF s
    <3>4. QED
      BY <2>9, <3>1, <3>2, <3>3
  <2> HIDE DEF s
  <2>11. s \in SetToSeqs(S)
    BY <2>1, <2>8, <2>10 DEF SetToSeqs
  <2>12. IsAscending(s)
    <3>1. DOMAIN s = 1 .. n + 1
      BY <2>8
    <3>2. QED
      BY <2>9, <3>1 DEF IsAscending
  <2>13. QED
    BY <2>11, <2>12
<1>3. \A n \in Nat : n \in Good
  <2> HIDE DEF Good
  <2>1. QED
    BY <1>1, <1>2, Upwards
<1>4. SUFFICES ASSUME NEW S \in SUBSET Nat, IsFiniteSet(S)
               PROVE  \E s \in SetToSeqs(S) : IsAscending(s)
  OBVIOUS
<1>5. Cardinality(S) \in Nat
  BY <1>4, FS_CardinalityType
<1>6. QED
  BY <1>3, <1>4, <1>5

LEMMA AscendingFacts ==
  ASSUME NEW S \in SUBSET Nat, IsFiniteSet(S)
  PROVE  /\ Cardinality(S) \in Nat
         /\ Ascending(S) \in [1 .. Cardinality(S) -> S]
         /\ \A i, j \in 1 .. Cardinality(S) : i # j => Ascending(S)[i] # Ascending(S)[j]
         /\ \A x \in S : \E i \in 1 .. Cardinality(S) : Ascending(S)[i] = x
<1> DEFINE n == Cardinality(S)
           s == Ascending(S)
<1>1. n \in Nat
  BY FS_CardinalityType
<1>2. s \in SetToSeqs(S)
  <2>1. \E f \in SetToSeqs(S) : \A i, j \in DOMAIN f : i < j => f[i] < f[j]
    BY AscendingExists DEF IsAscending
  <2>2. QED
    BY <2>1 DEF Ascending
<1>3. s \in [1 .. n -> S] /\ \A i, j \in 1 .. n : i # j => s[i] # s[j]
  BY <1>2 DEF SetToSeqs
<1> HIDE DEF s
<1>4. s \in Injection(1 .. n, S)
  BY <1>3 DEF Injection, IsInjective
<1>5. Cardinality(1 .. n) = n
  BY <1>1, FS_Interval
<1>6. s \in Surjection(1 .. n, S)
  BY <1>4, <1>5, FS_Injection
<1>7. QED
  BY <1>1, <1>3, <1>6 DEF Surjection, s

----------------------------------------------------------------------------
(* The filters of one ConfigMap. *)

Kept == [name : Names, kind : {"plain", "modify"}]
ConfigMap == [name : Names, content : Contents]

NamedIn(s, n) == {i \in DOMAIN s : s[i].name = n}

LEMMA ContentIsSeq == \A c \in Contents : c \in Seq(Kinds)
  BY SeedAssumption

LEMMA PositionsFinite ==
  ASSUME NEW X, NEW s \in Seq(X), NEW P, P \subseteq DOMAIN s
  PROVE  P \in SUBSET Nat /\ IsFiniteSet(P)
<1>1. DOMAIN s = 1 .. Len(s) /\ Len(s) \in Nat
  BY LenProperties
<1>2. IsFiniteSet(1 .. Len(s))
  BY <1>1, FS_Interval
<1>3. P \in SUBSET (1 .. Len(s))
  BY <1>1
<1>4. QED
  BY <1>2, <1>3, FS_Subset

LEMMA RewrittenFacts ==
  \A k \in Kinds : /\ Rewritten(k) = "skip" <=> k = "unmatched"
                   /\ k # "unmatched" => Rewritten(k) \in {"plain", "modify"}
  BY DEF Rewritten, Kinds

\* None is lost, and none is named or kept wrongly.
LEMMA FiltersOfFacts ==
  ASSUME NEW cm \in ConfigMap
  PROVE  /\ FiltersOf(cm) \in Seq(Kept)
         /\ \A n : /\ IsFiniteSet(NamedIn(FiltersOf(cm), n))
                  /\ Cardinality(NamedIn(FiltersOf(cm), n))
                     = IF n = cm.name THEN Cardinality(KeptOf(cm.content)) ELSE 0
<1> DEFINE kinds == [i \in DOMAIN cm.content |-> Rewritten(cm.content[i])]
           P == {i \in DOMAIN kinds : kinds[i] # "skip"}
           kept == Ascending(P)
           m == Cardinality(P)
           F == FiltersOf(cm)
<1>1. cm.name \in Names /\ cm.content \in Seq(Kinds)
  BY ContentIsSeq DEF ConfigMap
<1>2. \A i \in DOMAIN cm.content : cm.content[i] \in Kinds
  BY <1>1, LenProperties, ElementOfSeq
<1>3. P = KeptOf(cm.content)
  BY <1>2, RewrittenFacts DEF KeptOf
<1>4. P \in SUBSET Nat /\ IsFiniteSet(P)
  <2>1. P \subseteq DOMAIN cm.content
    OBVIOUS
  <2> HIDE DEF P
  <2>2. QED
    BY <1>1, <2>1, PositionsFinite
<1>5. F = [k \in DOMAIN kept |-> [name |-> cm.name, kind |-> kinds[kept[k]]]]
  BY DEF FiltersOf
<1>6. \A i \in P : kinds[i] \in {"plain", "modify"}
  BY <1>2, <1>3, RewrittenFacts DEF KeptOf
<1> HIDE DEF P, kinds, F
<1>7. m \in Nat /\ kept \in [1 .. m -> P]
  BY <1>4, AscendingFacts
<1> HIDE DEF kept, m
<1>8. F \in [1 .. m -> Kept]
  BY <1>1, <1>5, <1>6, <1>7 DEF Kept
<1>9. F \in Seq(Kept) /\ DOMAIN F = 1 .. m
  BY <1>7, <1>8, FunctionIsSeq
<1>10. NamedIn(F, cm.name) = 1 .. m
  BY <1>5, <1>7 DEF NamedIn
<1>11. \A n : n # cm.name => NamedIn(F, n) = {}
  BY <1>5, <1>7 DEF NamedIn
<1>12. IsFiniteSet(1 .. m) /\ Cardinality(1 .. m) = m
  BY <1>7, FS_Interval
<1>13. m = Cardinality(KeptOf(cm.content))
  BY <1>3 DEF m
<1>14. \A n : /\ IsFiniteSet(NamedIn(F, n))
             /\ Cardinality(NamedIn(F, n)) = IF n = cm.name THEN m ELSE 0
  BY <1>10, <1>11, <1>12, FS_EmptySet
<1>15. QED
  BY <1>9, <1>13, <1>14 DEF F

----------------------------------------------------------------------------
(* Sequences put together. *)

LEMMA NamedInConcat ==
  ASSUME NEW X, NEW s \in Seq(X), NEW t \in Seq(X), NEW n
  PROVE  /\ IsFiniteSet(NamedIn(s, n)) /\ IsFiniteSet(NamedIn(t, n))
         /\ IsFiniteSet(NamedIn(s \o t, n))
         /\ Cardinality(NamedIn(s \o t, n)) = Cardinality(NamedIn(s, n)) + Cardinality(NamedIn(t, n))
<1> DEFINE A == NamedIn(s, n)
           B == NamedIn(t, n)
           C == {i + Len(s) : i \in B}
<1>1. /\ Len(s) \in Nat /\ DOMAIN s = 1 .. Len(s)
      /\ Len(t) \in Nat /\ DOMAIN t = 1 .. Len(t)
  BY LenProperties
<1>2. /\ s \o t \in Seq(X) /\ Len(s \o t) = Len(s) + Len(t)
      /\ DOMAIN (s \o t) = 1 .. Len(s) + Len(t)
      /\ \A i \in 1 .. Len(s) + Len(t) :
            (s \o t)[i] = IF i <= Len(s) THEN s[i] ELSE t[i - Len(s)]
  BY ConcatProperties, LenProperties
<1>3. IsFiniteSet(A) /\ IsFiniteSet(B) /\ A \subseteq 1 .. Len(s) /\ B \subseteq 1 .. Len(t)
  BY <1>1, PositionsFinite DEF NamedIn
<1>4. NamedIn(s \o t, n) = A \cup C
  <2>1. ASSUME NEW i \in NamedIn(s \o t, n) PROVE i \in A \cup C
    <3>1. i \in 1 .. Len(s) + Len(t) /\ (s \o t)[i].name = n
      BY <1>2, <2>1 DEF NamedIn
    <3>2. CASE i <= Len(s)
      BY <1>1, <1>2, <3>1, <3>2 DEF NamedIn
    <3>3. CASE ~(i <= Len(s))
      <4>1. i - Len(s) \in 1 .. Len(t) /\ i = (i - Len(s)) + Len(s)
        BY <1>1, <3>1, <3>3
      <4>2. i - Len(s) \in B
        BY <1>1, <1>2, <3>1, <3>3, <4>1 DEF NamedIn
      <4>3. QED
        BY <4>1, <4>2
    <3>4. QED
      BY <3>2, <3>3
  <2>2. ASSUME NEW i \in A PROVE i \in NamedIn(s \o t, n)
    <3>1. i \in 1 .. Len(s) /\ s[i].name = n
      BY <1>1, <2>2 DEF NamedIn
    <3>2. i \in 1 .. Len(s) + Len(t) /\ i <= Len(s)
      BY <1>1, <3>1
    <3>3. QED
      BY <1>2, <3>1, <3>2 DEF NamedIn
  <2>3. ASSUME NEW i \in C PROVE i \in NamedIn(s \o t, n)
    <3>1. PICK j \in B : i = j + Len(s)
      BY <2>3
    <3>2. j \in 1 .. Len(t) /\ t[j].name = n
      BY <1>1 DEF NamedIn
    <3>3. i \in 1 .. Len(s) + Len(t) /\ ~(i <= Len(s)) /\ i - Len(s) = j
      BY <1>1, <3>1, <3>2
    <3>4. QED
      BY <1>2, <3>2, <3>3 DEF NamedIn
  <2>4. QED
    BY <2>1, <2>2, <2>3
<1>5. A \cap C = {}
  BY <1>1, <1>3
<1>6. IsFiniteSet(C) /\ Cardinality(C) = Cardinality(B)
  <2> DEFINE f == [i \in B |-> i + Len(s)]
  <2>1. f \in Surjection(B, C)
    BY DEF Surjection
  <2>2. f \in Injection(B, C)
    BY <1>1, <1>3 DEF Injection, IsInjective
  <2>3. ExistsBijection(B, C)
    BY <2>1, <2>2 DEF ExistsBijection, Bijection
  <2>4. QED
    BY <1>3, <2>3, FS_Bijection
<1> HIDE DEF A, B, C
<1>7. Cardinality(A) \in Nat /\ Cardinality(B) \in Nat
  BY <1>3, FS_CardinalityType
<1>8. /\ IsFiniteSet(A \cup C)
      /\ Cardinality(A \cup C) = Cardinality(A) + Cardinality(C) - Cardinality(A \cap C)
  BY <1>3, <1>6, FS_Union
<1>9. Cardinality(A \cap C) = 0
  BY <1>5, FS_EmptySet
<1>10. Cardinality(A \cup C) = Cardinality(A) + Cardinality(B)
  BY <1>6, <1>7, <1>8, <1>9
<1>11. QED
  BY <1>3, <1>4, <1>8, <1>10 DEF A, B

\* Flattening is a recursion that has a solution.
LEMMA FlattenFacts ==
  ASSUME NEW X, NEW ss \in Seq(Seq(X)), Len(ss) # 0
  PROVE  \E f \in [1 .. Len(ss) -> Seq(X)] :
            /\ f[1] = ss[1]
            /\ \A i \in 2 .. Len(ss) : f[i] = f[i - 1] \o ss[i]
            /\ FlattenSeq(ss) = f[Len(ss)]
<1> DEFINE n == Len(ss)
           Solves(f, k) == \A i \in 1 .. k : f[i] = IF i = 1 THEN ss[i] ELSE f[i - 1] \o ss[i]
           Good == {k \in Nat : k <= n => \E f \in [1 .. k -> Seq(X)] : Solves(f, k)}
<1>1. n \in Nat \ {0} /\ \A i \in 1 .. n : ss[i] \in Seq(X)
  BY LenProperties, ElementOfSeq
<1>2. 0 \in Good
  <2> DEFINE f == [i \in 1 .. 0 |-> <<>>]
  <2>1. f \in [1 .. 0 -> Seq(X)] /\ Solves(f, 0)
    OBVIOUS
  <2> HIDE DEF f, Solves
  <2>2. QED
    BY <2>1
<1>3. ASSUME NEW k \in Nat, k \in Good PROVE k + 1 \in Good
  <2>1. SUFFICES ASSUME k + 1 <= n
                 PROVE  \E f \in [1 .. k + 1 -> Seq(X)] : Solves(f, k + 1)
    <3> HIDE DEF Solves
    <3>1. QED
      OBVIOUS
  <2>2. PICK f \in [1 .. k -> Seq(X)] : Solves(f, k)
    <3>1. k <= n
      BY <1>1, <2>1
    <3> HIDE DEF Solves
    <3>2. QED
      BY <1>3, <3>1
  <2> DEFINE x == IF k = 0 THEN ss[1] ELSE f[k] \o ss[k + 1]
             g == [i \in 1 .. k + 1 |-> IF i = k + 1 THEN x ELSE f[i]]
  <2>3. x \in Seq(X)
    <3>1. CASE k = 0
      BY <1>1, <3>1
    <3>2. CASE k # 0
      <4>1. f[k] \in Seq(X) /\ ss[k + 1] \in Seq(X)
        BY <1>1, <2>1, <3>2
      <4>2. QED
        BY <3>2, <4>1, ConcatProperties
    <3>3. QED
      BY <3>1, <3>2
  <2>4. \A i \in 1 .. k + 1 : i # k + 1 => i \in 1 .. k
    OBVIOUS
  <2>5. g \in [1 .. k + 1 -> Seq(X)]
    BY <2>3, <2>4
  <2>6. ASSUME NEW i \in 1 .. k + 1
        PROVE  g[i] = IF i = 1 THEN ss[i] ELSE g[i - 1] \o ss[i]
    <3>1. CASE i = k + 1
      <4>1. CASE k = 0
        BY <3>1, <4>1
      <4>2. CASE k # 0
        <5>1. k \in 1 .. k + 1 /\ k # k + 1 /\ i # 1 /\ i - 1 = k
          BY <3>1, <4>2
        <5>2. g[k] = f[k] /\ g[i] = x
          BY <3>1, <5>1
        <5>3. QED
          BY <3>1, <4>2, <5>1, <5>2
      <4>3. QED
        BY <4>1, <4>2
    <3>2. CASE i # k + 1
      <4>1. i \in 1 .. k /\ g[i] = f[i]
        BY <2>4, <3>2
      <4>2. f[i] = IF i = 1 THEN ss[i] ELSE f[i - 1] \o ss[i]
        BY <2>2, <4>1
      <4>3. i # 1 => i - 1 \in 1 .. k + 1 /\ i - 1 # k + 1
        BY <4>1
      <4>4. i # 1 => g[i - 1] = f[i - 1]
        BY <4>3
      <4>5. QED
        BY <4>1, <4>2, <4>4
    <3>3. QED
      BY <3>1, <3>2
  <2> HIDE DEF g
  <2>7. Solves(g, k + 1)
    BY <2>6
  <2> HIDE DEF Solves
  <2>8. QED
    BY <2>5, <2>7
<1>4. PICK g \in [1 .. n -> Seq(X)] : Solves(g, n)
  <2>1. n \in Good
    <3> HIDE DEF Good
    <3>1. QED
      BY <1>1, <1>2, <1>3, Upwards
  <2> HIDE DEF Solves
  <2>2. QED
    BY <1>1, <2>1
<1> DEFINE Step(f) == [i \in 1 .. n |-> IF i = 1 THEN ss[i] ELSE f[i - 1] \o ss[i]]
           f == CHOOSE f : f = Step(f)
<1>5. f = Step(f)
  <2>1. g = Step(g)
    BY <1>4
  <2> HIDE DEF Step
  <2>2. QED
    BY <2>1
<1>6. FlattenSeq(ss) = f[n]
  BY <1>1 DEF FlattenSeq
<1> HIDE DEF f
<1>7. DOMAIN f = 1 .. n /\ Solves(f, n)
  <2>1. \A h : h = Step(f) => DOMAIN h = 1 .. n /\ \A i \in 1 .. n : h[i] = IF i = 1 THEN ss[i] ELSE f[i - 1] \o ss[i]
    OBVIOUS
  <2> HIDE DEF Step
  <2>2. QED
    BY <1>5, <2>1
<1> HIDE DEF Step
<1>8. f[1] = ss[1] /\ \A i \in 2 .. n : f[i] = f[i - 1] \o ss[i]
  <2>1. 1 \in 1 .. n /\ \A i \in 2 .. n : i \in 1 .. n /\ i # 1
    BY <1>1
  <2>2. f[1] = ss[1]
    BY <1>7, <2>1
  <2>3. \A i \in 2 .. n : f[i] = f[i - 1] \o ss[i]
    BY <1>7, <2>1
  <2>4. QED
    BY <2>2, <2>3
<1> DEFINE Typed == {k \in Nat : k \in 1 .. n => f[k] \in Seq(X)}
<1>9. ASSUME NEW k \in Nat, k \in Typed PROVE k + 1 \in Typed
  <2>1. SUFFICES ASSUME k + 1 \in 1 .. n PROVE f[k + 1] \in Seq(X)
    OBVIOUS
  <2>2. CASE k = 0
    BY <1>1, <1>8, <2>2
  <2>3. CASE k # 0
    <3>1. k \in 1 .. n /\ k + 1 \in 2 .. n /\ (k + 1) - 1 = k
      BY <1>1, <2>1, <2>3
    <3>2. f[k + 1] = f[k] \o ss[k + 1] /\ f[k] \in Seq(X) /\ ss[k + 1] \in Seq(X)
      BY <1>1, <1>8, <1>9, <2>1, <3>1
    <3>3. QED
      BY <3>2, ConcatProperties
  <2>4. QED
    BY <2>2, <2>3
<1>10. \A k \in 1 .. n : f[k] \in Seq(X)
  <2>1. 0 \in Typed
    OBVIOUS
  <2>2. \A k \in Nat : k \in Typed
    <3> HIDE DEF Typed
    <3>1. QED
      BY <1>9, <2>1, Upwards
  <2>3. QED
    BY <2>2
<1>11. f \in [1 .. n -> Seq(X)]
  <2>1. f = [i \in 1 .. n |-> f[i]]
    <3> HIDE DEF Solves
    <3>1. \A h : h = Step(f) => h = [i \in 1 .. n |-> h[i]]
      BY DEF Step
    <3>2. QED
      BY <1>5, <3>1
  <2>2. QED
    BY <1>10, <2>1
<1>12. QED
  BY <1>6, <1>8, <1>11

----------------------------------------------------------------------------
(* The listing of the ConfigMaps. *)

Written(c) == {n \in Names : c[n] # <<>>}

Listing(c) ==
  LET names == Ascending(Written(c))
  IN [i \in DOMAIN names |-> [name |-> names[i], content |-> c[names[i]]]]

LEMMA WrittenFinite ==
  ASSUME NEW c
  PROVE  Written(c) \in SUBSET Nat /\ Written(c) \in SUBSET Names /\ IsFiniteSet(Written(c))
<1>1. Written(c) \in SUBSET Names
  BY DEF Written
<1>2. QED
  BY <1>1, SeedAssumption, FS_Subset

LEMMA ListingFacts ==
  ASSUME NEW c \in [Names -> Contents]
  PROVE  /\ Cardinality(Written(c)) \in Nat
         /\ Listing(c) \in Seq(ConfigMap)
         /\ Len(Listing(c)) = Cardinality(Written(c))
         /\ DOMAIN Listing(c) = 1 .. Cardinality(Written(c))
         /\ \A i \in DOMAIN Listing(c) :
               Listing(c)[i] = [name |-> Ascending(Written(c))[i],
                                content |-> c[Ascending(Written(c))[i]]]
         /\ \A i, j \in DOMAIN Listing(c) : i # j => Listing(c)[i].name # Listing(c)[j].name
         /\ \A n \in Written(c) : \E i \in DOMAIN Listing(c) : Listing(c)[i].name = n
<1> DEFINE W == Written(c)
           N == Cardinality(W)
           names == Ascending(W)
           L == Listing(c)
<1>1. W \in SUBSET Nat /\ W \in SUBSET Names /\ IsFiniteSet(W)
  BY WrittenFinite
<1>2. /\ N \in Nat /\ names \in [1 .. N -> W]
      /\ \A i, j \in 1 .. N : i # j => names[i] # names[j]
      /\ \A x \in W : \E i \in 1 .. N : names[i] = x
  BY <1>1, AscendingFacts
<1>3. L = [i \in 1 .. N |-> [name |-> names[i], content |-> c[names[i]]]]
  BY <1>2 DEF Listing
<1> HIDE DEF L, names, W, N
<1>4. \A i \in 1 .. N : names[i] \in Names
  BY <1>1, <1>2
<1>5. L \in [1 .. N -> ConfigMap]
  BY <1>3, <1>4 DEF ConfigMap
<1>6. L \in Seq(ConfigMap) /\ Len(L) = N /\ DOMAIN L = 1 .. N
  BY <1>2, <1>5, FunctionIsSeq
<1>7. /\ \A i \in 1 .. N : L[i] = [name |-> names[i], content |-> c[names[i]]]
      /\ \A i, j \in 1 .. N : i # j => L[i].name # L[j].name
      /\ \A n \in W : \E i \in 1 .. N : L[i].name = n
  BY <1>2, <1>3
<1>8. QED
  BY <1>2, <1>6, <1>7 DEF L, names, W, N

\* Each ConfigMap in it is found by its name.
LEMMA InListing ==
  ASSUME NEW c \in [Names -> Contents]
  PROVE  /\ \A cm \in Range(Listing(c)) : cm.name \in Written(c) /\ cm.content = c[cm.name]
         /\ \A n \in Written(c) : \E cm \in Range(Listing(c)) : cm.name = n
<1>1. \A i \in DOMAIN Listing(c) : Ascending(Written(c))[i] \in Written(c)
  BY WrittenFinite, AscendingFacts, ListingFacts
<1>2. QED
  BY <1>1, ListingFacts DEF Range

LEMMA ReadListing ==
  ASSUME NEW c \in [Names -> Contents]
  PROVE  Read(Listing(c)) = c
<1> DEFINE R == Range(Listing(c))
<1>1. ASSUME NEW n \in Names
      PROVE  (IF \E cm \in R : cm.name = n THEN (CHOOSE cm \in R : cm.name = n).content ELSE <<>>)
             = c[n]
  <2>1. CASE \E cm \in R : cm.name = n
    <3>1. /\ (CHOOSE cm \in R : cm.name = n) \in R
          /\ (CHOOSE cm \in R : cm.name = n).name = n
      BY <2>1
    <3>2. QED
      BY <2>1, <3>1, InListing
  <2>2. CASE ~\E cm \in R : cm.name = n
    BY <2>2, InListing DEF Written
  <2>3. QED
    BY <2>1, <2>2
<1>2. QED
  BY <1>1 DEF Read

\* Whatever the order of the answer, the sorted list is the listing.
LEMMA SortedListing ==
  ASSUME cms \in [Names -> Contents], NEW order \in SetToSeqs(Existing)
  PROVE  ByName([i \in DOMAIN order |-> [name |-> order[i], content |-> cms[order[i]]]])
         = Listing(cms)
<1> DEFINE W == Written(cms)
           N == Cardinality(W)
           l == [i \in DOMAIN order |-> [name |-> order[i], content |-> cms[order[i]]]]
           names == Ascending(W)
<1>1. Existing = W
  BY DEF Existing, Written
<1>2. W \in SUBSET Nat /\ IsFiniteSet(W) /\ N \in Nat
  BY WrittenFinite, FS_CardinalityType
<1>3. order \in [1 .. N -> W] /\ \A i, j \in 1 .. N : i # j => order[i] # order[j]
  BY <1>1 DEF SetToSeqs
<1>4. \A n \in W : \E i \in 1 .. N : order[i] = n
  <2>1. order \in Injection(1 .. N, W)
    BY <1>3 DEF Injection, IsInjective
  <2>2. Cardinality(1 .. N) = N
    BY <1>2, FS_Interval
  <2>3. order \in Surjection(1 .. N, W)
    BY <1>2, <2>1, <2>2, FS_Injection
  <2>4. QED
    BY <2>3 DEF Surjection
<1> HIDE DEF W, N
<1>5. /\ \A n \in W : [name |-> n, content |-> cms[n]] \in Range(l)
      /\ \A cm \in Range(l) : \E n \in W : cm = [name |-> n, content |-> cms[n]]
  BY <1>3, <1>4 DEF Range
<1> HIDE DEF l
<1> DEFINE R == Range(l)
<1>6. \A cm \in R : cm.name \in W /\ cm = [name |-> cm.name, content |-> cms[cm.name]]
  <2>1. SUFFICES ASSUME NEW cm \in R
                 PROVE  cm.name \in W /\ cm = [name |-> cm.name, content |-> cms[cm.name]]
    OBVIOUS
  <2>2. PICK n \in W : cm = [name |-> n, content |-> cms[n]]
    BY <1>5
  <2>3. cm.name = n
    BY <2>2
  <2>4. QED
    BY <2>2, <2>3
<1>7. \A n \in W : \E cm \in R : cm.name = n
  <2>1. SUFFICES ASSUME NEW n \in W PROVE \E cm \in R : cm.name = n
    OBVIOUS
  <2>2. [name |-> n, content |-> cms[n]] \in R /\ [name |-> n, content |-> cms[n]].name = n
    BY <1>5
  <2>3. QED
    BY <2>2
<1> HIDE DEF R
<1>8. {cm.name : cm \in R} = W
  BY <1>6, <1>7
<1>9. names \in [1 .. N -> W]
  BY <1>2, AscendingFacts DEF N
<1>10. ByName(l) = [i \in 1 .. N |-> CHOOSE cm \in R : cm.name = names[i]]
  <2>1. DOMAIN names = 1 .. N
    BY <1>9
  <2> DEFINE sorted(S) == [i \in DOMAIN Ascending(S) |->
                              CHOOSE cm \in R : cm.name = Ascending(S)[i]]
  <2>2. ByName(l) = [i \in DOMAIN names |-> CHOOSE cm \in R : cm.name = names[i]]
    <3>1. ByName(l) = sorted({cm.name : cm \in R})
      BY DEF ByName, R
    <3>2. sorted(W) = [i \in DOMAIN names |-> CHOOSE cm \in R : cm.name = names[i]]
      OBVIOUS
    <3> HIDE DEF sorted, names
    <3>3. QED
      BY <1>8, <3>1, <3>2
  <2>3. QED
    BY <2>1, <2>2
<1> HIDE DEF names
<1>11. ASSUME NEW i \in 1 .. N
       PROVE  (CHOOSE cm \in R : cm.name = names[i])
              = [name |-> names[i], content |-> cms[names[i]]]
  <2>1. names[i] \in W
    BY <1>9
  <2>2. \E cm \in R : cm.name = names[i]
    BY <1>7, <2>1
  <2>3. /\ (CHOOSE cm \in R : cm.name = names[i]) \in R
        /\ (CHOOSE cm \in R : cm.name = names[i]).name = names[i]
    BY <2>2
  <2>4. QED
    BY <1>6, <2>3
<1>12. ByName(l) = [i \in 1 .. N |-> [name |-> names[i], content |-> cms[names[i]]]]
  BY <1>10, <1>11
<1>13. Listing(cms) = [i \in 1 .. N |-> [name |-> names[i], content |-> cms[names[i]]]]
  BY <1>9 DEF Listing, names, W
<1>14. QED
  BY <1>12, <1>13 DEF l

----------------------------------------------------------------------------
(* What is rendered from a listing. *)

\* The filters of the ConfigMaps, put together: none is lost and none is added.
LEMMA FlattenedFacts ==
  ASSUME NEW c \in [Names -> Contents]
  PROVE  LET F == FlattenSeq([i \in DOMAIN Listing(c) |-> FiltersOf(Listing(c)[i])])
         IN /\ F \in Seq(Kept)
            /\ \A n \in Names : Cardinality(NamedIn(F, n)) = Cardinality(KeptOf(c[n]))
<1> DEFINE L == Listing(c)
           N == Cardinality(Written(c))
           ss == [i \in DOMAIN L |-> FiltersOf(L[i])]
           F == FlattenSeq(ss)
           Count(n) == Cardinality(KeptOf(c[n]))
<1>1. /\ N \in Nat /\ DOMAIN L = 1 .. N
      /\ \A i \in 1 .. N : /\ L[i] \in ConfigMap /\ L[i].name \in Names
                           /\ L[i].content = c[L[i].name]
      /\ \A i, j \in 1 .. N : i # j => L[i].name # L[j].name
      /\ \A n \in Written(c) : \E i \in 1 .. N : L[i].name = n
  <2>1. N \in Nat /\ DOMAIN L = 1 .. N /\ L \in Seq(ConfigMap) /\ Len(L) = N
    BY ListingFacts
  <2>2. \A i \in 1 .. N : L[i] \in ConfigMap
    BY <2>1, ElementOfSeq
  <2>3. \A i \in 1 .. N : L[i].name \in Names /\ L[i].content = c[L[i].name]
    BY <2>1, <2>2, ListingFacts DEF ConfigMap
  <2>4. QED
    BY <2>1, <2>2, <2>3, ListingFacts
<1>2. \A n \in Names : n \notin Written(c) => Count(n) = 0
  <2>1. SUFFICES ASSUME NEW n \in Names, n \notin Written(c) PROVE Count(n) = 0
    OBVIOUS
  <2>2. c[n] = <<>>
    BY <2>1 DEF Written
  <2>3. KeptOf(c[n]) = {}
    BY <2>2 DEF KeptOf
  <2>4. QED
    BY <2>3, FS_EmptySet
<1>3. \A n \in Names : Count(n) \in Nat
  <2>1. SUFFICES ASSUME NEW n \in Names PROVE Count(n) \in Nat
    OBVIOUS
  <2>2. c[n] \in Seq(Kinds) /\ KeptOf(c[n]) \subseteq DOMAIN c[n]
    BY ContentIsSeq DEF KeptOf
  <2>3. IsFiniteSet(KeptOf(c[n]))
    BY <2>2, PositionsFinite
  <2>4. QED
    BY <2>3, FS_CardinalityType
<1> HIDE DEF L, N
<1>4. ss \in [1 .. N -> Seq(Kept)]
  BY <1>1, FiltersOfFacts
<1>5. ss \in Seq(Seq(Kept)) /\ Len(ss) = N
  BY <1>1, <1>4, FunctionIsSeq
<1>6. \A i \in 1 .. N, n \in Names : /\ ss[i] \in Seq(Kept)
                                   /\ Cardinality(NamedIn(ss[i], n)) = IF n = L[i].name THEN Count(n) ELSE 0
  BY <1>1, FiltersOfFacts
<1> HIDE DEF ss, F
<1>7. CASE N = 0
  <2>1. F = ss /\ ss = <<>>
    BY <1>5, <1>7, EmptySeq DEF FlattenSeq, F
  <2>2. F \in Seq(Kept) /\ \A n : NamedIn(F, n) = {}
    BY <2>1 DEF NamedIn
  <2>3. Written(c) = {}
    BY <1>1, <1>7
  <2>4. QED
    BY <1>2, <2>2, <2>3, FS_EmptySet DEF F, ss, L
<1>8. CASE N # 0
  <2>1. PICK f \in [1 .. N -> Seq(Kept)] :
           /\ f[1] = ss[1]
           /\ \A i \in 2 .. N : f[i] = f[i - 1] \o ss[i]
           /\ F = f[N]
    BY <1>5, <1>8, FlattenFacts DEF F
  <2> DEFINE Seen(k, n) == \E j \in 1 .. k : L[j].name = n
             Counted(k) == \A n \in Names : Cardinality(NamedIn(f[k], n)) = IF Seen(k, n) THEN Count(n) ELSE 0
             Good == {k \in Nat : k \in 1 .. N => Counted(k)}
  <2>2. 0 \in Good
    OBVIOUS
  <2>3. ASSUME NEW k \in Nat, k \in Good PROVE k + 1 \in Good
    <3>1. SUFFICES ASSUME k + 1 \in 1 .. N, NEW n \in Names
                   PROVE  Cardinality(NamedIn(f[k + 1], n)) = IF Seen(k + 1, n) THEN Count(n) ELSE 0
      OBVIOUS
    <3>2. CASE k = 0
      <4>1. Seen(k + 1, n) <=> L[1].name = n
        BY <3>2
      <4> HIDE DEF Seen, Count
      <4>2. 1 \in 1 .. N /\ f[k + 1] = ss[1]
        BY <2>1, <3>1, <3>2
      <4>3. QED
        BY <1>6, <4>1, <4>2
    <3>3. CASE k # 0
      <4>1. k \in 1 .. N /\ k + 1 \in 2 .. N /\ (k + 1) - 1 = k
        BY <1>1, <3>1, <3>3
      <4>2. Seen(k + 1, n) <=> Seen(k, n) \/ L[k + 1].name = n
        BY <4>1
      <4>3. ~(Seen(k, n) /\ L[k + 1].name = n)
        BY <1>1, <3>1, <4>1
      <4>4. Cardinality(NamedIn(f[k], n)) = IF Seen(k, n) THEN Count(n) ELSE 0
        BY <2>3, <4>1
      <4> HIDE DEF Seen, Count
      <4>5. Cardinality(NamedIn(ss[k + 1], n)) = IF n = L[k + 1].name THEN Count(n) ELSE 0
        BY <1>6, <3>1
      <4>6. /\ f[k] \in Seq(Kept) /\ ss[k + 1] \in Seq(Kept)
            /\ f[k + 1] = f[k] \o ss[k + 1]
        BY <1>6, <2>1, <3>1, <4>1
      <4>7. Cardinality(NamedIn(f[k + 1], n)) = Cardinality(NamedIn(f[k], n)) + Cardinality(NamedIn(ss[k + 1], n))
        BY <4>6, NamedInConcat
      <4>8. QED
        BY <1>3, <4>2, <4>3, <4>4, <4>5, <4>7
    <3>4. QED
      BY <3>2, <3>3
  <2>4. Counted(N)
    <3>1. N \in Good
      <4> HIDE DEF Good
      <4>1. QED
        BY <1>1, <2>2, <2>3, Upwards
    <3>2. N \in 1 .. N
      BY <1>1, <1>8
    <3> HIDE DEF Counted
    <3>3. QED
      BY <3>1, <3>2
  <2>5. \A n \in Names : Seen(N, n) \/ Count(n) = 0
    BY <1>1, <1>2
  <2>6. F \in Seq(Kept)
    BY <1>1, <1>8, <2>1
  <2>7. \A n \in Names : Cardinality(NamedIn(F, n)) = Count(n)
    <3> HIDE DEF Seen, Count
    <3>1. QED
      BY <2>1, <2>4, <2>5
  <2>8. QED
    BY <2>6, <2>7 DEF F, ss, L
<1>9. QED
  BY <1>7, <1>8

LEMMA EventFilterFacts ==
  /\ EventFilter \in Seq(Filter)
  /\ \A n \in Names : NamedIn(EventFilter, n) = {}
<1>1. 0 \notin Names
  BY SeedAssumption
<1>2. CASE EventLogging
  BY <1>1, <1>2 DEF EventFilter, Filter, Names0, NamedIn
<1>3. CASE ~EventLogging
  BY <1>3, EmptySeq DEF EventFilter, NamedIn
<1>4. QED
  BY <1>2, <1>3

LEMMA KeptIsFilter == Seq(Kept) \subseteq Seq(Filter)
<1>1. Kept \subseteq Filter
  BY DEF Kept, Filter, Names0
<1>2. QED
  BY <1>1

LEMMA RenderedFacts ==
  ASSUME NEW c \in [Names -> Contents]
  PROVE  LET F == AdditionalFilters(Listing(c))
         IN /\ F \in Seq(Filter)
            /\ \A n \in Names :
                  /\ \A i \in NamedIn(F, n) : F[i].kind \in {"plain", "modify"}
                  /\ Cardinality(NamedIn(F, n)) = Cardinality(KeptOf(c[n]))
<1> DEFINE E == EventFilter
           G == FlattenSeq([i \in DOMAIN Listing(c) |-> FiltersOf(Listing(c)[i])])
           F == AdditionalFilters(Listing(c))
<1>1. F = E \o G
  BY DEF AdditionalFilters
<1>2. /\ G \in Seq(Kept)
      /\ \A n \in Names : Cardinality(NamedIn(G, n)) = Cardinality(KeptOf(c[n]))
  BY FlattenedFacts
<1>3. E \in Seq(Filter) /\ \A n \in Names : NamedIn(E, n) = {}
  BY EventFilterFacts
<1> HIDE DEF E, G, F
<1>4. G \in Seq(Filter)
  BY <1>2, KeptIsFilter
<1>5. F \in Seq(Filter)
  BY <1>1, <1>3, <1>4, ConcatProperties
<1>6. ASSUME NEW n \in Names, NEW i \in NamedIn(F, n)
      PROVE  F[i].kind \in {"plain", "modify"}
  <2>1. /\ i \in 1 .. Len(E) + Len(G) /\ F[i].name = n
        /\ F[i] = IF i <= Len(E) THEN E[i] ELSE G[i - Len(E)]
    BY <1>1, <1>3, <1>4, <1>6, ConcatProperties, LenProperties DEF NamedIn
  <2>2. /\ Len(E) \in Nat /\ DOMAIN E = 1 .. Len(E)
        /\ Len(G) \in Nat /\ DOMAIN G = 1 .. Len(G)
    BY <1>2, <1>3, LenProperties
  <2>3. ~(i <= Len(E))
    <3>1. ~\E j \in DOMAIN E : E[j].name = n
      BY <1>3 DEF NamedIn
    <3>2. QED
      BY <2>1, <2>2, <3>1
  <2>4. i - Len(E) \in DOMAIN G
    BY <2>1, <2>2, <2>3
  <2>5. F[i] \in Kept
    BY <1>2, <2>1, <2>2, <2>3, <2>4, ElementOfSeq
  <2>6. QED
    BY <2>5 DEF Kept
<1>7. ASSUME NEW n \in Names
      PROVE  Cardinality(NamedIn(F, n)) = Cardinality(KeptOf(c[n]))
  <2>1. /\ IsFiniteSet(NamedIn(G, n))
        /\ Cardinality(NamedIn(F, n)) = Cardinality(NamedIn(E, n)) + Cardinality(NamedIn(G, n))
    BY <1>1, <1>3, <1>4, NamedInConcat
  <2>2. Cardinality(NamedIn(E, n)) = 0
    BY <1>3, FS_EmptySet
  <2>3. Cardinality(NamedIn(G, n)) \in Nat
    BY <2>1, FS_CardinalityType
  <2>4. QED
    BY <1>2, <2>1, <2>2, <2>3
<1>8. QED
  BY <1>5, <1>6, <1>7 DEF F

----------------------------------------------------------------------------
(* The invariant of the configuration. *)

\* What the call holds is the listing of a content that the garden has had.
ListIsRead ==
  stage \in {"fluentbit", "loki"} => \E c \in [Names -> Contents] : list = Listing(c)

\* What runs is what is rendered from that listing, for whatever was applied last.
Rendered == filters # <<>> => filters = AdditionalFilters(Listing(applied))

SeedInv == SeedTypeOK /\ ListIsRead /\ Rendered

LEMMA NoContent == [n \in Names |-> <<>>] \in [Names -> Contents]
  BY SeedAssumption

LEMMA HourFacts == /\ \A h \in Hours \cup {-1} : h # -1 => AddHour(h) \in 0 .. 23
                   /\ DefaultHour \in 0 .. 23
  BY SeedAssumption DEF AddHour, DefaultHour

LEMMA SeedInitInv == SeedInit => SeedInv
<1>1. SUFFICES ASSUME SeedInit PROVE SeedInv
  OBVIOUS
<1>2. SeedTypeOK
  BY <1>1, NoContent, HourFacts, SeedAssumption, EmptySeq DEF SeedInit, SeedTypeOK
<1>3. ListIsRead /\ Rendered
  BY <1>1 DEF SeedInit, ListIsRead, Rendered
<1>4. QED
  BY <1>2, <1>3 DEF SeedInv

\* Steps that leave the configuration alone, and what is written of it to its owners.
LEMMA OwnersInv ==
  ASSUME SeedInv, ExtensionWrites \/ ShootInfoChanges
  PROVE  SeedInv'
<1>1. UNCHANGED <<stage, list, hour, filters, window, applied>>
  BY DEF ExtensionWrites, ShootInfoChanges, ConfigMapChanges
<1>2. changes' \in 0 .. MaxChanges
  BY SeedAssumption DEF SeedInv, SeedTypeOK, ExtensionWrites, ShootInfoChanges, ConfigMapChanges
<1>3. cms' \in [Names -> Contents]
  BY DEF SeedInv, SeedTypeOK, ExtensionWrites, ShootInfoChanges
<1>4. info' \in Hours \cup {-1}
  BY DEF SeedInv, SeedTypeOK, ExtensionWrites, ShootInfoChanges
<1>5. QED
  BY <1>1, <1>2, <1>3, <1>4 DEF SeedInv, SeedTypeOK, ListIsRead, Rendered

LEMMA ListInv ==
  ASSUME SeedInv, ListConfigMaps
  PROVE  SeedInv'
<1>1. PICK order \in SetToSeqs(Existing) :
         list' = ByName([i \in DOMAIN order |-> [name |-> order[i], content |-> cms[order[i]]]])
  BY DEF ListConfigMaps
<1>2. cms \in [Names -> Contents]
  BY DEF SeedInv, SeedTypeOK
<1>3. list' = Listing(cms)
  BY <1>1, <1>2, SortedListing
<1>4. list' \in Seq(ConfigMap)
  BY <1>2, <1>3, ListingFacts
<1>5. stage' = "fluentbit" /\ UNCHANGED <<cms, info, hour, filters, window, applied, changes>>
  BY DEF ListConfigMaps
<1>6. SeedTypeOK'
  BY <1>4, <1>5 DEF SeedInv, SeedTypeOK, ConfigMap
<1>7. ListIsRead'
  BY <1>2, <1>3 DEF ListIsRead
<1>8. Rendered'
  BY <1>5 DEF SeedInv, Rendered
<1>9. QED
  BY <1>6, <1>7, <1>8 DEF SeedInv

\* What is applied is a content that the call has read.
LEMMA FluentBitApplied ==
  ASSUME SeedInv, ApplyFluentBit
  PROVE  /\ list = Listing(applied') /\ applied' \in [Names -> Contents]
         /\ filters' = AdditionalFilters(Listing(applied'))
<1>1. PICK c \in [Names -> Contents] : list = Listing(c)
  BY DEF SeedInv, ListIsRead, ApplyFluentBit
<1>2. applied' = c
  BY <1>1, ReadListing DEF ApplyFluentBit
<1>3. QED
  BY <1>1, <1>2 DEF ApplyFluentBit

LEMMA FluentBitInv ==
  ASSUME SeedInv, ApplyFluentBit
  PROVE  SeedInv'
<1>1. /\ list = Listing(applied') /\ applied' \in [Names -> Contents]
      /\ filters' = AdditionalFilters(Listing(applied'))
  BY FluentBitApplied
<1>2. PICK c \in [Names -> Contents] : c = applied'
  BY <1>1
<1>3. filters' \in Seq(Filter)
  BY <1>1, <1>2, RenderedFacts
<1>4. stage' = "loki" /\ window' \in {hour, window} /\ UNCHANGED <<cms, info, list, hour, changes>>
  BY DEF ApplyFluentBit
<1>5. SeedTypeOK'
  BY <1>1, <1>3, <1>4 DEF SeedInv, SeedTypeOK
<1>6. ListIsRead' /\ Rendered'
  BY <1>1, <1>2, <1>4 DEF ListIsRead, Rendered
<1>7. QED
  BY <1>5, <1>6 DEF SeedInv

LEMMA SeedInvStep == SeedInv /\ [SeedNext]_seedVars => SeedInv'
<1>1. SUFFICES ASSUME SeedInv, [SeedNext]_seedVars PROVE SeedInv'
  OBVIOUS
<1>2. CASE UNCHANGED mine
  BY <1>1, <1>2 DEF mine, SeedInv, SeedTypeOK, ListIsRead, Rendered
<1>3. CASE ReadShootInfo
  <2>1. hour' \in 0 .. 23
    BY <1>1, <1>3, HourFacts DEF SeedInv, SeedTypeOK, ReadShootInfo
  <2>2. QED
    BY <1>1, <1>3, <2>1 DEF SeedInv, SeedTypeOK, ListIsRead, Rendered, ReadShootInfo
<1>4. CASE EndStage /\ UNCHANGED <<cms, info, filters, window, applied, changes>>
  BY <1>1, <1>4, HourFacts, EmptySeq
  DEF SeedInv, SeedTypeOK, ListIsRead, Rendered, EndStage
<1>5. CASE ListConfigMaps
  BY <1>1, <1>5, ListInv
<1>6. CASE ApplyFluentBit
  BY <1>1, <1>6, FluentBitInv
<1>7. CASE ExtensionWrites \/ ShootInfoChanges
  BY <1>1, <1>7, OwnersInv
<1>8. CASE Resize \/ Requested \/ Kubernetes \/ UNCHANGED seedVars
  BY <1>2, <1>8 DEF Resize, Requested, Kubernetes, seedVars
<1>9. CASE ApplyLoki \/ Broken
  BY <1>4, <1>9 DEF ApplyLoki, Broken
<1>10. QED
  BY <1>1, <1>3, <1>5, <1>6, <1>7, <1>8, <1>9 DEF SeedNext, Reconcile

(***************************************************************************)
(* Every variable of the call keeps its type, the list it works with is    *)
(* the sorted listing of the ConfigMaps it read, and the configuration is  *)
(* what is rendered from the one that was applied: for any names, contents *)
(* and hours, in whatever order the ConfigMaps are listed.                 *)
(***************************************************************************)
THEOREM SeedInvariance == SeedSpec => []SeedInv
  BY SeedInitInv, SeedInvStep, PTL DEF SeedSpec

(***************************************************************************)
(* In particular the types: the maintenance window is an hour of the day,  *)
(* and Fluent Bit has filters of known kinds only.                         *)
(***************************************************************************)
THEOREM SeedTypeCorrect == SeedSpec => []SeedTypeOK
<1>1. SeedInv => SeedTypeOK
  BY DEF SeedInv
<1>2. QED
  BY <1>1, SeedInvariance, PTL

LEMMA FiltersKnown == SeedInv => OnlyKnownFilters
<1>1. SUFFICES ASSUME SeedInv, filters # <<>>, NEW n \in Names
               PROVE  /\ \A i \in FiltersOfName(n) : filters[i].kind \in {"plain", "modify"}
                      /\ Cardinality(FiltersOfName(n)) = Cardinality(KeptOf(applied[n]))
  BY DEF OnlyKnownFilters
<1>2. applied \in [Names -> Contents] /\ filters = AdditionalFilters(Listing(applied))
  BY <1>1 DEF SeedInv, SeedTypeOK, Rendered
<1>3. FiltersOfName(n) = NamedIn(filters, n)
  BY DEF FiltersOfName, NamedIn
<1>4. QED
  BY <1>2, <1>3, RenderedFacts

(***************************************************************************)
(* No rewrite_tag filter reaches Fluent Bit, and of the other filters that *)
(* were read none is lost and none is written twice: for any number of     *)
(* ConfigMaps, of any length.                                              *)
(***************************************************************************)
THEOREM KnownFilters == SeedSpec => []OnlyKnownFilters
  BY FiltersKnown, SeedInvariance, PTL

\* Fluent Bit's configuration is written by one step.
LEMMA FiltersChange == [SeedNext]_seedVars /\ filters' # filters => ApplyFluentBit
  BY DEF SeedNext, Reconcile, Resize, ReadShootInfo, ListConfigMaps, ApplyLoki, Broken,
         Requested, Kubernetes, ExtensionWrites, ShootInfoChanges, ConfigMapChanges,
         mine, seedVars

(***************************************************************************)
(* Fluent Bit is reconfigured only when a ConfigMap has changed: the order *)
(* in which the API server lists them does not show in the configuration.  *)
(***************************************************************************)
THEOREM NothingIdle == SeedSpec => NoIdleChange
<1>1. SeedInv /\ [SeedNext]_seedVars
      => [filters' # filters => applied' # applied \/ filters = <<>>]_seedVars
  <2>1. SUFFICES ASSUME SeedInv, [SeedNext]_seedVars, filters' # filters, filters # <<>>
                 PROVE  applied' # applied
    OBVIOUS
  <2>2. filters' = AdditionalFilters(Listing(applied'))
    BY <2>1, FiltersChange, FluentBitApplied
  <2>3. filters = AdditionalFilters(Listing(applied))
    BY <2>1 DEF SeedInv, Rendered
  <2>4. QED
    BY <2>1, <2>2, <2>3
<1>2. QED
  BY <1>1, SeedInvariance, PTL DEF SeedSpec, NoIdleChange

=============================================================================
