--------------------------- MODULE SecretsRotation ---------------------------
(***************************************************************************)
(* The certificate with which a shoot's Loki is served to promtail on the  *)
(* nodes: the shoot actuator keeps a certificate authority (CA) and a      *)
(* server certificate ("leaf") with the secrets manager, hands the leaf to *)
(* the Ingress and the CA's bundle to promtail-config.  Rotation of the CA *)
(* goes in phases which gardenlet writes to the Shoot's status; it spans   *)
(* several calls, each of which may fail or die between two requests.      *)
(*                                                                         *)
(* A CA is its rotation time, which gives the secret its name, and its key.*)
(* A leaf is its name (signing CA and time of its own last renewal), and   *)
(* whether 80% of its validity are over.  The CAs and the leaves are       *)
(* listed in the order of their creation.  How promtail-config reaches the *)
(* nodes is the subject of NodeLogging; here they catch up at some time.   *)
(***************************************************************************)
EXTENDS Naturals, SequencesExt

CONSTANTS
    MaxRotations,  \* bound on the rotations
    MaxChanges,    \* bound on switching node logging and moving the control plane
    MaxFails       \* bound on failing or dying calls

ASSUME RotationAssumption ==
    MaxRotations \in Nat /\ MaxChanges \in Nat /\ MaxFails \in Nat

Phases == {"None", "Preparing", "Prepared", "Completing", "Completed"}

CA == [time : Nat, key : Nat]
Leaf == [ca : Nat, time : Nat, aged : BOOLEAN]
None == [ca |-> 0, time |-> 0]
NoUse == [phase |-> "None", time |-> 0]
NoStore == [cur |-> 0, old |-> 0, leafTime |-> 0]

VARIABLES
    phase, time,  \* of the rotation; time of the last initiation, 0 for none
    on,           \* is node logging enabled for the shoot?
    fate,         \* of the Logging resource: "kept", "delete" or "migrate"
    due,          \* must the actuator be called (again)?
    pc,           \* the next request of the call
    use,          \* phase and time in the Cluster that the call has read
    store,        \* the secrets manager's store: current and old CA, leaf's time
    cas, leaves,  \* the secrets
    saved,        \* the CAs in the ShootState while the control plane moves
    ingress,      \* the leaf whose name the Ingress has, or None
    config,       \* the keys in promtail-config
    node,         \* the keys in the nodes' ca.crt
    clean,        \* history: has a call completed the last rotation?
    changes, fails

vars == <<phase, time, on, fate, due, pc, use, store, cas, leaves, saved,
          ingress, config, node, clean, changes, fails>>
owner == <<phase, time, on, fate, saved, changes>>
secrets == <<cas, leaves>>

TypeOK ==
    /\ phase \in Phases /\ time \in Nat
    /\ on \in BOOLEAN /\ due \in BOOLEAN /\ clean \in BOOLEAN
    /\ fate \in {"kept", "delete", "migrate"}
    /\ pc \in {"idle", "ca", "leaf", "cleanup", "ingress", "config", "wait",
               "off", "erase", "chart", "resource"}
    /\ use \in [phase : Phases, time : Nat]
    /\ store \in [cur : Nat, old : Nat, leafTime : Nat]
    /\ cas \in Seq(CA) /\ saved \in Seq(CA) /\ leaves \in Seq(Leaf)
    /\ ingress \in [ca : Nat, time : Nat]
    /\ config \in SUBSET Nat /\ node \in SUBSET Nat
    /\ changes \in Nat /\ fails \in Nat

Init ==
    /\ phase = "None" /\ time = 0
    /\ on \in BOOLEAN /\ fate = "kept" /\ due = TRUE
    /\ pc = "idle" /\ use = NoUse /\ store = NoStore
    /\ cas = <<>> /\ leaves = <<>> /\ saved = <<>>
    /\ ingress = None /\ config = {} /\ node = {}
    /\ clean = FALSE /\ changes = 0 /\ fails = 0

----------------------------------------------------------------------------
(* gardenlet and time.  A phase ends after a served request.               *)

Served == pc = "idle" /\ ~due

NewPhase(from, to) ==
    /\ fate = "kept" /\ phase \in from
    /\ phase' = to
    /\ UNCHANGED <<on, fate, pc, use, store, secrets, saved, ingress, config,
                   node, changes, fails>>

StartRotation ==
    /\ time < MaxRotations
    /\ NewPhase({"None", "Completed"}, "Preparing")
    /\ time' = time + 1 /\ due' = TRUE /\ clean' = FALSE

Prepared ==
    /\ Served
    /\ NewPhase({"Preparing"}, "Prepared")
    /\ UNCHANGED <<time, due, clean>>

StartCompleting ==
    /\ NewPhase({"Prepared"}, "Completing")
    /\ due' = TRUE /\ UNCHANGED <<time, clean>>

Completed ==
    /\ Served
    /\ NewPhase({"Completing"}, "Completed")
    /\ UNCHANGED <<time, due, clean>>

\* The periodic reconciliation of the shoot.
Touch ==
    /\ fate = "kept" /\ ~due
    /\ due' = TRUE
    /\ UNCHANGED <<owner, pc, use, store, secrets, ingress, config, node, clean, fails>>

Change ==
    /\ fate = "kept" /\ changes < MaxChanges
    /\ changes' = changes + 1
    /\ due' = TRUE
    /\ UNCHANGED <<phase, time, pc, use, store, secrets, ingress, config, node,
                   clean, fails>>

SwitchPurpose == Change /\ on' = ~on /\ UNCHANGED <<fate, saved>>

Delete ==
    /\ Change
    /\ fate' = "delete"
    /\ UNCHANGED <<on, saved>>

\* Mistake: the CA is not marked with Persist().
PersistedNothing(s) == <<>>

\* The secrets that gardenlet finds in the ShootState: the CA is persisted.
Persisted(s) == s

\* A migration starts when the former request is served.
Migrate ==
    /\ Served
    /\ Change
    /\ fate' = "migrate" /\ saved' = Persisted(cas)
    /\ UNCHANGED on

\* gardenlet restores the secrets on the other seed before it asks for Restore.
Restore ==
    /\ Served /\ fate = "migrate"
    /\ fate' = "kept" /\ due' = TRUE
    /\ cas' = saved /\ saved' = <<>>
    /\ UNCHANGED <<phase, time, on, pc, use, store, leaves, ingress, config, node,
                   clean, changes, fails>>

\* 80% of the validity (two years) of every leaf are over: not within a call.
Age ==
    /\ pc = "idle"
    /\ \E i \in DOMAIN leaves : ~leaves[i].aged
    /\ leaves' = [i \in DOMAIN leaves |-> [leaves[i] EXCEPT !.aged = TRUE]]
    /\ UNCHANGED <<owner, due, pc, use, store, cas, ingress, config, node, clean, fails>>

\* Files which are not configured any more stay on the nodes.
NodesCatchUp ==
    /\ config # {} /\ node # config
    /\ node' = config
    /\ UNCHANGED <<owner, due, pc, use, store, secrets, ingress, config, clean, fails>>

----------------------------------------------------------------------------
(* The secrets manager. *)

\* A positive number outside of a finite set: a new key, a new time.
Fresh(S) == CHOOSE n \in 1 .. Cardinality(S) + 1 : n \notin S

Newest(s) == s[Len(s)]
Name(leaf) == [ca |-> leaf.ca, time |-> leaf.time]

KeysInUse ==
    {cas[i].key : i \in DOMAIN cas} \cup {leaves[i].ca : i \in DOMAIN leaves}
    \cup {saved[i].key : i \in DOMAIN saved} \cup {ingress.ca} \cup config \cup node

\* The time in the Shoot's status, otherwise that of the newest CA.
CATime ==
    IF use.time # 0 THEN use.time
    ELSE IF cas = <<>> THEN 0 ELSE Newest(cas).time

\* Mistake: no secret is renewed automatically.
LeafTimeKept == IF leaves = <<>> THEN 0 ELSE Newest(leaves).time

\* That of the newest leaf; now, when it must be renewed.
LeafTime ==
    IF leaves = <<>> THEN 0
    ELSE IF ~Newest(leaves).aged THEN Newest(leaves).time
    ELSE Fresh({leaves[i].time : i \in DOMAIN leaves} \cup {ingress.time})

NewestOther(s, key) ==
    LET others == {i \in DOMAIN s : s[i].key # key}
    IN IF others = {} THEN 0 ELSE s[Max(others)].key

\* Mistake: the option IgnoreOldSecrets is not set.
OldCAInAnyPhase(s, key) == NewestOther(s, key)

\* The newest other CA is kept, unless the rotation is being completed.
OldCA(s, key) == IF use.phase = "Completing" THEN 0 ELSE NewestOther(s, key)

\* Mistake: the old secret is not added to the store.
StoredAlone(s, key) == [cur |-> key, leafTime |-> LeafTime]

Stored(s, key) == [cur |-> key, old |-> OldCA(s, key), leafTime |-> LeafTime]

\* initialize(), and Generate() of the CA: get or create it by its name.
GenerateCA ==
    /\ pc = "ca"
    /\ cas' = IF \E i \in DOMAIN cas : cas[i].time = CATime THEN cas
              ELSE Append(cas, [time |-> CATime, key |-> Fresh(KeysInUse)])
    /\ \E i \in DOMAIN cas' :
          /\ cas'[i].time = CATime
          /\ store' = Stored(cas', cas'[i].key)
    /\ pc' = "leaf"
    /\ UNCHANGED <<owner, due, use, leaves, ingress, config, node, clean, fails>>

\* Mistake: the checksum of the signing CA is not part of the name.
WantedLeafByTime ==
    IF \E i \in DOMAIN leaves : leaves[i].time = store.leafTime
    THEN Name(leaves[CHOOSE i \in DOMAIN leaves : leaves[i].time = store.leafTime])
    ELSE [ca |-> store.cur, time |-> store.leafTime]

\* The leaf is always signed by the current CA.
WantedLeaf == [ca |-> store.cur, time |-> store.leafTime]

GenerateLeaf ==
    /\ pc = "leaf"
    /\ leaves' = IF \E i \in DOMAIN leaves : Name(leaves[i]) = WantedLeaf THEN leaves
                 ELSE Append(leaves, [ca |-> WantedLeaf.ca, time |-> WantedLeaf.time,
                                      aged |-> FALSE])
    /\ pc' = "cleanup"
    /\ UNCHANGED <<owner, due, use, store, cas, ingress, config, node, clean, fails>>

\* Mistake: the leaf was not added to the store.
StaleLeafAll(leaf) == TRUE

\* Not in the store of the secrets manager, which is empty in a removing call.
StaleCA(c) == c.key \notin {store.cur, store.old}
StaleLeaf(leaf) == Name(leaf) # WantedLeaf

\* Mistake: secrets of which the store knows nothing are left alone.
CleaningKnown == pc = "cleanup"

Cleaning == pc \in {"cleanup", "erase"}

\* The stale secrets are deleted in parallel.
DeleteStaleCA ==
    /\ Cleaning
    /\ \E i \in DOMAIN cas : StaleCA(cas[i]) /\ cas' = RemoveAt(cas, i)
    /\ UNCHANGED <<owner, due, pc, use, store, leaves, ingress, config, node, clean, fails>>

DeleteStaleLeaf ==
    /\ Cleaning
    /\ \E i \in DOMAIN leaves : StaleLeaf(leaves[i]) /\ leaves' = RemoveAt(leaves, i)
    /\ UNCHANGED <<owner, due, pc, use, store, cas, ingress, config, node, clean, fails>>

CleanupDone ==
    /\ pc \in {"cleanup", "erase"}
    /\ Cleaning => /\ \A i \in DOMAIN cas : ~StaleCA(cas[i])
                   /\ \A i \in DOMAIN leaves : ~StaleLeaf(leaves[i])
    /\ pc' = IF pc = "cleanup" THEN "ingress" ELSE "chart"
    /\ UNCHANGED <<owner, due, use, store, secrets, ingress, config, node, clean, fails>>

----------------------------------------------------------------------------
(* The actuator's call around it. *)

End == pc' = "idle" /\ use' = NoUse /\ store' = NoStore

\* The phase is read from the Cluster in the cache, which is assumed to have what gardenlet
\* wrote before it asked for the call.
Start ==
    /\ due /\ pc = "idle"
    /\ due' = FALSE
    /\ pc' = IF fate # "kept" THEN "erase" ELSE IF on THEN "ca" ELSE "off"
    /\ use' = [phase |-> phase, time |-> time]
    /\ UNCHANGED <<owner, store, secrets, ingress, config, node, clean, fails>>

\* Without node logging only the Ingress is deleted; secrets and config stay.
DeleteIngress ==
    /\ pc = "off"
    /\ ingress' = None
    /\ End
    /\ UNCHANGED <<owner, due, secrets, config, node, clean, fails>>

ApplyChart ==
    /\ pc = "ingress"
    /\ ingress' = WantedLeaf
    /\ pc' = "config"
    /\ UNCHANGED <<owner, due, use, store, secrets, config, node, clean, fails>>

\* The bundle holds the current CA and, if there is one, the old one.
Bundle == {store.cur, store.old} \ {0}

\* Mistake: a promtail-config that exists is left as it is.
CAFileOnce == IF config = {} THEN Bundle ELSE config

\* ca.crt among the files in promtail-config.
CAFile == Bundle

WriteConfig ==
    /\ pc = "config"
    /\ config' = CAFile
    /\ pc' = "wait"
    /\ UNCHANGED <<owner, due, use, store, secrets, ingress, node, clean, fails>>

\* WaitUntilHealthy and the patch of the OSCs.
WaitAndPatch ==
    /\ pc = "wait"
    /\ clean' = (clean \/ (phase = "Completing" /\ use.phase = "Completing"))
    /\ End
    /\ UNCHANGED <<owner, due, secrets, ingress, config, node, fails>>

DeleteChart ==
    /\ pc = "chart"
    /\ ingress' = None
    /\ pc' = "resource"
    /\ UNCHANGED <<owner, due, use, store, secrets, config, node, clean, fails>>

DeleteConfig ==
    /\ pc = "resource"
    /\ config' = {}
    /\ End
    /\ UNCHANGED <<owner, due, secrets, ingress, node, clean, fails>>

\* A request fails, or the process ends: the next call starts anew.
CallFails ==
    /\ pc # "idle" /\ fails < MaxFails
    /\ fails' = fails + 1
    /\ due' = TRUE
    /\ End
    /\ UNCHANGED <<owner, secrets, ingress, config, node, clean>>

Actuator ==
    \/ Start
    \/ GenerateCA \/ GenerateLeaf \/ DeleteStaleCA \/ DeleteStaleLeaf \/ CleanupDone
    \/ ApplyChart \/ WriteConfig \/ WaitAndPatch
    \/ DeleteIngress \/ DeleteChart \/ DeleteConfig

Rotation == StartRotation \/ Prepared \/ StartCompleting \/ Completed

Next ==
    \/ Rotation \/ Touch \/ SwitchPurpose \/ Delete \/ Migrate \/ Restore
    \/ Age \/ NodesCatchUp \/ Actuator \/ CallFails

Spec == Init /\ [][Next]_vars

(***************************************************************************)
(* A worker serves requests, promtail-config reaches the nodes             *)
(* (ConfigurationArrives of NodeLogging), gardenlet reconciles every shoot *)
(* from time to time and ends a migration.                                 *)
(***************************************************************************)
FairSpec ==
    /\ Spec
    /\ WF_vars(Actuator) /\ WF_vars(NodesCatchUp) /\ WF_vars(Touch) /\ WF_vars(Restore)

----------------------------------------------------------------------------
HasSecret == \E i \in DOMAIN leaves : Name(leaves[i]) = ingress

\* The nodes accept what Loki's Ingress presents.
Trusted == HasSecret /\ ingress.ca \in node

(***************************************************************************)
(* After a served request and once the nodes have caught up, the Ingress   *)
(* names an existing secret, and its certificate is one which the nodes    *)
(* trust: in every phase of a rotation, after renewals, failures, switching*)
(* and moving to another seed.                                             *)
(***************************************************************************)
QuietMeansTrusted ==
    Served /\ on /\ fate = "kept" /\ node = config => Trusted

(***************************************************************************)
(* As long as no rotation was ever initiated, the nodes trust the Ingress  *)
(* at every moment, whether they have caught up or not: no failure, crash, *)
(* renewal, switching or move makes a second CA.                           *)
(***************************************************************************)
OneAuthorityUntilRotation ==
    time = 0 /\ ingress # None /\ node # {} => ingress.ca \in node

(***************************************************************************)
(* After a call has completed a rotation and until the next one is         *)
(* initiated, the former CA is neither kept in a secret, nor in a leaf, nor*)
(* handed to the nodes: an old key is of no use any more.                  *)
(***************************************************************************)
OldKeyDropped ==
    clean => \A i \in DOMAIN cas :
                /\ cas[i].time = time
                /\ config \subseteq {cas[i].key}
                /\ \A l \in DOMAIN leaves : leaves[l].ca = cas[i].key

(***************************************************************************)
(* A served removal (deletion, or migration on the old seed) leaves no     *)
(* secret, no Ingress and no configuration.                                *)
(***************************************************************************)
NothingRemains ==
    Served /\ fate # "kept"
    => cas = <<>> /\ leaves = <<>> /\ ingress = None /\ config = {}

(***************************************************************************)
(* Only the preparation of a rotation interrupts the nodes' trust.  In any *)
(* other phase a certificate that the nodes trust is not replaced by, and  *)
(* the nodes do not move to a bundle without, one that does not fit: the   *)
(* mismatch that config.go:56 speaks of does not occur.                    *)
(***************************************************************************)
TrustNeverLost ==
    [][phase # "Preparing" /\ ingress.ca \in node /\ ingress' # None
       => ingress'.ca \in node']_vars

(***************************************************************************)
(* A shoot that keeps node logging is trusted in the end, whatever phase   *)
(* it stays in and whatever failed before.                                 *)
(***************************************************************************)
Stays == on /\ fate = "kept"

TrustArrives == <>[]Stays => <>[](ingress.ca \in node)

(***************************************************************************)
(* The presented certificate is renewed again and again before it expires: *)
(* a shoot that keeps node logging always comes back to a fresh one.       *)
(***************************************************************************)
Renewed ==
    <>[]Stays => []<>(\E i \in DOMAIN leaves :
                         Name(leaves[i]) = ingress /\ ~leaves[i].aged)

=============================================================================
