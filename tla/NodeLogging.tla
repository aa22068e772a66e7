----------------------------- MODULE NodeLogging -----------------------------
(***************************************************************************)
(* How the configuration of promtail reaches the nodes of the shoots of a  *)
(* seed: the shoot actuator writes it to the secret of a ManagedResource,  *)
(* gardener-resource-manager makes the ConfigMap promtail-config from it,  *)
(* the actuator then patches the OperatingSystemConfig (OSC) with nothing, *)
(* so that the API server sends it to the webhook, and the webhook adds    *)
(* the files and units which it reads from the ConfigMap.  gardenlet writes*)
(* the OSC too, each time without promtail.  There is one webhook          *)
(* configuration for all shoots of the seed.                               *)
(*                                                                         *)
(* A configuration is abstracted to the revision of its inputs (certificate*)
(* authority, API server address, image); 0 is none.                       *)
(***************************************************************************)
EXTENDS Naturals

CONSTANTS
    Shoots,
    MaxChanges,    \* bound on the changes of inputs and purposes, of all shoots
    MaxCrashes,    \* bound on crashes of the extension
    PromptGRM,     \* is a new secret applied before the ManagedResource is checked?
    FreshCache     \* is a stored OSC in the cache when the OSCs are listed?

ASSUME NodeLoggingAssumption ==
    /\ MaxChanges \in Nat /\ MaxCrashes \in Nat
    /\ PromptGRM \in BOOLEAN /\ FreshCache \in BOOLEAN

VARIABLES
    enabled,   \* is node logging enabled for the shoot's purpose?
    rev,       \* revision of the shoot's inputs
    due,       \* must the actuator be called (again)?
    pc, use,   \* the next step of the call; the revision it deploys
    secret,    \* of the ManagedResource
    mr,        \* the ManagedResource: "absent", "new" or "applied" at least once
    cm,        \* promtail-config
    osc,       \* the OSC: has it been written, and what of promtail is in it
    write,     \* the write of the OSC that is being admitted
    oscDue,    \* will gardenlet write the OSC?
    webhook,   \* does the webhook configuration exist?
    removed,   \* history: has a call removed it?
    up,        \* does the extension run?
    gate,      \* its feature gate shootNodeLoggingEnabled, read when it starts
    changes, crashes

vars == <<enabled, rev, due, pc, use, secret, mr, cm, osc, write, oscDue,
          webhook, removed, up, gate, changes, crashes>>
owner == <<enabled, rev, changes>>
config == <<secret, mr, cm>>
manager == <<webhook, removed, up, gate, crashes>>

MaxRev == MaxChanges + 1
Revs == 0 .. MaxRev
OSC == [exists : BOOLEAN, files : Revs, units : Revs]
Write == [phase : {"none", "files", "units", "store"},
          by : {"none", "gardenlet", "actuator"}, files : Revs, units : Revs]
NoWrite == [phase |-> "none", by |-> "none", files |-> 0, units |-> 0]

TypeOK ==
    /\ enabled \in [Shoots -> BOOLEAN]
    /\ rev \in [Shoots -> Revs]
    /\ due \in [Shoots -> BOOLEAN]
    /\ pc \in [Shoots -> {"idle", "secret", "mr", "wait", "patch", "patching", "off"}]
    /\ use \in [Shoots -> Revs]
    /\ secret \in [Shoots -> Revs]
    /\ mr \in [Shoots -> {"absent", "new", "applied"}]
    /\ cm \in [Shoots -> Revs]
    /\ osc \in [Shoots -> OSC]
    /\ write \in [Shoots -> Write]
    /\ oscDue \in [Shoots -> BOOLEAN]
    /\ webhook \in BOOLEAN /\ removed \in BOOLEAN /\ up \in BOOLEAN /\ gate \in BOOLEAN
    /\ changes \in 0 .. MaxChanges
    /\ crashes \in 0 .. MaxCrashes

\* The manager has registered the webhook; the shoots are created.
Init ==
    /\ enabled \in [Shoots -> BOOLEAN]
    /\ rev = [s \in Shoots |-> 1]
    /\ due = [s \in Shoots |-> TRUE]
    /\ pc = [s \in Shoots |-> "idle"]
    /\ use = [s \in Shoots |-> 0]
    /\ secret = [s \in Shoots |-> 0]
    /\ mr = [s \in Shoots |-> "absent"]
    /\ cm = [s \in Shoots |-> 0]
    /\ osc = [s \in Shoots |-> [exists |-> FALSE, files |-> 0, units |-> 0]]
    /\ write = [s \in Shoots |-> NoWrite]
    /\ oscDue = [s \in Shoots |-> TRUE]
    /\ webhook = TRUE /\ removed = FALSE /\ up = TRUE /\ gate = TRUE
    /\ changes = 0 /\ crashes = 0

----------------------------------------------------------------------------
(* gardenlet: a reconciliation of the shoot writes the OSC and requests one *)
(* of the Logging resource, in either order.                                *)

Requested(s) ==
    /\ changes < MaxChanges
    /\ changes' = changes + 1
    /\ due' = [due EXCEPT ![s] = TRUE]
    /\ oscDue' = [oscDue EXCEPT ![s] = TRUE]
    /\ UNCHANGED <<pc, use, config, osc, write, manager>>

NewInputs(s) ==
    /\ rev' = [rev EXCEPT ![s] = @ + 1]
    /\ Requested(s)
    /\ UNCHANGED enabled

SwitchPurpose(s) ==
    /\ enabled' = [enabled EXCEPT ![s] = ~@]
    /\ Requested(s)
    /\ UNCHANGED rev

\* The server of the webhook runs only with the feature gate.
Served == up /\ gate

\* The API server serializes the writes of an OSC, and rejects one which the
\* webhook does not answer (failure policy Fail); gardenlet repeats it.
GardenletWrites(s) ==
    /\ oscDue[s]
    /\ write[s] = NoWrite
    /\ webhook => Served
    /\ oscDue' = [oscDue EXCEPT ![s] = FALSE]
    /\ write' = [write EXCEPT ![s] = [phase |-> IF webhook THEN "files" ELSE "store",
                                      by |-> "gardenlet", files |-> 0, units |-> 0]]
    /\ UNCHANGED <<owner, due, pc, use, config, osc, manager>>

----------------------------------------------------------------------------
(* The webhook. *)

\* Mistake: what is there under the same name is not replaced.
EnsuredAgain(s, old) == old + cm[s]

\* Mistake: the ConfigMap of any shoot is taken.
EnsuredOfAny(s, old) ==
    IF \E o \in Shoots : cm[o] # 0 THEN cm[CHOOSE o \in Shoots : cm[o] # 0] ELSE old

\* Without a ConfigMap there is nothing to add, and what is there stays.
Ensured(s, old) == IF cm[s] = 0 THEN old ELSE cm[s]

EnsureAdditionalFiles(s) ==
    /\ up /\ write[s].phase = "files"
    /\ write' = [write EXCEPT ![s].files = Ensured(s, @), ![s].phase = "units"]
    /\ UNCHANGED <<owner, due, pc, use, config, osc, oscDue, manager>>

\* Mistake: units which are there already are kept.
EnsureAdditionalUnitsOnce(s) ==
    /\ up /\ write[s].phase = "units"
    /\ write' = [write EXCEPT ![s].units = IF @ = 0 THEN cm[s] ELSE @,
                             ![s].phase = "store"]
    /\ UNCHANGED <<owner, due, pc, use, config, osc, oscDue, manager>>

EnsureAdditionalUnits(s) ==
    /\ up /\ write[s].phase = "units"
    /\ write' = [write EXCEPT ![s].units = Ensured(s, @), ![s].phase = "store"]
    /\ UNCHANGED <<owner, due, pc, use, config, osc, oscDue, manager>>

\* The API server stores what the webhook returned; the actuator's call is over.
Store(s) ==
    /\ write[s].phase = "store"
    /\ osc' = [osc EXCEPT ![s] = [exists |-> TRUE, files |-> write[s].files,
                                  units |-> write[s].units]]
    /\ write' = [write EXCEPT ![s] = NoWrite]
    /\ IF write[s].by = "actuator" /\ pc[s] = "patching"
       THEN pc' = [pc EXCEPT ![s] = "idle"] /\ use' = [use EXCEPT ![s] = 0]
       ELSE UNCHANGED <<pc, use>>
    /\ UNCHANGED <<owner, due, config, oscDue, manager>>

----------------------------------------------------------------------------
(* The calls of the shoot actuator; due is set again when one fails. *)

Goto(s, next) == pc' = [pc EXCEPT ![s] = next] /\ UNCHANGED <<owner, due, use, oscDue>>

\* Mistake: only the purpose is asked.
StartForPurpose(s) ==
    /\ up /\ due[s] /\ pc[s] = "idle"
    /\ due' = [due EXCEPT ![s] = FALSE]
    /\ pc' = [pc EXCEPT ![s] = IF enabled[s] THEN "secret" ELSE "off"]
    /\ use' = [use EXCEPT ![s] = IF enabled[s] THEN rev[s] ELSE 0]
    /\ UNCHANGED <<owner, config, osc, write, oscDue, manager>>

\* isShootNodeLoggingEnabled asks the feature gate and the purpose.
Start(s) ==
    /\ up /\ due[s] /\ pc[s] = "idle"
    /\ due' = [due EXCEPT ![s] = FALSE]
    /\ pc' = [pc EXCEPT ![s] = IF gate /\ enabled[s] THEN "secret" ELSE "off"]
    /\ use' = [use EXCEPT ![s] = IF gate /\ enabled[s] THEN rev[s] ELSE 0]
    /\ UNCHANGED <<owner, config, osc, write, oscDue, manager>>

\* Node logging is not enabled: the webhook is removed and the call ends there.
DeleteWebhookConfiguration(s) ==
    /\ pc[s] = "off"
    /\ webhook' = FALSE /\ removed' = TRUE
    /\ Goto(s, "idle")
    /\ UNCHANGED <<config, osc, write, up, gate, crashes>>

WriteSecret(s) ==
    /\ pc[s] = "secret"
    /\ secret' = [secret EXCEPT ![s] = use[s]]
    /\ Goto(s, "mr")
    /\ UNCHANGED <<mr, cm, osc, write, manager>>

\* Mistake: the resource is left to someone else.
WriteSecretOnly(s) ==
    /\ pc[s] = "mr"
    /\ Goto(s, "wait")
    /\ UNCHANGED <<config, osc, write, manager>>

\* The resource names the secret: writing it again does not change it.
WriteManagedResource(s) ==
    /\ pc[s] = "mr"
    /\ mr' = [mr EXCEPT ![s] = IF @ = "absent" THEN "new" ELSE @]
    /\ Goto(s, "wait")
    /\ UNCHANGED <<secret, cm, osc, write, manager>>

\* The conditions are those of the secret that was applied last.
Healthy(s) == mr[s] = "applied" /\ (PromptGRM => cm[s] = secret[s])

WaitUntilHealthy(s) ==
    /\ pc[s] = "wait"
    /\ Healthy(s)
    /\ Goto(s, "patch")
    /\ UNCHANGED <<config, osc, write, manager>>

\* Mistake: the OSC is not patched at all.
PatchNothing(s) ==
    /\ pc[s] = "patch"
    /\ pc' = [pc EXCEPT ![s] = "idle"] /\ use' = [use EXCEPT ![s] = 0]
    /\ UNCHANGED <<owner, due, oscDue, config, osc, write, manager>>

\* An empty patch of the OSC, when the cache holds one.
PatchOSC(s) ==
    /\ pc[s] = "patch"
    /\ write[s] = NoWrite
    /\ webhook => Served
    /\ \E found \in IF FreshCache THEN {osc[s].exists} ELSE {osc[s].exists, FALSE} :
          IF found
          THEN /\ write' = [write EXCEPT ![s] =
                              [phase |-> IF webhook THEN "files" ELSE "store",
                               by |-> "actuator", files |-> osc[s].files,
                               units |-> osc[s].units]]
               /\ pc' = [pc EXCEPT ![s] = "patching"] /\ UNCHANGED use
          ELSE /\ pc' = [pc EXCEPT ![s] = "idle"] /\ use' = [use EXCEPT ![s] = 0]
               /\ UNCHANGED write
    /\ UNCHANGED <<owner, due, oscDue, config, osc, manager>>

\* The calls end; a write that the webhook had to answer fails as well.
Crash ==
    /\ up /\ crashes < MaxCrashes
    /\ crashes' = crashes + 1
    /\ up' = FALSE
    /\ due' = [s \in Shoots |-> due[s] \/ pc[s] # "idle"]
    /\ oscDue' = [s \in Shoots |-> oscDue[s] \/ (/\ write[s].by = "gardenlet"
                                                 /\ write[s].phase # "store")]
    /\ pc' = [s \in Shoots |-> "idle"]
    /\ use' = [s \in Shoots |-> 0]
    /\ write' = [s \in Shoots |-> IF write[s].phase = "store" THEN write[s] ELSE NoWrite]
    /\ UNCHANGED <<owner, config, osc, webhook, removed, gate>>

\* The new leader registers the webhook if its configuration has the gate; without
\* it what is registered stays.
Restart ==
    /\ ~up
    /\ up' = TRUE
    /\ gate' \in BOOLEAN
    /\ webhook' = (webhook \/ gate')
    /\ UNCHANGED <<owner, due, pc, use, config, osc, write, oscDue, removed, crashes>>

----------------------------------------------------------------------------
\* gardener-resource-manager.
ApplyManagedResource(s) ==
    /\ mr[s] # "absent"
    /\ mr[s] = "new" \/ cm[s] # secret[s]
    /\ mr' = [mr EXCEPT ![s] = "applied"]
    /\ cm' = [cm EXCEPT ![s] = secret[s]]
    /\ UNCHANGED <<owner, due, pc, use, secret, osc, write, oscDue, manager>>

Actuator(s) ==
    \/ Start(s) \/ DeleteWebhookConfiguration(s) \/ WriteSecret(s)
    \/ WriteManagedResource(s) \/ WaitUntilHealthy(s) \/ PatchOSC(s)

Admission(s) == EnsureAdditionalFiles(s) \/ EnsureAdditionalUnits(s) \/ Store(s)

Next ==
    \/ \E s \in Shoots :
          \/ NewInputs(s) \/ SwitchPurpose(s) \/ GardenletWrites(s)
          \/ Admission(s) \/ Actuator(s) \/ ApplyManagedResource(s)
    \/ Crash \/ Restart

Spec == Init /\ [][Next]_vars

\* Five workers serve the shoots; the API server, gardenlet, the resource manager work.
FairSpec ==
    /\ Spec /\ WF_vars(Restart)
    /\ \A s \in Shoots :
          /\ WF_vars(Actuator(s)) /\ WF_vars(Admission(s))
          /\ WF_vars(GardenletWrites(s)) /\ WF_vars(ApplyManagedResource(s))

----------------------------------------------------------------------------
Settled(s) ==
    /\ ~due[s] /\ pc[s] = "idle" /\ ~oscDue[s] /\ write[s] = NoWrite
    /\ cm[s] = secret[s]

Installed(s) == osc[s].files = rev[s] /\ osc[s].units = rev[s]

(***************************************************************************)
(* When nothing is left to do, the OSC of a shoot with node logging holds  *)
(* the files and units of the current inputs, whatever gardenlet's writes, *)
(* the two reads of the webhook and a crash were interleaved with, as long *)
(* as the webhook has been registered all the time.                        *)
(***************************************************************************)
InstalledWhileRegistered ==
    ~removed => \A s \in Shoots : Settled(s) /\ enabled[s] => Installed(s)

(***************************************************************************)
(* The same for every shoot, whatever the other shoots of the seed are.    *)
(***************************************************************************)
NodeLoggingInstalled == \A s \in Shoots : Settled(s) /\ enabled[s] => Installed(s)

(***************************************************************************)
(* Files and units are read one after the other, so an OSC may hold those  *)
(* of two revisions, but never files which are newer than the units.       *)
(***************************************************************************)
FilesNotNewer == \A s \in Shoots : osc[s].files <= osc[s].units

(***************************************************************************)
(* A shoot gets promtail on its nodes only from its own configuration: one *)
(* that never had a ManagedResource has no trace of promtail in its OSC.   *)
(***************************************************************************)
OnlyOwnConfiguration ==
    \A s \in Shoots : mr[s] = "absent" => osc[s].files = 0 /\ osc[s].units = 0

(***************************************************************************)
(* Always again every shoot with node logging has the files and units of   *)
(* its current inputs, unless the webhook has been removed or the gate been*)
(* switched off: no interleaving and no crash leaves the actuator,         *)
(* gardenlet or an OSC waiting for ever.                                   *)
(***************************************************************************)
Blocked == webhook /\ up /\ ~gate

ConfigurationArrives ==
    []<>(\A s \in Shoots : enabled[s] => Installed(s) \/ removed \/ Blocked)

(***************************************************************************)
(* With the gate switched off, the registered webhook has no server and the*)
(* API server rejects every OSC of the seed.  That does not last when a    *)
(* call is requested or runs: of any shoot, also of one whose purpose      *)
(* allows node logging.                                                    *)
(***************************************************************************)
Unblocked == []<>(Blocked => \A s \in Shoots : ~due[s] /\ pc[s] = "idle")

=============================================================================
