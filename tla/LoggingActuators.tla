--------------------------- MODULE LoggingActuators ---------------------------
(***************************************************************************)
(* The actuators behind the lifecycle controller: what a call of the shoot *)
(* actuator or of the seed actuator does to the API server, request by     *)
(* request, with calls that fail or end anywhere and are repeated later,   *)
(* possibly with another input.  gardener-resource-manager, which applies  *)
(* and finalizes ManagedResources in its own time, runs beside them.       *)
(*                                                                         *)
(* A call is a PLAN, the sequence of the requests it sends.  The contents  *)
(* of the objects are abstracted to the number of the call that wrote them.*)
(***************************************************************************)
EXTENDS Naturals, Sequences

CONSTANTS
    Inputs,       \* what a call may read
    MaxCalls,     \* bound on the calls
    MaxFails,     \* bound on failing requests and on crashes
    PromptGRM     \* are deleted ManagedResources gone before the next deployment?

\* Event logging enabled, node logging enabled for the purpose, HVPA rendered.
ASSUME ActuatorAssumption ==
    /\ Inputs \subseteq [events : BOOLEAN, nodes : BOOLEAN, hvpa : BOOLEAN]
    /\ Inputs # {}
    /\ MaxCalls \in Nat \ {0} /\ MaxFails \in Nat /\ PromptGRM \in BOOLEAN

Requests(verb, names) == [i \in DOMAIN names |-> [verb |-> verb, obj |-> names[i]]]

----------------------------------------------------------------------------
(* Components. *)

\* Mistake: the resource is written before its secret.
DeployManagedResourceEarly(mr, secret) == Requests("apply", <<mr, secret>>)

\* The secret of a ManagedResource is written before it and deleted after it.
DeployManagedResource(mr, secret) == Requests("apply", <<secret, mr>>)
DeleteManagedResource(mr, secret) == Requests("delete", <<mr, secret>>)

ReconcileRBACForShoot ==
    Requests("apply", <<"access-event-logger">>)
    \o DeployManagedResource("mr-event-logger", "mr-event-logger-secret")

ReconcileRBACForSeed ==
    Requests("apply", <<"event-logger-sa", "event-logger-role", "event-logger-binding">>)

ReconcileDeployment == Requests("apply", <<"event-logger">>)

ReconcileVPA == Requests("apply", <<"event-logger-vpa">>)

DeployEventLogger ==
    ReconcileRBACForShoot \o ReconcileRBACForSeed \o ReconcileDeployment \o ReconcileVPA

DeleteRBACForShoot ==
    DeleteManagedResource("mr-event-logger", "mr-event-logger-secret")
    \o Requests("delete", <<"access-event-logger">>)

DestroyEventLogger ==
    DeleteRBACForShoot
    \o Requests("delete", <<"event-logger-sa", "event-logger-role",
                            "event-logger-binding", "event-logger-vpa", "event-logger">>)

DeployRBACProxy ==
    Requests("apply", <<"access-rbac-proxy", "access-promtail">>)
    \o DeployManagedResource("mr-rbac-proxy", "mr-rbac-proxy-secret")

DestroyRBACProxy ==
    DeleteManagedResource("mr-rbac-proxy", "mr-rbac-proxy-secret")
    \o Requests("delete", <<"access-rbac-proxy", "access-promtail">>)

----------------------------------------------------------------------------
(* Charts.  Names that end in a hash of the contents are written hash.     *)

Hvpa(in) == IF in.hvpa THEN <<"loki-hvpa">> ELSE <<>>

ShootChartManifest(in) ==
    Requests("manifest",
        <<"allow-loki", "allow-to-loki", "allow-telegraf", "loki-config-hash",
          "telegraf-config-hash", "loki-service", "loki", "loki-ingress",
          "monitoring-config">> \o Hvpa(in))

SeedChartManifest(in) ==
    Requests("manifest",
        <<"allow-fluentbit", "fluent-bit-sa", "fluent-bit-role", "fluent-bit-binding",
          "fluent-bit-config-hash", "fluent-bit-monitoring-config", "fluent-bit-service",
          "fluent-bit", "allow-loki", "allow-to-loki", "loki-config-hash", "loki-service",
          "loki", "monitoring-config">> \o Hvpa(in))

\* The list of the chart's objects in the code; the space is the code's.
ShootChartObjects ==
    <<"loki", "loki-service", "allow-loki", " allow-to-loki", "allow-telegraf",
      "loki-ingress", "monitoring-config">>

SeedChartObjects ==
    <<"fluent-bit", "allow-fluentbit", "fluent-bit-role", "fluent-bit-binding",
      "fluent-bit-sa", "fluent-bit-service", "loki", "loki-service", "allow-loki",
      " allow-to-loki", "monitoring-config">>

\* Every manifest is tried; the errors are returned together, at the end.
ChartApply(manifest) == manifest \o Requests("collect", <<"errors">>)

ChartDelete(objects) == Requests("delete", objects)

----------------------------------------------------------------------------
(* Plans. *)

ShootNodeLogging(in) ==
    DeployRBACProxy
    \o Requests("apply", <<"ca", "loki-tls">>)
    \o ChartApply(ShootChartManifest(in))
    \o DeployManagedResource("mr-controlplane", "mr-controlplane-secret")
    \o Requests("healthy", <<"mr-controlplane">>)
    \o Requests("apply", <<"osc">>)

ShootNoNodeLogging ==
    DestroyRBACProxy
    \o Requests("delete", <<"webhook-config", "loki-ingress", "allow-telegraf",
                            "telegraf-config">>)

ShootReconcile(in) ==
    (IF in.events THEN DeployEventLogger ELSE DestroyEventLogger)
    \o (IF in.nodes THEN ShootNodeLogging(in) ELSE ShootNoNodeLogging)

\* Mistake: the components are left to their next reconciliation.
ShootDeleteChartOnly ==
    ChartDelete(ShootChartObjects)
    \o DeleteManagedResource("mr-controlplane", "mr-controlplane-secret")
    \o Requests("gone", <<"mr-controlplane">>)

\* Mistake: the wait comes before the deletion.
ShootDeleteWaitFirst ==
    DestroyEventLogger
    \o DestroyRBACProxy
    \o Requests("delete", <<"ca", "loki-tls">>)
    \o ChartDelete(ShootChartObjects)
    \o Requests("gone", <<"mr-controlplane">>)
    \o DeleteManagedResource("mr-controlplane", "mr-controlplane-secret")

ShootDelete ==
    DestroyEventLogger
    \o DestroyRBACProxy
    \o Requests("delete", <<"ca", "loki-tls">>)
    \o ChartDelete(ShootChartObjects)
    \o DeleteManagedResource("mr-controlplane", "mr-controlplane-secret")
    \o Requests("gone", <<"mr-controlplane">>)

\* The volume is resized first (SeedLokiVolume).
SeedReconcile(in) == Requests("resize", <<"loki">>) \o ChartApply(SeedChartManifest(in))

SeedDelete == ChartDelete(SeedChartObjects)

\* Restore is Reconcile and Migrate is Delete, in both actuators.
Plan(type, operation, in) ==
    CASE type = "shoot" /\ operation = "Reconcile" -> ShootReconcile(in)
      [] type = "shoot" /\ operation = "Delete" -> ShootDelete
      [] type = "seed" /\ operation = "Reconcile" -> SeedReconcile(in)
      [] type = "seed" /\ operation = "Delete" -> SeedDelete

Types == {"shoot", "seed"}
Operations == {"Reconcile", "Delete"}
Plans == [k \in Types \X Operations \X Inputs |-> Plan(k[1], k[2], k[3])]

Named(p, verbs) == {p[i].obj : i \in {j \in DOMAIN p : p[j].verb \in verbs}}

Objects == UNION {Named(Plans[k], {"apply", "manifest", "delete"}) : k \in DOMAIN Plans}

SecretOf == [mr \in {"mr-event-logger", "mr-rbac-proxy", "mr-controlplane"} |->
               CASE mr = "mr-event-logger" -> "mr-event-logger-secret"
                 [] mr = "mr-rbac-proxy" -> "mr-rbac-proxy-secret"
                 [] mr = "mr-controlplane" -> "mr-controlplane-secret"]

ManagedResources == DOMAIN SecretOf

----------------------------------------------------------------------------
VARIABLES
    type,      \* of the Logging resource
    have,      \* the call that wrote an object, 0 when absent
    dying,     \* ManagedResources that are deleted but not yet finalized
    target,    \* the call whose secret was applied for a ManagedResource, 0: none
    call,      \* the running call: its operation and input
    pc,        \* index of the next request
    errors,    \* did a manifest of this call fail?
    calls, fails,
    last       \* operation, input and success of the last call that ended

vars == <<type, have, dying, target, call, pc, errors, calls, fails, last>>
caller == <<type, calls, last>>

\* A removal reads no input: any one stands for all.
NoInput == CHOOSE in \in Inputs : TRUE
Idle == [operation |-> "none", in |-> NoInput]
plan == Plans[<<type, call.operation, call.in>>]
request == plan[pc]
Running == call # Idle

TypeOK ==
    /\ type \in Types
    /\ have \in [Objects -> 0 .. MaxCalls]
    /\ dying \subseteq ManagedResources
    /\ target \in [ManagedResources -> 0 .. MaxCalls]
    /\ call \in [operation : Operations \cup {"none"}, in : Inputs]
    /\ pc \in Nat
    /\ errors \in BOOLEAN
    /\ calls \in 0 .. MaxCalls
    /\ fails \in 0 .. MaxFails
    /\ last \in [call : [operation : Operations \cup {"none"}, in : Inputs],
                 ok : BOOLEAN]

\* The manager registers the webhook when it starts.
Init ==
    /\ type \in Types
    /\ have = [o \in Objects |-> IF o = "webhook-config" THEN 1 ELSE 0]
    /\ dying = {}
    /\ target = [mr \in ManagedResources |-> 0]
    /\ call = Idle /\ pc = 1 /\ errors = FALSE
    /\ calls = 0 /\ fails = 0
    /\ last = [call |-> Idle, ok |-> TRUE]

----------------------------------------------------------------------------
(* Calls. *)

\* A removal is repeated until it succeeds (LoggingLifecycle).
Start(operation, in) ==
    /\ ~Running
    /\ calls < MaxCalls
    /\ operation = "Delete" \/ last.ok \/ last.call.operation # "Delete"
    /\ operation = "Reconcile" /\ PromptGRM => dying = {}
    /\ operation = "Delete" => in = NoInput
    /\ calls' = calls + 1
    /\ call' = [operation |-> operation, in |-> in]
    /\ pc' = 1
    /\ errors' = FALSE
    /\ UNCHANGED <<type, have, dying, target, fails, last>>

End(ok) ==
    /\ call' = Idle
    /\ pc' = 1
    /\ errors' = FALSE
    /\ last' = [call |-> call, ok |-> ok]
    /\ UNCHANGED <<type, calls>>

Advance ==
    IF pc < Len(plan) THEN /\ pc' = pc + 1
                           /\ UNCHANGED <<caller, call, errors>>
                      ELSE End(TRUE)

\* Create or patch.  A patch does not bring back a ManagedResource that is deleted.
Written(o) == have' = [have EXCEPT ![o] = calls] /\ UNCHANGED <<dying, target>>

\* Mistake: any object is taken to have a finalizer.
ErasedLater(o) ==
    /\ dying' = IF have[o] # 0 THEN dying \cup {o} ELSE dying
    /\ UNCHANGED <<have, target>>

\* A ManagedResource that was applied has a finalizer.
Erased(o) ==
    /\ IF o \in ManagedResources /\ have[o] # 0 /\ target[o] # 0
       THEN dying' = dying \cup {o} /\ UNCHANGED have
       ELSE have' = [have EXCEPT ![o] = 0] /\ UNCHANGED dying
    /\ UNCHANGED target

Effect ==
    \/ request.verb \in {"apply", "manifest"} /\ Written(request.obj)
    \/ request.verb = "delete" /\ Erased(request.obj)

Apply ==
    /\ Running /\ request.verb \in {"apply", "manifest", "delete"}
    /\ Effect
    /\ Advance
    /\ UNCHANGED fails

\* Mistake: the errors of the manifests are logged only.
CollectLeniently ==
    /\ Running /\ request.verb = "collect"
    /\ Advance
    /\ UNCHANGED <<have, dying, target, fails>>

\* Returning the errors of the manifests.
Collect ==
    /\ Running /\ request.verb = "collect"
    /\ IF errors THEN End(FALSE) ELSE Advance
    /\ UNCHANGED <<have, dying, target, fails>>

\* The conditions last reported count; they are not those of a new secret.
CheckManagedResource(mr) == target[mr] # 0 /\ mr \notin dying

WaitUntilHealthy ==
    /\ Running /\ request.verb = "healthy"
    /\ CheckManagedResource(request.obj)
    /\ Advance
    /\ UNCHANGED <<have, dying, target, fails>>

WaitUntilDeleted ==
    /\ Running /\ request.verb = "gone"
    /\ have[request.obj] = 0
    /\ Advance
    /\ UNCHANGED <<have, dying, target, fails>>

\* Deletes the StatefulSet iff the size of the volume differs.
ResizeOrDeleteLokiDataVolumeIfStorageNotTheSame ==
    /\ Running /\ request.verb = "resize"
    /\ have' \in {have, [have EXCEPT ![request.obj] = 0]}
    /\ Advance
    /\ UNCHANGED <<dying, target, fails>>

----------------------------------------------------------------------------
(* Failures. *)

\* A request, a wait or the process fails, before or after the effect.
CallFails ==
    /\ Running /\ fails < MaxFails
    /\ fails' = fails + 1
    /\ \/ UNCHANGED <<have, dying, target>>
       \/ request.verb \in {"apply", "manifest", "delete"} /\ Effect
    /\ End(FALSE)

\* Only this manifest fails.
ManifestFails ==
    /\ Running /\ request.verb = "manifest" /\ fails < MaxFails
    /\ fails' = fails + 1
    /\ errors' = TRUE
    /\ pc' = pc + 1
    /\ UNCHANGED <<caller, call, have, dying, target>>

----------------------------------------------------------------------------
(* gardener-resource-manager. *)

Sync(mr) ==
    /\ have[mr] # 0 /\ mr \notin dying
    /\ have[SecretOf[mr]] \notin {0, target[mr]}
    /\ target' = [target EXCEPT ![mr] = have[SecretOf[mr]]]
    /\ UNCHANGED <<caller, have, dying, call, pc, errors, fails>>

Finalize(mr) ==
    /\ mr \in dying
    /\ dying' = dying \ {mr}
    /\ have' = [have EXCEPT ![mr] = 0]
    /\ target' = [target EXCEPT ![mr] = 0]
    /\ UNCHANGED <<caller, call, pc, errors, fails>>

GRM == \E mr \in ManagedResources : Sync(mr) \/ Finalize(mr)

Step == Apply \/ Collect \/ WaitUntilHealthy \/ WaitUntilDeleted
           \/ ResizeOrDeleteLokiDataVolumeIfStorageNotTheSame

Next ==
    \/ \E operation \in Operations, in \in Inputs : Start(operation, in)
    \/ Step
    \/ CallFails
    \/ ManifestFails
    \/ GRM

Spec == Init /\ [][Next]_vars

\* A call runs, and the resource manager works.
FairSpec == Spec /\ WF_vars(Step) /\ WF_vars(GRM)
----------------------------------------------------------------------------
(* What the calls achieve. *)

\* The parts of the stack, by the objects that make them up.
Parts == [
    eventLogger |-> {"access-event-logger", "mr-event-logger", "mr-event-logger-secret",
                     "event-logger-sa", "event-logger-role", "event-logger-binding",
                     "event-logger", "event-logger-vpa"},
    rbacProxy   |-> {"access-rbac-proxy", "access-promtail", "mr-rbac-proxy",
                     "mr-rbac-proxy-secret"},
    loki        |-> {"loki", "loki-service", "allow-loki", "monitoring-config"},
    access      |-> {"loki-ingress", "allow-telegraf"},
    secrets     |-> {"ca", "loki-tls"},
    promtail    |-> {"mr-controlplane", "mr-controlplane-secret"},
    fluentBit   |-> {"fluent-bit", "allow-fluentbit", "fluent-bit-role",
                     "fluent-bit-binding", "fluent-bit-sa", "fluent-bit-service"}]

NodeLogging == {"rbacProxy", "loki", "access", "secrets", "promtail"}

Wanted ==
    IF call.operation # "Reconcile" THEN {}
    ELSE IF type = "seed" THEN {"loki", "fluentBit"}
    ELSE {p \in {"eventLogger"} : call.in.events} \cup {p \in NodeLogging : call.in.nodes}

\* Without node logging a shoot keeps its Loki, secrets and promtail configuration.
Dropped ==
    IF call.operation = "Delete"
    THEN IF type = "seed" THEN {"loki", "fluentBit"} ELSE NodeLogging \cup {"eventLogger"}
    ELSE IF ~Running \/ type = "seed" THEN {}
    ELSE {p \in {"eventLogger"} : ~call.in.events}
         \cup {p \in {"rbacProxy", "access"} : ~call.in.nodes}

Alive(o) == IF o \in dying THEN 0 ELSE have[o]

Oldest(objects) ==
    CHOOSE n \in {Alive(o) : o \in objects} : \A o \in objects : n <= Alive(o)

Contract == INSTANCE ActuatorContract WITH
    Parts <- DOMAIN Parts,
    job <- [wanted |-> Wanted, dropped |-> Dropped, running |-> Running],
    n <- calls,
    ok <- last.ok,
    applied <- [p \in DOMAIN Parts |-> Oldest(Parts[p])],
    left <- {p \in DOMAIN Parts : \E o \in Parts[p] : Alive(o) # 0}

(***************************************************************************)
(* A call that succeeds has deployed every object of what it wants and has *)
(* left no object of what it drops, although calls before it failed        *)
(* anywhere and had other inputs; no call disturbs other parts.            *)
(***************************************************************************)
KeepsContract == Contract!Spec

(***************************************************************************)
(* A ManagedResource that is not being deleted has its secret: the resource*)
(* manager never finds one that it cannot apply, wherever a call ends.     *)
(***************************************************************************)
SecretsResolve ==
    \A mr \in ManagedResources :
       have[mr] # 0 /\ mr \notin dying => have[SecretOf[mr]] # 0

(***************************************************************************)
(* After a removal, what still exists is the webhook configuration, which  *)
(* belongs to the manager, the operating system configuration, which is    *)
(* gardenlet's, and the chart objects that are missing in the chart's list *)
(* of objects or listed under another name.                                *)
(***************************************************************************)
OnlyKnownLeftovers ==
    ~Running /\ last.ok /\ last.call.operation = "Delete"
    => {o \in Objects : Alive(o) # 0}
          \subseteq {"webhook-config", "osc", "allow-to-loki", "loki-config-hash",
                     "telegraf-config-hash", "loki-hvpa", "fluent-bit-config-hash",
                     "fluent-bit-monitoring-config"}

(***************************************************************************)
(* No wait of a call is for something that never comes: a call ends, by    *)
(* itself, when the resource manager works (FairSpec).                     *)
(***************************************************************************)
CallEnds == Running ~> ~Running

=============================================================================
