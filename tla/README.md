# Verification of gardener-extension-logging

TLA+ specifications of the Gardener extension that deploys the logging stack (Loki,
Fluent Bit, event logger, promtail on the nodes) for the shoots of a seed and for the seed
itself. TLC checks small instances; TLAPS proves, for every instance, the finalizer protocol
of the lifecycle controller and what holds when it comes to rest, the contract of the
actuators, the resize of Loki's volume as a part of the seed actuator's call, the way of
promtail's configuration to the nodes, the rendering of Fluent Bit's filters, and the safety of
the rotation of the certificate authority. Every safety property that a passing run checks is
proved; what is left to TLC is liveness. `PROJECT.json` lists the runs, the mutants that show
that each property can fail, the source lines behind each definition, the findings and the hazards. In this text `vendor:` stands for `src/vendor/github.com/gardener/gardener/`.

## 1. Inventory

### Components

| Component | State it keeps | Operations | Source |
|---|---|---|---|
| Logging resource | annotation, finalizer, deletion timestamp, `status.lastOperation`, generation | predicates, operation type, status patches, health check | `vendor: extensions/pkg/predicate/default.go`, `controller/status.go`, `controller/utils.go`, `pkg/utils/kubernetes/health/extensions.go` |
| Lifecycle controller | work queue, cache, the pass of a worker | reconcile, delete, migrate, restore | `src/pkg/controller/lifecycle/{add,reconciler}.go`, `vendor: pkg/controllerutils/reconciler/operation_annotation_wrapper.go` |
| Shoot actuator | none of its own: the objects of the shoot namespace | Reconcile, Delete (Restore is Reconcile, Migrate is Delete) | `src/pkg/controller/lifecycle/shoot_cp_actuator.go` |
| Seed actuator | the objects of the garden namespace, Loki's volume | the same | `src/pkg/controller/lifecycle/seed_actuator.go` |
| Event logger, RBAC proxy | access secrets, a ManagedResource each, RBAC, Deployment, VPA | Deploy, Destroy | `src/pkg/controller/eventlogger`, `src/pkg/controller/kuberbacproxy` |
| Promtail | the ConfigMap `promtail-config`, through a ManagedResource | GetResources | `src/pkg/controller/promtail` |
| OSC webhook | one MutatingWebhookConfiguration for the seed | EnsureAdditionalFiles, EnsureAdditionalUnits | `src/pkg/webhook/osc` |
| Secrets | certificate authority and Loki's TLS secret, by rotation phase | Generate, Cleanup | `src/pkg/secrets`, `vendor: pkg/utils/secrets/manager` |
| Health check controller | conditions of Extension resources | copies conditions | `src/pkg/controller/healthcheck` |
| Command and configuration | none after start | flags, feature gates, caches, leader election | `src/cmd`, `src/pkg/cmd`, `src/pkg/apis/config` |
| Helm charts | none | objects rendered from values | `src/charts` |

### How they interact

gardenlet (outside of this repository) writes the Logging resource, annotates it with
`reconcile`, `migrate`, `restore` or `wait-for-state`, deletes it, and waits until it is
healthy, migrated or gone. The informer delivers versions one after the other; the
predicates admit some of them; the work queue holds a key once and gives it to one worker
at a time. A pass strips the annotation, reads the cache again, computes the operation,
and then patches finalizer and status around one call of an actuator.

The actuators write objects one by one. Three groups of them are ManagedResources, applied
and finalized by gardener-resource-manager in its own time. Promtail reaches a node through
four processes: the actuator (secret of the ManagedResource), the resource manager
(ConfigMap), gardenlet (the OperatingSystemConfig, OSC) and the webhook (which adds to the
OSC what it reads from the ConfigMap). The only object that all shoots of the seed share
is the webhook configuration.

### What is hard

* The cache lags behind; status patches are differences to a copy that may be old.
* Requests arrive during a pass; the annotation is removed in an unlocked patch of its own.
* A call, its reply or the process can be lost between any two requests.
* A call is repeated later, with other inputs, on what a failed one left behind.
* Waits for another process end on what that process last reported.
* Several writers of the same OSC, and one shoot's actuator removing a shared object.
* The resize of a volume in four requests, decided by a claim from the cache, beside the
  StatefulSet controller, and a chart of which one manifest may be rejected for ever.
* A rotation of the certificate authority (CA) over several calls and phases, with two
  consumers that catch up at different times; renewals and moves of the control plane in
  between.
* Configuration owned by others (ConfigMaps of extensions, shoot-info) whose events start
  nothing.

`hazards` in `PROJECT.json` lists each at its line with the properties that cover it.

### What makes each component correct

* Lifecycle: nothing deployed is orphaned; no request is lost; nothing is deployed on the
  old seed after a migration; deletion and migration complete; "ready" means applied.
* Actuators: success means that all that is wanted is deployed by this call and all that is
  dropped is gone; a failed call is repaired by the next; the waits end.
* Volume: data is dropped only to shrink, unless the call has read an outdated claim; a
  volume is never changed under a running Loki; Loki runs in the end.
* Node logging: the nodes of a shoot with node logging get the current promtail
  configuration of that shoot, and nothing of another one.
* Seed configuration: exactly the filters that are kept reach Fluent Bit, in an order that
  does not change, and in the end the current ones do.
* Secrets: the nodes trust what Loki's Ingress presents; the old CA is dropped when a
  rotation is complete; certificates are renewed; a removal leaves nothing.

## 2. Modules

| Module | What it is |
|---|---|
| `LoggingObject` | a stored version of the resource and the pure decisions on it |
| `LoggingPromise` | abstract: the stack is deployed only while the resource is held |
| `LoggingLifecycle` | the controller, by API call, with its environment |
| `LoggingLifecycleProofs` | its types; facts that the next two share, its steps as `LoggingPromise` sees them |
| `LoggingFinalizerProofs` | theorems: the finalizer protocol |
| `LoggingQuietProofs` | theorems: what holds when nothing is left to do; the finalizer under a hasty owner |
| `MCLoggingLifecycle`, `MCLoggingQuiet` | instances for TLC with their inductive invariants, the first with symmetry of the parts |
| `ActuatorContract` | abstract: what a call of an actuator achieves |
| `LoggingActuators`, `MCLoggingActuators` | both actuators, request by request; its instance |
| `LoggingActuatorsProofs` | theorems about the actuators, and about their plans |
| `ActuatorContractProofs` | theorem: they implement `ActuatorContract` |
| `SeedLokiVolume` | the resize of the seed's Loki volume, in detail |
| `SeedActuator`, `MCSeedActuator` | the seed actuator's whole call around that resize; its instance |
| `SeedActuatorProofs` | the theorems about the resize; that the call implements it, and what follows; the rendering of filters |
| `NodeLogging` | promtail from the actuator through the webhook to the OSC |
| `NodeLoggingProofs` | the theorems about it |
| `SecretsRotation` | the CA and Loki's certificate over rotations, renewals and moves |
| `SecretsRotationProofs` | the theorems about it |

How they compose: `LoggingLifecycle` extends `LoggingObject` and treats an actuator call
as a set of `Parts` that are deployed or removed one at a time and may fail in between.
`LoggingActuators` opens that call: it shows that the parts named there are what a
successful call leaves, so that the lifecycle's abstraction (a call that returned success
has applied every part, one that failed any subset) is justified by `KeepsContract`.
`SeedLokiVolume` opens the one request of the seed actuator's plan called `resize`, and
`SeedActuator` extends it with the rest of that call: its variables stutter on the new steps,
which is the refinement `ImplementsResize`. `NodeLogging` opens the requests from the secret
of the ManagedResource to the empty patch of the OSC, with contents, which
`LoggingActuators` abstracts to the number of a call, and `SecretsRotation` opens the two
requests called `ca` and `loki-tls`; there the nodes catch up at some time, which is
`ConfigurationArrives` of `NodeLogging`.

### LoggingObject and LoggingLifecycle

`versions` is the history of the stored resource that the informer has not delivered yet:
the first is the one in the cache, the last the one stored. A version has the operation
annotation, the owner's timestamp `ts` (the number of its write), finalizer, deletion mark,
generation, `lastOperation` and who wrote it. `Deliver` is the informer with the predicates
(`Admits`); `PickUp` and `StripAnnotation` are the annotation wrapper; `Reconcile` reads the
cache and computes the operation (`ComputeOperationType`, `ShouldSkipOperation`), then
the pass goes through the calls that `FirstCall` and `AfterSuccess` name, one action each.
A patch with optimistic lock fails unless `fresh`; one without merges into what is stored;
`ProcessingCustom`, `ErrorCustom` and `SuccessCustom` patch only the fields that differ from
the worker's copy, as the code does with a merge patch. `Answered` lets any reply be lost.
`Finish` requeues a failed pass. `applied[p]` is the number of the owner's write from whose
inputs part `p` was deployed.

Environment assumptions are constants. `HastyOwner = FALSE` says that the owner asks for a
migration only when the controller is quiet: gardenlet waits for readiness before it
migrates. `StaleReads = TRUE` lets the cached client lack the controller's own last writes
(which controller-runtime allows); runs about requests set it to `FALSE`, since with `TRUE`
a pass may use the Cluster written before the request, and say so.

### LoggingActuators

A call is a plan: the sequence of requests that the Go function sends for its input
(event logging, node logging for the purpose, HVPA), written as a concatenation of the
plans of the components in the order of the source. `Apply` executes one request, `Collect`
is the end of a chart's application where the errors of its manifests are returned
together, `WaitUntilHealthy` and `WaitUntilDeleted` block. `CallFails` ends a call anywhere,
before or after the effect of a request: it stands for an API error, a timeout (five and two
minutes), a `NotFound` from a cache that does not have the new object yet, and a crash.
`have[o]` is the number of the call that wrote object `o`. Names of chart objects that end
in a hash of the contents carry `hash`.

`ActuatorContract` says of a call what the lifecycle controller relies on: when it succeeds,
every part that it wants is deployed by this very call and of what it drops nothing is left;
parts that it neither wants nor drops are not touched. A part that is wanted may lose objects
while the call runs, even its last one: the resize deletes Loki's StatefulSet before the chart
writes it again, and it may be all that failed calls have left of Loki.

`PromptGRM = TRUE` says that ManagedResources which are being deleted are gone before the
next deployment starts (calls for one shoot are minutes apart); `actuators_dying` drops it.
A removal is repeated until it succeeds, which the lifecycle controller guarantees.

### SeedLokiVolume

The claim, the StatefulSet and the pod, and the requests of
`ResizeOrDeleteLokiDataVolumeIfStorageNotTheSame`, followed by the chart. The StatefulSet
controller observes a new spec in its own time. A new version of the extension may want
another size at any time (`Upgrade`); a request, a wait or the process may fail
(`CallFails`), after which the work queue repeats the call. That a claim template cannot be
changed by an update is Kubernetes' validation, and the chart's `applyObject` sends a plain
update. Volume expansion is taken to be supported by the storage class.

The client that the actuator passes (`seed_actuator.go:132`) is the manager's, and `app.go:62`
disables its cache for Secrets and ConfigMaps only, so the claim is read from the informer's
cache. `behind` is the sequence of former sizes that the cache has still to get past: `Cached`
is its head, or the stored size when it is empty; `Deliver` takes one off and `Upgrade`, which
starts a new process, clears it. A claim that is deleted is there (`dying`), with its size, until
no pod uses it and `RemoveClaim` takes it away; a pod is not started with such a claim, and
for a StatefulSet whose claim is gone the controller makes a new one. `outdated` is a history
variable: the claim that the running call has read had changed since, or was being deleted.
The patch that grows the claim sets an absolute size, so that with an outdated read it may ask
for less than there is, which the API server rejects.

The one read that is assumed to be current is that of the StatefulSet in the wait after the
scale-down, which compares the observed generation: it asks every five seconds, and the call
has just patched the object.

### SeedActuator

The steps of `SeedLokiVolume` come first; when they reach the chart (`pc = "apply"`), `stage`
goes through `ReadShootInfo`, `ListConfigMaps`, `ApplyFluentBit` and `ApplyLoki`. A ConfigMap
of an extension is a sequence of filters of three kinds: plain, a `rewrite_tag` filter that
the pattern fits and one that it does not fit. `FiltersOf` replaces and skips them,
`AdditionalFilters` concatenates in the order of `ByName`; the list itself comes in any order.
Both orders, of filters in a ConfigMap and of ConfigMaps, are those of numbers (`Ascending`).
The event logger's filter is first, when its gate is on. Maintenance times are hours of the
day (`AddHour` wraps). `ConfigMapChanges` applies the predicate of the watch
(`IsWithLoggingLabelOrShootInfo`), which is false for every object that exists (`add.go:45`),
so that only gardenlet's next request brings a change. ConfigMaps are read uncached. Those of
extensions may be there before the first call, or not. The chart tries every manifest:
Fluent Bit is configured in the same call in which Loki's StatefulSet is rejected.

### NodeLogging

Per shoot: purpose (`enabled`), the revision of the inputs, the actuator's program counter,
the secret, ManagedResource and ConfigMap, the OSC and the write of it that is in admission.
gardenlet writes an OSC without promtail; the actuator's patch writes what is stored. Both
pass the webhook when it is registered: two reads of the ConfigMap, files first, as in
`genericmutator`. While the server of the webhook is down, a write that must pass it fails
(failure policy Fail) and gardenlet repeats it. The webhook configuration is removed by the actuator
of any shoot without node logging and registered only by a manager that starts to lead: the
certificate reconciler only patches an existing one. ConfigMaps and secrets are read
uncached (`app.go` disables the cache for them), so a read is a read of the stored object.
`FreshCache = TRUE` says that an OSC stored before the list is in the informer's cache:
seconds pass between. `PromptGRM` says that the resource manager applies a new secret before
the actuator looks at the conditions; `node_logging_stale` drops it. `gate` is the feature gate
that the manager reads when it starts (`Restart`): without it `app.go` neither serves nor
registers the webhook, but one that is registered stays, and every write of an OSC is
rejected (`Served`) until a call of any shoot removes it.

### SecretsRotation

One shoot. gardenlet writes phase and time of the rotation to the Shoot's status; a phase ends
after a served request. A CA secret is its rotation time, which makes its name, and its key; a
leaf (Loki's server certificate) is its name, made of the signing CA and the time of its own
last renewal, and whether 80 % of its validity are over. `GenerateCA` is `initialize` and
`Generate`: the name comes from the time in the status or from the newest CA (`CATime`), the
secret is created when there is none of that name, and the store gets the current and, outside
of phase Completing, the newest other CA (`OldCA`). `GenerateLeaf` signs with the current CA
(`UseCurrentCA`). `DeleteStaleCA` and `DeleteStaleLeaf` run in any order, as the parallel flow
of `Cleanup` does; a removing call has an empty store. Then the Ingress gets the leaf's name
(`ApplyChart`), promtail-config the bundle (`WriteConfig`), and the nodes follow
(`NodesCatchUp`). In the code the promtail resources are rendered before the clean-up; they
depend on the store alone, so that the order of rendering shows nowhere. `CallFails` ends a call
at any request. A move of the control plane is `Migrate` (a removal on the old seed, after the
persisted secrets were saved in the ShootState) and `Restore` (they are put back on the other
one). Switching node logging off deletes the Ingress and leaves secrets and configuration, as
the code does. The bundle secret is a function of the store and has no variable.

`Start` reads the phase that the Shoot has, while `reconciler.go:98` reads the Cluster resource
through the manager's cache: the cache is assumed to have what gardenlet wrote before it
annotated the Logging resource. gardenlet writes the Cluster first and the request later in the
same flow. With an older Cluster a call would work in the phase before, and gardenlet would take
a phase to be served that was not.

## 3. Runs

| Run | Result | Shows |
|---|---|---|
| `lifecycle_safety` | pass | `NoOrphans`, refinement of `LoggingPromise` and the inductive invariant, stale reads |
| `lifecycle_progress` | pass | deletion, migration and requests complete; nothing left to do means: last request applied, migration complete, with the inductive invariant (`HeldInv`) |
| `lifecycle_ready` | violation | "ready" with the new timestamp before anything was processed |
| `lifecycle_stale_migrate` | violation | Migrate/Succeeded stored while everything is deployed |
| `actuators` | pass | refinement of `ActuatorContract`, secrets resolve, leftovers, calls end |
| `actuators_dying` | violation | deploying a ManagedResource that is being deleted |
| `seed_actuator` | pass | volume changed only when detached, dropped only to shrink or after an outdated read; an interrupted resize is not repaired by calls that read the claim of now; Fluent Bit's configuration complete, stable, current in the end, with the inductive invariant (`SeedInv`) |
| `seed_volume_interrupted` | violation | Loki stays at zero replicas after an interrupted resize |
| `node_logging` | pass | current promtail configuration in every OSC while the webhook is registered; a webhook without server does not outlast a call |
| `node_logging_webhook` | violation | one shoot switches promtail off for the seed |
| `node_logging_stale` | violation | OSC patched before the new configuration exists |
| `secrets_rotation` | pass | nodes and Ingress fit in every phase, old keys are dropped, certificates renewed, nothing remains |

`CHECK_DEADLOCK FALSE` everywhere: with bounded requests and failures each system comes to
rest when everything is done; that it does not rest too early is what `QuietMeansApplied`,
`QuietMeansMigrated`, `InstalledWhileRegistered`, `QuietMeansTrusted` and the liveness
properties say.

### Bounds

* Lifecycle: up to four writes of the owner (create, request, migrate, delete in any
  allowed order; three in `lifecycle_safety`), three or four versions in flight, one failure
  and one crash. A lost update needs two writers and one stale version; a lost request needs
  one request during a pass. Two parts in `lifecycle_safety`, so that a call can fail between
  two objects; one where the questions are about requests. The proofs have no bounds.
* Actuators: three calls (deploy, something that fails, repair) with each of the four
  combinations of features, one failure at any request. Parts are independent of each other,
  so a second failure repeats the first.
* Seed actuator: two sizes (an upgrade grows or shrinks), one failure (it interrupts a resize,
  and the repetition may read the cache of before) and one upgrade; the cache two changes
  behind (a claim removed and made anew); two ConfigMaps (two orders of the list), each there
  with a filter of every kind or not, no shoot-info or hour 23 (the wrap), one change of them.
  Every safety property is proved for any sizes, failures, upgrades, lags and contents; what
  the bounds limit is `RunsOrInterrupted` and `ConfigurationApplied`.
* Node logging: two shoots (one can disturb the other), one change of inputs or purpose,
  one crash and restart with either gate; every interleaving of the processes for both shoots.
* Secrets: two rotations (the second one meets what the first one left), two switches, moves
  or removals, one failing call, any number of renewals and periodic reconciliations. Keys and
  times are the smallest numbers not in use, so that the state space is finite.

### Fairness

`LoggingLifecycle!FairSpec`: weak fairness of the informer, the worker and the replacement
of a crashed leader. Reflectors re-list, the queue gives each key to a worker, leader
election replaces a leader; failures are bounded. The worker's actions exclude failures, so
that no failure is forced. `LoggingActuators`, `SeedLokiVolume`, `SeedActuator`, `NodeLogging`
and `SecretsRotation`: a call
proceeds when its next request can be sent, and the outside controllers (resource manager,
StatefulSet controller, gardenlet, API server) work. A wait has fairness only while what it
waits for holds. In `SeedActuator` and `SecretsRotation` gardenlet's periodic reconciliation
(`Requested`, `Touch`) is fair too, which is what brings a change whose event is not admitted,
and a renewal; `Restore` is fair because gardenlet ends every migration. No strong fairness is
used, and none on rotations, changes and failures. In the volume the removal of a deleted claim
(`RemoveClaim`) and the informer (`Deliver`) are fair beside the StatefulSet controller.

### Findings

`findings` in `PROJECT.json` quotes the line that each violation run contradicts: a resource
passes the health check between two patches; a status patch with an old copy leaves
Migrate/Succeeded; a dying ManagedResource is patched and vanishes; an interrupted resize
is not repaired by repetition once the cache has the claim as it is; the shared webhook configuration is removed; the wait for
a healthy ManagedResource passes on old conditions. Each passing run of the same module
shows that nothing else breaks the property: the condition excluded there (`HastyOwner`,
`StaleReads`, `PromptGRM`, `Interrupted`, `removed`) is the one the violation needs.

Three behaviours contradict no text of the repository and are no findings, but a reader should
know them. A call for the seed that soon follows another one may read the claim as it was
before the other one's change, or while it is being deleted. It then goes through the resize
again: it may delete a claim that was made anew with the right size meanwhile, or repair what a
failed call left (`outdated` in `DroppedOnlyToShrink` and `OnlyUpgradeRepairs`). In phase Preparing the
new leaf is signed by the new CA at once, so that the nodes do not trust Loki from that call
until they have the new bundle (`TrustNeverLost` excludes this phase, `QuietMeansTrusted` says
that the gap ends). And the predicate of the ConfigMap watch admits nothing.

## 4. Proofs

`LoggingLifecycleProofs!TypeCorrect`: every variable keeps its type. No assumption other
than the types of the constants.

`LoggingFinalizerProofs`, for any parts, number of writes, lag, failures, crashes and with
stale reads, assuming `~HastyOwner`:

* `Invariance`: `IInv` always holds.
* `NothingOrphaned`: `NoOrphans` always holds.
* `PromiseKept`: the controller implements `LoggingPromise`.

`NoOrphans` is not inductive: a worker deploys because a version it read, maybe an old one,
carried the finalizer. The invariant therefore relates the pass to every version still in
flight. `OpFits` ties program counter and operation. `VersionsInv` says how successive
versions may differ (`History`), that a migration request is noticed, that a pass that
deploys has none in flight (here `~HastyOwner` is needed) and that while a pass removes, no
version in flight could start a deployment. `PassInv` says that the finalizer a deploying
pass relies on is stored, that nothing is deployed once a removal has succeeded, and what a
fresh copy is. Each action has a lemma `...Inv`; lemmas about appending to, and taking from,
a history (`AppendHistory`, `TailHistory`) carry the part that all patches share.
`MCLoggingLifecycle` checks `IInv` in `lifecycle_safety`.

`LoggingQuietProofs`, for any parts, number of writes, lag, failures and crashes, and for an
owner that writes at any time, assuming `~StaleReads`:

* `Quiescence`: the invariant `QuietInv` always holds.
* `MigratedUndeployed` (`MigratedStaysUndeployed`), `MigrationDone` (`QuietMeansMigrated`) and
  `RequestsApplied` (`QuietMeansApplied`).

The hypothesis is needed: `lifecycle_stale_migrate` shows Migrate/Succeeded beside deployed
parts without it. `QuietInv` has two halves.

* `MInv` is about migrations. The worker's copy and the stored resource differ at most by what
  the owner has written since (`OwnerKeeps`, `CopyKept`), which never touches the status nor
  the annotation `migrate`. A resource whose operation is Migrate has the annotation or is
  completely migrated (`Shaped`, of every version in flight), since the annotation is removed
  last; and an annotation `migrate` that was delivered keeps a pass or a queued key
  (`MigrationPending`). `Progressed` ties the next request of a pass to what it has recorded so
  far. With `RemovedAll` this gives `MigratedStaysUndeployed`, which is one of the conjuncts.
* `QInv` is about requests. Each write of the owner that is still in flight will be admitted
  (`AllAdmitted`), and after the last one was delivered, with nothing queued (`Covered`), the
  pass serves it: it works from the stored version and its timestamp (`Serving`). `Covered`
  excludes a crash, after which a request can be lost (see the hazard at
  `operation_annotation_wrapper.go:68`).

Neither half is inductive alone: that the status patch of a pass writes what it means depends
on the copy's status being the stored one, which depends on what the owner may leave in flight.

The finalizer again, under this hypothesis instead of `~HastyOwner`: `HeldInvariance`
(`HeldInv`), `NothingOrphanedInHaste` (`NoOrphans`) and `PromiseKeptInHaste` (`KeepsPromise`).
When the owner may ask for a migration while a pass deploys, `IInv` is false: such a request may
be in flight. `Held` says instead that whatever the owner
writes keeps the finalizer (`OwnerKeepsFinalizer`), and that a pass that deploys, or is about
to, has put it into the stored resource, from which only a pass of the same worker takes it
(`DeployHeld`); `QuietInv` gives that the worker's copy is the stored resource but for the
owner's writes. So one of the two assumptions is enough; with neither the proofs say nothing, and
`lifecycle_stale_migrate` shows what then happens. That the steps are steps of
`LoggingPromise` needs only the types and `NoOrphans` before and after (`StepPromised`), so that
both theorems on the refinement share it. `MCLoggingQuiet` checks `HeldInv`, which contains
`QuietInv`, in `lifecycle_progress`.

`LoggingActuatorsProofs`, for any non-empty set of inputs, any number of calls and failures,
with a prompt resource manager or not: `ActuatorTypes` (`TypeOK`), `SecretsAlwaysResolve`
(`SecretsResolve`) and `RemovalLeavesTheKnown` (`OnlyKnownLeftovers`). A call is a sequence of
requests concatenated from the plans of components, so the proofs work with pieces (`Piece`):
what a piece writes, deletes and resizes, and that in it a ManagedResource directly follows its
secret, a secret is deleted directly after its ManagedResource, and the errors of manifests are
collected right after them (`Ordered`). The lemmas `Concat...` carry these over `\o`. The
invariant `AInv` says that every object was written by a call for a resource of this type
(`Existing`), and of the running call that what it has deleted is gone (`Deleted`) and what it
has written is from this call (`Applied`, except where the resource manager finalizes what an
earlier call deleted).

`ActuatorContractProofs!CallsKeepTheContract` (`KeepsContract`), assuming `PromptGRM`: the calls
of both actuators implement `ActuatorContract`. A part is as old as its oldest object
(`OldestIs`), so that a call which writes all objects of a part makes it the call's own
(`JobParts` says that parts are written and dropped as a whole). `actuators_dying` shows the
violation without the hypothesis.

`SeedActuatorProofs`, about the resize, for any set of sizes, any failures and upgrades and any
lag of the cache: `TypeCorrect`, `DetachedFirst` (`ChangedOnlyDetached`, whatever the call has
read), `DroppedToShrink` (`DroppedOnlyToShrink`) and `RepetitionIsInVain` (`OnlyUpgradeRepairs`).
The last two except a call that has read an outdated claim, and nothing else; the third is why
the finding of `seed_volume_interrupted` is final when the cache has caught up. None of them
follows from the guard of `ChangeClaim`: the pod was seen to be gone one request earlier, and
the size was read two requests earlier. The invariant says what keeps them true until the claim
is changed: a call whose read was not outdated still finds the claim that it read, since nobody
else writes it meanwhile (`ClaimIsSeen`); the StatefulSet controller has observed the zero
replicas and has nothing left to do (`Detached`); and a pod has a StatefulSet (`PodIsOwned`, for
the call that finds none to scale).

The same module, about the whole call: `ImplementsResize`, every behaviour of the seed actuator is one of
`SeedLokiVolume` with the identity as mapping. A step of the resize or of the chart is the step
of that module, the reads of ConfigMaps change none of its variables, and neither do their
owners, since no event of theirs is admitted. `ClaimKept` carries the
properties of the volume over.

And about what the call configures, for any names, contents of any length and hours:
`SeedInvariance` (`SeedInv`), `SeedTypeCorrect`, `KnownFilters` (`OnlyKnownFilters`) and
`NothingIdle` (`NoIdleChange`). The invariant says that the list a call works with is the sorted
listing of a content that the garden has had (`ListIsRead`), and that what runs is what is
rendered from the listing of the content applied last (`Rendered`), which may be older. The rest
is about the operators. A set of numbers has one ascending order (`AscendingExists`,
`AscendingFacts`), so that the listing does not depend on the API server's order
(`SortedListing`) and can be read back (`ReadListing`); one ConfigMap gives as many filters as it
has of the kinds that are kept (`FiltersOfFacts`), putting sequences together adds their numbers
(`NamedInConcat`), flattening is a repeated putting together (`FlattenFacts`), and the names of a
listing differ, so that no ConfigMap is counted twice (`FlattenedFacts`, `RenderedFacts`). The
inductions are about sets of numbers given as terms (`Upwards`, from the well-foundedness of
`<`), which the provers can instantiate, unlike the library's rules.

`NodeLoggingProofs`, for any shoots, changes and crashes:

* `TypeCorrect`, `FilesFollowUnits` (`FilesNotNewer`), `OwnConfiguration`
  (`OnlyOwnConfiguration`), without further assumptions. The invariant `Order` says that a
  revision only moves down the chain inputs, call, secret, ConfigMap, units, files (`Ascends`,
  `Orderly`), at each phase of an admission (`Admitted`): files are read before units, so they
  cannot be newer.
* `Installation` (`InstalledWhileRegistered`), assuming `PromptGRM` and `FreshCache`, the two
  conditions whose absence breaks it. `InstalledWhileRegistered` speaks of settled shoots; the
  invariant `Arrives` says of every state in between who will bring the revision: a call in
  progress deploys the current one (`CallCurrent`), an admission of the actuator belongs to a
  call (`WriteOwned`), and after the patch of the OSC it holds the revision or a write that
  brings it is on its way (`Delivered`, `Covered`). As long as nobody removed the webhook it is
  registered, which is the other half.

`SecretsRotationProofs`, for any rotations, changes and failures:

* `TypeCorrect`, which needs that a call which uses the store has a current CA
  (`Control`), and that the sets of keys are finite, so that a fresh key exists.
* `RemovalComplete` (`NothingRemains`): the invariant `RInv` adds how far a removing call has
  come (`Removed`), that keys are positive (`Positive`; 0 is the empty store, so that every
  secret is stale for it) and that while the resource is kept or moved no other call can run.
* `TrustedUntilRotation` (`OneAuthorityUntilRotation`): while no rotation was initiated there
  is one key `k` in CAs, ShootState, store, Ingress, configuration and nodes (`OneKey`), and
  the next call finds it where it looks: in the secret, or, while the control plane moves, in
  the ShootState; when it finds none, nobody has used a key yet (`Virgin`). The last part is
  where persisting the CA matters.
* `QuietTrusted` (`QuietMeansTrusted`), `RotationDropsOldKey` (`OldKeyDropped`) and `TrustKept`
  (`TrustNeverLost`), over all phases, any number of rotations, moves and renewals. The
  invariant `TInv` names the key `k` of the CA of the last rotation that was initiated, or 0
  while it is not made (`Authority`): who holds it, who may still use another one (only a call
  that has not read this rotation, and then `k` is 0), and that outside of phase Preparing the
  Ingress presents a certificate signed with it or none. `Alone` says that after a completed
  rotation no other key is left, the ShootState included, from which a move would bring it
  back. `InCall` is the progress of a call, `Quiet` what a served request leaves. In phase
  Preparing the Ingress changes to the new CA before the nodes do, so `TrustNeverLost` cannot
  include it.

The inductive invariants, or their conjuncts, were checked with TLC on small instances before
they were proved (`IInv` in `lifecycle_safety`, `HeldInv` in `lifecycle_progress` and `SeedInv` in
`seed_actuator` still are).

Hypotheses on constants are the `...Assumption`s of the modules, which TLC evaluates in each
run: bounds are naturals, sets of parts, sizes and names are finite, `ActuatorAssumption` wants
an input and a call (a seed or shoot has some configuration). Hypotheses of single theorems are
named above (`~HastyOwner`, `~StaleReads`, `PromptGRM`, `FreshCache`); each is about
gardenlet, the cache or the resource manager, and the passing runs of the module make it too.

Model-checked only: liveness, that is `DeletionCompletes`, `MigrationCompletes`,
`RequestHonoured`, `CallEnds`, `RunsOrInterrupted`, `ConfigurationApplied`,
`ConfigurationArrives`, `Unblocked`, `TrustArrives` and `Renewed`. The prover has no rule for
`ENABLED`, on which fairness rests.

## 5. Not modelled

* The text of filters and parsers, of promtail's units, scripts and configuration, and of the
  charts: formatting. The list of objects that charts render, and what filters become, are
  modelled. The variant of promtail's units that disables them (`component.go:109`) has no
  caller: `GetResources` is called with `true` only.
* The token that promtail fetches on the node every five minutes: a shell script.
* Pure decisions with one outcome per input: the ingress class by the seed's version, the host
  name, the API server address chosen from the advertised ones, hibernation's replicas. They
  are part of the revision of the inputs.
* The health check controller: it watches Extension resources, not Logging resources.
* Flags and options apart from the gate: no state after start.
* Optimistic-lock conflicts of the actuators' updates: a failing request (`CallFails`).
* The wait timeouts are failures without a duration; certificates age in one step.

## 6. Plan

1. Core lifecycle with proofs; actuators, volume, node logging model-checked (done).
2. `SeedActuator` around the volume, `SecretsRotation`, the feature gate in `NodeLogging`
   (done).
3. Theorems on the volume, the seed actuator, the way to the nodes and the rotation (done).
4. Theorems on the actuators' plans and contract, on the controller at rest and on all phases
   of a rotation (done).
5. Theorems on the rendering of filters, on the finalizer under a hasty owner, and on an
   interrupted resize (done): every safety property that a passing run checks is proved.
6. Left: composition of `LoggingLifecycle` with a contract-level actuator, so that a resize or a
   dying ManagedResource is seen from the resource's status. `LoggingLifecycle` numbers what is
   deployed by the owner's writes and `ActuatorContract` by calls; since a call may work with an
   older write than the one before it, neither numbering is a function of the other, and the
   composition needs both.
