# Polykube in TLA+

A verification project for the Polykube operator: TLA+ modules translated from the Go code
under `src/operator`, TLC configurations that check them on small instances, and proofs
for every instance. Source references are `file:line` under `src/operator/internal/controller/`
unless a longer path is given.

## 1. The system

Polykube places applications on several Kubernetes clusters without a central control plane.
Every member cluster runs the same operator; GitOps delivers the same custom resources to each;
each operator decides alone, from its own copies of them, what it has to do.

| Component | State it keeps | Operations | Interacts through |
|---|---|---|---|
| Workload controller (`workload_controller.go`) | a Deployment and a Service per Workload, `Workload.status` | placement, dependency and ownership preflights; create or update the two objects; report | reads Federations, ClusterMembers, Secrets, ConfigMaps (none watched); watches Workloads and what they own |
| Placement (`isFederationMember`, `isTargetPolicyMatch`, `validatePrimaryMember`, `resolveMembers`) | none | decide membership from names and label selectors, in three controllers | the Federation and ClusterMember objects |
| ServiceEndpoint controller | two Cilium annotations on the Workload's Service, a finalizer, its status | validate the primary, patch, clean up, report | the Service the Workload controller owns; watches only itself |
| DatastoreBinding controller (`datastorebinding_controller.go`) | env variables and a bookkeeping annotation on the Workload's Deployment, a finalizer, its status | inject, remove, report | the Deployment the Workload controller rewrites; watches only itself |
| Federation controller (`federation_controller.go`) | `Federation.status` | resolve members, count the ready ones | ClusterMember status, through a fan-out watch |
| ClusterMember controller (`clustermember_controller.go`) | `ClusterMember.status` | validate the spec | read by Federation, Workload and ServiceEndpoint |
| `FieldsNotEnforced` | one informational condition | set or remove it | nobody reads it |
| Operator process (`cmd/polykube-operator`) | none | registers the five controllers, one worker each | leader election, informer caches |
| `polykube-status` | none | reads the Workloads of several contexts once, prints a table | read-only |

The rest of the repository is generated code (deepcopy, CRDs), declarative manifests (`gitops`,
`infra/tofu`), and scripts; it has no behaviour of its own to model.

**What is hard.** Reads come from an informer cache that lags behind the API server; a reconcile
works for many steps on the copy it read first; users, GitOps, the Deployment controller and
the garbage collector write the same objects; several controllers write parts of one
Deployment or Service; most of what a decision depends on is not watched; the process may end
anywhere and loses its queue and timers. `PROJECT.json` lists each hazard at its line.

**What makes each component correct.**

- *Workload controller*: it comes to rest only on the right objects and status; what the status
  claims is true; it never undoes an edit; it never touches what is not its own; what nothing
  stands in the way of becomes available.
- *Placement*: the three separate implementations give one answer.
- *ServiceEndpoint*: a Ready endpoint's annotations are on the Service and stay there; when it goes
  they go; at most one cluster shares an active/passive Service, eventually exactly one.
- *DatastoreBinding*: a Ready binding's variables are in the Deployment; a deleted one's are not; a
  user's variables and other bindings' survive.
- *Federation, ClusterMember*: the status converges to the resolved members and their readiness.

## 2. Modules

| Module | What it is |
|---|---|
| `Placement` | the placement decisions as operators |
| `EnvVars` | the list functions on container variables that two controllers share |
| `WorkloadController` | the Workload controller and everything around it; extends `Placement` |
| `WorkloadPromise` | what the Workload controller promises, as a specification of its own: no caches, queues, retries or restarts |
| `WorkloadProperties` | the properties of `WorkloadController`, the refinement mapping to `WorkloadPromise`, and a sentence of the documentation that the code breaks |
| `ServiceEndpointController`, `ServiceEndpointProperties` | the ServiceEndpoint controller and its properties; extends `Placement` |
| `FederationController`, `FederationProperties` | the Federation and ClusterMember controllers, composed, and their properties; extends `Placement` |
| `DatastoreBindingController`, `DatastoreBindingProperties` | the DatastoreBinding controller composed with the Workload controller's Deployment write, and the properties of both; extends `EnvVars` |
| `MCWorkload`, `MCServiceEndpoint`, `MCFederation`, `MCDatastoreBinding` | the instances for TLC |
| `WorkloadProofs`, `WorkloadPromiseProofs`, `WorkloadOutcomeProofs` | theorems about the Workload controller: its steps, the refinement, and what it leaves behind; each extends the one before |
| `ServiceEndpointProofs`, `FederationProofs`, `DatastoreBindingProofs` | theorems about the other controllers |
| `EnvVarsProofs` | lemmas about the list functions of `EnvVars` |

### WorkloadController

One Workload name. The work queue gives a name to one worker at a time, and a reconcile reads and
writes no other name's objects, so names do not interact (Deployments, Services and Workloads
of equal name do, and are the three kinds of object here).

| Variable | In the code |
|---|---|
| `server`, `cache` | the Workload, Deployment and Service in the API server and in the manager's informer cache, which `r.Get` reads |
| `lag` | the kinds whose cached resourceVersion is not the server's: an Update of such an object conflicts |
| `events` | those with an undelivered event that `SetupWithManager` (:366) maps to this name |
| `infra`, `dependencies` | Federations and ClusterMembers; Secrets and ConfigMaps |
| `lastUid` | the uid counter of Workloads of this name |
| `queued`, `timer` | the name is in the work queue; a RequeueAfter or rate-limited retry is pending |
| `pc`, `held`, `heldStale`, `verdict` | where `Reconcile` (:47) is, the copy of the Workload it works on, whether the server's has changed since, and the preflight's answer |
| `budget` | disturbances left (the bound of the runs) |

| Action | In the code |
|---|---|
| `BeginAbsent`, `Begin` | the Get of :50 and the test of `ClusterMemberName` (:58) |
| `CheckPlacement` | :58-82 with `isFederationMember`, `isTargetPolicyMatch` |
| `CheckDependencies` | `dependencyPreflight` (:128) |
| `CheckOwnership` | `ownershipPreflight` (:171) |
| `ApplyDeployment` | `reconcileDeployment` (:374) |
| `ApplyService`, `DeleteService` | the two branches of `reconcileService` (:408) |
| `ReportApplied` | `reconcileStatus` (:441) |
| `ReportVerdict` | `reconcilePending`, `reconcileDegraded` (:114, :121) and their status functions (:202, :328) |
| `Sync`, `TimerFires`, `Restart`, `Resync`, `ApiCallFails` | controller-runtime: watch events, `RequeueAfter`, process end, `SyncPeriod`, an error of any call |
| `CreateWorkload`, `EditWorkload`, `DeleteWorkload`, `ChangeInfrastructure`, `AddDependency`, ... | users and GitOps |
| `DisturbDeployment`, `DeleteDeployment`, `DisturbService`, `RemoveService` | somebody else writes the same-name objects |
| `RolloutCompletes`, `RolloutFails`, `GarbageCollect` | Kubernetes' own controllers |

**Grain.** Each preflight is one step: its reads are of objects the reconcile does not write. The
Get inside CreateOrUpdate and the write that follows are one step: a change in between would
make the write conflict, which is the outcome of the stale read that is modelled. Edits,
events and crashes happen between any two steps.

**Abstractions.**

- A condition is its reason, a status the generation, target state, activeImage and conditions;
  message texts, times and the always-equal `clusterMemberRef` are left out, and so is
  `FieldsNotEnforced`.
- `image` stands for everything copied into the pod template that no code branches on (env,
  replicas, serviceAccountName). The ports appear in the Deployment and in the Service.
- Federations, ClusterMembers, Secrets and ConfigMaps are read directly: since nothing
  watches them, a read of an older version is the same as a later edit.
- A kind's watch events reach the cache in order; several may be delivered at once, but an event
  that enqueues is never lost. The relist after a broken watch, which may merge a deletion and a
  creation, is not modelled apart from `Restart`.
- An Update that changes nothing gets no new resourceVersion and no event (API server).
- `RefusedImages` and `RefusedPorts` stand for specs that the CRD accepts and whose Deployment or
  Service the API server never does (two unnamed ports): `ApplyDeployment` and `ApplyService`
  then fail in every reconcile.
- A Deployment that nobody controls may have another, immutable selector: updating it may fail.
- Deletion of a Workload is in the background: the object goes first, the garbage collector
  follows.
- One process: leader election is taken for granted, `Restart` is the takeover.

### ServiceEndpointController

Several endpoints and Workloads, for endpoints may share a Workload or move between them; a
Service has its Workload's name. One worker: `main.go` leaves MaxConcurrentReconciles at its default.

| Variable | In the code |
|---|---|
| `server`, `cache` | the endpoints, Workloads and Services in the API server and in the informer cache |
| `lag` | the endpoints whose cached resourceVersion is not the server's |
| `infra`, `lastUid`, `budget` | as above |
| `queued`, `timers` | the work queue; the names with a RequeueAfter or rate-limited retry pending |
| `current`, `pc`, `held`, `heldStale`, `verdict` | the endpoint in `Reconcile` (:36), where it is, its copy, whether the server's has changed since, and the reason to report |

| Action | In the code (`serviceendpoint_controller.go`) |
|---|---|
| `BeginAbsent`, `Begin` | the Get of :40 and the test of the deletion timestamp (:47) |
| `AddFinalizer` | :51 |
| `Refuse`, `Annotate` | `resolveWorkload`, `validatePrimaryMember`, `resolveService`, the owner check (:57-87: `Resolution`), then `reconcileDegraded` or `applyAnnotations` (:172) |
| `Cleanup`, `ReleaseEndpoint` | `reconcileDelete` (:195) |
| `ReportReady`, `ReportDegraded` | `reconcileStatus` (:223), `reconcileDegraded` (:254) |
| `SyncEndpoint` | a watch event, and `SetupWithManager` (:101); `SyncWorkload` and `SyncService` reach the cache and wake nobody |
| `CreateService`, `GarbageCollect` | the Workload controller (where the member is a target) and Kubernetes |
| `CreateEndpoint`, `EditEndpoint`, `DeleteEndpoint`, `ExcludeMember`, `RemoveService`, `ReplaceService`, `Restart`, ... | users, GitOps, failures |

**Grain.** The reads that resolve the references and the patch are one step; what could happen
between them is what happens between the cache's view and the patch, for the cache lags
arbitrarily. Service reads are not protected by a resourceVersion: `MergePatch` changes in the
server's Service only the keys in which the wanted annotations differ from the cached ones.

**Abstractions.** A condition is its reason, and Ready is True exactly with `Reconciled`;
`resolvedHostnames` is set and cleared with Ready. Of a Workload, the uid, the federationRef and
whether this member is targeted are kept; of a Service, the owner and the two annotations. A
lastTransitionTime changes with the reason, so the comparison before a status write sees
every change of reason. Federations and ClusterMembers are read directly, as above.

### FederationController

The two controllers run in one process with one worker each and share the informer cache, so
both reconciles are in the state and interleave.

| Variable | In the code |
|---|---|
| `server`, `cache`, `lag` | the Federations and ClusterMembers in the API server and in the cache, and the names whose cached resourceVersion is not the server's |
| `queue`, `retries` | the two work queues (the names of the two kinds differ), and the pending rate-limited retries |
| `federator` | `FederationReconciler.Reconcile` (:24): the copy, whether it is overtaken, the members resolved so far and the named ones still to get |
| `observer` | `ClusterMemberReconciler.Reconcile` (:23): the copy and whether it is overtaken |

| Action | In the code |
|---|---|
| `BeginMember`, `ReportMember` | `clustermember_controller.go:23`, `reconcileStatus` (:48) with `validateClusterMemberSpec` (:81) |
| `BeginFederation` | `federation_controller.go:24` |
| `ListSelected`, `GetNamed` | the two halves of `resolveMembers` (:68); each Get is a step of its own, for another worker runs in between |
| `ReportFederation` | `reconcileStatus` (:107) |
| `SyncFederation`, `SyncMember` | watch events; `Wakes` is `enqueueAllFederations` (:48), which lists the Federations from the cache at that moment |
| `Retry`, `ApiCallFails`, `Restart` | controller-runtime |
| `CreateFederation`, `EditMember`, `RelabelMember`, ... | GitOps |

**Abstractions.** A status keeps the generation, the ordered members with their readiness, and
each condition as its reason; `readyMembers` is a count of the ready entries; texts and times
are left out. The comparison before a status write is the code's, not equality: `SetStatusCondition`
changes a present condition in an array that the old status still shares, so a change of its
reason alone is not seen (`MemberChanged`, `SummaryChanged`). A selector is as in `Placement`.
ClusterMembers with an invalid spec are there only from before the API server checked it
(`SecondMissing` starts with one).

### DatastoreBindingController and EnvVars

Bindings of one Workload, whose Deployment the Workload controller rebuilds. Variables go into the
container named `app`. A Deployment the Workload controller rendered has one (`RenderedHasApp`); one that
somebody else puts in its place may have none (`ForeignDeployments`, field `app`), and then only the
annotation is written (`AppEnv`). The environment of the container is a sequence of named values, because order and duplicates decide which one
takes effect; a value says where it comes from (a user, a Secret's key, a replication mode). A loop that
appends the entries it keeps is `EntriesAt` of their positions, a definition that the lemmas of
`EnvVarsProofs` can reason about where the library's recursive `SelectSeq` cannot be.

| Variable | In the code |
|---|---|
| `server`, `cache`, `lag` | the bindings, the Workload (its uid and `spec.env`) and the Deployment (controller, whether it has an `app` container, environment, `managed-env-vars` annotation) |
| `secrets` | the connection Secrets: which of the two accepted keys each has |
| `building` | the copy of the Workload with which the Workload controller is about to write the Deployment |
| `queued`, `timers`, `current`, `pc`, `held`, `heldStale`, `key`, `verdict` | the reconcile (:37), as in the other modules |

| Action | In the code (`datastorebinding_controller.go` unless named) |
|---|---|
| `BeginAbsent`, `Begin`, `AddFinalizer` | :37-57 |
| `Resolve` | the checks of engine, Workload, Secret and Deployment in their order (`Resolution`) |
| `Inject` | `injectEnvVars` (:157), with `mergeEnvVars` (:385) and `updateDatastoreManagedEnvVars` (:346) |
| `Cleanup`, `Remove`, `Release` | `reconcileBindingDelete` (:205), with `removeEnvVars` (:402) |
| `SetReady`, `SetDegraded` | `setReadyStatus` (:281), `reconcileDegraded` (:274) |
| `BeginBuild`, `Build` | `workload_controller.go`: the ownership preflight and `reconcileDeployment` (:374) with `preserveDatastoreManagedEnvVars` (:586) |
| `CreateBinding`, `EditBinding`, `DeleteBinding`, `EditWorkload`, `DeleteWorkload`, `CreateWorkload`, `GarbageCollect`, `ReplaceDeployment`, `ChangeSecret`, `RestoreSecret`, `ApiCallFails`, `Restart` | users, Kubernetes, failures |

**Abstractions.** The Workload controller may rebuild at any time it has a Workload and finds no
foreign Deployment: when it does is the subject of `WorkloadController`. Secrets are read as they
are (they are not watched, so a late read is the same as a later edit). A name in the model is a
namespace with a name: the default profile resolves a reference into another namespace (:117, :132) like
any other, and in the namespace-scoped profile it is one to an object that the cache does not show
(`OtherWorkload`). Ready is True
with `Reconciled` only. The rebuilt Deployment differs from the one there by owner and
environment; what else the Workload controller renders is in `WorkloadController`.

### WorkloadPromise and the refinement

The promise has four variables: what is declared (uid, generation, what it asks for), what is
reported (generation, and whether it was applied), the Deployment that is there, and the last
uid. The operator may `Run` any version, of this Workload or an earlier one of its name, until
the present version is reported; then only that one. It may `Report` an application only when
it is there, or somebody else has changed it. `WorkloadProperties` maps the four to the API
server's objects (`Declared`, `ReportOf`, `Content`): cache, queue, timers and the reconcile's copy
do not appear. `KeepsThePromise` is `Promise!Spec`. `EveryVersionIsReported` is its liveness:
a version is reported unless it asks for what the API server refuses (`Accepted`).

### Placement

A label selector is the set of labels it matches; `{}` matches nobody, all of `Labels` is the
empty Kubernetes selector, `InvalidSelector` does not parse. The order of early returns in
each function is kept, because it decides which reason is reported.

## 3. Runs

`cd tla; tlc -config <cfg> <module>`.

| Run | Shows | Instance |
|---|---|---|
| `federation` | at rest both statuses are those of the objects there are; a status of the present generation comes from the present spec; no write undoes an edit; resolvable Federations converge; the three membership computations agree | 1 Federation, 2 clusters (one to come), 3 specs (a name and a selector, two names, a bad selector), 2 label sets, 2 of: Federation or ClusterMember edits, relabelling, API error, restart |
| `workload_objects` | at rest the objects and the status are right; others' objects are left alone | 4 specs (two images, no ports, ports no Service can have), 2 of: edit, foreign write or delete of Deployment or Service, failed rollout, API error, resync |
| `workload_lifecycle` | a Deployment exists only where it is admitted; the status never claims one that is not there, its conditions are consistent, it follows the generation; no write undoes an edit; no verdict is final that could change; every step is one of `WorkloadPromise` | 3 specs (for the Federation's members, the same with a ConfigMap to wait for, for the others without ports), 2 infrastructures, 1 ConfigMap, 2 of: edit, delete (recreating is free), new dependency, restart |
| `workload_liveness` | every version the API server accepts is reported; an admissible Workload becomes and stays Available; with foreign Deployments, too, every step is one of `WorkloadPromise` | 6 specs (each preflight, ports removed, a refused Service, a refused Deployment), 4 infrastructures, 1 Secret, 1 ConfigMap, 1 of: edit, infrastructure, dependency appearing or disappearing, foreign Deployment, API error |
| `workload_foreign` | *violated*: foreign objects are not modified | 1 edit, 1 foreign Service |
| `endpoint_lifecycle` | no annotation without a finalizer; no edit or deletion undone; no rest before Ready; a deleted endpoint goes | 1 endpoint, 2 Workloads, 2 specs (one per Workload), 2 of: create, edit, delete, Workload or Service edits, foreign Service, API error, restart |
| `endpoint_liveness` | an endpoint whose references hold becomes Ready with its annotations on the Service | 1 Workload, 3 specs, 5 infrastructures (each answer of `validatePrimaryMember`), 2 of: edit (once), delete, infrastructure, API error, restart |
| `endpoint_stale` | *violated*: Ready means annotated | 2 edits |
| `binding_lifecycle` | no rest before Ready; no injection without a finalizer; no edit or deletion undone; a deleted binding goes, also when its Workload or Deployment is gone, recreated or another's | 1 binding (named `primary`), 2 specs (one with a bad engine), 1 Secret, 2 of: create, edit, delete, Workload deleted or recreated, Deployment deleted or replaced, API error, restart |
| `binding_two` | two bindings of one Deployment leave each other's and the user's variables alone; the annotation names exactly the injected variables in effect | 2 bindings, 2 specs (two modes), 2 user environments (one with a managed name, twice), 1 of: edit, delete, Workload edit, Deployment deleted or replaced (with or without `app`), API error, restart |
| `binding_liveness` | one whose references hold becomes Ready with its variables in effect, through every rebuild; no rest without a retry when a Secret changes | 1 binding, 3 specs (two modes, another Workload), the same environments, 2 of: edit, delete, Workload edit, Secret, API error, restart |
| `binding_ready` | *violated*: Ready means injected | the Deployment deleted once |

**Bounds.** `MaxDisturbances` bounds what users, failures and others do; what the operator and
Kubernetes do in response is not bounded. Two disturbances are what it takes for a reconcile
to be overtaken and for its retry to be overtaken again, or for two kinds of interference to
meet in one reconcile, or for an object to be edited, deleted and recreated.
`workload_liveness` takes one: what counts there is the state after the last; `binding_two` takes one
because the second binding is itself the other actor, and the Workload controller a third.
Each configuration says which kinds of disturbance it allows (`Disturbances`), so that each property faces the
interference it is about: `AppliedDeploymentIsApplied` is a claim about the operator's own
writes, and its run has no foreign ones; `RuntimeOnlyWhereAdmitted` takes the infrastructure
as fixed because no runtime object is ever removed on exclusion (`docs/known-limitations.md:14`).
`ResolvableBecomesReady` is claimed for one edit of an endpoint (`MaxGeneration`), because two of
them break it (`endpoint_stale`), and so would a Service that changes underneath, which is
why its run has neither. `ResolvableBecomesInjected` is likewise claimed of a binding edited
at most once, in a run in which nobody deletes or replaces the Deployment (`binding_ready`); `DeletionCompletes` of bindings
has no such condition, and its run has deletion, recreation and replacement of both the Workload and the Deployment.
Deadlock is not checked: a system in which everything is done stops.

**Fairness** (`FairSpec`). Workers take steps while there is something to do; timers fire;
watch events arrive; the garbage collector collects; a Deployment becomes available. All are
weak fairness, except that a worker is strongly fair to each queued name: it can begin one only
between reconciles, and the work queue is first in, first out. In `DatastoreBindingController` the
Workload controller comes back to its Deployment (`WF_vars(BeginBuild \/ Build)`), which is what
`AdmissibleBecomesAvailable` shows of it. Nobody has to disturb anything, and the ten-hour
resync is never relied on. Disturbances being finitely many, each property is about what
happens after the last one.

**Mutants.** Each property is also run against a faulty version of one definition, named
`<Definition>_<Fault>` and defined beside it (no `Owns`, no requeue, an update without
resourceVersion, an owner not checked, an annotation overwritten, ...), and must fail there.

## 4. What is promised and the code does not do

Three properties state a sentence of the documentation or of a status message; TLC finds each
violated (`PROJECT.json`, `findings`).

1. `RefusesForeignObjects`: `docs/security.md:31` says that foreign objects are not modified; one
   that appears between the preflight and CreateOrUpdate's own Get is adopted, and the
   Service is deleted by name on the word of the cache.
2. `ReadyMeansAnnotated`: the message at `serviceendpoint_controller.go:242` says that the
   annotations are applied; after two quick edits the second patch, the difference to a
   stale cache, is empty. Nothing repairs it before the next event or resync.
3. `ReadyMeansInjected`: the message at `datastorebinding_controller.go:284` says that the variables
   have been injected; when the Deployment is deleted the Workload controller makes a
   new one without them, and nothing wakes the binding.

Other sentences that reading the code against the models contradicts, without a run of their own:

- `docs/known-limitations.md:14`: an excluded target reports `Pending`. Nothing watches Federations or
  ClusterMembers, and an applied Workload is not requeued, so it does so at its next event.
- `examples/local-multicluster/day-2.md:39`: each target moves through `Reconciling`. The condition
  of the Deployment that is read may still be that of the old pods, for the new image.
- `examples/local-multicluster/day-2.md:81`: while the Service is missing the endpoint reports
  `Degraded`. Services are not watched, and a Ready endpoint is not requeued.
- `docs/release/v0.1.0-alpha.1-release-notes.md:16`: the finalizer cleans up annotations. Those the
  cache has not seen, or on the Service of an earlier `workloadRef`, are left. The same holds of
  the variables of a binding (`:17`).
- `docs/architecture.md:127`: injection follows the ownership rule. The Get inside CreateOrUpdate
  (`datastorebinding_controller.go:158`) does not repeat the check of :92, so a Deployment that
  changed hands in between is injected; without an `app` container it gets only the annotation.
- `docs/security.md:37` and `docs/known-limitations.md:53`: the URL is written as a literal value.
  `injectEnvVars` writes a reference to the Secret's key.
- Nothing says what becomes of a spec that the CRD accepts and whose Service or Deployment the API server
  refuses, such as one with two unnamed ports: `workload_controller.go:100-105` returns an error in every retry and
  `reconcileStatus` is never reached. The status stays that of the earlier generation, although the
  Deployment may already be of the new spec.
- Removing a binding (`datastorebinding_controller.go:219`) removes every variable of its names, also one the
  user's spec declares, until the next rebuild.
- An edit of a binding that is taken back while the cached Deployment shows neither injection
  leaves the edited variables in the Deployment of a Ready binding (no sentence but that of 3 speaks of it).

## 5. What is proved

`tlapm` checks the theorems of the seven proof modules for every value of
the constants, from the modules' named assumptions: `SelectorAssumption` and `NoneAssumption`
(the markers of missing values are not values), `ControllerAssumption`, `EndpointAssumption`,
`FederationAssumption` and `BindingAssumption` (the constants have their types; markers for nobody and for another
controller differ and are not uids), `ObjectAssumption` and `PromiseAssumption` (the absence
of an object, in the controller's terms and in the promise's, is not an object).

The inductive invariant of the Workload controller is `IInv == TypeOK /\ Coherent`. `Coherent` is what optimistic concurrency
provides: a cached object whose resourceVersion is current *is* the server's object, and so is a
reconcile's copy of the Workload that no write has overtaken. `TypeOK` alone says nothing about
what a write is computed from; with `Coherent`, every status write that the API server accepts is
`Reported` or `Applied` of the Workload that is there (`ReconcileOnWorkload`), and every accepted
update of an object finds the owner that the cache showed (`CreateOrUpdateSparesOthers`).

For the refinement, `WorkloadPromiseProofs` strengthens it to `PInv`. What could break the promise is
a reconcile that still holds an earlier version when the present one has been reported. `Told` says
that there is none: then the cache and a running reconcile both know the present version. A status
write establishes it, because the copy it was computed from is the server's object and (`Fresh`)
was read from a cache that had caught up; an edit makes it vacuous, because the new generation is
ahead of the observed one (`NeverAhead`). `Written` says that after its Deployment write a reconcile's
content is there unless somebody else changed it, which is what a report of an application claims.
Seen from the promise every step is one of nine kinds (`StepKinds`); invariance and refinement are
proved of the nine. `PInv` does not mention the queue, timers or preflights: they matter to
what the operator comes to, not to this.

`WorkloadOutcomeProofs` is about what it comes to. `RunsOnlyWhereAdmitted` follows a reconcile through its
preflights: `Admitted` says that a copy past a preflight still passes it. `AppliedIsThere` adds to `PInv` that a
Deployment just written is there while the copy is current (`Upheld`): the garbage collector
takes only what belongs to a Workload that is gone. Both are about the operator's own doing, and say so
in a hypothesis on `Disturbances` that the run's configuration satisfies: `StableWorld` (Federations and
ClusterMembers do not change, no dependency is removed), and nobody else writes Deployments.
`SettledIsReconciled` has no such hypothesis. Its invariant, beside `IInv`, is `Heard /\ Done`. `Done` says of every
place in a reconcile, and of rest, which parts of the work are there, *unless* another reconcile is
`Awaited` (queued, a timer, an event). `Heard` says why that is enough: every change of a Workload is an event,
and so is every change to or from a Deployment or Service of ours; what changes in silence was
another's and is another's. So where nothing is awaited, the copy is the server's Workload and the cache is right
about our objects (`UnawaitedIsCurrent`), each step does its part, and a reconcile that ends without
asking for another has found its status in place.

For the ServiceEndpoint controller `Coherent` is not enough. `Annotate` trusts a copy of the endpoint
that may be old, and writes to a Service no resourceVersion protects. `Guarded` says what makes
that safe: a copy that has the finalizer and no deletion mark proves that the endpoint in
the API server has the finalizer. Only the cleanup takes a finalizer away, and `Phases`
says why no such copy is left then: the release succeeds only if the cache itself has
seen the deletion. A recreated endpoint has no finalizer, and no copy in the cache says so.
`SettledIsReady` has the invariant `Attended` beside it: an endpoint that nothing is on its way about (`Quiet`) is
at rest, a stale copy belongs to one that is queued or will be, and a deleted endpoint that is still
there has its finalizer, so that no cleanup ends with neither a removal nor a retry.

For the Federation controller, `IInv == TypeOK /\ Coherent /\ Gathered /\ HonestStatuses`. `Gathered` is about
the members collected by a reconcile in progress: each once, none of them still to get, from a selector that
parses, and without a selector only named ones. `HonestStatuses` says of every Federation in the API server that a status
which claims its generation is the summary of such a list for its spec; a status write keeps it
because the copy it was computed from is, by `Coherent`, that very object. The agreement of the membership computations is proved from `Placement` alone
and lifted to every reachable state by `TypeOK`. `SettledIsReported` rests on `UpToDate`: a Federation's status is what
a reconcile would find in the cache now (`Told`), unless one is under way or `Awaited`; and what a reconcile has gathered
so far is what the cache shows of the members gathered (`GatheringTold`), unless a change has come
in since, which has queued the Federation again. A ClusterMember's status is its observation, by the same
argument with one step. A status write that
`SummaryChanged` skips would have changed nothing: a status of this generation and these members is their
summary already (`Honest`).

For the DatastoreBinding controller, `IInv` has the `Coherent`, `Phases` and `Guarded` of the ServiceEndpoint
controller, for both objects it writes, and `Seen`, the counterpart of `Attended`. What a rebuild and an
injection do to the environment is proved once, of lists of any length that may hold a name several
times: `MergeEffect`, `PreserveEffect` and `RemoveEffect` in `EnvVarsProofs` say which variables are in effect
afterwards. They rest on the ranks of the kept positions being without gaps (`RanksNumber`), which is the
pigeonhole principle of `FiniteSetTheorems`.
With them `ManagedAreInEffect`, which is about Deployments with an
`app` container, is inductive beside `IInv` and `RenderedHasApp` (a rebuild relies on the environment it
finds), and each controller's write is seen to keep what the other one put there.

| Theorem | Property |
|---|---|
| `WorkloadProofs!TypeCorrect` | `TypeOK` |
| `WorkloadProofs!EditsSurvive` | `ReconcileKeepsTheSpec` |
| `StatusIsMonotonic` | `StatusFollowsGeneration`, with `NeverAhead` as the second invariant |
| `ConditionsTellOneStory` | `ConditionsMatchTarget`, by `StatusTellsOneStory` on the two status functions |
| `OtherControllersAreSafe` | `OtherControllersObjectsUntouched` |
| `ImplementsThePromise` | `KeepsThePromise`: `WorkloadController` implements `WorkloadPromise` |
| `SettledIsReconciled` | `SettledMeansReconciled`, by `Heard` and `Done` |
| `AppliedIsThere` | `AppliedDeploymentIsApplied`, where nobody else writes Deployments |
| `RunsOnlyWhereAdmitted` | `RuntimeOnlyWhereAdmitted`, in a `StableWorld` |
| `ServiceEndpointProofs!TypeCorrect` | `TypeOK` |
| `ServiceEndpointProofs!FinalizerFirst` | `FinalizerBeforeAnnotations` |
| `ServiceEndpointProofs!EditsSurvive` | `ReconcileKeepsTheSpec` |
| `ServiceEndpointProofs!SettledIsReady` | `SettledMeansReady`, by `Attended` |
| `FederationProofs!TypeCorrect` | `TypeOK` |
| `StatusIsOfItsGeneration` | `StatusMatchesSpec` |
| `FederationProofs!EditsSurvive` | `ReconcileKeepsTheSpec` |
| `StatusAndPlacementAgree` | `StatusListsTheAdmittedMembers` |
| `PrimaryAndPlacementAgree` | `PrimaryIsAdmitted` |
| `SettledIsReported` | `SettledMeansReported`, by `UpToDate` |
| `DatastoreBindingProofs!TypeCorrect` | `TypeOK` |
| `DatastoreBindingProofs!SettledIsReady` | `SettledMeansReady`, by `Seen` |
| `AnnotationMatchesEnvironment` | `ManagedAreInEffect`, and that every rendered Deployment has the `app` container (`RenderedHasApp`) |
| `BothControllersAgree` | `EachKeepsTheOthersVariables` |
| `DatastoreBindingProofs!FinalizerFirst` | `FinalizerBeforeInjection` |
| `DatastoreBindingProofs!EditsSurvive` | `ReconcileKeepsTheSpec` |

Every invariant and every action property of a passing run is stated by a theorem. Only
model-checked are the liveness properties (`AdmissibleBecomesAvailable`, `EveryVersionIsReported`,
`ResolvableBecomesReady`, `DeletionCompletes`, `FederationConverges`, `ResolvableBecomesInjected`): they
hold under fairness, and neither that nor ENABLED is within the prover's reach. The theorems about rest come
as near to them as safety can: whatever fairness brings to rest is right.

## 6. Not modelled, and the plan

Not modelled: `polykube-status` (a read-only command without state), manifests, OpenTofu modules,
demo and release scripts (no behaviour of their own), generated code; `FieldsNotEnforced` of
Workloads, endpoints and bindings (nobody reads it; the Federation's is modelled); several clusters at once (each
decides alone, from its own copies; what spreads them is GitOps); foreground deletion of
Workloads; the relist of a broken watch apart from `Restart`.

Next, in this order:

1. The safety half of convergence: from a state in which nothing is disturbed any more, every step of a
   reconcile leads nearer to rest; a measure on queue, events, timers and places that no step but a
   disturbance raises.
2. The properties of the Workload controller with a hypothesis on `Disturbances`, as step properties that
   hold without it: what of an applied or admitted state only somebody else's step can end.
3. The hazards of `PROJECT.json` that no property covers yet.
