--------------------------- MODULE WorkloadController --------------------------
(***************************************************************************)
(* The Workload controller of one member cluster: it turns a Workload into *)
(* a Deployment and a Service of the same name and reports what it did in  *)
(* the Workload's status.                                                  *)
(*                                                                         *)
(* The controller never sees the API server's objects themselves. It reads *)
(* an informer cache that lags behind them, works for several steps on the *)
(* copy of the Workload it read first, and writes back under optimistic    *)
(* concurrency: an Update names the resourceVersion that was read and      *)
(* fails if the object has changed since. Meanwhile users, GitOps, the     *)
(* Deployment controller and the garbage collector change the same         *)
(* objects, and the operator may crash between any two steps.              *)
(*                                                                         *)
(* One Workload name is modelled: the queue hands each name to one worker  *)
(* at a time, and a reconcile touches no other name's objects.             *)
(***************************************************************************)
EXTENDS Placement, Naturals, Sequences

CONSTANTS
    Self,              \* --cluster-member-name, or None when the flag is unset
    Specs,             \* the Workload specs users apply
    Infras,            \* what the Federations and ClusterMembers can be
    Secrets, ConfigMaps, Images, PortLists,
    NoPorts,           \* a spec that declares no ports
    RefusedImages,     \* what makes a Deployment, and a Service, that the API server
    RefusedPorts,      \* never accepts (two unnamed ports), though the Workload is
    NoImage,           \* status.activeImage before the first apply
    NoController,      \* no ownerReference with controller: true
    OtherController,   \* a controller that is not a Workload of this name
    ForeignTemplate,   \* the content of a Deployment or Service this operator
                       \* did not write, or that was edited by hand
    Disturbances,      \* the kinds of disturbances a run lets happen
    MaxDisturbances    \* how many of them (bounds generations, uids, restarts)

Kinds == {"Workload", "Deployment", "Service"}

DisturbanceKinds ==
    {"edit", "delete", "infrastructure", "addDependency", "removeDependency",
     "deployment", "service", "rollout", "error", "restart", "resync"}

\* WorkloadSpec. Dependencies are listed in the order the preflight reads them
\* (an envFrom entry naming a ConfigMap and a Secret is the two in that order);
\* `image` stands for all that the pod template copies and nothing branches on.
SpecShape ==
    [federationRef : Federations \cup {None}, targetPolicy : TargetPolicy \cup {None},
     imagePullSecrets : Seq(Secrets), envFrom : Seq(Secrets \cup ConfigMaps),
     image : Images, ports : PortLists \cup {NoPorts}]

ASSUME ControllerAssumption ==
    /\ Self \in Members \cup {None}
    /\ Specs \subseteq SpecShape
    /\ Infras \subseteq Infrastructure
    /\ RefusedImages \subseteq Images /\ RefusedPorts \subseteq PortLists
    /\ Disturbances \subseteq DisturbanceKinds
    /\ MaxDisturbances \in Nat
    /\ NoController # OtherController
    /\ {NoController, OtherController} \cap Nat = {}

VARIABLES
    server,        \* the API server's Workload, Deployment and Service
    cache,         \* the operator's informer cache of the three
    lag,           \* the kinds whose cached resourceVersion is not the server's
    events,        \* those of them with an undelivered event that enqueues
    infra,         \* Federations and ClusterMembers
    dependencies,  \* the Secrets and ConfigMaps that exist
    lastUid,       \* the uid of the last Workload created under this name
    queued,        \* the name is in the work queue (or dirty while processed)
    timer,         \* a RequeueAfter or a rate-limited retry is pending
    pc,            \* where Reconcile is
    held,          \* Reconcile's copy of the Workload
    heldStale,     \* the server's Workload is no longer the version of that copy
    verdict,       \* why a preflight stopped the reconcile
    budget         \* disturbances left

objects    == <<server, cache, lag, events>>
world      == <<infra, dependencies>>
reconciler == <<pc, held, heldStale, verdict>>
queue      == <<queued, timer>>
vars == <<objects, world, lastUid, queue, reconciler, budget>>

--------------------------------------------------------------------------------
(* Objects.                                                                     *)

ConditionTypes == {"Pending", "Degraded", "RuntimeObjectsApplied", "Available"}

Reasons ==
    PendingReasons \cup InvalidReferenceReasons \cup
    {"SecretNotFound", "ConfigMapNotFound",
     "DeploymentOwnershipConflict", "ServiceOwnershipConflict"}

ConditionReasons ==
    Reasons \cup {"Absent", "ApplySucceeded", "DeploymentAvailable", "DeploymentReconciling"}

\* WorkloadStatus. A condition is its reason ("DeploymentReconciling" is the one
\* whose status is False); target is the state of the single entry of targets.
Status ==
    [observedGeneration : Nat,
     target             : {"Unset", "Pending", "Degraded", "Reconciling", "Available"},
     activeImage        : Images \cup {NoImage},
     conditions         : [ConditionTypes -> ConditionReasons]]

EmptyStatus ==
    [observedGeneration |-> 0, target |-> "Unset", activeImage |-> NoImage,
     conditions |-> [c \in ConditionTypes |-> "Absent"]]

\* What reconcileDeployment copies into the Deployment, and reconcileService
\* into the Service; containerPorts puts the ports in the pod template too.
Template(spec) ==
    [image |-> spec.image, ports |-> spec.ports,
     imagePullSecrets |-> spec.imagePullSecrets, envFrom |-> spec.envFrom]

Templates == {Template(spec) : spec \in Specs}

\* Of a spec, or of a template: the API server refuses what is rendered from it.
Refused(spec) == spec.image \in RefusedImages \/ spec.ports \in RefusedPorts

Owners    == Nat \cup {NoController, OtherController}

Workloads   == [uid : Nat, generation : Nat, spec : Specs, status : Status]
Deployments == [owner : Owners, template : {ForeignTemplate} \cup Templates, available : BOOLEAN]
Services    == [owner : Owners, ports : {NoPorts, ForeignTemplate} \cup PortLists]

\* Not existing is not some object.
ASSUME ObjectAssumption == None \notin Workloads \cup Deployments \cup Services

Objects == [Workload   : {None} \cup Workloads,
            Deployment : {None} \cup Deployments,
            Service    : {None} \cup Services]

TypeOK ==
    /\ server \in Objects
    /\ cache \in Objects
    /\ lag \subseteq Kinds /\ events \subseteq lag
    /\ infra \in Infrastructure
    /\ dependencies \subseteq Secrets \cup ConfigMaps
    /\ lastUid \in Nat
    /\ queued \in BOOLEAN /\ timer \in BOOLEAN
    /\ pc \in {"idle", "placement", "dependencies", "ownership", "deployment",
               "service", "status", "report"}
    /\ held \in {None} \cup Workloads
    /\ heldStale \in BOOLEAN
    /\ IF pc = "report" THEN verdict \in Reasons ELSE verdict = "None"
    /\ budget \in 0 .. MaxDisturbances

Init ==
    /\ server = [Workload |-> None, Deployment |-> None, Service |-> None]
    /\ cache = server
    /\ lag = {} /\ events = {}
    /\ infra \in Infras
    /\ dependencies \in SUBSET (Secrets \cup ConfigMaps)
    /\ lastUid = 0
    /\ queued = FALSE /\ timer = FALSE
    /\ pc = "idle" /\ held = None /\ heldStale = FALSE /\ verdict = "None"
    /\ budget = MaxDisturbances

--------------------------------------------------------------------------------
(* The API server, the informers and the work queue (controller-runtime and     *)
(* Kubernetes, as the controller uses them).                                    *)

\* Is the object controlled by some Workload of this name (whatever its uid)?
OwnedByName(object) == object # None /\ object.owner \notin {NoController, OtherController}

\* metav1.IsControlledBy compares uids.
ControlledBy(object, uid) == object # None /\ object.owner = uid

\* Fault: no Owns.
Enqueues_ForOnly(kind, old, new) == kind = "Workload"

\* SetupWithManager: For(Workload) enqueues on every event of a Workload, Owns on
\* the events of Deployments and Services whose old or new version is
\* controlled by a Workload of this name. Nothing else is watched.
Enqueues(kind, old, new) == kind = "Workload" \/ OwnedByName(old) \/ OwnedByName(new)

\* A write bumps the resourceVersion, so the cached one, and the copy a running
\* reconcile holds, are stale; a write that changes nothing is not stored.
Store(kind, object) ==
    /\ server' = [server EXCEPT ![kind] = object]
    /\ IF object = server[kind] THEN UNCHANGED <<lag, events>>
       ELSE /\ lag' = lag \cup {kind}
            /\ events' = IF Enqueues(kind, server[kind], object)
                         THEN events \cup {kind} ELSE events
    /\ UNCHANGED cache

Write(kind, object) ==
    /\ Store(kind, object)
    /\ heldStale' = (heldStale \/ (kind = "Workload" /\ pc # "idle" /\ object # server[kind]))

NoWrite == UNCHANGED <<objects, heldStale>>

\* The watch events of a kind reach the informer: every version in turn, of
\* which the last one stays in the cache.
Sync(kind) ==
    /\ kind \in lag
    /\ cache' = [cache EXCEPT ![kind] = server[kind]]
    /\ lag' = lag \ {kind}
    /\ events' = events \ {kind}
    /\ queued' = (queued \/ kind \in events)
    /\ UNCHANGED <<server, world, lastUid, timer, reconciler, budget>>

TimerFires ==
    /\ timer
    /\ timer' = FALSE
    /\ queued' = TRUE
    /\ UNCHANGED <<objects, world, lastUid, reconciler, budget>>

--------------------------------------------------------------------------------
(* Reconcile.                                                                   *)

\* Faults: no RequeueAfter, and errors are swallowed; what one reconcile found out
\* is there in the next.
Finish_NoRetry(retry) ==
    pc' = "idle" /\ held' = None /\ verdict' = "None" /\ UNCHANGED timer

Finish_KeepsVerdict(retry) ==
    pc' = "idle" /\ held' = None /\ UNCHANGED verdict /\ timer' = (timer \/ retry)

\* A reconcile ends: with RequeueAfter or an error (retry) or with neither.
Finish(retry) ==
    /\ pc' = "idle" /\ held' = None /\ verdict' = "None"
    /\ timer' = (timer \/ retry)

Fail == Finish(TRUE) /\ UNCHANGED objects /\ heldStale' = FALSE

Goto(step) == pc' = step /\ UNCHANGED <<held, verdict, timer>>

StopWith(reason) == pc' = "report" /\ verdict' = reason /\ UNCHANGED <<held, timer>>

\* A step of a reconcile changes nothing outside the operator and its objects.
Step(step) == pc = step /\ UNCHANGED <<world, lastUid, queued, budget>>

\* The worker takes the name from the queue and gets the Workload.
BeginAbsent ==
    /\ pc = "idle" /\ queued /\ cache.Workload = None
    /\ queued' = FALSE
    /\ UNCHANGED <<objects, world, lastUid, timer, reconciler, budget>>

Begin ==
    /\ pc = "idle" /\ queued /\ cache.Workload # None
    /\ queued' = FALSE
    /\ held' = cache.Workload
    /\ heldStale' = ("Workload" \in lag)
    /\ pc' = IF Self = None THEN "dependencies" ELSE "placement"
    /\ UNCHANGED <<objects, world, lastUid, timer, verdict, budget>>

\* Fault: placement is not checked.
CheckPlacement_Skipped == Step("placement") /\ NoWrite /\ Goto("dependencies")

CheckPlacement ==
    /\ Step("placement") /\ NoWrite
    /\ LET reason == PlacementVerdict(infra, Self, held.spec.federationRef, held.spec.targetPolicy)
       IN IF reason = "Placed" THEN Goto("dependencies") ELSE StopWith(reason)

\* The positions of the spec's dependencies that do not exist.
Missing(spec) ==
    LET refs == spec.imagePullSecrets \o spec.envFrom
    IN {i \in DOMAIN refs : refs[i] \notin dependencies}

\* dependencyPreflight: the first missing Secret or ConfigMap decides.
CheckDependencies ==
    /\ Step("dependencies") /\ NoWrite
    /\ LET refs    == held.spec.imagePullSecrets \o held.spec.envFrom
           missing == Missing(held.spec)
       IN \/ missing = {} /\ Goto("ownership")
          \/ \E first \in missing :
                /\ \A i \in missing : first <= i
                /\ StopWith(IF refs[first] \in Secrets THEN "SecretNotFound"
                                                     ELSE "ConfigMapNotFound")

\* ownershipPreflight: a same-name object must not exist, or be ours.
CheckOwnership ==
    /\ Step("ownership") /\ NoWrite
    /\ LET conflict(kind) == cache[kind] # None /\ ~ControlledBy(cache[kind], held.uid)
       IN IF conflict("Deployment") THEN StopWith("DeploymentOwnershipConflict")
          ELSE IF held.spec.ports # NoPorts /\ conflict("Service")
               THEN StopWith("ServiceOwnershipConflict")
          ELSE Goto("deployment")

\* controllerutil.CreateOrUpdate gets the object from the cache again and creates
\* or updates it. Create fails when the object exists after all, Update when it
\* has changed since; before it, SetControllerReference fails when another
\* controller owns the object. It compares the owner's kind and name, not its
\* uid, and an object nobody controls becomes ours.
CreateOrUpdateFails(kind) ==
    \/ cache[kind] = None /\ server[kind] # None
    \/ cache[kind] # None /\ (cache[kind].owner = OtherController \/ kind \in lag)

\* Faults: the owner is overwritten without SetControllerReference's check; the
\* Deployment is created but never updated.
ApplyDeployment_TakesOver ==
    /\ Step("deployment")
    /\ IF "Deployment" \in lag THEN Fail
       ELSE /\ Write("Deployment", [owner |-> held.uid, template |-> Template(held.spec),
                                    available |-> FALSE])
            /\ Goto("service")

ApplyDeployment_CreateOnly ==
    /\ Step("deployment")
    /\ IF server.Deployment # None THEN NoWrite
       ELSE Write("Deployment", [owner |-> held.uid, template |-> Template(held.spec),
                                 available |-> FALSE])
    /\ Goto("service")

\* The selector of a Deployment is immutable. One that nobody controls may be an
\* orphan of this controller's, or have a selector of its own.
MayHaveOtherSelector ==
    cache.Deployment # None /\ cache.Deployment.owner = NoController

\* reconcileDeployment. The API server fills in container defaults that the
\* rebuilt container lacks, so an Update is always sent, changed or not.
ApplyDeployment ==
    /\ Step("deployment")
    /\ \/ CreateOrUpdateFails("Deployment") /\ Fail
       \/ MayHaveOtherSelector /\ Fail
       \/ held.spec.image \in RefusedImages /\ Fail
       \/ /\ ~CreateOrUpdateFails("Deployment") /\ held.spec.image \notin RefusedImages
          /\ Write("Deployment",
                   [owner     |-> held.uid, template |-> Template(held.spec),
                    available |-> cache.Deployment # None /\ cache.Deployment.available])
          /\ Goto("service")

\* reconcileService with ports. The mutated Service equals the cached one when
\* that is up to date, and then no Update is sent, whatever the server has. One
\* that the API server refuses ends every reconcile here, before the status.
ApplyService ==
    /\ Step("service") /\ held.spec.ports # NoPorts
    /\ LET desired == [owner |-> held.uid, ports |-> held.spec.ports]
       IN IF cache.Service = desired THEN NoWrite /\ Goto("status")
          ELSE IF CreateOrUpdateFails("Service") \/ held.spec.ports \in RefusedPorts THEN Fail
          ELSE Write("Service", desired) /\ Goto("status")

\* reconcileService without ports deletes the Service it finds to be its own, by
\* name: whatever has that name on the server is gone.
DeleteService ==
    /\ Step("service") /\ held.spec.ports = NoPorts
    /\ IF ControlledBy(cache.Service, held.uid) THEN Write("Service", None) ELSE NoWrite
    /\ Goto("status")

--------------------------------------------------------------------------------
(* Status.                                                                      *)

\* The conditions left after removing some types and setting others.
SetConditions(conditions, removed, set) ==
    [c \in ConditionTypes |-> IF c \in DOMAIN set THEN set[c]
                              ELSE IF c \in removed THEN "Absent" ELSE conditions[c]]

\* Fault: the other verdict's condition is not removed.
Reported_KeepsVerdict(workload, reason) ==
    LET target == IF reason \in PendingReasons THEN "Pending" ELSE "Degraded"
    IN [workload.status EXCEPT
            !.observedGeneration = workload.generation,
            !.target = target,
            !.conditions = SetConditions(@, {"RuntimeObjectsApplied", "Available"},
                                         [c \in {target} |-> reason])]

\* reconcilePendingStatus and reconcileDegradedStatus; activeImage stays.
Reported(workload, reason) ==
    LET target == IF reason \in PendingReasons THEN "Pending" ELSE "Degraded"
    IN [workload.status EXCEPT
            !.observedGeneration = workload.generation,
            !.target = target,
            !.conditions = SetConditions(@, ConditionTypes \ {target},
                                         [c \in {target} |-> reason])]

\* reconcileStatus, from the cached Deployment's Available condition.
Applied(workload, available) ==
    [workload.status EXCEPT
        !.observedGeneration = workload.generation,
        !.target = IF available THEN "Available" ELSE "Reconciling",
        !.activeImage = workload.spec.image,
        !.conditions = SetConditions(@, {"Pending", "Degraded"},
            [RuntimeObjectsApplied |-> "ApplySucceeded",
             Available |-> IF available THEN "DeploymentAvailable" ELSE "DeploymentReconciling"])]

\* Faults: the held copy overwrites whatever is there; or only its status does,
\* as a patch without a resourceVersion would.
UpdateStatus_Overwrites(status, requeue) ==
    /\ Store("Workload", [held EXCEPT !.status = status])
    /\ heldStale' = FALSE /\ Finish(requeue)

UpdateStatus_Patches(status, requeue) ==
    /\ IF server.Workload = None THEN UNCHANGED objects
       ELSE Store("Workload", [server.Workload EXCEPT !.status = status])
    /\ heldStale' = FALSE /\ Finish(requeue)

\* Status().Update of the held copy, skipped when it would change nothing; it
\* fails when the Workload has changed, or is another one, or is gone.
UpdateStatus(status, requeue) ==
    /\ IF status # held.status /\ ~heldStale
       THEN Store("Workload", [held EXCEPT !.status = status])
       ELSE UNCHANGED objects
    /\ heldStale' = FALSE
    /\ Finish(requeue \/ (status # held.status /\ heldStale))

\* reconcilePending, reconcileDegraded: report, and come back after 30 seconds.
ReportVerdict ==
    /\ Step("report")
    /\ UpdateStatus(Reported(held, verdict), TRUE)

\* reconcileStatus: the Get fails while the cache has not seen the Deployment.
ReportApplied ==
    /\ Step("status")
    /\ IF cache.Deployment = None THEN Fail
       ELSE UpdateStatus(Applied(held, cache.Deployment.available), FALSE)

Reconcile ==
    \/ BeginAbsent \/ Begin
    \/ CheckPlacement \/ CheckDependencies \/ CheckOwnership
    \/ ApplyDeployment \/ ApplyService \/ DeleteService
    \/ ReportVerdict \/ ReportApplied

--------------------------------------------------------------------------------
(* Everyone else: users and GitOps, the Deployment controller, the garbage      *)
(* collector, and whatever ends the operator's process.                         *)

\* A step the run bounds; a run may rule its kind out.
Disturb(kind) ==
    /\ kind \in Disturbances
    /\ budget > 0
    /\ budget' = budget - 1

\* Deletions bound the creations.
CreateWorkload(spec) ==
    /\ server.Workload = None
    /\ lastUid' = lastUid + 1
    /\ Write("Workload", [uid |-> lastUid', generation |-> 1, spec |-> spec,
                          status |-> EmptyStatus])
    /\ UNCHANGED <<world, queue, pc, held, verdict, budget>>

EditWorkload(spec) ==
    /\ server.Workload # None /\ server.Workload.spec # spec
    /\ Disturb("edit")
    /\ Write("Workload", [server.Workload EXCEPT !.spec = spec, !.generation = @ + 1])
    /\ UNCHANGED <<world, lastUid, queue, pc, held, verdict>>

DeleteWorkload ==
    /\ server.Workload # None
    /\ Disturb("delete")
    /\ Write("Workload", None)
    /\ UNCHANGED <<world, lastUid, queue, pc, held, verdict>>

ChangeInfrastructure(i) ==
    /\ i # infra
    /\ Disturb("infrastructure")
    /\ infra' = i
    /\ UNCHANGED <<objects, dependencies, lastUid, queue, reconciler>>

AddDependency(d) ==
    /\ d \notin dependencies
    /\ Disturb("addDependency")
    /\ dependencies' = dependencies \cup {d}
    /\ UNCHANGED <<objects, infra, lastUid, queue, reconciler>>

RemoveDependency(d) ==
    /\ d \in dependencies
    /\ Disturb("removeDependency")
    /\ dependencies' = dependencies \ {d}
    /\ UNCHANGED <<objects, infra, lastUid, queue, reconciler>>

\* The controllers a same-name object may have after somebody else's write: a
\* new object is nobody's or another controller's, an edited one keeps its own.
ForeignOwners(object) ==
    {NoController, OtherController} \cup (IF object = None THEN {} ELSE {object.owner})

\* Somebody deletes, replaces or edits the Deployment of that name.
DisturbDeployment(owner, available) ==
    /\ Disturb("deployment")
    /\ owner \in ForeignOwners(server.Deployment)
    /\ Write("Deployment",
             [owner |-> owner, template |-> ForeignTemplate, available |-> available])
    /\ UNCHANGED <<world, lastUid, queue, pc, held, verdict>>

DeleteDeployment ==
    /\ server.Deployment # None
    /\ Disturb("deployment")
    /\ Write("Deployment", None)
    /\ UNCHANGED <<world, lastUid, queue, pc, held, verdict>>

\* The same for the Service.
DisturbService(owner) ==
    /\ Disturb("service")
    /\ owner \in ForeignOwners(server.Service)
    /\ Write("Service", [owner |-> owner, ports |-> ForeignTemplate])
    /\ UNCHANGED <<world, lastUid, queue, pc, held, verdict>>

RemoveService ==
    /\ server.Service # None
    /\ Disturb("service")
    /\ Write("Service", None)
    /\ UNCHANGED <<world, lastUid, queue, pc, held, verdict>>

\* The Deployment controller reports the condition deploymentAvailable reads. It
\* may keep reporting True through a rollout.
SetAvailable(available) ==
    /\ server.Deployment # None
    /\ server.Deployment.available # available
    /\ Write("Deployment", [server.Deployment EXCEPT !.available = available])
    /\ UNCHANGED <<world, lastUid, queue, pc, held, verdict>>

RolloutCompletes == SetAvailable(TRUE) /\ UNCHANGED budget
RolloutFails     == SetAvailable(FALSE) /\ Disturb("rollout")

WorkloadLives(uid) == server.Workload # None /\ server.Workload.uid = uid

\* The garbage collector deletes what a Workload that is gone controlled.
GarbageCollect(kind) ==
    /\ kind # "Workload" /\ OwnedByName(server[kind])
    /\ ~WorkloadLives(server[kind].owner)
    /\ Write(kind, None)
    /\ UNCHANGED <<world, lastUid, queue, budget, pc, held, verdict>>

\* An API call of a reconcile fails for reasons outside it (a timeout, a server that
\* refuses work, a lost connection), whatever was written before. (A write refused
\* for what it says fails in ApplyDeployment and ApplyService, every time.)
ApiCallFails ==
    /\ pc # "idle"
    /\ Disturb("error")
    /\ Fail
    /\ UNCHANGED <<world, lastUid, queued>>

\* The operator's process ends, anywhere in a reconcile, and another takes over:
\* timers and queue are lost, and the first lists enqueue what exists.
Restart ==
    /\ Disturb("restart")
    /\ cache' = server
    /\ lag' = {} /\ events' = {}
    /\ pc' = "idle" /\ held' = None /\ heldStale' = FALSE /\ verdict' = "None"
    /\ timer' = FALSE
    /\ queued' = (server.Workload # None \/ \E kind \in {"Deployment", "Service"} :
                                                OwnedByName(server[kind]))
    /\ UNCHANGED <<server, world, lastUid>>

\* The informer's periodic resync (ten hours by default) replays the cache.
Resync ==
    /\ cache.Workload # None
    /\ Disturb("resync")
    /\ queued' = TRUE
    /\ UNCHANGED <<objects, world, lastUid, timer, reconciler>>

Environment ==
    \/ \E spec \in Specs : CreateWorkload(spec) \/ EditWorkload(spec)
    \/ DeleteWorkload
    \/ \E i \in Infras : ChangeInfrastructure(i)
    \/ \E d \in Secrets \cup ConfigMaps : AddDependency(d) \/ RemoveDependency(d)
    \/ \E owner \in ForeignOwners(server.Deployment), available \in BOOLEAN :
            DisturbDeployment(owner, available)
    \/ DeleteDeployment
    \/ \E owner \in ForeignOwners(server.Service) : DisturbService(owner)
    \/ RemoveService
    \/ RolloutCompletes \/ RolloutFails
    \/ \E kind \in Kinds : GarbageCollect(kind)
    \/ ApiCallFails
    \/ Restart
    \/ Resync

Next ==
    \/ Reconcile
    \/ \E kind \in Kinds : Sync(kind)
    \/ TimerFires
    \/ Environment

Spec == Init /\ [][Next]_vars

\* The worker and the timers run, watch events arrive, and the garbage collector
\* and the Deployment controller do their work. Nobody has to make a disturbance.
Fairness ==
    /\ WF_vars(Reconcile)
    /\ WF_vars(TimerFires)
    /\ \A kind \in Kinds : WF_vars(Sync(kind))
    /\ \A kind \in Kinds : WF_vars(GarbageCollect(kind))
    /\ WF_vars(RolloutCompletes)

FairSpec == Spec /\ Fairness

================================================================================
