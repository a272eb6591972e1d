----------------------- MODULE DatastoreBindingController ----------------------
(***************************************************************************)
(* The DatastoreBinding controller of one member cluster, and the Workload *)
(* controller next to it as far as both write the same Deployment.         *)
(*                                                                         *)
(* A binding puts the connection of a datastore into the environment of    *)
(* the Deployment that the Workload controller rebuilds whenever it        *)
(* looks at it. The bindings of one worker are reconciled one at a time;   *)
(* only bindings are watched, so Workload, Deployment and Secret are what  *)
(* the informer cache shows at the moment they are read.                   *)
(*                                                                         *)
(* One Workload is modelled; a workloadRef to another name refers to       *)
(* nothing. Secrets are read as they are. The Workload controller is there *)
(* with its ownership check and its Deployment write; why and when it      *)
(* reconciles is WorkloadController's subject, here it may at any time.    *)
(***************************************************************************)
EXTENDS EnvVars

CONSTANTS
    Bindings,          \* the names of DatastoreBindings
    Primary,           \* the one named "primary"
    TheWorkload,       \* the Workload that is modelled
    OtherWorkload,     \* a name no Workload has
    BindingSpecs,      \* the specs users apply
    Secrets, Modes,
    UserEnvs,          \* what the Workload's spec.env can be
    Delivered,         \* the bindings and the spec.env when the operator starts
    None,
    OtherController,   \* the controller of a Deployment that is somebody else's
    Disturbances, MaxDisturbances   \* which, and how many (bounds generations, uids)

DisturbanceKinds ==
    {"create", "edit", "delete", "workload", "recreate", "deployment", "secret", "error", "restart"}

\* The keys of a connection Secret that are looked at.
Keys == {"url", "DATABASE_URL"}

\* DatastoreBindingSpec; engine is whether acceptedEngine accepts it.
SpecShape ==
    [workloadRef : {TheWorkload, OtherWorkload}, connectionRef : Secrets,
     engine : BOOLEAN, replicationMode : Modes]

\* Names are tagged, and so are values: where a variable comes from.
UrlOf(b)    == <<"URL", b>>
ModeOf(b)   == <<"REPLICATION_MODE", b>>
DatabaseUrl == <<"DATABASE_URL", None>>

EnvNames ==
    {<<tag, b>> : tag \in {"URL", "REPLICATION_MODE", "DATABASE_URL", "USER"},
                  b \in Bindings \cup {None}}

FromSecret(s, key) == <<"secret", s, key>>
FromMode(mode)     == <<"mode", mode, None>>
FromUser(v)        == <<"user", v, None>>

UserValues     == {FromUser(v) : v \in {"1", "2"}}
InjectedValues == {FromSecret(s, key) : s \in Secrets, key \in Keys}
                    \cup {FromMode(mode) : mode \in Modes}

Variables(values) == [name : EnvNames, value : values]

ASSUME BindingAssumption ==
    /\ None \notin Bindings /\ Primary \in Bindings
    /\ Bindings \cap {"workload", "deployment"} = {}
    /\ TheWorkload # OtherWorkload
    /\ BindingSpecs \subseteq SpecShape
    /\ Delivered \subseteq [bindings : [Bindings -> BindingSpecs \cup {None}], env : UserEnvs]
    /\ UserEnvs \subseteq Seq(Variables(UserValues))
    /\ OtherController \notin Nat
    /\ Disturbances \subseteq DisturbanceKinds
    /\ MaxDisturbances \in Nat

VARIABLES
    server,      \* the API server's bindings, Workload and Deployment
    cache,       \* the operator's informer cache of them
    lag,         \* those whose cached resourceVersion is not the server's
    secrets,     \* which key each connection Secret has, or None
    lastUid,     \* the uid of the last Workload created
    building,    \* the Workload a reconcile of the Workload controller works on
    queued,      \* the bindings in the work queue
    timers,      \* the bindings with a RequeueAfter or rate-limited retry pending
    current,     \* the binding being reconciled
    pc,          \* where its Reconcile is
    held,        \* Reconcile's copy of it
    heldStale,   \* the server's version is no longer that copy's
    key,         \* the key of the connection Secret that was found
    verdict,     \* why the binding is Degraded
    budget       \* disturbances left

objects    == <<server, cache, lag>>
queue      == <<queued, timers>>
reconciler == <<current, pc, held, heldStale, key, verdict>>
vars == <<objects, secrets, lastUid, building, queue, reconciler, budget>>

--------------------------------------------------------------------------------
(* Objects.                                                                     *)

Reasons ==
    {"UnsupportedEngine", "WorkloadNotFound", "ConnectionSecretNotFound",
     "DeploymentNotFound", "DeploymentOwnershipConflict"}

\* Ready is True with "Reconciled" only; with another reason Degraded is there too.
BindingStatus ==
    [observedGeneration : Nat, ready : Reasons \cup {"Absent", "Reconciled"}]

BindingObject ==
    [generation : Nat, spec : BindingSpecs, deleting : BOOLEAN, finalizer : BOOLEAN,
     status : BindingStatus]

NewBinding(spec) ==
    [generation |-> 1, spec |-> spec, deleting |-> FALSE, finalizer |-> FALSE,
     status |-> [observedGeneration |-> 0, ready |-> "Absent"]]

WorkloadObject == [uid : Nat, env : UserEnvs]

\* The Deployment of the Workload's name: its controller, whether it has a container
\* named "app", that one's environment (nothing reads another container's), and the
\* names in the managed-env-vars annotation.
DeploymentObject ==
    [owner : Nat \cup {OtherController}, app : BOOLEAN,
     env : Seq(Variables(UserValues \cup InjectedValues)), managed : SUBSET EnvNames]

ForeignDeployments ==
    {[owner |-> OtherController, app |-> app, env |-> <<>>, managed |-> {}] : app \in BOOLEAN}

ASSUME ObjectAssumption ==
    None \notin BindingObject \cup WorkloadObject \cup DeploymentObject

Objects ==
    [bindings   : [Bindings -> BindingObject \cup {None}],
     workload   : WorkloadObject \cup {None},
     deployment : DeploymentObject \cup {None}]

TypeOK ==
    /\ server \in Objects /\ cache \in Objects
    /\ lag \subseteq Bindings \cup {"workload", "deployment"}
    /\ secrets \in [Secrets -> Keys \cup {None}]
    /\ lastUid \in Nat
    /\ building \in WorkloadObject \cup {None}
    /\ queued \subseteq Bindings /\ timers \subseteq Bindings
    /\ pc \in {"idle", "finalizer", "resolve", "inject", "ready", "degraded", "cleanup",
               "remove", "release"}
    /\ IF pc = "idle" THEN current = None /\ held = None
                      ELSE current \in Bindings /\ held \in BindingObject
    /\ heldStale \in BOOLEAN
    /\ IF pc = "inject" THEN key \in Keys ELSE key = "None"
    /\ IF pc = "degraded" THEN verdict \in Reasons ELSE verdict = "None"
    /\ budget \in 0 .. MaxDisturbances

\* The operator starts in a cluster with a Workload and bindings nobody has looked
\* at yet.
Init ==
    /\ \E first \in Delivered :
            server = [bindings   |-> [b \in Bindings |->
                                        IF first.bindings[b] = None THEN None
                                        ELSE NewBinding(first.bindings[b])],
                      workload   |-> [uid |-> 1, env |-> first.env],
                      deployment |-> None]
    /\ cache = server /\ lag = {}
    /\ secrets = [s \in Secrets |-> "url"]
    /\ lastUid = 1 /\ building = None
    /\ queued = {b \in Bindings : server.bindings[b] # None} /\ timers = {}
    /\ current = None /\ pc = "idle" /\ held = None /\ heldStale = FALSE
    /\ key = "None" /\ verdict = "None"
    /\ budget = MaxDisturbances

ControlledBy(deployment, workload) ==
    deployment # None /\ workload # None /\ deployment.owner = workload.uid

--------------------------------------------------------------------------------
(* The API server and the informers.                                            *)

StoreBinding(b, object) ==
    /\ server' = [server EXCEPT !.bindings[b] = object]
    /\ lag' = IF object = server.bindings[b] THEN lag ELSE lag \cup {b}
    /\ UNCHANGED cache

StoreWorkload(object) ==
    /\ server' = [server EXCEPT !.workload = object]
    /\ lag' = lag \cup {"workload"}
    /\ UNCHANGED cache

\* A write that changes nothing is not stored.
StoreDeployment(object) ==
    /\ server' = [server EXCEPT !.deployment = object]
    /\ lag' = IF object = server.deployment THEN lag ELSE lag \cup {"deployment"}
    /\ UNCHANGED cache

NoWrite == UNCHANGED objects

\* SetupWithManager enqueues on the events of DatastoreBindings only.
SyncBinding(b) ==
    /\ b \in lag
    /\ cache' = [cache EXCEPT !.bindings[b] = server.bindings[b]]
    /\ lag' = lag \ {b}
    /\ queued' = queued \cup {b}
    /\ UNCHANGED <<server, secrets, lastUid, building, timers, reconciler, budget>>

SyncWorkload ==
    /\ "workload" \in lag
    /\ cache' = [cache EXCEPT !.workload = server.workload]
    /\ lag' = lag \ {"workload"}
    /\ UNCHANGED <<server, secrets, lastUid, building, queue, reconciler, budget>>

SyncDeployment ==
    /\ "deployment" \in lag
    /\ cache' = [cache EXCEPT !.deployment = server.deployment]
    /\ lag' = lag \ {"deployment"}
    /\ UNCHANGED <<server, secrets, lastUid, building, queue, reconciler, budget>>

TimerFires(b) ==
    /\ b \in timers
    /\ timers' = timers \ {b}
    /\ queued' = queued \cup {b}
    /\ UNCHANGED <<objects, secrets, lastUid, building, reconciler, budget>>

--------------------------------------------------------------------------------
(* The Workload controller.                                                     *)

Builder == UNCHANGED <<secrets, lastUid, queue, reconciler, budget>>

\* It gets the Workload, and ownershipPreflight finds no foreign Deployment.
BeginBuild ==
    /\ building = None /\ cache.workload # None
    /\ cache.deployment = None \/ ControlledBy(cache.deployment, cache.workload)
    /\ building' = cache.workload
    /\ NoWrite /\ Builder

\* The Deployment as reconcileDeployment makes it from the one that is there.
Rebuilt(deployment) ==
    IF deployment = None
    THEN [owner |-> building.uid, app |-> TRUE, env |-> building.env, managed |-> {}]
    ELSE [deployment EXCEPT
            !.owner = building.uid,
            !.app = TRUE,
            !.env = PreserveManaged(building.env, deployment.env, deployment.managed)]

\* Fault: the Deployment is replaced without a resourceVersion.
Build_Overwrites ==
    /\ building # None /\ building' = None
    /\ StoreDeployment(Rebuilt(cache.deployment))
    /\ Builder

\* reconcileDeployment: CreateOrUpdate of what the cache shows. Creating what is
\* there already, another controller's Deployment and one that has changed
\* since are errors.
Build ==
    /\ building # None /\ building' = None
    /\ IF \/ cache.deployment = None /\ server.deployment # None
          \/ cache.deployment # None
                /\ (cache.deployment.owner = OtherController \/ "deployment" \in lag)
       THEN NoWrite
       ELSE StoreDeployment(Rebuilt(cache.deployment))
    /\ Builder

--------------------------------------------------------------------------------
(* Reconcile.                                                                   *)

\* Fault: no RequeueAfter, and errors are swallowed.
Finish_NoRetry(retry) ==
    /\ pc' = "idle" /\ current' = None /\ held' = None /\ heldStale' = FALSE
    /\ key' = "None" /\ verdict' = "None"
    /\ UNCHANGED timers

\* Fault: the reason of one reconcile is carried into the next.
Finish_KeepsVerdict(retry) ==
    /\ pc' = "idle" /\ current' = None /\ held' = None /\ heldStale' = FALSE
    /\ key' = "None"
    /\ timers' = IF retry THEN timers \cup {current} ELSE timers
    /\ UNCHANGED verdict

\* A reconcile ends: with RequeueAfter or an error (retry) or with neither.
Finish(retry) ==
    /\ pc' = "idle" /\ current' = None /\ held' = None /\ heldStale' = FALSE
    /\ key' = "None" /\ verdict' = "None"
    /\ timers' = IF retry THEN timers \cup {current} ELSE timers

Fail == Finish(TRUE) /\ NoWrite

Goto(step) ==
    /\ pc' = step /\ key' = "None"
    /\ UNCHANGED <<current, held, heldStale, verdict, timers>>

Step(step) == pc = step /\ UNCHANGED <<secrets, lastUid, building, queued, budget>>

\* The worker takes a binding from the queue and gets it.
BeginAbsent(b) ==
    /\ pc = "idle" /\ b \in queued /\ cache.bindings[b] = None
    /\ queued' = queued \ {b}
    /\ UNCHANGED <<objects, secrets, lastUid, building, timers, reconciler, budget>>

Begin(b) ==
    /\ pc = "idle" /\ b \in queued /\ cache.bindings[b] # None
    /\ queued' = queued \ {b}
    /\ current' = b /\ held' = cache.bindings[b] /\ heldStale' = (b \in lag)
    /\ pc' = IF cache.bindings[b].deleting THEN "cleanup" ELSE "finalizer"
    /\ UNCHANGED <<objects, secrets, lastUid, building, timers, key, verdict, budget>>

\* Fault: the finalizer is forgotten.
AddFinalizer_Skipped == Step("finalizer") /\ NoWrite /\ Goto("resolve")

\* The finalizer comes first; Update returns the new version into the copy.
AddFinalizer ==
    /\ Step("finalizer")
    /\ \/ held.finalizer /\ NoWrite /\ Goto("resolve")
       \/ ~held.finalizer /\ heldStale /\ Fail
       \/ /\ ~held.finalizer /\ ~heldStale
          /\ held' = [held EXCEPT !.finalizer = TRUE]
          /\ StoreBinding(current, held')
          /\ pc' = "resolve" /\ UNCHANGED <<current, heldStale, key, verdict, timers>>

\* resolveWorkload.
Referenced(spec) == IF spec.workloadRef = TheWorkload THEN cache.workload ELSE None

\* The engine, the Workload, the Secret and the Deployment, in the order in which
\* Reconcile asks for them: "Resolved", or the reason why not.
Resolution(spec) ==
    LET workload == Referenced(spec)
    IN IF ~spec.engine                               THEN "UnsupportedEngine"
       ELSE IF workload = None                       THEN "WorkloadNotFound"
       ELSE IF secrets[spec.connectionRef] = None    THEN "ConnectionSecretNotFound"
       ELSE IF cache.deployment = None               THEN "DeploymentNotFound"
       ELSE IF ~ControlledBy(cache.deployment, workload) THEN "DeploymentOwnershipConflict"
       ELSE "Resolved"

Resolve ==
    /\ Step("resolve") /\ NoWrite
    /\ LET resolution == Resolution(held.spec)
       IN IF resolution = "Resolved"
          THEN pc' = "inject" /\ key' = secrets[held.spec.connectionRef] /\ UNCHANGED verdict
          ELSE pc' = "degraded" /\ verdict' = resolution /\ UNCHANGED key
    /\ UNCHANGED <<current, held, heldStale, timers>>

\* datastoreManagedEnvNames.
ManagedNames(b) == {UrlOf(b), ModeOf(b)} \cup (IF b = Primary THEN {DatabaseUrl} ELSE {})

\* The variables injectEnvVars builds.
Injected(b, spec, k) ==
    LET url(name) == [name |-> name, value |-> FromSecret(spec.connectionRef, k)]
    IN <<url(UrlOf(b)), [name |-> ModeOf(b), value |-> FromMode(spec.replicationMode)]>>
        \o (IF b = Primary THEN <<url(DatabaseUrl)>> ELSE <<>>)

\* CreateOrUpdate gets the Deployment from the cache again. One that has gone since is
\* created with the resourceVersion it had, which the API server refuses; one that
\* the change leaves as the cache shows it is not sent at all.
UpdateDeployment(desired, next) ==
    IF cache.deployment = None \/ (desired # cache.deployment /\ "deployment" \in lag)
    THEN Fail
    ELSE /\ IF desired = cache.deployment THEN NoWrite ELSE StoreDeployment(desired)
         /\ Goto(next)

\* The loops over the containers change the environment of one named "app", if there
\* is one.
AppEnv(deployment, env) == IF deployment.app THEN env ELSE deployment.env

\* Fault: the annotation is not written.
Inject_Unmanaged ==
    /\ Step("inject")
    /\ UpdateDeployment(
            [cache.deployment EXCEPT
                !.env = AppEnv(cache.deployment, MergeEnvVars(@, Injected(current, held.spec, key)))], "ready")

\* Fault: the annotation lists this binding's variables only.
Inject_ReplacesAnnotation ==
    /\ Step("inject")
    /\ UpdateDeployment(
            [cache.deployment EXCEPT
                !.env = AppEnv(cache.deployment, MergeEnvVars(@, Injected(current, held.spec, key))),
                !.managed = ManagedNames(current)], "ready")

\* injectEnvVars, whoever controls the Deployment now. The annotation is written whether
\* or not there is an "app" container.
Inject ==
    /\ Step("inject")
    /\ UpdateDeployment(
            [cache.deployment EXCEPT
                !.env = AppEnv(cache.deployment, MergeEnvVars(@, Injected(current, held.spec, key))),
                !.managed = @ \cup ManagedNames(current)], "ready")

\* Fault: a Deployment that is gone, or is somebody else's, stops the cleanup.
Cleanup_NeedsDeployment ==
    /\ Step("cleanup") /\ NoWrite
    /\ IF ~held.finalizer THEN Finish(FALSE)
       ELSE IF ControlledBy(cache.deployment, Referenced(held.spec)) THEN Goto("remove")
       ELSE Finish(TRUE)

\* reconcileBindingDelete: is there a Deployment to clean up?
Cleanup ==
    /\ Step("cleanup") /\ NoWrite
    /\ IF ~held.finalizer THEN Finish(FALSE)
       ELSE IF ControlledBy(cache.deployment, Referenced(held.spec)) THEN Goto("remove")
       ELSE Goto("release")

Remove ==
    /\ Step("remove")
    /\ UpdateDeployment(
            [cache.deployment EXCEPT
                !.env = AppEnv(cache.deployment, RemoveEnvVars(@, ManagedNames(current))),
                !.managed = @ \ ManagedNames(current)], "release")

\* The API server deletes a deleted object with its last finalizer.
Release ==
    /\ Step("release")
    /\ IF heldStale THEN Fail ELSE StoreBinding(current, None) /\ Finish(FALSE)

\* Fault: the status is written without a resourceVersion.
UpdateStatus_Overwrites(ready, requeue) ==
    /\ StoreBinding(current, [held EXCEPT !.status = [observedGeneration |-> held.generation,
                                                      ready |-> ready]])
    /\ Finish(requeue)

\* Status().Update of the held copy, skipped when it would change nothing.
UpdateStatus(ready, requeue) ==
    LET status == [observedGeneration |-> held.generation, ready |-> ready]
    IN /\ IF status # held.status /\ ~heldStale
          THEN StoreBinding(current, [held EXCEPT !.status = status]) ELSE NoWrite
       /\ Finish(requeue \/ (status # held.status /\ heldStale))

SetReady == Step("ready") /\ UpdateStatus("Reconciled", FALSE)

\* reconcileDegraded comes back after 30 seconds.
SetDegraded == Step("degraded") /\ UpdateStatus(verdict, TRUE)

Reconcile ==
    \/ \E b \in Bindings : BeginAbsent(b) \/ Begin(b)
    \/ AddFinalizer \/ Resolve \/ Inject
    \/ Cleanup \/ Remove \/ Release
    \/ SetReady \/ SetDegraded

--------------------------------------------------------------------------------
(* Everyone else: users and GitOps, the garbage collector, API failures and the *)
(* end of the process.                                                          *)

\* A step the run bounds; a run may rule its kind out.
Disturb(kind) ==
    /\ kind \in Disturbances
    /\ budget > 0
    /\ budget' = budget - 1

Elsewhere == UNCHANGED <<building, queue, current, pc, held, key, verdict>>

\* Somebody else's write to a binding overtakes the copy a reconcile holds.
WriteBinding(b, object) ==
    /\ StoreBinding(b, object)
    /\ heldStale' = (heldStale \/ current = b)
    /\ Elsewhere /\ UNCHANGED <<secrets, lastUid>>

\* Deletions, and the bindings that are still to come, bound the creations.
CreateBinding(b, spec) ==
    /\ server.bindings[b] = None
    /\ "create" \in Disturbances
    /\ WriteBinding(b, NewBinding(spec)) /\ UNCHANGED budget

EditBinding(b, spec) ==
    /\ server.bindings[b] # None /\ server.bindings[b].spec # spec
    /\ Disturb("edit")
    /\ WriteBinding(b, [server.bindings[b] EXCEPT !.spec = spec, !.generation = @ + 1])

\* With a finalizer the object stays, with a deletionTimestamp.
DeleteBinding(b) ==
    /\ server.bindings[b] # None /\ ~server.bindings[b].deleting
    /\ Disturb("delete")
    /\ WriteBinding(b, IF server.bindings[b].finalizer
                       THEN [server.bindings[b] EXCEPT !.deleting = TRUE, !.generation = @ + 1]
                       ELSE None)

EditWorkload(env) ==
    /\ server.workload # None /\ server.workload.env # env
    /\ Disturb("workload")
    /\ StoreWorkload([server.workload EXCEPT !.env = env])
    /\ Elsewhere /\ UNCHANGED <<secrets, lastUid, heldStale>>

DeleteWorkload ==
    /\ server.workload # None
    /\ Disturb("recreate")
    /\ StoreWorkload(None)
    /\ Elsewhere /\ UNCHANGED <<secrets, lastUid, heldStale>>

\* Deletions bound the creations.
CreateWorkload(env) ==
    /\ server.workload = None
    /\ lastUid' = lastUid + 1
    /\ StoreWorkload([uid |-> lastUid', env |-> env])
    /\ Elsewhere /\ UNCHANGED <<secrets, heldStale, budget>>

\* The garbage collector deletes the Deployment of a Workload that is gone.
GarbageCollect ==
    /\ server.deployment # None /\ server.deployment.owner # OtherController
    /\ ~ControlledBy(server.deployment, server.workload)
    /\ StoreDeployment(None)
    /\ Elsewhere /\ UNCHANGED <<secrets, lastUid, heldStale, budget>>

\* Somebody deletes the Deployment, or takes the name for one of their own.
ReplaceDeployment(object) ==
    /\ server.deployment # object
    /\ Disturb("deployment")
    /\ StoreDeployment(object)
    /\ Elsewhere /\ UNCHANGED <<secrets, lastUid, heldStale>>

\* A Secret loses its key's name or goes; it comes back in time.
ChangeSecret(s, k) ==
    /\ secrets[s] \notin {k, None}
    /\ Disturb("secret")
    /\ secrets' = [secrets EXCEPT ![s] = k]
    /\ Elsewhere /\ UNCHANGED <<objects, lastUid, heldStale>>

RestoreSecret(s, k) ==
    /\ secrets[s] = None
    /\ secrets' = [secrets EXCEPT ![s] = k]
    /\ Elsewhere /\ UNCHANGED <<objects, lastUid, heldStale, budget>>

\* An API call of a reconcile fails for reasons outside it.
ApiCallFails ==
    /\ pc # "idle"
    /\ Disturb("error")
    /\ Fail
    /\ UNCHANGED <<secrets, lastUid, building, queued>>

\* The process ends, anywhere, and the first lists of the next one enqueue the
\* bindings there are.
Restart ==
    /\ Disturb("restart")
    /\ cache' = server /\ lag' = {}
    /\ queued' = {b \in Bindings : server.bindings[b] # None} /\ timers' = {}
    /\ building' = None
    /\ current' = None /\ pc' = "idle" /\ held' = None /\ heldStale' = FALSE
    /\ key' = "None" /\ verdict' = "None"
    /\ UNCHANGED <<server, secrets, lastUid>>

Environment ==
    \/ \E b \in Bindings :
            \/ \E spec \in BindingSpecs : CreateBinding(b, spec) \/ EditBinding(b, spec)
            \/ DeleteBinding(b)
    \/ \E env \in UserEnvs : EditWorkload(env) \/ CreateWorkload(env)
    \/ DeleteWorkload
    \/ GarbageCollect
    \/ \E object \in {None} \cup ForeignDeployments : ReplaceDeployment(object)
    \/ \E s \in Secrets :
            \/ \E k \in Keys \cup {None} : ChangeSecret(s, k)
            \/ \E k \in Keys : RestoreSecret(s, k)
    \/ ApiCallFails
    \/ Restart

Next ==
    \/ Reconcile
    \/ \E b \in Bindings : SyncBinding(b) \/ TimerFires(b)
    \/ SyncWorkload \/ SyncDeployment
    \/ BeginBuild \/ Build
    \/ Environment

Spec == Init /\ [][Next]_vars

\* The workers and timers run, a queued binding is taken however many others are (the
\* queue is first in, first out), watch events arrive and garbage is collected.
\* The Workload controller comes back to its Deployment, which AdmissibleBecomesAvailable
\* of WorkloadProperties is about.
Fairness ==
    /\ WF_vars(Reconcile)
    /\ \A b \in Bindings :
            SF_vars(BeginAbsent(b) \/ Begin(b)) /\ WF_vars(SyncBinding(b)) /\ WF_vars(TimerFires(b))
    /\ WF_vars(SyncWorkload) /\ WF_vars(SyncDeployment)
    /\ WF_vars(BeginBuild \/ Build)
    /\ WF_vars(GarbageCollect)

FairSpec == Spec /\ Fairness

================================================================================
