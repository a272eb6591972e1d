----------------------- MODULE ServiceEndpointController -----------------------
(***************************************************************************)
(* The ServiceEndpoint controller of one member cluster: it writes two     *)
(* Cilium annotations on the Service of the Workload an endpoint refers    *)
(* to, guards them with a finalizer, and reports in the endpoint's status. *)
(*                                                                         *)
(* The Service is the Workload controller's. This controller watches only  *)
(* ServiceEndpoints, and changes a Service with a merge patch: the         *)
(* difference between what it wants and what its cache shows, sent without *)
(* a resourceVersion and applied to whatever the API server has.           *)
(***************************************************************************)
EXTENDS Placement, Naturals

CONSTANTS
    Self,              \* --cluster-member-name, or None when the flag is unset
    Endpoints,         \* the names of ServiceEndpoints
    Workloads,         \* the names of Workloads, and of their Services
    EndpointSpecs,     \* the ServiceEndpoint specs users apply
    FederationRefs,    \* the federationRefs of Workloads
    Infras,            \* what the Federations and ClusterMembers can be
    NoMember,          \* the empty status.activeMemberRef
    NoController,      \* no ownerReference with controller: true
    Disturbances,      \* the kinds of disturbances a run lets happen
    MaxDisturbances,   \* how many of them (bounds uids, restarts, errors)
    MaxGeneration      \* no edit of an endpoint beyond this generation

DisturbanceKinds ==
    {"create", "edit", "delete", "workload", "service", "foreign", "infrastructure",
     "error", "restart"}

Modes == {"ActiveActive", "ActivePassive"}

\* ServiceEndpointSpec; admission wants a primary for ActivePassive.
SpecShape ==
    {spec \in [workloadRef : Workloads, mode : Modes, primary : Members \cup {NoMember}] :
        spec.mode = "ActivePassive" => spec.primary # NoMember}

ASSUME EndpointAssumption ==
    /\ Self \in Members \cup {None}
    /\ EndpointSpecs \subseteq SpecShape
    /\ FederationRefs \subseteq Federations \cup {None}
    /\ Infras \subseteq Infrastructure
    /\ Disturbances \subseteq DisturbanceKinds
    /\ MaxDisturbances \in Nat /\ MaxGeneration \in Nat
    /\ NoController \notin Nat /\ NoMember \notin Members

VARIABLES
    server,        \* the API server's endpoints, Workloads and Services
    cache,         \* the operator's informer cache of them
    lag,           \* the endpoints whose cached resourceVersion is not the server's
    infra,         \* Federations and ClusterMembers
    lastUid,       \* the uid of the last Workload created
    queued,        \* the endpoints in the work queue (or dirty while processed)
    timers,        \* those with a RequeueAfter or rate-limited retry pending
    current,       \* the endpoint being reconciled
    pc,            \* where Reconcile is
    held,          \* Reconcile's copy of the endpoint
    heldStale,     \* the server's endpoint is no longer the version of that copy
    verdict,       \* why the endpoint cannot be Ready
    budget         \* disturbances left

queue      == <<queued, timers>>
reconciler == <<current, pc, held, heldStale, verdict>>
vars == <<server, cache, lag, infra, lastUid, queue, reconciler, budget>>

--------------------------------------------------------------------------------
(* Objects.                                                                     *)

\* service.cilium.io/global and service.cilium.io/shared.
Annotations == [{"global", "shared"} -> {"absent", "true", "false"}]

NoAnnotations == [k \in {"global", "shared"} |-> "absent"]

Reasons ==
    {"WorkloadNotFound", "PrimaryMemberNotFound", "PrimaryMemberNotInFederation",
     "FederationNotFound", "InvalidFederationSelector", "ServiceNotFound",
     "ServiceOwnershipConflict"}

\* A condition is its reason: of Ready, "Reconciled" has status True and every
\* other reason False. resolvedHostnames is set and cleared with Ready.
EndpointStatus ==
    [observedGeneration : Nat,
     activeMember       : Members \cup {NoMember},
     ready              : Reasons \cup {"Absent", "Reconciled"},
     degraded           : Reasons \cup {"Absent"}]

EmptyStatus ==
    [observedGeneration |-> 0, activeMember |-> NoMember, ready |-> "Absent",
     degraded |-> "Absent"]

Endpoint ==
    [generation : Nat, spec : EndpointSpecs, deleting : BOOLEAN, finalizer : BOOLEAN,
     status : EndpointStatus]

ASSUME ObjectAssumption == None \notin Endpoint

NewEndpoint(spec) ==
    [generation |-> 1, spec |-> spec, deleting |-> FALSE, finalizer |-> FALSE,
     status |-> EmptyStatus]

\* Of a Workload this controller reads the uid and the federationRef; whether the
\* member is among its targets decides if the Workload controller creates its Service.
Workload == [uid : Nat, federationRef : FederationRefs, targeted : BOOLEAN]
Service  == [owner : Nat \cup {NoController}, annotations : Annotations]

NewWorkload(uid, ref) == [uid |-> uid, federationRef |-> ref, targeted |-> TRUE]

OwnService(uid) == [owner |-> uid, annotations |-> NoAnnotations]

Objects ==
    [endpoints : [Endpoints -> Endpoint \cup {None}],
     workloads : [Workloads -> Workload \cup {None}],
     services  : [Workloads -> Service \cup {None}]]

TypeOK ==
    /\ server \in Objects /\ cache \in Objects
    /\ lag \subseteq Endpoints
    /\ infra \in Infrastructure
    /\ lastUid \in Nat
    /\ queued \subseteq Endpoints /\ timers \subseteq Endpoints
    /\ pc \in {"idle", "finalizer", "annotate", "cleanup", "release", "ready", "degraded"}
    /\ IF pc = "idle" THEN current = None /\ held = None
                      ELSE current \in Endpoints /\ held \in Endpoint
    /\ heldStale \in BOOLEAN
    /\ IF pc = "degraded" THEN verdict \in Reasons ELSE verdict = "None"
    /\ budget \in 0 .. MaxDisturbances

\* The operator starts in a cluster that has endpoints nobody has looked at yet,
\* and a Workload with its Service, in some infrastructure.
Init ==
    /\ \E specs \in [Endpoints -> EndpointSpecs], ref \in FederationRefs :
            server = [endpoints |-> [e \in Endpoints |-> NewEndpoint(specs[e])],
                      workloads |-> [w \in Workloads |-> NewWorkload(1, ref)],
                      services  |-> [w \in Workloads |-> OwnService(1)]]
    /\ cache = server
    /\ lag = {}
    /\ infra \in Infras
    /\ lastUid = 1
    /\ queued = Endpoints /\ timers = {}
    /\ current = None /\ pc = "idle" /\ held = None /\ heldStale = FALSE /\ verdict = "None"
    /\ budget = MaxDisturbances

ControlledBy(service, workload) == service.owner = workload.uid

--------------------------------------------------------------------------------
(* The API server and the informers.                                            *)

\* A write to an endpoint makes the cached version, and the copy of it that a
\* reconcile of somebody else's holds, stale.
StoreEndpoint(e, object) ==
    /\ server' = [server EXCEPT !.endpoints[e] = object]
    /\ lag' = IF object = server.endpoints[e] THEN lag ELSE lag \cup {e}
    /\ UNCHANGED cache

\* Someone else's write.
WriteEndpoint(e, object) ==
    /\ StoreEndpoint(e, object)
    /\ heldStale' = (heldStale \/ (current = e /\ object # server.endpoints[e]))
    /\ UNCHANGED <<current, pc, held, verdict>>

WriteService(w, object) ==
    /\ server' = [server EXCEPT !.services[w] = object]
    /\ UNCHANGED <<cache, lag>>

WriteWorkload(w, object) ==
    /\ server' = [server EXCEPT !.workloads[w] = object]
    /\ UNCHANGED <<cache, lag>>

NoWrite == UNCHANGED <<server, cache, lag>>

\* Watch events reach the informer; SetupWithManager enqueues on those of
\* ServiceEndpoints only.
SyncEndpoint(e) ==
    /\ e \in lag
    /\ cache' = [cache EXCEPT !.endpoints[e] = server.endpoints[e]]
    /\ lag' = lag \ {e}
    /\ queued' = queued \cup {e}
    /\ UNCHANGED <<server, infra, lastUid, timers, reconciler, budget>>

SyncWorkload(w) ==
    /\ cache.workloads[w] # server.workloads[w]
    /\ cache' = [cache EXCEPT !.workloads[w] = server.workloads[w]]
    /\ UNCHANGED <<server, lag, infra, lastUid, queue, reconciler, budget>>

SyncService(w) ==
    /\ cache.services[w] # server.services[w]
    /\ cache' = [cache EXCEPT !.services[w] = server.services[w]]
    /\ UNCHANGED <<server, lag, infra, lastUid, queue, reconciler, budget>>

TimerFires(e) ==
    /\ e \in timers
    /\ timers' = timers \ {e}
    /\ queued' = queued \cup {e}
    /\ UNCHANGED <<server, cache, lag, infra, lastUid, reconciler, budget>>

--------------------------------------------------------------------------------
(* Reconcile.                                                                   *)

\* Fault: the reason of one reconcile is carried into the next.
Finish_KeepsVerdict(retry) ==
    /\ pc' = "idle" /\ current' = None /\ held' = None /\ heldStale' = FALSE
    /\ timers' = IF retry THEN timers \cup {current} ELSE timers
    /\ UNCHANGED verdict

\* Fault: no RequeueAfter, and errors are swallowed.
Finish_NoRetry(retry) ==
    /\ pc' = "idle" /\ current' = None /\ held' = None /\ heldStale' = FALSE
    /\ verdict' = "None"
    /\ UNCHANGED timers

\* A reconcile ends: with RequeueAfter or an error (retry) or with neither.
Finish(retry) ==
    /\ pc' = "idle" /\ current' = None /\ held' = None /\ heldStale' = FALSE
    /\ verdict' = "None"
    /\ timers' = IF retry THEN timers \cup {current} ELSE timers

Fail == Finish(TRUE) /\ NoWrite

Goto(step) == pc' = step /\ UNCHANGED <<current, held, heldStale, verdict, timers>>

Step(step) == pc = step /\ UNCHANGED <<infra, lastUid, queued, budget>>

\* The worker takes an endpoint from the queue and gets it.
BeginAbsent(e) ==
    /\ pc = "idle" /\ e \in queued /\ cache.endpoints[e] = None
    /\ queued' = queued \ {e}
    /\ UNCHANGED <<server, cache, lag, infra, lastUid, timers, reconciler, budget>>

Begin(e) ==
    /\ pc = "idle" /\ e \in queued /\ cache.endpoints[e] # None
    /\ queued' = queued \ {e}
    /\ current' = e
    /\ held' = cache.endpoints[e]
    /\ heldStale' = (e \in lag)
    /\ pc' = IF cache.endpoints[e].deleting THEN "cleanup" ELSE "finalizer"
    /\ UNCHANGED <<server, cache, lag, infra, lastUid, timers, verdict, budget>>

\* Fault: the finalizer is written after the annotations.
AddFinalizer_Late == Step("finalizer") /\ NoWrite /\ Goto("annotate")

\* The finalizer comes first; Update returns the new version into the copy.
AddFinalizer ==
    /\ Step("finalizer")
    /\ \/ /\ held.finalizer
          /\ NoWrite /\ Goto("annotate")
       \/ /\ ~held.finalizer /\ heldStale
          /\ Fail
       \/ /\ ~held.finalizer /\ ~heldStale
          /\ held' = [held EXCEPT !.finalizer = TRUE]
          /\ StoreEndpoint(current, held')
          /\ pc' = "annotate" /\ UNCHANGED <<current, heldStale, verdict, timers>>

\* resolveWorkload, validatePrimaryMember and resolveService, in the order in which
\* Reconcile asks them: "Resolved", or the reason why not.
Resolution(spec) ==
    LET workload == cache.workloads[spec.workloadRef]
        service  == cache.services[spec.workloadRef]
        primary  == ValidatePrimaryMember(infra, spec.primary, workload.federationRef)
    IN IF workload = None                     THEN "WorkloadNotFound"
       ELSE IF spec.mode = "ActivePassive" /\ primary # "Accepted"
                                              THEN primary
       ELSE IF service = None                 THEN "ServiceNotFound"
       ELSE IF ~ControlledBy(service, workload) THEN "ServiceOwnershipConflict"
       ELSE "Resolved"

Refuse ==
    /\ Step("annotate") /\ NoWrite
    /\ Resolution(held.spec) # "Resolved"
    /\ verdict' = Resolution(held.spec)
    /\ pc' = "degraded" /\ UNCHANGED <<current, held, heldStale, timers>>

\* What an endpoint wants its Service to say in this cluster.
Desired(spec) ==
    [global |-> "true",
     shared |-> IF spec.mode = "ActivePassive" /\ Self # spec.primary THEN "false" ELSE "true"]

\* A JSON merge patch holds only the keys in which `wanted` and the cached Service
\* differ, and changes only those.
MergePatch(annotations, cached, wanted) ==
    [k \in DOMAIN annotations |-> IF wanted[k] # cached[k] THEN wanted[k] ELSE annotations[k]]

PatchService(w, wanted) ==
    WriteService(w, [server.services[w] EXCEPT
                        !.annotations = MergePatch(@, cache.services[w].annotations, wanted)])

\* applyAnnotations.
Annotate ==
    /\ Step("annotate")
    /\ Resolution(held.spec) = "Resolved"
    /\ LET w == held.spec.workloadRef
       IN IF server.services[w] = None THEN Fail
          ELSE PatchService(w, Desired(held.spec)) /\ Goto("ready")

\* Fault: a Service that is gone stops the cleanup.
Cleanup_NeedsService ==
    /\ Step("cleanup")
    /\ LET w        == held.spec.workloadRef
           workload == cache.workloads[w]
           service  == cache.services[w]
       IN IF workload = None \/ service = None \/ server.services[w] = None THEN Fail
          ELSE PatchService(w, NoAnnotations) /\ Goto("release")

\* reconcileDelete: the annotations go from a Service the cache shows to be the
\* Workload's, if it is still there.
Cleanup ==
    /\ Step("cleanup")
    /\ LET w        == held.spec.workloadRef
           workload == cache.workloads[w]
           service  == cache.services[w]
       IN IF ~held.finalizer THEN Finish(FALSE) /\ NoWrite
          ELSE /\ IF workload # None /\ service # None /\ ControlledBy(service, workload)
                     /\ server.services[w] # None
                  THEN PatchService(w, NoAnnotations) ELSE NoWrite
               /\ Goto("release")

\* The API server deletes a deleted object with its last finalizer.
ReleaseEndpoint ==
    /\ Step("release")
    /\ IF heldStale THEN Fail
       ELSE StoreEndpoint(current, None) /\ Finish(FALSE)

\* Fault: the status is patched without a resourceVersion.
UpdateStatus_Overwrites(status, requeue) ==
    /\ IF status # held.status
       THEN StoreEndpoint(current, [held EXCEPT !.status = status]) ELSE NoWrite
    /\ Finish(requeue)

\* Status().Update of the held copy, skipped when it would change nothing.
UpdateStatus(status, requeue) ==
    /\ IF status # held.status /\ ~heldStale
       THEN StoreEndpoint(current, [held EXCEPT !.status = status]) ELSE NoWrite
    /\ Finish(requeue \/ (status # held.status /\ heldStale))

Ready(endpoint) ==
    [observedGeneration |-> endpoint.generation,
     activeMember |-> IF endpoint.spec.mode = "ActivePassive"
                      THEN endpoint.spec.primary ELSE NoMember,
     ready |-> "Reconciled", degraded |-> "Absent"]

Degraded(endpoint, reason) ==
    [observedGeneration |-> endpoint.generation, activeMember |-> NoMember,
     ready |-> reason, degraded |-> reason]

\* reconcileStatus, and reconcileDegraded with its requeue after five seconds.
ReportReady    == Step("ready") /\ UpdateStatus(Ready(held), FALSE)
ReportDegraded == Step("degraded") /\ UpdateStatus(Degraded(held, verdict), TRUE)

Reconcile ==
    \/ \E e \in Endpoints : BeginAbsent(e) \/ Begin(e)
    \/ AddFinalizer
    \/ Refuse \/ Annotate
    \/ Cleanup \/ ReleaseEndpoint
    \/ ReportReady \/ ReportDegraded

--------------------------------------------------------------------------------
(* Everyone else.                                                               *)

Disturb(kind) ==
    /\ kind \in Disturbances
    /\ budget > 0
    /\ budget' = budget - 1

CreateEndpoint(e, spec) ==
    /\ server.endpoints[e] = None
    /\ Disturb("create")
    /\ WriteEndpoint(e, NewEndpoint(spec))
    /\ UNCHANGED <<infra, lastUid, queue>>

EditEndpoint(e, spec) ==
    /\ server.endpoints[e] # None /\ server.endpoints[e].spec # spec
    /\ server.endpoints[e].generation < MaxGeneration
    /\ Disturb("edit")
    /\ WriteEndpoint(e, [server.endpoints[e] EXCEPT !.spec = spec, !.generation = @ + 1])
    /\ UNCHANGED <<infra, lastUid, queue>>

\* With a finalizer the object stays, marked.
DeleteEndpoint(e) ==
    /\ server.endpoints[e] # None /\ ~server.endpoints[e].deleting
    /\ Disturb("delete")
    /\ WriteEndpoint(e, IF server.endpoints[e].finalizer
                        THEN [server.endpoints[e] EXCEPT !.deleting = TRUE, !.generation = @ + 1]
                        ELSE None)
    /\ UNCHANGED <<infra, lastUid, queue>>

CreateWorkload(w, ref) ==
    /\ server.workloads[w] = None
    /\ Disturb("workload")
    /\ lastUid' = lastUid + 1
    /\ WriteWorkload(w, NewWorkload(lastUid', ref))
    /\ UNCHANGED <<infra, queue, reconciler>>

DeleteWorkload(w) ==
    /\ server.workloads[w] # None
    /\ Disturb("workload")
    /\ WriteWorkload(w, None)
    /\ UNCHANGED <<infra, lastUid, queue, reconciler>>

\* Its targetPolicy excludes this member; what runs keeps running.
ExcludeMember(w) ==
    /\ server.workloads[w] # None
    /\ Disturb("workload")
    /\ WriteWorkload(w, [server.workloads[w] EXCEPT !.targeted = FALSE])
    /\ UNCHANGED <<infra, lastUid, queue, reconciler>>

\* The Workload controller creates the Service that is missing, with its own
\* fields only.
CreateService(w) ==
    /\ server.workloads[w] # None /\ server.services[w] = None
    /\ server.workloads[w].targeted
    /\ WriteService(w, OwnService(server.workloads[w].uid))
    /\ UNCHANGED <<infra, lastUid, queue, reconciler, budget>>

\* Somebody deletes the Service, or puts one of his own in its place.
RemoveService(w) ==
    /\ server.services[w] # None
    /\ Disturb("service")
    /\ WriteService(w, None)
    /\ UNCHANGED <<infra, lastUid, queue, reconciler>>

ReplaceService(w) ==
    /\ Disturb("foreign")
    /\ WriteService(w, [owner |-> NoController, annotations |-> NoAnnotations])
    /\ UNCHANGED <<infra, lastUid, queue, reconciler>>

GarbageCollect(w) ==
    /\ server.services[w] # None
    /\ server.services[w].owner # NoController
    /\ IF server.workloads[w] = None THEN TRUE
       ELSE ~ControlledBy(server.services[w], server.workloads[w])
    /\ WriteService(w, None)
    /\ UNCHANGED <<infra, lastUid, queue, reconciler, budget>>

ChangeInfrastructure(i) ==
    /\ i # infra
    /\ Disturb("infrastructure")
    /\ infra' = i
    /\ UNCHANGED <<server, cache, lag, lastUid, queue, reconciler>>

\* An API call of a reconcile fails for reasons outside it.
ApiCallFails ==
    /\ pc # "idle"
    /\ Disturb("error")
    /\ Fail
    /\ UNCHANGED <<infra, lastUid, queued>>

\* The process ends anywhere in a reconcile, and another takes over.
Restart ==
    /\ Disturb("restart")
    /\ cache' = server /\ lag' = {}
    /\ pc' = "idle" /\ current' = None /\ held' = None /\ heldStale' = FALSE
    /\ verdict' = "None"
    /\ timers' = {}
    /\ queued' = {e \in Endpoints : server.endpoints[e] # None}
    /\ UNCHANGED <<server, infra, lastUid>>

Environment ==
    \/ \E e \in Endpoints, spec \in EndpointSpecs :
            CreateEndpoint(e, spec) \/ EditEndpoint(e, spec)
    \/ \E e \in Endpoints : DeleteEndpoint(e)
    \/ \E w \in Workloads, ref \in FederationRefs : CreateWorkload(w, ref)
    \/ \E w \in Workloads : \/ DeleteWorkload(w) \/ ExcludeMember(w)
                            \/ CreateService(w) \/ RemoveService(w) \/ ReplaceService(w)
                            \/ GarbageCollect(w)
    \/ \E i \in Infras : ChangeInfrastructure(i)
    \/ ApiCallFails
    \/ Restart

Next ==
    \/ Reconcile
    \/ \E e \in Endpoints : SyncEndpoint(e) \/ TimerFires(e)
    \/ \E w \in Workloads : SyncWorkload(w) \/ SyncService(w)
    \/ Environment

Spec == Init /\ [][Next]_vars

\* The worker serves every endpoint in its queue (it is first in, first out), and
\* timers, watch events, the Workload controller and the garbage collector do
\* what is theirs.
Fairness ==
    /\ WF_vars(Reconcile)
    /\ \A e \in Endpoints : /\ SF_vars(BeginAbsent(e) \/ Begin(e))
                            /\ WF_vars(SyncEndpoint(e)) /\ WF_vars(TimerFires(e))
    /\ \A w \in Workloads : /\ WF_vars(SyncWorkload(w)) /\ WF_vars(SyncService(w))
                            /\ WF_vars(CreateService(w)) /\ WF_vars(GarbageCollect(w))

FairSpec == Spec /\ Fairness

================================================================================
