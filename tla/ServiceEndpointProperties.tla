----------------------- MODULE ServiceEndpointProperties -----------------------
(* What the ServiceEndpoint controller must get right, and what its             *)
(* documentation promises beyond that.                                          *)
EXTENDS ServiceEndpointController

\* Nothing is left for the operator to do until somebody changes an endpoint.
Settled ==
    /\ pc = "idle" /\ queued = {} /\ timers = {}
    /\ cache = server /\ lag = {}

\* At rest no endpoint is half deleted, and every endpoint there is has its
\* finalizer and a Ready status of its own generation: conflicts, errors, restarts
\* and unresolvable references all leave a retry behind.
SettledMeansReady ==
    Settled => \A e \in Endpoints :
        LET endpoint == server.endpoints[e]
        IN endpoint # None =>
            /\ endpoint.finalizer /\ ~endpoint.deleting
            /\ endpoint.status = Ready(endpoint)

\* No annotation is ever written for an endpoint that could go away without a
\* cleanup: whatever copy the reconcile works on, the endpoint of that name in
\* the API server has the finalizer at that moment.
FinalizerBeforeAnnotations ==
    [][\A w \in Workloads :
        (/\ Reconcile
         /\ server.services[w] # None /\ server'.services[w] # None
         /\ \E k \in {"global", "shared"} :
                /\ server'.services[w].annotations[k] # "absent"
                /\ server'.services[w].annotations[k] # server.services[w].annotations[k])
            => server.endpoints[current] # None /\ server.endpoints[current].finalizer]_vars

\* The operator's writes to an endpoint never undo an edit or a deletion mark, and
\* an endpoint disappears only after somebody has asked for it.
ReconcileKeepsTheSpec ==
    [][Reconcile => \A e \in Endpoints :
        LET old == server.endpoints[e]
            new == server'.endpoints[e]
        IN \/ new = old
           \/ /\ old # None /\ new # None
              /\ new.spec = old.spec /\ new.generation = old.generation
              /\ new.deleting = old.deleting
           \/ old # None /\ old.deleting /\ new = None]_vars

\* A deleted endpoint does go, though its Workload or Service may be gone, changed
\* or somebody else's: the finalizer is never stuck.
DeletionCompletes ==
    <>[](\A e \in Endpoints : server.endpoints[e] # None => ~server.endpoints[e].deleting)

\* What the operator would find now if it looked at the server.
Resolvable(spec) ==
    LET workload == server.workloads[spec.workloadRef]
        service  == server.services[spec.workloadRef]
    IN /\ workload # None /\ service # None /\ ControlledBy(service, workload)
       /\ spec.mode = "ActivePassive"
            => ValidatePrimaryMember(infra, spec.primary, workload.federationRef) = "Accepted"

Annotated(endpoint) ==
    server.services[endpoint.spec.workloadRef].annotations = Desired(endpoint.spec)

\* After the last edit or infrastructure change an endpoint whose references hold
\* becomes and stays Ready, with its annotations on the Service, though neither
\* Workloads, Services, Federations nor ClusterMembers are watched.
ResolvableBecomesReady ==
    <>[](\A e \in Endpoints :
            LET endpoint == server.endpoints[e]
            IN (endpoint # None /\ Resolvable(endpoint.spec)) =>
                endpoint.status = Ready(endpoint) /\ Annotated(endpoint))

--------------------------------------------------------------------------------
(* What the documentation promises and the code does not do.                    *)

\* "Cilium annotations applied to the Service", the message of Ready: the patch holds
\* what differs from a cache that may be behind.
ReadyMeansAnnotated ==
    Settled => \A e \in Endpoints :
        LET endpoint == server.endpoints[e]
        IN (endpoint # None /\ Resolvable(endpoint.spec)
                /\ endpoint.status.ready = "Reconciled") => Annotated(endpoint)

================================================================================
