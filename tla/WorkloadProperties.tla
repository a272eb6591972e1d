--------------------------- MODULE WorkloadProperties --------------------------
(* What the Workload controller must get right, and what its documentation      *)
(* promises beyond that.                                                        *)
EXTENDS WorkloadController

\* Nothing is left for the operator to do until somebody changes something it
\* watches (or the ten-hour resync).
Settled == pc = "idle" /\ ~queued /\ ~timer /\ lag = {}

\* The objects the spec of a Workload asks for, controlled by that Workload.
DeploymentMatches(w) ==
    /\ ControlledBy(server.Deployment, w.uid)
    /\ server.Deployment.template = Template(w.spec)

ServiceMatches(w) ==
    IF w.spec.ports = NoPorts
    THEN ~ControlledBy(server.Service, w.uid)
    ELSE server.Service = [owner |-> w.uid, ports |-> w.spec.ports]

ReportsApplied(w) ==
    /\ w.status.observedGeneration = w.generation
    /\ w.status.conditions.RuntimeObjectsApplied # "Absent"

\* Whenever the operator has come to rest, it has done its job: the Deployment and
\* Service are the ones the spec asks for, and the status says so, with the
\* Deployment's availability. No order of edits, stale reads, conflicts, lost
\* timers and foreign writes lets a reconcile return success too early, or an
\* event that should have triggered another one go missing.
SettledMeansReconciled ==
    (Settled /\ server.Workload # None) =>
        LET w == server.Workload
        IN /\ DeploymentMatches(w) /\ ServiceMatches(w)
           /\ w.status = Applied(w, server.Deployment.available)

\* RuntimeObjectsApplied for the current generation is true of the API server, not
\* only of what the reconcile believed: as long as nobody else writes to the
\* Deployment, it is the one of the Workload's current spec.
AppliedDeploymentIsApplied ==
    (server.Workload # None /\ ReportsApplied(server.Workload)) =>
        DeploymentMatches(server.Workload)

\* The conditions tell one story: a target that is not applied has the condition of
\* its own verdict and none of the others, whatever the Workload went through.
ConditionsMatchTarget ==
    server.Workload # None =>
        LET status  == server.Workload.status
            present == {c \in ConditionTypes : status.conditions[c] # "Absent"}
        IN present = CASE status.target = "Unset" -> {}
                       [] status.target \in {"Pending", "Degraded"} -> {status.target}
                       [] OTHER -> {"RuntimeObjectsApplied", "Available"}

\* A Deployment is here only for a spec this cluster admits, with every Secret and
\* ConfigMap it refers to in place before its pods were created. (With a
\* Federation that stays as it is and dependencies that only appear.)
RuntimeOnlyWhereAdmitted ==
    (OwnedByName(server.Deployment) /\ server.Deployment.template # ForeignTemplate) =>
        \E spec \in Specs :
            /\ Template(spec) = server.Deployment.template
            /\ PlacementVerdict(infra, Self, spec.federationRef, spec.targetPolicy) = "Placed"
            /\ Missing(spec) = {}

\* The operator never takes or edits an object another controller manages: it fails
\* instead (deleting a Service is the exception, see RefusesForeignObjects).
OtherControllersObjectsUntouched ==
    [][Reconcile =>
        /\ (server.Deployment # None /\ server.Deployment.owner = OtherController)
               => server'.Deployment = server.Deployment
        /\ (server.Service # None /\ server.Service.owner = OtherController)
               => server'.Service \in {server.Service, None}]_vars

\* The status of one Workload object never goes back to an older generation, and
\* never claims one that does not exist yet, though reconciles write it from
\* copies read long before.
StatusFollowsGeneration ==
    [][(server.Workload # None /\ server'.Workload # None
            /\ server'.Workload.uid = server.Workload.uid) =>
        /\ server'.Workload.status.observedGeneration >=
                server.Workload.status.observedGeneration
        /\ server'.Workload.status.observedGeneration <= server'.Workload.generation]_vars

\* A status write never undoes a spec edit, and the objects of two Workloads of the
\* same name are never confused: the spec, generation and uid that a
\* reconcile's step leaves are those that were there.
ReconcileKeepsTheSpec ==
    [][Reconcile =>
        \/ server'.Workload = server.Workload
        \/ /\ server.Workload # None /\ server'.Workload # None
           /\ server'.Workload = [server.Workload EXCEPT !.status = server'.Workload.status]]_vars

\* What the operator would find now if it looked at the server.
Admissible(w) ==
    /\ ~Refused(w.spec)
    /\ PlacementVerdict(infra, Self, w.spec.federationRef, w.spec.targetPolicy) = "Placed"
    /\ Missing(w.spec) = {}
    /\ server.Deployment = None \/ ControlledBy(server.Deployment, w.uid)
    /\ w.spec.ports = NoPorts \/ server.Service = None \/ ControlledBy(server.Service, w.uid)

\* When the disturbances are over, a Workload nothing stands in the way of becomes
\* and stays Available at its current generation, though neither Federations,
\* ClusterMembers, Secrets nor ConfigMaps are watched.
AdmissibleBecomesAvailable ==
    <>[](server.Workload # None =>
            (Admissible(server.Workload) =>
                /\ DeploymentMatches(server.Workload) /\ ServiceMatches(server.Workload)
                /\ server.Workload.status = Applied(server.Workload, TRUE)))

--------------------------------------------------------------------------------
(* The promise that the controller keeps.                                       *)

\* What is not declared or not there is none of what can be.
ASSUME PromiseAssumption ==
    None \notin [uid : Nat, generation : Nat, asks : Templates]
                  \cup [generation : Nat, applied : BOOLEAN]
                  \cup [owner : Owners, template : {ForeignTemplate} \cup Templates]

\* What the promise sees of a Workload, of its status, and of a Deployment.
Declared(w) == IF w = None THEN None
               ELSE [uid |-> w.uid, generation |-> w.generation, asks |-> Template(w.spec)]

ReportOf(w) == IF w = None \/ w.status.target = "Unset" THEN None
               ELSE [generation |-> w.status.observedGeneration,
                     applied    |-> w.status.target \in {"Reconciling", "Available"}]

Content(d) == IF d = None THEN None ELSE [owner |-> d.owner, template |-> d.template]

Promise ==
    INSTANCE WorkloadPromise WITH
        RefusedTemplates <- {template \in Templates : Refused(template)},
        Foreign  <- ForeignTemplate,
        Other    <- OtherController,
        declared <- Declared(server.Workload),
        reported <- ReportOf(server.Workload),
        running  <- Content(server.Deployment)

\* Whatever its cache shows it, and wherever a reconcile is cut off, the controller
\* writes a Deployment and a status as WorkloadPromise allows: in particular no
\* reconcile from an old copy puts the Deployment back once the status has told
\* of the present version, and no status tells of a version it does not follow.
KeepsThePromise == Promise!Spec

\* When the disturbances are over every version of a Workload whose Deployment and
\* Service the API server accepts is reported, also one that a preflight stops,
\* although most of what the preflights read is not watched. One that the API server
\* refuses may never be: Reconcile ends in an error before it comes to the status.
EveryVersionIsReported == Promise!EveryVersionIsReported

--------------------------------------------------------------------------------
(* What the documentation promises and the code does not do.                    *)

\* "The operator refuses to modify same-name Deployments or Services that are not
\* controlled by the referenced Workload" (docs/security.md): an object that appears
\* between the ownership preflight and CreateOrUpdate's own Get is adopted, and the
\* Service found in the cache is deleted by name, without a precondition.
RefusesForeignObjects ==
    [][Reconcile =>
        \A kind \in {"Deployment", "Service"} :
            (server[kind] # None /\ ~OwnedByName(server[kind]))
                => server'[kind] = server[kind]]_vars

================================================================================
