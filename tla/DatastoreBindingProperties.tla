----------------------- MODULE DatastoreBindingProperties ----------------------
(* What the DatastoreBinding controller must get right next to the Workload     *)
(* controller, and what is promised of it beyond that.                          *)
EXTENDS DatastoreBindingController

\* Nothing is left to do for a binding until it is changed.
Quiet(b) == b \notin queued \cup timers \cup lag /\ current # b

Rendered(deployment) == deployment # None /\ deployment.owner # OtherController

InjectedNames(deployment) ==
    {v.name : v \in {x \in Effective(deployment.env) : x.value \in InjectedValues}}

\* A binding at rest is Ready for its own generation, has its finalizer, and is not one
\* that was deleted: every Degraded one is coming back, and no edit, deletion,
\* conflict or restart is missed, though nothing a binding refers to is watched.
SettledMeansReady ==
    \A b \in Bindings :
        LET binding == server.bindings[b]
        IN (binding # None /\ Quiet(b)) =>
            /\ ~binding.deleting /\ binding.finalizer
            /\ binding.status = [observedGeneration |-> binding.generation,
                                 ready |-> "Reconciled"]

\* In a Deployment with an "app" container the annotation and the environment tell the
\* same story whichever of the two controllers wrote last, and from whatever cached
\* Deployment: the variables in effect that came from a binding are the managed
\* ones. One that is not managed would be lost, and one managed by mistake kept, at
\* the next rebuild. Every Deployment the Workload controller rendered has that
\* container; somebody else's without it that is injected gets the annotation only.
ManagedAreInEffect ==
    (server.deployment # None /\ server.deployment.app) =>
        InjectedNames(server.deployment) = server.deployment.managed

\* Neither controller undoes the other's work: a rebuild leaves every managed variable
\* in effect as it was, also when the Workload's spec names it, and a binding
\* leaves every variable alone that is not its own.
EachKeepsTheOthersVariables ==
    [][(/\ server'.deployment # server.deployment
         /\ Rendered(server.deployment) /\ Rendered(server'.deployment)) =>
        /\ Build => \A v \in Effective(server.deployment.env) :
                v.name \in server.deployment.managed => v \in Effective(server'.deployment.env)
        /\ Inject \/ Remove =>
                {v \in Effective(server'.deployment.env) : v.name \notin ManagedNames(current)} =
                {v \in Effective(server.deployment.env) : v.name \notin ManagedNames(current)}]_vars

\* Whenever a reconcile injects variables, however old the copy of the binding it works
\* on, the binding in the API server has the finalizer that will have them removed.
FinalizerBeforeInjection ==
    [][(/\ server'.deployment # server.deployment
         /\ server.deployment # None /\ server'.deployment # None /\ Reconcile) =>
        \A b \in Bindings :
            (server'.deployment.managed \cap ManagedNames(b)) \ server.deployment.managed # {} =>
                server.bindings[b] # None /\ server.bindings[b].finalizer]_vars

\* No write of the operator undoes an edit or a deletion of a binding, and it removes
\* only bindings whose deletion was asked for.
ReconcileKeepsTheSpec ==
    [][(server'.bindings # server.bindings /\ Reconcile) =>
        \A b \in Bindings :
            LET old == server.bindings[b]
                new == server'.bindings[b]
            IN new # old => /\ old # None
                            /\ IF new = None THEN old.deleting
                               ELSE /\ new = [old EXCEPT !.finalizer = new.finalizer,
                                                         !.status = new.status]
                                    /\ old.finalizer => new.finalizer]_vars

\* A deleted binding goes, whatever became of its Workload and its Deployment in the
\* meantime: gone, recreated or taken by somebody else, also between the check and
\* the removal. It goes: nothing is said of its variables.
DeletionCompletes ==
    \A b \in Bindings :
        (server.bindings[b] # None /\ server.bindings[b].deleting)
            ~> (server.bindings[b] = None \/ ~server.bindings[b].deleting)

\* The binding's references hold in the API server.
Resolvable(b) ==
    LET spec == server.bindings[b].spec
    IN /\ spec.engine /\ spec.workloadRef = TheWorkload /\ server.workload # None
       /\ secrets[spec.connectionRef] # None
       /\ server.deployment = None \/ ControlledBy(server.deployment, server.workload)

\* The variables of the binding's spec, with a key its Secret had when it was read.
IsInjected(b) ==
    \E k \in Keys : LET wanted == Injected(b, server.bindings[b].spec, k)
                    IN \A i \in DOMAIN wanted : wanted[i] \in Effective(server.deployment.env)

\* When edits and failures have ended, a binding whose Workload, Secret and engine are
\* all right becomes and stays Ready, and its variables come to be in effect in
\* the Deployment and stay so through every rebuild. This holds of a binding
\* that was edited once at most and while nobody else writes the Deployment: an
\* edit that is taken back while the cached Deployment does not show it yet
\* leaves the edited variables there (see also ReadyMeansInjected).
ResolvableBecomesInjected ==
    <>[](\A b \in Bindings :
            LET binding == server.bindings[b]
            IN (binding # None /\ ~binding.deleting /\ binding.generation <= 2 /\ Resolvable(b)) =>
                /\ binding.status.ready = "Reconciled"
                /\ server.deployment # None
                /\ IsInjected(b))

--------------------------------------------------------------------------------
(* What is promised and the code does not do.                                   *)

\* "DatastoreBinding is ready and env vars have been injected into the Deployment"
\* (the status message of a Ready binding): when the Workload controller makes a
\* new Deployment nothing brings the binding back, and the Deployment runs
\* without the variables.
ReadyMeansInjected ==
    \A b \in Bindings :
        LET binding == server.bindings[b]
        IN (/\ binding # None /\ Quiet(b) /\ building = None
            /\ lag = {} /\ binding.status.ready = "Reconciled"
            /\ Resolvable(b) /\ server.deployment # None)
                => IsInjected(b)

================================================================================
