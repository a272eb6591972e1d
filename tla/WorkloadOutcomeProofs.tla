------------------------- MODULE WorkloadOutcomeProofs -------------------------
(***************************************************************************)
(* What the Workload controller leaves behind, for every value of the      *)
(* constants: a Deployment only where the cluster admits it, a status that *)
(* is true of it, and nothing undone when it comes to rest.                *)
(*                                                                         *)
(* The first is about what a reconcile has established where it is         *)
(* (Admitted), the second about the Deployment it has written (Upheld).    *)
(* The third needs that nothing changes unnoticed: whatever makes the work *)
(* incomplete leaves an event, a timer or a queued request behind (Heard,  *)
(* Done).                                                                  *)
(***************************************************************************)
EXTENDS WorkloadPromiseProofs

\* The content of the Deployment a Workload asks for.
Asked(w) == [owner |-> w.uid, template |-> Template(w.spec)]

\* A Deployment matches a Workload exactly when its content is what that asks for.
LEMMA MatchIsContent ==
    ASSUME NEW w \in Workloads, NEW d
    PROVE  (ControlledBy(d, w.uid) /\ d.template = Template(w.spec)) <=> Content(d) = Asked(w)
<1>1. Asked(w) # None
  <2>1. w.uid \in Owners /\ Template(w.spec) \in Templates
    BY TemplateType DEF Workloads, Owners
  <2> QED BY <2>1, PromiseAssumption DEF Asked
<1> QED BY <1>1 DEF ControlledBy, Content, Asked

--------------------------------------------------------------------------------
(* Only where admitted.                                                         *)

\* Federations and ClusterMembers stay as they are, dependencies only appear.
StableWorld == "infrastructure" \notin Disturbances /\ "removeDependency" \notin Disturbances

Placed(spec) == PlacementVerdict(infra, Self, spec.federationRef, spec.targetPolicy) = "Placed"

\* A reconcile that is past a preflight works on a spec that passed it.
Admitted ==
    /\ pc \in {"dependencies", "ownership", "deployment", "service", "status"} => Placed(held.spec)
    /\ pc \in {"ownership", "deployment", "service", "status"} => Missing(held.spec) = {}

LEMMA WorldStays ==
    ASSUME StableWorld, [Next]_vars
    PROVE  infra' = infra /\ dependencies \subseteq dependencies'
<1> USE DEF world
<1>1. CASE Reconcile
  BY <1>1 DEF Reconcile, BeginAbsent, Begin, CheckPlacement, CheckDependencies, CheckOwnership,
      ApplyDeployment, ApplyService, DeleteService, ReportVerdict, ReportApplied, Step
<1>2. CASE TimerFires \/ \E kind \in Kinds : Sync(kind)
  BY <1>2 DEF TimerFires, Sync
<1>3. CASE \/ \E spec \in Specs : CreateWorkload(spec) \/ EditWorkload(spec)
           \/ DeleteWorkload
           \/ \E owner \in ForeignOwners(server.Deployment), available \in BOOLEAN :
                DisturbDeployment(owner, available)
           \/ DeleteDeployment
           \/ \E owner \in ForeignOwners(server.Service) : DisturbService(owner)
           \/ RemoveService
           \/ RolloutCompletes \/ RolloutFails
           \/ \E kind \in Kinds : GarbageCollect(kind)
           \/ ApiCallFails \/ Restart \/ Resync
  BY <1>3 DEF CreateWorkload, EditWorkload, DeleteWorkload, DisturbDeployment, DeleteDeployment,
      DisturbService, RemoveService, RolloutCompletes, RolloutFails, SetAvailable,
      GarbageCollect, ApiCallFails, Restart, Resync
<1>4. CASE \/ \E i \in Infras : ChangeInfrastructure(i)
           \/ \E d \in Secrets \cup ConfigMaps : AddDependency(d) \/ RemoveDependency(d)
  BY <1>4 DEF ChangeInfrastructure, AddDependency, RemoveDependency, Disturb, StableWorld
<1>5. CASE UNCHANGED vars
  BY <1>5 DEF vars
<1> QED BY <1>1, <1>2, <1>3, <1>4, <1>5 DEF Next, Environment

\* What a preflight found stays so, as long as it is about the same copy.
LEMMA AdmissionStays ==
    ASSUME held' = held, infra' = infra, dependencies \subseteq dependencies'
    PROVE  /\ Placed(held.spec) => Placed(held.spec)'
           /\ Missing(held.spec) = {} => (Missing(held.spec) = {})'
<1>1. Placed(held.spec) => Placed(held.spec)'
  BY DEF Placed
<1> DEFINE refs == held.spec.imagePullSecrets \o held.spec.envFrom
<1>2. refs' = refs
  OBVIOUS
<1>3. Missing(held.spec) = {i \in DOMAIN refs : refs[i] \notin dependencies}
  BY DEF Missing
<1>4. Missing(held.spec)' = {i \in DOMAIN refs' : refs'[i] \notin dependencies'}
  BY DEF Missing
<1> HIDE DEF refs
<1> QED BY <1>1, <1>2, <1>3, <1>4

\* A reconcile's steps: each preflight establishes what the next ones rely on.
LEMMA ReconcileAdmits ==
    ASSUME IInv, Admitted, Reconcile, infra' = infra, dependencies \subseteq dependencies'
    PROVE  Admitted'
<1> USE DEF Admitted
<1>1. CASE BeginAbsent
  BY <1>1 DEF BeginAbsent, reconciler
<1>2. CASE Begin
  <2>1. pc' \in {"dependencies", "placement"} /\ (pc' = "dependencies" => Self = None)
    BY <1>2 DEF Begin
  <2> QED BY <2>1 DEF Placed, PlacementVerdict
<1>3. CASE CheckPlacement
  <2>1. held' = held
    BY <1>3 DEF CheckPlacement, Goto, StopWith
  <2>2. pc' = "report" \/ (pc' = "dependencies" /\ Placed(held.spec))
    BY <1>3 DEF CheckPlacement, Goto, StopWith, Placed
  <2> QED BY <2>1, <2>2, AdmissionStays
<1>4. CASE CheckDependencies
  <2>1. pc = "dependencies" /\ held' = held
    BY <1>4 DEF CheckDependencies, Step, Goto, StopWith
  <2>2. pc' = "report" \/ (pc' = "ownership" /\ Missing(held.spec) = {})
    BY <1>4 DEF CheckDependencies, Goto, StopWith
  <2> QED BY <2>1, <2>2, AdmissionStays
<1>5. CASE CheckOwnership
  <2>1. pc = "ownership" /\ held' = held /\ pc' \in {"report", "deployment"}
    BY <1>5 DEF CheckOwnership, Step, Goto, StopWith
  <2> QED BY <2>1, AdmissionStays
<1>6. CASE ApplyDeployment \/ ApplyService \/ DeleteService
  <2>1. pc \in {"deployment", "service"}
    BY <1>6 DEF ApplyDeployment, ApplyService, DeleteService, Step
  <2>2. Fail \/ Goto("service") \/ Goto("status")
    BY <1>6 DEF ApplyDeployment, ApplyService, DeleteService
  <2>3. pc' = "idle" \/ (held' = held /\ pc' \in {"service", "status"})
    BY <2>2 DEF Fail, Finish, Goto
  <2> QED BY <2>1, <2>3, AdmissionStays
<1>7. CASE ReportVerdict \/ ReportApplied
  <2>1. pc' = "idle"
    BY <1>7 DEF ReportVerdict, ReportApplied, UpdateStatus, Fail, Finish
  <2> QED BY <2>1
<1> QED BY <1>1, <1>2, <1>3, <1>4, <1>5, <1>6, <1>7 DEF Reconcile

\* Everybody else leaves a reconcile where it is, or ends it.
LEMMA OthersLeaveThePlace ==
    ASSUME [Next]_vars, ~Reconcile PROVE pc' = "idle" \/ (pc' = pc /\ held' = held)
<1> USE DEF reconciler
<1>1. CASE TimerFires \/ \E kind \in Kinds : Sync(kind)
  BY <1>1 DEF TimerFires, Sync
<1>2. CASE \/ \E spec \in Specs : CreateWorkload(spec) \/ EditWorkload(spec)
           \/ DeleteWorkload
           \/ \E i \in Infras : ChangeInfrastructure(i)
           \/ \E d \in Secrets \cup ConfigMaps : AddDependency(d) \/ RemoveDependency(d)
           \/ \E owner \in ForeignOwners(server.Deployment), available \in BOOLEAN :
                DisturbDeployment(owner, available)
           \/ DeleteDeployment
           \/ \E owner \in ForeignOwners(server.Service) : DisturbService(owner)
           \/ RemoveService
           \/ RolloutCompletes \/ RolloutFails
           \/ \E kind \in Kinds : GarbageCollect(kind)
  BY <1>2 DEF CreateWorkload, EditWorkload, DeleteWorkload, ChangeInfrastructure, AddDependency,
      RemoveDependency, DisturbDeployment, DeleteDeployment, DisturbService, RemoveService,
      RolloutCompletes, RolloutFails, SetAvailable, GarbageCollect
<1>3. CASE ApiCallFails \/ Restart \/ Resync
  BY <1>3 DEF ApiCallFails, Fail, Finish, Restart, Resync
<1>4. CASE UNCHANGED vars
  BY <1>4 DEF vars
<1> QED BY <1>1, <1>2, <1>3, <1>4 DEF Next, Environment

LEMMA StepAdmits ==
    ASSUME IInv, Admitted, [Next]_vars, StableWorld PROVE Admitted'
<1>1. infra' = infra /\ dependencies \subseteq dependencies'
  BY WorldStays
<1>2. CASE Reconcile
  BY <1>1, <1>2, ReconcileAdmits
<1>3. CASE ~Reconcile
  BY <1>1, <1>3, OthersLeaveThePlace, AdmissionStays DEF Admitted
<1> QED BY <1>2, <1>3

\* What stays admitted is still admitted.
LEMMA RuntimeStaysAdmitted ==
    ASSUME IInv, IInv', RuntimeOnlyWhereAdmitted, infra' = infra,
           dependencies \subseteq dependencies', DeploymentLeft
    PROVE  RuntimeOnlyWhereAdmitted'
<1> SUFFICES ASSUME OwnedByName(server'.Deployment),
                    server'.Deployment.template # ForeignTemplate
             PROVE  \E spec \in Specs :
                        /\ Template(spec) = server'.Deployment.template
                        /\ PlacementVerdict(infra', Self, spec.federationRef,
                                            spec.targetPolicy) = "Placed"
                        /\ Missing(spec)' = {}
  BY DEF RuntimeOnlyWhereAdmitted
<1>1. server'.Deployment \in Deployments
  BY DEF OwnedByName, IInv, TypeOK, Objects
<1>2. Content(server'.Deployment) = [owner |-> server'.Deployment.owner,
                                     template |-> server'.Deployment.template]
  BY DEF Content, OwnedByName
<1>3. Content(server'.Deployment) # None
  BY <1>1, <1>2, PromiseAssumption DEF Deployments
<1>4. /\ server.Deployment # None
      /\ server.Deployment.owner = server'.Deployment.owner
      /\ server.Deployment.template = server'.Deployment.template
  BY <1>2, <1>3 DEF DeploymentLeft, Content
<1>5. PICK spec \in Specs :
        /\ Template(spec) = server.Deployment.template
        /\ PlacementVerdict(infra, Self, spec.federationRef, spec.targetPolicy) = "Placed"
        /\ Missing(spec) = {}
  BY <1>4 DEF RuntimeOnlyWhereAdmitted, OwnedByName
<1>6. Missing(spec)' = {}
  <2> DEFINE refs == spec.imagePullSecrets \o spec.envFrom
  <2>1. Missing(spec) = {i \in DOMAIN refs : refs[i] \notin dependencies}
    BY DEF Missing
  <2>2. Missing(spec)' = {i \in DOMAIN refs : refs[i] \notin dependencies'}
    BY DEF Missing
  <2> HIDE DEF refs
  <2> QED BY <1>5, <2>1, <2>2
<1> QED BY <1>4, <1>5, <1>6

LEMMA StepRunsOnlyAdmitted ==
    ASSUME IInv, IInv', Admitted, RuntimeOnlyWhereAdmitted, [Next]_vars, StableWorld
    PROVE  RuntimeOnlyWhereAdmitted'
<1>1. infra' = infra /\ dependencies \subseteq dependencies'
  BY WorldStays
<1>2. CASE DeploymentLeft
  BY <1>1, <1>2, RuntimeStaysAdmitted
<1>3. CASE Ran
  <2>1. held \in Workloads /\ held.spec \in Specs
    BY <1>3, ObjectTypes DEF Ran, Workloads
  <2>2. Content(server'.Deployment) = Asked(held)
    BY <1>3 DEF Ran, Asked
  <2>3. server'.Deployment.template = Template(held.spec)
    <3>1. ControlledBy(server'.Deployment, held.uid)
              /\ server'.Deployment.template = Template(held.spec)
      BY <2>1, <2>2, MatchIsContent
    <3> QED BY <3>1
  <2>4. Placed(held.spec) /\ Missing(held.spec) = {} /\ held' = held
    BY <1>3 DEF Ran, CopyLeft, Admitted
  <2>5. /\ PlacementVerdict(infra', Self, held.spec.federationRef, held.spec.targetPolicy)
             = "Placed"
        /\ Missing(held.spec)' = {}
    BY <1>1, <2>4, AdmissionStays DEF Placed
  <2> DEFINE spec == held.spec
  <2>6. Missing(spec)' = {i \in DOMAIN (spec.imagePullSecrets \o spec.envFrom) :
                            (spec.imagePullSecrets \o spec.envFrom)[i] \notin dependencies'}
    BY <2>4 DEF Missing
  <2> QED BY <2>1, <2>3, <2>4, <2>5, <2>6 DEF RuntimeOnlyWhereAdmitted, Missing
<1>4. CASE Meddled
  BY <1>4 DEF Meddled, RuntimeOnlyWhereAdmitted, OwnedByName
<1> QED BY <1>2, <1>3, <1>4, StepKinds
        DEF Unseen, Copied, Sent, Created, Revised, Withdrawn, Overtaken, CaughtUp

\* As long as Federations and ClusterMembers stay as they are and no dependency
\* goes, no cluster ever runs what its preflights would refuse: whatever is
\* overtaken, retried or cut off, pods start only where they are placed and
\* after all they refer to is there.
THEOREM RunsOnlyWhereAdmitted ==
    ASSUME StableWorld PROVE Spec => []RuntimeOnlyWhereAdmitted
<1> DEFINE AInv == IInv /\ Admitted /\ RuntimeOnlyWhereAdmitted
<1>1. Init => AInv
  BY InitIInv DEF Init, Admitted, RuntimeOnlyWhereAdmitted, OwnedByName
<1>2. AInv /\ [Next]_vars => AInv'
  BY StepPreserves, StepAdmits, StepRunsOnlyAdmitted
<1>3. AInv => RuntimeOnlyWhereAdmitted
  OBVIOUS
<1> HIDE DEF AInv
<1> QED BY <1>1, <1>2, <1>3, PTL DEF Spec

--------------------------------------------------------------------------------
(* What is reported as applied is there.                                        *)

\* What a reconcile has written is there while its copy is current: the garbage
\* collector only takes what belongs to a Workload that is gone.
Upheld ==
    (pc \in {"service", "status"} /\ ~heldStale) => Content(server.Deployment) = Asked(held)

LEMMA UpheldPreserved ==
    ASSUME PInv, Upheld, "deployment" \notin Disturbances,
           Unseen \/ Copied \/ Ran \/ Meddled \/ Sent
               \/ Created \/ Revised \/ Withdrawn \/ CaughtUp
    PROVE  Upheld'
<1> USE DEF Upheld
<1>1. CASE Unseen
  BY <1>1 DEF Unseen, DeploymentLeft, CopyLeft, CopyDropped, NothingNewWritten, Asked
<1>2. CASE Copied
  BY <1>2 DEF Copied
<1>3. CASE Ran
  BY <1>3 DEF Ran, CopyLeft, Asked
<1>4. CASE Meddled
  <2> SUFFICES ASSUME pc \in {"service", "status"}, ~heldStale PROVE FALSE
    BY <1>4 DEF Meddled, CopyLeft
  <2>1. held \in Workloads /\ held = server.Workload /\ held # None
    BY ObjectTypes, ObjectAssumption DEF PInv, IInv, Coherent
  <2>2. ControlledBy(server.Deployment, held.uid)
    BY <2>1, MatchIsContent
  <2> QED BY <1>4, <2>1, <2>2 DEF Meddled, ControlledBy, WorkloadLives
<1>5. CASE Sent
  BY <1>5 DEF Sent, CopyDropped
<1>6. CASE Created \/ Revised \/ Withdrawn
  BY <1>6 DEF Created, Revised, Withdrawn, Overtaken
<1>7. CASE CaughtUp
  BY <1>7 DEF CaughtUp, DeploymentLeft, CopyLeft, CopyDropped, Asked
<1> QED BY <1>1, <1>2, <1>3, <1>4, <1>5, <1>6, <1>7

\* A status that reports an application has a target and tells of this version.
LEMMA AppliedIsReporting ==
    ASSUME ConditionsMatchTarget, server.Workload # None, ReportsApplied(server.Workload)
    PROVE  Reporting(server.Workload)
<1>1. server.Workload.status.target # "Unset"
  BY DEF ConditionsMatchTarget, ReportsApplied, ConditionTypes
<1> QED BY <1>1 DEF ReportsApplied, Reporting

LEMMA AppliedPreserved ==
    ASSUME PInv, PInv', Upheld, ConditionsMatchTarget, AppliedDeploymentIsApplied,
           "deployment" \notin Disturbances,
           Unseen \/ Copied \/ Ran \/ Meddled \/ Sent
               \/ Created \/ Revised \/ Withdrawn \/ CaughtUp
    PROVE  AppliedDeploymentIsApplied'
<1> DEFINE v == server'.Workload
<1> SUFFICES ASSUME v # None, ReportsApplied(v)
             PROVE  Content(server'.Deployment) = Asked(v)
  <2>1. v # None => v \in Workloads
    BY DEF PInv, IInv, TypeOK, Objects
  <2>2. AppliedDeploymentIsApplied' <=>
          ((v # None /\ ReportsApplied(v)) =>
              ControlledBy(server'.Deployment, v.uid)
                  /\ server'.Deployment.template = Template(v.spec))
    BY DEF AppliedDeploymentIsApplied, DeploymentMatches
  <2> QED BY <2>1, <2>2, MatchIsContent
<1>1. server.Workload # None /\ ReportsApplied(server.Workload) =>
        /\ server.Workload \in Workloads /\ Content(server.Deployment) = Asked(server.Workload)
  BY ObjectTypes, MatchIsContent DEF PInv, AppliedDeploymentIsApplied, DeploymentMatches
<1>2. CASE Unseen \/ Copied \/ CaughtUp
  BY <1>1, <1>2 DEF Unseen, Copied, CaughtUp, WorkloadLeft, DeploymentLeft
<1>3. CASE Ran
  <2>1. v = server.Workload /\ pc # "idle" /\ Content(server'.Deployment) = Asked(held)
    BY <1>3 DEF Ran, WorkloadLeft, Asked
  <2>2. SameVersion(held, server.Workload)
    BY <2>1, AppliedIsReporting DEF PInv, Told
  <2> QED BY <2>1, <2>2 DEF SameVersion, Asked
<1>4. CASE Meddled
  <2>1. v = server.Workload
    BY <1>4 DEF Meddled, WorkloadLeft
  <2>2. DeploymentMatches(server.Workload)
    BY <2>1 DEF AppliedDeploymentIsApplied
  <2> QED BY <1>4, <2>1, <2>2 DEF DeploymentMatches, ControlledBy, Meddled, WorkloadLives
<1>5. CASE Sent
  <2>1. held \in Workloads /\ held = server.Workload
    BY <1>5, ObjectTypes DEF Sent, PInv, IInv, Coherent
  <2>2. PICK st : /\ \/ \E reason \in Reasons : st = Reported(held, reason)
                     \/ pc = "status" /\ \E available \in BOOLEAN : st = Applied(held, available)
                  /\ v = [held EXCEPT !.status = st]
    BY <1>5 DEF Sent
  <2>3. v.status = st /\ Asked(v) = Asked(held)
    BY <2>1, <2>2 DEF Workloads, Asked
  <2>4. ASSUME NEW reason \in Reasons, st = Reported(held, reason) PROVE FALSE
    <3>1. st.target \in {"Pending", "Degraded"}
            /\ {c \in ConditionTypes : st.conditions[c] # "Absent"} = {st.target}
      <4>1. \/ st.target \in {"Pending", "Degraded"}
                /\ {c \in ConditionTypes : st.conditions[c] # "Absent"} = {st.target}
            \/ st.target \in {"Reconciling", "Available"}
        BY <2>1, <2>4, StatusTellsOneStory
      <4>2. st.target \in {"Pending", "Degraded"}
        BY <2>1, <2>4 DEF Reported, Workloads, Status
      <4> QED BY <4>1, <4>2
    <3>2. st.conditions["RuntimeObjectsApplied"] = "Absent"
      BY <3>1 DEF ConditionTypes
    <3> QED BY <2>3, <3>2 DEF ReportsApplied
  <2>5. pc = "status" /\ ~heldStale /\ Content(server'.Deployment) = Content(server.Deployment)
    BY <1>5, <2>2, <2>4 DEF Sent, DeploymentLeft
  <2> QED BY <2>3, <2>5 DEF Upheld
<1>6. CASE Created
  <2>1. v.status = EmptyStatus
    BY <1>6 DEF Created
  <2> QED BY <2>1 DEF ReportsApplied, EmptyStatus, ConditionTypes
<1>7. CASE Revised
  BY <1>7, RevisedIsUntold DEF ReportsApplied
<1>8. CASE Withdrawn
  BY <1>8 DEF Withdrawn
<1> QED BY <1>2, <1>3, <1>4, <1>5, <1>6, <1>7, <1>8

\* As long as nobody else writes to Deployments, RuntimeObjectsApplied for the current
\* generation is true: no reconcile from an older copy, no garbage collection
\* of a predecessor's objects and no restart between the two writes makes the
\* status tell of a Deployment that is not the one of the current spec.
THEOREM AppliedIsThere ==
    ASSUME "deployment" \notin Disturbances PROVE Spec => []AppliedDeploymentIsApplied
<1> DEFINE DInv == PInv /\ ConditionsMatchTarget /\ Upheld /\ AppliedDeploymentIsApplied
<1>1. Init => DInv
  BY InitPInv DEF Init, ConditionsMatchTarget, Upheld, AppliedDeploymentIsApplied
<1>2. DInv /\ [Next]_vars => DInv'
  <2> SUFFICES ASSUME DInv, [Next]_vars PROVE DInv'
    OBVIOUS
  <2>1. PInv' /\ ConditionsMatchTarget'
    BY StepPreservesPInv, OneStoryPreserved DEF PInv
  <2>2. \/ Unseen \/ Copied \/ Ran \/ Meddled \/ Sent
        \/ Created \/ Revised \/ Withdrawn \/ CaughtUp
    BY StepKinds DEF PInv
  <2>3. Upheld'
    BY <2>2, UpheldPreserved
  <2>4. AppliedDeploymentIsApplied'
    BY <2>1, <2>2, AppliedPreserved
  <2> QED BY <2>1, <2>3, <2>4
<1>3. DInv => AppliedDeploymentIsApplied
  OBVIOUS
<1> HIDE DEF DInv
<1> QED BY <1>1, <1>2, <1>3, PTL DEF Spec

--------------------------------------------------------------------------------
(* At rest everything is done.                                                  *)

\* A reconcile is sure to come: the name is queued, a retry is pending, or an event.
Awaited == queued \/ timer \/ events # {}

\* Nothing changes unnoticed: of a Workload every change is an event, of a Deployment
\* or Service every change to or from one that is ours. And a reconcile whose
\* copy has been overtaken is not the last.
Heard ==
    /\ "Workload" \in lag => "Workload" \in events
    /\ \A kind \in lag \ events : ~OwnedByName(cache[kind]) /\ ~OwnedByName(server[kind])
    /\ (pc # "idle" /\ heldStale) => Awaited

\* What a reconcile has done by the step where it is, is so, unless another will come.
Done ==
    (~Awaited /\ server.Workload # None) =>
        /\ pc \in {"service", "status", "idle"} => DeploymentMatches(server.Workload)
        /\ pc \in {"status", "idle"} => ServiceMatches(server.Workload)
        /\ pc = "idle" =>
            server.Workload.status = Applied(server.Workload, server.Deployment.available)

\* A stored change is noticed, whatever it is a change of.
LEMMA StoreIsHeard ==
    ASSUME IInv, Heard, NEW kind \in Kinds, NEW object, Store(kind, object)
    PROVE  /\ events \subseteq events'
           /\ "Workload" \in lag' => "Workload" \in events'
           /\ \A k \in lag' \ events' : ~OwnedByName(cache'[k]) /\ ~OwnedByName(server'[k])
           /\ object # server[kind] /\ Enqueues(kind, server[kind], object) => kind \in events'
<1>1. CASE object = server[kind]
  <2>1. server' = server /\ UNCHANGED <<cache, lag, events>>
    BY <1>1 DEF Store, IInv, TypeOK, Objects, Kinds
  <2> QED BY <1>1, <2>1 DEF Heard
<1>2. CASE object # server[kind]
  <2>1. /\ lag' = lag \cup {kind} /\ cache' = cache
        /\ events' = IF Enqueues(kind, server[kind], object) THEN events \cup {kind} ELSE events
    BY <1>2 DEF Store
  <2>2. server'[kind] = object /\ \A k \in Kinds \ {kind} : server'[k] = server[k]
    BY StoreEffect
  <2>3. ASSUME NEW k \in lag' \ events'
        PROVE  ~OwnedByName(cache'[k]) /\ ~OwnedByName(server'[k])
    <3>1. CASE k = kind
      <4>1. ~OwnedByName(server[kind]) /\ ~OwnedByName(object)
        BY <2>1, <2>3, <3>1 DEF Enqueues
      <4>2. ~OwnedByName(cache[kind])
        <5>1. CASE kind \in lag
          BY <2>1, <2>3, <3>1, <5>1 DEF Heard
        <5>2. CASE kind \notin lag
          BY <4>1, <5>2 DEF IInv, Coherent
        <5> QED BY <5>1, <5>2
      <4> QED BY <2>1, <2>2, <3>1, <4>1, <4>2
    <3>2. CASE k # kind
      <4>1. k \in lag \ events /\ k \in Kinds
        BY <2>1, <2>3, <3>2 DEF IInv, TypeOK
      <4> QED BY <2>1, <2>2, <3>2, <4>1 DEF Heard
    <3> QED BY <3>1, <3>2
  <2>4. "Workload" \in lag' => "Workload" \in events'
    BY <2>1 DEF Heard, Enqueues
  <2> QED BY <2>1, <2>3, <2>4
<1> QED BY <1>1, <1>2

LEMMA WriteIsHeard ==
    ASSUME IInv, Heard, NEW kind \in Kinds, NEW object, Write(kind, object),
           UNCHANGED queue, pc' = pc \/ (pc # "idle" /\ pc' # "idle")
    PROVE  Heard' /\ (Awaited => Awaited')
<1>1. /\ Store(kind, object)
      /\ heldStale' = (heldStale \/ (kind = "Workload" /\ pc # "idle" /\ object # server[kind]))
  BY DEF Write
<1>2. /\ events \subseteq events'
      /\ "Workload" \in lag' => "Workload" \in events'
      /\ \A k \in lag' \ events' : ~OwnedByName(cache'[k]) /\ ~OwnedByName(server'[k])
      /\ object # server[kind] /\ Enqueues(kind, server[kind], object) => kind \in events'
  BY <1>1, StoreIsHeard
<1>3. Awaited => Awaited'
  BY <1>2 DEF Awaited, queue
<1>4. (pc' # "idle" /\ heldStale') => Awaited'
  BY <1>1, <1>2, <1>3 DEF Heard, Enqueues, Awaited
<1> QED BY <1>2, <1>3, <1>4 DEF Heard

\* The same objects, as far heard of: nothing to show but the copy's part.
LEMMA NothingToHear ==
    ASSUME Heard, UNCHANGED objects, (pc' # "idle" /\ heldStale') => Awaited'
    PROVE  Heard'
BY DEF Heard, objects

LEMMA ReconcileIsHeard ==
    ASSUME IInv, Heard, Reconcile
    PROVE  Heard'
<1>1. CASE Fail
  BY <1>1, NothingToHear DEF Fail, Finish
<1>2. CASE BeginAbsent
  BY <1>2, NothingToHear DEF BeginAbsent, reconciler
<1>3. CASE Begin
  <2>1. heldStale' => "Workload" \in events'
    BY <1>3 DEF Begin, objects, Heard
  <2> QED BY <1>3, <2>1, NothingToHear DEF Begin, Awaited
<1>4. CASE CheckPlacement \/ CheckDependencies \/ CheckOwnership
  <2>1. UNCHANGED objects /\ heldStale' = heldStale /\ pc # "idle"
    BY <1>4 DEF CheckPlacement, CheckDependencies, CheckOwnership, NoWrite, Step
  <2>2. queued' = queued /\ timer' = timer
    BY <1>4 DEF CheckPlacement, CheckDependencies, CheckOwnership, Step, Goto, StopWith
  <2>3. Awaited => Awaited'
    BY <2>1, <2>2 DEF Awaited, objects
  <2> QED BY <2>1, <2>3, NothingToHear DEF Heard
<1>5. CASE (ApplyDeployment \/ ApplyService \/ DeleteService) /\ ~Fail
  <2>1. pc # "idle" /\ queued' = queued
    BY <1>5 DEF ApplyDeployment, ApplyService, DeleteService, Step
  <2>2. /\ Goto("service") \/ Goto("status")
        /\ NoWrite \/ \E kind \in {"Deployment", "Service"} : \E object : Write(kind, object)
    BY <1>5 DEF ApplyDeployment, ApplyService, DeleteService
  <2>3. timer' = timer /\ pc' # "idle"
    BY <2>2 DEF Goto
  <2>4. CASE NoWrite
    <3>1. Awaited => Awaited'
      BY <2>1, <2>3, <2>4 DEF NoWrite, Awaited, objects
    <3> QED BY <2>1, <2>4, <3>1, NothingToHear DEF NoWrite, Heard
  <2>5. ASSUME NEW kind \in {"Deployment", "Service"}, NEW object, Write(kind, object)
        PROVE  Heard'
    BY <2>1, <2>3, <2>5, WriteIsHeard DEF queue, Kinds
  <2> QED BY <2>2, <2>4, <2>5
<1>6. CASE (ReportVerdict \/ ReportApplied) /\ ~Fail
  <2>1. /\ pc' = "idle"
        /\ UNCHANGED objects \/ \E object : Store("Workload", object)
    BY <1>6 DEF ReportVerdict, ReportApplied, UpdateStatus, Finish
  <2>2. CASE UNCHANGED objects
    BY <2>1, <2>2, NothingToHear
  <2>3. ASSUME NEW object, Store("Workload", object) PROVE Heard'
    BY <2>1, <2>3, StoreIsHeard DEF Heard, Kinds
  <2> QED BY <2>1, <2>2, <2>3
<1> QED BY <1>1, <1>2, <1>3, <1>4, <1>5, <1>6 DEF Reconcile

LEMMA QueueIsHeard ==
    ASSUME IInv, Heard, TimerFires \/ Resync \/ \E kind \in Kinds : Sync(kind)
    PROVE  Heard'
<1>1. CASE TimerFires \/ Resync
  BY <1>1, NothingToHear DEF TimerFires, Resync, Awaited
<1>2. ASSUME NEW kind \in Kinds, Sync(kind) PROVE Heard'
  <2>1. /\ server' = server /\ lag' = lag \ {kind} /\ events' = events \ {kind}
        /\ \A k \in Kinds \ {kind} : cache'[k] = cache[k]
        /\ pc' = pc /\ heldStale' = heldStale /\ timer' = timer
        /\ queued' = (queued \/ kind \in events)
    BY <1>2 DEF Sync, reconciler, IInv, TypeOK, Objects
  <2>2. Awaited => Awaited'
    BY <2>1 DEF Awaited
  <2>3. ASSUME NEW k \in lag' \ events'
        PROVE  ~OwnedByName(cache'[k]) /\ ~OwnedByName(server'[k])
    <3>1. k \in lag \ events /\ k \in Kinds \ {kind}
      BY <2>1, <2>3 DEF IInv, TypeOK
    <3> QED BY <2>1, <3>1 DEF Heard
  <2> QED BY <2>1, <2>2, <2>3 DEF Heard
<1> QED BY <1>1, <1>2

LEMMA EnvironmentIsHeard ==
    ASSUME IInv, Heard, Environment \/ UNCHANGED vars PROVE Heard'
<1>1. CASE \/ \E spec \in Specs : CreateWorkload(spec) \/ EditWorkload(spec)
           \/ DeleteWorkload
           \/ \E owner \in ForeignOwners(server.Deployment), available \in BOOLEAN :
                DisturbDeployment(owner, available)
           \/ DeleteDeployment
           \/ \E owner \in ForeignOwners(server.Service) : DisturbService(owner)
           \/ RemoveService
           \/ RolloutCompletes \/ RolloutFails
           \/ \E kind \in Kinds : GarbageCollect(kind)
  <2>1. /\ \E kind \in Kinds : \E object : Write(kind, object)
        /\ UNCHANGED queue /\ pc' = pc
    BY <1>1 DEF CreateWorkload, EditWorkload, DeleteWorkload, DisturbDeployment,
        DeleteDeployment, DisturbService, RemoveService, RolloutCompletes, RolloutFails,
        SetAvailable, GarbageCollect, Kinds
  <2> QED BY <2>1, WriteIsHeard
<1>2. CASE \/ \E i \in Infras : ChangeInfrastructure(i)
           \/ \E d \in Secrets \cup ConfigMaps : AddDependency(d) \/ RemoveDependency(d)
           \/ UNCHANGED vars
  <2>1. UNCHANGED <<objects, queue, reconciler>>
    BY <1>2 DEF ChangeInfrastructure, AddDependency, RemoveDependency, vars
  <2>2. Awaited => Awaited'
    BY <2>1 DEF Awaited, objects, queue
  <2> QED BY <2>1, <2>2, NothingToHear DEF Heard, reconciler
<1>3. CASE ApiCallFails
  BY <1>3, NothingToHear DEF ApiCallFails, Fail, Finish
<1>4. CASE Restart
  BY <1>4 DEF Restart, Heard
<1>5. CASE Resync
  BY <1>5, QueueIsHeard
<1> QED BY <1>1, <1>2, <1>3, <1>4, <1>5 DEF Environment

LEMMA StepIsHeard == IInv /\ Heard /\ [Next]_vars => Heard'
BY ReconcileIsHeard, QueueIsHeard, EnvironmentIsHeard DEF Next

\* Where no other reconcile is sure to come, what the cache shows and the copy says
\* is so; of another's objects it may be out of date.
LEMMA UnawaitedIsCurrent ==
    ASSUME IInv, Heard, ~Awaited
    PROVE  /\ cache.Workload = server.Workload
           /\ pc # "idle" => held = server.Workload
           /\ \A kind \in {"Deployment", "Service"} :
                OwnedByName(cache[kind]) \/ OwnedByName(server[kind]) =>
                    cache[kind] = server[kind]
BY DEF IInv, Coherent, Heard, Awaited, Kinds

\* A uid is no foreign controller.
LEMMA ControlledIsOwned ==
    ASSUME NEW w \in Workloads, NEW object, ControlledBy(object, w.uid)
    PROVE  OwnedByName(object)
BY ControllerAssumption DEF ControlledBy, OwnedByName, Workloads

\* A change of somebody else's Deployment or Service does not undo what is done; a
\* change of our own is heard of.
LEMMA OthersWritesLeaveDone ==
    ASSUME IInv, Heard, Done, NEW kind \in {"Deployment", "Service"}, NEW object,
           Write(kind, object), UNCHANGED queue, pc' = pc,
           OwnedByName(object) => OwnedByName(server[kind])
    PROVE  Done'
<1>1. /\ Store(kind, object) /\ server'.Workload = server.Workload /\ server'[kind] = object
      /\ \A k \in Kinds \ {kind} : server'[k] = server[k]
  BY StoreEffect DEF Write, Kinds
<1> DEFINE w == server.Workload
<1> SUFFICES ASSUME ~Awaited', w # None
             PROVE  /\ pc \in {"service", "status", "idle"} => DeploymentMatches(w)'
                    /\ pc \in {"status", "idle"} => ServiceMatches(w)'
                    /\ pc = "idle" => w.status = Applied(w, server'.Deployment.available)
  BY <1>1 DEF Done
<1>2. ~Awaited /\ w \in Workloads
  BY WriteIsHeard, ObjectTypes DEF Kinds
<1>3. /\ pc \in {"service", "status", "idle"} => DeploymentMatches(w)
      /\ pc \in {"status", "idle"} => ServiceMatches(w)
      /\ pc = "idle" => w.status = Applied(w, server.Deployment.available)
  BY <1>2 DEF Done
<1>4. object = server[kind] \/ ~OwnedByName(server[kind])
  <2>1. Enqueues(kind, server[kind], object) /\ object # server[kind] => kind \in events'
    BY <1>1, StoreIsHeard DEF Kinds
  <2> QED BY <2>1 DEF Enqueues, Awaited
<1>5. CASE object = server[kind]
  BY <1>1, <1>3, <1>5 DEF DeploymentMatches, ServiceMatches, Kinds
<1>6. CASE kind = "Deployment" /\ ~OwnedByName(server.Deployment)
  <2>1. ~DeploymentMatches(w)
    BY <1>2, <1>6, ControlledIsOwned DEF DeploymentMatches
  <2> QED BY <1>3, <2>1
<1>7. CASE kind = "Service" /\ ~OwnedByName(server.Service)
  <2>1. server'.Deployment = server.Deployment /\ server'.Service = object
    BY <1>1, <1>7 DEF Kinds
  <2>2. ServiceMatches(w) => ServiceMatches(w)'
    <3>1. ~ControlledBy(object, w.uid)
      BY <1>2, <1>7, ControlledIsOwned
    <3>2. CASE w.spec.ports = NoPorts
      BY <1>1, <2>1, <3>1, <3>2 DEF ServiceMatches
    <3>3. CASE w.spec.ports # NoPorts /\ ServiceMatches(w)
      <4>1. server.Service = [owner |-> w.uid, ports |-> w.spec.ports]
        BY <3>3 DEF ServiceMatches
      <4>2. server.Service # None
        <5>1. server.Service \in Services
          BY <1>2, <4>1, SpecType DEF Services, Owners, Workloads
        <5> QED BY <5>1, ObjectAssumption
      <4>3. ControlledBy(server.Service, w.uid)
        BY <4>1, <4>2 DEF ControlledBy
      <4> QED BY <1>2, <1>7, <4>3, ControlledIsOwned
    <3> QED BY <3>2, <3>3
  <2>3. DeploymentMatches(w) => DeploymentMatches(w)'
    BY <1>1, <2>1 DEF DeploymentMatches
  <2> QED BY <1>3, <2>1, <2>2, <2>3
<1> QED BY <1>4, <1>5, <1>6, <1>7

\* The same objects at the same place: what is done is done.
LEMMA NothingUndone ==
    ASSUME Done, server' = server, pc' = pc, ~Awaited' => ~Awaited
    PROVE  Done'
BY DEF Done, DeploymentMatches, ServiceMatches

LEMMA ApplyDeploymentDoes ==
    ASSUME IInv, Heard, ApplyDeployment PROVE Done'
<1>1. CASE Fail
  BY <1>1 DEF Fail, Finish, Done, Awaited
<1>2. CASE ~Fail
  <2> DEFINE object == [owner |-> held.uid, template |-> Template(held.spec),
                        available |-> cache.Deployment # None /\ cache.Deployment.available]
  <2>1. pc = "deployment" /\ Write("Deployment", object) /\ Goto("service") /\ queued' = queued
    BY <1>2 DEF ApplyDeployment, Step
  <2>2. held \in Workloads
    BY <2>1, ObjectTypes
  <2>3. object # None
    <3>1. cache.Deployment # None => cache.Deployment.available \in BOOLEAN
      BY DEF IInv, TypeOK, Objects, Deployments
    <3>2. object \in Deployments
      BY <2>2, <3>1, TemplateType DEF Workloads, Deployments, Owners
    <3> QED BY <3>2, ObjectAssumption
  <2>4. object.owner = held.uid /\ object.template = Template(held.spec)
    OBVIOUS
  <2> HIDE DEF object
  <2>5. pc' = "service" /\ timer' = timer
    BY <2>1 DEF Goto
  <2>6. server'.Deployment = object /\ server'.Workload = server.Workload
    BY <2>1, StoreEffect DEF Write, Kinds
  <2>7. SUFFICES ASSUME ~Awaited' PROVE DeploymentMatches(server.Workload)'
    BY <2>5 DEF Done
  <2>8. ~Awaited
    BY <2>1, <2>5, <2>7, WriteIsHeard DEF Kinds, queue
  <2>9. held = server.Workload
    BY <2>1, <2>8, UnawaitedIsCurrent
  <2> QED BY <2>3, <2>4, <2>6, <2>9 DEF DeploymentMatches, ControlledBy
<1> QED BY <1>1, <1>2

LEMMA ApplyServiceDoes ==
    ASSUME IInv, Heard, Done, ApplyService \/ DeleteService PROVE Done'
<1>1. CASE Fail
  BY <1>1 DEF Fail, Finish, Done, Awaited
<1>2. CASE ~Fail
  <2> DEFINE w       == server.Workload
             desired == [owner |-> held.uid, ports |-> held.spec.ports]
  <2>1. pc = "service" /\ Goto("status") /\ queued' = queued
    BY <1>2 DEF ApplyService, DeleteService, Step
  <2>2. NoWrite \/ \E object : Write("Service", object)
    BY <1>2 DEF ApplyService, DeleteService
  <2>3. pc' = "status" /\ timer' = timer /\ held' = held
    BY <2>1 DEF Goto
  <2>4. server'.Workload = w /\ server'.Deployment = server.Deployment
    <3>1. CASE NoWrite BY <3>1 DEF NoWrite, objects
    <3>2. ASSUME NEW object, Write("Service", object)
          PROVE  server'.Workload = w /\ server'.Deployment = server.Deployment
      BY <3>2, StoreEffect DEF Write, Kinds
    <3> QED BY <2>2, <3>1, <3>2
  <2>5. SUFFICES ASSUME ~Awaited', w # None
                 PROVE  DeploymentMatches(w)' /\ ServiceMatches(w)'
    BY <2>3, <2>4 DEF Done
  <2>6. ~Awaited
    <3>1. CASE NoWrite BY <2>1, <2>3, <2>5, <3>1 DEF NoWrite, objects, Awaited
    <3>2. ASSUME NEW object, Write("Service", object) PROVE ~Awaited
      BY <2>1, <2>3, <2>5, <3>2, WriteIsHeard DEF Kinds, queue
    <3> QED BY <2>2, <3>1, <3>2
  <2>7. /\ held = w /\ w \in Workloads
        /\ OwnedByName(cache.Service) \/ OwnedByName(server.Service) =>
              cache.Service = server.Service
    BY <2>1, <2>5, <2>6, UnawaitedIsCurrent, ObjectTypes
  <2>8. DeploymentMatches(w)'
    BY <2>1, <2>4, <2>5, <2>6 DEF Done, DeploymentMatches
  <2>9. ServiceMatches(w)'
    <3>1. desired \in Services /\ ControlledBy(desired, w.uid)
      <4>1. desired \in Services
        BY <2>7, SpecType DEF Workloads, Services, Owners
      <4> QED BY <2>7, <4>1, ObjectAssumption DEF ControlledBy
    <3>2. CASE w.spec.ports # NoPorts
      <4>1. \/ cache.Service = desired /\ NoWrite
            \/ Write("Service", desired)
        BY <1>2, <2>7, <3>2 DEF ApplyService, DeleteService
      <4>2. CASE Write("Service", desired)
        <5>1. server'.Service = desired
          <6> HIDE DEF desired
          <6> QED BY <4>2, StoreEffect DEF Write, Kinds
        <5> QED BY <2>4, <2>7, <3>2, <5>1 DEF ServiceMatches
      <4>3. CASE cache.Service = desired /\ NoWrite
        <5>1. server.Service = desired
          <6> HIDE DEF desired
          <6> QED BY <2>7, <3>1, <4>3, ControlledIsOwned
        <5>2. server'.Service = desired
          BY <4>3, <5>1 DEF NoWrite, objects
        <5> QED BY <2>4, <2>7, <3>2, <5>2 DEF ServiceMatches
      <4> QED BY <4>1, <4>2, <4>3
    <3>3. CASE w.spec.ports = NoPorts
      <4>1. IF ControlledBy(cache.Service, w.uid) THEN Write("Service", None) ELSE NoWrite
        BY <1>2, <2>7, <3>3 DEF ApplyService, DeleteService
      <4>2. ~ControlledBy(server'.Service, w.uid)
        <5>1. CASE Write("Service", None)
          <6>1. server'.Service = None
            BY <5>1, StoreEffect DEF Write, Kinds
          <6> QED BY <6>1 DEF ControlledBy
        <5>2. CASE ~ControlledBy(cache.Service, w.uid) /\ NoWrite
          <6>1. server'.Service = server.Service
            BY <5>2 DEF NoWrite, objects
          <6>2. ControlledBy(server.Service, w.uid) => cache.Service = server.Service
            BY <2>7, ControlledIsOwned
          <6> QED BY <5>2, <6>1, <6>2
        <5> QED BY <4>1, <5>1, <5>2
      <4> QED BY <2>4, <3>3, <4>2 DEF ServiceMatches
    <3> QED BY <3>2, <3>3
  <2> QED BY <2>8, <2>9
<1> QED BY <1>1, <1>2

\* A reconcile ends without asking for another only if its status was there already.
LEMMA ReportsDo ==
    ASSUME IInv, Heard, Done, ReportVerdict \/ ReportApplied PROVE Done'
<1>1. CASE Fail
  BY <1>1 DEF Fail, Finish, Done, Awaited
<1>2. CASE ReportVerdict
  BY <1>2 DEF ReportVerdict, UpdateStatus, Finish, Done, Awaited
<1>3. CASE ReportApplied /\ ~Fail
  <2> DEFINE w      == server.Workload
             status == Applied(held, cache.Deployment.available)
  <2>1. pc = "status" /\ UpdateStatus(status, FALSE) /\ queued' = queued
    BY <1>3 DEF ReportApplied, Step
  <2>2. pc' = "idle" /\ timer' = (timer \/ (status # held.status /\ heldStale))
    BY <2>1 DEF UpdateStatus, Finish
  <2>3. held \in Workloads
    BY <2>1, ObjectTypes
  <2>4. CASE status # held.status /\ heldStale
    BY <2>2, <2>4 DEF Done, Awaited
  <2>5. CASE status # held.status /\ ~heldStale
    <3> DEFINE object == [held EXCEPT !.status = status]
    <3>1. Store("Workload", object) /\ held = server.Workload
      BY <2>1, <2>5 DEF UpdateStatus, IInv, Coherent
    <3>2. object # server.Workload
      BY <2>3, <2>5, <3>1 DEF Workloads
    <3> HIDE DEF object
    <3>3. "Workload" \in events'
      BY <3>1, <3>2, StoreIsHeard DEF Enqueues, Kinds
    <3> QED BY <3>3 DEF Done, Awaited
  <2>6. CASE status = held.status
    <3>1. UNCHANGED objects /\ timer' = timer
      BY <2>1, <2>2, <2>6 DEF UpdateStatus, IInv, TypeOK
    <3>2. SUFFICES ASSUME ~Awaited, w # None
                   PROVE  /\ DeploymentMatches(w) /\ ServiceMatches(w)
                          /\ w.status = Applied(w, server.Deployment.available)
      BY <2>1, <3>1 DEF Done, Awaited, objects, DeploymentMatches, ServiceMatches
    <3>3. held = w /\ DeploymentMatches(w) /\ ServiceMatches(w)
      BY <2>1, <3>2, UnawaitedIsCurrent DEF Done
    <3>4. cache.Deployment = server.Deployment
      BY <2>3, <3>2, <3>3, UnawaitedIsCurrent, ControlledIsOwned DEF DeploymentMatches
    <3> QED BY <2>6, <3>3, <3>4
  <2> QED BY <2>4, <2>5, <2>6
<1> QED BY <1>1, <1>2, <1>3

LEMMA ReconcileDoes ==
    ASSUME IInv, Heard, Done, Reconcile PROVE Done'
<1>1. CASE BeginAbsent
  <2>1. UNCHANGED <<objects, timer>> /\ cache.Workload = None
    BY <1>1 DEF BeginAbsent
  <2>2. events = {} => server.Workload = None
    BY <2>1 DEF Heard, IInv, Coherent, Kinds
  <2> QED BY <2>1, <2>2 DEF Done, Awaited, objects
<1>2. CASE Begin
  <2>1. pc' \in {"dependencies", "placement"}
    BY <1>2 DEF Begin
  <2> QED BY <2>1 DEF Done
<1>3. CASE CheckPlacement \/ CheckDependencies \/ CheckOwnership
  <2>1. pc' \in {"dependencies", "ownership", "deployment", "report"}
    BY <1>3 DEF CheckPlacement, CheckDependencies, CheckOwnership, Goto, StopWith
  <2> QED BY <2>1 DEF Done
<1> QED BY <1>1, <1>2, <1>3, ApplyDeploymentDoes, ApplyServiceDoes, ReportsDo DEF Reconcile

LEMMA QueueLeavesDone ==
    ASSUME IInv, Done, TimerFires \/ Resync \/ \E kind \in Kinds : Sync(kind)
    PROVE  Done'
<1>1. CASE TimerFires \/ Resync
  BY <1>1 DEF TimerFires, Resync, Done, Awaited
<1>2. ASSUME NEW kind \in Kinds, Sync(kind) PROVE Done'
  <2>1. /\ server' = server /\ pc' = pc /\ timer' = timer
        /\ queued' = (queued \/ kind \in events) /\ events' = events \ {kind}
    BY <1>2 DEF Sync, reconciler
  <2> QED BY <2>1, NothingUndone DEF Awaited
<1> QED BY <1>1, <1>2

LEMMA UsersWakeTheOperator ==
    ASSUME IInv, Heard,
           \/ \E spec \in Specs : CreateWorkload(spec) \/ EditWorkload(spec)
           \/ DeleteWorkload
    PROVE  Done'
<1>1. ASSUME NEW object, Write("Workload", object), object # server.Workload PROVE Done'
  <2>1. "Workload" \in events'
    BY <1>1, StoreIsHeard DEF Write, Enqueues, Kinds
  <2> QED BY <2>1 DEF Done, Awaited
<1>2. ASSUME NEW spec \in Specs, CreateWorkload(spec) PROVE Done'
  <2> DEFINE object == [uid |-> lastUid', generation |-> 1, spec |-> spec,
                        status |-> EmptyStatus]
  <2>1. server.Workload = None /\ Write("Workload", object) /\ lastUid' = lastUid + 1
    BY <1>2 DEF CreateWorkload
  <2>2. object # None
    <3>1. [c \in ConditionTypes |-> "Absent"] \in [ConditionTypes -> ConditionReasons]
      BY DEF ConditionReasons
    <3>2. EmptyStatus \in Status
      BY <3>1 DEF EmptyStatus, Status
    <3>3. object \in Workloads
      BY <2>1, <3>2 DEF Workloads, IInv, TypeOK
    <3> QED BY <3>3, ObjectAssumption
  <2> HIDE DEF object
  <2> QED BY <1>1, <2>1, <2>2
<1>3. ASSUME NEW spec \in Specs, EditWorkload(spec) PROVE Done'
  <2> DEFINE object == [server.Workload EXCEPT !.spec = spec, !.generation = @ + 1]
  <2>1. server.Workload \in Workloads /\ server.Workload.spec # spec /\ Write("Workload", object)
    BY <1>3, ObjectTypes DEF EditWorkload
  <2>2. object.spec = spec
    BY <2>1 DEF Workloads
  <2> HIDE DEF object
  <2> QED BY <1>1, <2>1, <2>2
<1>4. CASE DeleteWorkload
  BY <1>1, <1>4 DEF DeleteWorkload
<1> QED BY <1>2, <1>3, <1>4

\* Nobody but a reconcile makes an object ours that was not.
LEMMA OthersLeaveDone ==
    ASSUME IInv, Heard, Done,
           \/ \E owner \in ForeignOwners(server.Deployment), available \in BOOLEAN :
                DisturbDeployment(owner, available)
           \/ DeleteDeployment
           \/ \E owner \in ForeignOwners(server.Service) : DisturbService(owner)
           \/ RemoveService
           \/ RolloutCompletes \/ RolloutFails
           \/ \E kind \in Kinds : GarbageCollect(kind)
    PROVE  Done'
<1>1. CASE \E owner \in ForeignOwners(server.Deployment), available \in BOOLEAN :
              DisturbDeployment(owner, available)
  BY <1>1, OthersWritesLeaveDone DEF DisturbDeployment, ForeignOwners, OwnedByName
<1>2. CASE \E owner \in ForeignOwners(server.Service) : DisturbService(owner)
  BY <1>2, OthersWritesLeaveDone DEF DisturbService, ForeignOwners, OwnedByName
<1>3. CASE DeleteDeployment \/ RemoveService \/ \E kind \in Kinds : GarbageCollect(kind)
  <2>1. /\ \E kind \in {"Deployment", "Service"} : Write(kind, None)
        /\ UNCHANGED queue /\ pc' = pc
    BY <1>3 DEF DeleteDeployment, RemoveService, GarbageCollect, Kinds
  <2>2. ~OwnedByName(None)
    BY DEF OwnedByName
  <2> QED BY <2>1, <2>2, OthersWritesLeaveDone
<1>4. CASE RolloutCompletes \/ RolloutFails
  <2>1. PICK available \in BOOLEAN : SetAvailable(available)
    BY <1>4 DEF RolloutCompletes, RolloutFails
  <2> DEFINE object == [server.Deployment EXCEPT !.available = available]
  <2>2. /\ Write("Deployment", object) /\ server.Deployment # None
        /\ UNCHANGED queue /\ pc' = pc
    BY <2>1 DEF SetAvailable
  <2>3. server.Deployment \in Deployments
    BY <2>2, ObjectTypes
  <2>4. object.owner = server.Deployment.owner
    BY <2>3 DEF Deployments
  <2> HIDE DEF object
  <2>5. OwnedByName(object) => OwnedByName(server.Deployment)
    BY <2>2, <2>4 DEF OwnedByName
  <2> QED BY <2>2, <2>5, OthersWritesLeaveDone
<1> QED BY <1>1, <1>2, <1>3, <1>4

LEMMA StepLeavesDone == IInv /\ Heard /\ Done /\ [Next]_vars => Done'
<1> SUFFICES ASSUME IInv, Heard, Done, [Next]_vars PROVE Done'
  OBVIOUS
<1>1. CASE \/ \E i \in Infras : ChangeInfrastructure(i)
           \/ \E d \in Secrets \cup ConfigMaps : AddDependency(d) \/ RemoveDependency(d)
           \/ UNCHANGED vars
  <2>1. UNCHANGED <<objects, queue, reconciler>>
    BY <1>1 DEF ChangeInfrastructure, AddDependency, RemoveDependency, vars
  <2> QED BY <2>1, NothingUndone DEF Awaited, objects, queue, reconciler
<1>2. CASE ApiCallFails
  BY <1>2 DEF ApiCallFails, Fail, Finish, Done, Awaited
<1>3. CASE Restart
  BY <1>3 DEF Restart, Done, Awaited
<1> QED BY <1>1, <1>2, <1>3, ReconcileDoes, QueueLeavesDone, UsersWakeTheOperator, OthersLeaveDone
        DEF Next, Environment

\* Whenever the operator is at rest its work is done and reported, for every history
\* of edits, deletions, foreign writes, failures and restarts: no reconcile that
\* worked on an overtaken copy or an outdated cache is the last one, and no
\* change that undoes its work goes unheard.
THEOREM SettledIsReconciled == Spec => []SettledMeansReconciled
<1> DEFINE RInv == IInv /\ Heard /\ Done
<1>1. Init => RInv
  BY InitIInv DEF Init, Heard, Done
<1>2. RInv /\ [Next]_vars => RInv'
  BY StepPreserves, StepIsHeard, StepLeavesDone
<1>3. RInv => SettledMeansReconciled
  BY DEF IInv, TypeOK, Done, Awaited, Settled, SettledMeansReconciled
<1> HIDE DEF RInv
<1> QED BY <1>1, <1>2, <1>3, PTL DEF Spec

================================================================================
