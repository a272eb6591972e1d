-------------------------- MODULE WorkloadPromiseProofs -------------------------
(***************************************************************************)
(* The Workload controller implements WorkloadPromise, for every value of  *)
(* the constants: every step of it is a step the promise allows, or one it *)
(* does not see.                                                           *)
(*                                                                         *)
(* The argument is in two halves. Seen from the promise, a step is one of  *)
(* nine kinds (StepKinds), which say of the Workload, the Deployment, the  *)
(* cached Workload and the reconcile's copy what the step does to them,    *)
(* and nothing of how. The invariant PInv and the refinement are then      *)
(* proved of the nine kinds.                                               *)
(***************************************************************************)
EXTENDS WorkloadProofs

--------------------------------------------------------------------------------
(* The invariant.                                                               *)

\* A copy that no write has overtaken was read from a cache that was up to date, and
\* still is.
Fresh == (pc # "idle" /\ ~heldStale) => "Workload" \notin lag

\* Every Workload in sight has a uid that was given out.
Numbered ==
    \A w \in {server.Workload, cache.Workload, held} : w # None => w.uid \in 1 .. lastUid

\* The status is about the present version of the Workload.
Reporting(w) ==
    w # None /\ w.status.target # "Unset" /\ w.status.observedGeneration = w.generation

SameVersion(w, v) == w # None /\ w.uid = v.uid /\ w.spec = v.spec

\* Once the status has told of the present version, neither the cache nor a reconcile
\* knows another: nothing is left that could put an earlier one back.
Told ==
    Reporting(server.Workload) =>
        /\ SameVersion(cache.Workload, server.Workload)
        /\ pc # "idle" => SameVersion(held, server.Workload)

\* What a reconcile has written is there, unless somebody else has changed it.
Written ==
    pc \in {"service", "status"} =>
        \/ Content(server.Deployment) \in {None, [owner |-> held.uid,
                                                  template |-> Template(held.spec)]}
        \/ server.Deployment # None /\ server.Deployment.template = ForeignTemplate

PInv == IInv /\ NeverAhead /\ Fresh /\ Numbered /\ Told /\ Written

LEMMA InitPInv == Init => PInv
<1> SUFFICES ASSUME Init PROVE PInv
  OBVIOUS
<1>1. IInv BY InitIInv
<1>2. NeverAhead /\ Fresh /\ Numbered /\ Told /\ Written
  BY DEF Init, NeverAhead, Fresh, Numbered, Told, Written, Reporting
<1> QED BY <1>1, <1>2 DEF PInv

--------------------------------------------------------------------------------
(* The kinds of steps.                                                          *)

WorkloadLeft ==
    /\ server'.Workload = server.Workload /\ cache'.Workload = cache.Workload
    /\ ("Workload" \in lag') = ("Workload" \in lag)
    /\ lastUid' = lastUid

DeploymentLeft == Content(server'.Deployment) = Content(server.Deployment)

CopyLeft    == held' = held /\ heldStale' = heldStale /\ (pc' = "idle") = (pc = "idle")
CopyDropped == held' = None /\ pc' = "idle"

NothingNewWritten == pc' \in {"service", "status"} => pc \in {"service", "status"}

\* A preflight, a Service write, a retry, somebody else's write of what the promise
\* does not see, ...
Unseen ==
    WorkloadLeft /\ DeploymentLeft /\ (CopyLeft \/ CopyDropped) /\ NothingNewWritten

\* A reconcile begins.
Copied ==
    /\ WorkloadLeft /\ DeploymentLeft
    /\ pc = "idle" /\ held' = cache.Workload /\ heldStale' = ("Workload" \in lag)
    /\ pc' \notin {"service", "status"}

\* A reconcile writes the Deployment.
Ran ==
    /\ WorkloadLeft /\ CopyLeft /\ pc = "deployment"
    /\ server.Deployment # None => server.Deployment.owner # OtherController
    /\ Content(server'.Deployment) = [owner |-> held.uid, template |-> Template(held.spec)]

\* Somebody else makes the Deployment something else, or it goes, at the latest with
\* the Workload that controlled it.
Meddled ==
    /\ WorkloadLeft /\ CopyLeft /\ pc' = pc
    /\ server'.Deployment # None => server'.Deployment.template = ForeignTemplate
    /\ \/ "deployment" \in Disturbances
       \/ server.Deployment # None /\ ~WorkloadLives(server.Deployment.owner)

\* A reconcile writes the status.
Sent ==
    /\ CopyDropped /\ pc # "idle" /\ ~heldStale
    /\ cache'.Workload = cache.Workload /\ lastUid' = lastUid /\ DeploymentLeft
    /\ \E status :
        /\ \/ \E reason \in Reasons : status = Reported(held, reason)
           \/ pc = "status" /\ \E available \in BOOLEAN : status = Applied(held, available)
        /\ server'.Workload = [held EXCEPT !.status = status]

\* Users write the Workload, under whatever reconcile is going on.
Overtaken ==
    /\ cache'.Workload = cache.Workload /\ DeploymentLeft
    /\ held' = held /\ pc' = pc /\ (pc # "idle" => heldStale')

Created ==
    /\ Overtaken
    /\ server.Workload = None /\ lastUid' = lastUid + 1
    /\ \E spec \in Specs :
        server'.Workload = [uid |-> lastUid', generation |-> 1, spec |-> spec,
                            status |-> EmptyStatus]

Revised ==
    /\ Overtaken
    /\ server.Workload # None /\ lastUid' = lastUid
    /\ \E spec \in Specs :
        server'.Workload = [server.Workload EXCEPT
                                !.spec = spec, !.generation = server.Workload.generation + 1]

Withdrawn ==
    /\ Overtaken
    /\ server.Workload # None /\ server'.Workload = None /\ lastUid' = lastUid

\* The cache comes to show the Workload that is there.
CaughtUp ==
    /\ server'.Workload = server.Workload /\ DeploymentLeft /\ lastUid' = lastUid
    /\ cache'.Workload = server.Workload /\ "Workload" \notin lag'
    /\ (CopyLeft /\ pc' = pc) \/ CopyDropped

\* What a write does to what is there.
LEMMA StoreEffect ==
    ASSUME IInv, NEW kind \in Kinds, NEW object, Store(kind, object)
    PROVE  /\ server'[kind] = object /\ cache' = cache
           /\ \A k \in Kinds \ {kind} : server'[k] = server[k] /\ (k \in lag') = (k \in lag)
BY DEF Store, IInv, TypeOK, Objects, Kinds

LEMMA WriteOtherKind ==
    ASSUME IInv, NEW kind \in {"Deployment", "Service"}, NEW object, Write(kind, object),
           lastUid' = lastUid, held' = held, pc' = pc \/ (pc # "idle" /\ pc' # "idle")
    PROVE  WorkloadLeft /\ CopyLeft
<1>1. Store(kind, object) /\ heldStale' = heldStale
  BY DEF Write, IInv, TypeOK
<1>2. cache' = cache /\ server'.Workload = server.Workload
      /\ ("Workload" \in lag') = ("Workload" \in lag)
  BY <1>1, StoreEffect DEF Kinds
<1> QED BY <1>1, <1>2 DEF WorkloadLeft, CopyLeft

LEMMA ObjectTypes ==
    ASSUME IInv
    PROVE  /\ server.Workload \in {None} \cup Workloads
           /\ server.Deployment \in {None} \cup Deployments
           /\ server.Service \in {None} \cup Services
           /\ cache.Workload \in {None} \cup Workloads
           /\ pc # "idle" => held \in Workloads
BY DEF IInv, TypeOK, Coherent, Objects

LEMMA PreflightKinds ==
    ASSUME IInv,
           BeginAbsent \/ Begin \/ CheckPlacement \/ CheckDependencies \/ CheckOwnership
    PROVE  Unseen \/ Copied
<1> USE DEF WorkloadLeft, DeploymentLeft, CopyLeft, NothingNewWritten, objects, world, reconciler
<1>1. CASE BeginAbsent
  BY <1>1 DEF BeginAbsent, Unseen
<1>2. CASE Begin
  <2>1. pc' \in {"dependencies", "placement"} BY <1>2 DEF Begin
  <2> QED BY <1>2, <2>1 DEF Begin, Copied
<1>3. CASE CheckPlacement \/ CheckDependencies \/ CheckOwnership
  <2>1. /\ NoWrite /\ lastUid' = lastUid
        /\ pc \in {"placement", "dependencies", "ownership"}
    BY <1>3 DEF CheckPlacement, CheckDependencies, CheckOwnership, Step
  <2>2. \/ \E step \in {"dependencies", "ownership", "deployment"} : Goto(step)
        \/ \E reason : StopWith(reason)
    BY <1>3 DEF CheckPlacement, CheckDependencies, CheckOwnership
  <2>3. held' = held /\ pc' \in {"dependencies", "ownership", "deployment", "report"}
    BY <2>2 DEF Goto, StopWith
  <2> QED BY <2>1, <2>3 DEF NoWrite, Unseen
<1> QED BY <1>1, <1>2, <1>3

\* A reconcile that gives up leaves everything to the next one.
LEMMA FailIsUnseen ==
    ASSUME Fail, lastUid' = lastUid PROVE Unseen
BY DEF Fail, Finish, objects, Unseen, WorkloadLeft, DeploymentLeft, CopyDropped, NothingNewWritten

LEMMA DeploymentApplyKinds ==
    ASSUME IInv, ApplyDeployment
    PROVE  Unseen \/ Ran
<1>1. pc = "deployment" /\ lastUid' = lastUid /\ held \in Workloads
  BY ObjectTypes DEF ApplyDeployment, Step
<1>2. CASE Fail
  BY <1>1, <1>2, FailIsUnseen
<1>3. CASE ~Fail
  <2> DEFINE object == [owner |-> held.uid, template |-> Template(held.spec),
                        available |-> cache.Deployment # None /\ cache.Deployment.available]
  <2>1. ~CreateOrUpdateFails("Deployment") /\ Write("Deployment", object) /\ Goto("service")
    BY <1>3 DEF ApplyDeployment
  <2>2. cache.Deployment # None => cache.Deployment.available \in BOOLEAN
    BY DEF IInv, TypeOK, Objects, Deployments
  <2>3. object \in Deployments
    BY <1>1, <2>2, TemplateType DEF Workloads, Deployments, Owners
  <2>4. object # None /\ object.owner = held.uid /\ object.template = Template(held.spec)
    BY <2>3, ObjectAssumption
  <2> HIDE DEF object
  <2>5. pc' = "service" /\ held' = held
    BY <2>1 DEF Goto
  <2>6. WorkloadLeft /\ CopyLeft
    BY <1>1, <2>1, <2>5, WriteOtherKind
  <2>7. server'.Deployment = object
    BY <2>1, StoreEffect DEF Write, Kinds
  <2>8. server.Deployment # None => server.Deployment.owner # OtherController
    BY <2>1, CreateOrUpdateSparesOthers
  <2> QED BY <1>1, <2>4, <2>6, <2>7, <2>8 DEF Ran, Content
<1> QED BY <1>2, <1>3

LEMMA ServiceApplyKinds ==
    ASSUME IInv, ApplyService \/ DeleteService
    PROVE  Unseen
<1>1. pc = "service" /\ lastUid' = lastUid
  BY DEF ApplyService, DeleteService, Step
<1>2. CASE Fail
  BY <1>1, <1>2, FailIsUnseen
<1>3. CASE ~Fail
  <2>1. Goto("status") /\ (NoWrite \/ \E object : Write("Service", object))
    BY <1>3 DEF ApplyService, DeleteService
  <2>2. pc' = "status" /\ held' = held
    BY <2>1 DEF Goto
  <2>3. CASE NoWrite
    BY <1>1, <2>2, <2>3
    DEF NoWrite, objects, Unseen, WorkloadLeft, DeploymentLeft, CopyLeft, NothingNewWritten
  <2>4. ASSUME NEW object, Write("Service", object) PROVE Unseen
    <3>1. WorkloadLeft /\ CopyLeft
      BY <1>1, <2>2, <2>4, WriteOtherKind
    <3>2. server'.Deployment = server.Deployment
      BY <2>4, StoreEffect DEF Write, Kinds
    <3> QED BY <1>1, <3>1, <3>2 DEF Unseen, DeploymentLeft, NothingNewWritten
  <2> QED BY <2>1, <2>3, <2>4
<1> QED BY <1>2, <1>3

LEMMA UpdateStatusKinds ==
    ASSUME IInv, pc # "idle", lastUid' = lastUid, NEW status, NEW requeue,
           UpdateStatus(status, requeue),
           \/ \E reason \in Reasons : status = Reported(held, reason)
           \/ pc = "status" /\ \E available \in BOOLEAN : status = Applied(held, available)
    PROVE  Unseen \/ Sent
<1>1. CopyDropped
  BY DEF UpdateStatus, Finish, CopyDropped
<1>2. CASE UNCHANGED objects
  BY <1>1, <1>2
  DEF objects, Unseen, WorkloadLeft, DeploymentLeft, CopyDropped, NothingNewWritten
<1>3. CASE ~heldStale /\ Store("Workload", [held EXCEPT !.status = status])
  <2>1. /\ server'.Workload = [held EXCEPT !.status = status] /\ cache' = cache
        /\ server'.Deployment = server.Deployment
    BY <1>3, StoreEffect DEF Kinds
  <2> QED BY <1>1, <1>3, <2>1 DEF Sent, DeploymentLeft
<1> QED BY <1>2, <1>3 DEF UpdateStatus

LEMMA ReportKinds ==
    ASSUME IInv, ReportVerdict \/ ReportApplied
    PROVE  Unseen \/ Sent
<1>1. lastUid' = lastUid
  BY DEF ReportVerdict, ReportApplied, Step
<1>2. CASE ReportVerdict
  <2>1. pc = "report" BY <1>2 DEF ReportVerdict, Step
  <2>2. verdict \in Reasons BY <2>1 DEF IInv, TypeOK
  <2> QED BY <1>1, <1>2, <2>1, <2>2, UpdateStatusKinds DEF ReportVerdict
<1>3. CASE ReportApplied
  <2>1. pc = "status" BY <1>3 DEF ReportApplied, Step
  <2>2. CASE Fail BY <1>1, <2>2, FailIsUnseen
  <2>3. CASE ~Fail
    <3>1. /\ cache.Deployment # None
          /\ UpdateStatus(Applied(held, cache.Deployment.available), FALSE)
      BY <1>3, <2>3 DEF ReportApplied
    <3>2. cache.Deployment.available \in BOOLEAN
      BY <3>1 DEF IInv, TypeOK, Objects, Deployments
    <3> QED BY <1>1, <2>1, <3>1, <3>2, UpdateStatusKinds
  <2> QED BY <2>2, <2>3
<1> QED BY <1>2, <1>3

LEMMA QueueKinds ==
    ASSUME IInv, TimerFires \/ Resync \/ \E kind \in Kinds : Sync(kind)
    PROVE  Unseen \/ CaughtUp
<1> USE DEF WorkloadLeft, DeploymentLeft, CopyLeft, NothingNewWritten, objects, reconciler
<1>1. CASE TimerFires \/ Resync
  BY <1>1 DEF TimerFires, Resync, Unseen
<1>2. CASE Sync("Workload")
  <2>1. /\ cache'.Workload = server.Workload /\ "Workload" \notin lag'
        /\ server' = server /\ lastUid' = lastUid /\ UNCHANGED reconciler
    BY <1>2 DEF Sync, IInv, TypeOK, Objects
  <2> QED BY <2>1 DEF CaughtUp
<1>3. ASSUME NEW kind \in {"Deployment", "Service"}, Sync(kind) PROVE Unseen
  <2>1. /\ cache'.Workload = cache.Workload /\ ("Workload" \in lag') = ("Workload" \in lag)
        /\ server' = server /\ lastUid' = lastUid /\ UNCHANGED reconciler
    BY <1>3 DEF Sync, IInv, TypeOK, Objects
  <2> QED BY <2>1 DEF Unseen
<1> QED BY <1>1, <1>2, <1>3 DEF Kinds

LEMMA UserKinds ==
    ASSUME IInv,
           \/ \E spec \in Specs : CreateWorkload(spec) \/ EditWorkload(spec)
           \/ DeleteWorkload
    PROVE  Created \/ Revised \/ Withdrawn
<1>1. ASSUME NEW object, Write("Workload", object), object # server.Workload,
             pc' = pc, held' = held
      PROVE  Overtaken /\ server'.Workload = object
  <2>1. Store("Workload", object) /\ (pc # "idle" => heldStale')
    BY <1>1 DEF Write
  <2>2. /\ server'.Workload = object /\ cache' = cache
        /\ server'.Deployment = server.Deployment
    BY <2>1, StoreEffect DEF Kinds
  <2> QED BY <1>1, <2>1, <2>2 DEF Overtaken, DeploymentLeft
<1>2. ASSUME NEW spec \in Specs, CreateWorkload(spec) PROVE Created
  <2> DEFINE object == [uid |-> lastUid', generation |-> 1, spec |-> spec,
                        status |-> EmptyStatus]
  <2>1. /\ server.Workload = None /\ lastUid' = lastUid + 1 /\ pc' = pc /\ held' = held
        /\ Write("Workload", object)
    BY <1>2 DEF CreateWorkload
  <2>2. object # None
    <3>1. [c \in ConditionTypes |-> "Absent"] \in [ConditionTypes -> ConditionReasons]
      BY DEF ConditionReasons
    <3>2. EmptyStatus \in Status
      BY <3>1 DEF EmptyStatus, Status
    <3>3. object \in Workloads
      BY <2>1, <3>2 DEF Workloads, IInv, TypeOK
    <3> QED BY <3>3, ObjectAssumption
  <2>3. Overtaken /\ server'.Workload = object
    <3> HIDE DEF object
    <3> QED BY <1>1, <2>1, <2>2
  <2> QED BY <2>1, <2>3 DEF Created
<1>3. ASSUME NEW spec \in Specs, EditWorkload(spec) PROVE Revised
  <2> DEFINE object == [server.Workload EXCEPT !.spec = spec,
                                               !.generation = server.Workload.generation + 1]
  <2>1. /\ server.Workload \in Workloads /\ server.Workload.spec # spec
        /\ lastUid' = lastUid /\ pc' = pc /\ held' = held
    BY <1>3, ObjectTypes DEF EditWorkload
  <2>2. Write("Workload", object)
    BY <1>3, <2>1 DEF EditWorkload, Workloads
  <2>3. object.spec = spec
    BY <2>1 DEF Workloads
  <2>4. Overtaken /\ server'.Workload = object
    <3> HIDE DEF object
    <3> QED BY <1>1, <2>1, <2>2, <2>3
  <2> QED BY <2>1, <2>4, ObjectAssumption DEF Revised
<1>4. CASE DeleteWorkload
  <2>1. /\ server.Workload # None /\ Write("Workload", None)
        /\ lastUid' = lastUid /\ pc' = pc /\ held' = held
    BY <1>4 DEF DeleteWorkload
  <2> QED BY <1>1, <2>1 DEF Withdrawn
<1> QED BY <1>2, <1>3, <1>4

LEMMA RuntimeEditKinds ==
    ASSUME IInv,
           \/ \E owner \in ForeignOwners(server.Deployment), available \in BOOLEAN :
                DisturbDeployment(owner, available)
           \/ DeleteDeployment
           \/ \E owner \in ForeignOwners(server.Service) : DisturbService(owner)
           \/ RemoveService
           \/ RolloutCompletes \/ RolloutFails
           \/ \E kind \in Kinds : GarbageCollect(kind)
    PROVE  Unseen \/ Meddled
<1>1. ASSUME NEW object, Write("Service", object),
             lastUid' = lastUid, pc' = pc, held' = held
      PROVE  Unseen
  <2>1. WorkloadLeft /\ CopyLeft
    BY <1>1, WriteOtherKind
  <2>2. server'.Deployment = server.Deployment
    BY <1>1, StoreEffect DEF Write, Kinds
  <2> QED BY <1>1, <2>1, <2>2 DEF Unseen, DeploymentLeft, NothingNewWritten
<1>2. ASSUME NEW object, Write("Deployment", object),
             object # None => object.template = ForeignTemplate,
             \/ "deployment" \in Disturbances
             \/ server.Deployment # None /\ ~WorkloadLives(server.Deployment.owner),
             lastUid' = lastUid, pc' = pc, held' = held
      PROVE  Meddled
  <2>1. WorkloadLeft /\ CopyLeft
    BY <1>2, WriteOtherKind
  <2>2. server'.Deployment = object
    BY <1>2, StoreEffect DEF Write, Kinds
  <2> QED BY <1>2, <2>1, <2>2 DEF Meddled
<1>3. ASSUME NEW available \in BOOLEAN, SetAvailable(available) PROVE Unseen
  <2> DEFINE object == [server.Deployment EXCEPT !.available = available]
  <2>1. /\ Write("Deployment", object) /\ server.Deployment # None
        /\ lastUid' = lastUid /\ pc' = pc /\ held' = held
    BY <1>3 DEF SetAvailable
  <2>2. object \in Deployments /\ server.Deployment \in Deployments
    BY <2>1, ObjectTypes DEF Deployments
  <2>3. object # None /\ object.owner = server.Deployment.owner
        /\ object.template = server.Deployment.template
    BY <2>2, ObjectAssumption DEF Deployments
  <2> HIDE DEF object
  <2>4. WorkloadLeft /\ CopyLeft
    BY <2>1, WriteOtherKind
  <2>5. server'.Deployment = object
    BY <2>1, StoreEffect DEF Write, Kinds
  <2> QED BY <2>1, <2>3, <2>4, <2>5 DEF Unseen, DeploymentLeft, Content, NothingNewWritten
<1>4. CASE \E owner \in ForeignOwners(server.Deployment), available \in BOOLEAN :
              DisturbDeployment(owner, available)
  BY <1>2, <1>4 DEF DisturbDeployment, Disturb
<1>5. CASE DeleteDeployment
  BY <1>2, <1>5 DEF DeleteDeployment, Disturb
<1>6. CASE (\E owner \in ForeignOwners(server.Service) : DisturbService(owner)) \/ RemoveService
  BY <1>1, <1>6 DEF DisturbService, RemoveService
<1>7. CASE RolloutCompletes \/ RolloutFails
  BY <1>3, <1>7 DEF RolloutCompletes, RolloutFails
<1>8. CASE \E kind \in Kinds : GarbageCollect(kind)
  BY <1>1, <1>2, <1>8 DEF GarbageCollect, OwnedByName, Kinds
<1> QED BY <1>4, <1>5, <1>6, <1>7, <1>8

LEMMA OtherKinds ==
    ASSUME IInv,
           \/ \E i \in Infras : ChangeInfrastructure(i)
           \/ \E d \in Secrets \cup ConfigMaps : AddDependency(d) \/ RemoveDependency(d)
           \/ ApiCallFails \/ Restart \/ UNCHANGED vars
    PROVE  Unseen \/ CaughtUp
<1> USE DEF WorkloadLeft, DeploymentLeft, CopyLeft, NothingNewWritten, objects, reconciler
<1>1. CASE \/ \E i \in Infras : ChangeInfrastructure(i)
           \/ \E d \in Secrets \cup ConfigMaps : AddDependency(d) \/ RemoveDependency(d)
  BY <1>1 DEF ChangeInfrastructure, AddDependency, RemoveDependency, Unseen
<1>2. CASE ApiCallFails
  BY <1>2, FailIsUnseen DEF ApiCallFails
<1>3. CASE Restart
  BY <1>3 DEF Restart, CaughtUp, CopyDropped
<1>4. CASE UNCHANGED vars
  BY <1>4 DEF vars, Unseen
<1> QED BY <1>1, <1>2, <1>3, <1>4

\* There are no other kinds of steps.
LEMMA StepKinds ==
    IInv /\ [Next]_vars =>
        \/ Unseen \/ Copied \/ Ran \/ Meddled \/ Sent
        \/ Created \/ Revised \/ Withdrawn \/ CaughtUp
BY PreflightKinds, DeploymentApplyKinds, ServiceApplyKinds, ReportKinds, QueueKinds,
   UserKinds, RuntimeEditKinds, OtherKinds
DEF Next, Reconcile, Environment

--------------------------------------------------------------------------------
(* Every kind of step preserves the invariant.                                  *)

LEMMA FreshPreserved ==
    ASSUME PInv, Unseen \/ Copied \/ Ran \/ Meddled \/ Sent
                     \/ Created \/ Revised \/ Withdrawn \/ CaughtUp
    PROVE  Fresh'
BY DEF PInv, Fresh, Unseen, Copied, Ran, Meddled, Sent, Created, Revised, Withdrawn, CaughtUp,
       WorkloadLeft, CopyLeft, CopyDropped, Overtaken

LEMMA NumberedPreserved ==
    ASSUME PInv, Unseen \/ Copied \/ Ran \/ Meddled \/ Sent
                     \/ Created \/ Revised \/ Withdrawn \/ CaughtUp
    PROVE  Numbered'
<1> USE DEF PInv, Numbered
<1>1. lastUid \in Nat
  BY DEF IInv, TypeOK
<1>2. CASE Unseen \/ Copied \/ Ran \/ Meddled \/ CaughtUp
  BY <1>2 DEF Unseen, Copied, Ran, Meddled, CaughtUp, WorkloadLeft, CopyLeft, CopyDropped
<1>3. CASE Sent
  <2>1. held \in Workloads
    BY <1>3, ObjectTypes DEF Sent
  <2>2. held # None /\ server'.Workload.uid = held.uid
    BY <1>3, <2>1, ObjectAssumption DEF Sent, Workloads
  <2> QED BY <1>3, <2>2 DEF Sent, CopyDropped
<1>4. CASE Created
  <2>1. server'.Workload.uid = lastUid + 1 /\ lastUid' = lastUid + 1
    BY <1>4 DEF Created
  <2> QED BY <1>1, <1>4, <2>1 DEF Created, Overtaken
<1>5. CASE Revised
  <2>1. server.Workload \in Workloads
    BY <1>5, ObjectTypes DEF Revised
  <2>2. server'.Workload.uid = server.Workload.uid
    BY <1>5, <2>1 DEF Revised, Workloads
  <2> QED BY <1>5, <2>2 DEF Revised, Overtaken
<1>6. CASE Withdrawn
  BY <1>6 DEF Withdrawn, Overtaken
<1> QED BY <1>2, <1>3, <1>4, <1>5, <1>6

\* An edit makes a version that no status has told of.
LEMMA RevisedIsUntold ==
    ASSUME PInv, Revised
    PROVE  server'.Workload.status.observedGeneration # server'.Workload.generation
<1>1. server.Workload \in Workloads /\ server.Workload # None
  BY ObjectTypes DEF PInv, Revised
<1>2. /\ server'.Workload.status = server.Workload.status
      /\ server'.Workload.generation = server.Workload.generation + 1
  BY <1>1 DEF Revised, Workloads
<1>3. server.Workload.status.observedGeneration <= server.Workload.generation
  BY <1>1 DEF PInv, NeverAhead
<1>4. server.Workload.generation \in Nat /\ server.Workload.status.observedGeneration \in Nat
  BY <1>1 DEF Workloads, Status
<1> QED BY <1>2, <1>3, <1>4

LEMMA ToldPreserved ==
    ASSUME PInv, Unseen \/ Copied \/ Ran \/ Meddled \/ Sent
                     \/ Created \/ Revised \/ Withdrawn \/ CaughtUp
    PROVE  Told'
<1>1. CASE Unseen \/ Copied \/ Ran \/ Meddled
  BY <1>1 DEF PInv, Told, Unseen, Copied, Ran, Meddled, WorkloadLeft, CopyLeft, CopyDropped
<1>2. CASE CaughtUp
  <2>1. Reporting(server'.Workload) => SameVersion(cache'.Workload, server'.Workload)
    BY <1>2 DEF CaughtUp, Reporting, SameVersion
  <2> QED BY <1>2, <2>1 DEF PInv, Told, CaughtUp, CopyLeft, CopyDropped
<1>3. CASE Sent
  <2>1. held \in Workloads /\ held = server.Workload /\ cache.Workload = held
    BY <1>3, ObjectTypes DEF Sent, PInv, IInv, Coherent, Fresh, Kinds
  <2>2. /\ cache'.Workload = held
        /\ server'.Workload.uid = held.uid /\ server'.Workload.spec = held.spec
    BY <1>3, <2>1 DEF Sent, Workloads
  <2>3. SameVersion(cache'.Workload, server'.Workload)
    BY <2>1, <2>2, ObjectAssumption DEF SameVersion
  <2> QED BY <1>3, <2>3 DEF Told, Sent, CopyDropped
<1>4. CASE Created
  BY <1>4 DEF Created, Told, Reporting, EmptyStatus
<1>5. CASE Revised
  BY <1>5, RevisedIsUntold DEF Told, Reporting
<1>6. CASE Withdrawn
  BY <1>6 DEF Withdrawn, Told, Reporting
<1> QED BY <1>1, <1>2, <1>3, <1>4, <1>5, <1>6

LEMMA WrittenPreserved ==
    ASSUME PInv, Unseen \/ Copied \/ Ran \/ Meddled \/ Sent
                     \/ Created \/ Revised \/ Withdrawn \/ CaughtUp
    PROVE  Written'
<1> USE DEF PInv, Written
<1>1. CASE Unseen \/ CaughtUp
  BY <1>1 DEF Unseen, CaughtUp, DeploymentLeft, CopyLeft, CopyDropped, NothingNewWritten, Content
<1>2. CASE Copied
  BY <1>2 DEF Copied
<1>3. CASE Ran
  BY <1>3 DEF Ran, CopyLeft
<1>4. CASE Meddled
  BY <1>4 DEF Meddled, Content
<1>5. CASE Sent
  BY <1>5 DEF Sent, CopyDropped
<1>6. CASE Created \/ Revised \/ Withdrawn
  BY <1>6 DEF Created, Revised, Withdrawn, Overtaken, DeploymentLeft, Content
<1> QED BY <1>1, <1>2, <1>3, <1>4, <1>5, <1>6

LEMMA StepPreservesPInv == PInv /\ [Next]_vars => PInv'
<1> SUFFICES ASSUME PInv, [Next]_vars PROVE PInv'
  OBVIOUS
<1>1. IInv' /\ NeverAhead'
  BY StepPreserves, NeverAheadPreserved DEF PInv
<1>2. \/ Unseen \/ Copied \/ Ran \/ Meddled \/ Sent
      \/ Created \/ Revised \/ Withdrawn \/ CaughtUp
  BY StepKinds DEF PInv
<1>3. Fresh' /\ Numbered' /\ Told' /\ Written'
  BY <1>2, FreshPreserved, NumberedPreserved, ToldPreserved, WrittenPreserved
<1> QED BY <1>1, <1>3 DEF PInv

--------------------------------------------------------------------------------
(* The refinement.                                                              *)

\* What the promise sees of a Workload whose status is st.
LEMMA StatusSeen ==
    ASSUME NEW w \in Workloads, NEW st \in Status
    PROVE  LET v == [w EXCEPT !.status = st]
           IN  /\ Declared(v) = Declared(w)
               /\ ReportOf(v) = IF st.target = "Unset" THEN None
                                ELSE [generation |-> st.observedGeneration,
                                      applied    |-> st.target \in {"Reconciling", "Available"}]
<1> DEFINE v == [w EXCEPT !.status = st]
<1>1. /\ v \in Workloads /\ v.status = st /\ v.uid = w.uid
      /\ v.generation = w.generation /\ v.spec = w.spec
  BY DEF Workloads
<1> QED BY <1>1, ObjectAssumption DEF Declared, ReportOf

\* A status is reported as an application only by what follows the two writes.
LEMMA StatusReports ==
    ASSUME NEW w \in Workloads, NEW st,
           \/ \E reason \in Reasons : st = Reported(w, reason)
           \/ pc = "status" /\ \E available \in BOOLEAN : st = Applied(w, available)
    PROVE  /\ st \in Status /\ st.target # "Unset" /\ st.observedGeneration = w.generation
           /\ st.target \in {"Reconciling", "Available"} => pc = "status"
<1>1. w.status \in Status
  BY DEF Workloads
<1>2. CASE \E reason \in Reasons : st = Reported(w, reason)
  <2>1. PICK reason \in Reasons : st = Reported(w, reason)
    BY <1>2
  <2>2. /\ st.observedGeneration = w.generation
        /\ st.target = IF reason \in PendingReasons THEN "Pending" ELSE "Degraded"
    BY <1>1, <2>1 DEF Reported, Status
  <2>3. st \in Status
    BY <2>1, ReportedType
  <2> QED BY <2>2, <2>3
<1>3. CASE pc = "status" /\ \E available \in BOOLEAN : st = Applied(w, available)
  BY <1>1, <1>3, AppliedType DEF Applied, Status
<1> QED BY <1>2, <1>3

LEMMA InitKeepsThePromise == Init => Promise!Init
BY DEF Init, Promise!Init, Declared, ReportOf, Content

LEMMA StutterKeepsThePromise ==
    ASSUME Unseen \/ Copied \/ CaughtUp PROVE UNCHANGED Promise!vars
BY DEF Unseen, Copied, CaughtUp, WorkloadLeft, DeploymentLeft, Promise!vars

LEMMA RanKeepsThePromise ==
    ASSUME PInv, Ran PROVE Promise!Next
<1>1. held \in Workloads
  BY ObjectTypes DEF PInv, Ran
<1>2. held.uid \in 1 .. lastUid /\ Template(held.spec) \in Templates
  BY <1>1, ObjectAssumption, TemplateType DEF PInv, Numbered, Workloads
<1>3. Promise!Current => /\ held.uid = Declared(server.Workload).uid
                         /\ Template(held.spec) = Declared(server.Workload).asks
  <2> SUFFICES ASSUME Promise!Current
               PROVE  /\ held.uid = Declared(server.Workload).uid
                      /\ Template(held.spec) = Declared(server.Workload).asks
    OBVIOUS
  <2>1. server.Workload # None /\ server.Workload.status.target # "Unset"
    BY DEF Promise!Current, Declared, ReportOf
  <2>2. server.Workload.status.observedGeneration = server.Workload.generation
    BY <2>1 DEF Promise!Current, Declared, ReportOf
  <2>3. SameVersion(held, server.Workload)
    BY <2>1, <2>2 DEF PInv, Told, Reporting, Ran
  <2> QED BY <2>1, <2>3 DEF SameVersion, Declared
<1>4. Content(server.Deployment) # None => Content(server.Deployment).owner # OtherController
  BY DEF Ran, Content
<1>5. Promise!Run(held.uid, Template(held.spec))
  BY <1>3, <1>4 DEF Promise!Run, Ran, WorkloadLeft
<1> QED BY <1>2, <1>5 DEF Promise!Next

LEMMA MeddledKeepsThePromise ==
    ASSUME IInv', Meddled PROVE Promise!Next
<1>1. server'.Deployment \in {None} \cup Deployments
  BY DEF IInv, TypeOK, Objects
<1>2. Content(server'.Deployment) \in {None} \cup [owner : Owners, template : {ForeignTemplate}]
  BY <1>1 DEF Meddled, Content, Deployments
<1>3. Promise!Meddle
  BY <1>2 DEF Promise!Meddle, Meddled, WorkloadLeft
<1> QED BY <1>3 DEF Promise!Next

\* What the status tells of an application is what the reconcile has written, and
\* that is there.
LEMMA SentKeepsThePromise ==
    ASSUME PInv, Sent PROVE Promise!Next
<1>1. held \in Workloads /\ held = server.Workload /\ held # None
  BY ObjectTypes, ObjectAssumption DEF Sent, PInv, IInv, Coherent
<1>2. PICK st : /\ \/ \E reason \in Reasons : st = Reported(held, reason)
                   \/ pc = "status" /\ \E available \in BOOLEAN : st = Applied(held, available)
                /\ server'.Workload = [held EXCEPT !.status = st]
  BY DEF Sent
<1> DEFINE applied == st.target \in {"Reconciling", "Available"}
<1>3. /\ st \in Status /\ st.target # "Unset" /\ st.observedGeneration = held.generation
      /\ applied => pc = "status"
  BY <1>1, <1>2, StatusReports
<1>4. /\ Declared(server'.Workload) = Declared(server.Workload)
      /\ ReportOf(server'.Workload) = [generation |-> held.generation, applied |-> applied]
  BY <1>1, <1>2, <1>3, StatusSeen
<1>5. Declared(server.Workload) = [uid |-> held.uid, generation |-> held.generation,
                                   asks |-> Template(held.spec)]
  BY <1>1 DEF Declared
<1>6. Declared(server.Workload) # None
  <2>1. held.uid \in Nat /\ held.generation \in Nat /\ Template(held.spec) \in Templates
    BY <1>1, TemplateType DEF Workloads
  <2> QED BY <1>5, <2>1, PromiseAssumption
<1>7. applied => \/ Content(server.Deployment) = [owner |-> Declared(server.Workload).uid,
                                                  template |-> Declared(server.Workload).asks]
                 \/ Content(server.Deployment) = None
                 \/ Content(server.Deployment).template = ForeignTemplate
  BY <1>3, <1>5 DEF PInv, Written, Content
<1>8. lastUid' = lastUid /\ Content(server'.Deployment) = Content(server.Deployment)
  BY DEF Sent, DeploymentLeft
<1>9. Promise!Report(applied)
  <2> HIDE DEF applied
  <2> QED BY <1>4, <1>5, <1>6, <1>7, <1>8 DEF Promise!Report, Promise!RunsDeclared
<1>10. applied \in BOOLEAN
  OBVIOUS
<1> QED BY <1>9, <1>10 DEF Promise!Next

LEMMA UsersKeepThePromise ==
    ASSUME PInv, Created \/ Revised \/ Withdrawn PROVE Promise!Next
<1>1. lastUid \in Nat /\ server.Workload \in {None} \cup Workloads
  BY ObjectTypes DEF PInv, IInv, TypeOK
<1>2. Content(server'.Deployment) = Content(server.Deployment)
  BY DEF Created, Revised, Withdrawn, Overtaken, DeploymentLeft
<1>3. server.Workload # None => Declared(server.Workload) # None
  <2> SUFFICES ASSUME server.Workload # None PROVE Declared(server.Workload) # None
    OBVIOUS
  <2>1. /\ server.Workload.uid \in Nat /\ server.Workload.generation \in Nat
        /\ Template(server.Workload.spec) \in Templates
    BY <1>1, TemplateType DEF Workloads
  <2> QED BY <2>1, PromiseAssumption DEF Declared
<1>4. CASE Created
  <2>1. PICK spec \in Specs :
            server'.Workload = [uid |-> lastUid', generation |-> 1, spec |-> spec,
                                status |-> EmptyStatus]
    BY <1>4 DEF Created
  <2>2. /\ Declared(server.Workload) = None /\ ReportOf(server.Workload) = None
        /\ lastUid' = lastUid + 1
    BY <1>4 DEF Created, Declared, ReportOf
  <2>3. ReportOf(server'.Workload) = None
    BY <2>1 DEF ReportOf, EmptyStatus
  <2>4. server'.Workload # None
    <3>1. [c \in ConditionTypes |-> "Absent"] \in [ConditionTypes -> ConditionReasons]
      BY DEF ConditionReasons
    <3>2. EmptyStatus \in Status
      BY <3>1 DEF EmptyStatus, Status
    <3>3. server'.Workload \in Workloads
      BY <1>1, <2>1, <2>2, <3>2 DEF Workloads
    <3> QED BY <3>3, ObjectAssumption
  <2>5. Declared(server'.Workload) = [uid |-> lastUid', generation |-> 1, asks |-> Template(spec)]
    BY <2>1, <2>4 DEF Declared
  <2>6. Promise!Declare(Template(spec))
    BY <1>2, <2>2, <2>3, <2>5 DEF Promise!Declare
  <2> QED BY <2>6, TemplateType DEF Promise!Next
<1>5. CASE Revised
  <2>1. server.Workload \in Workloads /\ server.Workload # None
    BY <1>1, <1>5 DEF Revised
  <2>2. PICK spec \in Specs :
            server'.Workload = [server.Workload EXCEPT
                                    !.spec = spec, !.generation = server.Workload.generation + 1]
    BY <1>5 DEF Revised
  <2>3. /\ server'.Workload.uid = server.Workload.uid
        /\ server'.Workload.generation = server.Workload.generation + 1
        /\ server'.Workload.spec = spec
        /\ server'.Workload.status = server.Workload.status
        /\ server'.Workload # None
    <3>1. server.Workload.generation + 1 \in Nat
      BY <2>1 DEF Workloads
    <3>2. server'.Workload \in Workloads
      BY <2>1, <2>2, <3>1 DEF Workloads
    <3> QED BY <2>1, <2>2, <3>2, ObjectAssumption DEF Workloads
  <2>4. ReportOf(server'.Workload) = ReportOf(server.Workload)
    BY <2>1, <2>3 DEF ReportOf
  <2>5. Declared(server'.Workload) = [uid |-> server.Workload.uid,
                                      generation |-> server.Workload.generation + 1,
                                      asks |-> Template(spec)]
    BY <2>3 DEF Declared
  <2>6. Declared(server.Workload) = [uid |-> server.Workload.uid,
                                     generation |-> server.Workload.generation,
                                     asks |-> Template(server.Workload.spec)]
    BY <2>1 DEF Declared
  <2>7. lastUid' = lastUid
    BY <1>5 DEF Revised
  <2>8. Declared(server'.Workload) = [uid |-> Declared(server.Workload).uid,
                                      generation |-> Declared(server.Workload).generation + 1,
                                      asks |-> Template(spec)]
    BY <2>5, <2>6
  <2>9. Promise!Revise(Template(spec))
    BY <1>2, <1>3, <2>1, <2>4, <2>7, <2>8 DEF Promise!Revise
  <2> QED BY <2>9, TemplateType DEF Promise!Next
<1>6. CASE Withdrawn
  <2>1. /\ Declared(server'.Workload) = None /\ ReportOf(server'.Workload) = None
        /\ lastUid' = lastUid
    BY <1>6 DEF Withdrawn, Declared, ReportOf
  <2>2. Promise!Withdraw
    BY <1>2, <1>3, <1>6, <2>1 DEF Promise!Withdraw, Withdrawn
  <2> QED BY <2>2 DEF Promise!Next
<1> QED BY <1>4, <1>5, <1>6

LEMMA StepKeepsThePromise == PInv /\ [Next]_vars => [Promise!Next]_(Promise!vars)
<1> SUFFICES ASSUME PInv, [Next]_vars PROVE [Promise!Next]_(Promise!vars)
  OBVIOUS
<1>1. IInv'
  BY StepPreserves DEF PInv
<1>2. \/ Unseen \/ Copied \/ Ran \/ Meddled \/ Sent
      \/ Created \/ Revised \/ Withdrawn \/ CaughtUp
  BY StepKinds DEF PInv
<1> QED BY <1>1, <1>2, StutterKeepsThePromise, RanKeepsThePromise, MeddledKeepsThePromise,
           SentKeepsThePromise, UsersKeepThePromise

\* Whatever lags, conflicts, fails and restarts, every step of the controller and of
\* those around it is one the promise allows, or one it does not see: a reported
\* version is not undone by a reconcile that still works on an earlier one, and
\* no status claims an application that is not there.
THEOREM ImplementsThePromise == Spec => KeepsThePromise
<1>1. PInv /\ [Next]_vars => PInv'
  BY StepPreservesPInv
<1>2. Spec => []PInv
  BY <1>1, InitPInv, PTL DEF Spec
<1> QED BY <1>2, InitKeepsThePromise, StepKeepsThePromise, PTL DEF Spec, KeepsThePromise,
           Promise!Spec

================================================================================
