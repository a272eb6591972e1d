----------------------------- MODULE WorkloadProofs ----------------------------
(***************************************************************************)
(* Theorems about the Workload controller, for every set of specs,         *)
(* clusters, Federations and dependencies, and any number of disturbances. *)
(*                                                                         *)
(* Everything rests on one inductive invariant, IInv: the types, and what  *)
(* the resourceVersions guarantee (Coherent). Optimistic concurrency is    *)
(* what the properties need: a write only goes through if the copy it was  *)
(* computed from is still the object.                                      *)
(***************************************************************************)
EXTENDS WorkloadProperties, TLAPS

\* A cached object with a current resourceVersion is the server's, and so is a
\* reconcile's copy of the Workload that no write has made stale.
Coherent ==
    /\ \A kind \in Kinds : kind \notin lag => cache[kind] = server[kind]
    /\ pc # "idle" => held # None
    /\ (pc # "idle" /\ ~heldStale) => held = server.Workload

IInv == TypeOK /\ Coherent

--------------------------------------------------------------------------------
(* Types.                                                                       *)

LEMMA TemplateType ==
    ASSUME NEW spec \in Specs PROVE Template(spec) \in Templates
BY DEF Templates

LEMMA SpecType ==
    ASSUME NEW spec \in Specs
    PROVE  spec.image \in Images /\ spec.ports \in PortLists \cup {NoPorts}
BY ControllerAssumption DEF SpecShape

\* Whatever placement preflight stops a reconcile, its reason is one of Reasons.
LEMMA PlacementReasonType ==
    ASSUME NEW i, NEW ref, NEW policy
    PROVE  PlacementVerdict(i, Self, ref, policy) \in Reasons \cup {"Placed"}
BY DEF PlacementVerdict, IsFederationMember, IsTargetPolicyMatch, Reasons, PendingReasons,
       InvalidReferenceReasons

LEMMA SetConditionsType ==
    ASSUME NEW conditions \in [ConditionTypes -> ConditionReasons], NEW removed, NEW set,
           \A c \in DOMAIN set : set[c] \in ConditionReasons
    PROVE  SetConditions(conditions, removed, set) \in [ConditionTypes -> ConditionReasons]
BY DEF SetConditions, ConditionReasons

\* The two status functions return statuses.
LEMMA ReportedType ==
    ASSUME NEW w \in Workloads, NEW reason \in Reasons
    PROVE  Reported(w, reason) \in Status
<1> DEFINE target == IF reason \in PendingReasons THEN "Pending" ELSE "Degraded"
           conditions == SetConditions(w.status.conditions, ConditionTypes \ {target},
                                       [c \in {target} |-> reason])
<1>1. w.status \in Status /\ w.generation \in Nat
  BY DEF Workloads
<1>2. conditions \in [ConditionTypes -> ConditionReasons]
  BY <1>1, SetConditionsType DEF Status, ConditionReasons
<1>3. Reported(w, reason) = [w.status EXCEPT !.observedGeneration = w.generation,
                                             !.target = target, !.conditions = conditions]
  BY DEF Reported
<1> QED BY <1>1, <1>2, <1>3 DEF Status

LEMMA AppliedType ==
    ASSUME NEW w \in Workloads, NEW available \in BOOLEAN
    PROVE  Applied(w, available) \in Status
<1> DEFINE set == [RuntimeObjectsApplied |-> "ApplySucceeded",
                   Available |-> IF available THEN "DeploymentAvailable"
                                              ELSE "DeploymentReconciling"]
           conditions == SetConditions(w.status.conditions, {"Pending", "Degraded"}, set)
<1>1. w.status \in Status /\ w.generation \in Nat /\ w.spec \in Specs
  BY DEF Workloads
<1>2. \A c \in DOMAIN set : set[c] \in ConditionReasons
  BY DEF ConditionReasons
<1>3. conditions \in [ConditionTypes -> ConditionReasons]
  BY <1>1, <1>2, SetConditionsType DEF Status
<1>4. Applied(w, available) =
        [w.status EXCEPT !.observedGeneration = w.generation,
                         !.target = IF available THEN "Available" ELSE "Reconciling",
                         !.activeImage = w.spec.image, !.conditions = conditions]
  BY DEF Applied
<1> QED BY <1>1, <1>3, <1>4, SpecType DEF Status

--------------------------------------------------------------------------------
(* Every step preserves IInv.                                                   *)

\* A write of a well-typed object preserves the types and the coherence of the
\* cache, and marks a running reconcile's copy when it is overtaken.
LEMMA StorePreserves ==
    ASSUME IInv, NEW kind \in Kinds, NEW object,
           [server EXCEPT ![kind] = object] \in Objects, Store(kind, object)
    PROVE  /\ server' \in Objects /\ cache' = cache
           /\ lag' \subseteq Kinds /\ events' \subseteq lag'
           /\ \A k \in Kinds : k \notin lag' => cache'[k] = server'[k]
           /\ (kind # "Workload" \/ object = server[kind]) => server'.Workload = server.Workload
BY DEF IInv, TypeOK, Coherent, Store, Kinds, Objects

LEMMA WritePreserves ==
    ASSUME IInv, NEW kind \in Kinds, NEW object,
           [server EXCEPT ![kind] = object] \in Objects, Write(kind, object),
           pc' = pc \/ (pc # "idle" /\ pc' # "idle"), held' = held
    PROVE  /\ server' \in Objects /\ cache' \in Objects
           /\ lag' \subseteq Kinds /\ events' \subseteq lag'
           /\ heldStale' \in BOOLEAN
           /\ Coherent'
<1>1. Store(kind, object) BY DEF Write
<1>2. heldStale' = (heldStale \/ (kind = "Workload" /\ pc # "idle" /\ object # server[kind]))
  BY DEF Write
<1>3. /\ server' \in Objects /\ cache' = cache
      /\ lag' \subseteq Kinds /\ events' \subseteq lag'
      /\ \A k \in Kinds : k \notin lag' => cache'[k] = server'[k]
      /\ (kind # "Workload" \/ object = server[kind]) => server'.Workload = server.Workload
  BY <1>1, StorePreserves
<1>4. heldStale' \in BOOLEAN /\ cache' \in Objects
  BY <1>2, <1>3 DEF IInv, TypeOK
<1>5. (pc' # "idle" /\ ~heldStale') => held' = server'.Workload
  BY <1>2, <1>3 DEF IInv, Coherent
<1>6. pc' # "idle" => held' # None
  BY DEF IInv, Coherent
<1> QED BY <1>3, <1>4, <1>5, <1>6 DEF Coherent

LEMMA InitIInv == Init => IInv
<1> SUFFICES ASSUME Init PROVE IInv
  OBVIOUS
<1>1. TypeOK
  <2>1. server \in Objects /\ cache \in Objects
    BY DEF Init, Objects
  <2>2. infra \in Infrastructure /\ budget \in 0 .. MaxDisturbances
    BY ControllerAssumption DEF Init
  <2> QED BY <2>1, <2>2 DEF Init, TypeOK
<1>2. Coherent
  BY <1>1 DEF Init, Coherent
<1> QED BY <1>1, <1>2 DEF IInv

\* The reconcile's steps that touch no object.
LEMMA PreflightsPreserve ==
    ASSUME IInv,
           BeginAbsent \/ Begin \/ CheckPlacement \/ CheckDependencies \/ CheckOwnership
    PROVE  IInv'
<1> USE DEF IInv, objects, world, reconciler, queue
<1>1. CASE BeginAbsent
  BY <1>1 DEF BeginAbsent, TypeOK, Coherent
<1>2. CASE Begin
  <2>1. cache.Workload \in Workloads BY <1>2 DEF Begin, TypeOK, Objects
  <2>2. heldStale' \in BOOLEAN /\ pc' \in {"dependencies", "placement"}
    BY <1>2 DEF Begin
  <2>4. TypeOK' BY <1>2, <2>1, <2>2 DEF Begin, TypeOK
  <2>3. "Workload" \notin lag => cache.Workload = server.Workload
    BY DEF Coherent, Kinds
  <2>5. Coherent' BY <1>2, <2>3 DEF Begin, Coherent, TypeOK
  <2> QED BY <2>4, <2>5
<1>3. CASE CheckPlacement
  <2>1. PICK reason \in Reasons \cup {"Placed"} :
            IF reason = "Placed" THEN Goto("dependencies") ELSE StopWith(reason)
    BY <1>3, PlacementReasonType DEF CheckPlacement
  <2>2. TypeOK' BY <1>3, <2>1 DEF CheckPlacement, Step, NoWrite, Goto, StopWith, TypeOK
  <2>3. Coherent' BY <1>3, <2>1 DEF CheckPlacement, Step, NoWrite, Goto, StopWith, Coherent
  <2> QED BY <2>2, <2>3
<1>4. CASE CheckDependencies
  <2>1. \/ Goto("ownership")
        \/ \E reason \in {"SecretNotFound", "ConfigMapNotFound"} : StopWith(reason)
    BY <1>4 DEF CheckDependencies
  <2>2. TypeOK'
    BY <1>4, <2>1 DEF CheckDependencies, Step, NoWrite, Goto, StopWith, TypeOK, Reasons
  <2>3. Coherent'
    BY <1>4, <2>1 DEF CheckDependencies, Step, NoWrite, Goto, StopWith, Coherent
  <2> QED BY <2>2, <2>3
<1>5. CASE CheckOwnership
  <2>1. \/ Goto("deployment")
        \/ \E reason \in {"DeploymentOwnershipConflict", "ServiceOwnershipConflict"} :
              StopWith(reason)
    BY <1>5 DEF CheckOwnership
  <2>2. TypeOK'
    BY <1>5, <2>1 DEF CheckOwnership, Step, NoWrite, Goto, StopWith, TypeOK, Reasons
  <2>3. Coherent'
    BY <1>5, <2>1 DEF CheckOwnership, Step, NoWrite, Goto, StopWith, Coherent
  <2> QED BY <2>2, <2>3
<1> QED BY <1>1, <1>2, <1>3, <1>4, <1>5

\* A reconcile that ends with an error.
LEMMA FailPreserves ==
    ASSUME IInv, Fail, UNCHANGED <<world, lastUid, queued, budget>>
    PROVE  IInv'
BY DEF IInv, TypeOK, Coherent, Fail, Finish, objects, world

\* The reconcile's steps that write the Deployment and the Service.
LEMMA AppliesPreserve ==
    ASSUME IInv, ApplyDeployment \/ ApplyService \/ DeleteService
    PROVE  IInv'
<1>1. CASE ApplyDeployment
  <2>1. held \in Workloads /\ pc = "deployment" /\ UNCHANGED <<world, lastUid, queued, budget>>
    BY <1>1 DEF ApplyDeployment, Step, IInv, TypeOK, Coherent
  <2>2. CASE Fail BY <2>1, <2>2, FailPreserves
  <2>3. CASE ~Fail
    <3> DEFINE object == [owner |-> held.uid, template |-> Template(held.spec),
                          available |-> cache.Deployment # None /\ cache.Deployment.available]
    <3>1. Write("Deployment", object) /\ Goto("service")
      BY <1>1, <2>3 DEF ApplyDeployment
    <3>2. cache.Deployment # None => cache.Deployment.available \in BOOLEAN
      BY DEF IInv, TypeOK, Objects, Deployments
    <3>3. object \in Deployments
      BY <2>1, <3>2, TemplateType DEF Workloads, Deployments, Owners
    <3>4. [server EXCEPT !["Deployment"] = object] \in Objects
      BY <3>3 DEF IInv, TypeOK, Objects
    <3>5. pc' = "service" /\ held' = held /\ UNCHANGED <<verdict, timer>>
      BY <3>1 DEF Goto
    <3> HIDE DEF object
    <3>6. /\ server' \in Objects /\ cache' \in Objects
          /\ lag' \subseteq Kinds /\ events' \subseteq lag' /\ heldStale' \in BOOLEAN
          /\ Coherent'
      BY <2>1, <3>1, <3>4, <3>5, WritePreserves DEF Kinds
    <3> QED BY <2>1, <3>5, <3>6 DEF IInv, TypeOK, world
  <2> QED BY <2>2, <2>3
<1>2. CASE ApplyService
  <2> DEFINE desired == [owner |-> held.uid, ports |-> held.spec.ports]
  <2>1. held \in Workloads /\ pc = "service" /\ UNCHANGED <<world, lastUid, queued, budget>>
    BY <1>2 DEF ApplyService, Step, IInv, TypeOK, Coherent
  <2>2. \/ NoWrite /\ Goto("status")
        \/ Fail
        \/ Write("Service", desired) /\ Goto("status")
    BY <1>2 DEF ApplyService
  <2>3. CASE NoWrite /\ Goto("status")
    BY <2>1, <2>3 DEF NoWrite, Goto, IInv, TypeOK, Coherent, objects, world
  <2>4. CASE Fail BY <2>1, <2>4, FailPreserves
  <2>5. CASE Write("Service", desired) /\ Goto("status")
    <3>1. desired \in Services
      BY <2>1, SpecType DEF Workloads, Services, Owners
    <3>2. [server EXCEPT !["Service"] = desired] \in Objects
      BY <3>1 DEF IInv, TypeOK, Objects
    <3>3. pc' = "status" /\ held' = held /\ UNCHANGED <<verdict, timer>>
      BY <2>5 DEF Goto
    <3> HIDE DEF desired
    <3>4. /\ server' \in Objects /\ cache' \in Objects
          /\ lag' \subseteq Kinds /\ events' \subseteq lag' /\ heldStale' \in BOOLEAN
          /\ Coherent'
      BY <2>1, <2>5, <3>2, <3>3, WritePreserves DEF Kinds
    <3> QED BY <2>1, <3>3, <3>4 DEF IInv, TypeOK, world
  <2> QED BY <2>2, <2>3, <2>4, <2>5
<1>3. CASE DeleteService
  <2>1. pc = "service" /\ Goto("status") /\ UNCHANGED <<world, lastUid, queued, budget>>
    BY <1>3 DEF DeleteService, Step
  <2>2. pc' = "status" /\ held' = held /\ UNCHANGED <<verdict, timer>>
    BY <2>1 DEF Goto
  <2>3. CASE NoWrite
    BY <2>1, <2>2, <2>3 DEF NoWrite, IInv, TypeOK, Coherent, objects, world
  <2>4. CASE Write("Service", None)
    <3>1. [server EXCEPT !["Service"] = None] \in Objects
      BY DEF IInv, TypeOK, Objects
    <3>2. /\ server' \in Objects /\ cache' \in Objects
          /\ lag' \subseteq Kinds /\ events' \subseteq lag' /\ heldStale' \in BOOLEAN
          /\ Coherent'
      BY <2>1, <2>2, <2>4, <3>1, WritePreserves DEF Kinds
    <3> QED BY <2>1, <2>2, <3>2 DEF IInv, TypeOK, world
  <2> QED BY <1>3, <2>3, <2>4 DEF DeleteService
<1> QED BY <1>1, <1>2, <1>3

\* Ending a reconcile with a status write, or with the conflict that prevents it.
LEMMA UpdateStatusPreserves ==
    ASSUME IInv, pc # "idle", NEW status \in Status, NEW requeue \in BOOLEAN,
           UpdateStatus(status, requeue), UNCHANGED <<world, lastUid, queued, budget>>
    PROVE  IInv'
<1>1. held \in Workloads
  BY DEF IInv, TypeOK, Coherent
<1>2. /\ pc' = "idle" /\ held' = None /\ verdict' = "None" /\ heldStale' = FALSE
      /\ timer' \in BOOLEAN
  BY DEF UpdateStatus, Finish, IInv, TypeOK
<1>3. CASE UNCHANGED objects
  BY <1>2, <1>3 DEF IInv, TypeOK, Coherent, objects, world
<1>4. CASE Store("Workload", [held EXCEPT !.status = status])
  <2> DEFINE object == [held EXCEPT !.status = status]
  <2>1. object \in Workloads
    BY <1>1 DEF Workloads
  <2>2. [server EXCEPT !["Workload"] = object] \in Objects
    BY <2>1 DEF IInv, TypeOK, Objects
  <2> HIDE DEF object
  <2>3. /\ server' \in Objects /\ cache' = cache
        /\ lag' \subseteq Kinds /\ events' \subseteq lag'
        /\ \A k \in Kinds : k \notin lag' => cache'[k] = server'[k]
    BY <1>4, <2>2, StorePreserves DEF Kinds, object
  <2> QED BY <1>2, <2>3 DEF IInv, TypeOK, Coherent, world
<1> QED BY <1>3, <1>4 DEF UpdateStatus

LEMMA ReportsPreserve ==
    ASSUME IInv, ReportVerdict \/ ReportApplied
    PROVE  IInv'
<1>1. CASE ReportVerdict
  <2>1. pc = "report" /\ UNCHANGED <<world, lastUid, queued, budget>> /\ held \in Workloads
    BY <1>1 DEF ReportVerdict, Step, IInv, TypeOK, Coherent
  <2>2. CASE verdict \in Reasons
    BY <1>1, <2>1, <2>2, ReportedType, UpdateStatusPreserves DEF ReportVerdict
  <2> QED BY <2>1, <2>2 DEF IInv, TypeOK, Coherent
<1>2. CASE ReportApplied
  <2>1. pc = "status" /\ UNCHANGED <<world, lastUid, queued, budget>> /\ held \in Workloads
    BY <1>2 DEF ReportApplied, Step, IInv, TypeOK, Coherent
  <2>2. CASE Fail BY <2>1, <2>2, FailPreserves
  <2>3. CASE ~Fail
    <3>1. /\ cache.Deployment # None
          /\ UpdateStatus(Applied(held, cache.Deployment.available), FALSE)
      BY <1>2, <2>3 DEF ReportApplied
    <3>2. cache.Deployment.available \in BOOLEAN
      BY <3>1 DEF IInv, TypeOK, Objects, Deployments
    <3> QED BY <2>1, <3>1, <3>2, AppliedType, UpdateStatusPreserves
  <2> QED BY <2>2, <2>3
<1> QED BY <1>1, <1>2

LEMMA DisturbType ==
    ASSUME TypeOK, NEW kind, Disturb(kind)
    PROVE  budget' \in 0 .. MaxDisturbances
BY ControllerAssumption DEF TypeOK, Disturb

LEMMA QueuePreserves ==
    ASSUME IInv, TimerFires \/ Resync \/ \E kind \in Kinds : Sync(kind)
    PROVE  IInv'
<1>1. CASE TimerFires
  BY <1>1 DEF TimerFires, IInv, TypeOK, Coherent, objects, world, reconciler
<1>2. CASE Resync
  <2>1. budget' \in 0 .. MaxDisturbances BY <1>2, DisturbType DEF Resync, IInv
  <2> QED BY <1>2, <2>1 DEF Resync, IInv, TypeOK, Coherent, objects, world, reconciler
<1>3. ASSUME NEW kind \in Kinds, Sync(kind) PROVE IInv'
  <2>1. /\ cache' = [cache EXCEPT ![kind] = server[kind]]
        /\ lag' = lag \ {kind} /\ events' = events \ {kind}
        /\ UNCHANGED <<server, world, lastUid, timer, reconciler, budget>>
    BY <1>3 DEF Sync
  <2>2. queued' \in BOOLEAN BY <1>3 DEF Sync
  <2>3. cache' \in Objects BY <2>1 DEF IInv, TypeOK, Objects, Kinds
  <2>4. \A k \in Kinds : k \notin lag' => cache'[k] = server'[k]
    BY <2>1 DEF IInv, TypeOK, Coherent, Objects, Kinds
  <2> QED BY <2>1, <2>2, <2>3, <2>4 DEF IInv, TypeOK, Coherent, world, reconciler
<1> QED BY <1>1, <1>2, <1>3

\* Everybody else's writes leave the reconcile where it is.
LEMMA EnvironmentWritePreserves ==
    ASSUME IInv, NEW kind \in Kinds, NEW object,
           [server EXCEPT ![kind] = object] \in Objects, Write(kind, object),
           lastUid' \in Nat, budget' \in 0 .. MaxDisturbances,
           UNCHANGED <<world, queue, pc, held, verdict>>
    PROVE  IInv'
<1>1. /\ server' \in Objects /\ cache' \in Objects
      /\ lag' \subseteq Kinds /\ events' \subseteq lag'
      /\ heldStale' \in BOOLEAN
      /\ Coherent'
  BY WritePreserves
<1> QED BY <1>1 DEF IInv, TypeOK, world, queue

LEMMA WorkloadEditsPreserve ==
    ASSUME IInv,
           \/ \E spec \in Specs : CreateWorkload(spec) \/ EditWorkload(spec)
           \/ DeleteWorkload
    PROVE  IInv'
<1>1. ASSUME NEW spec \in Specs, CreateWorkload(spec) PROVE IInv'
  <2> DEFINE object == [uid |-> lastUid', generation |-> 1, spec |-> spec, status |-> EmptyStatus]
  <2>1. lastUid' \in Nat BY <1>1 DEF CreateWorkload, IInv, TypeOK
  <2>2. budget' \in 0 .. MaxDisturbances
    BY <1>1 DEF CreateWorkload, IInv, TypeOK
  <2>3. EmptyStatus \in Status
    <3>1. [c \in ConditionTypes |-> "Absent"] \in [ConditionTypes -> ConditionReasons]
      BY DEF ConditionReasons
    <3> QED BY <3>1 DEF EmptyStatus, Status
  <2>4. object \in Workloads BY <2>1, <2>3 DEF Workloads
  <2>5. [server EXCEPT !["Workload"] = object] \in Objects
    BY <2>4 DEF IInv, TypeOK, Objects
  <2>6. Write("Workload", object) /\ UNCHANGED <<world, queue, pc, held, verdict>>
    BY <1>1 DEF CreateWorkload
  <2> HIDE DEF object
  <2> QED BY <2>1, <2>2, <2>5, <2>6, EnvironmentWritePreserves DEF Kinds
<1>2. ASSUME NEW spec \in Specs, EditWorkload(spec) PROVE IInv'
  <2> DEFINE object == [server.Workload EXCEPT !.spec = spec, !.generation = @ + 1]
  <2>1. lastUid' \in Nat /\ budget' \in 0 .. MaxDisturbances
    BY <1>2, DisturbType DEF EditWorkload, IInv, TypeOK
  <2>2. server.Workload \in Workloads BY <1>2 DEF EditWorkload, IInv, TypeOK, Objects
  <2>3. object \in Workloads
    <3>1. server.Workload.generation + 1 \in Nat BY <2>2 DEF Workloads
    <3>2. object = [server.Workload EXCEPT !.spec = spec,
                                           !.generation = server.Workload.generation + 1]
      BY <2>2 DEF Workloads
    <3> QED BY <2>2, <3>1, <3>2 DEF Workloads
  <2>4. [server EXCEPT !["Workload"] = object] \in Objects
    BY <2>3 DEF IInv, TypeOK, Objects
  <2>5. Write("Workload", object) /\ UNCHANGED <<world, queue, pc, held, verdict>>
    BY <1>2 DEF EditWorkload
  <2> HIDE DEF object
  <2> QED BY <2>1, <2>4, <2>5, EnvironmentWritePreserves DEF Kinds
<1>3. CASE DeleteWorkload
  <2>1. lastUid' \in Nat /\ budget' \in 0 .. MaxDisturbances
    BY <1>3, DisturbType DEF DeleteWorkload, IInv, TypeOK
  <2>2. [server EXCEPT !["Workload"] = None] \in Objects
    BY DEF IInv, TypeOK, Objects
  <2> QED BY <1>3, <2>1, <2>2, EnvironmentWritePreserves DEF DeleteWorkload, Kinds
<1> QED BY <1>1, <1>2, <1>3

LEMMA WorldEditsPreserve ==
    ASSUME IInv,
           \/ \E i \in Infras : ChangeInfrastructure(i)
           \/ \E d \in Secrets \cup ConfigMaps : AddDependency(d) \/ RemoveDependency(d)
    PROVE  IInv'
<1>1. budget' \in 0 .. MaxDisturbances
  BY DisturbType DEF ChangeInfrastructure, AddDependency, RemoveDependency, IInv
<1>2. infra' \in Infrastructure /\ dependencies' \subseteq Secrets \cup ConfigMaps
  BY ControllerAssumption
  DEF ChangeInfrastructure, AddDependency, RemoveDependency, IInv, TypeOK
<1>3. UNCHANGED <<objects, lastUid, queue, reconciler>>
  BY DEF ChangeInfrastructure, AddDependency, RemoveDependency
<1> QED BY <1>1, <1>2, <1>3 DEF IInv, TypeOK, Coherent, objects, queue, reconciler

LEMMA ForeignOwnersType ==
    ASSUME IInv, NEW kind \in {"Deployment", "Service"}, NEW owner \in ForeignOwners(server[kind])
    PROVE  owner \in Owners
BY DEF ForeignOwners, IInv, TypeOK, Objects, Deployments, Services, Owners

LEMMA RuntimeEditsPreserve ==
    ASSUME IInv,
           \/ \E owner \in ForeignOwners(server.Deployment), available \in BOOLEAN :
                DisturbDeployment(owner, available)
           \/ DeleteDeployment
           \/ \E owner \in ForeignOwners(server.Service) : DisturbService(owner)
           \/ RemoveService
           \/ RolloutCompletes \/ RolloutFails
           \/ \E kind \in Kinds : GarbageCollect(kind)
    PROVE  IInv'
<1>1. ASSUME NEW owner \in ForeignOwners(server.Deployment), NEW available \in BOOLEAN,
             DisturbDeployment(owner, available)
      PROVE  IInv'
  <2> DEFINE object == [owner |-> owner, template |-> ForeignTemplate, available |-> available]
  <2>1. lastUid' \in Nat /\ budget' \in 0 .. MaxDisturbances
    BY <1>1, DisturbType DEF DisturbDeployment, IInv, TypeOK
  <2>2. object \in Deployments BY ForeignOwnersType DEF Deployments
  <2>3. [server EXCEPT !["Deployment"] = object] \in Objects
    BY <2>2 DEF IInv, TypeOK, Objects
  <2>4. Write("Deployment", object) /\ UNCHANGED <<world, queue, pc, held, verdict>>
    BY <1>1 DEF DisturbDeployment
  <2> HIDE DEF object
  <2> QED BY <2>1, <2>3, <2>4, EnvironmentWritePreserves DEF Kinds
<1>2. CASE DeleteDeployment
  <2>1. lastUid' \in Nat /\ budget' \in 0 .. MaxDisturbances
    BY <1>2, DisturbType DEF DeleteDeployment, IInv, TypeOK
  <2>2. [server EXCEPT !["Deployment"] = None] \in Objects
    BY DEF IInv, TypeOK, Objects
  <2> QED BY <1>2, <2>1, <2>2, EnvironmentWritePreserves DEF DeleteDeployment, Kinds
<1>3. ASSUME NEW owner \in ForeignOwners(server.Service), DisturbService(owner) PROVE IInv'
  <2> DEFINE object == [owner |-> owner, ports |-> ForeignTemplate]
  <2>1. lastUid' \in Nat /\ budget' \in 0 .. MaxDisturbances
    BY <1>3, DisturbType DEF DisturbService, IInv, TypeOK
  <2>2. object \in Services BY ForeignOwnersType DEF Services
  <2>3. [server EXCEPT !["Service"] = object] \in Objects
    BY <2>2 DEF IInv, TypeOK, Objects
  <2>4. Write("Service", object) /\ UNCHANGED <<world, queue, pc, held, verdict>>
    BY <1>3 DEF DisturbService
  <2> HIDE DEF object
  <2> QED BY <2>1, <2>3, <2>4, EnvironmentWritePreserves DEF Kinds
<1>4. CASE RemoveService
  <2>1. lastUid' \in Nat /\ budget' \in 0 .. MaxDisturbances
    BY <1>4, DisturbType DEF RemoveService, IInv, TypeOK
  <2>2. [server EXCEPT !["Service"] = None] \in Objects
    BY DEF IInv, TypeOK, Objects
  <2> QED BY <1>4, <2>1, <2>2, EnvironmentWritePreserves DEF RemoveService, Kinds
<1>5. ASSUME NEW available \in BOOLEAN, SetAvailable(available),
             budget' \in 0 .. MaxDisturbances
      PROVE  IInv'
  <2> DEFINE object == [server.Deployment EXCEPT !.available = available]
  <2>1. lastUid' \in Nat BY <1>5 DEF SetAvailable, IInv, TypeOK
  <2>2. object \in Deployments
    BY <1>5 DEF SetAvailable, IInv, TypeOK, Objects, Deployments
  <2>3. [server EXCEPT !["Deployment"] = object] \in Objects
    BY <2>2 DEF IInv, TypeOK, Objects
  <2>4. Write("Deployment", object) /\ UNCHANGED <<world, queue, pc, held, verdict>>
    BY <1>5 DEF SetAvailable
  <2> HIDE DEF object
  <2> QED BY <1>5, <2>1, <2>3, <2>4, EnvironmentWritePreserves DEF Kinds
<1>6. CASE RolloutCompletes
  BY <1>5, <1>6 DEF RolloutCompletes, IInv, TypeOK
<1>7. CASE RolloutFails
  BY <1>5, <1>7, DisturbType DEF RolloutFails, IInv
<1>8. ASSUME NEW kind \in Kinds, GarbageCollect(kind) PROVE IInv'
  <2>1. lastUid' \in Nat /\ budget' \in 0 .. MaxDisturbances
    BY <1>8 DEF GarbageCollect, IInv, TypeOK
  <2>2. [server EXCEPT ![kind] = None] \in Objects
    BY DEF IInv, TypeOK, Objects, Kinds
  <2> QED BY <1>8, <2>1, <2>2, EnvironmentWritePreserves DEF GarbageCollect, queue
<1> QED BY <1>1, <1>2, <1>3, <1>4, <1>6, <1>7, <1>8

LEMMA FailuresPreserve ==
    ASSUME IInv, ApiCallFails \/ Restart PROVE IInv'
<1>1. budget' \in 0 .. MaxDisturbances BY DisturbType DEF ApiCallFails, Restart, IInv
<1>2. CASE ApiCallFails
  BY <1>1, <1>2
  DEF ApiCallFails, Fail, Finish, IInv, TypeOK, Coherent, objects, world
<1>3. CASE Restart
  <2>1. queued' \in BOOLEAN BY <1>3 DEF Restart
  <2>2. cache' = server /\ server' = server /\ lag' = {} BY <1>3 DEF Restart
  <2> QED BY <1>1, <1>3, <2>1, <2>2 DEF Restart, IInv, TypeOK, Coherent, world
<1> QED BY <1>2, <1>3

LEMMA StepPreserves == IInv /\ [Next]_vars => IInv'
<1> SUFFICES ASSUME IInv, [Next]_vars PROVE IInv'
  OBVIOUS
<1>1. CASE Reconcile
  BY <1>1, PreflightsPreserve, AppliesPreserve, ReportsPreserve DEF Reconcile
<1>2. CASE TimerFires \/ \E kind \in Kinds : Sync(kind)
  BY <1>2, QueuePreserves
<1>3. CASE Environment
  BY <1>3, WorkloadEditsPreserve, WorldEditsPreserve, RuntimeEditsPreserve, FailuresPreserve,
     QueuePreserves DEF Environment
<1>4. CASE UNCHANGED vars
  BY <1>4 DEF vars, objects, world, queue, reconciler, IInv, TypeOK, Coherent
<1> QED BY <1>1, <1>2, <1>3, <1>4 DEF Next

\* The types and the coherence of cache and copy hold in every behaviour.
THEOREM Invariance == Spec => []IInv
BY InitIInv, StepPreserves, PTL DEF Spec

\* No sequence of steps takes the controller's state out of its types; in
\* particular a reconcile reports a reason exactly when a preflight gave one.
THEOREM TypeCorrect == Spec => []TypeOK
BY Invariance, PTL DEF IInv

--------------------------------------------------------------------------------
(* What a step can do to the Workload.                                          *)

\* A reconcile leaves the server's Workload alone, or replaces the status of the
\* very version it has been working on.
StatusWritten(status) ==
    /\ server.Workload \in Workloads
    /\ \/ \E reason \in Reasons : status = Reported(server.Workload, reason)
       \/ \E available \in BOOLEAN : status = Applied(server.Workload, available)
    /\ server'.Workload = [server.Workload EXCEPT !.status = status]

LEMMA StatusType ==
    ASSUME NEW status, StatusWritten(status) PROVE status \in Status
BY ReportedType, AppliedType DEF StatusWritten

LEMMA StoreOtherKind ==
    ASSUME IInv, NEW kind \in {"Deployment", "Service"}, NEW object, Store(kind, object)
    PROVE  server'.Workload = server.Workload
BY DEF Store, IInv, TypeOK, Objects

LEMMA UpdateStatusOnWorkload ==
    ASSUME IInv, pc # "idle", NEW status, NEW requeue, UpdateStatus(status, requeue),
           \/ \E reason \in Reasons : status = Reported(held, reason)
           \/ \E available \in BOOLEAN : status = Applied(held, available)
    PROVE  server'.Workload = server.Workload \/ \E st : StatusWritten(st)
<1>1. held \in Workloads
  BY DEF IInv, TypeOK, Coherent
<1>2. CASE UNCHANGED objects
  BY <1>2 DEF objects
<1>3. CASE ~heldStale /\ Store("Workload", [held EXCEPT !.status = status])
  <2>1. held = server.Workload
    BY <1>3 DEF IInv, Coherent
  <2>2. server'.Workload = [held EXCEPT !.status = status]
    BY <1>3 DEF Store, IInv, TypeOK, Objects
  <2> QED BY <1>1, <2>1, <2>2 DEF StatusWritten
<1> QED BY <1>2, <1>3 DEF UpdateStatus

LEMMA ReconcileOnWorkload ==
    ASSUME IInv, Reconcile
    PROVE  server'.Workload = server.Workload \/ \E st : StatusWritten(st)
<1>1. CASE BeginAbsent \/ Begin \/ CheckPlacement \/ CheckDependencies \/ CheckOwnership
  BY <1>1 DEF BeginAbsent, Begin, CheckPlacement, CheckDependencies, CheckOwnership, NoWrite,
              objects
<1>2. CASE ApplyDeployment \/ ApplyService \/ DeleteService
  BY <1>2, StoreOtherKind
  DEF ApplyDeployment, ApplyService, DeleteService, Write, Fail, NoWrite, objects
<1>3. CASE ReportVerdict
  <2>1. pc = "report" BY <1>3 DEF ReportVerdict, Step
  <2>2. verdict \in Reasons BY <2>1 DEF IInv, TypeOK
  <2> QED BY <1>3, <2>1, <2>2, UpdateStatusOnWorkload DEF ReportVerdict
<1>4. CASE ReportApplied
  <2>1. pc = "status" BY <1>4 DEF ReportApplied, Step
  <2>2. CASE Fail BY <2>2 DEF Fail, objects
  <2>3. CASE cache.Deployment # None /\ UpdateStatus(Applied(held, cache.Deployment.available), FALSE)
    <3>1. cache.Deployment.available \in BOOLEAN
      BY <2>3 DEF IInv, TypeOK, Objects, Deployments
    <3> QED BY <2>1, <2>3, <3>1, UpdateStatusOnWorkload
  <2> QED BY <1>4, <2>2, <2>3 DEF ReportApplied
<1> QED BY <1>1, <1>2, <1>3, <1>4 DEF Reconcile

\* Everybody else creates a Workload with an empty status, deletes it, or edits its
\* spec under a new generation.
LEMMA OthersOnWorkload ==
    ASSUME IInv, [Next]_vars, ~Reconcile
    PROVE  \/ server'.Workload = server.Workload
           \/ server'.Workload = None
           \/ /\ server.Workload = None
              /\ server'.Workload.status = EmptyStatus /\ server'.Workload.generation = 1
           \/ /\ server.Workload \in Workloads
              /\ server'.Workload.status = server.Workload.status
              /\ server'.Workload.generation = server.Workload.generation + 1
<1>1. CASE \E kind \in Kinds : Sync(kind) BY <1>1 DEF Sync
<1>2. CASE TimerFires BY <1>2 DEF TimerFires, objects
<1>3. ASSUME NEW spec \in Specs, CreateWorkload(spec)
      PROVE  /\ server.Workload = None
             /\ server'.Workload.status = EmptyStatus /\ server'.Workload.generation = 1
  BY <1>3 DEF CreateWorkload, Write, Store, IInv, TypeOK, Objects
<1>4. ASSUME NEW spec \in Specs, EditWorkload(spec)
      PROVE  /\ server.Workload \in Workloads
             /\ server'.Workload.status = server.Workload.status
             /\ server'.Workload.generation = server.Workload.generation + 1
  <2>1. server.Workload \in Workloads
    BY <1>4 DEF EditWorkload, IInv, TypeOK, Objects
  <2>2. server'.Workload = [server.Workload EXCEPT !.spec = spec, !.generation = @ + 1]
    BY <1>4 DEF EditWorkload, Write, Store, IInv, TypeOK, Objects
  <2> QED BY <2>1, <2>2 DEF Workloads
<1>5. CASE DeleteWorkload
  BY <1>5 DEF DeleteWorkload, Write, Store, IInv, TypeOK, Objects
<1>6. CASE \/ \E i \in Infras : ChangeInfrastructure(i)
           \/ \E d \in Secrets \cup ConfigMaps : AddDependency(d) \/ RemoveDependency(d)
  BY <1>6 DEF ChangeInfrastructure, AddDependency, RemoveDependency, objects
<1>7. CASE \/ \E owner \in ForeignOwners(server.Deployment), available \in BOOLEAN :
                DisturbDeployment(owner, available)
           \/ DeleteDeployment
           \/ \E owner \in ForeignOwners(server.Service) : DisturbService(owner)
           \/ RemoveService
           \/ RolloutCompletes \/ RolloutFails
  BY <1>7, StoreOtherKind
  DEF DisturbDeployment, DeleteDeployment, DisturbService, RemoveService, RolloutCompletes,
      RolloutFails, SetAvailable, Write
<1>8. CASE \E kind \in Kinds : GarbageCollect(kind)
  BY <1>8, StoreOtherKind DEF GarbageCollect, Write, Kinds
<1>9. CASE ApiCallFails \/ Restart \/ Resync
  BY <1>9 DEF ApiCallFails, Fail, Restart, Resync, objects
<1>10. CASE UNCHANGED vars BY <1>10 DEF vars, objects
<1> QED BY <1>1, <1>2, <1>3, <1>4, <1>5, <1>6, <1>7, <1>8, <1>9, <1>10 DEF Next, Environment

--------------------------------------------------------------------------------
(* Safety.                                                                      *)

\* A reconcile never undoes an edit of the Workload it did not see, never brings a
\* deleted Workload back, and never writes to a recreated one what it found out
\* about its predecessor, in whatever order edits, events and crashes come.
THEOREM EditsSurvive == Spec => ReconcileKeepsTheSpec
<1>1. IInv /\ [Next]_vars =>
        [Reconcile =>
            \/ server'.Workload = server.Workload
            \/ /\ server.Workload # None /\ server'.Workload # None
               /\ server'.Workload =
                    [server.Workload EXCEPT !.status = server'.Workload.status]]_vars
  <2> SUFFICES ASSUME IInv, Reconcile, server'.Workload # server.Workload
               PROVE  /\ server.Workload # None /\ server'.Workload # None
                      /\ server'.Workload =
                            [server.Workload EXCEPT !.status = server'.Workload.status]
    OBVIOUS
  <2>1. PICK st : StatusWritten(st)
    BY ReconcileOnWorkload
  <2>2. server'.Workload = [server.Workload EXCEPT !.status = server'.Workload.status]
    BY <2>1 DEF StatusWritten, Workloads
  <2>3. server.Workload \in Workloads /\ server'.Workload \in Workloads
    BY <2>1, StatusType DEF StatusWritten, Workloads
  <2>4. server.Workload # None /\ server'.Workload # None
    BY <2>3, ObjectAssumption
  <2> QED BY <2>2, <2>4
<1> QED BY <1>1, Invariance, PTL DEF Spec, ReconcileKeepsTheSpec

\* The observed generation is never ahead of the Workload's.
NeverAhead ==
    server.Workload # None =>
        server.Workload.status.observedGeneration <= server.Workload.generation

\* What a status write observes is the generation of the object it goes to.
LEMMA ObservesCurrentGeneration ==
    ASSUME NEW status, StatusWritten(status)
    PROVE  /\ server'.Workload.status.observedGeneration = server.Workload.generation
           /\ server'.Workload.generation = server.Workload.generation
           /\ server.Workload.generation \in Nat
<1>1. server.Workload \in Workloads /\ server.Workload.status \in Status
  BY DEF StatusWritten, Workloads
<1>2. status.observedGeneration = server.Workload.generation
  BY <1>1 DEF StatusWritten, Reported, Applied, Status
<1> QED BY <1>1, <1>2 DEF StatusWritten, Workloads

LEMMA NeverAheadPreserved == IInv /\ NeverAhead /\ [Next]_vars => NeverAhead'
<1> SUFFICES ASSUME IInv, NeverAhead, [Next]_vars, server'.Workload # None
             PROVE  server'.Workload.status.observedGeneration <= server'.Workload.generation
  BY DEF NeverAhead
<1>1. CASE server'.Workload = server.Workload
  BY <1>1 DEF NeverAhead
<1>2. CASE \E st : StatusWritten(st)
  BY <1>2, ObservesCurrentGeneration
<1>3. CASE server'.Workload.status = EmptyStatus /\ server'.Workload.generation = 1
  BY <1>3 DEF EmptyStatus
<1>4. CASE /\ server.Workload \in Workloads
           /\ server'.Workload.status = server.Workload.status
           /\ server'.Workload.generation = server.Workload.generation + 1
  BY <1>4, ObjectAssumption DEF NeverAhead, Workloads, Status
<1> QED BY <1>1, <1>2, <1>3, <1>4, ReconcileOnWorkload, OthersOnWorkload

\* The status of a Workload object follows its generation: never back, never ahead,
\* though it is written from copies read any number of edits ago.
THEOREM StatusIsMonotonic == Spec => StatusFollowsGeneration
<1>1. Init => NeverAhead
  BY DEF Init, NeverAhead
<1>2. IInv /\ NeverAhead /\ [Next]_vars =>
        [(server.Workload # None /\ server'.Workload # None
            /\ server'.Workload.uid = server.Workload.uid) =>
          /\ server'.Workload.status.observedGeneration >=
                server.Workload.status.observedGeneration
          /\ server'.Workload.status.observedGeneration <= server'.Workload.generation]_vars
  <2> SUFFICES ASSUME IInv, NeverAhead, [Next]_vars,
                      server.Workload # None, server'.Workload # None
               PROVE  /\ server'.Workload.status.observedGeneration >=
                            server.Workload.status.observedGeneration
                      /\ server'.Workload.status.observedGeneration <=
                            server'.Workload.generation
    OBVIOUS
  <2>1. server.Workload \in Workloads /\ server.Workload.status \in Status
    BY DEF IInv, TypeOK, Objects, Workloads
  <2>2. server.Workload.status.observedGeneration \in Nat /\ server.Workload.generation \in Nat
    BY <2>1 DEF Workloads, Status
  <2>3. server'.Workload.status.observedGeneration <= server'.Workload.generation
    BY NeverAheadPreserved DEF NeverAhead
  <2>4. CASE server'.Workload = server.Workload
    BY <2>2, <2>3, <2>4
  <2>5. CASE \E st : StatusWritten(st)
    BY <2>2, <2>3, <2>5, ObservesCurrentGeneration DEF NeverAhead
  <2>6. CASE server'.Workload.status = server.Workload.status
    BY <2>2, <2>3, <2>6
  <2> QED BY <2>4, <2>5, <2>6, ReconcileOnWorkload, OthersOnWorkload
<1> QED BY <1>1, <1>2, NeverAheadPreserved, Invariance, PTL DEF Spec, StatusFollowsGeneration

\* The conditions of a status tell the story of its target, and no other.
LEMMA StatusTellsOneStory ==
    ASSUME NEW w \in Workloads, NEW status,
           \/ \E reason \in Reasons : status = Reported(w, reason)
           \/ \E available \in BOOLEAN : status = Applied(w, available)
    PROVE  LET present == {c \in ConditionTypes : status.conditions[c] # "Absent"}
           IN \/ status.target \in {"Pending", "Degraded"} /\ present = {status.target}
              \/ /\ status.target \in {"Reconciling", "Available"}
                 /\ present = {"RuntimeObjectsApplied", "Available"}
<1> USE DEF ConditionTypes
<1>1. w.status \in Status
  BY DEF Workloads
<1>2. ASSUME NEW reason \in Reasons, status = Reported(w, reason)
      PROVE  /\ status.target \in {"Pending", "Degraded"}
             /\ {c \in ConditionTypes : status.conditions[c] # "Absent"} = {status.target}
  <2> DEFINE target == IF reason \in PendingReasons THEN "Pending" ELSE "Degraded"
  <2>1. reason # "Absent"
    BY <1>2 DEF Reasons, PendingReasons, InvalidReferenceReasons
  <2>2. status.target = target
    BY <1>1, <1>2 DEF Reported, Status
  <2>3. status.conditions = SetConditions(w.status.conditions, ConditionTypes \ {target},
                                          [c \in {target} |-> reason])
    BY <1>1, <1>2 DEF Reported, Status
  <2>4. \A c \in ConditionTypes : status.conditions[c] = IF c = target THEN reason ELSE "Absent"
    BY <2>3 DEF SetConditions
  <2> QED BY <2>1, <2>2, <2>4
<1>3. ASSUME NEW available \in BOOLEAN, status = Applied(w, available)
      PROVE  /\ status.target \in {"Reconciling", "Available"}
             /\ {c \in ConditionTypes : status.conditions[c] # "Absent"}
                    = {"RuntimeObjectsApplied", "Available"}
  <2> DEFINE set == [RuntimeObjectsApplied |-> "ApplySucceeded",
                     Available |-> IF available THEN "DeploymentAvailable"
                                                ELSE "DeploymentReconciling"]
  <2>1. status.target \in {"Reconciling", "Available"}
    BY <1>1, <1>3 DEF Applied, Status
  <2>2. status.conditions = SetConditions(w.status.conditions, {"Pending", "Degraded"}, set)
    BY <1>1, <1>3 DEF Applied, Status
  <2>3. DOMAIN set = {"RuntimeObjectsApplied", "Available"}
    OBVIOUS
  <2>4. set["RuntimeObjectsApplied"] # "Absent" /\ set["Available"] # "Absent"
    OBVIOUS
  <2> HIDE DEF set
  <2>5. \A c \in ConditionTypes :
            status.conditions[c] = IF c \in DOMAIN set THEN set[c] ELSE "Absent"
    BY <2>2, <2>3 DEF SetConditions
  <2> QED BY <2>1, <2>3, <2>4, <2>5
<1> QED BY <1>2, <1>3

LEMMA OneStoryPreserved == IInv /\ ConditionsMatchTarget /\ [Next]_vars => ConditionsMatchTarget'
<1> SUFFICES ASSUME IInv, ConditionsMatchTarget, [Next]_vars PROVE ConditionsMatchTarget'
  OBVIOUS
<1>1. CASE server'.Workload = server.Workload
  BY <1>1 DEF ConditionsMatchTarget
<1>2. ASSUME NEW st, StatusWritten(st) PROVE ConditionsMatchTarget'
  <2> DEFINE present == {c \in ConditionTypes : st.conditions[c] # "Absent"}
  <2>1. server.Workload \in Workloads /\ server'.Workload.status = st
    BY <1>2 DEF StatusWritten, Workloads
  <2>2. \/ st.target \in {"Pending", "Degraded"} /\ present = {st.target}
        \/ st.target \in {"Reconciling", "Available"}
           /\ present = {"RuntimeObjectsApplied", "Available"}
    BY <1>2, <2>1, StatusTellsOneStory DEF StatusWritten
  <2> QED BY <2>1, <2>2 DEF ConditionsMatchTarget
<1>3. CASE server'.Workload = None
  BY <1>3 DEF ConditionsMatchTarget
<1>4. CASE server'.Workload.status = EmptyStatus
  BY <1>4 DEF ConditionsMatchTarget, EmptyStatus
<1>5. CASE server.Workload \in Workloads /\ server'.Workload.status = server.Workload.status
  BY <1>5, ObjectAssumption DEF ConditionsMatchTarget
<1> QED BY <1>1, <1>2, <1>3, <1>4, <1>5, ReconcileOnWorkload, OthersOnWorkload

\* No history of Pending, Degraded and applied reconciles leaves a condition of an
\* earlier verdict beside the present one.
THEOREM ConditionsTellOneStory == Spec => []ConditionsMatchTarget
<1>1. Init => ConditionsMatchTarget
  BY DEF Init, ConditionsMatchTarget
<1> QED BY <1>1, OneStoryPreserved, Invariance, PTL DEF Spec

\* CreateOrUpdate goes through only where no other controller's object is, whatever
\* the cache believed: an outdated belief is refused by the API server.
LEMMA CreateOrUpdateSparesOthers ==
    ASSUME IInv, NEW kind \in {"Deployment", "Service"}, ~CreateOrUpdateFails(kind)
    PROVE  ~(server[kind] # None /\ server[kind].owner = OtherController)
BY DEF CreateOrUpdateFails, IInv, Coherent, Kinds

\* Neither a stale cache nor a race makes the operator take over, or edit, an object
\* that another controller manages.
THEOREM OtherControllersAreSafe == Spec => OtherControllersObjectsUntouched
<1> DEFINE Spares ==
        /\ (server.Deployment # None /\ server.Deployment.owner = OtherController)
               => server'.Deployment = server.Deployment
        /\ (server.Service # None /\ server.Service.owner = OtherController)
               => server'.Service \in {server.Service, None}
<1>1. ASSUME IInv, Reconcile PROVE Spares
  <2>1. CASE UNCHANGED server
    BY <2>1
  <2>2. ASSUME NEW object, Store("Workload", object) PROVE Spares
    BY <1>1, <2>2 DEF Store, IInv, TypeOK, Objects
  <2>3. CASE BeginAbsent \/ Begin \/ CheckPlacement \/ CheckDependencies \/ CheckOwnership
    BY <2>1, <2>3
    DEF BeginAbsent, Begin, CheckPlacement, CheckDependencies, CheckOwnership, NoWrite, objects
  <2>4. CASE ApplyDeployment
    <3>1. CASE Fail BY <2>1, <3>1 DEF Fail, objects
    <3>2. ASSUME NEW object, Store("Deployment", object), ~CreateOrUpdateFails("Deployment")
          PROVE  Spares
      <4>1. server'.Service = server.Service
        BY <1>1, <3>2 DEF Store, IInv, TypeOK, Objects
      <4> QED BY <1>1, <3>2, <4>1, CreateOrUpdateSparesOthers
    <3> QED BY <2>4, <3>1, <3>2 DEF ApplyDeployment, Write
  <2>5. CASE ApplyService
    <3>1. CASE Fail \/ NoWrite BY <2>1, <3>1 DEF Fail, NoWrite, objects
    <3>2. ASSUME NEW object, Store("Service", object), ~CreateOrUpdateFails("Service")
          PROVE  Spares
      <4>1. server'.Deployment = server.Deployment
        BY <1>1, <3>2 DEF Store, IInv, TypeOK, Objects
      <4> QED BY <1>1, <3>2, <4>1, CreateOrUpdateSparesOthers
    <3> QED BY <2>5, <3>1, <3>2 DEF ApplyService, Write
  <2>6. CASE DeleteService
    <3>1. CASE NoWrite BY <2>1, <3>1 DEF NoWrite, objects
    <3>2. CASE Store("Service", None)
      BY <1>1, <3>2 DEF Store, IInv, TypeOK, Objects
    <3> QED BY <2>6, <3>1, <3>2 DEF DeleteService, Write
  <2>7. CASE ReportVerdict \/ ReportApplied
    BY <2>1, <2>2, <2>7 DEF ReportVerdict, ReportApplied, UpdateStatus, Fail, objects
  <2> QED BY <1>1, <2>3, <2>4, <2>5, <2>6, <2>7 DEF Reconcile
<1>2. IInv /\ [Next]_vars => [Reconcile => Spares]_vars
  BY <1>1
<1> QED BY <1>2, Invariance, PTL DEF Spec, OtherControllersObjectsUntouched

================================================================================
