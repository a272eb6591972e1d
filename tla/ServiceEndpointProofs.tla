------------------------- MODULE ServiceEndpointProofs -------------------------
(***************************************************************************)
(* Theorems about the ServiceEndpoint controller, for every set of         *)
(* endpoints, Workloads, clusters and specs, and any number of             *)
(* disturbances.                                                           *)
(*                                                                         *)
(* The finalizer theorem is about a copy: Reconcile decides by the copy it *)
(* read from its cache that the finalizer is there, and annotates a        *)
(* Service. The invariant Guarded says what such a copy is worth, however  *)
(* old it is, and Phases why only the cleanup can make it worthless.       *)
(*                                                                         *)
(* That the operator rests only when everything is Ready is a second       *)
(* invariant, Attended: what is not at rest is on its way to the queue.    *)
(***************************************************************************)
EXTENDS ServiceEndpointProperties, TLAPS

\* A cached endpoint with a current resourceVersion is the server's, and so is a
\* reconcile's copy that no write has made stale.
Coherent ==
    /\ \A e \in Endpoints : e \notin lag => cache.endpoints[e] = server.endpoints[e]
    /\ (pc # "idle" /\ ~heldStale) => held = server.endpoints[current]

\* What the reconcile knows of its copy where it is. During a cleanup that can
\* still succeed nothing has been written since the cache saw the deletion.
Phases ==
    /\ pc \in {"finalizer", "annotate"} => ~held.deleting
    /\ pc = "annotate" => held.finalizer
    /\ pc \in {"cleanup", "release"} => held.deleting
    /\ (pc \in {"cleanup", "release"} /\ ~heldStale) => current \notin lag

HasFinalizer(object) == object # None /\ object.finalizer

\* A live copy with the finalizer proves that the server's endpoint has it.
Vouches(copy, e) ==
    (HasFinalizer(copy) /\ ~copy.deleting) => HasFinalizer(server.endpoints[e])

Guarded ==
    /\ \A e \in Endpoints : Vouches(cache.endpoints[e], e)
    /\ pc # "idle" => Vouches(held, current)

IInv == TypeOK /\ Coherent /\ Phases /\ Guarded

--------------------------------------------------------------------------------
(* Types.                                                                       *)

LEMMA PrimaryReasonType ==
    ASSUME NEW i, NEW primary, NEW ref
    PROVE  ValidatePrimaryMember(i, primary, ref) \in Reasons \cup {"Accepted"}
BY DEF ValidatePrimaryMember, Reasons

LEMMA ResolutionType ==
    ASSUME NEW spec
    PROVE  Resolution(spec) \in Reasons \cup {"Resolved"}
BY PrimaryReasonType DEF Resolution, Reasons

LEMMA DesiredType ==
    ASSUME NEW spec PROVE Desired(spec) \in Annotations
BY DEF Desired, Annotations

LEMMA NoAnnotationsType == NoAnnotations \in Annotations
BY DEF NoAnnotations, Annotations

LEMMA MergePatchType ==
    ASSUME NEW annotations \in Annotations, NEW cached, NEW wanted \in Annotations
    PROVE  MergePatch(annotations, cached, wanted) \in Annotations
BY DEF MergePatch, Annotations

LEMMA StatusType ==
    ASSUME NEW endpoint \in Endpoint
    PROVE  /\ Ready(endpoint) \in EndpointStatus
           /\ \A reason \in Reasons : Degraded(endpoint, reason) \in EndpointStatus
<1>1. endpoint.generation \in Nat /\ endpoint.spec \in SpecShape
  BY EndpointAssumption DEF Endpoint
<1>2. (IF endpoint.spec.mode = "ActivePassive" THEN endpoint.spec.primary ELSE NoMember)
        \in Members \cup {NoMember}
  BY <1>1 DEF SpecShape
<1> QED BY <1>1, <1>2 DEF Ready, Degraded, EndpointStatus

LEMMA NewEndpointType ==
    ASSUME NEW spec \in EndpointSpecs PROVE NewEndpoint(spec) \in Endpoint
BY DEF NewEndpoint, EmptyStatus, Endpoint, EndpointStatus

LEMMA DisturbType ==
    ASSUME TypeOK, NEW kind, Disturb(kind)
    PROVE  budget' \in 0 .. MaxDisturbances
BY EndpointAssumption DEF TypeOK, Disturb

--------------------------------------------------------------------------------
(* Writes.                                                                      *)

LEMMA StorePreserves ==
    ASSUME IInv, NEW e \in Endpoints, NEW object \in Endpoint \cup {None},
           StoreEndpoint(e, object)
    PROVE  /\ server' \in Objects /\ cache' = cache /\ lag' \subseteq Endpoints
           /\ server'.endpoints = [server.endpoints EXCEPT ![e] = object]
           /\ server'.services = server.services
           /\ \A f \in Endpoints : f \notin lag' => cache'.endpoints[f] = server'.endpoints[f]
<1>1. server' = [server EXCEPT !.endpoints = [server.endpoints EXCEPT ![e] = object]]
  BY DEF StoreEndpoint, IInv, TypeOK, Objects
<1>2. server.endpoints \in [Endpoints -> Endpoint \cup {None}]
  BY DEF IInv, TypeOK, Objects
<1>3. server'.endpoints = [server.endpoints EXCEPT ![e] = object]
  BY <1>1 DEF IInv, TypeOK, Objects
<1>4. server' \in Objects
  BY <1>1, <1>2 DEF IInv, TypeOK, Objects
<1>5. cache' = cache /\ lag' \subseteq Endpoints
  BY DEF StoreEndpoint, IInv, TypeOK
<1>6. \A f \in Endpoints : f \notin lag' => cache'.endpoints[f] = server'.endpoints[f]
  BY <1>2, <1>3 DEF StoreEndpoint, IInv, Coherent
<1>7. server'.services = server.services
  BY <1>1 DEF IInv, TypeOK, Objects
<1> QED BY <1>3, <1>4, <1>5, <1>6, <1>7

\* A write that keeps a finalizer where there is one leaves every copy as good as
\* it was.
FinalizersKept ==
    \A f \in Endpoints : HasFinalizer(server.endpoints[f]) => HasFinalizer(server'.endpoints[f])

LEMMA KeepingWrite ==
    ASSUME IInv, NEW e \in Endpoints, NEW object,
           server'.endpoints = [server.endpoints EXCEPT ![e] = object],
           HasFinalizer(server.endpoints[e]) => HasFinalizer(object)
    PROVE  FinalizersKept
BY DEF FinalizersKept, IInv, TypeOK, Objects

\* Somebody else's write of an endpoint leaves the reconcile where it is.
LEMMA EnvironmentWritePreserves ==
    ASSUME IInv, NEW e \in Endpoints, NEW object \in Endpoint \cup {None},
           WriteEndpoint(e, object),
           HasFinalizer(server.endpoints[e]) => HasFinalizer(object),
           UNCHANGED <<infra, lastUid, queue>>, budget' \in 0 .. MaxDisturbances
    PROVE  IInv'
<1>1. StoreEndpoint(e, object) /\ UNCHANGED <<current, pc, held, verdict>>
  BY DEF WriteEndpoint
<1>2. heldStale' = (heldStale \/ (current = e /\ object # server.endpoints[e]))
  BY DEF WriteEndpoint
<1>3. /\ server' \in Objects /\ cache' = cache /\ lag' \subseteq Endpoints
      /\ server'.endpoints = [server.endpoints EXCEPT ![e] = object]
      /\ \A f \in Endpoints : f \notin lag' => cache'.endpoints[f] = server'.endpoints[f]
  BY <1>1, StorePreserves
<1>4. FinalizersKept
  BY <1>3, KeepingWrite
<1>5. lag' = IF object = server.endpoints[e] THEN lag ELSE lag \cup {e}
  BY <1>1 DEF StoreEndpoint
<1>6. TypeOK'
  BY <1>1, <1>2, <1>3 DEF IInv, TypeOK, queue
<1>7. Coherent'
  <2>1. server.endpoints \in [Endpoints -> Endpoint \cup {None}]
    BY DEF IInv, TypeOK, Objects
  <2>2. (pc' # "idle" /\ ~heldStale') => held' = server'.endpoints[current']
    BY <1>1, <1>2, <1>3, <2>1 DEF IInv, TypeOK, Coherent
  <2> QED BY <1>3, <2>2 DEF Coherent
<1>8. Phases'
  BY <1>1, <1>2, <1>5 DEF IInv, Phases
<1>9. Guarded'
  BY <1>1, <1>3, <1>4 DEF IInv, TypeOK, Guarded, Vouches, FinalizersKept
<1> QED BY <1>6, <1>7, <1>8, <1>9 DEF IInv

\* A step that leaves the endpoints, the cached ones and the reconcile alone.
LEMMA OtherStepPreserves ==
    ASSUME IInv, server' \in Objects, cache' \in Objects,
           server'.endpoints = server.endpoints, cache'.endpoints = cache.endpoints,
           UNCHANGED <<lag, reconciler>>,
           queued' \subseteq Endpoints, timers' \subseteq Endpoints,
           infra' \in Infrastructure, lastUid' \in Nat, budget' \in 0 .. MaxDisturbances
    PROVE  IInv'
<1>1. TypeOK'
  BY DEF IInv, TypeOK, reconciler
<1>2. Coherent' /\ Phases' /\ Guarded'
  BY DEF IInv, Coherent, Phases, Guarded, Vouches, reconciler
<1> QED BY <1>1, <1>2 DEF IInv

\* A reconcile that ends without a write.
LEMMA FinishPreserves ==
    ASSUME IInv, pc # "idle", NEW retry \in BOOLEAN, Finish(retry), NoWrite,
           UNCHANGED <<infra, lastUid, queued>>, budget' \in 0 .. MaxDisturbances
    PROVE  IInv'
<1>1. TypeOK'
  BY DEF IInv, TypeOK, Finish, NoWrite
<1>2. Coherent' /\ Phases' /\ Guarded'
  BY DEF IInv, Coherent, Phases, Guarded, Vouches, Finish, NoWrite
<1> QED BY <1>1, <1>2 DEF IInv

--------------------------------------------------------------------------------
(* Every step preserves IInv.                                                   *)

LEMMA InitIInv == Init => IInv
<1> SUFFICES ASSUME Init PROVE IInv
  OBVIOUS
<1>1. PICK specs \in [Endpoints -> EndpointSpecs], ref \in FederationRefs :
        server = [endpoints |-> [e \in Endpoints |-> NewEndpoint(specs[e])],
                  workloads |-> [w \in Workloads |-> NewWorkload(1, ref)],
                  services  |-> [w \in Workloads |-> OwnService(1)]]
  BY DEF Init
<1>2. server \in Objects
  <2>1. NewWorkload(1, ref) \in Workload
    BY DEF NewWorkload, Workload
  <2>2. OwnService(1) \in Service
    BY NoAnnotationsType DEF OwnService, Service
  <2>3. \A e \in Endpoints : NewEndpoint(specs[e]) \in Endpoint
    BY NewEndpointType
  <2> QED BY <1>1, <2>1, <2>2, <2>3 DEF Objects
<1>3. TypeOK
  <2>1. infra \in Infrastructure /\ budget \in 0 .. MaxDisturbances
    BY EndpointAssumption DEF Init
  <2> QED BY <1>2, <2>1 DEF Init, TypeOK
<1>4. Coherent /\ Phases
  BY DEF Init, Coherent, Phases
<1>5. Guarded
  BY DEF Init, Guarded, Vouches
<1> QED BY <1>3, <1>4, <1>5 DEF IInv

LEMMA BeginPreserves ==
    ASSUME IInv, NEW e \in Endpoints, BeginAbsent(e) \/ Begin(e) PROVE IInv'
<1>1. CASE BeginAbsent(e)
  <2>1. /\ UNCHANGED <<server, cache, lag, infra, lastUid, timers, reconciler, budget>>
        /\ queued' \subseteq Endpoints
    BY <1>1 DEF BeginAbsent, IInv, TypeOK
  <2> QED BY <2>1, OtherStepPreserves DEF IInv, TypeOK
<1>2. CASE Begin(e)
  <2>1. /\ pc = "idle" /\ queued' \subseteq Endpoints
        /\ current' = e /\ held' = cache.endpoints[e] /\ heldStale' = (e \in lag)
        /\ pc' = IF cache.endpoints[e].deleting THEN "cleanup" ELSE "finalizer"
        /\ UNCHANGED <<server, cache, lag, infra, lastUid, timers, verdict, budget>>
    BY <1>2 DEF Begin, IInv, TypeOK
  <2>2. held' \in Endpoint
    BY <1>2, <2>1 DEF Begin, IInv, TypeOK, Objects
  <2>3. TypeOK'
    BY <2>1, <2>2 DEF IInv, TypeOK
  <2>4. Coherent' /\ Phases' /\ Guarded'
    BY <2>1 DEF IInv, Coherent, Phases, Guarded, Vouches
  <2> QED BY <2>3, <2>4 DEF IInv
<1> QED BY <1>1, <1>2

\* The first step: the finalizer is there, or is written, or the reconcile ends.
LEMMA AddFinalizerPreserves ==
    ASSUME IInv, AddFinalizer PROVE IInv'
<1>1. /\ pc = "finalizer" /\ held \in Endpoint /\ current \in Endpoints /\ ~held.deleting
      /\ UNCHANGED <<infra, lastUid, queued, budget>>
  BY DEF AddFinalizer, Step, IInv, TypeOK, Phases
<1>2. CASE held.finalizer /\ NoWrite /\ Goto("annotate")
  <2>1. TypeOK'
    BY <1>1, <1>2 DEF NoWrite, Goto, IInv, TypeOK
  <2>2. Coherent' /\ Phases' /\ Guarded'
    BY <1>1, <1>2 DEF NoWrite, Goto, IInv, Coherent, Phases, Guarded, Vouches
  <2> QED BY <2>1, <2>2 DEF IInv
<1>3. CASE Fail
  BY <1>1, <1>3, FinishPreserves DEF Fail, IInv, TypeOK
<1>4. CASE /\ ~heldStale
           /\ held' = [held EXCEPT !.finalizer = TRUE]
           /\ StoreEndpoint(current, held')
           /\ pc' = "annotate" /\ UNCHANGED <<current, heldStale, verdict, timers>>
  <2>1. held' \in Endpoint /\ held'.finalizer /\ ~held'.deleting
    BY <1>1, <1>4 DEF Endpoint
  <2>2. PICK object \in Endpoint : object = held'
    BY <2>1
  <2>3. /\ server' \in Objects /\ cache' = cache /\ lag' \subseteq Endpoints
        /\ server'.endpoints = [server.endpoints EXCEPT ![current] = object]
        /\ \A f \in Endpoints : f \notin lag' => cache'.endpoints[f] = server'.endpoints[f]
    BY <1>1, <1>4, <2>2, StorePreserves
  <2>4. HasFinalizer(object)
    BY <2>1, <2>2, ObjectAssumption DEF HasFinalizer
  <2>5. FinalizersKept
    BY <1>1, <2>3, <2>4, KeepingWrite
  <2>6. server'.endpoints[current] = object
    BY <1>1, <2>3 DEF IInv, TypeOK, Objects
  <2>7. TypeOK'
    BY <1>1, <1>4, <2>1, <2>3 DEF IInv, TypeOK
  <2>8. Coherent'
    BY <1>4, <2>2, <2>3, <2>6 DEF Coherent
  <2>9. Phases'
    BY <1>4, <2>1 DEF Phases
  <2>10. Guarded'
    BY <1>4, <2>2, <2>3, <2>4, <2>5, <2>6 DEF IInv, Guarded, Vouches, FinalizersKept
  <2> QED BY <2>7, <2>8, <2>9, <2>10 DEF IInv
<1> QED BY <1>2, <1>3, <1>4 DEF AddFinalizer

LEMMA WriteServiceType ==
    ASSUME IInv, NEW w \in Workloads, NEW object \in Service \cup {None}, WriteService(w, object)
    PROVE  /\ server' \in Objects /\ server'.endpoints = server.endpoints
           /\ server'.services = [server.services EXCEPT ![w] = object]
           /\ UNCHANGED <<cache, lag>>
<1>1. server' = [server EXCEPT !.services = [server.services EXCEPT ![w] = object]]
  BY DEF WriteService, IInv, TypeOK, Objects
<1>2. server.services \in [Workloads -> Service \cup {None}]
  BY DEF IInv, TypeOK, Objects
<1>3. server' \in Objects /\ server'.endpoints = server.endpoints
  BY <1>1, <1>2 DEF IInv, TypeOK, Objects
<1> QED BY <1>1, <1>3 DEF WriteService, IInv, TypeOK, Objects

LEMMA PatchServiceType ==
    ASSUME IInv, NEW w \in Workloads, NEW wanted \in Annotations,
           server.services[w] # None, PatchService(w, wanted)
    PROVE  /\ server' \in Objects /\ server'.endpoints = server.endpoints
           /\ UNCHANGED <<cache, lag>>
<1>1. server.services[w] \in Service
  BY DEF IInv, TypeOK, Objects
<1> DEFINE patched == MergePatch(server.services[w].annotations, cache.services[w].annotations,
                                 wanted)
           object == [server.services[w] EXCEPT !.annotations = patched]
<1>2. object \in Service
  BY <1>1, MergePatchType DEF Service
<1>3. WriteService(w, object)
  BY <1>1 DEF PatchService, Service
<1> HIDE DEF object
<1> QED BY <1>2, <1>3, WriteServiceType

\* The steps that write, or do not write, a Service, or give up.
LEMMA ServiceStepsPreserve ==
    ASSUME IInv, Refuse \/ Annotate \/ Cleanup PROVE IInv'
<1>1. /\ pc \in {"annotate", "cleanup"} /\ held \in Endpoint /\ current \in Endpoints
      /\ UNCHANGED <<infra, lastUid, queued, budget>>
  BY DEF Refuse, Annotate, Cleanup, Step, IInv, TypeOK
<1>2. held.spec.workloadRef \in Workloads
  BY <1>1, EndpointAssumption DEF Endpoint, SpecShape
<1> DEFINE w == held.spec.workloadRef
<1>3. ASSUME server' \in Objects, server'.endpoints = server.endpoints,
             UNCHANGED <<cache, lag, current, held, heldStale, timers>>,
             \/ pc' = "degraded" /\ verdict' \in Reasons
             \/ /\ pc' = "ready" \/ (pc = "cleanup" /\ pc' = "release")
                /\ verdict' = verdict
      PROVE  IInv'
  <2>1. verdict = "None"
    BY <1>1 DEF IInv, TypeOK
  <2>2. TypeOK'
    BY <1>1, <1>3, <2>1 DEF IInv, TypeOK
  <2>3. Coherent' /\ Phases' /\ Guarded'
    BY <1>1, <1>3 DEF IInv, Coherent, Phases, Guarded, Vouches
  <2> QED BY <2>2, <2>3 DEF IInv
<1>4. CASE Refuse
  <2>1. verdict' \in Reasons /\ pc' = "degraded"
    BY <1>4, ResolutionType DEF Refuse
  <2>2. UNCHANGED <<server, cache, lag, current, held, heldStale, timers>>
    BY <1>4 DEF Refuse, NoWrite
  <2>3. server' \in Objects
    BY <2>2 DEF IInv, TypeOK
  <2> QED BY <1>3, <2>1, <2>2, <2>3
<1>5. ASSUME Fail \/ (Finish(FALSE) /\ NoWrite) PROVE IInv'
  BY <1>1, <1>5, FinishPreserves DEF Fail, IInv, TypeOK
<1>6. CASE Annotate
  <2>1. CASE server.services[w] = None
    BY <1>5, <1>6, <2>1 DEF Annotate
  <2>2. CASE server.services[w] # None
    <3>1. PatchService(w, Desired(held.spec)) /\ Goto("ready")
      BY <1>6, <2>2 DEF Annotate
    <3>2. /\ server' \in Objects /\ server'.endpoints = server.endpoints
          /\ UNCHANGED <<cache, lag>>
      BY <1>2, <2>2, <3>1, DesiredType, PatchServiceType
    <3> QED BY <1>3, <3>1, <3>2 DEF Goto
  <2> QED BY <2>1, <2>2
<1>7. CASE Cleanup
  <2>1. CASE ~held.finalizer
    BY <1>5, <1>7, <2>1 DEF Cleanup
  <2>2. CASE held.finalizer
    <3>1. Goto("release") /\ pc = "cleanup"
      BY <1>7, <2>2 DEF Cleanup, Step
    <3>2. NoWrite \/ (PatchService(w, NoAnnotations) /\ server.services[w] # None)
      BY <1>7, <2>2 DEF Cleanup
    <3>3. /\ server' \in Objects /\ server'.endpoints = server.endpoints
          /\ UNCHANGED <<cache, lag>>
      BY <1>2, <3>2, NoAnnotationsType, PatchServiceType DEF NoWrite, IInv, TypeOK
    <3> QED BY <1>3, <3>1, <3>3 DEF Goto
  <2> QED BY <2>1, <2>2
<1> QED BY <1>4, <1>6, <1>7

\* The finalizer goes: nobody else has a live copy left, for the cache has seen
\* the deletion that this reconcile saw.
LEMMA ReleasePreserves ==
    ASSUME IInv, ReleaseEndpoint PROVE IInv'
<1>1. /\ pc = "release" /\ current \in Endpoints
      /\ UNCHANGED <<infra, lastUid, queued, budget>>
  BY DEF ReleaseEndpoint, Step, IInv, TypeOK
<1>2. CASE heldStale
  BY <1>1, <1>2, FinishPreserves DEF ReleaseEndpoint, Fail, IInv, TypeOK
<1>3. CASE ~heldStale
  <2>1. StoreEndpoint(current, None) /\ Finish(FALSE)
    BY <1>3 DEF ReleaseEndpoint
  <2>2. /\ server' \in Objects /\ cache' = cache /\ lag' \subseteq Endpoints
        /\ server'.endpoints = [server.endpoints EXCEPT ![current] = None]
        /\ \A f \in Endpoints : f \notin lag' => cache'.endpoints[f] = server'.endpoints[f]
    BY <1>1, <2>1, StorePreserves
  <2>3. pc' = "idle" /\ TypeOK'
    BY <1>1, <2>1, <2>2 DEF Finish, IInv, TypeOK
  <2>4. cache.endpoints[current] = held /\ held.deleting
    BY <1>1, <1>3 DEF IInv, Coherent, Phases
  <2>5. \A e \in Endpoints : e # current => server'.endpoints[e] = server.endpoints[e]
    BY <2>2 DEF IInv, TypeOK, Objects
  <2>6. \A e \in Endpoints : Vouches(cache.endpoints[e], e)'
    BY <2>2, <2>4, <2>5 DEF IInv, Guarded, Vouches
  <2> QED BY <2>2, <2>3, <2>6 DEF IInv, Coherent, Phases, Guarded
<1> QED BY <1>2, <1>3

\* Ending a reconcile with a status write, or with the conflict that prevents it.
LEMMA ReportsPreserve ==
    ASSUME IInv, ReportReady \/ ReportDegraded PROVE IInv'
<1>1. /\ pc # "idle" /\ current \in Endpoints /\ held \in Endpoint
      /\ UNCHANGED <<infra, lastUid, queued, budget>>
  BY DEF ReportReady, ReportDegraded, Step, IInv, TypeOK
<1>2. PICK status \in EndpointStatus, requeue \in BOOLEAN : UpdateStatus(status, requeue)
  BY <1>1, StatusType DEF ReportReady, ReportDegraded, Step, IInv, TypeOK
<1>3. PICK retry \in BOOLEAN : Finish(retry)
  BY <1>2 DEF UpdateStatus
<1>4. CASE NoWrite
  BY <1>1, <1>3, <1>4, FinishPreserves DEF IInv, TypeOK
<1>5. CASE ~heldStale /\ StoreEndpoint(current, [held EXCEPT !.status = status])
  <2> DEFINE object == [held EXCEPT !.status = status]
  <2>1. object \in Endpoint /\ object.finalizer = held.finalizer
    BY <1>1 DEF Endpoint
  <2>2. held = server.endpoints[current]
    BY <1>1, <1>5 DEF IInv, Coherent
  <2>3. HasFinalizer(server.endpoints[current]) => HasFinalizer(object)
    BY <2>1, <2>2, ObjectAssumption DEF HasFinalizer
  <2> HIDE DEF object
  <2>4. /\ server' \in Objects /\ cache' = cache /\ lag' \subseteq Endpoints
        /\ server'.endpoints = [server.endpoints EXCEPT ![current] = object]
        /\ \A f \in Endpoints : f \notin lag' => cache'.endpoints[f] = server'.endpoints[f]
    BY <1>1, <1>5, <2>1, StorePreserves DEF object
  <2>5. FinalizersKept
    BY <1>1, <2>3, <2>4, KeepingWrite
  <2>6. pc' = "idle" /\ TypeOK'
    BY <1>1, <1>3, <2>4 DEF Finish, IInv, TypeOK
  <2> QED BY <2>4, <2>5, <2>6 DEF IInv, Coherent, Phases, Guarded, Vouches, FinalizersKept
<1> QED BY <1>2, <1>4, <1>5 DEF UpdateStatus

LEMMA QueuePreserves ==
    ASSUME IInv,
           \/ \E e \in Endpoints : SyncEndpoint(e) \/ TimerFires(e)
           \/ \E w \in Workloads : SyncWorkload(w) \/ SyncService(w)
    PROVE  IInv'
<1>1. ASSUME NEW e \in Endpoints, SyncEndpoint(e) PROVE IInv'
  <2>1. /\ e \in lag /\ lag' = lag \ {e} /\ queued' = queued \cup {e}
        /\ cache' = [cache EXCEPT !.endpoints = [cache.endpoints EXCEPT ![e] = server.endpoints[e]]]
        /\ UNCHANGED <<server, infra, lastUid, timers, reconciler, budget>>
    BY <1>1 DEF SyncEndpoint, IInv, TypeOK, Objects
  <2>2. server.endpoints \in [Endpoints -> Endpoint \cup {None}]
    BY DEF IInv, TypeOK, Objects
  <2>3. cache' \in Objects
    BY <2>1, <2>2 DEF IInv, TypeOK, Objects
  <2>4. cache'.endpoints = [cache.endpoints EXCEPT ![e] = server.endpoints[e]]
    BY <2>1 DEF IInv, TypeOK, Objects
  <2>5. \A f \in Endpoints : cache'.endpoints[f] = IF f = e THEN server.endpoints[e]
                                                            ELSE cache.endpoints[f]
    BY <2>4 DEF IInv, TypeOK, Objects
  <2>6. TypeOK'
    BY <2>1, <2>3 DEF IInv, TypeOK, reconciler
  <2>7. Coherent' /\ Phases'
    BY <2>1, <2>5 DEF IInv, Coherent, Phases, reconciler
  <2>8. Guarded'
    BY <2>1, <2>5 DEF IInv, Guarded, Vouches, reconciler
  <2> QED BY <2>6, <2>7, <2>8 DEF IInv
<1>2. ASSUME NEW e \in Endpoints, TimerFires(e) PROVE IInv'
  <2>1. /\ UNCHANGED <<server, cache, lag, infra, lastUid, reconciler, budget>>
        /\ queued' \subseteq Endpoints /\ timers' \subseteq Endpoints
    BY <1>2 DEF TimerFires, IInv, TypeOK
  <2> QED BY <2>1, OtherStepPreserves DEF IInv, TypeOK
<1>3. ASSUME NEW w \in Workloads, SyncWorkload(w) \/ SyncService(w) PROVE IInv'
  <2>1. UNCHANGED <<server, lag, infra, lastUid, queue, reconciler, budget>>
    BY <1>3 DEF SyncWorkload, SyncService
  <2>2. \/ cache' = [cache EXCEPT !.workloads =
                        [cache.workloads EXCEPT ![w] = server.workloads[w]]]
        \/ cache' = [cache EXCEPT !.services = [cache.services EXCEPT ![w] = server.services[w]]]
    BY <1>3 DEF SyncWorkload, SyncService, IInv, TypeOK, Objects
  <2>3. cache' \in Objects /\ cache'.endpoints = cache.endpoints
    BY <2>2 DEF IInv, TypeOK, Objects
  <2> QED BY <2>1, <2>3, OtherStepPreserves DEF IInv, TypeOK, queue
<1> QED BY <1>1, <1>2, <1>3

LEMMA EndpointEditsPreserve ==
    ASSUME IInv,
           \/ \E e \in Endpoints, spec \in EndpointSpecs :
                CreateEndpoint(e, spec) \/ EditEndpoint(e, spec)
           \/ \E e \in Endpoints : DeleteEndpoint(e)
    PROVE  IInv'
<1>1. ASSUME NEW e \in Endpoints, NEW spec \in EndpointSpecs, CreateEndpoint(e, spec) PROVE IInv'
  <2>1. budget' \in 0 .. MaxDisturbances
    BY <1>1, DisturbType DEF CreateEndpoint, IInv
  <2>2. ~HasFinalizer(server.endpoints[e])
    BY <1>1 DEF CreateEndpoint, HasFinalizer
  <2> QED BY <1>1, <2>1, <2>2, NewEndpointType, EnvironmentWritePreserves DEF CreateEndpoint
<1>2. ASSUME NEW e \in Endpoints, NEW spec \in EndpointSpecs, EditEndpoint(e, spec) PROVE IInv'
  <2> DEFINE object == [server.endpoints[e] EXCEPT !.spec = spec, !.generation = @ + 1]
  <2>1. budget' \in 0 .. MaxDisturbances
    BY <1>2, DisturbType DEF EditEndpoint, IInv
  <2>2. server.endpoints[e] \in Endpoint
    BY <1>2 DEF EditEndpoint, IInv, TypeOK, Objects
  <2>3. object = [server.endpoints[e] EXCEPT !.spec = spec,
                     !.generation = server.endpoints[e].generation + 1]
    BY <2>2 DEF Endpoint
  <2>4. server.endpoints[e].generation + 1 \in Nat
    BY <2>2 DEF Endpoint
  <2>5. object \in Endpoint /\ object.finalizer = server.endpoints[e].finalizer
    BY <2>2, <2>3, <2>4 DEF Endpoint
  <2>6. WriteEndpoint(e, object) /\ UNCHANGED <<infra, lastUid, queue>>
    BY <1>2 DEF EditEndpoint
  <2> HIDE DEF object
  <2>7. HasFinalizer(server.endpoints[e]) => HasFinalizer(object)
    BY <2>5, ObjectAssumption DEF HasFinalizer
  <2> QED BY <2>1, <2>5, <2>6, <2>7, EnvironmentWritePreserves
<1>3. ASSUME NEW e \in Endpoints, DeleteEndpoint(e) PROVE IInv'
  <2> DEFINE marked == [server.endpoints[e] EXCEPT !.deleting = TRUE, !.generation = @ + 1]
             object == IF server.endpoints[e].finalizer THEN marked ELSE None
  <2>1. budget' \in 0 .. MaxDisturbances
    BY <1>3, DisturbType DEF DeleteEndpoint, IInv
  <2>2. server.endpoints[e] \in Endpoint
    BY <1>3 DEF DeleteEndpoint, IInv, TypeOK, Objects
  <2>3. marked = [server.endpoints[e] EXCEPT !.deleting = TRUE,
                     !.generation = server.endpoints[e].generation + 1]
    BY <2>2 DEF Endpoint
  <2>4. server.endpoints[e].generation + 1 \in Nat
    BY <2>2 DEF Endpoint
  <2>5. marked \in Endpoint /\ marked.finalizer = server.endpoints[e].finalizer
    BY <2>2, <2>3, <2>4 DEF Endpoint
  <2>6. WriteEndpoint(e, object) /\ UNCHANGED <<infra, lastUid, queue>>
    BY <1>3 DEF DeleteEndpoint
  <2> HIDE DEF marked
  <2>7. HasFinalizer(server.endpoints[e]) => HasFinalizer(object)
    BY <2>5, ObjectAssumption DEF HasFinalizer
  <2>8. object \in Endpoint \cup {None}
    BY <2>5
  <2> QED BY <2>1, <2>6, <2>7, <2>8, EnvironmentWritePreserves
<1> QED BY <1>1, <1>2, <1>3

LEMMA WriteWorkloadType ==
    ASSUME IInv, NEW w \in Workloads, NEW object \in Workload \cup {None}, WriteWorkload(w, object)
    PROVE  /\ server' \in Objects /\ server'.endpoints = server.endpoints
           /\ UNCHANGED <<cache, lag>>
<1>1. server' = [server EXCEPT !.workloads = [server.workloads EXCEPT ![w] = object]]
  BY DEF WriteWorkload, IInv, TypeOK, Objects
<1>2. server.workloads \in [Workloads -> Workload \cup {None}]
  BY DEF IInv, TypeOK, Objects
<1>3. server' \in Objects /\ server'.endpoints = server.endpoints
  BY <1>1, <1>2 DEF IInv, TypeOK, Objects
<1> QED BY <1>3 DEF WriteWorkload

LEMMA WorkloadEditsPreserve ==
    ASSUME IInv, NEW w \in Workloads,
           \/ \E ref \in FederationRefs : CreateWorkload(w, ref)
           \/ DeleteWorkload(w) \/ ExcludeMember(w)
    PROVE  IInv'
<1>1. /\ budget' \in 0 .. MaxDisturbances /\ lastUid' \in Nat
      /\ UNCHANGED <<infra, queue, reconciler>>
  BY DisturbType DEF CreateWorkload, DeleteWorkload, ExcludeMember, IInv, TypeOK
<1>2. PICK object \in Workload \cup {None} : WriteWorkload(w, object)
  <2>1. ASSUME NEW ref \in FederationRefs, CreateWorkload(w, ref)
        PROVE  \E object \in Workload \cup {None} : WriteWorkload(w, object)
    <3>1. NewWorkload(lastUid', ref) \in Workload BY <1>1 DEF NewWorkload, Workload
    <3> QED BY <2>1, <3>1 DEF CreateWorkload
  <2>2. CASE DeleteWorkload(w)
    BY <2>2 DEF DeleteWorkload
  <2>3. CASE ExcludeMember(w)
    <3>1. server.workloads[w] \in Workload
      BY <2>3 DEF ExcludeMember, IInv, TypeOK, Objects
    <3>2. [server.workloads[w] EXCEPT !.targeted = FALSE] \in Workload
      BY <3>1 DEF Workload
    <3> QED BY <2>3, <3>2 DEF ExcludeMember
  <2> QED BY <2>1, <2>2, <2>3
<1>3. /\ server' \in Objects /\ server'.endpoints = server.endpoints
      /\ UNCHANGED <<cache, lag>>
  BY <1>2, WriteWorkloadType
<1> QED BY <1>1, <1>3, OtherStepPreserves DEF IInv, TypeOK, queue

LEMMA ServiceEditsPreserve ==
    ASSUME IInv, NEW w \in Workloads,
           CreateService(w) \/ RemoveService(w) \/ ReplaceService(w) \/ GarbageCollect(w)
    PROVE  IInv'
<1>1. /\ budget' \in 0 .. MaxDisturbances
      /\ UNCHANGED <<infra, lastUid, queue, reconciler>>
  BY DisturbType DEF CreateService, RemoveService, ReplaceService, GarbageCollect, IInv, TypeOK
<1>2. PICK object \in Service \cup {None} : WriteService(w, object)
  <2>1. CASE CreateService(w)
    <3>1. server.workloads[w].uid \in Nat
      BY <2>1 DEF CreateService, IInv, TypeOK, Objects, Workload
    <3>2. OwnService(server.workloads[w].uid) \in Service
      BY <3>1, NoAnnotationsType DEF OwnService, Service
    <3> QED BY <2>1, <3>2 DEF CreateService
  <2>2. CASE RemoveService(w) \/ GarbageCollect(w)
    BY <2>2 DEF RemoveService, GarbageCollect
  <2>3. CASE ReplaceService(w)
    <3>1. [owner |-> NoController, annotations |-> NoAnnotations] \in Service
      BY NoAnnotationsType DEF Service
    <3> QED BY <2>3, <3>1 DEF ReplaceService
  <2> QED BY <2>1, <2>2, <2>3
<1>3. /\ server' \in Objects /\ server'.endpoints = server.endpoints
      /\ UNCHANGED <<cache, lag>>
  BY <1>2, WriteServiceType
<1> QED BY <1>1, <1>3, OtherStepPreserves DEF IInv, TypeOK, queue

LEMMA FailuresPreserve ==
    ASSUME IInv, (\E i \in Infras : ChangeInfrastructure(i)) \/ ApiCallFails \/ Restart
    PROVE  IInv'
<1>1. budget' \in 0 .. MaxDisturbances
  BY DisturbType DEF ChangeInfrastructure, ApiCallFails, Restart, IInv
<1>2. ASSUME NEW i \in Infras, ChangeInfrastructure(i) PROVE IInv'
  BY <1>1, <1>2, EndpointAssumption, OtherStepPreserves
  DEF ChangeInfrastructure, IInv, TypeOK, queue
<1>3. CASE ApiCallFails
  BY <1>1, <1>3, FinishPreserves DEF ApiCallFails, Fail
<1>4. CASE Restart
  <2>1. /\ UNCHANGED <<server, infra, lastUid>> /\ cache' = server /\ lag' = {}
        /\ pc' = "idle" /\ current' = None /\ held' = None /\ heldStale' = FALSE
        /\ verdict' = "None" /\ timers' = {} /\ queued' \subseteq Endpoints
    BY <1>4 DEF Restart
  <2>2. TypeOK' BY <1>1, <2>1 DEF IInv, TypeOK
  <2>3. Coherent' /\ Phases' /\ Guarded'
    BY <2>1 DEF Coherent, Phases, Guarded, Vouches
  <2> QED BY <2>2, <2>3 DEF IInv
<1> QED BY <1>2, <1>3, <1>4

LEMMA StepPreserves == IInv /\ [Next]_vars => IInv'
<1> SUFFICES ASSUME IInv, [Next]_vars PROVE IInv'
  OBVIOUS
<1>1. CASE Reconcile
  BY <1>1, BeginPreserves, AddFinalizerPreserves, ServiceStepsPreserve, ReleasePreserves,
     ReportsPreserve DEF Reconcile
<1>2. CASE \/ \E e \in Endpoints : SyncEndpoint(e) \/ TimerFires(e)
           \/ \E w \in Workloads : SyncWorkload(w) \/ SyncService(w)
  BY <1>2, QueuePreserves
<1>3. CASE Environment
  BY <1>3, EndpointEditsPreserve, WorkloadEditsPreserve, ServiceEditsPreserve, FailuresPreserve
  DEF Environment
<1>4. CASE UNCHANGED vars
  BY <1>4, OtherStepPreserves DEF vars, queue, IInv, TypeOK
<1> QED BY <1>1, <1>2, <1>3, <1>4 DEF Next

\* What resourceVersions and the order of the reconcile's steps guarantee holds in
\* every behaviour.
THEOREM Invariance == Spec => []IInv
BY InitIInv, StepPreserves, PTL DEF Spec

\* No sequence of steps takes the controller's state out of its types; in
\* particular a verdict is carried exactly from a refusal to its report.
THEOREM TypeCorrect == Spec => []TypeOK
BY Invariance, PTL DEF IInv

--------------------------------------------------------------------------------
(* What a reconcile does to endpoints and Services.                             *)

\* Only Annotate and Cleanup change a Service, and Cleanup only removes.
LEMMA ServiceWrites ==
    ASSUME IInv, Reconcile, NEW w \in Workloads, NEW k \in {"global", "shared"},
           server.services[w] # None, server'.services[w] # None,
           server'.services[w].annotations[k] # "absent",
           server'.services[w].annotations[k] # server.services[w].annotations[k]
    PROVE  Annotate
<1>1. server'.services # server.services
  OBVIOUS
<1>2. ASSUME NEW e \in Endpoints, BeginAbsent(e) \/ Begin(e) PROVE FALSE
  BY <1>1, <1>2 DEF BeginAbsent, Begin
<1>3. ASSUME NEW e \in Endpoints, NEW object \in Endpoint \cup {None}, StoreEndpoint(e, object)
      PROVE  FALSE
  BY <1>1, <1>3, StorePreserves
<1>4. CASE AddFinalizer
  <2>1. /\ pc = "finalizer" /\ held \in Endpoint /\ current \in Endpoints
    BY <1>4 DEF AddFinalizer, Step, IInv, TypeOK
  <2>2. [held EXCEPT !.finalizer = TRUE] \in Endpoint
    BY <2>1 DEF Endpoint
  <2> QED BY <1>1, <1>3, <1>4, <2>1, <2>2 DEF AddFinalizer, NoWrite, Fail
<1>5. CASE Refuse
  BY <1>1, <1>5 DEF Refuse, NoWrite
<1>6. CASE Cleanup
  <2> DEFINE v == held.spec.workloadRef
  <2>1. held \in Endpoint /\ v \in Workloads
    BY <1>6, EndpointAssumption DEF Cleanup, Step, IInv, TypeOK, Endpoint, SpecShape
  <2>2. server.services[v] # None /\ PatchService(v, NoAnnotations)
    BY <1>1, <1>6 DEF Cleanup, NoWrite
  <2>3. server.services[v] \in Service
    BY <2>1, <2>2 DEF IInv, TypeOK, Objects
  <2> DEFINE patched == MergePatch(server.services[v].annotations,
                                   cache.services[v].annotations, NoAnnotations)
             object == [server.services[v] EXCEPT !.annotations = patched]
  <2>4. WriteService(v, object) /\ object \in Service /\ object.annotations = patched
    BY <2>2, <2>3, NoAnnotationsType, MergePatchType DEF PatchService, Service
  <2>5. patched[k] = "absent" \/ patched[k] = server.services[v].annotations[k]
    BY <2>3 DEF MergePatch, NoAnnotations, Service, Annotations
  <2> HIDE DEF object, patched
  <2>6. server'.services = [server.services EXCEPT ![v] = object]
    BY <2>1, <2>4, WriteServiceType
  <2> QED BY <2>1, <2>4, <2>5, <2>6 DEF IInv, TypeOK, Objects
<1>7. CASE ReleaseEndpoint
  <2>1. current \in Endpoints
    BY <1>7 DEF ReleaseEndpoint, Step, IInv, TypeOK
  <2> QED BY <1>1, <1>3, <1>7, <2>1 DEF ReleaseEndpoint, Fail, NoWrite
<1>8. CASE ReportReady \/ ReportDegraded
  <2>1. held \in Endpoint /\ current \in Endpoints
    BY <1>8 DEF ReportReady, ReportDegraded, Step, IInv, TypeOK
  <2>2. PICK status \in EndpointStatus, requeue \in BOOLEAN : UpdateStatus(status, requeue)
    BY <1>8, <2>1, StatusType DEF ReportReady, ReportDegraded, Step, IInv, TypeOK
  <2>3. [held EXCEPT !.status = status] \in Endpoint
    BY <2>1 DEF Endpoint
  <2> QED BY <1>1, <1>3, <2>1, <2>2, <2>3 DEF UpdateStatus, NoWrite
<1> QED BY <1>2, <1>4, <1>5, <1>6, <1>7, <1>8 DEF Reconcile

\* Whatever happens between the read of the copy and the patch, when an annotation
\* is written the endpoint has the finalizer that will have it removed.
THEOREM FinalizerFirst == Spec => FinalizerBeforeAnnotations
<1>1. IInv /\ [Next]_vars =>
        [\A w \in Workloads :
            (/\ Reconcile
             /\ server.services[w] # None /\ server'.services[w] # None
             /\ \E k \in {"global", "shared"} :
                    /\ server'.services[w].annotations[k] # "absent"
                    /\ server'.services[w].annotations[k] # server.services[w].annotations[k])
                => server.endpoints[current] # None /\ server.endpoints[current].finalizer]_vars
  <2> SUFFICES ASSUME IInv, Reconcile, NEW w \in Workloads, NEW k \in {"global", "shared"},
                      server.services[w] # None, server'.services[w] # None,
                      server'.services[w].annotations[k] # "absent",
                      server'.services[w].annotations[k] # server.services[w].annotations[k]
               PROVE  server.endpoints[current] # None /\ server.endpoints[current].finalizer
    OBVIOUS
  <2>1. Annotate
    BY ServiceWrites
  <2>2. pc = "annotate" /\ held \in Endpoint
    BY <2>1 DEF Annotate, Step, IInv, TypeOK
  <2>3. HasFinalizer(held) /\ ~held.deleting
    BY <2>2, ObjectAssumption DEF IInv, Phases, HasFinalizer
  <2> QED BY <2>2, <2>3 DEF IInv, Guarded, Vouches, HasFinalizer
<1> QED BY <1>1, Invariance, PTL DEF Spec, FinalizerBeforeAnnotations

\* What a reconcile may make of an endpoint `old`.
KeepsTheSpec(old, new) ==
    \/ new = old
    \/ /\ old # None /\ new # None
       /\ new.spec = old.spec /\ new.generation = old.generation
       /\ new.deleting = old.deleting
    \/ old # None /\ old.deleting /\ new = None

LEMMA StoreKeepsTheSpec ==
    ASSUME IInv, NEW object \in Endpoint \cup {None}, StoreEndpoint(current, object),
           current \in Endpoints, KeepsTheSpec(server.endpoints[current], object)
    PROVE  \A e \in Endpoints : KeepsTheSpec(server.endpoints[e], server'.endpoints[e])
<1>1. server'.endpoints = [server.endpoints EXCEPT ![current] = object]
  BY StorePreserves
<1>2. \A e \in Endpoints : server'.endpoints[e] = IF e = current THEN object
                                                              ELSE server.endpoints[e]
  BY <1>1 DEF IInv, TypeOK, Objects
<1> QED BY <1>2 DEF KeepsTheSpec

LEMMA ReconcileOnEndpoints ==
    ASSUME IInv, Reconcile, NEW e \in Endpoints
    PROVE  KeepsTheSpec(server.endpoints[e], server'.endpoints[e])
<1>1. ASSUME server'.endpoints = server.endpoints
      PROVE  KeepsTheSpec(server.endpoints[e], server'.endpoints[e])
  BY <1>1 DEF KeepsTheSpec
<1>2. CASE (\E f \in Endpoints : BeginAbsent(f) \/ Begin(f)) \/ Refuse
  BY <1>1, <1>2 DEF BeginAbsent, Begin, Refuse, NoWrite
<1>3. ASSUME pc # "idle", ~heldStale
      PROVE  current \in Endpoints /\ held \in Endpoint /\ held # None
                /\ held = server.endpoints[current]
  BY <1>3, ObjectAssumption DEF IInv, TypeOK, Coherent
<1>4. CASE AddFinalizer
  <2>1. CASE NoWrite
    BY <1>1, <2>1 DEF NoWrite
  <2>2. CASE ~heldStale /\ StoreEndpoint(current, [held EXCEPT !.finalizer = TRUE])
    <3> DEFINE object == [held EXCEPT !.finalizer = TRUE]
    <3>1. pc # "idle"
      BY <1>4 DEF AddFinalizer, Step
    <3>2. /\ object \in Endpoint /\ object.spec = held.spec
          /\ object.generation = held.generation /\ object.deleting = held.deleting
      BY <1>3, <2>2, <3>1 DEF Endpoint
    <3> HIDE DEF object
    <3>3. KeepsTheSpec(server.endpoints[current], object)
      BY <1>3, <2>2, <3>1, <3>2, ObjectAssumption DEF KeepsTheSpec
    <3>4. StoreEndpoint(current, object)
      BY <2>2 DEF object
    <3> QED BY <1>3, <2>2, <3>1, <3>2, <3>3, <3>4, StoreKeepsTheSpec
  <2> QED BY <1>4, <2>1, <2>2 DEF AddFinalizer, Fail
<1>5. CASE Annotate \/ Cleanup
  <2> DEFINE w == held.spec.workloadRef
  <2>1. w \in Workloads
    BY <1>5, EndpointAssumption DEF Annotate, Cleanup, Step, IInv, TypeOK, Endpoint, SpecShape
  <2>2. \/ NoWrite
        \/ /\ server.services[w] # None
           /\ PatchService(w, NoAnnotations) \/ PatchService(w, Desired(held.spec))
    BY <1>5 DEF Annotate, Cleanup, Fail
  <2> QED BY <1>1, <2>1, <2>2, NoAnnotationsType, DesiredType, PatchServiceType DEF NoWrite
<1>6. CASE ReleaseEndpoint
  <2>1. CASE NoWrite
    BY <1>1, <2>1 DEF NoWrite
  <2>2. CASE ~heldStale /\ StoreEndpoint(current, None)
    <3>1. pc # "idle" /\ held.deleting
      BY <1>6 DEF ReleaseEndpoint, Step, IInv, Phases
    <3>2. KeepsTheSpec(server.endpoints[current], None)
      BY <1>3, <2>2, <3>1 DEF KeepsTheSpec
    <3> QED BY <1>3, <2>2, <3>1, <3>2, StoreKeepsTheSpec
  <2> QED BY <1>6, <2>1, <2>2 DEF ReleaseEndpoint, Fail
<1>7. CASE ReportReady \/ ReportDegraded
  <2>1. pc # "idle" /\ held \in Endpoint
    BY <1>7 DEF ReportReady, ReportDegraded, Step, IInv, TypeOK
  <2>2. PICK status \in EndpointStatus, requeue \in BOOLEAN : UpdateStatus(status, requeue)
    BY <1>7, <2>1, StatusType DEF ReportReady, ReportDegraded, Step, IInv, TypeOK
  <2>3. CASE NoWrite
    BY <1>1, <2>3 DEF NoWrite
  <2>4. CASE ~heldStale /\ StoreEndpoint(current, [held EXCEPT !.status = status])
    <3> DEFINE object == [held EXCEPT !.status = status]
    <3>1. /\ object \in Endpoint /\ object.spec = held.spec
          /\ object.generation = held.generation /\ object.deleting = held.deleting
      BY <2>1 DEF Endpoint
    <3> HIDE DEF object
    <3>2. KeepsTheSpec(server.endpoints[current], object)
      BY <1>3, <2>1, <2>4, <3>1, ObjectAssumption DEF KeepsTheSpec
    <3>3. StoreEndpoint(current, object)
      BY <2>4 DEF object
    <3> QED BY <1>3, <2>1, <2>4, <3>1, <3>2, <3>3, StoreKeepsTheSpec
  <2> QED BY <2>2, <2>3, <2>4 DEF UpdateStatus
<1> QED BY <1>2, <1>4, <1>5, <1>6, <1>7 DEF Reconcile

\* No write of the operator undoes an edit or a deletion mark, and none makes an
\* endpoint disappear that nobody has deleted.
THEOREM EditsSurvive == Spec => ReconcileKeepsTheSpec
<1>1. IInv /\ [Next]_vars =>
        [Reconcile => \A e \in Endpoints :
            LET old == server.endpoints[e]
                new == server'.endpoints[e]
            IN \/ new = old
               \/ /\ old # None /\ new # None
                  /\ new.spec = old.spec /\ new.generation = old.generation
                  /\ new.deleting = old.deleting
               \/ old # None /\ old.deleting /\ new = None]_vars
  BY ReconcileOnEndpoints DEF KeepsTheSpec
<1> QED BY <1>1, Invariance, PTL DEF Spec, ReconcileKeepsTheSpec

--------------------------------------------------------------------------------
(* At rest everything is reported.                                              *)

AtRest(endpoint) ==
    endpoint.finalizer /\ ~endpoint.deleting /\ endpoint.status = Ready(endpoint)

\* Nothing is on its way to the reconciler about e.
Quiet(e) ==
    e \notin queued /\ e \notin timers /\ e \notin lag /\ (pc # "idle" => current # e)

\* No endpoint is left behind: a stale copy belongs to an endpoint that is queued or
\* will be, and an endpoint that nothing is on its way about is Ready. An endpoint that
\* stays after its deletion has a finalizer, so that a cleanup never ends with
\* neither a removal nor a retry.
Attended ==
    /\ \A e \in Endpoints :
            (server.endpoints[e] # None /\ server.endpoints[e].deleting)
                => server.endpoints[e].finalizer
    /\ (pc # "idle" /\ heldStale) => current \in lag \cup queued
    /\ pc \in {"ready", "degraded"} => held.finalizer /\ ~held.deleting
    /\ \A e \in Endpoints :
            (server.endpoints[e] # None /\ Quiet(e)) => AtRest(server.endpoints[e])

\* A step that leaves the endpoints and the cached versions alone, and takes nothing
\* from the queue and the timers.
LEMMA ElsewhereAttended ==
    ASSUME IInv, Attended, server'.endpoints = server.endpoints,
           UNCHANGED <<lag, current, held, heldStale>>,
           pc' = "idle" <=> pc = "idle",
           pc' \in {"ready", "degraded"} => held.finalizer /\ ~held.deleting,
           queued \subseteq queued', timers \subseteq timers' \cup queued'
    PROVE  Attended'
BY DEF Attended, Quiet

\* A reconcile ends without a write: it comes back, or there was nothing to do.
LEMMA FinishAttended ==
    ASSUME IInv, Attended, pc # "idle", NEW retry \in BOOLEAN, Finish(retry), NoWrite,
           UNCHANGED queued,
           \/ retry \/ heldStale
           \/ server.endpoints[current] = None \/ AtRest(server.endpoints[current])
    PROVE  Attended'
<1>1. /\ UNCHANGED <<server, lag, queued>> /\ pc' = "idle" /\ current' = None
      /\ timers' = IF retry THEN timers \cup {current} ELSE timers
  BY DEF Finish, NoWrite
<1>2. ASSUME NEW e \in Endpoints, server.endpoints[e] # None, Quiet(e)'
      PROVE  AtRest(server.endpoints[e])
  <2>1. CASE e # current
    BY <1>1, <1>2, <2>1 DEF Attended, Quiet
  <2>2. CASE e = current
    BY <1>1, <1>2, <2>2 DEF Attended, Quiet
  <2> QED BY <2>1, <2>2
<1> QED BY <1>1, <1>2 DEF Attended

\* A write to an endpoint: whoever makes it, the event of it is to come.
LEMMA StoreAttended ==
    ASSUME IInv, Attended, NEW e \in Endpoints, NEW object \in Endpoint \cup {None},
           StoreEndpoint(e, object), object # server.endpoints[e],
           (object # None /\ object.deleting) => object.finalizer,
           UNCHANGED queued, timers \subseteq timers',
           \/ pc' = "idle" /\ e = current
           \/ /\ UNCHANGED current /\ (pc' = "idle" <=> pc = "idle")
              /\ heldStale' => (heldStale \/ e = current),
           pc' \in {"ready", "degraded"} => held'.finalizer /\ ~held'.deleting
    PROVE  Attended'
<1>1. lag' = lag \cup {e}
  BY DEF StoreEndpoint
<1>2. \A f \in Endpoints : server'.endpoints[f] = IF f = e THEN object ELSE server.endpoints[f]
  <2>1. server'.endpoints = [server.endpoints EXCEPT ![e] = object]
    BY StorePreserves
  <2> QED BY <2>1 DEF IInv, TypeOK, Objects
<1>3. ASSUME pc' # "idle", heldStale' PROVE current' \in lag' \cup queued'
  <2>1. current' = current /\ pc # "idle" /\ (heldStale \/ e = current)
    BY <1>3
  <2> QED BY <1>1, <2>1 DEF Attended
<1>4. ASSUME NEW f \in Endpoints, server'.endpoints[f] # None, Quiet(f)'
      PROVE  AtRest(server'.endpoints[f])
  <2>1. f # e /\ f \notin lag /\ f \notin queued /\ f \notin timers
    BY <1>1, <1>4 DEF Quiet
  <2>2. pc # "idle" => current # f
    BY <1>4, <2>1 DEF Quiet
  <2> QED BY <1>2, <1>4, <2>1, <2>2 DEF Attended, Quiet
<1> QED BY <1>2, <1>3, <1>4 DEF Attended

LEMMA InitAttended == Init => Attended
<1> SUFFICES ASSUME Init PROVE Attended
  OBVIOUS
<1>1. PICK specs \in [Endpoints -> EndpointSpecs], ref \in FederationRefs :
        server = [endpoints |-> [e \in Endpoints |-> NewEndpoint(specs[e])],
                  workloads |-> [w \in Workloads |-> NewWorkload(1, ref)],
                  services  |-> [w \in Workloads |-> OwnService(1)]]
  BY DEF Init
<1>2. \A e \in Endpoints : ~server.endpoints[e].deleting
  BY <1>1 DEF NewEndpoint
<1> QED BY <1>2 DEF Init, Attended, Quiet

LEMMA BeginAttended ==
    ASSUME IInv, Attended, NEW e \in Endpoints, BeginAbsent(e) \/ Begin(e)
    PROVE  Attended'
<1>1. /\ pc = "idle" /\ UNCHANGED <<server, cache, lag, timers>>
      /\ queued' = queued \ {e}
  BY DEF BeginAbsent, Begin
<1>2. CASE BeginAbsent(e)
  <2>1. cache.endpoints[e] = None /\ pc' = "idle" /\ UNCHANGED current
    BY <1>1, <1>2 DEF BeginAbsent, reconciler
  <2>2. e \notin lag => server.endpoints[e] = None
    BY <2>1 DEF IInv, Coherent
  <2> QED BY <1>1, <2>1, <2>2 DEF Attended, Quiet
<1>3. CASE Begin(e)
  <2>1. /\ current' = e /\ heldStale' = (e \in lag)
        /\ pc' \in {"cleanup", "finalizer"}
    BY <1>3 DEF Begin
  <2>2. \A f \in Endpoints : Quiet(f)' => Quiet(f)
    BY <1>1, <2>1 DEF Quiet
  <2> QED BY <1>1, <2>1, <2>2 DEF Attended
<1> QED BY <1>2, <1>3

LEMMA StepsAttended ==
    ASSUME IInv, Attended, AddFinalizer \/ Refuse \/ Annotate \/ Cleanup
    PROVE  Attended'
<1>1. /\ pc \in {"finalizer", "annotate", "cleanup"} /\ UNCHANGED queued
      /\ current \in Endpoints /\ held \in Endpoint
  BY DEF AddFinalizer, Refuse, Annotate, Cleanup, Step, IInv, TypeOK
<1>2. CASE Fail
  BY <1>1, <1>2, FinishAttended DEF Fail
<1>3. ASSUME server'.endpoints = server.endpoints,
             UNCHANGED <<lag, current, held, heldStale, timers>>, pc' # "idle",
             pc' \in {"ready", "degraded"} => held.finalizer /\ ~held.deleting
      PROVE  Attended'
  BY <1>1, <1>3, ElsewhereAttended
<1>4. CASE AddFinalizer
  <2>1. CASE NoWrite /\ Goto("annotate")
    BY <1>3, <2>1 DEF NoWrite, Goto
  <2>2. CASE /\ ~held.finalizer /\ ~heldStale
             /\ held' = [held EXCEPT !.finalizer = TRUE]
             /\ StoreEndpoint(current, held')
             /\ pc' = "annotate" /\ UNCHANGED <<current, heldStale, verdict, timers>>
    <3>1. held = server.endpoints[current]
      BY <1>1, <2>2 DEF IInv, Coherent
    <3>2. held' \in Endpoint /\ held'.finalizer
      BY <1>1, <2>2 DEF Endpoint
    <3>3. PICK object \in Endpoint : object = held'
      BY <3>2
    <3>4. object # server.endpoints[current]
      BY <2>2, <3>1, <3>2, <3>3
    <3> QED BY <1>1, <2>2, <3>2, <3>3, <3>4, StoreAttended
  <2> QED BY <1>2, <1>4, <2>1, <2>2 DEF AddFinalizer
<1>5. CASE Refuse
  BY <1>3, <1>5 DEF Refuse, NoWrite, Step, IInv, Phases
<1>6. CASE Annotate \/ Cleanup
  <2> DEFINE w == held.spec.workloadRef
  <2>1. w \in Workloads
    BY <1>1, EndpointAssumption DEF Endpoint, SpecShape
  <2>2. ASSUME NEW wanted \in Annotations, server.services[w] # None, PatchService(w, wanted)
        PROVE  server'.endpoints = server.endpoints /\ UNCHANGED lag
    BY <2>1, <2>2, PatchServiceType
  <2>3. CASE Annotate
    <3>1. \/ PatchService(w, Desired(held.spec)) /\ server.services[w] # None /\ Goto("ready")
          \/ Fail
      BY <2>3 DEF Annotate
    <3>2. pc = "annotate" /\ held.finalizer /\ ~held.deleting
      BY <2>3 DEF Annotate, Step, IInv, Phases
    <3> QED BY <1>2, <1>3, <2>2, <3>1, <3>2, DesiredType DEF Goto
  <2>4. CASE Cleanup
    <3>1. CASE ~held.finalizer /\ Finish(FALSE) /\ NoWrite
      <4>1. held.deleting
        BY <2>4 DEF Cleanup, Step, IInv, Phases
      <4>2. heldStale \/ server.endpoints[current] = None
        BY <1>1, <3>1, <4>1 DEF Attended, IInv, Coherent
      <4> QED BY <1>1, <3>1, <4>2, FinishAttended
    <3>2. CASE Goto("release") /\ (NoWrite \/ (/\ PatchService(w, NoAnnotations)
                                               /\ server.services[w] # None))
      BY <1>3, <2>2, <3>2, NoAnnotationsType DEF Goto, NoWrite
    <3> QED BY <2>4, <3>1, <3>2 DEF Cleanup
  <2> QED BY <1>6, <2>3, <2>4
<1> QED BY <1>4, <1>5, <1>6

LEMMA EndsAttended ==
    ASSUME IInv, Attended, ReleaseEndpoint \/ ReportReady \/ ReportDegraded
    PROVE  Attended'
<1>1. /\ pc # "idle" /\ UNCHANGED queued
      /\ current \in Endpoints /\ held \in Endpoint
      /\ ~heldStale => held = server.endpoints[current]
  BY DEF ReleaseEndpoint, ReportReady, ReportDegraded, Step, IInv, TypeOK, Coherent
<1>2. ASSUME NEW object \in Endpoint \cup {None}, StoreEndpoint(current, object),
             object # server.endpoints[current], (object # None /\ object.deleting) => object.finalizer,
             NEW retry \in BOOLEAN, Finish(retry)
      PROVE  Attended'
  <2>1. pc' = "idle" /\ timers \subseteq timers'
    BY <1>2 DEF Finish
  <2> QED BY <1>1, <1>2, <2>1, StoreAttended
<1>3. CASE ReleaseEndpoint
  <2>1. CASE heldStale
    BY <1>1, <1>3, <2>1, FinishAttended DEF ReleaseEndpoint, Fail
  <2>2. CASE ~heldStale
    BY <1>1, <1>2, <1>3, <2>2, ObjectAssumption DEF ReleaseEndpoint
  <2> QED BY <2>1, <2>2
<1>4. ASSUME NEW status \in EndpointStatus, NEW requeue \in BOOLEAN, UpdateStatus(status, requeue),
             held.finalizer /\ ~held.deleting, requeue \/ status = Ready(held)
      PROVE  Attended'
  <2>1. CASE status # held.status /\ ~heldStale
    <3> DEFINE object == [held EXCEPT !.status = status]
    <3>1. object \in Endpoint /\ object.status = status /\ object.deleting = held.deleting
      BY <1>1 DEF Endpoint
    <3>2. StoreEndpoint(current, object) /\ Finish(requeue)
      BY <1>4, <2>1 DEF UpdateStatus
    <3> HIDE DEF object
    <3>3. object # server.endpoints[current]
      BY <1>1, <2>1, <3>1
    <3> QED BY <1>2, <1>4, <3>1, <3>2, <3>3
  <2>2. CASE ~(status # held.status /\ ~heldStale)
    <3> DEFINE retry == requeue \/ (status # held.status /\ heldStale)
    <3>1. retry \in BOOLEAN /\ NoWrite /\ Finish(retry)
      BY <1>4, <2>2 DEF UpdateStatus
    <3>2. retry \/ heldStale \/ AtRest(server.endpoints[current])
      BY <1>1, <1>4, <2>2 DEF AtRest
    <3> HIDE DEF retry
    <3> QED BY <1>1, <3>1, <3>2, FinishAttended
  <2> QED BY <2>1, <2>2
<1>5. CASE ReportReady
  <2>1. UpdateStatus(Ready(held), FALSE) /\ held.finalizer /\ ~held.deleting
    BY <1>5 DEF ReportReady, Step, Attended
  <2> QED BY <1>1, <1>4, <2>1, StatusType
<1>6. CASE ReportDegraded
  <2>1. /\ UpdateStatus(Degraded(held, verdict), TRUE) /\ held.finalizer /\ ~held.deleting
        /\ verdict \in Reasons
    BY <1>6 DEF ReportDegraded, Step, Attended, IInv, TypeOK
  <2> QED BY <1>1, <1>4, <2>1, StatusType
<1> QED BY <1>3, <1>5, <1>6

LEMMA QueueAttended ==
    ASSUME IInv, Attended,
           \/ \E e \in Endpoints : SyncEndpoint(e) \/ TimerFires(e)
           \/ \E w \in Workloads : SyncWorkload(w) \/ SyncService(w)
    PROVE  Attended'
<1>1. ASSUME NEW e \in Endpoints, SyncEndpoint(e) PROVE Attended'
  <2>1. /\ e \in lag /\ lag' = lag \ {e} /\ queued' = queued \cup {e}
        /\ UNCHANGED <<server, timers, current, pc, held, heldStale>>
    BY <1>1 DEF SyncEndpoint, reconciler
  <2> QED BY <2>1 DEF Attended, Quiet
<1>2. ASSUME NEW e \in Endpoints, TimerFires(e) PROVE Attended'
  <2>1. /\ timers' = timers \ {e} /\ queued' = queued \cup {e}
        /\ UNCHANGED <<server, lag, current, pc, held, heldStale>>
    BY <1>2 DEF TimerFires, reconciler
  <2> QED BY <2>1 DEF Attended, Quiet
<1>3. ASSUME NEW w \in Workloads, SyncWorkload(w) \/ SyncService(w) PROVE Attended'
  <2>1. UNCHANGED <<server, lag, queued, timers, current, pc, held, heldStale>>
    BY <1>3 DEF SyncWorkload, SyncService, reconciler, queue
  <2> QED BY <2>1 DEF Attended, Quiet
<1> QED BY <1>1, <1>2, <1>3

\* Somebody creates, edits or deletes an endpoint.
LEMMA EditsAttended ==
    ASSUME IInv, Attended,
           \/ \E e \in Endpoints, spec \in EndpointSpecs :
                CreateEndpoint(e, spec) \/ EditEndpoint(e, spec)
           \/ \E e \in Endpoints : DeleteEndpoint(e)
    PROVE  Attended'
<1>1. ASSUME NEW e \in Endpoints, NEW object \in Endpoint \cup {None}, WriteEndpoint(e, object),
             object # server.endpoints[e], (object # None /\ object.deleting) => object.finalizer,
             UNCHANGED queue
      PROVE  Attended'
  <2>1. /\ StoreEndpoint(e, object) /\ UNCHANGED <<current, pc, held, queued, timers>>
        /\ heldStale' = (heldStale \/ (current = e /\ object # server.endpoints[e]))
    BY <1>1 DEF WriteEndpoint, queue
  <2>2. pc' \in {"ready", "degraded"} => held'.finalizer /\ ~held'.deleting
    BY <2>1 DEF Attended
  <2> QED BY <1>1, <2>1, <2>2, StoreAttended
<1>2. ASSUME NEW e \in Endpoints, NEW spec \in EndpointSpecs, CreateEndpoint(e, spec)
      PROVE  Attended'
  <2>1. NewEndpoint(spec) \in Endpoint /\ ~NewEndpoint(spec).deleting
    BY NewEndpointType DEF NewEndpoint
  <2>2. /\ WriteEndpoint(e, NewEndpoint(spec)) /\ UNCHANGED queue
        /\ NewEndpoint(spec) # server.endpoints[e]
    BY <1>2, <2>1, ObjectAssumption DEF CreateEndpoint
  <2> QED BY <1>1, <2>1, <2>2
<1>3. ASSUME NEW e \in Endpoints, NEW spec \in EndpointSpecs, EditEndpoint(e, spec)
      PROVE  Attended'
  <2> DEFINE old == server.endpoints[e]
             new == [old EXCEPT !.spec = spec, !.generation = @ + 1]
  <2>1. old \in Endpoint /\ old # None /\ old.spec # spec
    BY <1>3 DEF EditEndpoint, IInv, TypeOK, Objects
  <2>2. old.generation + 1 \in Nat
    BY <2>1 DEF Endpoint
  <2>3. new \in Endpoint /\ new.spec = spec /\ new.deleting = old.deleting
        /\ new.finalizer = old.finalizer
    BY <2>1, <2>2 DEF Endpoint
  <2>4. new # old /\ (new.deleting => new.finalizer)
    BY <2>1, <2>3 DEF Attended
  <2>5. WriteEndpoint(e, new) /\ UNCHANGED queue
    BY <1>3 DEF EditEndpoint
  <2> HIDE DEF new
  <2> QED BY <1>1, <2>3, <2>4, <2>5
<1>4. ASSUME NEW e \in Endpoints, DeleteEndpoint(e) PROVE Attended'
  <2> DEFINE old == server.endpoints[e]
             marked == [old EXCEPT !.deleting = TRUE, !.generation = @ + 1]
  <2>1. old \in Endpoint /\ old # None /\ ~old.deleting
    BY <1>4 DEF DeleteEndpoint, IInv, TypeOK, Objects
  <2>2. old.generation + 1 \in Nat
    BY <2>1 DEF Endpoint
  <2>3. marked \in Endpoint /\ marked.deleting /\ marked.finalizer = old.finalizer
    BY <2>1, <2>2 DEF Endpoint
  <2>4. WriteEndpoint(e, IF old.finalizer THEN marked ELSE None) /\ UNCHANGED queue
    BY <1>4 DEF DeleteEndpoint
  <2> HIDE DEF marked
  <2>5. CASE old.finalizer
    BY <1>1, <2>1, <2>3, <2>4, <2>5
  <2>6. CASE ~old.finalizer
    BY <1>1, <2>1, <2>4, <2>6
  <2> QED BY <2>5, <2>6
<1> QED BY <1>2, <1>3, <1>4

LEMMA OthersAttended ==
    ASSUME IInv, Attended,
           \/ \E w \in Workloads :
                \/ \E ref \in FederationRefs : CreateWorkload(w, ref)
                \/ DeleteWorkload(w) \/ ExcludeMember(w)
                \/ CreateService(w) \/ RemoveService(w) \/ ReplaceService(w)
                \/ GarbageCollect(w)
           \/ \E i \in Infras : ChangeInfrastructure(i)
    PROVE  Attended'
<1>1. ASSUME NEW w, NEW object, WriteWorkload(w, object) \/ WriteService(w, object)
      PROVE  server'.endpoints = server.endpoints /\ UNCHANGED lag
  BY <1>1 DEF WriteWorkload, WriteService, IInv, TypeOK, Objects
<1>2. /\ server'.endpoints = server.endpoints /\ UNCHANGED lag
      /\ UNCHANGED <<queue, reconciler>>
  BY <1>1 DEF CreateWorkload, DeleteWorkload, ExcludeMember, CreateService, RemoveService,
              ReplaceService, GarbageCollect, ChangeInfrastructure
<1>3. UNCHANGED <<queued, timers, current, pc, held, heldStale>>
  BY <1>2 DEF queue, reconciler
<1> QED BY <1>2, <1>3 DEF Attended, Quiet

\* A restart forgets the queue and the timers, and finds every endpoint there is.
LEMMA FailuresAttended ==
    ASSUME IInv, Attended, ApiCallFails \/ Restart PROVE Attended'
<1>1. CASE ApiCallFails
  BY <1>1, FinishAttended DEF ApiCallFails, Fail
<1>2. CASE Restart
  BY <1>2 DEF Restart, Attended, Quiet
<1> QED BY <1>1, <1>2

LEMMA StepAttended == IInv /\ Attended /\ [Next]_vars => Attended'
<1> SUFFICES ASSUME IInv, Attended, [Next]_vars PROVE Attended'
  OBVIOUS
<1>1. CASE Reconcile
  BY <1>1, BeginAttended, StepsAttended, EndsAttended DEF Reconcile
<1>2. CASE \/ \E e \in Endpoints : SyncEndpoint(e) \/ TimerFires(e)
           \/ \E w \in Workloads : SyncWorkload(w) \/ SyncService(w)
  BY <1>2, QueueAttended
<1>3. CASE Environment
  BY <1>3, EditsAttended, OthersAttended, FailuresAttended DEF Environment
<1>4. CASE UNCHANGED vars
  BY <1>4 DEF vars, queue, reconciler, Attended, Quiet
<1> QED BY <1>1, <1>2, <1>3, <1>4 DEF Next

\* Conflicts, errors, edits, restarts and references that do not resolve all leave an
\* event or a retry behind, until every endpoint is Ready and none half deleted.
THEOREM SettledIsReady == Spec => []SettledMeansReady
<1>1. IInv /\ Attended => SettledMeansReady
  <2> SUFFICES ASSUME IInv, Attended, Settled, NEW e \in Endpoints, server.endpoints[e] # None
               PROVE  AtRest(server.endpoints[e])
    BY DEF SettledMeansReady, AtRest
  <2>1. Quiet(e)
    BY DEF Settled, Quiet
  <2> QED BY <2>1 DEF Attended
<1> QED BY <1>1, InitAttended, StepAttended, Invariance, PTL DEF Spec

================================================================================
