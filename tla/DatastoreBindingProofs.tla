------------------------ MODULE DatastoreBindingProofs ------------------------
(***************************************************************************)
(* Theorems about the DatastoreBinding controller next to the Workload     *)
(* controller, for every set of bindings, specs, Secrets and environments  *)
(* of any length, and any number of disturbances.                          *)
(*                                                                         *)
(* IInv has two halves. Coherent, Phases and Guarded say what the copies   *)
(* are worth that a reconcile works on; Seen says that no binding is left  *)
(* behind: what has changed since a reconcile looked is on its way to the  *)
(* queue. ManagedAreInEffect is inductive beside it.                       *)
(***************************************************************************)
EXTENDS DatastoreBindingProperties, EnvVarsProofs, SequenceTheorems, TLAPS

\* What is cached with a current resourceVersion is what the server has, and so is a
\* reconcile's copy that no write has made stale.
Coherent ==
    /\ \A b \in Bindings : b \notin lag => cache.bindings[b] = server.bindings[b]
    /\ "deployment" \notin lag => cache.deployment = server.deployment
    /\ (pc # "idle" /\ ~heldStale) => held = server.bindings[current]

\* What the reconcile knows of its copy where it is. During a cleanup that can
\* still succeed nothing has been written since the cache saw the deletion.
Deleting == {"cleanup", "remove", "release"}

Phases ==
    /\ (pc # "idle" /\ pc \notin Deleting) => ~held.deleting
    /\ pc \in {"resolve", "inject", "ready", "degraded", "remove", "release"} => held.finalizer
    /\ pc \in Deleting => held.deleting
    /\ (pc \in Deleting /\ ~heldStale) => current \notin lag

HasFinalizer(object) == object # None /\ object.finalizer

\* A live copy with the finalizer proves that the server's binding has it.
Vouches(copy, b) ==
    (HasFinalizer(copy) /\ ~copy.deleting) => HasFinalizer(server.bindings[b])

Guarded ==
    /\ \A b \in Bindings : Vouches(cache.bindings[b], b)
    /\ pc # "idle" => Vouches(held, current)

\* A binding that stays after its deletion has a finalizer; a copy gone stale belongs
\* to a binding that is queued or will be; and SettledMeansReady.
Seen ==
    /\ \A b \in Bindings :
            (server.bindings[b] # None /\ server.bindings[b].deleting)
                => server.bindings[b].finalizer
    /\ (pc # "idle" /\ heldStale) => current \in lag \cup queued
    /\ SettledMeansReady

IInv == TypeOK /\ Coherent /\ Phases /\ Guarded /\ Seen

--------------------------------------------------------------------------------
(* Types.                                                                       *)

AnyVariables == Variables(UserValues \cup InjectedValues)

LEMMA ManagedNamesType ==
    ASSUME NEW b \in Bindings PROVE ManagedNames(b) \in SUBSET EnvNames
<1>1. UrlOf(b) \in EnvNames /\ ModeOf(b) \in EnvNames /\ DatabaseUrl \in EnvNames
  BY DEF EnvNames, UrlOf, ModeOf, DatabaseUrl
<1> QED BY <1>1 DEF ManagedNames

LEMMA InjectedType ==
    ASSUME NEW b \in Bindings, NEW spec \in SpecShape, NEW k \in Keys
    PROVE  /\ Injected(b, spec, k) \in Seq(AnyVariables)
           /\ NamesIn(Injected(b, spec, k)) = ManagedNames(b)
           /\ \A v \in Effective(Injected(b, spec, k)) : v.value \in InjectedValues
<1> DEFINE url(name) == [name |-> name, value |-> FromSecret(spec.connectionRef, k)]
           mode == [name |-> ModeOf(b), value |-> FromMode(spec.replicationMode)]
           first == <<url(UrlOf(b)), mode>>
           extra == IF b = Primary THEN <<url(DatabaseUrl)>> ELSE <<>>
<1>1. /\ FromSecret(spec.connectionRef, k) \in InjectedValues
      /\ FromMode(spec.replicationMode) \in InjectedValues
  BY DEF SpecShape, InjectedValues
<1>2. UrlOf(b) \in EnvNames /\ ModeOf(b) \in EnvNames /\ DatabaseUrl \in EnvNames
  BY DEF EnvNames, UrlOf, ModeOf, DatabaseUrl
<1>3. /\ url(UrlOf(b)) \in AnyVariables /\ mode \in AnyVariables
      /\ url(DatabaseUrl) \in AnyVariables
  BY <1>1, <1>2 DEF AnyVariables, Variables
<1>4. first \in Seq(AnyVariables) /\ extra \in Seq(AnyVariables)
  BY <1>3
<1>5. /\ Injected(b, spec, k) = first \o extra
      /\ DOMAIN first = 1 .. 2 /\ first[1] = url(UrlOf(b)) /\ first[2] = mode
      /\ b = Primary => DOMAIN extra = 1 .. 1 /\ extra[1] = url(DatabaseUrl)
      /\ b # Primary => extra = <<>>
  <2>1. Injected(b, spec, k) = first \o extra
    BY DEF Injected
  <2> QED BY <2>1
<1>6. \A i \in DOMAIN (first \o extra) :
            \/ i \in 1 .. 2 /\ (first \o extra)[i] = first[i]
            \/ b = Primary /\ i = 3 /\ (first \o extra)[i] = url(DatabaseUrl)
  BY <1>4, <1>5
<1>7. /\ 1 \in DOMAIN (first \o extra) /\ (first \o extra)[1] = url(UrlOf(b))
      /\ 2 \in DOMAIN (first \o extra) /\ (first \o extra)[2] = mode
      /\ b = Primary => 3 \in DOMAIN (first \o extra) /\ (first \o extra)[3] = url(DatabaseUrl)
  BY <1>4, <1>5
<1>8. NamesIn(first \o extra) = ManagedNames(b)
  <2>1. \A i \in DOMAIN (first \o extra) : (first \o extra)[i].name \in ManagedNames(b)
    <3>1. first[1].name = UrlOf(b) /\ first[2].name = ModeOf(b)
      BY <1>5
    <3>2. url(DatabaseUrl).name = DatabaseUrl
      OBVIOUS
    <3> QED BY <1>6, <3>1, <3>2 DEF ManagedNames
  <2>2. \A name \in ManagedNames(b) :
            \E i \in DOMAIN (first \o extra) : (first \o extra)[i].name = name
    <3> DEFINE c == first \o extra
    <3>1. 1 \in DOMAIN c /\ c[1].name = UrlOf(b)
      BY <1>7
    <3>2. 2 \in DOMAIN c /\ c[2].name = ModeOf(b)
      BY <1>7
    <3>3. b = Primary => 3 \in DOMAIN c /\ c[3].name = DatabaseUrl
      BY <1>7
    <3> HIDE DEF c
    <3>4. \A name \in ManagedNames(b) : \E i \in DOMAIN c : c[i].name = name
      BY <3>1, <3>2, <3>3 DEF ManagedNames
    <3> QED BY <3>4 DEF c
  <2> HIDE DEF first, extra
  <2> QED BY <2>1, <2>2 DEF NamesIn
<1>9. \A i \in DOMAIN (first \o extra) : (first \o extra)[i].value \in InjectedValues
  BY <1>1, <1>5, <1>6
<1> QED BY <1>4, <1>5, <1>8, <1>9 DEF Effective

LEMMA UserEnvType ==
    ASSUME NEW env \in UserEnvs
    PROVE  /\ env \in Seq(AnyVariables)
           /\ \A v \in Effective(env) : v.value \notin InjectedValues
<1>1. env \in Seq(Variables(UserValues))
  BY BindingAssumption
<1>2. \A i \in DOMAIN env : env[i] \in Variables(UserValues)
  BY <1>1
<1>3. Variables(UserValues) \subseteq AnyVariables
  BY DEF Variables, AnyVariables
<1>4. env \in Seq(AnyVariables)
  BY <1>1, <1>2, <1>3, SeqMonotonic
<1>5. \A value \in UserValues : value \notin InjectedValues
  <2>1. \A value \in UserValues : value[1] = "user"
    BY DEF UserValues, FromUser
  <2>2. \A value \in InjectedValues : value[1] # "user"
    BY DEF InjectedValues, FromSecret, FromMode
  <2> QED BY <2>1, <2>2
<1>6. \A v \in Variables(UserValues) : v.value \in UserValues
  BY DEF Variables
<1> QED BY <1>2, <1>4, <1>5, <1>6 DEF Effective

LEMMA ReadyType ==
    ASSUME NEW binding \in BindingObject, NEW ready \in Reasons \cup {"Reconciled"}
    PROVE  [binding EXCEPT !.status = [observedGeneration |-> binding.generation,
                                       ready |-> ready]] \in BindingObject
BY DEF BindingObject, BindingStatus

LEMMA NewBindingType ==
    ASSUME NEW spec \in BindingSpecs PROVE NewBinding(spec) \in BindingObject
BY DEF NewBinding, BindingObject, BindingStatus

LEMMA EditedType ==
    ASSUME NEW old \in BindingObject, NEW spec \in BindingSpecs, old.spec # spec
    PROVE  LET new == [old EXCEPT !.spec = spec, !.generation = @ + 1]
           IN /\ new \in BindingObject /\ new # old
              /\ new.finalizer = old.finalizer /\ new.deleting = old.deleting
<1>1. old.generation + 1 \in Nat
  BY DEF BindingObject
<1> QED BY <1>1 DEF BindingObject

LEMMA DeletedType ==
    ASSUME NEW old \in BindingObject, old.finalizer
    PROVE  LET new == [old EXCEPT !.deleting = TRUE, !.generation = @ + 1]
           IN new \in BindingObject /\ new.finalizer /\ new.deleting
<1>1. old.generation + 1 \in Nat
  BY DEF BindingObject
<1> QED BY <1>1 DEF BindingObject

LEMMA ObjectsType ==
    ASSUME IInv
    PROVE  /\ server.bindings \in [Bindings -> BindingObject \cup {None}]
           /\ cache.bindings \in [Bindings -> BindingObject \cup {None}]
           /\ server.deployment \in DeploymentObject \cup {None}
           /\ cache.deployment \in DeploymentObject \cup {None}
           /\ server.workload \in WorkloadObject \cup {None}
           /\ cache.workload \in WorkloadObject \cup {None}
BY DEF IInv, TypeOK, Objects

LEMMA NoneIsNoObject ==
    /\ None \notin BindingObject /\ None \notin WorkloadObject /\ None \notin DeploymentObject
BY ObjectAssumption

\* What a Deployment becomes in the hands of the two controllers.
LEMMA InjectedDeployment ==
    ASSUME NEW d \in DeploymentObject, NEW b \in Bindings, NEW spec \in SpecShape,
           NEW k \in Keys
    PROVE  [d EXCEPT !.env = AppEnv(d, MergeEnvVars(@, Injected(b, spec, k))),
                     !.managed = @ \cup ManagedNames(b)] \in DeploymentObject
<1>1. d.env \in Seq(AnyVariables) /\ d.managed \in SUBSET EnvNames
  BY DEF DeploymentObject, AnyVariables
<1>2. MergeEnvVars(d.env, Injected(b, spec, k)) \in Seq(AnyVariables)
  BY <1>1, InjectedType, MergeEffect
<1>3. d.managed \cup ManagedNames(b) \in SUBSET EnvNames
  BY <1>1, ManagedNamesType
<1> QED BY <1>2, <1>3 DEF DeploymentObject, AnyVariables, AppEnv

LEMMA RemovedDeployment ==
    ASSUME NEW d \in DeploymentObject, NEW b \in Bindings
    PROVE  [d EXCEPT !.env = AppEnv(d, RemoveEnvVars(@, ManagedNames(b))),
                     !.managed = @ \ ManagedNames(b)] \in DeploymentObject
<1>1. d.env \in Seq(AnyVariables) /\ d.managed \in SUBSET EnvNames
  BY DEF DeploymentObject, AnyVariables
<1>2. RemoveEnvVars(d.env, ManagedNames(b)) \in Seq(AnyVariables)
  BY <1>1, RemoveEffect
<1> QED BY <1>1, <1>2 DEF DeploymentObject, AnyVariables, AppEnv

LEMMA RebuiltDeployment ==
    ASSUME IInv, building # None, NEW d \in DeploymentObject \cup {None}
    PROVE  Rebuilt(d) \in DeploymentObject
<1>1. building \in WorkloadObject /\ building.uid \in Nat /\ building.env \in UserEnvs
  BY DEF IInv, TypeOK, WorkloadObject
<1>2. building.env \in Seq(AnyVariables)
  BY <1>1, UserEnvType
<1>3. CASE d = None
  BY <1>1, <1>2, <1>3 DEF Rebuilt, DeploymentObject, AnyVariables
<1>4. CASE d # None
  <2>1. d \in DeploymentObject /\ d.env \in Seq(AnyVariables)
    BY <1>4 DEF DeploymentObject, AnyVariables
  <2>2. PreserveManaged(building.env, d.env, d.managed) \in Seq(AnyVariables)
    BY <1>2, <2>1, PreserveEffect
  <2> QED BY <1>1, <1>4, <2>1, <2>2 DEF Rebuilt, DeploymentObject, AnyVariables
<1> QED BY <1>3, <1>4

LEMMA ResolutionType ==
    ASSUME IInv, NEW spec \in SpecShape
    PROVE  /\ Resolution(spec) \in Reasons \cup {"Resolved"}
           /\ Resolution(spec) = "Resolved" => secrets[spec.connectionRef] \in Keys
BY DEF Resolution, Reasons, IInv, TypeOK, SpecShape

LEMMA DisturbType ==
    ASSUME TypeOK, NEW kind, Disturb(kind)
    PROVE  budget' \in 0 .. MaxDisturbances
BY BindingAssumption DEF TypeOK, Disturb

--------------------------------------------------------------------------------
(* Writes.                                                                      *)

\* The cached bindings, and how current they are, stay as they are.
SameCopies ==
    /\ cache'.bindings = cache.bindings
    /\ \A b \in Bindings : b \in lag' <=> b \in lag

LagType == lag' \subseteq Bindings \cup {"workload", "deployment"}

DeploymentIsCoherent == "deployment" \notin lag => cache.deployment = server.deployment

LEMMA StoreBindingEffect ==
    ASSUME IInv, NEW b \in Bindings, NEW object \in BindingObject \cup {None},
           StoreBinding(b, object)
    PROVE  /\ server' \in Objects /\ cache' = cache /\ LagType
           /\ server'.bindings = [server.bindings EXCEPT ![b] = object]
           /\ server'.deployment = server.deployment
           /\ \A a \in Bindings : a \notin lag' => cache'.bindings[a] = server'.bindings[a]
           /\ \A a \in Bindings : a \in lag' <=>
                    (a \in lag \/ (a = b /\ object # server.bindings[b]))
           /\ DeploymentIsCoherent'
<1>1. /\ server' = [server EXCEPT !.bindings = [server.bindings EXCEPT ![b] = object]]
      /\ cache' = cache
      /\ lag' = IF object = server.bindings[b] THEN lag ELSE lag \cup {b}
  BY DEF StoreBinding, IInv, TypeOK, Objects
<1>2. server' \in Objects
  BY <1>1, ObjectsType DEF IInv, TypeOK, Objects
<1>3. /\ server'.bindings = [server.bindings EXCEPT ![b] = object]
      /\ server'.deployment = server.deployment
  BY <1>1 DEF IInv, TypeOK, Objects
<1>4. LagType
  BY <1>1 DEF IInv, TypeOK, LagType
<1>5. \A a \in Bindings : a \notin lag' => cache'.bindings[a] = server'.bindings[a]
  BY <1>1, <1>3, ObjectsType DEF IInv, Coherent
<1>6. DeploymentIsCoherent'
  BY <1>1, <1>3, BindingAssumption DEF IInv, Coherent, DeploymentIsCoherent
<1> QED BY <1>1, <1>2, <1>3, <1>4, <1>5, <1>6

LEMMA StoreDeploymentEffect ==
    ASSUME IInv, NEW object \in DeploymentObject \cup {None}, StoreDeployment(object)
    PROVE  /\ server' \in Objects /\ cache' = cache /\ LagType
           /\ server'.bindings = server.bindings /\ server'.deployment = object
           /\ SameCopies /\ DeploymentIsCoherent'
<1>1. /\ server' = [server EXCEPT !.deployment = object]
      /\ cache' = cache
      /\ lag' = IF object = server.deployment THEN lag ELSE lag \cup {"deployment"}
  BY DEF StoreDeployment
<1>2. /\ server' \in Objects
      /\ server'.bindings = server.bindings /\ server'.deployment = object
  BY <1>1 DEF IInv, TypeOK, Objects
<1>3. LagType
  BY <1>1 DEF IInv, TypeOK, LagType
<1>4. SameCopies
  BY <1>1, BindingAssumption DEF SameCopies
<1>5. DeploymentIsCoherent'
  BY <1>1, <1>2 DEF IInv, Coherent, DeploymentIsCoherent
<1> QED BY <1>1, <1>2, <1>3, <1>4, <1>5

LEMMA StoreWorkloadEffect ==
    ASSUME IInv, NEW object \in WorkloadObject \cup {None}, StoreWorkload(object)
    PROVE  /\ server' \in Objects /\ cache' = cache /\ LagType
           /\ server'.bindings = server.bindings /\ server'.deployment = server.deployment
           /\ SameCopies /\ DeploymentIsCoherent'
<1>1. /\ server' = [server EXCEPT !.workload = object]
      /\ cache' = cache /\ lag' = lag \cup {"workload"}
  BY DEF StoreWorkload
<1>2. /\ server' \in Objects
      /\ server'.bindings = server.bindings /\ server'.deployment = server.deployment
  BY <1>1 DEF IInv, TypeOK, Objects
<1>3. LagType
  BY <1>1 DEF IInv, TypeOK, LagType
<1>4. SameCopies
  BY <1>1, BindingAssumption DEF SameCopies
<1>5. DeploymentIsCoherent'
  BY <1>1, <1>2 DEF IInv, Coherent, DeploymentIsCoherent
<1> QED BY <1>1, <1>2, <1>3, <1>4, <1>5

AtRest(binding) ==
    /\ ~binding.deleting /\ binding.finalizer
    /\ binding.status = [observedGeneration |-> binding.generation, ready |-> "Reconciled"]

\* A step that leaves the bindings, their copies and the queue alone: the others'
\* objects, and every step of a reconcile that goes on.
LEMMA OtherStepPreserves ==
    ASSUME IInv, TypeOK', Phases', DeploymentIsCoherent', SameCopies,
           server'.bindings = server.bindings,
           UNCHANGED <<current, held, heldStale, queue>>,
           pc' = "idle" <=> pc = "idle"
    PROVE  IInv'
<1>1. Coherent'
  BY DEF IInv, Coherent, DeploymentIsCoherent, SameCopies
<1>2. Guarded'
  BY DEF IInv, Guarded, Vouches, SameCopies
<1>3. Seen'
  <2>1. (pc' # "idle" /\ heldStale') => current' \in lag' \cup queued'
    <3>1. pc # "idle" => current \in Bindings
      BY DEF IInv, TypeOK
    <3> QED BY <3>1 DEF IInv, Seen, SameCopies, queue
  <2>2. \A b \in Bindings : Quiet(b)' => Quiet(b)
    BY DEF Quiet, SameCopies, queue
  <2> QED BY <2>1, <2>2 DEF IInv, Seen, SettledMeansReady
<1> QED BY <1>1, <1>2, <1>3 DEF IInv

\* The same for steps outside the reconcile.
LEMMA ElsewherePreserves ==
    ASSUME IInv, server' \in Objects, cache' \in Objects, LagType, SameCopies,
           DeploymentIsCoherent', server'.bindings = server.bindings,
           UNCHANGED <<reconciler, queue>>,
           secrets' \in [Secrets -> Keys \cup {None}], lastUid' \in Nat,
           building' \in WorkloadObject \cup {None}, budget' \in 0 .. MaxDisturbances
    PROVE  IInv'
<1>1. TypeOK'
  BY DEF IInv, TypeOK, LagType, reconciler, queue
<1>2. Phases'
  <2>1. pc # "idle" => current \in Bindings
    BY DEF IInv, TypeOK
  <2> QED BY <2>1 DEF IInv, Phases, Deleting, SameCopies, reconciler
<1> QED BY <1>1, <1>2, OtherStepPreserves DEF reconciler

\* A reconcile ends without a write, and either comes back or has nothing to do.
LEMMA FinishPreserves ==
    ASSUME IInv, pc # "idle", NEW retry \in BOOLEAN, Finish(retry), NoWrite,
           UNCHANGED <<secrets, lastUid, building, queued>>, budget' \in 0 .. MaxDisturbances,
           \/ retry \/ heldStale
           \/ server.bindings[current] = None \/ AtRest(server.bindings[current])
    PROVE  IInv'
<1>1. current \in Bindings
  BY DEF IInv, TypeOK
<1>2. /\ UNCHANGED <<server, cache, lag, queued>>
      /\ pc' = "idle" /\ current' = None /\ held' = None /\ heldStale' = FALSE
      /\ key' = "None" /\ verdict' = "None"
      /\ timers' = IF retry THEN timers \cup {current} ELSE timers
  BY DEF NoWrite, objects, Finish
<1>3. TypeOK'
  BY <1>1, <1>2 DEF IInv, TypeOK
<1>4. Coherent' /\ Guarded'
  BY <1>2 DEF IInv, Coherent, Guarded, Vouches
<1>5. Phases'
  BY <1>2 DEF Phases, Deleting
<1>6. Seen'
  <2>1. ASSUME NEW b \in Bindings, Quiet(b)', server.bindings[b] # None
        PROVE  AtRest(server.bindings[b])
    <3>1. b \notin queued /\ b \notin timers /\ b \notin lag
      BY <1>2, <2>1 DEF Quiet
    <3>2. CASE b # current
      BY <2>1, <3>1, <3>2 DEF IInv, Seen, SettledMeansReady, Quiet, AtRest
    <3>3. CASE b = current
      <4>1. ~retry
        BY <1>2, <2>1, <3>3 DEF Quiet
      <4>2. ~heldStale
        BY <3>1, <3>3 DEF IInv, Seen
      <4> QED BY <2>1, <3>3, <4>1, <4>2
    <3> QED BY <3>2, <3>3
  <2> QED BY <1>2, <2>1 DEF IInv, Seen, SettledMeansReady, AtRest
<1> QED BY <1>3, <1>4, <1>5, <1>6 DEF IInv

LEMMA FailPreserves ==
    ASSUME IInv, pc # "idle", Fail, UNCHANGED <<secrets, lastUid, building, queued>>,
           budget' \in 0 .. MaxDisturbances
    PROVE  IInv'
BY FinishPreserves DEF Fail

\* A reconcile ends with a write to its binding; the event of it is to come.
LEMMA StoreFinishPreserves ==
    ASSUME IInv, pc # "idle", NEW retry \in BOOLEAN, NEW object \in BindingObject \cup {None},
           StoreBinding(current, object), Finish(retry),
           object # server.bindings[current],
           object = None \/ HasFinalizer(object),
           object = None => (cache.bindings[current] # None /\ cache.bindings[current].deleting),
           UNCHANGED <<secrets, lastUid, building, queued, budget>>
    PROVE  IInv'
<1>1. current \in Bindings
  BY DEF IInv, TypeOK
<1>2. /\ pc' = "idle" /\ current' = None /\ held' = None /\ heldStale' = FALSE
      /\ key' = "None" /\ verdict' = "None"
      /\ timers' = IF retry THEN timers \cup {current} ELSE timers
  BY DEF Finish
<1>3. /\ server' \in Objects /\ cache' = cache /\ LagType
      /\ server'.bindings = [server.bindings EXCEPT ![current] = object]
      /\ \A a \in Bindings : a \notin lag' => cache'.bindings[a] = server'.bindings[a]
      /\ \A a \in Bindings : a \in lag' <=> (a \in lag \/ a = current)
      /\ DeploymentIsCoherent'
  BY <1>1, StoreBindingEffect
<1>4. \A b \in Bindings :
            server'.bindings[b] = IF b = current THEN object ELSE server.bindings[b]
  BY <1>1, <1>3, ObjectsType
<1>5. TypeOK'
  BY <1>1, <1>2, <1>3 DEF IInv, TypeOK, LagType
<1>6. Coherent'
  BY <1>2, <1>3 DEF Coherent, DeploymentIsCoherent
<1>7. Phases'
  BY <1>2 DEF Phases, Deleting
<1>8. Guarded'
  <2>1. \A b \in Bindings : Vouches(cache.bindings[b], b)'
    BY <1>3, <1>4 DEF IInv, Guarded, Vouches, HasFinalizer
  <2> QED BY <1>2, <1>3, <2>1 DEF Guarded, Vouches
<1>9. Seen'
  <2>1. \A b \in Bindings : (server'.bindings[b] # None /\ server'.bindings[b].deleting)
            => server'.bindings[b].finalizer
    BY <1>4 DEF IInv, Seen, HasFinalizer
  <2>2. ASSUME NEW b \in Bindings, Quiet(b)', server'.bindings[b] # None
        PROVE  AtRest(server'.bindings[b])
    <3>1. b # current /\ b \notin lag /\ b \notin queued /\ b \notin timers
      BY <1>2, <1>3, <2>2 DEF Quiet
    <3> QED BY <1>4, <2>2, <3>1 DEF IInv, Seen, SettledMeansReady, Quiet, AtRest
  <2> QED BY <1>2, <2>1, <2>2 DEF Seen, SettledMeansReady, AtRest
<1> QED BY <1>5, <1>6, <1>7, <1>8, <1>9 DEF IInv

\* Somebody else's write to a binding leaves the reconcile where it is.
LEMMA EnvironmentWritePreserves ==
    ASSUME IInv, NEW b \in Bindings, NEW object \in BindingObject \cup {None},
           WriteBinding(b, object), object # server.bindings[b],
           HasFinalizer(server.bindings[b]) => HasFinalizer(object),
           (object # None /\ object.deleting) => object.finalizer,
           budget' \in 0 .. MaxDisturbances
    PROVE  IInv'
<1>1. /\ StoreBinding(b, object)
      /\ heldStale' = (heldStale \/ current = b)
      /\ UNCHANGED <<building, queued, timers, current, pc, held, key, verdict, secrets, lastUid>>
  BY DEF WriteBinding, Elsewhere, queue
<1>2. /\ server' \in Objects /\ cache' = cache /\ LagType
      /\ server'.bindings = [server.bindings EXCEPT ![b] = object]
      /\ \A a \in Bindings : a \notin lag' => cache'.bindings[a] = server'.bindings[a]
      /\ \A a \in Bindings : a \in lag' <=> (a \in lag \/ a = b)
      /\ DeploymentIsCoherent'
  BY <1>1, StoreBindingEffect
<1>3. \A a \in Bindings :
            server'.bindings[a] = IF a = b THEN object ELSE server.bindings[a]
  BY <1>2, ObjectsType
<1>4. TypeOK'
  BY <1>1, <1>2 DEF IInv, TypeOK, LagType
<1>5. pc # "idle" => current \in Bindings
  BY DEF IInv, TypeOK
<1>6. Coherent'
  BY <1>1, <1>2, <1>3, <1>5 DEF IInv, Coherent, DeploymentIsCoherent
<1>7. Phases'
  BY <1>1, <1>2, <1>5 DEF IInv, Phases, Deleting
<1>8. Guarded'
  BY <1>1, <1>2, <1>3, <1>5 DEF IInv, Guarded, Vouches
<1>9. Seen'
  <2>1. \A a \in Bindings : (server'.bindings[a] # None /\ server'.bindings[a].deleting)
            => server'.bindings[a].finalizer
    BY <1>3 DEF IInv, Seen
  <2>2. (pc' # "idle" /\ heldStale') => current' \in lag' \cup queued'
    BY <1>1, <1>2, <1>5 DEF IInv, Seen
  <2>3. ASSUME NEW a \in Bindings, Quiet(a)', server'.bindings[a] # None
        PROVE  AtRest(server'.bindings[a])
    <3>1. a # b /\ Quiet(a)
      BY <1>1, <1>2, <2>3 DEF Quiet
    <3> QED BY <1>3, <2>3, <3>1 DEF IInv, Seen, SettledMeansReady, AtRest
  <2> QED BY <2>1, <2>2, <2>3 DEF Seen, SettledMeansReady, AtRest
<1> QED BY <1>4, <1>6, <1>7, <1>8, <1>9 DEF IInv

--------------------------------------------------------------------------------
(* Every step preserves IInv.                                                   *)

LEMMA InitIInv == Init => IInv
<1> SUFFICES ASSUME Init PROVE IInv
  OBVIOUS
<1>1. PICK first \in Delivered :
        server = [bindings   |-> [b \in Bindings |->
                                    IF first.bindings[b] = None THEN None
                                    ELSE NewBinding(first.bindings[b])],
                  workload   |-> [uid |-> 1, env |-> first.env],
                  deployment |-> None]
  BY DEF Init
<1>2. /\ first.bindings \in [Bindings -> BindingSpecs \cup {None}] /\ first.env \in UserEnvs
  BY BindingAssumption
<1>3. server \in Objects
  <2>1. \A b \in Bindings : first.bindings[b] # None => NewBinding(first.bindings[b]) \in BindingObject
    BY <1>2, NewBindingType
  <2>2. [uid |-> 1, env |-> first.env] \in WorkloadObject
    BY <1>2 DEF WorkloadObject
  <2> QED BY <1>1, <2>1, <2>2 DEF Objects
<1>4. TypeOK
  <2>1. secrets \in [Secrets -> Keys \cup {None}] /\ budget \in 0 .. MaxDisturbances
    BY BindingAssumption DEF Init, Keys
  <2>2. queued \in SUBSET Bindings /\ lag = {} /\ timers = {}
    BY DEF Init
  <2> QED BY <1>3, <2>1, <2>2 DEF Init, TypeOK
<1>5. Coherent /\ Phases
  BY DEF Init, Coherent, Phases, Deleting
<1>6. \A b \in Bindings : server.bindings[b] # None =>
            ~server.bindings[b].deleting /\ ~server.bindings[b].finalizer
  BY <1>1 DEF NewBinding
<1>7. Guarded
  BY <1>6 DEF Init, Guarded, Vouches, HasFinalizer
<1>8. Seen
  BY <1>6 DEF Init, Seen, SettledMeansReady, Quiet
<1> QED BY <1>4, <1>5, <1>7, <1>8 DEF IInv

LEMMA BeginPreserves ==
    ASSUME IInv, NEW b \in Bindings, BeginAbsent(b) \/ Begin(b) PROVE IInv'
<1>1. CASE BeginAbsent(b)
  <2>1. /\ UNCHANGED <<server, cache, lag, secrets, lastUid, building, timers, current, pc, held,
                       heldStale, key, verdict, budget>>
        /\ queued' = queued \ {b} /\ cache.bindings[b] = None /\ pc = "idle"
    BY <1>1 DEF BeginAbsent, objects, reconciler
  <2>2. TypeOK' /\ Coherent' /\ Phases' /\ Guarded'
    BY <2>1 DEF IInv, TypeOK, Coherent, Phases, Deleting, Guarded, Vouches
  <2>3. Seen'
    <3>1. ASSUME NEW a \in Bindings, Quiet(a)', server.bindings[a] # None
          PROVE  Quiet(a)
      <4>1. a \notin lag
        BY <2>1, <3>1 DEF Quiet
      <4>2. a # b
        BY <2>1, <3>1, <4>1 DEF IInv, Coherent
      <4> QED BY <2>1, <3>1, <4>2 DEF Quiet
    <3> QED BY <2>1, <3>1 DEF IInv, Seen, SettledMeansReady
  <2> QED BY <2>2, <2>3 DEF IInv
<1>2. CASE Begin(b)
  <2>1. /\ pc = "idle" /\ b \in queued /\ queued' = queued \ {b}
        /\ current' = b /\ held' = cache.bindings[b] /\ heldStale' = (b \in lag)
        /\ pc' = IF cache.bindings[b].deleting THEN "cleanup" ELSE "finalizer"
        /\ UNCHANGED <<server, cache, lag, secrets, lastUid, building, timers, key, verdict, budget>>
        /\ cache.bindings[b] # None
    BY <1>2 DEF Begin, objects
  <2>2. held' \in BindingObject
    BY <2>1, ObjectsType
  <2>3. TypeOK'
    BY <2>1, <2>2 DEF IInv, TypeOK
  <2>4. Coherent' /\ Phases' /\ Guarded'
    BY <2>1 DEF IInv, Coherent, Phases, Deleting, Guarded, Vouches
  <2>5. Seen'
    <3>1. \A a \in Bindings : Quiet(a)' => Quiet(a)
      BY <2>1, BindingAssumption DEF Quiet, IInv, TypeOK
    <3> QED BY <2>1, <3>1 DEF IInv, Seen, SettledMeansReady
  <2> QED BY <2>3, <2>4, <2>5 DEF IInv
<1> QED BY <1>1, <1>2

\* What a step of a reconcile knows of the copy it works on.
LEMMA Working ==
    ASSUME IInv, pc # "idle"
    PROVE  /\ current \in Bindings /\ held \in BindingObject /\ held # None
           /\ held.spec \in SpecShape
           /\ ~heldStale => held = server.bindings[current]
BY BindingAssumption, NoneIsNoObject DEF IInv, TypeOK, BindingObject, Coherent

\* The first step: the finalizer is there, or is written, or the reconcile ends.
LEMMA AddFinalizerPreserves ==
    ASSUME IInv, AddFinalizer PROVE IInv'
<1>1. /\ pc = "finalizer" /\ ~held.deleting
      /\ UNCHANGED <<secrets, lastUid, building, queued, budget>>
  BY DEF AddFinalizer, Step, IInv, Phases, Deleting
<1>2. CASE held.finalizer /\ NoWrite /\ Goto("resolve")
  <2>1. /\ UNCHANGED <<server, cache, lag, current, held, heldStale, verdict, timers>>
        /\ pc' = "resolve" /\ key' = "None"
    BY <1>2 DEF NoWrite, objects, Goto
  <2>2. TypeOK' /\ Phases' /\ DeploymentIsCoherent' /\ SameCopies
    BY <1>1, <1>2, <2>1
    DEF IInv, TypeOK, Phases, Deleting, Coherent, DeploymentIsCoherent, SameCopies
  <2> QED BY <1>1, <2>1, <2>2, OtherStepPreserves DEF queue
<1>3. CASE Fail
  BY <1>1, <1>3, FailPreserves DEF IInv, TypeOK
<1>4. CASE /\ ~held.finalizer /\ ~heldStale
           /\ held' = [held EXCEPT !.finalizer = TRUE]
           /\ StoreBinding(current, held')
           /\ pc' = "resolve" /\ UNCHANGED <<current, heldStale, key, verdict, timers>>
  <2>1. /\ current \in Bindings /\ held \in BindingObject /\ held = server.bindings[current]
    BY <1>1, <1>4, Working
  <2>2. held' \in BindingObject /\ held'.finalizer /\ ~held'.deleting /\ held' # held
    BY <1>1, <1>4, <2>1 DEF BindingObject
  <2>3. PICK object \in BindingObject : object = held'
    BY <2>2
  <2>4. /\ server' \in Objects /\ cache' = cache /\ LagType
        /\ server'.bindings = [server.bindings EXCEPT ![current] = object]
        /\ \A a \in Bindings : a \notin lag' => cache'.bindings[a] = server'.bindings[a]
        /\ \A a \in Bindings : a \in lag' <=> (a \in lag \/ a = current)
        /\ DeploymentIsCoherent'
    <3>1. StoreBinding(current, object) /\ object # server.bindings[current]
      BY <1>4, <2>1, <2>2, <2>3
    <3> QED BY <2>1, <3>1, StoreBindingEffect
  <2>5. \A b \in Bindings :
            server'.bindings[b] = IF b = current THEN object ELSE server.bindings[b]
    BY <2>1, <2>4, ObjectsType
  <2>6. TypeOK'
    BY <1>1, <1>4, <2>2, <2>4 DEF IInv, TypeOK, LagType
  <2>7. Coherent'
    BY <1>4, <2>1, <2>3, <2>4, <2>5 DEF Coherent, DeploymentIsCoherent
  <2>8. Phases'
    BY <1>4, <2>2 DEF Phases, Deleting
  <2>9. Guarded'
    <3>1. HasFinalizer(object)
      BY <2>2, <2>3, NoneIsNoObject DEF HasFinalizer
    <3>2. \A b \in Bindings : HasFinalizer(server.bindings[b]) => HasFinalizer(server'.bindings[b])
      BY <2>5, <3>1
    <3>3. \A b \in Bindings : Vouches(cache.bindings[b], b)'
      BY <2>4, <3>2 DEF IInv, Guarded, Vouches
    <3>4. HasFinalizer(server'.bindings[current'])
      BY <1>4, <2>1, <2>5, <3>1
    <3> QED BY <3>3, <3>4 DEF Guarded, Vouches
  <2>10. Seen'
    <3>1. \A a \in Bindings : Quiet(a)' => a # current /\ Quiet(a)
      BY <1>1, <1>4, <2>4 DEF Quiet
    <3> QED BY <1>1, <1>4, <2>2, <2>3, <2>5, <3>1 DEF IInv, Seen, SettledMeansReady
  <2> QED BY <2>6, <2>7, <2>8, <2>9, <2>10 DEF IInv
<1> QED BY <1>2, <1>3, <1>4 DEF AddFinalizer

LEMMA ResolvePreserves ==
    ASSUME IInv, Resolve PROVE IInv'
<1>1. /\ pc = "resolve" /\ held.spec \in SpecShape
      /\ UNCHANGED <<server, cache, lag, secrets, lastUid, building, queued, budget,
                     current, held, heldStale, timers>>
  BY Working DEF Resolve, Step, NoWrite, objects
<1>2. \/ pc' = "inject" /\ key' \in Keys /\ UNCHANGED verdict
      \/ pc' = "degraded" /\ verdict' \in Reasons /\ UNCHANGED key
  <2> DEFINE resolution == Resolution(held.spec)
  <2>1. /\ resolution \in Reasons \cup {"Resolved"}
        /\ resolution = "Resolved" => secrets[held.spec.connectionRef] \in Keys
    BY <1>1, ResolutionType
  <2>2. IF resolution = "Resolved"
        THEN pc' = "inject" /\ key' = secrets[held.spec.connectionRef] /\ UNCHANGED verdict
        ELSE pc' = "degraded" /\ verdict' = resolution /\ UNCHANGED key
    BY DEF Resolve
  <2> HIDE DEF resolution
  <2> QED BY <2>1, <2>2
<1>3. TypeOK'
  BY <1>1, <1>2 DEF IInv, TypeOK
<1>4. Phases' /\ DeploymentIsCoherent' /\ SameCopies
  BY <1>1, <1>2 DEF IInv, Phases, Deleting, Coherent, DeploymentIsCoherent, SameCopies
<1> QED BY <1>1, <1>2, <1>3, <1>4, OtherStepPreserves DEF queue

\* The two steps that write the Deployment.
LEMMA UpdateDeploymentPreserves ==
    ASSUME IInv, NEW next, \/ pc = "inject" /\ next = "ready"
                           \/ pc = "remove" /\ next = "release",
           NEW desired, cache.deployment # None => desired \in DeploymentObject,
           UpdateDeployment(desired, next),
           UNCHANGED <<secrets, lastUid, building, queued, budget>>
    PROVE  IInv'
<1>1. CASE Fail
  BY <1>1, FailPreserves DEF IInv, TypeOK
<1>2. CASE /\ desired \in DeploymentObject
           /\ NoWrite \/ StoreDeployment(desired)
           /\ Goto(next)
  <2>1. /\ UNCHANGED <<current, held, heldStale, verdict, timers>>
        /\ pc' = next /\ key' = "None"
    BY <1>2 DEF Goto
  <2>2. /\ server' \in Objects /\ cache' = cache /\ LagType
        /\ server'.bindings = server.bindings
        /\ SameCopies /\ DeploymentIsCoherent'
    <3>1. CASE NoWrite
      BY <3>1 DEF NoWrite, objects, IInv, TypeOK, LagType, SameCopies, Coherent,
                  DeploymentIsCoherent
    <3>2. CASE StoreDeployment(desired)
      BY <1>2, <3>2, StoreDeploymentEffect
    <3> QED BY <1>2, <3>1, <3>2
  <2>3. TypeOK'
    BY <2>1, <2>2 DEF IInv, TypeOK, LagType
  <2>4. Phases'
    <3>1. current \in Bindings
      BY DEF IInv, TypeOK
    <3> QED BY <2>1, <2>2, <3>1 DEF IInv, Phases, Deleting, SameCopies
  <2> QED BY <2>1, <2>2, <2>3, <2>4, OtherStepPreserves DEF queue
<1> QED BY <1>1, <1>2 DEF UpdateDeployment

LEMMA InjectPreserves ==
    ASSUME IInv, Inject PROVE IInv'
<1>1. /\ pc = "inject" /\ key \in Keys
      /\ UNCHANGED <<secrets, lastUid, building, queued, budget>>
  BY DEF Inject, Step, IInv, TypeOK
<1>2. current \in Bindings /\ held.spec \in SpecShape
  BY <1>1, Working
<1> DEFINE desired == [cache.deployment EXCEPT
                        !.env = AppEnv(cache.deployment,
                                       MergeEnvVars(@, Injected(current, held.spec, key))),
                        !.managed = @ \cup ManagedNames(current)]
<1>3. cache.deployment # None => desired \in DeploymentObject
  BY <1>1, <1>2, ObjectsType, InjectedDeployment
<1>4. UpdateDeployment(desired, "ready")
  BY DEF Inject
<1> HIDE DEF desired
<1> QED BY <1>1, <1>3, <1>4, UpdateDeploymentPreserves

LEMMA RemovePreserves ==
    ASSUME IInv, Remove PROVE IInv'
<1>1. /\ pc = "remove" /\ UNCHANGED <<secrets, lastUid, building, queued, budget>>
  BY DEF Remove, Step
<1>2. current \in Bindings
  BY <1>1, Working
<1> DEFINE desired == [cache.deployment EXCEPT
                        !.env = AppEnv(cache.deployment, RemoveEnvVars(@, ManagedNames(current))),
                        !.managed = @ \ ManagedNames(current)]
<1>3. cache.deployment # None => desired \in DeploymentObject
  BY <1>2, ObjectsType, RemovedDeployment
<1>4. UpdateDeployment(desired, "release")
  BY DEF Remove
<1> HIDE DEF desired
<1> QED BY <1>1, <1>3, <1>4, UpdateDeploymentPreserves

LEMMA CleanupPreserves ==
    ASSUME IInv, Cleanup PROVE IInv'
<1>1. /\ pc = "cleanup" /\ held.deleting /\ NoWrite
      /\ UNCHANGED <<secrets, lastUid, building, queued, budget>>
  BY DEF Cleanup, Step, IInv, Phases, Deleting
<1>2. CASE ~held.finalizer /\ Finish(FALSE)
  <2>1. heldStale
    BY <1>1, <1>2, Working DEF IInv, Seen
  <2> QED BY <1>1, <1>2, <2>1, FinishPreserves DEF IInv, TypeOK
<1>3. CASE held.finalizer /\ (Goto("remove") \/ Goto("release"))
  <2>1. /\ UNCHANGED <<server, cache, lag, current, held, heldStale, verdict, timers>>
        /\ pc' \in {"remove", "release"} /\ key' = "None"
    BY <1>1, <1>3 DEF NoWrite, objects, Goto
  <2>2. TypeOK' /\ Phases' /\ DeploymentIsCoherent' /\ SameCopies
    BY <1>1, <1>3, <2>1
    DEF IInv, TypeOK, Phases, Deleting, Coherent, DeploymentIsCoherent, SameCopies
  <2> QED BY <1>1, <2>1, <2>2, OtherStepPreserves DEF queue
<1> QED BY <1>2, <1>3 DEF Cleanup

\* Only a copy that is the server's, and whose deletion the cache has seen, is released.
LEMMA ReleasePreserves ==
    ASSUME IInv, Release PROVE IInv'
<1>1. /\ pc = "release" /\ held.deleting
      /\ UNCHANGED <<secrets, lastUid, building, queued, budget>>
  BY DEF Release, Step, IInv, Phases, Deleting
<1>2. CASE Fail
  BY <1>1, <1>2, FailPreserves DEF IInv, TypeOK
<1>3. CASE ~heldStale /\ StoreBinding(current, None) /\ Finish(FALSE)
  <2>1. /\ current \in Bindings /\ held # None /\ held = server.bindings[current]
    BY <1>1, <1>3, Working
  <2>2. cache.bindings[current] = held
    BY <1>1, <1>3, <2>1 DEF IInv, Phases, Deleting, Coherent
  <2> QED BY <1>1, <1>3, <2>1, <2>2, StoreFinishPreserves
<1> QED BY <1>2, <1>3 DEF Release

LEMMA UpdateStatusPreserves ==
    ASSUME IInv, pc \in {"ready", "degraded"}, NEW ready \in Reasons \cup {"Reconciled"},
           NEW requeue \in BOOLEAN, requeue \/ ready = "Reconciled",
           UpdateStatus(ready, requeue),
           UNCHANGED <<secrets, lastUid, building, queued, budget>>
    PROVE  IInv'
<1> DEFINE status == [observedGeneration |-> held.generation, ready |-> ready]
           object == [held EXCEPT !.status = status]
<1>1. /\ current \in Bindings /\ held \in BindingObject /\ held # None
      /\ ~heldStale => held = server.bindings[current]
      /\ held.finalizer /\ ~held.deleting
  BY Working DEF IInv, Phases, Deleting
<1>2. object \in BindingObject /\ object.status = status /\ object.finalizer
  BY <1>1, ReadyType DEF BindingObject
<1>3. /\ IF status # held.status /\ ~heldStale THEN StoreBinding(current, object) ELSE NoWrite
      /\ Finish(requeue \/ (status # held.status /\ heldStale))
  BY DEF UpdateStatus
<1>4. ~requeue => status = [observedGeneration |-> held.generation, ready |-> "Reconciled"]
  OBVIOUS
<1> HIDE DEF status, object
<1>5. CASE status # held.status /\ ~heldStale
  <2>1. object # server.bindings[current] /\ HasFinalizer(object)
    BY <1>1, <1>2, <1>5, NoneIsNoObject DEF HasFinalizer
  <2>2. StoreBinding(current, object) /\ Finish(requeue) /\ object # None
    BY <1>2, <1>3, <1>5, NoneIsNoObject
  <2> QED BY <1>2, <2>1, <2>2, StoreFinishPreserves
<1>6. CASE ~(status # held.status /\ ~heldStale)
  <2> DEFINE retry == requeue \/ (status # held.status /\ heldStale)
  <2>1. retry \in BOOLEAN /\ NoWrite /\ Finish(retry)
    BY <1>3, <1>6
  <2>2. retry \/ heldStale \/ AtRest(server.bindings[current])
    BY <1>1, <1>4, <1>6 DEF AtRest
  <2> HIDE DEF retry
  <2> QED BY <2>1, <2>2, FinishPreserves DEF IInv, TypeOK
<1> QED BY <1>5, <1>6

LEMMA ReportsPreserve ==
    ASSUME IInv, SetReady \/ SetDegraded PROVE IInv'
<1>1. CASE SetReady
  BY <1>1, UpdateStatusPreserves DEF SetReady, Step
<1>2. CASE SetDegraded
  <2>1. verdict \in Reasons
    BY <1>2 DEF SetDegraded, Step, IInv, TypeOK
  <2> QED BY <1>2, <2>1, UpdateStatusPreserves DEF SetDegraded, Step
<1> QED BY <1>1, <1>2

LEMMA QueuePreserves ==
    ASSUME IInv, NEW b \in Bindings, SyncBinding(b) \/ TimerFires(b) PROVE IInv'
<1>1. CASE SyncBinding(b)
  <2>1. /\ cache' = [cache EXCEPT !.bindings = [cache.bindings EXCEPT ![b] = server.bindings[b]]]
        /\ lag' = lag \ {b} /\ queued' = queued \cup {b}
        /\ UNCHANGED <<server, secrets, lastUid, building, timers, current, pc, held, heldStale,
                       key, verdict, budget>>
    BY <1>1 DEF SyncBinding, reconciler, IInv, TypeOK, Objects
  <2>2. /\ cache'.bindings = [cache.bindings EXCEPT ![b] = server.bindings[b]]
        /\ cache'.deployment = cache.deployment /\ cache' \in Objects
    BY <2>1, ObjectsType DEF IInv, TypeOK, Objects
  <2>3. \A a \in Bindings :
            cache'.bindings[a] = IF a = b THEN server.bindings[a] ELSE cache.bindings[a]
    BY <2>2, ObjectsType
  <2>4. TypeOK'
    BY <2>1, <2>2 DEF IInv, TypeOK
  <2>5. Coherent'
    BY <2>1, <2>2, <2>3, BindingAssumption DEF IInv, Coherent
  <2>6. Phases'
    BY <2>1 DEF IInv, Phases, Deleting
  <2>7. Guarded'
    BY <2>1, <2>3 DEF IInv, Guarded, Vouches
  <2>8. Seen'
    <3>1. \A a \in Bindings : Quiet(a)' => Quiet(a)
      BY <2>1 DEF Quiet
    <3>2. (pc' # "idle" /\ heldStale') => current' \in lag' \cup queued'
      BY <2>1 DEF IInv, Seen
    <3> QED BY <2>1, <3>1, <3>2 DEF IInv, Seen, SettledMeansReady
  <2> QED BY <2>4, <2>5, <2>6, <2>7, <2>8 DEF IInv
<1>2. CASE TimerFires(b)
  <2>1. /\ timers' = timers \ {b} /\ queued' = queued \cup {b}
        /\ UNCHANGED <<server, cache, lag, secrets, lastUid, building, current, pc, held,
                       heldStale, key, verdict, budget>>
    BY <1>2 DEF TimerFires, objects, reconciler
  <2>2. TypeOK' /\ Coherent' /\ Phases' /\ Guarded'
    BY <2>1 DEF IInv, TypeOK, Coherent, Phases, Deleting, Guarded, Vouches
  <2>3. Seen'
    <3>1. \A a \in Bindings : Quiet(a)' => Quiet(a)
      BY <2>1 DEF Quiet
    <3> QED BY <2>1, <3>1 DEF IInv, Seen, SettledMeansReady
  <2> QED BY <2>2, <2>3 DEF IInv
<1> QED BY <1>1, <1>2

LEMMA OtherSyncsPreserve ==
    ASSUME IInv, SyncWorkload \/ SyncDeployment PROVE IInv'
<1>1. /\ cache' \in Objects /\ cache'.bindings = cache.bindings
      /\ UNCHANGED <<server, secrets, lastUid, building, queue, reconciler, budget>>
  BY DEF SyncWorkload, SyncDeployment, IInv, TypeOK, Objects
<1>2. LagType /\ SameCopies
  BY <1>1, BindingAssumption DEF SyncWorkload, SyncDeployment, IInv, TypeOK, LagType, SameCopies
<1>3. DeploymentIsCoherent'
  BY <1>1 DEF SyncWorkload, SyncDeployment, IInv, TypeOK, Objects, Coherent, DeploymentIsCoherent
<1> QED BY <1>1, <1>2, <1>3, ElsewherePreserves DEF IInv, TypeOK

LEMMA BuildPreserves ==
    ASSUME IInv, BeginBuild \/ Build PROVE IInv'
<1>1. UNCHANGED <<secrets, lastUid, queue, reconciler, budget>>
  BY DEF BeginBuild, Build, Builder
<1>2. building' \in WorkloadObject \cup {None}
  BY ObjectsType DEF BeginBuild, Build
<1>3. CASE NoWrite
  BY <1>1, <1>2, <1>3, ElsewherePreserves
  DEF NoWrite, objects, IInv, TypeOK, LagType, SameCopies, Coherent, DeploymentIsCoherent
<1>4. CASE building # None /\ StoreDeployment(Rebuilt(cache.deployment))
  <2>1. Rebuilt(cache.deployment) \in DeploymentObject
    BY <1>4, ObjectsType, RebuiltDeployment
  <2>2. /\ server' \in Objects /\ cache' = cache /\ LagType
        /\ server'.bindings = server.bindings
        /\ SameCopies /\ DeploymentIsCoherent'
    BY <1>4, <2>1, StoreDeploymentEffect
  <2> QED BY <1>1, <1>2, <2>2, ElsewherePreserves DEF IInv, TypeOK
<1> QED BY <1>3, <1>4 DEF BeginBuild, Build

LEMMA BindingEditsPreserve ==
    ASSUME IInv, NEW b \in Bindings,
           \/ \E spec \in BindingSpecs : CreateBinding(b, spec) \/ EditBinding(b, spec)
           \/ DeleteBinding(b)
    PROVE  IInv'
<1>1. server.bindings[b] \in BindingObject \cup {None}
  BY ObjectsType
<1>2. ASSUME NEW spec \in BindingSpecs, CreateBinding(b, spec) PROVE IInv'
  <2>1. NewBinding(spec) \in BindingObject /\ ~NewBinding(spec).deleting
    BY NewBindingType DEF NewBinding
  <2>2. /\ WriteBinding(b, NewBinding(spec)) /\ server.bindings[b] = None
        /\ budget' \in 0 .. MaxDisturbances
    BY <1>2 DEF CreateBinding, IInv, TypeOK
  <2> QED BY <2>1, <2>2, NoneIsNoObject, EnvironmentWritePreserves DEF HasFinalizer
<1>3. ASSUME NEW spec \in BindingSpecs, EditBinding(b, spec) PROVE IInv'
  <2> DEFINE old == server.bindings[b]
             object == [old EXCEPT !.spec = spec, !.generation = @ + 1]
  <2>1. /\ WriteBinding(b, object) /\ old \in BindingObject /\ old.spec # spec
        /\ budget' \in 0 .. MaxDisturbances
    BY <1>1, <1>3, DisturbType DEF EditBinding, IInv
  <2>2. /\ object \in BindingObject /\ object # old
        /\ object.finalizer = old.finalizer /\ object.deleting = old.deleting
    BY <2>1, EditedType
  <2> HIDE DEF object
  <2> QED BY <2>1, <2>2, NoneIsNoObject, EnvironmentWritePreserves DEF HasFinalizer, IInv, Seen
<1>4. CASE DeleteBinding(b)
  <2> DEFINE old == server.bindings[b]
             object == IF old.finalizer
                       THEN [old EXCEPT !.deleting = TRUE, !.generation = @ + 1] ELSE None
  <2>1. /\ WriteBinding(b, object) /\ old \in BindingObject /\ ~old.deleting
        /\ budget' \in 0 .. MaxDisturbances
    BY <1>1, <1>4, DisturbType DEF DeleteBinding, IInv
  <2>2. old.finalizer => object \in BindingObject /\ object.finalizer /\ object.deleting
    BY <2>1, DeletedType
  <2>3. ~old.finalizer => object = None
    OBVIOUS
  <2> HIDE DEF object
  <2> QED BY <2>1, <2>2, <2>3, NoneIsNoObject, EnvironmentWritePreserves DEF HasFinalizer
<1> QED BY <1>2, <1>3, <1>4

LEMMA WorkloadEditsPreserve ==
    ASSUME IInv, \/ \E env \in UserEnvs : EditWorkload(env) \/ CreateWorkload(env)
                 \/ DeleteWorkload
    PROVE  IInv'
<1>1. /\ UNCHANGED <<secrets, building, queue, reconciler>> /\ lastUid' \in Nat
      /\ budget' \in 0 .. MaxDisturbances
  <2>1. lastUid \in Nat /\ budget \in 0 .. MaxDisturbances /\ TypeOK
    BY DEF IInv, TypeOK
  <2>2. ASSUME NEW env \in UserEnvs, EditWorkload(env) \/ CreateWorkload(env)
        PROVE  /\ UNCHANGED <<secrets, building, queue, reconciler>> /\ lastUid' \in Nat
               /\ budget' \in 0 .. MaxDisturbances
    BY <2>1, <2>2, DisturbType DEF EditWorkload, CreateWorkload, Elsewhere, reconciler
  <2>3. ASSUME DeleteWorkload
        PROVE  /\ UNCHANGED <<secrets, building, queue, reconciler>> /\ lastUid' \in Nat
               /\ budget' \in 0 .. MaxDisturbances
    BY <2>1, <2>3, DisturbType DEF DeleteWorkload, Elsewhere, reconciler
  <2> QED BY <2>2, <2>3
<1>2. PICK object \in WorkloadObject \cup {None} : StoreWorkload(object)
  <2>1. ASSUME NEW env \in UserEnvs, EditWorkload(env)
        PROVE  \E object \in WorkloadObject \cup {None} : StoreWorkload(object)
    <3>1. [server.workload EXCEPT !.env = env] \in WorkloadObject
      BY <2>1, ObjectsType DEF EditWorkload, WorkloadObject
    <3> QED BY <2>1, <3>1 DEF EditWorkload
  <2>2. ASSUME NEW env \in UserEnvs, CreateWorkload(env)
        PROVE  \E object \in WorkloadObject \cup {None} : StoreWorkload(object)
    <3>1. [uid |-> lastUid', env |-> env] \in WorkloadObject
      BY <1>1 DEF WorkloadObject
    <3> QED BY <2>2, <3>1 DEF CreateWorkload
  <2> QED BY <2>1, <2>2 DEF DeleteWorkload
<1>3. /\ server' \in Objects /\ cache' = cache /\ LagType
      /\ server'.bindings = server.bindings
      /\ SameCopies /\ DeploymentIsCoherent'
  BY <1>2, StoreWorkloadEffect
<1> QED BY <1>1, <1>3, ElsewherePreserves DEF IInv, TypeOK

LEMMA DeploymentEditsPreserve ==
    ASSUME IInv, GarbageCollect
                 \/ \E object \in {None} \cup ForeignDeployments : ReplaceDeployment(object)
    PROVE  IInv'
<1>1. /\ UNCHANGED <<secrets, lastUid, building, queue, reconciler>>
      /\ budget' \in 0 .. MaxDisturbances
  BY DisturbType DEF GarbageCollect, ReplaceDeployment, Elsewhere, reconciler, IInv, TypeOK
<1>2. ForeignDeployments \subseteq DeploymentObject
  <2>1. \A app \in BOOLEAN :
            [owner |-> OtherController, app |-> app, env |-> <<>>, managed |-> {}]
                \in DeploymentObject
    BY DEF DeploymentObject
  <2> QED BY <2>1 DEF ForeignDeployments
<1>3. PICK object \in DeploymentObject \cup {None} : StoreDeployment(object)
  BY <1>2 DEF GarbageCollect, ReplaceDeployment
<1>4. /\ server' \in Objects /\ cache' = cache /\ LagType
      /\ server'.bindings = server.bindings
      /\ SameCopies /\ DeploymentIsCoherent'
  BY <1>3, StoreDeploymentEffect
<1> QED BY <1>1, <1>4, ElsewherePreserves DEF IInv, TypeOK

LEMMA SecretEditsPreserve ==
    ASSUME IInv, NEW s \in Secrets,
           \/ \E k \in Keys \cup {None} : ChangeSecret(s, k)
           \/ \E k \in Keys : RestoreSecret(s, k)
    PROVE  IInv'
<1>1. /\ UNCHANGED <<server, cache, lag, lastUid, building, queue, reconciler>>
      /\ budget' \in 0 .. MaxDisturbances
      /\ secrets' \in [Secrets -> Keys \cup {None}]
  BY DisturbType DEF ChangeSecret, RestoreSecret, Elsewhere, reconciler, objects, IInv, TypeOK
<1>2. LagType /\ SameCopies /\ DeploymentIsCoherent'
  BY <1>1 DEF IInv, TypeOK, LagType, SameCopies, Coherent, DeploymentIsCoherent
<1> QED BY <1>1, <1>2, ElsewherePreserves DEF IInv, TypeOK

LEMMA FailuresPreserve ==
    ASSUME IInv, ApiCallFails \/ Restart PROVE IInv'
<1>1. budget' \in 0 .. MaxDisturbances
  BY DisturbType DEF ApiCallFails, Restart, IInv
<1>2. CASE ApiCallFails
  BY <1>1, <1>2, FailPreserves DEF ApiCallFails
<1>3. CASE Restart
  <2>1. /\ UNCHANGED <<server, secrets, lastUid>> /\ cache' = server /\ lag' = {}
        /\ queued' = {b \in Bindings : server.bindings[b] # None} /\ timers' = {}
        /\ building' = None /\ current' = None /\ pc' = "idle" /\ held' = None
        /\ heldStale' = FALSE /\ key' = "None" /\ verdict' = "None"
    BY <1>3 DEF Restart
  <2>2. TypeOK'
    BY <1>1, <2>1 DEF IInv, TypeOK
  <2>3. Coherent' /\ Phases' /\ Guarded'
    BY <2>1 DEF Coherent, Phases, Deleting, Guarded, Vouches
  <2>4. Seen'
    BY <2>1 DEF IInv, Seen, SettledMeansReady, Quiet
  <2> QED BY <2>2, <2>3, <2>4 DEF IInv
<1> QED BY <1>2, <1>3

LEMMA StepPreserves == IInv /\ [Next]_vars => IInv'
<1> SUFFICES ASSUME IInv, [Next]_vars PROVE IInv'
  OBVIOUS
<1>1. CASE Reconcile
  BY <1>1, BeginPreserves, AddFinalizerPreserves, ResolvePreserves, InjectPreserves,
     CleanupPreserves, RemovePreserves, ReleasePreserves, ReportsPreserve DEF Reconcile
<1>2. CASE (\E b \in Bindings : SyncBinding(b) \/ TimerFires(b))
           \/ SyncWorkload \/ SyncDeployment
  BY <1>2, QueuePreserves, OtherSyncsPreserve
<1>3. CASE BeginBuild \/ Build
  BY <1>3, BuildPreserves
<1>4. CASE Environment
  BY <1>4, BindingEditsPreserve, WorkloadEditsPreserve, DeploymentEditsPreserve,
     SecretEditsPreserve, FailuresPreserve DEF Environment
<1>5. CASE UNCHANGED vars
  <2>1. UNCHANGED <<server, cache, lag, secrets, lastUid, building, queue, reconciler, budget>>
    BY <1>5 DEF vars, objects
  <2>2. LagType /\ SameCopies /\ DeploymentIsCoherent'
    BY <2>1 DEF IInv, TypeOK, LagType, SameCopies, Coherent, DeploymentIsCoherent
  <2> QED BY <2>1, <2>2, ElsewherePreserves DEF IInv, TypeOK
<1> QED BY <1>1, <1>2, <1>3, <1>4, <1>5 DEF Next

\* What the resourceVersions, the order of the steps of a reconcile and the queue
\* guarantee together holds in every behaviour.
THEOREM Invariance == Spec => []IInv
BY InitIInv, StepPreserves, PTL DEF Spec

\* No sequence of steps takes the state out of its types; in particular the key of a
\* Secret is carried exactly from its resolution to the injection, and a verdict
\* from the resolution to its report.
THEOREM TypeCorrect == Spec => []TypeOK
BY Invariance, PTL DEF IInv

\* However bindings, Workload, Deployment and Secrets change under the controller and
\* wherever it is interrupted, it comes back to every binding until that is Ready
\* for its generation, or gone.
THEOREM SettledIsReady == Spec => []SettledMeansReady
BY Invariance, PTL DEF IInv, Seen

--------------------------------------------------------------------------------
(* What the two controllers do to a Deployment.                                 *)

\* Where there is an "app" container, the managed names are the names of the injected
\* variables in effect.
Agrees(d) == d.app => InjectedNames(d) = d.managed

InjectedInto(d, b, spec, k) ==
    [d EXCEPT !.env = AppEnv(d, MergeEnvVars(@, Injected(b, spec, k))),
              !.managed = @ \cup ManagedNames(b)]

RemovedFrom(d, b) ==
    [d EXCEPT !.env = AppEnv(d, RemoveEnvVars(@, ManagedNames(b))),
              !.managed = @ \ ManagedNames(b)]

\* The variables in effect that are not the binding's own.
OthersIn(d, b) == {v \in Effective(d.env) : v.name \notin ManagedNames(b)}

LEMMA InjectKeeps ==
    ASSUME NEW d \in DeploymentObject, NEW b \in Bindings, NEW spec \in SpecShape,
           NEW k \in Keys
    PROVE  /\ InjectedInto(d, b, spec, k).managed = d.managed \cup ManagedNames(b)
           /\ OthersIn(InjectedInto(d, b, spec, k), b) = OthersIn(d, b)
           /\ Agrees(d) => Agrees(InjectedInto(d, b, spec, k))
<1> DEFINE toInject == Injected(b, spec, k)
           new == InjectedInto(d, b, spec, k)
<1>1. d.env \in Seq(AnyVariables)
  BY DEF DeploymentObject, AnyVariables
<1>2. /\ toInject \in Seq(AnyVariables) /\ NamesIn(toInject) = ManagedNames(b)
      /\ \A v \in Effective(toInject) : v.value \in InjectedValues
  BY InjectedType
<1>3. /\ new.env = IF d.app THEN MergeEnvVars(d.env, toInject) ELSE d.env
      /\ new.app = d.app /\ new.managed = d.managed \cup ManagedNames(b)
  BY DEF InjectedInto, AppEnv, DeploymentObject
<1> HIDE DEF toInject, new
<1>4. d.app => Effective(new.env) =
        {v \in Effective(d.env) : v.name \notin ManagedNames(b)} \cup Effective(toInject)
  BY <1>1, <1>2, <1>3, MergeEffect
<1>5. /\ \A v \in Effective(toInject) : v.name \in ManagedNames(b)
      /\ \A name \in ManagedNames(b) : \E v \in Effective(toInject) : v.name = name
  BY <1>2, EffectiveNames
<1>6. OthersIn(new, b) = OthersIn(d, b)
  BY <1>3, <1>4, <1>5 DEF OthersIn
<1>7. ASSUME Agrees(d), d.app PROVE InjectedNames(new) = new.managed
  <2>1. \A name : name \in InjectedNames(new) <=>
            \E v \in Effective(new.env) : v.value \in InjectedValues /\ v.name = name
    BY DEF InjectedNames
  <2>2. \A name : name \in d.managed <=>
            \E v \in Effective(d.env) : v.value \in InjectedValues /\ v.name = name
    BY <1>7 DEF Agrees, InjectedNames
  <2>3. \A name : name \in InjectedNames(new) => name \in d.managed \cup ManagedNames(b)
    BY <1>4, <1>5, <1>7, <2>1, <2>2
  <2>4. \A name \in ManagedNames(b) : name \in InjectedNames(new)
    BY <1>2, <1>4, <1>5, <1>7, <2>1
  <2>5. \A name \in d.managed \ ManagedNames(b) : name \in InjectedNames(new)
    BY <1>4, <1>7, <2>1, <2>2
  <2> QED BY <1>3, <2>3, <2>4, <2>5
<1> QED BY <1>3, <1>6, <1>7 DEF new, Agrees

LEMMA RemoveKeeps ==
    ASSUME NEW d \in DeploymentObject, NEW b \in Bindings
    PROVE  /\ RemovedFrom(d, b).managed = d.managed \ ManagedNames(b)
           /\ OthersIn(RemovedFrom(d, b), b) = OthersIn(d, b)
           /\ Agrees(d) => Agrees(RemovedFrom(d, b))
<1> DEFINE new == RemovedFrom(d, b)
<1>1. d.env \in Seq(AnyVariables)
  BY DEF DeploymentObject, AnyVariables
<1>2. /\ new.env = IF d.app THEN RemoveEnvVars(d.env, ManagedNames(b)) ELSE d.env
      /\ new.app = d.app /\ new.managed = d.managed \ ManagedNames(b)
  BY DEF RemovedFrom, AppEnv, DeploymentObject
<1> HIDE DEF new
<1>3. d.app => Effective(new.env) = {v \in Effective(d.env) : v.name \notin ManagedNames(b)}
  BY <1>1, <1>2, RemoveEffect
<1>4. OthersIn(new, b) = OthersIn(d, b)
  BY <1>2, <1>3 DEF OthersIn
<1>5. ASSUME Agrees(d) PROVE Agrees(new)
  BY <1>2, <1>3, <1>5 DEF Agrees, InjectedNames
<1> QED BY <1>2, <1>4, <1>5 DEF new

\* A rebuild keeps what is managed, whatever the Workload's spec says.
LEMMA RebuildKeeps ==
    ASSUME IInv, building # None, NEW d \in DeploymentObject
    PROVE  /\ \A v \in Effective(d.env) : v.name \in d.managed =>
                    v \in Effective(Rebuilt(d).env)
           /\ (d.app /\ Agrees(d)) => Agrees(Rebuilt(d))
<1> DEFINE new == Rebuilt(d)
<1>1. building.env \in UserEnvs
  BY DEF IInv, TypeOK, WorkloadObject
<1>2. d.env \in Seq(AnyVariables) /\ building.env \in Seq(AnyVariables)
  BY <1>1, UserEnvType DEF DeploymentObject, AnyVariables
<1>3. \A v \in Effective(building.env) : v.value \notin InjectedValues
  BY <1>1, UserEnvType
<1>4. /\ new.env = PreserveManaged(building.env, d.env, d.managed)
      /\ new.managed = d.managed
  BY NoneIsNoObject DEF Rebuilt, DeploymentObject
<1> HIDE DEF new
<1>5. Effective(new.env) =
        {v \in Effective(building.env) : v.name \notin (NamesIn(d.env) \cap d.managed)}
            \cup {v \in Effective(d.env) : v.name \in d.managed}
  BY <1>2, <1>4, PreserveEffect
<1>6. ASSUME Agrees(d), d.app PROVE Agrees(new)
  <2>1. \A name : name \in InjectedNames(new) <=>
            \E v \in Effective(new.env) : v.value \in InjectedValues /\ v.name = name
    BY DEF InjectedNames
  <2>2. \A name : name \in d.managed <=>
            \E v \in Effective(d.env) : v.value \in InjectedValues /\ v.name = name
    BY <1>6 DEF Agrees, InjectedNames
  <2>3. \A name : name \in InjectedNames(new) <=> name \in d.managed
    BY <1>3, <1>5, <2>1, <2>2
  <2> QED BY <1>4, <2>3 DEF Agrees
<1> QED BY <1>5, <1>6 DEF new

LEMMA NewDeploymentAgrees ==
    ASSUME IInv
    PROVE  /\ building # None => Agrees(Rebuilt(None))
           /\ \A d \in ForeignDeployments : Agrees(d)
<1>1. ASSUME building # None PROVE Agrees(Rebuilt(None))
  <2>1. building.env \in UserEnvs
    BY <1>1 DEF IInv, TypeOK, WorkloadObject
  <2> QED BY <2>1, UserEnvType DEF Rebuilt, Agrees, InjectedNames
<1>2. \A d \in ForeignDeployments : Agrees(d)
  BY DEF Agrees, ForeignDeployments, InjectedNames, Effective
<1> QED BY <1>1, <1>2

\* A write that gets through is made from the server's Deployment.
LEMMA BuildWrites ==
    ASSUME IInv, Build, server'.deployment # server.deployment
    PROVE  /\ building # None /\ server'.deployment = Rebuilt(server.deployment)
           /\ server.deployment = None \/ Rendered(server.deployment)
<1>1. building # None /\ StoreDeployment(Rebuilt(cache.deployment))
  BY DEF Build, NoWrite, objects
<1>2. ~(\/ cache.deployment = None /\ server.deployment # None
        \/ cache.deployment # None
              /\ (cache.deployment.owner = OtherController \/ "deployment" \in lag))
  BY DEF Build, NoWrite, objects
<1>3. cache.deployment = server.deployment
  BY <1>2 DEF IInv, Coherent
<1>4. Rebuilt(cache.deployment) \in DeploymentObject
  BY <1>1, ObjectsType, RebuiltDeployment
<1> QED BY <1>1, <1>2, <1>3, <1>4, StoreDeploymentEffect DEF Rendered

LEMMA UpdateDeploymentWrites ==
    ASSUME IInv, NEW next, NEW desired, cache.deployment # None => desired \in DeploymentObject,
           UpdateDeployment(desired, next), server'.deployment # server.deployment
    PROVE  /\ cache.deployment = server.deployment /\ server.deployment \in DeploymentObject
           /\ server'.deployment = desired /\ server'.bindings = server.bindings
<1>1. cache.deployment # None /\ StoreDeployment(desired)
  BY DEF UpdateDeployment, Fail, NoWrite, objects
<1>2. server'.deployment = desired /\ server'.bindings = server.bindings
  BY <1>1, StoreDeploymentEffect
<1>3. desired # cache.deployment => "deployment" \notin lag
  BY <1>1 DEF UpdateDeployment, Fail, NoWrite, objects
<1>4. desired # cache.deployment
  BY <1>1 DEF UpdateDeployment, Fail, NoWrite, objects
<1>5. cache.deployment = server.deployment
  BY <1>3, <1>4 DEF IInv, Coherent
<1> QED BY <1>1, <1>2, <1>5, ObjectsType

LEMMA InjectWrites ==
    ASSUME IInv, Inject, server'.deployment # server.deployment
    PROVE  /\ pc = "inject" /\ current \in Bindings /\ held.spec \in SpecShape /\ key \in Keys
           /\ server.deployment \in DeploymentObject
           /\ server'.deployment = InjectedInto(server.deployment, current, held.spec, key)
           /\ server'.bindings = server.bindings
<1>1. pc = "inject" /\ key \in Keys
  BY DEF Inject, Step, IInv, TypeOK
<1>2. current \in Bindings /\ held.spec \in SpecShape
  BY <1>1, Working
<1>3. UpdateDeployment(InjectedInto(cache.deployment, current, held.spec, key), "ready")
  BY DEF Inject, InjectedInto
<1>4. cache.deployment # None =>
        InjectedInto(cache.deployment, current, held.spec, key) \in DeploymentObject
  BY <1>1, <1>2, ObjectsType, InjectedDeployment DEF InjectedInto
<1>5. /\ cache.deployment = server.deployment /\ server.deployment \in DeploymentObject
      /\ server'.deployment = InjectedInto(cache.deployment, current, held.spec, key)
      /\ server'.bindings = server.bindings
  BY <1>3, <1>4, UpdateDeploymentWrites
<1> QED BY <1>1, <1>2, <1>5

LEMMA RemoveWrites ==
    ASSUME IInv, Remove, server'.deployment # server.deployment
    PROVE  /\ current \in Bindings /\ server.deployment \in DeploymentObject
           /\ server'.deployment = RemovedFrom(server.deployment, current)
           /\ server'.bindings = server.bindings
<1>1. current \in Bindings
  BY Working DEF Remove, Step
<1>2. UpdateDeployment(RemovedFrom(cache.deployment, current), "release")
  BY DEF Remove, RemovedFrom
<1>3. cache.deployment # None =>
        RemovedFrom(cache.deployment, current) \in DeploymentObject
  BY <1>1, ObjectsType, RemovedDeployment DEF RemovedFrom
<1>4. /\ cache.deployment = server.deployment /\ server.deployment \in DeploymentObject
      /\ server'.deployment = RemovedFrom(cache.deployment, current)
      /\ server'.bindings = server.bindings
  BY <1>2, <1>3, UpdateDeploymentWrites
<1> QED BY <1>1, <1>4

\* A write to a binding is a write to no Deployment.
LEMMA StoreBindingKeeps ==
    ASSUME IInv, NEW b, NEW object, StoreBinding(b, object)
    PROVE  server'.deployment = server.deployment
BY DEF StoreBinding, IInv, TypeOK, Objects

LEMMA ReconcileWrites ==
    ASSUME IInv, Reconcile, server'.deployment # server.deployment
    PROVE  Inject \/ Remove
<1>1. ~NoWrite /\ ~UNCHANGED objects
  BY DEF NoWrite, objects
<1>2. ASSUME NEW b \in Bindings PROVE ~BeginAbsent(b) /\ ~Begin(b)
  BY <1>1 DEF BeginAbsent, Begin
<1>3. ~AddFinalizer /\ ~Release /\ ~SetReady /\ ~SetDegraded
  BY <1>1, StoreBindingKeeps DEF AddFinalizer, Release, SetReady, SetDegraded, UpdateStatus, Fail
<1>4. ~Resolve /\ ~Cleanup
  BY <1>1 DEF Resolve, Cleanup
<1> QED BY <1>2, <1>3, <1>4 DEF Reconcile

LEMMA DeploymentWrites ==
    ASSUME IInv, [Next]_vars, server'.deployment # server.deployment
    PROVE  \/ Build \/ Inject \/ Remove
           \/ server'.deployment = None \/ server'.deployment \in ForeignDeployments
<1>1. ~NoWrite /\ ~UNCHANGED objects /\ ~UNCHANGED server
  BY DEF NoWrite, objects
<1>2. CASE Reconcile
  BY <1>2, ReconcileWrites
<1>3. ~(\E b \in Bindings : SyncBinding(b) \/ TimerFires(b))
      /\ ~SyncWorkload /\ ~SyncDeployment /\ ~BeginBuild
  BY <1>1 DEF SyncBinding, TimerFires, SyncWorkload, SyncDeployment, BeginBuild
<1>4. CASE Environment
  <2>1. ASSUME NEW b, NEW object PROVE ~WriteBinding(b, object)
    BY StoreBindingKeeps DEF WriteBinding
  <2>2. ASSUME NEW object PROVE ~StoreWorkload(object)
    BY DEF StoreWorkload, IInv, TypeOK, Objects
  <2>3. ~(\E b \in Bindings :
            \/ \E spec \in BindingSpecs : CreateBinding(b, spec) \/ EditBinding(b, spec)
            \/ DeleteBinding(b))
    BY <2>1 DEF CreateBinding, EditBinding, DeleteBinding
  <2>4. ~(\/ \E env \in UserEnvs : EditWorkload(env) \/ CreateWorkload(env)
          \/ DeleteWorkload)
    BY <2>2 DEF EditWorkload, CreateWorkload, DeleteWorkload
  <2>5. ~(\E s \in Secrets : \/ \E k \in Keys \cup {None} : ChangeSecret(s, k)
                             \/ \E k \in Keys : RestoreSecret(s, k))
        /\ ~ApiCallFails /\ ~Restart
    BY <1>1 DEF ChangeSecret, RestoreSecret, ApiCallFails, Fail, Restart
  <2>6. ASSUME NEW object, StoreDeployment(object) PROVE server'.deployment = object
    BY <2>6 DEF StoreDeployment, IInv, TypeOK, Objects
  <2>7. GarbageCollect \/ \E object \in {None} \cup ForeignDeployments : ReplaceDeployment(object)
    BY <1>4, <2>3, <2>4, <2>5 DEF Environment
  <2> QED BY <2>6, <2>7 DEF GarbageCollect, ReplaceDeployment
<1>5. CASE UNCHANGED vars
  BY <1>1, <1>5 DEF vars
<1> QED BY <1>2, <1>3, <1>4, <1>5 DEF Next

--------------------------------------------------------------------------------
(* The theorems about it.                                                       *)

\* Every Deployment the Workload controller rendered has the "app" container.
RenderedHasApp == Rendered(server.deployment) => server.deployment.app

LEMMA RenderedHasAppPreserved ==
    ASSUME IInv, RenderedHasApp, [Next]_vars
    PROVE  RenderedHasApp'
<1> SUFFICES ASSUME Rendered(server'.deployment), server'.deployment # server.deployment
             PROVE  server'.deployment.app
  BY DEF RenderedHasApp, Rendered
<1>1. server.deployment \in DeploymentObject \cup {None}
  BY ObjectsType
<1>2. CASE Build
  <2>1. building # None /\ server'.deployment = Rebuilt(server.deployment)
    BY <1>2, BuildWrites
  <2> QED BY <1>1, <2>1, NoneIsNoObject DEF Rebuilt, DeploymentObject
<1>3. CASE Inject
  BY <1>3, InjectWrites, NoneIsNoObject
  DEF RenderedHasApp, Rendered, InjectedInto, DeploymentObject
<1>4. CASE Remove
  BY <1>4, RemoveWrites, NoneIsNoObject
  DEF RenderedHasApp, Rendered, RemovedFrom, DeploymentObject
<1>5. server'.deployment # None /\ server'.deployment \notin ForeignDeployments
  BY DEF Rendered, ForeignDeployments
<1> QED BY <1>2, <1>3, <1>4, <1>5, DeploymentWrites

\* After any sequence of injections, removals, rebuilds, replacements and new
\* Deployments the annotation of one with an "app" container, which is every one the
\* Workload controller rendered, lists exactly the variables in effect that came from
\* a binding, also where the user's own variables have their names.
THEOREM AnnotationMatchesEnvironment ==
    Spec => []ManagedAreInEffect /\ []RenderedHasApp
<1>1. Init => ManagedAreInEffect /\ RenderedHasApp
  BY DEF Init, ManagedAreInEffect, RenderedHasApp, Rendered
<1>2. IInv /\ ManagedAreInEffect /\ RenderedHasApp /\ [Next]_vars
        => ManagedAreInEffect' /\ RenderedHasApp'
  <2> SUFFICES ASSUME IInv, ManagedAreInEffect, RenderedHasApp, [Next]_vars
               PROVE  ManagedAreInEffect'
    BY RenderedHasAppPreserved
  <2> SUFFICES ASSUME server'.deployment # None, server'.deployment # server.deployment
               PROVE  Agrees(server'.deployment)
    BY DEF ManagedAreInEffect, Agrees, InjectedNames
  <2>1. server.deployment # None => Agrees(server.deployment)
    BY DEF ManagedAreInEffect, Agrees
  <2>2. CASE Build
    <3>1. /\ building # None /\ server'.deployment = Rebuilt(server.deployment)
          /\ server.deployment # None => server.deployment.app
      BY <2>2, BuildWrites DEF RenderedHasApp
    <3>2. server.deployment \in DeploymentObject \cup {None}
      BY ObjectsType
    <3>3. CASE server.deployment = None
      BY <3>1, <3>3, NewDeploymentAgrees
    <3>4. CASE server.deployment # None
      BY <2>1, <3>1, <3>2, <3>4, RebuildKeeps
    <3> QED BY <3>3, <3>4
  <2>3. CASE Inject
    BY <2>1, <2>3, InjectWrites, InjectKeeps, NoneIsNoObject
  <2>4. CASE Remove
    BY <2>1, <2>4, RemoveWrites, RemoveKeeps, NoneIsNoObject
  <2>5. CASE server'.deployment \in ForeignDeployments
    BY <2>5, NewDeploymentAgrees
  <2> QED BY <2>2, <2>3, <2>4, <2>5, DeploymentWrites
<1> QED BY <1>1, <1>2, Invariance, PTL DEF Spec

\* Neither controller takes a variable of the other's out of effect or changes it,
\* from whatever cached copy it works.
THEOREM BothControllersAgree == Spec => EachKeepsTheOthersVariables
<1>1. IInv /\ [Next]_vars =>
        [(/\ server'.deployment # server.deployment
          /\ Rendered(server.deployment) /\ Rendered(server'.deployment)) =>
            /\ Build => \A v \in Effective(server.deployment.env) :
                    v.name \in server.deployment.managed => v \in Effective(server'.deployment.env)
            /\ Inject \/ Remove =>
                    {v \in Effective(server'.deployment.env) : v.name \notin ManagedNames(current)} =
                    {v \in Effective(server.deployment.env) : v.name \notin ManagedNames(current)}]_vars
  <2> SUFFICES ASSUME IInv, server'.deployment # server.deployment, server.deployment # None
               PROVE  /\ Build => \A v \in Effective(server.deployment.env) :
                            v.name \in server.deployment.managed =>
                                v \in Effective(server'.deployment.env)
                      /\ Inject \/ Remove =>
                            OthersIn(server'.deployment, current) =
                            OthersIn(server.deployment, current)
    BY DEF Rendered, OthersIn
  <2>1. server.deployment \in DeploymentObject
    BY ObjectsType
  <2>2. ASSUME Build
        PROVE  \A v \in Effective(server.deployment.env) :
                    v.name \in server.deployment.managed => v \in Effective(server'.deployment.env)
    <3>1. building # None /\ server'.deployment = Rebuilt(server.deployment)
      BY <2>2, BuildWrites
    <3> QED BY <2>1, <3>1, RebuildKeeps
  <2>3. ASSUME Inject \/ Remove
        PROVE  OthersIn(server'.deployment, current) = OthersIn(server.deployment, current)
    BY <2>3, InjectWrites, InjectKeeps, RemoveWrites, RemoveKeeps
  <2> QED BY <2>2, <2>3
<1> QED BY <1>1, Invariance, PTL DEF Spec, EachKeepsTheOthersVariables

LEMMA NamesAreOwn ==
    ASSUME NEW a \in Bindings, NEW b \in Bindings, NEW name,
           name \in ManagedNames(a), name \in ManagedNames(b)
    PROVE  a = b
BY DEF ManagedNames, UrlOf, ModeOf, DatabaseUrl

\* Whatever happens between the read of the binding and the write of the Deployment,
\* when variables are injected the binding has the finalizer that will have them removed.
THEOREM FinalizerFirst == Spec => FinalizerBeforeInjection
<1>1. IInv /\ [Next]_vars =>
        [(/\ server'.deployment # server.deployment
          /\ server.deployment # None /\ server'.deployment # None /\ Reconcile) =>
            \A b \in Bindings :
                (server'.deployment.managed \cap ManagedNames(b)) \ server.deployment.managed # {} =>
                    server.bindings[b] # None /\ server.bindings[b].finalizer]_vars
  <2> SUFFICES ASSUME IInv, server'.deployment # server.deployment, server.deployment # None,
                      Reconcile, NEW b \in Bindings, NEW name,
                      name \in server'.deployment.managed, name \in ManagedNames(b),
                      name \notin server.deployment.managed
               PROVE  HasFinalizer(server.bindings[b])
    BY DEF HasFinalizer
  <2>1. CASE Inject
    <3>1. /\ pc = "inject" /\ current \in Bindings
          /\ server'.deployment.managed = server.deployment.managed \cup ManagedNames(current)
      BY <2>1, InjectWrites, InjectKeeps
    <3>2. b = current
      BY <3>1, NamesAreOwn
    <3>3. HasFinalizer(held) /\ ~held.deleting
      BY <3>1, Working DEF IInv, Phases, Deleting, HasFinalizer
    <3> QED BY <3>1, <3>2, <3>3 DEF IInv, Guarded, Vouches
  <2>2. CASE Remove
    <3>1. server'.deployment.managed \subseteq server.deployment.managed
      BY <2>2, RemoveWrites, RemoveKeeps
    <3> QED BY <3>1
  <2> QED BY <2>1, <2>2, ReconcileWrites
<1> QED BY <1>1, Invariance, PTL DEF Spec, FinalizerBeforeInjection

\* What a reconcile may make of a binding `old`.
KeepsTheSpec(old, new) ==
    new # old => /\ old # None
                 /\ IF new = None THEN old.deleting
                    ELSE /\ new = [old EXCEPT !.finalizer = new.finalizer, !.status = new.status]
                         /\ old.finalizer => new.finalizer

LEMMA StoreKeepsTheSpec ==
    ASSUME IInv, pc # "idle", NEW object \in BindingObject \cup {None},
           StoreBinding(current, object), KeepsTheSpec(server.bindings[current], object)
    PROVE  \A b \in Bindings : KeepsTheSpec(server.bindings[b], server'.bindings[b])
<1>1. current \in Bindings
  BY Working
<1>2. server'.bindings = [server.bindings EXCEPT ![current] = object]
  BY <1>1, StoreBindingEffect
<1>3. \A b \in Bindings :
            server'.bindings[b] = IF b = current THEN object ELSE server.bindings[b]
  BY <1>1, <1>2, ObjectsType
<1> QED BY <1>3 DEF KeepsTheSpec

LEMMA ReconcileOnBindings ==
    ASSUME IInv, Reconcile
    PROVE  \A b \in Bindings : KeepsTheSpec(server.bindings[b], server'.bindings[b])
<1>1. ASSUME server'.bindings = server.bindings
      PROVE  \A b \in Bindings : KeepsTheSpec(server.bindings[b], server'.bindings[b])
  BY <1>1 DEF KeepsTheSpec
<1>2. CASE (\E b \in Bindings : BeginAbsent(b) \/ Begin(b)) \/ Resolve \/ Cleanup
  BY <1>1, <1>2 DEF BeginAbsent, Begin, Resolve, Cleanup, NoWrite, objects
<1>3. CASE AddFinalizer
  <2>1. CASE NoWrite
    BY <1>1, <2>1 DEF NoWrite, objects
  <2>2. CASE ~heldStale /\ StoreBinding(current, [held EXCEPT !.finalizer = TRUE])
    <3> DEFINE object == [held EXCEPT !.finalizer = TRUE]
    <3>1. pc # "idle"
      BY <1>3 DEF AddFinalizer, Step
    <3>2. held \in BindingObject /\ held = server.bindings[current] /\ held # None
      BY <2>2, <3>1, Working
    <3>3. /\ object \in BindingObject /\ object.finalizer /\ object.status = held.status
          /\ object = [held EXCEPT !.finalizer = object.finalizer, !.status = object.status]
      BY <3>2 DEF BindingObject
    <3> HIDE DEF object
    <3>4. KeepsTheSpec(held, object) /\ object # None
      BY <3>2, <3>3, NoneIsNoObject DEF KeepsTheSpec
    <3>5. StoreBinding(current, object)
      BY <2>2 DEF object
    <3> QED BY <3>1, <3>2, <3>3, <3>4, <3>5, StoreKeepsTheSpec
  <2> QED BY <1>3, <2>1, <2>2 DEF AddFinalizer, Fail
<1>4. CASE Inject \/ Remove
  <2>1. CASE server'.deployment # server.deployment
    BY <1>1, <1>4, <2>1, InjectWrites, RemoveWrites
  <2>2. CASE server'.deployment = server.deployment
    <3>1. \/ NoWrite
          \/ \E object : StoreDeployment(object)
      BY <1>4 DEF Inject, Remove, UpdateDeployment, Fail
    <3>2. server'.bindings = server.bindings
      BY <3>1 DEF NoWrite, objects, StoreDeployment, IInv, TypeOK, Objects
    <3> QED BY <1>1, <3>2
  <2> QED BY <2>1, <2>2
<1>5. CASE Release
  <2>1. pc # "idle" /\ held.deleting
    BY <1>5 DEF Release, Step, IInv, Phases, Deleting
  <2>2. CASE NoWrite
    BY <1>1, <2>2 DEF NoWrite, objects
  <2>3. CASE ~heldStale /\ StoreBinding(current, None)
    <3>1. held = server.bindings[current] /\ held # None
      BY <2>1, <2>3, Working
    <3> QED BY <2>1, <2>3, <3>1, StoreKeepsTheSpec DEF KeepsTheSpec
  <2> QED BY <1>5, <2>2, <2>3 DEF Release, Fail
<1>6. CASE SetReady \/ SetDegraded
  <2>1. pc # "idle"
    BY <1>6 DEF SetReady, SetDegraded, Step
  <2>2. held \in BindingObject /\ held # None
    BY <2>1, Working
  <2>3. PICK ready \in Reasons \cup {"Reconciled"}, requeue \in BOOLEAN : UpdateStatus(ready, requeue)
    BY <1>6 DEF SetReady, SetDegraded, Step, IInv, TypeOK
  <2> DEFINE object == [held EXCEPT !.status = [observedGeneration |-> held.generation,
                                                ready |-> ready]]
  <2>4. CASE NoWrite
    BY <1>1, <2>4 DEF NoWrite, objects
  <2>5. CASE ~heldStale /\ StoreBinding(current, object)
    <3>1. held = server.bindings[current]
      BY <2>1, <2>5, Working
    <3>2. /\ object \in BindingObject /\ object.finalizer = held.finalizer
          /\ object = [held EXCEPT !.finalizer = object.finalizer, !.status = object.status]
      BY <2>2, ReadyType DEF BindingObject
    <3>3. StoreBinding(current, object)
      BY <2>5
    <3> HIDE DEF object
    <3>4. KeepsTheSpec(held, object)
      BY <2>2, <3>2, NoneIsNoObject DEF KeepsTheSpec
    <3> QED BY <2>1, <3>1, <3>2, <3>3, <3>4, StoreKeepsTheSpec
  <2> QED BY <2>3, <2>4, <2>5 DEF UpdateStatus
<1> QED BY <1>2, <1>3, <1>4, <1>5, <1>6 DEF Reconcile

\* No write of the operator undoes an edit or a deletion of a binding or takes its
\* finalizer away, and it removes only bindings whose deletion was asked for.
THEOREM EditsSurvive == Spec => ReconcileKeepsTheSpec
<1>1. IInv /\ [Next]_vars =>
        [(server'.bindings # server.bindings /\ Reconcile) =>
            \A b \in Bindings :
                LET old == server.bindings[b]
                    new == server'.bindings[b]
                IN new # old => /\ old # None
                                /\ IF new = None THEN old.deleting
                                   ELSE /\ new = [old EXCEPT !.finalizer = new.finalizer,
                                                             !.status = new.status]
                                        /\ old.finalizer => new.finalizer]_vars
  BY ReconcileOnBindings DEF KeepsTheSpec
<1> QED BY <1>1, Invariance, PTL DEF Spec, ReconcileKeepsTheSpec

================================================================================
