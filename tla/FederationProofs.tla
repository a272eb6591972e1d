---------------------------- MODULE FederationProofs ---------------------------
(***************************************************************************)
(* Theorems about the Federation and ClusterMember controllers and the     *)
(* placement decisions, for every finite set of clusters, every set of     *)
(* Federations, labels and specs, and any number of disturbances.          *)
(*                                                                         *)
(* A status is right for a generation because of what the reconcile that   *)
(* wrote it has gathered (Gathered), and it stays so because an edit moves *)
(* the generation past it (Honest). That a write undoes no edit is about   *)
(* the copies that are written back: one that no write has overtaken is    *)
(* the server's object (Coherent).                                         *)
(*                                                                         *)
(* That nothing stays unreported is a second invariant, UpToDate: a status *)
(* is what the cache shows, unless a reconcile is under way or to come.    *)
(***************************************************************************)
EXTENDS FederationProperties, FiniteSetTheorems, TLAPS

Entry == [name : Members, ready : BOOLEAN]

Distinct(listed) ==
    \A i, j \in DOMAIN listed : listed[i].name = listed[j].name => i = j

\* Named members only, where there is no selector.
OnlyNamed(spec, listed) ==
    spec.memberSelector = NoSelector => \A i \in DOMAIN listed : listed[i].name \in spec.members

\* A Federation's status is behind, or tells of the spec it is next to.
Honest(federation) ==
    /\ federation.status.observedGeneration <= federation.generation
    /\ federation.status.observedGeneration = federation.generation =>
        /\ federation.spec.memberSelector # InvalidSelector
        /\ federation.status = Summary(federation, federation.status.members)
        /\ Distinct(federation.status.members)
        /\ OnlyNamed(federation.spec, federation.status.members)

HonestStatuses ==
    \A f \in Federations : server.federations[f] # None => Honest(server.federations[f])

\* What a reconcile that has listed the selected members has in hand.
Gathered ==
    federator.pc = "get" =>
        /\ federator.held.spec.memberSelector # InvalidSelector
        /\ federator.todo \subseteq federator.held.spec.members
        /\ \A i \in DOMAIN federator.listed : federator.listed[i].name \notin federator.todo
        /\ Distinct(federator.listed)
        /\ OnlyNamed(federator.held.spec, federator.listed)

\* A cached object with a current resourceVersion is the server's, and so is a copy
\* that no write has overtaken.
Coherent ==
    /\ \A f \in Federations : f \notin lag => cache.federations[f] = server.federations[f]
    /\ \A m \in Members : m \notin lag => cache.members[m] = server.members[m]
    /\ (federator # FederatorIdle /\ ~federator.stale)
            => federator.held = server.federations[federator.name]
    /\ (observer # ObserverIdle /\ ~observer.stale)
            => observer.held = server.members[observer.name]

IInv == TypeOK /\ Coherent /\ Gathered /\ HonestStatuses

--------------------------------------------------------------------------------
(* Types.                                                                       *)

LEMMA NewFederationType ==
    ASSUME NEW spec \in FederationSpecs
    PROVE  NewFederation(spec) \in FederationObject /\ Honest(NewFederation(spec))
BY DEF NewFederation, FederationObject, FederationStatus, Honest

LEMMA NewMemberType ==
    ASSUME NEW labels \in Labels, NEW valid \in BOOLEAN
    PROVE  NewMember(labels, valid) \in MemberObject
BY DEF NewMember, MemberObject, MemberStatus

LEMMA ObservedType ==
    ASSUME NEW member \in MemberObject PROVE Observed(member) \in MemberStatus
BY DEF Observed, MemberObject, MemberStatus

LEMMA SpecType ==
    ASSUME NEW federation \in FederationObject
    PROVE  /\ federation # None /\ federation.generation \in Nat
           /\ federation.spec \in SpecShape /\ federation.spec.members \subseteq Members
BY ObjectAssumption, FederationAssumption DEF FederationObject, SpecShape

LEMMA SummaryType ==
    ASSUME NEW federation \in FederationObject, NEW listed \in Seq(Entry)
    PROVE  /\ Summary(federation, listed) \in FederationStatus
           /\ Summary(federation, listed).members = listed
           /\ Summary(federation, listed).observedGeneration = federation.generation
<1>1. federation.generation \in Nat /\ federation.spec.defaultPolicy \in BOOLEAN
  BY SpecType DEF SpecShape
<1> QED BY <1>1 DEF Summary, FederationStatus, Entry

\* The list of the selected members names each of them once.
LEMMA EntriesOfOrder ==
    ASSUME NEW S \in SUBSET Members, NEW order \in SetToSeqs(S)
    PROVE  /\ Entries(order) \in Seq(Entry)
           /\ DOMAIN Entries(order) = DOMAIN order
           /\ \A i \in DOMAIN order : Entries(order)[i].name = order[i] /\ order[i] \in S
           /\ Distinct(Entries(order))
<1>1. Cardinality(S) \in Nat
  BY FS_Subset, FS_CardinalityType, FederationAssumption
<1>2. /\ order \in [1 .. Cardinality(S) -> S]
      /\ \A i, j \in 1 .. Cardinality(S) : i # j => order[i] # order[j]
  BY DEF SetToSeqs
<1>3. /\ DOMAIN Entries(order) = DOMAIN order
      /\ \A i \in DOMAIN order : Entries(order)[i] \in Entry /\ Entries(order)[i].name = order[i]
  BY <1>2 DEF Entries, Entry
<1>4. Entries(order) \in Seq(Entry)
  <2>1. Entries(order) \in [1 .. Cardinality(S) -> Entry]
    BY <1>2, <1>3 DEF Entries
  <2> QED BY <1>1, <2>1
<1> QED BY <1>2, <1>3, <1>4 DEF Distinct

LEMMA DisturbType ==
    ASSUME TypeOK, NEW kind, Disturb(kind)
    PROVE  budget' \in 0 .. MaxDisturbances
BY FederationAssumption DEF TypeOK, Disturb

LEMMA ExistingType ==
    ASSUME NEW view PROVE Existing(view) \subseteq Federations \cup Members
BY DEF Existing

--------------------------------------------------------------------------------
(* Writes.                                                                      *)

LEMMA StoreFederationType ==
    ASSUME IInv, NEW f \in Federations, NEW object \in FederationObject \cup {None},
           StoreFederation(f, object)
    PROVE  /\ server' \in Objects /\ cache' = cache /\ lag' = lag \cup {f}
           /\ server'.federations = [server.federations EXCEPT ![f] = object]
           /\ server'.members = server.members
<1>1. server' = [server EXCEPT !.federations = [server.federations EXCEPT ![f] = object]]
  BY DEF StoreFederation, IInv, TypeOK, Objects
<1>2. server.federations \in [Federations -> FederationObject \cup {None}]
  BY DEF IInv, TypeOK, Objects
<1>3. server' \in Objects
  BY <1>1, <1>2 DEF IInv, TypeOK, Objects
<1> QED BY <1>1, <1>3 DEF StoreFederation, IInv, TypeOK, Objects

LEMMA StoreMemberType ==
    ASSUME IInv, NEW m \in Members, NEW object \in MemberObject \cup {None},
           StoreMember(m, object)
    PROVE  /\ server' \in Objects /\ cache' = cache /\ lag' = lag \cup {m}
           /\ server'.members = [server.members EXCEPT ![m] = object]
           /\ server'.federations = server.federations
<1>1. server' = [server EXCEPT !.members = [server.members EXCEPT ![m] = object]]
  BY DEF StoreMember, IInv, TypeOK, Objects
<1>2. server.members \in [Members -> MemberObject \cup {None}]
  BY DEF IInv, TypeOK, Objects
<1>3. server' \in Objects
  BY <1>1, <1>2 DEF IInv, TypeOK, Objects
<1> QED BY <1>1, <1>3 DEF StoreMember, IInv, TypeOK, Objects

\* A reconcile that is under way.
FederatorRecord ==
    [pc : {"list", "get"}, name : Federations, held : FederationObject, stale : BOOLEAN,
     listed : Seq(Entry), todo : SUBSET Members]

ObserverRecord == [name : Members, held : MemberObject, stale : BOOLEAN]

LEMMA Reconciles ==
    ASSUME IInv
    PROVE  /\ federator # FederatorIdle => federator \in FederatorRecord
           /\ federator.pc # "idle" => federator # FederatorIdle
           /\ observer # ObserverIdle => observer \in ObserverRecord
BY DEF IInv, TypeOK, FederatorIdle, FederatorRecord, ObserverRecord, Entry

\* A reconcile of the Federation controller that ends without a write.
LEMMA FederatorEnds ==
    ASSUME IInv, NEW retry \in BOOLEAN, FederatorFinish(retry), federator # FederatorIdle,
           UNCHANGED <<objects, queue, observer>>, budget' \in 0 .. MaxDisturbances
    PROVE  IInv'
<1>1. retries' \subseteq Federations \cup Members
  BY Reconciles DEF FederatorFinish, FederatorRecord, IInv, TypeOK
<1>2. TypeOK'
  BY <1>1 DEF FederatorFinish, objects, IInv, TypeOK
<1>3. Coherent' /\ Gathered' /\ HonestStatuses'
  BY DEF FederatorFinish, FederatorIdle, objects, IInv, Coherent, Gathered, HonestStatuses
<1> QED BY <1>2, <1>3 DEF IInv

LEMMA ObserverEnds ==
    ASSUME IInv, NEW retry \in BOOLEAN, ObserverFinish(retry), observer # ObserverIdle,
           UNCHANGED <<objects, queue, federator>>, budget' \in 0 .. MaxDisturbances
    PROVE  IInv'
<1>1. retries' \subseteq Federations \cup Members
  BY Reconciles DEF ObserverFinish, ObserverRecord, IInv, TypeOK
<1>2. TypeOK'
  BY <1>1 DEF ObserverFinish, objects, IInv, TypeOK
<1>3. Coherent' /\ Gathered' /\ HonestStatuses'
  BY DEF ObserverFinish, objects, IInv, Coherent, Gathered, HonestStatuses
<1> QED BY <1>2, <1>3 DEF IInv

\* Somebody else's write overtakes the copies, and leaves them as they are.
LEMMA OvertakeFederator ==
    ASSUME IInv, NEW n \in Federations \cup Members, Overtake(n)
    PROVE  \/ federator = FederatorIdle /\ federator' = federator
           \/ /\ federator # FederatorIdle /\ federator \in FederatorRecord
              /\ federator' \in FederatorRecord /\ federator' # FederatorIdle
              /\ federator'.pc = federator.pc /\ federator'.name = federator.name
              /\ federator'.held = federator.held /\ federator'.listed = federator.listed
              /\ federator'.todo = federator.todo
              /\ ~federator'.stale => federator.name # n /\ ~federator.stale
<1>1. CASE federator = FederatorIdle
  <2>1. federator.name # n
    BY <1>1, NoneAssumption DEF FederatorIdle
  <2> QED BY <1>1, <2>1 DEF Overtake
<1>2. CASE federator # FederatorIdle
  <2>1. federator \in FederatorRecord
    BY <1>2 DEF IInv, TypeOK, FederatorRecord, Entry
  <2>2. \A r \in FederatorRecord : r # FederatorIdle
    BY DEF FederatorRecord, FederatorIdle
  <2>3. CASE federator.name = n
    <3>1. federator' = [federator EXCEPT !.stale = TRUE]
      BY <2>3 DEF Overtake
    <3>2. federator' \in FederatorRecord
      BY <2>1, <3>1 DEF FederatorRecord
    <3> QED BY <1>2, <2>1, <2>2, <3>1, <3>2 DEF FederatorRecord
  <2>4. CASE federator.name # n
    <3>1. federator' = federator
      BY <2>4 DEF Overtake
    <3> QED BY <1>2, <2>1, <2>4, <3>1
  <2> QED BY <2>3, <2>4
<1> QED BY <1>1, <1>2

LEMMA OvertakeObserver ==
    ASSUME IInv, NEW n \in Federations \cup Members, Overtake(n)
    PROVE  \/ observer = ObserverIdle /\ observer' = observer
           \/ /\ observer # ObserverIdle /\ observer \in ObserverRecord
              /\ observer' \in ObserverRecord /\ observer' # ObserverIdle
              /\ observer'.name = observer.name /\ observer'.held = observer.held
              /\ ~observer'.stale => observer.name # n /\ ~observer.stale
<1>1. CASE observer = ObserverIdle
  <2>1. observer.name # n
    BY <1>1, NoneAssumption DEF ObserverIdle
  <2> QED BY <1>1, <2>1 DEF Overtake
<1>2. CASE observer # ObserverIdle
  <2>1. observer \in ObserverRecord
    BY <1>2 DEF IInv, TypeOK, ObserverRecord
  <2>2. \A r \in ObserverRecord : r # ObserverIdle
    BY NoneAssumption DEF ObserverRecord, ObserverIdle
  <2>3. CASE observer.name = n
    <3>1. observer' = [observer EXCEPT !.stale = TRUE]
      BY <2>3 DEF Overtake
    <3>2. observer' \in ObserverRecord
      BY <2>1, <3>1 DEF ObserverRecord
    <3> QED BY <1>2, <2>1, <2>2, <3>1, <3>2 DEF ObserverRecord
  <2>4. CASE observer.name # n
    <3>1. observer' = observer
      BY <2>4 DEF Overtake
    <3> QED BY <1>2, <2>1, <2>4, <3>1
  <2> QED BY <2>3, <2>4
<1> QED BY <1>1, <1>2

LEMMA OvertakeType ==
    ASSUME IInv, NEW n \in Federations \cup Members, Overtake(n)
    PROVE  /\ federator' \in {FederatorIdle} \cup FederatorRecord
           /\ observer' \in {ObserverIdle} \cup ObserverRecord
           /\ UNCHANGED <<queue, retries>>
<1>1. federator' \in {FederatorIdle} \cup FederatorRecord
  BY OvertakeFederator
<1>2. observer' \in {ObserverIdle} \cup ObserverRecord
  BY OvertakeObserver
<1> QED BY <1>1, <1>2 DEF Overtake

LEMMA FederationWritePreserves ==
    ASSUME IInv, NEW f \in Federations, NEW object \in FederationObject \cup {None},
           object # None => Honest(object),
           StoreFederation(f, object), Overtake(f), budget' \in 0 .. MaxDisturbances
    PROVE  IInv'
<1>1. /\ server' \in Objects /\ cache' = cache /\ lag' = lag \cup {f}
      /\ server'.federations = [server.federations EXCEPT ![f] = object]
      /\ server'.members = server.members
  BY StoreFederationType
<1>2. server.federations \in [Federations -> FederationObject \cup {None}]
  BY DEF IInv, TypeOK, Objects
<1>3. TypeOK'
  BY <1>1, OvertakeType DEF IInv, TypeOK, Entry, FederatorRecord, ObserverRecord
<1>4. Coherent'
  <2>1. (federator' # FederatorIdle /\ ~federator'.stale)
            => federator'.held = server'.federations[federator'.name]
    BY <1>1, <1>2, OvertakeFederator DEF FederatorRecord, IInv, Coherent
  <2>2. (observer' # ObserverIdle /\ ~observer'.stale)
            => observer'.held = server'.members[observer'.name]
    BY <1>1, OvertakeObserver DEF ObserverRecord, IInv, Coherent
  <2>3. \A g \in Federations : g \notin lag' => cache'.federations[g] = server'.federations[g]
    BY <1>1, <1>2 DEF IInv, Coherent
  <2>4. \A m \in Members : m \notin lag' => cache'.members[m] = server'.members[m]
    BY <1>1 DEF IInv, Coherent
  <2> QED BY <2>1, <2>2, <2>3, <2>4 DEF Coherent
<1>5. Gathered'
  BY OvertakeFederator DEF IInv, Gathered, FederatorIdle
<1>6. HonestStatuses'
  BY <1>1, <1>2 DEF IInv, HonestStatuses
<1> QED BY <1>3, <1>4, <1>5, <1>6 DEF IInv

LEMMA MemberWritePreserves ==
    ASSUME IInv, NEW m \in Members, NEW object \in MemberObject \cup {None},
           StoreMember(m, object), Overtake(m), budget' \in 0 .. MaxDisturbances
    PROVE  IInv'
<1>1. /\ server' \in Objects /\ cache' = cache /\ lag' = lag \cup {m}
      /\ server'.members = [server.members EXCEPT ![m] = object]
      /\ server'.federations = server.federations
  BY StoreMemberType
<1>2. server.members \in [Members -> MemberObject \cup {None}]
  BY DEF IInv, TypeOK, Objects
<1>3. TypeOK'
  BY <1>1, OvertakeType DEF IInv, TypeOK, Entry, FederatorRecord, ObserverRecord
<1>4. Coherent'
  <2>1. (federator' # FederatorIdle /\ ~federator'.stale)
            => federator'.held = server'.federations[federator'.name]
    BY <1>1, OvertakeFederator DEF FederatorRecord, IInv, Coherent
  <2>2. (observer' # ObserverIdle /\ ~observer'.stale)
            => observer'.held = server'.members[observer'.name]
    BY <1>1, <1>2, OvertakeObserver DEF ObserverRecord, IInv, Coherent
  <2>3. \A f \in Federations : f \notin lag' => cache'.federations[f] = server'.federations[f]
    BY <1>1 DEF IInv, Coherent
  <2>4. \A n \in Members : n \notin lag' => cache'.members[n] = server'.members[n]
    BY <1>1, <1>2 DEF IInv, Coherent
  <2> QED BY <2>1, <2>2, <2>3, <2>4 DEF Coherent
<1>5. Gathered'
  BY OvertakeFederator DEF IInv, Gathered, FederatorIdle
<1>6. HonestStatuses'
  BY <1>1 DEF IInv, HonestStatuses
<1> QED BY <1>3, <1>4, <1>5, <1>6 DEF IInv

--------------------------------------------------------------------------------
(* Every step preserves IInv.                                                   *)

LEMMA InitIInv == Init => IInv
<1> SUFFICES ASSUME Init PROVE IInv
  OBVIOUS
<1>1. PICK delivered \in Infras :
        server = [federations |-> [f \in Federations |->
                        IF delivered.federations[f] = None THEN None
                        ELSE NewFederation(delivered.federations[f])],
                  members |-> [m \in Members |->
                        IF delivered.members[m] = None THEN None
                        ELSE NewMember(delivered.members[m].labels, delivered.members[m].valid)]]
  BY DEF Init
<1>2. /\ delivered.federations \in [Federations -> FederationSpecs \cup {None}]
      /\ delivered.members \in [Members -> [labels : Labels, valid : BOOLEAN] \cup {None}]
  BY FederationAssumption DEF Delivered
<1>3. \A f \in Federations : server.federations[f] # None =>
            server.federations[f] \in FederationObject /\ Honest(server.federations[f])
  BY <1>1, <1>2, NewFederationType
<1>4. \A m \in Members : server.members[m] # None => server.members[m] \in MemberObject
  BY <1>1, <1>2, NewMemberType
<1>5. server \in Objects
  BY <1>1, <1>3, <1>4 DEF Objects
<1>6. TypeOK
  <2>1. /\ cache = server /\ lag = {} /\ queue = Existing(server) /\ retries = {}
        /\ federator = FederatorIdle /\ observer = ObserverIdle /\ budget = MaxDisturbances
    BY DEF Init
  <2>2. budget \in 0 .. MaxDisturbances
    BY <2>1, FederationAssumption
  <2> QED BY <1>5, <2>1, <2>2, ExistingType DEF TypeOK
<1>7. Coherent /\ Gathered /\ HonestStatuses
  BY <1>3 DEF Init, Coherent, Gathered, HonestStatuses, FederatorIdle
<1> QED BY <1>6, <1>7 DEF IInv

\* Watch events and retries.
LEMMA QueueStepsPreserve ==
    ASSUME IInv,
           \/ \E f \in Federations : SyncFederation(f)
           \/ \E m \in Members : SyncMember(m)
           \/ \E n \in Federations \cup Members : Retry(n)
    PROVE  IInv'
<1>1. ASSUME NEW f \in Federations, SyncFederation(f) PROVE IInv'
  <2>1. server.federations[f] \in FederationObject \cup {None}
    BY DEF IInv, TypeOK, Objects
  <2>2. /\ cache' = [cache EXCEPT !.federations = [cache.federations EXCEPT ![f] = server.federations[f]]]
        /\ lag' = lag \ {f} /\ queue' = queue \cup {f} /\ f \notin Members
        /\ UNCHANGED <<server, retries, federator, observer, budget>>
    BY <1>1, FederationAssumption DEF SyncFederation, IInv, TypeOK, Objects
  <2>3. /\ cache' \in Objects /\ cache'.members = cache.members
        /\ \A g \in Federations : cache'.federations[g] =
                IF g = f THEN server.federations[f] ELSE cache.federations[g]
    BY <2>1, <2>2 DEF IInv, TypeOK, Objects
  <2>4. TypeOK'
    BY <2>2, <2>3 DEF IInv, TypeOK
  <2>5. Coherent' /\ Gathered' /\ HonestStatuses'
    BY <2>2, <2>3 DEF IInv, Coherent, Gathered, HonestStatuses
  <2> QED BY <2>4, <2>5 DEF IInv
<1>2. ASSUME NEW m \in Members, SyncMember(m) PROVE IInv'
  <2>1. server.members[m] \in MemberObject \cup {None}
    BY DEF IInv, TypeOK, Objects
  <2>2. /\ cache' = [cache EXCEPT !.members = [cache.members EXCEPT ![m] = server.members[m]]]
        /\ lag' = lag \ {m} /\ queue' \subseteq Federations \cup Members /\ m \notin Federations
        /\ UNCHANGED <<server, retries, federator, observer, budget>>
    BY <1>2, FederationAssumption DEF SyncMember, Wakes, IInv, TypeOK, Objects
  <2>3. /\ cache' \in Objects /\ cache'.federations = cache.federations
        /\ \A n \in Members : cache'.members[n] =
                IF n = m THEN server.members[m] ELSE cache.members[n]
    BY <2>1, <2>2 DEF IInv, TypeOK, Objects
  <2>4. TypeOK'
    BY <2>2, <2>3 DEF IInv, TypeOK
  <2>5. Coherent' /\ Gathered' /\ HonestStatuses'
    BY <2>2, <2>3 DEF IInv, Coherent, Gathered, HonestStatuses
  <2> QED BY <2>4, <2>5 DEF IInv
<1>3. ASSUME NEW n \in Federations \cup Members, Retry(n) PROVE IInv'
  <2>1. TypeOK'
    BY <1>3 DEF Retry, objects, IInv, TypeOK
  <2>2. Coherent' /\ Gathered' /\ HonestStatuses'
    BY <1>3 DEF Retry, objects, IInv, Coherent, Gathered, HonestStatuses
  <2> QED BY <2>1, <2>2 DEF IInv
<1> QED BY <1>1, <1>2, <1>3

\* The ClusterMember controller.
LEMMA ObserverPreserves ==
    ASSUME IInv, (\E m \in Members : BeginMember(m)) \/ ReportMember
    PROVE  IInv'
<1>1. ASSUME NEW m \in Members, BeginMember(m) PROVE IInv'
  <2>1. /\ queue' \subseteq Federations \cup Members
        /\ UNCHANGED <<server, cache, lag, retries, federator, budget>>
    BY <1>1 DEF BeginMember, objects, IInv, TypeOK
  <2>2. cache.members[m] \in MemberObject \cup {None}
    BY DEF IInv, TypeOK, Objects
  <2>3. \/ observer' = ObserverIdle
        \/ /\ observer' \in [name : Members, held : MemberObject, stale : BOOLEAN]
           /\ observer'.name = m /\ observer'.held = cache.members[m]
           /\ observer'.stale = (m \in lag)
    BY <1>1, <2>2 DEF BeginMember
  <2>4. TypeOK'
    BY <2>1, <2>3 DEF IInv, TypeOK
  <2>5. Coherent' /\ Gathered' /\ HonestStatuses'
    BY <2>1, <2>3 DEF IInv, Coherent, Gathered, HonestStatuses
  <2> QED BY <2>4, <2>5 DEF IInv
<1>2. CASE ReportMember
  <2>1. observer # ObserverIdle /\ observer.name \in Members /\ observer.held \in MemberObject
    BY <1>2, Reconciles DEF ReportMember, ObserverRecord
  <2>2. PICK retry \in BOOLEAN : ObserverFinish(retry)
    BY <1>2, <2>1, Reconciles DEF ReportMember, MemberChanged, ObserverRecord
  <2>3. UNCHANGED <<queue, federator, budget>>
    BY <1>2 DEF ReportMember
  <2>4. CASE UNCHANGED objects
    BY <2>1, <2>2, <2>3, <2>4, ObserverEnds DEF IInv, TypeOK
  <2>5. CASE StoreMember(observer.name,
                         [observer.held EXCEPT !.status = Observed(observer.held)])
    <3> DEFINE m == observer.name
               object == [observer.held EXCEPT !.status = Observed(observer.held)]
    <3>1. object \in MemberObject
      BY <2>1, ObservedType DEF MemberObject
    <3> HIDE DEF object
    <3>2. StoreMember(m, object)
      BY <2>5 DEF object
    <3>3. /\ server' \in Objects /\ cache' = cache /\ lag' = lag \cup {m}
          /\ server'.members = [server.members EXCEPT ![m] = object]
          /\ server'.federations = server.federations
      BY <2>1, <3>1, <3>2, StoreMemberType
    <3>4. TypeOK'
      BY <2>1, <2>2, <2>3, <3>3 DEF ObserverFinish, IInv, TypeOK
    <3>5. server.members \in [Members -> MemberObject \cup {None}]
      BY DEF IInv, TypeOK, Objects
    <3>6. Coherent' /\ Gathered' /\ HonestStatuses'
      BY <2>2, <2>3, <3>3, <3>5
      DEF ObserverFinish, IInv, Coherent, Gathered, HonestStatuses
    <3> QED BY <3>4, <3>6 DEF IInv
  <2> QED BY <1>2, <2>4, <2>5 DEF ReportMember
<1> QED BY <1>1, <1>2

\* The Federation controller, until it knows what to report.
LEMMA FederatorPreserves ==
    ASSUME IInv,
           \/ \E f \in Federations : BeginFederation(f)
           \/ ListSelected
           \/ \E m \in Members : GetNamed(m)
    PROVE  IInv'
<1>1. ASSUME federator' \in FederatorRecord,
             queue' \subseteq Federations \cup Members,
             UNCHANGED <<server, cache, lag, retries, observer, budget>>,
             ~federator'.stale => federator'.held = server.federations[federator'.name],
             Gathered'
      PROVE  IInv'
  <2>1. TypeOK'
    BY <1>1 DEF IInv, TypeOK, FederatorRecord, Entry
  <2>2. Coherent' /\ HonestStatuses'
    BY <1>1 DEF IInv, Coherent, HonestStatuses
  <2> QED BY <1>1, <2>1, <2>2 DEF IInv
<1>2. ASSUME NEW f \in Federations, BeginFederation(f) PROVE IInv'
  <2>1. /\ queue' \subseteq Federations \cup Members
        /\ UNCHANGED <<server, cache, lag, retries, observer, budget>>
        /\ federator = FederatorIdle
    BY <1>2 DEF BeginFederation, objects, IInv, TypeOK
  <2>2. CASE cache.federations[f] = None
    <3>1. federator' = federator
      BY <1>2, <2>1, <2>2 DEF BeginFederation
    <3>2. TypeOK'
      BY <2>1, <3>1 DEF IInv, TypeOK
    <3>3. Coherent' /\ Gathered' /\ HonestStatuses'
      BY <2>1, <3>1 DEF IInv, Coherent, Gathered, HonestStatuses
    <3> QED BY <3>2, <3>3 DEF IInv
  <2>3. CASE cache.federations[f] # None
    <3>1. federator' = [pc |-> "list", name |-> f, held |-> cache.federations[f],
                        stale |-> f \in lag, listed |-> <<>>, todo |-> {}]
      BY <1>2, <2>3 DEF BeginFederation
    <3>2. cache.federations[f] \in FederationObject
      BY <2>3 DEF IInv, TypeOK, Objects
    <3>3. federator' \in FederatorRecord
      BY <3>1, <3>2 DEF FederatorRecord
    <3>4. ~federator'.stale => federator'.held = server.federations[federator'.name]
      BY <3>1 DEF IInv, Coherent
    <3>5. Gathered'
      BY <3>1 DEF Gathered
    <3> QED BY <1>1, <2>1, <3>3, <3>4, <3>5
  <2> QED BY <2>2, <2>3
<1>3. CASE ListSelected
  <2>1. /\ federator \in FederatorRecord /\ federator # FederatorIdle
        /\ federator.pc = "list" /\ federator.held \in FederationObject
        /\ UNCHANGED <<objects, queue, observer, budget>>
    BY <1>3, Reconciles DEF ListSelected, FederatorStep, FederatorRecord
  <2> DEFINE spec == federator.held.spec
             selected == {m \in Members : /\ cache.members[m] # None
                                          /\ SelectorMatches(spec.memberSelector,
                                                             cache.members[m].labels)}
  <2>2. CASE FederatorFinish(TRUE)
    BY <2>1, <2>2, FederatorEnds DEF IInv, TypeOK
  <2>3. ASSUME NEW order \in SetToSeqs(selected), spec.memberSelector # InvalidSelector,
               federator' = [federator EXCEPT !.pc = "get", !.listed = Entries(order),
                                              !.todo = spec.members \ selected],
               UNCHANGED retries
        PROVE  IInv'
    <3>1. /\ Entries(order) \in Seq(Entry) /\ DOMAIN Entries(order) = DOMAIN order
          /\ \A i \in DOMAIN order : Entries(order)[i].name = order[i] /\ order[i] \in selected
          /\ Distinct(Entries(order))
      BY EntriesOfOrder
    <3>2. spec.members \subseteq Members
      BY <2>1, SpecType
    <3>3. spec.memberSelector = NoSelector => selected = {}
      BY DEF SelectorMatches
    <3> HIDE DEF selected, spec
    <3>4. /\ federator' \in FederatorRecord /\ federator'.stale = federator.stale
          /\ federator'.held = federator.held /\ federator'.name = federator.name
          /\ federator'.listed = Entries(order) /\ federator'.todo = spec.members \ selected
      BY <2>1, <2>3, <3>1, <3>2 DEF FederatorRecord
    <3>5. Gathered'
      BY <2>3, <3>1, <3>3, <3>4 DEF Gathered, OnlyNamed, spec
    <3>6. ~federator'.stale => federator'.held = server.federations[federator'.name]
      BY <2>1, <3>4 DEF IInv, Coherent
    <3> QED BY <1>1, <2>1, <2>3, <3>4, <3>5, <3>6 DEF objects, IInv, TypeOK
  <2>4. \/ FederatorFinish(TRUE)
        \/ /\ spec.memberSelector # InvalidSelector /\ UNCHANGED retries
           /\ \E order \in SetToSeqs(selected) :
                federator' = [federator EXCEPT !.pc = "get", !.listed = Entries(order),
                                               !.todo = spec.members \ selected]
    BY <1>3 DEF ListSelected
  <2> QED BY <2>2, <2>3, <2>4
<1>4. ASSUME NEW m \in Members, GetNamed(m) PROVE IInv'
  <2>1. /\ federator \in FederatorRecord /\ federator # FederatorIdle
        /\ federator.pc = "get" /\ m \in federator.todo
        /\ UNCHANGED <<server, cache, lag, queue, retries, observer, budget>>
    BY <1>4, Reconciles DEF GetNamed, FederatorStep, objects
  <2> DEFINE entry == [name |-> m, ready |-> cache.members[m].status.ready = "Observed"]
             listed == federator'.listed
  <2>2. /\ federator'.pc = "get" /\ federator'.name = federator.name
        /\ federator'.held = federator.held /\ federator'.stale = federator.stale
        /\ federator'.todo = federator.todo \ {m}
        /\ listed = federator.listed \/ listed = Append(federator.listed, entry)
        /\ federator' \in FederatorRecord
    <3>1. federator.listed \in Seq(Entry) /\ entry \in Entry
      BY <2>1 DEF FederatorRecord, Entry
    <3>2. Entries(<<m>>) = <<entry>>
      BY DEF Entries
    <3>3. federator.listed \o <<entry>> = Append(federator.listed, entry)
      BY <3>1
    <3> HIDE DEF entry
    <3>4. federator' = [federator EXCEPT
                            !.todo = federator.todo \ {m},
                            !.listed = IF cache.members[m] = None THEN federator.listed
                                       ELSE Append(federator.listed, entry)]
      BY <1>4, <3>2, <3>3 DEF GetNamed
    <3>5. Append(federator.listed, entry) \in Seq(Entry)
      BY <3>1
    <3> QED BY <2>1, <3>1, <3>4, <3>5 DEF FederatorRecord
  <2>3. Gathered'
    <3>1. /\ federator.held.spec.memberSelector # InvalidSelector
          /\ federator.todo \subseteq federator.held.spec.members
          /\ \A i \in DOMAIN federator.listed : federator.listed[i].name \notin federator.todo
          /\ Distinct(federator.listed)
          /\ OnlyNamed(federator.held.spec, federator.listed)
      BY <2>1 DEF IInv, Gathered
    <3>2. CASE listed = federator.listed
      BY <2>2, <3>1, <3>2 DEF Gathered
    <3>3. CASE listed = Append(federator.listed, entry)
      <4>1. federator.listed \in Seq(Entry)
        BY <2>1 DEF FederatorRecord
      <4> DEFINE n == Len(federator.listed)
      <4>2. /\ n \in Nat /\ DOMAIN federator.listed = 1 .. n /\ DOMAIN listed = 1 .. (n + 1)
            /\ \A i \in 1 .. n : listed[i] = federator.listed[i]
            /\ listed[n + 1] = entry /\ entry.name = m
        BY <3>3, <4>1
      <4> HIDE DEF entry, n, listed
      <4>3. \A i \in 1 .. (n + 1) : i \in 1 .. n \/ i = n + 1
        BY <4>2
      <4>4. Distinct(listed)
        BY <2>1, <3>1, <4>2, <4>3 DEF Distinct
      <4>5. OnlyNamed(federator.held.spec, listed)
        BY <2>1, <3>1, <4>2, <4>3 DEF OnlyNamed
      <4>6. \A i \in DOMAIN listed : listed[i].name \notin federator.todo \ {m}
        BY <3>1, <4>2, <4>3
      <4> QED BY <2>2, <3>1, <4>4, <4>5, <4>6 DEF Gathered, listed
    <3> QED BY <2>2, <3>2, <3>3
  <2>4. ~federator'.stale => federator'.held = server.federations[federator'.name]
    BY <2>1, <2>2 DEF IInv, Coherent
  <2> QED BY <1>1, <2>1, <2>2, <2>3, <2>4 DEF IInv, TypeOK
<1> QED BY <1>2, <1>3, <1>4

\* The report: every named member has been asked for, and the status is for the
\* spec and the generation of the copy it is written with.
LEMMA ReportFederationPreserves ==
    ASSUME IInv, ReportFederation PROVE IInv'
<1>1. /\ federator \in FederatorRecord /\ federator # FederatorIdle
      /\ federator.pc = "get" /\ federator.todo = {}
      /\ federator.name \in Federations /\ federator.held \in FederationObject
      /\ federator.listed \in Seq(Entry)
      /\ UNCHANGED <<queue, observer, budget>>
  BY Reconciles DEF ReportFederation, FederatorStep, FederatorRecord
<1> DEFINE status == Summary(federator.held, federator.listed)
           object == [federator.held EXCEPT !.status = status]
           changed == SummaryChanged(federator.held.status, status)
<1>2. changed \in BOOLEAN /\ federator.stale \in BOOLEAN
  BY <1>1 DEF SummaryChanged, FederatorRecord
<1>3. PICK retry \in BOOLEAN : FederatorFinish(retry)
  BY <1>2 DEF ReportFederation
<1>4. CASE UNCHANGED objects
  BY <1>1, <1>3, <1>4, FederatorEnds DEF IInv, TypeOK
<1>5. CASE StoreFederation(federator.name, object)
  <2> DEFINE f == federator.name
  <2>1. /\ status \in FederationStatus /\ status.members = federator.listed
        /\ status.observedGeneration = federator.held.generation
    BY <1>1, SummaryType
  <2>2. /\ object \in FederationObject /\ object.status = status
        /\ object.generation = federator.held.generation /\ object.generation \in Nat
        /\ object.spec = federator.held.spec
    BY <1>1, <2>1, SpecType DEF FederationObject
  <2>3. Summary(object, federator.listed) = status
    BY <2>2 DEF Summary
  <2> HIDE DEF status, object
  <2>4. Honest(object)
    BY <1>1, <2>1, <2>2, <2>3 DEF IInv, Gathered, Honest
  <2>5. /\ server' \in Objects /\ cache' = cache /\ lag' = lag \cup {f}
        /\ server'.federations = [server.federations EXCEPT ![f] = object]
        /\ server'.members = server.members
    BY <1>1, <1>5, <2>2, StoreFederationType
  <2>6. server.federations \in [Federations -> FederationObject \cup {None}]
    BY DEF IInv, TypeOK, Objects
  <2>7. TypeOK'
    BY <1>1, <1>3, <2>5 DEF FederatorFinish, IInv, TypeOK
  <2>8. Coherent' /\ Gathered'
    BY <1>1, <1>3, <2>5, <2>6 DEF FederatorFinish, FederatorIdle, IInv, Coherent, Gathered
  <2>9. HonestStatuses'
    BY <2>4, <2>5, <2>6 DEF IInv, HonestStatuses
  <2> QED BY <2>7, <2>8, <2>9 DEF IInv
<1> QED BY <1>4, <1>5 DEF ReportFederation

LEMMA FederationEditsPreserve ==
    ASSUME IInv, NEW f \in Federations,
           \/ \E spec \in FederationSpecs : CreateFederation(f, spec) \/ EditFederation(f, spec)
           \/ DeleteFederation(f)
    PROVE  IInv'
<1>1. budget' \in 0 .. MaxDisturbances /\ Overtake(f)
  BY DisturbType DEF CreateFederation, EditFederation, DeleteFederation, IInv
<1>2. ASSUME NEW spec \in FederationSpecs, CreateFederation(f, spec) PROVE IInv'
  BY <1>1, <1>2, NewFederationType, FederationWritePreserves DEF CreateFederation
<1>3. ASSUME NEW spec \in FederationSpecs, EditFederation(f, spec) PROVE IInv'
  <2> DEFINE old == server.federations[f]
             new == [old EXCEPT !.spec = spec, !.generation = @ + 1]
  <2>1. old \in FederationObject /\ Honest(old)
    BY <1>3 DEF EditFederation, IInv, TypeOK, Objects, HonestStatuses
  <2>2. old.generation \in Nat /\ old.status.observedGeneration \in Nat
    BY <2>1 DEF FederationObject, FederationStatus
  <2>3. /\ new \in FederationObject /\ new.generation = old.generation + 1
        /\ new.status = old.status
    <3>1. PICK s \in FederationSpecs : s = spec
      BY <1>3
    <3>2. PICK g \in Nat : g = old.generation + 1
      BY <2>2
    <3>3. new = [old EXCEPT !.spec = s, !.generation = g]
      BY <3>1, <3>2
    <3> HIDE DEF old, new
    <3> QED BY <2>1, <3>2, <3>3 DEF FederationObject
  <2>4. StoreFederation(f, new)
    BY <1>3 DEF EditFederation
  <2> HIDE DEF new
  <2>5. Honest(new)
    BY <2>1, <2>2, <2>3 DEF Honest
  <2> QED BY <1>1, <2>3, <2>4, <2>5, FederationWritePreserves
<1>4. CASE DeleteFederation(f)
  BY <1>1, <1>4, FederationWritePreserves DEF DeleteFederation
<1> QED BY <1>2, <1>3, <1>4

LEMMA MemberEditsPreserve ==
    ASSUME IInv, NEW m \in Members,
           \/ \E labels \in Labels : CreateMember(m, labels) \/ RelabelMember(m, labels)
           \/ EditMember(m) \/ DeleteMember(m)
    PROVE  IInv'
<1>1. budget' \in 0 .. MaxDisturbances /\ Overtake(m)
  BY DisturbType DEF CreateMember, RelabelMember, EditMember, DeleteMember, IInv
<1>2. PICK object \in MemberObject \cup {None} : StoreMember(m, object)
  <2>1. server.members[m] \in MemberObject \cup {None}
    BY DEF IInv, TypeOK, Objects
  <2>2. ASSUME NEW labels \in Labels, CreateMember(m, labels)
        PROVE  \E object \in MemberObject \cup {None} : StoreMember(m, object)
    BY <2>2, NewMemberType DEF CreateMember
  <2>3. ASSUME NEW labels \in Labels, RelabelMember(m, labels)
        PROVE  \E object \in MemberObject \cup {None} : StoreMember(m, object)
    <3>1. [server.members[m] EXCEPT !.labels = labels] \in MemberObject
      BY <2>1, <2>3 DEF RelabelMember, MemberObject
    <3> QED BY <2>3, <3>1 DEF RelabelMember
  <2>4. CASE EditMember(m)
    <3> DEFINE old == server.members[m]
    <3>1. old \in MemberObject /\ old.generation + 1 \in Nat
      BY <2>1, <2>4 DEF EditMember, MemberObject
    <3> HIDE DEF old
    <3>2. [old EXCEPT !.valid = TRUE, !.generation = old.generation + 1] \in MemberObject
      BY <3>1 DEF MemberObject
    <3> QED BY <2>4, <3>2 DEF EditMember, old
  <2>5. CASE DeleteMember(m)
    BY <2>5 DEF DeleteMember
  <2> QED BY <2>2, <2>3, <2>4, <2>5
<1> QED BY <1>1, <1>2, MemberWritePreserves

LEMMA FailuresPreserve ==
    ASSUME IInv, ApiCallFails \/ Restart PROVE IInv'
<1>1. budget' \in 0 .. MaxDisturbances
  BY DisturbType DEF ApiCallFails, Restart, IInv
<1>2. CASE ApiCallFails
  BY <1>1, <1>2, FederatorEnds, ObserverEnds DEF ApiCallFails
<1>3. CASE Restart
  <2>1. /\ UNCHANGED server /\ cache' = server /\ lag' = {} /\ retries' = {}
        /\ queue' \subseteq Federations \cup Members
        /\ federator' = FederatorIdle /\ observer' = ObserverIdle
    BY <1>3, ExistingType DEF Restart
  <2>2. TypeOK'
    BY <1>1, <2>1 DEF IInv, TypeOK
  <2>3. Coherent' /\ Gathered' /\ HonestStatuses'
    BY <2>1 DEF IInv, Coherent, Gathered, HonestStatuses, FederatorIdle
  <2> QED BY <2>2, <2>3 DEF IInv
<1> QED BY <1>2, <1>3

LEMMA StepPreserves == IInv /\ [Next]_vars => IInv'
<1> SUFFICES ASSUME IInv, [Next]_vars PROVE IInv'
  OBVIOUS
<1>1. CASE Reconcile
  BY <1>1, ObserverPreserves, FederatorPreserves, ReportFederationPreserves DEF Reconcile
<1>2. CASE \/ \E f \in Federations : SyncFederation(f)
           \/ \E m \in Members : SyncMember(m)
           \/ \E n \in Federations \cup Members : Retry(n)
  BY <1>2, QueueStepsPreserve
<1>3. CASE Environment
  BY <1>3, FederationEditsPreserve, MemberEditsPreserve, FailuresPreserve DEF Environment
<1>4. CASE UNCHANGED vars
  <2>1. TypeOK'
    BY <1>4 DEF vars, objects, IInv, TypeOK
  <2>2. Coherent' /\ Gathered' /\ HonestStatuses'
    BY <1>4 DEF vars, objects, IInv, Coherent, Gathered, HonestStatuses
  <2> QED BY <2>1, <2>2 DEF IInv
<1> QED BY <1>1, <1>2, <1>3, <1>4 DEF Next

\* What resourceVersions, generations and the order of resolveMembers guarantee
\* holds in every behaviour.
THEOREM Invariance == Spec => []IInv
BY InitIInv, StepPreserves, PTL DEF Spec

\* No sequence of steps takes the two controllers out of their types: no reconcile
\* works on a Federation or a ClusterMember that it did not get.
THEOREM TypeCorrect == Spec => []TypeOK
BY Invariance, PTL DEF IInv

--------------------------------------------------------------------------------
(* What follows from IInv.                                                      *)

\* However the reads of a reconcile interleave with edits, deletions and the other
\* controller's writes, a status that claims the present generation is one of
\* the present spec, with the conditions of its own list, in which nobody is twice.
THEOREM StatusIsOfItsGeneration == Spec => []StatusMatchesSpec
<1>1. IInv => StatusMatchesSpec
  <2> SUFFICES ASSUME IInv, NEW f \in Federations, server.federations[f] # None,
                      server.federations[f].status.observedGeneration
                        = server.federations[f].generation
               PROVE  LET federation == server.federations[f]
                      IN /\ MembersResolvable(InfraOf(server), f)
                         /\ federation.status = Summary(federation, federation.status.members)
                         /\ \A i, j \in DOMAIN federation.status.members :
                                federation.status.members[i].name = federation.status.members[j].name
                                    => i = j
                         /\ federation.spec.memberSelector = NoSelector =>
                                {e.name : e \in ToSet(federation.status.members)}
                                    \subseteq federation.spec.members
    BY DEF StatusMatchesSpec
  <2> DEFINE federation == server.federations[f]
  <2>1. /\ federation.spec.memberSelector # InvalidSelector
        /\ federation.status = Summary(federation, federation.status.members)
        /\ Distinct(federation.status.members)
        /\ OnlyNamed(federation.spec, federation.status.members)
    BY DEF IInv, HonestStatuses, Honest
  <2>2. InfraOf(server).federations[f].memberSelector = federation.spec.memberSelector
    BY DEF InfraOf
  <2>3. MembersResolvable(InfraOf(server), f)
    BY <2>1, <2>2 DEF MembersResolvable
  <2>4. federation.spec.memberSelector = NoSelector =>
            {e.name : e \in ToSet(federation.status.members)} \subseteq federation.spec.members
    BY <2>1 DEF OnlyNamed, ToSet
  <2> QED BY <2>1, <2>3, <2>4 DEF Distinct
<1> QED BY <1>1, Invariance, PTL

\* Only the two reports write, and what they write is the server's object with
\* another status.
LEMMA ReconcileWrites ==
    ASSUME IInv, Reconcile
    PROVE  /\ \A f \in Federations : server'.federations[f] # server.federations[f] =>
                /\ server.federations[f] # None
                /\ server'.federations[f] = [server.federations[f] EXCEPT
                                                !.status = server'.federations[f].status]
           /\ \A m \in Members : server'.members[m] # server.members[m] =>
                /\ server.members[m] # None
                /\ server'.members[m] = [server.members[m] EXCEPT
                                            !.status = server'.members[m].status]
<1>1. CASE server' = server
  BY <1>1
<1>2. CASE ReportMember
  <2> DEFINE m == observer.name
             status == Observed(observer.held)
             object == [observer.held EXCEPT !.status = status]
  <2>1. CASE UNCHANGED objects
    BY <1>1, <2>1 DEF objects
  <2>2. CASE ~observer.stale /\ StoreMember(m, object)
    <3>1. /\ m \in Members /\ observer.held \in MemberObject
          /\ observer.held = server.members[m]
      BY <1>2, <2>2, Reconciles DEF ReportMember, ObserverRecord, IInv, Coherent
    <3>2. object \in MemberObject /\ object.status = status
      BY <3>1, ObservedType DEF MemberObject
    <3>3. server.members[m] # None
      BY <3>1, ObjectAssumption
    <3>4. object = [server.members[m] EXCEPT !.status = object.status]
      BY <3>1, <3>2
    <3> HIDE DEF object
    <3>5. /\ server'.members = [server.members EXCEPT ![m] = object]
          /\ server'.federations = server.federations
      BY <2>2, <3>1, <3>2, StoreMemberType DEF object
    <3>6. \A n \in Members : server'.members[n] = IF n = m THEN object ELSE server.members[n]
      BY <3>1, <3>5 DEF IInv, TypeOK, Objects
    <3> QED BY <3>3, <3>4, <3>5, <3>6
  <2> QED BY <1>2, <2>1, <2>2 DEF ReportMember
<1>3. CASE ReportFederation
  <2> DEFINE f == federator.name
             status == Summary(federator.held, federator.listed)
             object == [federator.held EXCEPT !.status = status]
  <2>1. CASE UNCHANGED objects
    BY <1>1, <2>1 DEF objects
  <2>2. CASE ~federator.stale /\ StoreFederation(f, object)
    <3>1. /\ f \in Federations /\ federator.held \in FederationObject
          /\ federator.listed \in Seq(Entry) /\ federator # FederatorIdle
      BY <1>3, Reconciles DEF ReportFederation, FederatorStep, FederatorRecord
    <3>2. federator.held = server.federations[f]
      BY <2>2, <3>1 DEF IInv, Coherent
    <3>3. object \in FederationObject /\ object.status = status
      BY <3>1, SummaryType DEF FederationObject
    <3>4. server.federations[f] # None
      BY <3>1, <3>2, ObjectAssumption
    <3>5. object = [server.federations[f] EXCEPT !.status = object.status]
      BY <3>2, <3>3
    <3> HIDE DEF object
    <3>6. /\ server'.federations = [server.federations EXCEPT ![f] = object]
          /\ server'.members = server.members
      BY <2>2, <3>1, <3>3, StoreFederationType DEF object
    <3>7. \A g \in Federations :
            server'.federations[g] = IF g = f THEN object ELSE server.federations[g]
      BY <3>1, <3>6 DEF IInv, TypeOK, Objects
    <3> QED BY <3>4, <3>5, <3>6, <3>7
  <2> QED BY <1>3, <2>1, <2>2 DEF ReportFederation
<1>4. CASE \/ \E m \in Members : BeginMember(m) \/ GetNamed(m)
           \/ \E f \in Federations : BeginFederation(f)
           \/ ListSelected
  BY <1>1, <1>4 DEF BeginMember, GetNamed, BeginFederation, ListSelected, objects
<1> QED BY <1>2, <1>3, <1>4 DEF Reconcile

\* A status write never undoes an edit or a label change, and never brings a
\* deleted object back.
THEOREM EditsSurvive == Spec => ReconcileKeepsTheSpec
<1>1. IInv /\ [Next]_vars =>
        [Reconcile =>
            /\ \A f \in Federations : server'.federations[f] # server.federations[f] =>
                /\ server.federations[f] # None
                /\ server'.federations[f] = [server.federations[f] EXCEPT
                                                !.status = server'.federations[f].status]
            /\ \A m \in Members : server'.members[m] # server.members[m] =>
                /\ server.members[m] # None
                /\ server'.members[m] = [server.members[m] EXCEPT
                                            !.status = server'.members[m].status]]_vars
  BY ReconcileWrites
<1> QED BY <1>1, Invariance, PTL DEF Spec, ReconcileKeepsTheSpec

--------------------------------------------------------------------------------
(* The placement decisions.                                                     *)

\* The Workload controller, the ServiceEndpoint controller and the Federation
\* controller each ask the same question of the same two fields. For a cluster
\* that exists and a selector that parses it is this one.
Admitted(infra, m, f) ==
    \/ m \in infra.federations[f].members
    \/ SelectorMatches(infra.federations[f].memberSelector, infra.members[m])

LEMMA IsFederationMemberIsAdmitted ==
    ASSUME NEW infra, NEW f \in Federations, NEW m \in Members, infra.members[m] # None,
           infra.federations[f] # None
    PROVE  IsFederationMember(infra, m, f) = "Member" <=> Admitted(infra, m, f)
BY NoneAssumption DEF IsFederationMember, Admitted, SelectorMatches

LEMMA ValidatePrimaryMemberIsAdmitted ==
    ASSUME NEW infra, NEW f \in Federations, NEW m \in Members, infra.members[m] # None,
           infra.federations[f] # None
    PROVE  ValidatePrimaryMember(infra, m, f) = "Accepted" <=> Admitted(infra, m, f)
BY NoneAssumption DEF ValidatePrimaryMember, Admitted, SelectorMatches

\* Whoever is listed in a Federation's status is admitted by its own operator, and
\* the other way round: status.members and the placement of Workloads never drift
\* apart, however many clusters there are.
THEOREM StatusAndPlacementAgree == Spec => []StatusListsTheAdmittedMembers
<1>1. StatusListsTheAdmittedMembers
  <2> DEFINE infra == InfraOf(server)
  <2> HIDE DEF infra
  <2> SUFFICES ASSUME NEW f \in Federations, NEW m \in Members,
                      infra.federations[f] # None, infra.members[m] # None
               PROVE  m \in ResolveMembers(infra, f)
                        <=> IsFederationMember(infra, m, f) = "Member"
    BY DEF StatusListsTheAdmittedMembers, infra
  <2>1. m \in ResolveMembers(infra, f) <=> Admitted(infra, m, f)
    BY DEF ResolveMembers, Admitted
  <2> QED BY <2>1, IsFederationMemberIsAdmitted
<1> QED BY <1>1, PTL

\* A primary is accepted exactly when its own operator places the Federation's
\* Workloads: routing is never sent to a cluster that takes no part.
THEOREM PrimaryAndPlacementAgree == Spec => []PrimaryIsAdmitted
<1>1. PrimaryIsAdmitted
  <2> DEFINE infra == InfraOf(server)
  <2> HIDE DEF infra
  <2> SUFFICES ASSUME NEW f \in Federations, NEW m \in Members
               PROVE  ValidatePrimaryMember(infra, m, f) = "Accepted"
                        <=> infra.members[m] # None
                            /\ IsFederationMember(infra, m, f) = "Member"
    BY DEF PrimaryIsAdmitted, infra
  <2>1. f # None
    BY NoneAssumption
  <2>2. CASE infra.members[m] = None
    BY <2>2 DEF ValidatePrimaryMember
  <2>3. CASE infra.members[m] # None /\ infra.federations[f] = None
    BY <2>1, <2>3 DEF ValidatePrimaryMember, IsFederationMember
  <2>4. CASE infra.members[m] # None /\ infra.federations[f] # None
    BY <2>4, IsFederationMemberIsAdmitted, ValidatePrimaryMemberIsAdmitted
  <2> QED BY <2>2, <2>3, <2>4
<1> QED BY <1>1, PTL

--------------------------------------------------------------------------------
(* At rest everything is reported.                                              *)

\* A reconcile of n is sure to come: it is queued, or a retry or an event is pending.
Awaited(n) == n \in queue \/ n \in retries \/ n \in lag

\* The members a Federation of this spec has as the cache shows the clusters.
Found(spec) ==
    {m \in Members : /\ cache.members[m] # None
                     /\ \/ m \in spec.members
                        \/ SelectorMatches(spec.memberSelector, cache.members[m].labels)}

\* Exactly these clusters, each once, with the readiness the cache shows.
Lists(listed, clusters) ==
    /\ Distinct(listed)
    /\ \A i \in DOMAIN listed :
            /\ listed[i].name \in clusters
            /\ listed[i].ready = (cache.members[listed[i].name].status.ready = "Observed")
    /\ \A m \in clusters : \E i \in DOMAIN listed : listed[i].name = m

\* The status is what a reconcile would find in the cache now.
Told(federation) ==
    /\ federation.spec.memberSelector # InvalidSelector
    /\ federation.status = Summary(federation, federation.status.members)
    /\ Lists(federation.status.members, Found(federation.spec))

StatusesTold ==
    \A f \in Federations :
        (server.federations[f] # None /\ ~Awaited(f) /\ federator.name # f)
            => Told(server.federations[f])

\* What has been gathered is right as long as nothing has come in since.
GatheringTold ==
    (federator # FederatorIdle /\ ~Awaited(federator.name)) =>
        /\ ~federator.stale
        /\ federator.pc = "get" =>
                Lists(federator.listed, Found(federator.held.spec) \ federator.todo)

HonestMember(member) ==
    /\ member.status.observedGeneration <= member.generation
    /\ member.status.observedGeneration = member.generation => member.status = Observed(member)

MembersTold ==
    /\ \A m \in Members : server.members[m] # None =>
            /\ HonestMember(server.members[m])
            /\ (~Awaited(m) /\ observer.name # m)
                => server.members[m].status = Observed(server.members[m])
    /\ (observer # ObserverIdle /\ ~Awaited(observer.name)) => ~observer.stale

UpToDate == StatusesTold /\ GatheringTold /\ MembersTold

\* Steps that are about clusters only, and take no Federation off the queue.
LEMMA FederationsFrame ==
    ASSUME IInv, StatusesTold, GatheringTold, cache'.members = cache.members,
           server'.federations = server.federations, UNCHANGED federator,
           \A f \in Federations : Awaited(f) => Awaited(f)'
    PROVE  StatusesTold' /\ GatheringTold'
<1>1. \A spec : Found(spec)' = Found(spec)
  BY DEF Found
<1>2. \A listed, clusters : Lists(listed, clusters)' <=> Lists(listed, clusters)
  BY DEF Lists
<1>3. \A federation : Told(federation)' <=> Told(federation)
  BY <1>1, <1>2 DEF Told
<1>4. StatusesTold'
  BY <1>3 DEF StatusesTold
<1>5. federator # FederatorIdle => federator.name \in Federations
  BY Reconciles DEF FederatorRecord
<1>6. GatheringTold'
  BY <1>1, <1>2, <1>5 DEF GatheringTold
<1> QED BY <1>4, <1>6

\* Steps that are about Federations only.
LEMMA MembersFrame ==
    ASSUME IInv, MembersTold, server'.members = server.members, UNCHANGED observer,
           \A m \in Members : Awaited(m) => Awaited(m)'
    PROVE  MembersTold'
<1>1. observer # ObserverIdle => observer.name \in Members
  BY Reconciles DEF ObserverRecord
<1> QED BY <1>1 DEF MembersTold

\* The reconcile of a Federation ends without a write.
LEMMA FederatorEndTold ==
    ASSUME IInv, StatusesTold, federator # FederatorIdle, NEW retry \in BOOLEAN,
           FederatorFinish(retry), UNCHANGED <<objects, queue>>,
           \/ retry \/ Awaited(federator.name)
           \/ /\ server.federations[federator.name] # None
              /\ Told(server.federations[federator.name])
    PROVE  StatusesTold' /\ GatheringTold'
<1>1. /\ UNCHANGED <<server, cache, lag, queue>>
      /\ federator' = FederatorIdle
      /\ retries' = IF retry THEN retries \cup {federator.name} ELSE retries
  BY DEF FederatorFinish, objects
<1>2. \A federation : Told(federation)' <=> Told(federation)
  BY <1>1 DEF Told, Lists, Found
<1>3. \A n : Awaited(n) \/ (retry /\ n = federator.name) => Awaited(n)'
  BY <1>1 DEF Awaited
<1>4. StatusesTold'
  BY <1>1, <1>2, <1>3 DEF StatusesTold
<1> QED BY <1>1, <1>4 DEF GatheringTold

\* A write to a Federation: its event is to come.
LEMMA FederationWriteTold ==
    ASSUME IInv, StatusesTold, GatheringTold, NEW f \in Federations,
           NEW object \in FederationObject \cup {None}, StoreFederation(f, object),
           UNCHANGED queue, retries \subseteq retries',
           \/ federator' = FederatorIdle /\ federator.name = f
           \/ Overtake(f)
    PROVE  StatusesTold' /\ GatheringTold'
<1>1. /\ cache' = cache /\ lag' = lag \cup {f}
      /\ \A g \in Federations : g # f => server'.federations[g] = server.federations[g]
  <2>1. /\ cache' = cache /\ lag' = lag \cup {f}
        /\ server'.federations = [server.federations EXCEPT ![f] = object]
    BY StoreFederationType
  <2> QED BY <2>1 DEF IInv, TypeOK, Objects
<1>2. \A federation : Told(federation)' <=> Told(federation)
  BY <1>1 DEF Told, Lists, Found
<1>3. \A n : Awaited(n) \/ n = f => Awaited(n)'
  BY <1>1 DEF Awaited
<1>4. \A g \in Federations : (g # f /\ federator'.name # g) => federator.name # g
  BY OvertakeFederator
<1>5. StatusesTold'
  BY <1>1, <1>2, <1>3, <1>4 DEF StatusesTold
<1>6. GatheringTold'
  <2>1. CASE federator' = FederatorIdle
    BY <2>1 DEF GatheringTold
  <2>2. CASE federator' # FederatorIdle
    <3>1. /\ federator # FederatorIdle /\ federator'.name = federator.name
          /\ federator'.pc = federator.pc /\ federator'.held = federator.held
          /\ federator'.listed = federator.listed /\ federator'.todo = federator.todo
          /\ (~federator.stale /\ federator.name # f) => ~federator'.stale
      <4>1. Overtake(f)
        BY <2>2
      <4>2. (~federator.stale /\ federator.name # f) => ~federator'.stale
        BY <4>1 DEF Overtake
      <4> QED BY <2>2, <4>1, <4>2, OvertakeFederator
    <3>2. \A spec : Found(spec)' = Found(spec)
      BY <1>1 DEF Found
    <3>3. \A listed, clusters : Lists(listed, clusters)' <=> Lists(listed, clusters)
      BY <1>1 DEF Lists
    <3> QED BY <1>3, <3>1, <3>2, <3>3 DEF GatheringTold
  <2> QED BY <2>1, <2>2
<1> QED BY <1>5, <1>6

LEMMA InitUpToDate == Init => UpToDate
<1> SUFFICES ASSUME Init PROVE UpToDate
  OBVIOUS
<1>1. PICK delivered \in Infras :
        server = [federations |-> [f \in Federations |->
                        IF delivered.federations[f] = None THEN None
                        ELSE NewFederation(delivered.federations[f])],
                  members |-> [m \in Members |->
                        IF delivered.members[m] = None THEN None
                        ELSE NewMember(delivered.members[m].labels, delivered.members[m].valid)]]
  BY DEF Init
<1>2. /\ queue = Existing(server) /\ federator = FederatorIdle /\ observer = ObserverIdle
  BY DEF Init
<1>3. \A m \in Members : server.members[m] # None => HonestMember(server.members[m])
  BY <1>1 DEF NewMember, HonestMember
<1> QED BY <1>2, <1>3
        DEF UpToDate, StatusesTold, GatheringTold, MembersTold, Awaited, Existing

\* An event of a cluster wakes every Federation whose status it may outdate.
LEMMA SyncMemberTold ==
    ASSUME IInv, StatusesTold, GatheringTold, NEW m \in Members, SyncMember(m)
    PROVE  StatusesTold' /\ GatheringTold'
<1>1. /\ lag' = lag \ {m} /\ queue' = queue \cup Wakes(m)
      /\ UNCHANGED <<server, retries, federator>>
  BY DEF SyncMember
<1>2. \A f \in Federations : (server.federations[f] # None \/ Awaited(f)) => Awaited(f)'
  <2>1. \A f \in Federations : f # m
    BY FederationAssumption
  <2> QED BY <1>1, <2>1 DEF Awaited, Wakes, IInv, Coherent
<1>3. StatusesTold'
  BY <1>1, <1>2 DEF StatusesTold
<1>4. GatheringTold'
  <2> SUFFICES ASSUME federator # FederatorIdle PROVE Awaited(federator.name)'
    BY <1>1 DEF GatheringTold
  <2>1. federator.name \in Federations /\ federator.held \in FederationObject
    BY Reconciles DEF FederatorRecord
  <2>2. ~Awaited(federator.name) => server.federations[federator.name] # None
    BY <2>1, SpecType DEF GatheringTold, IInv, Coherent
  <2>3. PICK f \in Federations : f = federator.name /\ f = federator'.name
    BY <1>1, <2>1
  <2>4. Awaited(f)'
    BY <1>2, <2>2, <2>3
  <2> QED BY <2>3, <2>4 DEF Awaited
<1> QED BY <1>3, <1>4

\* The order in which the cache lists the selected clusters leaves none out.
LEMMA OrderListsAll ==
    ASSUME NEW S \in SUBSET Members, NEW order \in SetToSeqs(S), NEW m \in S
    PROVE  \E i \in DOMAIN order : order[i] = m
<1>1. IsFiniteSet(S) /\ Cardinality(S) \in Nat
  BY FS_Subset, FS_CardinalityType, FederationAssumption
<1> DEFINE D == 1 .. Cardinality(S)
<1>2. order \in [D -> S] /\ \A i, j \in D : i # j => order[i] # order[j]
  BY DEF SetToSeqs
<1>3. Cardinality(D) = Cardinality(S)
  BY <1>1, FS_Interval
<1>4. order \in Injection(D, S)
  BY <1>2 DEF Injection, IsInjective
<1> HIDE DEF D
<1>5. order \in Surjection(D, S)
  BY <1>1, <1>3, <1>4, FS_Injection
<1> QED BY <1>2, <1>5 DEF Surjection

LEMMA BeginFederationTold ==
    ASSUME IInv, StatusesTold, GatheringTold, NEW f \in Federations, BeginFederation(f)
    PROVE  StatusesTold' /\ GatheringTold'
<1>1. /\ UNCHANGED <<server, cache, lag, retries>> /\ queue' = queue \ {f}
      /\ federator = FederatorIdle
  BY DEF BeginFederation, objects
<1>2. \A federation : Told(federation)' <=> Told(federation)
  BY <1>1 DEF Told, Lists, Found
<1>3. \A g : g # f => (Awaited(g)' <=> Awaited(g))
  BY <1>1 DEF Awaited
<1>4. \A g \in Federations : federator.name # g
  BY <1>1, NoneAssumption DEF FederatorIdle
<1>5. ASSUME server.federations[f] # None, ~Awaited(f)'
      PROVE  federator'.name = f /\ federator'.pc = "list" /\ ~federator'.stale
  <2>1. f \notin lag /\ cache.federations[f] # None
    BY <1>1, <1>5 DEF Awaited, IInv, Coherent
  <2> QED BY <2>1 DEF BeginFederation
<1>6. StatusesTold'
  BY <1>1, <1>2, <1>3, <1>4, <1>5 DEF StatusesTold
<1>7. ASSUME federator' # FederatorIdle, ~Awaited(federator.name)'
      PROVE  ~federator'.stale /\ federator'.pc # "get"
  <2>1. federator' = [pc |-> "list", name |-> f, held |-> cache.federations[f],
                      stale |-> f \in lag, listed |-> <<>>, todo |-> {}]
    BY <1>7 DEF BeginFederation
  <2>2. federator'.name = f /\ federator'.pc = "list" /\ federator'.stale = (f \in lag)
    BY <2>1
  <2> QED BY <1>1, <1>7, <2>2 DEF Awaited
<1> QED BY <1>6, <1>7 DEF GatheringTold

\* A step of a reconcile that goes on: what is to be reported stays as it is.
LEMMA GatheringStepTold ==
    ASSUME IInv, StatusesTold, GatheringTold, federator # FederatorIdle,
           UNCHANGED <<server, cache, lag, queue, retries>>,
           federator'.name = federator.name, federator'.stale = federator.stale,
           (~Awaited(federator.name) /\ federator'.pc = "get") =>
                Lists(federator'.listed, Found(federator'.held.spec) \ federator'.todo)
    PROVE  StatusesTold' /\ GatheringTold'
<1>1. \A federation : Told(federation)' <=> Told(federation)
  BY DEF Told, Lists, Found
<1>2. \A n : Awaited(n)' <=> Awaited(n)
  BY DEF Awaited
<1>3. StatusesTold'
  BY <1>1, <1>2 DEF StatusesTold
<1>4. ASSUME ~Awaited(federator.name)'
      PROVE  /\ ~federator'.stale
             /\ federator'.pc = "get" =>
                    (Lists(federator.listed, Found(federator.held.spec) \ federator.todo))'
  <2>1. ~Awaited(federator.name)
    BY <1>4 DEF Awaited
  <2>2. federator'.pc = "get" =>
            Lists(federator'.listed, Found(federator'.held.spec) \ federator'.todo)
    BY <2>1
  <2>3. ~federator'.stale
    BY <2>1 DEF GatheringTold
  <2> QED BY <2>2, <2>3 DEF Lists, Found
<1>5. GatheringTold'
  BY <1>4 DEF GatheringTold
<1> QED BY <1>3, <1>5

LEMMA ListSelectedTold ==
    ASSUME IInv, StatusesTold, GatheringTold, ListSelected
    PROVE  StatusesTold' /\ GatheringTold'
<1>1. /\ federator \in FederatorRecord /\ federator # FederatorIdle
      /\ federator.pc = "list" /\ federator.held \in FederationObject
      /\ UNCHANGED <<server, cache, lag, queue>>
  BY Reconciles DEF ListSelected, FederatorStep, FederatorRecord, objects
<1> DEFINE spec == federator.held.spec
           selected == {m \in Members : /\ cache.members[m] # None
                                        /\ SelectorMatches(spec.memberSelector,
                                                           cache.members[m].labels)}
<1>2. CASE FederatorFinish(TRUE)
  BY <1>1, <1>2, FederatorEndTold DEF objects
<1>3. ASSUME NEW order \in SetToSeqs(selected),
             federator' = [federator EXCEPT !.pc = "get", !.listed = Entries(order),
                                            !.todo = spec.members \ selected],
             UNCHANGED retries
      PROVE  StatusesTold' /\ GatheringTold'
  <2>1. /\ DOMAIN Entries(order) = DOMAIN order /\ Distinct(Entries(order))
        /\ \A i \in DOMAIN order : Entries(order)[i].name = order[i] /\ order[i] \in selected
    BY EntriesOfOrder
  <2>2. \A i \in DOMAIN order :
            Entries(order)[i].ready = (cache.members[order[i]].status.ready = "Observed")
    BY DEF Entries
  <2>3. \A m \in selected : \E i \in DOMAIN order : order[i] = m
    BY OrderListsAll
  <2>4. Found(spec) \ (spec.members \ selected) = selected
    BY DEF Found
  <2>5. /\ federator'.name = federator.name /\ federator'.stale = federator.stale
        /\ federator'.held = federator.held /\ federator'.listed = Entries(order)
        /\ federator'.todo = spec.members \ selected
    BY <1>1, <1>3 DEF FederatorRecord
  <2> HIDE DEF selected
  <2>6. Lists(Entries(order), selected)
    BY <2>1, <2>2, <2>3 DEF Lists
  <2> QED BY <1>1, <1>3, <2>4, <2>5, <2>6, GatheringStepTold
<1>4. \/ FederatorFinish(TRUE)
      \/ /\ UNCHANGED retries
         /\ \E order \in SetToSeqs(selected) :
              federator' = [federator EXCEPT !.pc = "get", !.listed = Entries(order),
                                             !.todo = spec.members \ selected]
  BY DEF ListSelected
<1> QED BY <1>2, <1>3, <1>4

LEMMA GetNamedTold ==
    ASSUME IInv, StatusesTold, GatheringTold, NEW m \in Members, GetNamed(m)
    PROVE  StatusesTold' /\ GatheringTold'
<1>1. /\ federator \in FederatorRecord /\ federator # FederatorIdle
      /\ federator.pc = "get" /\ m \in federator.todo
      /\ federator.listed \in Seq(Entry)
      /\ UNCHANGED <<server, cache, lag, queue, retries>>
  BY Reconciles DEF GetNamed, FederatorStep, objects, FederatorRecord
<1> DEFINE entry == [name |-> m, ready |-> cache.members[m].status.ready = "Observed"]
           old == federator.listed
           new == federator'.listed
           clusters == Found(federator.held.spec)
<1>2. /\ federator'.name = federator.name /\ federator'.stale = federator.stale
      /\ federator'.held = federator.held /\ federator'.todo = federator.todo \ {m}
      /\ new = IF cache.members[m] = None THEN old ELSE Append(old, entry)
  <2>1. entry \in Entry
    BY DEF Entry
  <2>2. Entries(<<m>>) = <<entry>>
    BY DEF Entries
  <2>3. old \o <<entry>> = Append(old, entry)
    BY <1>1, <2>1
  <2> HIDE DEF entry
  <2>4. federator' = [federator EXCEPT
                          !.todo = federator.todo \ {m},
                          !.listed = IF cache.members[m] = None THEN old ELSE Append(old, entry)]
    BY <2>2, <2>3 DEF GetNamed
  <2> QED BY <1>1, <2>4 DEF FederatorRecord
<1>3. ASSUME ~Awaited(federator.name) PROVE Lists(new, clusters \ federator'.todo)
  <2>1. Lists(old, clusters \ federator.todo)
    BY <1>1, <1>3 DEF GatheringTold
  <2>2. m \in federator.held.spec.members
    BY <1>1 DEF IInv, Gathered
  <2>3. CASE cache.members[m] = None
    <3>1. m \notin clusters
      BY <2>3 DEF Found
    <3>2. clusters \ federator'.todo = clusters \ federator.todo
      BY <1>2, <3>1
    <3> QED BY <1>2, <2>1, <2>3, <3>2
  <2>4. CASE cache.members[m] # None
    <3>1. m \in clusters
      BY <2>2, <2>4 DEF Found
    <3>2. clusters \ federator'.todo = (clusters \ federator.todo) \cup {m}
      BY <1>2, <3>1
    <3> DEFINE n == Len(old)
    <3>3. /\ n \in Nat /\ DOMAIN old = 1 .. n /\ DOMAIN new = 1 .. (n + 1)
          /\ \A i \in 1 .. n : new[i] = old[i]
          /\ new[n + 1] = entry
      BY <1>1, <1>2, <2>4
    <3>4. entry.name = m /\ entry.ready = (cache.members[m].status.ready = "Observed")
      OBVIOUS
    <3> HIDE DEF entry, n, new, old, clusters
    <3>5. \A i \in 1 .. (n + 1) : i \in 1 .. n \/ i = n + 1
      BY <3>3
    <3>6. \A i \in 1 .. n : i \in 1 .. (n + 1)
      BY <3>3
    <3>7. n + 1 \in 1 .. (n + 1)
      BY <3>3
    <3>8. \A i \in 1 .. n : old[i].name # m
      BY <1>1, <2>1, <3>3 DEF Lists
    <3>9. Distinct(new)
      BY <2>1, <3>3, <3>4, <3>5, <3>8 DEF Lists, Distinct
    <3> QED BY <2>1, <3>2, <3>3, <3>4, <3>5, <3>6, <3>7, <3>9 DEF Lists
  <2> QED BY <2>3, <2>4
<1>4. (~Awaited(federator.name) /\ federator'.pc = "get") =>
            Lists(federator'.listed, Found(federator'.held.spec) \ federator'.todo)
  BY <1>2, <1>3
<1> QED BY <1>1, <1>2, <1>4, GatheringStepTold

\* A status that the report does not change is the one there would be now.
LEMMA ReportFederationTold ==
    ASSUME IInv, StatusesTold, GatheringTold, ReportFederation
    PROVE  StatusesTold' /\ GatheringTold'
<1>1. /\ federator \in FederatorRecord /\ federator # FederatorIdle
      /\ federator.pc = "get" /\ federator.todo = {}
      /\ federator.name \in Federations /\ federator.held \in FederationObject
      /\ federator.stale \in BOOLEAN /\ federator.listed \in Seq(Entry)
      /\ UNCHANGED queue
  BY Reconciles DEF ReportFederation, FederatorStep, FederatorRecord
<1> DEFINE f == federator.name
           status == Summary(federator.held, federator.listed)
           object == [federator.held EXCEPT !.status = status]
           changed == SummaryChanged(federator.held.status, status)
<1>2. IF changed /\ ~federator.stale THEN StoreFederation(f, object) ELSE UNCHANGED objects
  BY DEF ReportFederation
<1>3. FederatorFinish(changed /\ federator.stale) /\ changed \in BOOLEAN
  BY DEF ReportFederation, SummaryChanged
<1>4. CASE changed /\ ~federator.stale
  <2>1. object \in FederationObject
    BY <1>1, SummaryType DEF FederationObject
  <2>2. federator' = FederatorIdle /\ retries \subseteq retries'
    BY <1>3 DEF FederatorFinish
  <2> HIDE DEF object
  <2> QED BY <1>1, <1>2, <1>4, <2>1, <2>2, FederationWriteTold
<1>5. CASE ~(changed /\ ~federator.stale)
  <2>1. ASSUME ~changed, ~Awaited(f)
        PROVE  server.federations[f] # None /\ Told(server.federations[f])
    <3> DEFINE held == federator.held
    <3>1. /\ ~federator.stale
          /\ Lists(federator.listed, Found(held.spec) \ federator.todo)
      BY <1>1, <2>1 DEF GatheringTold
    <3>2. held = server.federations[f] /\ held # None
      BY <1>1, <3>1, SpecType DEF IInv, Coherent
    <3>3. /\ held.status.observedGeneration = status.observedGeneration
          /\ held.status.members = status.members
      BY <2>1 DEF SummaryChanged
    <3>4. status.members = federator.listed /\ status.observedGeneration = held.generation
      BY <1>1, SummaryType
    <3>5. held.status = Summary(held, held.status.members)
      BY <1>1, <3>2, <3>3, <3>4 DEF IInv, HonestStatuses, Honest
    <3>6. held.spec.memberSelector # InvalidSelector
      BY <1>1 DEF IInv, Gathered
    <3>7. Lists(held.status.members, Found(held.spec))
      BY <1>1, <3>1, <3>3, <3>4
    <3> QED BY <3>2, <3>5, <3>6, <3>7 DEF Told
  <2> DEFINE retry == changed /\ federator.stale
  <2>2. retry \in BOOLEAN /\ FederatorFinish(retry)
    BY <1>1, <1>3
  <2>3. retry \/ Awaited(f) \/ (server.federations[f] # None /\ Told(server.federations[f]))
    BY <1>5, <2>1
  <2>4. UNCHANGED <<objects, queue>>
    BY <1>1, <1>2, <1>5
  <2> HIDE DEF retry
  <2> QED BY <1>1, <2>2, <2>3, <2>4, FederatorEndTold
<1> QED BY <1>4, <1>5

--------------------------------------------------------------------------------
(* The same of the clusters.                                                    *)

\* A write to a cluster: its event is to come.
LEMMA MemberWriteTold ==
    ASSUME IInv, MembersTold, NEW m \in Members, NEW object \in MemberObject \cup {None},
           object # None => HonestMember(object),
           StoreMember(m, object), UNCHANGED queue, retries \subseteq retries',
           \/ observer' = ObserverIdle /\ observer.name = m
           \/ Overtake(m)
    PROVE  MembersTold'
<1>1. /\ cache' = cache /\ lag' = lag \cup {m}
      /\ \A n \in Members : server'.members[n] = IF n = m THEN object ELSE server.members[n]
  <2>1. /\ cache' = cache /\ lag' = lag \cup {m}
        /\ server'.members = [server.members EXCEPT ![m] = object]
    BY StoreMemberType
  <2> QED BY <2>1 DEF IInv, TypeOK, Objects
<1>2. \A n : Awaited(n) \/ n = m => Awaited(n)'
  BY <1>1 DEF Awaited
<1>3. \A n \in Members : (n # m /\ observer'.name # n) => observer.name # n
  BY OvertakeObserver
<1>4. \A n \in Members : server'.members[n] # None =>
            /\ HonestMember(server'.members[n])
            /\ (~Awaited(n)' /\ observer'.name # n)
                => server'.members[n].status = Observed(server'.members[n])
  BY <1>1, <1>2, <1>3 DEF MembersTold
<1>5. ASSUME observer' # ObserverIdle, ~Awaited(observer.name)' PROVE ~observer'.stale
  <2>1. Overtake(m)
    BY <1>5
  <2>2. observer # ObserverIdle /\ observer'.name = observer.name /\ observer.name \in Members
    BY <1>5, <2>1, OvertakeObserver DEF ObserverRecord
  <2>3. observer.name # m /\ ~Awaited(observer.name)
    BY <1>1, <1>5, <2>2 DEF Awaited
  <2> QED BY <2>1, <2>2, <2>3 DEF MembersTold, Overtake
<1> QED BY <1>4, <1>5 DEF MembersTold

LEMMA BeginMemberTold ==
    ASSUME IInv, MembersTold, NEW m \in Members, BeginMember(m)
    PROVE  MembersTold'
<1>1. /\ UNCHANGED <<server, cache, lag, retries>> /\ queue' = queue \ {m}
      /\ observer = ObserverIdle
  BY DEF BeginMember, objects
<1>2. \A n : n # m => (Awaited(n)' <=> Awaited(n))
  BY <1>1 DEF Awaited
<1>3. \A n \in Members : observer.name # n
  BY <1>1, NoneAssumption DEF ObserverIdle
<1>4. ASSUME server.members[m] # None, ~Awaited(m)' PROVE observer'.name = m
  <2>1. m \notin lag /\ cache.members[m] # None
    BY <1>1, <1>4 DEF Awaited, IInv, Coherent
  <2> QED BY <2>1 DEF BeginMember
<1>5. ASSUME observer' # ObserverIdle, ~Awaited(observer.name)' PROVE ~observer'.stale
  <2>1. observer' = [name |-> m, held |-> cache.members[m], stale |-> m \in lag]
    BY <1>5 DEF BeginMember
  <2>2. observer'.name = m /\ observer'.stale = (m \in lag)
    BY <2>1
  <2> QED BY <1>1, <1>5, <2>2 DEF Awaited
<1> QED BY <1>1, <1>2, <1>3, <1>4, <1>5 DEF MembersTold

\* The reconcile of a cluster ends without a write.
LEMMA ObserverEndTold ==
    ASSUME IInv, MembersTold, observer # ObserverIdle, NEW retry \in BOOLEAN,
           ObserverFinish(retry), UNCHANGED <<objects, queue>>,
           \/ retry \/ Awaited(observer.name)
           \/ server.members[observer.name].status = Observed(server.members[observer.name])
    PROVE  MembersTold'
<1>1. /\ UNCHANGED <<server, cache, lag, queue>>
      /\ observer' = ObserverIdle
      /\ retries' = IF retry THEN retries \cup {observer.name} ELSE retries
  BY DEF ObserverFinish, objects
<1>2. \A n : Awaited(n) \/ (retry /\ n = observer.name) => Awaited(n)'
  BY <1>1 DEF Awaited
<1> QED BY <1>1, <1>2 DEF MembersTold

LEMMA ReportMemberTold ==
    ASSUME IInv, MembersTold, ReportMember
    PROVE  MembersTold'
<1>1. /\ observer \in ObserverRecord /\ observer # ObserverIdle
      /\ observer.name \in Members /\ observer.held \in MemberObject
      /\ observer.stale \in BOOLEAN /\ UNCHANGED queue
  BY Reconciles DEF ReportMember, ObserverRecord
<1> DEFINE m == observer.name
           held == observer.held
           object == [held EXCEPT !.status = Observed(held)]
           changed == MemberChanged(held.status, Observed(held))
<1>2. IF changed /\ ~observer.stale THEN StoreMember(m, object) ELSE UNCHANGED objects
  BY DEF ReportMember
<1>3. ObserverFinish(changed /\ observer.stale) /\ changed \in BOOLEAN
  BY DEF ReportMember, MemberChanged
<1>4. CASE changed /\ ~observer.stale
  <2>1. /\ object \in MemberObject /\ object.status = Observed(held)
        /\ object.generation = held.generation /\ object.valid = held.valid
        /\ held.generation \in Nat
    BY <1>1, ObservedType DEF MemberObject
  <2>2. observer' = ObserverIdle /\ retries \subseteq retries'
    BY <1>3 DEF ObserverFinish
  <2> HIDE DEF object
  <2>3. HonestMember(object)
    BY <2>1 DEF HonestMember, Observed
  <2> QED BY <1>1, <1>2, <1>4, <2>1, <2>2, <2>3, MemberWriteTold
<1>5. CASE ~(changed /\ ~observer.stale)
  <2>1. ASSUME ~changed, ~Awaited(m)
        PROVE  server.members[m].status = Observed(server.members[m])
    <3>1. held = server.members[m] /\ held # None
      BY <1>1, <2>1, ObjectAssumption DEF MembersTold, IInv, Coherent
    <3>2. held.status.observedGeneration = held.generation
      BY <2>1 DEF MemberChanged, Observed
    <3> QED BY <1>1, <3>1, <3>2 DEF MembersTold, HonestMember
  <2> DEFINE retry == changed /\ observer.stale
  <2>2. retry \in BOOLEAN /\ ObserverFinish(retry)
    BY <1>1, <1>3
  <2>3. retry \/ Awaited(m) \/ server.members[m].status = Observed(server.members[m])
    BY <1>5, <2>1
  <2>4. UNCHANGED <<objects, queue>>
    BY <1>1, <1>2, <1>5
  <2> HIDE DEF retry
  <2> QED BY <1>1, <2>2, <2>3, <2>4, ObserverEndTold
<1> QED BY <1>4, <1>5

--------------------------------------------------------------------------------
(* Every step preserves UpToDate.                                               *)

LEMMA WorkersUpToDate ==
    ASSUME IInv, UpToDate, Reconcile PROVE UpToDate'
<1>1. StatusesTold /\ GatheringTold /\ MembersTold
  BY DEF UpToDate
<1>2. CASE (\E m \in Members : BeginMember(m)) \/ ReportMember
  <2>1. MembersTold'
    BY <1>1, <1>2, BeginMemberTold, ReportMemberTold
  <2>2. /\ cache'.members = cache.members /\ server'.federations = server.federations
        /\ UNCHANGED federator /\ \A f \in Federations : Awaited(f) => Awaited(f)'
    <3>1. CASE \E m \in Members : BeginMember(m)
      <4>1. /\ UNCHANGED <<server, cache, lag, retries, federator>>
            /\ \A f \in Federations : f \in queue => f \in queue'
        BY <3>1, FederationAssumption DEF BeginMember, objects
      <4> QED BY <4>1 DEF Awaited
    <3>2. CASE ReportMember
      <4>1. UNCHANGED <<queue, federator>> /\ retries \subseteq retries'
        BY <3>2 DEF ReportMember, ObserverFinish
      <4>2. UNCHANGED objects \/ \E m, object : StoreMember(m, object)
        BY <3>2 DEF ReportMember
      <4>3. /\ cache' = cache /\ server'.federations = server.federations
            /\ lag \subseteq lag'
        BY <4>2 DEF StoreMember, objects, IInv, TypeOK, Objects
      <4> QED BY <4>1, <4>3 DEF Awaited
    <3> QED BY <1>2, <3>1, <3>2
  <2> QED BY <1>1, <2>1, <2>2, FederationsFrame DEF UpToDate
<1>3. CASE \/ \E f \in Federations : BeginFederation(f)
           \/ ListSelected \/ (\E m \in Members : GetNamed(m)) \/ ReportFederation
  <2>1. StatusesTold' /\ GatheringTold'
    BY <1>1, <1>3, BeginFederationTold, ListSelectedTold, GetNamedTold, ReportFederationTold
  <2>2. /\ server'.members = server.members /\ UNCHANGED observer
        /\ \A m \in Members : Awaited(m) => Awaited(m)'
    <3>1. CASE \E f \in Federations : BeginFederation(f)
      <4>1. /\ UNCHANGED <<server, lag, retries, observer>>
            /\ \A m \in Members : m \in queue => m \in queue'
        BY <3>1, FederationAssumption DEF BeginFederation, objects
      <4> QED BY <4>1 DEF Awaited
    <3>2. CASE ListSelected \/ \E m \in Members : GetNamed(m)
      <4>1. UNCHANGED <<server, lag, queue, observer>> /\ retries \subseteq retries'
        BY <3>2 DEF ListSelected, GetNamed, FederatorStep, FederatorFinish, objects
      <4> QED BY <4>1 DEF Awaited
    <3>3. CASE ReportFederation
      <4>1. UNCHANGED <<queue, observer>> /\ retries \subseteq retries'
        BY <3>3 DEF ReportFederation, FederatorStep, FederatorFinish
      <4>2. UNCHANGED objects \/ \E f, object : StoreFederation(f, object)
        BY <3>3 DEF ReportFederation
      <4>3. server'.members = server.members /\ lag \subseteq lag'
        BY <4>2 DEF StoreFederation, objects, IInv, TypeOK, Objects
      <4> QED BY <4>1, <4>3 DEF Awaited
    <3> QED BY <1>3, <3>1, <3>2, <3>3
  <2> QED BY <1>1, <2>1, <2>2, MembersFrame DEF UpToDate
<1> QED BY <1>2, <1>3 DEF Reconcile

LEMMA QueueUpToDate ==
    ASSUME IInv, UpToDate,
           \/ \E f \in Federations : SyncFederation(f)
           \/ \E m \in Members : SyncMember(m)
           \/ \E n \in Federations \cup Members : Retry(n)
           \/ UNCHANGED vars
    PROVE  UpToDate'
<1>1. StatusesTold /\ GatheringTold /\ MembersTold
  BY DEF UpToDate
<1>2. UNCHANGED <<server, federator, observer>>
  BY DEF SyncFederation, SyncMember, Retry, objects, vars
<1>3. \A n : Awaited(n) => Awaited(n)'
  BY DEF SyncFederation, SyncMember, Wakes, Retry, objects, vars, Awaited
<1>4. MembersTold'
  BY <1>1, <1>2, <1>3, MembersFrame
<1>5. CASE \E m \in Members : SyncMember(m)
  BY <1>1, <1>4, <1>5, SyncMemberTold DEF UpToDate
<1>6. CASE cache'.members = cache.members
  BY <1>1, <1>2, <1>3, <1>4, <1>6, FederationsFrame DEF UpToDate
<1>7. (\E m \in Members : SyncMember(m)) \/ cache'.members = cache.members
  BY DEF SyncFederation, Retry, objects, vars, IInv, TypeOK, Objects
<1> QED BY <1>5, <1>6, <1>7

LEMMA FederationEditsUpToDate ==
    ASSUME IInv, UpToDate, NEW f \in Federations,
           \/ \E spec \in FederationSpecs : CreateFederation(f, spec) \/ EditFederation(f, spec)
           \/ DeleteFederation(f)
    PROVE  UpToDate'
<1>1. StatusesTold /\ GatheringTold /\ MembersTold
  BY DEF UpToDate
<1>2. Overtake(f) /\ UNCHANGED <<queue, retries>>
  BY DEF CreateFederation, EditFederation, DeleteFederation, Overtake
<1>3. PICK object \in FederationObject \cup {None} : StoreFederation(f, object)
  <2>1. ASSUME NEW spec \in FederationSpecs, CreateFederation(f, spec)
        PROVE  \E object \in FederationObject \cup {None} : StoreFederation(f, object)
    BY <2>1, NewFederationType DEF CreateFederation
  <2>2. ASSUME NEW spec \in FederationSpecs, EditFederation(f, spec)
        PROVE  \E object \in FederationObject \cup {None} : StoreFederation(f, object)
    <3> DEFINE old == server.federations[f]
               new == [old EXCEPT !.spec = spec, !.generation = @ + 1]
    <3>1. old \in FederationObject /\ old.generation + 1 \in Nat
      <4>1. old \in FederationObject
        BY <2>2 DEF EditFederation, IInv, TypeOK, Objects
      <4> QED BY <4>1, SpecType
    <3>2. new \in FederationObject
      BY <3>1 DEF FederationObject
    <3>3. StoreFederation(f, new)
      BY <2>2 DEF EditFederation
    <3> QED BY <3>2, <3>3
  <2>3. CASE DeleteFederation(f)
    BY <2>3 DEF DeleteFederation
  <2> QED BY <2>1, <2>2, <2>3
<1>4. StatusesTold' /\ GatheringTold'
  BY <1>1, <1>2, <1>3, FederationWriteTold
<1>5. server'.members = server.members /\ lag' = lag \cup {f}
  BY <1>3, StoreFederationType
<1>6. UNCHANGED observer
  <2>1. observer.name # f
    BY Reconciles, FederationAssumption, NoneAssumption DEF ObserverRecord, ObserverIdle
  <2> QED BY <1>2, <2>1 DEF Overtake
<1>7. \A m \in Members : Awaited(m) => Awaited(m)'
  BY <1>2, <1>5 DEF Awaited
<1> QED BY <1>1, <1>4, <1>5, <1>6, <1>7, MembersFrame DEF UpToDate

LEMMA MemberEditsUpToDate ==
    ASSUME IInv, UpToDate, NEW m \in Members,
           \/ \E labels \in Labels : CreateMember(m, labels) \/ RelabelMember(m, labels)
           \/ EditMember(m) \/ DeleteMember(m)
    PROVE  UpToDate'
<1>1. StatusesTold /\ GatheringTold /\ MembersTold
  BY DEF UpToDate
<1>2. Overtake(m) /\ UNCHANGED <<queue, retries>>
  BY DEF CreateMember, RelabelMember, EditMember, DeleteMember, Overtake
<1> DEFINE old == server.members[m]
<1>3. old # None => /\ old \in MemberObject /\ old.generation \in Nat
                    /\ old.status.observedGeneration \in Nat /\ HonestMember(old)
  BY <1>1 DEF IInv, TypeOK, Objects, MemberObject, MemberStatus, MembersTold
<1>4. PICK object \in MemberObject \cup {None} :
            StoreMember(m, object) /\ (object # None => HonestMember(object))
  <2>1. ASSUME NEW labels \in Labels, CreateMember(m, labels)
        PROVE  \E object \in MemberObject \cup {None} :
                    StoreMember(m, object) /\ (object # None => HonestMember(object))
    <3>1. HonestMember(NewMember(labels, TRUE))
      BY DEF HonestMember, NewMember
    <3> QED BY <2>1, <3>1, NewMemberType DEF CreateMember
  <2>2. ASSUME NEW labels \in Labels, RelabelMember(m, labels)
        PROVE  \E object \in MemberObject \cup {None} :
                    StoreMember(m, object) /\ (object # None => HonestMember(object))
    <3> DEFINE new == [old EXCEPT !.labels = labels]
    <3>1. old # None /\ StoreMember(m, new)
      BY <2>2 DEF RelabelMember
    <3>2. /\ new \in MemberObject /\ new.status = old.status
          /\ new.generation = old.generation /\ new.valid = old.valid
      BY <1>3, <3>1 DEF MemberObject
    <3> HIDE DEF new
    <3>3. HonestMember(new)
      BY <1>3, <3>1, <3>2 DEF HonestMember, Observed
    <3> QED BY <3>1, <3>2, <3>3
  <2>3. ASSUME EditMember(m)
        PROVE  \E object \in MemberObject \cup {None} :
                    StoreMember(m, object) /\ (object # None => HonestMember(object))
    <3> DEFINE new == [old EXCEPT !.valid = TRUE, !.generation = @ + 1]
    <3>1. old # None /\ StoreMember(m, new)
      BY <2>3 DEF EditMember
    <3>2. old.generation + 1 \in Nat
      BY <1>3, <3>1
    <3>3. /\ new \in MemberObject /\ new.status = old.status
          /\ new.generation = old.generation + 1
      BY <1>3, <3>1, <3>2 DEF MemberObject
    <3> HIDE DEF new
    <3>4. HonestMember(new)
      BY <1>3, <3>1, <3>3 DEF HonestMember
    <3> QED BY <3>1, <3>3, <3>4
  <2>4. CASE DeleteMember(m)
    BY <2>4 DEF DeleteMember
  <2> QED BY <2>1, <2>2, <2>3, <2>4
<1>5. MembersTold'
  BY <1>1, <1>2, <1>4, MemberWriteTold
<1>6. /\ server'.federations = server.federations /\ lag' = lag \cup {m} /\ cache' = cache
  BY <1>4, StoreMemberType
<1>7. UNCHANGED federator
  <2>1. federator.name # m
    BY Reconciles, FederationAssumption, NoneAssumption DEF FederatorRecord, FederatorIdle
  <2> QED BY <1>2, <2>1 DEF Overtake
<1>8. \A f \in Federations : Awaited(f) => Awaited(f)'
  BY <1>2, <1>6 DEF Awaited
<1> QED BY <1>1, <1>5, <1>6, <1>7, <1>8, FederationsFrame DEF UpToDate

\* A failed call leaves a retry behind, a restart starts from the list of everything.
LEMMA FailuresUpToDate ==
    ASSUME IInv, UpToDate, ApiCallFails \/ Restart PROVE UpToDate'
<1>1. StatusesTold /\ GatheringTold /\ MembersTold
  BY DEF UpToDate
<1>2. CASE ApiCallFails
  <2>1. UNCHANGED <<objects, queue>> /\ UNCHANGED <<server, cache, lag>>
    BY <1>2 DEF ApiCallFails, objects
  <2>2. CASE federator # FederatorIdle /\ FederatorFinish(TRUE) /\ UNCHANGED observer
    <3>1. \A m \in Members : Awaited(m) => Awaited(m)'
      BY <2>1, <2>2 DEF FederatorFinish, Awaited
    <3> QED BY <1>1, <2>1, <2>2, <3>1, FederatorEndTold, MembersFrame DEF UpToDate
  <2>3. CASE observer # ObserverIdle /\ ObserverFinish(TRUE) /\ UNCHANGED federator
    <3>1. \A f \in Federations : Awaited(f) => Awaited(f)'
      BY <2>1, <2>3 DEF ObserverFinish, Awaited
    <3> QED BY <1>1, <2>1, <2>3, <3>1, ObserverEndTold, FederationsFrame DEF UpToDate
  <2> QED BY <1>2, <2>2, <2>3 DEF ApiCallFails
<1>3. CASE Restart
  BY <1>1, <1>3
  DEF Restart, UpToDate, StatusesTold, GatheringTold, MembersTold, Awaited, Existing
<1> QED BY <1>2, <1>3

LEMMA StepUpToDate == IInv /\ UpToDate /\ [Next]_vars => UpToDate'
<1> SUFFICES ASSUME IInv, UpToDate, [Next]_vars PROVE UpToDate'
  OBVIOUS
<1>1. CASE Environment
  BY <1>1, FederationEditsUpToDate, MemberEditsUpToDate, FailuresUpToDate DEF Environment
<1>2. CASE Reconcile
  BY <1>2, WorkersUpToDate
<1> QED BY <1>1, <1>2, QueueUpToDate DEF Next

\* A list that names each member of a set once is as long as the set is large.
LEMMA ListLength ==
    ASSUME NEW listed \in Seq(Entry), NEW clusters \in SUBSET Members, Lists(listed, clusters)
    PROVE  Len(listed) = Cardinality(clusters)
<1> DEFINE D == 1 .. Len(listed)
           name == [i \in D |-> listed[i].name]
<1>1. Len(listed) \in Nat /\ DOMAIN listed = D
  OBVIOUS
<1>2. IsFiniteSet(clusters)
  BY FS_Subset, FederationAssumption
<1>3. Cardinality(D) = Len(listed)
  BY <1>1, FS_Interval
<1>4. /\ \A i \in D : name[i] \in clusters
      /\ \A i, j \in D : name[i] = name[j] => i = j
      /\ \A m \in clusters : \E i \in D : name[i] = m
  BY <1>1 DEF Lists, Distinct
<1>5. name \in [D -> clusters]
  BY <1>4
<1> HIDE DEF D, name
<1>6. name \in Injection(D, clusters) /\ name \in Surjection(D, clusters)
  BY <1>4, <1>5 DEF Injection, IsInjective, Surjection
<1>7. Cardinality(D) = Cardinality(clusters)
  BY <1>2, <1>6, FS_Injection
<1> QED BY <1>3, <1>7

\* No order of events, edits, stale lists, status writes of the other controller,
\* failures and restarts loses the event that should bring a reconcile back: at
\* rest every status is the one of the objects there are.
THEOREM SettledIsReported == Spec => []SettledMeansReported
<1>1. IInv /\ UpToDate => SettledMeansReported
  <2> SUFFICES ASSUME IInv, UpToDate PROVE SettledMeansReported
    OBVIOUS
  <2>1. StatusesTold /\ MembersTold
    BY DEF UpToDate
  <2>2. ASSUME NEW f \in Federations, server.federations[f] # None, Quiet(f),
               lag \cap Members = {}
        PROVE  MembersResolvable(InfraOf(server), f) /\ Reports(f)
    <3> DEFINE federation == server.federations[f]
               listed == federation.status.members
               resolved == ResolveMembers(InfraOf(server), f)
    <3>1. Told(federation)
      BY <2>1, <2>2 DEF StatusesTold, Quiet, Awaited
    <3>2. \A m \in Members : cache.members[m] = server.members[m]
      BY <2>2 DEF IInv, Coherent
    <3>3. /\ InfraOf(server).federations[f] =
                [members |-> federation.spec.members,
                 memberSelector |-> federation.spec.memberSelector]
          /\ \A m \in Members : InfraOf(server).members[m] =
                IF server.members[m] = None THEN None ELSE server.members[m].labels
      BY <2>2 DEF InfraOf
    <3>4. \A m \in Members : server.members[m] # None => server.members[m].labels # None
      BY NoneAssumption DEF IInv, TypeOK, Objects, MemberObject
    <3>5. resolved = Found(federation.spec)
      BY <3>2, <3>3, <3>4 DEF ResolveMembers, Found
    <3>6. federation \in FederationObject /\ listed \in Seq(Entry)
      BY <2>2 DEF IInv, TypeOK, Objects, FederationObject, FederationStatus, Entry
    <3> DEFINE entry(m) == [name |-> m, ready |-> server.members[m].status.ready = "Observed"]
    <3>7. Lists(listed, resolved)
      BY <3>1, <3>5 DEF Told
    <3>8. \A i \in DOMAIN listed : listed[i] = entry(listed[i].name) /\ listed[i].name \in resolved
      <4>1. ASSUME NEW i \in DOMAIN listed
            PROVE  listed[i] = entry(listed[i].name) /\ listed[i].name \in resolved
        <5>1. listed[i] \in Entry
          BY <3>6
        <5>2. /\ listed[i].name \in resolved /\ listed[i].name \in Members
              /\ listed[i].ready = (server.members[listed[i].name].status.ready = "Observed")
          BY <3>2, <3>7, <5>1 DEF Lists, Entry
        <5> QED BY <5>1, <5>2 DEF Entry
      <4> QED BY <4>1
    <3>9. \A m \in resolved : \E i \in DOMAIN listed : listed[i].name = m
      BY <3>7 DEF Lists
    <3>10. Len(listed) = Cardinality(resolved)
      <4>1. resolved \in SUBSET Members
        BY DEF ResolveMembers
      <4> HIDE DEF listed, resolved
      <4> QED BY <3>6, <3>7, <4>1, ListLength
    <3>11. ToSet(listed) = {entry(m) : m \in resolved}
      <4> HIDE DEF listed, resolved, entry
      <4>1. \A x \in ToSet(listed) : x \in {entry(m) : m \in resolved}
        BY <3>8 DEF ToSet
      <4>2. ASSUME NEW m \in resolved PROVE entry(m) \in ToSet(listed)
        <5>1. PICK i \in DOMAIN listed : listed[i].name = m
          BY <3>9
        <5>2. listed[i] = entry(m)
          BY <3>8, <5>1
        <5> QED BY <5>1, <5>2 DEF ToSet
      <4> QED BY <4>1, <4>2
    <3>12. MembersResolvable(InfraOf(server), f)
      BY <3>1, <3>3 DEF MembersResolvable, Told
    <3> QED BY <3>1, <3>10, <3>11, <3>12 DEF Reports, Told
  <2>3. ASSUME NEW m \in Members, server.members[m] # None, Quiet(m)
        PROVE  server.members[m].status = Observed(server.members[m])
    BY <2>1, <2>3 DEF MembersTold, Quiet, Awaited
  <2> QED BY <2>2, <2>3 DEF SettledMeansReported
<1> QED BY <1>1, InitUpToDate, StepUpToDate, Invariance, PTL DEF Spec

================================================================================
