-------------------------- MODULE FederationController --------------------------
(***************************************************************************)
(* The Federation and ClusterMember controllers of one member cluster, two *)
(* workers of one process that share an informer cache: the first lists in *)
(* a Federation's status its members and whether they are ready, the       *)
(* second says in a ClusterMember's status whether it is.                  *)
(*                                                                         *)
(* A Federation is looked at again on each of its own events and, through  *)
(* a map function, on every event of any ClusterMember. The list of the    *)
(* selected members, which the cache answers in no particular order, and   *)
(* the Get of each named one happen one after the other.                   *)
(***************************************************************************)
EXTENDS Placement, Naturals, SequencesExt

CONSTANTS
    FederationSpecs,   \* the Federation specs GitOps applies
    Infras,            \* the Federations and ClusterMembers there are at first
    Disturbances,      \* the kinds of disturbances a run lets happen
    MaxDisturbances    \* how many of them (bounds generations, restarts)

DisturbanceKinds == {"federation", "member", "label", "error", "restart"}

\* FederationSpec: what decides membership, and whether defaultTargetPolicy, which
\* nothing acts on, is set.
SpecShape == [members : SUBSET Members, memberSelector : Selectors, defaultPolicy : BOOLEAN]

\* What GitOps has delivered when the operator starts; of a ClusterMember the
\* labels, and whether its spec has all that validateClusterMemberSpec asks for.
Delivered ==
    [federations : [Federations -> FederationSpecs \cup {None}],
     members     : [Members -> [labels : Labels, valid : BOOLEAN] \cup {None}]]

ASSUME FederationAssumption ==
    /\ Federations \cap Members = {} /\ IsFiniteSet(Members)
    /\ FederationSpecs \subseteq SpecShape
    /\ Infras \subseteq Delivered
    /\ Disturbances \subseteq DisturbanceKinds
    /\ MaxDisturbances \in Nat

VARIABLES
    server,      \* the API server's Federations and ClusterMembers
    cache,       \* the operator's informer cache of them
    lag,         \* the names whose cached resourceVersion is not the server's
    queue,       \* the names in the work queues of the two controllers
    retries,     \* the names with a rate-limited retry pending
    federator,   \* the Federation controller's reconcile
    observer,    \* the ClusterMember controller's reconcile
    budget       \* disturbances left

objects == <<server, cache, lag>>
vars == <<objects, queue, retries, federator, observer, budget>>

--------------------------------------------------------------------------------
(* Objects.                                                                     *)

\* A condition is its reason. Ready is True with "AllMembersReady" only; Degraded has
\* one reason, and FieldsNotEnforced another.
FederationStatus ==
    [observedGeneration : Nat,
     members            : Seq([name : Members, ready : BOOLEAN]),
     ready              : {"Absent", "AllMembersReady", "NoMembers", "MembersNotReady"},
     degraded           : BOOLEAN,
     notEnforced        : BOOLEAN]

MemberStatus ==
    [observedGeneration : Nat, ready : {"Absent", "Observed", "InvalidSpec"}]

FederationObject == [generation : Nat, spec : FederationSpecs, status : FederationStatus]
MemberObject ==
    [generation : Nat, labels : Labels, valid : BOOLEAN, status : MemberStatus]

\* Not existing is not some object.
ASSUME ObjectAssumption == None \notin FederationObject \cup MemberObject \cup FederationSpecs

NewFederation(spec) ==
    [generation |-> 1, spec |-> spec,
     status |-> [observedGeneration |-> 0, members |-> <<>>, ready |-> "Absent",
                 degraded |-> FALSE, notEnforced |-> FALSE]]

NewMember(labels, valid) ==
    [generation |-> 1, labels |-> labels, valid |-> valid,
     status |-> [observedGeneration |-> 0, ready |-> "Absent"]]

Objects ==
    [federations : [Federations -> FederationObject \cup {None}],
     members     : [Members -> MemberObject \cup {None}]]

\* What the placement decisions see of the objects.
InfraOf(view) ==
    [federations |-> [f \in Federations |->
                        IF view.federations[f] = None THEN None
                        ELSE [members |-> view.federations[f].spec.members,
                              memberSelector |-> view.federations[f].spec.memberSelector]],
     members     |-> [m \in Members |->
                        IF view.members[m] = None THEN None ELSE view.members[m].labels]]

\* A reconcile works on its copy of `name`, which the server's may have overtaken.
FederatorIdle == [pc |-> "idle", name |-> None, held |-> None, stale |-> FALSE,
                  listed |-> <<>>, todo |-> {}]
ObserverIdle  == [name |-> None, held |-> None, stale |-> FALSE]

\* The names the first lists of a process enqueue.
Existing(view) == {f \in Federations : view.federations[f] # None}
                    \cup {m \in Members : view.members[m] # None}

TypeOK ==
    /\ server \in Objects /\ cache \in Objects
    /\ lag \subseteq Federations \cup Members
    /\ queue \subseteq Federations \cup Members
    /\ retries \subseteq Federations \cup Members
    /\ \/ federator = FederatorIdle
       \/ federator \in [pc : {"list", "get"}, name : Federations,
                         held : FederationObject, stale : BOOLEAN,
                         listed : Seq([name : Members, ready : BOOLEAN]),
                         todo : SUBSET Members]
    /\ observer \in {ObserverIdle} \cup [name : Members, held : MemberObject, stale : BOOLEAN]
    /\ budget \in 0 .. MaxDisturbances

Init ==
    /\ \E infra \in Infras :
        server = [federations |-> [f \in Federations |->
                        IF infra.federations[f] = None THEN None
                        ELSE NewFederation(infra.federations[f])],
                  members |-> [m \in Members |->
                        IF infra.members[m] = None THEN None
                        ELSE NewMember(infra.members[m].labels, infra.members[m].valid)]]
    /\ cache = server /\ lag = {}
    /\ queue = Existing(server)
    /\ retries = {}
    /\ federator = FederatorIdle /\ observer = ObserverIdle
    /\ budget = MaxDisturbances

--------------------------------------------------------------------------------
(* The API server, the informers and the work queues.                           *)

StoreFederation(f, object) ==
    /\ server' = [server EXCEPT !.federations[f] = object]
    /\ lag' = lag \cup {f} /\ UNCHANGED cache

StoreMember(m, object) ==
    /\ server' = [server EXCEPT !.members[m] = object]
    /\ lag' = lag \cup {m} /\ UNCHANGED cache

SyncFederation(f) ==
    /\ f \in lag
    /\ cache' = [cache EXCEPT !.federations[f] = server.federations[f]]
    /\ lag' = lag \ {f}
    /\ queue' = queue \cup {f}
    /\ UNCHANGED <<server, retries, federator, observer, budget>>

\* Fault: ClusterMembers are not watched.
Wakes_SelfOnly(m) == {m}

\* The reconciles an event of a ClusterMember causes: its own, and those that
\* enqueueAllFederations finds in the cache at this moment.
Wakes(m) == {m} \cup {f \in Federations : cache.federations[f] # None}

SyncMember(m) ==
    /\ m \in lag
    /\ cache' = [cache EXCEPT !.members[m] = server.members[m]]
    /\ lag' = lag \ {m}
    /\ queue' = queue \cup Wakes(m)
    /\ UNCHANGED <<server, retries, federator, observer, budget>>

Retry(n) ==
    /\ n \in retries
    /\ retries' = retries \ {n}
    /\ queue' = queue \cup {n}
    /\ UNCHANGED <<objects, federator, observer, budget>>

--------------------------------------------------------------------------------
(* The ClusterMember controller.                                                *)

ObserverFinish(retry) ==
    /\ observer' = ObserverIdle
    /\ retries' = IF retry THEN retries \cup {observer.name} ELSE retries

\* The worker takes a member from the queue; one that is gone is done with.
BeginMember(m) ==
    /\ observer = ObserverIdle /\ m \in queue
    /\ queue' = queue \ {m}
    /\ observer' = IF cache.members[m] = None THEN ObserverIdle
                   ELSE [name |-> m, held |-> cache.members[m], stale |-> m \in lag]
    /\ UNCHANGED <<objects, retries, federator, budget>>

\* reconcileStatus, and validateClusterMemberSpec.
Observed(member) ==
    [observedGeneration |-> member.generation,
     ready |-> IF member.valid THEN "Observed" ELSE "InvalidSpec"]

\* SetStatusCondition changes a condition that is there already in the array that
\* the old status shares, so the comparison that follows sees a new condition and
\* a new generation only.
MemberChanged(old, new) ==
    \/ old.observedGeneration # new.observedGeneration
    \/ old.ready = "Absent"

\* Fault: the status is written without a resourceVersion, with the object read.
ReportMember_Overwrites ==
    /\ observer # ObserverIdle
    /\ StoreMember(observer.name, [observer.held EXCEPT !.status = Observed(observer.held)])
    /\ ObserverFinish(FALSE)
    /\ UNCHANGED <<queue, federator, budget>>

ReportMember ==
    /\ observer # ObserverIdle
    /\ LET status  == Observed(observer.held)
           changed == MemberChanged(observer.held.status, status)
       IN /\ IF changed /\ ~observer.stale
             THEN StoreMember(observer.name, [observer.held EXCEPT !.status = status])
             ELSE UNCHANGED objects
          /\ ObserverFinish(changed /\ observer.stale)
    /\ UNCHANGED <<queue, federator, budget>>

--------------------------------------------------------------------------------
(* The Federation controller.                                                   *)

\* Fault: errors are swallowed.
FederatorFinish_NoRetry(retry) == federator' = FederatorIdle /\ UNCHANGED retries

FederatorFinish(retry) ==
    /\ federator' = FederatorIdle
    /\ retries' = IF retry THEN retries \cup {federator.name} ELSE retries

\* Fault: a Federation that is gone is reconciled all the same.
BeginFederation_Gone(f) ==
    /\ federator = FederatorIdle /\ f \in queue
    /\ queue' = queue \ {f}
    /\ federator' = [pc |-> "list", name |-> f, held |-> cache.federations[f],
                     stale |-> f \in lag, listed |-> <<>>, todo |-> {}]
    /\ UNCHANGED <<objects, retries, observer, budget>>

BeginFederation(f) ==
    /\ federator = FederatorIdle /\ f \in queue
    /\ queue' = queue \ {f}
    /\ federator' = IF cache.federations[f] = None THEN FederatorIdle
                    ELSE [pc |-> "list", name |-> f, held |-> cache.federations[f],
                          stale |-> f \in lag, listed |-> <<>>, todo |-> {}]
    /\ UNCHANGED <<objects, retries, observer, budget>>

FederatorStep(step) == federator.pc = step /\ UNCHANGED <<queue, observer, budget>>

\* The entries of status.members for some members, in the order listed.
Entries(order) ==
    [i \in DOMAIN order |->
        [name |-> order[i], ready |-> cache.members[order[i]].status.ready = "Observed"]]

\* Fault: a selector that does not parse selects nobody.
ListSelected_IgnoresInvalid ==
    /\ FederatorStep("list")
    /\ LET spec     == federator.held.spec
           selected == {m \in Members : /\ cache.members[m] # None
                                        /\ SelectorMatches(spec.memberSelector,
                                                           cache.members[m].labels)}
       IN \E order \in SetToSeqs(selected) :
            federator' = [federator EXCEPT !.pc = "get", !.listed = Entries(order),
                                           !.todo = spec.members \ selected]
    /\ UNCHANGED <<objects, retries>>

\* resolveMembers, the selector: an invalid one fails the reconcile, and the cache
\* lists the members a valid one selects in any order.
ListSelected ==
    /\ FederatorStep("list")
    /\ UNCHANGED objects
    /\ LET spec     == federator.held.spec
           selected == {m \in Members : /\ cache.members[m] # None
                                        /\ SelectorMatches(spec.memberSelector,
                                                           cache.members[m].labels)}
       IN \/ spec.memberSelector = InvalidSelector /\ FederatorFinish(TRUE)
          \/ /\ spec.memberSelector # InvalidSelector
             /\ \E order \in SetToSeqs(selected) :
                    federator' = [federator EXCEPT !.pc = "get", !.listed = Entries(order),
                                                   !.todo = spec.members \ selected]
             /\ UNCHANGED retries

\* resolveMembers, the names that are not listed yet, one Get after the other; one
\* that does not exist is skipped.
GetNamed(m) ==
    /\ FederatorStep("get") /\ m \in federator.todo
    /\ federator' = [federator EXCEPT
            !.todo = @ \ {m},
            !.listed = IF cache.members[m] = None THEN @ ELSE @ \o Entries(<<m>>)]
    /\ UNCHANGED <<objects, retries>>

\* reconcileStatus.
Summary(federation, listed) ==
    LET unready == {i \in DOMAIN listed : ~listed[i].ready}
    IN [observedGeneration |-> federation.generation,
        members     |-> listed,
        ready       |-> IF listed = <<>> THEN "NoMembers"
                        ELSE IF unready = {} THEN "AllMembersReady" ELSE "MembersNotReady",
        degraded    |-> unready # {},
        notEnforced |-> federation.spec.defaultPolicy]

\* As in MemberChanged, but Degraded and FieldsNotEnforced also come and go.
SummaryChanged(old, new) ==
    \/ old.observedGeneration # new.observedGeneration
    \/ old.members # new.members
    \/ old.ready = "Absent"
    \/ old.degraded # new.degraded
    \/ old.notEnforced # new.notEnforced

ReportFederation ==
    /\ FederatorStep("get") /\ federator.todo = {}
    /\ LET status  == Summary(federator.held, federator.listed)
           changed == SummaryChanged(federator.held.status, status)
       IN /\ IF changed /\ ~federator.stale
             THEN StoreFederation(federator.name, [federator.held EXCEPT !.status = status])
             ELSE UNCHANGED objects
          /\ FederatorFinish(changed /\ federator.stale)

Reconcile ==
    \/ \E m \in Members : BeginMember(m) \/ GetNamed(m)
    \/ ReportMember
    \/ \E f \in Federations : BeginFederation(f)
    \/ ListSelected \/ ReportFederation

--------------------------------------------------------------------------------
(* Everyone else: GitOps, the API server's failures, the end of the process.    *)

\* A step the run bounds; a run may rule its kind out.
Disturb(kind) ==
    /\ kind \in Disturbances
    /\ budget > 0
    /\ budget' = budget - 1

\* A write by somebody else overtakes the copy a reconcile of that name holds.
Overtake(n) ==
    /\ federator' = IF federator.name = n THEN [federator EXCEPT !.stale = TRUE] ELSE federator
    /\ observer' = IF observer.name = n THEN [observer EXCEPT !.stale = TRUE] ELSE observer
    /\ UNCHANGED <<queue, retries>>

CreateFederation(f, spec) ==
    /\ server.federations[f] = None
    /\ Disturb("federation")
    /\ StoreFederation(f, NewFederation(spec)) /\ Overtake(f)

EditFederation(f, spec) ==
    /\ server.federations[f] # None /\ server.federations[f].spec # spec
    /\ Disturb("federation")
    /\ StoreFederation(f, [server.federations[f] EXCEPT !.spec = spec, !.generation = @ + 1])
    /\ Overtake(f)

DeleteFederation(f) ==
    /\ server.federations[f] # None
    /\ Disturb("federation")
    /\ StoreFederation(f, None) /\ Overtake(f)

\* The API server admits no spec that lacks what validateClusterMemberSpec asks for;
\* one that was stored before it did stays as it is until it is edited.
CreateMember(m, labels) ==
    /\ server.members[m] = None
    /\ Disturb("member")
    /\ StoreMember(m, NewMember(labels, TRUE)) /\ Overtake(m)

EditMember(m) ==
    /\ server.members[m] # None
    /\ Disturb("member")
    /\ StoreMember(m, [server.members[m] EXCEPT !.valid = TRUE, !.generation = @ + 1])
    /\ Overtake(m)

DeleteMember(m) ==
    /\ server.members[m] # None
    /\ Disturb("member")
    /\ StoreMember(m, None) /\ Overtake(m)

\* Labels are metadata: the generation stays.
RelabelMember(m, labels) ==
    /\ server.members[m] # None /\ server.members[m].labels # labels
    /\ Disturb("label")
    /\ StoreMember(m, [server.members[m] EXCEPT !.labels = labels]) /\ Overtake(m)

\* An API call of a reconcile fails for reasons outside it.
ApiCallFails ==
    /\ Disturb("error")
    /\ \/ federator # FederatorIdle /\ FederatorFinish(TRUE) /\ UNCHANGED observer
       \/ observer # ObserverIdle /\ ObserverFinish(TRUE) /\ UNCHANGED federator
    /\ UNCHANGED <<objects, queue>>

\* The process ends and another takes over: queues, retries and reconciles are
\* lost, and the first lists enqueue what exists.
Restart ==
    /\ Disturb("restart")
    /\ cache' = server /\ lag' = {}
    /\ queue' = Existing(server) /\ retries' = {}
    /\ federator' = FederatorIdle /\ observer' = ObserverIdle
    /\ UNCHANGED server

Environment ==
    \/ \E f \in Federations :
            \/ \E spec \in FederationSpecs : CreateFederation(f, spec) \/ EditFederation(f, spec)
            \/ DeleteFederation(f)
    \/ \E m \in Members :
            \/ \E labels \in Labels : CreateMember(m, labels) \/ RelabelMember(m, labels)
            \/ EditMember(m) \/ DeleteMember(m)
    \/ ApiCallFails
    \/ Restart

Next ==
    \/ Reconcile
    \/ \E f \in Federations : SyncFederation(f)
    \/ \E m \in Members : SyncMember(m)
    \/ \E n \in Federations \cup Members : Retry(n)
    \/ Environment

Spec == Init /\ [][Next]_vars

\* The two workers and the timers run, watch events arrive, and the work queues are
\* first in, first out: a queued name is taken however many others are.
Fairness ==
    /\ WF_vars(ReportMember)
    /\ WF_vars(ListSelected) /\ WF_vars(\E m \in Members : GetNamed(m)) /\ WF_vars(ReportFederation)
    /\ \A f \in Federations : SF_vars(BeginFederation(f)) /\ WF_vars(SyncFederation(f))
    /\ \A m \in Members : SF_vars(BeginMember(m)) /\ WF_vars(SyncMember(m))
    /\ \A n \in Federations \cup Members : WF_vars(Retry(n))

FairSpec == Spec /\ Fairness

================================================================================
