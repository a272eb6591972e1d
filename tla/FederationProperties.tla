-------------------------- MODULE FederationProperties -------------------------
(* What the Federation and ClusterMember controllers must get right, and what   *)
(* the three controllers that decide on membership must agree on.               *)
EXTENDS FederationController

\* Nothing is left to do for a name until somebody changes something.
Quiet(n) == n \notin queue \cup retries \cup lag /\ federator.name # n /\ observer.name # n

\* The status a Federation should have for what the API server has now, whatever the
\* order of its members.
Reports(f) ==
    LET federation == server.federations[f]
        status     == federation.status
        resolved   == ResolveMembers(InfraOf(server), f)
    IN /\ status = Summary(federation, status.members)
       /\ ToSet(status.members) =
            {[name |-> m, ready |-> server.members[m].status.ready = "Observed"] : m \in resolved}
       /\ Len(status.members) = Cardinality(resolved)

\* A Federation at rest reports the members that exist now with the readiness they
\* report now, and a ClusterMember at rest reports on its own spec: no
\* order of label changes, member deletions, stale lists, status writes of
\* the other controller and restarts loses the event that should have
\* brought the reconcile back. A Federation with an invalid selector never rests.
SettledMeansReported ==
    /\ \A f \in Federations :
        (server.federations[f] # None /\ Quiet(f) /\ lag \cap Members = {})
            => MembersResolvable(InfraOf(server), f) /\ Reports(f)
    /\ \A m \in Members :
        (server.members[m] # None /\ Quiet(m))
            => server.members[m].status = Observed(server.members[m])

\* A status that claims the present generation was resolved with the present spec,
\* though the reconcile that wrote it read spec and members in several steps
\* and other edits came in between: its selector is one that parses,
\* its conditions are those of its own list, and no member is listed twice.
StatusMatchesSpec ==
    \A f \in Federations :
        LET federation == server.federations[f]
        IN (federation # None /\ federation.status.observedGeneration = federation.generation) =>
            /\ MembersResolvable(InfraOf(server), f)
            /\ federation.status = Summary(federation, federation.status.members)
            /\ \A i, j \in DOMAIN federation.status.members :
                    federation.status.members[i].name = federation.status.members[j].name => i = j
            /\ federation.spec.memberSelector = NoSelector =>
                    {e.name : e \in ToSet(federation.status.members)} \subseteq federation.spec.members

\* Neither controller's status write undoes an edit, a label change or a deletion,
\* or lands on a recreated object: specs, labels and generations stay as they
\* are in every step of a reconcile.
ReconcileKeepsTheSpec ==
    [][Reconcile =>
        /\ \A f \in Federations : server'.federations[f] # server.federations[f] =>
            /\ server.federations[f] # None
            /\ server'.federations[f] = [server.federations[f] EXCEPT
                                            !.status = server'.federations[f].status]
        /\ \A m \in Members : server'.members[m] # server.members[m] =>
            /\ server.members[m] # None
            /\ server'.members[m] = [server.members[m] EXCEPT
                                        !.status = server'.members[m].status]]_vars

\* When GitOps, failures and restarts have ended, every Federation that can be
\* resolved comes to report its members and stays with it, however often the
\* members' own statuses still change and whatever another Federation's
\* invalid selector does to the work queue.
FederationConverges ==
    <>[](\A f \in Federations :
            (server.federations[f] # None /\ MembersResolvable(InfraOf(server), f)) => Reports(f))

\* The members a Federation's status lists are the existing clusters whose own
\* Workload operator takes itself for a member: the union of names and selector
\* written in resolveMembers and the sequence of early returns written in
\* isFederationMember are the same set whenever both controllers get an answer.
StatusListsTheAdmittedMembers ==
    \A f \in Federations, m \in Members :
        LET infra == InfraOf(server)
        IN (infra.federations[f] # None /\ infra.members[m] # None /\ MembersResolvable(infra, f))
            => (m \in ResolveMembers(infra, f) <=> IsFederationMember(infra, m, f) = "Member")

\* A cluster accepted as the primary of an ActivePassive endpoint is one whose own
\* operator admits Workloads of that Federation, and every existing cluster its own
\* operator admits can be made primary: a routing decision taken by one
\* cluster's validatePrimaryMember is never about a cluster that does not take part.
PrimaryIsAdmitted ==
    \A f \in Federations, m \in Members :
        LET infra == InfraOf(server)
        IN ValidatePrimaryMember(infra, m, f) = "Accepted"
            <=> infra.members[m] # None /\ IsFederationMember(infra, m, f) = "Member"

================================================================================
