------------------------------- MODULE Placement -------------------------------
(***************************************************************************)
(* Which clusters a Workload is placed on.                                 *)
(*                                                                         *)
(* Every member cluster runs its own operator, and GitOps delivers the     *)
(* same Federations and ClusterMembers to all of them; each operator       *)
(* decides by itself, from those objects, whether a Workload is its own.   *)
(* Three controllers answer the same question with three separate pieces   *)
(* of code: the Workload controller (isFederationMember), the              *)
(* ServiceEndpoint controller (validatePrimaryMember) and the Federation   *)
(* controller (resolveMembers).                                            *)
(*                                                                         *)
(* A label selector is the set of the members' labels it matches: {} is a  *)
(* selector no member satisfies, and Labels is the empty selector of       *)
(* Kubernetes, which matches every member.                                 *)
(***************************************************************************)

CONSTANTS
    Members,          \* the names of ClusterMembers, one per cluster
    Federations,      \* the names of Federations
    Labels,           \* what a member's metadata.labels can be
    None,             \* an object that does not exist, a field that is not set
    NoSelector,       \* memberSelector is nil
    InvalidSelector   \* LabelSelectorAsSelector returns an error

ASSUME SelectorAssumption == NoSelector # InvalidSelector

ASSUME NoneAssumption == None \notin Members \cup Federations \cup Labels

Selectors == {NoSelector, InvalidSelector} \cup SUBSET Labels

\* FederationSpec and WorkloadTargetPolicy have the same two placement fields.
Federation   == [members : SUBSET Members, memberSelector : Selectors]
TargetPolicy == [members : SUBSET Members, memberSelector : Selectors]

\* The cluster-scoped objects one operator reads: Get answers None (NotFound)
\* or the object; of a ClusterMember only its labels matter here.
Infrastructure ==
    [federations : [Federations -> Federation \cup {None}],
     members     : [Members -> Labels \cup {None}]]

\* selector.Matches on the labels of a member, the selector being valid.
SelectorMatches(selector, labels) ==
    /\ selector \notin {NoSelector, InvalidSelector}
    /\ labels \in selector

--------------------------------------------------------------------------------
(* The Workload controller.                                                     *)

\* Fault: the selector is not consulted when members are named.
IsFederationMember_SelectorOrNames(infra, self, federationRef) ==
    LET federation == infra.federations[federationRef]
    IN IF federation = None                           THEN "FederationNotFound"
       ELSE IF self \in federation.members            THEN "Member"
       ELSE IF federation.members # {} \/ infra.members[self] = None
                                                      THEN "NotAFederationMember"
       ELSE IF SelectorMatches(federation.memberSelector, infra.members[self])
                                                      THEN "Member"
       ELSE "NotAFederationMember"

\* Is the cluster `self` a member of the Federation the Workload refers to?
\* Names in spec.members win without looking at the ClusterMember; with a
\* selector the ClusterMember is read before the selector is parsed.
IsFederationMember(infra, self, federationRef) ==
    IF federationRef = None THEN "Member"
    ELSE LET federation == infra.federations[federationRef]
             labels     == infra.members[self]
         IN IF federation = None                             THEN "FederationNotFound"
            ELSE IF self \in federation.members              THEN "Member"
            ELSE IF federation.memberSelector = NoSelector   THEN "NotAFederationMember"
            ELSE IF labels = None                            THEN "ClusterMemberNotFound"
            ELSE IF federation.memberSelector = InvalidSelector
                                                             THEN "InvalidFederationSelector"
            ELSE IF SelectorMatches(federation.memberSelector, labels)
                                                             THEN "Member"
            ELSE "NotAFederationMember"

\* Does the Workload's own targetPolicy select this cluster? A non-empty list of
\* names decides alone; here the selector is parsed before the member is read.
IsTargetPolicyMatch(infra, self, policy) ==
    IF policy = None THEN "Targeted"
    ELSE IF policy.members # {}
         THEN IF self \in policy.members THEN "Targeted" ELSE "ExcludedByTargetPolicy"
    ELSE IF policy.memberSelector = NoSelector      THEN "Targeted"
    ELSE IF policy.memberSelector = InvalidSelector THEN "InvalidTargetPolicy"
    ELSE IF infra.members[self] = None              THEN "ClusterMemberNotFound"
    ELSE IF SelectorMatches(policy.memberSelector, infra.members[self]) THEN "Targeted"
    ELSE "ExcludedByTargetPolicy"

\* Reconcile's placement preflight: "Placed", or the reason why not. An operator
\* started without --cluster-member-name (self = None) skips it.
PlacementVerdict(infra, self, federationRef, policy) ==
    IF self = None THEN "Placed"
    ELSE LET membership == IsFederationMember(infra, self, federationRef)
             targeting  == IsTargetPolicyMatch(infra, self, policy)
         IN IF membership # "Member"      THEN membership
            ELSE IF targeting # "Targeted" THEN targeting
            ELSE "Placed"

\* The reasons reported as a Pending target; every other one is Degraded.
PendingReasons == {"NotAFederationMember", "ExcludedByTargetPolicy"}
InvalidReferenceReasons ==
    {"FederationNotFound", "ClusterMemberNotFound", "InvalidFederationSelector",
     "InvalidTargetPolicy"}

--------------------------------------------------------------------------------
(* The ServiceEndpoint controller.                                              *)

\* Fault: the selector is forgotten.
ValidatePrimaryMember_NamedOnly(infra, primary, federationRef) ==
    LET federation == infra.federations[federationRef]
    IN IF infra.members[primary] = None       THEN "PrimaryMemberNotFound"
       ELSE IF federation = None              THEN "FederationNotFound"
       ELSE IF primary \in federation.members THEN "Accepted"
       ELSE "PrimaryMemberNotInFederation"

\* May `primary` be the active side of an ActivePassive endpoint of a Workload
\* of this Federation? Here the ClusterMember is always required.
ValidatePrimaryMember(infra, primary, federationRef) ==
    IF infra.members[primary] = None THEN "PrimaryMemberNotFound"
    ELSE IF federationRef = None     THEN "PrimaryMemberNotInFederation"
    ELSE LET federation == infra.federations[federationRef]
         IN IF federation = None                 THEN "FederationNotFound"
            ELSE IF primary \in federation.members THEN "Accepted"
            ELSE IF federation.memberSelector = InvalidSelector
                                                 THEN "InvalidFederationSelector"
            ELSE IF SelectorMatches(federation.memberSelector, infra.members[primary])
                                                 THEN "Accepted"
            ELSE "PrimaryMemberNotInFederation"

--------------------------------------------------------------------------------
(* The Federation controller.                                                   *)

\* An invalid selector fails the whole reconcile, named members included.
MembersResolvable(infra, federation) ==
    infra.federations[federation].memberSelector # InvalidSelector

\* The members the Federation's status lists: the union of the selected and the
\* named ones that exist (a named member that does not exist is skipped).
ResolveMembers(infra, federation) ==
    LET spec == infra.federations[federation]
    IN {m \in Members : /\ infra.members[m] # None
                        /\ \/ m \in spec.members
                           \/ SelectorMatches(spec.memberSelector, infra.members[m])}

================================================================================
