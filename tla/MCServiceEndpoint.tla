--------------------------- MODULE MCServiceEndpoint ---------------------------
(* Small instances of ServiceEndpointController: an operator on m1.             *)
EXTENDS ServiceEndpointProperties

CONSTANTS m1, m2, f1, l1, e1, e2, w1, w2

ActiveActive(w)     == [workloadRef |-> w, mode |-> "ActiveActive", primary |-> NoMember]
ActivePassive(w, m) == [workloadRef |-> w, mode |-> "ActivePassive", primary |-> m]

\* Every way to share one Service.
ModeSpecs == {ActiveActive(w1), ActivePassive(w1, m1), ActivePassive(w1, m2)}

\* Endpoints that move from one Workload to another.
MovingSpecs == {ActiveActive(w1), ActivePassive(w2, m2)}

Infra(federation, labels) ==
    [federations |-> [f \in {f1} |-> federation],
     members     |-> [m \in {m1, m2} |-> IF m = m2 THEN labels ELSE l1]]

ByName(members) == [members |-> members, memberSelector |-> NoSelector]

Joined == {Infra(ByName({m1, m2}), l1)}

\* m2 is a member, is not one, does not exist; the Federation is missing or broken.
AllInfras ==
    Joined \cup {Infra(ByName({m1}), l1), Infra(ByName({m2}), None), Infra(None, l1),
                 Infra([members |-> {}, memberSelector |-> InvalidSelector], l1)}

================================================================================
