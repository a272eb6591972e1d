------------------------------ MODULE MCFederation -----------------------------
(* A small instance of FederationController: two clusters and a Federation that *)
(* names one and selects by label, names both, or has a bad selector.           *)
EXTENDS FederationProperties

CONSTANTS m1, m2, f1, l1, l2

NamedAndSelected ==
    [members |-> {m2}, memberSelector |-> {l1}, defaultPolicy |-> FALSE]
BothNamed == [members |-> {m1, m2}, memberSelector |-> NoSelector, defaultPolicy |-> TRUE]
BadSelector ==
    [members |-> {m1}, memberSelector |-> InvalidSelector, defaultPolicy |-> FALSE]

SomeSpecs == {NamedAndSelected, BothNamed, BadSelector}

\* One cluster is there from the start, stored before its spec was validated; the
\* other one is still to come.
SecondMissing ==
    {[federations |-> [f \in Federations |-> NamedAndSelected],
      members     |-> [m \in Members |->
                        IF m = m1 THEN [labels |-> l1, valid |-> FALSE] ELSE None]]}

================================================================================
