--------------------------- MODULE MCDatastoreBinding --------------------------
(* Small instances of DatastoreBindingController.                               *)
EXTENDS DatastoreBindingProperties

CONSTANTS b1, b2, s1, r1, r2

Spec1 == [workloadRef |-> TheWorkload, connectionRef |-> s1, engine |-> TRUE,
          replicationMode |-> r1]

\* An edit of what is injected; bindings nobody can serve.
ModeSpecs   == {Spec1, [Spec1 EXCEPT !.replicationMode = r2]}
LiveSpecs   == ModeSpecs \cup {[Spec1 EXCEPT !.workloadRef = OtherWorkload]}
EngineSpecs == {Spec1, [Spec1 EXCEPT !.engine = FALSE]}

Own(name, value) == [name |-> name, value |-> FromUser(value)]

\* The user's own variables, one of them under a name the binding "primary" manages,
\* and that one twice.
PlainEnv    == <<Own(<<"USER", None>>, "1")>>
CollidesEnv == <<Own(DatabaseUrl, "1"), Own(<<"USER", None>>, "2"), Own(DatabaseUrl, "2")>>
SomeEnvs    == {PlainEnv, CollidesEnv}
OneEnv      == {CollidesEnv}

\* Every binding is there already.
AllDelivered == {[bindings |-> [b \in Bindings |-> Spec1], env |-> CollidesEnv]}

================================================================================
