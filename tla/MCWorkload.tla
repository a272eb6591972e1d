------------------------------- MODULE MCWorkload ------------------------------
(* Small instances of WorkloadController.                                       *)
EXTENDS WorkloadProperties

CONSTANTS m1, m2, f1, l1, l2, s1, c1, i1, i2, i3, p1, p2, p3

Plain == [federationRef |-> None, targetPolicy |-> None, imagePullSecrets |-> <<>>,
          envFrom |-> <<>>, image |-> i1, ports |-> p1]

\* Ports that no Service can have, in a Deployment that can be made; and a container
\* no Deployment can have.
BadPorts == [Plain EXCEPT !.image = i2, !.ports = p3]
BadImage == [Plain EXCEPT !.image = i3]

\* Edits of the rendered part: the image, no ports at all, ports that are refused.
RenderedSpecs ==
    {Plain, [Plain EXCEPT !.image = i2], [Plain EXCEPT !.ports = NoPorts], BadPorts}

BySelector(select) == [members |-> {}, memberSelector |-> select]

\* Edits of everything the preflights read.
InFederation  == [Plain EXCEPT !.federationRef = f1]
PreflightSpecs ==
    {InFederation,
     [InFederation EXCEPT !.imagePullSecrets = <<s1>>, !.envFrom = <<c1>>, !.image = i2],
     [InFederation EXCEPT !.targetPolicy = [members |-> {m2}, memberSelector |-> NoSelector],
                          !.ports = p2],
     [Plain EXCEPT !.targetPolicy = BySelector({l1}),
                   !.ports = NoPorts],
     BadPorts, BadImage}

\* For the Federation's members, the same with a ConfigMap to wait for, and for the
\* other members without ports.
LifecycleSpecs ==
    {InFederation, [InFederation EXCEPT !.envFrom = <<c1>>, !.image = i2],
     [Plain EXCEPT !.targetPolicy = BySelector({l2}), !.ports = NoPorts]}

Infra(federation, labels) ==
    [federations |-> [f \in {f1} |-> federation],
     members     |-> [m \in {m1, m2} |-> IF m = m1 THEN labels ELSE l2]]

NoInfra == {Infra(None, None)}

\* No Federation, a selected and an unselected member, a selector that does not parse.
SomeInfras ==
    {Infra(None, l1), Infra(BySelector({l1}), l1), Infra(BySelector({l1}), l2),
     Infra(BySelector(InvalidSelector), l1)}

\* Self is a member of the Federation, or not.
TwoInfras == {Infra(BySelector({l1}), l1), Infra(BySelector({l1}), l2)}

================================================================================
