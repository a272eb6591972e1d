----------------------------- MODULE WorkloadPromise ---------------------------
(***************************************************************************)
(* What an operator promises about one Workload name: nothing of caches,   *)
(* queues, retries, conflicts, preflights or restarts, only what a user    *)
(* sees of the Workload, its status and the Deployment of its name.        *)
(*                                                                         *)
(* A declared version is run, and then reported. Work on an earlier        *)
(* version may still come through for a while, even of a Workload that is  *)
(* gone; once a version is reported it can not, so what is reported stays  *)
(* true until somebody else changes it.                                    *)
(***************************************************************************)
EXTENDS Naturals

CONSTANTS
    Templates,   \* what a version of a Workload asks to be run
    RefusedTemplates,   \* those of them the API server will not have
    Foreign,     \* what somebody else makes of the Deployment
    Owners,      \* who can control a Deployment: uids of Workloads, and others
    Other,       \* a controller that is not a Workload of this name
    None

VARIABLES
    declared,    \* the Workload: its uid, its generation, and what it asks for
    reported,    \* the generation its status is about, and whether it was applied
    running,     \* the Deployment
    lastUid

vars == <<declared, reported, running, lastUid>>

\* The status is about what is declared now.
Current == declared # None /\ reported # None /\ reported.generation = declared.generation

RunsDeclared == running = [owner |-> declared.uid, template |-> declared.asks]

Init == declared = None /\ reported = None /\ running = None /\ lastUid = 0

--------------------------------------------------------------------------------
(* Users.                                                                       *)

Declare(asks) ==
    /\ declared = None
    /\ lastUid' = lastUid + 1
    /\ declared' = [uid |-> lastUid', generation |-> 1, asks |-> asks]
    /\ UNCHANGED <<reported, running>>

Revise(asks) ==
    /\ declared # None
    /\ declared' = [uid |-> declared.uid, generation |-> declared.generation + 1, asks |-> asks]
    /\ UNCHANGED <<reported, running, lastUid>>

Withdraw ==
    /\ declared # None
    /\ declared' = None /\ reported' = None
    /\ UNCHANGED <<running, lastUid>>

\* Somebody takes the Deployment away or makes it something else. (The garbage
\* collector is one of them.)
Meddle ==
    /\ running' \in {None} \cup [owner : Owners, template : {Foreign}]
    /\ UNCHANGED <<declared, reported, lastUid>>

--------------------------------------------------------------------------------
(* The operator.                                                                *)

\* It runs a version of this or an earlier Workload of the name, but when the present
\* one is reported only that; and it never takes what another controller has.
Run(uid, asks) ==
    /\ Current => uid = declared.uid /\ asks = declared.asks
    /\ running # None => running.owner # Other
    /\ running' = [owner |-> uid, template |-> asks]
    /\ UNCHANGED <<declared, reported, lastUid>>

\* It says of the present version that it cannot be run, or that it was: then it is
\* what is there, unless somebody else has changed it since.
Report(applied) ==
    /\ declared # None
    /\ applied => RunsDeclared \/ running = None \/ running.template = Foreign
    /\ reported' = [generation |-> declared.generation, applied |-> applied]
    /\ UNCHANGED <<declared, running, lastUid>>

Next ==
    \/ \E asks \in Templates : Declare(asks) \/ Revise(asks)
    \/ Withdraw
    \/ Meddle
    \/ \E uid \in 1 .. lastUid, asks \in Templates : Run(uid, asks)
    \/ \E applied \in BOOLEAN : Report(applied)

Spec == Init /\ [][Next]_vars

\* A version comes to be reported, or to be followed by another one, unless what it
\* asks for is refused: then nothing is promised.
Accepted == declared # None /\ declared.asks \notin RefusedTemplates

EveryVersionIsReported == Accepted ~> (~Accepted \/ Current)

================================================================================
