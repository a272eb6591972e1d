-------------------------------- MODULE EnvVars --------------------------------
(***************************************************************************)
(* The environment of the "app" container, a list of variables that two    *)
(* controllers write: the Workload controller renders the user's variables *)
(* into it, the DatastoreBinding controller injects its own. An annotation *)
(* of the Deployment names the variables that bindings manage.             *)
(*                                                                         *)
(* A variable is a record with a name and a value; a list may hold a name  *)
(* more than once, and then the container gets the last one.               *)
(***************************************************************************)
EXTENDS Naturals, Sequences, FiniteSets

NamesIn(env) == {env[i].name : i \in DOMAIN env}

\* The position of a name that counts.
IsLast(env, i) == \A j \in DOMAIN env : env[j].name = env[i].name => j <= i

\* The variables a container runs with.
Effective(env) == {env[i] : i \in {k \in DOMAIN env : IsLast(env, k)}}

\* The entries of a list at some of its positions, in their order: a loop that appends
\* what it keeps. (SelectSeq, by positions, which is what proofs can reason about.)
Rank(positions, i) == Cardinality({j \in positions : j <= i})

EntriesAt(env, positions) ==
    [k \in 1 .. Cardinality(positions) |->
        env[CHOOSE i \in positions : Rank(positions, i) = k]]

Named(env, names)   == EntriesAt(env, {i \in DOMAIN env : env[i].name \in names})
Without(env, names) == EntriesAt(env, {i \in DOMAIN env : env[i].name \notin names})

\* Fault: what is there already wins.
MergeEnvVars_KeepsExisting(existing, toInject) ==
    existing \o Without(toInject, NamesIn(existing))

\* mergeEnvVars: the last entry of a name in `existing` gives way to the last one to
\* inject; the names that were not there follow, as often as they are injected.
MergeEnvVars(existing, toInject) ==
    LET winner(name) == CHOOSE v \in Effective(toInject) : v.name = name
    IN [i \in DOMAIN existing |->
            IF IsLast(existing, i) /\ existing[i].name \in NamesIn(toInject)
            THEN winner(existing[i].name) ELSE existing[i]]
       \o Without(toInject, NamesIn(existing))

RemoveEnvVars(existing, names) == Without(existing, names)

\* preserveDatastoreManagedEnvVars: the managed variables of the Deployment as it is
\* go into the list the Workload's spec asks for.
PreserveManaged(desired, existing, managed) ==
    IF managed = {} THEN desired
    ELSE MergeEnvVars(desired, Named(existing, managed))

================================================================================
