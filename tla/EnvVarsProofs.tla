----------------------------- MODULE EnvVarsProofs -----------------------------
(***************************************************************************)
(* What merging and removing environment variables do to the variables     *)
(* that are in effect, for lists of any length that may hold a name        *)
(* several times.                                                          *)
(***************************************************************************)
EXTENDS EnvVars, FiniteSetTheorems, TLAPS

--------------------------------------------------------------------------------
(* The entries at some positions of a list.                                     *)

\* Ranks number the positions, in their order and without gaps.
LEMMA RanksNumber ==
    ASSUME NEW n \in Nat, NEW K \in SUBSET (1 .. n)
    PROVE  /\ Cardinality(K) \in Nat
           /\ \A i \in K : Rank(K, i) \in 1 .. Cardinality(K)
           /\ \A i \in K, j \in K : i < j => Rank(K, i) < Rank(K, j)
           /\ \A k \in 1 .. Cardinality(K) : \E i \in K : Rank(K, i) = k
           /\ \A i \in K : Rank(K, i) = Cardinality(K) => \A j \in K : j <= i
<1> DEFINE UpTo(i) == {j \in K : j <= i}
<1>1. IsFiniteSet(1 .. n)
  BY FS_Interval
<1>2. IsFiniteSet(K) /\ Cardinality(K) \in Nat
  BY <1>1, FS_Subset, FS_CardinalityType
<1>3. ASSUME NEW i \in K
      PROVE  /\ IsFiniteSet(UpTo(i)) /\ Cardinality(UpTo(i)) \in Nat
             /\ 0 < Cardinality(UpTo(i)) /\ Cardinality(UpTo(i)) <= Cardinality(K)
             /\ Cardinality(UpTo(i)) = Cardinality(K) => UpTo(i) = K
  <2>1. UpTo(i) \in SUBSET K /\ i \in UpTo(i)
    OBVIOUS
  <2> HIDE DEF UpTo
  <2>2. /\ IsFiniteSet(UpTo(i)) /\ Cardinality(UpTo(i)) <= Cardinality(K)
        /\ Cardinality(K) = Cardinality(UpTo(i)) => K = UpTo(i)
    BY <1>2, <2>1, FS_Subset
  <2>3. Cardinality(UpTo(i)) \in Nat
    BY <2>2, FS_CardinalityType
  <2>4. Cardinality(UpTo(i)) # 0
    BY <2>1, <2>2, FS_EmptySet
  <2> QED BY <2>2, <2>3, <2>4
<1>4. ASSUME NEW i \in K, NEW j \in K, i < j
      PROVE  Cardinality(UpTo(i)) < Cardinality(UpTo(j))
  <2>1. UpTo(i) \in SUBSET UpTo(j) /\ j \in UpTo(j) /\ j \notin UpTo(i)
    <3>1. \A k \in K : k \in Nat
      OBVIOUS
    <3>2. \A k \in K : k <= i => k <= j
      BY <1>4, <3>1
    <3>3. UpTo(i) \subseteq UpTo(j)
      BY <3>2
    <3>4. j <= j /\ ~(j <= i)
      BY <1>4, <3>1
    <3> QED BY <3>3, <3>4
  <2> HIDE DEF UpTo
  <2>2. /\ Cardinality(UpTo(i)) <= Cardinality(UpTo(j))
        /\ Cardinality(UpTo(j)) = Cardinality(UpTo(i)) => UpTo(j) = UpTo(i)
    BY <1>3, <2>1, FS_Subset
  <2> QED BY <1>3, <2>1, <2>2
<1> DEFINE r == [i \in K |-> Cardinality(UpTo(i))]
<1>5. r \in Surjection(K, 1 .. Cardinality(K))
  <2>1. r \in [K -> 1 .. Cardinality(K)]
    BY <1>2, <1>3
  <2>2. \A i, j \in K : r[i] = r[j] => i = j
    <3>1. \A i \in K : r[i] \in Nat
      BY <1>3
    <3>2. \A i, j \in K : i < j => r[i] < r[j]
      BY <1>4
    <3> HIDE DEF r
    <3> QED BY <3>1, <3>2
  <2> HIDE DEF r
  <2>3. r \in Injection(K, 1 .. Cardinality(K))
    BY <2>1, <2>2 DEF Injection, IsInjective
  <2>4. IsFiniteSet(1 .. Cardinality(K)) /\ Cardinality(1 .. Cardinality(K)) = Cardinality(K)
    BY <1>2, FS_Interval
  <2> QED BY <2>3, <2>4, FS_Injection
<1>6. \A k \in 1 .. Cardinality(K) : \E i \in K : Cardinality(UpTo(i)) = k
  BY <1>5 DEF Surjection
<1> QED BY <1>2, <1>3, <1>4, <1>6 DEF Rank

\* A name that is in a list has a position that counts.
LEMMA NameHasLast ==
    ASSUME NEW S, NEW env \in Seq(S), NEW i \in DOMAIN env
    PROVE  \E j \in DOMAIN env : env[j].name = env[i].name /\ IsLast(env, j)
<1> DEFINE K == {j \in DOMAIN env : env[j].name = env[i].name}
<1>1. Len(env) \in Nat /\ DOMAIN env = 1 .. Len(env)
  OBVIOUS
<1>2. K \in SUBSET (1 .. Len(env)) /\ i \in K
  BY <1>1
<1>3. \A j \in K : (\A k \in K : k <= j) => IsLast(env, j)
  BY DEF IsLast
<1>4. \A j \in K : j \in DOMAIN env /\ env[j].name = env[i].name
  OBVIOUS
<1> HIDE DEF K
<1>5. Cardinality(K) \in 1 .. Cardinality(K)
  <2>1. Cardinality(K) \in Nat /\ Rank(K, i) \in 1 .. Cardinality(K)
    BY <1>1, <1>2, RanksNumber
  <2> QED BY <2>1
<1>6. PICK j \in K : \A k \in K : k <= j
  BY <1>1, <1>2, <1>5, RanksNumber
<1> QED BY <1>3, <1>4, <1>6

\* EntriesAt goes through the positions in their order.
LEMMA EntriesAtPicks ==
    ASSUME NEW S, NEW env \in Seq(S), NEW K \in SUBSET DOMAIN env
    PROVE  /\ EntriesAt(env, K) \in Seq(S)
           /\ \E pick \in [DOMAIN EntriesAt(env, K) -> K] :
                /\ \A k \in DOMAIN EntriesAt(env, K) : EntriesAt(env, K)[k] = env[pick[k]]
                /\ \A k, l \in DOMAIN EntriesAt(env, K) : k < l => pick[k] < pick[l]
                /\ \A i \in K : \E k \in DOMAIN EntriesAt(env, K) : pick[k] = i
<1>1. Len(env) \in Nat /\ DOMAIN env = 1 .. Len(env) /\ K \in SUBSET (1 .. Len(env))
  OBVIOUS
<1> DEFINE c == Cardinality(K)
           pick == [k \in 1 .. c |-> CHOOSE i \in K : Rank(K, i) = k]
<1>2. /\ c \in Nat
      /\ \A i \in K : Rank(K, i) \in 1 .. c
      /\ \A i \in K, j \in K : i < j => Rank(K, i) < Rank(K, j)
      /\ \A k \in 1 .. c : \E i \in K : Rank(K, i) = k
  BY <1>1, RanksNumber
<1>3. EntriesAt(env, K) = [k \in 1 .. c |-> env[pick[k]]]
  BY DEF EntriesAt
<1>4. \A k \in 1 .. c : pick[k] \in K /\ Rank(K, pick[k]) = k
  BY <1>2
<1> HIDE DEF c, pick
<1>5. DOMAIN EntriesAt(env, K) = 1 .. c
  BY <1>3
<1>6. EntriesAt(env, K) \in Seq(S)
  BY <1>1, <1>2, <1>3, <1>4
<1>7. pick \in [1 .. c -> K]
  BY <1>4 DEF pick
<1>8. ASSUME NEW k \in 1 .. c, NEW l \in 1 .. c, k < l PROVE pick[k] < pick[l]
  <2>1. pick[k] \in Nat /\ pick[l] \in Nat
    BY <1>1, <1>4
  <2>2. ~(pick[l] < pick[k]) /\ pick[k] # pick[l]
    BY <1>2, <1>4, <1>8
  <2> QED BY <2>1, <2>2
<1>9. ASSUME NEW i \in K PROVE \E k \in 1 .. c : pick[k] = i
  <2>1. Rank(K, i) \in 1 .. c
    BY <1>2
  <2> DEFINE j == pick[Rank(K, i)]
  <2>2. j \in K /\ Rank(K, j) = Rank(K, i)
    BY <1>4, <2>1
  <2> HIDE DEF j
  <2>3. j \in Nat /\ i \in Nat /\ ~(j < i) /\ ~(i < j)
    BY <1>1, <1>2, <2>2
  <2> QED BY <2>1, <2>3 DEF j
<1> QED BY <1>3, <1>5, <1>6, <1>7, <1>8, <1>9

--------------------------------------------------------------------------------
(* The variables in effect.                                                     *)

\* Entries taken or left together with all of their name are in effect as before.
LEMMA EffectiveEntries ==
    ASSUME NEW S, NEW env \in Seq(S), NEW K \in SUBSET DOMAIN env,
           \A i, j \in DOMAIN env : env[i].name = env[j].name => (i \in K <=> j \in K)
    PROVE  /\ Effective(EntriesAt(env, K)) = {env[i] : i \in {k \in K : IsLast(env, k)}}
           /\ NamesIn(EntriesAt(env, K)) = {env[i].name : i \in K}
<1> DEFINE e == EntriesAt(env, K)
<1>1. PICK pick \in [DOMAIN e -> K] :
            /\ \A k \in DOMAIN e : e[k] = env[pick[k]]
            /\ \A k, l \in DOMAIN e : k < l => pick[k] < pick[l]
            /\ \A i \in K : \E k \in DOMAIN e : pick[k] = i
  BY EntriesAtPicks
<1>2. e \in Seq(S)
  BY EntriesAtPicks
<1> HIDE DEF e
<1>3. /\ \A i \in DOMAIN env : i \in Nat
      /\ \A k \in DOMAIN e : k \in Nat
  BY <1>2
<1>4. \A k, l \in DOMAIN e : l <= k <=> pick[l] <= pick[k]
  BY <1>1, <1>3
<1>5. ASSUME NEW k \in DOMAIN e
      PROVE  IsLast(e, k) <=> IsLast(env, pick[k])
  <2>1. ASSUME IsLast(e, k), NEW j \in DOMAIN env, env[j].name = env[pick[k]].name
        PROVE  j <= pick[k]
    <3>1. j \in K
      BY <1>1, <2>1
    <3>2. PICK l \in DOMAIN e : pick[l] = j
      BY <1>1, <3>1
    <3>3. l <= k
      BY <1>1, <2>1, <3>2 DEF IsLast
    <3> QED BY <1>4, <3>2, <3>3
  <2>2. ASSUME IsLast(env, pick[k]), NEW l \in DOMAIN e, e[l].name = e[k].name
        PROVE  l <= k
    <3>1. pick[l] \in DOMAIN env /\ env[pick[l]].name = env[pick[k]].name
      BY <1>1, <2>2
    <3>2. pick[l] <= pick[k]
      BY <2>2, <3>1 DEF IsLast
    <3> QED BY <1>4, <3>2
  <2> QED BY <2>1, <2>2 DEF IsLast
<1>6. Effective(e) = {env[i] : i \in {k \in K : IsLast(env, k)}}
  <2>1. \A k \in DOMAIN e : IsLast(e, k) => e[k] = env[pick[k]] /\ pick[k] \in K /\ IsLast(env, pick[k])
    BY <1>1, <1>5
  <2>2. \A i \in K : IsLast(env, i) => \E k \in DOMAIN e : IsLast(e, k) /\ e[k] = env[i]
    BY <1>1, <1>5
  <2> QED BY <2>1, <2>2 DEF Effective
<1>7. NamesIn(e) = {env[i].name : i \in K}
  BY <1>1 DEF NamesIn
<1> QED BY <1>6, <1>7 DEF e

\* Of two lists in a row the second one wins.
LEMMA EffectiveConcat ==
    ASSUME NEW S, NEW a \in Seq(S), NEW b \in Seq(S)
    PROVE  /\ a \o b \in Seq(S)
           /\ Effective(a \o b) = {v \in Effective(a) : v.name \notin NamesIn(b)} \cup Effective(b)
<1> DEFINE c == a \o b
           n == Len(a)
           m == Len(b)
<1>1. /\ c \in Seq(S) /\ n \in Nat /\ m \in Nat
      /\ DOMAIN a = 1 .. n /\ DOMAIN b = 1 .. m /\ DOMAIN c = 1 .. n + m
      /\ \A i \in 1 .. n : c[i] = a[i]
      /\ \A i \in 1 .. m : c[n + i] = b[i]
      /\ \A i \in 1 .. n + m : i \in 1 .. n \/ \E j \in 1 .. m : i = n + j
  <2>1. \A i \in 1 .. n + m : i \in 1 .. n \/ (i - n \in 1 .. m /\ i = n + (i - n))
    OBVIOUS
  <2> QED BY <2>1
<1> HIDE DEF c, n, m
<1>2. ASSUME NEW i \in 1 .. n
      PROVE  IsLast(c, i) <=> (IsLast(a, i) /\ a[i].name \notin NamesIn(b))
  <2>1. ASSUME IsLast(c, i), NEW j \in 1 .. m, b[j].name = a[i].name PROVE FALSE
    <3>1. n + j \in DOMAIN c /\ c[n + j].name = c[i].name
      <4>1. n + j \in 1 .. n + m
        BY <1>1
      <4>2. c[n + j] = b[j] /\ c[i] = a[i]
        BY <1>1
      <4> QED BY <1>1, <2>1, <4>1, <4>2
    <3>2. n + j <= i
      BY <2>1, <3>1 DEF IsLast
    <3> QED BY <1>1, <3>2
  <2>2. ASSUME IsLast(c, i) PROVE IsLast(a, i)
    BY <1>1, <2>2 DEF IsLast
  <2>3. ASSUME IsLast(a, i), a[i].name \notin NamesIn(b), NEW j \in 1 .. n + m,
               c[j].name = c[i].name
        PROVE  j <= i
    <3>1. j \in 1 .. n
      BY <1>1, <2>3 DEF NamesIn
    <3> QED BY <1>1, <2>3, <3>1 DEF IsLast
  <2> QED BY <1>1, <2>1, <2>2, <2>3 DEF IsLast, NamesIn
<1>3. ASSUME NEW i \in 1 .. m
      PROVE  IsLast(c, n + i) <=> IsLast(b, i)
  <2>1. ASSUME IsLast(c, n + i), NEW j \in 1 .. m, b[j].name = b[i].name PROVE j <= i
    <3>1. n + j \in DOMAIN c /\ c[n + j].name = c[n + i].name
      BY <1>1, <2>1
    <3>2. n + j <= n + i
      BY <2>1, <3>1 DEF IsLast
    <3> QED BY <1>1, <3>2
  <2>2. ASSUME IsLast(b, i), NEW j \in 1 .. n + m, c[j].name = c[n + i].name
        PROVE  j <= n + i
    <3>1. CASE j \in 1 .. n
      BY <1>1, <3>1
    <3>2. ASSUME NEW k \in 1 .. m, j = n + k PROVE j <= n + i
      <4>1. b[k].name = b[i].name
        BY <1>1, <2>2, <3>2
      <4>2. k <= i
        BY <1>1, <2>2, <4>1 DEF IsLast
      <4> QED BY <1>1, <3>2, <4>2
    <3> QED BY <1>1, <3>1, <3>2
  <2> QED BY <1>1, <2>1, <2>2 DEF IsLast
<1>4. Effective(c) \subseteq {v \in Effective(a) : v.name \notin NamesIn(b)} \cup Effective(b)
  <2> SUFFICES ASSUME NEW i \in 1 .. n + m, IsLast(c, i)
               PROVE  \/ c[i] \in Effective(a) /\ c[i].name \notin NamesIn(b)
                      \/ c[i] \in Effective(b)
    BY <1>1 DEF Effective
  <2>1. CASE i \in 1 .. n
    BY <1>1, <1>2, <2>1 DEF Effective
  <2>2. ASSUME NEW j \in 1 .. m, i = n + j PROVE c[i] \in Effective(b)
    BY <1>1, <1>3, <2>2 DEF Effective
  <2> QED BY <1>1, <2>1, <2>2
<1>5. \A v \in Effective(a) : v.name \notin NamesIn(b) => v \in Effective(c)
  <2> SUFFICES ASSUME NEW i \in 1 .. n, IsLast(a, i), a[i].name \notin NamesIn(b)
               PROVE  a[i] \in Effective(c)
    BY <1>1 DEF Effective
  <2>1. i \in DOMAIN c /\ IsLast(c, i) /\ c[i] = a[i]
    BY <1>1, <1>2
  <2> QED BY <2>1 DEF Effective
<1>6. \A v \in Effective(b) : v \in Effective(c)
  <2> SUFFICES ASSUME NEW i \in 1 .. m, IsLast(b, i) PROVE b[i] \in Effective(c)
    BY <1>1 DEF Effective
  <2>1. n + i \in DOMAIN c /\ IsLast(c, n + i) /\ c[n + i] = b[i]
    BY <1>1, <1>3
  <2> QED BY <2>1 DEF Effective
<1> QED BY <1>1, <1>4, <1>5, <1>6 DEF c

--------------------------------------------------------------------------------
(* Removing, keeping and merging.                                               *)

\* removeEnvVars takes the variables of the names out of effect and leaves the others.
LEMMA RemoveEffect ==
    ASSUME NEW S, NEW env \in Seq(S), NEW names
    PROVE  /\ RemoveEnvVars(env, names) \in Seq(S)
           /\ Effective(RemoveEnvVars(env, names)) = {v \in Effective(env) : v.name \notin names}
           /\ NamesIn(RemoveEnvVars(env, names)) = NamesIn(env) \ names
<1> DEFINE K == {i \in DOMAIN env : env[i].name \notin names}
<1>1. /\ K \in SUBSET DOMAIN env
      /\ \A i, j \in DOMAIN env : env[i].name = env[j].name => (i \in K <=> j \in K)
  OBVIOUS
<1>2. /\ {env[i] : i \in {k \in K : IsLast(env, k)}} = {v \in Effective(env) : v.name \notin names}
      /\ {env[i].name : i \in K} = NamesIn(env) \ names
  BY DEF Effective, NamesIn
<1>3. RemoveEnvVars(env, names) = EntriesAt(env, K)
  BY DEF RemoveEnvVars, Without
<1> HIDE DEF K
<1>4. EntriesAt(env, K) \in Seq(S)
  BY <1>1, EntriesAtPicks
<1>5. /\ Effective(EntriesAt(env, K)) = {env[i] : i \in {k \in K : IsLast(env, k)}}
      /\ NamesIn(EntriesAt(env, K)) = {env[i].name : i \in K}
  BY <1>1, EffectiveEntries
<1> QED BY <1>2, <1>3, <1>4, <1>5

\* The entries of some names are in effect as they were among the others.
LEMMA NamedEffect ==
    ASSUME NEW S, NEW env \in Seq(S), NEW names
    PROVE  /\ Named(env, names) \in Seq(S)
           /\ Effective(Named(env, names)) = {v \in Effective(env) : v.name \in names}
           /\ NamesIn(Named(env, names)) = NamesIn(env) \cap names
<1> DEFINE K == {i \in DOMAIN env : env[i].name \in names}
<1>1. /\ K \in SUBSET DOMAIN env
      /\ \A i, j \in DOMAIN env : env[i].name = env[j].name => (i \in K <=> j \in K)
  OBVIOUS
<1>2. /\ {env[i] : i \in {k \in K : IsLast(env, k)}} = {v \in Effective(env) : v.name \in names}
      /\ {env[i].name : i \in K} = NamesIn(env) \cap names
  BY DEF Effective, NamesIn
<1>3. Named(env, names) = EntriesAt(env, K)
  BY DEF Named
<1> HIDE DEF K
<1> QED BY <1>1, <1>2, <1>3, EntriesAtPicks, EffectiveEntries

\* Exactly one variable of a name that is there is in effect.
LEMMA EffectiveNames ==
    ASSUME NEW S, NEW env \in Seq(S)
    PROVE  /\ Effective(env) \subseteq S
           /\ \A v \in Effective(env) : v.name \in NamesIn(env)
           /\ \A name \in NamesIn(env) : \E v \in Effective(env) : v.name = name
           /\ \A u, v \in Effective(env) : u.name = v.name => u = v
<1>1. \A i \in DOMAIN env : i \in Nat /\ env[i] \in S
  OBVIOUS
<1>2. \A name \in NamesIn(env) : \E v \in Effective(env) : v.name = name
  BY NameHasLast DEF NamesIn, Effective
<1>3. ASSUME NEW i \in DOMAIN env, NEW j \in DOMAIN env, IsLast(env, i), IsLast(env, j),
             env[i].name = env[j].name
      PROVE  i = j
  BY <1>1, <1>3 DEF IsLast
<1> QED BY <1>1, <1>2, <1>3 DEF Effective, NamesIn

\* mergeEnvVars: what is injected is in effect, and so is everything else that was.
LEMMA MergeEffect ==
    ASSUME NEW S, NEW existing \in Seq(S), NEW toInject \in Seq(S)
    PROVE  /\ MergeEnvVars(existing, toInject) \in Seq(S)
           /\ Effective(MergeEnvVars(existing, toInject)) =
                {v \in Effective(existing) : v.name \notin NamesIn(toInject)}
                    \cup Effective(toInject)
<1> DEFINE winner(name) == CHOOSE v \in Effective(toInject) : v.name = name
           kept == [i \in DOMAIN existing |->
                        IF IsLast(existing, i) /\ existing[i].name \in NamesIn(toInject)
                        THEN winner(existing[i].name) ELSE existing[i]]
           new  == Without(toInject, NamesIn(existing))
<1>1. \A name \in NamesIn(toInject) :
            winner(name) \in S /\ winner(name) \in Effective(toInject) /\ winner(name).name = name
  BY EffectiveNames
<1> HIDE DEF winner
<1>2. /\ DOMAIN kept = DOMAIN existing
      /\ \A i \in DOMAIN existing : kept[i] \in S /\ kept[i].name = existing[i].name
      /\ kept \in Seq(S)
  <2>1. \A i \in DOMAIN existing : kept[i] \in S /\ kept[i].name = existing[i].name
    BY <1>1
  <2>2. DOMAIN kept = 1 .. Len(existing) /\ Len(existing) \in Nat
    OBVIOUS
  <2> HIDE DEF kept
  <2>3. kept \in [1 .. Len(existing) -> S]
    <3>1. kept = [i \in 1 .. Len(existing) |-> kept[i]]
      BY DEF kept
    <3>2. \A i \in 1 .. Len(existing) : kept[i] \in S
      BY <2>1, <2>2
    <3> QED BY <3>1, <3>2
  <2>4. kept \in Seq(S)
    BY <2>2, <2>3
  <2> QED BY <2>1, <2>2, <2>4
<1>3. /\ new \in Seq(S)
      /\ Effective(new) = {v \in Effective(toInject) : v.name \notin NamesIn(existing)}
      /\ NamesIn(new) = NamesIn(toInject) \ NamesIn(existing)
  BY RemoveEffect DEF RemoveEnvVars
<1>4. \A i \in DOMAIN existing : IsLast(kept, i) <=> IsLast(existing, i)
  BY <1>2 DEF IsLast
<1>5. \A i \in DOMAIN existing : IsLast(existing, i) =>
            kept[i] = IF existing[i].name \in NamesIn(toInject)
                      THEN winner(existing[i].name) ELSE existing[i]
  OBVIOUS
<1>6. MergeEnvVars(existing, toInject) = kept \o new
  BY DEF MergeEnvVars, winner
<1> HIDE DEF kept, new
<1>7. /\ kept \o new \in Seq(S)
      /\ Effective(kept \o new) =
            {v \in Effective(kept) : v.name \notin NamesIn(new)} \cup Effective(new)
  BY <1>2, <1>3, EffectiveConcat
<1>8. Effective(kept) =
            {v \in Effective(existing) : v.name \notin NamesIn(toInject)}
                \cup {v \in Effective(toInject) : v.name \in NamesIn(existing)}
  <2>1. ASSUME NEW i \in DOMAIN existing, IsLast(existing, i)
        PROVE  \/ kept[i] \in Effective(existing) /\ kept[i].name \notin NamesIn(toInject)
               \/ kept[i] \in Effective(toInject) /\ kept[i].name \in NamesIn(existing)
    BY <1>1, <1>2, <1>5, <2>1 DEF Effective, NamesIn
  <2>2. ASSUME NEW i \in DOMAIN existing, IsLast(existing, i),
               existing[i].name \notin NamesIn(toInject)
        PROVE  existing[i] \in Effective(kept)
    BY <1>2, <1>4, <1>5, <2>2 DEF Effective
  <2>3. ASSUME NEW v \in Effective(toInject), v.name \in NamesIn(existing)
        PROVE  v \in Effective(kept)
    <3>1. v.name \in NamesIn(toInject)
      BY EffectiveNames
    <3>2. winner(v.name) = v
      BY <1>1, <3>1, EffectiveNames
    <3>3. PICK i \in DOMAIN existing : existing[i].name = v.name /\ IsLast(existing, i)
      BY <2>3, NameHasLast DEF NamesIn
    <3>4. kept[i] = v
      BY <1>5, <3>1, <3>2, <3>3
    <3> QED BY <1>2, <1>4, <3>3, <3>4 DEF Effective
  <2>4. Effective(kept) = {kept[i] : i \in {k \in DOMAIN existing : IsLast(existing, k)}}
    BY <1>2, <1>4 DEF Effective
  <2> QED BY <2>1, <2>2, <2>3, <2>4 DEF Effective
<1>9. \A v \in Effective(existing) : v.name \in NamesIn(existing)
  BY EffectiveNames
<1> QED BY <1>3, <1>6, <1>7, <1>8, <1>9

\* preserveDatastoreManagedEnvVars: the managed variables stay in effect, and the
\* desired ones of other names with them.
LEMMA PreserveEffect ==
    ASSUME NEW S, NEW desired \in Seq(S), NEW existing \in Seq(S), NEW managed
    PROVE  /\ PreserveManaged(desired, existing, managed) \in Seq(S)
           /\ Effective(PreserveManaged(desired, existing, managed)) =
                {v \in Effective(desired) : v.name \notin (NamesIn(existing) \cap managed)}
                    \cup {v \in Effective(existing) : v.name \in managed}
<1>1. CASE managed = {}
  BY <1>1 DEF PreserveManaged
<1>2. CASE managed # {}
  <2> DEFINE carried == Named(existing, managed)
  <2>1. /\ carried \in Seq(S)
        /\ Effective(carried) = {v \in Effective(existing) : v.name \in managed}
        /\ NamesIn(carried) = NamesIn(existing) \cap managed
    BY NamedEffect
  <2>2. PreserveManaged(desired, existing, managed) = MergeEnvVars(desired, carried)
    BY <1>2 DEF PreserveManaged
  <2> HIDE DEF carried
  <2>3. /\ MergeEnvVars(desired, carried) \in Seq(S)
        /\ Effective(MergeEnvVars(desired, carried)) =
            {v \in Effective(desired) : v.name \notin NamesIn(carried)} \cup Effective(carried)
    BY <2>1, MergeEffect
  <2> QED BY <2>1, <2>2, <2>3
<1> QED BY <1>1, <1>2

================================================================================
