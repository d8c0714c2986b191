------------------------- MODULE AccumulatorProofs -------------------------
(* The contract of the two stores, for any users, domains, entities and      *)
(* sequence of calls.                                                        *)
EXTENDS Accumulator, StoreProofs

(* Whatever is recorded, granted or reset, both stores stay well-formed.     *)
THEOREM TypeCorrect == Spec => []TypeOK
  <1>1. Init => TypeOK
    BY EmptyStoreType DEF Init, TypeOK, DueType, StoreType
  <1>2. TypeOK /\ [Next]_vars => TypeOK'
    <2> SUFFICES ASSUME TypeOK, [Next]_vars PROVE TypeOK'
      OBVIOUS
    <2> USE DEF TypeOK
    <2>1. ASSUME NEW u \in Users, NEW d \in Domains, NEW es \in SUBSET Entities,
                 NEW ttl \in Ttls, RecordBoth(u, d, es, ttl)
          PROVE  TypeOK'
      <3>1. ttl \in Nat
        BY TtlsAssumption
      <3>2. mem' \in StoreType /\ red' \in StoreType
        BY <2>1, <3>1, RecordType DEF RecordBoth
      <3>3. due' \in DueType
        BY <2>1, <3>1 DEF RecordBoth, DueType
      <3> QED
        BY <3>2, <3>3
    <2>2. ASSUME NEW u \in Users, NEW r \in RuleIds, NEW ttl \in GrantTtls, GrantBoth(u, r, ttl)
          PROVE  TypeOK'
      BY <2>2, GrantType, TtlsAssumption DEF GrantBoth
    <2>3. ASSUME NEW u \in Users, ResetBoth(u)
          PROVE  TypeOK'
      <3>1. mem' \in StoreType /\ red' \in StoreType
        BY <2>3, ResetType DEF ResetBoth
      <3>2. due' \in DueType
        BY <2>3, EmptyStoreType DEF ResetBoth, DueType, StoreType
      <3> QED
        BY <3>1, <3>2
    <2>4. CASE Tick
      BY <2>4, AgeType, Minus1Type DEF Tick, DueType
    <2>5. CASE UNCHANGED vars
      BY <2>5 DEF vars
    <2> QED
      BY <2>1, <2>2, <2>3, <2>4, <2>5 DEF Next
  <1> QED
    BY <1>1, <1>2, PTL DEF Spec

(* The inductive invariant: a RedisStore is never behind what it was asked   *)
(* to remember, and a MemoryStore never ahead of it.                         *)
THEOREM CoveredInvariant ==
  ASSUME OneTtl, PersonalKeys
  PROVE  Spec => []Covered
  <1>1. Init => Covered
    BY TtlsAssumption DEF Init, Covered, EmptyStore
  <1>2. TypeOK /\ Covered /\ [Next]_vars => Covered'
    <2> SUFFICES ASSUME TypeOK, Covered, [Next]_vars,
                        NEW v \in Users, NEW x \in Domains, NEW m \in Marks
                 PROVE  /\ due'[v][x][m] <= red'.ents[v][x][m]
                        /\ due'[v][x][m] <= red'.seen[v][x]
                        /\ mem'.ents[v][x][m] <= due'[v][x][m]
                        /\ \A t \in Ttls : due'[v][x][m] <= t
      BY DEF Covered
    <2> DEFINE Goal == /\ due'[v][x][m] <= red'.ents[v][x][m]
                       /\ due'[v][x][m] <= red'.seen[v][x]
                       /\ mem'.ents[v][x][m] <= due'[v][x][m]
                       /\ \A t \in Ttls : due'[v][x][m] <= t
    <2>0. /\ due[v][x][m] <= red.ents[v][x][m]
          /\ due[v][x][m] <= red.seen[v][x]
          /\ mem.ents[v][x][m] <= due[v][x][m]
          /\ \A t \in Ttls : due[v][x][m] <= t
      BY DEF Covered
    <2>a. /\ due[v][x][m] \in Nat /\ red.ents[v][x][m] \in Nat
          /\ red.seen[v][x] \in Nat /\ mem.ents[v][x][m] \in Nat
      BY DEF TypeOK, DueType, StoreType
    <2>b. \A t \in Ttls : t \in Nat /\ 0 <= t
      BY TtlsAssumption
    <2>1. ASSUME NEW u \in Users, NEW d \in Domains, NEW es \in SUBSET Entities,
                 NEW ttl \in Ttls, RecordBoth(u, d, es, ttl)
          PROVE  Goal
      <3>1. PICK t \in Nat \ {0} : Ttls = {t}
        BY DEF OneTtl
      <3>2. ttl = t /\ due[v][x][m] <= ttl /\ ttl \in Nat \ {0}
        BY <2>0, <3>1
      <3>3. due'[v][x][m] = IF v = u /\ x = d /\ m \in es \cup {Touched}
                            THEN ttl ELSE due[v][x][m]
        BY <2>1 DEF RecordBoth, TypeOK, DueType
      <3>4. red'.ents[v][x][m] =
              IF v = u /\ x = d
              THEN IF m \in es \cup {Touched} \/ red.ents[v][x][m] > 0 THEN ttl ELSE 0
              ELSE red.ents[v][x][m]
        BY <2>1 DEF RecordBoth, Record, RedisBucket, TypeOK, StoreType
      <3>5. red'.seen[v][x] =
              IF v = u THEN IF x = d \/ red.seen[v][x] > 0 THEN ttl ELSE 0
              ELSE red.seen[v][x]
        BY <2>1 DEF RecordBoth, Record, RedisSeen, TypeOK, StoreType
      <3>6. mem'.ents[v][x][m] =
              IF v = u /\ x = d /\ (m \in es \/ (m = Touched /\ mem.ents[v][x][m] = 0))
              THEN ttl ELSE mem.ents[v][x][m]
        BY <2>1 DEF RecordBoth, Record, MemoryBucket, TypeOK, StoreType
      <3> QED
        BY <2>0, <2>a, <3>1, <3>2, <3>3, <3>4, <3>5, <3>6
    <2>2. ASSUME NEW u \in Users, NEW r \in RuleIds, NEW ttl \in GrantTtls, GrantBoth(u, r, ttl)
          PROVE  Goal
      <3>1. mem'.ents = mem.ents /\ red'.ents = red.ents /\ red'.seen = red.seen /\ due' = due
        BY <2>2 DEF GrantBoth, Grant, TypeOK, StoreType
      <3> QED
        BY <2>0, <3>1
    <2>3. ASSUME NEW u \in Users, ResetBoth(u)
          PROVE  Goal
      <3>1. ResetUsers("memory", u) = {u} /\ ResetUsers("redis", u) = {u}
        BY KeyPrefixAssumption DEF ResetUsers, PersonalKeys
      <3>2. CASE v = u
        <4>1. /\ due'[v][x][m] = 0 /\ red'.ents[v][x][m] = 0
              /\ red'.seen[v][x] = 0 /\ mem'.ents[v][x][m] = 0
          BY <2>3, <3>1, <3>2 DEF ResetBoth, Reset, EmptyStore, TypeOK, DueType
        <4> QED
          BY <4>1, <2>b
      <3>3. CASE v # u
        <4>1. /\ due'[v] = due[v] /\ red'.ents[v] = red.ents[v]
              /\ red'.seen[v] = red.seen[v] /\ mem'.ents[v] = mem.ents[v]
          BY <2>3, <3>1, <3>3 DEF ResetBoth, Reset, TypeOK, DueType
        <4> QED
          BY <2>0, <4>1
      <3> QED
        BY <3>2, <3>3
    <2>4. CASE Tick
      <3>1. /\ due'[v][x][m] = Minus1(due[v][x][m])
            /\ red'.ents[v][x][m] = Minus1(red.ents[v][x][m])
            /\ red'.seen[v][x] = Minus1(red.seen[v][x])
            /\ mem'.ents[v][x][m] = Minus1(mem.ents[v][x][m])
        BY <2>4 DEF Tick, Age
      <3>2. \A t \in Ttls : Minus1(due[v][x][m]) <= t
        BY <2>0, <2>a, <2>b DEF Minus1
      <3> QED
        BY <2>0, <2>a, <3>1, <3>2, Minus1Monotone
    <2>5. CASE UNCHANGED vars
      BY <2>0, <2>5 DEF vars
    <2> QED
      BY <2>1, <2>2, <2>3, <2>4, <2>5 DEF Next
  <1> QED
    BY <1>1, <1>2, TypeCorrect, PTL DEF Spec

(* What the invariant says of one state, for any store sizes.                *)
LEMMA CoveredImplies ==
  ASSUME TypeOK, Covered
  PROVE  RedisRemembers /\ RedisCoversMemory
  <1>1. \A u \in Users, d \in Domains, m \in Marks :
          /\ due[u][d][m] \in Nat /\ red.ents[u][d][m] \in Nat
          /\ red.seen[u][d] \in Nat /\ mem.ents[u][d][m] \in Nat
    BY DEF TypeOK, DueType, StoreType
  <1>2. RedisRemembers
    BY <1>1 DEF RedisRemembers, Covered, DomainsOf, BucketLive
  <1>3. RedisCoversMemory
    <2> SUFFICES ASSUME NEW u \in Users
                 PROVE  /\ DomainsOf("memory", mem, u) \subseteq DomainsOf("redis", red, u)
                        /\ \A d \in Domains : EntitiesOf(mem, u, d) \subseteq EntitiesOf(red, u, d)
      BY DEF RedisCoversMemory
    <2>1. \A d \in Domains, m \in Marks :
            mem.ents[u][d][m] > 0 => red.ents[u][d][m] > 0 /\ red.seen[u][d] > 0
      BY <1>1 DEF Covered
    <2>2. DomainsOf("memory", mem, u) \subseteq DomainsOf("redis", red, u)
      BY <2>1 DEF DomainsOf, BucketLive
    <2>3. \A d \in Domains : EntitiesOf(mem, u, d) \subseteq EntitiesOf(red, u, d)
      BY <2>1 DEF EntitiesOf, Marks
    <2> QED
      BY <2>2, <2>3
  <1> QED
    BY <1>2, <1>3

(* A RedisStore used with the one ttl of an engine never forgets early, and  *)
(* holds everything a MemoryStore would, as long as no user's keys match     *)
(* another's reset.                                                          *)
THEOREM ContractHolds ==
  ASSUME OneTtl, PersonalKeys
  PROVE  Spec => [](RedisRemembers /\ RedisCoversMemory)
  BY TypeCorrect, CoveredInvariant, CoveredImplies, PTL
=============================================================================
