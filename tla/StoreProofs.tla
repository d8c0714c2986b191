---------------------------- MODULE StoreProofs ----------------------------
(* Facts about the stores, each proved once and cited by the proofs of the   *)
(* modules that keep one.                                                    *)
EXTENDS Store, TLAPS

(* A second going by never takes an expiry below zero.                       *)
LEMMA Minus1Type == \A n \in Nat : Minus1(n) \in Nat /\ Minus1(n) <= n
  BY DEF Minus1

(* A second going by keeps the order of two expiries.                        *)
LEMMA Minus1Monotone == \A m, n \in Nat : m <= n => Minus1(m) <= Minus1(n)
  BY DEF Minus1

(* Both engines start from a well-formed store.                              *)
LEMMA EmptyStoreType == EmptyStore \in StoreType
  BY DEF EmptyStore, StoreType

(* A record keeps the store well-formed, in either backend.                  *)
LEMMA RecordType ==
  ASSUME NEW b, NEW st \in StoreType, NEW u \in Users, NEW d \in Domains,
         NEW es \in SUBSET Entities, NEW ttl \in Nat
  PROVE  Record(b, st, u, d, es, ttl) \in StoreType
  <1>1. MemoryBucket(st.ents[u][d], es, ttl) \in [Marks -> Nat]
    BY DEF MemoryBucket, StoreType
  <1>2. RedisBucket(st.ents[u][d], es, ttl) \in [Marks -> Nat]
    BY DEF RedisBucket, StoreType
  <1>3. RedisSeen(st.seen[u], d, ttl) \in [Domains -> Nat]
    BY DEF RedisSeen, StoreType
  <1> QED
    BY <1>1, <1>2, <1>3 DEF Record, StoreType

(* A grant keeps the store well-formed.                                      *)
LEMMA GrantType ==
  ASSUME NEW st \in StoreType, NEW u \in Users, NEW r \in RuleIds, NEW ttl \in Nat
  PROVE  Grant(st, u, r, ttl) \in StoreType
  BY DEF Grant, StoreType

(* A second going by keeps the store well-formed.                            *)
LEMMA AgeType ==
  ASSUME NEW st \in StoreType
  PROVE  Age(st) \in StoreType
  BY Minus1Type DEF Age, StoreType

(* A reset keeps the store well-formed, whoever's keys it matches.           *)
LEMMA ResetType ==
  ASSUME NEW b, NEW st \in StoreType, NEW u \in Users
  PROVE  Reset(b, st, u) \in StoreType
  <1> DEFINE R == Reset(b, st, u)
  <1>1. R = [ents   |-> [v \in Users |-> IF v \in ResetUsers(b, u) THEN EmptyStore.ents[v]   ELSE st.ents[v]],
             seen   |-> [v \in Users |-> IF v \in ResetUsers(b, u) THEN EmptyStore.seen[v]   ELSE st.seen[v]],
             grants |-> [v \in Users |-> IF v \in ResetUsers(b, u) THEN EmptyStore.grants[v] ELSE st.grants[v]]]
    BY DEF Reset
  <1> HIDE DEF R
  <1> QED
    BY <1>1, EmptyStoreType DEF StoreType, R
=============================================================================
