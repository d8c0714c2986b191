------------------------------- MODULE Store -------------------------------
(* The accumulator behind the policy engine: what each user has already      *)
(* pulled, per domain, and the purpose grants that user holds.  Two classes  *)
(* implement the same protocol, MemoryStore (one dict per process) and       *)
(* RedisStore (a set per user and domain, plus a set of domains per user).   *)
(*                                                                           *)
(* Every expiry is kept as the whole seconds still left: 0 is "absent or     *)
(* expired" and Age is one second going by, so no clock has to be bounded.   *)
(*                                                                           *)
(* A store is [ents, seen, grants]: ents[u][d][m] is the time left of mark m *)
(* in the bucket (u, d), seen[u][d] the time left of d in Redis's set of     *)
(* domains (MemoryStore has none), grants[u][r] that of a purpose grant.     *)
EXTENDS Integers, FiniteSets

CONSTANTS Users, Domains, Entities, RuleIds,
          Touched,        \* the "__touched__" marker kept beside the entities
          KeyPrefix       \* the pairs <<u, v>> where v's Redis keys begin with u's

ASSUME TouchedAssumption == Touched \notin Entities
ASSUME KeyPrefixAssumption ==
    /\ KeyPrefix \subseteq Users \X Users
    /\ \A u \in Users : <<u, u>> \in KeyPrefix

Marks    == Entities \cup {Touched}
Backends == {"memory", "redis"}

StoreType == [ents   : [Users -> [Domains -> [Marks -> Nat]]],
              seen   : [Users -> [Domains -> Nat]],
              grants : [Users -> [RuleIds -> Nat]]]

EmptyStore == [ents   |-> [u \in Users |-> [d \in Domains |-> [m \in Marks |-> 0]]],
               seen   |-> [u \in Users |-> [d \in Domains |-> 0]],
               grants |-> [u \in Users |-> [r \in RuleIds |-> 0]]]

(* Mutant of Minus1: an expiry that goes on past zero.                       *)
Minus1Unclamped(n) == n - 1

Minus1(n) == IF n > 0 THEN n - 1 ELSE 0

-----------------------------------------------------------------------------
(* Recording what a call returned.                                           *)

(* Mutants of MemoryBucket: a record that renews the whole bucket, and one    *)
(* that leaves every running expiry be.                                      *)
MemoryBucketRenewsAll(bucket, es, ttl) ==
    [m \in Marks |-> IF m \in es \cup {Touched} \/ bucket[m] > 0 THEN ttl ELSE 0]

MemoryBucketSetDefault(bucket, es, ttl) ==
    [m \in Marks |-> IF m \in es \cup {Touched} /\ bucket[m] = 0 THEN ttl ELSE bucket[m]]

(* MemoryStore: named entities get a new expiry; the marker is only set when *)
(* it is not there (setdefault).                                             *)
MemoryBucket(bucket, es, ttl) ==
    [m \in Marks |-> IF m \in es \/ (m = Touched /\ bucket[m] = 0)
                     THEN ttl ELSE bucket[m]]

(* Mutants of the next two: EXPIRE with NX, which leaves a running expiry be, *)
(* and a SADD of the entities without the marker.                            *)
RedisBucketNoMarker(bucket, es, ttl) ==
    [m \in Marks |-> IF m \in es \/ bucket[m] > 0 THEN ttl ELSE 0]

RedisSeenExpireOnce(seen, d, ttl) ==
    LET running == {seen[x] : x \in Domains} \ {0}
        left    == IF running = {} THEN ttl ELSE CHOOSE n \in running : TRUE
    IN  [x \in Domains |-> IF x = d \/ seen[x] > 0 THEN left ELSE 0]

(* RedisStore: SADD, then EXPIRE on the key, which is one expiry for every   *)
(* member the set still has.                                                 *)
RedisBucket(bucket, es, ttl) ==
    [m \in Marks |-> IF m \in es \cup {Touched} \/ bucket[m] > 0 THEN ttl ELSE 0]

(* RedisStore again: SADD and EXPIRE on the user's set of domains.           *)
RedisSeen(seen, d, ttl) ==
    [x \in Domains |-> IF x = d \/ seen[x] > 0 THEN ttl ELSE 0]

Record(b, st, u, d, es, ttl) ==
    IF b = "memory"
    THEN [st EXCEPT !.ents[u][d] = MemoryBucket(@, es, ttl)]
    ELSE [st EXCEPT !.ents[u][d] = RedisBucket(@, es, ttl),
                    !.seen[u]    = RedisSeen(@, d, ttl)]

-----------------------------------------------------------------------------
(* Reading it back.                                                          *)

EntitiesOf(st, u, d) == {e \in Entities : st.ents[u][d][e] > 0}

BucketLive(st, u, d) == \E m \in Marks : st.ents[u][d][m] > 0

(* Mutant of DomainsOf: buckets that do not tell users apart.                *)
DomainsOfAnyone(b, st, u) ==
    {d \in Domains : \E v \in Users : BucketLive(st, v, d) /\ (b = "memory" \/ st.seen[v][d] > 0)}

DomainsOf(b, st, u) ==
    {d \in Domains : BucketLive(st, u, d) /\ (b = "memory" \/ st.seen[u][d] > 0)}

(* A purpose grant: a timed entry of its own in either store.                *)
Grant(st, u, r, ttl) == [st EXCEPT !.grants[u][r] = ttl]
Granted(st, u, r)    == st.grants[u][r] > 0

-----------------------------------------------------------------------------
(* Forgetting: time, and reset.                                              *)

Age(st) ==
    [ents   |-> [u \in Users |-> [d \in Domains |->
                    [m \in Marks |-> Minus1(st.ents[u][d][m])]]],
     seen   |-> [u \in Users |-> [d \in Domains |-> Minus1(st.seen[u][d])]],
     grants |-> [u \in Users |-> [r \in RuleIds |-> Minus1(st.grants[u][r])]]]

(* RedisStore.reset scans "<prefix>:*:<user>*", which matches the keys of    *)
(* every user whose name begins with this one; MemoryStore compares names.   *)
ResetUsers(b, u) == IF b = "memory" THEN {u} ELSE {v \in Users : <<u, v>> \in KeyPrefix}

Reset(b, st, u) ==
    [f \in {"ents", "seen", "grants"} |->
        [v \in Users |-> IF v \in ResetUsers(b, u) THEN EmptyStore[f][v] ELSE st[f][v]]]
=============================================================================
