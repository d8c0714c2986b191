--------------------------- MODULE HoldingsProofs ---------------------------
(* What every program that answers through the engine can rely on: decisions *)
(* name rules of the policy, the store keeps up with what users are handed,  *)
(* and an answer the engine allows breaks no block in force.                 *)
EXTENDS Holdings, StoreProofs, FiniteSetTheorems, WellFoundedInduction

(* The part of the state that these lemmas are about is well-formed.         *)
HoldingsType ==
    /\ store \in StoreType
    /\ requests \in [Users -> [RuleIds -> RequestType]]
    /\ held \in [Users -> [Domains -> [Marks -> 0..Ttl]]]

(* The first block that fires is one of those that fire, and none is before. *)
LEMMA FirstIsOne ==
  ASSUME NEW S \in SUBSET Nat, S # {}
  PROVE  First(S) \in S /\ \A j \in S : First(S) <= j
  <1> DEFINE R == OpToRel(<, Nat)
  <1>1. IsWellFoundedOn(R, Nat)
    BY NatLessThanWellFounded
  <1>2. \A i, j \in S : j < i => <<j, i>> \in R
    BY DEF OpToRel
  <1> HIDE DEF R
  <1>3. PICK i \in S : \A j \in S : ~ <<j, i>> \in R
    BY <1>1, WFMin, Zenon
  <1>4. \A j \in S : j \in Nat /\ ~ (j < i)
    BY <1>2, <1>3
  <1>5. \A j \in S : i <= j
    BY <1>4
  <1> QED
    BY <1>5 DEF First

(* Every decision names a rule of the policy, or none.                       *)
LEMMA BlockRule ==
  ASSUME NEW S \in SUBSET DOMAIN Blocks, S # {}
  PROVE  Blocks[First(S)].rule \in RuleIds
  <1>1. S \in SUBSET Nat
    BY PolicyAssumption
  <1> QED
    BY <1>1, FirstIsOne, PolicyAssumption

(* The check before the fetch decides, under a rule of the policy or none.   *)
LEMMA PreCallType ==
  ASSUME NEW st, NEW u, NEW d, NEW w
  PROVE  PreCall(st, u, d, w) \in Decision
  <1>1. PreFires(st, u, d, w) \in SUBSET DOMAIN Blocks
    BY DEF PreFires
  <1> QED
    BY <1>1, BlockRule DEF PreCall, Decision, Allowed, Waived, Denied

(* So does the check of the arguments.                                       *)
LEMMA CheckArgsType ==
  ASSUME NEW st, NEW u, NEW t, NEW a
  PROVE  CheckArgs(st, u, t, a) \in Decision
  <1>1. ArgFires(u, t, a) \in SUBSET DOMAIN Blocks
    BY DEF ArgFires
  <1> QED
    BY <1>1, BlockRule DEF CheckArgs, Decision, Allowed, Waived, Alerting, Denied

(* And the check of what came back.                                          *)
LEMMA PostCallType ==
  ASSUME NEW st, NEW u, NEW d, NEW es
  PROVE  PostCall(st, u, d, es) \in Decision
  <1> DEFINE fires   == PostFires(st, u, d, es)
             refuses == Refusing(st, u, fires)
  <1>1. fires \in SUBSET DOMAIN Blocks /\ refuses \in SUBSET DOMAIN Blocks
    BY DEF PostFires, Refusing
  <1>2. \A S \in SUBSET DOMAIN Blocks : {Blocks[j].rule : j \in S} \in SUBSET RuleIds
    BY PolicyAssumption
  <1>3. \A n : {j \in fires : j < n} \in SUBSET DOMAIN Blocks
    BY <1>1
  <1>4. refuses # {} => Blocks[First(refuses)].rule \in RuleIds
    BY <1>1, BlockRule
  <1> HIDE DEF fires, refuses
  <1>5. PostCall(st, u, d, es) =
          IF refuses = {} THEN [Allowed EXCEPT !.alerts = {Blocks[j].rule : j \in fires}]
          ELSE [Denied(Blocks[First(refuses)]) EXCEPT !.alerts =
                  IF Blocks[First(refuses)].kind = "domain_join"
                  THEN {Blocks[j].rule : j \in {n \in fires : n < First(refuses)}} ELSE {}]
    BY DEF PostCall, fires, refuses
  <1>6. CASE refuses = {}
    BY <1>1, <1>2, <1>5, <1>6 DEF Decision, Allowed
  <1>7. CASE refuses # {}
    <2>1. /\ {Blocks[j].rule : j \in {n \in fires : n < First(refuses)}} \in SUBSET RuleIds
          /\ {} \in SUBSET RuleIds
      BY <1>2, <1>3
    <2> QED
      BY <1>4, <1>5, <1>7, <2>1 DEF Decision, Allowed, Denied
  <1> QED
    BY <1>6, <1>7

(* A rule that is waived stops no call before the fetch, unless a block of it *)
(* is a legal hold.                                                          *)
LEMMA WaivedStopsNothing ==
  ASSUME NEW st, NEW u, NEW d, NEW w, NEW t, NEW a, NEW r,
         Granted(st, u, r),
         \A i \in DOMAIN Blocks : Blocks[i].rule = r => Waivable(Blocks[i])
  PROVE  /\ ~ PreCall(st, u, d, w).allow => PreCall(st, u, d, w).rule # r
         /\ ~ CheckArgs(st, u, t, a).allow => CheckArgs(st, u, t, a).rule # r
  <1> DEFINE pre  == PreFires(st, u, d, w)
             args == ArgFires(u, t, a)
  <1>1. pre \in SUBSET DOMAIN Blocks /\ args \in SUBSET DOMAIN Blocks
    BY DEF PreFires, ArgFires
  <1>2. DOMAIN Blocks \in SUBSET Nat
    BY PolicyAssumption
  <1>3. ~ PreCall(st, u, d, w).allow => PreCall(st, u, d, w).rule # r
    <2> HIDE DEF pre
    <2>1. pre # {} => First(pre) \in DOMAIN Blocks
      BY <1>1, <1>2, FirstIsOne
    <2> QED
      BY <2>1 DEF PreCall, Allowed, Waived, Denied, pre
  <1>4. ~ CheckArgs(st, u, t, a).allow => CheckArgs(st, u, t, a).rule # r
    BY DEF CheckArgs, Allowed, Waived, Alerting, Denied
  <1> QED
    BY <1>3, <1>4

(* "What is never listed is never called" (policy.py:355): to a user without *)
(* grants every call in a domain whose tools are hidden from that user is    *)
(* refused before the fetch, if no block is about reads or about writes only *)
(* (the listing does not look at what a block applies to).                   *)
THEOREM HiddenIsRefused ==
  ASSUME NEW st, NEW u, NEW d, NEW w,
         \A i \in DOMAIN Blocks : AppliesTo(Blocks[i], w),
         \A r \in RuleIds : ~ Granted(st, u, r),
         ~ ToolVisible(st, u, d)
  PROVE  ~ PreCall(st, u, d, w).allow
  <1> DEFINE fires == PreFires(st, u, d, w)
  <1>1. PICK i \in DOMAIN Blocks : /\ Blocks[i].kind \in {"domain_block", "wall"}
                                   /\ Active(Blocks[i]) /\ InScope(Blocks[i], u)
                                   /\ d \in Blocks[i].domains
                                   /\ Blocks[i].action \in {"unset", "deny"}
    BY DEF ToolVisible
  <1>2. Stops(Blocks[i])
    BY <1>1 DEF Stops, Gate, DefaultAction
  <1>3. i \in fires /\ fires \in SUBSET DOMAIN Blocks
    BY <1>1, <1>2 DEF PreFires, GateFires
  <1> HIDE DEF fires
  <1>4. ~ Granted(st, u, Blocks[First(fires)].rule)
    BY <1>3, BlockRule
  <1> QED
    BY <1>3, <1>4 DEF PreCall, Denied, Allowed, fires

-----------------------------------------------------------------------------
(* Approvals.                                                                *)

(* Turning approvals into grants touches the grants alone, and nothing where *)
(* there are none.                                                           *)
LEMMA SyncedStore ==
  ASSUME requests \in [Users -> [RuleIds -> RequestType]], NEW st \in StoreType, NEW u \in Users
  PROVE  /\ Synced(st, u) \in StoreType
         /\ Synced(st, u).ents = st.ents /\ Synced(st, u).seen = st.seen
         /\ ApprovedFor(requests, u) = {} => Synced(st, u) = st
  <1> DEFINE g == [r \in RuleIds |-> IF r \in ApprovedFor(requests, u) /\ st.grants[u][r] = 0
                                     THEN requests[u][r].left ELSE st.grants[u][r]]
  <1>1. g \in [RuleIds -> Nat]
    BY DEF RequestType, StoreType
  <1>2. Synced(st, u) = [st EXCEPT !.grants[u] = g]
    BY DEF Synced
  <1>3. ApprovedFor(requests, u) = {} => g = st.grants[u]
    BY DEF StoreType
  <1> HIDE DEF g
  <1>4. [st.grants EXCEPT ![u] = g] \in [Users -> [RuleIds -> Nat]]
    BY <1>1 DEF StoreType
  <1>5. ApprovedFor(requests, u) = {} => [st.grants EXCEPT ![u] = g] = st.grants
    BY <1>3 DEF StoreType
  <1> QED
    BY <1>2, <1>4, <1>5 DEF StoreType

LEMMA SyncedType ==
  ASSUME HoldingsType, NEW st \in StoreType, NEW u \in Users
  PROVE  /\ Synced(st, u) \in StoreType
         /\ Synced(st, u).ents = st.ents /\ Synced(st, u).seen = st.seen
  BY SyncedStore DEF HoldingsType

(* What a user is approved for is waived from then on.                       *)
LEMMA SyncedGrants ==
  ASSUME HoldingsType, NEW st \in StoreType, NEW u \in Users,
         NEW r \in ApprovedFor(requests, u)
  PROVE  Granted(Synced(st, u), u, r)
  <1> DEFINE g == [x \in RuleIds |-> IF x \in ApprovedFor(requests, u) /\ st.grants[u][x] = 0
                                     THEN requests[u][x].left ELSE st.grants[u][x]]
  <1>1. Synced(st, u) = [st EXCEPT !.grants[u] = g]
    BY DEF Synced
  <1>2. g[r] > 0
    BY DEF HoldingsType, RequestType, ApprovedFor, StoreType
  <1> HIDE DEF g
  <1>3. Synced(st, u).grants[u][r] = g[r]
    BY <1>1 DEF StoreType
  <1> QED
    BY <1>2, <1>3 DEF Granted

(* Asking for an approval keeps the requests well-formed.                    *)
LEMMA RequestedType ==
  ASSUME NEW rq \in [Users -> [RuleIds -> RequestType]], NEW u \in Users, NEW r
  PROVE  Requested(rq, u, r) \in [Users -> [RuleIds -> RequestType]]
  <1>1. [status |-> "pending", left |-> 0] \in RequestType
    BY DEF RequestType
  <1> QED
    BY <1>1 DEF Requested

(* A second going by keeps the requests well-formed.                         *)
LEMMA AgedRequestsType ==
  ASSUME HoldingsType
  PROVE  AgedRequests(requests) \in [Users -> [RuleIds -> RequestType]]
  <1>1. \A rq \in RequestType : [rq EXCEPT !.left = Minus1(@)] \in RequestType
    BY Minus1Type DEF RequestType
  <1>2. \A u \in Users, r \in RuleIds : requests[u][r] \in RequestType
    BY DEF HoldingsType
  <1> QED
    BY <1>1, <1>2 DEF AgedRequests

(* So does an approver who decides about one of them.                        *)
LEMMA DecidedType ==
  ASSUME HoldingsType, NEW u \in Users, NEW r \in RuleIds
  PROVE  /\ \A ttl \in Nat : [requests EXCEPT ![u][r] = [status |-> "approved", left |-> ttl]]
                              \in [Users -> [RuleIds -> RequestType]]
         /\ [requests EXCEPT ![u][r].status = "denied"] \in [Users -> [RuleIds -> RequestType]]
  <1>1. requests \in [Users -> [RuleIds -> RequestType]] /\ requests[u][r] \in RequestType
    BY DEF HoldingsType
  <1>2. \A ttl \in Nat : [status |-> "approved", left |-> ttl] \in RequestType
    BY DEF RequestType
  <1>3. [requests[u][r] EXCEPT !.status = "denied"] \in RequestType
    BY <1>1 DEF RequestType
  <1> QED
    BY <1>1, <1>2, <1>3

-----------------------------------------------------------------------------
(* Holdings.                                                                 *)

(* What a user is handed counts for Ttl seconds, and nothing else changes.   *)
LEMMA ReceivedIs ==
  ASSUME NEW h \in [Users -> [Domains -> [Marks -> 0..Ttl]]], NEW u \in Users,
         NEW d \in Domains, NEW es,
         NEW v \in Users, NEW x \in Domains, NEW m \in Marks
  PROVE  Coc!Received(h, u, d, es)[v][x][m] =
           IF v = u /\ x = d /\ m \in es \cup {Touched} THEN Ttl ELSE h[v][x][m]
  <1> DEFINE b == [n \in Marks |-> IF n \in es \cup {Touched} THEN Ttl ELSE h[u][d][n]]
  <1>1. Coc!Received(h, u, d, es) = [h EXCEPT ![u] = [h[u] EXCEPT ![d] = b]]
    BY DEF Coc!Received, Coc!Marks, Marks
  <1>2. b[m] = IF m \in es \cup {Touched} THEN Ttl ELSE h[u][d][m]
    OBVIOUS
  <1> HIDE DEF b
  <1> QED
    BY <1>1, <1>2

(* Handing an answer over keeps the ghost of holdings well-formed.           *)
LEMMA ReceivedType ==
  ASSUME NEW h \in [Users -> [Domains -> [Marks -> 0..Ttl]]], NEW u \in Users,
         NEW d \in Domains, NEW es
  PROVE  Coc!Received(h, u, d, es) \in [Users -> [Domains -> [Marks -> 0..Ttl]]]
  <1> DEFINE b == [m \in Marks |-> IF m \in es \cup {Touched} THEN Ttl ELSE h[u][d][m]]
  <1>1. b \in [Marks -> 0..Ttl]
    <2>1. Ttl \in 0..Ttl
      BY TtlAssumption
    <2> QED
      BY <2>1
  <1>2. Coc!Received(h, u, d, es) = [h EXCEPT ![u] = [h[u] EXCEPT ![d] = b]]
    BY DEF Coc!Received, Coc!Marks, Marks
  <1> HIDE DEF b
  <1> QED
    BY <1>1, <1>2

(* So does a second going by.                                                *)
LEMMA LapsedType ==
  ASSUME HoldingsType
  PROVE  Coc!Lapsed(held) \in [Users -> [Domains -> [Marks -> 0..Ttl]]]
  <1>1. \A n \in 0..Ttl : Minus1(n) \in 0..Ttl
    BY TtlAssumption DEF Minus1
  <1>2. Coc!Lapsed(held) = [u \in Users |-> [d \in Domains |-> [m \in Marks |-> Minus1(held[u][d][m])]]]
    BY DEF Coc!Lapsed, Coc!Marks, Marks, Coc!Minus1, Minus1
  <1>3. \A u \in Users, d \in Domains, m \in Marks : held[u][d][m] \in 0..Ttl
    BY DEF HoldingsType
  <1> QED
    BY <1>1, <1>2, <1>3

(* A step that changes neither what is remembered nor what is held.          *)
LEMMA CoverKept ==
  ASSUME StoreCoversHeld, held' = held, store'.ents = store.ents, store'.seen = store.seen
  PROVE  StoreCoversHeld'
  BY DEF StoreCoversHeld, Covers

(* Recording a result, and with it or not handing it over.                   *)
LEMMA RecordCovers ==
  ASSUME HoldingsType, StoreCoversHeld,
         NEW u \in Users, NEW d \in Domains, NEW es \in SUBSET Entities,
         store' = Record(Backend, store, u, d, es, Ttl),
         held' = held \/ held' = Coc!Received(held, u, d, es)
  PROVE  StoreCoversHeld'
  <1>3. \A v \in Users, x \in Domains, m \in Marks :
          /\ held[v][x][m] \in 0..Ttl
          /\ store.ents[v][x][m] \in Nat /\ store.seen[v][x] \in Nat
    BY DEF HoldingsType, StoreType
  <1>4. \A v \in Users, x \in Domains, m \in Marks :
          \/ held'[v][x][m] = held[v][x][m]
          \/ held'[v][x][m] = Ttl /\ v = u /\ x = d /\ m \in es \cup {Touched}
    <2>1. held \in [Users -> [Domains -> [Marks -> 0..Ttl]]]
      BY DEF HoldingsType
    <2>2. \A v \in Users, x \in Domains, m \in Marks :
            Coc!Received(held, u, d, es)[v][x][m] =
              IF v = u /\ x = d /\ m \in es \cup {Touched} THEN Ttl ELSE held[v][x][m]
      BY <2>1, ReceivedIs
    <2> QED
      BY <2>2
  <1>5. CASE Backend = "memory"
    <2>1. \A v \in Users, x \in Domains, e \in Entities :
            store'.ents[v][x][e] = IF v = u /\ x = d /\ e \in es THEN Ttl ELSE store.ents[v][x][e]
      BY <1>5, TouchedAssumption DEF Record, MemoryBucket, HoldingsType, StoreType, Marks
    <2>2. \A v \in Users, x \in Domains, e \in Entities : held'[v][x][e] <= store'.ents[v][x][e]
      <3> SUFFICES ASSUME NEW v \in Users, NEW x \in Domains, NEW e \in Entities
                   PROVE  held'[v][x][e] <= store'.ents[v][x][e]
        OBVIOUS
      <3>1. e \in Marks /\ e # Touched
        BY TouchedAssumption DEF Marks
      <3>2. held[v][x][e] <= store.ents[v][x][e] /\ Ttl \in Nat
        BY TtlAssumption DEF StoreCoversHeld, Covers
      <3>3. /\ held[v][x][e] \in 0..Ttl
            /\ \/ held'[v][x][e] = held[v][x][e]
               \/ held'[v][x][e] = Ttl /\ v = u /\ x = d /\ e \in es
        BY <1>3, <1>4, <3>1
      <3> QED
        BY <2>1, <3>2, <3>3
    <2> QED
      BY <1>5, <2>2 DEF StoreCoversHeld, Covers
  <1>6. CASE Backend = "redis"
    <2>1. \A v \in Users, x \in Domains, m \in Marks :
            store'.ents[v][x][m] =
              IF v = u /\ x = d
              THEN IF m \in es \cup {Touched} \/ store.ents[v][x][m] > 0 THEN Ttl ELSE 0
              ELSE store.ents[v][x][m]
      BY <1>6 DEF Record, RedisBucket, HoldingsType, StoreType
    <2>2. \A v \in Users, x \in Domains :
            store'.seen[v][x] =
              IF v = u THEN IF x = d \/ store.seen[v][x] > 0 THEN Ttl ELSE 0
              ELSE store.seen[v][x]
      BY <1>6 DEF Record, RedisSeen, HoldingsType, StoreType
    <2>3. \A v \in Users, x \in Domains, m \in Marks :
            held'[v][x][m] <= store'.ents[v][x][m] /\ held'[v][x][m] <= store'.seen[v][x]
      <3> SUFFICES ASSUME NEW v \in Users, NEW x \in Domains, NEW m \in Marks
                   PROVE  /\ held'[v][x][m] <= store'.ents[v][x][m]
                          /\ held'[v][x][m] <= store'.seen[v][x]
        OBVIOUS
      <3>1. /\ held[v][x][m] <= store.ents[v][x][m]
            /\ held[v][x][m] <= store.seen[v][x] /\ Ttl \in Nat
        BY <1>6, TtlAssumption DEF StoreCoversHeld, Covers
      <3> QED
        BY <1>3, <1>4, <2>1, <2>2, <3>1
    <2> QED
      BY <1>6, <2>3 DEF StoreCoversHeld, Covers, Marks
  <1> QED
    BY <1>5, <1>6, BackendAssumption DEF Backends

(* A second ages both sides alike.                                           *)
LEMMA AgeCovers ==
  ASSUME HoldingsType, StoreCoversHeld, store' = Age(store), held' = Coc!Lapsed(held)
  PROVE  StoreCoversHeld'
  <1>1. \A u \in Users, d \in Domains, m \in Marks :
          /\ held[u][d][m] \in Nat
          /\ store.ents[u][d][m] \in Nat /\ store.seen[u][d] \in Nat
    BY TtlAssumption DEF HoldingsType, StoreType
  <1>2. \A u \in Users, d \in Domains, m \in Marks :
          /\ held'[u][d][m] = Minus1(held[u][d][m])
          /\ store'.ents[u][d][m] = Minus1(store.ents[u][d][m])
          /\ store'.seen[u][d] = Minus1(store.seen[u][d])
    BY DEF Age, Coc!Lapsed, Coc!Marks, Marks, Coc!Minus1, Minus1
  <1> QED
    BY <1>1, <1>2, Minus1Monotone DEF StoreCoversHeld, Covers, Marks

(* Every join asks for a person in all its domains (the code's default): in  *)
(* a MemoryStore a domain touched without entities is forgotten early.       *)
JoinsOverlap == \A i \in DOMAIN Blocks : Blocks[i].kind = "domain_join" => Blocks[i].overlap

(* The instance of the code of conduct counts as the engine does.            *)
LEMMA SameCardinality == \A S : Coc!Cardinality(S) = Cardinality(S)
  BY DEF Coc!Cardinality, Cardinality

(* An answer the engine allows breaks no block in force, once it is handed   *)
(* over: what the store then remembers is at least what the user holds.      *)
LEMMA ReleaseConforms ==
  ASSUME HoldingsType, HoldingsType', Backend = "redis" \/ JoinsOverlap,
         NEW u \in Users, NEW d \in Domains, NEW es \in SUBSET Entities,
         Covers(store', held', u),
         store'.grants = store.grants,
         PostCall(store', u, d, es).allow
  PROVE  Coc!Conforms(held', u, d, es)
  <1> SUFFICES ASSUME NEW i \in DOMAIN Blocks, Coc!InForce(Blocks[i], u),
                      Coc!Breaks(held', u, d, es, Blocks[i])
               PROVE  FALSE
    BY DEF Coc!Conforms
  <1> DEFINE b     == Blocks[i]
             fires == PostFires(store', u, d, es)
  <1>1. Active(b) /\ Stops(b) /\ ~ Granted(store', u, b.rule)
    BY DEF Coc!InForce, Coc!Active, Active, Coc!Stops, Stops, Coc!Gate, Gate,
           Coc!DefaultAction, DefaultAction, Granted
  <1>2. Refusing(store', u, fires) = {}
    BY DEF PostCall, Allowed, Denied
  <1>3. i \notin fires
    BY <1>1, <1>2 DEF Refusing
  <1>4. Coc!InScope(b, u) <=> InScope(b, u)
    BY DEF Coc!InScope, InScope
  <1>5. /\ \A x \in Domains, m \in Marks :
             /\ held'[u][x][m] \in Nat
             /\ store'.ents[u][x][m] \in Nat /\ store'.seen[u][x] \in Nat
        /\ \A x \in Domains, e \in Entities : held'[u][x][e] <= store'.ents[u][x][e]
        /\ Backend = "redis" =>
             \A x \in Domains, m \in Marks : /\ held'[u][x][m] <= store'.ents[u][x][m]
                                             /\ held'[u][x][m] <= store'.seen[u][x]
    BY TtlAssumption DEF HoldingsType, StoreType, Covers
  <1>6. \A x \in Domains : Coc!HeldEntities(held', u, x) \subseteq EntitiesOf(store', u, x)
    BY <1>5 DEF Coc!HeldEntities, EntitiesOf, Marks
  <1> HIDE DEF b, fires
  <1>7. b = Blocks[i] /\ fires = PostFires(store', u, d, es)
    BY DEF b, fires
  <1>8. CASE Coc!SmallGroup(u, d, es, b)
    BY <1>1, <1>3, <1>4, <1>7, <1>8, SameCardinality DEF Coc!SmallGroup, GroupTooSmall, PostFires
  <1>9. CASE Coc!TooManyPeople(held', u, d, b)
    <2> DEFINE H == Coc!HeldEntities(held', u, d)
               E == EntitiesOf(store', u, d)
    <2>1. E \subseteq Entities /\ H \subseteq E
      BY <1>6 DEF EntitiesOf
    <2>2. b.kind = "entity_budget" /\ b.domain = d /\ Cardinality(H) > b.max
      BY <1>9, SameCardinality DEF Coc!TooManyPeople
    <2> HIDE DEF H, E
    <2>3. IsFiniteSet(E) /\ IsFiniteSet(H)
      BY <2>1, EntitiesAssumption, FS_Subset
    <2>4. /\ Cardinality(H) <= Cardinality(E)
          /\ Cardinality(H) \in Nat /\ Cardinality(E) \in Nat /\ b.max \in Nat
      BY <2>1, <2>3, <1>7, FS_Subset, FS_CardinalityType, PolicyAssumption
    <2>5. Cardinality(E) > b.max
      BY <2>2, <2>4
    <2> QED
      BY <2>2, <2>5, <1>1, <1>3, <1>7 DEF OverBudget, PostFires, E
  <1>10. CASE Coc!OwnAndOthers(held', u, d, b)
    <2>1. SelfCompared(store', u, d, b)
      BY <1>6, <1>10 DEF Coc!OwnAndOthers, SelfCompared
    <2> QED
      BY <2>1, <1>1, <1>3, <1>7 DEF PostFires
  <1>11. CASE Coc!ForbiddenCombination(held', u, d, b)
    <2>1. /\ b.kind = "domain_join" /\ d \in b.domains /\ InScope(b, u)
          /\ \A x \in b.domains : Coc!HeldDomain(held', u, x)
          /\ b.overlap => \E e \in Entities : \A x \in b.domains : e \in Coc!HeldEntities(held', u, x)
      BY <1>4, <1>11 DEF Coc!ForbiddenCombination
    <2>2. b.domains \subseteq Domains
      BY <1>7, <2>1, PolicyAssumption
    <2>3. b.overlap => \E e \in Entities : \A x \in b.domains : e \in EntitiesOf(store', u, x)
      BY <1>6, <2>1, <2>2
    <2>4. b.domains \subseteq DomainsOf(Backend, store', u)
      <3>1. CASE Backend = "redis"
        <4>1. \A x \in b.domains : BucketLive(store', u, x) /\ store'.seen[u][x] > 0
          BY <1>5, <2>1, <2>2, <3>1 DEF Coc!HeldDomain, BucketLive, Coc!Marks, Marks
        <4> QED
          BY <2>2, <4>1 DEF DomainsOf
      <3>2. CASE Backend = "memory"
        <4>1. b.overlap
          BY <1>7, <2>1, <3>2 DEF JoinsOverlap
        <4>2. \A x \in b.domains : BucketLive(store', u, x)
          BY <2>3, <4>1 DEF EntitiesOf, BucketLive, Marks
        <4> QED
          BY <2>2, <3>2, <4>2 DEF DomainsOf
      <3> QED
        BY <3>1, <3>2, BackendAssumption DEF Backends
    <2>5. JoinComplete(store', u, d, b)
      BY <2>1, <2>3, <2>4 DEF JoinComplete
    <2> QED
      BY <2>5, <1>1, <1>3, <1>7 DEF PostFires
  <1> QED
    BY <1>7, <1>8, <1>9, <1>10, <1>11 DEF Coc!Breaks

=============================================================================
