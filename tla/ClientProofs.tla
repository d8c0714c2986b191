---------------------------- MODULE ClientProofs ----------------------------
(* What holds of the programs that put calls to an engine, for every policy, *)
(* script, document and machine: the dry run of a plan (Sessions), the rules *)
(* that ingest and lint speak of (Authoring) and the fix of scan (Scan).     *)
EXTENDS Sessions, Authoring, Scan, HoldingsProofs, SequenceTheorems

-----------------------------------------------------------------------------
(* What a store knows.                                                       *)

(* The marks that still count in a bucket, and that Redis's set of domains   *)
(* has every domain with such a mark.                                        *)
LiveMarks(st, u, d) == {m \in Marks : st.ents[u][d][m] > 0}

SeenLive(st) ==
    Backend = "redis" =>
        \A u \in Users, d \in Domains : LiveMarks(st, u, d) # {} => st.seen[u][d] > 0

(* A record adds the entities and the marker to one bucket, in either store. *)
LEMMA RecordMarks ==
  ASSUME NEW b \in Backends, NEW st \in StoreType, NEW u \in Users, NEW d \in Domains,
         NEW es \in SUBSET Entities
  PROVE  LET rec == Record(b, st, u, d, es, Ttl) IN
         /\ rec \in StoreType /\ rec.grants = st.grants
         /\ \A v \in Users, x \in Domains :
              LiveMarks(rec, v, x) = IF v = u /\ x = d THEN LiveMarks(st, u, d) \cup es \cup {Touched}
                                     ELSE LiveMarks(st, v, x)
  <1> DEFINE rec == Record(b, st, u, d, es, Ttl)
  <1>1. rec \in StoreType
    BY RecordType, TtlAssumption
  <1>2. rec.grants = st.grants
    BY DEF Record, StoreType
  <1>3. \A v \in Users, x \in Domains : ~ (v = u /\ x = d) => rec.ents[v][x] = st.ents[v][x]
    BY DEF Record, StoreType
  <1>4. \A m \in Marks : rec.ents[u][d][m] > 0 <=> (st.ents[u][d][m] > 0 \/ m \in es \cup {Touched})
    <2>1. \A m \in Marks : st.ents[u][d][m] \in Nat
      BY DEF StoreType
    <2>2. CASE b = "memory"
      <3>1. rec.ents[u][d] = MemoryBucket(st.ents[u][d], es, Ttl)
        BY <2>2 DEF Record, StoreType
      <3> HIDE DEF rec
      <3> QED
        BY <2>1, <3>1, TtlAssumption DEF MemoryBucket
    <2>3. CASE b = "redis"
      <3>1. rec.ents[u][d] = RedisBucket(st.ents[u][d], es, Ttl)
        BY <2>3 DEF Record, StoreType
      <3> HIDE DEF rec
      <3> QED
        BY <2>1, <3>1, TtlAssumption DEF RedisBucket
    <2> QED
      BY <2>2, <2>3 DEF Backends
  <1> HIDE DEF rec
  <1>5. es \cup {Touched} \subseteq Marks
    BY DEF Marks
  <1> QED
    BY <1>1, <1>2, <1>3, <1>4, <1>5 DEF LiveMarks, rec

(* A record enters the domain into Redis's set of domains, and keeps it.     *)
LEMMA RecordSeen ==
  ASSUME NEW st \in StoreType, SeenLive(st), NEW u \in Users, NEW d \in Domains,
         NEW es \in SUBSET Entities
  PROVE  SeenLive(Record(Backend, st, u, d, es, Ttl))
  <1> DEFINE rec == Record(Backend, st, u, d, es, Ttl)
  <1> SUFFICES ASSUME Backend = "redis", NEW v \in Users, NEW x \in Domains,
                      LiveMarks(rec, v, x) # {}
               PROVE  rec.seen[v][x] > 0
    BY DEF SeenLive
  <1>1. LiveMarks(rec, v, x) = IF v = u /\ x = d THEN LiveMarks(st, u, d) \cup es \cup {Touched}
                               ELSE LiveMarks(st, v, x)
    BY RecordMarks, BackendAssumption
  <1>2. /\ st.seen[v][x] \in Nat
        /\ rec.seen[v][x] = IF v = u THEN IF x = d \/ st.seen[v][x] > 0 THEN Ttl ELSE 0
                            ELSE st.seen[v][x]
    BY DEF Record, RedisSeen, StoreType
  <1> HIDE DEF rec
  <1> QED
    BY <1>1, <1>2, TtlAssumption DEF SeenLive

(* What the engine reads of a store is in its marks.                         *)
LEMMA KnownIs ==
  ASSUME NEW st \in StoreType, NEW u \in Users
  PROVE  /\ SeenLive(st) => DomainsOf(Backend, st, u) = {d \in Domains : LiveMarks(st, u, d) # {}}
         /\ Sim!DomainsOf("memory", st, u) = {d \in Domains : LiveMarks(st, u, d) # {}}
         /\ \A d \in Domains : /\ EntitiesOf(st, u, d) = LiveMarks(st, u, d) \cap Entities
                               /\ Sim!EntitiesOf(st, u, d) = LiveMarks(st, u, d) \cap Entities
  <1>1. \A d \in Domains : BucketLive(st, u, d) <=> LiveMarks(st, u, d) # {}
    BY DEF BucketLive, LiveMarks
  <1>2. SeenLive(st) => DomainsOf(Backend, st, u) = {d \in Domains : LiveMarks(st, u, d) # {}}
    BY <1>1, BackendAssumption DEF DomainsOf, SeenLive, Backends
  <1>3. Sim!DomainsOf("memory", st, u) = {d \in Domains : LiveMarks(st, u, d) # {}}
    BY DEF Sim!DomainsOf, Sim!BucketLive, Sim!Marks, Marks, LiveMarks
  <1> QED
    BY <1>2, <1>3 DEF EntitiesOf, Sim!EntitiesOf, LiveMarks, Marks

(* The two of the engine and of a dry run.                                   *)
LEMMA Recorded ==
  ASSUME NEW st \in StoreType, SeenLive(st), NEW u \in Users, NEW d \in Domains,
         NEW es \in SUBSET Entities, NEW rec, rec = Record(Backend, st, u, d, es, Ttl)
  PROVE  /\ rec \in StoreType /\ rec.grants = st.grants /\ SeenLive(rec)
         /\ \A v \in Users, x \in Domains :
              LiveMarks(rec, v, x) = IF v = u /\ x = d THEN LiveMarks(st, u, d) \cup es \cup {Touched}
                                     ELSE LiveMarks(st, v, x)
  BY RecordMarks, RecordSeen, BackendAssumption

LEMMA SimRecorded ==
  ASSUME NEW st \in StoreType, NEW u \in Users, NEW d \in Domains,
         NEW es \in SUBSET Entities, NEW rec, rec = Record("memory", st, u, d, es, Ttl)
  PROVE  /\ rec \in StoreType /\ rec.grants = st.grants
         /\ \A v \in Users, x \in Domains :
              LiveMarks(rec, v, x) = IF v = u /\ x = d THEN LiveMarks(st, u, d) \cup es \cup {Touched}
                                     ELSE LiveMarks(st, v, x)
  BY RecordMarks DEF Backends

-----------------------------------------------------------------------------
(* The engine of a dry run beside the one that answers.                      *)

(* What both say of a block, and of a decision.                              *)
LEMMA SimSame ==
  /\ \A b : Sim!Active(b) <=> Active(b)
  /\ \A b, u : Sim!InScope(b, u) <=> InScope(b, u)
  /\ \A b : Sim!Gate(b) = Gate(b) /\ (Sim!Stops(b) <=> Stops(b))
  /\ \A u, d, w, b : Sim!GateFires(u, d, w, b) <=> GateFires(u, d, w, b)
  /\ \A u, d, es, b : Sim!GroupTooSmall(u, d, es, b) <=> GroupTooSmall(u, d, es, b)
  /\ \A st, u, r : Sim!Granted(st, u, r) <=> Granted(st, u, r)
  /\ \A st, u, t, a : Sim!CheckArgs(st, u, t, a) = CheckArgs(st, u, t, a)
  /\ \A S : Sim!Cardinality(S) = Cardinality(S)
  /\ \A S : Sim!First(S) = First(S)
  /\ \A b : Sim!Denied(b) = Denied(b) /\ Sim!Waived(b) = Waived(b) /\ (Sim!Waivable(b) <=> Waivable(b))
  /\ Sim!Allowed = Allowed
  <1>1. \A b : Sim!Active(b) <=> Active(b)
    BY DEF Sim!Active, Active
  <1>2. \A b, u : Sim!InScope(b, u) <=> InScope(b, u)
    BY DEF Sim!InScope, InScope
  <1>3. \A b : Sim!Gate(b) = Gate(b) /\ (Sim!Stops(b) <=> Stops(b))
    BY DEF Sim!Gate, Gate, Sim!DefaultAction, DefaultAction, Sim!Stops, Stops
  <1>4. \A S : Sim!Cardinality(S) = Cardinality(S)
    BY DEF Sim!Cardinality, Cardinality
  <1>5. \A S : Sim!First(S) = First(S)
    BY DEF Sim!First, First
  <1>6. Sim!Allowed = Allowed
    BY DEF Sim!Allowed, Allowed
  <1>7. \A b : Sim!Denied(b) = Denied(b) /\ Sim!Waived(b) = Waived(b)
    BY <1>3, <1>6 DEF Sim!Denied, Denied, Sim!Waived, Waived
  <1>8. \A b : Sim!Waivable(b) <=> Waivable(b)
    BY <1>3 DEF Sim!Waivable, Waivable
  <1>9. \A u, d, w, b : Sim!GateFires(u, d, w, b) <=> GateFires(u, d, w, b)
    BY <1>2, <1>3 DEF Sim!GateFires, GateFires, Sim!AppliesTo, AppliesTo
  <1>10. \A u, d, es, b : Sim!GroupTooSmall(u, d, es, b) <=> GroupTooSmall(u, d, es, b)
    BY <1>2, <1>4 DEF Sim!GroupTooSmall, GroupTooSmall
  <1>11. \A st, u, r : Sim!Granted(st, u, r) <=> Granted(st, u, r)
    BY DEF Sim!Granted, Granted
  <1>12. \A st, u, t, a : Sim!CheckArgs(st, u, t, a) = CheckArgs(st, u, t, a)
    BY DEF Sim!CheckArgs, CheckArgs, Sim!ArgFires, ArgFires, Sim!Active, Active, Sim!InScope, InScope,
           Sim!Stops, Stops, Sim!Gate, Gate, Sim!DefaultAction, DefaultAction, Sim!First, First,
           Sim!Allowed, Allowed, Sim!Alerting, Alerting, Sim!Waived, Waived, Sim!Denied, Denied,
           Sim!Granted, Granted
  <1> QED
    BY <1>1, <1>2, <1>3, <1>4, <1>5, <1>6, <1>7, <1>8, <1>9, <1>10, <1>11, <1>12

(* Both stores record alike in memory.                                       *)
LEMMA SimRecord ==
  \A st, u, d, es, t : Sim!Record("memory", st, u, d, es, t) = Record("memory", st, u, d, es, t)
  BY DEF Sim!Record, Record, Sim!MemoryBucket, MemoryBucket, Sim!RedisBucket, RedisBucket,
         Sim!RedisSeen, RedisSeen, Sim!Marks, Marks

(* A user without grants is let through before the fetch if no block fires,  *)
(* and after it if none that stops calls does.                               *)
NoGrants(st, u) == \A r \in RuleIds : ~ Granted(st, u, r)

LEMMA Ungranted ==
  ASSUME NEW st, NEW u, NoGrants(st, u), NEW d, NEW w, NEW es, NEW t, NEW a
  PROVE  /\ PreCall(st, u, d, w) = IF PreFires(st, u, d, w) = {} THEN Allowed
                                   ELSE Denied(Blocks[First(PreFires(st, u, d, w))])
         /\ Refusing(st, u, PostFires(st, u, d, es)) = {i \in PostFires(st, u, d, es) : Stops(Blocks[i])}
         /\ CheckArgs(st, u, t, a) = IF ArgFires(u, t, a) = {} THEN Allowed
                                     ELSE IF Stops(Blocks[First(ArgFires(u, t, a))])
                                     THEN Denied(Blocks[First(ArgFires(u, t, a))])
                                     ELSE Alerting(Blocks[First(ArgFires(u, t, a))])
  <1>1. \A i \in DOMAIN Blocks : ~ Granted(st, u, Blocks[i].rule)
    BY PolicyAssumption DEF NoGrants
  <1>2. PreFires(st, u, d, w) \in SUBSET DOMAIN Blocks /\ PostFires(st, u, d, es) \in SUBSET DOMAIN Blocks
        /\ ArgFires(u, t, a) \in SUBSET DOMAIN Blocks
    BY DEF PreFires, PostFires, ArgFires
  <1>3. \A S \in SUBSET DOMAIN Blocks : S # {} => First(S) \in DOMAIN Blocks
    <2> TAKE S \in SUBSET DOMAIN Blocks
    <2>1. S \in SUBSET Nat
      BY PolicyAssumption
    <2> QED
      BY <2>1, FirstIsOne
  <1>4. PreFires(st, u, d, w) # {} => ~ Granted(st, u, Blocks[First(PreFires(st, u, d, w))].rule)
    BY <1>1, <1>2, <1>3
  <1>5. ArgFires(u, t, a) # {} => ~ Granted(st, u, Blocks[First(ArgFires(u, t, a))].rule)
    BY <1>1, <1>2, <1>3
  <1>6. PreCall(st, u, d, w) = IF PreFires(st, u, d, w) = {} THEN Allowed
                               ELSE Denied(Blocks[First(PreFires(st, u, d, w))])
    BY <1>4 DEF PreCall
  <1>7. Refusing(st, u, PostFires(st, u, d, es)) = {i \in PostFires(st, u, d, es) : Stops(Blocks[i])}
    BY <1>1, <1>2 DEF Refusing
  <1>8. CheckArgs(st, u, t, a) = IF ArgFires(u, t, a) = {} THEN Allowed
                                 ELSE IF Stops(Blocks[First(ArgFires(u, t, a))])
                                 THEN Denied(Blocks[First(ArgFires(u, t, a))])
                                 ELSE Alerting(Blocks[First(ArgFires(u, t, a))])
    BY <1>5 DEF CheckArgs
  <1> QED
    BY <1>6, <1>7, <1>8

(* The decisions there are.                                                  *)
LEMMA Decisions ==
  /\ Allowed \in Decision
  /\ \A b : b.rule \in RuleIds => Waived(b) \in Decision /\ Denied(b) \in Decision /\ Alerting(b) \in Decision
  /\ \A b : ~ Denied(b).allow /\ Waived(b).allow /\ Alerting(b).allow
  /\ Allowed.allow
  BY DEF Decision, Allowed, Waived, Denied, Alerting

(* Decisions of the dry run are decisions.                                   *)
LEMMA SimTypes ==
  ASSUME NEW st, NEW u, NEW d, NEW w, NEW es
  PROVE  Sim!PreCall(st, u, d, w) \in Decision /\ Sim!PostCall(st, u, d, es) \in Decision
  <1> DEFINE pre     == Sim!PreFires(st, u, d, w)
             fires   == Sim!PostFires(st, u, d, es)
             refuses == Sim!Refusing(st, u, fires)
  <1>1. pre \in SUBSET DOMAIN Blocks /\ fires \in SUBSET DOMAIN Blocks /\ refuses \in SUBSET fires
    BY DEF Sim!PreFires, Sim!PostFires, Sim!Refusing
  <1>2. Sim!PreCall(st, u, d, w) = IF pre = {} THEN Allowed
                                   ELSE IF Waivable(Blocks[First(pre)]) /\ Granted(st, u, Blocks[First(pre)].rule)
                                   THEN Waived(Blocks[First(pre)]) ELSE Denied(Blocks[First(pre)])
    <2> HIDE DEF pre
    <2> QED
      BY SimSame DEF Sim!PreCall, pre
  <1>3. Sim!PostCall(st, u, d, es) =
          IF refuses = {} THEN [Allowed EXCEPT !.alerts = {Blocks[j].rule : j \in fires}]
          ELSE [Denied(Blocks[First(refuses)]) EXCEPT !.alerts =
                  IF Blocks[First(refuses)].kind = "domain_join"
                  THEN {Blocks[j].rule : j \in {n \in fires : n < First(refuses)}} ELSE {}]
    <2> HIDE DEF fires, refuses
    <2> QED
      BY SimSame DEF Sim!PostCall, fires, refuses
  <1> HIDE DEF pre, fires, refuses
  <1>4. Sim!PreCall(st, u, d, w) \in Decision
    <2>1. pre # {} => Blocks[First(pre)].rule \in RuleIds
      BY <1>1, BlockRule
    <2> QED
      BY <1>2, <2>1, Decisions
  <1>5. \A S \in SUBSET DOMAIN Blocks : {Blocks[j].rule : j \in S} \in SUBSET RuleIds
    BY PolicyAssumption
  <1>6. \A n : {j \in fires : j < n} \in SUBSET DOMAIN Blocks
    BY <1>1
  <1>7. refuses # {} => Blocks[First(refuses)].rule \in RuleIds
    BY <1>1, BlockRule
  <1>8. /\ {Blocks[j].rule : j \in {n \in fires : n < First(refuses)}} \in SUBSET RuleIds
        /\ {Blocks[j].rule : j \in fires} \in SUBSET RuleIds
        /\ {} \in SUBSET RuleIds
    BY <1>1, <1>5, <1>6
  <1>9. Sim!PostCall(st, u, d, es) \in Decision
    BY <1>3, <1>7, <1>8 DEF Decision, Allowed, Denied
  <1> QED
    BY <1>4, <1>9

(* Whatever fires over a store that knows less fires over one that knows     *)
(* more, and what is about the answer alone fires if it names somebody.      *)
LEMMA FiresMore ==
  ASSUME NEW sim \in StoreType, NEW st \in StoreType, SeenLive(st), NEW u \in Users,
         \A x \in Domains : LiveMarks(sim, u, x) \subseteq LiveMarks(st, u, x),
         NEW d \in Domains, NEW es, NEW about, about \in {{}, es}
  PROVE  /\ \A w : Sim!PreFires(sim, u, d, w) \subseteq PreFires(st, u, d, w)
         /\ Sim!PostFires(sim, u, d, about) \subseteq PostFires(st, u, d, es)
  <1>1. Sim!DomainsOf("memory", sim, u) \subseteq DomainsOf(Backend, st, u)
    BY KnownIs
  <1>2. \A x \in Domains : Sim!EntitiesOf(sim, u, x) \subseteq EntitiesOf(st, u, x)
    BY KnownIs
  <1>3. \A i \in DOMAIN Blocks : Blocks[i].kind = "domain_join" => Blocks[i].domains \subseteq Domains
    BY PolicyAssumption
  <1>4. \A w : \A i \in DOMAIN Blocks : Sim!FlowFires(sim, u, d, w, Blocks[i]) => FlowFires(st, u, d, w, Blocks[i])
    BY <1>1, SimSame DEF Sim!FlowFires, FlowFires
  <1>5. \A i \in DOMAIN Blocks : Sim!JoinWouldComplete(sim, u, d, Blocks[i]) => JoinWouldComplete(st, u, d, Blocks[i])
    BY <1>1, <1>2, <1>3, SimSame DEF Sim!JoinWouldComplete, JoinWouldComplete
  <1>6. \A w : Sim!PreFires(sim, u, d, w) \subseteq PreFires(st, u, d, w)
    BY <1>4, <1>5, SimSame DEF Sim!PreFires, PreFires
  <1>7. \A i \in DOMAIN Blocks : Sim!GroupTooSmall(u, d, about, Blocks[i]) => GroupTooSmall(u, d, es, Blocks[i])
    <2>1. Cardinality({}) = 0
      BY FS_EmptySet
    <2> QED
      BY <2>1, SimSame DEF GroupTooSmall
  <1>8. \A i \in DOMAIN Blocks : Sim!OverBudget(sim, u, d, Blocks[i]) => OverBudget(st, u, d, Blocks[i])
    <2>1. IsFiniteSet(EntitiesOf(st, u, d))
      BY EntitiesAssumption, FS_Subset DEF EntitiesOf
    <2>2. /\ Cardinality(Sim!EntitiesOf(sim, u, d)) <= Cardinality(EntitiesOf(st, u, d))
          /\ Cardinality(Sim!EntitiesOf(sim, u, d)) \in Nat /\ Cardinality(EntitiesOf(st, u, d)) \in Nat
      BY <1>2, <2>1, FS_Subset, FS_CardinalityType
    <2>3. \A i \in DOMAIN Blocks : Blocks[i].max \in Nat
      BY PolicyAssumption
    <2> QED
      BY <2>2, <2>3, SimSame DEF Sim!OverBudget, OverBudget
  <1>9. \A i \in DOMAIN Blocks : Sim!SelfCompared(sim, u, d, Blocks[i]) => SelfCompared(st, u, d, Blocks[i])
    BY <1>2 DEF Sim!SelfCompared, SelfCompared
  <1>10. \A i \in DOMAIN Blocks : Sim!JoinComplete(sim, u, d, Blocks[i]) => JoinComplete(st, u, d, Blocks[i])
    BY <1>1, <1>2, <1>3, SimSame DEF Sim!JoinComplete, JoinComplete
  <1>11. Sim!PostFires(sim, u, d, about) \subseteq PostFires(st, u, d, es)
    BY <1>7, <1>8, <1>9, <1>10, SimSame DEF Sim!PostFires, PostFires
  <1> QED
    BY <1>6, <1>11

(* The domains whose entities a block looks at.                              *)
Watched ==
    {d \in Domains : \E i \in DOMAIN Blocks :
        \/ Blocks[i].kind \in {"min_group", "entity_budget", "self_comparison"} /\ Blocks[i].domain = d
        \/ Blocks[i].kind = "domain_join" /\ d \in Blocks[i].domains}

(* Two stores that no check tells apart for a user.                          *)
Alike(sim, st, u) ==
    /\ \A d \in Domains : LiveMarks(sim, u, d) = {} <=> LiveMarks(st, u, d) = {}
    /\ \A d \in Watched : LiveMarks(sim, u, d) = LiveMarks(st, u, d)

LEMMA FiresSame ==
  ASSUME NEW sim \in StoreType, NEW st \in StoreType, SeenLive(st), NEW u \in Users,
         Alike(sim, st, u),
         NEW d \in Domains, NEW es, NEW about, d \in Watched => about = es
  PROVE  /\ \A w : Sim!PreFires(sim, u, d, w) = PreFires(st, u, d, w)
         /\ Sim!PostFires(sim, u, d, about) = PostFires(st, u, d, es)
  <1>1. Sim!DomainsOf("memory", sim, u) = DomainsOf(Backend, st, u)
    <2>1. /\ DomainsOf(Backend, st, u) = {x \in Domains : LiveMarks(st, u, x) # {}}
          /\ Sim!DomainsOf("memory", sim, u) = {x \in Domains : LiveMarks(sim, u, x) # {}}
      BY KnownIs
    <2> QED
      BY <2>1 DEF Alike
  <1>2. \A x \in Watched : Sim!EntitiesOf(sim, u, x) = EntitiesOf(st, u, x)
    <2> TAKE x \in Watched
    <2>1. x \in Domains
      BY DEF Watched
    <2>2. LiveMarks(sim, u, x) = LiveMarks(st, u, x)
      BY DEF Alike
    <2>3. Sim!EntitiesOf(sim, u, x) = LiveMarks(sim, u, x) \cap Entities
      BY <2>1, KnownIs
    <2>4. EntitiesOf(st, u, x) = LiveMarks(st, u, x) \cap Entities
      BY <2>1, KnownIs
    <2> QED
      BY <2>2, <2>3, <2>4
  <1>3. \A i \in DOMAIN Blocks : Blocks[i].kind = "domain_join" => Blocks[i].domains \subseteq Watched
    BY PolicyAssumption DEF Watched
  <1>4. \A i \in DOMAIN Blocks : /\ Blocks[i].kind \in {"min_group", "entity_budget", "self_comparison"}
                                 /\ Blocks[i].domain = d
                                 => d \in Watched
    BY DEF Watched
  <1>5. \A w : \A i \in DOMAIN Blocks : Sim!FlowFires(sim, u, d, w, Blocks[i]) <=> FlowFires(st, u, d, w, Blocks[i])
    BY <1>1, SimSame DEF Sim!FlowFires, FlowFires
  <1>6. \A i \in DOMAIN Blocks : Sim!JoinWouldComplete(sim, u, d, Blocks[i]) <=> JoinWouldComplete(st, u, d, Blocks[i])
    <2> TAKE i \in DOMAIN Blocks
    <2>1. Blocks[i].kind = "domain_join" =>
            \A x \in Blocks[i].domains : Sim!EntitiesOf(sim, u, x) = EntitiesOf(st, u, x)
      BY <1>2, <1>3
    <2> QED
      BY <1>1, <2>1, SimSame DEF Sim!JoinWouldComplete, JoinWouldComplete
  <1>7. \A w : Sim!PreFires(sim, u, d, w) = PreFires(st, u, d, w)
    BY <1>5, <1>6, SimSame DEF Sim!PreFires, PreFires
  <1>8. \A i \in DOMAIN Blocks : Sim!GroupTooSmall(u, d, about, Blocks[i]) <=> GroupTooSmall(u, d, es, Blocks[i])
    BY <1>4, SimSame DEF GroupTooSmall
  <1>9. \A i \in DOMAIN Blocks : Sim!OverBudget(sim, u, d, Blocks[i]) <=> OverBudget(st, u, d, Blocks[i])
    BY <1>2, <1>4, SimSame DEF Sim!OverBudget, OverBudget
  <1>10. \A i \in DOMAIN Blocks : Sim!SelfCompared(sim, u, d, Blocks[i]) <=> SelfCompared(st, u, d, Blocks[i])
    BY <1>2, <1>4 DEF Sim!SelfCompared, SelfCompared
  <1>11. \A i \in DOMAIN Blocks : Sim!JoinComplete(sim, u, d, Blocks[i]) <=> JoinComplete(st, u, d, Blocks[i])
    <2> TAKE i \in DOMAIN Blocks
    <2>1. Blocks[i].kind = "domain_join" =>
            \A x \in Blocks[i].domains : Sim!EntitiesOf(sim, u, x) = EntitiesOf(st, u, x)
      BY <1>2, <1>3
    <2> QED
      BY <1>1, <2>1, SimSame DEF Sim!JoinComplete, JoinComplete
  <1>12. Sim!PostFires(sim, u, d, about) = PostFires(st, u, d, es)
    BY <1>8, <1>9, <1>10, <1>11, SimSame DEF Sim!PostFires, PostFires
  <1> QED
    BY <1>7, <1>12

(* A dry run, and the engine over a user without grants: the same verdicts   *)
(* where the same blocks fire, and at least its refusals where more do.      *)
LEMMA SameVerdict ==
  ASSUME NEW sim, NEW st, NEW u, NoGrants(sim, u), NoGrants(st, u), NEW d, NEW es, NEW about
  PROVE  /\ \A w : Sim!PreFires(sim, u, d, w) = PreFires(st, u, d, w) =>
                     Sim!PreCall(sim, u, d, w) = PreCall(st, u, d, w)
         /\ Sim!PostFires(sim, u, d, about) = PostFires(st, u, d, es) =>
                     Sim!PostCall(sim, u, d, about) = PostCall(st, u, d, es)
  <1>1. \A i \in DOMAIN Blocks : ~ Granted(sim, u, Blocks[i].rule) /\ ~ Granted(st, u, Blocks[i].rule)
    BY PolicyAssumption DEF NoGrants
  <1>2. ASSUME NEW w, Sim!PreFires(sim, u, d, w) = PreFires(st, u, d, w)
        PROVE  Sim!PreCall(sim, u, d, w) = PreCall(st, u, d, w)
    <2> DEFINE S == PreFires(st, u, d, w)
    <2>1. S \in SUBSET DOMAIN Blocks /\ S \in SUBSET Nat
      BY PolicyAssumption DEF PreFires
    <2>2. Sim!PreCall(sim, u, d, w) =
            IF S = {} THEN Allowed
            ELSE IF Waivable(Blocks[First(S)]) /\ Granted(sim, u, Blocks[First(S)].rule)
                 THEN Waived(Blocks[First(S)]) ELSE Denied(Blocks[First(S)])
      BY <1>2, SimSame DEF Sim!PreCall
    <2>3. PreCall(st, u, d, w) =
            IF S = {} THEN Allowed
            ELSE IF Waivable(Blocks[First(S)]) /\ Granted(st, u, Blocks[First(S)].rule)
                 THEN Waived(Blocks[First(S)]) ELSE Denied(Blocks[First(S)])
      BY DEF PreCall
    <2> HIDE DEF S
    <2>4. S # {} => ~ Granted(sim, u, Blocks[First(S)].rule) /\ ~ Granted(st, u, Blocks[First(S)].rule)
      BY <1>1, <2>1, FirstIsOne
    <2> QED
      BY <2>2, <2>3, <2>4
  <1>3. ASSUME Sim!PostFires(sim, u, d, about) = PostFires(st, u, d, es)
        PROVE  Sim!PostCall(sim, u, d, about) = PostCall(st, u, d, es)
    <2> DEFINE S == PostFires(st, u, d, es)
    <2>1. S \in SUBSET DOMAIN Blocks
      BY DEF PostFires
    <2>2. Sim!Refusing(sim, u, S) = Refusing(st, u, S)
      BY <1>1, <2>1, SimSame DEF Sim!Refusing, Refusing
    <2> QED
      BY <1>3, <2>2, SimSame DEF Sim!PostCall, PostCall
  <1> QED
    BY <1>2, <1>3

LEMMA RefusesMore ==
  ASSUME NEW sim, NEW st, NEW u, NoGrants(st, u), NEW d, NEW es, NEW about
  PROVE  /\ \A w : Sim!PreFires(sim, u, d, w) \subseteq PreFires(st, u, d, w) /\ ~ Sim!PreCall(sim, u, d, w).allow
                     => ~ PreCall(st, u, d, w).allow
         /\ Sim!PostFires(sim, u, d, about) \subseteq PostFires(st, u, d, es) /\ ~ Sim!PostCall(sim, u, d, about).allow
                     => ~ PostCall(st, u, d, es).allow
  <1>1. ASSUME NEW w, Sim!PreFires(sim, u, d, w) \subseteq PreFires(st, u, d, w), ~ Sim!PreCall(sim, u, d, w).allow
        PROVE  ~ PreCall(st, u, d, w).allow
    <2>1. Sim!PreFires(sim, u, d, w) # {}
      BY <1>1, SimSame DEF Sim!PreCall, Allowed
    <2>2. PreFires(st, u, d, w) # {}
      BY <1>1, <2>1
    <2>3. PreCall(st, u, d, w) = Denied(Blocks[First(PreFires(st, u, d, w))])
      BY <2>2, Ungranted
    <2> QED
      BY <2>3, Decisions
  <1>2. ASSUME Sim!PostFires(sim, u, d, about) \subseteq PostFires(st, u, d, es), ~ Sim!PostCall(sim, u, d, about).allow
        PROVE  ~ PostCall(st, u, d, es).allow
    <2>1. Sim!Refusing(sim, u, Sim!PostFires(sim, u, d, about)) # {}
      BY <1>2, SimSame DEF Sim!PostCall, Allowed
    <2>2. Refusing(st, u, PostFires(st, u, d, es)) # {}
      <3>1. PICK i \in Sim!PostFires(sim, u, d, about) : Sim!Stops(Blocks[i])
        BY <2>1 DEF Sim!Refusing
      <3>2. i \in PostFires(st, u, d, es) /\ Stops(Blocks[i])
        BY <1>2, <3>1, SimSame
      <3> QED
        BY <3>2, Ungranted
    <2> QED
      BY <2>2 DEF PostCall, Denied, Allowed
  <1> QED
    BY <1>1, <1>2

-----------------------------------------------------------------------------
(* A call, and a step of a dry run.                                          *)

(* What a call leaves: nothing if it is refused before the fetch, else the   *)
(* answer recorded; either way what every user has pulled stays known.       *)
LEMMA CalledIs ==
  ASSUME NEW st \in StoreType, SeenLive(st), NEW u \in Users, NEW t \in Tools, NEW a
  PROVE  LET c == Called(st, u, t, a) IN
         /\ c.decision \in Decision
         /\ c.store \in StoreType /\ c.store.grants = st.grants /\ SeenLive(c.store)
         /\ \A v \in Users, d \in Domains :
              /\ LiveMarks(st, v, d) \subseteq LiveMarks(c.store, v, d)
              /\ v # u => LiveMarks(st, v, d) = LiveMarks(c.store, v, d)
         /\ c.decision.allow => c.store = Record(Backend, st, u, DomainOf[t], PeopleIn[t], Ttl)
  <1> DEFINE d   == DomainOf[t]
             es  == PeopleIn[t]
             rec == Record(Backend, st, u, d, es, Ttl)
             c   == Called(st, u, t, a)
  <1>1. d \in Domains /\ es \in SUBSET Entities
    BY SessionsAssumption
  <1>2. /\ rec \in StoreType /\ rec.grants = st.grants /\ SeenLive(rec)
        /\ \A v \in Users, x \in Domains :
             LiveMarks(rec, v, x) = IF v = u /\ x = d THEN LiveMarks(st, u, d) \cup es \cup {Touched}
                                    ELSE LiveMarks(st, v, x)
    <2> HIDE DEF d, es, rec
    <2>1. rec = Record(Backend, st, u, d, es, Ttl)
      BY DEF rec
    <2> QED
      BY <1>1, <2>1, Recorded
  <1>3. /\ CheckArgs(st, u, t, a) \in Decision /\ PreCall(st, u, d, t \in WriteTools) \in Decision
        /\ PostCall(rec, u, d, es) \in Decision
    BY CheckArgsType, PreCallType, PostCallType
  <1>4. \/ c.store = st /\ ~ c.decision.allow /\ c.decision \in Decision
        \/ c.store = rec /\ c.decision \in Decision
    <2> HIDE DEF d, es, rec
    <2> QED
      BY <1>3 DEF Called, d, es, rec
  <1> HIDE DEF rec, c, es
  <1>5. \A v \in Users, x \in Domains :
          /\ LiveMarks(st, v, x) \subseteq LiveMarks(c.store, v, x)
          /\ v # u => LiveMarks(st, v, x) = LiveMarks(c.store, v, x)
    BY <1>2, <1>4
  <1> QED
    BY <1>2, <1>4, <1>5 DEF c, rec, es

LEMMA SimulatedIs ==
  ASSUME NEW sim \in StoreType, NEW u \in Users, NEW t \in Tools, NEW a, NEW probe \in SUBSET Entities
  PROVE  LET s == Simulated(sim, u, t, a, probe) IN
         /\ s.decision \in Decision
         /\ s.store \in StoreType /\ s.store.grants = sim.grants
         /\ \A v \in Users, d \in Domains : v # u => LiveMarks(s.store, v, d) = LiveMarks(sim, v, d)
  <1> DEFINE d   == DomainOf[t]
             rec == Record("memory", sim, u, d, SimPeople(t, probe), Ttl)
             s   == Simulated(sim, u, t, a, probe)
  <1>1. d \in Domains /\ SimPeople(t, probe) \in SUBSET Entities
    BY SessionsAssumption DEF SimPeople
  <1>2. /\ rec \in StoreType /\ rec.grants = sim.grants
        /\ \A v \in Users, x \in Domains : v # u => LiveMarks(rec, v, x) = LiveMarks(sim, v, x)
    <2> HIDE DEF d, rec
    <2>1. rec = Record("memory", sim, u, d, SimPeople(t, probe), Ttl)
      BY DEF rec
    <2> QED
      BY <1>1, <2>1, SimRecorded
  <1>3. Sim!Record("memory", sim, u, d, SimPeople(t, probe), Ttl) = rec
    BY SimRecord
  <1>4. /\ SimArgs(sim, u, t, a) \in Decision
        /\ Sim!PreCall(sim, u, d, t \in WriteTools) \in Decision
        /\ Sim!PostCall(rec, u, d, SimPeople(t, probe)) \in Decision
    BY SimTypes, SimSame, CheckArgsType, Decisions DEF SimArgs
  <1>5. \/ s.store = sim /\ ~ s.decision.allow /\ s.decision \in Decision
        \/ s.store = rec /\ s.decision \in Decision
    <2> HIDE DEF d, rec
    <2> QED
      BY <1>3, <1>4 DEF Simulated, d, rec
  <1> HIDE DEF rec, s
  <1> QED
    BY <1>2, <1>5 DEF s

(* Knows(sim, st): whatever the one store has of anybody, the other has too. *)
Knows(sim, st) == \A v \in Users, d \in Domains : LiveMarks(sim, v, d) \subseteq LiveMarks(st, v, d)

(* A call that reads about the people named is refused if the dry run of it  *)
(* is, by an engine that knows at least as much; and it still does after it. *)
LEMMA RefusedThere ==
  ASSUME NEW sim \in StoreType, NEW st \in StoreType, SeenLive(st), Knows(sim, st),
         NEW u \in Users, NoGrants(sim, u), NoGrants(st, u),
         NEW t \in Tools, NEW a, NEW probe \in SUBSET Entities,
         t \in WriteTools \/ PeopleIn[t] = probe
  PROVE  LET s == Simulated(sim, u, t, a, probe)
             c == Called(st, u, t, a)
         IN  c.decision.allow => s.decision.allow /\ Knows(s.store, c.store)
  <1> DEFINE d    == DomainOf[t]
             es   == PeopleIn[t]
             who  == SimPeople(t, probe)
             rec  == Record(Backend, st, u, d, es, Ttl)
             srec == Record("memory", sim, u, d, who, Ttl)
             s    == Simulated(sim, u, t, a, probe)
             c    == Called(st, u, t, a)
  <1> SUFFICES ASSUME c.decision.allow
               PROVE  s.decision.allow /\ Knows(s.store, c.store)
    OBVIOUS
  <1>1. d \in Domains /\ es \in SUBSET Entities /\ who \in SUBSET Entities /\ who \in {{}, es}
    BY SessionsAssumption DEF SimPeople
  <1>2. /\ rec \in StoreType /\ rec.grants = st.grants /\ SeenLive(rec)
        /\ \A v \in Users, x \in Domains :
             LiveMarks(rec, v, x) = IF v = u /\ x = d THEN LiveMarks(st, u, d) \cup es \cup {Touched}
                                    ELSE LiveMarks(st, v, x)
    <2> HIDE DEF d, es, rec
    <2>1. rec = Record(Backend, st, u, d, es, Ttl)
      BY DEF rec
    <2> QED
      BY <1>1, <2>1, Recorded
  <1>3. /\ srec \in StoreType /\ srec.grants = sim.grants
        /\ \A v \in Users, x \in Domains :
             LiveMarks(srec, v, x) = IF v = u /\ x = d THEN LiveMarks(sim, u, d) \cup who \cup {Touched}
                                     ELSE LiveMarks(sim, v, x)
    <2> HIDE DEF d, who, srec
    <2>1. srec = Record("memory", sim, u, d, who, Ttl)
      BY DEF srec
    <2> QED
      BY <1>1, <2>1, SimRecorded
  <1>4. Knows(srec, rec)
    <2> HIDE DEF srec, rec, d, es, who
    <2> QED
      BY <1>1, <1>2, <1>3 DEF Knows
  <1>5. NoGrants(rec, u)
    BY <1>2 DEF NoGrants, Granted
  <1>6. /\ CheckArgs(st, u, t, a).allow /\ PreCall(st, u, d, t \in WriteTools).allow
        /\ PostCall(rec, u, d, es).allow /\ c.store = rec
    <2> HIDE DEF d, rec, es
    <2> QED
      BY DEF Called, d, rec, es
  <1>7. SimArgs(sim, u, t, a).allow
    <2>1. ArgFires(u, t, a) = {} \/ ~ Stops(Blocks[First(ArgFires(u, t, a))])
      BY <1>6, Ungranted, Decisions
    <2>2. CheckArgs(sim, u, t, a).allow
      BY <2>1, Ungranted, Decisions
    <2> QED
      BY <2>2, SimSame, Decisions DEF SimArgs
  <1>8. Sim!PreCall(sim, u, d, t \in WriteTools).allow
    <2>1. Sim!PreFires(sim, u, d, t \in WriteTools) \subseteq PreFires(st, u, d, t \in WriteTools)
      BY <1>1, FiresMore DEF Knows
    <2> QED
      BY <1>6, <2>1, RefusesMore
  <1>9. Sim!PostCall(srec, u, d, who).allow
    <2>1. Sim!PostFires(srec, u, d, who) \subseteq PostFires(rec, u, d, es)
      <3> HIDE DEF srec, rec, who, es, d
      <3> QED
        BY <1>1, <1>2, <1>3, <1>4, FiresMore DEF Knows
    <2> HIDE DEF srec, rec, who, es, d
    <2> QED
      BY <1>5, <1>6, <2>1, RefusesMore
  <1>10. s.decision.allow /\ s.store = srec
    <2> HIDE DEF d, srec, who
    <2> QED
      BY <1>7, <1>8, <1>9, SimRecord DEF Simulated, d, srec, who
  <1> QED
    BY <1>4, <1>6, <1>10

(* And it meets what the dry run says, by an engine no check tells apart, of *)
(* a write that says nothing or where no block looks at entities.            *)
QuietWrites == \A t \in WriteTools \cap Tools : PeopleIn[t] = {} \/ DomainOf[t] \notin Watched

LEMMA SameThere ==
  ASSUME NEW sim \in StoreType, NEW st \in StoreType, SeenLive(st),
         NEW u \in Users, Alike(sim, st, u), NoGrants(sim, u), NoGrants(st, u),
         NEW t \in Tools, NEW a, NEW probe \in SUBSET Entities,
         t \in WriteTools \/ PeopleIn[t] = probe, QuietWrites,
         \A i \in DOMAIN Blocks : NoArgs \notin Blocks[i].when
  PROVE  LET s == Simulated(sim, u, t, a, probe)
             c == Called(st, u, t, a)
         IN  /\ c.decision = s.decision
             /\ c.decision.allow => Alike(s.store, c.store, u)
  <1> DEFINE d    == DomainOf[t]
             es   == PeopleIn[t]
             who  == SimPeople(t, probe)
             rec  == Record(Backend, st, u, d, es, Ttl)
             srec == Record("memory", sim, u, d, who, Ttl)
             s    == Simulated(sim, u, t, a, probe)
             c    == Called(st, u, t, a)
  <1>1. d \in Domains /\ es \in SUBSET Entities /\ who \in SUBSET Entities /\ (d \in Watched => who = es)
    BY SessionsAssumption DEF SimPeople, QuietWrites
  <1>2. /\ rec \in StoreType /\ rec.grants = st.grants /\ SeenLive(rec)
        /\ \A v \in Users, x \in Domains :
             LiveMarks(rec, v, x) = IF v = u /\ x = d THEN LiveMarks(st, u, d) \cup es \cup {Touched}
                                    ELSE LiveMarks(st, v, x)
    <2> HIDE DEF d, es, rec
    <2>1. rec = Record(Backend, st, u, d, es, Ttl)
      BY DEF rec
    <2> QED
      BY <1>1, <2>1, Recorded
  <1>3. /\ srec \in StoreType /\ srec.grants = sim.grants
        /\ \A v \in Users, x \in Domains :
             LiveMarks(srec, v, x) = IF v = u /\ x = d THEN LiveMarks(sim, u, d) \cup who \cup {Touched}
                                     ELSE LiveMarks(sim, v, x)
    <2> HIDE DEF d, who, srec
    <2>1. srec = Record("memory", sim, u, d, who, Ttl)
      BY DEF srec
    <2> QED
      BY <1>1, <2>1, SimRecorded
  <1>4. Alike(srec, rec, u)
    <2> HIDE DEF srec, rec, d, es, who
    <2>1. \A x \in Domains : LiveMarks(srec, u, x) = {} <=> LiveMarks(rec, u, x) = {}
      BY <1>2, <1>3 DEF Alike
    <2>2. \A x \in Watched : LiveMarks(srec, u, x) = LiveMarks(rec, u, x)
      <3> TAKE x \in Watched
      <3>1. x \in Domains /\ LiveMarks(sim, u, x) = LiveMarks(st, u, x)
        BY DEF Watched, Alike
      <3> QED
        BY <1>1, <1>2, <1>3, <3>1
    <2> QED
      BY <2>1, <2>2 DEF Alike
  <1>5. NoGrants(rec, u) /\ NoGrants(srec, u)
    BY <1>2, <1>3 DEF NoGrants, Granted
  <1>6. SimArgs(sim, u, t, a) = CheckArgs(st, u, t, a)
    <2>1. Sim!CheckArgs(sim, u, t, a) = CheckArgs(st, u, t, a)
      <3>1. CheckArgs(sim, u, t, a) = CheckArgs(st, u, t, a)
        BY Ungranted
      <3> QED
        BY <3>1, SimSame
    <2>2. a = NoArgs => CheckArgs(st, u, t, a) = Allowed
      BY DEF CheckArgs, ArgFires
    <2>3. SimArgs(sim, u, t, a) = IF a = NoArgs THEN Allowed ELSE CheckArgs(st, u, t, a)
      BY <2>1 DEF SimArgs
    <2> QED
      BY <2>2, <2>3
  <1>7. Sim!PreCall(sim, u, d, t \in WriteTools) = PreCall(st, u, d, t \in WriteTools)
    <2> HIDE DEF d
    <2>1. Sim!PreFires(sim, u, d, t \in WriteTools) = PreFires(st, u, d, t \in WriteTools)
      BY <1>1, FiresSame
    <2> QED
      BY <2>1, SameVerdict
  <1>8. Sim!PostCall(srec, u, d, who) = PostCall(rec, u, d, es)
    <2> HIDE DEF srec, rec, who, es, d
    <2>1. Sim!PostFires(srec, u, d, who) = PostFires(rec, u, d, es)
      BY <1>1, <1>2, <1>3, <1>4, FiresSame
    <2> QED
      BY <1>5, <2>1, SameVerdict
  <1>9. /\ c = IF ~CheckArgs(st, u, t, a).allow THEN [store |-> st, decision |-> CheckArgs(st, u, t, a)]
               ELSE IF ~PreCall(st, u, d, t \in WriteTools).allow
                    THEN [store |-> st, decision |-> PreCall(st, u, d, t \in WriteTools)]
               ELSE [store |-> rec, decision |-> PostCall(rec, u, d, es)]
        /\ s = IF ~SimArgs(sim, u, t, a).allow THEN [store |-> sim, decision |-> SimArgs(sim, u, t, a)]
               ELSE IF ~PreCall(st, u, d, t \in WriteTools).allow
                    THEN [store |-> sim, decision |-> PreCall(st, u, d, t \in WriteTools)]
               ELSE [store |-> srec, decision |-> PostCall(rec, u, d, es)]
    <2>1. Sim!Record("memory", sim, u, d, who, Ttl) = srec
      BY SimRecord
    <2> HIDE DEF srec, rec, who, es, d
    <2> QED
      BY <1>7, <1>8, <2>1 DEF Called, Simulated, d, es, rec, who
  <1> HIDE DEF srec, rec, who, es, d, s, c
  <1> QED
    BY <1>4, <1>6, <1>9 DEF s, c

-----------------------------------------------------------------------------
(* A dry run, step by step.                                                  *)

(* The equation that Simulation's function is chosen to solve.               *)
Unrolls(f, plan, probe, n) ==
    f = [i \in 0..n |->
           IF i = 0 THEN [store |-> EmptyStore, decision |-> Allowed]
           ELSE IF ~f[i - 1].decision.allow THEN f[i - 1]
           ELSE Simulated(f[i - 1].store, plan[i].user, plan[i].tool, plan[i].args, probe)]

(* It has a solution, a step longer for every step of the plan.              *)
LEMMA SimulationUnrolls ==
  ASSUME NEW plan, Len(plan) \in Nat, NEW probe
  PROVE  Unrolls(Simulation(plan, probe), plan, probe, Len(plan))
  <1> DEFINE Unsolved == {n \in 0..Len(plan) : ~ \E f : Unrolls(f, plan, probe, n)}
             First0   == [store |-> EmptyStore, decision |-> Allowed]
  <1>1. Unsolved = {}
    <2> SUFFICES ASSUME Unsolved # {}
                 PROVE  FALSE
      OBVIOUS
    <2>1. Unsolved \in SUBSET Nat
      OBVIOUS
    <2>2. PICK n \in Unsolved : \A m \in Unsolved : n <= m
      BY <2>1, FirstIsOne
    <2>3. CASE n = 0
      <3>1. Unrolls([i \in 0..0 |-> First0], plan, probe, 0)
        BY DEF Unrolls
      <3> QED
        BY <2>2, <2>3, <3>1
    <2>4. CASE n # 0
      <3>1. n - 1 \in 0..Len(plan) /\ n - 1 \notin Unsolved /\ n \in Nat \ {0}
        BY <2>2, <2>4
      <3>2. PICK f : Unrolls(f, plan, probe, n - 1)
        BY <3>1
      <3> DEFINE last == IF ~f[n - 1].decision.allow THEN f[n - 1]
                         ELSE Simulated(f[n - 1].store, plan[n].user, plan[n].tool, plan[n].args, probe)
                 g    == [i \in 0..n |-> IF i = n THEN last ELSE f[i]]
      <3>3. Unrolls(g, plan, probe, n)
        <4>1. /\ \A i \in 0..(n - 1) : g[i] = f[i]
              /\ g[n] = last
          BY <3>1
        <4>2. \A i \in 0..(n - 1) : f[i] = IF i = 0 THEN First0
                 ELSE IF ~f[i - 1].decision.allow THEN f[i - 1]
                 ELSE Simulated(f[i - 1].store, plan[i].user, plan[i].tool, plan[i].args, probe)
          BY <3>1, <3>2 DEF Unrolls
        <4>3. \A i \in 0..n : g[i] = IF i = 0 THEN First0
                 ELSE IF ~g[i - 1].decision.allow THEN g[i - 1]
                 ELSE Simulated(g[i - 1].store, plan[i].user, plan[i].tool, plan[i].args, probe)
          <5> TAKE i \in 0..n
          <5>1. CASE i = n
            <6>1. g[i - 1] = f[n - 1] /\ i # 0
              BY <3>1, <4>1, <5>1
            <6> QED
              BY <4>1, <5>1, <6>1
          <5>2. CASE i # n
            <6>1. i \in 0..(n - 1) /\ (i # 0 => i - 1 \in 0..(n - 1))
              BY <3>1, <5>2
            <6> HIDE DEF g
            <6> QED
              BY <4>1, <4>2, <6>1
          <5> QED
            BY <5>1, <5>2
        <4>4. g = [i \in 0..n |-> g[i]]
          OBVIOUS
        <4> HIDE DEF g
        <4> QED
          BY <4>3, <4>4 DEF Unrolls
      <3> QED
        BY <2>2, <3>3
    <2> QED
      BY <2>3, <2>4
  <1>2. \E f : Unrolls(f, plan, probe, Len(plan))
    BY <1>1
  <1>3. Simulation(plan, probe) = CHOOSE f : Unrolls(f, plan, probe, Len(plan))
    BY DEF Simulation, Unrolls
  <1> QED
    BY <1>2, <1>3

(* What a step of a dry run comes to is a matter of the packs and the date.  *)
LEMMA SimStays ==
  ASSUME UNCHANGED <<packs, date>>
  PROVE  \A st, u, t, a, probe : Simulated(st, u, t, a, probe)' = Simulated(st, u, t, a, probe)
  <1>1. \A b : Sim!Active(b)' <=> Sim!Active(b)
    BY DEF Sim!Active
  <1>2. \A b, u : Sim!InScope(b, u)' <=> Sim!InScope(b, u)
    BY DEF Sim!InScope
  <1>3. \A st, u, d, w, b : Sim!FlowFires(st, u, d, w, b)' <=> Sim!FlowFires(st, u, d, w, b)
    BY <1>2 DEF Sim!FlowFires
  <1>4. \A u, d, w, b : Sim!GateFires(u, d, w, b)' <=> Sim!GateFires(u, d, w, b)
    BY <1>2 DEF Sim!GateFires
  <1>5. \A st, u, d, b : Sim!JoinWouldComplete(st, u, d, b)' <=> Sim!JoinWouldComplete(st, u, d, b)
    BY <1>2 DEF Sim!JoinWouldComplete
  <1>6. \A st, u, d, w : Sim!PreCall(st, u, d, w)' = Sim!PreCall(st, u, d, w)
    BY <1>1, <1>3, <1>4, <1>5 DEF Sim!PreCall, Sim!PreFires
  <1>7. \A u, d, es, b : Sim!GroupTooSmall(u, d, es, b)' <=> Sim!GroupTooSmall(u, d, es, b)
    BY <1>2 DEF Sim!GroupTooSmall
  <1>8. \A st, u, d, b : Sim!JoinComplete(st, u, d, b)' <=> Sim!JoinComplete(st, u, d, b)
    BY <1>2 DEF Sim!JoinComplete
  <1>9. \A st, u, d, es : Sim!PostCall(st, u, d, es)' = Sim!PostCall(st, u, d, es)
    <2>1. \A st, u, d, es : Sim!PostFires(st, u, d, es)' = Sim!PostFires(st, u, d, es)
      BY <1>1, <1>7, <1>8 DEF Sim!PostFires
    <2> TAKE st, u, d, es
    <2> DEFINE S == Sim!PostFires(st, u, d, es)
               Refuses(F)  == Sim!Refusing(st, u, F)
               Ends(F)     == IF Refuses(F) = {} THEN [Sim!Allowed EXCEPT !.alerts = {Blocks[j].rule : j \in F}]
                              ELSE [Sim!Denied(Blocks[Sim!First(Refuses(F))]) EXCEPT !.alerts =
                                      IF Blocks[Sim!First(Refuses(F))].kind = "domain_join"
                                      THEN {Blocks[j].rule : j \in {n \in F : n < Sim!First(Refuses(F))}} ELSE {}]
    <2>2. Sim!PostCall(st, u, d, es) = Ends(S)
      BY DEF Sim!PostCall
    <2>3. Sim!PostCall(st, u, d, es)' = Ends(S')
      BY DEF Sim!PostCall
    <2>4. S' = S
      BY <2>1
    <2> HIDE DEF S, Ends
    <2> QED
      BY <2>2, <2>3, <2>4
  <1>10. \A u, t, a : Sim!ArgFires(u, t, a)' = Sim!ArgFires(u, t, a)
    BY <1>1, <1>2 DEF Sim!ArgFires
  <1>11. \A st, u, t, a : SimArgs(st, u, t, a)' = SimArgs(st, u, t, a)
    BY <1>10 DEF SimArgs, Sim!CheckArgs
  <1> QED
    BY <1>6, <1>9, <1>11 DEF Simulated

(* What a plan is: calls of tools and users there are.                       *)
PlanOk(plan) ==
    /\ Len(plan) \in Nat
    /\ \A i \in 1..Len(plan) : plan[i].user \in Users /\ plan[i].tool \in Tools

(* The run of a plan: it starts from nothing, gives nobody a grant, and goes *)
(* on as long as it lets calls through.                                      *)
LEMMA SimulationIs ==
  ASSUME NEW plan, PlanOk(plan), NEW probe \in SUBSET Entities, NEW run, run = Simulation(plan, probe)
  PROVE  /\ run[0] = [store |-> EmptyStore, decision |-> Allowed]
         /\ \A i \in 1..Len(plan) :
              run[i] = IF ~run[i - 1].decision.allow THEN run[i - 1]
                       ELSE Simulated(run[i - 1].store, plan[i].user, plan[i].tool, plan[i].args, probe)
         /\ \A i \in 0..Len(plan) : /\ run[i].store \in StoreType /\ run[i].decision \in Decision
                                    /\ run[i].store.grants = EmptyStore.grants
  <1>1. Unrolls(run, plan, probe, Len(plan))
    BY SimulationUnrolls DEF PlanOk
  <1>2. run[0] = [store |-> EmptyStore, decision |-> Allowed]
    BY <1>1 DEF Unrolls, PlanOk
  <1>3. \A i \in 1..Len(plan) :
          run[i] = IF ~run[i - 1].decision.allow THEN run[i - 1]
                   ELSE Simulated(run[i - 1].store, plan[i].user, plan[i].tool, plan[i].args, probe)
    BY <1>1 DEF Unrolls, PlanOk
  <1> DEFINE Fine(i) == /\ run[i].store \in StoreType /\ run[i].decision \in Decision
                        /\ run[i].store.grants = EmptyStore.grants
             Off == {i \in 0..Len(plan) : ~ Fine(i)}
  <1>4. Off = {}
    <2> SUFFICES ASSUME Off # {}
                 PROVE  FALSE
      OBVIOUS
    <2>1. PICK n \in Off : \A m \in Off : n <= m
      <3>1. Off \in SUBSET Nat
        BY DEF PlanOk
      <3> HIDE DEF Off
      <3> QED
        BY <3>1, FirstIsOne
    <2>2. n # 0
      <3>1. Fine(0)
        BY <1>2, EmptyStoreType, Decisions
      <3> QED
        BY <2>1, <3>1
    <2>3. n \in 1..Len(plan) /\ n - 1 \in 0..Len(plan) /\ n - 1 \notin Off
      BY <2>1, <2>2 DEF PlanOk
    <2>4. Fine(n - 1)
      BY <2>3
    <2>5. plan[n].user \in Users /\ plan[n].tool \in Tools
      BY <2>3 DEF PlanOk
    <2>6. Fine(n)
      BY <1>3, <2>3, <2>4, <2>5, SimulatedIs
    <2> QED
      BY <2>1, <2>6
  <1> QED
    BY <1>2, <1>3, <1>4

(* What a decision meets.                                                    *)
LEMMA MetType ==
  ASSUME NEW d \in Decision
  PROVE  Met(d) \in Meetings /\ (Met(d).out \in {"deny", "hold"} <=> ~ d.allow)
  BY DEF Met, Meetings, Decision

(* What the check tool answers: a verdict for each call of a run of a plan,  *)
(* up to and with the first that is refused.                                 *)
AnswersFor(run, plan, probe, met) ==
    /\ run[0] = [store |-> EmptyStore, decision |-> Allowed]
    /\ \A i \in 1..Len(plan) :
         run[i] = IF ~run[i - 1].decision.allow THEN run[i - 1]
                  ELSE Simulated(run[i - 1].store, plan[i].user, plan[i].tool, plan[i].args, probe)
    /\ \A i \in 0..Len(plan) : /\ run[i].store \in StoreType /\ run[i].decision \in Decision
                               /\ run[i].store.grants = EmptyStore.grants
    /\ met \in Seq(Meetings) /\ Len(met) \in 0..Len(plan)
    /\ \A i \in 1..Len(met) : /\ met[i] = Met(run[i].decision)
                              /\ i > 1 => run[i - 1].decision.allow
    /\ \A i \in 1..Len(plan) : i = 1 \/ run[i - 1].decision.allow => i \in 1..Len(met)

LEMMA DryRunIs ==
  ASSUME NEW plan, PlanOk(plan), NEW probe \in SUBSET Entities,
         NEW run, run = Simulation(plan, probe), NEW met, met = DryRunOf(plan, probe)
  PROVE  AnswersFor(run, plan, probe, met)
  <1> DEFINE D    == {i \in 1..Len(plan) : i > 1 => run[i - 1].decision.allow}
             Rest == (1..(Len(plan) + 1)) \ D
  <1>1. met = [i \in D |-> Met(run[i].decision)]
    BY DEF DryRunOf
  <1>2. \A i \in 1..Len(plan) : run[i].decision.allow => run[i - 1].decision.allow
    BY SimulationIs
  <1>3. PICK n \in Rest : \A m \in Rest : n <= m
    <2>1. Rest \in SUBSET Nat /\ Len(plan) + 1 \in Rest
      BY DEF PlanOk
    <2> HIDE DEF Rest
    <2> QED
      BY <2>1, FirstIsOne
  <1>4. n \in 1..(Len(plan) + 1) /\ \A i \in 1..(n - 1) : i \in D
    <2>1. \A i \in 1..(n - 1) : i \in 1..(Len(plan) + 1) /\ ~ (n <= i)
      BY <1>3 DEF PlanOk
    <2> QED
      BY <1>3, <2>1
  <1>5. D = 1..(n - 1)
    <2> SUFFICES ASSUME NEW i \in D, ~ (i < n)
                 PROVE  FALSE
      BY <1>4 DEF PlanOk
    <2> DEFINE Later == {j \in D : n <= j}
    <2>1. PICK k \in Later : \A m \in Later : k <= m
      <3>1. Later \in SUBSET Nat /\ i \in Later
        BY <1>4 DEF PlanOk
      <3> HIDE DEF Later
      <3> QED
        BY <3>1, FirstIsOne
    <2>2. k \in D /\ k # n /\ n < k
      BY <1>3, <2>1 DEF PlanOk
    <2>3. k - 1 \in 1..Len(plan) /\ n <= k - 1 /\ ~ (k <= k - 1)
      BY <1>4, <2>2 DEF PlanOk
    <2>4. run[k - 1].decision.allow
      BY <2>2, <2>3
    <2>5. k - 1 > 1 => run[(k - 1) - 1].decision.allow
      BY <1>2, <2>3, <2>4
    <2>6. k - 1 \in Later
      BY <2>3, <2>5
    <2> QED
      BY <2>1, <2>3, <2>6
  <1>6. \A i \in D : run[i].decision \in Decision
    <2>1. D \subseteq 0..Len(plan)
      BY DEF PlanOk
    <2>2. \A i \in 0..Len(plan) : run[i].decision \in Decision
      BY SimulationIs
    <2> QED
      BY <2>1, <2>2
  <1>7. \A i \in D : Met(run[i].decision) \in Meetings
    BY <1>6, MetType
  <1>8. met \in [1..(n - 1) -> Meetings] /\ n - 1 \in Nat
    BY <1>1, <1>4, <1>5, <1>7 DEF PlanOk
  <1>9. met \in Seq(Meetings) /\ Len(met) = n - 1
    BY <1>8
  <1>10. \A i \in 1..(n - 1) : met[i] = Met(run[i].decision) /\ (i > 1 => run[i - 1].decision.allow)
    BY <1>1, <1>5
  <1>11. \A i \in 1..Len(plan) : i = 1 \/ run[i - 1].decision.allow => i \in 1..(n - 1)
    <2> TAKE i \in 1..Len(plan)
    <2>1. i = 1 \/ run[i - 1].decision.allow => i \in D
      OBVIOUS
    <2> QED
      BY <1>5, <2>1
  <1>12. Len(met) \in 0..Len(plan)
    <2>1. n - 1 \in 0..Len(plan)
      BY <1>4 DEF PlanOk
    <2> QED
      BY <1>9, <2>1
  <1> HIDE DEF D, Rest
  <1>13. \A i \in 1..Len(met) : met[i] = Met(run[i].decision) /\ (i > 1 => run[i - 1].decision.allow)
    BY <1>9, <1>10
  <1>14. \A i \in 1..Len(plan) : i = 1 \/ run[i - 1].decision.allow => i \in 1..Len(met)
    BY <1>9, <1>11
  <1>15. /\ run[0] = [store |-> EmptyStore, decision |-> Allowed]
         /\ \A i \in 1..Len(plan) :
              run[i] = IF ~run[i - 1].decision.allow THEN run[i - 1]
                       ELSE Simulated(run[i - 1].store, plan[i].user, plan[i].tool, plan[i].args, probe)
         /\ \A i \in 0..Len(plan) : /\ run[i].store \in StoreType /\ run[i].decision \in Decision
                                    /\ run[i].store.grants = EmptyStore.grants
    BY SimulationIs
  <1> QED
    BY <1>9, <1>12, <1>13, <1>14, <1>15, Zenon DEF AnswersFor

-----------------------------------------------------------------------------
(* Sessions.                                                                 *)

LEMMA ScriptIs ==
  ASSUME script \in Scripts
  PROVE  /\ Len(script) \in Nat /\ DOMAIN script = 1..Len(script)
         /\ \A i \in DOMAIN script : /\ script[i].user \in Users \ Others /\ script[i].meets \in Meetings
                                     /\ script[i].do = "call" => script[i].tool \in Tools
                                     /\ script[i].do # "call" => script[i].rule \in RuleIds
  <1>1. script \in Seq({script[i] : i \in DOMAIN script})
    BY SessionsAssumption
  <1>2. Len(script) \in Nat /\ DOMAIN script = 1..Len(script)
    BY <1>1
  <1> QED
    BY <1>2, SessionsAssumption

(* A script that only calls meets no grant and no approval.                  *)
Unwaived ==
    OnlyCalls(script) =>
        \A u \in Users : /\ NoGrants(store, u)
                         /\ \A r \in RuleIds : requests[u][r].status # "approved"

(* The plan asked about.                                                     *)
PlanAsked == SubSeq(script, dryRun.at, Len(script))

(* Calls carried out since: one was refused, or the dry run let them all     *)
(* through as well and the engine knows at least what it knew.               *)
RealSoFar(run) ==
    \A j \in 0..Len(dryRun.met) : AskedOf(j) <= Len(verdicts) =>
        \/ \E i \in 1..j : verdicts[AskedOf(i)].out \in {"deny", "hold"}
        \/ run[j].decision.allow /\ Knows(run[j].store, store)

(* Those of a plan asked about before everything else: they met what it said, *)
(* and no check tells its store from the engine's.                           *)
MetSoFar(run) ==
    /\ \A i \in 1..Len(dryRun.met) : i <= Len(verdicts) => verdicts[i] = dryRun.met[i]
    /\ run[Len(verdicts)].decision.allow =>
          \A i \in DOMAIN script : Alike(run[Len(verdicts)].store, store, script[i].user)

(* Writes say nothing a block looks at, and no rule is about no arguments.   *)
PlainPolicy == QuietWrites /\ \A i \in DOMAIN Blocks : NoArgs \notin Blocks[i].when

Asked ==
    dryRun # NotAsked =>
        /\ OnlyCalls(script) /\ dryRun.at - 1 <= Len(verdicts)
        /\ \E run : /\ AnswersFor(run, PlanAsked, dryRun.probe, dryRun.met)
                    /\ Exact => RealSoFar(run)
                    /\ Exact /\ dryRun.at = 1 /\ PlainPolicy => MetSoFar(run)

(* Before the first step of a script its users have pulled nothing.          *)
Fresh ==
    Len(verdicts) = 0 =>
        \A i \in DOMAIN script, d \in Domains : LiveMarks(store, script[i].user, d) = {}

SessionsInv == SessionsTypeOK /\ SeenLive(store) /\ Unwaived /\ Fresh /\ Asked

(* The plan, call by call.                                                   *)
LEMMA PlanIs ==
  ASSUME script \in Scripts, OnlyCalls(script), NEW at \in 1..Len(script)
  PROVE  LET plan == SubSeq(script, at, Len(script)) IN
         /\ PlanOk(plan) /\ Len(plan) = Len(script) - at + 1
         /\ \A i \in 1..Len(plan) : plan[i] = script[at + i - 1] /\ at + i - 1 \in DOMAIN script
  <1> DEFINE plan == SubSeq(script, at, Len(script))
             Steps == {script[i] : i \in DOMAIN script}
  <1>1. Len(script) \in Nat /\ DOMAIN script = 1..Len(script) /\ at \in Int /\ Len(script) \in Int
    BY ScriptIs
  <1>2. \A i \in at..Len(script) : script[i] \in Steps
    BY <1>1
  <1>3. /\ Len(plan) = IF at <= Len(script) THEN Len(script) - at + 1 ELSE 0
        /\ \A i \in 1..(Len(script) - at + 1) : plan[i] = script[at + i - 1]
    BY <1>1, <1>2, SubSeqProperties
  <1>4. /\ Len(plan) = Len(script) - at + 1 /\ Len(plan) \in Nat
        /\ \A i \in 1..Len(plan) : plan[i] = script[at + i - 1] /\ at + i - 1 \in DOMAIN script
    BY <1>1, <1>3
  <1>5. \A i \in DOMAIN script : script[i].user \in Users /\ script[i].tool \in Tools
    BY ScriptIs DEF OnlyCalls
  <1> QED
    BY <1>4, <1>5 DEF PlanOk

(* A call, of the script or of somebody else.                                *)
LEMMA CallKept ==
  ASSUME SessionsInv, NEW u \in Users, NEW t \in Tools, NEW a,
         NEW st, st = Synced(store, u), NEW c, c = Called(st, u, t, a), Leaves(u, c)
  PROVE  /\ store' \in StoreType /\ SeenLive(store') /\ c.decision \in Decision
         /\ requests' \in [Users -> [RuleIds -> RequestType]]
         /\ \A v \in Users, d \in Domains :
              /\ LiveMarks(store, v, d) \subseteq LiveMarks(store', v, d)
              /\ v # u => LiveMarks(store, v, d) = LiveMarks(store', v, d)
         /\ OnlyCalls(script) =>
              /\ st = store
              /\ \A v \in Users : /\ NoGrants(store', v)
                                  /\ \A r \in RuleIds : requests'[v][r].status # "approved"
  <1>1. store \in StoreType /\ requests \in [Users -> [RuleIds -> RequestType]] /\ SeenLive(store)
    BY DEF SessionsInv, SessionsTypeOK
  <1>2. /\ st \in StoreType /\ st.ents = store.ents /\ st.seen = store.seen
        /\ ApprovedFor(requests, u) = {} => st = store
    BY <1>1, SyncedStore
  <1>3. \A v, d : LiveMarks(st, v, d) = LiveMarks(store, v, d)
    BY <1>2 DEF LiveMarks
  <1>4. SeenLive(st)
    BY <1>1, <1>2, <1>3 DEF SeenLive
  <1>5. /\ c.decision \in Decision
        /\ store' \in StoreType /\ store'.grants = st.grants /\ SeenLive(store')
        /\ \A v \in Users, d \in Domains :
             /\ LiveMarks(st, v, d) \subseteq LiveMarks(store', v, d)
             /\ v # u => LiveMarks(st, v, d) = LiveMarks(store', v, d)
    BY <1>2, <1>4, CalledIs DEF Leaves
  <1>6. requests' \in [Users -> [RuleIds -> RequestType]]
    BY <1>1, RequestedType DEF Leaves
  <1>7. ASSUME OnlyCalls(script)
        PROVE  /\ st = store
               /\ \A v \in Users : /\ NoGrants(store', v)
                                   /\ \A r \in RuleIds : requests'[v][r].status # "approved"
    <2>1. \A v \in Users : NoGrants(store, v) /\ \A r \in RuleIds : requests[v][r].status # "approved"
      BY <1>7 DEF SessionsInv, Unwaived
    <2>2. ApprovedFor(requests, u) = {}
      BY <2>1 DEF ApprovedFor
    <2>3. st = store
      BY <1>2, <2>2
    <2>4. \A v \in Users : NoGrants(store', v)
      BY <1>5, <2>1, <2>3 DEF NoGrants, Granted
    <2>5. \A v \in Users, r \in RuleIds : requests'[v][r].status # "approved"
      BY <1>1, <2>1 DEF Leaves, Requested
    <2> QED
      BY <2>3, <2>4, <2>5
  <1> QED
    BY <1>3, <1>5, <1>6, <1>7

(* The parts of a step of the script.                                        *)
LEMMA RunCallParts ==
  ASSUME SessionsInv, RunCall
  PROVE  \E st, c : LET n == Len(verdicts) + 1 IN
           /\ n \in DOMAIN script /\ script[n].user \in Users \ Others /\ script[n].tool \in Tools
           /\ st = Synced(store, script[n].user)
           /\ c = Called(st, script[n].user, script[n].tool, script[n].args)
           /\ Leaves(script[n].user, c)
           /\ c.decision \in Decision
           /\ verdicts' = Append(verdicts, Met(c.decision))
           /\ verdicts' \in Seq(Meetings) /\ Len(verdicts') = n
           /\ \A i \in 1..Len(verdicts) : verdicts'[i] = verdicts[i]
           /\ verdicts'[n] = Met(c.decision)
           /\ UNCHANGED <<packs, date, script, dryRun>>
  <1> DEFINE n  == Len(verdicts) + 1
             u  == script[n].user
             st == Synced(store, u)
             c  == Called(st, u, script[n].tool, script[n].args)
  <1>1. /\ Len(verdicts) < Len(script) /\ script[n].do = "call"
        /\ Leaves(u, c) /\ verdicts' = Append(verdicts, Met(c.decision))
        /\ UNCHANGED <<packs, date, script, dryRun>>
    BY DEF RunCall, Next1
  <1>2. verdicts \in Seq(Meetings) /\ script \in Scripts
    BY DEF SessionsInv, SessionsTypeOK
  <1>3. n \in DOMAIN script /\ u \in Users \ Others /\ script[n].tool \in Tools
    BY <1>1, <1>2, ScriptIs
  <1>4. c.decision \in Decision
    <2> HIDE DEF n, c, st, u
    <2> QED
      BY <1>1, <1>3, CallKept DEF st, c, u
  <1>5. Met(c.decision) \in Meetings
    BY <1>4, MetType
  <1> HIDE DEF c, st, u
  <1>6. /\ verdicts' \in Seq(Meetings) /\ Len(verdicts') = n
        /\ \A i \in 1..Len(verdicts) : verdicts'[i] = verdicts[i]
        /\ verdicts'[n] = Met(c.decision)
    BY <1>1, <1>2, <1>5, AppendProperties
  <1> QED
    BY <1>1, <1>3, <1>4, <1>6 DEF c, st, u

(* A step of the check tool.                                                 *)
LEMMA CheckParts ==
  ASSUME SessionsInv, NEW probe \in Probes, Check(probe)
  PROVE  /\ OnlyCalls(script) /\ dryRun'.at = Len(verdicts) + 1 /\ dryRun'.at \in 1..Len(script)
         /\ dryRun'.probe = probe
         /\ AnswersFor(Simulation(PlanAsked', probe), PlanAsked', probe, dryRun'.met)
         /\ dryRun' \in [at : 1..Len(script), probe : Probes, met : Seq(Meetings)]
         /\ UNCHANGED <<packs, date, store, requests, script, verdicts>>
  <1> DEFINE at   == Len(verdicts) + 1
             plan == SubSeq(script, at, Len(script))
             met  == DryRunOf(plan, probe)
  <1>1. /\ OnlyCalls(script) /\ at <= Len(script)
        /\ dryRun' = [at |-> at, probe |-> probe, met |-> met]
        /\ UNCHANGED <<packs, date, store, requests, script, verdicts>>
    BY DEF Check
  <1>2. script \in Scripts /\ verdicts \in Seq(Meetings) /\ Len(script) \in Nat /\ at \in 1..Len(script)
    BY <1>1, ScriptIs DEF SessionsInv, SessionsTypeOK
  <1>3. PlanOk(plan) /\ probe \in SUBSET Entities
    BY <1>1, <1>2, PlanIs, SessionsAssumption
  <1>4. AnswersFor(Simulation(plan, probe), plan, probe, met)
    <2> HIDE DEF plan
    <2> QED
      BY <1>3, DryRunIs
  <1>5. met \in Seq(Meetings)
    BY <1>4 DEF AnswersFor
  <1>6. PlanAsked' = plan
    BY <1>1 DEF PlanAsked
  <1> HIDE DEF met, plan
  <1> QED
    BY <1>1, <1>2, <1>4, <1>5, <1>6 DEF met

(* What a dry run answered stays what it answered.                           *)
LEMMA AnswersStay ==
  ASSUME UNCHANGED <<packs, date>>
  PROVE  \A run, plan, probe, met : AnswersFor(run, plan, probe, met)' <=> AnswersFor(run, plan, probe, met)
  BY SimStays DEF AnswersFor

(* The invariant of the check tool, when the check tool is asked,            *)
LEMMA AskedFirst ==
  ASSUME SessionsInv, NEW probe \in Probes, Check(probe)
  PROVE  Asked'
  <1>1. /\ OnlyCalls(script) /\ dryRun'.at = Len(verdicts) + 1 /\ dryRun'.at \in 1..Len(script)
        /\ dryRun'.probe = probe
        /\ AnswersFor(Simulation(PlanAsked', probe), PlanAsked', probe, dryRun'.met)
        /\ UNCHANGED <<packs, date, store, requests, script, verdicts>>
    BY CheckParts
  <1>2. verdicts \in Seq(Meetings) /\ Len(verdicts) \in Nat /\ store \in StoreType
    BY DEF SessionsInv, SessionsTypeOK
  <1>3. PICK run : AnswersFor(run, PlanAsked', probe, dryRun'.met)
    BY <1>1
  <1>4. AnswersFor(run, PlanAsked, dryRun.probe, dryRun.met)'
    <2>1. AnswersFor(run, PlanAsked', probe, dryRun'.met)
      BY <1>3
    <2> QED
      BY <1>1, <2>1, AnswersStay
  <1>5. RealSoFar(run)'
    <2>1. run[0].decision.allow /\ run[0].store = EmptyStore
      BY <1>3, Decisions DEF AnswersFor
    <2>2. Knows(EmptyStore, store')
      BY DEF Knows, LiveMarks, EmptyStore
    <2> SUFFICES ASSUME NEW j \in 0..Len(dryRun'.met), AskedOf(j)' <= Len(verdicts')
                 PROVE  j = 0
      BY <2>1, <2>2 DEF RealSoFar
    <2> QED
      BY <1>1, <1>2, <1>3 DEF AskedOf, AnswersFor
  <1>6. dryRun'.at = 1 => MetSoFar(run)'
    <2> SUFFICES ASSUME dryRun'.at = 1
                 PROVE  MetSoFar(run)'
      OBVIOUS
    <2>1. Len(verdicts') = 0 /\ Len(verdicts) = 0
      BY <1>1, <1>2
    <2>2. run[0].store = EmptyStore
      BY <1>3 DEF AnswersFor
    <2>3. script \in Scripts /\ \A i \in DOMAIN script : script[i].user \in Users
      BY ScriptIs DEF SessionsInv, SessionsTypeOK
    <2>4. \A u \in Users, d \in Domains : LiveMarks(EmptyStore, u, d) = {}
      BY DEF LiveMarks, EmptyStore
    <2>5. \A i \in DOMAIN script, d \in Domains : LiveMarks(store, script[i].user, d) = {}
      BY <2>1 DEF SessionsInv, Fresh
    <2>6. \A i \in DOMAIN script : Alike(EmptyStore, store, script[i].user)
      BY <2>3, <2>4, <2>5 DEF Alike, Watched
    <2>7. \A i \in 1..Len(dryRun'.met) : ~ (i <= 0)
      BY <1>3 DEF AnswersFor
    <2> QED
      BY <1>1, <2>1, <2>2, <2>6, <2>7 DEF MetSoFar, Alike, LiveMarks
  <1> QED
    BY <1>1, <1>2, <1>4, <1>5, <1>6 DEF Asked

(* while others call,                                                        *)
LEMMA AskedMeanwhile ==
  ASSUME SessionsInv, UNCHANGED <<packs, date, script, verdicts, dryRun>>,
         \A v \in Users, d \in Domains : LiveMarks(store, v, d) \subseteq LiveMarks(store', v, d),
         \A i \in DOMAIN script, d \in Domains :
            LiveMarks(store, script[i].user, d) = LiveMarks(store', script[i].user, d)
  PROVE  Asked' /\ Fresh'
  <1>1. Fresh'
    BY DEF Fresh, SessionsInv, LiveMarks
  <1>2. ASSUME dryRun # NotAsked
        PROVE  Asked'
    <2>1. PICK run : /\ AnswersFor(run, PlanAsked, dryRun.probe, dryRun.met)
                     /\ Exact => RealSoFar(run)
                     /\ Exact /\ dryRun.at = 1 /\ PlainPolicy => MetSoFar(run)
      BY <1>2 DEF SessionsInv, Asked
    <2>2. AnswersFor(run, PlanAsked, dryRun.probe, dryRun.met)'
      <3>1. PlanAsked' = PlanAsked
        BY DEF PlanAsked
      <3> QED
        BY <2>1, <3>1, AnswersStay
    <2>3. (Exact' <=> Exact) /\ \A i : AskedOf(i)' = AskedOf(i)
      BY DEF Exact, AskedOf
    <2>4. RealSoFar(run) => RealSoFar(run)'
      BY <2>3 DEF RealSoFar, Knows
    <2>5. MetSoFar(run) => MetSoFar(run)'
      <3>1. \A sim : \A i \in DOMAIN script : Alike(sim, store, script[i].user) => Alike(sim, store', script[i].user)
        BY DEF Alike, Watched
      <3> QED
        BY <3>1 DEF MetSoFar
    <2> QED
      BY <1>2, <2>1, <2>2, <2>3, <2>4, <2>5 DEF SessionsInv, Asked
  <1> QED
    BY <1>1, <1>2 DEF Asked, NotAsked

(* and as the script goes on.                                                *)
LEMMA AskedGoesOn ==
  ASSUME SessionsInv, RunCall
  PROVE  Asked'
  <1> DEFINE n == Len(verdicts) + 1
             u == script[n].user
             t == script[n].tool
             a == script[n].args
  <1> SUFFICES ASSUME dryRun # NotAsked
               PROVE  Asked'
    BY DEF RunCall, Asked, NotAsked
  <1>1. PICK st, c :
          /\ n \in DOMAIN script /\ u \in Users \ Others /\ t \in Tools
          /\ st = Synced(store, u) /\ c = Called(st, u, t, a) /\ Leaves(u, c)
          /\ c.decision \in Decision
          /\ verdicts' \in Seq(Meetings) /\ Len(verdicts') = n
          /\ \A i \in 1..Len(verdicts) : verdicts'[i] = verdicts[i]
          /\ verdicts'[n] = Met(c.decision)
          /\ UNCHANGED <<packs, date, script, dryRun>>
    BY RunCallParts
  <1>2. PICK run : /\ AnswersFor(run, PlanAsked, dryRun.probe, dryRun.met)
                   /\ Exact => RealSoFar(run)
                   /\ Exact /\ dryRun.at = 1 /\ PlainPolicy => MetSoFar(run)
    BY DEF SessionsInv, Asked
  <1> DEFINE at    == dryRun.at
             probe == dryRun.probe
             met   == dryRun.met
             plan  == PlanAsked
  <1>3. /\ OnlyCalls(script) /\ at - 1 <= Len(verdicts) /\ Len(verdicts) \in Nat
        /\ at \in 1..Len(script) /\ probe \in SUBSET Entities
        /\ script \in Scripts /\ Len(script) \in Nat /\ DOMAIN script = 1..Len(script)
        /\ store \in StoreType /\ SeenLive(store) /\ verdicts \in Seq(Meetings)
    BY ScriptIs, SessionsAssumption DEF SessionsInv, SessionsTypeOK, Asked, NotAsked
  <1>4. /\ PlanOk(plan) /\ Len(plan) = Len(script) - at + 1
        /\ \A i \in 1..Len(plan) : plan[i] = script[at + i - 1] /\ at + i - 1 \in DOMAIN script
    BY <1>3, PlanIs DEF PlanAsked
  <1> HIDE DEF n, u, t, a, at, probe, met, plan
  <1>5. n = Len(verdicts) + 1 /\ n \in 1..Len(script) /\ n \in Nat
    BY <1>1, <1>3 DEF n
  <1>6. AnswersFor(run, plan, probe, met)
    BY <1>2 DEF plan, probe, met
  <1>7. /\ st = store /\ NoGrants(store, u)
        /\ \A v \in Users, d \in Domains :
             /\ LiveMarks(store, v, d) \subseteq LiveMarks(store', v, d)
             /\ v # u => LiveMarks(store, v, d) = LiveMarks(store', v, d)
    BY <1>1, <1>3, CallKept DEF SessionsInv, Unwaived
  <1>8. /\ store' = c.store
        /\ Met(c.decision).out \in {"deny", "hold"} <=> ~ c.decision.allow
    BY <1>1, MetType DEF Leaves
  <1>9. (Exact' <=> Exact) /\ PlanAsked' = PlanAsked /\ \A i : AskedOf(i)' = AskedOf(i) /\ AskedOf(i) = at + i - 1
    BY <1>1 DEF Exact, AskedOf, PlanAsked, at
  <1>10. \A i \in 0..Len(plan) : /\ run[i].store \in StoreType /\ NoGrants(run[i].store, u)
    BY <1>1, <1>6 DEF AnswersFor, NoGrants, Granted, EmptyStore
  <1>11. ASSUME NEW j \in 1..Len(plan), at + j - 1 = n, run[j - 1].decision.allow
         PROVE  /\ run[j] = Simulated(run[j - 1].store, u, t, a, probe)
                /\ j \in 1..Len(met) /\ j - 1 \in 0..Len(plan)
                /\ Exact => t \in WriteTools \/ PeopleIn[t] = probe
    <2>1. plan[j] = script[n] /\ j \in 1..Len(met) /\ j - 1 \in 0..Len(plan)
      BY <1>4, <1>6, <1>11 DEF AnswersFor
    <2>2. run[j] = Simulated(run[j - 1].store, u, t, a, probe)
      BY <1>6, <1>11, <2>1 DEF AnswersFor, u, t, a
    <2>3. j \in DOMAIN dryRun.met
      BY <1>6, <2>1 DEF AnswersFor, met
    <2>4. Exact => t \in WriteTools \/ PeopleIn[t] = probe
      BY <1>9, <1>11, <2>3 DEF Exact, t, probe
    <2> QED
      BY <2>1, <2>2, <2>4
  <1>12. ASSUME Exact, RealSoFar(run)
         PROVE  RealSoFar(run)'
    <2> SUFFICES ASSUME NEW j \in 0..Len(met), at + j - 1 <= n,
                        \A i \in 1..j : verdicts'[at + i - 1].out \notin {"deny", "hold"}
                 PROVE  run[j].decision.allow /\ Knows(run[j].store, store')
      BY <1>1, <1>9 DEF RealSoFar, met
    <2>1. at \in Nat /\ at >= 1 /\ Len(met) \in 0..Len(plan) /\ Len(plan) \in Nat /\ j \in Nat
      BY <1>3, <1>4, <1>6 DEF AnswersFor, PlanOk
    <2>2. \A k \in 0..Len(met) : (at + k - 1 <= Len(verdicts) /\ k <= j) =>
             run[k].decision.allow /\ Knows(run[k].store, store)
      <3> SUFFICES ASSUME NEW k \in 0..Len(met), at + k - 1 <= Len(verdicts), k <= j
                   PROVE  run[k].decision.allow /\ Knows(run[k].store, store)
        OBVIOUS
      <3>1. \A i \in 1..k : i \in 1..j /\ at + i - 1 \in 1..Len(verdicts)
        BY <1>3, <2>1
      <3>2. \A i \in 1..k : verdicts[at + i - 1].out \notin {"deny", "hold"}
        BY <1>1, <3>1
      <3> QED
        BY <1>9, <1>12, <3>2 DEF RealSoFar, met
    <2>3. CASE at + j - 1 <= Len(verdicts)
      BY <1>7, <2>2, <2>3 DEF Knows
    <2>4. CASE at + j - 1 = n
      <3>1. j # 0 /\ j - 1 \in 0..Len(met) /\ at + (j - 1) - 1 <= Len(verdicts) /\ j \in 1..Len(plan) /\ j - 1 <= j
        BY <1>3, <1>5, <2>1, <2>4
      <3>2. run[j - 1].decision.allow /\ Knows(run[j - 1].store, store)
        BY <2>2, <3>1
      <3>3. /\ run[j] = Simulated(run[j - 1].store, u, t, a, probe) /\ j - 1 \in 0..Len(plan)
            /\ t \in WriteTools \/ PeopleIn[t] = probe
        BY <1>11, <1>12, <2>4, <3>1, <3>2
      <3>4. verdicts'[n].out \notin {"deny", "hold"}
        BY <2>4, <3>1
      <3>5. c.decision.allow
        BY <1>1, <1>8, <3>4
      <3> QED
        <4> DEFINE sim == run[j - 1].store
        <4>1. sim \in StoreType /\ NoGrants(sim, u) /\ u \in Users
          BY <1>1, <1>10, <3>3
        <4> HIDE DEF sim
        <4>2. Called(store, u, t, a).decision.allow =>
                /\ Simulated(sim, u, t, a, probe).decision.allow
                /\ Knows(Simulated(sim, u, t, a, probe).store, Called(store, u, t, a).store)
          BY <1>1, <1>3, <1>7, <3>2, <3>3, <4>1, RefusedThere DEF sim
        <4> QED
          BY <1>1, <1>7, <1>8, <3>3, <3>5, <4>2 DEF sim
    <2> QED
      BY <1>5, <2>1, <2>3, <2>4
  <1>13. ASSUME Exact, at = 1, PlainPolicy, MetSoFar(run)
         PROVE  MetSoFar(run)'
    <2> DEFINE l == Len(verdicts)
    <2>1. /\ l \in 0..Len(plan) /\ n \in 1..Len(plan) /\ l = n - 1 /\ at + n - 1 = n
          /\ Len(met) \in 0..Len(plan) /\ Len(plan) \in Nat
      BY <1>3, <1>4, <1>5, <1>6, <1>13 DEF AnswersFor
    <2>2. \A i \in 1..Len(met) : i <= l => verdicts[i] = met[i]
      BY <1>13 DEF MetSoFar, met
    <2>3. CASE run[l].decision.allow
      <3>1. /\ run[n] = Simulated(run[l].store, u, t, a, probe) /\ n \in 1..Len(met)
            /\ t \in WriteTools \/ PeopleIn[t] = probe
        BY <1>11, <1>13, <2>1, <2>3
      <3>2. \A i \in DOMAIN script : Alike(run[l].store, store, script[i].user)
        BY <1>13, <2>3 DEF MetSoFar
      <3>3. Alike(run[l].store, store, u)
        BY <1>1, <3>2 DEF u
      <3>4. /\ run[l].store \in StoreType /\ NoGrants(run[l].store, u)
        BY <1>10, <2>1
      <3>5. /\ c.decision = run[n].decision
            /\ c.decision.allow => Alike(run[n].store, store', u)
        <4> DEFINE sim == run[l].store
        <4>1. sim \in StoreType /\ NoGrants(sim, u) /\ u \in Users /\ Alike(sim, store, u)
          BY <1>1, <3>3, <3>4
        <4> HIDE DEF l, sim
        <4>2. /\ Called(store, u, t, a).decision = Simulated(sim, u, t, a, probe).decision
              /\ Called(store, u, t, a).decision.allow =>
                   Alike(Simulated(sim, u, t, a, probe).store, Called(store, u, t, a).store, u)
          BY <1>1, <1>3, <1>7, <1>13, <3>1, <4>1, SameThere DEF PlainPolicy
        <4> QED
          BY <1>1, <1>7, <1>8, <3>1, <4>2 DEF sim
      <3>6. \A i \in 1..Len(met) : i <= n => verdicts'[i] = met[i]
        <4>1. met[n] = Met(run[n].decision)
          BY <1>6, <3>1 DEF AnswersFor
        <4> QED
          BY <1>1, <2>1, <2>2, <3>5, <4>1
      <3>7. ASSUME run[n].decision.allow, NEW i \in DOMAIN script
            PROVE  Alike(run[n].store, store', script[i].user)
        <4>1. CASE script[i].user = u
          BY <3>5, <3>7, <4>1
        <4>2. CASE script[i].user # u
          <5>1. script[i].user \in Users
            BY <1>3, ScriptIs
          <5>2. \A d \in Domains : LiveMarks(run[n].store, script[i].user, d) = LiveMarks(run[l].store, script[i].user, d)
            <6> HIDE DEF l
            <6> QED
              BY <1>1, <1>3, <3>1, <3>4, <4>2, <5>1, SimulatedIs
          <5>3. \A d \in Domains : LiveMarks(store', script[i].user, d) = LiveMarks(store, script[i].user, d)
            BY <1>7, <4>2, <5>1
          <5> QED
            BY <3>2, <5>2, <5>3 DEF Alike, Watched
        <4> QED
          BY <4>1, <4>2
      <3> QED
        BY <1>1, <3>6, <3>7 DEF MetSoFar, Alike, LiveMarks, met
    <2>4. CASE ~ run[l].decision.allow
      <3>1. run[n] = run[l]
        BY <1>6, <2>1, <2>4 DEF AnswersFor
      <3>2. n \notin 1..Len(met)
        <4>1. l # 0
          BY <1>6, <2>4, Decisions DEF AnswersFor
        <4> QED
          BY <1>6, <2>1, <2>4, <4>1 DEF AnswersFor
      <3>3. \A i \in 1..Len(met) : i <= n => verdicts'[i] = met[i]
        BY <1>1, <2>1, <2>2, <3>2
      <3> QED
        BY <1>1, <2>4, <3>1, <3>3 DEF MetSoFar, met
    <2> QED
      BY <2>3, <2>4
  <1>14. AnswersFor(run, PlanAsked, dryRun.probe, dryRun.met)'
    BY <1>1, <1>2, <1>9, AnswersStay
  <1> QED
    BY <1>1, <1>2, <1>3, <1>5, <1>9, <1>12, <1>13, <1>14 DEF Asked, at

LEMMA SessionsKept ==
  ASSUME SessionsInv, [SessionsNext]_sessionVars
  PROVE  SessionsInv'
  <1>1. CASE RunCall
    <2> DEFINE n == Len(verdicts) + 1
    <2>1. PICK st, c :
            /\ n \in DOMAIN script /\ script[n].user \in Users \ Others /\ script[n].tool \in Tools
            /\ st = Synced(store, script[n].user)
            /\ c = Called(st, script[n].user, script[n].tool, script[n].args)
            /\ Leaves(script[n].user, c)
            /\ verdicts' \in Seq(Meetings) /\ Len(verdicts') = n
            /\ UNCHANGED <<packs, date, script, dryRun>>
      BY <1>1, RunCallParts
    <2> HIDE DEF n
    <2>2. /\ store' \in StoreType /\ SeenLive(store')
          /\ requests' \in [Users -> [RuleIds -> RequestType]]
          /\ OnlyCalls(script) =>
               \A v \in Users : /\ NoGrants(store', v)
                                /\ \A r \in RuleIds : requests'[v][r].status # "approved"
      BY <2>1, CallKept
    <2>3. script \in Scripts /\ n <= Len(script) /\ Len(verdicts) \in Nat /\ n = Len(verdicts) + 1
      BY <2>1, ScriptIs DEF SessionsInv, SessionsTypeOK, n
    <2>4. SessionsTypeOK'
      BY <2>1, <2>2, <2>3 DEF SessionsInv, SessionsTypeOK
    <2>5. Asked'
      BY <1>1, AskedGoesOn
    <2>6. Fresh'
      BY <2>1, <2>3 DEF Fresh
    <2> QED
      BY <2>1, <2>2, <2>4, <2>5, <2>6 DEF SessionsInv, Unwaived
  <1>2. CASE RunGiven
    <2>1. /\ Len(verdicts) < Len(script) /\ Next1.do # "call"
          /\ script \in Scripts /\ verdicts \in Seq(Meetings) /\ store \in StoreType
          /\ requests \in [Users -> [RuleIds -> RequestType]] /\ SeenLive(store)
          /\ UNCHANGED <<packs, date, script, dryRun>> /\ verdicts' = Append(verdicts, Next1.meets)
      BY <1>2 DEF RunGiven, SessionsInv, SessionsTypeOK
    <2>2. /\ Len(verdicts) + 1 \in DOMAIN script /\ Next1.user \in Users /\ Next1.rule \in RuleIds
          /\ Next1.meets \in Meetings
      BY <2>1, ScriptIs DEF Next1
    <2>3. ~ OnlyCalls(script)
      BY <2>1, <2>2 DEF OnlyCalls, Next1
    <2>4. verdicts' \in Seq(Meetings) /\ Len(verdicts') = Len(verdicts) + 1
      BY <2>1, <2>2, AppendProperties
    <2>5. store' \in StoreType /\ SeenLive(store') /\ requests' \in [Users -> [RuleIds -> RequestType]]
      <3>1. CASE Next1.do = "grant"
        <4>1. /\ store' = Grant(store, Next1.user, Next1.rule, GrantTtl) /\ requests' = requests
              /\ GrantTtl \in Nat
          BY <1>2, <3>1, SessionsAssumption DEF RunGiven
        <4>2. store' \in StoreType /\ store'.ents = store.ents /\ store'.seen = store.seen
          BY <2>1, <2>2, <4>1, GrantType DEF Grant, StoreType
        <4> QED
          BY <2>1, <4>1, <4>2 DEF SeenLive, LiveMarks
      <3>2. CASE Next1.do # "grant"
        <4>1. /\ store' = store
              /\ requests' = [requests EXCEPT ![Next1.user][Next1.rule] =
                                 [status |-> "approved", left |-> GrantTtl]]
              /\ GrantTtl \in Nat
          BY <1>2, <3>2, SessionsAssumption DEF RunGiven
        <4>2. [status |-> "approved", left |-> GrantTtl] \in RequestType
          BY <4>1 DEF RequestType
        <4> QED
          BY <2>1, <4>1, <4>2 DEF SeenLive, LiveMarks
      <3> QED
        BY <3>1, <3>2
    <2>6. SessionsTypeOK'
      BY <2>1, <2>4, <2>5, ScriptIs DEF SessionsInv, SessionsTypeOK
    <2>7. dryRun = NotAsked
      BY <2>3 DEF SessionsInv, Asked
    <2>8. Asked' /\ Fresh'
      BY <2>1, <2>4, <2>7 DEF Asked, NotAsked, Fresh
    <2> QED
      BY <2>1, <2>3, <2>5, <2>6, <2>8 DEF SessionsInv, Unwaived
  <1>3. ASSUME NEW probe \in Probes, Check(probe)
        PROVE  SessionsInv'
    <2>1. /\ dryRun' \in [at : 1..Len(script), probe : Probes, met : Seq(Meetings)]
          /\ UNCHANGED <<packs, date, store, requests, script, verdicts>>
      BY <1>3, CheckParts
    <2>2. SessionsTypeOK'
      BY <2>1 DEF SessionsInv, SessionsTypeOK
    <2>3. Asked'
      BY <1>3, AskedFirst
    <2> QED
      BY <2>1, <2>2, <2>3 DEF SessionsInv, Unwaived, SeenLive, LiveMarks, Fresh
  <1>4. ASSUME NEW v \in Others, NEW t \in OtherTools, OtherCall(v, t)
        PROVE  SessionsInv'
    <2> DEFINE st == Synced(store, v)
               c  == Called(st, v, t, NoArgs)
    <2>1. v \in Users /\ t \in Tools /\ Leaves(v, c) /\ UNCHANGED <<packs, date, script, verdicts, dryRun>>
      BY <1>4, SessionsAssumption DEF OtherCall
    <2> HIDE DEF st, c
    <2>2. /\ store' \in StoreType /\ SeenLive(store')
          /\ requests' \in [Users -> [RuleIds -> RequestType]]
          /\ \A w \in Users, d \in Domains :
               /\ LiveMarks(store, w, d) \subseteq LiveMarks(store', w, d)
               /\ w # v => LiveMarks(store, w, d) = LiveMarks(store', w, d)
          /\ OnlyCalls(script) =>
               \A w \in Users : /\ NoGrants(store', w)
                                /\ \A r \in RuleIds : requests'[w][r].status # "approved"
      BY <2>1, CallKept DEF st, c
    <2>3. \A i \in DOMAIN script : script[i].user \in Users \ Others
      BY ScriptIs DEF SessionsInv, SessionsTypeOK
    <2>4. Asked' /\ Fresh'
      BY <2>1, <2>2, <2>3, AskedMeanwhile
    <2>5. SessionsTypeOK'
      BY <2>1, <2>2 DEF SessionsInv, SessionsTypeOK
    <2> QED
      BY <2>1, <2>2, <2>4, <2>5 DEF SessionsInv, Unwaived
  <1>5. CASE UNCHANGED sessionVars
    <2>1. /\ UNCHANGED <<packs, date, script, verdicts, dryRun>> /\ store' = store /\ requests' = requests
      BY <1>5 DEF sessionVars
    <2>2. Asked' /\ Fresh'
      BY <2>1, AskedMeanwhile
    <2> QED
      BY <2>1, <2>2 DEF SessionsInv, SessionsTypeOK, Unwaived, SeenLive, LiveMarks
  <1> QED
    BY <1>1, <1>2, <1>3, <1>4, <1>5 DEF SessionsNext

LEMMA SessionsStart == SessionsInit => SessionsInv
  <1> SUFFICES ASSUME SessionsInit
               PROVE  SessionsInv
    OBVIOUS
  <1>1. script \in Scripts /\ Len(script) \in Nat /\ \A i \in DOMAIN script : script[i].user \in Users
    BY ScriptIs DEF SessionsInit
  <1>2. EmptyStore \in StoreType /\ \A u \in Users, d \in Domains : LiveMarks(EmptyStore, u, d) = {}
    BY EmptyStoreType DEF LiveMarks, EmptyStore
  <1>3. NoRequests \in [Users -> [RuleIds -> RequestType]]
    BY DEF NoRequests, RequestType
  <1>4. SessionsTypeOK
    BY <1>1, <1>2, <1>3 DEF SessionsInit, SessionsTypeOK
  <1>5. \A u \in Users : NoGrants(EmptyStore, u) /\ \A r \in RuleIds : NoRequests[u][r].status # "approved"
    BY DEF NoGrants, Granted, EmptyStore, NoRequests
  <1> QED
    BY <1>1, <1>2, <1>4, <1>5 DEF SessionsInv, SessionsInit, SeenLive, Unwaived, Fresh, Asked

LEMMA SessionsHold == SessionsSpec => []SessionsInv
  <1>1. SessionsInit => SessionsInv
    BY SessionsStart
  <1>2. SessionsInv /\ [SessionsNext]_sessionVars => SessionsInv'
    BY SessionsKept
  <1> QED
    BY <1>1, <1>2, PTL DEF SessionsSpec

(* The state of a session is well-formed, whatever the script, whoever calls *)
(* in between and wherever in it the check tool is asked.                    *)
THEOREM SessionsTyped == SessionsSpec => []SessionsTypeOK
  <1>1. SessionsInv => SessionsTypeOK
    BY DEF SessionsInv
  <1> QED
    BY <1>1, SessionsHold, PTL

(* "So the answer is faithful" (policy.py:454), for every policy and every   *)
(* script: of calls that read about the people named, a plan the check tool  *)
(* refuses is refused, wherever in the session it was asked and whatever     *)
(* others did since.                                                         *)
THEOREM DryRunRefusals == SessionsSpec => []RefusalsAreReal
  <1>1. SessionsInv => RefusalsAreReal
    <2> SUFFICES ASSUME SessionsInv, dryRun # NotAsked, Exact, Stopped(dryRun.met),
                        CarriedOut = DOMAIN dryRun.met
                 PROVE  \E i \in CarriedOut : verdicts[AskedOf(i)].out \in {"deny", "hold"}
      BY DEF RefusalsAreReal
    <2>1. PICK run : AnswersFor(run, PlanAsked, dryRun.probe, dryRun.met) /\ RealSoFar(run)
      BY DEF SessionsInv, Asked
    <2> DEFINE n == Len(dryRun.met)
    <2>2. dryRun.met \in Seq(Meetings) /\ n \in Nat /\ DOMAIN dryRun.met = 1..n /\ n # 0
      BY <2>1 DEF AnswersFor, Stopped
    <2>3. n \in 0..Len(PlanAsked) /\ run[n].decision \in Decision
      BY <2>1 DEF AnswersFor
    <2>4. dryRun.met[n] = Met(run[n].decision)
      BY <2>1, <2>2 DEF AnswersFor
    <2>5. ~ run[n].decision.allow
      BY <2>3, <2>4, MetType DEF Stopped
    <2>6. AskedOf(n) <= Len(verdicts)
      BY <2>2 DEF CarriedOut
    <2>7. PICK i \in 1..n : verdicts[AskedOf(i)].out \in {"deny", "hold"}
      BY <2>1, <2>2, <2>5, <2>6 DEF RealSoFar
    <2> QED
      BY <2>2, <2>7
  <1> QED
    BY <1>1, SessionsHold, PTL

(* And where writes say nothing that a block looks at, and no rule is about  *)
(* a call without arguments, a plan asked about before everything else meets *)
(* call by call what the check tool said: together, that the dry run is true.*)
THEOREM DryRunFaithful ==
  ASSUME PlainPolicy
  PROVE  SessionsSpec => []DryRunTrue
  <1>1. SessionsInv => ForecastIsMet
    <2> SUFFICES ASSUME SessionsInv, dryRun # NotAsked, Exact, dryRun.at = 1, NEW i \in CarriedOut
                 PROVE  verdicts[i] = dryRun.met[i]
      BY DEF ForecastIsMet
    <2>1. PICK run : AnswersFor(run, PlanAsked, dryRun.probe, dryRun.met) /\ MetSoFar(run)
      BY DEF SessionsInv, Asked
    <2>2. dryRun.met \in Seq(Meetings) /\ i \in 1..Len(dryRun.met) /\ i <= Len(verdicts)
      BY <2>1 DEF AnswersFor, CarriedOut, AskedOf
    <2> QED
      BY <2>1, <2>2 DEF MetSoFar
  <1>2. RefusalsAreReal /\ ForecastIsMet => DryRunTrue
    BY DEF DryRunTrue
  <1> QED
    BY <1>1, <1>2, DryRunRefusals, SessionsHold, PTL

-----------------------------------------------------------------------------
(* Authoring: the blocks of a document.                                      *)

(* Putting sequences end to end: FlattenSeq's function solves its equation,  *)
(* and every element of the result is one of theirs.                         *)
Flattens(f, ss, n) == f = [i \in 1..n |-> IF i = 1 THEN ss[i] ELSE f[i - 1] \o ss[i]]

LEMMA FlattenUnrolls ==
  ASSUME NEW ss, NEW m \in Nat \ {0}
  PROVE  \E f : Flattens(f, ss, m)
  <1> DEFINE Unsolved == {n \in 1..m : ~ \E f : Flattens(f, ss, n)}
  <1> SUFFICES ASSUME Unsolved # {}
               PROVE  FALSE
    OBVIOUS
  <1>1. PICK n \in Unsolved : \A k \in Unsolved : n <= k
    <2>1. Unsolved \in SUBSET Nat
      OBVIOUS
    <2> HIDE DEF Unsolved
    <2> QED
      BY <2>1, FirstIsOne
  <1>2. CASE n = 1
    <2>1. Flattens([i \in 1..1 |-> ss[1]], ss, 1)
      BY DEF Flattens
    <2> QED
      BY <1>1, <1>2, <2>1
  <1>3. CASE n # 1
    <2>1. n \in Nat /\ n - 1 \in 1..m /\ n - 1 \notin Unsolved
      BY <1>1, <1>3
    <2>2. PICK f : Flattens(f, ss, n - 1)
      BY <2>1
    <2> DEFINE g == [i \in 1..n |-> IF i = n THEN f[n - 1] \o ss[n] ELSE f[i]]
    <2>a. n \in 1..n /\ n \notin 1..(n - 1) /\ (\A i \in 1..(n - 1) : i \in 1..n /\ i # n)
      BY <2>1
    <2>3. (\A i \in 1..(n - 1) : g[i] = f[i]) /\ g[n] = f[n - 1] \o ss[n] /\ g = [i \in 1..n |-> g[i]]
      BY <2>a
    <2>4. \A i \in 1..(n - 1) : f[i] = IF i = 1 THEN ss[i] ELSE f[i - 1] \o ss[i]
      BY <2>2 DEF Flattens
    <2> HIDE DEF g
    <2>5. \A i \in 1..n : g[i] = IF i = 1 THEN ss[i] ELSE g[i - 1] \o ss[i]
      <3> TAKE i \in 1..n
      <3>1. CASE i = n
        <4>a. n - 1 \in 1..(n - 1)
          BY <1>3, <2>1
        <4>1. g[n - 1] = f[n - 1]
          BY <4>a, <2>3
        <4> QED
          BY <1>3, <2>3, <3>1, <4>1
      <3>2. CASE i # n
        <4>1. i \in 1..(n - 1) /\ (i # 1 => i - 1 \in 1..(n - 1))
          BY <2>1, <3>2
        <4> QED
          BY <2>3, <2>4, <4>1
      <3> QED
        BY <3>1, <3>2
    <2>6. Flattens(g, ss, n)
      BY <2>3, <2>5 DEF Flattens
    <2> QED
      BY <1>1, <2>6
  <1> QED
    BY <1>2, <1>3

LEMMA FlattenIs ==
  ASSUME NEW S, NEW ss \in Seq(Seq(S))
  PROVE  /\ FlattenSeq(ss) \in Seq(S)
         /\ \A k \in DOMAIN FlattenSeq(ss) : \E i \in DOMAIN ss : \E n \in DOMAIN ss[i] : FlattenSeq(ss)[k] = ss[i][n]
  <1>1. Len(ss) \in Nat /\ DOMAIN ss = 1..Len(ss) /\ \A i \in DOMAIN ss : ss[i] \in Seq(S)
    OBVIOUS
  <1>2. CASE Len(ss) = 0
    <2>1. FlattenSeq(ss) = ss /\ ss = <<>>
      BY <1>2 DEF FlattenSeq
    <2> QED
      BY <2>1
  <1>3. CASE Len(ss) # 0
    <2> DEFINE f == CHOOSE f : Flattens(f, ss, Len(ss))
    <2>1. FlattenSeq(ss) = f[Len(ss)]
      BY <1>3 DEF FlattenSeq, Flattens
    <2>2. Flattens(f, ss, Len(ss))
      BY <1>1, <1>3, FlattenUnrolls
    <2> HIDE DEF f
    <2> DEFINE Fine(m) == /\ f[m] \in Seq(S)
                          /\ \A k \in DOMAIN f[m] : \E i \in DOMAIN ss : \E n \in DOMAIN ss[i] : f[m][k] = ss[i][n]
               Off == {m \in 1..Len(ss) : ~ Fine(m)}
    <2>3. ASSUME Off # {}
          PROVE  FALSE
      <3>1. PICK m \in Off : \A k \in Off : m <= k
        <4>1. Off \in SUBSET Nat
          OBVIOUS
        <4> HIDE DEF Off
        <4> QED
          BY <2>3, <4>1, FirstIsOne
      <3>2. m \in 1..Len(ss) /\ m \in DOMAIN ss /\ ss[m] \in Seq(S)
        BY <1>1, <3>1
      <3>3. f[m] = IF m = 1 THEN ss[m] ELSE f[m - 1] \o ss[m]
        BY <2>2, <3>2 DEF Flattens
      <3>4. CASE m = 1
        <4>1. Fine(m)
          BY <3>2, <3>3, <3>4
        <4> QED
          BY <3>1, <4>1
      <3>5. CASE m # 1
        <4>1. m - 1 \in 1..Len(ss) /\ m - 1 \notin Off
          BY <3>1, <3>2, <3>5
        <4>2. Fine(m - 1)
          BY <4>1
        <4>3. /\ f[m] \in Seq(S) /\ Len(f[m]) = Len(f[m - 1]) + Len(ss[m])
              /\ \A k \in 1..(Len(f[m - 1]) + Len(ss[m])) :
                   f[m][k] = IF k <= Len(f[m - 1]) THEN f[m - 1][k] ELSE ss[m][k - Len(f[m - 1])]
          BY <3>2, <3>3, <3>5, <4>2, ConcatProperties
        <4>4. ASSUME NEW k \in DOMAIN f[m]
              PROVE  \E i \in DOMAIN ss : \E n \in DOMAIN ss[i] : f[m][k] = ss[i][n]
          <5>a. Len(f[m - 1]) \in Nat /\ DOMAIN f[m - 1] = 1..Len(f[m - 1])
            BY <4>2, LenProperties
          <5>b. Len(ss[m]) \in Nat /\ DOMAIN ss[m] = 1..Len(ss[m])
            BY <3>2, LenProperties
          <5>c. DOMAIN f[m] = 1..Len(f[m])
            BY <4>3, LenProperties
          <5>1. k \in 1..(Len(f[m - 1]) + Len(ss[m]))
            BY <4>3, <4>4, <5>c
          <5>2. CASE k <= Len(f[m - 1])
            <6>1. k \in DOMAIN f[m - 1]
              BY <5>1, <5>2, <5>a
            <6>2. f[m][k] = f[m - 1][k]
              BY <4>3, <5>1, <5>2
            <6> QED
              BY <4>2, <6>1, <6>2
          <5>3. CASE ~ (k <= Len(f[m - 1]))
            <6>2. f[m][k] = ss[m][k - Len(f[m - 1])]
              BY <4>3, <5>1, <5>3
            <6>a. \A a, b \in Nat : \A x \in 1..(a + b) : ~ (x <= a) => x - a \in 1..b
              OBVIOUS
            <6>b. k - Len(f[m - 1]) \in 1..Len(ss[m])
              BY <5>1, <5>3, <5>a, <5>b, <6>a
            <6>3. k - Len(f[m - 1]) \in DOMAIN ss[m]
              BY <5>b, <6>b
            <6>1. k - Len(f[m - 1]) \in DOMAIN ss[m] /\ f[m][k] = ss[m][k - Len(f[m - 1])]
              BY <6>2, <6>3
            <6> QED
              BY <3>2, <6>1
          <5> QED
            BY <5>2, <5>3
        <4>5. Fine(m)
          BY <4>3, <4>4
        <4> QED
          BY <3>1, <4>5
      <3> QED
        BY <3>4, <3>5
    <2>4. Fine(Len(ss))
      BY <1>1, <1>3, <2>3
    <2> QED
      BY <2>1, <2>4
  <1> QED
    BY <1>2, <1>3

(* What documents are, and stay when ingest writes them down.                *)
WellFormed(doc) ==
    /\ Len(doc) \in Nat /\ DOMAIN doc = 1..Len(doc) /\ doc # <<>>
    /\ \A i \in DOMAIN doc :
          /\ doc[i].id \in WalkRules
          /\ doc[i].enforce \in Seq(RuleBlocks(doc[i]))
          /\ \A b \in RuleBlocks(doc[i]) : b.rule = doc[i].id /\ b.until \in Nat

(* The blocks of a document are those of its rules.                          *)
LEMMA BlocksOfIs ==
  ASSUME NEW doc, WellFormed(doc)
  PROVE  /\ Len(BlocksOf(doc)) \in Nat /\ DOMAIN BlocksOf(doc) = 1..Len(BlocksOf(doc))
         /\ \A k \in DOMAIN BlocksOf(doc) : \E i \in DOMAIN doc : BlocksOf(doc)[k] \in RuleBlocks(doc[i])
  <1> DEFINE S  == UNION {RuleBlocks(doc[i]) : i \in DOMAIN doc}
             ss == [i \in DOMAIN doc |-> doc[i].enforce]
  <1>1. \A i \in DOMAIN doc : doc[i].enforce \in Seq(S)
    <2> TAKE i \in DOMAIN doc
    <2>1. doc[i].enforce \in Seq(RuleBlocks(doc[i])) /\ RuleBlocks(doc[i]) \subseteq S
      BY DEF WellFormed
    <2> HIDE DEF S
    <2> QED
      BY <2>1, SeqMonotonic
  <1> HIDE DEF S
  <1>2. ss \in Seq(Seq(S)) /\ DOMAIN ss = DOMAIN doc
    BY <1>1 DEF WellFormed
  <1>3. /\ FlattenSeq(ss) \in Seq(S)
        /\ \A k \in DOMAIN FlattenSeq(ss) : \E i \in DOMAIN ss : \E n \in DOMAIN ss[i] : FlattenSeq(ss)[k] = ss[i][n]
    <2> HIDE DEF ss
    <2> QED
      BY <1>2, FlattenIs
  <1>4. BlocksOf(doc) = FlattenSeq(ss)
    BY DEF BlocksOf
  <1>5. \A i \in DOMAIN ss : ss[i] = doc[i].enforce
    OBVIOUS
  <1> HIDE DEF ss
  <1>6. Len(BlocksOf(doc)) \in Nat /\ DOMAIN BlocksOf(doc) = 1..Len(BlocksOf(doc))
    BY <1>3, <1>4, LenProperties
  <1>7. ASSUME NEW k \in DOMAIN BlocksOf(doc)
        PROVE  \E i \in DOMAIN doc : BlocksOf(doc)[k] \in RuleBlocks(doc[i])
    <2>a. PICK i \in DOMAIN ss : \E n \in DOMAIN ss[i] : FlattenSeq(ss)[k] = ss[i][n]
      BY <1>3, <1>4, <1>7
    <2>1. PICK n \in DOMAIN ss[i] : FlattenSeq(ss)[k] = ss[i][n]
      BY <2>a
    <2>2. i \in DOMAIN doc /\ n \in DOMAIN doc[i].enforce /\ BlocksOf(doc)[k] = doc[i].enforce[n]
      BY <1>2, <1>4, <1>5, <2>1
    <2> QED
      BY <2>2 DEF RuleBlocks
  <1> QED
    BY <1>6, <1>7

-----------------------------------------------------------------------------
(* Authoring: one call of the engine that runs a document.                   *)

(* Nothing is known of a domain that no tool is mapped to.                   *)
OnlyMapped(st) ==
    \A u \in WalkUsers, d \in WalkDomains : d \notin Mapped => \A m \in WalkPeople \cup {WalkMarker} : st.ents[u][d][m] = 0

(* Recording an answer from a mapped domain.                                 *)
LEMMA AskedRecord ==
  ASSUME NEW b, NEW day, NEW st \in StoreKept, NEW u \in WalkUsers, NEW d \in Mapped, NEW es
  PROVE  LET rec == Engine(b, day)!Record("memory", st, u, d, es, 1) IN
         rec \in StoreKept /\ (OnlyMapped(st) => OnlyMapped(rec))
  <1> DEFINE M == WalkPeople \cup {WalkMarker}
             bucket == [m \in M |-> IF m \in es \/ (m = WalkMarker /\ st.ents[u][d][m] = 0) THEN 1 ELSE st.ents[u][d][m]]
             rec == [st EXCEPT !.ents[u][d] = bucket]
  <1>1. Engine(b, day)!Record("memory", st, u, d, es, 1) = rec
    BY DEF Engine!Record, Engine!MemoryBucket, Engine!Marks
  <1>2. StoreKept = [ents   : [WalkUsers -> [WalkDomains -> [M -> Nat]]],
                     seen   : [WalkUsers -> [WalkDomains -> Nat]],
                     grants : [WalkUsers -> [WalkRules -> Nat]]]
    BY DEF StoreKept, Engine!StoreType, Engine!Marks
  <1>3. d \in WalkDomains
    BY AuthoringAssumption
  <1>4. bucket \in [M -> Nat]
    BY <1>2, <1>3
  <1> HIDE DEF bucket, M
  <1>5. /\ rec \in StoreKept
        /\ \A v \in WalkUsers, x \in WalkDomains : x # d => rec.ents[v][x] = st.ents[v][x]
    BY <1>2, <1>3, <1>4
  <1>6. OnlyMapped(st) => OnlyMapped(rec)
    BY <1>5 DEF OnlyMapped
  <1> HIDE DEF rec
  <1> QED
    BY <1>1, <1>5, <1>6

(* The first block that fires is one of those that fire.                     *)
LEMMA FirstOfEngine ==
  ASSUME NEW b, NEW day, DOMAIN b \subseteq Nat, NEW S \in SUBSET DOMAIN b, S # {}
  PROVE  Engine(b, day)!First(S) \in S
  <1>1. S \in SUBSET Nat
    OBVIOUS
  <1>2. Engine(b, day)!First(S) = First(S)
    BY DEF Engine!First, First
  <1> QED
    BY <1>1, <1>2, FirstIsOne

(* A refusal or a leave before the call is a block that stops; afterwards    *)
(* the blocks that fire are named, and only one that stops refuses.          *)
Fires(b, day, st, u, s, i) ==
    \/ i \in Engine(b, day)!PreFires(st, u, s.domain, s.write)
    \/ i \in Engine(b, day)!PostFires(Engine(b, day)!Record("memory", st, u, s.domain, s.people, 1), u, s.domain, s.people)

LEMMA PreNames ==
  ASSUME NEW b, NEW day, DOMAIN b \subseteq Nat, NEW st, NEW u, NEW d, NEW w
  PROVE  LET met == Engine(b, day)!PreCall(st, u, d, w) IN
         /\ met.allow \in BOOLEAN /\ met.alerts = {}
         /\ \/ met.allow /\ met.rule = "no rule"
            \/ \E i \in Engine(b, day)!PreFires(st, u, d, w) : met.rule = b[i].rule
         /\ met.allow \/ \E i \in DOMAIN b : Engine(b, day)!Stops(b[i])
  <1> DEFINE fires == Engine(b, day)!PreFires(st, u, d, w)
             i == Engine(b, day)!First(fires)
             met == Engine(b, day)!PreCall(st, u, d, w)
  <1>1. fires \in SUBSET DOMAIN b /\ \A n \in fires : Engine(b, day)!Stops(b[n])
    BY DEF Engine!PreFires, Engine!FlowFires, Engine!GateFires, Engine!JoinWouldComplete
  <1>2. CASE fires = {}
    <2>1. met = Engine(b, day)!Allowed
      BY <1>2 DEF Engine!PreCall
    <2> HIDE DEF met
    <2>2. met.allow = TRUE /\ met.rule = "no rule" /\ met.alerts = {}
      BY <2>1 DEF Engine!Allowed
    <2> QED
      BY <2>2 DEF met
  <1>3. CASE fires # {}
    <2>1. i \in fires
      BY <1>1, <1>3, FirstOfEngine
    <2>2. met = Engine(b, day)!Waived(b[i]) \/ met = Engine(b, day)!Denied(b[i])
      BY <1>3 DEF Engine!PreCall
    <2>3. met.allow \in BOOLEAN /\ met.alerts = {} /\ met.rule = b[i].rule
      BY <2>2 DEF Engine!Waived, Engine!Denied, Engine!Allowed
    <2> HIDE DEF fires, i, met
    <2>4. Engine(b, day)!Stops(b[i]) /\ i \in DOMAIN b
      BY <1>1, <2>1
    <2> QED
      BY <2>1, <2>3, <2>4 DEF fires, met
  <1> QED
    BY <1>2, <1>3

LEMMA PostNames ==
  ASSUME NEW b, NEW day, DOMAIN b \subseteq Nat, NEW st, NEW u, NEW d, NEW es
  PROVE  LET met == Engine(b, day)!PostCall(st, u, d, es) IN
         /\ met.allow \in BOOLEAN
         /\ \A r \in met.alerts : \E i \in Engine(b, day)!PostFires(st, u, d, es) : r = b[i].rule
         /\ \/ met.allow /\ met.rule = "no rule"
            \/ \E i \in Engine(b, day)!PostFires(st, u, d, es) : met.rule = b[i].rule
         /\ met.allow \/ \E i \in DOMAIN b : Engine(b, day)!Stops(b[i])
  <1> DEFINE fires   == Engine(b, day)!PostFires(st, u, d, es)
             refuses == Engine(b, day)!Refusing(st, u, fires)
             i == Engine(b, day)!First(refuses)
             met == Engine(b, day)!PostCall(st, u, d, es)
  <1>1. /\ fires \in SUBSET DOMAIN b /\ refuses \in SUBSET fires
        /\ \A n \in refuses : Engine(b, day)!Stops(b[n])
    BY DEF Engine!PostFires, Engine!Refusing
  <1>2. CASE refuses = {}
    <2>1. met = [Engine(b, day)!Allowed EXCEPT !.alerts = {b[j].rule : j \in fires}]
      BY <1>2 DEF Engine!PostCall
    <2>2. met.allow = TRUE /\ met.rule = "no rule" /\ met.alerts = {b[j].rule : j \in fires}
      BY <2>1 DEF Engine!Allowed
    <2> QED
      BY <2>2
  <1>3. CASE refuses # {}
    <2>0. refuses \in SUBSET DOMAIN b
      BY <1>1
    <2>1. i \in refuses
      BY <2>0, <1>3, FirstOfEngine
    <2>2. met = [Engine(b, day)!Denied(b[i]) EXCEPT !.alerts =
                    IF b[i].kind = "domain_join" THEN {b[j].rule : j \in {n \in fires : n < i}} ELSE {}]
      BY <1>3 DEF Engine!PostCall
    <2>3. /\ met.allow \in BOOLEAN /\ met.rule = b[i].rule
          /\ met.alerts = IF b[i].kind = "domain_join" THEN {b[j].rule : j \in {n \in fires : n < i}} ELSE {}
      BY <2>2 DEF Engine!Denied, Engine!Allowed
    <2> HIDE DEF fires, refuses, i, met
    <2>4. Engine(b, day)!Stops(b[i]) /\ i \in DOMAIN b /\ i \in fires
      BY <1>1, <2>0, <2>1
    <2>5. \A r \in met.alerts : \E j \in fires : r = b[j].rule
      BY <2>3
    <2> QED
      BY <2>3, <2>4, <2>5 DEF fires, met
  <1> QED
    BY <1>2, <1>3

(* The rules that a decision names.                                          *)
NamedBy(met) == met.alerts \cup ({met.rule} \ {"no rule"})

(* What an engine does with a call: it keeps its store, and what it names    *)
(* has fired.                                                                *)
Answered(c, b, day, st, u, s) ==
    /\ c.store \in StoreKept /\ (OnlyMapped(st) => OnlyMapped(c.store))
    /\ c.met.allow \in BOOLEAN
    /\ \A r \in NamedBy(c.met) : \E i \in DOMAIN b : Fires(b, day, st, u, s, i) /\ r = b[i].rule
    /\ c.met.allow \/ \E i \in DOMAIN b : Engine(b, day)!Stops(b[i])

LEMMA AskIs ==
  ASSUME NEW b, NEW day, DOMAIN b \subseteq Nat, NEW st \in StoreKept, NEW u \in WalkUsers,
         NEW d \in Mapped, NEW w, NEW es
  PROVE  Answered(Ask(b, day, st, u, Step(d, w, es)), b, day, st, u, Step(d, w, es))
  <1> DEFINE s   == Step(d, w, es)
             pre == Engine(b, day)!PreCall(st, u, d, w)
             rec == Engine(b, day)!Record("memory", st, u, d, es, 1)
             post == Engine(b, day)!PostCall(rec, u, d, es)
             c == Ask(b, day, st, u, s)
  <1>1. s.domain = d /\ s.write = w /\ s.people = es
    BY DEF Step
  <1>2. c = IF ~ pre.allow THEN [store |-> st, met |-> pre] ELSE [store |-> rec, met |-> post]
    BY <1>1 DEF Ask
  <1>3. \A i : Fires(b, day, st, u, s, i) <=>
               (i \in Engine(b, day)!PreFires(st, u, d, w) \/ i \in Engine(b, day)!PostFires(rec, u, d, es))
    BY <1>1 DEF Fires
  <1>4. \A i : Fires(b, day, st, u, s, i) => i \in DOMAIN b
    BY <1>3 DEF Engine!PreFires, Engine!PostFires
  <1>5. rec \in StoreKept /\ (OnlyMapped(st) => OnlyMapped(rec))
    BY AskedRecord
  <1>6. /\ pre.allow \in BOOLEAN /\ pre.alerts = {}
        /\ \/ pre.allow /\ pre.rule = "no rule"
           \/ \E i \in Engine(b, day)!PreFires(st, u, d, w) : pre.rule = b[i].rule
        /\ pre.allow \/ \E i \in DOMAIN b : Engine(b, day)!Stops(b[i])
    BY PreNames
  <1>7. /\ post.allow \in BOOLEAN
        /\ \A r \in post.alerts : \E i \in Engine(b, day)!PostFires(rec, u, d, es) : r = b[i].rule
        /\ \/ post.allow /\ post.rule = "no rule"
           \/ \E i \in Engine(b, day)!PostFires(rec, u, d, es) : post.rule = b[i].rule
        /\ post.allow \/ \E i \in DOMAIN b : Engine(b, day)!Stops(b[i])
    BY PostNames
  <1> HIDE DEF s, pre, rec, post
  <1>8. CASE ~ pre.allow
    <2>1. c.store = st /\ c.met = pre
      BY <1>2, <1>8
    <2> QED
      BY <1>3, <1>4, <1>6, <2>1 DEF s, NamedBy, Answered
  <1>9. CASE pre.allow
    <2>1. c.store = rec /\ c.met = post
      BY <1>2, <1>9
    <2> QED
      BY <1>3, <1>4, <1>5, <1>7, <2>1 DEF s, NamedBy, Answered
  <1> QED
    BY <1>8, <1>9

-----------------------------------------------------------------------------
(* Authoring: a block that lint calls dead.                                  *)

(* Of the words that lint may use, the three that say a block is dead, on a  *)
(* given day.                                                                *)
DeadOn(day, b) ==
    \/ NoTaint(b)
    \/ Unmapped(b) /\ NeedsAll(b)
    \/ b.until # 0 /\ b.until < day /\ Dated(b)

LEMMA SaidIs ==
  ASSUME NEW r, NEW b
  PROVE  SaidDead(r, b) <=> DeadOn(today, b)
  <1>1. "taint" \in BlockFindings(r, b) <=> NoTaint(b)
    BY DEF BlockFindings
  <1>2. "mapped" \in BlockFindings(r, b) <=> Unmapped(b)
    BY DEF BlockFindings
  <1>3. "past" \in BlockFindings(r, b) <=> Past(b)
    BY DEF BlockFindings
  <1> QED
    BY <1>1, <1>2, <1>3 DEF SaidDead, DeadOn, Past

(* A block has no fields but those that its kind looks at.                   *)
OwnFields(b) ==
    /\ b.kind = "domain_join" => b.domain = "no rule"
    /\ b.kind \in {"min_group", "entity_budget", "self_comparison"} => b.domains = {}
    /\ NeedsAll(b) => b.taint = {} /\ b.egress = {}

(* The domains that a user has something from are mapped ones.               *)
LEMMA KnownMapped ==
  ASSUME NEW b, NEW day, NEW st \in StoreKept, OnlyMapped(st), NEW u \in WalkUsers
  PROVE  Engine(b, day)!DomainsOf("memory", st, u) \subseteq Mapped
  <1> SUFFICES ASSUME NEW d \in WalkDomains, d \notin Mapped, Engine(b, day)!BucketLive(st, u, d)
               PROVE  FALSE
    BY DEF Engine!DomainsOf
  <1>1. PICK m \in WalkPeople \cup {WalkMarker} : st.ents[u][d][m] > 0
    BY DEF Engine!BucketLive, Engine!Marks
  <1>2. st.ents[u][d][m] = 0
    BY DEF OnlyMapped
  <1> QED
    BY <1>1, <1>2

(* It fires on no call.                                                      *)
LEMMA DeadIsSilent ==
  ASSUME NEW b, NEW day \in Nat, NEW st \in StoreKept, OnlyMapped(st), NEW u \in WalkUsers,
         NEW d \in Mapped, NEW w, NEW es, NEW i, Fires(b, day, st, u, Step(d, w, es), i),
         b[i].until \in Nat, OwnFields(b[i])
  PROVE  ~ DeadOn(day, b[i])
  <1> DEFINE rec == Engine(b, day)!Record("memory", st, u, d, es, 1)
  <1>1. i \in Engine(b, day)!PreFires(st, u, d, w) \/ i \in Engine(b, day)!PostFires(rec, u, d, es)
    BY DEF Fires, Step
  <1>2. Engine(b, day)!InScope(b[i], u) => ~ (b[i].until # 0 /\ b[i].until < day)
    BY DEF Engine!InScope
  <1>3. Engine(b, day)!DomainsOf("memory", st, u) \subseteq Mapped
    BY KnownMapped
  <1>4. rec \in StoreKept /\ OnlyMapped(rec)
    BY AskedRecord
  <1> HIDE DEF rec
  <1>5. Engine(b, day)!DomainsOf("memory", rec, u) \subseteq Mapped
    BY <1>4, KnownMapped
  <1>6. CASE b[i].kind = "flow" /\ b[i].taint # {} /\ Engine(b, day)!InScope(b[i], u)
    BY <1>2, <1>6 DEF DeadOn, NoTaint, NeedsAll
  <1>7. CASE b[i].kind \in {"domain_block", "wall"} /\ Engine(b, day)!InScope(b[i], u)
    BY <1>2, <1>7 DEF DeadOn, NoTaint, NeedsAll
  <1>8. CASE b[i].kind = "domain_join" /\ b[i].domains \subseteq Mapped /\ Engine(b, day)!InScope(b[i], u)
    <2>1. NamedDomains(b[i]) = b[i].domains
      BY <1>8 DEF OwnFields, NeedsAll, NamedDomains
    <2> QED
      BY <1>2, <1>8, <2>1 DEF DeadOn, NoTaint, Unmapped
  <1>9. CASE b[i].kind = "min_group" /\ b[i].domain = d /\ Engine(b, day)!InScope(b[i], u)
    <2>1. NamedDomains(b[i]) \subseteq {d}
      BY <1>9 DEF OwnFields, NeedsAll, NamedDomains
    <2> QED
      BY <1>2, <1>9, <2>1 DEF DeadOn, NoTaint, Unmapped
  <1>10. CASE b[i].kind \in {"entity_budget", "self_comparison"} /\ b[i].domain = d
    <2>1. NamedDomains(b[i]) \subseteq {d}
      BY <1>10 DEF OwnFields, NeedsAll, NamedDomains
    <2> QED
      BY <1>10, <2>1 DEF DeadOn, NoTaint, Unmapped, Dated
  <1>11. CASE i \in Engine(b, day)!PreFires(st, u, d, w)
    <2>1. \/ Engine(b, day)!FlowFires(st, u, d, w, b[i])
          \/ Engine(b, day)!GateFires(u, d, w, b[i])
          \/ Engine(b, day)!JoinWouldComplete(st, u, d, b[i])
      BY <1>11 DEF Engine!PreFires
    <2>2. CASE Engine(b, day)!FlowFires(st, u, d, w, b[i])
      BY <1>6, <2>2 DEF Engine!FlowFires
    <2>3. CASE Engine(b, day)!GateFires(u, d, w, b[i])
      BY <1>7, <2>3 DEF Engine!GateFires
    <2>4. CASE Engine(b, day)!JoinWouldComplete(st, u, d, b[i])
      BY <1>3, <1>8, <2>4 DEF Engine!JoinWouldComplete
    <2> QED
      BY <2>1, <2>2, <2>3, <2>4
  <1>12. CASE i \in Engine(b, day)!PostFires(rec, u, d, es)
    <2>1. \/ Engine(b, day)!GroupTooSmall(u, d, es, b[i])
          \/ Engine(b, day)!OverBudget(rec, u, d, b[i])
          \/ Engine(b, day)!SelfCompared(rec, u, d, b[i])
          \/ Engine(b, day)!JoinComplete(rec, u, d, b[i])
      BY <1>12 DEF Engine!PostFires
    <2>2. CASE Engine(b, day)!GroupTooSmall(u, d, es, b[i])
      BY <1>9, <2>2 DEF Engine!GroupTooSmall
    <2>3. CASE Engine(b, day)!OverBudget(rec, u, d, b[i]) \/ Engine(b, day)!SelfCompared(rec, u, d, b[i])
      BY <1>10, <2>3 DEF Engine!OverBudget, Engine!SelfCompared
    <2>4. CASE Engine(b, day)!JoinComplete(rec, u, d, b[i])
      BY <1>5, <1>8, <2>4 DEF Engine!JoinComplete
    <2> QED
      BY <2>1, <2>2, <2>3, <2>4
  <1> QED
    BY <1>1, <1>11, <1>12

-----------------------------------------------------------------------------
(* Authoring: whatever is called, day after day.                             *)

(* What is assumed of documents and of the calendar, one fact at a time.     *)
LEMMA DaysAre == LastDay \in Nat
  BY AuthoringAssumption, Zenon

LEMMA RulesAre ==
  ASSUME NEW doc \in Drafted \cup ByHand
  PROVE  /\ doc \in Seq({doc[i] : i \in DOMAIN doc})
         /\ \A i \in DOMAIN doc : \A n \in DOMAIN doc[i].enforce : DOMAIN doc[i].enforce[n] = DOMAIN AnyBlock
  <1>1. doc \in Seq({doc[i] : i \in DOMAIN doc})
    BY AuthoringAssumption, Zenon
  <1>2. \A i \in DOMAIN doc :
           /\ DOMAIN doc[i] = {"id", "severity", "enforce", "tests"} /\ doc[i].id \in WalkRules
           /\ doc[i].enforce \in Seq({doc[i].enforce[n] : n \in DOMAIN doc[i].enforce})
           /\ \A n \in DOMAIN doc[i].enforce : /\ DOMAIN doc[i].enforce[n] = DOMAIN AnyBlock
                                               /\ doc[i].enforce[n].rule = doc[i].id
                                               /\ doc[i].enforce[n].until \in Nat
    BY AuthoringAssumption, Zenon
  <1> QED
    BY <1>1, <1>2

(* Every document that comes in is one, and so is what ingest makes of it:   *)
(* the same rules, with blocks that are the same but for their action.       *)
LEMMA DocumentIs ==
  ASSUME NEW doc \in Drafted \cup ByHand
  PROVE  WellFormed(doc)
  <1> DEFINE Rs == {doc[i] : i \in DOMAIN doc}
  <1>1. doc \in Seq(Rs) /\ doc # <<>>
    BY AuthoringAssumption
  <1>2. \A i \in DOMAIN doc :
           /\ doc[i].id \in WalkRules
           /\ doc[i].enforce \in Seq({doc[i].enforce[n] : n \in DOMAIN doc[i].enforce})
           /\ \A n \in DOMAIN doc[i].enforce : doc[i].enforce[n].rule = doc[i].id /\ doc[i].enforce[n].until \in Nat
    BY AuthoringAssumption
  <1> HIDE DEF Rs
  <1>3. Len(doc) \in Nat /\ DOMAIN doc = 1..Len(doc)
    BY <1>1, LenProperties
  <1> QED
    BY <1>1, <1>2, <1>3 DEF WellFormed, RuleBlocks

LEMMA ForcedIs ==
  ASSUME NEW doc \in Drafted
  PROVE  /\ WellFormed(Forced(doc)) /\ DOMAIN Forced(doc) = DOMAIN doc
         /\ \A i \in DOMAIN doc :
               /\ Forced(doc)[i].id = doc[i].id
               /\ \A b \in RuleBlocks(Forced(doc)[i]) :
                     b.action = "alert" /\ \E c \in RuleBlocks(doc[i]) : b = [c EXCEPT !.action = "alert"]
  <1> DEFINE blocks(i) == [n \in DOMAIN doc[i].enforce |-> [doc[i].enforce[n] EXCEPT !.action = "alert"]]
             forced(i) == [doc[i] EXCEPT !.enforce = blocks(i)]
  <1>1. WellFormed(doc)
    BY DocumentIs
  <1>2. DOMAIN Forced(doc) = DOMAIN doc /\ \A i \in DOMAIN doc : Forced(doc)[i] = forced(i)
    BY DEF Forced
  <1>3. ASSUME NEW i \in DOMAIN doc
        PROVE  forced(i).id = doc[i].id /\ forced(i).enforce = blocks(i)
    <2>1. DOMAIN doc[i] = {"id", "severity", "enforce", "tests"}
      BY AuthoringAssumption
    <2> QED
      BY <2>1
  <1>4. ASSUME NEW i \in DOMAIN doc, NEW n \in DOMAIN doc[i].enforce
        PROVE  /\ blocks(i)[n] = [doc[i].enforce[n] EXCEPT !.action = "alert"]
               /\ blocks(i)[n].action = "alert"
               /\ blocks(i)[n].rule = doc[i].id /\ blocks(i)[n].until \in Nat
    <2>1. DOMAIN doc[i].enforce[n] = DOMAIN AnyBlock
      BY RulesAre
    <2>2. "action" \in DOMAIN AnyBlock /\ "rule" \in DOMAIN AnyBlock /\ "until" \in DOMAIN AnyBlock
      BY DEF AnyBlock, Engine!Block
    <2>3. doc[i].enforce[n].rule = doc[i].id /\ doc[i].enforce[n].until \in Nat
      BY AuthoringAssumption
    <2> QED
      BY <2>1, <2>2, <2>3
  <1>5. ASSUME NEW i \in DOMAIN doc
        PROVE  blocks(i) \in Seq({blocks(i)[n] : n \in DOMAIN blocks(i)}) /\ DOMAIN blocks(i) = DOMAIN doc[i].enforce
    <2>1. doc[i].enforce \in Seq(RuleBlocks(doc[i]))
      BY <1>1 DEF WellFormed
    <2>2. Len(doc[i].enforce) \in Nat /\ DOMAIN doc[i].enforce = 1..Len(doc[i].enforce)
      BY <2>1, LenProperties
    <2> DEFINE n == Len(doc[i].enforce)
               B == {blocks(i)[k] : k \in DOMAIN blocks(i)}
    <2>3. DOMAIN blocks(i) = 1..n /\ blocks(i) = [k \in 1..n |-> blocks(i)[k]] /\ \A k \in 1..n : blocks(i)[k] \in B
      BY <2>2
    <2> HIDE DEF blocks, B, n
    <2>a. n \in Nat /\ DOMAIN blocks(i) = DOMAIN doc[i].enforce
      BY <2>2, <2>3 DEF n
    <2>4. blocks(i) \in Seq(B)
      BY <2>a, <2>3
    <2> QED
      BY <2>a, <2>4 DEF B
  <1> HIDE DEF blocks, forced
  <1>6. Len(Forced(doc)) \in Nat /\ DOMAIN Forced(doc) = 1..Len(Forced(doc)) /\ Forced(doc) # <<>>
    <2>1. Len(doc) \in Nat /\ DOMAIN doc = 1..Len(doc) /\ doc # <<>>
      BY <1>1 DEF WellFormed
    <2>2. Len(doc) # 0
      <3>1. doc \in Seq({doc[i] : i \in DOMAIN doc})
        BY RulesAre
      <3> QED
        BY <2>1, <3>1, EmptySeq
    <2>3. Forced(doc) = [i \in 1..Len(doc) |-> Forced(doc)[i]]
      BY <1>2, <2>1 DEF Forced
    <2>4. Forced(doc) \in Seq({Forced(doc)[i] : i \in 1..Len(doc)}) /\ Len(Forced(doc)) = Len(doc)
      BY <2>1, <2>3
    <2> QED
      BY <1>2, <2>1, <2>2, <2>4
  <1>7. ASSUME NEW i \in DOMAIN doc, NEW b \in RuleBlocks(Forced(doc)[i])
        PROVE  /\ b.action = "alert" /\ b.rule = doc[i].id /\ b.until \in Nat
               /\ \E c \in RuleBlocks(doc[i]) : b = [c EXCEPT !.action = "alert"]
    <2>1. PICK n \in DOMAIN doc[i].enforce : b = blocks(i)[n]
      BY <1>2, <1>3, <1>5 DEF RuleBlocks
    <2>2. /\ b = [doc[i].enforce[n] EXCEPT !.action = "alert"] /\ b.action = "alert"
          /\ b.rule = doc[i].id /\ b.until \in Nat
      BY <1>4, <2>1
    <2>3. doc[i].enforce[n] \in RuleBlocks(doc[i])
      BY DEF RuleBlocks
    <2> QED
      BY <2>2, <2>3
  <1>8. ASSUME NEW i \in DOMAIN doc
        PROVE  Forced(doc)[i].enforce \in Seq(RuleBlocks(Forced(doc)[i])) /\ Forced(doc)[i].id = doc[i].id
    BY <1>2, <1>3, <1>5 DEF RuleBlocks
  <1> QED
    BY <1>1, <1>2, <1>6, <1>7, <1>8 DEF WellFormed

(* What holds throughout of the document, of what its engine knows and, of a *)
(* draft, of what it does.                                                   *)
AuthoringInv ==
    /\ AuthoringTypeOK
    /\ OnlyMapped(pulled)
    /\ author = "nobody" => named = {}
    /\ author # "nobody" => WellFormed(document)
    /\ author = "ingest" =>
          ~ refused /\ \A i \in DOMAIN document : \A b \in RuleBlocks(document[i]) : b.action = "alert"
    /\ author = "nobody" => ~ refused

(* A call reaches the engine with the blocks of the rules that were written. *)
LEMMA DocCallIs ==
  ASSUME AuthoringInv, NEW b, b = BlocksOf(document), NEW u \in WalkUsers, NEW d \in Mapped,
         NEW w \in BOOLEAN, NEW es \in Answers, DocCall(b, u, Step(d, w, es))
  PROVE  /\ pulled' \in StoreKept /\ OnlyMapped(pulled)' /\ refused' \in BOOLEAN
         /\ WellFormed(document)
         /\ \A r \in named' : \E i \in DOMAIN document : \E x \in RuleBlocks(document[i]) :
               r = document[i].id /\ \E n : x = b[n] /\ Fires(b, today, pulled, u, Step(d, w, es), n)
         /\ author = "ingest" => ~ refused'
         /\ UNCHANGED <<document, author, today>>
  <1> DEFINE s == Step(d, w, es)
             c == Ask(b, today, pulled, u, s)
  <1>1. /\ author # "nobody" /\ WellFormed(document) /\ UNCHANGED <<document, author, today>>
        /\ pulled' = c.store /\ named' = c.met.alerts \cup ({c.met.rule} \cap WalkRules)
        /\ refused' = (refused \/ ~ c.met.allow)
    BY DEF DocCall, AuthoringInv
  <1>2. /\ DOMAIN b \subseteq Nat
        /\ \A k \in DOMAIN b : \E i \in DOMAIN document : b[k] \in RuleBlocks(document[i])
    BY <1>1, BlocksOfIs
  <1>3. pulled \in StoreKept /\ OnlyMapped(pulled) /\ refused \in BOOLEAN
    BY DEF AuthoringInv, AuthoringTypeOK
  <1>4. Answered(c, b, today, pulled, u, s)
    BY <1>2, <1>3, AskIs
  <1> HIDE DEF s, c
  <1>5. OnlyMapped(pulled)'
    <2>1. OnlyMapped(pulled')
      BY <1>1, <1>3, <1>4 DEF Answered
    <2> QED
      BY <2>1 DEF OnlyMapped
  <1>6. ASSUME NEW r \in named'
        PROVE  \E i \in DOMAIN document : \E x \in RuleBlocks(document[i]) :
                  r = document[i].id /\ \E n : x = b[n] /\ Fires(b, today, pulled, u, s, n)
    <2>1. r \in NamedBy(c.met)
      BY <1>1, <1>6, AuthoringAssumption, Zenon DEF NamedBy
    <2>2. PICK n \in DOMAIN b : Fires(b, today, pulled, u, s, n) /\ r = b[n].rule
      BY <1>4, <2>1 DEF Answered
    <2>3. PICK i \in DOMAIN document : b[n] \in RuleBlocks(document[i])
      BY <1>2, <2>2
    <2>4. r = document[i].id
      BY <1>1, <2>2, <2>3 DEF WellFormed
    <2> QED
      BY <2>2, <2>3, <2>4
  <1>7. ASSUME author = "ingest"
        PROVE  ~ refused'
    <2>1. ~ refused /\ \A i \in DOMAIN document : \A x \in RuleBlocks(document[i]) : x.action = "alert"
      BY <1>7 DEF AuthoringInv
    <2>2. \A k \in DOMAIN b : ~ Engine(b, today)!Stops(b[k])
      BY <1>2, <2>1 DEF Engine!Stops, Engine!Gate
    <2> QED
      BY <1>1, <1>4, <2>1, <2>2 DEF Answered
  <1> QED
    BY <1>1, <1>3, <1>4, <1>5, <1>6, <1>7 DEF s, Answered

LEMMA NewStoreIs == NewStore \in StoreKept /\ OnlyMapped(NewStore)
  <1>1. NewStore \in StoreKept
    BY DEF NewStore, StoreKept, Engine!EmptyStore, Engine!StoreType
  <1>2. OnlyMapped(NewStore)
    BY DEF NewStore, OnlyMapped, Engine!EmptyStore, Engine!Marks
  <1> QED
    BY <1>1, <1>2

LEMMA AuthoringTypes ==
  ASSUME AuthoringInv
  PROVE  today \in Nat /\ today \in 0..LastDay /\ pulled \in StoreKept /\ OnlyMapped(pulled) /\ refused \in BOOLEAN
  <1>1. today \in 0..LastDay /\ pulled \in StoreKept /\ OnlyMapped(pulled) /\ refused \in BOOLEAN
    BY Zenon DEF AuthoringInv, AuthoringTypeOK
  <1> QED
    BY <1>1, DaysAre

LEMMA AuthoringKept == AuthoringInv /\ [AuthoringNext]_authoringVars => AuthoringInv'
  <1> SUFFICES ASSUME AuthoringInv, [AuthoringNext]_authoringVars
               PROVE  AuthoringInv'
    OBVIOUS
  <1>1. ASSUME NEW doc \in Drafted, Ingest(doc)
        PROVE  AuthoringInv'
    <2>1. /\ author = "nobody" /\ document' = Forced(doc) /\ author' = "ingest"
          /\ UNCHANGED <<today, pulled, named, refused>>
      BY <1>1 DEF Ingest
    <2>2. WellFormed(document') /\ document' # <<>> /\ ~ refused'
      BY <2>1, ForcedIs DEF WellFormed, AuthoringInv
    <2>3. \A i \in DOMAIN document' : \A b \in RuleBlocks(document'[i]) : b.action = "alert"
      BY <2>1, ForcedIs
    <2> QED
      BY <2>1, <2>2, <2>3 DEF AuthoringInv, AuthoringTypeOK, OnlyMapped
  <1>2. ASSUME NEW doc \in ByHand, WriteByHand(doc)
        PROVE  AuthoringInv'
    <2>1. /\ author = "nobody" /\ document' = doc /\ author' = "people"
          /\ UNCHANGED <<today, pulled, named, refused>>
      BY <1>2 DEF WriteByHand
    <2>2. WellFormed(document') /\ document' # <<>>
      BY <2>1, DocumentIs DEF WellFormed
    <2> QED
      BY <2>1, <2>2 DEF AuthoringInv, AuthoringTypeOK, OnlyMapped
  <1>3. ASSUME NEW b \in {BlocksOf(document)}, NEW u \in WalkUsers, NEW d \in Mapped,
               NEW w \in BOOLEAN, NEW es \in Answers, DocCall(b, u, Step(d, w, es))
        PROVE  AuthoringInv'
    <2>1. /\ pulled' \in StoreKept /\ OnlyMapped(pulled)' /\ refused' \in BOOLEAN
          /\ WellFormed(document)
          /\ \A r \in named' : \E i \in DOMAIN document : r = document[i].id
          /\ author = "ingest" => ~ refused'
          /\ UNCHANGED <<document, author, today>>
      BY <1>3, DocCallIs
    <2>2. named' \subseteq WalkRules /\ author # "nobody"
      BY <1>3, <2>1 DEF WellFormed, DocCall
    <2> QED
      BY <2>1, <2>2 DEF AuthoringInv, AuthoringTypeOK
  <1>4. CASE NextDay
    <2>1. /\ document # <<>> /\ today' = today + 1 /\ today < LastDay
          /\ pulled' = NewStore /\ named' = {}
          /\ UNCHANGED <<document, author, refused>>
      BY <1>4 DEF NextDay
    <2>2. today' \in 0..LastDay
      BY <2>1, DaysAre, AuthoringTypes
    <2>3. OnlyMapped(pulled)'
      BY <2>1, NewStoreIs DEF OnlyMapped
    <2> QED
      BY <2>1, <2>2, <2>3, NewStoreIs DEF AuthoringInv, AuthoringTypeOK
  <1>5. CASE UNCHANGED authoringVars
    BY <1>5 DEF authoringVars, AuthoringInv, AuthoringTypeOK, OnlyMapped
  <1> QED
    BY <1>1, <1>2, <1>3, <1>4, <1>5 DEF AuthoringNext

LEMMA AuthoringHolds == AuthoringSpec => []AuthoringInv
  <1>1. AuthoringInit => AuthoringInv
    <2>1. 0 \in 0..LastDay
      BY DaysAre
    <2> SUFFICES ASSUME AuthoringInit
                 PROVE  AuthoringInv
      OBVIOUS
    <2>2. AuthoringTypeOK
      BY <2>1, NewStoreIs, Zenon DEF AuthoringInit, AuthoringTypeOK
    <2>3. OnlyMapped(pulled)
      BY NewStoreIs DEF AuthoringInit
    <2> QED
      BY <2>2, <2>3 DEF AuthoringInit, AuthoringInv
  <1> QED
    BY <1>1, AuthoringKept, PTL DEF AuthoringSpec

(* The state around a document is well-formed, whatever is written and       *)
(* called: the engine's store (policy.py:387) never leaves its type.         *)
THEOREM AuthoringTyped == AuthoringSpec => []AuthoringTypeOK
  <1>1. AuthoringInv => AuthoringTypeOK
    BY DEF AuthoringInv
  <1> QED
    BY <1>1, AuthoringHolds, PTL

(* "Drafts never deny, whatever the model said" (ingest.py:246): of every    *)
(* document that the model may come up with, what ingest writes refuses      *)
(* nobody, whatever is called, on whatever day and in whatever order.        *)
THEOREM DraftsHold == AuthoringSpec => []DraftsOnlyAlert
  <1>1. AuthoringInv => DraftsOnlyAlert
    BY DEF AuthoringInv, DraftsOnlyAlert
  <1> QED
    BY <1>1, AuthoringHolds, PTL

(* No two rules of a document have the same id, which lint would report, and *)
(* its blocks have the fields of their kind.                                 *)
Tidy(doc) ==
    /\ \A i, j \in DOMAIN doc : doc[i].id = doc[j].id => i = j
    /\ \A i \in DOMAIN doc : \A b \in RuleBlocks(doc[i]) : OwnFields(b)

TidyDocuments == \A doc \in Drafted \cup ByHand : Tidy(doc)

(* What was named has a block that lint does not call dead.                  *)
NamedInv ==
    /\ Tidy(document)
    /\ \A r \in named : \E i \in DOMAIN document : \E b \in RuleBlocks(document[i]) :
          r = document[i].id /\ ~ DeadOn(today, b)

LEMMA NamedKept ==
  ASSUME TidyDocuments
  PROVE  AuthoringInv /\ NamedInv /\ [AuthoringNext]_authoringVars => NamedInv'
  <1> SUFFICES ASSUME AuthoringInv, NamedInv, [AuthoringNext]_authoringVars
               PROVE  NamedInv'
    OBVIOUS
  <1>1. ASSUME NEW doc \in Drafted, Ingest(doc)
        PROVE  NamedInv'
    <2>1. document' = Forced(doc) /\ named' = {} /\ Tidy(doc)
      BY <1>1 DEF Ingest, AuthoringInv, TidyDocuments
    <2>2. ASSUME NEW i \in DOMAIN doc, NEW b \in RuleBlocks(Forced(doc)[i])
          PROVE  OwnFields(b)
      <3>1. PICK x \in RuleBlocks(doc[i]) : b = [x EXCEPT !.action = "alert"]
        BY ForcedIs
      <3>a. PICK n \in DOMAIN doc[i].enforce : x = doc[i].enforce[n]
        BY DEF RuleBlocks
      <3>b. DOMAIN x = DOMAIN AnyBlock
        BY <3>a, RulesAre
      <3>2. OwnFields(x) /\ DOMAIN x = DOMAIN AnyBlock
        BY <2>1, <3>b DEF Tidy
      <3>3. /\ b.kind = x.kind /\ b.domain = x.domain /\ b.domains = x.domains
            /\ b.taint = x.taint /\ b.egress = x.egress
        BY <3>1, <3>2
      <3> QED
        BY <3>2, <3>3 DEF OwnFields, NeedsAll
    <2>3. Tidy(document')
      BY <2>1, <2>2, ForcedIs DEF Tidy
    <2> QED
      BY <2>1, <2>3 DEF NamedInv
  <1>2. ASSUME NEW doc \in ByHand, WriteByHand(doc)
        PROVE  NamedInv'
    BY <1>2 DEF WriteByHand, AuthoringInv, TidyDocuments, NamedInv
  <1>3. ASSUME NEW b \in {BlocksOf(document)}, NEW u \in WalkUsers, NEW d \in Mapped,
               NEW w \in BOOLEAN, NEW es \in Answers, DocCall(b, u, Step(d, w, es))
        PROVE  NamedInv'
    <2>1. /\ WellFormed(document) /\ document' = document /\ today' = today
          /\ \A r \in named' : \E i \in DOMAIN document : \E x \in RuleBlocks(document[i]) :
                r = document[i].id /\ \E n : x = b[n] /\ Fires(b, today, pulled, u, Step(d, w, es), n)
      BY <1>3, DocCallIs
    <2>2. today \in Nat /\ pulled \in StoreKept /\ OnlyMapped(pulled)
      BY AuthoringTypes
    <2>3. ASSUME NEW r \in named'
          PROVE  \E i \in DOMAIN document : \E x \in RuleBlocks(document[i]) :
                    r = document[i].id /\ ~ DeadOn(today, x)
      <3>1. PICK i \in DOMAIN document : \E x \in RuleBlocks(document[i]) :
                r = document[i].id /\ \E n : x = b[n] /\ Fires(b, today, pulled, u, Step(d, w, es), n)
        BY <2>1
      <3>2. PICK x \in RuleBlocks(document[i]) :
                r = document[i].id /\ \E n : x = b[n] /\ Fires(b, today, pulled, u, Step(d, w, es), n)
        BY <3>1
      <3>3. PICK n : x = b[n] /\ Fires(b, today, pulled, u, Step(d, w, es), n)
        BY <3>2
      <3>4. x.until \in Nat /\ OwnFields(x)
        BY <2>1 DEF WellFormed, NamedInv, Tidy
      <3>5. ~ DeadOn(today, x)
        BY <2>2, <3>3, <3>4, DeadIsSilent
      <3> QED
        BY <3>2, <3>5
    <2>4. \A r \in named' : \E i \in DOMAIN document' : \E x \in RuleBlocks(document'[i]) :
             r = document'[i].id /\ ~ DeadOn(today', x)
      BY <2>1, <2>3
    <2> QED
      BY <2>1, <2>4 DEF NamedInv
  <1>4. CASE NextDay
    BY <1>4 DEF NextDay, NamedInv
  <1>5. CASE UNCHANGED authoringVars
    BY <1>5 DEF authoringVars, NamedInv
  <1> QED
    BY <1>1, <1>2, <1>3, <1>4, <1>5 DEF AuthoringNext

(* "The linter catches the rules that can't fire" (lint.py:3): with that, of *)
(* every policy that names each rule once and gives a block only the fields  *)
(* of its kind, what ingest and lint say of it is what its engine does.      *)
THEOREM AuthorsTold ==
  ASSUME TidyDocuments
  PROVE  AuthoringSpec => []AuthorsAreTold
  <1>1. AuthoringInit => NamedInv
    BY DEF AuthoringInit, NamedInv, Tidy
  <1>2. AuthoringInv /\ NamedInv /\ [AuthoringNext]_authoringVars => NamedInv'
    BY NamedKept
  <1>3. NamedInv => LintTrue
    <2> SUFFICES ASSUME NamedInv, NEW i \in DOMAIN document,
                        \A b \in RuleBlocks(document[i]) : SaidDead(document[i], b), document[i].id \in named
                 PROVE  FALSE
      BY DEF LintTrue
    <2>1. PICK j \in DOMAIN document : \E b \in RuleBlocks(document[j]) :
              document[i].id = document[j].id /\ ~ DeadOn(today, b)
      BY DEF NamedInv
    <2>2. i = j
      BY <2>1 DEF NamedInv, Tidy
    <2> QED
      BY <2>1, <2>2, SaidIs
  <1>4. AuthoringInv => DraftsOnlyAlert
    BY DEF AuthoringInv, DraftsOnlyAlert
  <1>5. DraftsOnlyAlert /\ LintTrue => AuthorsAreTold
    BY DEF AuthorsAreTold
  <1> QED
    BY <1>1, <1>2, <1>3, <1>4, <1>5, AuthoringHolds, PTL DEF AuthoringSpec

-----------------------------------------------------------------------------
(* Scan: a machine with a fix.                                               *)

(* Machines on which scan and the proxy see tools the same way: one hint at  *)
(* most, so that the domain a tool is mapped to is all that it touches, and  *)
(* what scan takes for a writer is a write to the proxy.                     *)
Agreed(t) ==
    /\ \A n \in DOMAIN t.domains : t.domains[n] = t.domains[1]
    /\ t.write => t.acts

AgreedMachines == \A machine \in Setups : \A i \in DOMAIN machine : \A t \in machine[i].tools : Agreed(t)

(* Every tool is mapped to a domain, and one that scan saw to the one that   *)
(* it hints at.                                                              *)
LEMMA DomainIs ==
  ASSUME AgreedMachines, setup \in Setups, NEW i \in DOMAIN setup, NEW t \in setup[i].tools
  PROVE  /\ DomainIn(i, t) \in FixDomains
         /\ i \in Connected => \A h \in Hints(t) : h = DomainIn(i, t)
         /\ t.write => t.acts
  <1>1. t.domains \in Seq(FixDomains) /\ setup[i].first \in FixDomains
    BY ScanAssumption, Zenon
  <1>2. Agreed(t)
    BY DEF AgreedMachines
  <1>3. t.domains # <<>> => t.domains[1] \in FixDomains
    BY <1>1
  <1>4. \A h \in Hints(t) : t.domains # <<>> /\ h = t.domains[1]
    BY <1>1, <1>2 DEF Hints, Agreed
  <1>5. "unclassified" \in FixDomains
    BY Zenon DEF FixDomains
  <1> QED
    BY <1>1, <1>2, <1>3, <1>4, <1>5 DEF DomainIn, Agreed

(* What a call is answered with is marked, and no mark is lost.              *)
LEMMA FixedRecord ==
  ASSUME NEW b, NEW d \in FixDomains, NEW es, session \in Fixed(<<>>)!StoreType
  PROVE  LET rec == Fixed(b)!Record("memory", session, Operator, d, es, 1)
             M   == Persons \cup {Marker}
         IN  /\ rec \in Fixed(<<>>)!StoreType /\ rec.grants = session.grants
             /\ \A x \in FixDomains, m \in M :
                   session.ents[Operator][x][m] > 0 => rec.ents[Operator][x][m] > 0
             /\ \A m \in M : m \in es \cup {Marker} => rec.ents[Operator][d][m] > 0
  <1> DEFINE M == Persons \cup {Marker}
             bucket == [m \in M |-> IF m \in es \/ (m = Marker /\ session.ents[Operator][d][m] = 0)
                                    THEN 1 ELSE session.ents[Operator][d][m]]
             rec == [session EXCEPT !.ents[Operator][d] = bucket]
  <1>1. Fixed(b)!Record("memory", session, Operator, d, es, 1) = rec
    BY DEF Fixed!Record, Fixed!MemoryBucket, Fixed!Marks
  <1>2. Fixed(<<>>)!StoreType = [ents   : [{Operator} -> [FixDomains -> [M -> Nat]]],
                                 seen   : [{Operator} -> [FixDomains -> Nat]],
                                 grants : [{Operator} -> [Rules -> Nat]]]
    BY DEF Fixed!StoreType, Fixed!Marks
  <1> HIDE DEF M, bucket, rec
  <1> DEFINE E == [{Operator} -> [FixDomains -> [M -> Nat]]]
             N == [{Operator} -> [FixDomains -> Nat]]
             G == [{Operator} -> [Rules -> Nat]]
  <1>e. session \in [ents : E, seen : N, grants : G]
    BY <1>2
  <1>f. Fixed(<<>>)!StoreType = [ents : E, seen : N, grants : G]
    BY <1>2
  <1> HIDE DEF E, N, G
  <1>g. /\ session.ents \in E /\ session.seen \in N /\ session.grants \in G
        /\ session = [ents |-> session.ents, seen |-> session.seen, grants |-> session.grants]
    BY <1>e
  <1>a. session.ents \in [{Operator} -> [FixDomains -> [M -> Nat]]]
    BY <1>g DEF E
  <1>b. Operator \in {Operator} /\ session.ents[Operator] \in [FixDomains -> [M -> Nat]]
    BY <1>a
  <1>c. session.ents[Operator][d] \in [M -> Nat]
    BY <1>b
  <1>3. bucket \in [M -> Nat] /\ \A m \in M : session.ents[Operator][d][m] \in Nat
    BY <1>c DEF bucket
  <1>4. \A m \in M : m \in es \cup {Marker} \/ session.ents[Operator][d][m] > 0 => bucket[m] > 0
    BY <1>3 DEF bucket
  <1>d. /\ rec.ents = [session.ents EXCEPT ![Operator][d] = bucket]
        /\ rec = [ents |-> rec.ents, seen |-> session.seen, grants |-> session.grants]
        /\ rec.grants = session.grants
    BY <1>g DEF rec
  <1>h. /\ rec.ents \in [{Operator} -> [FixDomains -> [M -> Nat]]] /\ rec.ents[Operator][d] = bucket
        /\ \A x \in FixDomains : x # d => rec.ents[Operator][x] = session.ents[Operator][x]
    BY <1>3, <1>a, <1>b, <1>d
  <1>i. rec.ents \in E
    BY <1>h DEF E
  <1>5. rec \in Fixed(<<>>)!StoreType
    BY <1>d, <1>f, <1>g, <1>i
  <1>6. ASSUME NEW x \in FixDomains, NEW m \in M, session.ents[Operator][x][m] > 0
        PROVE  rec.ents[Operator][x][m] > 0
    BY <1>4, <1>6, <1>h
  <1>7. \A m \in M : m \in es \cup {Marker} => rec.ents[Operator][d][m] > 0
    BY <1>4, <1>h
  <1> QED
    BY <1>1, <1>5, <1>6, <1>7, <1>d DEF M

(* Nobody holds a grant, so a block that fires before a call refuses it.     *)
NoWaiver == \A r \in Rules : session.grants[Operator][r] = 0

LEMMA FirstOfFix ==
  ASSUME NEW b, NEW S \in SUBSET Nat, S # {}
  PROVE  Fixed(b)!First(S) \in S
  <1>1. Fixed(b)!First(S) = First(S)
    BY DEF Fixed!First, First
  <1> QED
    BY <1>1, FirstIsOne

LEMMA FixRefuses ==
  ASSUME NoWaiver, NEW d, NEW w, NEW n, n \in Fixed(FixBlocks)!PreFires(session, Operator, d, w)
  PROVE  ~ Fixed(FixBlocks)!PreCall(session, Operator, d, w).allow
  <1> DEFINE fires == Fixed(FixBlocks)!PreFires(session, Operator, d, w)
             k == Fixed(FixBlocks)!First(fires)
  <1>1. fires \subseteq 1..3
    BY DEF Fixed!PreFires, FixBlocks
  <1>2. fires # {} /\ fires \in SUBSET Nat
    BY <1>1
  <1> HIDE DEF fires
  <1>3. k \in 1..3
    BY <1>1, <1>2, FirstOfFix
  <1>4. FixBlocks[k].rule \in Rules
    <2>1. FixBlocks[k] = HrJoin \/ FixBlocks[k] = NoEgress \/ FixBlocks[k] = Bulk
      BY <1>3 DEF FixBlocks
    <2>2. DOMAIN Defaults = DOMAIN Defaults /\ "rule" \in DOMAIN Defaults
      BY DEF Defaults, Fixed!Block
    <2> QED
      BY <2>1, <2>2 DEF HrJoin, NoEgress, Bulk, Rules
  <1>5. ~ Fixed(FixBlocks)!Granted(session, Operator, FixBlocks[k].rule)
    BY <1>4 DEF Fixed!Granted, NoWaiver
  <1>6. Fixed(FixBlocks)!PreCall(session, Operator, d, w) = Fixed(FixBlocks)!Denied(FixBlocks[k])
    BY <1>2, <1>5 DEF Fixed!PreCall, fires
  <1> QED
    BY <1>6 DEF Fixed!Denied, Fixed!Allowed

-----------------------------------------------------------------------------
(* Scan: the rules of a fix.                                                 *)

(* What they look at.                                                        *)
LEMMA FixBlocksAre ==
  /\ DOMAIN FixBlocks = 1..3
  /\ FixBlocks[1] = HrJoin /\ FixBlocks[2] = NoEgress /\ FixBlocks[3] = Bulk
  /\ HrJoin.rule = "SCAN-HR-001" /\ HrJoin.kind = "domain_join" /\ HrJoin.action = "alert" /\ HrJoin.overlap
  /\ HrJoin.domains = {"hr-personnel", "finance-comp", "ops-rota"}
  /\ NoEgress.rule = "SCAN-SEC-001" /\ NoEgress.kind = "flow" /\ NoEgress.action = "deny"
  /\ NoEgress.taint = {"untrusted-web"} /\ NoEgress.egressOnWrite
  /\ NoEgress.egress = {"private-code", "secrets-store", "mail", "chat"}
  /\ Bulk.rule = "SCAN-CRM-001" /\ Bulk.kind = "entity_budget" /\ Bulk.action = "alert"
  /\ Bulk.domain = "crm-customers" /\ Bulk.max = 25
  /\ \A b \in {HrJoin, NoEgress, Bulk} : b.allowed = {} /\ b.blocked = {} /\ b.since = 0 /\ b.until = 0
  <1>1. /\ DOMAIN FixBlocks = 1..3
        /\ FixBlocks[1] = HrJoin /\ FixBlocks[2] = NoEgress /\ FixBlocks[3] = Bulk
    BY DEF FixBlocks
  <1>2. /\ HrJoin.rule = "SCAN-HR-001" /\ HrJoin.kind = "domain_join" /\ HrJoin.action = "alert" /\ HrJoin.overlap
        /\ HrJoin.domains = {"hr-personnel", "finance-comp", "ops-rota"}
        /\ HrJoin.allowed = {} /\ HrJoin.blocked = {} /\ HrJoin.since = 0 /\ HrJoin.until = 0
    BY DEF HrJoin, Defaults, Fixed!Block
  <1>3. /\ NoEgress.rule = "SCAN-SEC-001" /\ NoEgress.kind = "flow" /\ NoEgress.action = "deny"
        /\ NoEgress.taint = {"untrusted-web"} /\ NoEgress.egressOnWrite
        /\ NoEgress.egress = {"private-code", "secrets-store", "mail", "chat"}
        /\ NoEgress.allowed = {} /\ NoEgress.blocked = {} /\ NoEgress.since = 0 /\ NoEgress.until = 0
    BY DEF NoEgress, Defaults, Fixed!Block
  <1>4. /\ Bulk.rule = "SCAN-CRM-001" /\ Bulk.kind = "entity_budget" /\ Bulk.action = "alert"
        /\ Bulk.domain = "crm-customers" /\ Bulk.max = 25
        /\ Bulk.allowed = {} /\ Bulk.blocked = {} /\ Bulk.since = 0 /\ Bulk.until = 0
    BY DEF Bulk, Defaults, Fixed!Block
  <1> QED
    BY <1>1, <1>2, <1>3, <1>4

LEMMA FixInForce ==
  ASSUME NEW n \in 1..3, FixBlocks[n].rule \in RulesFor(fixed)
  PROVE  Fixed(FixBlocks)!Active(FixBlocks[n]) /\ Fixed(FixBlocks)!InScope(FixBlocks[n], Operator)
  <1>1. FixBlocks[n] \in {HrJoin, NoEgress, Bulk} /\ FixBlocks[n].rule \in Rules
    BY FixBlocksAre DEF RulesFor
  <1>2. Fixed(FixBlocks)!Active(FixBlocks[n])
    BY <1>1 DEF Fixed!Active
  <1>3. Fixed(FixBlocks)!InScope(FixBlocks[n], Operator)
    BY <1>1, FixBlocksAre DEF Fixed!InScope
  <1> QED
    BY <1>2, <1>3

(* After untrusted content nothing is written and no private code is read.   *)
LEMMA EgressIsStopped ==
  ASSUME NoWaiver, "SCAN-SEC-001" \in RulesFor(fixed), NEW d, NEW w, d = "private-code" \/ w,
         NEW m \in Persons \cup {Marker}, session.ents[Operator]["untrusted-web"][m] > 0
  PROVE  ~ Fixed(FixBlocks)!PreCall(session, Operator, d, w).allow
  <1>1. "untrusted-web" \in FixDomains
    <2>1. Needs("lethal-trifecta") = {"untrusted-web"} /\ "lethal-trifecta" \in Combos
      BY DEF Needs, Combos
    <2> QED
      BY <2>1 DEF FixDomains
  <1>2. "untrusted-web" \in Fixed(FixBlocks)!DomainsOf("memory", session, Operator)
    BY <1>1 DEF Fixed!DomainsOf, Fixed!BucketLive, Fixed!Marks
  <1>3. Fixed(FixBlocks)!Active(NoEgress) /\ Fixed(FixBlocks)!InScope(NoEgress, Operator)
    BY FixBlocksAre, FixInForce
  <1>4. Fixed(FixBlocks)!Stops(NoEgress)
    BY FixBlocksAre DEF Fixed!Stops, Fixed!Gate
  <1>5. Fixed(FixBlocks)!FlowFires(session, Operator, d, w, NoEgress)
    BY <1>2, <1>3, <1>4, FixBlocksAre DEF Fixed!FlowFires
  <1>6. 2 \in Fixed(FixBlocks)!PreFires(session, Operator, d, w)
    BY <1>3, <1>5, FixBlocksAre DEF Fixed!PreFires
  <1> QED
    BY <1>6, FixRefuses

(* A rule of the fix that fires on an answer is told, for none of them stops *)
(* an answer.                                                                *)
LEMMA FixTells ==
  ASSUME NEW st, NEW d, NEW es, Fixed(FixBlocks)!PostFires(st, Operator, d, es) # {}
  PROVE  Fixed(FixBlocks)!PostCall(st, Operator, d, es).alerts # {}
  <1> DEFINE fires == Fixed(FixBlocks)!PostFires(st, Operator, d, es)
  <1>1. \A n \in fires : n \in 1..3 /\ n # 2
    BY FixBlocksAre DEF Fixed!PostFires, Fixed!GroupTooSmall, Fixed!OverBudget, Fixed!SelfCompared, Fixed!JoinComplete
  <1> HIDE DEF fires
  <1>2. \A n \in fires : ~ Fixed(FixBlocks)!Stops(FixBlocks[n])
    BY <1>1, FixBlocksAre DEF Fixed!Stops, Fixed!Gate
  <1>3. Fixed(FixBlocks)!Refusing(st, Operator, fires) = {}
    BY <1>2 DEF Fixed!Refusing
  <1>4. Fixed(FixBlocks)!PostCall(st, Operator, d, es)
            = [Fixed(FixBlocks)!Allowed EXCEPT !.alerts = {FixBlocks[j].rule : j \in fires}]
    BY <1>3 DEF Fixed!PostCall, fires
  <1>5. Fixed(FixBlocks)!PostCall(st, Operator, d, es).alerts = {FixBlocks[j].rule : j \in fires}
    BY <1>4 DEF Fixed!Allowed
  <1>6. fires # {}
    BY DEF fires
  <1> QED
    BY <1>5, <1>6

(* Personnel, budget and rota of one person come with an alert, ...          *)
LEMMA JoinIsTold ==
  ASSUME "SCAN-HR-001" \in RulesFor(fixed), NEW st, NEW d \in Needs("layoff-list"), NEW es, NEW p \in Persons,
         \A x \in Needs("layoff-list") : st.ents[Operator][x][p] > 0
  PROVE  Fixed(FixBlocks)!PostCall(st, Operator, d, es).alerts # {}
  <1>1. Needs("layoff-list") = HrJoin.domains /\ Needs("layoff-list") \subseteq FixDomains
    <2>1. Needs("layoff-list") = {"hr-personnel", "finance-comp", "ops-rota"} /\ "layoff-list" \in Combos
      BY DEF Needs, Combos
    <2> QED
      BY <2>1, FixBlocksAre DEF FixDomains
  <1>2. HrJoin.domains \subseteq Fixed(FixBlocks)!DomainsOf("memory", st, Operator)
    BY <1>1 DEF Fixed!DomainsOf, Fixed!BucketLive, Fixed!Marks
  <1>3. \A x \in HrJoin.domains : p \in Fixed(FixBlocks)!EntitiesOf(st, Operator, x)
    BY <1>1 DEF Fixed!EntitiesOf
  <1>4. Fixed(FixBlocks)!Active(HrJoin) /\ Fixed(FixBlocks)!InScope(HrJoin, Operator)
    BY FixBlocksAre, FixInForce
  <1>5. Fixed(FixBlocks)!JoinComplete(st, Operator, d, HrJoin)
    BY <1>1, <1>2, <1>3, <1>4, FixBlocksAre DEF Fixed!JoinComplete
  <1>6. 1 \in Fixed(FixBlocks)!PostFires(st, Operator, d, es)
    BY <1>4, <1>5, FixBlocksAre DEF Fixed!PostFires
  <1> QED
    BY <1>6, FixTells

(* ... and so does a customer too many.                                      *)
LEMMA BulkIsTold ==
  ASSUME "SCAN-CRM-001" \in RulesFor(fixed), NEW st, NEW es, NEW S \in SUBSET Persons, Cardinality(S) > 25,
         \A p \in S : st.ents[Operator]["crm-customers"][p] > 0
  PROVE  Fixed(FixBlocks)!PostCall(st, Operator, "crm-customers", es).alerts # {}
  <1> DEFINE E == Fixed(FixBlocks)!EntitiesOf(st, Operator, "crm-customers")
  <1>1. E \subseteq Persons /\ S \subseteq E
    BY DEF Fixed!EntitiesOf
  <1>2. IsFiniteSet(Persons)
    BY ScanAssumption, Zenon
  <1> HIDE DEF E
  <1>3. IsFiniteSet(E) /\ IsFiniteSet(S)
    BY <1>1, <1>2, FS_Subset
  <1>4. Cardinality(S) <= Cardinality(E) /\ Cardinality(S) \in Nat /\ Cardinality(E) \in Nat
    BY <1>1, <1>3, FS_Subset, FS_CardinalityType
  <1>5. Cardinality(E) > 25
    BY <1>4
  <1>6. Fixed(FixBlocks)!OverBudget(st, Operator, "crm-customers", Bulk)
    <2>1. Bulk.kind = "entity_budget" /\ Bulk.domain = "crm-customers" /\ Bulk.max = 25
      BY FixBlocksAre
    <2>2. Cardinality(E) > Bulk.max
      BY <1>5, <2>1
    <2>3. \A T : Fixed(FixBlocks)!Cardinality(T) = Cardinality(T)
      BY DEF Fixed!Cardinality, Cardinality
    <2> QED
      BY <2>1, <2>2, <2>3 DEF Fixed!OverBudget, E
  <1>7. Fixed(FixBlocks)!Active(Bulk)
    BY FixBlocksAre, FixInForce
  <1>8. 3 \in Fixed(FixBlocks)!PostFires(st, Operator, "crm-customers", es)
    BY <1>6, <1>7, FixBlocksAre DEF Fixed!PostFires
  <1> QED
    BY <1>8, FixTells

-----------------------------------------------------------------------------
(* Scan: whatever is called.                                                 *)

(* The engine has a mark of everything that the user has been given.         *)
ScanInv ==
    /\ setup \in Setups /\ (fixed = NotScanned \/ fixed \subseteq Combos)
    /\ session \in Fixed(<<>>)!StoreType /\ NoWaiver
    /\ obtained \subseteq FixDomains \X (Persons \cup {"nobody"})
    /\ \A x \in FixDomains : \A p \in Persons \cup {"nobody"} : <<x, p>> \in obtained =>
          \E m \in Persons \cup {Marker} : session.ents[Operator][x][m] > 0 /\ (p \in Persons => m = p)
    /\ escaped \subseteq Combos \ Clauses

(* A call that the fix lets through completes nothing unnoticed that the     *)
(* clauses of its rules speak of.                                            *)
LEMMA NothingEscapes ==
  ASSUME AgreedMachines, ScanInv, NEW i \in DOMAIN setup, NEW t \in setup[i].tools, NEW es \in SUBSET Persons,
         i \in Connected, fixed # NotScanned, NEW c \in fixed, c \in Clauses, Completes(c, t, es),
         Fixed(FixBlocks)!PreCall(session, Operator, DomainIn(i, t), t.acts).allow
  PROVE  Fixed(FixBlocks)!PostCall(Fixed(FixBlocks)!Record("memory", session, Operator, DomainIn(i, t), es, 1),
                                   Operator, DomainIn(i, t), es).alerts # {}
  <1> DEFINE d == DomainIn(i, t)
             rec == Fixed(FixBlocks)!Record("memory", session, Operator, d, es, 1)
  <1>1. d \in FixDomains /\ (\A h \in Hints(t) : h = d) /\ (t.write => t.acts)
    BY DomainIs DEF ScanInv
  <1>2. ASSUME NEW p, p \in obtained, p[1] = "untrusted-web"
        PROVE  \E m \in Persons \cup {Marker} : session.ents[Operator]["untrusted-web"][m] > 0
    <2>1. PICK x \in FixDomains, q \in Persons \cup {"nobody"} : p = <<x, q>>
      BY <1>2 DEF ScanInv
    <2>2. x = "untrusted-web"
      BY <1>2, <2>1
    <2> QED
      BY <1>2, <2>1, <2>2 DEF ScanInv
  <1>3. CASE c = "lethal-trifecta" \/ c = "code-exfil"
    <2>1. PICK p : p \in obtained /\ p[1] = "untrusted-web"
      BY <1>3 DEF Completes, Needs
    <2>2. PICK m \in Persons \cup {Marker} : session.ents[Operator]["untrusted-web"][m] > 0
      BY <1>2, <2>1
    <2>3. t.write \/ "private-code" \in Hints(t)
      BY <1>3 DEF Completes
    <2>4. d = "private-code" \/ t.acts
      BY <1>1, <2>3
    <2>5. "SCAN-SEC-001" \in RulesFor(fixed)
      BY <1>3 DEF RulesFor, Rules
    <2>6. NoWaiver
      BY DEF ScanInv
    <2> QED
      BY <2>2, <2>4, <2>5, <2>6, EgressIsStopped
  <1>4. ASSUME NEW x, NEW p \in Persons,
               (x \in Hints(t) /\ p \in es) \/ \E q \in obtained : q[1] = x /\ q[2] = p
        PROVE  rec.ents[Operator][x][p] > 0
    <2>1. /\ \A y \in FixDomains, m \in Persons \cup {Marker} :
                session.ents[Operator][y][m] > 0 => rec.ents[Operator][y][m] > 0
          /\ p \in es => rec.ents[Operator][d][p] > 0
      <3>1. session \in Fixed(<<>>)!StoreType
        BY DEF ScanInv
      <3> HIDE DEF d
      <3> QED
        BY <1>1, <3>1, FixedRecord
    <2> HIDE DEF rec
    <2>2. CASE x \in Hints(t) /\ p \in es
      BY <1>1, <2>1, <2>2
    <2>3. CASE \E q \in obtained : q[1] = x /\ q[2] = p
      <3>1. PICK q \in obtained : q[1] = x /\ q[2] = p
        BY <2>3
      <3>2. q = <<x, p>> /\ x \in FixDomains
        BY <3>1 DEF ScanInv
      <3>3. session.ents[Operator][x][p] > 0
        BY <3>1, <3>2 DEF ScanInv
      <3> QED
        BY <2>1, <3>2, <3>3
    <2> QED
      BY <1>4, <2>2, <2>3
  <1>5. CASE c = "layoff-list"
    <2>1. /\ Hints(t) \cap Needs(c) # {}
          /\ \E p \in es : Needs(c) \subseteq {q[1] : q \in {x \in obtained : x[2] = p}} \cup (IF p \in es THEN Hints(t) ELSE {})
      BY <1>5 DEF Completes
    <2>2. PICK p \in es : Needs(c) \subseteq {q[1] : q \in {x \in obtained : x[2] = p}} \cup Hints(t)
      BY <2>1
    <2>3. d \in Needs(c) /\ p \in Persons
      BY <1>1, <2>1
    <2>5. ASSUME NEW x \in Needs(c)
          PROVE  rec.ents[Operator][x][p] > 0
      <3>1. x \in Hints(t) \/ \E q \in obtained : q[1] = x /\ q[2] = p
        BY <2>2, <2>5
      <3> QED
        BY <1>4, <2>3, <3>1
    <2>6. "SCAN-HR-001" \in RulesFor(fixed)
      BY <1>5 DEF RulesFor, Rules
    <2> HIDE DEF d
    <2> HIDE DEF rec
    <2>7. Fixed(FixBlocks)!PostCall(rec, Operator, d, es).alerts # {}
      BY <1>5, <2>3, <2>5, <2>6, JoinIsTold
    <2> QED
      BY <2>7 DEF rec, d
  <1>6. CASE c = "crm-export"
    <2> DEFINE S == {p \in Persons : "crm-customers" \in {q[1] : q \in {x \in obtained : x[2] = p}}
                                                        \cup (IF p \in es THEN Hints(t) ELSE {})}
    <2>1. "crm-customers" \in Hints(t) /\ Cardinality(S) > 25
      BY <1>6 DEF Completes
    <2>2. \A p \in S : rec.ents[Operator]["crm-customers"][p] > 0
      <3>1. ASSUME NEW p \in S
            PROVE  ("crm-customers" \in Hints(t) /\ p \in es) \/ \E q \in obtained : q[1] = "crm-customers" /\ q[2] = p
        BY <3>1
      <3> QED
        BY <1>4, <3>1
    <2>3. S \in SUBSET Persons /\ d = "crm-customers"
      BY <1>1, <2>1
    <2>4. "SCAN-CRM-001" \in RulesFor(fixed)
      BY <1>6 DEF RulesFor, Rules
    <2> HIDE DEF S, rec, d
    <2>5. Fixed(FixBlocks)!PostCall(rec, Operator, "crm-customers", es).alerts # {}
      BY <2>1, <2>2, <2>3, <2>4, BulkIsTold
    <2> QED
      BY <2>3, <2>5 DEF rec, d
  <1> QED
    BY <1>3, <1>5, <1>6 DEF Clauses

LEMMA ScanKept ==
  ASSUME AgreedMachines
  PROVE  ScanInv /\ [ScanNext]_scanVars => ScanInv'
  <1> SUFFICES ASSUME ScanInv, [ScanNext]_scanVars
               PROVE  ScanInv'
    OBVIOUS
  <1>1. CASE Fix
    <2>1. fixed' \subseteq Combos /\ UNCHANGED <<setup, session, obtained, escaped>>
      BY <1>1 DEF Fix, Found
    <2> QED
      BY <2>1 DEF ScanInv, NoWaiver, Fixed!StoreType
  <1>2. ASSUME NEW i \in DOMAIN setup, NEW t \in setup[i].tools, NEW es \in Named, FixedCall(i, t, es)
        PROVE  ScanInv'
    <2> DEFINE d == DomainIn(i, t)
               rec == Fixed(FixBlocks)!Record("memory", session, Operator, d, es, 1)
               post == Fixed(FixBlocks)!PostCall(rec, Operator, d, es)
               M == Persons \cup {Marker}
    <2>1. /\ fixed # NotScanned /\ Fixed(FixBlocks)!PreCall(session, Operator, d, t.acts).allow
          /\ session' = rec /\ UNCHANGED <<setup, fixed>>
          /\ obtained' = IF i \in Connected THEN obtained \cup (Hints(t) \X (es \cup {"nobody"})) ELSE obtained
          /\ escaped' = IF i \in Connected /\ post.alerts = {}
                        THEN escaped \cup {c \in fixed : Completes(c, t, es)} ELSE escaped
      BY <1>2 DEF FixedCall
    <2>2. d \in FixDomains /\ (i \in Connected => \A h \in Hints(t) : h = d)
      BY DomainIs DEF ScanInv
    <2>0. es \in SUBSET Persons
      BY ScanAssumption, Zenon
    <2>3. ASSUME i \in Connected, post.alerts = {}, NEW c \in fixed, Completes(c, t, es)
          PROVE  c \notin Clauses
      BY <2>0, <2>1, <2>3, NothingEscapes
    <2> HIDE DEF d, post
    <2>4. /\ rec \in Fixed(<<>>)!StoreType /\ rec.grants = session.grants
          /\ \A x \in FixDomains, m \in M :
                session.ents[Operator][x][m] > 0 => rec.ents[Operator][x][m] > 0
          /\ \A m \in M : m \in es \cup {Marker} => rec.ents[Operator][d][m] > 0
      <3>1. session \in Fixed(<<>>)!StoreType
        BY DEF ScanInv
      <3> QED
        BY <2>2, <3>1, FixedRecord
    <2> HIDE DEF rec
    <2>5. escaped' \subseteq Combos \ Clauses
      BY <2>1, <2>3 DEF ScanInv
    <2>6. obtained' \subseteq FixDomains \X (Persons \cup {"nobody"})
      BY <2>0, <2>1, <2>2 DEF ScanInv
    <2>7. ASSUME NEW x \in FixDomains, NEW p \in Persons \cup {"nobody"}, <<x, p>> \in obtained'
          PROVE  \E m \in M : rec.ents[Operator][x][m] > 0 /\ (p \in Persons => m = p)
      <3>1. CASE <<x, p>> \in obtained
        <4>1. PICK m \in M : session.ents[Operator][x][m] > 0 /\ (p \in Persons => m = p)
          BY <3>1 DEF ScanInv
        <4> QED
          BY <2>4, <4>1
      <3>2. CASE <<x, p>> \notin obtained
        <4>1. x = d /\ p \in es \cup {"nobody"}
          BY <2>1, <2>2, <2>7, <3>2
        <4>2. CASE p \in Persons
          <5>1. p \in es
            BY <4>1, <4>2, ScanAssumption, Zenon
          <5> QED
            BY <2>4, <4>1, <4>2, <5>1
        <4>3. CASE p \notin Persons
          BY <2>4, <4>1, <4>3
        <4> QED
          BY <4>2, <4>3
      <3> QED
        BY <3>1, <3>2
    <2>8. (session \in Fixed(<<>>)!StoreType)'
      BY <2>1, <2>4 DEF Fixed!StoreType
    <2>9. NoWaiver'
      BY <2>1, <2>4 DEF ScanInv, NoWaiver
    <2> QED
      BY <2>1, <2>5, <2>6, <2>7, <2>8, <2>9 DEF ScanInv
  <1>3. CASE UNCHANGED scanVars
    BY <1>3 DEF scanVars, ScanInv, NoWaiver, Fixed!StoreType
  <1> QED
    BY <1>1, <1>2, <1>3 DEF ScanNext

(* On every machine, whatever its tools are, what the proxy that runs the fix *)
(* keeps (policy.py:387) and what the user was given are well-formed.        *)
THEOREM ScanTyped == ScanSpec => []ScanTypeOK
  <1>1. ScanInit => ScanTypeOK
    BY DEF ScanInit, ScanTypeOK, Fixed!EmptyStore, Fixed!StoreType
  <1>2. ScanTypeOK /\ [ScanNext]_scanVars => ScanTypeOK'
    <2> SUFFICES ASSUME ScanTypeOK, [ScanNext]_scanVars
                 PROVE  ScanTypeOK'
      OBVIOUS
    <2>1. CASE Fix
      <3>1. fixed' \subseteq Combos /\ UNCHANGED <<setup, session, obtained, escaped>>
        BY <2>1 DEF Fix, Found
      <3> QED
        BY <3>1 DEF ScanTypeOK, Fixed!StoreType
    <2>2. ASSUME NEW i \in DOMAIN setup, NEW t \in setup[i].tools, NEW es \in Named, FixedCall(i, t, es)
          PROVE  ScanTypeOK'
      <3> DEFINE d == DomainIn(i, t)
                 rec == Fixed(FixBlocks)!Record("memory", session, Operator, d, es, 1)
      <3>1. /\ session' = rec /\ UNCHANGED <<setup, fixed>> /\ fixed # NotScanned
            /\ obtained' = obtained \/ obtained' = obtained \cup (Hints(t) \X (es \cup {"nobody"}))
            /\ escaped' = escaped \/ escaped' = escaped \cup {c \in fixed : Completes(c, t, es)}
        BY <2>2 DEF FixedCall
      <3>2. t.domains \in Seq(FixDomains) /\ setup[i].first \in FixDomains /\ es \in SUBSET Persons
        BY ScanAssumption, Zenon DEF ScanTypeOK
      <3>3. Hints(t) \subseteq FixDomains
        BY <3>2 DEF Hints
      <3>4. d \in FixDomains
        <4>1. "unclassified" \in FixDomains
          BY DEF FixDomains
        <4>2. t.domains # <<>> => t.domains[1] \in FixDomains
          BY <3>2
        <4> QED
          BY <3>2, <4>1, <4>2 DEF DomainIn
      <3> HIDE DEF d
      <3>5. rec \in Fixed(<<>>)!StoreType
        BY <3>4, FixedRecord DEF ScanTypeOK
      <3>6. (session \in Fixed(<<>>)!StoreType)'
        BY <3>1, <3>5 DEF Fixed!StoreType
      <3>7. obtained' \subseteq FixDomains \X (Persons \cup {"nobody"})
        BY <3>1, <3>2, <3>3 DEF ScanTypeOK
      <3>8. escaped' \subseteq Combos
        BY <3>1 DEF ScanTypeOK
      <3> QED
        BY <3>1, <3>6, <3>7, <3>8 DEF ScanTypeOK
    <2>3. CASE UNCHANGED scanVars
      BY <2>3 DEF scanVars, ScanTypeOK, Fixed!StoreType
    <2> QED
      BY <2>1, <2>2, <2>3 DEF ScanNext
  <1> QED
    BY <1>1, <1>2, PTL DEF ScanSpec

(* On every machine whose tools scan and the proxy see the same way, nobody  *)
(* gets, without a refusal or an alert, to the end of a path that was found  *)
(* and that the clauses of the fix's rules speak of (write_fix): whatever    *)
(* the user calls, whomever the answers name and however many they are.      *)
THEOREM ClausesAreKept ==
  ASSUME AgreedMachines
  PROVE  ScanSpec => []ClausesKept
  <1>1. ScanInit => ScanInv
    <2>1. Fixed(<<>>)!EmptyStore \in Fixed(<<>>)!StoreType
      BY DEF Fixed!EmptyStore, Fixed!StoreType
    <2>2. \A r \in Rules : Fixed(<<>>)!EmptyStore.grants[Operator][r] = 0
      BY DEF Fixed!EmptyStore
    <2> QED
      BY <2>1, <2>2 DEF ScanInit, ScanInv, NoWaiver
  <1>2. ScanInv /\ [ScanNext]_scanVars => ScanInv'
    BY ScanKept
  <1>3. ScanInv => ClausesKept
    BY DEF ScanInv, ClausesKept
  <1> QED
    BY <1>1, <1>2, <1>3, PTL DEF ScanSpec

=============================================================================
