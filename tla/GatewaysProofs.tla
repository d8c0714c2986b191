--------------------------- MODULE GatewaysProofs ---------------------------
(* Decision points of other people's gateways over one Redis keep the code   *)
(* of conduct, however many they are and whatever messages reach them.       *)
EXTENDS Gateways, HoldingsProofs

(* What the lemmas about holdings ask of the state.                          *)
LEMMA TypeHolds == (TypeOK => HoldingsType) /\ (TypeOK' => HoldingsType')
  BY DEF TypeOK, HoldingsType

(* A slot that is not idle holds a call, of a tool in a domain.              *)
LEMMA BusyCall ==
  ASSUME TypeOK, NEW s \in Slots, call[s] # Idle
  PROVE  /\ call[s] \in CallType /\ call[s].user \in Users /\ call[s].tool \in Tools
         /\ call[s].proc \in Procs /\ DomainOf[call[s].tool] \in Domains
  <1>1. call[s] \in CallType
    BY DEF TypeOK
  <1> QED
    BY <1>1, GatewaysAssumption DEF CallType

(* A process that decides, decides about a result of some tool.              *)
LEMMA BusyJob ==
  ASSUME TypeOK, NEW p \in Procs, job[p] # NoJob
  PROVE  /\ job[p] \in JobType /\ job[p].slot \in Slots /\ job[p].tool \in Tools
         /\ job[p].es \in SUBSET Entities /\ DomainOf[job[p].tool] \in Domains
  <1>1. job[p] \in JobType
    BY DEF TypeOK
  <1> QED
    BY <1>1, GatewaysAssumption DEF JobType

(* An answer of a known kind is well-formed.                                 *)
LEMMA AnswersType ==
  ASSUME NEW kind \in {"released", "refused", "held", "unfiled", "unread"},
         NEW stage \in {"pre", "before", "post"}, NEW u \in Users,
         NEW r \in RuleIds \cup {NoRule}, Answers(kind, stage, u, r)
  PROVE  answer' \in AnswerType \cup {NoAnswer}
  BY DEF Answers, AnswerType

(* Admitting a call fills its slot with a call.                              *)
LEMMA AdmitType ==
  ASSUME TypeOK, NEW p \in Procs, NEW s \in Slots, NEW u \in Users, NEW t \in Tools,
         Admit(p, s, u, t)
  PROVE  /\ call' \in [Slots -> CallType \cup {Idle}]
         /\ answer' \in AnswerType \cup {NoAnswer}
  BY DEF Admit, TypeOK, CallType

(* Every decision about a request names a rule of the policy, or none.       *)
LEMMA RuleOfRequest ==
  ASSUME NEW st, NEW u, NEW t, NEW a, NEW d, NEW w
  PROVE  /\ PreCall(st, u, d, w).rule \in RuleIds \cup {NoRule}
         /\ CheckArgs(st, u, t, a).rule \in RuleIds \cup {NoRule}
  BY PreCallType, CheckArgsType DEF Decision

(* Noting the tool of a request keeps the notes well-formed.                 *)
LEMMA NotedType ==
  ASSUME TypeOK, NEW p \in Procs, NEW u \in Users, NEW t \in Tools, Noted(p, u, t)
  PROVE  last' \in [Procs -> [Users -> [Services -> Tools \cup {NoTool}]]]
  <1>1. BackendOf[t] \in Services
    BY DEF Services
  <1>2. last \in [Procs -> [Users -> [Services -> Tools \cup {NoTool}]]]
    BY DEF TypeOK
  <1> HIDE DEF Services
  <1>3. CASE KindOf[p] = "agentgateway"
    <2> DEFINE n == [last[p][u] EXCEPT ![BackendOf[t]] = t]
    <2>1. n \in [Services -> Tools \cup {NoTool}]
      BY <1>1, <1>2
    <2>2. last' = [last EXCEPT ![p] = [last[p] EXCEPT ![u] = n]]
      BY <1>3 DEF Noted
    <2> HIDE DEF n
    <2> QED
      BY <1>2, <2>1, <2>2
  <1> QED
    BY <1>2, <1>3 DEF Noted

(* The calls that are still the last of their user stay among the slots.     *)
LEMMA StaleType ==
  ASSUME TypeOK, NEW p \in Procs, NEW s \in Slots, NEW u \in Users, NEW t \in Tools,
         Stale(p, s, u, t)
  PROVE  fresh' \subseteq Slots
  BY DEF Stale, TypeOK

(* Asking, whatever is decided, leaves the state well-formed.                *)
LEMMA AskType ==
  ASSUME TypeOK, NEW p \in Procs, NEW s \in Slots, NEW u \in Users, NEW t \in Tools, NEW a \in Args,
         AskBarred(p, s, u, t, a) \/ Ask(p, s, u, t, a) \/ AskHook(p, s, u, t) \/ Skip(p, s, u, t)
  PROVE  TypeOK'
  <1>1. CASE AskBarred(p, s, u, t, a)
    <2>1. PreCall(store, u, DomainOf[t], t \in WriteTools).rule \in RuleIds \cup {NoRule}
      BY RuleOfRequest
    <2>2. answer' \in AnswerType \cup {NoAnswer}
      BY <1>1, <2>1, AnswersType DEF AskBarred, Barred
    <2> QED
      BY <1>1, <2>2, NotedType, StaleType DEF AskBarred, TypeOK
  <1>2. CASE Ask(p, s, u, t, a)
    <2> DEFINE st   == Synced(store, u)
               argd == CheckArgs(st, u, t, Scanned(a))
               pre  == PreCall(st, u, DomainOf[t], t \in WriteTools)
               v    == IF argd.allow THEN pre ELSE argd
    <2>1. v.rule \in RuleIds \cup {NoRule}
      BY RuleOfRequest
    <2>2. st \in StoreType
      BY TypeHolds, SyncedType DEF TypeOK
    <2>3. /\ store' = st /\ Noted(p, u, t) /\ Stale(p, s, u, t)
          /\ UNCHANGED <<packs, date, job, astray, held>>
          /\ \/ Admit(p, s, u, t) /\ requests' = requests
             \/ Answers("refused", "pre", u, v.rule) /\ call' = call /\ requests' = requests
             \/ /\ requests' = Requested(requests, u, v.rule)
                /\ Answers("held", "pre", u, v.rule) /\ call' = call
      BY <1>2 DEF Ask
    <2> HIDE DEF v, st
    <2>4. /\ call' \in [Slots -> CallType \cup {Idle}]
          /\ answer' \in AnswerType \cup {NoAnswer}
          /\ requests' \in [Users -> [RuleIds -> RequestType]]
      <3>1. requests \in [Users -> [RuleIds -> RequestType]] /\ call \in [Slots -> CallType \cup {Idle}]
        BY DEF TypeOK
      <3> QED
        BY <2>1, <2>3, <3>1, AdmitType, AnswersType, RequestedType
    <2> QED
      BY <2>2, <2>3, <2>4, NotedType, StaleType DEF TypeOK
  <1>3. CASE AskHook(p, s, u, t)
    <2>1. PreCall(store, u, DomainOf[t], FALSE).rule \in RuleIds \cup {NoRule}
      BY RuleOfRequest
    <2>2. \/ Admit(p, s, u, t)
          \/ Answers("refused", "before", u, PreCall(store, u, DomainOf[t], FALSE).rule) /\ call' = call
      BY <1>3 DEF AskHook
    <2>3. /\ call' \in [Slots -> CallType \cup {Idle}]
          /\ answer' \in AnswerType \cup {NoAnswer}
      BY <2>1, <2>2, AdmitType, AnswersType DEF TypeOK
    <2> QED
      BY <1>3, <2>3 DEF AskHook, TypeOK
  <1>4. CASE Skip(p, s, u, t)
    BY <1>4, AdmitType DEF Skip, TypeOK
  <1> QED
    BY <1>1, <1>2, <1>3, <1>4

(* So does recording a result, of whichever tool it is taken to be.          *)
LEMMA RecordResultType ==
  ASSUME TypeOK, NEW p \in Procs, NEW s \in Slots, NEW es \in SUBSET Entities, RecordResult(p, s, es)
  PROVE  /\ TypeOK'
         /\ ToolOfResult(p, call[s]) \in Tools
         /\ DomainOf[ToolOfResult(p, call[s])] \in Domains
  <1> DEFINE c == call[s]
             t == ToolOfResult(p, c)
  <1>1. c \in CallType /\ c.user \in Users /\ c.tool \in Tools
    BY BusyCall DEF RecordResult, Asks
  <1>2. t \in Tools
    <2>1. BackendOf[c.tool] \in Services
      BY <1>1 DEF Services
    <2>2. last[p][c.user][BackendOf[c.tool]] \in Tools \cup {NoTool}
      BY <1>1, <2>1 DEF TypeOK
    <2> QED
      BY <1>1, <2>2 DEF RecordResult, ToolOfResult
  <1>3. DomainOf[t] \in Domains
    BY <1>2, GatewaysAssumption
  <1>4. /\ store' = Record(Backend, store, c.user, DomainOf[t], es, Ttl)
        /\ job' = [job EXCEPT ![p] = [pc |-> "recorded", slot |-> s, tool |-> t, es |-> es]]
        /\ answer' = NoAnswer
        /\ UNCHANGED <<packs, date, requests, call, last, fresh, astray, held>>
    BY DEF RecordResult
  <1> HIDE DEF t, c
  <1>5. store' \in StoreType
    BY <1>1, <1>3, <1>4, RecordType, TtlAssumption DEF TypeOK
  <1>6. [pc |-> "recorded", slot |-> s, tool |-> t, es |-> es] \in JobType
    BY <1>2 DEF JobType
  <1>7. TypeOK'
    BY <1>4, <1>5, <1>6 DEF TypeOK
  <1> QED
    BY <1>2, <1>3, <1>7 DEF t, c

(* Handing an answer over, whatever it was taken to be of.                   *)
LEMMA HandsOverType ==
  ASSUME TypeOK, NEW s \in Slots, call[s] # Idle, NEW t, NEW es, HandsOver(call[s], t, es)
  PROVE  /\ held' \in [Users -> [Domains -> [Marks -> 0..Ttl]]]
         /\ astray' \in [Users -> 0..Ttl]
  <1>1. call[s].user \in Users /\ DomainOf[call[s].tool] \in Domains
    BY BusyCall
  <1>2. /\ held \in [Users -> [Domains -> [Marks -> 0..Ttl]]]
        /\ astray \in [Users -> 0..Ttl] /\ Ttl \in 0..Ttl
    BY TtlAssumption DEF TypeOK
  <1>3. held' \in [Users -> [Domains -> [Marks -> 0..Ttl]]]
    BY <1>1, <1>2, ReceivedType DEF HandsOver
  <1>4. astray' = astray \/ astray' = [astray EXCEPT ![call[s].user] = Ttl]
    BY DEF HandsOver
  <1> QED
    BY <1>1, <1>2, <1>3, <1>4

(* And deciding about it.                                                    *)
LEMMA VerdictType ==
  ASSUME TypeOK, NEW p \in Procs, Verdict(p)
  PROVE  TypeOK'
  <1> DEFINE j == job[p]
             c == call[j.slot]
             v == PostCall(store, c.user, DomainOf[j.tool], j.es)
  <1>1. j.slot \in Slots /\ job[p] # NoJob
    BY BusyJob DEF Verdict
  <1>2. /\ job' = [job EXCEPT ![p] = NoJob]
        /\ UNCHANGED <<packs, date, store, requests, last>>
        /\ \/ answer' = NoAnswer /\ UNCHANGED <<call, fresh, astray, held>>
           \/ /\ c # Idle
              /\ call' = [call EXCEPT ![j.slot] = Idle] /\ fresh' = fresh \ {j.slot}
              /\ \/ Answers("released", "post", c.user, NoRule)
                 \/ Answers("held", "post", c.user, v.rule)
                 \/ Answers("refused", "post", c.user, v.rule)
              /\ UNCHANGED <<astray, held>> \/ HandsOver(c, j.tool, j.es)
    BY DEF Verdict
  <1>3. v.rule \in RuleIds \cup {NoRule}
    BY PostCallType DEF Decision
  <1>4. c # Idle => c.user \in Users /\ DomainOf[c.tool] \in Domains
    BY <1>1, BusyCall
  <1>6. /\ held' \in [Users -> [Domains -> [Marks -> 0..Ttl]]]
        /\ astray' \in [Users -> 0..Ttl]
    <2>1. CASE UNCHANGED <<astray, held>>
      BY <2>1 DEF TypeOK
    <2>2. CASE c # Idle /\ HandsOver(c, j.tool, j.es)
      BY <1>1, <2>2, HandsOverType
    <2> QED
      BY <1>2, <2>1, <2>2
  <1> HIDE DEF c, v
  <1>5. answer' \in AnswerType \cup {NoAnswer}
    BY <1>2, <1>3, <1>4, AnswersType
  <1>7. call' \in [Slots -> CallType \cup {Idle}] /\ fresh' \subseteq Slots
    BY <1>1, <1>2 DEF TypeOK
  <1>8. job' \in [Procs -> JobType \cup {NoJob}]
    BY <1>2 DEF TypeOK
  <1> QED
    BY <1>2, <1>5, <1>6, <1>7, <1>8 DEF TypeOK

(* And a result that is passed on without a decision.                        *)
LEMMA PassType ==
  ASSUME TypeOK, NEW p \in Procs, NEW s \in Slots, NEW es \in SUBSET Entities,
         PassUnfiled(p, s, es) \/ PassUnread(p, s, es)
  PROVE  TypeOK'
  <1>1. call[s] # Idle /\ call[s].user \in Users
    BY BusyCall DEF PassUnfiled, PassUnread, Asks
  <1>2. /\ call' = [call EXCEPT ![s] = Idle] /\ fresh' = fresh \ {s}
        /\ UNCHANGED <<packs, date, store, requests, job, last>>
        /\ HandsOver(call[s], NoTool, es)
        /\ \/ Answers("unfiled", "post", call[s].user, NoRule)
           \/ Answers("unread", "post", call[s].user, NoRule)
    BY DEF PassUnfiled, PassUnread, Passed
  <1>3. answer' \in AnswerType \cup {NoAnswer}
    BY <1>1, <1>2, AnswersType
  <1>4. /\ held' \in [Users -> [Domains -> [Marks -> 0..Ttl]]]
        /\ astray' \in [Users -> 0..Ttl]
    BY <1>1, <1>2, HandsOverType
  <1> QED
    BY <1>2, <1>3, <1>4 DEF TypeOK

(* Whatever messages come, in whatever order, the state is well-formed.      *)
THEOREM TypeCorrect == Spec => []TypeOK
  <1>1. Init => TypeOK
    <2>1. EmptyStore.ents \in [Users -> [Domains -> [Marks -> 0..Ttl]]]
      BY TtlAssumption DEF EmptyStore
    <2>2. [status |-> "none", left |-> 0] \in RequestType
      BY DEF RequestType
    <2> QED
      BY <2>1, <2>2, TtlAssumption, EmptyStoreType DEF Init, TypeOK, NoRequests, NoneAsked
  <1>2. TypeOK /\ [Next]_vars => TypeOK'
    <2> SUFFICES ASSUME TypeOK, [Next]_vars PROVE TypeOK'
      OBVIOUS
    <2>1. ASSUME NEW p \in Procs, NEW s \in Slots, NEW u \in Users, NEW t \in Tools,
                 \/ \E a \in Args : AskBarred(p, s, u, t, a) \/ Ask(p, s, u, t, a)
                 \/ AskHook(p, s, u, t) \/ Skip(p, s, u, t)
          PROVE  TypeOK'
      <3>1. PICK a \in Args : TRUE
        BY GatewaysAssumption
      <3> QED
        BY <2>1, <3>1, AskType
    <2>2. ASSUME NEW p \in Procs, NEW s \in Slots, NEW es \in SUBSET Entities, RecordResult(p, s, es)
          PROVE  TypeOK'
      BY <2>2, RecordResultType
    <2>3. ASSUME NEW p \in Procs, Verdict(p)
          PROVE  TypeOK'
      BY <2>3, VerdictType
    <2>4. ASSUME NEW p \in Procs, NEW s \in Slots, NEW es \in SUBSET Entities,
                 PassUnfiled(p, s, es) \/ PassUnread(p, s, es)
          PROVE  TypeOK'
      BY <2>4, PassType
    <2>5. ASSUME NEW p \in Procs, Crash(p)
          PROVE  TypeOK'
      <3>1. NoneAsked \in [Users -> [Services -> Tools \cup {NoTool}]]
        BY DEF NoneAsked
      <3>2. store' \in StoreType
        BY <2>5, EmptyStoreType DEF Crash, TypeOK
      <3> QED
        BY <2>5, <3>1, <3>2 DEF Crash, TypeOK
    <2>6. ASSUME NEW s \in Slots, GiveUp(s)
          PROVE  TypeOK'
      BY <2>6 DEF GiveUp, TypeOK
    <2>7. ASSUME NEW u \in Users, NEW r \in RuleIds, Decide(u, r)
          PROVE  TypeOK'
      <3>1. HoldingsType /\ ApprovalTtls \subseteq Nat
        BY TypeHolds, GatewaysAssumption
      <3>2. \/ requests' = [requests EXCEPT ![u][r].status = "denied"]
            \/ \E ttl \in ApprovalTtls :
                  requests' = [requests EXCEPT ![u][r] = [status |-> "approved", left |-> ttl]]
        BY <2>7 DEF Decide
      <3>3. /\ [requests EXCEPT ![u][r].status = "denied"] \in [Users -> [RuleIds -> RequestType]]
            /\ \A ttl \in ApprovalTtls :
                  [requests EXCEPT ![u][r] = [status |-> "approved", left |-> ttl]]
                    \in [Users -> [RuleIds -> RequestType]]
        BY <3>1, DecidedType
      <3>4. requests' \in [Users -> [RuleIds -> RequestType]]
        BY <3>2, <3>3, Zenon
      <3> QED
        BY <2>7, <3>4 DEF Decide, TypeOK
    <2>8. CASE Tick
      <3>1. store' \in StoreType
        BY <2>8, AgeType DEF Tick, TypeOK
      <3>2. held' \in [Users -> [Domains -> [Marks -> 0..Ttl]]]
        BY <2>8, TypeHolds, LapsedType DEF Tick
      <3>3. requests' \in [Users -> [RuleIds -> RequestType]]
        BY <2>8, TypeHolds, AgedRequestsType DEF Tick
      <3>4. date' \in Nat
        <4>1. date' = date + 1 \/ date' = date
          BY <2>8 DEF Tick
        <4> QED
          BY <4>1 DEF TypeOK
      <3>5. astray' \in [Users -> 0..Ttl]
        BY <2>8, Minus1Type, TtlAssumption DEF Tick, TypeOK, Minus1
      <3> QED
        BY <2>8, <3>1, <3>2, <3>3, <3>4, <3>5 DEF Tick, TypeOK
    <2>9. CASE UNCHANGED vars
      BY <2>9 DEF vars, TypeOK
    <2> QED
      BY <2>1, <2>2, <2>3, <2>4, <2>5, <2>6, <2>7, <2>8, <2>9 DEF Next, Serves, Outside
  <1> QED
    BY <1>1, <1>2, PTL DEF Spec

-----------------------------------------------------------------------------
(* The shared store never knows less than the users do.                      *)

(* What a process is deciding about is in the store, as fresh as can be: no  *)
(* second goes by before the verdict, and what other processes record in     *)
(* between renews it.  Of Redis: a restart empties a store in memory.        *)
JobRecorded ==
    \A p \in Procs : (job[p] # NoJob /\ call[job[p].slot] # Idle) =>
        LET u == call[job[p].slot].user  d == DomainOf[job[p].tool] IN
        /\ store.seen[u][d] = Ttl
        /\ \A m \in job[p].es \cup {Touched} : store.ents[u][d][m] = Ttl

(* A step that leaves jobs, what they are about and what is remembered.      *)
LEMMA JobsKept ==
  ASSUME TypeOK, JobRecorded, store'.ents = store.ents, store'.seen = store.seen,
         \A p \in Procs : job'[p] = NoJob \/ job'[p] = job[p],
         \A p \in Procs : job[p] # NoJob =>
             \/ call'[job[p].slot] = Idle \/ call'[job[p].slot] = call[job[p].slot]
  PROVE  JobRecorded'
  <1>1. ASSUME NEW p \in Procs, job'[p] # NoJob, call'[job'[p].slot] # Idle
        PROVE  LET u == call'[job'[p].slot].user  d == DomainOf[job'[p].tool] IN
               /\ store'.seen[u][d] = Ttl
               /\ \A m \in job'[p].es \cup {Touched} : store'.ents[u][d][m] = Ttl
    <2>1. /\ job'[p] = job[p] /\ job[p] # NoJob
          /\ call'[job[p].slot] = call[job[p].slot] /\ call[job[p].slot] # Idle
      BY <1>1
    <2>2. LET u == call[job[p].slot].user  d == DomainOf[job[p].tool] IN
          /\ store.seen[u][d] = Ttl
          /\ \A m \in job[p].es \cup {Touched} : store.ents[u][d][m] = Ttl
      BY <2>1 DEF JobRecorded
    <2> QED
      BY <2>1, <2>2
  <1> QED
    BY <1>1 DEF JobRecorded

(* A request never takes the slot of a call that is being decided about.     *)
LEMMA AskLeavesJobs ==
  ASSUME TypeOK,
         NEW p \in Procs, NEW s \in Slots, NEW u \in Users, NEW t \in Tools, NEW a \in Args,
         AskBarred(p, s, u, t, a) \/ Ask(p, s, u, t, a) \/ AskHook(p, s, u, t) \/ Skip(p, s, u, t)
  PROVE  /\ UNCHANGED <<job, astray, held>>
         /\ store' = store \/ store' = Synced(store, u)
         /\ \A q \in Procs : job[q] # NoJob => call'[job[q].slot] = call[job[q].slot]
  <1>1. /\ Free(s) /\ UNCHANGED <<job, astray, held>>
        /\ store' = store \/ store' = Synced(store, u)
        /\ call' = call \/ Admit(p, s, u, t)
    BY DEF AskBarred, Ask, AskHook, Skip
  <1>2. ASSUME NEW q \in Procs, job[q] # NoJob
        PROVE  call'[job[q].slot] = call[job[q].slot]
    <2>1. job[q].slot \in Slots /\ job[q].slot # s
      BY <1>1, <1>2, BusyJob DEF Free
    <2> QED
      BY <1>1, <2>1 DEF Admit, TypeOK
  <1> QED
    BY <1>1, <1>2

(* And forgets nothing of what is being decided about.                       *)
LEMMA AskKeepsJobs ==
  ASSUME TypeOK, JobRecorded,
         NEW p \in Procs, NEW s \in Slots, NEW u \in Users, NEW t \in Tools, NEW a \in Args,
         AskBarred(p, s, u, t, a) \/ Ask(p, s, u, t, a) \/ AskHook(p, s, u, t) \/ Skip(p, s, u, t)
  PROVE  JobRecorded' /\ store'.ents = store.ents /\ store'.seen = store.seen
  <1>1. /\ job' = job
        /\ store' = store \/ store' = Synced(store, u)
        /\ \A q \in Procs : job[q] # NoJob => call'[job[q].slot] = call[job[q].slot]
    BY AskLeavesJobs
  <1>2. store'.ents = store.ents /\ store'.seen = store.seen
    BY <1>1, TypeHolds, SyncedType DEF TypeOK
  <1> QED
    BY <1>1, <1>2, JobsKept

(* Recording one result renews what others are about.                        *)
LEMMA RecordKeepsJobs ==
  ASSUME Backend = "redis", TypeOK, JobRecorded,
         NEW p \in Procs, NEW s \in Slots, NEW es \in SUBSET Entities, RecordResult(p, s, es)
  PROVE  JobRecorded'
  <1> DEFINE v == call[s].user
             x == DomainOf[ToolOfResult(p, call[s])]
  <1>1. v \in Users /\ x \in Domains
    BY BusyCall, RecordResultType DEF RecordResult, Asks
  <1>2. /\ store' = Record(Backend, store, v, x, es, Ttl)
        /\ call' = call /\ job[p] = NoJob
        /\ job' = [job EXCEPT ![p] = [pc |-> "recorded", slot |-> s,
                                      tool |-> ToolOfResult(p, call[s]), es |-> es]]
    BY DEF RecordResult, Asks
  <1> HIDE DEF v, x
  <1>3. /\ \A u \in Users, d \in Domains, m \in Marks :
              store'.ents[u][d][m] =
                IF u = v /\ d = x
                THEN IF m \in es \cup {Touched} \/ store.ents[u][d][m] > 0 THEN Ttl ELSE 0
                ELSE store.ents[u][d][m]
        /\ \A u \in Users, d \in Domains :
              store'.seen[u][d] =
                IF u = v THEN IF d = x \/ store.seen[u][d] > 0 THEN Ttl ELSE 0
                ELSE store.seen[u][d]
    BY <1>1, <1>2 DEF Record, RedisBucket, RedisSeen, TypeOK, StoreType
  <1>4. Ttl > 0
    BY TtlAssumption
  <1>5. ASSUME NEW q \in Procs, job'[q] # NoJob, call'[job'[q].slot] # Idle
        PROVE  LET u == call'[job'[q].slot].user  d == DomainOf[job'[q].tool] IN
               /\ store'.seen[u][d] = Ttl
               /\ \A m \in job'[q].es \cup {Touched} : store'.ents[u][d][m] = Ttl
    <2>1. CASE q = p
      <3>1. /\ job'[q].slot = s /\ job'[q].es = es /\ job'[q].tool = ToolOfResult(p, call[s])
            /\ es \cup {Touched} \subseteq Marks
        BY <1>2, <2>1 DEF TypeOK, Marks
      <3>2. call'[job'[q].slot].user = v /\ DomainOf[job'[q].tool] = x
        BY <1>2, <3>1 DEF v, x
      <3> QED
        BY <1>1, <1>3, <3>1, <3>2
    <2>2. CASE q # p
      <3> DEFINE u == call[job[q].slot].user
                 d == DomainOf[job[q].tool]
      <3>1. job'[q] = job[q] /\ call' = call
        BY <1>2, <2>2 DEF TypeOK
      <3>2. job[q] # NoJob /\ call[job[q].slot] # Idle
        BY <1>5, <3>1
      <3>3. u \in Users /\ d \in Domains /\ job[q].es \cup {Touched} \subseteq Marks
        BY <3>2, BusyJob, BusyCall DEF Marks
      <3>4. /\ store.seen[u][d] = Ttl
            /\ \A m \in job[q].es \cup {Touched} : store.ents[u][d][m] = Ttl
        BY <3>2 DEF JobRecorded
      <3> HIDE DEF u, d
      <3>5. /\ store'.seen[u][d] = Ttl
            /\ \A m \in job[q].es \cup {Touched} : store'.ents[u][d][m] = Ttl
        BY <1>3, <1>4, <3>3, <3>4
      <3> QED
        BY <3>1, <3>5 DEF u, d
    <2> QED
      BY <2>1, <2>2
  <1> QED
    BY <1>5 DEF JobRecorded

(* What is filed: what a user holds and the store does not went astray.      *)

(* A step that changes neither what is remembered nor what is held.          *)
LEMMA FiledKept ==
  ASSUME StoreCoversFiled, UNCHANGED <<held, astray>>,
         store'.ents = store.ents, store'.seen = store.seen
  PROVE  StoreCoversFiled'
  BY DEF StoreCoversFiled

(* Recording a result, of whichever tool it is taken to be.                  *)
LEMMA RecordFiled ==
  ASSUME Backend = "redis", TypeOK, StoreCoversFiled,
         NEW p \in Procs, NEW s \in Slots, NEW es \in SUBSET Entities, RecordResult(p, s, es)
  PROVE  StoreCoversFiled'
  <1> DEFINE v == call[s].user
             x == DomainOf[ToolOfResult(p, call[s])]
  <1>1. v \in Users /\ x \in Domains
    BY BusyCall, RecordResultType DEF RecordResult, Asks
  <1>2. store' = Record(Backend, store, v, x, es, Ttl) /\ UNCHANGED <<held, astray>>
    BY DEF RecordResult
  <1> HIDE DEF v, x
  <1>3. \A u \in Users, d \in Domains, m \in Marks :
          /\ held[u][d][m] \in 0..Ttl
          /\ store.ents[u][d][m] \in Nat /\ store.seen[u][d] \in Nat
    BY DEF TypeOK, StoreType
  <1>4. \A u \in Users, d \in Domains, m \in Marks :
          store'.ents[u][d][m] =
            IF u = v /\ d = x
            THEN IF m \in es \cup {Touched} \/ store.ents[u][d][m] > 0 THEN Ttl ELSE 0
            ELSE store.ents[u][d][m]
    BY <1>2 DEF Record, RedisBucket, TypeOK, StoreType
  <1>5. \A u \in Users, d \in Domains :
          store'.seen[u][d] =
            IF u = v THEN IF d = x \/ store.seen[u][d] > 0 THEN Ttl ELSE 0
            ELSE store.seen[u][d]
    BY <1>2 DEF Record, RedisSeen, TypeOK, StoreType
  <1> SUFFICES ASSUME NEW u \in Users, NEW d \in Domains, NEW m \in Marks
               PROVE  \/ held'[u][d][m] <= astray'[u]
                      \/ /\ held'[u][d][m] <= store'.ents[u][d][m]
                         /\ held'[u][d][m] <= store'.seen[u][d]
    BY DEF StoreCoversFiled
  <1>6. held'[u][d][m] = held[u][d][m] /\ astray'[u] = astray[u] /\ Ttl \in Nat
    BY <1>2, TtlAssumption
  <1>7. \/ held[u][d][m] <= astray[u]
        \/ held[u][d][m] <= store.ents[u][d][m] /\ held[u][d][m] <= store.seen[u][d]
    BY DEF StoreCoversFiled
  <1> QED
    BY <1>3, <1>4, <1>5, <1>6, <1>7

(* A second ages all sides alike.                                            *)
LEMMA AgeFiled ==
  ASSUME TypeOK, StoreCoversFiled, Tick
  PROVE  StoreCoversFiled'
  <1>1. \A u \in Users, d \in Domains, m \in Marks :
          /\ held[u][d][m] \in Nat /\ astray[u] \in Nat
          /\ store.ents[u][d][m] \in Nat /\ store.seen[u][d] \in Nat
    BY TtlAssumption DEF TypeOK, StoreType
  <1>2. \A u \in Users, d \in Domains, m \in Marks :
          /\ held'[u][d][m] = Minus1(held[u][d][m])
          /\ astray'[u] = Minus1(astray[u])
          /\ store'.ents[u][d][m] = Minus1(store.ents[u][d][m])
          /\ store'.seen[u][d] = Minus1(store.seen[u][d])
    BY DEF Tick, Age, Coc!Lapsed, Coc!Marks, Marks, Coc!Minus1, Minus1
  <1> QED
    BY <1>1, <1>2, Minus1Monotone DEF StoreCoversFiled

(* Handing over what the store knows in full, or what went astray.           *)
LEMMA HandsOverFiled ==
  ASSUME TypeOK, StoreCoversFiled, NEW s \in Slots, call[s] # Idle,
         NEW t, NEW es \in SUBSET Entities, HandsOver(call[s], t, es), store' = store,
         t \in Tools =>
            /\ store.seen[call[s].user][DomainOf[t]] = Ttl
            /\ \A m \in es \cup {Touched} : store.ents[call[s].user][DomainOf[t]][m] = Ttl
  PROVE  StoreCoversFiled'
  <1> DEFINE c == call[s]
             d == DomainOf[c.tool]
  <1>1. c.user \in Users /\ d \in Domains
    BY BusyCall
  <1>2. /\ held \in [Users -> [Domains -> [Marks -> 0..Ttl]]] /\ Ttl \in Nat
        /\ astray \in [Users -> 0..Ttl]
    BY TtlAssumption DEF TypeOK
  <1>3. held' = Coc!Received(held, c.user, d, es)
    BY DEF HandsOver
  <1>4. \/ /\ astray' = astray /\ store.seen[c.user][d] = Ttl
           /\ \A m \in es \cup {Touched} : store.ents[c.user][d][m] = Ttl
        \/ astray' = [astray EXCEPT ![c.user] = Ttl]
    BY DEF HandsOver
  <1> HIDE DEF c, d
  <1>5. \A u \in Users, x \in Domains, m \in Marks :
          Coc!Received(held, c.user, d, es)[u][x][m] =
            IF u = c.user /\ x = d /\ m \in es \cup {Touched} THEN Ttl ELSE held[u][x][m]
    BY <1>1, <1>2, ReceivedIs
  <1> SUFFICES ASSUME NEW u \in Users, NEW x \in Domains, NEW m \in Marks
               PROVE  \/ held'[u][x][m] <= astray'[u]
                      \/ /\ held'[u][x][m] <= store'.ents[u][x][m]
                         /\ held'[u][x][m] <= store'.seen[u][x]
    BY DEF StoreCoversFiled
  <1>6. held'[u][x][m] = IF u = c.user /\ x = d /\ m \in es \cup {Touched} THEN Ttl ELSE held[u][x][m]
    BY <1>3, <1>5
  <1>7. \/ held[u][x][m] <= astray[u]
        \/ held[u][x][m] <= store.ents[u][x][m] /\ held[u][x][m] <= store.seen[u][x]
    BY DEF StoreCoversFiled
  <1>8. CASE astray' = [astray EXCEPT ![c.user] = Ttl]
    <2>1. astray'[u] = IF u = c.user THEN Ttl ELSE astray[u]
      BY <1>2, <1>8
    <2>2. held[u][x][m] \in 0..Ttl
      BY <1>2
    <2> QED
      BY <1>2, <1>6, <1>7, <2>1, <2>2
  <1>9. CASE /\ astray' = astray /\ store.seen[c.user][d] = Ttl
             /\ \A n \in es \cup {Touched} : store.ents[c.user][d][n] = Ttl
    BY <1>2, <1>6, <1>7, <1>9
  <1> QED
    BY <1>4, <1>8, <1>9

(* A verdict hands over only what the store knows in full, or went astray.   *)
LEMMA VerdictFiled ==
  ASSUME TypeOK, JobRecorded, StoreCoversFiled, NEW p \in Procs, Verdict(p)
  PROVE  StoreCoversFiled'
  <1> DEFINE j == job[p]
             c == call[j.slot]
  <1>1. /\ store' = store
        /\ UNCHANGED <<held, astray>> \/ (c # Idle /\ HandsOver(c, j.tool, j.es))
    BY DEF Verdict
  <1>2. CASE UNCHANGED <<held, astray>>
    BY <1>1, <1>2, FiledKept
  <1>3. CASE c # Idle /\ HandsOver(c, j.tool, j.es)
    <2>1. j.slot \in Slots /\ j.es \in SUBSET Entities
      BY BusyJob DEF Verdict
    <2>2. /\ store.seen[c.user][DomainOf[j.tool]] = Ttl
          /\ \A m \in j.es \cup {Touched} : store.ents[c.user][DomainOf[j.tool]][m] = Ttl
      BY <1>3 DEF JobRecorded, Verdict
    <2> QED
      BY <1>1, <1>3, <2>1, <2>2, HandsOverFiled
  <1> QED
    BY <1>1, <1>2, <1>3

(* What is passed on without a decision went astray.                         *)
LEMMA PassFiled ==
  ASSUME TypeOK, StoreCoversFiled, NEW p \in Procs, NEW s \in Slots, NEW es \in SUBSET Entities,
         PassUnfiled(p, s, es) \/ PassUnread(p, s, es)
  PROVE  StoreCoversFiled'
  <1>1. call[s] # Idle /\ HandsOver(call[s], NoTool, es) /\ store' = store
    BY DEF PassUnfiled, PassUnread, Passed, Asks
  <1> QED
    BY <1>1, GatewaysAssumption, HandsOverFiled

(* The rest: steps that record nothing and hand nothing over.                *)
LEMMA OthersHandNothing ==
  ASSUME Backend = "redis",
         \/ \E p \in Procs : Crash(p)
         \/ \E s \in Slots : GiveUp(s)
         \/ \E u \in Users, r \in RuleIds : Decide(u, r)
         \/ UNCHANGED vars
  PROVE  UNCHANGED <<held, astray, store>>
  BY DEF Crash, GiveUp, Decide, vars

(* Verdicts, passes and those steps at most end jobs and calls.              *)
LEMMA EndedJobs ==
  ASSUME TypeOK, store' = store,
         call' = call \/ \E s \in Slots : call' = [call EXCEPT ![s] = Idle],
         job' = job \/ \E p \in Procs : job' = [job EXCEPT ![p] = NoJob]
  PROVE  /\ \A p \in Procs : job'[p] = NoJob \/ job'[p] = job[p]
         /\ \A p \in Procs : job[p] # NoJob =>
              call'[job[p].slot] = Idle \/ call'[job[p].slot] = call[job[p].slot]
         /\ JobRecorded => JobRecorded'
  <1>1. \A p \in Procs : job'[p] = NoJob \/ job'[p] = job[p]
    BY DEF TypeOK
  <1>2. \A x \in Slots : call'[x] = Idle \/ call'[x] = call[x]
    BY DEF TypeOK
  <1>3. \A p \in Procs : job[p] # NoJob => job[p].slot \in Slots
    BY BusyJob
  <1>4. \A p \in Procs : job[p] # NoJob =>
          call'[job[p].slot] = Idle \/ call'[job[p].slot] = call[job[p].slot]
    BY <1>2, <1>3
  <1> QED
    BY <1>1, <1>4, JobsKept

(* Which steps those are.                                                    *)
LEMMA Ending ==
  ASSUME Backend = "redis", TypeOK,
         \/ \E p \in Procs : Verdict(p) \/ Crash(p)
         \/ \E p \in Procs, s \in Slots, es \in SUBSET Entities :
               PassUnfiled(p, s, es) \/ PassUnread(p, s, es)
         \/ \E s \in Slots : GiveUp(s)
         \/ \E u \in Users, r \in RuleIds : Decide(u, r)
         \/ UNCHANGED vars
  PROVE  /\ store' = store
         /\ call' = call \/ \E s \in Slots : call' = [call EXCEPT ![s] = Idle]
         /\ job' = job \/ \E p \in Procs : job' = [job EXCEPT ![p] = NoJob]
  <1>1. ASSUME NEW p \in Procs, Verdict(p)
        PROVE  /\ store' = store
               /\ call' = call \/ \E s \in Slots : call' = [call EXCEPT ![s] = Idle]
               /\ job' = [job EXCEPT ![p] = NoJob]
    BY <1>1, BusyJob DEF Verdict
  <1>2. CASE \/ \E p \in Procs : Crash(p)
             \/ \E p \in Procs, s \in Slots, es \in SUBSET Entities :
                   PassUnfiled(p, s, es) \/ PassUnread(p, s, es)
             \/ \E s \in Slots : GiveUp(s)
             \/ \E u \in Users, r \in RuleIds : Decide(u, r)
             \/ UNCHANGED vars
    BY <1>2 DEF Crash, PassUnfiled, PassUnread, Passed, GiveUp, Decide, vars
  <1> QED
    BY <1>1, <1>2

(* Whichever process recorded it, and whatever was asked twice, lost or      *)
(* skipped, the shared store knows of every answer as long as it counts, but *)
(* for those a user still holds that went astray.                            *)
THEOREM StoreCovers ==
  ASSUME Backend = "redis"
  PROVE  Spec => [](JobRecorded /\ StoreCoversFiled)
  <1>1. Init => JobRecorded /\ StoreCoversFiled
    <2>1. Init => StoreCoversFiled
      BY DEF Init, StoreCoversFiled, EmptyStore, Marks
    <2>2. Init => JobRecorded
      BY DEF Init, JobRecorded
    <2> QED
      BY <2>1, <2>2
  <1>2. TypeOK /\ JobRecorded /\ StoreCoversFiled /\ [Next]_vars => (JobRecorded /\ StoreCoversFiled)'
    <2> SUFFICES ASSUME TypeOK, JobRecorded, StoreCoversFiled, [Next]_vars
                 PROVE  JobRecorded' /\ StoreCoversFiled'
      OBVIOUS
    <2>1. ASSUME NEW p \in Procs, NEW s \in Slots, NEW u \in Users, NEW t \in Tools,
                 \/ \E a \in Args : AskBarred(p, s, u, t, a) \/ Ask(p, s, u, t, a)
                 \/ AskHook(p, s, u, t) \/ Skip(p, s, u, t)
          PROVE  JobRecorded' /\ StoreCoversFiled'
      <3>1. PICK a \in Args : \/ AskBarred(p, s, u, t, a) \/ Ask(p, s, u, t, a)
                              \/ AskHook(p, s, u, t) \/ Skip(p, s, u, t)
        BY <2>1, GatewaysAssumption
      <3> QED
        BY <3>1, AskKeepsJobs, AskLeavesJobs, FiledKept
    <2>2. ASSUME NEW p \in Procs, NEW s \in Slots, NEW es \in SUBSET Entities, RecordResult(p, s, es)
          PROVE  JobRecorded' /\ StoreCoversFiled'
      BY <2>2, RecordKeepsJobs, RecordFiled
    <2>3. ASSUME NEW p \in Procs, Verdict(p)
          PROVE  JobRecorded' /\ StoreCoversFiled'
      BY <2>3, Ending, EndedJobs, VerdictFiled
    <2>4. CASE Tick
      <3>1. JobRecorded'
        BY <2>4 DEF Tick, JobRecorded
      <3> QED
        BY <2>4, <3>1, AgeFiled
    <2>5. ASSUME NEW p \in Procs, NEW s \in Slots, NEW es \in SUBSET Entities,
                 PassUnfiled(p, s, es) \/ PassUnread(p, s, es)
          PROVE  JobRecorded' /\ StoreCoversFiled'
      BY <2>5, Ending, EndedJobs, PassFiled
    <2>6. CASE \/ \E p \in Procs : Crash(p)
               \/ \E s \in Slots : GiveUp(s)
               \/ \E u \in Users, r \in RuleIds : Decide(u, r)
               \/ UNCHANGED vars
      <3>1. JobRecorded'
        BY <2>6, Ending, EndedJobs
      <3> QED
        BY <2>6, <3>1, OthersHandNothing, FiledKept
    <2> QED
      BY <2>1, <2>2, <2>3, <2>4, <2>5, <2>6 DEF Next, Serves, Outside
  <1> QED
    BY <1>1, <1>2, TypeCorrect, PTL DEF Spec

-----------------------------------------------------------------------------
(* The decision points implement the code of conduct.                        *)

(* Handing over touches one user's holdings.                                 *)
LEMMA HandsOverOne ==
  ASSUME TypeOK, NEW s \in Slots, call[s] # Idle, NEW t, NEW es, HandsOver(call[s], t, es)
  PROVE  /\ call[s].user \in Users
         /\ \A v \in Users \ {call[s].user} : held'[v] = held[v]
         /\ ~ (t \in Tools /\ DomainOf[t] = DomainOf[call[s].tool]) => astray'[call[s].user] = Ttl
  <1>1. call[s].user \in Users
    BY BusyCall
  <1>2. /\ held \in [Users -> [Domains -> [Marks -> 0..Ttl]]]
        /\ astray \in [Users -> 0..Ttl]
    BY DEF TypeOK
  <1>3. \A v \in Users \ {call[s].user} : held'[v] = held[v]
    BY <1>2 DEF HandsOver, Coc!Received
  <1>4. ~ (t \in Tools /\ DomainOf[t] = DomainOf[call[s].tool]) => astray'[call[s].user] = Ttl
    BY <1>1, <1>2 DEF HandsOver
  <1> QED
    BY <1>1, <1>3, <1>4

(* To a user to whom nothing that counts went astray, a verdict is a step of *)
(* the code of conduct.                                                      *)
LEMMA VerdictIsGiven ==
  ASSUME Backend = "redis", TypeOK, TypeOK', StoreCoversFiled', NEW p \in Procs, Verdict(p)
  PROVE  \/ held' = held \/ Coc!CocNext
         \/ \E u \in Users : astray'[u] > 0 /\ \A v \in Users \ {u} : held'[v] = held[v]
  <1> DEFINE j == job[p]
             c == call[j.slot]
             d == DomainOf[c.tool]
             v == PostCall(store, c.user, DomainOf[j.tool], j.es)
  <1>1. \/ held' = held
        \/ c # Idle /\ v.allow /\ HandsOver(c, j.tool, j.es)
    BY DEF Verdict
  <1>2. ASSUME c # Idle, v.allow, HandsOver(c, j.tool, j.es)
        PROVE  \/ Coc!CocNext
               \/ \E u \in Users : astray'[u] > 0 /\ \A w \in Users \ {u} : held'[w] = held[w]
    <2>1. /\ j.slot \in Slots /\ c.user \in Users /\ d \in Domains /\ j.es \in SUBSET Entities
          /\ store' = store
      BY <1>2, BusyJob, BusyCall DEF Verdict
    <2>2. \A w \in Users \ {c.user} : held'[w] = held[w]
      BY <1>2, <2>1, HandsOverOne
    <2>3. CASE astray'[c.user] > 0
      BY <2>1, <2>2, <2>3
    <2>4. CASE ~ (astray'[c.user] > 0)
      <3>1. astray'[c.user] = 0 /\ Ttl > 0
        BY <2>1, <2>4, TtlAssumption DEF TypeOK
      <3>2. DomainOf[j.tool] = d
        <4>1. ~ (j.tool \in Tools /\ DomainOf[j.tool] = d) => astray'[c.user] = Ttl
          BY <1>2, <2>1, HandsOverOne
        <4>2. Ttl # 0
          BY <3>1, TtlAssumption
        <4> HIDE DEF c, d, j
        <4> QED
          BY <3>1, <4>1, <4>2
      <3>3. Covers(store', held', c.user)
        <4> DEFINE u == c.user
        <4>1. u \in Users
          BY <2>1
        <4> HIDE DEF u
        <4>2. \A x \in Domains, m \in Marks :
                /\ held'[u][x][m] \in Nat
                /\ store'.ents[u][x][m] \in Nat /\ store'.seen[u][x] \in Nat
          BY <4>1, TtlAssumption DEF TypeOK, StoreType
        <4>3. astray'[u] = 0
          BY <3>1 DEF u
        <4>4. \A x \in Domains, m \in Marks :
                \/ held'[u][x][m] <= astray'[u]
                \/ held'[u][x][m] <= store'.ents[u][x][m] /\ held'[u][x][m] <= store'.seen[u][x]
          BY <4>1 DEF StoreCoversFiled
        <4>5. \A x \in Domains, m \in Marks :
                held'[u][x][m] <= store'.ents[u][x][m] /\ held'[u][x][m] <= store'.seen[u][x]
          BY <4>2, <4>3, <4>4
        <4>6. Covers(store', held', u)
          BY <4>5 DEF Covers, Marks
        <4> QED
          BY <4>6 DEF u
      <3>4. PostCall(store', c.user, d, j.es).allow /\ held' = Coc!Received(held, c.user, d, j.es)
        BY <1>2, <2>1, <3>2 DEF HandsOver
      <3> HIDE DEF c, d, j
      <3>5. Coc!Conforms(held', c.user, d, j.es)
        BY <2>1, <3>3, <3>4, TypeHolds, ReleaseConforms
      <3> QED
        BY <2>1, <3>4, <3>5 DEF Coc!CocNext, Coc!Give
    <2> QED
      BY <2>3, <2>4
  <1> HIDE DEF c, v, j
  <1> QED
    BY <1>1, <1>2

(* For any policy, any number of processes, calls and users, and messages    *)
(* interleaved, repeated, lost, left out or filed under the wrong tool, a    *)
(* user's holdings change only by time, or by an answer that breaks no block *)
(* in force, while nothing this user holds went astray.                      *)
THEOREM FiledHoldsToCode ==
  ASSUME Backend = "redis"
  PROVE  Spec => HoldsToCodeIfFiled
  <1>1. TypeOK /\ TypeOK' /\ StoreCoversFiled' /\ [Next]_vars => [GivenIfFiled]_held
    <2> SUFFICES ASSUME TypeOK, TypeOK', StoreCoversFiled', [Next]_vars
                 PROVE  \/ held' = held \/ Coc!CocNext
                        \/ \E u \in Users : astray'[u] > 0 /\ \A v \in Users \ {u} : held'[v] = held[v]
      BY DEF GivenIfFiled
    <2>1. ASSUME NEW p \in Procs, Verdict(p)
          PROVE  \/ held' = held \/ Coc!CocNext
                 \/ \E u \in Users : astray'[u] > 0 /\ \A v \in Users \ {u} : held'[v] = held[v]
      BY <2>1, VerdictIsGiven
    <2>2. CASE Tick
      BY <2>2 DEF Tick, Coc!CocNext, Coc!Forget
    <2>3. ASSUME NEW p \in Procs, NEW s \in Slots, NEW u \in Users, NEW t \in Tools,
                 \/ \E a \in Args : AskBarred(p, s, u, t, a) \/ Ask(p, s, u, t, a)
                 \/ AskHook(p, s, u, t) \/ Skip(p, s, u, t)
          PROVE  held' = held
      <3>1. CASE \E a \in Args : AskBarred(p, s, u, t, a)
        BY <3>1 DEF AskBarred
      <3>2. CASE \E a \in Args : Ask(p, s, u, t, a)
        BY <3>2 DEF Ask
      <3> QED
        BY <2>3, <3>1, <3>2 DEF AskHook, Skip
    <2>4. ASSUME NEW p \in Procs, NEW s \in Slots, NEW es \in SUBSET Entities, RecordResult(p, s, es)
          PROVE  held' = held
      BY <2>4 DEF RecordResult
    <2>5. ASSUME NEW p \in Procs, NEW s \in Slots, NEW es \in SUBSET Entities,
                 PassUnfiled(p, s, es) \/ PassUnread(p, s, es)
          PROVE  \E u \in Users : astray'[u] > 0 /\ \A v \in Users \ {u} : held'[v] = held[v]
      <3>1. call[s] # Idle /\ HandsOver(call[s], NoTool, es)
        BY <2>5 DEF PassUnfiled, PassUnread, Passed, Asks
      <3>2. /\ call[s].user \in Users /\ astray'[call[s].user] = Ttl
            /\ \A v \in Users \ {call[s].user} : held'[v] = held[v]
        BY <3>1, HandsOverOne, GatewaysAssumption
      <3> QED
        BY <3>2, TtlAssumption
    <2>6. CASE \/ \E p \in Procs : Crash(p)
               \/ \E s \in Slots : GiveUp(s)
               \/ \E u \in Users, r \in RuleIds : Decide(u, r)
               \/ UNCHANGED vars
      BY <2>6, OthersHandNothing
    <2> QED
      BY <2>1, <2>2, <2>3, <2>4, <2>5, <2>6 DEF Next, Serves, Outside
  <1> QED
    BY <1>1, TypeCorrect, StoreCovers, PTL DEF Spec, HoldsToCodeIfFiled

(* Every result is taken to be of its own tool, and nothing went astray.     *)
FiledRight ==
    /\ \A u \in Users : astray[u] = 0
    /\ \A p \in Procs : (job[p] # NoJob /\ call[job[p].slot] # Idle) =>
          job[p].tool = call[job[p].slot].tool

(* A step that makes no job files nothing wrong.                             *)
LEMMA FiledRightKept ==
  ASSUME TypeOK, FiledRight, \A u \in Users : astray'[u] = 0,
         \A p \in Procs : job'[p] = NoJob \/ job'[p] = job[p],
         \A p \in Procs : job[p] # NoJob =>
             \/ call'[job[p].slot] = Idle \/ call'[job[p].slot] = call[job[p].slot]
  PROVE  FiledRight'
  <1> SUFFICES ASSUME NEW p \in Procs, job'[p] # NoJob, call'[job'[p].slot] # Idle
               PROVE  job'[p].tool = call'[job'[p].slot].tool
    BY DEF FiledRight
  <1>1. /\ job'[p] = job[p] /\ job[p] # NoJob
        /\ call'[job[p].slot] = call[job[p].slot] /\ call[job[p].slot] # Idle
    OBVIOUS
  <1> QED
    BY <1>1 DEF FiledRight

(* Where the gateways name the tool of a result, as they are configured to   *)
(* (extmcp/__init__.py:19), and results are read.                            *)
FilesRight == ~Unreadable /\ \A p \in Procs : KindOf[p] = "agentgateway" => NamesTool

(* Then nothing goes astray.                                                *)
LEMMA NothingAstray ==
  ASSUME Backend = "redis", FilesRight
  PROVE  Spec => []FiledRight
  <1>1. Init => FiledRight
    BY DEF Init, FiledRight
  <1>2. TypeOK /\ FiledRight /\ [Next]_vars => FiledRight'
    <2> SUFFICES ASSUME TypeOK, FiledRight, [Next]_vars PROVE FiledRight'
      OBVIOUS
    <2>1. ASSUME NEW p \in Procs, NEW s \in Slots, NEW u \in Users, NEW t \in Tools,
                 \/ \E a \in Args : AskBarred(p, s, u, t, a) \/ Ask(p, s, u, t, a)
                 \/ AskHook(p, s, u, t) \/ Skip(p, s, u, t)
          PROVE  FiledRight'
      <3>1. PICK a \in Args : \/ AskBarred(p, s, u, t, a) \/ Ask(p, s, u, t, a)
                              \/ AskHook(p, s, u, t) \/ Skip(p, s, u, t)
        BY <2>1, GatewaysAssumption
      <3>2. /\ job' = job /\ astray' = astray
            /\ \A q \in Procs : job[q] # NoJob => call'[job[q].slot] = call[job[q].slot]
        BY <3>1, AskLeavesJobs
      <3> QED
        BY <3>2, FiledRightKept DEF FiledRight
    <2>2. ASSUME NEW p \in Procs, NEW s \in Slots, NEW es \in SUBSET Entities, RecordResult(p, s, es)
          PROVE  FiledRight'
      <3>1. /\ job' = [job EXCEPT ![p] = [pc |-> "recorded", slot |-> s, tool |-> call[s].tool, es |-> es]]
            /\ UNCHANGED <<call, astray>>
        BY <2>2 DEF RecordResult, ToolOfResult, FilesRight
      <3>2. \A q \in Procs : job'[q] = IF q = p THEN [pc |-> "recorded", slot |-> s,
                                                     tool |-> call[s].tool, es |-> es] ELSE job[q]
        BY <3>1 DEF TypeOK
      <3> QED
        BY <3>1, <3>2 DEF FiledRight
    <2>3. ASSUME NEW p \in Procs, Verdict(p)
          PROVE  FiledRight'
      <3>1. \A u \in Users : astray'[u] = 0
        <4>1. UNCHANGED astray \/ (call[job[p].slot] # Idle /\ HandsOver(call[job[p].slot], job[p].tool, job[p].es))
          BY <2>3 DEF Verdict
        <4>2. call[job[p].slot] # Idle => job[p].tool = call[job[p].slot].tool /\ job[p].tool \in Tools
          BY <2>3, BusyJob DEF Verdict, FiledRight
        <4>3. astray' = astray
          BY <4>1, <4>2 DEF HandsOver
        <4> QED
          BY <4>3 DEF FiledRight
      <3> QED
        BY <2>3, <3>1, Ending, EndedJobs, FiledRightKept
    <2>4. CASE Tick
      <3>1. UNCHANGED <<job, call>> /\ \A u \in Users : astray'[u] = 0
        BY <2>4 DEF Tick, FiledRight, Minus1
      <3> QED
        BY <3>1 DEF FiledRight
    <2>5. ASSUME NEW p \in Procs, NEW s \in Slots, NEW es \in SUBSET Entities,
                 PassUnfiled(p, s, es) \/ PassUnread(p, s, es)
          PROVE  FALSE
      <3>1. call[s] # Idle /\ ToolOfResult(p, call[s]) = NoTool
        BY <2>5 DEF PassUnfiled, PassUnread, Asks, FilesRight
      <3> QED
        BY <3>1, BusyCall, GatewaysAssumption DEF ToolOfResult, FilesRight
    <2>6. CASE \/ \E p \in Procs : Crash(p)
               \/ \E s \in Slots : GiveUp(s)
               \/ \E u \in Users, r \in RuleIds : Decide(u, r)
               \/ UNCHANGED vars
      <3>1. astray' = astray
        BY <2>6, OthersHandNothing
      <3> QED
        BY <2>6, <3>1, Ending, EndedJobs, FiledRightKept DEF FiledRight
    <2> QED
      BY <2>1, <2>2, <2>3, <2>4, <2>5, <2>6 DEF Next, Serves, Outside
  <1> QED
    BY <1>1, <1>2, TypeCorrect, PTL DEF Spec

(* Where every result is filed under its own tool, the decision points       *)
(* implement the code of conduct without exception.                          *)
THEOREM ImplementsCode ==
  ASSUME Backend = "redis", FilesRight
  PROVE  Spec => HoldsToCode
  <1>1. Init => Coc!CocInit
    BY DEF Init, Coc!CocInit, EmptyStore, Coc!EmptyStore, Marks, Coc!Marks
  <1>2. FiledRight' /\ [GivenIfFiled]_held => [Coc!CocNext]_held
    BY DEF FiledRight, GivenIfFiled
  <1>3. Spec => HoldsToCodeIfFiled
    BY FiledHoldsToCode
  <1>4. Spec => []FiledRight
    BY NothingAstray
  <1> QED
    BY <1>1, <1>2, <1>3, <1>4, PTL DEF Spec, HoldsToCode, HoldsToCodeIfFiled, Coc!CocSpec

-----------------------------------------------------------------------------
(* A request is refused before _sync_approvals under a rule only if some     *)
(* block of it cannot be approved.                                           *)
LEMMA BarredNames ==
  ASSUME NEW u \in Users, NEW t \in Tools, NEW a, Barred(u, t, a),
         NEW r \in RuleIds, answer'.rule = r
  PROVE  ~ \A i \in DOMAIN Blocks : Blocks[i].rule = r => Gate(Blocks[i]) = "approve"
  <1> DEFINE fires == PreFires(store, u, DomainOf[t], t \in WriteTools)
             pre   == PreCall(store, u, DomainOf[t], t \in WriteTools)
  <1>1. ~ pre.allow /\ ~ pre.approve /\ pre.rule = r
    BY PolicyAssumption DEF Barred, Answers
  <1>2. fires \in SUBSET DOMAIN Blocks /\ DOMAIN Blocks \in SUBSET Nat
    BY PolicyAssumption DEF PreFires
  <1> HIDE DEF fires
  <1>3. fires # {} => First(fires) \in DOMAIN Blocks
    BY <1>2, FirstIsOne
  <1> QED
    BY <1>1, <1>3 DEF PreCall, Allowed, Waived, Denied, fires

(* An approved retry goes through, whichever process it is put to: no        *)
(* request of any kind is stopped under a rule its user is approved for, if  *)
(* all of the rule can be approved (proxy.py:558).                           *)
THEOREM ApprovedPasses == Spec => ApprovedGoesThrough
  <1>1. TypeOK /\ Next =>
          \A u \in Users, r \in RuleIds :
            ( /\ r \in ApprovedFor(requests, u)
              /\ \A i \in DOMAIN Blocks : Blocks[i].rule = r => Gate(Blocks[i]) = "approve" )
            => ~ ( /\ answer'.kind \in {"refused", "held"} /\ answer'.stage = "pre"
                   /\ answer'.user = u /\ answer'.rule = r )
    <2> SUFFICES ASSUME TypeOK, Next, NEW u \in Users, NEW r \in RuleIds,
                        r \in ApprovedFor(requests, u),
                        \A i \in DOMAIN Blocks : Blocks[i].rule = r => Gate(Blocks[i]) = "approve",
                        answer'.kind \in {"refused", "held"}, answer'.stage = "pre",
                        answer'.user = u, answer'.rule = r
                 PROVE  FALSE
      OBVIOUS
    <2>1. ASSUME NEW p \in Procs, NEW s \in Slots, NEW n \in Users, NEW t \in Tools, NEW a \in Args,
                 AskBarred(p, s, n, t, a)
          PROVE  FALSE
      BY <2>1, BarredNames DEF AskBarred
    <2>2. ASSUME NEW p \in Procs, NEW s \in Slots, NEW n \in Users, NEW t \in Tools, NEW a \in Args,
                 Ask(p, s, n, t, a)
          PROVE  FALSE
      <3> DEFINE st   == Synced(store, n)
                 argd == CheckArgs(st, n, t, Scanned(a))
                 pre  == PreCall(st, n, DomainOf[t], t \in WriteTools)
                 v    == IF argd.allow THEN pre ELSE argd
      <3>1. \/ v.allow /\ answer' = NoAnswer
            \/ ~ v.allow /\ answer'.user = n /\ answer'.rule = v.rule
        BY <2>2 DEF Ask, Admit, Answers
      <3>2. n = u /\ ~ v.allow /\ v.rule = r
        BY <3>1 DEF NoAnswer
      <3>3. Granted(st, n, r)
        BY <3>2, TypeHolds, SyncedGrants DEF TypeOK
      <3>4. \A i \in DOMAIN Blocks : Blocks[i].rule = r => Waivable(Blocks[i])
        BY DEF Waivable
      <3>5. (~ pre.allow => pre.rule # r) /\ (~ argd.allow => argd.rule # r)
        BY <3>3, <3>4, WaivedStopsNothing
      <3> QED
        BY <3>2, <3>5
    <2>3. CASE \/ \E p \in Procs, s \in Slots, n \in Users, t \in Tools :
                     AskHook(p, s, n, t) \/ Skip(p, s, n, t)
               \/ \E p \in Procs, s \in Slots, es \in SUBSET Entities :
                     RecordResult(p, s, es) \/ PassUnfiled(p, s, es) \/ PassUnread(p, s, es)
               \/ \E p \in Procs : Verdict(p) \/ Crash(p)
               \/ \E s \in Slots : GiveUp(s)
               \/ \E n \in Users, x \in RuleIds : Decide(n, x)
               \/ Tick
      <3>1. ASSUME NEW p \in Procs, Verdict(p)
            PROVE  answer' = NoAnswer \/ answer'.stage = "post"
        <4>1. \/ answer' = NoAnswer
              \/ \E kind, n, x : Answers(kind, "post", n, x)
          BY <3>1 DEF Verdict
        <4> QED
          BY <4>1 DEF Answers
      <3>2. ASSUME NEW p \in Procs, NEW s \in Slots, NEW n \in Users, NEW t \in Tools,
                   AskHook(p, s, n, t) \/ Skip(p, s, n, t)
            PROVE  answer' = NoAnswer \/ answer'.stage = "before"
        <4>1. \/ Admit(p, s, n, t)
              \/ \E x : Answers("refused", "before", n, x)
          BY <3>2 DEF AskHook, Skip
        <4> QED
          BY <4>1 DEF Admit, Answers
      <3>3. ASSUME NEW p \in Procs, NEW s \in Slots, NEW es \in SUBSET Entities,
                   PassUnfiled(p, s, es) \/ PassUnread(p, s, es)
            PROVE  answer'.stage = "post"
        BY <3>3 DEF PassUnfiled, PassUnread, Passed, Answers
      <3>4. CASE \/ \E p \in Procs, s \in Slots, es \in SUBSET Entities : RecordResult(p, s, es)
                 \/ \E p \in Procs : Crash(p)
                 \/ \E s \in Slots : GiveUp(s)
                 \/ \E n \in Users, x \in RuleIds : Decide(n, x)
                 \/ Tick
        BY <3>4 DEF RecordResult, Crash, GiveUp, Decide, Tick, NoAnswer
      <3> QED
        BY <2>3, <3>1, <3>2, <3>3, <3>4 DEF NoAnswer
    <2> QED
      BY <2>1, <2>2, <2>3 DEF Next, Serves, Outside
  <1> QED
    BY <1>1, TypeCorrect, PTL DEF Spec, ApprovedGoesThrough
-----------------------------------------------------------------------------
(* The fallback to the last tool.                                            *)

(* A call that is fresh is in progress, and what its process has noted last  *)
(* of its user and backend is its tool.                                      *)
FreshNoted ==
    \A s \in fresh :
        /\ call[s] # Idle
        /\ KindOf[call[s].proc] = "agentgateway" =>
              last[call[s].proc][call[s].user][BackendOf[call[s].tool]] = call[s].tool

(* A request that is noted, and makes stale what it overtakes.               *)
LEMMA NotedFresh ==
  ASSUME TypeOK, FreshNoted, NEW p \in Procs, NEW s \in Slots, NEW u \in Users, NEW t \in Tools,
         Free(s), Noted(p, u, t), Stale(p, s, u, t), call' = call \/ Admit(p, s, u, t)
  PROVE  FreshNoted'
  <1>1. call[s] = Idle /\ s \notin fresh
    BY DEF Free, FreshNoted
  <1>2. BackendOf[t] \in Services /\ \A x \in Tools : BackendOf[x] \in Services
    BY DEF Services
  <1>3. /\ \A x \in Slots \ {s} : call'[x] = call[x]
        /\ call'[s] # Idle => call'[s] = [pc |-> "upstream", user |-> u, tool |-> t, proc |-> p]
    BY <1>1 DEF Admit, TypeOK
  <1>4. \A q \in Procs, n \in Users, b \in Services :
          last'[q][n][b] = IF KindOf[p] = "agentgateway" /\ q = p /\ n = u /\ b = BackendOf[t]
                           THEN t ELSE last[q][n][b]
    BY <1>2 DEF Noted, TypeOK
  <1> HIDE DEF Services
  <1> SUFFICES ASSUME NEW x \in fresh'
               PROVE  /\ call'[x] # Idle
                      /\ KindOf[call'[x].proc] = "agentgateway" =>
                           last'[call'[x].proc][call'[x].user][BackendOf[call'[x].tool]] = call'[x].tool
    BY DEF FreshNoted
  <1>5. CASE x \in fresh /\ x \notin Overtaken(p, u, t)
    <2>1. x \in Slots /\ x # s /\ call[x] # Idle /\ call'[x] = call[x]
      BY <1>1, <1>3, <1>5 DEF FreshNoted, TypeOK
    <2>2. call[x].user \in Users /\ call[x].tool \in Tools /\ call[x].proc \in Procs
      BY <2>1, BusyCall
    <2>3. ~ (call[x].proc = p /\ call[x].user = u /\ BackendOf[call[x].tool] = BackendOf[t])
      BY <1>5, <2>1 DEF Overtaken
    <2> QED
      BY <1>2, <1>4, <1>5, <2>1, <2>2, <2>3 DEF FreshNoted
  <1>6. CASE x = s /\ call'[s] # Idle
    <2>1. call'[s].proc = p /\ call'[s].user = u /\ call'[s].tool = t
      BY <1>3, <1>6
    <2> QED
      BY <1>2, <1>4, <1>6, <2>1
  <1> QED
    BY <1>5, <1>6 DEF Stale

(* A step that notes nothing makes no call fresh, and leaves the fresh ones, *)
(* but perhaps those of a process that forgets what it noted.                *)
LEMMA FreshKept ==
  ASSUME FreshNoted, fresh' \subseteq fresh,
         \A s \in fresh' : call'[s] = call[s] /\ last'[call[s].proc] = last[call[s].proc]
  PROVE  FreshNoted'
  BY DEF FreshNoted

(* A call that is not noted takes a slot that was free, so no fresh one.     *)
LEMMA UnnotedFresh ==
  ASSUME TypeOK, FreshNoted, NEW p \in Procs, NEW s \in Slots, NEW u \in Users, NEW t \in Tools,
         Free(s), call' = call \/ Admit(p, s, u, t), UNCHANGED <<last, fresh>>
  PROVE  FreshNoted'
  <1>1. \A x \in fresh : x \in Slots /\ x # s
    BY DEF Free, FreshNoted, TypeOK
  <1>2. \A x \in fresh : call'[x] = call[x]
    BY <1>1 DEF Admit, TypeOK
  <1> QED
    BY <1>2, FreshKept

(* Ending a call ends its being fresh.                                       *)
LEMMA EndedFresh ==
  ASSUME TypeOK, FreshNoted, NEW s, call' = [call EXCEPT ![s] = Idle], fresh' = fresh \ {s},
         UNCHANGED last
  PROVE  FreshNoted'
  <1>1. \A x \in fresh' : x \in Slots /\ x # s /\ x \in fresh
    BY DEF TypeOK
  <1> QED
    BY <1>1, FreshKept DEF TypeOK

(* A fresh call is always noted, whatever the gateways send.                 *)
LEMMA FreshStaysNoted == Spec => []FreshNoted
  <1>1. Init => FreshNoted
    BY DEF Init, FreshNoted
  <1>2. TypeOK /\ FreshNoted /\ [Next]_vars => FreshNoted'
    <2> SUFFICES ASSUME TypeOK, FreshNoted, [Next]_vars PROVE FreshNoted'
      OBVIOUS
    <2>1. ASSUME NEW p \in Procs, NEW s \in Slots, NEW u \in Users, NEW t \in Tools, NEW a \in Args,
                 AskBarred(p, s, u, t, a) \/ Ask(p, s, u, t, a)
          PROVE  FreshNoted'
      <3>1. /\ Free(s) /\ Noted(p, u, t) /\ Stale(p, s, u, t)
            /\ call' = call \/ Admit(p, s, u, t)
        BY <2>1 DEF AskBarred, Ask
      <3> QED
        BY <3>1, NotedFresh
    <2>2. ASSUME NEW p \in Procs, NEW s \in Slots, NEW u \in Users, NEW t \in Tools,
                 AskHook(p, s, u, t) \/ Skip(p, s, u, t)
          PROVE  FreshNoted'
      <3>1. Free(s) /\ (call' = call \/ Admit(p, s, u, t)) /\ UNCHANGED <<last, fresh>>
        BY <2>2 DEF AskHook, Skip
      <3> QED
        BY <3>1, UnnotedFresh
    <2>3. ASSUME NEW p \in Procs, NEW s \in Slots, NEW es \in SUBSET Entities,
                 PassUnfiled(p, s, es) \/ PassUnread(p, s, es)
          PROVE  FreshNoted'
      BY <2>3, EndedFresh DEF PassUnfiled, PassUnread, Passed
    <2>4. ASSUME NEW p \in Procs, Verdict(p)
          PROVE  FreshNoted'
      <3>1. /\ UNCHANGED last
            /\ \/ UNCHANGED <<call, fresh>>
               \/ call' = [call EXCEPT ![job[p].slot] = Idle] /\ fresh' = fresh \ {job[p].slot}
        BY <2>4 DEF Verdict
      <3> QED
        BY <3>1, EndedFresh, FreshKept
    <2>5. ASSUME NEW p \in Procs, Crash(p)
          PROVE  FreshNoted'
      <3>1. /\ fresh' \subseteq fresh /\ call' = call
            /\ \A s \in fresh' : call[s].proc # p
            /\ \A q \in Procs \ {p} : last'[q] = last[q]
        BY <2>5 DEF Crash, TypeOK
      <3>2. \A s \in fresh' : call[s].proc \in Procs
        BY <3>1, BusyCall DEF FreshNoted, TypeOK
      <3> QED
        BY <3>1, <3>2, FreshKept
    <2>6. ASSUME NEW s \in Slots, GiveUp(s)
          PROVE  FreshNoted'
      BY <2>6, EndedFresh DEF GiveUp
    <2>7. CASE \/ \E p \in Procs, s \in Slots, es \in SUBSET Entities : RecordResult(p, s, es)
               \/ \E u \in Users, r \in RuleIds : Decide(u, r)
               \/ Tick \/ UNCHANGED vars
      <3>1. UNCHANGED <<call, last, fresh>>
        BY <2>7 DEF RecordResult, Decide, Tick, vars
      <3> QED
        BY <3>1, FreshKept
    <2> QED
      BY <2>1, <2>2, <2>3, <2>4, <2>5, <2>6, <2>7 DEF Next, Serves, Outside
  <1> QED
    BY <1>1, <1>2, TypeCorrect, PTL DEF Spec

(* "If it is absent the adapter falls back to the last tool that person      *)
(* called on that backend" (extmcp/__init__.py:25): for any number of        *)
(* processors and calls, the answer to a call that nothing overtook is filed *)
(* under the tool of that call by the process that was asked about it.       *)
THEOREM FallbackIsRight == Spec => FallbackFindsTool
  <1>1. TypeOK /\ FreshNoted /\ [Next]_vars =>
          \A p \in Procs, s \in fresh :
            call[s].proc = p =>
              /\ (job[p] = NoJob /\ job'[p] # NoJob /\ job'[p].slot = s) => job'[p].tool = call[s].tool
              /\ \A es \in SUBSET Entities : ~PassUnfiled(p, s, es)
    <2> SUFFICES ASSUME TypeOK, FreshNoted, [Next]_vars, NEW p \in Procs, NEW s \in fresh,
                        call[s].proc = p
                 PROVE  /\ (job[p] = NoJob /\ job'[p] # NoJob /\ job'[p].slot = s) =>
                               job'[p].tool = call[s].tool
                        /\ \A es \in SUBSET Entities : ~PassUnfiled(p, s, es)
      OBVIOUS
    <2>1. s \in Slots /\ call[s] # Idle
      BY DEF FreshNoted, TypeOK
    <2>2. ToolOfResult(p, call[s]) = call[s].tool /\ call[s].tool # NoTool
      BY <2>1, BusyCall, GatewaysAssumption DEF FreshNoted, ToolOfResult
    <2>3. \A es \in SUBSET Entities : ~PassUnfiled(p, s, es)
      BY <2>2 DEF PassUnfiled
    <2>4. ASSUME job[p] = NoJob, job'[p] # NoJob, job'[p].slot = s
          PROVE  job'[p].tool = call[s].tool
      <3>1. PICK q \in Procs, x \in Slots, es \in SUBSET Entities : RecordResult(q, x, es)
        <4>1. job' # job
          BY <2>4
        <4>2. ASSUME NEW q \in Procs, Verdict(q) \/ Crash(q)
              PROVE  FALSE
          BY <2>4, <4>2 DEF Verdict, Crash, TypeOK
        <4>3. ASSUME NEW q \in Procs, NEW x \in Slots, NEW u \in Users, NEW t \in Tools,
                     \/ \E a \in Args : AskBarred(q, x, u, t, a) \/ Ask(q, x, u, t, a)
                     \/ AskHook(q, x, u, t) \/ Skip(q, x, u, t)
              PROVE  FALSE
          BY <4>1, <4>3 DEF AskBarred, Ask, AskHook, Skip
        <4>4. ASSUME \/ \E q \in Procs, x \in Slots, es \in SUBSET Entities :
                           PassUnfiled(q, x, es) \/ PassUnread(q, x, es)
                     \/ \E x \in Slots : GiveUp(x)
                     \/ \E u \in Users, r \in RuleIds : Decide(u, r)
                     \/ Tick \/ UNCHANGED vars
              PROVE  FALSE
          BY <4>1, <4>4 DEF PassUnfiled, PassUnread, Passed, GiveUp, Decide, Tick, vars
        <4> QED
          BY <4>2, <4>3, <4>4 DEF Next, Serves, Outside
      <3>2. /\ job' = [job EXCEPT ![q] = [pc |-> "recorded", slot |-> x,
                                          tool |-> ToolOfResult(q, call[x]), es |-> es]]
            /\ job \in [Procs -> JobType \cup {NoJob}]
        BY <3>1 DEF RecordResult, TypeOK
      <3>3. q = p
        BY <2>4, <3>2
      <3>4. x = s /\ job'[p].tool = ToolOfResult(p, call[s])
        BY <2>4, <3>2, <3>3
      <3> QED
        BY <2>2, <3>4
    <2> QED
      BY <2>3, <2>4
  <1> QED
    BY <1>1, TypeCorrect, FreshStaysNoted, PTL DEF Spec, FallbackFindsTool
=============================================================================
