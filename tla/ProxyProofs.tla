---------------------------- MODULE ProxyProofs ----------------------------
(* The gateway keeps the code of conduct, for any users, tools, policy,      *)
(* number of concurrent calls and lifetimes.                                 *)
EXTENDS Proxy, HoldingsProofs

(* What the lemmas about holdings ask of the state.                          *)
LEMMA TypeHolds == (TypeOK => HoldingsType) /\ (TypeOK' => HoldingsType')
  BY DEF TypeOK, HoldingsType

(* Ending a call with an answer of a known kind.                             *)
LEMMA EndsType ==
  ASSUME TypeOK, NEW s \in Slots, NEW c \in CallType, NEW stage \in {"pre", "post"},
         NEW kind \in {"released", "refused", "held", "approved", "input", "failed"},
         NEW r \in RuleIds \cup {NoRule}, Ends(s, c, stage, kind, r)
  PROVE  /\ call' \in [Slots -> CallType \cup {Idle}]
         /\ answer' \in AnswerType \cup {NoAnswer}
  BY DEF Ends, Answered, TypeOK, CallType, AnswerType

(* Holding a call leaves requests, slots and answer well-formed.             *)
LEMMA HoldType ==
  ASSUME TypeOK, NEW s \in Slots, NEW c \in CallType, NEW stage \in {"pre", "post"},
         NEW r \in RuleIds \cup {NoRule}, Hold(s, c, stage, r)
  PROVE  /\ requests' \in [Users -> [RuleIds -> RequestType]]
         /\ call' \in [Slots -> CallType \cup {Idle}]
         /\ answer' \in AnswerType \cup {NoAnswer}
  <1>1. c.user \in Users
    BY DEF CallType
  <1>2. requests' \in [Users -> [RuleIds -> RequestType]]
    BY <1>1, RequestedType DEF Hold, TypeOK
  <1>3. CASE HoldWait = 0
    <2>1. Ends(s, c, stage, "held", r)
      BY <1>3 DEF Hold
    <2> QED
      BY <1>2, <2>1, EndsType
  <1>4. CASE HoldWait # 0
    <2>1. HoldWait \in Nat
      BY ProxyAssumption
    <2>2. [c EXCEPT !.pc = "waiting", !.stage = stage, !.rule = r,
                    !.left = HoldWait, !.asleep = TRUE] \in CallType
      BY <2>1 DEF CallType
    <2> QED
      BY <1>2, <1>4, <2>2 DEF Hold, TypeOK
  <1> QED
    BY <1>3, <1>4

(* A call fresh from the client is a well-formed call.                       *)
LEMMA StartedType ==
  ASSUME NEW u \in Users, NEW t \in Tools, NEW a \in Args
  PROVE  Started(u, t, a) \in CallType
  BY DEF Started, CallType

(* A slot that is not idle holds a call.                                     *)
LEMMA BusySlot ==
  ASSUME TypeOK, NEW s \in Slots, call[s].pc # "idle"
  PROVE  call[s] \in CallType /\ call[s].rule \in RuleIds \cup {NoRule}
  BY DEF TypeOK, Idle, CallType

-----------------------------------------------------------------------------
(* Type correctness, action by action.                                       *)

(* The rules may refuse, hold or send a call: the state stays well-formed.   *)
LEMMA ScreenType ==
  ASSUME TypeOK, NEW s \in Slots, NEW u \in Users, NEW t \in Tools, NEW a \in Args,
         Screen(s, u, t, a)
  PROVE  TypeOK'
  <1> DEFINE st   == Synced(store, u)
             argd == CheckArgs(st, u, t, a)
             pre  == PreCall(st, u, DomainOf[t], t \in WriteTools)
             v    == IF argd.allow THEN pre ELSE argd
             c    == Started(u, t, a)
  <1>1. argd \in Decision /\ pre \in Decision
    BY CheckArgsType, PreCallType
  <1>2. st \in StoreType /\ store \in StoreType
    BY TypeHolds, SyncedType DEF TypeOK
  <1>3. c \in CallType
    BY StartedType
  <1>4. /\ store' = st /\ UNCHANGED <<packs, date, flags, held>>
        /\ RefuseBefore(s, c, v) \/ HoldBefore(s, c, v) \/ SendUpstream(s, c, argd, pre)
    BY DEF Screen
  <1> HIDE DEF st, argd, pre, c
  <1>5. v.rule \in RuleIds \cup {NoRule}
    BY <1>1 DEF Decision
  <1> HIDE DEF v
  <1>6. /\ requests' \in [Users -> [RuleIds -> RequestType]]
        /\ call' \in [Slots -> CallType \cup {Idle}]
        /\ answer' \in AnswerType \cup {NoAnswer}
    <2>1. CASE RefuseBefore(s, c, v)
      <3>1. Ends(s, c, "pre", "refused", v.rule) /\ requests' = requests
        BY <2>1 DEF RefuseBefore
      <3> QED
        BY <3>1, <1>3, <1>5, EndsType DEF TypeOK
    <2>2. CASE HoldBefore(s, c, v)
      BY <2>2, <1>3, <1>5, HoldType DEF HoldBefore
    <2>3. CASE SendUpstream(s, c, argd, pre)
      <3>1. [c EXCEPT !.purpose = pre.purpose] \in CallType
        BY <1>1, <1>3 DEF CallType, Decision
      <3> QED
        BY <2>3, <3>1 DEF SendUpstream, TypeOK
    <2> QED
      BY <1>4, <2>1, <2>2, <2>3
  <1> QED
    BY <1>2, <1>4, <1>6 DEF TypeOK

(* A result, released, refused or held, leaves the state well-formed.        *)
LEMMA ResultType ==
  ASSUME TypeOK, NEW s \in Slots, NEW es \in SUBSET Entities, Result(s, es)
  PROVE  TypeOK'
  <1> DEFINE c  == call[s]
             d  == DomainOf[c.tool]
             st == Record(Backend, store, c.user, d, es, Ttl)
             v  == PostCall(st, c.user, d, es)
  <1>1. c \in CallType /\ c.user \in Users /\ d \in Domains
    <2>1. c \in CallType
      BY BusySlot DEF Result
    <2> QED
      BY <2>1, ProxyAssumption DEF CallType
  <1>2. st \in StoreType
    BY <1>1, RecordType, TtlAssumption DEF TypeOK
  <1>3. v \in Decision
    BY PostCallType
  <1>4. /\ store' = st /\ UNCHANGED <<packs, date, flags>>
        /\ Release(s, c, es, v) \/ RefuseAfter(s, c, v) \/ HoldAfter(s, c, v)
    BY DEF Result
  <1>5. Coc!Received(held, c.user, d, es) \in [Users -> [Domains -> [Marks -> 0..Ttl]]]
    <2>1. held \in [Users -> [Domains -> [Marks -> 0..Ttl]]]
      BY DEF TypeOK
    <2> HIDE DEF c, d
    <2> QED
      BY <1>1, <2>1, ReceivedType
  <1> HIDE DEF st
  <1>6. v.rule \in RuleIds \cup {NoRule}
    BY <1>3 DEF Decision
  <1> HIDE DEF v, c
  <1>7. /\ requests' \in [Users -> [RuleIds -> RequestType]]
        /\ call' \in [Slots -> CallType \cup {Idle}]
        /\ answer' \in AnswerType \cup {NoAnswer}
        /\ held' \in [Users -> [Domains -> [Marks -> 0..Ttl]]]
    <2>1. CASE Release(s, c, es, v)
      <3>1. /\ Ends(s, c, "post", "released", NoRule) /\ requests' = requests
            /\ held' = Coc!Received(held, c.user, d, es)
        BY <2>1 DEF Release
      <3> QED
        BY <1>1, <1>5, <3>1, EndsType DEF TypeOK
    <2>2. CASE RefuseAfter(s, c, v)
      <3>1. /\ Ends(s, c, "post", "refused", v.rule)
            /\ requests' = requests /\ held' = held
        BY <2>2 DEF RefuseAfter
      <3> QED
        BY <1>1, <1>6, <3>1, EndsType DEF TypeOK
    <2>3. CASE HoldAfter(s, c, v)
      <3>1. Hold(s, c, "post", v.rule) /\ held' = held
        BY <2>3 DEF HoldAfter
      <3> QED
        BY <1>1, <1>6, <3>1, HoldType DEF TypeOK
    <2> QED
      BY <1>4, <2>1, <2>2, <2>3
  <1> QED
    BY <1>2, <1>4, <1>7 DEF TypeOK

(* So does a hold that wakes up.                                             *)
LEMMA WakeType ==
  ASSUME TypeOK, NEW s \in Slots, Wake(s)
  PROVE  TypeOK'
  <1>1. /\ call[s] \in CallType /\ call[s].rule \in RuleIds \cup {NoRule}
        /\ call[s].user \in Users /\ call[s].stage \in {"pre", "post"}
    BY BusySlot DEF Wake, WakeApproved, WakeUndecided, Wakes, CallType
  <1>2. CASE WakeApproved(s)
    <2>1. Ends(s, call[s], call[s].stage, "approved", call[s].rule)
      BY <1>2 DEF WakeApproved
    <2>2. store' \in StoreType
      BY <1>1, <1>2, TypeHolds, SyncedType DEF WakeApproved, TypeOK
    <2>3. UNCHANGED <<packs, date, requests, flags, held>>
      BY <1>2 DEF WakeApproved
    <2> QED
      BY <1>1, <2>1, <2>2, <2>3, EndsType DEF TypeOK
  <1>3. CASE WakeUndecided(s)
    <2>1. UNCHANGED <<packs, date, store, requests, flags, held>>
      BY <1>3 DEF WakeUndecided
    <2>2. CASE call[s].left > 0
      <3>1. [call[s] EXCEPT !.asleep = TRUE] \in CallType
        BY <1>1 DEF CallType
      <3> QED
        BY <1>3, <2>1, <2>2, <3>1 DEF WakeUndecided, TypeOK
    <2>3. CASE ~ (call[s].left > 0)
      <3>1. Ends(s, call[s], call[s].stage, "held", call[s].rule)
        BY <1>3, <2>3 DEF WakeUndecided
      <3> QED
        BY <1>1, <2>1, <3>1, EndsType DEF TypeOK
    <2> QED
      BY <2>2, <2>3
  <1> QED
    BY <1>2, <1>3 DEF Wake

(* And a second going by.                                                    *)
LEMMA TickType ==
  ASSUME TypeOK, Tick
  PROVE  TypeOK'
  <1>1. store' \in StoreType
    BY AgeType DEF Tick, TypeOK
  <1>2. held' \in [Users -> [Domains -> [Marks -> 0..Ttl]]]
    BY TypeHolds, LapsedType DEF Tick
  <1>3. requests' \in [Users -> [RuleIds -> RequestType]]
    BY TypeHolds, AgedRequestsType DEF Tick
  <1>4. call' \in [Slots -> CallType \cup {Idle}]
    <2>1. \A s \in Slots : call[s].pc = "waiting" =>
            [call[s] EXCEPT !.left = Minus1(@), !.asleep = FALSE] \in CallType
      BY BusySlot, Minus1Type DEF CallType
    <2> QED
      BY <2>1 DEF Tick, TypeOK
  <1>5. date' \in Nat
    <2>1. date' = date + 1 \/ date' = date
      BY DEF Tick
    <2> QED
      BY <2>1 DEF TypeOK
  <1> QED
    BY <1>1, <1>2, <1>3, <1>4, <1>5 DEF Tick, TypeOK

(* Whatever happens, in whatever order, the gateway's state is well-formed.  *)
THEOREM TypeCorrect == Spec => []TypeOK
  <1>1. Init => TypeOK
    <2>1. EmptyStore.ents \in [Users -> [Domains -> [Marks -> 0..Ttl]]]
      BY TtlAssumption DEF EmptyStore
    <2>2. [status |-> "none", left |-> 0] \in RequestType
      BY DEF RequestType
    <2> QED
      BY <2>1, <2>2, EmptyStoreType DEF Init, TypeOK, NoRequests
  <1>2. TypeOK /\ [Next]_vars => TypeOK'
    <2> SUFFICES ASSUME TypeOK, [Next]_vars PROVE TypeOK'
      OBVIOUS
    <2>1. ASSUME NEW s \in Slots, NEW u \in Users, NEW t \in Tools, NEW a \in Args,
                 RefuseEarly(s, u, t, a)
          PROVE  TypeOK'
      <3>1. /\ Ends(s, Started(u, t, a), "pre", "refused", NoRule)
            /\ UNCHANGED <<packs, date, store, requests, flags, held>>
        BY <2>1 DEF RefuseEarly
      <3> QED
        BY <3>1, StartedType, EndsType DEF TypeOK
    <2>2. ASSUME NEW s \in Slots, NEW u \in Users, NEW t \in Tools, NEW a \in Args,
                 Screen(s, u, t, a)
          PROVE  TypeOK'
      BY <2>2, ScreenType
    <2>3. ASSUME NEW s \in Slots, NEW es \in SUBSET Entities, Result(s, es)
          PROVE  TypeOK'
      BY <2>3, ResultType
    <2>4. ASSUME NEW s \in Slots, NoResult(s)
          PROVE  TypeOK'
      <3>1. UNCHANGED <<packs, date, store, requests, flags, held>>
        BY <2>4 DEF NoResult
      <3>2. \/ Ends(s, call[s], "pre", "input", NoRule)
            \/ Ends(s, call[s], "pre", "refused", NoRule)
            \/ Ends(s, call[s], "post", "failed", NoRule)
        BY <2>4 DEF NoResult
      <3>3. call[s] \in CallType
        BY <2>4, BusySlot DEF NoResult
      <3> QED
        BY <3>1, <3>2, <3>3, EndsType DEF TypeOK
    <2>5. ASSUME NEW s \in Slots, Wake(s)
          PROVE  TypeOK'
      BY <2>5, WakeType
    <2>6. ASSUME NEW u \in Users, NEW r \in RuleIds, Decide(u, r)
          PROVE  TypeOK'
      <3>1. requests' \in [Users -> [RuleIds -> RequestType]]
        <4>1. HoldingsType /\ ApprovalTtls \subseteq Nat
          BY TypeHolds, ProxyAssumption
        <4>2. \/ requests' = [requests EXCEPT ![u][r].status = "denied"]
              \/ \E ttl \in ApprovalTtls :
                    requests' = [requests EXCEPT ![u][r] = [status |-> "approved", left |-> ttl]]
          BY <2>6 DEF Decide
        <4>3. /\ [requests EXCEPT ![u][r].status = "denied"] \in [Users -> [RuleIds -> RequestType]]
              /\ \A ttl \in ApprovalTtls :
                    [requests EXCEPT ![u][r] = [status |-> "approved", left |-> ttl]]
                      \in [Users -> [RuleIds -> RequestType]]
          BY <4>1, DecidedType
        <4> QED
          BY <4>2, <4>3, Zenon
      <3> QED
        BY <2>6, <3>1 DEF Decide, TypeOK
    <2>7. ASSUME NEW u \in Users, NEW r \in RuleIds, NEW ttl \in GrantTtls,
                 GrantPurpose(u, r, ttl)
          PROVE  TypeOK'
      <3>1. ttl \in Nat
        BY ProxyAssumption
      <3> QED
        BY <2>7, <3>1, GrantType DEF GrantPurpose, TypeOK
    <2>8. ASSUME NEW p \in PackToggles, SetPack(p)
          PROVE  TypeOK'
      <3>1. p \in Packs
        BY ProxyAssumption
      <3> QED
        BY <2>8, <3>1 DEF SetPack, TypeOK
    <2>9. ASSUME NEW t \in Unpinned, ListTools(t)
          PROVE  TypeOK'
      <3>1. t \in Tools
        BY ProxyAssumption
      <3> QED
        BY <2>9, <3>1 DEF ListTools, TypeOK
    <2>10. CASE Restart
      <3>1. Unpinned \in SUBSET Tools
        BY ProxyAssumption
      <3> QED
        BY <2>10, <3>1, EmptyStoreType DEF Restart, TypeOK
    <2>11. CASE Tick
      BY <2>11, TickType
    <2>12. CASE UNCHANGED vars
      BY <2>12 DEF vars, TypeOK
    <2> QED
      BY <2>1, <2>2, <2>3, <2>4, <2>5, <2>6, <2>7, <2>8, <2>9, <2>10, <2>11, <2>12 DEF Next
  <1> QED
    BY <1>1, <1>2, PTL DEF Spec

-----------------------------------------------------------------------------
(* The store never knows less than the users do.                             *)

(* A result is recorded first, and then handed over or not.                  *)
LEMMA ResultCovers ==
  ASSUME TypeOK, StoreCoversHeld, NEW s \in Slots, NEW es \in SUBSET Entities, Result(s, es)
  PROVE  StoreCoversHeld'
  <1> DEFINE c == call[s]
             d == DomainOf[c.tool]
             u == c.user
  <1>1. u \in Users /\ d \in Domains
    <2>1. c \in CallType
      BY BusySlot DEF Result
    <2> QED
      BY <2>1, ProxyAssumption DEF CallType
  <1>2. /\ store' = Record(Backend, store, u, d, es, Ttl)
        /\ held' = Coc!Received(held, u, d, es) \/ held' = held
    BY DEF Result, Release, RefuseAfter, HoldAfter
  <1> HIDE DEF c, d, u
  <1> QED
    BY <1>1, <1>2, TypeHolds, RecordCovers

(* A restart loses what a MemoryStore remembers, so this part of the promise *)
(* is Redis's alone once processes are replaced.                             *)
Persistent == Backend = "redis" \/ ~ Restarts

(* For any policy and any number of calls in flight, the engine's store      *)
(* never forgets what a user has been handed before the user must.           *)
THEOREM StoreCovers ==
  ASSUME Persistent
  PROVE  Spec => []StoreCoversHeld
  <1>1. Init => StoreCoversHeld
    BY DEF Init, StoreCoversHeld, Covers, EmptyStore, Marks
  <1>2. TypeOK /\ StoreCoversHeld /\ [Next]_vars => StoreCoversHeld'
    <2> SUFFICES ASSUME TypeOK, StoreCoversHeld, [Next]_vars PROVE StoreCoversHeld'
      OBVIOUS
    <2>0. store \in StoreType
      BY DEF TypeOK
    <2>1. ASSUME NEW s \in Slots, NEW u \in Users, NEW t \in Tools, NEW a \in Args,
                 RefuseEarly(s, u, t, a) \/ Screen(s, u, t, a)
          PROVE  StoreCoversHeld'
      <3>1. held' = held /\ (store' = store \/ store' = Synced(store, u))
        BY <2>1 DEF RefuseEarly, Screen
      <3> QED
        BY <2>0, <3>1, TypeHolds, SyncedType, CoverKept
    <2>2. ASSUME NEW s \in Slots, NEW es \in SUBSET Entities, Result(s, es)
          PROVE  StoreCoversHeld'
      BY <2>2, ResultCovers
    <2>3. ASSUME NEW s \in Slots, NoResult(s) \/ Wake(s)
          PROVE  StoreCoversHeld'
      <3>1. held' = held /\ (store' = store \/ (Wakes(s) /\ store' = Synced(store, call[s].user)))
        BY <2>3 DEF NoResult, Wake, WakeApproved, WakeUndecided
      <3>2. Wakes(s) => call[s].user \in Users
        BY BusySlot DEF Wakes, CallType
      <3> QED
        BY <2>0, <3>1, <3>2, TypeHolds, SyncedType, CoverKept
    <2>4. ASSUME NEW u \in Users, NEW r \in RuleIds, NEW ttl \in GrantTtls,
                 GrantPurpose(u, r, ttl)
          PROVE  StoreCoversHeld'
      <3>1. held' = held /\ store'.ents = store.ents /\ store'.seen = store.seen
        BY <2>0, <2>4 DEF GrantPurpose, Grant, StoreType
      <3> QED
        BY <3>1, CoverKept
    <2>5. CASE Restart
      BY <2>5, CoverKept DEF Restart, Persistent
    <2>6. CASE Tick
      BY <2>6, TypeHolds, AgeCovers DEF Tick
    <2>7. CASE \/ \E u \in Users, r \in RuleIds : Decide(u, r)
               \/ \E p \in PackToggles : SetPack(p)
               \/ \E t \in Unpinned : ListTools(t)
               \/ UNCHANGED vars
      <3>1. held' = held /\ store' = store
        BY <2>7 DEF Decide, SetPack, ListTools, vars
      <3> QED
        BY <3>1, CoverKept
    <2> QED
      BY <2>1, <2>2, <2>3, <2>4, <2>5, <2>6, <2>7 DEF Next
  <1> QED
    BY <1>1, <1>2, TypeCorrect, PTL DEF Spec

-----------------------------------------------------------------------------
(* The gateway implements the code of conduct.                               *)

(* A result handed over is a step of the code of conduct.                    *)
LEMMA ReleaseIsGiven ==
  ASSUME TypeOK, TypeOK', StoreCoversHeld',
         Backend = "redis" \/ JoinsOverlap,
         NEW s \in Slots, NEW es \in SUBSET Entities, Result(s, es)
  PROVE  held' = held \/ Coc!CocNext
  <1> DEFINE c == call[s]
             d == DomainOf[c.tool]
             u == c.user
             v == PostCall(store', u, d, es)
  <1>1. u \in Users /\ d \in Domains
    <2>1. c \in CallType
      BY BusySlot DEF Result
    <2> QED
      BY <2>1, ProxyAssumption DEF CallType
  <1>2. store'.grants = store.grants
    BY DEF Result, Record, TypeOK, StoreType
  <1>3. held' = held \/ (v.allow /\ held' = Coc!Received(held, u, d, es))
    BY DEF Result, Release, RefuseAfter, HoldAfter
  <1>4. ASSUME v.allow, held' = Coc!Received(held, u, d, es)
        PROVE  Coc!Give(u, d, es)
    <2>1. Covers(store', held', u)
      BY <1>1 DEF StoreCoversHeld
    <2> QED
      BY <1>1, <1>2, <1>4, <2>1, TypeHolds, ReleaseConforms DEF Coc!Give
  <1> QED
    BY <1>1, <1>3, <1>4 DEF Coc!CocNext

(* The gateway implements its code of conduct: over any interleaving of      *)
(* calls, approvals, waivers, pack switches and restarts, a user's holdings  *)
(* change only by time, or by an answer that breaks no block in force.       *)
THEOREM ImplementsCode ==
  ASSUME Persistent, Backend = "redis" \/ JoinsOverlap
  PROVE  Spec => HoldsToCode
  <1>1. Init => Coc!CocInit
    BY DEF Init, Coc!CocInit, EmptyStore, Coc!EmptyStore, Marks, Coc!Marks
  <1>2. TypeOK /\ TypeOK' /\ StoreCoversHeld' /\ [Next]_vars => [Coc!CocNext]_held
    <2> SUFFICES ASSUME TypeOK, TypeOK', StoreCoversHeld', [Next]_vars
                 PROVE  held' = held \/ Coc!CocNext
      OBVIOUS
    <2>1. ASSUME NEW s \in Slots, NEW es \in SUBSET Entities, Result(s, es)
          PROVE  held' = held \/ Coc!CocNext
      BY <2>1, ReleaseIsGiven
    <2>2. CASE Tick
      BY <2>2 DEF Tick, Coc!CocNext, Coc!Forget
    <2>3. CASE \/ \E s \in Slots, u \in Users, t \in Tools, a \in Args :
                      RefuseEarly(s, u, t, a) \/ Screen(s, u, t, a)
               \/ \E s \in Slots : NoResult(s) \/ Wake(s)
               \/ \E u \in Users, r \in RuleIds : Decide(u, r)
               \/ \E u \in Users, r \in RuleIds, ttl \in GrantTtls : GrantPurpose(u, r, ttl)
               \/ \E p \in PackToggles : SetPack(p)
               \/ \E t \in Unpinned : ListTools(t)
               \/ Restart
               \/ UNCHANGED vars
      BY <2>3 DEF RefuseEarly, Screen, NoResult, Wake, WakeApproved, WakeUndecided,
                  Decide, GrantPurpose, SetPack, ListTools, Restart, vars
    <2> QED
      BY <2>1, <2>2, <2>3 DEF Next
  <1> QED
    BY <1>1, <1>2, TypeCorrect, StoreCovers, PTL DEF Spec, HoldsToCode, Coc!CocSpec

-----------------------------------------------------------------------------
(* What is sent upstream, and what is stopped before it.                     *)

(* Only the rules send a call upstream: they allow it, over a store that     *)
(* remembers what it did and has the approvals of the caller as grants.      *)
LEMMA SentWasAllowed ==
  ASSUME TypeOK, [Next]_vars, NEW s \in Slots, Sends(s)
  PROVE  \E u \in Users, t \in Tools, a \in Args :
           /\ call'[s].user = u /\ call'[s].tool = t
           /\ store' = Synced(store, u)
           /\ PreCall(store', u, DomainOf[t], t \in WriteTools).allow
  <1>1. call[s].pc = "idle" /\ call'[s].pc = "upstream" /\ call \in [Slots -> CallType \cup {Idle}]
    BY DEF Sends, Idle, TypeOK
  <1>2. ASSUME NEW n \in Slots, NEW u \in Users, NEW t \in Tools, NEW a \in Args,
               Screen(n, u, t, a)
        PROVE  /\ call'[s].user = u /\ call'[s].tool = t
               /\ store' = Synced(store, u)
               /\ PreCall(store', u, DomainOf[t], t \in WriteTools).allow
    <2> DEFINE argd == CheckArgs(store', u, t, a)
               pre  == PreCall(store', u, DomainOf[t], t \in WriteTools)
               v    == IF argd.allow THEN pre ELSE argd
               c    == Started(u, t, a)
    <2>1. /\ store' = Synced(store, u)
          /\ RefuseBefore(n, c, v) \/ HoldBefore(n, c, v) \/ SendUpstream(n, c, argd, pre)
      BY <1>2 DEF Screen
    <2>2. c \in CallType /\ c.user = u /\ c.tool = t
      BY StartedType DEF Started
    <2> HIDE DEF argd, pre, v, c
    <2>3. ~ RefuseBefore(n, c, v)
      BY <1>1 DEF RefuseBefore, Ends, Idle
    <2>4. ~ HoldBefore(n, c, v)
      <3> DEFINE w == [c EXCEPT !.pc = "waiting", !.stage = "pre", !.rule = v.rule,
                                !.left = HoldWait, !.asleep = TRUE]
      <3>1. w.pc = "waiting"
        BY <2>2 DEF CallType
      <3>2. HoldBefore(n, c, v) => \/ call' = [call EXCEPT ![n] = Idle]
                                   \/ call' = [call EXCEPT ![n] = w]
        BY DEF HoldBefore, Hold, Ends
      <3> HIDE DEF w
      <3> QED
        BY <1>1, <3>1, <3>2 DEF Idle
    <2>5. /\ pre.allow
          /\ call' = [call EXCEPT ![n] = [c EXCEPT !.purpose = pre.purpose]]
      BY <2>1, <2>3, <2>4 DEF SendUpstream
    <2>6. s = n
      BY <1>1, <2>5
    <2>7. call'[s].user = u /\ call'[s].tool = t
      BY <1>1, <2>2, <2>5, <2>6 DEF CallType
    <2> QED
      BY <2>1, <2>5, <2>7 DEF pre
  <1>3. ASSUME NEW n \in Slots, NEW es \in SUBSET Entities, Result(n, es)
        PROVE  FALSE
    <2>1. call'[s] = call[s] \/ call'[s].pc \in {"idle", "waiting"}
      BY <1>1, <1>3 DEF Result, Release, RefuseAfter, HoldAfter, Hold, Ends, Idle
    <2> QED
      BY <1>1, <2>1
  <1>4. CASE \/ \E n \in Slots, u \in Users, t \in Tools, a \in Args : RefuseEarly(n, u, t, a)
             \/ \E n \in Slots : NoResult(n) \/ Wake(n)
    BY <1>1, <1>4 DEF RefuseEarly, NoResult, Wake, WakeApproved, WakeUndecided, Wakes, Ends, Idle
  <1>5. CASE \/ \E u \in Users, r \in RuleIds : Decide(u, r)
             \/ \E u \in Users, r \in RuleIds, ttl \in GrantTtls : GrantPurpose(u, r, ttl)
             \/ \E p \in PackToggles : SetPack(p)
             \/ \E t \in Unpinned : ListTools(t)
             \/ Restart \/ Tick \/ UNCHANGED vars
    <2>1. call' = call \/ call'[s] = Idle \/ call'[s] = call[s]
      BY <1>1, <1>5 DEF Decide, GrantPurpose, SetPack, ListTools, Restart, Tick, vars
    <2> QED
      BY <1>1, <2>1 DEF Idle
  <1> QED
    BY <1>2, <1>3, <1>4, <1>5 DEF Next

(* The tainted domains of a flow are domains of the policy.                  *)
TaintsKnown == \A i \in DOMAIN Blocks : Blocks[i].taint \subseteq Domains

(* The prompt-injection shield, over Redis: whatever else is in flight, a    *)
(* user who holds content of a tainted domain sends no egress call, unless   *)
(* the rule or an earlier one is waived (policy.py:262).                     *)
THEOREM FlowShieldHolds ==
  ASSUME Backend = "redis", TaintsKnown
  PROVE  Spec => FlowShield
  <1> DEFINE Tainted(s, i) ==
        LET c == call'[s] b == Blocks[i] IN
        /\ b.kind = "flow" /\ Active(b) /\ Stops(b) /\ InScope(b, c.user)
        /\ DomainOf[c.tool] \in b.egress \/ (c.tool \in WriteTools /\ b.egressOnWrite)
        /\ \E x \in b.taint : Coc!HeldDomain(held, c.user, x)
  <1>1. TypeOK /\ StoreCoversHeld /\ [Next]_vars =>
          \A s \in Slots : Sends(s) =>
            \A i \in DOMAIN Blocks : Tainted(s, i) => WaivedBy(call'[s].user, i)
    <2> SUFFICES ASSUME TypeOK, StoreCoversHeld, [Next]_vars,
                        NEW s \in Slots, Sends(s),
                        NEW i \in DOMAIN Blocks, Tainted(s, i)
                 PROVE  WaivedBy(call'[s].user, i)
      OBVIOUS
    <2> DEFINE b == Blocks[i]
    <2>1. PICK u \in Users, t \in Tools, a \in Args :
             /\ call'[s].user = u /\ call'[s].tool = t
             /\ store' = Synced(store, u)
             /\ PreCall(store', u, DomainOf[t], t \in WriteTools).allow
      BY SentWasAllowed
    <2>2. PICK x \in b.taint : Coc!HeldDomain(held, u, x)
      BY <2>1
    <2>3. x \in DomainsOf(Backend, store', u)
      <3>1. store \in StoreType /\ held \in [Users -> [Domains -> [Marks -> 0..Ttl]]]
        BY DEF TypeOK
      <3>2. store'.ents = store.ents /\ store'.seen = store.seen
        BY <2>1, <3>1, TypeHolds, SyncedType
      <3>3. PICK m \in Marks : held[u][x][m] > 0
        BY <2>2 DEF Coc!HeldDomain, Coc!Marks, Marks
      <3>4. x \in Domains
        BY DEF TaintsKnown
      <3>5. /\ held[u][x][m] \in Nat /\ store.ents[u][x][m] \in Nat /\ store.seen[u][x] \in Nat
            /\ held[u][x][m] <= store.ents[u][x][m] /\ held[u][x][m] <= store.seen[u][x]
        BY <3>1, <3>4, TtlAssumption DEF StoreCoversHeld, Covers, StoreType
      <3> QED
        BY <3>2, <3>3, <3>4, <3>5 DEF DomainsOf, BucketLive
    <2> DEFINE fires == PreFires(store', u, DomainOf[t], t \in WriteTools)
    <2>4. i \in fires /\ fires \in SUBSET DOMAIN Blocks
      BY <2>1, <2>3 DEF PreFires, FlowFires
    <2> HIDE DEF fires
    <2>5. Granted(store', u, Blocks[First(fires)].rule)
      BY <2>1, <2>4 DEF PreCall, Denied, Allowed, fires
    <2>6. First(fires) \in 1..i
      <3>1. DOMAIN Blocks = 1..Len(Blocks) /\ Len(Blocks) \in Nat
        BY PolicyAssumption
      <3>2. First(fires) \in fires /\ First(fires) <= i
        BY <2>4, <3>1, FirstIsOne
      <3> QED
        BY <2>4, <3>1, <3>2
    <2> QED
      BY <2>1, <2>5, <2>6 DEF WaivedBy, Granted
  <1>2. Spec => []StoreCoversHeld
    BY StoreCovers DEF Persistent
  <1> QED
    BY <1>1, <1>2, TypeCorrect, PTL DEF Spec, FlowShield

(* An approved retry goes through: no interleaving, pack switch or restart   *)
(* has a call stopped before the fetch under a waivable rule its user is     *)
(* approved for (proxy.py:559).                                              *)
THEOREM ApprovedPasses == Spec => ApprovedGoesThrough
  <1>1. TypeOK /\ Next =>
          \A u \in Users, r \in RuleIds :
            ( /\ r \in ApprovedFor(requests, u)
              /\ \A i \in DOMAIN Blocks : Blocks[i].rule = r => Waivable(Blocks[i]) )
            => ~ StoppedBefore(u, r)
    <2> SUFFICES ASSUME TypeOK, Next, NEW u \in Users, NEW r \in RuleIds,
                        r \in ApprovedFor(requests, u),
                        \A i \in DOMAIN Blocks : Blocks[i].rule = r => Waivable(Blocks[i]),
                        StoppedBefore(u, r)
                 PROVE  FALSE
      OBVIOUS
    <2>1. /\ call \in [Slots -> CallType \cup {Idle}]
          /\ r # NoRule /\ NoAnswer.kind = "none" /\ Idle.pc = "idle"
      BY PolicyAssumption DEF TypeOK, NoAnswer, Idle
    <2>2. ASSUME NEW s \in Slots, NEW n \in Users, NEW t \in Tools, NEW a \in Args,
                 Screen(s, n, t, a)
          PROVE  FALSE
      <3> DEFINE st   == Synced(store, n)
                 argd == CheckArgs(st, n, t, a)
                 pre  == PreCall(st, n, DomainOf[t], t \in WriteTools)
                 v    == IF argd.allow THEN pre ELSE argd
                 c    == Started(n, t, a)
      <3>1. RefuseBefore(s, c, v) \/ HoldBefore(s, c, v) \/ SendUpstream(s, c, argd, pre)
        BY <2>2 DEF Screen
      <3>2. c \in CallType /\ c.user = n
        BY StartedType DEF Started
      <3>3. n = u => ~ (~ v.allow /\ v.rule = r)
        <4>1. n = u => Granted(st, u, r)
          BY TypeHolds, SyncedGrants DEF TypeOK
        <4>2. n = u => /\ ~ pre.allow => pre.rule # r
                       /\ ~ argd.allow => argd.rule # r
          BY <4>1, WaivedStopsNothing
        <4> QED
          BY <4>2
      <3> HIDE DEF c, v, argd, pre, st
      <3>4. CASE RefuseBefore(s, c, v)
        <4>1. /\ ~ v.allow /\ answer'.user = n /\ answer'.rule = v.rule
              /\ call' = [call EXCEPT ![s] = Idle]
          BY <3>2, <3>4 DEF RefuseBefore, Ends, Answered
        <4> QED
          BY <2>1, <3>3, <4>1 DEF StoppedBefore
      <3>5. CASE HoldBefore(s, c, v)
        <4>1. CASE HoldWait = 0
          <5>1. /\ ~ v.allow /\ answer'.user = n /\ answer'.rule = v.rule
                /\ call' = [call EXCEPT ![s] = Idle]
            BY <3>2, <3>5, <4>1 DEF HoldBefore, Hold, Ends, Answered
          <5> QED
            BY <2>1, <3>3, <5>1 DEF StoppedBefore
        <4>2. CASE HoldWait # 0
          <5> DEFINE w == [c EXCEPT !.pc = "waiting", !.stage = "pre", !.rule = v.rule,
                                    !.left = HoldWait, !.asleep = TRUE]
          <5>1. ~ v.allow /\ call' = [call EXCEPT ![s] = w] /\ answer' = NoAnswer
            BY <3>5, <4>2 DEF HoldBefore, Hold
          <5>2. w.user = n /\ w.rule = v.rule
            BY <3>2 DEF CallType
          <5> HIDE DEF w
          <5> QED
            BY <2>1, <3>3, <5>1, <5>2 DEF StoppedBefore
        <4> QED
          BY <4>1, <4>2
      <3>6. CASE SendUpstream(s, c, argd, pre)
        <4> DEFINE w == [c EXCEPT !.purpose = pre.purpose]
        <4>1. call' = [call EXCEPT ![s] = w] /\ answer' = NoAnswer
          BY <3>6 DEF SendUpstream
        <4>2. w.pc = "upstream"
          BY <3>2 DEF CallType, c, Started
        <4> HIDE DEF w
        <4> QED
          BY <2>1, <4>1, <4>2 DEF StoppedBefore
      <3> QED
        BY <3>1, <3>4, <3>5, <3>6
    <2>3. ASSUME NEW s \in Slots, NEW es \in SUBSET Entities, Result(s, es)
          PROVE  FALSE
      <3>1. call[s].pc = "upstream"
        BY <2>3 DEF Result
      <3>2. /\ answer'.kind = "none" \/ answer'.stage = "post"
            /\ \A n \in Slots : n # s => call'[n] = call[n]
        BY <2>1, <2>3 DEF Result, Release, RefuseAfter, HoldAfter, Hold, Ends, Answered
      <3> QED
        BY <2>1, <3>1, <3>2 DEF StoppedBefore
    <2>4. ASSUME NEW s \in Slots,
                 \/ NoResult(s) \/ WakeApproved(s)
                 \/ \E n \in Users, t \in Tools, a \in Args : RefuseEarly(s, n, t, a)
          PROVE  FALSE
      <3>1. call' = [call EXCEPT ![s] = Idle]
        BY <2>4 DEF NoResult, WakeApproved, RefuseEarly, Ends
      <3>2. answer'.rule = NoRule \/ answer'.kind \notin {"refused", "held"}
        BY <2>4 DEF NoResult, WakeApproved, RefuseEarly, Ends, Answered
      <3> QED
        BY <2>1, <3>1, <3>2 DEF StoppedBefore
    <2>5. ASSUME NEW s \in Slots, WakeUndecided(s)
          PROVE  FALSE
      <3>1. /\ ApprovedFor(requests, call[s].user) = {} /\ call[s].pc = "waiting"
            /\ \A n \in Slots : n # s => call'[n] = call[n]
        BY <2>1, <2>5 DEF WakeUndecided, Wakes, Ends
      <3>2. answer'.kind = "none" \/ answer'.user = call[s].user
        BY <2>1, <2>5 DEF WakeUndecided, Ends, Answered
      <3> QED
        BY <2>1, <3>1, <3>2 DEF StoppedBefore
    <2>6. CASE \/ \E n \in Users, x \in RuleIds : Decide(n, x)
               \/ \E n \in Users, x \in RuleIds, ttl \in GrantTtls : GrantPurpose(n, x, ttl)
               \/ \E p \in PackToggles : SetPack(p)
               \/ \E t \in Unpinned : ListTools(t)
               \/ Restart \/ Tick
      <3>1. /\ answer' = NoAnswer
            /\ \A n \in Slots : call[n] = Idle => call'[n] = Idle
        BY <2>1, <2>6 DEF Decide, GrantPurpose, SetPack, ListTools, Restart, Tick
      <3> QED
        BY <2>1, <3>1 DEF StoppedBefore
    <2> QED
      BY <2>2, <2>3, <2>4, <2>5, <2>6 DEF Next, Wake
  <1> QED
    BY <1>1, TypeCorrect, PTL DEF Spec, ApprovedGoesThrough
=============================================================================
