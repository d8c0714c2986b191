------------------------------- MODULE Proxy --------------------------------
(* The gateway: concurrent tools/call requests on one event loop, the engine *)
(* before and after each upstream call, holds for approval and the approvals *)
(* that release them.  A call runs without interruption up to the next await *)
(* (the upstream, or the one-second sleeps of a hold), so each action below  *)
(* is one such stretch of Proxy.call_tool or Proxy._hold.                    *)
EXTENDS Holdings

CONSTANTS Slots,          \* calls that can be in progress at once
          Tools, DomainOf, WriteTools,
          ListedTools,    \* tools the allow / deny lists leave callable
          Args,           \* what a call may be given ...
          SecretArgs,     \* ... and which of it the inbound scan refuses
          RateLimits,     \* is a rate limit configured
          HoldWait,       \* seconds a hold stays open for a quick approval
          ApprovalTtls,   \* lifetimes an approver may choose
          GrantTtls,      \* lifetimes of grants made through the engine
          PackToggles,    \* packs switched from the console
          Unpinned,       \* tools whose definition may change under integrity
          Restarts,       \* may the process be restarted
          TokensExpire    \* may a caller's token expire during a call

ASSUME ProxyAssumption ==
    /\ DomainOf \in [Tools -> Domains]
    /\ WriteTools \subseteq Tools /\ ListedTools \subseteq Tools /\ Unpinned \subseteq Tools
    /\ SecretArgs \subseteq Args /\ PackToggles \subseteq Packs
    /\ HoldWait \in 0..45
    /\ ApprovalTtls \subseteq Nat \ {0} /\ GrantTtls \subseteq Nat \ {0}
    /\ {RateLimits, Restarts, TokensExpire} \subseteq BOOLEAN

VARIABLES flags,      \* tools blocked by tool integrity
          call,       \* slot -> the call in progress there
          answer      \* the answer and audit row the last step produced

vars == <<packs, date, store, requests, flags, call, answer, held>>

Idle     == [pc |-> "idle"]
CallType == [pc : {"upstream", "waiting"},
             stage : {"pre", "post"},           \* where it was held
             user : Users, tool : Tools, arg : Args,
             rule    : RuleIds \cup {NoRule},   \* the rule it is held under
             purpose : RuleIds \cup {NoRule},   \* the grant its audit row names
             left    : Nat,                     \* seconds to the hold's deadline
             asleep  : BOOLEAN]

NoAnswer   == [kind |-> "none"]
AnswerType == [kind  : {"released", "refused", "held", "approved", "input", "failed"},
               stage : {"pre", "post"},
               user : Users, tool : Tools,
               rule    : RuleIds \cup {NoRule},
               purpose : RuleIds \cup {NoRule}]

TypeOK ==
    /\ packs \subseteq Packs /\ date \in Nat
    /\ store \in StoreType
    /\ requests \in [Users -> [RuleIds -> RequestType]]
    /\ flags \subseteq Tools
    /\ call \in [Slots -> CallType \cup {Idle}]
    /\ answer \in AnswerType \cup {NoAnswer}
    /\ held \in [Users -> [Domains -> [Marks -> 0..Ttl]]]

Started(u, t, a) == [pc |-> "upstream", stage |-> "pre", user |-> u, tool |-> t, arg |-> a,
                     rule |-> NoRule, purpose |-> NoRule, left |-> 0, asleep |-> FALSE]

Answered(c, stage, kind, r) ==
    [kind |-> kind, stage |-> stage, user |-> c.user, tool |-> c.tool, rule |-> r,
     purpose |-> c.purpose]

Init ==
    /\ packs = Packs /\ date = 0
    /\ store = EmptyStore
    /\ requests = NoRequests
    /\ flags = {}
    /\ call = [s \in Slots |-> Idle]
    /\ answer = NoAnswer
    /\ held = EmptyStore.ents

(* Slot s is left with the answer of this kind.                              *)
Ends(s, c, stage, kind, r) ==
    /\ call' = [call EXCEPT ![s] = Idle]
    /\ answer' = Answered(c, stage, kind, r)

-----------------------------------------------------------------------------
(* _hold, up to its first sleep.                                             *)
Hold(s, c, stage, r) ==
    /\ requests' = Requested(requests, c.user, r)
    /\ IF HoldWait = 0 THEN Ends(s, c, stage, "held", r)
       ELSE /\ call' = [call EXCEPT ![s] = [c EXCEPT !.pc = "waiting", !.stage = stage, !.rule = r,
                                                     !.left = HoldWait, !.asleep = TRUE]]
            /\ answer' = NoAnswer

-----------------------------------------------------------------------------
(* call_tool, from the request to the upstream call.                         *)

(* Refusals that need no rule: rate limit, tool filter, tool integrity, and  *)
(* a secret in the arguments.                                                *)
RefuseEarly(s, u, t, a) ==
    /\ call[s] = Idle
    /\ RateLimits \/ t \notin ListedTools \/ t \in flags \/ a \in SecretArgs
    /\ Ends(s, Started(u, t, a), "pre", "refused", NoRule)
    /\ UNCHANGED <<packs, date, store, requests, flags, held>>

(* The rules: the arguments first, then what the store remembers.            *)
RefuseBefore(s, c, v) ==
    /\ ~v.allow /\ ~v.approve
    /\ Ends(s, c, "pre", "refused", v.rule)
    /\ UNCHANGED requests

HoldBefore(s, c, v) ==
    /\ ~v.allow /\ v.approve
    /\ Hold(s, c, "pre", v.rule)

(* Only pre_call's grant is kept for the audit row.                          *)
SendUpstream(s, c, argd, pre) ==
    /\ argd.allow /\ pre.allow
    /\ call' = [call EXCEPT ![s] = [c EXCEPT !.purpose = pre.purpose]]
    /\ answer' = NoAnswer
    /\ UNCHANGED requests

Screen(s, u, t, a) ==
    LET st   == Synced(store, u)
        argd == CheckArgs(st, u, t, a)
        pre  == PreCall(st, u, DomainOf[t], t \in WriteTools)
        v    == IF argd.allow THEN pre ELSE argd
        c    == Started(u, t, a) IN
    /\ call[s] = Idle
    /\ t \in ListedTools /\ t \notin flags /\ a \notin SecretArgs
    /\ store' = st
    /\ RefuseBefore(s, c, v) \/ HoldBefore(s, c, v) \/ SendUpstream(s, c, argd, pre)
    /\ UNCHANGED <<packs, date, flags, held>>

-----------------------------------------------------------------------------
(* The upstream answers.                                                     *)

Release(s, c, es, v) ==
    /\ v.allow
    /\ Ends(s, c, "post", "released", NoRule)
    /\ held' = Coc!Received(held, c.user, DomainOf[c.tool], es)
    /\ UNCHANGED requests

RefuseAfter(s, c, v) ==
    /\ ~v.allow /\ ~v.approve
    /\ Ends(s, c, "post", "refused", v.rule)
    /\ UNCHANGED <<requests, held>>

HoldAfter(s, c, v) ==
    /\ ~v.allow /\ v.approve
    /\ Hold(s, c, "post", v.rule)
    /\ UNCHANGED held

(* A result about es comes back: recorded, whatever is decided about it.     *)
Result(s, es) ==
    LET c  == call[s]
        st == Record(Backend, store, c.user, DomainOf[c.tool], es, Ttl)
        v  == PostCall(st, c.user, DomainOf[c.tool], es) IN
    /\ c.pc = "upstream"
    /\ store' = st
    /\ Release(s, c, es, v) \/ RefuseAfter(s, c, v) \/ HoldAfter(s, c, v)
    /\ UNCHANGED <<packs, date, flags>>

(* No result: the upstream asks for more input first, it cannot be reached   *)
(* or raises, or the caller's token ran out meanwhile (self.user raises      *)
(* before post_call, so nothing is recorded).                                *)
NoResult(s) ==
    /\ call[s].pc = "upstream"
    /\ \/ Ends(s, call[s], "pre", "input", NoRule)
       \/ Ends(s, call[s], "pre", "refused", NoRule)
       \/ TokensExpire /\ Ends(s, call[s], "post", "failed", NoRule)
    /\ UNCHANGED <<packs, date, store, requests, flags, held>>

-----------------------------------------------------------------------------
(* _hold, each time it wakes: any approval the user has ends the wait.       *)

Wakes(s) == call[s].pc = "waiting" /\ ~call[s].asleep

WakeApproved(s) ==
    /\ Wakes(s)
    /\ ApprovedFor(requests, call[s].user) # {}
    /\ store' = Synced(store, call[s].user)
    /\ Ends(s, call[s], call[s].stage, "approved", call[s].rule)
    /\ UNCHANGED <<packs, date, requests, flags, held>>

(* Mutant of WakeUndecided: the loop forgets its deadline.                   *)
WakeForever(s) ==
    /\ Wakes(s)
    /\ ApprovedFor(requests, call[s].user) = {}
    /\ call' = [call EXCEPT ![s].asleep = TRUE] /\ answer' = NoAnswer
    /\ UNCHANGED <<packs, date, store, requests, flags, held>>

WakeUndecided(s) ==
    /\ Wakes(s)
    /\ ApprovedFor(requests, call[s].user) = {}
    /\ IF call[s].left > 0
       THEN call' = [call EXCEPT ![s].asleep = TRUE] /\ answer' = NoAnswer
       ELSE Ends(s, call[s], call[s].stage, "held", call[s].rule)
    /\ UNCHANGED <<packs, date, store, requests, flags, held>>

-----------------------------------------------------------------------------
(* The rest of the world.                                                    *)

(* An approver decides over HTTP (approval_routes): any request that exists, *)
(* decided or not, may be decided again.                                     *)
Decide(u, r) ==
    /\ requests[u][r].status # "none"
    /\ \/ \E ttl \in ApprovalTtls :
             requests' = [requests EXCEPT ![u][r] = [status |-> "approved", left |-> ttl]]
       \/ requests' = [requests EXCEPT ![u][r].status = "denied"]
    /\ UNCHANGED <<packs, date, store, flags, call, held>> /\ answer' = NoAnswer

(* Engine.grant_purpose, called by an embedding workflow.                    *)
GrantPurpose(u, r, ttl) ==
    /\ store' = Grant(store, u, r, ttl)
    /\ UNCHANGED <<packs, date, requests, flags, call, held>> /\ answer' = NoAnswer

SetPack(p) ==
    /\ packs' = IF p \in packs THEN packs \ {p} ELSE packs \cup {p}
    /\ UNCHANGED <<date, store, requests, flags, call, held>> /\ answer' = NoAnswer

(* list_tools re-evaluates a tool and caches the verdict for call_tool.      *)
ListTools(t) ==
    /\ \/ flags' = flags \cup {t}
       \/ flags' = flags \ {t}
    /\ UNCHANGED <<packs, date, store, requests, call, held>> /\ answer' = NoAnswer

(* The process is replaced: calls in progress are gone, approvals are on     *)
(* disk or in Redis, and the store survives only in Redis.                   *)
Restart ==
    /\ Restarts
    /\ store' = IF Backend = "redis" THEN store ELSE EmptyStore
    /\ call' = [s \in Slots |-> Idle]
    /\ flags' \in SUBSET Unpinned       \* connect scans every tool again
    /\ answer' = NoAnswer
    /\ UNCHANGED <<packs, date, requests, held>>

Tick ==
    /\ store' = Age(store)
    /\ held' = Coc!Lapsed(held)
    /\ requests' = AgedRequests(requests)
    /\ call' = [s \in Slots |-> IF call[s].pc = "waiting"
                   THEN [call[s] EXCEPT !.left = Minus1(@), !.asleep = FALSE] ELSE call[s]]
    /\ date' = IF date < LastDate THEN date + 1 ELSE date
    /\ answer' = NoAnswer
    /\ UNCHANGED <<packs, flags>>

-----------------------------------------------------------------------------
Wake(s) == WakeApproved(s) \/ WakeUndecided(s)

Next ==
    \/ \E s \in Slots, u \in Users, t \in Tools, a \in Args :
            RefuseEarly(s, u, t, a) \/ Screen(s, u, t, a)
    \/ \E s \in Slots, es \in SUBSET Entities : Result(s, es)
    \/ \E s \in Slots : NoResult(s) \/ Wake(s)
    \/ \E u \in Users, r \in RuleIds : Decide(u, r)
    \/ \E u \in Users, r \in RuleIds, ttl \in GrantTtls : GrantPurpose(u, r, ttl)
    \/ \E p \in PackToggles : SetPack(p)
    \/ \E t \in Unpinned : ListTools(t)
    \/ Restart
    \/ Tick

Spec == Init /\ [][Next]_vars

(* The event loop keeps running: time passes and a hold that has slept its   *)
(* second is resumed.  Nothing is assumed of upstreams, which have no        *)
(* timeout, nor of approvers.                                                *)
FairSpec == Spec /\ WF_vars(Tick) /\ \A s \in Slots : WF_vars(Wake(s))
-----------------------------------------------------------------------------
(* A step that sends the call of slot s upstream.                            *)
Sends(s) == call[s] = Idle /\ call'[s].pc = "upstream"

(* Some rule met no later than block i is waived for u after this step.      *)
WaivedBy(u, i) == \E j \in 1..i : store'.grants[u][Blocks[j].rule] > 0

(* The prompt-injection shield (policy.py:262, README "any write after a     *)
(* session reads untrusted content is refused"): a user who holds content of *)
(* a tainted domain sends no egress call upstream, unless the rule, or one   *)
(* the engine meets before it, is waived.                                    *)
FlowShield ==
    [][\A s \in Slots : Sends(s) =>
        LET c == call'[s] IN
        \A i \in DOMAIN Blocks : LET b == Blocks[i] IN
            ( /\ b.kind = "flow" /\ Active(b) /\ Stops(b) /\ InScope(b, c.user)
              /\ DomainOf[c.tool] \in b.egress \/ (c.tool \in WriteTools /\ b.egressOnWrite)
              /\ \E x \in b.taint : Coc!HeldDomain(held, c.user, x) )
            => WaivedBy(c.user, i)]_vars

(* A step that stops a new call of u before the fetch, under rule r.         *)
StoppedBefore(u, r) ==
    \/ /\ answer'.kind \in {"refused", "held"} /\ answer'.stage = "pre"
       /\ answer'.user = u /\ answer'.rule = r
    \/ \E s \in Slots : /\ call[s] = Idle /\ call'[s].pc = "waiting"
                        /\ call'[s].user = u /\ call'[s].rule = r /\ call'[s].stage = "pre"

(* A retry under a running approval (proxy.py:559 "once it is approved, retry *)
(* the same call and it will go through for a limited time"): a call is not  *)
(* stopped before the fetch under a waivable rule this user is approved for. *)
ApprovedGoesThrough ==
    [][\A u \in Users, r \in RuleIds :
        ( /\ r \in ApprovedFor(requests, u)
          /\ \A i \in DOMAIN Blocks : Blocks[i].rule = r => Waivable(Blocks[i]) )
        => ~ StoppedBefore(u, r)]_vars

(* Every hold is answered: the wait is bounded, "so an MCP client never      *)
(* times out on us" (proxy.py:546), whether or not anyone decides.           *)
HoldAnswered == \A s \in Slots : call[s].pc = "waiting" ~> call[s].pc # "waiting"

-----------------------------------------------------------------------------
(* Claims of the code and its documents that do not hold.                    *)

(* policy.py:279, "`deny` here is deliberately not waivable by a purpose     *)
(* grant (legal hold)": no call is sent into a domain under such a block.    *)
LegalHold ==
    [][\A s \in Slots : Sends(s) =>
        \A i \in DOMAIN Blocks : LET b == Blocks[i] c == call'[s] IN
            ~ /\ b.kind = "domain_block" /\ Gate(b) = "deny" /\ Active(b)
              /\ InScope(b, c.user) /\ DomainOf[c.tool] \in b.domains
              /\ AppliesTo(b, c.tool \in WriteTools)]_vars

(* approvals.py:11, an approver "can act on it while the proxy keeps         *)
(* running": an approval stands until it expires or an approver decides      *)
(* otherwise, so no call puts the request back to pending.                   *)
ApprovalStands ==
    [][\A u \in Users, r \in RuleIds :
        requests[u][r].status = "approved" /\ requests[u][r].left > 0
            => requests'[u][r].status # "pending"]_vars
=============================================================================
