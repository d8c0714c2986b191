------------------------------ MODULE Gateways ------------------------------
(* Adapter mode: the engine behind somebody else's gateway.  The gateway     *)
(* asks before it calls a tool and again with the answer, as two separate    *)
(* messages; aggrete sees neither the upstream nor the client.  Several      *)
(* processes may decide over one Redis store, each under a lock or on an     *)
(* event loop of its own, so a process decides one thing at a time but       *)
(* another one's decisions come between its writing of a result and its      *)
(* verdict about it.  A decision takes no whole second.                      *)
(*                                                                           *)
(* A call is one of the gateway's; what the gateway does with it (Skip,      *)
(* replies lost and asked for again, calls given up) is anything at all, but *)
(* that it obeys the decisions it gets.                                      *)
EXTENDS Holdings

CONSTANTS Procs,          \* the processes that decide
          KindOf,         \* process -> what it serves
          Slots,          \* calls the gateways can have in progress at once
          Tools, DomainOf, WriteTools, ListedTools,
          BackendOf,      \* tool -> the backend it belongs to
          NoTool,
          NamesTool,      \* does agentgateway say which tool a result is of
          Args, SecretArgs,
          Masks,          \* is a secret in the arguments masked, not refused
          Masked,         \* what it is masked by
          RateLimits,     \* is a rate limit configured
          Unreadable,     \* may a result come in a form that is passed unread
          Restarts,       \* may a process end and be replaced
          ApprovalTtls

GatewayKinds == {"adapter",        \* /v1/decide, AuthZEN, Docker, ContextForge
                 "agentgateway",   \* the ExtMCP processor
                 "hook"}           \* PolicyHook in a host's middleware

ASSUME GatewaysAssumption ==
    /\ KindOf \in [Procs -> GatewayKinds]
    /\ Backend = "redis" \/ \A p, q \in Procs : p = q
    /\ DomainOf \in [Tools -> Domains]
    /\ WriteTools \subseteq Tools /\ ListedTools \subseteq Tools
    /\ NoTool \notin Tools
    /\ SecretArgs \subseteq Args /\ Masked \in Args \ SecretArgs
    /\ {NamesTool, Masks, RateLimits, Unreadable, Restarts} \subseteq BOOLEAN
    /\ ApprovalTtls \subseteq Nat \ {0}

VARIABLES call,      \* slot -> the call in progress there
          job,       \* process -> the result it has recorded and is deciding about
          last,      \* process -> user, backend -> the last tool asked for (last_tool)
          fresh,     \* ghost: calls no other request of their user and backend followed
          answer,    \* what the last step decided
          astray     \* ghost: user -> how long an answer still counts that the
                     \* store got under another domain, or never

vars == <<packs, date, store, requests, call, job, last, fresh, answer, astray, held>>

Services == {BackendOf[t] : t \in Tools}

Idle     == [pc |-> "idle"]
CallType == [pc : {"upstream"}, user : Users, tool : Tools, proc : Procs]

NoJob   == [pc |-> "none"]
JobType == [pc : {"recorded"}, slot : Slots, tool : Tools, es : SUBSET Entities]

NoAnswer   == [kind |-> "none"]
AnswerType == [kind : {"released", "refused", "held", "unfiled", "unread"}, stage : {"pre", "before", "post"},
               user : Users, rule : RuleIds \cup {NoRule}]

TypeOK ==
    /\ packs \subseteq Packs /\ date \in Nat
    /\ store \in StoreType
    /\ requests \in [Users -> [RuleIds -> RequestType]]
    /\ call \in [Slots -> CallType \cup {Idle}]
    /\ job \in [Procs -> JobType \cup {NoJob}]
    /\ last \in [Procs -> [Users -> [Services -> Tools \cup {NoTool}]]]
    /\ fresh \subseteq Slots
    /\ answer \in AnswerType \cup {NoAnswer}
    /\ astray \in [Users -> 0..Ttl]
    /\ held \in [Users -> [Domains -> [Marks -> 0..Ttl]]]

NoneAsked == [u \in Users |-> [b \in Services |-> NoTool]]

Init ==
    /\ packs = Packs /\ date = 0
    /\ store = EmptyStore /\ requests = NoRequests
    /\ call = [s \in Slots |-> Idle]
    /\ job = [p \in Procs |-> NoJob]
    /\ last = [p \in Procs |-> NoneAsked]
    /\ fresh = {} /\ answer = NoAnswer /\ astray = [u \in Users |-> 0]
    /\ held = EmptyStore.ents

(* A slot for a new call: no late verdict about an earlier one is under way.  *)
Free(s) == call[s] = Idle /\ \A p \in Procs : job[p] # NoJob => job[p].slot # s

Answers(kind, stage, u, r) == answer' = [kind |-> kind, stage |-> stage, user |-> u, rule |-> r]

-----------------------------------------------------------------------------
(* Before the call: Decider.request, PolicyHook.before.                      *)

(* Slot s becomes a call of u to t; the gateway got an allow (or a rewrite)  *)
(* from process p.                                                           *)
Admit(p, s, u, t) ==
    /\ call' = [call EXCEPT ![s] = [pc |-> "upstream", user |-> u, tool |-> t, proc |-> p]]
    /\ answer' = NoAnswer

(* Mutant of Noted: what was noted first stays.                              *)
NotedOnce(p, u, t) ==
    last' = IF KindOf[p] = "agentgateway" /\ last[p][u][BackendOf[t]] = NoTool
            THEN [last EXCEPT ![p][u][BackendOf[t]] = t] ELSE last

(* CheckRequest notes the tool whatever was decided about it.                *)
Noted(p, u, t) ==
    last' = IF KindOf[p] = "agentgateway" THEN [last EXCEPT ![p][u][BackendOf[t]] = t] ELSE last

(* The calls this request makes stale as "the last tool of that person".     *)
Overtaken(p, u, t) ==
    {x \in Slots : /\ call[x] # Idle /\ call[x].user = u /\ call[x].proc = p
                   /\ BackendOf[call[x].tool] = BackendOf[t]}

Stale(p, s, u, t) ==
    fresh' = (fresh \ Overtaken(p, u, t)) \cup (IF call'[s] # Idle THEN {s} ELSE {})

(* A secret in the arguments is refused, or masked before the rules see it.  *)
Scanned(a) == IF a \in SecretArgs THEN Masked ELSE a

(* Refusals that come before _sync_approvals: the limit, the tool filter, a  *)
(* tool the user could never call, a secret.                                 *)
Barred(u, t, a) ==
    LET pre == PreCall(store, u, DomainOf[t], t \in WriteTools) IN
    \/ RateLimits                                         /\ Answers("refused", "pre", u, NoRule)
    \/ t \notin ListedTools                               /\ Answers("refused", "pre", u, NoRule)
    \/ /\ t \in ListedTools /\ ~ToolVisible(store, u, DomainOf[t])
       /\ ~pre.allow /\ ~pre.approve                      /\ Answers("refused", "pre", u, pre.rule)
    \/ t \in ListedTools /\ a \in SecretArgs /\ ~Masks    /\ Answers("refused", "pre", u, NoRule)

Passes(u, t, a) ==
    LET pre == PreCall(store, u, DomainOf[t], t \in WriteTools) IN
    /\ t \in ListedTools
    /\ ToolVisible(store, u, DomainOf[t]) \/ pre.allow \/ pre.approve
    /\ a \in SecretArgs => Masks

AskBarred(p, s, u, t, a) ==
    /\ KindOf[p] # "hook" /\ Free(s) /\ job[p] = NoJob
    /\ Barred(u, t, a)
    /\ Noted(p, u, t) /\ UNCHANGED call /\ Stale(p, s, u, t)
    /\ UNCHANGED <<packs, date, store, requests, job, astray, held>>

Ask(p, s, u, t, a) ==
    LET st   == Synced(store, u)
        argd == CheckArgs(st, u, t, Scanned(a))
        pre  == PreCall(st, u, DomainOf[t], t \in WriteTools)
        v    == IF argd.allow THEN pre ELSE argd IN
    /\ KindOf[p] # "hook" /\ Free(s) /\ job[p] = NoJob
    /\ Passes(u, t, a)
    /\ store' = st
    /\ \/ /\ v.allow
          /\ Admit(p, s, u, t) /\ UNCHANGED requests
       \/ /\ ~v.allow /\ ~v.approve
          /\ Answers("refused", "pre", u, v.rule) /\ UNCHANGED <<call, requests>>
       \/ /\ ~v.allow /\ v.approve
          /\ requests' = Requested(requests, u, v.rule)
          /\ Answers("held", "pre", u, v.rule) /\ UNCHANGED call
    /\ Noted(p, u, t) /\ Stale(p, s, u, t)
    /\ UNCHANGED <<packs, date, job, astray, held>>

(* The hook knows no arguments, no writes and no approvals.                  *)
AskHook(p, s, u, t) ==
    LET pre == PreCall(store, u, DomainOf[t], FALSE) IN
    /\ KindOf[p] = "hook" /\ Free(s) /\ job[p] = NoJob
    /\ \/ pre.allow /\ Admit(p, s, u, t)
       \/ ~pre.allow /\ Answers("refused", "before", u, pre.rule) /\ UNCHANGED call
    /\ UNCHANGED <<packs, date, store, requests, job, last, fresh, astray, held>>

(* A gateway that asks about answers only.                                   *)
Skip(p, s, u, t) ==
    /\ KindOf[p] = "adapter" /\ Free(s)
    /\ Admit(p, s, u, t)
    /\ UNCHANGED <<packs, date, store, requests, job, last, fresh, astray, held>>

-----------------------------------------------------------------------------
(* After the call: Decider.response, PolicyHook.after.                       *)

(* The tool a result is taken to be of: what the message says, or the last   *)
(* one this process was asked about.                                         *)
ToolOfResult(p, c) ==
    IF KindOf[p] # "agentgateway" \/ NamesTool THEN c.tool ELSE last[p][c.user][BackendOf[c.tool]]

Asks(p, s) == call[s] # Idle /\ job[p] = NoJob /\ KindOf[p] = KindOf[call[s].proc]

(* post_call, its first half: the result is recorded.                        *)
RecordResult(p, s, es) ==
    LET c == call[s]  t == ToolOfResult(p, c) IN
    /\ Asks(p, s) /\ t # NoTool
    /\ store' = Record(Backend, store, c.user, DomainOf[t], es, Ttl)
    /\ job' = [job EXCEPT ![p] = [pc |-> "recorded", slot |-> s, tool |-> t, es |-> es]]
    /\ answer' = NoAnswer
    /\ UNCHANGED <<packs, date, requests, call, last, fresh, astray, held>>

(* The user of call c gets what its tool said of es, whatever tool t the     *)
(* answer was taken to be of (NoTool: nothing was recorded).                 *)
HandsOver(c, t, es) ==
    /\ held' = Coc!Received(held, c.user, DomainOf[c.tool], es)
    /\ astray' = IF t \in Tools /\ DomainOf[t] = DomainOf[c.tool] THEN astray
                 ELSE [astray EXCEPT ![c.user] = Ttl]

(* Not recorded and not decided about: a result that no tool is found for,   *)
(* and one that is not JSON (or, in the middleware, not a 200).              *)
Passed(s, es, kind) ==
    /\ Answers(kind, "post", call[s].user, NoRule)
    /\ HandsOver(call[s], NoTool, es)
    /\ call' = [call EXCEPT ![s] = Idle] /\ fresh' = fresh \ {s}
    /\ UNCHANGED <<packs, date, store, requests, job, last>>

PassUnfiled(p, s, es) ==
    Asks(p, s) /\ ToolOfResult(p, call[s]) = NoTool /\ Passed(s, es, "unfiled")

PassUnread(p, s, es) ==
    Asks(p, s) /\ Unreadable /\ KindOf[p] # "adapter" /\ Passed(s, es, "unread")

(* post_call, its second half.  A hold opens no approval request here.  The  *)
(* reply may not reach the gateway, which may then ask again.                *)
Verdict(p) ==
    LET j == job[p]  c == call[j.slot]
        v == PostCall(store, c.user, DomainOf[j.tool], j.es) IN
    /\ job[p] # NoJob
    /\ job' = [job EXCEPT ![p] = NoJob]
    /\ \/ answer' = NoAnswer /\ UNCHANGED <<call, fresh, astray, held>>
       \/ /\ c # Idle
          /\ call' = [call EXCEPT ![j.slot] = Idle] /\ fresh' = fresh \ {j.slot}
          /\ \/ /\ v.allow
                /\ Answers("released", "post", c.user, NoRule)
                /\ HandsOver(c, j.tool, j.es)
             \/ /\ ~v.allow
                /\ Answers(IF v.approve THEN "held" ELSE "refused", "post", c.user, v.rule)
                /\ UNCHANGED <<astray, held>>
    /\ UNCHANGED <<packs, date, store, requests, last>>

-----------------------------------------------------------------------------
(* The rest of the world.                                                    *)

(* The client, the upstream or the gateway lets a call go.                   *)
GiveUp(s) ==
    /\ call[s] # Idle
    /\ call' = [call EXCEPT ![s] = Idle] /\ fresh' = fresh \ {s}
    /\ answer' = NoAnswer
    /\ UNCHANGED <<packs, date, store, requests, job, last, astray, held>>

(* A process ends and is replaced: what it was deciding is lost, and the     *)
(* tools it was asked for.                                                   *)
Crash(p) ==
    /\ Restarts
    /\ store' = IF Backend = "redis" THEN store ELSE EmptyStore
    /\ job' = [job EXCEPT ![p] = NoJob]
    /\ last' = [last EXCEPT ![p] = NoneAsked]
    /\ fresh' = {s \in fresh : call[s].proc # p}
    /\ answer' = NoAnswer
    /\ UNCHANGED <<packs, date, requests, call, astray, held>>

(* An approver decides (the console, the routes of a proxy).                 *)
Decide(u, r) ==
    /\ requests[u][r].status # "none"
    /\ \/ \E ttl \in ApprovalTtls :
             requests' = [requests EXCEPT ![u][r] = [status |-> "approved", left |-> ttl]]
       \/ requests' = [requests EXCEPT ![u][r].status = "denied"]
    /\ answer' = NoAnswer
    /\ UNCHANGED <<packs, date, store, call, job, last, fresh, astray, held>>

Tick ==
    /\ \A p \in Procs : job[p] = NoJob
    /\ store' = Age(store)
    /\ requests' = AgedRequests(requests)
    /\ held' = Coc!Lapsed(held)
    /\ astray' = [u \in Users |-> Minus1(astray[u])]
    /\ date' = IF date < LastDate THEN date + 1 ELSE date
    /\ answer' = NoAnswer
    /\ UNCHANGED <<packs, call, job, last, fresh>>

(* What process p does.                                                      *)
Serves(p) ==
    \/ \E s \in Slots, u \in Users, t \in Tools :
          \/ \E a \in Args : AskBarred(p, s, u, t, a) \/ Ask(p, s, u, t, a)
          \/ AskHook(p, s, u, t)
          \/ Skip(p, s, u, t)
    \/ \E s \in Slots, es \in SUBSET Entities :
          RecordResult(p, s, es) \/ PassUnfiled(p, s, es) \/ PassUnread(p, s, es)
    \/ Verdict(p) \/ Crash(p)

Outside ==
    \/ \E s \in Slots : GiveUp(s)
    \/ \E u \in Users, r \in RuleIds : Decide(u, r)
    \/ Tick

Next == (\E p \in Procs : Serves(p)) \/ Outside

Spec == Init /\ [][Next]_vars
-----------------------------------------------------------------------------
(* The store never knows less than the user does, mark by mark, except for   *)
(* as long as an answer counts that went astray to the user: the fallback    *)
(* filed it under a tool of another domain, or it was passed on unfiled or   *)
(* unread.                                                                   *)
StoreCoversFiled ==
    \A u \in Users, d \in Domains, m \in Marks :
        \/ held[u][d][m] <= astray[u]
        \/ held[u][d][m] <= store.ents[u][d][m] /\ held[u][d][m] <= store.seen[u][d]

(* Nothing but time passes, or an answer that breaks no block in force, or   *)
(* one to a user who holds something that went astray.                       *)
GivenIfFiled ==
    \/ UNCHANGED held
    \/ Coc!CocNext
    \/ \E u \in Users : astray'[u] > 0 /\ \A v \in Users \ {u} : held'[v] = held[v]

(* "the same deterministic, stateful decisions" (adapters.py:4): whatever    *)
(* gateways send, to whichever process, a user's holdings change only by time*)
(* or by an answer that breaks no block in force, but where something that   *)
(* this user still holds, this answer included, went astray.  Nobody's stray *)
(* answer opens anything to another user, and it stops to count when it      *)
(* would have lapsed in the store.                                           *)
HoldsToCodeIfFiled == [][GivenIfFiled]_held

(* "If it is absent the adapter falls back to the last tool that person      *)
(* called on that backend" (extmcp/__init__.py:25): where the gateway names  *)
(* no tool, an answer is filed under its own tool and never passed unfiled as*)
(* long as its request was the last of its user and backend, and the process *)
(* asked about it is the one that was asked before and has not been restarted.*)
FallbackFindsTool ==
    [][\A p \in Procs, s \in fresh :
        call[s].proc = p =>
            /\ (job[p] = NoJob /\ job'[p] # NoJob /\ job'[p].slot = s) => job'[p].tool = call[s].tool
            /\ \A es \in SUBSET Entities : ~PassUnfiled(p, s, es)]_vars

(* "Once it is approved, retry the same call and it will go through"         *)
(* (proxy.py:558), whichever process the retry is put to: no request is      *)
(* stopped under a rule its user is approved for, if the tool is visible and *)
(* the rule can be waived.                                                   *)
ApprovedGoesThrough ==
    [][\A u \in Users, r \in RuleIds :
        ( /\ r \in ApprovedFor(requests, u)
          /\ \A i \in DOMAIN Blocks : Blocks[i].rule = r => Gate(Blocks[i]) = "approve" )
        => ~ ( /\ answer'.kind \in {"refused", "held"} /\ answer'.stage = "pre"
               /\ answer'.user = u /\ answer'.rule = r )]_vars
=============================================================================
