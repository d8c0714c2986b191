------------------------------- MODULE Policy -------------------------------
(* The decision engine: a code of conduct compiled into blocks, evaluated on *)
(* a call's arguments, before its upstream call and after it.  Everything    *)
(* here is a function of a store (Store.tla), the enabled packs and the date.*)
(*                                                                           *)
(* Blocks lists the enforce blocks of all rules in the order the engine      *)
(* meets them: rules in document order and, inside a rule, by Rank of kind.  *)
(* The engine stops at the first block that decides, so the order matters.   *)
EXTENDS Store, Sequences

CONSTANTS Backend,     \* which store the engine was given
          RuleOrder,   \* the rule ids in document order
          Blocks,      \* the enforce blocks, in evaluation order
          PackOf,      \* rule id -> its pack, or NoPack
          Packs, NoPack,
          Me,          \* user -> the entity naming that user ("p:" + the name)
          Ttl,         \* the largest window of any block: every record's ttl
          NoRule

Kinds == <<"arg_match", "flow", "domain_block", "wall", "min_group",
           "entity_budget", "self_comparison", "domain_join">>

(* Where a kind comes in the order a rule's blocks are visited.              *)
Rank(kind) == CHOOSE n \in DOMAIN Kinds : Kinds[n] = kind
RulePos(r) == CHOOSE n \in DOMAIN RuleOrder : RuleOrder[n] = r

(* A block with the values the code assumes for keys the policy leaves out.  *)
Block == [rule |-> NoRule, kind |-> "wall", action |-> "unset",
          allowed |-> {}, blocked |-> {}, since |-> 0, until |-> 0,
          applies |-> "both", domains |-> {}, domain |-> NoRule,
          overlap |-> TRUE, max |-> 0, k |-> 10,
          taint |-> {}, egress |-> {}, egressOnWrite |-> TRUE,
          tools |-> {}, when |-> {}]

ASSUME BackendAssumption == Backend \in Backends
ASSUME TtlAssumption == Ttl \in Nat \ {0}
ASSUME EntitiesAssumption == IsFiniteSet(Entities)
ASSUME MeAssumption == Me \in [Users -> Entities]
ASSUME PolicyAssumption ==
    /\ PackOf \in [RuleIds -> Packs \cup {NoPack}]
    /\ NoPack \notin Packs /\ NoRule \notin RuleIds
    /\ Len(Blocks) \in Nat /\ DOMAIN Blocks = 1..Len(Blocks)
    /\ \A i \in DOMAIN Blocks : /\ DOMAIN Blocks[i] = DOMAIN Block
                                /\ Blocks[i].rule \in RuleIds /\ Blocks[i].max \in Nat
                                /\ \E n \in DOMAIN Kinds : Kinds[n] = Blocks[i].kind
    /\ \A i, j \in DOMAIN Blocks : i < j =>
          \/ RulePos(Blocks[i].rule) < RulePos(Blocks[j].rule)
          \/ /\ Blocks[i].rule = Blocks[j].rule
             /\ Rank(Blocks[i].kind) <= Rank(Blocks[j].kind)
    /\ \A i \in DOMAIN Blocks : Blocks[i].kind = "domain_join" =>
          /\ Blocks[i].domains \subseteq Domains
          /\ Cardinality(Blocks[i].domains) >= 2

VARIABLES packs,     \* the packs switched on
          date       \* the wall clock, as far as since / until tell days apart

LastDate == LET named == {0} \cup {Blocks[i].since : i \in DOMAIN Blocks}
                             \cup {Blocks[i].until : i \in DOMAIN Blocks}
            IN  CHOOSE n \in named : \A m \in named : m <= n

-----------------------------------------------------------------------------
(* What a block may do at all.                                               *)

(* pack_enabled: a rule outside every pack is always active.                 *)
Active(b) == PackOf[b.rule] = NoPack \/ PackOf[b.rule] \in packs

InScope(b, u) ==
    /\ u \notin b.allowed
    /\ b.blocked = {} \/ u \in b.blocked
    /\ b.since = 0 \/ date >= b.since
    /\ b.until = 0 \/ date < b.until

DefaultAction(b) ==
    IF b.kind \in {"min_group", "entity_budget", "self_comparison"} THEN "alert" ELSE "deny"

(* gate: "deny" and "approve" stop a call, anything else only records.       *)
Gate(b) == IF b.action = "unset" THEN DefaultAction(b) ELSE b.action
Stops(b) == Gate(b) \in {"deny", "approve"}

AppliesTo(b, w) == \/ b.applies = "write" /\ w
                   \/ b.applies = "read" /\ ~w
                   \/ b.applies \notin {"write", "read"}

(* _deny, and the two ways a call is let through.                            *)
Decision == [allow : BOOLEAN, rule : RuleIds \cup {NoRule}, approve : BOOLEAN,
             purpose : RuleIds \cup {NoRule}, alerts : SUBSET RuleIds]

Allowed      == [allow |-> TRUE, rule |-> NoRule, approve |-> FALSE,
                 purpose |-> NoRule, alerts |-> {}]
Waived(b)    == [Allowed EXCEPT !.rule = b.rule, !.purpose = b.rule]
Alerting(b)  == [Allowed EXCEPT !.rule = b.rule, !.alerts = {b.rule}]
Denied(b)    == [Allowed EXCEPT !.allow = FALSE, !.rule = b.rule,
                                !.approve = Gate(b) = "approve"]

First(S) == CHOOSE i \in S : \A j \in S : i <= j

-----------------------------------------------------------------------------
(* Before the upstream call.                                                 *)

FlowFires(st, u, d, w, b) ==
    /\ b.kind = "flow"
    /\ d \in b.egress \/ (w /\ b.egressOnWrite)
    /\ InScope(b, u) /\ Stops(b)
    /\ b.taint \cap DomainsOf(Backend, st, u) # {}

GateFires(u, d, w, b) ==
    /\ b.kind \in {"domain_block", "wall"}
    /\ d \in b.domains /\ InScope(b, u) /\ AppliesTo(b, w) /\ Stops(b)

JoinWouldComplete(st, u, d, b) ==
    /\ b.kind = "domain_join"
    /\ d \in b.domains /\ InScope(b, u) /\ Stops(b)
    /\ b.domains \ {d} \subseteq DomainsOf(Backend, st, u)
    /\ b.overlap => \E e \in Entities : \A x \in b.domains \ {d} : e \in EntitiesOf(st, u, x)

PreFires(st, u, d, w) ==
    {i \in DOMAIN Blocks : /\ Active(Blocks[i])
                           /\ \/ FlowFires(st, u, d, w, Blocks[i])
                              \/ GateFires(u, d, w, Blocks[i])
                              \/ JoinWouldComplete(st, u, d, Blocks[i])}

(* A grant for the rule lets the call through, except past a domain_block    *)
(* whose action is deny (legal hold).                                        *)
Waivable(b) == b.kind # "domain_block" \/ Gate(b) = "approve"

PreCall(st, u, d, w) ==
    LET fires == PreFires(st, u, d, w)
        b     == Blocks[First(fires)]
    IN  IF fires = {} THEN Allowed
        ELSE IF Waivable(b) /\ Granted(st, u, b.rule) THEN Waived(b) ELSE Denied(b)

(* tool_visible: the static gates that hide a tool.  It looks at the action a *)
(* block names, not at what it applies to.                                   *)
ToolVisible(st, u, d) ==
    ~ \E i \in DOMAIN Blocks : LET b == Blocks[i] IN
        /\ b.kind \in {"domain_block", "wall"} /\ Active(b)
        /\ d \in b.domains /\ b.action \in {"unset", "deny"} /\ InScope(b, u)
        /\ b.kind = "wall" => ~Granted(st, u, b.rule)

(* arg_match rules: a tool pattern (tools, {} is any) and the argument       *)
(* values that meet every condition of deny_when.                            *)
ArgFires(u, t, a) ==
    {i \in DOMAIN Blocks : LET b == Blocks[i] IN
        /\ Active(b) /\ b.kind = "arg_match"
        /\ b.tools = {} \/ t \in b.tools
        /\ InScope(b, u) /\ a \in b.when}

CheckArgs(st, u, t, a) ==
    LET fires == ArgFires(u, t, a)
        b     == Blocks[First(fires)]
    IN  IF fires = {} THEN Allowed
        ELSE IF ~Stops(b) THEN Alerting(b)
        ELSE IF Granted(st, u, b.rule) THEN Waived(b) ELSE Denied(b)

-----------------------------------------------------------------------------
(* After the upstream call: st is the store the result is already recorded   *)
(* in, es the entities the result names.                                     *)

(* Mutants of this part: off by one in the group's size, no second look at a *)
(* join after the call, and a grant that counts for everybody.               *)
GroupTooSmallOffByOne(u, d, es, b) ==
    b.kind = "min_group" /\ b.domain = d /\ InScope(b, u) /\ Cardinality(es) \in 1..(b.k - 2)

JoinOnlyBefore(st, u, d, b) == FALSE

RefusingUnlessAnyGrant(st, u, S) ==
    {i \in S : Stops(Blocks[i]) /\ \A v \in Users : ~Granted(st, v, Blocks[i].rule)}

GroupTooSmall(u, d, es, b) ==
    b.kind = "min_group" /\ b.domain = d /\ InScope(b, u) /\ Cardinality(es) \in 1..(b.k - 1)

OverBudget(st, u, d, b) ==
    b.kind = "entity_budget" /\ b.domain = d /\ Cardinality(EntitiesOf(st, u, d)) > b.max

SelfCompared(st, u, d, b) ==
    /\ b.kind = "self_comparison" /\ b.domain = d
    /\ Me[u] \in EntitiesOf(st, u, d) /\ EntitiesOf(st, u, d) # {Me[u]}

JoinComplete(st, u, d, b) ==
    /\ b.kind = "domain_join"
    /\ d \in b.domains /\ InScope(b, u)
    /\ b.domains \subseteq DomainsOf(Backend, st, u)
    /\ b.overlap => \E e \in Entities : \A x \in b.domains : e \in EntitiesOf(st, u, x)

PostFires(st, u, d, es) ==
    {i \in DOMAIN Blocks : LET b == Blocks[i] IN
        /\ Active(b)
        /\ \/ GroupTooSmall(u, d, es, b) \/ OverBudget(st, u, d, b)
           \/ SelfCompared(st, u, d, b)  \/ JoinComplete(st, u, d, b)}

Refusing(st, u, S) == {i \in S : Stops(Blocks[i]) /\ ~Granted(st, u, Blocks[i].rule)}

(* The alerts met before the refusal go with it only from a domain_join.     *)
PostCall(st, u, d, es) ==
    LET fires   == PostFires(st, u, d, es)
        refuses == Refusing(st, u, fires)
        i       == First(refuses)
    IN  IF refuses = {} THEN [Allowed EXCEPT !.alerts = {Blocks[j].rule : j \in fires}]
        ELSE [Denied(Blocks[i]) EXCEPT !.alerts =
                 IF Blocks[i].kind = "domain_join"
                 THEN {Blocks[j].rule : j \in {n \in fires : n < i}} ELSE {}]
=============================================================================
