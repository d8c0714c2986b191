----------------------------- MODULE MCGateways -----------------------------
(* An instance of Gateways: an agentgateway processor that is not told the   *)
(* tool of a result, an adapter and a hook, over one Redis.                  *)
EXTENDS Gateways, TLC

CONSTANT Teams             \* bound: the processes that are put to use together

VARIABLE working           \* one of them

SlotSymmetry == Permutations(Slots)

(* No step depends on what the last one answered.                            *)
Undecided == <<working, packs, date, store, requests, call, job, last, fresh, astray, held>>

(* Gateways, of which only the processes of one team are asked anything.     *)
TeamInit == working \in Teams /\ Init
TeamNext == UNCHANGED working /\ ((\E p \in working : Serves(p)) \/ Outside)
TeamSpec == TeamInit /\ [][TeamNext]_<<working, vars>>

MCKindOf  == [p \in Procs |-> IF p = "x" THEN "agentgateway" ELSE IF p = "a" THEN "adapter" ELSE "hook"]
MCDomain  == [hr_list |-> "hr", pay_set |-> "pay"]
MCBackend == [t \in Tools |-> "crm"]
MCPrefix  == {<<u, u>> : u \in Users}
MCMe      == [u \in Users |-> "p:bob"]
Unpacked  == [r \in RuleIds |-> NoPack]
R12       == <<"r1", "r2">>

Rule(r, kind) == [Block EXCEPT !.rule = r, !.kind = kind]

(* r1 lets nobody list all of hr, and nobody but bob write to pay; r2 asks   *)
(* for approval before anybody has read both.                                *)
GatewayPolicy ==
    << [Rule("r1", "arg_match") EXCEPT !.tools = {"hr_list"}, !.when = {"all"}],
       [Rule("r1", "wall") EXCEPT !.domains = {"pay"}, !.allowed = {"bob"}, !.applies = "write"],
       [Rule("r2", "domain_join") EXCEPT !.domains = {"hr", "pay"}, !.overlap = FALSE,
                                         !.action = "approve"] >>

(* The same without approvals.                                               *)
FilingPolicy == [i \in DOMAIN GatewayPolicy |-> [GatewayPolicy[i] EXCEPT !.action = "unset"]]
=============================================================================
