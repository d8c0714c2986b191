------------------------------- MODULE MCProxy ------------------------------
(* Instances of Proxy: one or two users, three domains, a tool for each and  *)
(* one write tool, and policies of a few blocks each.                        *)
EXTENDS Proxy, TLC

SlotSymmetry == Permutations(Slots)

Rule(r, kind) == [Block EXCEPT !.rule = r, !.kind = kind]

OneUser   == {"ann"}
OnePrefix == {<<"ann", "ann">>}
TwoUsers  == {"ann", "bob"}
TwoPrefix == {<<"ann", "ann">>, <<"bob", "bob">>}
MCMe      == [u \in Users |-> IF u = "ann" THEN "p:ann" ELSE "p:bob"]
People    == {"p:ann", "p:bob"}

Readers   == [hr_list |-> "hr", pay_list |-> "pay"]
Writers   == [hr_list |-> "hr", post |-> "pay"]
Unlisted  == [hr_list |-> "hr", post |-> "pay", debug |-> "pay"]

Unpacked  == [r \in RuleIds |-> NoPack]
Packed    == [r \in RuleIds |-> IF r = "r1" THEN "pack1" ELSE NoPack]
R1        == <<"r1">>
R12       == <<"r1", "r2">>
R123      == <<"r1", "r2", "r3">>

(* r1 forbids the same person in hr and pay, r2 caps the people of pay, and  *)
(* r3 refuses the caller's own record next to others' in hr.                 *)
AccumulationPolicy ==
    << [Rule("r1", "domain_join") EXCEPT !.domains = {"hr", "pay"}],
       [Rule("r2", "entity_budget") EXCEPT !.domain = "pay", !.max = 1, !.action = "deny"],
       [Rule("r3", "self_comparison") EXCEPT !.domain = "hr", !.action = "deny"] >>

(* r1 (in pack1) holds any reading of both hr and pay for approval, whoever  *)
(* it is about; r2 refuses answers about a single person in pay.             *)
ApprovalPolicy ==
    << [Rule("r1", "domain_join") EXCEPT !.domains = {"hr", "pay"}, !.overlap = FALSE,
                                         !.action = "approve"],
       [Rule("r2", "min_group") EXCEPT !.domain = "pay", !.k = 2, !.action = "deny"] >>

(* r1 as a join that exempts bob, in force until day 2.                      *)
ScopedPolicy ==
    << [Rule("r1", "domain_join") EXCEPT !.domains = {"hr", "pay"}, !.allowed = {"bob"},
                                         !.until = 2] >>
AllBob == [u \in Users |-> "p:bob"]

(* r1 shields writes once hr was read, and r2 asks for an approval for one   *)
(* argument of a read.                                                       *)
ShieldPolicy ==
    << [Rule("r1", "flow") EXCEPT !.taint = {"hr"}],
       [Rule("r2", "arg_match") EXCEPT !.tools = {"hr_list"}, !.when = {"all"}, !.action = "approve"] >>

FlowPolicy  == << [Rule("r1", "flow") EXCEPT !.taint = {"hr"}] >>
GroupPolicy == << [Rule("r1", "min_group") EXCEPT !.domain = "pay", !.action = "approve"] >>

LegalPolicy ==
    << [Rule("r1", "flow") EXCEPT !.taint = {"hr"}],
       [Rule("r2", "domain_block") EXCEPT !.domains = {"pay"}] >>
=============================================================================
