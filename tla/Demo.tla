-------------------------------- MODULE Demo --------------------------------
(* aggrete --demo in a terminal (_demo.py): a policy with a rule of each     *)
(* kind, a story of four requests told on one engine, and then a menu of     *)
(* plans, each put to the same engine as a dry run.                          *)
EXTENDS Walks

CONSTANTS Manager      \* _USER

VARIABLES told,     \* the outcomes of the story so far
          heard,    \* the engine's accumulator
          shown     \* the plan last picked from the menu, and its outcomes

demoVars == <<told, heard, shown>>

DenyBlock(r, kind) == [AnyBlock EXCEPT !.rule = r, !.kind = kind, !.action = "deny"]

(* _POLICY.                                                                  *)
DemoPolicy ==
    << [DenyBlock("COC-HR-004", "domain_join")     EXCEPT !.domains = {"hr-personnel", "finance-comp", "ops-rota"}],
       [DenyBlock("COC-HR-011", "entity_budget")   EXCEPT !.action = "alert", !.domain = "hr-personnel", !.max = 8],
       [DenyBlock("COC-HR-031", "min_group")       EXCEPT !.domain = "pay-aggregates", !.k = 10],
       [DenyBlock("COC-HR-021", "self_comparison") EXCEPT !.domain = "timesheets"],
       [DenyBlock("COC-SEC-002", "flow")           EXCEPT !.taint = {"untrusted-web"}, !.egress = {"external-share"}],
       [DenyBlock("COC-MGMT-001", "wall")          EXCEPT !.domains = {"restructuring-plan"}, !.until = 9],
       [DenyBlock("COC-SEC-001", "domain_block")   EXCEPT !.domains = {"secrets-store"}] >>

Colleagues == WalkPeople \ {WalkMe[Manager]}
Few        == CHOOSE S \in SUBSET Colleagues : Cardinality(S) = 2
One        == CHOOSE S \in SUBSET Few : Cardinality(S) = 1

(* _SEQUENCE, and what the story is about: the fourth request completes what *)
(* COC-HR-004 forbids.                                                       *)
Story      == << Read("finance-planning", {}), Read("finance-comp", Few),
                 Read("hr-personnel", Colleagues), Read("ops-rota", One) >>
StoryMeets == <<"allow", "allow", "alert", "deny">>

(* _SCENARIOS, each with what its label announces.                           *)
Layoffs  == [steps |-> << Read("finance-comp", Few), Read("hr-personnel", Few), Read("ops-rota", One) >>,
             meets |-> <<"allow", "allow", "deny">>]
Roster   == [steps |-> << Read("hr-personnel", Colleagues) >>, meets |-> <<"alert">>]
SmallPay == [steps |-> << Read("pay-aggregates", Few) >>, meets |-> <<"deny">>]
Hours    == [steps |-> << Read("timesheets", {WalkMe[Manager]}), Read("timesheets", One) >>,
             meets |-> <<"allow", "deny">>]
PostOut  == [steps |-> << Read("untrusted-web", {}), Step("external-share", TRUE, {}) >>,
             meets |-> <<"allow", "deny">>]
Embargo  == [steps |-> << Read("restructuring-plan", {}) >>, meets |-> <<"deny">>]
Vault    == [steps |-> << Read("secrets-store", {}) >>, meets |-> <<"deny">>]

Menu     == {Layoffs, Roster, SmallPay, Hours, PostOut, Embargo, Vault}
NoPick   == [steps |-> <<>>, meets |-> <<>>]

DemoTypeOK ==
    /\ told \in Seq(Outcomes) /\ Len(told) <= Len(Story)
    /\ heard \in StoreKept
    /\ shown \in [plan : Menu \cup {NoPick}, out : Seq(Outcomes)]

DemoInit ==
    /\ told = <<>> /\ heard = NewStore
    /\ shown = [plan |-> NoPick, out |-> <<>>]

StoryOver == Len(told) = Len(Story) \/ (told # <<>> /\ told[Len(told)] = "deny")

(* _story.                                                                   *)
Tell ==
    /\ ~StoryOver
    /\ \E c \in {Ask(DemoPolicy, 0, heard, Manager, Story[Len(told) + 1])} :
          told' = Append(told, Outcome(c.met)) /\ heard' = c.store
    /\ UNCHANGED shown

(* _interactive: simulate, over a store of its own.                          *)
Pick(plan) ==
    /\ StoryOver
    /\ shown' = [plan |-> plan, out |-> Walk(DemoPolicy, 0, Manager, plan.steps)]
    /\ UNCHANGED <<told, heard>>

DemoNext == Tell \/ \E plan \in Menu : Pick(plan)

(* The demo shows what it announces: of the story the fourth request, and of *)
(* each plan on the menu the last step, is what the rule is about, and what  *)
(* the story has pulled does not show in a plan.                             *)
DemoShows ==
    /\ \A n \in DOMAIN told : told[n] = StoryMeets[n]
    /\ shown.out = shown.plan.meets
=============================================================================
