----------------------------- MODULE Conformance -----------------------------
(* The bundled conformance policy, one rule per mechanism, and the checks of *)
(* conformance/__init__.py and scenarios of conformance/blackbox.py that ask *)
(* something of the call path, as policy and scripts of Sessions.  Checks of *)
(* one component alone (C07 to C10, C16) are that component's own module.    *)
EXTENDS Sessions

You == "you"
Cfo == "cfo"

ConfRules ==
    <<"JOIN", "BUDGET", "WALL", "BLOCK", "SELF", "MIN", "FLOW", "ARG", "APPROVE">>

Deny(r, kind) == [Block EXCEPT !.rule = r, !.kind = kind, !.action = "deny"]

ConfPolicy ==
    << [Deny("JOIN", "domain_join")        EXCEPT !.domains = {"personnel", "budget", "rota"}],
       [Deny("BUDGET", "entity_budget")    EXCEPT !.domain = "customers", !.max = 5],
       [Deny("WALL", "wall")               EXCEPT !.domains = {"plan"}, !.allowed = {Cfo}],
       [Deny("BLOCK", "domain_block")      EXCEPT !.domains = {"legal"}],
       [Deny("SELF", "self_comparison")    EXCEPT !.domain = "timesheets"],
       [Deny("MIN", "min_group")           EXCEPT !.domain = "pay", !.k = 10],
       [Deny("FLOW", "flow")               EXCEPT !.taint = {"web"}, !.egress = {"code"}],
       [Deny("ARG", "arg_match")           EXCEPT !.tools = {"crm_export"}, !.when = {"all"}],
       [Deny("APPROVE", "wall")            EXCEPT !.domains = {"board"}, !.allowed = {Cfo},
                                                  !.action = "approve"] >>

(* Ctx: the tools of the suite, their domains, and what FakeSession answers. *)
ConfDomains ==
    [fin_roles |-> "budget", hr_joiners |-> "personnel", ops_oncall |-> "rota",
     web_post |-> "web", post_note |-> "notes", code_repo |-> "code", crm_export |-> "customers",
     crm_customers |-> "customers", pay_band |-> "pay", timecard |-> "timesheets",
     plan_read |-> "plan", board_pack |-> "board"]

TwoOfThem  == {"p:alice", "p:bob"}
Customers  == {"p:c0", "p:c1", "p:c2", "p:c3", "p:c4", "p:c5"}

FakeSession ==
    [t \in DOMAIN ConfDomains |->
        CASE t = "crm_customers" -> Customers
          [] t = "timecard"      -> {"p:you", "p:bob"}
          [] OTHER               -> TwoOfThem]

Ok(t)         == Call(You, t, NoArgs, "allow", NoRule)
Refuse(t, r)  == Call(You, t, NoArgs, "deny", r)

C01 == << Refuse("plan_read", "WALL") >>
C02 == << Ok("fin_roles"), Ok("hr_joiners"), Refuse("ops_oncall", "JOIN") >>
C03 == << Ok("post_note"), Ok("web_post"), Refuse("post_note", "FLOW"), Refuse("code_repo", "FLOW") >>
C04 == << Call(You, "crm_export", "team", "allow", NoRule), Call(You, "crm_export", "all", "deny", "ARG") >>
C11 == << Call(You, "board_pack", NoArgs, "hold", "APPROVE"), Given("approve", You, "APPROVE"),
          Ok("board_pack") >>
C13 == << Refuse("pay_band", "MIN"), Refuse("timecard", "SELF"), Refuse("crm_customers", "BUDGET") >>
C14 == << Refuse("plan_read", "WALL"), Given("grant", You, "WALL"), Ok("plan_read") >>

(* run_scenarios: one session through them all, in this order.               *)
BlackBox ==
    << Ok("post_note"), Ok("fin_roles"), Ok("hr_joiners"), Refuse("ops_oncall", "JOIN"),
       Ok("web_post"), Refuse("post_note", "FLOW"),
       Call(You, "crm_export", "team", "allow", NoRule), Call(You, "crm_export", "all", "deny", "ARG"),
       Refuse("plan_read", "WALL") >>

ConfScripts == {C01, C02, C03, C04, C11, C13, C14, BlackBox}

ConfProbes  == {TwoOfThem, Customers}

(* C12: the tools a person may never call are not listed, unless a purpose   *)
(* was granted; those that are held for an approval are.                     *)
C12 == /\ ToolVisible(store, You, "plan") <=> Granted(store, You, "WALL")
       /\ ToolVisible(store, Cfo, "plan") /\ ~ToolVisible(store, You, "legal")
       /\ ToolVisible(store, You, "board")

(* What the conformance suite asserts of a gateway with one user on it holds *)
(* of one with others at work: every step of every script meets what its     *)
(* check says, and the listing is as it says, whatever the other users have  *)
(* pulled, asked for or been refused in between.                             *)
SuiteHolds == ScriptsMeet /\ C12
=============================================================================
