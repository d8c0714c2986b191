------------------------------ MODULE MCEdges ------------------------------
(* The components around the call path, side by side: an instance of each,   *)
(* one of which (part) runs while the others stay as they began.  They share *)
(* no state with one another, so their interleavings show nothing more; what *)
(* they share with the call path is in Proxy and Gateways.                   *)
EXTENDS Conformance, Integrity, RateLimit, Forward, SignIn, PackSwitch, MCScan, Upstreams, Audit, Approvals,
        Authoring, Demo

VARIABLE part

Parts == {"sessions", "integrity", "ratelimit", "forward", "signin", "packs", "scan", "upstreams", "audit",
          "approvals", "authoring", "demo"}

(* The part that runs begins as it may, the others in one way, which for     *)
(* those that keep a store is without what would be in it.                   *)
NoStore == [ents |-> {}, seen |-> {}, grants |-> EmptyStore.grants]

SessionsBegin ==
    IF part = "sessions" THEN SessionsInit
    ELSE /\ packs = Packs /\ date = 0
         /\ store = NoStore /\ requests = {}
         /\ script = C02 /\ verdicts = <<>> /\ dryRun = NotAsked

ScanBegins ==
    IF part = "scan" THEN ScanInit
    ELSE /\ setup = Company /\ fixed = NotScanned /\ session = NoStore
         /\ obtained = {} /\ escaped = {}

AuthorsBegin ==
    IF part = "authoring" THEN AuthoringInit
    ELSE /\ document = <<>> /\ author = "nobody" /\ today = 0
         /\ pulled = NoStore /\ named = {} /\ refused = FALSE

DemoBegins ==
    IF part = "demo" THEN DemoInit
    ELSE told = <<>> /\ heard = NoStore /\ shown = [plan |-> NoPick, out |-> <<>>]

EdgesInit ==
    /\ part \in Parts
    /\ SessionsBegin /\ ScanBegins
    /\ UpInit /\ (part = "upstreams" \/ sessions = Ups)
    /\ PinInit /\ toolDef = [t \in PinTools |-> "benign"]     \* one of what ChangeTool
    /\ RlInit /\ phase = 0                                     \* and RlTick lead to
    /\ FwdInit /\ SignInit /\ SwitchInit /\ AuditInit /\ ApprovalsInit
    /\ AuthorsBegin /\ DemoBegins

(* Part p may move, and the others do not.                                   *)
Only(p) ==
    /\ part = p /\ UNCHANGED part
    /\ IF p = "sessions"   THEN TRUE ELSE UNCHANGED sessionVars
    /\ IF p = "integrity"  THEN TRUE ELSE UNCHANGED pinVars
    /\ IF p = "ratelimit"  THEN TRUE ELSE UNCHANGED rlVars
    /\ IF p = "forward"    THEN TRUE ELSE UNCHANGED fwdVars
    /\ IF p = "signin"     THEN TRUE ELSE UNCHANGED signVars
    /\ IF p = "packs"      THEN TRUE ELSE UNCHANGED switchVars
    /\ IF p = "scan"       THEN TRUE ELSE UNCHANGED scanVars
    /\ IF p = "upstreams"  THEN TRUE ELSE UNCHANGED upVars
    /\ IF p = "audit"      THEN TRUE ELSE UNCHANGED auditVars
    /\ IF p = "approvals"  THEN TRUE ELSE UNCHANGED approvalsVars
    /\ IF p = "authoring"  THEN TRUE ELSE UNCHANGED authoringVars
    /\ IF p = "demo"       THEN TRUE ELSE UNCHANGED demoVars

EdgesNext ==
    \/ Only("sessions")    /\ SessionsNext
    \/ Only("integrity")   /\ PinNext
    \/ Only("ratelimit")   /\ RlNext
    \/ Only("forward")     /\ FwdNext
    \/ Only("signin")      /\ SignNext
    \/ Only("packs")       /\ SwitchNext
    \/ Only("scan")        /\ ScanNext
    \/ Only("upstreams")   /\ UpNext
    \/ Only("audit")       /\ AuditNext
    \/ Only("approvals")   /\ ApprovalsNext
    \/ Only("authoring")   /\ AuthoringNext
    \/ Only("demo")        /\ DemoNext

edgesVars == <<part, sessionVars, pinVars, rlVars, fwdVars, signVars, switchVars, scanVars, upVars, auditVars,
               approvalsVars, authoringVars, demoVars>>

(* Forward's own fairness, of the thread that ships the rows.                *)
EdgesSpec == EdgesInit /\ [][EdgesNext]_edgesVars /\ WF_edgesVars(Only("forward") /\ Thread)

(* Each part's type invariant.                                               *)
EdgesTypeOK ==
    CASE part = "sessions"  -> SessionsTypeOK
      [] part = "integrity" -> IntegrityTypeOK
      [] part = "ratelimit" -> RateLimitTypeOK
      [] part = "forward"   -> ForwardTypeOK
      [] part = "signin"    -> SignInTypeOK
      [] part = "packs"     -> PackSwitchTypeOK
      [] part = "scan"      -> ScanTypeOK
      [] part = "upstreams" -> UpstreamsTypeOK
      [] part = "audit"     -> AuditTypeOK
      [] part = "approvals" -> ApprovalsTypeOK
      [] part = "authoring" -> AuthoringTypeOK
      [] part = "demo"      -> DemoTypeOK

(* What the repository shows of itself by running it: the checks of the      *)
(* conformance suite and its scenarios with other users at work, and the     *)
(* story and the menu of the demo.                                           *)
ChecksHold == (part = "sessions" => SuiteHolds) /\ DemoShows
-----------------------------------------------------------------------------
(* The instance.                                                             *)
MCPrefix  == {<<u, u>> : u \in Users}
MCMe      == [u \in Users |-> IF u = You THEN "p:you" ELSE "p:bob"]
Unpacked  == [r \in RuleIds |-> NoPack]
ConfTools == DOMAIN ConfDomains
MCVia     == [files |-> "stdio", drive |-> "stdio", crm |-> "http"]
MCObo     == [files |-> "none", drive |-> "none", crm |-> "command"]

(* One request of one user, before a proxy and a command line.               *)
MCUserOf     == [i \in Requests |-> "ann"]
MCMayApprove == {"owner"} \X Requests

(* Rules for the authors: each with its tests, and with the action that the  *)
(* model, or whoever writes the policy, gives it.                            *)
Boss   == [u \in {"manager"} |-> "p:you"]
Trial(steps, out) == [user |-> "manager", steps |-> steps, expect |-> out]
Rule(block, severity, tests) == [id |-> block.rule, severity |-> severity, enforce |-> <<block>>, tests |-> tests]
Bare(block) == Rule(block, "high", {})

Pay   == Read("finance-comp", {"p:alice"})
Staff == Read("hr-personnel", {"p:alice"})
Plan  == Read("restructuring-plan", {})

JoinBlock   == [AnyBlock EXCEPT !.rule = "COC-HR-004", !.kind = "domain_join",
                                !.action = "deny", !.domains = {"hr-personnel", "finance-comp"}]
BudgetBlock == [AnyBlock EXCEPT !.rule = "COC-HR-011", !.kind = "entity_budget",
                                !.action = "alert", !.domain = "hr-personnel", !.max = 1]
WallBlock   == [AnyBlock EXCEPT !.rule = "COC-MGMT-001", !.domains = {"restructuring-plan"}, !.until = 1]
FlowBlock   == [AnyBlock EXCEPT !.rule = "COC-SEC-002", !.kind = "flow", !.egress = {"finance-comp"}]

JoinTests(out) == {Trial(<<Pay, Staff>>, out), Trial(<<Pay, Plan>>, "allow")}

MCDrafted ==
    LET join(out) == Rule(JoinBlock, "high", JoinTests(out))
        budget    == Rule(BudgetBlock, "low", {Trial(<<Staff>>, "allow"),
                                               Trial(<<Read("hr-personnel", {"p:alice", "p:bob"})>>, "alert")})
        wall(out) == Rule(WallBlock, "high", {Trial(<<Plan>>, out), Trial(<<Pay>>, "allow")})
    IN  {<<join("alert")>>, <<join("deny")>>, <<budget, join("alert")>>, <<wall("deny")>>, <<join("alert"), wall("alert")>>}

MCByHand ==
    { <<Bare(WallBlock), Bare(FlowBlock)>>, <<Bare([FlowBlock EXCEPT !.taint = {"hr-personnel"}])>>,
      <<Bare([JoinBlock EXCEPT !.domains = {"hr-personnel", "timesheets"}])>>,
      <<Bare([BudgetBlock EXCEPT !.domain = "timesheets", !.action = "deny"]), Bare(JoinBlock)>> }

MCThrows == {<<"proxy", "k1", "off">>, <<"console", "k1", "on">>, <<"console", "k2", "off">>}

MCRows == { [decision |-> "deny", redacted |-> FALSE, alerts |-> FALSE],
            [decision |-> "allow", redacted |-> TRUE, alerts |-> TRUE] }
=============================================================================
