SPECIFICATION EdgesSpec
CONSTANTS
    \* sessions
    Users = {"you", "cfo"}
    KeyPrefix <- MCPrefix
    Domains = {"budget", "personnel", "rota", "web", "notes", "code", "customers", "pay", "timesheets", "plan", "board", "legal"}
    Entities <- MCPersons
    Touched = Touched
    RuleIds = {"JOIN", "BUDGET", "WALL", "BLOCK", "SELF", "MIN", "FLOW", "ARG", "APPROVE"}
    Backend = "redis"
    RuleOrder <- ConfRules
    Blocks <- ConfPolicy
    PackOf <- Unpacked
    Packs = {}
    NoPack = NoPack
    Me <- MCMe
    Ttl = 1
    NoRule = "no rule"
    Tools <- ConfTools
    DomainOf <- ConfDomains
    WriteTools = {"post_note"}
    PeopleIn <- FakeSession
    Scripts <- ConfScripts
    Others = {"cfo"}
    OtherTools = {"fin_roles", "web_post", "plan_read", "board_pack", "timecard"}
    NoArgs = NoArgs
    Probes <- ConfProbes
    GrantTtl = 1
    \* integrity
    PinTools = {t1, t2}
    Changing = {t1}
    Defs = {"benign", "poison"}
    PoisonedDefs = {"poison"}
    NoPin = NoPin
    ScanPoison = TRUE
    OnChange = "alert"
    OnPoison = "block"
    \* ratelimit
    Callers = {"u1", "u2"}
    MaxCalls = 2
    RlWindow = 2
    PerSecond = 3
    \* forward
    RowKinds <- MCRows
    QueueSize = 2
    Format = "ocsf"
    MaxEmits = 4
    \* signin
    OClients = {"c1", "c2"}
    People = {"ann"}
    Flows = {"f1"}
    Pairs = {1, 2}
    TxnTtl = 1
    CodeTtl = 1
    AccessTtl = 1
    RefreshTtl = 2
    IdentityClaim = NoClaim
    NoClaim = NoClaim
    \* packs
    SwitchProcs = {"proxy", "console"}
    PackIds = {"k1", "k2"}
    DefaultOn = {"k1"}
    Throws <- MCThrows
    \* scan
    Setups <- AgreedSetups
    Persons <- MCPersons
    Named <- MCNamed
    Operator = "you"
    Marker = Touched
    \* upstreams
    Principals = {"ann", "bob"}
    Ups = {"files", "drive", "crm"}
    Via <- MCVia
    PerUser = {"files", "crm"}
    Obo <- MCObo
    ListedUsers = {"ann"}
    Impersonates = {"drive"}
    Lines = {1, 2}
    \* audit
    Bodies = {b1, b2}
    MaxRows = 3
    MaxLines = 3
    MaxChanges = 2
    \* approvals
    Requests = {q1}
    Askers = {"ann"}
    UserOf <- MCUserOf
    Proxies = {"proxy"}
    CommandLines = {"shell"}
    KeptIn = "file"
    Approvers = {"owner", "other"}
    NoApprover = NoApprover
    MayApprove <- MCMayApprove
    Lifetimes = {1, 3}
    \* authoring, demo
    WalkUsers = {"manager"}
    WalkMe <- Boss
    WalkDomains = {"finance-planning", "finance-comp", "hr-personnel", "ops-rota", "pay-aggregates", "timesheets", "untrusted-web", "external-share", "restructuring-plan", "secrets-store"}
    WalkPeople <- MCPersons
    WalkRules = {"COC-HR-004", "COC-HR-011", "COC-HR-021", "COC-HR-031", "COC-SEC-001", "COC-SEC-002", "COC-MGMT-001"}
    WalkMarker = Touched
    Manager = "manager"
    Drafted <- MCDrafted
    ByHand <- MCByHand
    Mapped = {"finance-comp", "hr-personnel", "restructuring-plan"}
    Answers = {{}, {"p:alice"}, {"p:bob"}}
    LastDay = 2
INVARIANTS EdgesTypeOK ChecksHold DryRunTrue PinsAreTrusted Ceiling CopyInOrder Accounted
    TokensAreSignedIn SpentIsSpent GivenIsKept PackSwitched ClausesKept ActsForCaller
    GenuineUntilBroken BlamesHarm ApprovalsAreGiven GrantsAreGiven AuthorsAreTold
PROPERTIES ChangeShows RowsLeave
CHECK_DEADLOCK FALSE
