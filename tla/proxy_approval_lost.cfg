SPECIFICATION Spec
CONSTANTS
    Users <- OneUser
    KeyPrefix <- OnePrefix
    Domains = {"hr", "pay"}
    Entities = {"p:ann"}
    Touched = Touched
    RuleIds = {"r1"}
    Backend = "memory"
    RuleOrder <- R1
    Blocks <- GroupPolicy
    PackOf <- Unpacked
    Packs = {}
    NoPack = NoPack
    Me <- MCMe
    Ttl = 2
    NoRule = NoRule
    Slots = {s1, s2}
    Tools = {"hr_list", "pay_list"}
    DomainOf <- Readers
    WriteTools = {}
    ListedTools = {"hr_list", "pay_list"}
    Args = {"plain"}
    SecretArgs = {}
    RateLimits = FALSE
    HoldWait = 0
    ApprovalTtls = {2}
    GrantTtls = {}
    PackToggles = {}
    Unpinned = {}
    Restarts = FALSE
    TokensExpire = FALSE
SYMMETRY SlotSymmetry
PROPERTIES ApprovalStands
