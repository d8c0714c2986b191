SPECIFICATION Spec
CONSTANTS
    Users <- OneUser
    KeyPrefix <- OnePrefix
    Domains = {"hr", "pay"}
    Entities = {"p:ann"}
    Touched = Touched
    RuleIds = {"r1", "r2"}
    Backend = "redis"
    RuleOrder <- R12
    Blocks <- ApprovalPolicy
    PackOf <- Packed
    Packs = {"pack1"}
    NoPack = NoPack
    Me <- MCMe
    Ttl = 2
    NoRule = NoRule
    Slots = {s1, s2}
    Tools = {"hr_list", "pay_list"}
    DomainOf <- Readers
    WriteTools = {}
    ListedTools = {"hr_list", "pay_list"}
    Args = {"plain"}
    SecretArgs = {}
    RateLimits = FALSE
    HoldWait = 0
    ApprovalTtls = {2}
    GrantTtls = {}
    PackToggles = {"pack1"}
    Unpinned = {}
    Restarts = TRUE
    TokensExpire = TRUE
SYMMETRY SlotSymmetry
PROPERTIES HoldsToCode
