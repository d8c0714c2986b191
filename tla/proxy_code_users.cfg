SPECIFICATION Spec
CONSTANTS
    Users <- TwoUsers
    KeyPrefix <- TwoPrefix
    Domains = {"hr", "pay"}
    Entities = {"p:bob"}
    Touched = Touched
    RuleIds = {"r1"}
    Backend = "memory"
    RuleOrder <- R1
    Blocks <- ScopedPolicy
    PackOf <- Unpacked
    Packs = {}
    NoPack = NoPack
    Me <- AllBob
    Ttl = 1
    NoRule = NoRule
    Slots = {s1, s2}
    Tools = {"hr_list", "pay_list"}
    DomainOf <- Readers
    WriteTools = {}
    ListedTools = {"hr_list", "pay_list"}
    Args = {"plain"}
    SecretArgs = {}
    RateLimits = FALSE
    HoldWait = 0
    ApprovalTtls = {}
    GrantTtls = {1}
    PackToggles = {}
    Unpinned = {}
    Restarts = FALSE
    TokensExpire = FALSE
SYMMETRY SlotSymmetry
PROPERTIES HoldsToCode
