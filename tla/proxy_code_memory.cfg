SPECIFICATION Spec
CONSTANTS
    Users <- OneUser
    KeyPrefix <- OnePrefix
    Domains = {"hr", "pay"}
    Entities <- People
    Touched = Touched
    RuleIds = {"r1", "r2", "r3"}
    Backend = "memory"
    RuleOrder <- R123
    Blocks <- AccumulationPolicy
    PackOf <- Unpacked
    Packs = {}
    NoPack = NoPack
    Me <- MCMe
    Ttl = 2
    NoRule = NoRule
    Slots = {s1, s2}
    Tools = {"hr_list", "pay_list"}
    DomainOf <- Readers
    WriteTools = {}
    ListedTools = {"hr_list", "pay_list"}
    Args = {"plain"}
    SecretArgs = {}
    RateLimits = FALSE
    HoldWait = 0
    ApprovalTtls = {}
    GrantTtls = {}
    PackToggles = {}
    Unpinned = {"pay_list"}
    Restarts = FALSE
    TokensExpire = FALSE
SYMMETRY SlotSymmetry
INVARIANTS TypeOK StoreCoversHeld
PROPERTIES HoldsToCode
