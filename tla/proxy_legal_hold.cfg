SPECIFICATION Spec
CONSTANTS
    Users <- OneUser
    KeyPrefix <- OnePrefix
    Domains = {"hr", "pay"}
    Entities = {"p:ann"}
    Touched = Touched
    RuleIds = {"r1", "r2"}
    Backend = "memory"
    RuleOrder <- R12
    Blocks <- LegalPolicy
    PackOf <- Unpacked
    Packs = {}
    NoPack = NoPack
    Me <- MCMe
    Ttl = 2
    NoRule = NoRule
    Slots = {s1, s2}
    Tools = {"hr_list", "post"}
    DomainOf <- Writers
    WriteTools = {"post"}
    ListedTools = {"hr_list", "post"}
    Args = {"plain"}
    SecretArgs = {}
    RateLimits = FALSE
    HoldWait = 0
    ApprovalTtls = {}
    GrantTtls = {1}
    PackToggles = {}
    Unpinned = {}
    Restarts = FALSE
    TokensExpire = FALSE
SYMMETRY SlotSymmetry
PROPERTIES LegalHold
