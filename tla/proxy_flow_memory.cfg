SPECIFICATION Spec
CONSTANTS
    Users <- OneUser
    KeyPrefix <- OnePrefix
    Domains = {"hr", "pay"}
    Entities = {"p:ann"}
    Touched = Touched
    RuleIds = {"r1"}
    Backend = "memory"
    RuleOrder <- R1
    Blocks <- FlowPolicy
    PackOf <- Unpacked
    Packs = {}
    NoPack = NoPack
    Me <- MCMe
    Ttl = 2
    NoRule = NoRule
    Slots = {s1, s2}
    Tools = {"hr_list", "post"}
    DomainOf <- Writers
    WriteTools = {"post"}
    ListedTools = {"hr_list", "post"}
    Args = {"plain"}
    SecretArgs = {}
    RateLimits = FALSE
    HoldWait = 0
    ApprovalTtls = {}
    GrantTtls = {}
    PackToggles = {}
    Unpinned = {}
    Restarts = FALSE
    TokensExpire = FALSE
SYMMETRY SlotSymmetry
PROPERTIES FlowShield
