SPECIFICATION FairSpec
CONSTANTS
    Users <- OneUser
    KeyPrefix <- OnePrefix
    Domains = {"hr", "pay"}
    Entities = {"p:ann"}
    Touched = Touched
    RuleIds = {"r1", "r2"}
    Backend = "redis"
    RuleOrder <- R12
    Blocks <- ShieldPolicy
    PackOf <- Unpacked
    Packs = {}
    NoPack = NoPack
    Me <- MCMe
    Ttl = 2
    NoRule = NoRule
    Slots = {s1, s2}
    Tools = {"hr_list", "post", "debug"}
    DomainOf <- Unlisted
    WriteTools = {"post"}
    ListedTools = {"hr_list", "post"}
    Args = {"plain", "all", "secret"}
    SecretArgs = {"secret"}
    RateLimits = TRUE
    HoldWait = 2
    ApprovalTtls = {1}
    GrantTtls = {}
    PackToggles = {}
    Unpinned = {}
    Restarts = FALSE
    TokensExpire = FALSE
PROPERTIES FlowShield ApprovedGoesThrough HoldAnswered
