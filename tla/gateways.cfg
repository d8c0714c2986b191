SPECIFICATION TeamSpec
CONSTANTS
    Users = {"ann"}
    KeyPrefix <- MCPrefix
    Domains = {"hr", "pay"}
    Entities = {"p:bob"}
    Touched = Touched
    RuleIds = {"r1", "r2"}
    Backend = "redis"
    RuleOrder <- R12
    Blocks <- GatewayPolicy
    PackOf <- Unpacked
    Packs = {}
    NoPack = NoPack
    Me <- MCMe
    Ttl = 1
    NoRule = NoRule
    Procs = {"x", "a", "h"}
    KindOf <- MCKindOf
    Slots = {s1, s2}
    Tools = {"hr_list", "pay_set"}
    DomainOf <- MCDomain
    WriteTools = {"pay_set"}
    ListedTools = {"hr_list", "pay_set"}
    BackendOf <- MCBackend
    NoTool = NoTool
    NamesTool = FALSE
    Args = {"plain", "all", "key"}
    SecretArgs = {"key"}
    Masks = FALSE
    Masked = "plain"
    RateLimits = TRUE
    Unreadable = TRUE
    Restarts = TRUE
    ApprovalTtls = {1}
    Teams = {{"x", "a"}, {"h"}}
SYMMETRY SlotSymmetry
INVARIANTS TypeOK
PROPERTIES HoldsToCodeIfFiled FallbackFindsTool ApprovedGoesThrough
VIEW Undecided
