SPECIFICATION TeamSpec
CONSTANTS
    Users = {"ann"}
    KeyPrefix <- MCPrefix
    Domains = {"hr", "pay"}
    Entities = {"p:bob"}
    Touched = Touched
    RuleIds = {"r1", "r2"}
    Backend = "redis"
    RuleOrder <- R12
    Blocks <- FilingPolicy
    PackOf <- Unpacked
    Packs = {}
    NoPack = NoPack
    Me <- MCMe
    Ttl = 2
    NoRule = NoRule
    Procs = {"x"}
    KindOf <- MCKindOf
    Slots = {s1, s2}
    Tools = {"hr_list", "pay_set"}
    DomainOf <- MCDomain
    WriteTools = {}
    ListedTools = {"hr_list", "pay_set"}
    BackendOf <- MCBackend
    NoTool = NoTool
    NamesTool = FALSE
    Args = {"plain", "all"}
    SecretArgs = {}
    Masks = FALSE
    Masked = "plain"
    RateLimits = FALSE
    Unreadable = FALSE
    Restarts = FALSE
    ApprovalTtls = {1}
    Teams = {{"x"}}
SYMMETRY SlotSymmetry
PROPERTIES HoldsToCode
VIEW Undecided
