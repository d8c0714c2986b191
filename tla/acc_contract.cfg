SPECIFICATION Spec
CONSTANTS
    Users <- MCUsers
    KeyPrefix <- MCPrefix
    Domains <- MCDomains
    Entities = {p1, p2}
    Touched = Touched
    RuleIds = {r1}
    Ttls = {3}
    GrantTtls = {1}
SYMMETRY PeopleSymmetry
INVARIANTS TypeOK RedisRemembers Covered
