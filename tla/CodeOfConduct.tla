--------------------------- MODULE CodeOfConduct ---------------------------
(* What the gateway promises, stated on nothing but what each user has been  *)
(* handed: held[u][d][m] is how much longer mark m, received from domain d,  *)
(* counts against user u (a window from the last time it was received).      *)
(* There is no store here, no call in flight and no check before or after.   *)
EXTENDS Policy

VARIABLES held,       \* what every user has received and still counts
          waivers     \* the time left of every purpose grant

HeldEntities(h, u, d) == {e \in Entities : h[u][d][e] > 0}
HeldDomain(h, u, d)   == \E m \in Marks : h[u][d][m] > 0

(* Handing over what domain d said about the entities es.                    *)
Received(h, u, d, es) ==
    [h EXCEPT ![u][d] = [m \in Marks |-> IF m \in es \cup {Touched} THEN Ttl ELSE @[m]]]

Lapsed(h) ==
    [u \in Users |-> [d \in Domains |-> [m \in Marks |-> Minus1(h[u][d][m])]]]

(* What a user may not end up with, per kind of block, once es came from d.  *)
SmallGroup(u, d, es, b) ==
    b.kind = "min_group" /\ b.domain = d /\ InScope(b, u) /\ Cardinality(es) \in 1..(b.k - 1)

TooManyPeople(h, u, d, b) ==
    b.kind = "entity_budget" /\ b.domain = d /\ Cardinality(HeldEntities(h, u, d)) > b.max

OwnAndOthers(h, u, d, b) ==
    /\ b.kind = "self_comparison" /\ b.domain = d
    /\ Me[u] \in HeldEntities(h, u, d) /\ HeldEntities(h, u, d) # {Me[u]}

ForbiddenCombination(h, u, d, b) ==
    /\ b.kind = "domain_join" /\ d \in b.domains /\ InScope(b, u)
    /\ \A x \in b.domains : HeldDomain(h, u, x)
    /\ b.overlap => \E e \in Entities : \A x \in b.domains : e \in HeldEntities(h, u, x)

Breaks(h, u, d, es, b) ==
    \/ SmallGroup(u, d, es, b)      \/ TooManyPeople(h, u, d, b)
    \/ OwnAndOthers(h, u, d, b)     \/ ForbiddenCombination(h, u, d, b)

(* A block in force: its pack is on, it stops calls, and nobody has waived   *)
(* its rule for this user.                                                   *)
InForce(b, u) == Active(b) /\ Stops(b) /\ waivers[u][b.rule] = 0

Conforms(h, u, d, es) ==
    \A i \in DOMAIN Blocks : InForce(Blocks[i], u) => ~Breaks(h, u, d, es, Blocks[i])

Give(u, d, es) ==
    /\ held' = Received(held, u, d, es)
    /\ Conforms(held', u, d, es)

Forget == held' = Lapsed(held)

CocInit == held = EmptyStore.ents
CocNext == Forget \/ \E u \in Users, d \in Domains, es \in SUBSET Entities : Give(u, d, es)

(* The promise: whatever else happens, a user's holdings change only by time *)
(* going by, or by an answer after which no block in force is broken.        *)
CocSpec == CocInit /\ [][CocNext]_held
=============================================================================
