---------------------------- MODULE Accumulator ----------------------------
(* MemoryStore and RedisStore driven by the same calls, side by side, with   *)
(* the contract both claim as a ghost: due[u][d][m] is how long mark m must  *)
(* still be remembered, the ttl of the last record that named it.            *)
EXTENDS Store

CONSTANTS Ttls,          \* the lifetimes record is called with
          GrantTtls      \* the lifetimes grant is called with

ASSUME TtlsAssumption == Ttls \subseteq Nat \ {0} /\ GrantTtls \subseteq Nat \ {0}

VARIABLES mem,    \* a MemoryStore
          red,    \* a RedisStore
          due     \* ghost: the contract

vars == <<mem, red, due>>

DueType == [Users -> [Domains -> [Marks -> Nat]]]

TypeOK == mem \in StoreType /\ red \in StoreType /\ due \in DueType

Init == mem = EmptyStore /\ red = EmptyStore /\ due = EmptyStore.ents

(* record(user, domain, entities, ttl): what an engine's post_call does.     *)
RecordBoth(u, d, es, ttl) ==
    /\ mem' = Record("memory", mem, u, d, es, ttl)
    /\ red' = Record("redis", red, u, d, es, ttl)
    /\ due' = [due EXCEPT ![u][d] =
                 [m \in Marks |-> IF m \in es \cup {Touched} THEN ttl ELSE @[m]]]

GrantBoth(u, r, ttl) ==
    /\ mem' = Grant(mem, u, r, ttl)
    /\ red' = Grant(red, u, r, ttl)
    /\ UNCHANGED due

ResetBoth(u) ==
    /\ mem' = Reset("memory", mem, u)
    /\ red' = Reset("redis", red, u)
    /\ due' = [due EXCEPT ![u] = EmptyStore.ents[u]]

(* One second.                                                               *)
Tick ==
    /\ mem' = Age(mem)
    /\ red' = Age(red)
    /\ due' = [u \in Users |-> [d \in Domains |-> [m \in Marks |-> Minus1(due[u][d][m])]]]

Next ==
    \/ \E u \in Users, d \in Domains, es \in SUBSET Entities, ttl \in Ttls :
            RecordBoth(u, d, es, ttl)
    \/ \E u \in Users, r \in RuleIds, ttl \in GrantTtls : GrantBoth(u, r, ttl)
    \/ \E u \in Users : ResetBoth(u)
    \/ Tick

Spec == Init /\ [][Next]_vars

-----------------------------------------------------------------------------
(* RedisStore never forgets early: every mark whose time is not up is still  *)
(* in its bucket, and its domain still among the user's domains.  Over any   *)
(* sequence of records, grants, resets and seconds; the two EXPIREs of one   *)
(* pipeline must keep each other's key alive for that.                       *)
RedisRemembers ==
    \A u \in Users, d \in Domains, m \in Marks :
        due[u][d][m] > 0 => red.ents[u][d][m] > 0 /\ d \in DomainsOf("redis", red, u)

(* Whatever a MemoryStore still holds, a RedisStore given the same calls     *)
(* holds too, entities and domains both: moving a deployment to Redis never  *)
(* loosens a rule that fires on what a user has already pulled.              *)
RedisCoversMemory ==
    \A u \in Users :
        /\ DomainsOf("memory", mem, u) \subseteq DomainsOf("redis", red, u)
        /\ \A d \in Domains : EntitiesOf(mem, u, d) \subseteq EntitiesOf(red, u, d)

(* Why the two hold: no store is behind the contract, the MemoryStore is not *)
(* ahead of it, and no mark outlives the one ttl in use (an engine passes the *)
(* same ttl to every record: the largest window of its policy).             *)
OneTtl       == \E t \in Nat \ {0} : Ttls = {t}
PersonalKeys == \A u, v \in Users : <<u, v>> \in KeyPrefix => u = v

Covered ==
    \A u \in Users, d \in Domains, m \in Marks :
        /\ due[u][d][m] <= red.ents[u][d][m]
        /\ due[u][d][m] <= red.seen[u][d]
        /\ mem.ents[u][d][m] <= due[u][d][m]
        /\ \A t \in Ttls : due[u][d][m] <= t

=============================================================================
