-------------------------------- MODULE Walks --------------------------------
(* Asking the engine outside a gateway: the programs that put one step after *)
(* the other to an engine of their own (the tests of a drafted policy, the   *)
(* story and the menu of the demo).  A step names a domain, whether it       *)
(* writes and the people its answer would name; nothing is fetched.          *)
EXTENDS Sequences, FiniteSets, Naturals

CONSTANTS WalkUsers, WalkMe,    \* the users, and the entity that names each
          WalkDomains, WalkPeople, WalkRules,
          WalkMarker            \* what Store keeps beside the entities

(* An engine with blocks b on a day, over a store in memory.  Every pack is  *)
(* switched on, as it is for the tests of a rule.                            *)
Engine(b, day) == INSTANCE Policy WITH
    Users <- WalkUsers, KeyPrefix <- {<<u, u>> : u \in WalkUsers}, Domains <- WalkDomains,
    Entities <- WalkPeople, Touched <- WalkMarker, RuleIds <- WalkRules, Backend <- "memory",
    RuleOrder <- <<>>, Blocks <- b, PackOf <- [r \in WalkRules |-> "no pack"], Packs <- {},
    NoPack <- "no pack", Me <- WalkMe, Ttl <- 1, NoRule <- "no rule", packs <- {}, date <- day

AnyBlock  == Engine(<<>>, 0)!Block
NewStore  == Engine(<<>>, 0)!EmptyStore
StoreKept == Engine(<<>>, 0)!StoreType
Unstopped == Engine(<<>>, 0)!Allowed

Step(d, w, es) == [domain |-> d, write |-> w, people |-> es]
Read(d, es)    == Step(d, FALSE, es)

(* One step: pre_call, and, where that allows it, post_call, which records.  *)
Ask(b, day, st, u, s) ==
    LET pre == Engine(b, day)!PreCall(st, u, s.domain, s.write)
        rec == Engine(b, day)!Record("memory", st, u, s.domain, s.people, 1)
    IN  IF ~pre.allow THEN [store |-> st, met |-> pre]
        ELSE [store |-> rec, met |-> Engine(b, day)!PostCall(rec, u, s.domain, s.people)]

Outcome(d) == IF ~d.allow THEN "deny" ELSE IF d.alerts # {} THEN "alert" ELSE "allow"
Outcomes   == {"allow", "alert", "deny"}

(* The outcomes of a plan, up to and with the first step that is refused.    *)
Walk(b, day, u, steps) ==
    LET walked[n \in 0..Len(steps)] ==
          IF n = 0 THEN [store |-> NewStore, met |-> Unstopped]
          ELSE IF ~walked[n - 1].met.allow THEN walked[n - 1]
          ELSE Ask(b, day, walked[n - 1].store, u, steps[n])
    IN  [n \in {n \in 1..Len(steps) : n > 1 => walked[n - 1].met.allow} |-> Outcome(walked[n].met)]
=============================================================================
