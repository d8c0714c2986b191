------------------------------ MODULE Holdings ------------------------------
(* What the users have been handed, beside the store the engine decides by:  *)
(* the two sides of the promise, for every program that answers through the  *)
(* engine (the gateway of Proxy, the decision points of Gateways).           *)
EXTENDS Requests

VARIABLE held       \* ghost: what every user has been handed (CodeOfConduct)

Coc == INSTANCE CodeOfConduct WITH waivers <- store.grants

(* The promise of CodeOfConduct, kept by every decision point: whatever is   *)
(* in flight at the same time, whoever approves, waives, toggles or restarts,*)
(* whichever process is asked and however often, nobody is handed an answer  *)
(* that breaks a block in force (post_call, policy.py; "the same             *)
(* deterministic, stateful decisions", adapters.py:5).                       *)
HoldsToCode == Coc!CocSpec

(* Store st knows no less than user u, who holds h[u]: of entities in both   *)
(* stores, of domains only in Redis.                                         *)
Covers(st, h, u) ==
    \A d \in Domains :
        /\ \A e \in Entities : h[u][d][e] <= st.ents[u][d][e]
        /\ Backend = "redis" => \A m \in Marks : /\ h[u][d][m] <= st.ents[u][d][m]
                                                 /\ h[u][d][m] <= st.seen[u][d]

(* Why the promise is kept: the store never knows less than the users do.  A *)
(* result is recorded before anything is decided about it, so a later        *)
(* decision sees it.                                                         *)
StoreCoversHeld == \A u \in Users : Covers(store, held, u)
=============================================================================
