------------------------------ MODULE Requests ------------------------------
(* Approval requests as one process sees them, and what becomes of them in   *)
(* the engine: an approval is turned into a purpose grant on the next call   *)
(* of its user.  How several processes share the document is in Approvals.   *)
EXTENDS Policy

VARIABLES store,      \* the engine's store
          requests    \* user, rule -> the approval request and the time it has left

RequestType == [status : {"none", "pending", "approved", "denied"}, left : Nat]

NoRequests == [u \in Users |-> [r \in RuleIds |-> [status |-> "none", left |-> 0]]]

ApprovedFor(rq, u) == {r \in RuleIds : rq[u][r].status = "approved" /\ rq[u][r].left > 0}

(* Mutant of Synced: approvals are not looked at.                            *)
SyncedNever(st, u) == st

(* _sync_approvals: an approval becomes a purpose grant unless one runs.     *)
Synced(st, u) ==
    [st EXCEPT !.grants[u] =
        [r \in RuleIds |-> IF r \in ApprovedFor(requests, u) /\ @[r] = 0
                           THEN requests[u][r].left ELSE @[r]]]

(* Approvals.request: a pending request stays, anything else starts anew.    *)
Requested(rq, u, r) ==
    IF rq[u][r].status = "pending" THEN rq
    ELSE [rq EXCEPT ![u][r] = [status |-> "pending", left |-> 0]]

AgedRequests(rq) ==
    [u \in Users |-> [r \in RuleIds |-> [rq[u][r] EXCEPT !.left = Minus1(@)]]]
=============================================================================
