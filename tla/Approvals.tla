----------------------------- MODULE Approvals ------------------------------
(* Approval requests as several processes share them: proxies, and command   *)
(* lines started beside them.  They are one JSON document, in a file or in a *)
(* Redis key, that every operation loads, changes in one place and saves as  *)
(* a whole.  Loading and saving are atomic (os.replace, GET, SET), the time  *)
(* between them is not, so each operation is two actions here.               *)
(*                                                                           *)
(* A request is one user's for one rule; times are whole seconds left.       *)
EXTENDS Naturals

CONSTANTS Requests, Askers, UserOf,
          Proxies, CommandLines,
          KeptIn,             \* where the proxies keep the document
          Approvers, NoApprover,
          MayApprove,         \* <<approver, request>>: configured, or the owner
          Lifetimes           \* the lifetimes an approver may choose

ASSUME ApprovalsAssumption ==
    /\ UserOf \in [Requests -> Askers]
    /\ KeptIn \in {"file", "redis"}
    /\ NoApprover \notin Approvers
    /\ MayApprove \subseteq Approvers \X Requests
    /\ Lifetimes \subseteq Nat \ {0}

VARIABLES approvals,  \* the document, in the file and in Redis
          doing,      \* what each process is in the middle of
          grants,     \* the purpose grants in each proxy's engine
          allowance   \* ghost: time left of the approvals approvers gave

approvalsVars == <<approvals, doing, grants, allowance>>

Places   == {"file", "redis"}
Deciders == Proxies \cup CommandLines

(* The command line is given the configuration but no Redis client.          *)
PlaceOf(p) == IF p \in CommandLines THEN "file" ELSE KeptIn

Entry    == [status : {"none", "pending", "approved", "denied"},
             left : Nat, by : Approvers \cup {NoApprover}]
NoEntry  == [status |-> "none", left |-> 0, by |-> NoApprover]
Document == [Requests -> Entry]

AtRest == [busy |-> FALSE]
Work   == [busy : {TRUE}, id : Requests, copy : Document]

ApprovalsTypeOK ==
    /\ approvals \in [Places -> Document]
    /\ doing \in [Deciders -> Work \cup {AtRest}]
    /\ grants \in [Proxies -> [Requests -> Nat]]
    /\ allowance \in [Requests -> [Approvers -> Nat]]

ApprovalsInit ==
    /\ approvals = [pl \in Places |-> [i \in Requests |-> NoEntry]]
    /\ doing = [p \in Deciders |-> AtRest]
    /\ grants = [p \in Proxies |-> [i \in Requests |-> 0]]
    /\ allowance = [i \in Requests |-> [a \in Approvers |-> 0]]

-----------------------------------------------------------------------------
(* What the operations make of the entry they are about.                     *)

Asked(e) == IF e.status = "pending" THEN e
            ELSE [status |-> "pending", left |-> 0, by |-> NoApprover]

(* Mutant of ApprovedBy: renewing an approval adds to what is left of it.    *)
ApprovedLonger(e, a, ttl) == [status |-> "approved", left |-> e.left + ttl, by |-> a]

ApprovedBy(e, a, ttl) == [status |-> "approved", left |-> ttl, by |-> a]

(* A denied request keeps the expiry of an earlier approval.                 *)
DeniedBy(e, a) == [e EXCEPT !.status = "denied", !.by = a]

Current(p, i) == approvals[PlaceOf(p)][i]

(* The first half of an operation: load, and put entry e in the copy.        *)
LoadsDocument(p, i, e) ==
    /\ ~doing[p].busy
    /\ doing' = [doing EXCEPT ![p] =
                   [busy |-> TRUE, id |-> i, copy |-> [approvals[PlaceOf(p)] EXCEPT ![i] = e]]]

(* request: only a proxy, holding a call, asks.                              *)
Request(p, i) ==
    /\ p \in Proxies
    /\ LoadsDocument(p, i, Asked(Current(p, i)))
    /\ UNCHANGED <<approvals, grants, allowance>>

(* A proxy's route checks who decides; the command line takes --by as given. *)
MayDecide(p, a, i) ==
    /\ Current(p, i).status # "none"
    /\ p \in Proxies => <<a, i>> \in MayApprove

ApproveRequest(p, i, a, ttl) ==
    /\ MayDecide(p, a, i)
    /\ LoadsDocument(p, i, ApprovedBy(Current(p, i), a, ttl))
    /\ allowance' = [allowance EXCEPT ![i][a] = IF @ < ttl THEN ttl ELSE @]
    /\ UNCHANGED <<approvals, grants>>

DenyRequest(p, i, a) ==
    /\ MayDecide(p, a, i)
    /\ LoadsDocument(p, i, DeniedBy(Current(p, i), a))
    /\ UNCHANGED <<approvals, grants, allowance>>

(* The second half: the whole copy replaces the document.                    *)
SaveDocument(p) ==
    /\ doing[p].busy
    /\ approvals' = [approvals EXCEPT ![PlaceOf(p)] = doing[p].copy]
    /\ doing' = [doing EXCEPT ![p] = AtRest]
    /\ UNCHANGED <<grants, allowance>>

-----------------------------------------------------------------------------
(* Approvals become purpose grants.                                          *)

(* Mutant of GrantOf: a grant as long as any approval can be.                *)
GrantOfWhole(e) == CHOOSE n \in Lifetimes : \A m \in Lifetimes : m <= n

GrantOf(e) == e.left

(* _sync_approvals, when user u calls or a hold of u wakes: each of the      *)
(* user's running approvals becomes a grant, unless there is one.            *)
SyncedGrants(doc, u, gs) ==
    [i \in Requests |->
        IF UserOf[i] = u /\ doc[i].status = "approved" /\ doc[i].left > 0 /\ gs[i] = 0
        THEN GrantOf(doc[i]) ELSE gs[i]]

(* Proxies over Redis share one store.                                       *)
SyncApprovals(p, u) ==
    /\ ~doing[p].busy
    /\ grants' = [q \in Proxies |->
                    IF q = p \/ KeptIn = "redis" THEN SyncedGrants(approvals[PlaceOf(p)], u, grants[p])
                    ELSE grants[q]]
    /\ UNCHANGED <<approvals, doing, allowance>>

(* A process ends in the middle of what it does, or between two operations.  *)
DeciderEnds(p) ==
    /\ doing' = [doing EXCEPT ![p] = AtRest]
    /\ grants' = IF p \in Proxies /\ KeptIn = "file"
                 THEN [grants EXCEPT ![p] = [i \in Requests |-> 0]] ELSE grants
    /\ UNCHANGED <<approvals, allowance>>

(* Mutant of Sooner: an expiry that goes on past zero.                       *)
SoonerUnclamped(n) == n - 1

Sooner(n) == IF n > 0 THEN n - 1 ELSE 0
DocumentAged(doc) == [i \in Requests |-> [doc[i] EXCEPT !.left = Sooner(@)]]

ApprovalsTick ==
    /\ approvals' = [pl \in Places |-> DocumentAged(approvals[pl])]
    /\ doing' = [p \in Deciders |-> IF doing[p].busy THEN [doing[p] EXCEPT !.copy = DocumentAged(@)]
                                    ELSE AtRest]
    /\ grants' = [p \in Proxies |-> [i \in Requests |-> Sooner(grants[p][i])]]
    /\ allowance' = [i \in Requests |-> [a \in Approvers |-> Sooner(allowance[i][a])]]

ApprovalsNext ==
    \/ \E p \in Deciders, i \in Requests :
          \/ Request(p, i)
          \/ \E a \in Approvers : DenyRequest(p, i, a) \/ \E ttl \in Lifetimes : ApproveRequest(p, i, a, ttl)
    \/ \E p \in Deciders : SaveDocument(p) \/ DeciderEnds(p)
    \/ \E p \in Proxies, u \in Askers : SyncApprovals(p, u)
    \/ ApprovalsTick

ApprovalsSpec == ApprovalsInit /\ [][ApprovalsNext]_approvalsVars

-----------------------------------------------------------------------------
(* An approval in force, wherever and however it came to be there, was given *)
(* by the approver it names, for that user and rule, and ends when that      *)
(* approver said: saves that undo one another may lose decisions or bring    *)
(* old ones back, but never invent or prolong one (approvals.py:5, "an       *)
(* approval is a time-limited purpose grant for (user, rule)").              *)
IsGiven(e, g) ==
    e.status = "approved" /\ e.left > 0 => e.by \in Approvers /\ e.left <= g[e.by]

GivenIn(doc, gs) == \A i \in Requests : IsGiven(doc[i], gs[i])

ApprovalsAreGiven == \A pl \in Places : GivenIn(approvals[pl], allowance)

(* No purpose grant made from an approval outlives, by a second or more,     *)
(* every approval given for its user and rule, whatever became of it since.  *)
GrantsAreGiven ==
    \A p \in Proxies, i \in Requests :
        grants[p][i] > 0 => \E a \in Approvers : grants[p][i] <= allowance[i][a]

(* What makes both inductive: the copies in the middle of an operation hold  *)
(* nothing that was not given either.                                        *)
CopiesAreGiven == \A p \in Deciders : doing[p].busy => GivenIn(doing[p].copy, allowance)

AllGiven == ApprovalsAreGiven /\ CopiesAreGiven /\ GrantsAreGiven
=============================================================================
