------------------------------ MODULE Upstreams ------------------------------
(* Whom a connector acts for: the session the proxy calls a tool over, the   *)
(* credential it carries (credentials.py) and the identity handed to a       *)
(* connector that impersonates (proxy.py).  A shared upstream has one        *)
(* session, opened at the start; one that is per_user gets a connection of   *)
(* its own for every call, its credential resolved in a thread meanwhile.    *)
EXTENDS Naturals

CONSTANTS Principals,   \* users of the proxy
          Ups,          \* the upstreams configured
          Via,          \* upstream -> "stdio" or "http"
          PerUser,      \* those that are per_user
          Obo,          \* upstream -> how its credentials are resolved
          ListedUsers,  \* users with a static entry in obo.users
          Impersonates, \* upstreams that take the caller as an argument
          Lines         \* calls in progress at once

ASSUME UpstreamsAssumption ==
    /\ Via \in [Ups -> {"stdio", "http"}]
    /\ Obo \in [Ups -> {"command", "none"}]
    /\ PerUser \subseteq Ups /\ Impersonates \subseteq Ups

VARIABLES sessions,    \* upstreams connected at the start
          line,        \* call in progress
          refusedLine  \* what the last step refused, and why

upVars == <<sessions, line, refusedLine>>

(* What a connection carries: a secret and, in an environment, the name of   *)
(* the caller.  "deploy" is what the proxy itself runs with.                 *)
Fields  == {"TOKEN", "AGGRETE_ACTING_USER"}
Values  == Principals \cup {"deploy", "shared", "absent"}
Nothing == [f \in Fields |-> "absent"]
Carried == [Fields -> Values]

NoLine   == [pc |-> "idle"]
LineType == [pc : {"resolving", "connecting", "sent"}, user : Principals, up : Ups,
             acting : Principals \cup {"absent"}, cred : Carried, carries : Carried]

UpstreamsTypeOK ==
    /\ sessions \subseteq Ups
    /\ line \in [Lines -> LineType \cup {NoLine}]
    /\ refusedLine \in {"no", "unknown upstream", "obo-credential"}

(* Mutant of Over: what is shared wins.                                      *)
Under(base, extra) == [f \in Fields |-> IF base[f] # "absent" THEN base[f] ELSE extra[f]]

(* A dict updated by another one.                                            *)
Over(base, extra) == [f \in Fields |-> IF extra[f] # "absent" THEN extra[f] ELSE base[f]]

(* _stdio_params and _http_headers: the environment, the upstream's own      *)
(* settings, the user's credential.                                          *)
Inherited(up)     == IF Via[up] = "stdio" THEN [Nothing EXCEPT !["TOKEN"] = "deploy"] ELSE Nothing
Settings(up)      == [Nothing EXCEPT !["TOKEN"] = "shared"]
Carries(up, cred) == Over(Over(Inherited(up), Settings(up)), cred)

(* resolve: a static entry, else what the command says, else the name of the *)
(* caller, which only an environment can carry.                              *)
Resolved(u, up) ==
    IF u \in ListedUsers \/ Obo[up] = "command" THEN [Nothing EXCEPT !["TOKEN"] = u]
    ELSE IF Via[up] = "stdio" THEN [Nothing EXCEPT !["AGGRETE_ACTING_USER"] = u]
    ELSE Nothing

(* impersonate: the argument is the caller, whatever the model made of it.   *)
ActingUser(u, up, supplied) == IF up \in Impersonates THEN u ELSE supplied
-----------------------------------------------------------------------------
UpInit ==
    /\ sessions \in SUBSET Ups          \* one that cannot be reached is skipped
    /\ line = [l \in Lines |-> NoLine]
    /\ refusedLine = "no"

Dial(l, u, up, supplied) ==
    LET c == [pc |-> "resolving", user |-> u, up |-> up, acting |-> ActingUser(u, up, supplied),
              cred |-> Nothing, carries |-> Nothing]
    IN  /\ line[l] = NoLine
        /\ \/ /\ up \in PerUser
              /\ line' = [line EXCEPT ![l] = c] /\ refusedLine' = "no"
           \/ /\ up \notin PerUser /\ up \in sessions
              /\ line' = [line EXCEPT ![l] = [c EXCEPT !.pc = "sent", !.carries = Carries(up, Nothing)]]
              /\ refusedLine' = "no"
           \/ /\ up \notin PerUser /\ up \notin sessions
              /\ refusedLine' = "unknown upstream" /\ UNCHANGED line
        /\ UNCHANGED sessions

Resolve(l) ==
    /\ line[l].pc = "resolving"
    /\ line' = [line EXCEPT ![l].pc = "connecting", ![l].cred = Resolved(line[l].user, line[l].up)]
    /\ refusedLine' = "no" /\ UNCHANGED sessions

Open(l) ==
    /\ line[l].pc = "connecting"
    /\ line' = [line EXCEPT ![l].pc = "sent", ![l].carries = Carries(line[l].up, line[l].cred)]
    /\ refusedLine' = "no" /\ UNCHANGED sessions

(* The command fails or runs out of time, or the connector does.             *)
LineFails(l) ==
    /\ line[l] # NoLine
    /\ line[l].pc = "resolving" =>
          Obo[line[l].up] = "command" /\ line[l].user \notin ListedUsers
    /\ line' = [line EXCEPT ![l] = NoLine]
    /\ refusedLine' = "obo-credential" /\ UNCHANGED sessions

HangUp(l) ==
    /\ line[l].pc = "sent"
    /\ line' = [line EXCEPT ![l] = NoLine]
    /\ refusedLine' = "no" /\ UNCHANGED sessions

UpRestart ==
    /\ sessions' \in SUBSET Ups
    /\ line' = [l \in Lines |-> NoLine] /\ refusedLine' = "no"

UpNext ==
    \/ \E l \in Lines : \/ \E u \in Principals, up \in Ups, s \in Principals \cup {"absent"} : Dial(l, u, up, s)
                        \/ Resolve(l) \/ Open(l) \/ LineFails(l) \/ HangUp(l)
    \/ UpRestart

UpstreamsSpec == UpInit /\ [][UpNext]_upVars

(* readyz.                                                                   *)
Ready == sessions = Ups
-----------------------------------------------------------------------------
(* "The assistant can never choose whose permissions it acts under"          *)
(* (proxy.py:444) and "each person's own access is carried end to end"       *)
(* (credentials.py:2): whatever other calls resolve and connect meanwhile,   *)
(* no call is sent with a secret or a name that is another user's, one to a  *)
(* per_user upstream is sent with its caller's if any was resolved, and a    *)
(* proxy that is ready refuses none for want of a session.                   *)
ActsForCaller ==
    /\ Ready => refusedLine # "unknown upstream"
    /\ \A l \in {x \in Lines : line[x].pc = "sent"} :
          LET c == line[l]  mine == {"deploy", "shared", "absent", c.user} IN
          /\ c.up \in Impersonates => c.acting = c.user
          /\ \A f \in Fields : c.carries[f] \in mine
          /\ (c.up \in PerUser /\ Resolved(c.user, c.up) # Nothing) =>
                \E f \in Fields : c.carries[f] = c.user
=============================================================================
