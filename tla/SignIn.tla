------------------------------- MODULE SignIn -------------------------------
(* The built-in sign-in server (signin.py) and whom its tokens speak for     *)
(* (auth.py, Proxy.user).  A client starts a transaction, a person types     *)
(* email and passcode on its page, the client exchanges the code it is given *)
(* for an access and a refresh token, and refreshes, or revokes, them.       *)
(* Clients and tokens are rewritten to one file at every change;             *)
(* transactions and codes are only in memory.  The handlers of the MCP SDK   *)
(* load a code or a token and exchange it without giving way in between, and *)
(* refuse an expired one.                                                    *)
(*                                                                           *)
(* A secret is the number of the flow or of the pair of tokens it is for:    *)
(* nobody guesses one.  A token is kept by the time it has left, 0 for none. *)
EXTENDS Naturals

CONSTANTS OClients,       \* OAuth clients
          People,         \* emails that have a passcode
          Flows,          \* bound: sign-ins
          Pairs,          \* bound: pairs of tokens, a range 1..n
          TxnTtl, CodeTtl, AccessTtl, RefreshTtl,
          IdentityClaim,  \* auth.identity_claim, or NoClaim
          NoClaim

ASSUME SignInAssumption ==
    /\ Pairs \subseteq Nat
    /\ {TxnTtl, CodeTtl, AccessTtl, RefreshTtl} \subseteq Nat \ {0}

VARIABLES serving,    \* is the server up
          pending,    \* flow -> the transaction begun
          codes,      \* flow -> the code of the person who signed in
          mem,        \* clients and tokens in memory
          disk,       \* the same in the state file
          readable,   \* FALSE: the file was cut short
          owner,      \* pair -> client and subject its tokens were made with
          signedIn,   \* ghost: <<client, person>> who passed the page
          given,      \* ghost: what clients were told they have
          spent,      \* ghost: codes and refresh tokens exchanged, tokens revoked
          unsaved     \* ghost: those of spent that no save since has written

signVars == <<serving, pending, codes, mem, disk, readable, owner, signedIn, given, spent, unsaved>>

NoTxn  == [client |-> "none"]
NoCode == [subject |-> "none"]
Nobody == [subject |-> "none"]

Tokens == [clients : SUBSET OClients, access : [Pairs -> 0..AccessTtl], refresh : [Pairs -> 0..RefreshTtl]]
None   == [clients |-> {}, access |-> [p \in Pairs |-> 0], refresh |-> [p \in Pairs |-> 0]]

Secrets == ({"code"} \X Flows) \cup ({"access", "refresh"} \X Pairs)

SignInTypeOK ==
    /\ serving \in BOOLEAN /\ readable \in BOOLEAN
    /\ pending \in [Flows -> [client : OClients, left : 0..TxnTtl] \cup {NoTxn}]
    /\ codes \in [Flows -> [client : OClients, subject : People, left : 0..CodeTtl] \cup {NoCode}]
    /\ {mem, disk, given} \subseteq Tokens
    /\ owner \in [Pairs -> [client : OClients, subject : People] \cup {Nobody}]
    /\ signedIn \subseteq OClients \X People
    /\ unsaved \subseteq spent /\ spent \subseteq Secrets

SignInit ==
    /\ serving = TRUE /\ readable = TRUE
    /\ pending = [f \in Flows |-> NoTxn] /\ codes = [f \in Flows |-> NoCode]
    /\ mem = None /\ disk = None /\ given = None
    /\ owner = [p \in Pairs |-> Nobody]
    /\ signedIn = {} /\ spent = {} /\ unsaved = {}
-----------------------------------------------------------------------------
(* _save of state m, with what is done for good once it is written (told,    *)
(* used).  It fails before the file is opened, or after it was truncated, or *)
(* the process ends there; then the client is told nothing.                  *)
Save(m, told, used) ==
    /\ mem' = m
    /\ spent' = spent \cup used
    /\ \/ /\ disk' = m /\ readable' = TRUE
          /\ given' = told /\ unsaved' = {} /\ UNCHANGED serving
       \/ /\ readable' \in {readable, FALSE}
          /\ serving' \in IF readable' THEN {TRUE} ELSE BOOLEAN
          /\ unsaved' = unsaved \cup {x \in used : x[1] # "code"}
          /\ given' = [given EXCEPT
                !.access  = [p \in Pairs |-> IF <<"access", p>> \in used THEN 0 ELSE @[p]],
                !.refresh = [p \in Pairs |-> IF <<"refresh", p>> \in used THEN 0 ELSE @[p]]]
          /\ UNCHANGED disk

Register(c) ==
    /\ serving /\ c \notin mem.clients
    /\ Save([mem EXCEPT !.clients = @ \cup {c}], [given EXCEPT !.clients = @ \cup {c}], {})
    /\ UNCHANGED <<pending, codes, owner, signedIn>>

(* A flow not used before is a fresh transaction.                            *)
Authorize(f, c) ==
    /\ serving /\ c \in mem.clients
    /\ pending[f] = NoTxn /\ codes[f] = NoCode /\ <<"code", f>> \notin spent
    /\ pending' = [pending EXCEPT ![f] = [client |-> c, left |-> TxnTtl]]
    /\ UNCHANGED <<serving, codes, mem, disk, readable, owner, signedIn, given, spent, unsaved>>

(* signin, POST: the right passcode of u.                                    *)
PassPage(f, u) ==
    /\ serving /\ pending[f] # NoTxn /\ pending[f].left > 0
    /\ pending' = [pending EXCEPT ![f] = NoTxn]
    /\ codes' = [codes EXCEPT ![f] = [client |-> pending[f].client, subject |-> u, left |-> CodeTtl]]
    /\ signedIn' = signedIn \cup {<<pending[f].client, u>>}
    /\ UNCHANGED <<serving, mem, disk, readable, owner, given, spent, unsaved>>

(* _issue of pair p, a fresh one, to client c.                               *)
Issue(p, c, subject, m, told, used) ==
    LET new(tokens) == [tokens EXCEPT !.access[p] = AccessTtl, !.refresh[p] = RefreshTtl] IN
    /\ owner[p] = Nobody /\ \A q \in Pairs : q < p => owner[q] # Nobody
    /\ owner' = [owner EXCEPT ![p] = [client |-> c, subject |-> subject]]
    /\ Save(new(m), new(told), used)

(* Mutant of CodeOf: whoever has a code may exchange it.                     *)
CodeOfAnyone(f, c) == codes[f] # NoCode /\ codes[f].left > 0

(* load_authorization_code: a code is its client's.                          *)
CodeOf(f, c) == codes[f] # NoCode /\ codes[f].client = c /\ codes[f].left > 0

ExchangeCode(f, c, p) ==
    /\ serving /\ c \in mem.clients /\ CodeOf(f, c)
    /\ codes' = [codes EXCEPT ![f] = NoCode]
    /\ Issue(p, c, codes[f].subject, mem, given, {<<"code", f>>})
    /\ UNCHANGED <<pending, signedIn>>

RefreshOf(q, c) == mem.refresh[q] > 0 /\ owner[q].client = c

(* Mutant of Exchange: the refresh token used stays valid.                   *)
ExchangeKeeps(q, c, p) ==
    /\ serving /\ c \in mem.clients /\ RefreshOf(q, c)
    /\ Issue(p, c, owner[q].subject, mem, given, {<<"refresh", q>>})
    /\ UNCHANGED <<pending, codes, signedIn>>

Exchange(q, c, p) ==
    /\ serving /\ c \in mem.clients /\ RefreshOf(q, c)
    /\ Issue(p, c, owner[q].subject, [mem EXCEPT !.refresh[q] = 0], [given EXCEPT !.refresh[q] = 0],
             {<<"refresh", q>>})
    /\ UNCHANGED <<pending, codes, signedIn>>

(* revoke_token: the token named, and not the other one of its pair.         *)
Revoke(p, which) ==
    LET without(t) == IF which = "access" THEN [t EXCEPT !.access[p] = 0] ELSE [t EXCEPT !.refresh[p] = 0] IN
    /\ serving
    /\ IF which = "access" THEN mem.access[p] > 0 ELSE mem.refresh[p] > 0
    /\ Save(without(mem), without(given), {<<which, p>>})
    /\ UNCHANGED <<pending, codes, owner, signedIn>>

-----------------------------------------------------------------------------
StopServer ==
    /\ serving
    /\ serving' = FALSE
    /\ UNCHANGED <<pending, codes, mem, disk, readable, owner, signedIn, given, spent, unsaved>>

(* Mutant of StartServer: tokens are read, and their clients are not.        *)
StartServerTokens ==
    /\ ~serving /\ readable
    /\ serving' = TRUE
    /\ mem' = [disk EXCEPT !.clients = {}]
    /\ pending' = [f \in Flows |-> NoTxn] /\ codes' = [f \in Flows |-> NoCode]
    /\ spent' = spent \ unsaved /\ unsaved' = {}
    /\ UNCHANGED <<disk, readable, owner, signedIn, given>>

(* _load: a file that is not JSON stops the start.                           *)
StartServer ==
    /\ ~serving /\ readable
    /\ serving' = TRUE
    /\ mem' = disk
    /\ pending' = [f \in Flows |-> NoTxn] /\ codes' = [f \in Flows |-> NoCode]
    /\ spent' = spent \ unsaved /\ unsaved' = {}
    /\ UNCHANGED <<disk, readable, owner, signedIn, given>>

Less(n) == IF n = 0 THEN 0 ELSE n - 1

SignTick ==
    LET older(t) == [t EXCEPT !.access  = [p \in Pairs |-> Less(@[p])],
                              !.refresh = [p \in Pairs |-> Less(@[p])]] IN
    /\ pending' = [f \in Flows |-> IF pending[f] = NoTxn THEN NoTxn ELSE [pending[f] EXCEPT !.left = Less(@)]]
    /\ codes' = [f \in Flows |-> IF codes[f] = NoCode THEN NoCode ELSE [codes[f] EXCEPT !.left = Less(@)]]
    /\ mem' = older(mem) /\ disk' = older(disk) /\ given' = older(given)
    /\ UNCHANGED <<serving, readable, owner, signedIn, spent, unsaved>>

SignNext ==
    \/ \E c \in OClients : Register(c)
    \/ \E f \in Flows, c \in OClients : Authorize(f, c) \/ \E p \in Pairs : ExchangeCode(f, c, p)
    \/ \E f \in Flows, u \in People : PassPage(f, u)
    \/ \E q, p \in Pairs, c \in OClients : Exchange(q, c, p)
    \/ \E p \in Pairs, which \in {"access", "refresh"} : Revoke(p, which)
    \/ StopServer \/ StartServer \/ SignTick

SignInSpec == SignInit /\ [][SignNext]_signVars
-----------------------------------------------------------------------------
(* Whom a request with a token is decided for.                               *)

(* The claims of an access token of pair p.                                  *)
Claims(p) == [email |-> owner[p].subject]

DefaultClaims == {"email", "preferred_username", "sub"}

(* identity_for: the configured claim or the first of the usual ones; then   *)
(* the subject.                                                              *)
IdentityOf(p) ==
    LET order == IF IdentityClaim = NoClaim THEN DefaultClaims ELSE {IdentityClaim} IN
    IF "email" \in order THEN Claims(p).email ELSE owner[p].subject

(* agent_for: these tokens name no actor and no authorized party.            *)
AgentOf(p) == owner[p].client

(* load_access_token and Proxy.user: the request has a user.                 *)
Accepted(p) == serving /\ mem.access[p] > 0

(* "Sign in so decisions are made for you, not for a shared account"         *)
(* (signin.py:47), which every other property of a user rests on: a request  *)
(* that is accepted is decided for somebody who has passed the page for the  *)
(* client that sends it, through exchanges, refreshes, failed saves and      *)
(* restarts.                                                                 *)
TokensAreSignedIn == \A p \in Pairs : Accepted(p) => <<AgentOf(p), IdentityOf(p)>> \in signedIn

(* A code is exchanged once, a refresh token once, and a revoked token stays *)
(* revoked; of these a code for good, and a token unless the server restarts *)
(* from a file older than that.                                              *)
SpentIsSpent ==
    serving => /\ \A f \in Flows : codes[f] # NoCode => <<"code", f>> \notin spent
               /\ \A p \in Pairs : /\ mem.access[p] > 0 => <<"access", p>> \notin spent
                                   /\ mem.refresh[p] > 0 => <<"refresh", p>> \notin spent

(* "Clients and tokens survive a restart" (signin.py:66): what a client was  *)
(* told it has, the server that runs accepts until its time, and not longer. *)
GivenIsKept ==
    serving => /\ given.clients \subseteq mem.clients
               /\ \A p \in Pairs : /\ given.access[p] > 0 => mem.access[p] = given.access[p]
                                   /\ given.refresh[p] > 0 => mem.refresh[p] = given.refresh[p]
=============================================================================
