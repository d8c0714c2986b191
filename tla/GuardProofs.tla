----------------------------- MODULE GuardProofs ------------------------------
(* What guards the call path, for any users, tools, packs and interleavings: *)
(* whom a token speaks for, how often a caller gets through, as whom an      *)
(* upstream is asked, which definition a tool is held to, which packs apply. *)
EXTENDS SignIn, RateLimit, Upstreams, Integrity, PackSwitch, FiniteSetTheorems, TLAPS

-----------------------------------------------------------------------------
(* The sign-in server.                                                       *)

-----------------------------------------------------------------------------
(* The invariant.                                                            *)

(* Codes and tokens are of people who passed the page of that client.        *)
SpokenFor ==
    /\ \A f \in Flows : codes[f] # NoCode => <<codes[f].client, codes[f].subject>> \in signedIn
    /\ \A p \in Pairs : owner[p] # Nobody => <<owner[p].client, owner[p].subject>> \in signedIn

(* A flow or pair that can still come to be has spent nothing.               *)
Unused ==
    /\ \A f \in Flows : /\ codes[f] # NoCode => <<"code", f>> \notin spent
                        /\ pending[f] # NoTxn => codes[f] = NoCode /\ <<"code", f>> \notin spent
    /\ \A p \in Pairs : owner[p] = Nobody => <<"access", p>> \notin spent /\ <<"refresh", p>> \notin spent

Owned(t, o)   == \A p \in Pairs : (t.access[p] > 0 \/ t.refresh[p] > 0) => o[p] # Nobody
Unspent(t, s) == \A p \in Pairs : /\ t.access[p] > 0 => <<"access", p>> \notin s
                                  /\ t.refresh[p] > 0 => <<"refresh", p>> \notin s
Keeps(t, g)   == /\ g.clients \subseteq t.clients
                 /\ \A p \in Pairs : /\ g.access[p] > 0 => t.access[p] = g.access[p]
                                     /\ g.refresh[p] > 0 => t.refresh[p] = g.refresh[p]

(* Memory and file each have the owner of every token, nothing that was      *)
(* spent (the file: but for what no save has written since), and all that    *)
(* was given.  Of the file it must be said at all times, because a restart   *)
(* makes it the memory.                                                      *)
Stored ==
    /\ Owned(mem, owner) /\ Owned(disk, owner)
    /\ Unspent(mem, spent) /\ Unspent(disk, spent \ unsaved)
    /\ Keeps(mem, given) /\ Keeps(disk, given)

SignInInv == SignInTypeOK /\ SpokenFor /\ Unused /\ Stored
-----------------------------------------------------------------------------
(* Types.                                                                    *)

(* The tokens of a state, taken apart.                                       *)
LEMMA TokensIs ==
  ASSUME NEW t \in Tokens
  PROVE  /\ t.clients \subseteq OClients
         /\ t.access \in [Pairs -> 0..AccessTtl] /\ t.refresh \in [Pairs -> 0..RefreshTtl]
         /\ DOMAIN t = {"clients", "access", "refresh"}
  BY DEF Tokens

(* No step makes anything but tokens of tokens.                              *)
LEMMA TokensMade ==
  ASSUME NEW t \in Tokens
  PROVE  /\ \A c \in OClients : [t EXCEPT !.clients = @ \cup {c}] \in Tokens
         /\ \A p \in Pairs : /\ [t EXCEPT !.access[p] = 0] \in Tokens
                             /\ [t EXCEPT !.refresh[p] = 0] \in Tokens
                             /\ [t EXCEPT !.access[p] = AccessTtl, !.refresh[p] = RefreshTtl] \in Tokens
         /\ \A used : [t EXCEPT !.access  = [p \in Pairs |-> IF <<"access", p>> \in used THEN 0 ELSE @[p]],
                                !.refresh = [p \in Pairs |-> IF <<"refresh", p>> \in used THEN 0 ELSE @[p]]] \in Tokens
         /\ [t EXCEPT !.access  = [p \in Pairs |-> Less(@[p])],
                      !.refresh = [p \in Pairs |-> Less(@[p])]] \in Tokens
  <1>1. 0 \in 0..AccessTtl /\ 0 \in 0..RefreshTtl /\ AccessTtl \in 0..AccessTtl /\ RefreshTtl \in 0..RefreshTtl
    BY SignInAssumption
  <1>2. \A c \in OClients : [t EXCEPT !.clients = @ \cup {c}] \in Tokens
    BY DEF Tokens
  <1>3. ASSUME NEW p \in Pairs
        PROVE  /\ [t EXCEPT !.access[p] = 0] \in Tokens
               /\ [t EXCEPT !.refresh[p] = 0] \in Tokens
               /\ [t EXCEPT !.access[p] = AccessTtl, !.refresh[p] = RefreshTtl] \in Tokens
    BY <1>1 DEF Tokens
  <1>4. ASSUME NEW a \in [Pairs -> 0..AccessTtl], NEW r \in [Pairs -> 0..RefreshTtl]
        PROVE  [t EXCEPT !.access = a, !.refresh = r] \in Tokens
    BY DEF Tokens
  <1>5. ASSUME NEW used
        PROVE  /\ [p \in Pairs |-> IF <<"access", p>> \in used THEN 0 ELSE t.access[p]] \in [Pairs -> 0..AccessTtl]
               /\ [p \in Pairs |-> IF <<"refresh", p>> \in used THEN 0 ELSE t.refresh[p]] \in [Pairs -> 0..RefreshTtl]
    BY <1>1, TokensIs
  <1>6. /\ [p \in Pairs |-> Less(t.access[p])] \in [Pairs -> 0..AccessTtl]
        /\ [p \in Pairs |-> Less(t.refresh[p])] \in [Pairs -> 0..RefreshTtl]
    BY TokensIs, SignInAssumption DEF Less
  <1> QED
    BY <1>2, <1>3, <1>4, <1>5, <1>6

(* A save, whether it succeeds or not, leaves tokens in memory and on file.  *)
LEMMA SaveTypes ==
  ASSUME SignInTypeOK, NEW m \in Tokens, NEW told \in Tokens, NEW used \in SUBSET Secrets, Save(m, told, used)
  PROVE  /\ mem' \in Tokens /\ disk' \in Tokens /\ given' \in Tokens
         /\ spent' \subseteq Secrets /\ unsaved' \subseteq spent'
         /\ serving' \in BOOLEAN /\ readable' \in BOOLEAN
  <1>1. given \in Tokens /\ disk \in Tokens /\ spent \subseteq Secrets /\ unsaved \subseteq spent
    BY DEF SignInTypeOK
  <1>2. given' \in Tokens
    <2> DEFINE less == [given EXCEPT
                  !.access  = [p \in Pairs |-> IF <<"access", p>> \in used THEN 0 ELSE @[p]],
                  !.refresh = [p \in Pairs |-> IF <<"refresh", p>> \in used THEN 0 ELSE @[p]]]
    <2>1. less \in Tokens
      BY <1>1, TokensMade
    <2>2. given' = told \/ given' = less
      BY DEF Save
    <2> HIDE DEF less
    <2> QED
      BY <2>1, <2>2
  <1>3. mem' \in Tokens /\ disk' \in Tokens
    BY <1>1 DEF Save
  <1>4. spent' \subseteq Secrets /\ unsaved' \subseteq spent'
    BY <1>1 DEF Save
  <1>5. serving' \in BOOLEAN /\ readable' \in BOOLEAN
    <2>1. serving \in BOOLEAN /\ readable \in BOOLEAN
      BY DEF SignInTypeOK
    <2>2. readable' \in BOOLEAN
      BY <2>1 DEF Save
    <2> QED
      BY <2>1, <2>2 DEF Save
  <1> QED
    BY <1>2, <1>3, <1>4, <1>5

(* What Issue saves and what it makes of the owners.                         *)
LEMMA IssueTypes ==
  ASSUME SignInTypeOK, NEW p \in Pairs, NEW c \in OClients, NEW subject \in People,
         NEW m \in Tokens, NEW told \in Tokens, NEW used \in SUBSET Secrets, Issue(p, c, subject, m, told, used)
  PROVE  /\ mem' \in Tokens /\ disk' \in Tokens /\ given' \in Tokens
         /\ spent' \subseteq Secrets /\ unsaved' \subseteq spent'
         /\ serving' \in BOOLEAN /\ readable' \in BOOLEAN
         /\ owner' \in [Pairs -> [client : OClients, subject : People] \cup {Nobody}]
  <1> DEFINE new(t) == [t EXCEPT !.access[p] = AccessTtl, !.refresh[p] = RefreshTtl]
  <1>1. new(m) \in Tokens /\ new(told) \in Tokens
    BY TokensMade
  <1>2. Save(new(m), new(told), used)
    BY DEF Issue
  <1>3. owner' \in [Pairs -> [client : OClients, subject : People] \cup {Nobody}]
    BY DEF Issue, SignInTypeOK
  <1> HIDE DEF new
  <1> QED
    BY <1>1, <1>2, <1>3, SaveTypes

(* A transaction, a code, an owner that is there has a client.               *)
LEMMA Parties ==
  ASSUME SignInTypeOK
  PROVE  /\ \A f \in Flows : pending[f] # NoTxn => pending[f].client \in OClients /\ pending[f].left \in 0..TxnTtl
         /\ \A f \in Flows : codes[f] # NoCode =>
                /\ codes[f].client \in OClients /\ codes[f].subject \in People /\ codes[f].left \in 0..CodeTtl
         /\ \A p \in Pairs : owner[p] # Nobody => owner[p].client \in OClients /\ owner[p].subject \in People
  BY DEF SignInTypeOK

(* A code or transaction a second older is one still.                        *)
LEMMA OlderTypes ==
  ASSUME SignInTypeOK, SignTick
  PROVE  /\ pending' \in [Flows -> [client : OClients, left : 0..TxnTtl] \cup {NoTxn}]
         /\ codes' \in [Flows -> [client : OClients, subject : People, left : 0..CodeTtl] \cup {NoCode}]
  <1>1. \A n, k \in Nat : n \in 0..k => Less(n) \in 0..k
    BY DEF Less
  <1>2. TxnTtl \in Nat /\ CodeTtl \in Nat
    BY SignInAssumption
  <1>3. ASSUME NEW x \in [client : OClients, left : 0..TxnTtl]
        PROVE  [x EXCEPT !.left = Less(@)] \in [client : OClients, left : 0..TxnTtl]
    BY <1>1, <1>2
  <1>4. ASSUME NEW x \in [client : OClients, subject : People, left : 0..CodeTtl]
        PROVE  [x EXCEPT !.left = Less(@)] \in [client : OClients, subject : People, left : 0..CodeTtl]
    BY <1>1, <1>2
  <1> QED
    BY <1>3, <1>4 DEF SignTick, SignInTypeOK

(* Every step leaves the state of the server well-formed; a refresh, because *)
(* a token has an owner.                                                     *)
LEMMA SignInTyped ==
  ASSUME SignInTypeOK, Owned(mem, owner), [SignNext]_signVars
  PROVE  SignInTypeOK'
  <1>0. mem \in Tokens /\ disk \in Tokens /\ given \in Tokens
    BY DEF SignInTypeOK
  <1>1. ASSUME NEW c \in OClients, Register(c)
        PROVE  SignInTypeOK'
    <2> DEFINE with(t) == [t EXCEPT !.clients = @ \cup {c}]
    <2>1. with(mem) \in Tokens /\ with(given) \in Tokens /\ {} \in SUBSET Secrets
      BY <1>0, TokensMade
    <2>2. Save(with(mem), with(given), {})
      BY <1>1 DEF Register
    <2> HIDE DEF with
    <2> QED
      BY <1>1, <2>1, <2>2, SaveTypes DEF Register, SignInTypeOK
  <1>2. ASSUME NEW f \in Flows, NEW c \in OClients, Authorize(f, c)
        PROVE  SignInTypeOK'
    <2>1. TxnTtl \in 0..TxnTtl
      BY SignInAssumption
    <2>2. pending' \in [Flows -> [client : OClients, left : 0..TxnTtl] \cup {NoTxn}]
      BY <1>2, <2>1 DEF Authorize, SignInTypeOK
    <2> QED
      BY <1>2, <2>2 DEF Authorize, SignInTypeOK
  <1>3. ASSUME NEW f \in Flows, NEW u \in People, PassPage(f, u)
        PROVE  SignInTypeOK'
    <2>1. pending[f].client \in OClients /\ CodeTtl \in 0..CodeTtl
      BY <1>3, Parties, SignInAssumption DEF PassPage
    <2>2. /\ codes' \in [Flows -> [client : OClients, subject : People, left : 0..CodeTtl] \cup {NoCode}]
          /\ pending' \in [Flows -> [client : OClients, left : 0..TxnTtl] \cup {NoTxn}]
          /\ signedIn' \subseteq OClients \X People
      BY <1>3, <2>1 DEF PassPage, SignInTypeOK
    <2> QED
      BY <1>3, <2>2 DEF PassPage, SignInTypeOK
  <1>4. ASSUME NEW f \in Flows, NEW c \in OClients, NEW p \in Pairs, ExchangeCode(f, c, p)
        PROVE  SignInTypeOK'
    <2>1. codes[f].subject \in People /\ {<<"code", f>>} \in SUBSET Secrets
      BY <1>4, Parties DEF ExchangeCode, CodeOf, Secrets
    <2>2. codes' \in [Flows -> [client : OClients, subject : People, left : 0..CodeTtl] \cup {NoCode}]
      BY <1>4 DEF ExchangeCode, SignInTypeOK
    <2>3. Issue(p, c, codes[f].subject, mem, given, {<<"code", f>>})
      BY <1>4 DEF ExchangeCode
    <2> QED
      BY <1>0, <1>4, <2>1, <2>2, <2>3, IssueTypes DEF ExchangeCode, SignInTypeOK
  <1>5. ASSUME NEW q \in Pairs, NEW p \in Pairs, NEW c \in OClients, Exchange(q, c, p)
        PROVE  SignInTypeOK'
    <2> DEFINE without(t) == [t EXCEPT !.refresh[q] = 0]
    <2>1. owner[q].subject \in People /\ {<<"refresh", q>>} \in SUBSET Secrets
      BY <1>5, Parties DEF Secrets, Exchange, RefreshOf, Owned
    <2>2. without(mem) \in Tokens /\ without(given) \in Tokens
      BY <1>0, TokensMade
    <2>3. Issue(p, c, owner[q].subject, without(mem), without(given), {<<"refresh", q>>})
      BY <1>5 DEF Exchange
    <2> HIDE DEF without
    <2> QED
      BY <1>5, <2>1, <2>2, <2>3, IssueTypes DEF Exchange, SignInTypeOK
  <1>6. ASSUME NEW p \in Pairs, NEW which \in {"access", "refresh"}, Revoke(p, which)
        PROVE  SignInTypeOK'
    <2> DEFINE without(t) == IF which = "access" THEN [t EXCEPT !.access[p] = 0] ELSE [t EXCEPT !.refresh[p] = 0]
    <2>1. without(mem) \in Tokens /\ without(given) \in Tokens
      BY <1>0, TokensMade
    <2>2. Save(without(mem), without(given), {<<which, p>>}) /\ {<<which, p>>} \in SUBSET Secrets
      BY <1>6 DEF Revoke, Secrets
    <2> HIDE DEF without
    <2> QED
      BY <1>6, <2>1, <2>2, SaveTypes DEF Revoke, SignInTypeOK
  <1>7. CASE StopServer \/ StartServer
    BY <1>7 DEF StopServer, StartServer, SignInTypeOK
  <1>8. CASE SignTick
    <2> DEFINE older(t) == [t EXCEPT !.access  = [p \in Pairs |-> Less(@[p])],
                                     !.refresh = [p \in Pairs |-> Less(@[p])]]
    <2>1. older(mem) \in Tokens /\ older(disk) \in Tokens /\ older(given) \in Tokens
      BY <1>0, TokensMade
    <2>2. mem' = older(mem) /\ disk' = older(disk) /\ given' = older(given)
      BY <1>8 DEF SignTick
    <2> HIDE DEF older
    <2> QED
      BY <1>8, <2>1, <2>2, OlderTypes DEF SignTick, SignInTypeOK
  <1>9. CASE UNCHANGED signVars
    BY <1>9 DEF signVars, SignInTypeOK
  <1> QED
    BY <1>1, <1>2, <1>3, <1>4, <1>5, <1>6, <1>7, <1>8, <1>9 DEF SignNext
-----------------------------------------------------------------------------
(* What is stored.                                                           *)

(* A fresh pair of tokens, value by value.                                   *)
LEMMA FreshIs ==
  ASSUME NEW t \in Tokens, NEW p \in Pairs
  PROVE  LET new == [t EXCEPT !.access[p] = AccessTtl, !.refresh[p] = RefreshTtl] IN
         /\ new.clients = t.clients
         /\ \A q \in Pairs : /\ new.access[q] = IF q = p THEN AccessTtl ELSE t.access[q]
                             /\ new.refresh[q] = IF q = p THEN RefreshTtl ELSE t.refresh[q]
  BY DEF Tokens

(* What a client is told of after a save that failed.                        *)
LessUsed(t, used) ==
    [t EXCEPT !.access  = [p \in Pairs |-> IF <<"access", p>> \in used THEN 0 ELSE @[p]],
              !.refresh = [p \in Pairs |-> IF <<"refresh", p>> \in used THEN 0 ELSE @[p]]]

(* A state fit to be stored is, whether the save succeeds, fails or tears.   *)
LEMMA SaveKeeps ==
  ASSUME SignInTypeOK, Stored, NEW m \in Tokens, NEW told \in Tokens, NEW used \in SUBSET Secrets, Save(m, told, used),
         \A p \in Pairs : owner[p] # Nobody => owner'[p] # Nobody,
         Owned(m, owner'), Unspent(m, spent \cup used), Keeps(m, told), Keeps(m, LessUsed(given, used))
  PROVE  Stored'
  <1>1. mem' = m /\ spent' = spent \cup used
    BY DEF Save
  <1>2. Owned(disk, owner')
    BY DEF Stored, Owned
  <1>3. CASE disk' = m /\ given' = told /\ unsaved' = {}
    <2>1. Unspent(m, spent' \ {})
      BY <1>1 DEF Unspent
    <2> QED
      BY <1>1, <1>3, <2>1 DEF Stored
  <1>4. CASE /\ disk' = disk /\ given' = LessUsed(given, used)
             /\ unsaved' = unsaved \cup {x \in used : x[1] # "code"}
    <2>1. Unspent(disk, spent' \ unsaved')
      <3>1. \A x : x \in spent' \ unsaved' /\ x[1] # "code" => x \in spent \ unsaved
        BY <1>1, <1>4
      <3>2. \A p \in Pairs : /\ <<"access", p>> \in spent' \ unsaved' => <<"access", p>> \in spent \ unsaved
                             /\ <<"refresh", p>> \in spent' \ unsaved' => <<"refresh", p>> \in spent \ unsaved
        BY <3>1
      <3>3. Unspent(disk, spent \ unsaved)
        BY DEF Stored
      <3> DEFINE now  == spent' \ unsaved'
                 then == spent \ unsaved
      <3> HIDE DEF now, then
      <3>4. Unspent(disk, now)
        BY <3>2, <3>3 DEF Unspent, now, then
      <3> QED
        BY <3>4 DEF now
    <2>2. Keeps(disk, LessUsed(given, used))
      <3>1. Keeps(disk, given) /\ given \in Tokens
        BY DEF Stored, SignInTypeOK
      <3> DEFINE less == LessUsed(given, used)
      <3>2. /\ less.clients = given.clients
            /\ \A p \in Pairs : /\ less.access[p] = 0 \/ less.access[p] = given.access[p]
                                /\ less.refresh[p] = 0 \/ less.refresh[p] = given.refresh[p]
        BY <3>1 DEF LessUsed, Tokens
      <3> HIDE DEF less
      <3>3. Keeps(disk, less)
        BY <3>1, <3>2 DEF Keeps
      <3> QED
        BY <3>3 DEF less
    <2> QED
      BY <1>1, <1>2, <1>4, <2>1, <2>2 DEF Stored
  <1> QED
    BY <1>3, <1>4 DEF Save, LessUsed

(* A fresh pair is fit to be stored.                                         *)
LEMMA IssueKeeps ==
  ASSUME SignInTypeOK, Unused, Stored,
         NEW p \in Pairs, NEW c \in OClients, NEW subject \in People,
         NEW m \in Tokens, NEW told \in Tokens, NEW used \in SUBSET Secrets, Issue(p, c, subject, m, told, used),
         <<"access", p>> \notin used, <<"refresh", p>> \notin used,
         Owned(m, owner), Unspent(m, spent \cup used), Keeps(m, told), Keeps(m, LessUsed(given, used))
  PROVE  Stored'
  <1> DEFINE new(t) == [t EXCEPT !.access[p] = AccessTtl, !.refresh[p] = RefreshTtl]
             less   == LessUsed(given, used)
  <1>1. /\ owner[p] = Nobody /\ Save(new(m), new(told), used)
        /\ owner' = [owner EXCEPT ![p] = [client |-> c, subject |-> subject]]
    BY DEF Issue
  <1>2. new(m) \in Tokens /\ new(told) \in Tokens
    BY TokensMade
  <1>3. \A t \in Tokens : /\ new(t).clients = t.clients
                          /\ \A q \in Pairs : /\ new(t).access[q] = IF q = p THEN AccessTtl ELSE t.access[q]
                                              /\ new(t).refresh[q] = IF q = p THEN RefreshTtl ELSE t.refresh[q]
    BY FreshIs
  <1> HIDE DEF new, less
  <1>4. owner'[p] # Nobody /\ \A q \in Pairs : q # p => owner'[q] = owner[q]
    BY <1>1 DEF SignInTypeOK, Nobody
  <1>5. ~ (m.access[p] > 0) /\ ~ (m.refresh[p] > 0)
    BY <1>1 DEF Owned
  <1>6. Owned(new(m), owner')
    BY <1>3, <1>4 DEF Owned
  <1>7. <<"access", p>> \notin spent \cup used /\ <<"refresh", p>> \notin spent \cup used
    BY <1>1 DEF Unused
  <1>8. Unspent(new(m), spent \cup used)
    BY <1>3, <1>7 DEF Unspent
  <1>9. Keeps(new(m), new(told))
    BY <1>3 DEF Keeps
  <1>10. Keeps(new(m), less)
    <2>1. Keeps(m, less)
      BY DEF less
    <2>2. ~ (less.access[p] > 0) /\ ~ (less.refresh[p] > 0)
      BY <1>5, <2>1 DEF Keeps
    <2> QED
      BY <1>3, <2>1, <2>2 DEF Keeps
  <1> QED
    BY <1>1, <1>2, <1>4, <1>6, <1>8, <1>9, <1>10, SaveKeeps DEF less

(* Every step leaves what is stored as it must be.                           *)
LEMMA StoredKept ==
  ASSUME SignInInv, [SignNext]_signVars
  PROVE  Stored'
  <1> USE DEF SignInInv
  <1>0. /\ mem \in Tokens /\ disk \in Tokens /\ given \in Tokens
        /\ Owned(mem, owner) /\ Unspent(mem, spent) /\ Keeps(mem, given)
    BY DEF SignInTypeOK, Stored
  <1>1. ASSUME NEW c \in OClients, Register(c)
        PROVE  Stored'
    <2> DEFINE m    == [mem EXCEPT !.clients = @ \cup {c}]
               told == [given EXCEPT !.clients = @ \cup {c}]
               less == LessUsed(given, {})
    <2>1. /\ m.access = mem.access /\ m.refresh = mem.refresh /\ m.clients = mem.clients \cup {c}
          /\ told.access = given.access /\ told.refresh = given.refresh /\ told.clients = given.clients \cup {c}
      BY <1>0 DEF Tokens
    <2>2. /\ less.clients = given.clients
          /\ \A p \in Pairs : less.access[p] = given.access[p] /\ less.refresh[p] = given.refresh[p]
      BY <1>0 DEF LessUsed, Tokens
    <2>3. m \in Tokens /\ told \in Tokens /\ {} \in SUBSET Secrets
      BY <1>0, TokensMade
    <2>4. Save(m, told, {}) /\ owner' = owner
      BY <1>1 DEF Register
    <2> HIDE DEF m, told, less
    <2>5. Owned(m, owner') /\ Unspent(m, spent \cup {}) /\ Keeps(m, told) /\ Keeps(m, less)
      BY <1>0, <2>1, <2>2, <2>4 DEF Owned, Unspent, Keeps
    <2> QED
      BY <2>3, <2>4, <2>5, SaveKeeps DEF less
  <1>2. ASSUME NEW f \in Flows, NEW c \in OClients, NEW p \in Pairs, ExchangeCode(f, c, p)
        PROVE  Stored'
    <2> DEFINE used == {<<"code", f>>}
               less == LessUsed(given, used)
    <2>1. codes[f].subject \in People /\ used \in SUBSET Secrets
      BY <1>2, Parties DEF ExchangeCode, CodeOf, Secrets
    <2>2. \A q \in Pairs : <<"access", q>> \notin used /\ <<"refresh", q>> \notin used
      OBVIOUS
    <2>3. Issue(p, c, codes[f].subject, mem, given, used)
      BY <1>2 DEF ExchangeCode
    <2>4. /\ less.clients = given.clients
          /\ \A q \in Pairs : less.access[q] = given.access[q] /\ less.refresh[q] = given.refresh[q]
      BY <1>0, <2>2 DEF LessUsed, Tokens
    <2> HIDE DEF used, less
    <2>5. Unspent(mem, spent \cup used) /\ Keeps(mem, less)
      BY <1>0, <2>2, <2>4 DEF Unspent, Keeps
    <2> QED
      BY <1>0, <2>1, <2>2, <2>3, <2>5, IssueKeeps DEF less
  <1>3. ASSUME NEW q \in Pairs, NEW p \in Pairs, NEW c \in OClients, Exchange(q, c, p)
        PROVE  Stored'
    <2> DEFINE used == {<<"refresh", q>>}
               m    == [mem EXCEPT !.refresh[q] = 0]
               told == [given EXCEPT !.refresh[q] = 0]
               less == LessUsed(given, used)
    <2>1. owner[q] # Nobody
      BY <1>0, <1>3 DEF Exchange, RefreshOf, Owned
    <2>2. /\ owner[q].subject \in People /\ used \in SUBSET Secrets
          /\ m \in Tokens /\ told \in Tokens
      <3>1. owner[q].subject \in People /\ used \in SUBSET Secrets
        BY <2>1, Parties DEF Secrets
      <3>2. m \in Tokens /\ told \in Tokens
        BY <1>0, TokensMade
      <3> QED
        BY <3>1, <3>2
    <2>3. Issue(p, c, owner[q].subject, m, told, used)
      BY <1>3 DEF Exchange
    <2>4. p # q /\ \A x \in Pairs : <<"access", x>> \notin used /\ (x # q => <<"refresh", x>> \notin used)
      BY <2>1, <2>3 DEF Issue
    <2>5. /\ m.clients = mem.clients /\ told.clients = given.clients /\ less.clients = given.clients
          /\ \A x \in Pairs : /\ m.access[x] = mem.access[x] /\ told.access[x] = given.access[x]
                              /\ m.refresh[x] = IF x = q THEN 0 ELSE mem.refresh[x]
                              /\ told.refresh[x] = IF x = q THEN 0 ELSE given.refresh[x]
                              /\ less.access[x] = given.access[x]
                              /\ less.refresh[x] = IF x = q THEN 0 ELSE given.refresh[x]
      BY <1>0 DEF LessUsed, Tokens
    <2> HIDE DEF used, m, told, less
    <2>6. Owned(m, owner) /\ Unspent(m, spent \cup used) /\ Keeps(m, told) /\ Keeps(m, less)
      BY <1>0, <2>4, <2>5 DEF Owned, Unspent, Keeps
    <2> QED
      BY <2>2, <2>3, <2>4, <2>6, IssueKeeps DEF less
  <1>4. ASSUME NEW p \in Pairs, NEW which \in {"access", "refresh"}, Revoke(p, which)
        PROVE  Stored'
    <2> DEFINE without(t) == IF which = "access" THEN [t EXCEPT !.access[p] = 0] ELSE [t EXCEPT !.refresh[p] = 0]
               m    == without(mem)
               told == without(given)
               used == {<<which, p>>}
               less == LessUsed(given, used)
    <2>1. m \in Tokens /\ told \in Tokens /\ used \in SUBSET Secrets
      <3>1. m \in Tokens /\ told \in Tokens
        BY <1>0, TokensMade
      <3>2. used \in SUBSET Secrets
        BY DEF Secrets
      <3> QED
        BY <3>1, <3>2
    <2>2. Save(m, told, used) /\ owner' = owner
      BY <1>4 DEF Revoke
    <2>3. \A x \in Pairs : /\ <<"access", x>> \in used <=> which = "access" /\ x = p
                           /\ <<"refresh", x>> \in used <=> which = "refresh" /\ x = p
      OBVIOUS
    <2>4. /\ m.clients = mem.clients /\ told.clients = given.clients /\ less.clients = given.clients
          /\ \A x \in Pairs : /\ m.access[x] = IF which = "access" /\ x = p THEN 0 ELSE mem.access[x]
                              /\ m.refresh[x] = IF which = "refresh" /\ x = p THEN 0 ELSE mem.refresh[x]
                              /\ told.access[x] = IF which = "access" /\ x = p THEN 0 ELSE given.access[x]
                              /\ told.refresh[x] = IF which = "refresh" /\ x = p THEN 0 ELSE given.refresh[x]
                              /\ less.access[x] = IF which = "access" /\ x = p THEN 0 ELSE given.access[x]
                              /\ less.refresh[x] = IF which = "refresh" /\ x = p THEN 0 ELSE given.refresh[x]
      BY <1>0, <2>3 DEF LessUsed, Tokens
    <2> HIDE DEF used, m, told, less
    <2>5. Owned(m, owner') /\ Unspent(m, spent \cup used) /\ Keeps(m, told) /\ Keeps(m, less)
      BY <1>0, <2>2, <2>3, <2>4 DEF Owned, Unspent, Keeps
    <2> QED
      BY <2>1, <2>2, <2>5, SaveKeeps DEF less
  <1>5. CASE StartServer
    BY <1>5 DEF StartServer, Stored, Unspent
  <1>6. CASE SignTick
    <2> DEFINE older(t) == [t EXCEPT !.access  = [p \in Pairs |-> Less(@[p])],
                                     !.refresh = [p \in Pairs |-> Less(@[p])]]
    <2>1. /\ mem' = older(mem) /\ disk' = older(disk) /\ given' = older(given)
          /\ owner' = owner /\ spent' = spent /\ unsaved' = unsaved
      BY <1>6 DEF SignTick
    <2>2. \A t \in Tokens : /\ older(t).clients = t.clients
                            /\ \A p \in Pairs : /\ older(t).access[p] = Less(t.access[p])
                                                /\ older(t).refresh[p] = Less(t.refresh[p])
                                                /\ t.access[p] \in Nat /\ t.refresh[p] \in Nat
      BY SignInAssumption DEF Tokens
    <2> HIDE DEF older
    <2>3. ASSUME NEW t \in Tokens, NEW s
          PROVE  /\ Owned(t, owner) => Owned(older(t), owner')
                 /\ Unspent(t, s) => Unspent(older(t), s)
                 /\ Keeps(t, given) => Keeps(older(t), given')
      BY <1>0, <2>1, <2>2 DEF Owned, Unspent, Keeps, Less
    <2> QED
      BY <1>0, <2>1, <2>3 DEF Stored
  <1>7. ASSUME \/ \E f \in Flows, c \in OClients : Authorize(f, c)
               \/ \E f \in Flows, u \in People : PassPage(f, u)
               \/ StopServer \/ UNCHANGED signVars
        PROVE  Stored'
    <2>1. /\ mem' = mem /\ disk' = disk /\ given' = given
          /\ owner' = owner /\ spent' = spent /\ unsaved' = unsaved
      BY <1>7 DEF Authorize, PassPage, StopServer, signVars
    <2> QED
      BY <2>1 DEF Stored
  <1> QED
    BY <1>1, <1>2, <1>3, <1>4, <1>5, <1>6, <1>7 DEF SignNext
-----------------------------------------------------------------------------
(* Whom tokens speak for, and what is spent.                                 *)

(* What each step does to codes and owners.                                  *)
LEMMA SpokenKept ==
  ASSUME SignInInv, [SignNext]_signVars
  PROVE  SpokenFor'
  <1> USE DEF SignInInv
  <1>1. ASSUME NEW f \in Flows, NEW u \in People, PassPage(f, u)
        PROVE  SpokenFor'
    <2>1. /\ signedIn' = signedIn \cup {<<pending[f].client, u>>} /\ owner' = owner
          /\ codes'[f] = [client |-> pending[f].client, subject |-> u, left |-> CodeTtl]
          /\ \A g \in Flows : g # f => codes'[g] = codes[g]
      BY <1>1 DEF PassPage, SignInTypeOK
    <2>2. codes'[f].client = pending[f].client /\ codes'[f].subject = u
      BY <2>1
    <2> QED
      BY <2>1, <2>2 DEF SpokenFor
  <1>2. ASSUME NEW f \in Flows, NEW c \in OClients, NEW p \in Pairs, ExchangeCode(f, c, p)
        PROVE  SpokenFor'
    <2>1. /\ codes[f] # NoCode /\ codes[f].client = c /\ signedIn' = signedIn
          /\ codes'[f] = NoCode /\ \A g \in Flows : g # f => codes'[g] = codes[g]
          /\ owner'[p] = [client |-> c, subject |-> codes[f].subject]
          /\ \A q \in Pairs : q # p => owner'[q] = owner[q]
      BY <1>2 DEF ExchangeCode, CodeOf, Issue, SignInTypeOK
    <2>2. owner'[p].client = c /\ owner'[p].subject = codes[f].subject
      BY <2>1
    <2> QED
      BY <2>1, <2>2 DEF SpokenFor
  <1>3. ASSUME NEW q \in Pairs, NEW p \in Pairs, NEW c \in OClients, Exchange(q, c, p)
        PROVE  SpokenFor'
    <2>1. owner[q] # Nobody /\ owner[q].client = c
      BY <1>3 DEF Exchange, RefreshOf, Stored, Owned
    <2>2. /\ signedIn' = signedIn /\ codes' = codes
          /\ owner'[p] = [client |-> c, subject |-> owner[q].subject]
          /\ \A x \in Pairs : x # p => owner'[x] = owner[x]
      BY <1>3 DEF Exchange, Issue, SignInTypeOK
    <2>3. owner'[p].client = c /\ owner'[p].subject = owner[q].subject
      BY <2>2
    <2> QED
      BY <2>1, <2>2, <2>3 DEF SpokenFor
  <1>4. CASE StartServer
    BY <1>4 DEF StartServer, SpokenFor
  <1>5. CASE SignTick
    <2>1. /\ signedIn' = signedIn /\ owner' = owner
          /\ \A f \in Flows : codes'[f] = IF codes[f] = NoCode THEN NoCode ELSE [codes[f] EXCEPT !.left = Less(@)]
      BY <1>5 DEF SignTick
    <2>2. \A f \in Flows : codes[f] # NoCode =>
             /\ [codes[f] EXCEPT !.left = Less(@)].client = codes[f].client
             /\ [codes[f] EXCEPT !.left = Less(@)].subject = codes[f].subject
      BY DEF SignInTypeOK
    <2> QED
      BY <2>1, <2>2 DEF SpokenFor
  <1>6. ASSUME \/ \E c \in OClients : Register(c) \/ \E f \in Flows : Authorize(f, c)
               \/ \E p \in Pairs, which \in {"access", "refresh"} : Revoke(p, which)
               \/ StopServer \/ UNCHANGED signVars
        PROVE  SpokenFor'
    <2>1. codes' = codes /\ owner' = owner /\ signedIn' = signedIn
      BY <1>6 DEF Register, Authorize, Revoke, StopServer, signVars
    <2> QED
      BY <2>1 DEF SpokenFor
  <1> QED
    BY <1>1, <1>2, <1>3, <1>4, <1>5, <1>6 DEF SignNext

(* A step spends only what there was.                                        *)
LEMMA UnusedKept ==
  ASSUME SignInInv, [SignNext]_signVars
  PROVE  Unused'
  <1> USE DEF SignInInv
  <1>1. ASSUME NEW f \in Flows, NEW c \in OClients, Authorize(f, c)
        PROVE  Unused'
    BY <1>1 DEF Authorize, Unused, SignInTypeOK
  <1>2. ASSUME NEW f \in Flows, NEW u \in People, PassPage(f, u)
        PROVE  Unused'
    BY <1>2 DEF PassPage, Unused, SignInTypeOK
  <1>3. ASSUME NEW f \in Flows, NEW c \in OClients, NEW p \in Pairs, ExchangeCode(f, c, p)
        PROVE  Unused'
    <2>1. /\ codes[f] # NoCode /\ spent' = spent \cup {<<"code", f>>} /\ pending' = pending
          /\ codes'[f] = NoCode /\ \A g \in Flows : g # f => codes'[g] = codes[g]
          /\ \A q \in Pairs : owner'[q] = Nobody => owner[q] = Nobody
      BY <1>3 DEF ExchangeCode, CodeOf, Issue, Save, SignInTypeOK
    <2>2. /\ \A g \in Flows : g # f => <<"code", g>> \notin {<<"code", f>>}
          /\ \A q \in Pairs : <<"access", q>> \notin {<<"code", f>>} /\ <<"refresh", q>> \notin {<<"code", f>>}
      OBVIOUS
    <2> QED
      BY <2>1, <2>2 DEF Unused
  <1>4. ASSUME NEW q \in Pairs, NEW p \in Pairs, NEW c \in OClients, Exchange(q, c, p)
        PROVE  Unused'
    <2>1. owner[q] # Nobody
      BY <1>4 DEF Exchange, RefreshOf, Stored, Owned
    <2>2. /\ spent' = spent \cup {<<"refresh", q>>} /\ pending' = pending /\ codes' = codes
          /\ \A x \in Pairs : owner'[x] = Nobody => owner[x] = Nobody
      BY <1>4 DEF Exchange, Issue, Save, SignInTypeOK
    <2>3. /\ \A g \in Flows : <<"code", g>> \notin {<<"refresh", q>>}
          /\ \A x \in Pairs : /\ <<"access", x>> \notin {<<"refresh", q>>}
                              /\ x # q => <<"refresh", x>> \notin {<<"refresh", q>>}
      OBVIOUS
    <2> QED
      BY <2>1, <2>2, <2>3 DEF Unused
  <1>5. ASSUME NEW p \in Pairs, NEW which \in {"access", "refresh"}, Revoke(p, which)
        PROVE  Unused'
    <2>1. owner[p] # Nobody
      BY <1>5 DEF Revoke, Stored, Owned
    <2>2. /\ spent' = spent \cup {<<which, p>>} /\ pending' = pending /\ codes' = codes /\ owner' = owner
      BY <1>5 DEF Revoke, Save
    <2>3. /\ \A g \in Flows : <<"code", g>> \notin {<<which, p>>}
          /\ \A x \in Pairs : x # p => <<"access", x>> \notin {<<which, p>>} /\ <<"refresh", x>> \notin {<<which, p>>}
      OBVIOUS
    <2> QED
      BY <2>1, <2>2, <2>3 DEF Unused
  <1>6. CASE StartServer
    BY <1>6 DEF StartServer, Unused
  <1>7. CASE SignTick
    <2>1. /\ spent' = spent /\ owner' = owner
          /\ \A f \in Flows : /\ codes[f] = NoCode => codes'[f] = NoCode
                              /\ pending[f] = NoTxn => pending'[f] = NoTxn
      BY <1>7 DEF SignTick
    <2> QED
      BY <2>1 DEF Unused
  <1>8. ASSUME NEW c \in OClients, Register(c)
        PROVE  Unused'
    <2>1. spent' = spent /\ pending' = pending /\ codes' = codes /\ owner' = owner
      BY <1>8 DEF Register, Save
    <2> QED
      BY <2>1 DEF Unused
  <1>9. CASE StopServer \/ UNCHANGED signVars
    BY <1>9 DEF StopServer, signVars, Unused
  <1> QED
    BY <1>1, <1>2, <1>3, <1>4, <1>5, <1>6, <1>7, <1>8, <1>9 DEF SignNext

-----------------------------------------------------------------------------
(* The theorems.                                                             *)

(* The invariant: types, whom codes and tokens speak for, what is unused,    *)
(* and what memory and file hold, at every step of the server.               *)
THEOREM SignInHolds == SignInSpec => []SignInInv
  <1>1. SignInit => SignInInv
    <2>1. None \in Tokens /\ \A p \in Pairs : None.access[p] = 0 /\ None.refresh[p] = 0
      BY SignInAssumption DEF None, Tokens
    <2>2. SignInit => SignInTypeOK
      BY <2>1 DEF SignInit, SignInTypeOK
    <2>3. SignInit => SpokenFor /\ Unused
      BY DEF SignInit, SpokenFor, Unused
    <2>4. SignInit => Stored
      BY <2>1 DEF SignInit, Stored, Owned, Unspent, Keeps
    <2> QED
      BY <2>2, <2>3, <2>4 DEF SignInInv
  <1>2. SignInInv /\ [SignNext]_signVars => SignInInv'
    <2> SUFFICES ASSUME SignInInv, [SignNext]_signVars
                 PROVE  SignInInv'
      OBVIOUS
    <2>1. SignInTypeOK'
      BY SignInTyped DEF SignInInv, Stored
    <2> QED
      BY <2>1, SpokenKept, UnusedKept, StoredKept DEF SignInInv
  <1> QED
    BY <1>1, <1>2, PTL DEF SignInSpec

(* Whatever is refreshed, torn, lost and restarted, a request is decided for *)
(* somebody who passed the page for the client that sends it.                *)
THEOREM SpeaksForSignedIn == SignInSpec => []TokensAreSignedIn
  <1>1. SignInInv => TokensAreSignedIn
    <2> SUFFICES ASSUME SignInInv, NEW p \in Pairs, Accepted(p)
                 PROVE  <<AgentOf(p), IdentityOf(p)>> \in signedIn
      BY DEF TokensAreSignedIn
    <2>1. owner[p] # Nobody
      BY DEF Accepted, SignInInv, Stored, Owned
    <2>2. AgentOf(p) = owner[p].client /\ IdentityOf(p) = owner[p].subject
      BY DEF AgentOf, IdentityOf, Claims
    <2> QED
      BY <2>1, <2>2 DEF SignInInv, SpokenFor
  <1> QED
    BY <1>1, SignInHolds, PTL

(* No code or refresh token serves twice, and what is revoked stays so,      *)
(* while the server that exchanged it runs.                                  *)
THEOREM StaysSpent == SignInSpec => []SpentIsSpent
  <1>1. SignInInv => SpentIsSpent
    BY DEF SignInInv, Unused, Stored, Unspent, SpentIsSpent
  <1> QED
    BY <1>1, SignInHolds, PTL

(* What a client was told it has, a server that runs accepts.                *)
THEOREM StaysGiven == SignInSpec => []GivenIsKept
  <1>1. SignInInv => GivenIsKept
    BY DEF SignInInv, Stored, Keeps, GivenIsKept
  <1> QED
    BY <1>1, SignInHolds, PTL

-----------------------------------------------------------------------------
(* The rate limiter.                                                         *)

(* Calls of the running second, and those under and before the running key.  *)
Now(calls)           == {c \in calls : c[1] = 0}
InKey(calls, ph)     == {c \in calls : c[1] <= ph}
BeforeKey(calls, ph) == {c \in calls : c[1] > ph}

(* The calls of the running second are numbered without a gap.               *)
Numbered == \A u \in Callers : Now(recent[u]) = {0} \X (1..Cardinality(Now(recent[u])))

(* What has been let pass was counted; Redis counts what it saw since its    *)
(* key began, and lets no more than the limit pass under each of two keys.   *)
PassedCounted ==
    \A u \in Callers :
        /\ passedMem[u] \subseteq recent[u] /\ passedRedis[u] \subseteq recent[u]
        /\ Cardinality(passedMem[u]) <= MaxCalls
        /\ counter[u] = Cardinality(InKey(recent[u], phase))
        /\ Cardinality(InKey(passedRedis[u], phase)) <= MaxCalls
        /\ Cardinality(BeforeKey(passedRedis[u], phase)) <= MaxCalls

RateLimitInv == RateLimitTypeOK /\ Numbered /\ PassedCounted

(* The bounds are positive numbers.                                          *)
LEMMA BoundsType == MaxCalls \in Nat \ {0} /\ RlWindow \in Nat \ {0} /\ PerSecond \in Nat \ {0}
  BY RateLimitAssumption

(* No calls are none.                                                        *)
LEMMA NoneCounted == Cardinality({}) = 0
  BY FS_EmptySet

(* Whatever is counted is finite.                                            *)
LEMMA CallsFinite ==
  /\ IsFiniteSet(Calls) /\ Cardinality(Calls) = PerSecond * RlWindow
  /\ \A S \in SUBSET Calls : IsFiniteSet(S) /\ Cardinality(S) \in 0..(PerSecond * RlWindow)
  <1>1. RlWindow \in Nat \ {0} /\ PerSecond \in Nat \ {0}
    BY BoundsType
  <1>2. IsFiniteSet(Ages) /\ Cardinality(Ages) = RlWindow
    BY <1>1, FS_Interval DEF Ages
  <1>3. IsFiniteSet(1..PerSecond) /\ Cardinality(1..PerSecond) = PerSecond
    BY <1>1, FS_Interval
  <1>4. IsFiniteSet(Calls) /\ Cardinality(Calls) = RlWindow * PerSecond
    BY <1>2, <1>3, FS_Product DEF Calls
  <1>5. RlWindow * PerSecond = PerSecond * RlWindow /\ PerSecond * RlWindow \in Nat
    BY <1>1
  <1>6. ASSUME NEW S \in SUBSET Calls PROVE IsFiniteSet(S) /\ Cardinality(S) \in 0..(PerSecond * RlWindow)
    <2>1. IsFiniteSet(S) /\ Cardinality(S) <= Cardinality(Calls)
      BY <1>4, FS_Subset
    <2>2. Cardinality(S) \in Nat
      BY <2>1, FS_CardinalityType
    <2> QED
      BY <1>4, <1>5, <2>1, <2>2
  <1> QED
    BY <1>4, <1>5, <1>6

(* The calls under the running key and those before it are apart.            *)
LEMMA CallParts ==
  ASSUME NEW c \in Calls
  PROVE  c = <<c[1], c[2]>> /\ c[1] \in Nat /\ c[1] < RlWindow /\ c[2] \in 1..PerSecond
  BY BoundsType DEF Calls, Ages

(* A second later, calls are as many as they were before, but for those that *)
(* have left.                                                                *)
LEMMA AgedSize ==
  ASSUME NEW S \in SUBSET Calls, NEW T \in SUBSET Aged(S)
  PROVE  Cardinality(T) = Cardinality({c \in S : <<c[1] + 1, c[2]>> \in T})
  <1> DEFINE B == {c \in S : <<c[1] + 1, c[2]>> \in T}
             Later == [c \in B |-> <<c[1] + 1, c[2]>>]
  <1>1. IsFiniteSet(B)
    BY CallsFinite
  <1>2. Later \in [B -> T]
    OBVIOUS
  <1>3. ASSUME NEW b \in B, NEW c \in B, Later[b] = Later[c] PROVE b = c
    <2>1. b[1] + 1 = c[1] + 1 /\ b[2] = c[2]
      BY <1>3
    <2>2. b \in Calls /\ c \in Calls
      OBVIOUS
    <2> QED
      BY <2>1, <2>2, CallParts
  <1>4. ASSUME NEW t \in T PROVE \E c \in B : Later[c] = t
    <2>1. t \in Calls /\ t[1] > 0 /\ <<t[1] - 1, t[2]>> \in S
      BY DEF Aged
    <2>2. t = <<t[1], t[2]>> /\ t[1] \in Nat
      BY <2>1, CallParts
    <2>3. <<(t[1] - 1) + 1, t[2]>> = t
      BY <2>2
    <2>4. <<t[1] - 1, t[2]>> \in B
      BY <2>1, <2>3
    <2> QED
      BY <2>3, <2>4
  <1> HIDE DEF B, Later
  <1>5. Later \in Bijection(B, T)
    BY <1>2, <1>3, <1>4 DEF Bijection, Injection, Surjection, IsInjective
  <1>6. ExistsBijection(B, T)
    BY <1>5 DEF ExistsBijection
  <1> QED
    BY <1>1, <1>6, FS_Bijection DEF B

(* A call is counted, and let pass only while it is within the limit.        *)
LEMMA AllowKept ==
  ASSUME RateLimitInv, NEW u \in Callers, Allow(u)
  PROVE  RateLimitInv'
  <1> DEFINE nth  == Cardinality(Now(recent[u])) + 1
             call == <<0, nth>>
  <1> USE BoundsType
  <1>1. /\ recent[u] \in SUBSET Calls /\ passedMem[u] \in SUBSET Calls /\ passedRedis[u] \in SUBSET Calls
        /\ phase \in Nat /\ counter[u] \in Nat
    BY DEF RateLimitInv, RateLimitTypeOK, Ages
  <1>2. /\ nth \in Nat \ {0} /\ nth <= PerSecond /\ Cardinality(Now(recent[u])) \in Nat
        /\ recent' = [recent EXCEPT ![u] = @ \cup {call}]
        /\ counter' = [counter EXCEPT ![u] = @ + 1] /\ phase' = phase
        /\ passedMem' = IF Cardinality(recent'[u]) <= MaxCalls
                         THEN [passedMem EXCEPT ![u] = @ \cup {call}] ELSE passedMem
        /\ passedRedis' = IF counter'[u] <= MaxCalls
                           THEN [passedRedis EXCEPT ![u] = @ \cup {call}] ELSE passedRedis
    <2>1. Now(recent[u]) \in SUBSET Calls
      BY <1>1 DEF Now
    <2>2. Cardinality(Now(recent[u])) \in Nat
      BY <2>1, CallsFinite
    <2> QED
      BY <2>2 DEF Allow, Now, Within, MemoryCount, RedisCount
  <1>3. call \in Calls /\ call \notin recent[u] /\ call[1] = 0
    <2>1. call \in Calls
      BY <1>2 DEF Calls, Ages
    <2>2. Now(recent[u]) = {0} \X (1..(nth - 1))
      <3>1. Now(recent[u]) = {0} \X (1..Cardinality(Now(recent[u])))
        BY DEF RateLimitInv, Numbered
      <3>2. nth - 1 = Cardinality(Now(recent[u]))
        BY <1>2
      <3> HIDE DEF nth
      <3> QED
        BY <3>1, <3>2
    <2>3. call \notin Now(recent[u])
      BY <1>2, <2>2
    <2> QED
      BY <2>1, <2>3 DEF Now
  <1> HIDE DEF call
  <1>4. /\ recent'[u] = recent[u] \cup {call} /\ counter'[u] = counter[u] + 1
        /\ \A v \in Callers : v # u => /\ recent'[v] = recent[v] /\ counter'[v] = counter[v]
                                       /\ passedMem'[v] = passedMem[v] /\ passedRedis'[v] = passedRedis[v]
    BY <1>2 DEF RateLimitInv, RateLimitTypeOK
  <1>5. Now(recent'[u]) = {0} \X (1..Cardinality(Now(recent'[u])))
    <2>1. Now(recent'[u]) = Now(recent[u]) \cup {call}
      BY <1>3, <1>4 DEF Now
    <2>2. Cardinality(Now(recent'[u])) = nth
      <3>1. IsFiniteSet(Now(recent[u])) /\ call \notin Now(recent[u])
        BY <1>1, <1>3, CallsFinite DEF Now
      <3> QED
        BY <2>1, <3>1, FS_AddElement
    <2>3. Now(recent[u]) = {0} \X (1..(nth - 1))
      <3>1. Now(recent[u]) = {0} \X (1..Cardinality(Now(recent[u])))
        BY DEF RateLimitInv, Numbered
      <3>2. nth - 1 = Cardinality(Now(recent[u]))
        BY <1>2
      <3> HIDE DEF nth
      <3> QED
        BY <3>1, <3>2
    <2>4. {0} \X (1..nth) = ({0} \X (1..(nth - 1))) \cup {<<0, nth>>}
      <3>1. 1..nth = (1..(nth - 1)) \cup {nth}
        BY <1>2
      <3>2. \A A, x : {0} \X (A \cup {x}) = ({0} \X A) \cup {<<0, x>>}
        OBVIOUS
      <3> HIDE DEF nth
      <3> QED
        BY <3>1, <3>2
    <2> QED
      BY <2>1, <2>2, <2>3, <2>4 DEF call
  <1>6. counter'[u] = Cardinality(InKey(recent'[u], phase'))
    <2>1. InKey(recent'[u], phase') = InKey(recent[u], phase) \cup {call}
      BY <1>1, <1>2, <1>3, <1>4 DEF InKey
    <2>2. IsFiniteSet(InKey(recent[u], phase)) /\ call \notin InKey(recent[u], phase)
      BY <1>1, <1>3, CallsFinite DEF InKey
    <2>3. Cardinality(InKey(recent'[u], phase')) = Cardinality(InKey(recent[u], phase)) + 1
      BY <2>1, <2>2, FS_AddElement
    <2> QED
      BY <1>4, <2>3 DEF RateLimitInv, PassedCounted
  <1>7. recent'[u] \in SUBSET Calls /\ IsFiniteSet(recent'[u])
    BY <1>1, <1>3, <1>4, CallsFinite
  <1>8. passedMem'[u] \subseteq recent'[u] /\ Cardinality(passedMem'[u]) <= MaxCalls
    <2>1. CASE Cardinality(recent'[u]) <= MaxCalls
      <3>1. passedMem'[u] = passedMem[u] \cup {call}
        BY <1>2, <2>1 DEF RateLimitInv, RateLimitTypeOK
      <3>2. passedMem'[u] \subseteq recent'[u]
        BY <1>4, <3>1 DEF RateLimitInv, PassedCounted
      <3>3. Cardinality(passedMem'[u]) <= Cardinality(recent'[u])
        BY <1>7, <3>2, FS_Subset
      <3>4. Cardinality(passedMem'[u]) \in Nat /\ Cardinality(recent'[u]) \in Nat
        BY <1>7, <3>2, CallsFinite
      <3> QED
        BY <2>1, <3>2, <3>3, <3>4
    <2>2. CASE ~(Cardinality(recent'[u]) <= MaxCalls)
      BY <1>2, <1>4, <2>2 DEF RateLimitInv, PassedCounted
    <2> QED
      BY <2>1, <2>2
  <1>9. /\ passedRedis'[u] \subseteq recent'[u]
        /\ Cardinality(InKey(passedRedis'[u], phase')) <= MaxCalls
        /\ Cardinality(BeforeKey(passedRedis'[u], phase')) <= MaxCalls
    <2>1. CASE counter'[u] <= MaxCalls
      <3>1. passedRedis'[u] = passedRedis[u] \cup {call}
        BY <1>2, <2>1 DEF RateLimitInv, RateLimitTypeOK
      <3>2. passedRedis'[u] \subseteq recent'[u]
        BY <1>4, <3>1 DEF RateLimitInv, PassedCounted
      <3>3. InKey(passedRedis'[u], phase') \subseteq InKey(recent'[u], phase')
        BY <3>2 DEF InKey
      <3>4. IsFiniteSet(InKey(recent'[u], phase')) /\ InKey(recent'[u], phase') \in SUBSET Calls
        BY <1>7, CallsFinite DEF InKey
      <3>5. Cardinality(InKey(passedRedis'[u], phase')) <= Cardinality(InKey(recent'[u], phase'))
        BY <3>3, <3>4, FS_Subset
      <3>6. Cardinality(InKey(passedRedis'[u], phase')) \in Nat
        BY <3>3, <3>4, CallsFinite
      <3>7. BeforeKey(passedRedis'[u], phase') = BeforeKey(passedRedis[u], phase)
        BY <1>1, <1>2, <1>3, <3>1 DEF BeforeKey
      <3> QED
        BY <1>1, <1>4, <1>6, <2>1, <3>2, <3>5, <3>6, <3>7 DEF RateLimitInv, PassedCounted
    <2>2. CASE ~(counter'[u] <= MaxCalls)
      BY <1>2, <1>4, <2>2 DEF RateLimitInv, PassedCounted, InKey, BeforeKey
    <2> QED
      BY <2>1, <2>2
  <1>10. RateLimitTypeOK'
    <2>1. passedMem'[u] \in SUBSET Calls /\ passedRedis'[u] \in SUBSET Calls
      BY <1>7, <1>8, <1>9
    <2>2. counter'[u] \in 0..(PerSecond * RlWindow)
      <3>1. InKey(recent'[u], phase') \in SUBSET Calls
        BY <1>7 DEF InKey
      <3> QED
        BY <1>6, <3>1, CallsFinite
    <2> QED
      BY <1>2, <1>7, <2>1, <2>2 DEF RateLimitInv, RateLimitTypeOK
  <1>11. Numbered'
    <2> SUFFICES ASSUME NEW v \in Callers PROVE Now(recent'[v]) = {0} \X (1..Cardinality(Now(recent'[v])))
      BY DEF Numbered, Now
    <2> QED
      BY <1>4, <1>5 DEF RateLimitInv, Numbered
  <1>12. PassedCounted'
    <2> SUFFICES ASSUME NEW v \in Callers, v # u
                 PROVE  /\ passedMem'[v] \subseteq recent'[v] /\ passedRedis'[v] \subseteq recent'[v]
                        /\ Cardinality(passedMem'[v]) <= MaxCalls
                        /\ counter'[v] = Cardinality(InKey(recent'[v], phase'))
                        /\ Cardinality(InKey(passedRedis'[v], phase')) <= MaxCalls
                        /\ Cardinality(BeforeKey(passedRedis'[v], phase')) <= MaxCalls
      BY <1>6, <1>8, <1>9 DEF PassedCounted
    <2>1. phase' = phase
      BY <1>2
    <2> QED
      BY <1>4, <2>1 DEF RateLimitInv, PassedCounted
  <1> QED
    BY <1>10, <1>11, <1>12 DEF RateLimitInv

(* A second goes by: what was let pass under the key that ends is what may   *)
(* be left of the one before, and each call is still counted where it was.   *)
LEMMA TickKept ==
  ASSUME RateLimitInv, RlTick
  PROVE  RateLimitInv'
  <1> USE BoundsType
  <1>1. /\ phase \in Nat /\ phase < RlWindow /\ phase' \in Ages
        /\ phase + 1 < RlWindow => phase' = phase + 1
        /\ phase + 1 = RlWindow => phase' = 0
    BY DEF RateLimitInv, RateLimitTypeOK, RlTick, Ages
  <1>2. \A u \in Callers :
          /\ recent[u] \in SUBSET Calls /\ passedMem[u] \in SUBSET Calls /\ passedRedis[u] \in SUBSET Calls
          /\ recent'[u] = Aged(recent[u]) /\ passedMem'[u] = Aged(passedMem[u])
          /\ passedRedis'[u] = Aged(passedRedis[u])
          /\ counter'[u] = IF phase' = 0 THEN 0 ELSE counter[u]
    BY DEF RateLimitInv, RateLimitTypeOK, RlTick, Older
  <1>3. \A S \in SUBSET Calls : Aged(S) \in SUBSET Calls
    BY DEF Aged
  <1>4. \A S \in SUBSET Calls : Cardinality(Aged(S)) <= Cardinality(S)
    <2> SUFFICES ASSUME NEW S \in SUBSET Calls PROVE Cardinality(Aged(S)) <= Cardinality(S)
      OBVIOUS
    <2> DEFINE B == {c \in S : <<c[1] + 1, c[2]>> \in Aged(S)}
    <2>1. Cardinality(Aged(S)) = Cardinality(B)
      BY AgedSize
    <2>2. IsFiniteSet(S) /\ B \in SUBSET S
      BY CallsFinite
    <2> QED
      BY <2>1, <2>2, FS_Subset
  (* Under the same key, or when another one begins.                         *)
  <1>5. \A S \in SUBSET Calls :
           phase' # 0 => /\ Cardinality(InKey(Aged(S), phase')) = Cardinality(InKey(S, phase))
                         /\ Cardinality(BeforeKey(Aged(S), phase')) <= Cardinality(BeforeKey(S, phase))
    <2> SUFFICES ASSUME NEW S \in SUBSET Calls, phase' = phase + 1
                 PROVE  /\ Cardinality(InKey(Aged(S), phase')) = Cardinality(InKey(S, phase))
                        /\ Cardinality(BeforeKey(Aged(S), phase')) <= Cardinality(BeforeKey(S, phase))
      BY <1>1
    <2> DEFINE T == {c \in Aged(S) : c[1] <= phase + 1}
               U == {c \in Aged(S) : c[1] > phase + 1}
               B == {c \in S : <<c[1] + 1, c[2]>> \in T}
               C == {c \in S : <<c[1] + 1, c[2]>> \in U}
    <2>1. InKey(Aged(S), phase') = T /\ BeforeKey(Aged(S), phase') = U
      BY DEF InKey, BeforeKey, Aged
    <2>2. Cardinality(T) = Cardinality(B) /\ Cardinality(U) = Cardinality(C)
      BY AgedSize
    <2>3. B \subseteq InKey(S, phase) /\ C \subseteq BeforeKey(S, phase)
      BY <1>1, CallParts DEF InKey, BeforeKey
    <2>4. ASSUME NEW c \in InKey(S, phase), phase + 1 < RlWindow PROVE c \in B
      <3>1. c \in S /\ c = <<c[1], c[2]>> /\ c[1] \in Nat /\ c[1] <= phase /\ c[2] \in 1..PerSecond
        BY CallParts DEF InKey
      <3>2. <<c[1] + 1, c[2]>> \in Calls
        BY <1>1, <2>4, <3>1 DEF Calls, Ages
      <3>3. (c[1] + 1) - 1 = c[1]
        BY <3>1
      <3>4. <<c[1] + 1, c[2]>> \in Aged(S)
        BY <3>1, <3>2, <3>3 DEF Aged
      <3> QED
        BY <1>1, <3>1, <3>4
    <2>5. phase + 1 < RlWindow
      BY <1>1
    <2>6. B = InKey(S, phase)
      BY <2>3, <2>4, <2>5
    <2>7. IsFiniteSet(BeforeKey(S, phase))
      BY CallsFinite DEF BeforeKey
    <2>8. Cardinality(C) <= Cardinality(BeforeKey(S, phase))
      BY <2>3, <2>7, FS_Subset
    <2> QED
      BY <2>1, <2>2, <2>6, <2>8
  <1>6. \A S \in SUBSET Calls :
           phase' = 0 => /\ InKey(Aged(S), phase') = {}
                         /\ Cardinality(BeforeKey(Aged(S), phase')) <= Cardinality(InKey(S, phase))
    <2> SUFFICES ASSUME NEW S \in SUBSET Calls, phase' = 0, phase + 1 = RlWindow
                 PROVE  /\ InKey(Aged(S), phase') = {}
                        /\ Cardinality(BeforeKey(Aged(S), phase')) <= Cardinality(InKey(S, phase))
      BY <1>1
    <2>1. \A c \in Aged(S) : c[1] \in Nat /\ c[1] > 0
      BY <1>3, CallParts DEF Aged
    <2>2. InKey(Aged(S), phase') = {} /\ BeforeKey(Aged(S), phase') = Aged(S)
      BY <2>1 DEF InKey, BeforeKey, Aged
    <2>3. InKey(S, phase) = S
      BY <1>1, CallParts DEF InKey
    <2> QED
      BY <1>4, <2>2, <2>3
  <1>7. PassedCounted'
    <2> SUFFICES ASSUME NEW u \in Callers
                 PROVE  /\ passedMem'[u] \subseteq recent'[u] /\ passedRedis'[u] \subseteq recent'[u]
                        /\ Cardinality(passedMem'[u]) <= MaxCalls
                        /\ counter'[u] = Cardinality(InKey(recent'[u], phase'))
                        /\ Cardinality(InKey(passedRedis'[u], phase')) <= MaxCalls
                        /\ Cardinality(BeforeKey(passedRedis'[u], phase')) <= MaxCalls
      BY DEF PassedCounted
    <2> DEFINE M == passedMem[u]
               R == passedRedis[u]
    <2>1. /\ M \subseteq recent[u] /\ R \subseteq recent[u] /\ Cardinality(M) <= MaxCalls
          /\ counter[u] = Cardinality(InKey(recent[u], phase))
          /\ Cardinality(InKey(R, phase)) <= MaxCalls /\ Cardinality(BeforeKey(R, phase)) <= MaxCalls
      BY DEF RateLimitInv, PassedCounted
    <2>2. passedMem'[u] \subseteq recent'[u] /\ passedRedis'[u] \subseteq recent'[u]
      BY <1>2, <2>1 DEF Aged
    <2>3. Cardinality(passedMem'[u]) <= MaxCalls
      <3>1. Cardinality(Aged(M)) \in Nat /\ Cardinality(M) \in Nat
        BY <1>2, <1>3, CallsFinite
      <3> QED
        BY <1>2, <1>4, <2>1, <3>1
    <2>4. /\ Cardinality(InKey(R, phase)) \in Nat /\ Cardinality(BeforeKey(R, phase)) \in Nat
          /\ Cardinality(BeforeKey(Aged(R), phase')) \in Nat
      <3>1. InKey(R, phase) \in SUBSET Calls /\ BeforeKey(R, phase) \in SUBSET Calls
        BY <1>2 DEF InKey, BeforeKey
      <3>2. BeforeKey(Aged(R), phase') \in SUBSET Calls
        BY <1>2, <1>3 DEF BeforeKey
      <3> QED
        BY <3>1, <3>2, CallsFinite
    <2>5. InKey(recent'[u], phase') = InKey(Aged(recent[u]), phase')
      BY <1>2 DEF InKey, Aged
    <2>6. InKey(passedRedis'[u], phase') = InKey(Aged(R), phase') /\ BeforeKey(passedRedis'[u], phase') = BeforeKey(Aged(R), phase')
      BY <1>2 DEF InKey, BeforeKey, Aged
    <2>7. CASE phase' # 0
      BY <1>2, <1>5, <2>1, <2>2, <2>3, <2>4, <2>5, <2>6, <2>7
    <2>8. CASE phase' = 0
      BY <1>2, <1>6, <2>1, <2>2, <2>3, <2>4, <2>5, <2>6, <2>8, NoneCounted
    <2> QED
      BY <2>7, <2>8
  <1>8. Numbered'
    <2> SUFFICES ASSUME NEW u \in Callers PROVE Now(recent'[u]) = {0} \X (1..Cardinality(Now(recent'[u])))
      BY DEF Numbered, Now
    <2>1. \A c \in Aged(recent[u]) : c[1] # 0
      BY <1>2, CallParts DEF Aged
    <2>2. Now(recent'[u]) = {}
      BY <1>2, <2>1 DEF Now
    <2>3. 1..0 = {} /\ {0} \X {} = {}
      OBVIOUS
    <2> QED
      BY <2>2, <2>3, NoneCounted
  <1>9. RateLimitTypeOK'
    <2>1. \A u \in Callers : counter'[u] \in 0..(PerSecond * RlWindow)
      BY <1>2, CallsFinite DEF RateLimitInv, RateLimitTypeOK
    <2>2. recent' \in [Callers -> SUBSET Calls]
      BY <1>2, <1>3 DEF RlTick, Older
    <2>3. passedMem' \in [Callers -> SUBSET Calls] /\ passedRedis' \in [Callers -> SUBSET Calls]
      BY <1>2, <1>3 DEF RlTick, Older
    <2>4. counter' \in [Callers -> 0..(PerSecond * RlWindow)]
      <3>1. counter' = [u \in Callers |-> counter'[u]]
        BY DEF RlTick, RateLimitInv, RateLimitTypeOK
      <3> QED
        BY <2>1, <3>1
    <2> QED
      BY <1>1, <2>2, <2>3, <2>4 DEF RateLimitTypeOK
  <1> QED
    BY <1>7, <1>8, <1>9 DEF RateLimitInv

(* For any callers, limit, window and calls in a second, memory lets no more *)
(* than the limit pass in any window, and Redis no more than twice the limit *)
(* (ratelimit.py:1 and :7).                                                  *)
THEOREM LimitHolds == RateLimitSpec => []Ceiling
  <1> USE BoundsType
  <1>1. RlInit => RateLimitInv
    <2> SUFFICES ASSUME RlInit PROVE RateLimitInv
      OBVIOUS
    <2>1. RateLimitTypeOK
      BY CallsFinite DEF RlInit, RateLimitTypeOK, NoCalls
    <2>2. Numbered
      BY NoneCounted DEF RlInit, NoCalls, Numbered, Now
    <2>3. \A u \in Callers : /\ recent[u] = {} /\ passedMem[u] = {} /\ passedRedis[u] = {} /\ counter[u] = 0
                            /\ InKey({}, phase) = {} /\ BeforeKey({}, phase) = {}
      BY DEF RlInit, NoCalls, InKey, BeforeKey
    <2>4. PassedCounted
      BY <2>3, NoneCounted DEF PassedCounted
    <2> QED
      BY <2>1, <2>2, <2>4 DEF RateLimitInv
  <1>2. RateLimitInv /\ [RlNext]_rlVars => RateLimitInv'
    <2>1. ASSUME RateLimitInv, UNCHANGED rlVars PROVE RateLimitInv'
      BY <2>1 DEF rlVars, RateLimitInv, RateLimitTypeOK, Numbered, PassedCounted, Now, InKey, BeforeKey
    <2> QED
      BY <2>1, AllowKept, TickKept DEF RlNext
  <1>3. RateLimitInv => Ceiling
    <2> SUFFICES ASSUME RateLimitInv, NEW u \in Callers
                 PROVE  Cardinality(passedMem[u]) <= MaxCalls /\ Cardinality(passedRedis[u]) <= 2 * MaxCalls
      BY DEF Ceiling
    <2> DEFINE I == InKey(passedRedis[u], phase)
               B == BeforeKey(passedRedis[u], phase)
    <2>1. passedRedis[u] \in SUBSET Calls /\ phase \in Nat
      BY DEF RateLimitInv, RateLimitTypeOK, Ages
    <2>2. IsFiniteSet(I) /\ IsFiniteSet(B) /\ Cardinality(I) \in Nat /\ Cardinality(B) \in Nat
      <3>1. I \in SUBSET Calls /\ B \in SUBSET Calls
        BY <2>1 DEF InKey, BeforeKey
      <3> QED
        BY <3>1, CallsFinite
    <2>3. passedRedis[u] = I \cup B /\ I \cap B = {}
      BY <2>1, CallParts DEF InKey, BeforeKey
    <2>4. Cardinality(passedRedis[u]) = Cardinality(I) + Cardinality(B)
      <3>1. Cardinality(I \cup B) = Cardinality(I) + Cardinality(B) - Cardinality(I \cap B)
        BY <2>2, FS_Union
      <3>2. Cardinality(I \cap B) = 0 /\ Cardinality(I \cup B) = Cardinality(passedRedis[u])
        BY <2>3, NoneCounted
      <3> HIDE DEF I, B
      <3> QED
        BY <2>2, <3>1, <3>2
    <2> QED
      BY <2>2, <2>4 DEF RateLimitInv, PassedCounted
  <1> QED
    BY <1>1, <1>2, <1>3, PTL DEF RateLimitSpec

-----------------------------------------------------------------------------
(* The connections to the upstreams.                                         *)

(* No user is named like a value of the settings.                            *)
Named == Principals \cap {"deploy", "shared", "absent"} = {}

(* What was resolved is of the caller, and what is sent is laid over it.     *)
OfCaller ==
    \A l \in Lines : line[l] # NoLine =>
        LET c == line[l] IN
        /\ c.up \in Impersonates => c.acting = c.user
        /\ c.pc \in {"resolving", "connecting"} => c.up \in PerUser
        /\ c.pc = "connecting" => c.cred = Resolved(c.user, c.up)
        /\ c.pc = "sent" => c.carries = Carries(c.up, IF c.up \in PerUser THEN Resolved(c.user, c.up) ELSE Nothing)

(* A session is refused only for one that was not there at the start.        *)
RefusedLacks == refusedLine = "unknown upstream" => sessions # Ups

(* Settings, credentials and what is laid over one another are credentials.  *)
LEMMA CarriedTypes ==
  ASSUME NEW up \in Ups, NEW u \in Principals
  PROVE  /\ Nothing \in Carried /\ Inherited(up) \in Carried /\ Settings(up) \in Carried
         /\ Resolved(u, up) \in Carried
         /\ \A cred \in Carried : Carries(up, cred) \in Carried
  <1>1. Nothing \in Carried
    BY DEF Nothing, Carried, Values
  <1>2. Inherited(up) \in Carried /\ Settings(up) \in Carried
    BY DEF Inherited, Settings, Nothing, Carried, Values, Fields
  <1>3. Resolved(u, up) \in Carried
    BY DEF Resolved, Nothing, Carried, Values, Fields
  <1>4. \A b, e \in Carried : Over(b, e) \in Carried
    BY DEF Over, Carried
  <1> QED
    BY <1>1, <1>2, <1>3, <1>4 DEF Carries

(* What a call of u is sent with is of nobody else, and is u's if anything   *)
(* was resolved for u.                                                       *)
LEMMA CarriesMine ==
  ASSUME Named, NEW up \in Ups, NEW u \in Principals, NEW cred \in {Nothing, Resolved(u, up)}
  PROVE  /\ \A f \in Fields : Carries(up, cred)[f] \in {"deploy", "shared", "absent", u}
         /\ cred # Nothing => \E f \in Fields : Carries(up, cred)[f] = u
  <1>1. \A f \in Fields : cred[f] \in {"absent", u}
    BY DEF Resolved, Nothing, Fields
  <1>2. \A f \in Fields : /\ Inherited(up)[f] \in {"deploy", "absent"}
                          /\ Settings(up)[f] \in {"shared", "absent"}
    BY DEF Inherited, Settings, Nothing, Fields
  <1>3. \A f \in Fields : Carries(up, cred)[f] = IF cred[f] # "absent" THEN cred[f]
                          ELSE IF Settings(up)[f] # "absent" THEN Settings(up)[f] ELSE Inherited(up)[f]
    BY DEF Carries, Over
  <1>4. cred # Nothing => \E f \in Fields : cred[f] = u
    BY DEF Resolved, Nothing, Fields
  <1>5. u # "absent"
    BY DEF Named
  <1> QED
    BY <1>1, <1>2, <1>3, <1>4, <1>5

(* A line in progress has every field of a call.                             *)
LEMMA BusyLine ==
  ASSUME UpstreamsTypeOK, NEW l \in Lines
  PROVE  /\ line[l] \in LineType \/ line[l] = NoLine
         /\ line[l] \in LineType => /\ line[l] # NoLine
                                    /\ line[l].user \in Principals /\ line[l].up \in Ups
                                    /\ line[l].cred \in Carried
         /\ line[l].pc \in {"resolving", "connecting", "sent"} => line[l] \in LineType
  <1>1. line[l] \in LineType \/ line[l] = NoLine
    BY DEF UpstreamsTypeOK
  <1>2. NoLine.pc = "idle"
    BY DEF NoLine
  <1>3. \A c \in LineType : /\ c.pc \in {"resolving", "connecting", "sent"}
                            /\ c.user \in Principals /\ c.up \in Ups /\ c.cred \in Carried
    BY DEF LineType
  <1> QED
    BY <1>1, <1>2, <1>3

(* The calls each step of a line leads to.                                   *)
LEMMA NextCalls ==
  ASSUME UpstreamsTypeOK
  PROVE  /\ \A u \in Principals, up \in Ups, acting \in Principals \cup {"absent"}, cred, carries \in Carried :
               \A pc \in {"resolving", "connecting", "sent"} :
                 [pc |-> pc, user |-> u, up |-> up, acting |-> acting, cred |-> cred, carries |-> carries] \in LineType
         /\ \A c \in LineType, x \in Carried :
               /\ [c EXCEPT !.pc = "connecting", !.cred = x] \in LineType
               /\ [c EXCEPT !.pc = "sent", !.carries = x] \in LineType
  BY DEF LineType

(* The state stays well-formed.                                              *)
THEOREM UpstreamsTyped == UpstreamsSpec => []UpstreamsTypeOK
  <1>1. UpInit => UpstreamsTypeOK
    BY DEF UpInit, UpstreamsTypeOK
  <1>2. UpstreamsTypeOK /\ [UpNext]_upVars => UpstreamsTypeOK'
    <2> SUFFICES ASSUME UpstreamsTypeOK, [UpNext]_upVars
                 PROVE  UpstreamsTypeOK'
      OBVIOUS
    <2> USE DEF UpstreamsTypeOK
    <2>1. ASSUME NEW l \in Lines, NEW u \in Principals, NEW up \in Ups, NEW s \in Principals \cup {"absent"},
                 Dial(l, u, up, s)
          PROVE  UpstreamsTypeOK'
      <3>1. ActingUser(u, up, s) \in Principals \cup {"absent"}
        BY DEF ActingUser
      <3>2. Nothing \in Carried /\ Carries(up, Nothing) \in Carried
        BY CarriedTypes
      <3> DEFINE c == [pc |-> "resolving", user |-> u, up |-> up, acting |-> ActingUser(u, up, s),
                       cred |-> Nothing, carries |-> Nothing]
                 d == [c EXCEPT !.pc = "sent", !.carries = Carries(up, Nothing)]
      <3>3. c \in LineType
        BY <3>1, <3>2, NextCalls
      <3>4. d \in LineType
        <4> HIDE DEF c
        <4> QED
          BY <3>2, <3>3, NextCalls
      <3>5. /\ line' = line \/ line' = [line EXCEPT ![l] = c] \/ line' = [line EXCEPT ![l] = d]
            /\ sessions' = sessions /\ refusedLine' \in {"no", "unknown upstream"}
        BY <2>1 DEF Dial
      <3> HIDE DEF c, d
      <3> QED
        BY <3>3, <3>4, <3>5
    <2>2. ASSUME NEW l \in Lines, Resolve(l) \/ Open(l)
          PROVE  UpstreamsTypeOK'
      <3> DEFINE c == [line[l] EXCEPT !.pc = "connecting", !.cred = Resolved(line[l].user, line[l].up)]
                 d == [line[l] EXCEPT !.pc = "sent", !.carries = Carries(line[l].up, line[l].cred)]
      <3>1. line[l] \in LineType
        BY <2>2, BusyLine DEF Resolve, Open
      <3>2. /\ Resolved(line[l].user, line[l].up) \in Carried
            /\ Carries(line[l].up, line[l].cred) \in Carried
        BY <3>1, BusyLine, CarriedTypes
      <3>3. c \in LineType /\ d \in LineType
        BY <3>1, <3>2, NextCalls
      <3>4. /\ line' = [line EXCEPT ![l] = c] \/ line' = [line EXCEPT ![l] = d]
            /\ sessions' = sessions /\ refusedLine' = "no"
        BY <2>2 DEF Resolve, Open
      <3> HIDE DEF c, d
      <3> QED
        BY <3>3, <3>4
    <2>3. ASSUME NEW l \in Lines, LineFails(l) \/ HangUp(l)
          PROVE  UpstreamsTypeOK'
      BY <2>3 DEF LineFails, HangUp
    <2>4. CASE UpRestart
      BY <2>4 DEF UpRestart
    <2>5. CASE UNCHANGED upVars
      BY <2>5 DEF upVars
    <2> QED
      BY <2>1, <2>2, <2>3, <2>4, <2>5 DEF UpNext
  <1> QED
    BY <1>1, <1>2, PTL DEF UpstreamsSpec

(* One line changes, the others are as they were.                            *)
LEMMA OneLine ==
  ASSUME UpstreamsTypeOK, OfCaller, NEW l \in Lines, NEW c, line' = [line EXCEPT ![l] = c],
         c # NoLine =>
            /\ c.up \in Impersonates => c.acting = c.user
            /\ c.pc \in {"resolving", "connecting"} => c.up \in PerUser
            /\ c.pc = "connecting" => c.cred = Resolved(c.user, c.up)
            /\ c.pc = "sent" => c.carries = Carries(c.up, IF c.up \in PerUser THEN Resolved(c.user, c.up) ELSE Nothing)
  PROVE  OfCaller'
  BY DEF OfCaller, UpstreamsTypeOK

(* Every step of a call keeps it its caller's.                               *)
LEMMA StepsOfCaller ==
  ASSUME UpstreamsTypeOK, OfCaller, [UpNext]_upVars
  PROVE  OfCaller'
  <1>1. ASSUME NEW l \in Lines, NEW u \in Principals, NEW up \in Ups, NEW s \in Principals \cup {"absent"},
               Dial(l, u, up, s)
        PROVE  OfCaller'
    <2> DEFINE c == [pc |-> "resolving", user |-> u, up |-> up, acting |-> ActingUser(u, up, s),
                     cred |-> Nothing, carries |-> Nothing]
               d == [c EXCEPT !.pc = "sent", !.carries = Carries(up, Nothing)]
    <2>1. CASE up \in PerUser /\ line' = [line EXCEPT ![l] = c]
      BY <2>1, OneLine DEF ActingUser
    <2>2. CASE up \notin PerUser /\ line' = [line EXCEPT ![l] = d]
      BY <2>2, OneLine DEF ActingUser
    <2>3. CASE line' = line
      BY <2>3 DEF OfCaller
    <2> QED
      BY <1>1, <2>1, <2>2, <2>3 DEF Dial
  <1>2. ASSUME NEW l \in Lines, Resolve(l)
        PROVE  OfCaller'
    <2> DEFINE c == [line[l] EXCEPT !.pc = "connecting", !.cred = Resolved(line[l].user, line[l].up)]
    <2>1. line[l] \in LineType /\ line[l] # NoLine
      BY <1>2, BusyLine DEF Resolve
    <2>2. line' = [line EXCEPT ![l] = c]
      BY <1>2, <2>1 DEF Resolve, UpstreamsTypeOK
    <2>3. /\ c.up \in PerUser
          /\ c.up \in Impersonates => c.acting = c.user
          /\ c.pc = "connecting" /\ c.cred = Resolved(c.user, c.up)
      BY <1>2, <2>1 DEF OfCaller, Resolve, LineType
    <2>4. c.pc # "resolving" /\ c.pc # "sent"
      BY <2>3
    <2> HIDE DEF c
    <2> QED
      BY <2>2, <2>3, <2>4, OneLine
  <1>3. ASSUME NEW l \in Lines, Open(l)
        PROVE  OfCaller'
    <2> DEFINE c == [line[l] EXCEPT !.pc = "sent", !.carries = Carries(line[l].up, line[l].cred)]
    <2>1. line[l] \in LineType /\ line[l] # NoLine
      BY <1>3, BusyLine DEF Open
    <2>2. line' = [line EXCEPT ![l] = c]
      BY <1>3, <2>1 DEF Open, UpstreamsTypeOK
    <2>3. /\ c.up \in PerUser
          /\ c.up \in Impersonates => c.acting = c.user
          /\ c.pc = "sent" /\ c.carries = Carries(c.up, Resolved(c.user, c.up))
      BY <1>3, <2>1 DEF OfCaller, Open, LineType
    <2>4. c.pc # "resolving" /\ c.pc # "connecting"
      BY <2>3
    <2> HIDE DEF c
    <2> QED
      BY <2>2, <2>3, <2>4, OneLine
  <1>4. ASSUME NEW l \in Lines, LineFails(l) \/ HangUp(l)
        PROVE  OfCaller'
    BY <1>4, OneLine DEF LineFails, HangUp
  <1>5. CASE UpRestart
    BY <1>5 DEF UpRestart, OfCaller
  <1>6. CASE UNCHANGED upVars
    BY <1>6 DEF upVars, OfCaller
  <1> QED
    BY <1>1, <1>2, <1>3, <1>4, <1>5, <1>6 DEF UpNext

(* "The assistant can never choose whose permissions it acts under": for any *)
(* users, upstreams and interleaving of calls, nothing sent carries another  *)
(* user's secret or name, and a ready proxy lacks no session.                *)
THEOREM CallerActs ==
  ASSUME Named
  PROVE  UpstreamsSpec => []ActsForCaller
  <1>1. UpInit => OfCaller /\ RefusedLacks
    BY DEF UpInit, OfCaller, RefusedLacks
  <1>2. UpstreamsTypeOK /\ OfCaller /\ RefusedLacks /\ [UpNext]_upVars => (OfCaller /\ RefusedLacks)'
    <2>1. RefusedLacks /\ [UpNext]_upVars => RefusedLacks'
      BY DEF RefusedLacks, UpNext, upVars, Dial, Resolve, Open, LineFails, HangUp, UpRestart
    <2> QED
      BY <2>1, StepsOfCaller
  <1>3. UpstreamsTypeOK /\ OfCaller /\ RefusedLacks => ActsForCaller
    <2> SUFFICES ASSUME UpstreamsTypeOK, OfCaller, RefusedLacks
                 PROVE  ActsForCaller
      OBVIOUS
    <2>1. ASSUME NEW l \in Lines, line[l].pc = "sent"
          PROVE  LET c == line[l]  mine == {"deploy", "shared", "absent", c.user} IN
                 /\ c.up \in Impersonates => c.acting = c.user
                 /\ \A f \in Fields : c.carries[f] \in mine
                 /\ (c.up \in PerUser /\ Resolved(c.user, c.up) # Nothing) =>
                       \E f \in Fields : c.carries[f] = c.user
      <3> DEFINE c == line[l]
      <3>1. c \in LineType /\ c # NoLine
        BY <2>1, BusyLine
      <3>2. c.user \in Principals /\ c.up \in Ups
        BY <3>1, BusyLine
      <3>3. /\ c.up \in Impersonates => c.acting = c.user
            /\ c.carries = Carries(c.up, IF c.up \in PerUser THEN Resolved(c.user, c.up) ELSE Nothing)
        BY <2>1, <3>1 DEF OfCaller
      <3> HIDE DEF c
      <3>4. CASE c.up \in PerUser
        BY <3>2, <3>3, <3>4, CarriesMine DEF c
      <3>5. CASE c.up \notin PerUser
        BY <3>2, <3>3, <3>5, CarriesMine DEF c
      <3> QED
        BY <3>4, <3>5
    <2> QED
      BY <2>1 DEF ActsForCaller, Ready, RefusedLacks
  <1> QED
    BY <1>1, <1>2, <1>3, UpstreamsTyped, PTL DEF UpstreamsSpec

-----------------------------------------------------------------------------
(* The pins of the tools.                                                    *)

(* What a proxy in the middle of a save holds, it will have in the file.     *)
SavesTrusted ==
    /\ saving => running /\ \A t \in PinTools \ lost : pins[t] = trusted[t]
    /\ saving /\ operator # NoRepin => operator.raced

(* What was never seen has no pin anywhere, save in a re-pin under way.      *)
UnseenUnpinned ==
    \A t \in PinTools : trusted[t] = NoPin =>
        /\ pins[t] = NoPin /\ pinFile[t] = NoPin
        /\ operator # NoRepin => t = operator.tool \/ operator.pins[t] = NoPin

(* A re-pin no save of the proxy has met keeps the pins of the other tools.  *)
RepinKeeps ==
    operator # NoRepin =>
        /\ operator.pins[operator.tool] # NoPin
        /\ ~operator.raced =>
              /\ \A t \in PinTools \ lost : t # operator.tool => operator.pins[t] = trusted[t]
              /\ HalfWriting => pinFile = NoPins

IntegrityInv == IntegrityTypeOK /\ PinsAreTrusted /\ SavesTrusted /\ UnseenUnpinned /\ RepinKeeps

(* A tool without a pin is one, and no re-pin under way is none.             *)
LEMMA PinsType ==
  /\ NoPins \in Pins /\ \A t \in PinTools : NoPins[t] = NoPin
  /\ NoRepin \notin RepinType /\ NoRepin.pc = "idle"
  BY DEF NoPins, Pins, NoRepin, RepinType

(* The fields of a re-pin of which one is changed.                           *)
LEMMA RepinMoved ==
  ASSUME NEW s \in RepinType
  PROVE  /\ [s EXCEPT !.raced = TRUE] \in RepinType /\ [s EXCEPT !.raced = TRUE].raced
         /\ [s EXCEPT !.raced = TRUE].tool = s.tool /\ [s EXCEPT !.raced = TRUE].pins = s.pins
         /\ [s EXCEPT !.raced = TRUE].pc = s.pc
         /\ [s EXCEPT !.pc = "writing"] \in RepinType /\ [s EXCEPT !.pc = "writing"].pc = "writing"
         /\ [s EXCEPT !.pc = "writing"].tool = s.tool /\ [s EXCEPT !.pc = "writing"].pins = s.pins
         /\ [s EXCEPT !.pc = "writing"].raced = s.raced
  BY DEF RepinType

(* Every step keeps the pins, the file and the re-pin well-formed.           *)
LEMMA PinTypeKept ==
  ASSUME IntegrityTypeOK, [PinNext]_pinVars
  PROVE  IntegrityTypeOK'
  <1> USE IntegrityAssumption, PinsType DEF IntegrityTypeOK
  <1>0. Reloaded \in Pins
    BY DEF Reloaded
  <1>v. \A changed \in BOOLEAN, d \in Defs : Verdict(changed, d) \in Verdicts
    BY DEF Verdict, Verdicts
  <1>1. ASSUME NEW t \in PinTools, CheckPinned(t) PROVE IntegrityTypeOK'
    <2>1. Verdict(Reloaded[t] # toolDef[t], toolDef[t]) \in Verdicts
      BY <1>v
    <2> QED
      BY <1>0, <1>1, <2>1 DEF CheckPinned, Seen
  <1>2. ASSUME NEW t \in PinTools, CheckNew(t) PROVE IntegrityTypeOK'
    <2>1. Verdict(FALSE, toolDef[t]) \in Verdicts
      BY <1>v
    <2>2. [Reloaded EXCEPT ![t] = toolDef[t]] \in Pins /\ [trusted EXCEPT ![t] = toolDef[t]] \in Pins
      BY <1>0 DEF Pins
    <2>3. operator' \in RepinType \cup {NoRepin}
      BY <1>2, RepinMoved DEF CheckNew
    <2>4. flag' \in [PinTools -> Verdicts]
      BY <1>2, <2>1 DEF CheckNew
    <2>5. lost' \subseteq PinTools /\ pinFile' \in Pins /\ saving' \in BOOLEAN
      BY <1>2 DEF CheckNew, Seen
    <2> QED
      BY <1>2, <2>2, <2>3, <2>4, <2>5 DEF CheckNew
  <1>3. ASSUME SavePins \/ SaveFails \/ Stop \/ Start PROVE IntegrityTypeOK'
    BY <1>3 DEF SavePins, SaveFails, Stop, Start, Seen, Verdicts
  <1>4. ASSUME NEW t \in PinTools, RepinLoad(t) PROVE IntegrityTypeOK'
    <2>1. [pinFile EXCEPT ![t] = toolDef[t]] \in Pins
      BY DEF Pins
    <2> QED
      BY <1>4, <2>1 DEF RepinLoad, RepinType
  <1>5. ASSUME RepinOpen PROVE IntegrityTypeOK'
    BY <1>5, RepinMoved DEF RepinOpen
  <1>6. ASSUME RepinWrite PROVE IntegrityTypeOK'
    <2>1. operator \in RepinType
      BY <1>6 DEF RepinWrite
    <2>2. operator.pins \in Pins /\ operator.tool \in PinTools
      BY <2>1 DEF RepinType
    <2>3. [trusted EXCEPT ![operator.tool] = operator.pins[operator.tool]] \in Pins
      BY <2>2 DEF Pins
    <2> QED
      BY <1>6, <2>2, <2>3 DEF RepinWrite
  <1>7. ASSUME RepinCut PROVE IntegrityTypeOK'
    BY <1>7 DEF RepinCut, Seen
  <1>8. ASSUME NEW t \in PinTools, NEW d \in Defs, ChangeTool(t, d) PROVE IntegrityTypeOK'
    BY <1>8 DEF ChangeTool
  <1>9. CASE UNCHANGED pinVars
    BY <1>9 DEF pinVars
  <1> QED
    BY <1>1, <1>2, <1>3, <1>4, <1>5, <1>6, <1>7, <1>8, <1>9 DEF PinNext

(* What a check finds of a tool, unless the file was being rewritten.        *)
LEMMA ReloadedIs ==
  ASSUME IntegrityInv, running, ~saving, NEW t \in PinTools \ lost
  PROVE  /\ ~(stale /\ HalfWriting) => Reloaded[t] = trusted[t]
         /\ trusted[t] = NoPin => Reloaded[t] = NoPin
  BY DEF IntegrityInv, PinsAreTrusted, UnseenUnpinned, Reloaded

(* Every step of the proxy and of the operator keeps the pins that were      *)
(* trusted, in memory, in the file and in the saves that are under way.      *)
LEMMA PinsKept ==
  ASSUME IntegrityInv, IntegrityTypeOK', [PinNext]_pinVars
  PROVE  PinsAreTrusted' /\ SavesTrusted' /\ UnseenUnpinned' /\ RepinKeeps'
  <1> USE IntegrityAssumption, PinsType DEF IntegrityInv
  <1>a. operator # NoRepin => operator \in RepinType
    BY DEF IntegrityTypeOK
  <1>1. ASSUME NEW t \in PinTools, CheckPinned(t)
        PROVE  PinsAreTrusted' /\ SavesTrusted' /\ UnseenUnpinned' /\ RepinKeeps'
    <2>1. /\ running /\ ~saving /\ pins' = Reloaded /\ stale' = FALSE
          /\ lost \subseteq lost' /\ (stale /\ HalfWriting => lost' = lost \cup Seen)
          /\ UNCHANGED <<toolDef, pinFile, saving, running, operator, trusted>>
      BY <1>1 DEF CheckPinned
    <2>2. \A x \in PinTools \ lost' : pins'[x] = trusted[x]
      BY <2>1, ReloadedIs DEF Seen
    <2>3. UnseenUnpinned'
      BY <2>1 DEF UnseenUnpinned, Reloaded
    <2> QED
      BY <2>1, <2>2, <2>3 DEF PinsAreTrusted, SavesTrusted, RepinKeeps, HalfWriting
  <1>2. ASSUME NEW t \in PinTools, CheckNew(t)
        PROVE  PinsAreTrusted' /\ SavesTrusted' /\ UnseenUnpinned' /\ RepinKeeps'
    <2>1. /\ running /\ ~saving /\ Reloaded[t] = NoPin /\ stale' = FALSE /\ running'
          /\ pins' = [Reloaded EXCEPT ![t] = toolDef[t]]
          /\ trusted' = IF trusted[t] = NoPin THEN [trusted EXCEPT ![t] = toolDef[t]] ELSE trusted
          /\ lost \subseteq lost' /\ (stale /\ HalfWriting => Seen \subseteq lost')
      BY <1>2 DEF CheckNew
    <2>2. /\ Reloaded \in Pins /\ toolDef[t] \in Defs
          /\ pins'[t] = toolDef[t] /\ \A x \in PinTools : x # t => pins'[x] = Reloaded[x]
          /\ \A x \in PinTools : x # t => trusted'[x] = trusted[x]
          /\ trusted[t] = NoPin => trusted'[t] = toolDef[t]
          /\ trusted[t] # NoPin => trusted'[t] = trusted[t]
      BY <2>1 DEF IntegrityTypeOK, Pins, Reloaded
    <2>3. \A x \in PinTools \ lost' : pins'[x] = trusted'[x]
      BY <2>1, <2>2, ReloadedIs DEF Seen
    <2>4. \A x \in PinTools : trusted'[x] = NoPin => trusted[x] = NoPin /\ x # t
      BY <2>2
    <2>5. \A x \in PinTools : trusted'[x] = NoPin => pins'[x] = NoPin
      BY <2>2, <2>4 DEF UnseenUnpinned, Reloaded
    <2>6. CASE /\ pinFile' = NoPins /\ saving'
               /\ operator' = IF operator = NoRepin THEN NoRepin ELSE [operator EXCEPT !.raced = TRUE]
      <3>1. operator' # NoRepin => /\ operator # NoRepin /\ operator'.raced
                                   /\ operator'.tool = operator.tool /\ operator'.pins = operator.pins
        BY <1>a, <2>6, RepinMoved
      <3>2. UnseenUnpinned'
        BY <2>4, <2>5, <2>6, <3>1 DEF UnseenUnpinned
      <3> QED
        BY <2>1, <2>3, <2>6, <3>1, <3>2 DEF PinsAreTrusted, SavesTrusted, RepinKeeps
    <2>7. CASE /\ \A x \in PinTools \ lost' : pins'[x] = pinFile[x]
               /\ UNCHANGED <<pinFile, saving, operator>>
      <3>1. trusted[t] = NoPin => t \in lost'
        BY <2>2, <2>7 DEF UnseenUnpinned
      <3>2. \A x \in PinTools \ lost' : trusted'[x] = trusted[x]
        BY <2>2, <3>1
      <3>3. UnseenUnpinned'
        BY <2>4, <2>5, <2>7 DEF UnseenUnpinned
      <3> QED
        BY <2>1, <2>3, <2>7, <3>2, <3>3 DEF PinsAreTrusted, SavesTrusted, RepinKeeps, HalfWriting
    <2> QED
      BY <1>2, <2>6, <2>7 DEF CheckNew
  <1>3. ASSUME SavePins
        PROVE  PinsAreTrusted' /\ SavesTrusted' /\ UnseenUnpinned' /\ RepinKeeps'
    BY <1>3 DEF SavePins, PinsAreTrusted, SavesTrusted, UnseenUnpinned, RepinKeeps, HalfWriting
  <1>4. ASSUME SaveFails \/ (Stop /\ saving) \/ RepinCut
        PROVE  PinsAreTrusted' /\ SavesTrusted' /\ UnseenUnpinned' /\ RepinKeeps'
    <2>1. \A x \in PinTools \ lost' : pins[x] = trusted[x] /\ pinFile[x] = trusted[x]
      BY <1>4 DEF SaveFails, Stop, RepinCut, Seen, UnseenUnpinned
    <2> QED
      BY <1>4, <2>1 DEF SaveFails, Stop, RepinCut, PinsAreTrusted, SavesTrusted, UnseenUnpinned, RepinKeeps, HalfWriting
  <1>5. ASSUME Stop, ~saving
        PROVE  PinsAreTrusted' /\ SavesTrusted' /\ UnseenUnpinned' /\ RepinKeeps'
    BY <1>5 DEF Stop, PinsAreTrusted, SavesTrusted, UnseenUnpinned, RepinKeeps, HalfWriting
  <1>6. ASSUME Start
        PROVE  PinsAreTrusted' /\ SavesTrusted' /\ UnseenUnpinned' /\ RepinKeeps'
    <2>1. ~saving
      BY <1>6 DEF Start, SavesTrusted
    <2>2. \A x \in PinTools \ lost' : pinFile[x] = trusted[x]
      BY <1>6, <2>1 DEF Start, PinsAreTrusted, UnseenUnpinned, Seen
    <2> QED
      BY <1>6, <2>1, <2>2 DEF Start, PinsAreTrusted, SavesTrusted, UnseenUnpinned, RepinKeeps, HalfWriting
  <1>7. ASSUME NEW t \in PinTools, RepinLoad(t)
        PROVE  PinsAreTrusted' /\ SavesTrusted' /\ UnseenUnpinned' /\ RepinKeeps'
    <2>1. /\ operator = NoRepin /\ ~HalfWriting
          /\ operator'.tool = t /\ operator'.raced = saving /\ operator'.pc = "loaded"
          /\ operator'.pins[t] = toolDef[t] /\ \A x \in PinTools : x # t => operator'.pins[x] = pinFile[x]
          /\ UNCHANGED <<toolDef, pinFile, pins, stale, saving, running, trusted, lost>>
      BY <1>7 DEF RepinLoad, HalfWriting, IntegrityTypeOK, Pins
    <2>2. toolDef[t] # NoPin
      BY DEF IntegrityTypeOK
    <2> QED
      BY <2>1, <2>2 DEF PinsAreTrusted, SavesTrusted, UnseenUnpinned, RepinKeeps, HalfWriting
  <1>8. ASSUME RepinOpen
        PROVE  PinsAreTrusted' /\ SavesTrusted' /\ UnseenUnpinned' /\ RepinKeeps'
    <2>1. operator # NoRepin
      BY <1>8 DEF RepinOpen
    <2>2. /\ operator'.pc = "writing" /\ operator'.tool = operator.tool /\ operator'.raced = operator.raced
          /\ operator'.pins = operator.pins /\ stale' = TRUE /\ pinFile' = NoPins
          /\ UNCHANGED <<toolDef, pins, saving, running, trusted, lost>>
      BY <1>8, <1>a, <2>1, RepinMoved DEF RepinOpen
    <2> QED
      BY <2>1, <2>2 DEF PinsAreTrusted, SavesTrusted, UnseenUnpinned, RepinKeeps, HalfWriting
  <1>9. ASSUME RepinWrite
        PROVE  PinsAreTrusted' /\ SavesTrusted' /\ UnseenUnpinned' /\ RepinKeeps'
    <2> DEFINE o == operator
               t == operator.tool
    <2>1. o # NoRepin /\ o \in RepinType /\ t \in PinTools
      BY <1>9, <1>a DEF RepinWrite, RepinType
    <2>2. /\ pinFile' = o.pins /\ operator' = NoRepin
          /\ UNCHANGED <<toolDef, pins, saving, running>>
          /\ stale' \in {TRUE, stale}
          /\ t \in lost' \/ (~saving /\ stale')
          /\ lost \ {t} \subseteq lost'
          /\ o.raced => \A x \in PinTools \ lost' : o.pins[x] = trusted'[x]
          /\ trusted' = [trusted EXCEPT ![t] = o.pins[t]]
      BY <1>9 DEF RepinWrite
    <2>3. trusted'[t] = o.pins[t] /\ \A x \in PinTools : x # t => trusted'[x] = trusted[x]
      BY <2>1, <2>2 DEF IntegrityTypeOK, Pins
    <2>4. \A x \in PinTools \ lost' : pinFile'[x] = trusted'[x]
      BY <2>1, <2>2, <2>3 DEF RepinKeeps
    <2>5. UnseenUnpinned'
      BY <2>1, <2>2, <2>3 DEF UnseenUnpinned, RepinKeeps
    <2>6. PinsAreTrusted'
      <3>1. ASSUME NEW x \in PinTools \ lost', running', ~stale' PROVE pins'[x] = trusted'[x]
        <4>1. stale' = stale
          BY <2>2, <3>1
        <4>2. x # t /\ x \notin lost
          BY <2>2, <3>1
        <4> QED
          BY <2>2, <2>3, <3>1, <4>1, <4>2 DEF PinsAreTrusted
      <3> QED
        BY <2>4, <3>1 DEF PinsAreTrusted
    <2> QED
      BY <2>1, <2>2, <2>3, <2>5, <2>6 DEF SavesTrusted, RepinKeeps
  <1>10. ASSUME NEW t \in PinTools, NEW d \in Defs, ChangeTool(t, d)
         PROVE  PinsAreTrusted' /\ SavesTrusted' /\ UnseenUnpinned' /\ RepinKeeps'
    BY <1>10 DEF ChangeTool, PinsAreTrusted, SavesTrusted, UnseenUnpinned, RepinKeeps, HalfWriting
  <1>11. CASE UNCHANGED pinVars
    BY <1>11 DEF pinVars, PinsAreTrusted, SavesTrusted, UnseenUnpinned, RepinKeeps, HalfWriting
  <1> QED
    BY <1>1, <1>2, <1>3, <1>4, <1>5, <1>6, <1>7, <1>8, <1>9, <1>10, <1>11 DEF PinNext

(* The invariant holds at every step.                                        *)
LEMMA PinsHold == IntegritySpec => []IntegrityInv
  <1>1. PinInit => IntegrityInv
    BY PinsType, IntegrityAssumption
       DEF PinInit, IntegrityInv, IntegrityTypeOK, PinsAreTrusted, SavesTrusted, UnseenUnpinned, RepinKeeps, Verdicts
  <1>2. IntegrityInv /\ [PinNext]_pinVars => IntegrityInv'
    BY PinTypeKept, PinsKept DEF IntegrityInv
  <1> QED
    BY <1>1, <1>2, PTL DEF IntegritySpec

(* However checks, saves, re-pins, their failures and restarts interleave,   *)
(* for any tools and definitions, a pin is the definition first seen or last *)
(* re-pinned, unless a write was cut short, failed or met another            *)
(* (integrity.py:63).                                                        *)
THEOREM PinsStay == IntegritySpec => []PinsAreTrusted
  <1>1. IntegrityInv => PinsAreTrusted
    BY DEF IntegrityInv
  <1> QED
    BY <1>1, PinsHold, PTL

(* So a changed tool is never found clean, and one that a re-pin accepted is *)
(* not held against it (integrity.py:99).                                    *)
THEOREM NoChangeHidden == IntegritySpec => ChangeShows
  <1> DEFINE A == \A t \in PinTools \ lost' :
                     ((CheckPinned(t) \/ CheckNew(t)) /\ trusted[t] # NoPin) =>
                        (flag'[t] = "clean" <=> toolDef[t] = trusted[t]
                                                /\ ~(ScanPoison /\ toolDef[t] \in PoisonedDefs))
  <1>1. IntegrityInv /\ [PinNext]_pinVars => [A]_pinVars
    <2> SUFFICES ASSUME IntegrityInv, NEW t \in PinTools \ lost',
                        CheckPinned(t) \/ CheckNew(t), trusted[t] # NoPin
                 PROVE  flag'[t] = "clean" <=> toolDef[t] = trusted[t]
                                               /\ ~(ScanPoison /\ toolDef[t] \in PoisonedDefs)
      OBVIOUS
    <2>1. running /\ ~saving /\ t \in PinTools \ lost /\ ~(stale /\ HalfWriting)
      BY DEF CheckPinned, CheckNew, Seen
    <2>2. Reloaded[t] = trusted[t]
      BY <2>1, ReloadedIs
    <2>3. CheckPinned(t)
      BY <2>2 DEF CheckNew
    <2>4. flag'[t] = Verdict(trusted[t] # toolDef[t], toolDef[t])
      BY <2>2, <2>3 DEF CheckPinned, IntegrityInv, IntegrityTypeOK
    <2> QED
      BY <2>4, IntegrityAssumption DEF Verdict
  <1> QED
    BY <1>1, PinsHold, PTL DEF IntegritySpec, ChangeShows

-----------------------------------------------------------------------------
(* The switches of the packs.                                                *)

(* Who has opened the file to write it, or has written it.                   *)
Touching(q) == setting[q].pc \in {"opened", "written"}

(* Nobody at the file: the file, and whoever has read it, has what was set.  *)
Undisturbed ==
    (\A q \in SwitchProcs : ~Touching(q)) =>
        \A k \in PackIds \ harmed :
            /\ FileSays[k] = wanted[k]
            /\ \A p \in current : overrides[p][k] = wanted[k]

(* Of two who throw a switch at once, each knows that it raced.              *)
AloneOrRaced ==
    \A q, p \in SwitchProcs :
        (setting[q] # NoSetting /\ ~setting[q].raced /\ p # q) => setting[p] = NoSetting

(* One that has not raced: what it is about to write, and where the file is. *)
WritesWanted ==
    \A q \in SwitchProcs : (setting[q] # NoSetting /\ ~setting[q].raced) =>
        LET s == setting[q] IN
        /\ \A k \in PackIds \ harmed : k # s.pack => s.state[k] = wanted[k]
        /\ s.pc = "opened" => packFile = CutShort /\ current \subseteq {q}
        /\ s.pc = "written" => /\ packFile = s.state /\ s.state[s.pack] = wanted[s.pack]
                               /\ \A p \in current : overrides[p] = s.state
                               /\ overrides[q] = s.state

PackSwitchInv == PackSwitchTypeOK /\ Undisturbed /\ AloneOrRaced /\ WritesWanted

(* A file cut short is no table of switches, and no setting an idle one.     *)
LEMMA Apart ==
  /\ CutShort \notin Switches /\ NoSwitch \in Switches
  /\ NoSetting \notin SettingType
  /\ NoSetting.pc = "idle"
  <1>1. ASSUME NEW f \in Switches, f = CutShort PROVE FALSE
    <2>1. DOMAIN f = PackIds /\ DOMAIN CutShort = {"not"} /\ CutShort["not"] = "JSON"
      BY DEF Switches, CutShort
    <2>2. "not" \in PackIds
      BY <2>1, <1>1
    <2>3. f["not"] \in Positions
      BY <2>2 DEF Switches
    <2> QED
      BY <2>1, <2>3, <1>1 DEF Positions
  <1>2. NoSwitch \in Switches
    BY DEF NoSwitch, Switches, Positions
  <1> QED
    BY <1>1, <1>2 DEF NoSetting, SettingType

(* What a process would decide by, and the file, are tables of switches.     *)
LEMMA SaysType ==
  ASSUME PackSwitchTypeOK
  PROVE  /\ FileSays \in Switches
         /\ \A p \in SwitchProcs : OverridesNow(p) \in Switches /\ overrides[p] \in Switches
  BY Apart DEF PackSwitchTypeOK, FileSays, OverridesNow

(* The fields of a setting of which two are changed.                         *)
LEMMA SettingMoved ==
  ASSUME NEW s \in SettingType, NEW pc \in {"opened", "written"}, NEW r \in BOOLEAN
  PROVE  LET t == [s EXCEPT !.pc = pc, !.raced = r] IN
         /\ t \in SettingType /\ t.pc = pc /\ t.raced = r
         /\ t.pack = s.pack /\ t.state = s.state
  BY DEF SettingType

(* A writer that touches the file moves on, and nobody else does.            *)
LEMMA TouchIs ==
  ASSUME PackSwitchTypeOK, NEW p \in SwitchProcs, setting[p] # NoSetting,
         NEW pc \in {"opened", "written"}, NEW same, Touch(p, pc, same)
  PROVE  /\ setting[p] \in SettingType
         /\ setting' \in [SwitchProcs -> SettingType \cup {NoSetting}]
         /\ \A q \in SwitchProcs : q # p => setting'[q] = setting[q]
         /\ setting'[p] # NoSetting /\ setting'[p].pc = pc
         /\ setting'[p].pack = setting[p].pack /\ setting'[p].state = setting[p].state
         /\ ~setting'[p].raced => ~setting[p].raced /\ harmed' = harmed /\ current' \subseteq {p}
         /\ current' \subseteq current /\ harmed' \in {harmed, PackIds}
  <1> DEFINE fooled == (current \cap same) \ {p}
  <1>1. setting[p] \in SettingType
    BY DEF PackSwitchTypeOK
  <1> DEFINE raced == setting[p].raced \/ fooled # {}
             moved == [setting[p] EXCEPT !.pc = pc, !.raced = raced]
  <1>2. setting' = [setting EXCEPT ![p] = moved]
    BY DEF PackSwitchTypeOK, Touch
  <1>3. /\ moved \in SettingType /\ moved.pc = pc /\ moved.raced = raced
        /\ moved.pack = setting[p].pack /\ moved.state = setting[p].state
    BY <1>1, SettingMoved DEF SettingType
  <1>4. current' = current \cap same /\ harmed' = IF fooled = {} THEN harmed ELSE PackIds
    BY DEF Touch
  <1> HIDE DEF moved
  <1> QED
    BY <1>1, <1>2, <1>3, <1>4, Apart DEF PackSwitchTypeOK

(* Every step keeps the tables, the file and the settings well-formed.       *)
LEMMA SwitchTyped ==
  ASSUME PackSwitchTypeOK, [SwitchNext]_switchVars
  PROVE  PackSwitchTypeOK'
  <1> USE DEF PackSwitchTypeOK
  <1>1. ASSUME NEW p \in SwitchProcs, Consult(p) PROVE PackSwitchTypeOK'
    BY <1>1, SaysType DEF Consult, Loads, CurrentAfter
  <1>2. ASSUME NEW p \in SwitchProcs, NEW k \in PackIds, NEW pos \in {"on", "off"}, SetPackLoads(p, k, pos)
        PROVE  PackSwitchTypeOK'
    <2>1. [OverridesNow(p) EXCEPT ![k] = pos] \in Switches
      BY SaysType DEF Switches, Positions
    <2>2. setting' \in [SwitchProcs -> SettingType \cup {NoSetting}]
      BY <1>2, <2>1 DEF SetPackLoads, SettingType, NoSetting
    <2> QED
      BY <1>2, <2>2, SaysType DEF SetPackLoads, Loads, CurrentAfter
  <1>4. ASSUME NEW p \in SwitchProcs, SetPackOpens(p) PROVE PackSwitchTypeOK'
    BY <1>4, TouchIs DEF SetPackOpens, NoSetting
  <1>5. ASSUME NEW p \in SwitchProcs, SetPackWrites(p) PROVE PackSwitchTypeOK'
    <2>1. setting[p] # NoSetting /\ setting[p] \in SettingType
      BY <1>5 DEF SetPackWrites, NoSetting
    <2>2. setting[p].state \in Switches /\ setting[p].pack \in PackIds
      BY <2>1 DEF SettingType
    <2>3. wanted' \in Switches
      BY <1>5, <2>2 DEF SetPackWrites, Switches
    <2> QED
      BY <1>5, TouchIs, <2>1, <2>2, <2>3 DEF SetPackWrites
  <1>6. ASSUME NEW p \in SwitchProcs, SetPackEnds(p) PROVE PackSwitchTypeOK'
    BY <1>6 DEF SetPackEnds, HarmOf
  <1>7. ASSUME NEW p \in SwitchProcs, SwitchRestart(p) PROVE PackSwitchTypeOK'
    BY <1>7, SaysType DEF SwitchRestart, HarmOf
  <1>8. CASE UNCHANGED switchVars
    BY <1>8 DEF switchVars
  <1> QED
    BY <1>1, <1>2, <1>4, <1>5, <1>6, <1>7, <1>8 DEF SwitchNext

(* Every step of set_pack, and every look at the file, keeps the invariant.  *)
LEMMA SwitchKept ==
  ASSUME PackSwitchInv, PackSwitchTypeOK', [SwitchNext]_switchVars
  PROVE  Undisturbed' /\ AloneOrRaced' /\ WritesWanted'
  <1> USE DEF PackSwitchInv
  <1>0. \A q \in SwitchProcs : setting[q] # NoSetting => setting[q] \in SettingType
    BY DEF PackSwitchTypeOK
  <1>1. ASSUME NEW p \in SwitchProcs, Consult(p) PROVE Undisturbed' /\ AloneOrRaced' /\ WritesWanted'
    <2>1. UNCHANGED <<packFile, setting, wanted, harmed>>
      BY <1>1 DEF Consult
    <2>2. /\ current' = CurrentAfter(p) /\ \A q \in SwitchProcs : q # p => overrides'[q] = overrides[q]
          /\ overrides'[p] = OverridesNow(p)
      BY <1>1 DEF Consult, Loads, PackSwitchTypeOK
    <2>3. Undisturbed'
      BY <2>1, <2>2 DEF Undisturbed, FileSays, Touching, CurrentAfter, OverridesNow, PackSwitchTypeOK
    <2>4. AloneOrRaced'
      BY <2>1 DEF AloneOrRaced
    <2>5. WritesWanted'
      BY <1>0, <1>1, <2>1, <2>2, Apart DEF Consult, WritesWanted, CurrentAfter, OverridesNow, FileSays, PackSwitchTypeOK, SettingType
    <2> QED
      BY <2>3, <2>4, <2>5
  <1>2. ASSUME NEW p \in SwitchProcs, NEW k \in PackIds, NEW pos \in {"on", "off"}, SetPackLoads(p, k, pos)
        PROVE  Undisturbed' /\ AloneOrRaced' /\ WritesWanted'
    <2> DEFINE others == {q \in SwitchProcs : setting[q] # NoSetting}
               mine   == [pc |-> "loaded", pack |-> k, state |-> [OverridesNow(p) EXCEPT ![k] = pos],
                          raced |-> others # {}]
    <2>1. /\ UNCHANGED <<packFile, wanted, harmed>> /\ setting[p] = NoSetting
          /\ current' = CurrentAfter(p) /\ \A q \in SwitchProcs : q # p => overrides'[q] = overrides[q]
          /\ overrides'[p] = OverridesNow(p)
      BY <1>2 DEF SetPackLoads, Loads, PackSwitchTypeOK
    <2>2. /\ setting'[p] = mine
          /\ \A q \in others : setting'[q] = [setting[q] EXCEPT !.raced = TRUE]
          /\ \A q \in SwitchProcs : q # p /\ q \notin others => setting'[q] = NoSetting
      BY <1>2, <2>1 DEF SetPackLoads
    <2>3. \A q \in others : /\ setting'[q].raced /\ setting'[q].pc = setting[q].pc
                            /\ setting'[q] # NoSetting
      BY <1>0, <2>2, Apart DEF SettingType, NoSetting
    <2>4. Undisturbed'
      <3>1. ASSUME \A q \in SwitchProcs : ~Touching(q)' PROVE \A q \in SwitchProcs : ~Touching(q)
        BY <2>2, <2>3, <3>1 DEF Touching, NoSetting
      <3> QED
        BY <2>1, <3>1 DEF Undisturbed, FileSays, CurrentAfter, OverridesNow, PackSwitchTypeOK
    <2>5. mine.raced = (others # {}) /\ mine # NoSetting /\ mine.pc = "loaded" /\ mine.pack = k
      BY DEF NoSetting
    <2>6. AloneOrRaced'
      BY <2>2, <2>3, <2>5 DEF AloneOrRaced
    <2>7. ASSUME others = {} PROVE \A x \in PackIds \ harmed : x # k => mine.state[x] = wanted[x]
      <3>1. \A q \in SwitchProcs : ~Touching(q)
        BY <2>7 DEF Touching, NoSetting
      <3>2. \A x \in PackIds \ harmed : OverridesNow(p)[x] = wanted[x]
        BY <3>1 DEF Undisturbed, OverridesNow
      <3> QED
        BY <3>2, SaysType DEF Switches
    <2>8. ASSUME NEW q \in SwitchProcs, setting'[q] # NoSetting, ~setting'[q].raced PROVE q = p /\ others = {}
      BY <2>2, <2>3, <2>5, <2>8
    <2> HIDE DEF mine, others
    <2>9. WritesWanted'
      BY <2>1, <2>2, <2>5, <2>7, <2>8 DEF WritesWanted
    <2> QED
      BY <2>4, <2>6, <2>9
  <1>3. ASSUME NEW p \in SwitchProcs, SetPackOpens(p) PROVE Undisturbed' /\ AloneOrRaced' /\ WritesWanted'
    <2>1. PICK same \in SUBSET SwitchProcs : Touch(p, "opened", same)
      BY <1>3 DEF SetPackOpens
    <2>2. setting[p] # NoSetting /\ packFile' = CutShort /\ UNCHANGED <<overrides, wanted>>
      BY <1>3 DEF SetPackOpens, NoSetting
    <2>3. Touching(p)'
      BY <2>1, <2>2, TouchIs DEF Touching
    <2>4. AloneOrRaced'
      BY <2>1, <2>2, TouchIs DEF AloneOrRaced
    <2>5. ASSUME NEW q \in SwitchProcs, setting'[q] # NoSetting, ~setting'[q].raced PROVE q = p
      BY <2>1, <2>2, <2>5, TouchIs DEF AloneOrRaced
    <2>6. WritesWanted'
      BY <2>1, <2>2, <2>5, TouchIs DEF WritesWanted
    <2> QED
      BY <2>3, <2>4, <2>6 DEF Undisturbed
  <1>4. ASSUME NEW p \in SwitchProcs, SetPackWrites(p) PROVE Undisturbed' /\ AloneOrRaced' /\ WritesWanted'
    <2>1. PICK same \in SUBSET SwitchProcs : Touch(p, "written", same)
      BY <1>4 DEF SetPackWrites
    <2>2. setting[p] # NoSetting /\ setting[p].pc = "opened"
      BY <1>4 DEF SetPackWrites, NoSetting
    <2> DEFINE s == setting[p]
    <2>3. s \in SettingType
      BY <1>0, <2>2
    <2>4. /\ packFile' \in {s.state} \cup (IF s.raced THEN {CutShort} ELSE {})
          /\ overrides'[p] = s.state
          /\ \A k \in PackIds : wanted'[k] = IF k = s.pack THEN s.state[s.pack] ELSE wanted[k]
      BY <1>4, <2>3 DEF SetPackWrites, PackSwitchTypeOK, SettingType, Switches
    <2>5. Touching(p)'
      BY <2>1, <2>2, TouchIs DEF Touching
    <2>6. AloneOrRaced'
      BY <2>1, <2>2, TouchIs DEF AloneOrRaced
    <2>7. ASSUME NEW q \in SwitchProcs, setting'[q] # NoSetting, ~setting'[q].raced PROVE q = p
      BY <2>1, <2>2, <2>7, TouchIs DEF AloneOrRaced
    <2>8. ASSUME ~setting'[p].raced
          PROVE  /\ \A k \in PackIds \ harmed' : k # s.pack => s.state[k] = wanted'[k]
                 /\ packFile' = s.state /\ s.state[s.pack] = wanted'[s.pack]
                 /\ \A q \in current' : overrides'[q] = s.state
      <3>1. ~s.raced /\ harmed' = harmed /\ current' \subseteq {p}
        BY <2>1, <2>2, <2>8, TouchIs
      <3>2. \A k \in PackIds \ harmed : k # s.pack => s.state[k] = wanted[k]
        BY <2>2, <3>1 DEF WritesWanted
      <3> QED
        BY <2>3, <2>4, <3>1, <3>2 DEF SettingType
    <2>9. WritesWanted'
      <3>1. setting'[p].pc = "written" /\ setting'[p].pack = s.pack /\ setting'[p].state = s.state
        BY <2>1, <2>2, TouchIs
      <3> QED
        BY <2>4, <2>7, <2>8, <3>1 DEF WritesWanted
    <2> QED
      BY <2>5, <2>6, <2>9 DEF Undisturbed
  <1>5. ASSUME NEW p \in SwitchProcs, NEW s, s = setting[p], s # NoSetting, s.pc = "written", ~s.raced,
               UNCHANGED <<packFile, wanted>>, harmed' = HarmOf(s), setting' = [setting EXCEPT ![p] = NoSetting],
               current' \subseteq current \cup {p}, overrides'[p] = s.state,
               \A q \in SwitchProcs : q # p => overrides'[q] = overrides[q]
        PROVE  Undisturbed' /\ AloneOrRaced' /\ WritesWanted'
    <2>1. \A q \in SwitchProcs : setting'[q] = NoSetting
      BY <1>5 DEF AloneOrRaced, PackSwitchTypeOK
    <2>2. /\ \A k \in PackIds \ harmed : k # s.pack => s.state[k] = wanted[k]
          /\ packFile = s.state /\ s.state[s.pack] = wanted[s.pack]
          /\ \A q \in current : overrides[q] = s.state
      BY <1>5 DEF WritesWanted
    <2>3. harmed' = harmed \ {s.pack}
      BY <1>5 DEF HarmOf
    <2>4. \A k \in PackIds \ harmed' : s.state[k] = wanted'[k]
      BY <1>5, <2>2, <2>3
    <2>5. s.state \in Switches
      BY <1>0, <1>5 DEF SettingType
    <2>6. FileSays' = s.state
      BY <1>5, <2>2, <2>5, Apart DEF FileSays
    <2>7. \A q \in current' : overrides'[q] = s.state
      BY <1>5, <2>2 DEF PackSwitchTypeOK
    <2>8. Undisturbed'
      BY <2>4, <2>6, <2>7 DEF Undisturbed
    <2> QED
      BY <2>1, <2>8 DEF AloneOrRaced, WritesWanted
  (* A setting that ends with everything to be excused, or before the file.  *)
  <1>6. ASSUME NEW p \in SwitchProcs, setting' = [setting EXCEPT ![p] = NoSetting],
               UNCHANGED <<packFile, wanted>>, current' \subseteq current \cup {p},
               \A q \in SwitchProcs : q # p => overrides'[q] = overrides[q],
               \/ harmed' = PackIds /\ setting[p] # NoSetting
               \/ /\ harmed' = harmed /\ ~Touching(p)
                  /\ p \in current' => packFile # CutShort /\ overrides'[p] = packFile
        PROVE  Undisturbed' /\ AloneOrRaced' /\ WritesWanted'
    <2>1. /\ setting'[p] = NoSetting /\ ~Touching(p)'
          /\ \A q \in SwitchProcs : q # p => setting'[q] = setting[q] /\ (Touching(q)' <=> Touching(q))
      BY <1>6 DEF PackSwitchTypeOK, Touching, NoSetting
    <2>2. Undisturbed'
      <3>1. CASE harmed' = PackIds
        BY <3>1 DEF Undisturbed
      <3>2. CASE harmed' # PackIds /\ \A q \in SwitchProcs : ~Touching(q)'
        <4>1. \A q \in SwitchProcs : ~Touching(q)
          BY <1>6, <2>1, <3>2
        <4>2. \A k \in PackIds \ harmed : FileSays[k] = wanted[k] /\ \A q \in current : overrides[q][k] = wanted[k]
          BY <4>1 DEF Undisturbed
        <4>3. FileSays' = FileSays /\ (packFile # CutShort => FileSays = packFile)
          BY <1>6 DEF FileSays
        <4> QED
          BY <1>6, <3>2, <4>2, <4>3 DEF Undisturbed, PackSwitchTypeOK
      <3> QED
        BY <3>1, <3>2 DEF Undisturbed
    <2>3. AloneOrRaced'
      BY <2>1 DEF AloneOrRaced
    <2>4. ASSUME NEW q \in SwitchProcs, setting'[q] # NoSetting, ~setting'[q].raced
          PROVE  /\ q # p /\ setting'[q] = setting[q] /\ harmed' = harmed
                 /\ p \in current' => packFile # CutShort /\ overrides'[p] = packFile
      BY <1>6, <2>1, <2>4 DEF AloneOrRaced
    <2>5. WritesWanted'
      <3> SUFFICES ASSUME NEW q \in SwitchProcs, setting'[q] # NoSetting, ~setting'[q].raced
                   PROVE  /\ \A k \in PackIds \ harmed' : k # setting[q].pack => setting[q].state[k] = wanted[k]
                          /\ setting[q].pc = "opened" => packFile = CutShort /\ current' \subseteq {q}
                          /\ setting[q].pc = "written" =>
                                /\ packFile = setting[q].state
                                /\ setting[q].state[setting[q].pack] = wanted[setting[q].pack]
                                /\ \A r \in current' : overrides'[r] = setting[q].state
                                /\ overrides'[q] = setting[q].state
        BY <1>6, <2>4 DEF WritesWanted
      <3>1. q # p /\ setting[q] # NoSetting /\ ~setting[q].raced /\ harmed' = harmed
        BY <2>4
      <3> QED
        BY <1>6, <2>4, <3>1 DEF WritesWanted, PackSwitchTypeOK
    <2> QED
      BY <2>2, <2>3, <2>5
  <1>7. ASSUME NEW p \in SwitchProcs, SetPackEnds(p) PROVE Undisturbed' /\ AloneOrRaced' /\ WritesWanted'
    <2>1. /\ setting[p] # NoSetting /\ setting[p].pc = "written"
          /\ UNCHANGED <<packFile, overrides, wanted>> /\ current' = current \cup {p}
          /\ harmed' = HarmOf(setting[p]) /\ setting' = [setting EXCEPT ![p] = NoSetting]
      BY <1>7 DEF SetPackEnds, NoSetting
    <2>2. CASE setting[p].raced
      BY <1>6, <2>1, <2>2 DEF HarmOf
    <2>3. CASE ~setting[p].raced
      <3>1. overrides'[p] = setting[p].state
        BY <2>1, <2>3 DEF WritesWanted
      <3> QED
        BY <1>5, <2>1, <2>3, <3>1
    <2> QED
      BY <2>2, <2>3
  <1>8. ASSUME NEW p \in SwitchProcs, SwitchRestart(p) PROVE Undisturbed' /\ AloneOrRaced' /\ WritesWanted'
    <2>1. /\ UNCHANGED <<packFile, wanted>> /\ setting' = [setting EXCEPT ![p] = NoSetting]
          /\ overrides'[p] = FileSays /\ \A q \in SwitchProcs : q # p => overrides'[q] = overrides[q]
          /\ current' \subseteq current \cup {p}
          /\ p \in current' => packFile # CutShort /\ overrides'[p] = packFile
      BY <1>8 DEF SwitchRestart, FileSays, PackSwitchTypeOK
    <2>2. CASE setting[p].pc = "written" /\ ~setting[p].raced
      <3>1. setting[p] # NoSetting /\ harmed' = HarmOf(setting[p])
        BY <1>8, <2>2 DEF SwitchRestart, NoSetting
      <3>2. packFile = setting[p].state /\ setting[p].state \in Switches
        BY <1>0, <2>2, <3>1 DEF WritesWanted, SettingType
      <3>3. overrides'[p] = setting[p].state
        BY <2>1, <3>2, Apart DEF FileSays
      <3> QED
        BY <1>5, <2>1, <2>2, <3>1, <3>3
    <2>3. CASE setting[p].pc = "opened" \/ (setting[p].pc = "written" /\ setting[p].raced)
      <3>1. setting[p] # NoSetting /\ harmed' = PackIds
        BY <1>8, <2>3 DEF SwitchRestart, NoSetting, HarmOf
      <3> QED
        BY <1>6, <2>1, <3>1
    <2>4. CASE ~Touching(p)
      <3>1. harmed' = harmed
        BY <1>8, <2>4 DEF SwitchRestart, Touching
      <3> QED
        BY <1>6, <2>1, <2>4, <3>1
    <2> QED
      BY <2>2, <2>3, <2>4 DEF Touching
  <1>9. CASE UNCHANGED switchVars
    BY <1>9 DEF switchVars, Undisturbed, AloneOrRaced, WritesWanted, Touching, FileSays
  <1> QED
    BY <1>1, <1>2, <1>3, <1>4, <1>7, <1>8, <1>9 DEF SwitchNext

(* For any processes and packs: once nobody is at the file, all decide by    *)
(* what was last set of each pack (policy.py:198), and no switch thrown in   *)
(* one process takes back that of another.                                   *)
THEOREM PacksAgree == PackSwitchSpec => []PackSwitched
  <1>1. SwitchInit => PackSwitchInv
    BY Apart DEF SwitchInit, PackSwitchInv, PackSwitchTypeOK, Undisturbed, AloneOrRaced, WritesWanted, FileSays, NoSwitch
  <1>2. PackSwitchInv /\ [SwitchNext]_switchVars => PackSwitchInv'
    BY SwitchTyped, SwitchKept DEF PackSwitchInv
  <1>3. PackSwitchInv => PackSwitched
    <2> SUFFICES ASSUME PackSwitchInv, \A q \in SwitchProcs : setting[q] = NoSetting,
                        NEW p \in SwitchProcs, NEW k \in PackIds \ harmed
                 PROVE  OverridesNow(p)[k] = wanted[k] /\ wanted[k] \in Positions
      BY DEF PackSwitched, PackOn, Positions
    <2>1. \A q \in SwitchProcs : ~Touching(q)
      BY Apart DEF Touching
    <2> QED
      BY <2>1 DEF PackSwitchInv, Undisturbed, OverridesNow, PackSwitchTypeOK, Switches
  <1> QED
    BY <1>1, <1>2, <1>3, PTL DEF PackSwitchSpec
===============================================================================
