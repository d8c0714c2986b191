-------------------------------- MODULE Scan --------------------------------
(* aggrete scan and its --fix (scan.py): from the servers that the clients   *)
(* of a machine are configured with to the leak paths their tools make up    *)
(* together, to the configuration and policy written for these paths; and a  *)
(* session of a user through a proxy that runs them.                         *)
(*                                                                           *)
(* A setup is the sequence of servers found, a tool a record of the domains  *)
(* its name and description hint at (classify, in the order of its table),   *)
(* whether scan takes it for a writer (is_write) and whether the proxy does  *)
(* (acts: the default write_tools, since the fix names none).                *)
EXTENDS Sequences, FiniteSets, Naturals

CONSTANTS Setups,       \* what may be found on a machine
          Persons,      \* people that answers may name
          Named,        \* whom an answer may name
          Operator,     \* the user of the session
          Marker        \* what Store keeps beside the entities

ToolHints == [name : STRING, domains : Seq(STRING), write : BOOLEAN, acts : BOOLEAN]

VARIABLES setup,     \* the servers found
          fixed,     \* the combinations found, once the fix is written
          session,   \* the accumulator of the proxy that runs it
          obtained,  \* ghost: <<domain, person>> the user has been given
          escaped    \* ghost: combinations found whose path was gone to its end
                     \* without refusal or alert

scanVars == <<setup, fixed, session, obtained, escaped>>

NotScanned == {"not scanned"}
Combos     == {"layoff-list", "lethal-trifecta", "code-exfil", "secrets-egress", "pay-ranking", "crm-export"}
-----------------------------------------------------------------------------
(* scan.                                                                     *)

(* A server configured twice is connected to once, one that does not answer  *)
(* lists nothing, and aggrete itself is not among the governed ones.         *)
Repeated(i) == \E j \in 1..(i - 1) : setup[j].spec = setup[i].spec
Connected   == {i \in DOMAIN setup : setup[i].up /\ ~Repeated(i)}
Governed    == {i \in Connected : ~setup[i].aggrete}
ToolsSeen   == UNION {setup[i].tools : i \in Governed}

Hints(t)    == {t.domains[n] : n \in DOMAIN t.domains}
AllDomains  == UNION {Hints(t) : t \in ToolsSeen}
Writers     == {t \in ToolsSeen : t.write}

(* COMBOS: what each needs, WRITE apart.                                     *)
Needs(c) == CASE c = "layoff-list"     -> {"hr-personnel", "finance-comp", "ops-rota"}
              [] c = "lethal-trifecta" -> {"untrusted-web"}
              [] c = "code-exfil"      -> {"untrusted-web", "private-code"}
              [] c = "secrets-egress"  -> {"secrets-store"}
              [] c = "pay-ranking"     -> {"finance-comp", "hr-personnel"}
              [] c = "crm-export"      -> {"crm-customers"}

NeedsWriter(c) == c \in {"lethal-trifecta", "secrets-egress", "crm-export"}

Present(c) == Needs(c) \subseteq AllDomains /\ (NeedsWriter(c) => Writers # {})

Found == {c \in Combos : Present(c)}
-----------------------------------------------------------------------------
(* write_fix.                                                                *)

ScanRules   == <<"SCAN-HR-001", "SCAN-SEC-001", "SCAN-CRM-001">>
Rules       == {"SCAN-HR-001", "SCAN-SEC-001", "SCAN-CRM-001"}
FixDomains  == (UNION {Needs(c) : c \in Combos}) \cup {"shared-notes", "chat", "mail", "unclassified"}

(* Mutant of RulesFor: the rule against egress is written for one path.      *)
RulesForTrifecta(kinds) ==
    {r \in Rules : \/ r = "SCAN-HR-001"  /\ kinds \cap {"layoff-list", "pay-ranking"} # {}
                   \/ r = "SCAN-SEC-001" /\ "lethal-trifecta" \in kinds
                   \/ r = "SCAN-CRM-001" /\ "crm-export" \in kinds}

RulesFor(kinds) ==
    {r \in Rules : \/ r = "SCAN-HR-001"  /\ kinds \cap {"layoff-list", "pay-ranking"} # {}
                   \/ r = "SCAN-SEC-001" /\ kinds \cap {"lethal-trifecta", "code-exfil", "secrets-egress"} # {}
                   \/ r = "SCAN-CRM-001" /\ "crm-export" \in kinds}

(* The engine with blocks b, one user and an accumulator in memory.  Nothing *)
(* in a fix has a pack, a date or an argument; what is switched here are the *)
(* rules themselves: the ones that were not written are off.                 *)
Fixed(b) == INSTANCE Policy WITH
    Users <- {Operator}, KeyPrefix <- {<<Operator, Operator>>}, Domains <- FixDomains, Entities <- Persons,
    Touched <- Marker, RuleIds <- Rules, RuleOrder <- ScanRules, Backend <- "memory",
    Blocks <- b, PackOf <- [r \in Rules |-> r], Packs <- Rules, NoPack <- "no pack",
    Me <- [u \in {Operator} |-> "p:you"], Ttl <- 1, NoRule <- "no rule",
    packs <- RulesFor(fixed), date <- 0

Defaults == Fixed(<<>>)!Block

HrJoin   == [Defaults EXCEPT !.rule = "SCAN-HR-001", !.kind = "domain_join", !.action = "alert",
                             !.domains = {"hr-personnel", "finance-comp", "ops-rota"}]
NoEgress == [Defaults EXCEPT !.rule = "SCAN-SEC-001", !.kind = "flow", !.action = "deny",
                             !.taint = {"untrusted-web"},
                             !.egress = {"private-code", "secrets-store", "mail", "chat"}]
Bulk     == [Defaults EXCEPT !.rule = "SCAN-CRM-001", !.kind = "entity_budget", !.action = "alert",
                             !.domain = "crm-customers", !.max = 25]

FixBlocks == <<HrJoin, NoEgress, Bulk>>

(* The domain map: a tool's first hint; for one without, the first domain of *)
(* its server in the alphabet, named by the setup; else the default.         *)
DomainIn(i, t) ==
    IF i \in Connected /\ t.domains # <<>> THEN t.domains[1]
    ELSE IF i \in Connected /\ UNION {Hints(x) : x \in setup[i].tools} # {} THEN setup[i].first
    ELSE "unclassified"

Fronted == {i \in DOMAIN setup : ~setup[i].aggrete /\ ~Repeated(i)}

(* Tools hint at domains of the table of classify.                           *)
ASSUME ScanAssumption ==
    /\ "nobody" \notin Persons /\ Marker \notin Persons
    /\ IsFiniteSet(Persons) /\ Named \subseteq SUBSET Persons
    /\ \A machine \in Setups : \A i \in DOMAIN machine :
          /\ machine[i].first \in FixDomains
          /\ \A t \in machine[i].tools : t.domains \in Seq(FixDomains)
-----------------------------------------------------------------------------
ScanInit ==
    /\ setup \in Setups
    /\ fixed = NotScanned
    /\ session = Fixed(<<>>)!EmptyStore
    /\ obtained = {} /\ escaped = {}

ScanTypeOK ==
    /\ setup \in Setups
    /\ fixed = NotScanned \/ fixed \subseteq Combos
    /\ session \in Fixed(<<>>)!StoreType
    /\ obtained \subseteq FixDomains \X (Persons \cup {"nobody"})
    /\ escaped \subseteq Combos

Fix ==
    /\ fixed = NotScanned
    /\ fixed' = Found
    /\ UNCHANGED <<setup, session, obtained, escaped>>

(* What a call of t that names es completes, besides what was obtained: the  *)
(* path that the combination is reported for (COMBOS, "why").  Of crm-export *)
(* it is the bulk, more than one task requires, that counts.                 *)
Completes(c, t, es) ==
    LET before   == {p[1] : p \in obtained}
        after(p) == {q[1] : q \in {x \in obtained : x[2] = p}} \cup (IF p \in es THEN Hints(t) ELSE {})
        ofOne    == {"layoff-list", "pay-ranking"}
    IN  \/ c \in {"lethal-trifecta", "secrets-egress"} /\ Needs(c) \subseteq before /\ t.write
        \/ c = "code-exfil" /\ "untrusted-web" \in before /\ "private-code" \in Hints(t)
        \/ c \in ofOne /\ Hints(t) \cap Needs(c) # {} /\ \E p \in es : Needs(c) \subseteq after(p)
        \/ /\ c = "crm-export" /\ "crm-customers" \in Hints(t)
           /\ Cardinality({p \in Persons : "crm-customers" \in after(p)}) > 25

(* A call through the proxy that fronts the servers, one at a time.          *)
FixedCall(i, t, es) ==
    LET d    == DomainIn(i, t)
        rec  == Fixed(FixBlocks)!Record("memory", session, Operator, d, es, 1)
        post == Fixed(FixBlocks)!PostCall(rec, Operator, d, es)
        seen == i \in Connected
    IN  /\ fixed # NotScanned
        /\ i \in Fronted /\ t \in setup[i].tools
        /\ Fixed(FixBlocks)!PreCall(session, Operator, d, t.acts).allow
        /\ session' = rec
        /\ obtained' = IF seen THEN obtained \cup (Hints(t) \X (es \cup {"nobody"})) ELSE obtained
        /\ escaped' = IF seen /\ post.alerts = {}
                      THEN escaped \cup {c \in fixed : Completes(c, t, es)} ELSE escaped
        /\ UNCHANGED <<setup, fixed>>

ScanNext ==
    \/ Fix
    \/ \E i \in DOMAIN setup : \E t \in setup[i].tools, es \in Named : FixedCall(i, t, es)

ScanSpec == ScanInit /\ [][ScanNext]_scanVars
-----------------------------------------------------------------------------
(* "aggrete scan --fix DIR: write the config that closes the findings"       *)
(* (scan.py:19), with "the rule for exactly this combination" (scan.py:455): *)
(* no combination that was found can be gone to its end without a refusal or *)
(* an alert, over whichever of the tools scan saw.                           *)
FixCloses == escaped = {}

(* What the clauses of the rules speak of (scan.py:535, 542, 549).  Two of   *)
(* the combinations get rules that do not: a secret that is then sent, and   *)
(* pay and personnel of one person.                                          *)
Clauses == {"layoff-list", "lethal-trifecta", "code-exfil", "crm-export"}

(* The fix keeps the clauses it writes.  Nobody reads untrusted content and  *)
(* then writes or goes to private code, brings personnel, budget and rota of *)
(* one person together or collects customers in bulk without a refusal or an *)
(* alert: on machines where scan and the proxy agree about what writes.      *)
ClausesKept == escaped \cap Clauses = {}
=============================================================================
