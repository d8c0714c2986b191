------------------------------ MODULE Authoring ------------------------------
(* What helps to write a code of conduct: ingest.py, which has one drafted   *)
(* from a document and writes the draft only if its rules pass their own     *)
(* tests, and lint.py, which says of a policy what quietly does nothing.     *)
(* Here with an engine that runs what was written, day after day.            *)
(*                                                                           *)
(* A document is a sequence of rules [id, severity, enforce, tests]; enforce *)
(* is a sequence of blocks of Policy and a test a plan of one user with the  *)
(* outcome it expects.  Kinds that do not exist and dates that do not parse, *)
(* which lint reports too, are no blocks of Policy.                          *)
EXTENDS Walks, SequencesExt

CONSTANTS Drafted,     \* documents that the model may come up with
          ByHand,      \* documents that people may write
          Mapped,      \* domains that the configuration maps a tool to
          Answers,     \* sets of people that answers may name
          LastDay      \* bound of the calendar

(* A document is one of rules, each with blocks of its own.                  *)
ASSUME AuthoringAssumption ==
    /\ Mapped \subseteq WalkDomains /\ Answers \subseteq SUBSET WalkPeople /\ LastDay \in Nat
    /\ "no rule" \notin WalkRules
    /\ \A doc \in Drafted \cup ByHand :
          /\ doc \in Seq({doc[i] : i \in DOMAIN doc}) /\ doc # <<>>
          /\ \A i \in DOMAIN doc :
                /\ DOMAIN doc[i] = {"id", "severity", "enforce", "tests"} /\ doc[i].id \in WalkRules
                /\ doc[i].enforce \in Seq({doc[i].enforce[n] : n \in DOMAIN doc[i].enforce})
                /\ \A n \in DOMAIN doc[i].enforce : /\ DOMAIN doc[i].enforce[n] = DOMAIN AnyBlock
                                                    /\ doc[i].enforce[n].rule = doc[i].id
                                                    /\ doc[i].enforce[n].until \in Nat

VARIABLES document,    \* the policy as it was written
          author,      \* who wrote it
          today,
          pulled,      \* the accumulator of the engine that runs it
          named,       \* the rules that the last decision named
          refused      \* ghost: has it ever refused a call

authoringVars == <<document, author, today, pulled, named, refused>>

AuthoringTypeOK ==
    /\ author \in {"nobody", "ingest", "people"}
    /\ (author = "nobody") <=> (document = <<>>)
    /\ today \in 0..LastDay
    /\ pulled \in StoreKept
    /\ named \subseteq WalkRules
    /\ refused \in BOOLEAN

AuthoringInit ==
    /\ document = <<>> /\ author = "nobody"
    /\ today = 0 /\ pulled = NewStore
    /\ named = {} /\ refused = FALSE

BlocksOf(doc) == FlattenSeq([i \in DOMAIN doc |-> doc[i].enforce])
RuleBlocks(r) == {r.enforce[n] : n \in DOMAIN r.enforce}
-----------------------------------------------------------------------------
(* ingest.                                                                   *)

(* verify: one refusal makes a test a deny, else one alert an alert.         *)
TestOutcome(met) ==
    IF "deny" \in met THEN "deny" ELSE IF "alert" \in met THEN "alert" ELSE "allow"

Passes(blocks, t) ==
    \E met \in {Range(Walk(blocks, today, t.user, t.steps))} : TestOutcome(met) = t.expect

Verified(doc) ==
    \A blocks \in {BlocksOf(doc)}, i \in DOMAIN doc :
        /\ \E t \in doc[i].tests : t.expect = "allow"
        /\ \E t \in doc[i].tests : t.expect \in {"alert", "deny"}
        /\ \A t \in doc[i].tests : Passes(blocks, t)

(* Mutant of Forced: the model's own action is kept.                         *)
ForcedNot(doc) == doc

(* "Drafts never deny, whatever the model said."                             *)
Forced(doc) ==
    [i \in DOMAIN doc |-> [doc[i] EXCEPT !.enforce =
        [n \in DOMAIN doc[i].enforce |-> [doc[i].enforce[n] EXCEPT !.action = "alert"]]]]

(* main: a draft that fails its tests is not written.                        *)
Ingest(doc) ==
    /\ author = "nobody"
    /\ \E draft \in {Forced(doc)} : Verified(draft) /\ document' = draft
    /\ author' = "ingest"
    /\ UNCHANGED <<today, pulled, named, refused>>

WriteByHand(doc) ==
    /\ author = "nobody"
    /\ document' = doc /\ author' = "people"
    /\ UNCHANGED <<today, pulled, named, refused>>
-----------------------------------------------------------------------------
(* lint.                                                                     *)

NamedDomains(b) ==
    b.domains \cup b.taint \cup b.egress \cup (IF b.domain = "no rule" THEN {} ELSE {b.domain})

(* REQUIRED: the fields a kind of block cannot do without.                   *)
Missing(b) ==
    \/ b.kind \in {"domain_join", "domain_block", "wall"} /\ b.domains = {}
    \/ b.kind \in {"min_group", "entity_budget", "self_comparison"} /\ b.domain = "no rule"
    \/ b.kind = "min_group" /\ b.k = 0
    \/ b.kind = "entity_budget" /\ b.max = 0
    \/ b.kind = "flow" /\ b.egress = {}
    \/ b.kind = "arg_match" /\ b.when = {}

(* Mutant of Past: the comparison the other way round.                       *)
PastSwapped(b) == b.until # 0 /\ today < b.until

Past(b) == b.until # 0 /\ b.until < today
NoTaint(b) == b.kind = "flow" /\ b.taint = {} /\ b.egressOnWrite
Unmapped(b) == NamedDomains(b) \ Mapped # {}

(* The findings about a block, each by a word of its message.                *)
BlockFindings(r, b) ==
    {f \in {"missing", "two domains", "taint", "action", "severity", "ambiguous", "past", "mapped"} :
        \/ f = "missing"     /\ Missing(b)
        \/ f = "two domains" /\ b.kind = "domain_join" /\ Cardinality(b.domains) < 2
        \/ f = "taint"       /\ NoTaint(b)
        \/ f = "action"      /\ b.action \notin {"unset", "deny", "alert", "approve"}
        \/ f = "severity"    /\ b.action = "alert" /\ r.severity \in {"high", "critical"}
        \/ f = "ambiguous"   /\ b.allowed # {} /\ b.blocked # {}
        \/ f = "past"        /\ Past(b)
        \/ f = "mapped"      /\ Unmapped(b)}

RuleFindings(doc, i) ==
    {f \in {"duplicate", "tests"} :
        \/ f = "duplicate" /\ \E j \in 1..(i - 1) : doc[j].id = doc[i].id
        \/ f = "tests"     /\ ~( /\ \E t \in doc[i].tests : t.expect = "allow"
                                 /\ \E t \in doc[i].tests : t.expect \in {"deny", "alert", "hold"} )}
-----------------------------------------------------------------------------
(* The engine with what was written; tools reach mapped domains only.        *)
DocCall(blocks, u, s) ==
    /\ author # "nobody"
    /\ \E c \in {Ask(blocks, today, pulled, u, s)} :
          /\ pulled' = c.store
          /\ named' = c.met.alerts \cup ({c.met.rule} \cap WalkRules)
          /\ refused' = (refused \/ ~c.met.allow)
    /\ UNCHANGED <<document, author, today>>

(* A day is longer than any window.                                          *)
NextDay ==
    /\ document # <<>> /\ today < LastDay
    /\ today' = today + 1 /\ pulled' = NewStore /\ named' = {}
    /\ UNCHANGED <<document, author, refused>>

AuthoringNext ==
    \/ \E doc \in Drafted : Ingest(doc)
    \/ \E doc \in ByHand : WriteByHand(doc)
    \/ \E blocks \in {BlocksOf(document)}, u \in WalkUsers, d \in Mapped, w \in BOOLEAN, es \in Answers :
          DocCall(blocks, u, Step(d, w, es))
    \/ NextDay

AuthoringSpec == AuthoringInit /\ [][AuthoringNext]_authoringVars
-----------------------------------------------------------------------------
(* "Drafts never deny, whatever the model said" (ingest.py:246): what ingest *)
(* has written refuses nobody, whatever they call and in whatever order.     *)
DraftsOnlyAlert == author = "ingest" => ~refused

(* Where a block needs every domain that it names, and where it looks at its *)
(* dates at all.                                                             *)
NeedsAll(b) == b.kind \in {"domain_join", "min_group", "entity_budget", "self_comparison"}
Dated(b)    == b.kind \notin {"entity_budget", "self_comparison"}

SaidDead(r, b) ==
    LET found == BlockFindings(r, b) IN
    \/ "taint" \in found
    \/ "mapped" \in found /\ NeedsAll(b)
    \/ "past" \in found /\ Dated(b)

(* "The linter catches the rules that can't fire" (lint.py:3): a rule of     *)
(* which it says so in every block is never named by a decision, whatever is *)
(* called in whatever order on that day.                                     *)
LintTrue ==
    \A i \in DOMAIN document :
        (\A b \in RuleBlocks(document[i]) : SaidDead(document[i], b)) => document[i].id \notin named

(* Of what these two say of a policy, the engine that runs it shows that it  *)
(* is so.                                                                    *)
AuthorsAreTold == DraftsOnlyAlert /\ LintTrue
=============================================================================
