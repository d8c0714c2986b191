------------------------------ MODULE Sessions ------------------------------
(* Clients that make one call after the other: the scripts of the            *)
(* conformance suite and of the demo, with other users of the same gateway   *)
(* at work in between, and the built-in check tool, which runs the rest of a *)
(* script through the engine without fetching anything (Engine.simulate).    *)
(*                                                                           *)
(* A script is over before a window lapses; how calls of one user interleave *)
(* is in Proxy.                                                              *)
EXTENDS Requests

CONSTANTS Tools, DomainOf, WriteTools,
          PeopleIn,       \* tool -> the people its canned answer names
          Scripts,        \* what the clients do, each a sequence of steps
          Others,         \* users who call meanwhile ...
          OtherTools,     \* ... whichever of these tools the script calls too
          NoArgs,         \* a call without arguments
          Probes,         \* the people a plan may be said to be about
          GrantTtl        \* what an approval or a grant in a script lasts

(* What a call may meet.                                                     *)
Meetings == [out : {"allow", "alert", "deny", "hold"}, rule : RuleIds \cup {NoRule}]

(* Scripts are of users, tools and rules there are; the others are others.   *)
ASSUME SessionsAssumption ==
    /\ DomainOf \in [Tools -> Domains]
    /\ PeopleIn \in [Tools -> SUBSET Entities]
    /\ Others \subseteq Users /\ OtherTools \subseteq Tools
    /\ Probes \subseteq SUBSET Entities
    /\ GrantTtl \in Nat \ {0}
    /\ \A s \in Scripts :
          /\ s \in Seq({s[i] : i \in DOMAIN s})
          /\ \A i \in DOMAIN s :
                /\ s[i].user \in Users \ Others /\ s[i].meets \in Meetings
                /\ s[i].do = "call" => s[i].tool \in Tools
                /\ s[i].do # "call" => s[i].rule \in RuleIds

VARIABLES script,     \* the script being run
          verdicts,   \* what its steps have met so far
          dryRun      \* the last answer of the check tool, and when it was asked

sessionVars == <<packs, date, store, requests, script, verdicts, dryRun>>

(* A step of a script: a call, or an approval or a purpose given, and what   *)
(* it should meet.                                                           *)
Call(u, t, a, out, r)  == [do |-> "call", user |-> u, tool |-> t, args |-> a, meets |-> [out |-> out, rule |-> r]]
Given(what, u, r)      == [do |-> what, user |-> u, rule |-> r, meets |-> [out |-> "allow", rule |-> NoRule]]

NotAsked == [at |-> 0]

SessionsTypeOK ==
    /\ packs = Packs /\ date = 0
    /\ store \in StoreType
    /\ requests \in [Users -> [RuleIds -> RequestType]]
    /\ script \in Scripts
    /\ verdicts \in Seq(Meetings) /\ Len(verdicts) <= Len(script)
    /\ dryRun \in [at : 1..Len(script), probe : Probes, met : Seq(Meetings)] \cup {NotAsked}

SessionsInit ==
    /\ packs = Packs /\ date = 0
    /\ store = EmptyStore /\ requests = NoRequests
    /\ script \in Scripts
    /\ verdicts = <<>> /\ dryRun = NotAsked

Met(d) == IF d.allow THEN [out |-> IF d.alerts = {} THEN "allow" ELSE "alert", rule |-> NoRule]
          ELSE [out |-> IF d.approve THEN "hold" ELSE "deny", rule |-> d.rule]
-----------------------------------------------------------------------------
(* call_tool from the approvals on, with nobody in between: what the engine  *)
(* decides over store st, and the store it leaves.                           *)
Called(st, u, t, a) ==
    LET d    == DomainOf[t]
        argd == CheckArgs(st, u, t, a)
        pre  == PreCall(st, u, d, t \in WriteTools)
        rec  == Record(Backend, st, u, d, PeopleIn[t], Ttl)
    IN  IF ~argd.allow THEN [store |-> st, decision |-> argd]
        ELSE IF ~pre.allow THEN [store |-> st, decision |-> pre]
        ELSE [store |-> rec, decision |-> PostCall(rec, u, d, PeopleIn[t])]

(* What a call does to the store and the requests, c being how it came out.  *)
Leaves(u, c) ==
    /\ store' = c.store
    /\ requests' = IF c.decision.approve THEN Requested(requests, u, c.decision.rule) ELSE requests

Next1 == script[Len(verdicts) + 1]

RunCall ==
    /\ Len(verdicts) < Len(script) /\ Next1.do = "call"
    /\ \E u \in {Next1.user} : \E st \in {Synced(store, u)} :
          \E c \in {Called(st, u, Next1.tool, Next1.args)} :
             Leaves(u, c) /\ verdicts' = Append(verdicts, Met(c.decision))
    /\ UNCHANGED <<packs, date, script, dryRun>>

(* The script has a purpose granted, or the pending request approved.        *)
RunGiven ==
    /\ Len(verdicts) < Len(script) /\ Next1.do # "call"
    /\ IF Next1.do = "grant"
       THEN store' = Grant(store, Next1.user, Next1.rule, GrantTtl) /\ UNCHANGED requests
       ELSE /\ requests[Next1.user][Next1.rule].status = "pending"
            /\ requests' = [requests EXCEPT ![Next1.user][Next1.rule] =
                               [status |-> "approved", left |-> GrantTtl]]
            /\ UNCHANGED store
    /\ verdicts' = Append(verdicts, Next1.meets)
    /\ UNCHANGED <<packs, date, script, dryRun>>

OtherCall(v, t) ==
    /\ \E i \in DOMAIN script : script[i].do = "call" /\ script[i].tool = t
    /\ \E st \in {Synced(store, v)} : \E c \in {Called(st, v, t, NoArgs)} : Leaves(v, c)
    /\ UNCHANGED <<packs, date, script, verdicts, dryRun>>
-----------------------------------------------------------------------------
(* The check tool.                                                           *)

(* The throwaway store of a dry run is in memory whatever the engine's is.   *)
Sim == INSTANCE Policy WITH Backend <- "memory"

(* The dry run asks the rules on arguments only if the step has some.        *)
SimArgs(st, u, t, a) == IF a = NoArgs THEN Allowed ELSE Sim!CheckArgs(st, u, t, a)

(* Every read is taken to be about the people named with the plan (by        *)
(* default the caller and a colleague), and a write about nobody.            *)
SimPeople(t, probe) == IF t \in WriteTools THEN {} ELSE probe

(* Mutant of Simulated: answers are not recorded.                            *)
SimulatedBlind(st, u, t, a, probe) ==
    LET argd == SimArgs(st, u, t, a)
        pre  == Sim!PreCall(st, u, DomainOf[t], t \in WriteTools)
    IN  [store |-> st, decision |-> IF ~argd.allow THEN argd ELSE pre]

Simulated(st, u, t, a, probe) ==
    LET d    == DomainOf[t]
        argd == SimArgs(st, u, t, a)
        pre  == Sim!PreCall(st, u, d, t \in WriteTools)
        rec  == Sim!Record("memory", st, u, d, SimPeople(t, probe), Ttl)
    IN  IF ~argd.allow THEN [store |-> st, decision |-> argd]
        ELSE IF ~pre.allow THEN [store |-> st, decision |-> pre]
        ELSE [store |-> rec, decision |-> Sim!PostCall(rec, u, d, SimPeople(t, probe))]

Stopped(met) == met # <<>> /\ met[Len(met)].out \in {"deny", "hold"}

(* simulate: the plan's calls up to and with the first that is refused, over *)
(* a store that starts empty.                                                *)
Simulation(plan, probe) ==
    LET run[i \in 0..Len(plan)] ==
          IF i = 0 THEN [store |-> EmptyStore, decision |-> Allowed]
          ELSE IF ~run[i - 1].decision.allow THEN run[i - 1]
          ELSE Simulated(run[i - 1].store, plan[i].user, plan[i].tool, plan[i].args, probe)
    IN  run

DryRunOf(plan, probe) ==
    LET run == Simulation(plan, probe)
    IN  [i \in {i \in 1..Len(plan) : i > 1 => run[i - 1].decision.allow} |-> Met(run[i].decision)]

OnlyCalls(s) == \A i \in DOMAIN s : s[i].do = "call"

(* _run_check of what is left of a script that only calls; once per script.  *)
Check(probe) ==
    LET at == Len(verdicts) + 1 IN
    /\ dryRun = NotAsked /\ at <= Len(script)
    /\ OnlyCalls(script)
    /\ dryRun' = [at |-> at, probe |-> probe, met |-> DryRunOf(SubSeq(script, at, Len(script)), probe)]
    /\ UNCHANGED <<packs, date, store, requests, script, verdicts>>

SessionsNext ==
    \/ RunCall \/ RunGiven
    \/ \E probe \in Probes : Check(probe)
    \/ \E v \in Others, t \in OtherTools : OtherCall(v, t)

SessionsSpec == SessionsInit /\ [][SessionsNext]_sessionVars
-----------------------------------------------------------------------------
(* The scripts meet what they say.                                           *)
ScriptsMeet == \A i \in DOMAIN verdicts : verdicts[i] = script[i].meets

(* The step of the script that step i of the plan asked about is, and whether*)
(* each of those that were answered about does read about the people named.  *)
AskedOf(i) == dryRun.at + i - 1

Exact == \A i \in DOMAIN dryRun.met : \/ script[AskedOf(i)].tool \in WriteTools
                                      \/ PeopleIn[script[AskedOf(i)].tool] = dryRun.probe

CarriedOut == {i \in DOMAIN dryRun.met : AskedOf(i) <= Len(verdicts)}

(* "Mirrors the proxy's own pre_call -> post_call flow exactly, so the       *)
(* answer is faithful" (policy.py:454): of calls that do read about the      *)
(* people named, a plan the dry run refuses cannot be carried out by a user  *)
(* without grants, wherever in a session it was asked ...                    *)
RefusalsAreReal ==
    (dryRun # NotAsked /\ Exact /\ Stopped(dryRun.met) /\ CarriedOut = DOMAIN dryRun.met) =>
        \E i \in CarriedOut : verdicts[AskedOf(i)].out \in {"deny", "hold"}

(* ... and a plan asked about before everything else meets, call by call,    *)
(* what it said.                                                             *)
ForecastIsMet ==
    (dryRun # NotAsked /\ Exact /\ dryRun.at = 1) =>
        \A i \in CarriedOut : verdicts[i] = dryRun.met[i]

DryRunTrue == RefusalsAreReal /\ ForecastIsMet
=============================================================================
