# Verification of aggrete

Aggrete is a gateway between AI assistants and the tools (MCP servers) of a
company.  Every `tools/call` is decided by a *code of conduct* (`coc.yaml`)
before it goes upstream and again when the answer is back, from the arguments,
from who is asking, and from what that person has already pulled through any
client.  This directory holds TLA+ models of that decision path and of the
components around it, the TLC runs that check them and TLAPS proofs about them.

    tlc -workers 2 -config proxy_code_memory.cfg MCProxy
    tlapm ProxyProofs.tla

## 1. The system

| Component | State | Operations | What makes it correct |
|---|---|---|---|
| **Accumulator** `accumulator.py` | per user and domain, the entities seen with an expiry; purpose grants with an expiry.  `MemoryStore` (dicts) or `RedisStore` (sets with EXPIRE) | `record`, `entities`, `domains`, `grant`, `granted`, `reset`, expiry | nothing is forgotten before its window; the two backends agree |
| **Policy engine** `policy.py` | the rules, the packs switched on and their override file; everything else is in the store | `check_args`, `pre_call`, `post_call`, `tool_visible`, `simulate`, `set_pack`, `grant_purpose` | an answer never leaves a user with a forbidden combination unless the rule is waived for that user; a dry run tells the truth; a switch takes effect everywhere |
| **Proxy** `proxy.py` | upstream sessions, cached tool verdicts, the calls in progress (coroutines of one event loop) | `call_tool`, `_hold`, `_sync_approvals`, `list_tools`, `connect` | the engine's decisions hold although other calls run during every await; every held call is answered |
| **Approvals** `approvals.py` | requests per user and rule: pending, approved until, denied; a JSON file, one Redis key or memory | `request`, `approve`, `deny`, `approved_for`, command line, HTTP routes | a decision is not lost; an approved call goes through |
| **Audit** `audit.py` | the hash of the last row; the file | `emit`, `verify_chain`, restart | the chain verifies unless somebody altered it, or a row was lost |
| **Forwarder** `forward.py`, **metrics** `metrics.py` | a bounded queue and its thread; counters | `send`, the thread's loop, `flush`, `observe` | a copy in order, at most once, of which every loss has a reason; nothing blocks a call |
| **Rate limiter** `ratelimit.py` | a queue of times per user, or a counter per window in Redis | `allow` | no more than the limit in a window |
| **Tool integrity** `integrity.py` | pins in memory and in a file, its mtime | `check`, `repin`, reload | a changed definition stays flagged until repinned |
| **Sign-in** `signin.py`, **auth** `auth.py` | transactions, codes, access and refresh tokens, state file | `authorize`, `signin`, exchanges, `revoke`, `identity_for` | a token speaks for who signed in; what is spent is spent; what was given survives a restart |
| **Credentials** `credentials.py` and upstream sessions | shared sessions, per-user connections | `resolve`, connect, call | a call is made with its caller's identity and nobody else's |
| **Adapters** `adapters.py`, **extmcp** `extmcp/`, **plugin** `plugin.py` | the last tool per user and backend (extmcp) | `request`, `response`, `before`, `after` | the same decisions as the proxy for another gateway's calls, whichever messages come |
| **Conformance** `conformance/`, **demo** `_demo.py` | one session | checks, scenarios, a story, dry runs | what they show is so, and with other users at work too |
| **Ingest** `ingest.py`, **lint** `lint.py` | the document | draft, test, write; findings | a draft refuses nobody; a rule that "can't fire" does not |
| **Scan** `scan.py` | what was found | `build`, `analyze`, `write_fix` | the configuration written closes the paths found, or what its clauses say |
| entities, redact, connectors, mocks, skill | none | text, input and output | |

How they interact.  `call_tool` runs without interruption from the request to
the `await` of the upstream call: rate limit, tool filter, tool verdict, secret
scan, `_sync_approvals` (approvals become purpose grants in the store),
`check_args`, `pre_call`.  While the upstream works, the event loop serves other
calls, approval routes and listings.  After the await it runs uninterrupted
again: `post_call` records the result and *then* decides about it, the audit row
is written, and the answer is released, refused or held.  `_hold` writes an
approval request and may sleep in steps of a second, up to `approvals.wait` (at
most 45), waiting for an approver.  In adapter mode somebody else's gateway makes
the call: the request and the answer come as two separate messages, to one or
several processes that share a Redis.

What is hard: the state `pre_call` has read is stale when the answer comes;
grants, packs, tokens and windows lapse in between; two stores expire by
different rules; the process restarts and keeps only part of its state; the
engine stops at the first block that decides, so rules mask one another; holds,
approvals and retries of several calls overlap; messages to a decision point are
lost, repeated or left out; files (approvals, pins, pack overrides, sign-in state,
audit) are shared with other processes or survive a process that was writing
them.  `PROJECT.json` lists each of these hazards at its line.

## 2. The modules

| Module | Models |
|---|---|
| `Store` | both stores as operators on one record type: what `record`, `grant`, `reset` and a second going by change, what `entities`, `domains`, `granted` return |
| `Accumulator` | a `MemoryStore` and a `RedisStore` given the same calls, beside the contract both claim |
| `Policy` | the engine: blocks, scope, gates, and the three decisions and the listing as functions of a store |
| `Requests` | approval requests as one process's calls and holds use them (`_sync_approvals`, `request`) |
| `CodeOfConduct` | the abstract specification: what a user may be handed, with no store, no call in flight and no check before or after |
| `Holdings` | the ghost of what users hold, `HoldsToCode` (the instance of `CodeOfConduct`) and `StoreCoversHeld`, for every program that answers through the engine |
| `Proxy` | the gateway: call slots, holds, approvals, packs, tool verdicts, restarts, time |
| `Gateways` | adapter mode: `Decider`, the ExtMCP processor and the embedding hook as several processes over one store |
| `Approvals` | the document of approval requests as proxies and command lines share it: load and save as separate steps |
| `Audit` | the audit file and the process that appends to it, writes that fail, restarts, changes after the fact, the verifier |
| `Forward` | audit rows on their way to a collector, and the counters derived from them |
| `Integrity` | pins, their file, a re-pin from another process, the verdict on a listed tool |
| `RateLimit` | the sliding queue and the counter per window, given the same calls |
| `SignIn` | the sign-in server and its state file, and whom its tokens speak for |
| `PackSwitch` | the override file of packs as several engines share it |
| `Upstreams` | sessions, credentials and identities of upstream calls |
| `Sessions` | clients that follow a script while others call, and the `check` tool (`simulate`) at any point of it |
| `Conformance` | the bundled policy and the checks and scenarios of the suite, as scripts of `Sessions` |
| `Walks` | one step after the other put to an engine of one's own, in pure operators |
| `Demo`, `Authoring` | the demo; `ingest` and `lint`, with an engine that runs what was written (both on `Walks`) |
| `Scan` | combinations found, the fix written for them, and a session through a proxy that runs it |
| `MCAccumulator`, `MCProxy`, `MCGateways`, `MCEdges`, `MCScan` | the instances TLC checks |
| `StoreProofs`, `AccumulatorProofs`, `HoldingsProofs`, `ProxyProofs`, `GatewaysProofs` | the theorems about the module of that name |
| `GuardProofs` | the theorems about `SignIn`, `RateLimit`, `Upstreams`, `Integrity` and `PackSwitch`, a section each |
| `TrailProofs` | the theorems about `Audit`, `Forward` and `Approvals` |
| `ClientProofs` | the theorems about `Sessions`, `Authoring` and `Scan` |

Composition: `Store` is in `Policy`, `Policy` in `Requests`, that in `Holdings`
(with `CodeOfConduct` as an instance) and in `Sessions`; `Proxy` and `Gateways`
extend `Holdings`.  `Walks` and `Scan` instantiate `Policy` with the blocks of
the document at hand.  `MCEdges` puts the components that share no state with the
call path side by side.  `Proxy` keeps the requests of its own process (every
operation on them is one uninterrupted stretch there); `Approvals` looks at the
same operations from outside, where other processes come between the load and
the save.

### Correspondence

*Time.*  An expiry is kept as the whole seconds left (0 is absent or expired);
`Tick` is one second and ages everything.  No clock is bounded.  `since` and
`until` of a block are compared with `date`, which stops at the last date any
block names.  A consequence: fractions of a second (`max(1, int(...))` in
`_sync_approvals`) do not exist here.

*Stores.*  `ents[u][d][m]` is the time left of entity or marker `m`
(`__touched__` is `Touched`).  `MemoryBucket` renews the entities named and sets
the marker only if it is absent (`setdefault`); `RedisBucket` gives the whole set
one new expiry; `seen` is Redis's second key, the user's set of domains, and a
domain counts only while both are live.  `KeyPrefix` says whose Redis keys begin
with whose name, which is what `reset` matches.

*Blocks.*  `Blocks` is the sequence of enforce blocks in the order the engine
meets them (document order, then the order of the loops inside a rule), as
records with the code's defaults filled in.  `PolicyAssumption` states that
order.  A decision is the first block that fires; `PreCall`, `CheckArgs` and
`PostCall` are that first block seen by each function, including which of them a
grant waives.  An argument is a value of `Args`; `when` is the set of values that
meet every condition of `deny_when`.  Tool patterns, names and texts are
identities of a set.

*Calls.*  A slot of `call` is one coroutine.  Every action is one stretch
between awaits: `RefuseEarly` and `Screen` from the request to the upstream call,
`Result` and `NoResult` from its end to the answer, `WakeApproved` and
`WakeUndecided` one turn of the loop in `_hold`.  `Screen` and `Result` contain
everything the stretch does: `Synced`, the recording, the hold.  `answer` is the
answer and audit row of the last step; it is cleared by every other step.

*Environment.*  `Decide` is the approval route, `GrantPurpose` a workflow
calling the engine, `SetPack` the console, `ListTools` a listing that changes a
tool's verdict, `Restart` a new process: calls in flight are gone, approvals and
pack overrides are on disk, the store survives only in Redis.  A rate limit, an
unreachable upstream and an expiring token are choices open in every state
(`RateLimits`, `NoResult`, `TokensExpire`).

*Approvals.*  Each operation of `approvals.py` loads the whole document, changes
one entry and saves the whole: `Request`, `ApproveRequest` and `DenyRequest` load and
make the copy, `SaveDocument` puts it back.  The file is replaced by `os.replace` and
the key by `SET`, so either half is atomic.  `PlaceOf` is where a process keeps the
document: the command line has no Redis client and always uses the file.
`SyncApprovals` makes grants of what `approved_for` returns, `DeciderEnds` ends a process
between any two steps.

*Audit.*  The hash of a row is the sequence of the bodies up to it, one value per
history.  `Emit` chains a row and puts it behind what is still buffered
(`pending`); `WriteSome` puts a part of the first buffered row into the file
(`begun`), or the rest of it with its newline, any number of times while the process
is in `emit` or about to exit.  `EmitEnds` returns, or raises because the write
failed.  What a failed write leaves stays in the buffer (Python's file object keeps it)
and goes out before the next row, or the row is lost: a `BufferedWriter` that is full
and cannot be emptied, or a row larger than its 8 KB, drops what it was given.  Which of
the two is a choice, since sizes are left out; `self.prev` has moved on either way.
`rest` is what stands after the last newline: what a
process that ended leaves there becomes part of the next row's line, which is then
`Torn`.  A part is never the whole row without its newline.
`Change` edits, removes or repeats a line, leaving its hashes as they are.  The ghost
`harm` is the first line that was changed, cut short, or stands where a row was lost.

*Gateways.*  A call of somebody else's gateway occupies a slot from its request
to its answer.  A process decides one thing at a time (a lock, or one stretch of
its loop), so `RecordResult` and `Verdict` are the two halves of `post_call`,
between which other processes write.  What the gateway does is not aggrete's:
`Verdict` without an answer is a lost reply, after which the result may be put
to a process again; `Skip` is a gateway that asks about answers only; `GiveUp`
lets a call go.  It obeys the decisions it gets, and that is assumed.  An answer is
recorded and decided under the tool it is taken to be of (`ToolOfResult`); where the
message names none, that is the last tool the user asked for, right or wrong.  What the
user is handed is what the call's own tool said (`HandsOver`), so `held` counts it
under that tool's domain, also when it was filed under another, or passed on unfiled or
unread (`PassUnfiled`, `PassUnread`); for these the ghost `astray` keeps how long such
an answer still counts.

*Files that are shared.*  In `PackSwitch`, `Integrity` and `SignIn` a write is two
steps (truncated, written) with a failure or an end of the process between them;
"is the mtime another one" is a flag that a write within one tick of the clock may
leave unset.  What an accident has cost is kept in a ghost (`harmed`, `lost`,
`unsaved`), and each property says what it excuses: exactly those.

*Scripts.*  A step of `Sessions` is one whole call (before, fetch, after): how calls
interleave is `Proxy`'s matter.  A script ends before a window lapses.  The dry run
of the rest of a script may be asked for at any point of it.

*Documents.*  A rule of `Authoring` is a record of blocks of `Policy` and of tests;
`Ingest` forces every action to `alert` and writes only what passes its own tests.
A setup of `Scan` is what `discover` and the listings brought in; a tool is the
domains its text hints at and whether `scan`, and whether the proxy, take it for a
writer.  `Completes` says of each of the six combinations what going its path to the
end is, by the reason `COMBOS` gives for reporting it: a write after untrusted content
or after a secret, private code after untrusted content, the three domains or pay and
personnel about one person, more customers than a task requires.

*Ghosts.*  `held` is what the answers handed to each user still count for; only an
answer and `Tick` change it.  `due` in `Accumulator` is the same for calls of
`record`.  The others are named as such at their declarations.

## 3. What the runs check

Passing runs:

| Run | Shows |
|---|---|
| `acc_contract` | `RedisRemembers`: over any sequence of records, grants, resets and seconds a mark is in its bucket, and its domain in the user's domains, for the whole of its window.  `Covered`, the invariant behind it, also says that whatever memory knows, Redis knows. |
| `proxy_code_memory` | `HoldsToCode` (the gateway implements `CodeOfConduct`) and `StoreCoversHeld`, with two calls in flight and a join, a budget and a self-comparison, over memory. |
| `proxy_code_redis` | the same over Redis with a rule that asks for approval, a minimum group, a pack switched on and off, restarts and expiring tokens. |
| `proxy_code_users` | the same for two users, one of them exempt until a date, and grants given through the engine. |
| `proxy_shield` | (a flow rule, and one argument of a read that asks for approval.)  `FlowShield`: over Redis, nobody who holds content of a tainted domain sends a write, unless waived.  `ApprovedGoesThrough`: a retry under a running approval is not stopped again by that rule.  `HoldAnswered`: every hold ends. |
| `gateways` | an ExtMCP processor that is not told the tool of a result and an adapter, or a hook, over one Redis, with messages interleaved, repeated, lost and left out, results passed unread, approvals, a rate limit and restarts.  `HoldsToCodeIfFiled`: only somebody who holds an answer that went astray (filed under another tool's domain, or passed on unfiled or unread) may be given one that breaks a block in force, and only until it has lapsed.  `FallbackFindsTool`: the last-tool fallback files an answer under its own tool as long as nothing overtook its request.  `ApprovedGoesThrough`, whichever process the retry is put to. |
| `edges` | the components around the call path, below. |

What `edges` says, part by part:

| Part | Properties |
|---|---|
| conformance, demo | `ChecksHold`: every step of every check, scenario and story meets what it announces, and the listing is as C12 says, with another user at work in between. |
| dry run | `DryRunTrue`: asked at any point, a plan it refuses cannot be carried out; asked first, every call meets what it said. |
| integrity | `PinsAreTrusted`: what a tool is held against is the first definition seen or the last re-pinned.  `ChangeShows`: another definition never comes out clean, and an accepted one always does. |
| rate limit | `Ceiling`: in any window memory passes no more than the limit and Redis no more than twice. |
| forwarding, metrics | `CopyInOrder`: rows arrive at most once, in the order of the file, and no refusal as an allowed call.  `Accounted`: every row is delivered, on its way, or lost for a reason, and counted.  `RowsLeave`: every row leaves the queue. |
| sign-in | `TokensAreSignedIn`, `SpentIsSpent`, `GivenIsKept`, through failed and torn saves and restarts. |
| packs | `PackSwitched`: with nobody at the file, every process decides by what was last set, but for switches an accident took. |
| upstreams | `ActsForCaller`: no call carries another user's secret or name; a per-user one carries its caller's. |
| audit | `GenuineUntilBroken`: the lines that verify are the first rows of a history that was once emitted, whatever was done to the file.  `BlamesHarm`: a line is bad only at or after one that was changed, cut short or stands where a failed write lost a row; restarts, and failed writes made good later, break no chain. |
| approvals | `ApprovalsAreGiven`, `GrantsAreGiven`: a proxy and a command line over one file, saving over one another and crashing, may lose a decision or bring back an old one, but never hold an approval or a grant that nobody gave, or one that lasts longer. |
| scan | `ClausesKept`: with the fix in force nobody goes a path that was found, and that the clauses of the rules written speak of, to its end without a refusal or an alert, on machines where scan and the proxy agree about what writes.  These are four of the six combinations; the other two are in section 5. |
| ingest, lint | `AuthorsAreTold`: a draft that was written refuses nobody; a rule that lint calls dead is never named by a decision, if lint says it of a kind for which it is right (section 5 lists those for which it is not). |

Runs that refute a statement of the repository:

| Run | The statement | What the code does |
|---|---|---|
| `proxy_flow_memory` | "any write after a session reads untrusted content is refused" (`README.md:50`) | `MemoryStore` does not renew the domain marker (`setdefault`): read, read again just before the window ends, write just after |
| `proxy_legal_hold` | a `domain_block` with `deny` is "deliberately not waivable by a purpose grant" (`policy.py:279`) | a grant for an earlier rule returns `allow` from `pre_call` before the block is met |
| `proxy_approval_lost` | "once it is approved, retry the same call and it will go through" (`proxy.py:558`) | another call of the user, in flight at the time, asks again after its fetch and puts the approved request back to pending |
| `scan_fix` | "write the config that closes the findings" (`scan.py:19`) | a tool that scan counts as a writer by its verb (`publish_page`) is none of the proxy's default `write_tools`, and the fix names none: it goes through after untrusted content |
| `gateways_last_tool` | a gateway gets "the same deterministic, stateful decisions" (`adapters.py:4`) | two calls in progress, no tool named (`extmcp/__init__.py:158`): the answer of the first is filed under the tool of the second, and then the second is released too, so the user holds both sides of a forbidden join |

### Bounds, and why they are enough

Two slots: every interference in `call_tool` is between one call's stretch after
the await and steps of others, and two calls give every order of two recordings
and two decisions.  Two domains and one or two people: a join needs two domains, a
budget of one needs two people, a self-comparison a person beside the caller.
`Ttl` is 2 (1 with two users and in `gateways`): a record can be fresh, half gone,
and gone, and two records of one domain can be a second apart, which is what
separates the expiries of the two stores; `acc_contract` uses 3.  `HoldWait` is 2: a
hold sleeps, wakes undecided, and wakes at its deadline.  The policies have one to
three blocks, one per question.  Symmetry is used for slots (never named by a
property) and for people in `acc_contract`, and not in the run with fairness.  In
`Store`, `Policy`, `Proxy` and `Gateways` no action is cut off by a bound: expiries
are bounded by the lifetimes given and `date` by the last date a block names.

`gateways` has one user and two processes over one store, the processor and the
adapter: what one records comes between the other's recording and its verdict, and an
approval asked for by one is used by the other.  The hook, which after the call does what
the others do, works by itself (`Teams`).  The window is one second, so that all the user
holds lapses at once; `FiledHoldsToCode` and `StoreCovers` (section 4) cover other windows,
in which a stray answer and a later one count for different times, several users, and
hooks beside other processes.
`gateways_last_tool` is one processor without restarts and approvals: the two calls
alone are enough.  The `VIEW` leaves out `answer`, the answer of the last step, on which
no step depends (it is only written); the properties that mention it look at the step
itself.

`edges` runs twelve parts side by side: `part` is chosen in the initial state, that
part moves and the others keep theirs. They share no state, so the interleavings
left out are of steps that commute. Within a part: two tools, of which one changes
(the other shows that a reload or a save keeps its pin); two callers, a limit and a
window of two, up to three calls within a second; four rows through a queue of two,
so that it is full while a row is in the thread's hands; two clients, one person,
one sign-in and two pairs of tokens, the second of which only a refresh makes; two
processes and two packs, one on by default, and three switches of which two are of
one pack; two lines over three upstreams, one shared that impersonates, one per
user, one per user whose credential a command resolves; three different audit rows
in three lines or pieces and two changes after the fact; documents of one or two
rules over three days, with an `until` on the second; one approval request, two
approvers and lifetimes of 1 and 3, so that one approval can be renewed by a shorter or
longer one of another approver.

The part `scan` has eight machines: each of the four combinations of `ClausesKept` is on one
of them, with a server that is down, one listed twice and aggrete itself, and one has a
secret reader beside the untrusted one and the writer.  An answer names nobody, one of
two people, or a crowd of 25, so that one more person makes a bulk.  `scan_fix` has two
machines, of which one is closed by the fix.  Each named bound is marked as one at its
declaration.

### Fairness

`FairSpec` of `Proxy` adds weak fairness of `Tick` (time passes) and of `Wake` for
each slot (the loop of `_hold` is resumed after its sleep; asyncio serves every ready
coroutine).  Nothing is assumed of upstreams, which have no timeout, nor of
approvers, clients or restarts.  In `edges` the thread of the forwarder is weakly
fair: it is in `q.get()` or in a send that ends, with success or an error (the sink
has a timeout); the collector may fail for ever.

## 4. What is proved

For every choice of the constants within the named assumptions:

* `TypeCorrect` in `AccumulatorProofs`, `ProxyProofs` and `GatewaysProofs`,
  `TrailProofs!ApprovalsTyped`, and within `GuardProofs!SignInHolds`: the type
  invariant, one lemma per action that is more than one line.
* `AccumulatorProofs!CoveredInvariant`: `Spec => []Covered`, assuming `OneTtl`
  (an engine records everything with one ttl, `policy.py:379`) and `PersonalKeys`
  (no user's name begins another's: otherwise Redis's `reset` forgets too much).
  `Covered` is inductive as it stands.  It says that what is due is never more
  than what Redis keeps under *either* of its two keys, and never less than what
  memory keeps; the promise alone ("present while due") is not inductive, since it
  says nothing of how long the two keys still live.  `ContractHolds`:
  `RedisRemembers` and `RedisCoversMemory` follow.
* `ProxyProofs!StoreCovers`: `Spec => []StoreCoversHeld`, assuming `Persistent` (the
  store is Redis or there are no restarts).  Only `Result` raises `held`, and it has
  recorded with the same lifetime first; `Tick` ages both sides alike.
* `ProxyProofs!ImplementsCode`: `Spec => HoldsToCode`, assuming `Persistent` and,
  for memory, `JoinsOverlap` (every join asks for a person in common).  The
  refinement maps `held` to itself and `waivers` to the grants of the store.  Every
  step but `Release` and `Tick` leaves `held` alone; `Tick` is `Forget`; for
  `Release`, `ReleaseConforms` (in `HoldingsProofs`) shows kind by kind that a block
  the new holdings would break fires in `post_call` on the store of
  `StoreCoversHeld`, which is at least as large, and so refuses unless it is waived.
  Without `JoinsOverlap` it fails for memory, for the reason `proxy_flow_memory`
  shows: the marker lapses early.
* `ProxyProofs!FlowShieldHolds`: `Spec => FlowShield` over Redis, if tainted domains
  are domains of the policy.  `SentWasAllowed`: only `Screen` sends, and it has
  asked `pre_call`; by `StoreCovers` the flow block is among those that fire, so the
  first of them, which is no later, was waived.
* `ProxyProofs!ApprovedPasses` and `GatewaysProofs!ApprovedPasses`:
  `Spec => ApprovedGoesThrough`, without an assumption.  `SyncedGrants` turns the
  approval into a grant and `WaivedStopsNothing` says that a granted rule, none of
  whose blocks is a legal hold, is never the one that refuses.  For the decision
  points a refusal that comes before `_sync_approvals` names a rule only for a block
  that cannot be approved (`BarredNames`).
* `GatewaysProofs!StoreCovers`, `FiledHoldsToCode` and `ImplementsCode`: the same as
  the proxy's for any number of decision points over one Redis, with what went astray
  set apart.  `StoreCovers` says, mark by mark, that the store knows what a user holds
  unless it counts no longer than something of this user's that went astray
  (`StoreCoversFiled`).  What makes it inductive is `JobRecorded`: the result a process
  is deciding about is in the store in full.  Other processes only add to what is
  recorded there, and no second goes by during a decision, which the model assumes.
  `FiledHoldsToCode` is `HoldsToCodeIfFiled` for every policy.  `ImplementsCode` is
  `HoldsToCode` without exception, assuming `FilesRight`: no result is passed unread,
  and agentgateway, where it is used, names the tool of a result.  Nothing then goes
  astray.  Without that it fails, as `gateways_last_tool` shows.
* `HoldingsProofs!HiddenIsRefused`: a tool that `tools/list` hides from a user
  without grants is one whose call would be refused before the fetch, if no block
  is about reads or writes only.
* `TrailProofs!NothingForged` and `NothingOutlives`: `ApprovalsAreGiven` and
  `GrantsAreGiven` for any number of processes, requests and approvers.  The two are
  not inductive alone: a save puts a copy in the document, so the invariant `AllGiven` also
  says of every copy under way (`CopiesAreGiven`) that it holds nothing that was not given.
* `GuardProofs!CallerActs`: `ActsForCaller` for any number of users, upstreams
  and calls in progress, assuming `Named` (no user is named like a value of the
  settings).  The invariant `OfCaller` says it already of a credential that is being
  resolved and of a connection that is being opened.
* `GuardProofs!SpeaksForSignedIn`, `StaysSpent`, `StaysGiven`: `TokensAreSignedIn`,
  `SpentIsSpent` and `GivenIsKept` from one invariant: types, whom every transaction,
  code and pair speaks for (`SpokenFor`), that flows and pairs not yet begun are not
  mentioned anywhere (`Unused`), and how memory, file and ghosts relate (`Stored`).
  The file has to be described at all times, since a restart makes it the memory:
  the three properties alone say nothing of it and are not inductive.

* `GuardProofs!LimitHolds`: `[]Ceiling` for any limit, window, callers and number of
  calls that fit a second.  What was let pass says nothing of what was counted, so the
  invariant does: what was let pass is among what was counted, Redis's counter is the
  number of calls counted under the running key, and of what Redis let pass no more
  than the limit is under that key and no more under the ones before (`PassedCounted`);
  a new call is none of those counted (`Numbered`).  `AgedSize` (a second later as many
  calls as before but for those that left) is what a tick rests on.
* `GuardProofs!PinsStay` and `NoChangeHidden`: `[]PinsAreTrusted` and the action
  property `ChangeShows` for any tools and definitions.  Inductive with what writers
  hold: a save under way has the trusted pins (`SavesTrusted`), what was never seen is
  pinned nowhere (`UnseenUnpinned`), and a re-pin that no save has met keeps the pins
  of the other tools (`RepinKeeps`).  The state the next check will use is then the
  trusted one whether it reloads or not (`ReloadedIs`).
* `GuardProofs!PacksAgree`: `[]PackSwitched` for any processes and packs.  Inductive
  with what is so while somebody is at the file: who writes either is alone there or
  knows that it was raced (`AloneOrRaced`), what a writer that was not raced has loaded
  and will write is what was last set (`WritesWanted`), and with nobody there the file,
  and every process that has read it, has it (`Undisturbed`).
* `TrailProofs!TrailIsGenuine` and `BadLineWasHarmed`: `[]GenuineUntilBroken` and
  `[]BlamesHarm` for any rows, lengths, failures and changes.  The invariant: every row
  in the file, in a part of a line and in the buffer carries the hash of an emitted
  history (`RowsEmitted`); the lines before the first harmed one verify (`Intact`);
  and as long as nothing was harmed, what is buffered, begun or not, continues the
  file and the hash in memory continues the buffer (`Continues`); a row lost by a failed
  write is such a harm, at the line where it would have stood.  The first property
  follows by least counterexample: the hash of a line that verifies, as do those before
  it, is the sequence of their bodies (`HashIsHistory`); the second since a line that
  does not verify is not before the first harm.
* `TrailProofs!CopiesInOrder` and `RowsAccounted`: `[]CopyInOrder` and `[]Accounted` for
  any queue, rows and format.  The order has to be stated along the whole way, from the
  collector over the row being sent to the queue (`Ascending`), and a row is counted
  once since no two decisions are counted for one row (`CountedOnce`).

* `GatewaysProofs!FallbackIsRight`: the action property `FallbackFindsTool` for any
  processes, users and requests in flight.  The step that files an answer looks the
  tool up under user and backend; that it finds the request's own rests on `FreshNoted`:
  the process that was asked about a request that nothing has overtaken remembers its tool.
* `ClientProofs!DryRunRefusals`: `RefusalsAreReal`, the first part of `DryRunTrue`, for
  every policy, script and plan without an assumption: of calls that read about the
  people named, a plan the check tool refuses is refused, wherever in the session it
  was asked.  It needs an invariant about the middle of a session (`Asked`): as long as
  the plan is being carried out and nothing in it was refused, whatever the dry run had
  recorded by then is in the real store, so what fires there fires here (`FiresMore`),
  and nobody holds a waiver (`Unwaived`).  That the answer is the function `Simulation`
  of the plan is an induction along the plan (`SimulationIs`), here by least
  counterexample.
* `ClientProofs!DryRunFaithful`: `DryRunTrue` in whole, assuming `PlainPolicy` (writes
  say nothing that a block looks at, and no rule is met by a call without arguments:
  the dry run skips those).  While nothing else was done first the two stores know the
  same (`Alike`), so call by call the verdict is the one that was forecast.
* `ClientProofs!DraftsHold` and `AuthorsTold`: `DraftsOnlyAlert` for any documents, and
  `AuthorsAreTold` for `TidyDocuments` (every rule is named once, which lint would
  report, and no block has fields of another kind).  `BlocksOfIs`: the blocks an engine
  runs are those of the rules, through the folding function of `FlattenSeq`, again by
  least counterexample.  `AskIs`: what a decision names has fired, and only a block that
  stops refuses.  `DeadIsSilent`: a block lint calls dead fires on no call, as long as
  the store knows of mapped domains only (`OnlyMapped`), which is what has to be
  inductive.
* `ClientProofs!ClausesAreKept`: `ClausesKept` assuming `AgreedMachines` (a tool hints at
  one domain at most, and what scan takes for a writer is a write to the proxy).
  Without the second half it fails, as `scan_fix` shows; without the first the domain a
  tool is mapped to is not all that it touches.  The invariant says that every domain
  and person of what was obtained has a live mark in the store; of a bulk it follows
  (`BulkIsTold`) that the budget counts at least as many people as were obtained.
  `FixCloses` is no theorem: two combinations get rules that do not fit them.
* `ClientProofs!SessionsTyped`, `AuthoringTyped` and `ScanTyped`: the type invariants,
  without these assumptions.

The instances of `edges` satisfy the assumptions of these theorems (the one of
`scan_fix` violates `AgreedMachines`, on purpose), and TLC has found their inductive
invariants (`SessionsInv`, `AuthoringInv` with `NamedInv`, `ScanInv`) true of them.

Only model-checked: `ChecksHold`, which is about the scripts of the conformance suite
and the demo's story with the one policy each runs (what a recursive function
computes of given data); `EdgesTypeOK`, which is the type invariant of the components
that share a run (each is a theorem of its own or part of an invariant above, but for
the demo's); and `HoldAnswered` and `RowsLeave`, liveness being out of the prover's
reach.

## 5. Not modelled, and known differences without a run

Not modelled, and why:

* `entities.py`, `redact.py`: regular expressions over text, without state.  What
  `extract` finds in a result is any set of entities, and any argument may hold a
  secret.
* Connectors, mock upstreams, the skill, the command line's rendering and the
  application that mounts the HTTP routes: input and output.  The `pb2` files are
  generated.
* Texts: the wording of answers, reports, findings and of the exposition; latencies.
* `scan`'s `discover` and probes (`Setups` is what they bring in); the loading of a
  document and the model call of `ingest` (`Drafted` is what comes back); the
  operators of `deny_when` (`when` is the set of values they accept); kinds and dates
  that do not parse, which are no blocks of `Policy`.
* Verification of tokens that the built-in server did not make, which a library does.
* The checks of the conformance suite about one component alone (C05 to C10, C16):
  what they are about is that component's own module, or text.
* Two writers of one audit file (below): the chain then breaks by itself.

Met while modelling, each visible in the source:

* `RedisStore` keeps an entity as long as its set is renewed, so Redis remembers
  entities past their window; memory does not (`accumulator.py:85`).
* A block's own `window` is never used: everything is remembered for the largest
  one (`policy.py:379`).
* `entity_budget` and `self_comparison` ignore `allowed_users`, `blocked_users`,
  `since` and `until` (`policy.py:398`, `410`).
* A hold that ends because *some* approval of the user runs says that *this*
  request was granted (`proxy.py:550`), and one that times out says it is pending
  even when it was denied (`proxy.py:557`).
* Two calls into the domains of a join pass the check together, and the second is
  refused only after its fetch, where `rule-types.md:48` says that "the last
  domain's data is never fetched" (`proxy.py:432`).
* The audit row names the grant that `pre_call` used, not one that `check_args` or
  `post_call` used, where `docs/POLICY.md:59` says that "every retrieval made under
  it is audited with the approver's name" (`proxy.py:483`).
* An argument rule that only alerts ends `check_args`, so a denial by a later
  rule is not met, where `policy.py:159` says that `alert` "only records"
  (`policy.py:340`).
* The command line does not ask whether `--by` may approve (`approvals.py:216`),
  the HTTP route does; and over Redis it decides in a file no proxy reads.
* `_sync_approvals` rounds a grant up to a whole second (`proxy.py:523`).
* After a process ended in the middle of an audit line, the next row is written
  behind it on the same line: it is counted and forwarded but cannot be read
  (`audit.py:66`), where `docs/DEPLOY.md:126` says that "the graphs and the record
  agree".
* A row can be lost by a failed write when the buffer of the file is full (a disk that
  stays full, a row of more than 8 KB), while `self.prev` has moved on before the row was
  written (`audit.py:62`).  The next row then carries a hash that the file does not have,
  where `audit.py:3` says that `prev` "is the hash of the previous row", and the verifier
  reports a file that nobody touched as "TAMPERED" (`audit.py:115`).  `EmitEnds` and
  `WriteSome` have it, as a `harm` that `BlamesHarm` excuses.  Such a row is counted by
  nobody (`audit.py:67` raises before the forwarder and the metrics are told).
* Lines cut off the end of an audit file are not noticed (what is left verifies,
  as `GenuineUntilBroken` says), and the hashes have no key: `Audit` leaves them as
  they are in a changed line.
* A refusal by the tool filter, and one for an unknown upstream, leave no audit row
  (`proxy.py:389`, `451`).

Of the components modelled since:

* Two processes that decide about requests at once: the second save undoes the
  first, where `approvals.py:10` says that both "can act on it while the proxy keeps
  running".
* Integrity: a reader that meets the truncated pin file takes every tool for new; a
  save that fails half-way leaves such a file, and the next check reloads it; a second
  change after a re-pin is not audited (`proxy.py:179`); "never callable"
  (`proxy.py:277`) does not hold before a first listing, or after a scan that failed;
  `Decider` does not look at the flags.
* Rate limits: the module says "Fixed window, not sliding" (`ratelimit.py:7`), but the
  one in memory slides.
* Forwarding: nothing flushes at the end of the process; rows of tool integrity with
  `block` become "Allowed" in OCSF and INFO in OTLP; a write that fails may still
  reach the file, and is then neither forwarded nor counted (`metrics.py:3`).
* Sign-in: a save that fails during a refresh loses both tokens; a revocation that was
  not saved is undone by a restart; a state file cut short stops the next start;
  transactions and codes are never pruned.
* Packs: a file being rewritten means the defaults for one decision; `set_pack` takes
  another writer's mtime for its own.
* Adapters: a result that is not JSON, or, in the middleware, not a 200, is passed
  without being recorded or decided (`extmcp/__init__.py:127`); a hold about an answer opens no
  approval request; a refusal of a hidden tool comes before `_sync_approvals`; AuthZEN asks about requests only; the hook
  passes no arguments, writes or approvals.
* `tool_visible` ignores what a block applies to: a wall for writers hides readers too.
* The dry run ignores grants and history (`policy.py:454` says "faithful"), skips
  argument rules for calls without arguments, and takes one set of people for all reads.
* Ingest forces every action to `alert` before the tests run, so a wall or a
  `domain_block` never passes a test that expects its refusal, and is never written.
* Lint: a join of one domain is an error to lint, but the engine loads it, and a call
  into that domain raises (`policy.py:305`) or, with `require_entity_overlap: false`, is
  refused; so `LintTrue` does not count it among the rules said to be dead.  Fields that
  a block's kind does not look at are taken for domains it needs.  "Can never fire" is
  wrong for walls, blocks and flows of which only one domain is unmapped; "until is in the past" for `entity_budget` and `self_comparison`, which
  ignore dates; it takes the default action of `min_group`, `entity_budget` and
  `self_comparison` for `deny`, the engine for `alert`.
* Scan: of two servers with one key the fix keeps one; a tool with several domains is
  mapped to its first; a server that was down gets no domains; `crm-export`, reported for
  a writer beside customer records, is answered by a budget on reading them, which, like
  the rule for `layoff-list`, only alerts.
* Scan: `secrets-egress` and `pay-ranking` get rules, and these do not close them, where
  `scan.py:455` promises "the rule for exactly this combination".  A reader of secrets
  beside a sender is "a credential-exfiltration path" (`scan.py:221`), and the rule
  written for it (`scan.py:540`) is about untrusted content: a secret is read and a note
  posted, and nothing fires.  "Pay bands plus a team list is a named pay ranking"
  (`scan.py:224`), and the rule written (`scan.py:533`) is a join of three domains: pay
  and personnel of one person come together, and nothing fires.  `Completes` knows both
  paths and `FixCloses` speaks of them: given `SecretSetups` or `PaySetups` of `MCScan` as
  the machines of `scan_fix`, TLC finds each.  They are left out of `Clauses`.
* Upstreams: a `per_user` HTTP upstream without `obo` goes out with the shared headers;
  `readyz` says what was connected at the start.

## 6. Plan

1. *(done)* `Store`, `Accumulator`, `Policy`, `CodeOfConduct`, `Proxy`, and their proofs.
2. *(done)* `Approvals` and its proofs; `Audit`.
3. *(done)* `RateLimit`, `Integrity`, `Forward`, `SignIn`, `PackSwitch`, `Upstreams`.
4. *(done)* `Gateways`, and its proofs on what it shares with `Proxy` (`Holdings`).
5. *(done)* `Sessions`, `Conformance`, `Demo`, `Authoring`, `Scan`.
6. *(done)* `FlowShield` and `ApprovedGoesThrough` proved; `SignIn` and `Upstreams` proved.
7. *(done)* Proofs about `RateLimit`, `Integrity`, `PackSwitch`, `Audit` and `Forward`;
   the second conjunct of the approvals' invariant as a theorem of its own.
8. *(done)* Proofs about `Sessions`, `Authoring` and `Scan`, and about the fallback of
   the decision points.
9. Left: two writers of one audit file; `CodeOfConduct` for the sessions of a fixed
   configuration; the conformance scripts for any set of other users.
