# A verification development for Acumius

Acumius is a memory server for AI agents: a Go HTTP service over PostgreSQL and
Valkey that stores agents' memories, decides by policy who may touch them, keeps
a reputation score per agent, logs requests, and forgets an agent on demand.
This directory holds TLA+ models of its core logic, TLC configurations that check
them on small instances, and theorems with proofs for TLAPS. Paths below are
relative to the repository's root; `000002` stands for
`migrations/000002_trust_layer.up.sql`.

## 1. The system

All state is in PostgreSQL and Valkey; the process itself keeps almost none. Every
HTTP request is a goroutine that sends SQL statements or Valkey commands, one after
another, and any of them may fail, be cancelled with the request, or be interleaved
with those of other requests. Few operations use a transaction, and the ones that do
run at READ COMMITTED (`BeginTx(ctx, nil)`), so a score read in a transaction may be
out of date when it is written back.

| Component | State | Operations that change it | Talks to | What is hard | What makes it correct |
|---|---|---|---|---|---|
| Agent registry (`internal/trust/registry.go`) | table `agents`: key, score, last activity | Register; Update (called by tests only) | handlers, trust port | a DID whose agent was forgotten; an update of what was read long ago | a row is inserted once; a forgotten key never comes back |
| Reputation engine (`reputation.go`) | `agents.reputation_score`, `reputation_events` | LogEvent (transaction), FetchFactorsAndRecalculate (five queries and an UPDATE, no transaction) | registry's table | unlocked read, write-back; counts from different moments | score in 0..1000 and made of committed changes |
| Attestations (`attestation.go`) | `attestations` | Save (transaction) | `agents` | same | a row exactly when a bonus was given |
| Peer verification (`verification.go`) | `verifications` | SelectVerifier + CreateVerification, SubmitVerificationResult (transaction) | `agents`, `reputation_events` | check-then-act on the status; choice and INSERT apart | a result and its effect happen together |
| Policy evaluator (`internal/policy/evaluator.go`) | none | Evaluate, CheckPII | cache, store | precedence over nested loops | deny overrides; strictest PII action |
| Policy parser (`internal/policy/parser.go`) | none | none (called by tests only) | - | two readers of the same words | what it accepts, the evaluator heeds |
| Policy store, cache (`postgres_store.go`, `cache.go`) | table `policies`; a Valkey entry per agent with a TTL | SavePolicy, Forget's DELETE; SetPolicies | evaluator, handlers | stale entries, late fills, errors | bounded staleness, fail closed |
| Memory router, trust gate (`internal/memory/router.go`, `trust/port_adapter.go`) | none | StoreWithVerification, Update, Delete, Expire; Search | both stores, trust | separate checks before the write, event after it; totals of two kinds and moments | a forgotten agent has to earn its way back; a small total means a complete answer |
| Persistent store (`memory/postgres_store.go`) | table `memories`, soft deletion | Store, Update, Delete, Expire | GDPR service | writers waiting for rows that Forget deletes | deleted rows are final |
| Working-memory store (`memory/valkey_store.go`) | per memory a data key, an index key, a member of a sorted set | Store, Update, Delete; expiry; Search | router | four and three commands, each may fail alone; SCAN among writers | what was stored last is found; a delete is final; bounded growth; a search that comes short overlooked nothing |
| Hybrid search (`memory/search.go`) | none | read only | `memories` | two queries at two moments, slice arithmetic, ties | the fused order respects both rankings; nothing invented or lost; the page asked for |
| GDPR service (`internal/gdpr/gdpr.go`) | tables of three components | Forget (transaction), Rectify | memories, policies, agents | races with every writer above | all or nothing, final |
| Audit logger (`internal/audit/logger.go`) | `audit_log`, an error channel | Log (a goroutine per event); Query | middleware, audit handler | timeouts, a full channel, shutdown; paging through a log that grows | rows tell the truth, goroutines end, no page skips a row |
| HTTP middleware, routes (`internal/api`) | none | per request | evaluator, logger | order of the wrappers | no handler without an allow |
| Server lifecycle (`cmd/acumius/main.go`) | the process | signal, shutdown | all requests | handlers that never return | a signal ends the process |
| MCP server, storage, configuration, health, signatures, governance UI | - | read only, pure, set-up or a mock-up | | | see section 7 |

`PROJECT.json` lists the components with their sources and every hazard with the
line where it bites.

## 2. The modules

| Module | Models | Extends |
|---|---|---|
| `Trust` | registry, LogEvent, Save, verifications, Forget's update of `agents` | |
| `TrustProperties` | its properties, its inductive invariant, the refinement mapping | `Trust`, instances `ReputationLedger` |
| `ReputationLedger` | abstract: an account per agent, clamped credits, revocation | |
| `TrustProofs` | the theorems about `Trust` | `TrustProperties` |
| `Recalculation` | FetchFactorsAndRecalculate and AgentRegistry.Update beside the transactions of `Trust` | `Trust` |
| `PolicyEvaluator` | the loops of Evaluate and CheckPII, against their meaning; what the parser accepts | |
| `PolicyCache` | the policy table, the Valkey cache and decisions in progress | |
| `Memories` | the router's store path with the trust gate, what else changes a score, the persistent store, Rectify, and Forget over its three tables | |
| `WorkingMemory` | the Valkey store, command by command | |
| `Requests` | middleware, audit goroutines, shutdown | |
| `AuditQuery` | a client that pages through the audit log, one request per page | `Requests` |
| `HybridSearch` | the two queries of a search, rank fusion, filters, the page | |
| `RouterSearch` | the router's search over both stores, SCAN and GET of working memories | `HybridSearch` |
| `PolicyEvaluatorProofs`, `PolicyCacheProofs`, `MemoriesProofs`, `WorkingMemoryProofs` | the theorems about the module of that name | that module |
| `RequestsProofs` | the theorems about `Requests` and `AuditQuery` | `AuditQuery` |
| `SearchProofs` | the theorems about both searches | `RouterSearch` |
| `RecalculationProofs` | the theorem about `Recalculation` | `TrustProofs`, `Recalculation` |
| `MC*` | constants, symmetry and the terminal step for TLC | the module of the same name; `MCTrust` extends `TrustProperties`, `MCRequests` `AuditQuery`, `MCHybridSearch` `RouterSearch` |

**Transactions (`Trust`).** A transaction in progress is a private record `tx[w]` of
the worker `w` that runs it: its operation, where it is (`pc`), the agent whose score
it changes, and what it has read. Tables change in the commit actions only. An UPDATE
of a row that another open transaction has updated waits (`HoldsAgent`,
`HoldsVerification`), and a SELECT never does. `SubmitVerificationResult` is
`FetchVerification` (unlocked SELECT of the status), `ClaimVerification` (UPDATE of the
status, which does not repeat the test), `ReadScore`, `UpdateAgent`, then
`CommitApproval` or `CommitRejection`. A worker can `Abort` anywhere: a failed
statement, a cancelled request, a crash. `log` is a history variable: what each commit
did to each score, how long the agent's history was when the score was read, and whether a
verification had a result when its row was read (`first`).

**Recalculation.** `Count` is one `SELECT COUNT(*)` at a time; between two of them any
transaction of `Trust` may commit (`TrustStep`) and days may pass. The last statement
writes the score without a transaction. `UpdateRow` is `AgentRegistry.Update`: its caller
passes the row in, so it writes any of the scores `Written`, and any activity. `fewest` and
`most` remember between which numbers the completed verifications have moved since a
recalculation began.

**Policies.** `PolicyEvaluator` walks the loops with the code's own indices and early
returns; the properties compare the answer with a set-wise definition. `LoadFails` is the error
of `getPolicies`, with the safe answer of either call. `ValidMemoryRule` and
`ValidPIIRule` are the parser's tests of a rule. CreatePolicy does not use them, so the lists
also hold rules with empty names and unknown effects. `PolicyCache`
abstracts a policy to its effect on the request at hand, and follows the calls
`getPolicies` makes: cache, table on a miss or an error, best-effort fill. An empty list
is cached as JSON `null`, which reads back as a miss; the model keeps that.

**Memories.** `StoreWithVerification` is one action per query it sends: the activity
check, the signature check, the reputation check, the write, and LogEvent in its two
halves (`RecordEvent`, `WriteScore`). The other writers of scores are there by what they do to
one: `ReadScore` begins any LogEvent, attestation or verification result, whose change is one of
`Changes`, and `OverwriteScore` is a recalculation or an `AgentRegistry.Update`. Forget is one transaction over three tables: `ForgetMemories` (the UPDATE that locks
the agent's live rows), `ForgetPolicies` (the DELETE, for which a racing `SavePolicy` waits) and
`RevokeAgent` (the UPDATE of `agents` and the commit), with `RollBack` in between. `Update`, `Rectify`, `Delete`
and `Expire` are single statements that wait for locked rows and re-evaluate their WHERE clause. `TrustWired` says whether
the router has a trust port; `api/router.go:52` builds it with none, other callers
and tests with one.

**Working memory.** One action per command. A failing command either took effect at
once or never does; a lost answer counts as failing after the effect. Data and index
expire by ticks.

**Requests.** A request runs through the middlewares of its route; its audit event is a
goroutine of its own with a state in `event`. The server's states are those of `main`.
`AuditQuery` adds a timestamp per row and a client whose pages are requests like the others,
`CountRows` and `QueryRows` being the two statements of Query; the steps of `Requests` are
used as they are, and an INSERT gets a timestamp. That one is older than the moment the row
appears (PostgreSQL's `now()` is the start of the statement), so rows come up in any order of
timestamps, ties included. The rows are those the client's filter matches.

**Hybrid search.** `found` tells which of the two queries finds each memory at the moment; a
query's rows are any listing of what it finds, cut at three times the limit, since neither
similarity nor text rank is modelled. Scores are exact fractions, ties fall in any order (the
ids come out of a Go map and `sort.Slice` is not stable), and filters keep any subset.
`Write` is any statement of another request on `memories` between the two queries. Outside a
search `found` is empty: a search begins with a state of the table of its own choosing.
`RouterSearch` runs this search and then the one of working memories. There a key is abstracted
to what the loop over it does at the moment: it accepts it, passes it over, or does not find it
any more. Keys that the MATCH pattern of the SCAN does not let through are not found either: the
namespace goes into the pattern unescaped (`valkey_store.go:113-116`), so for one with glob
characters those may be keys the loop would have accepted. `ScanBatch` is one SCAN with Valkey's guarantee, `GetKey` one GET, and `Change` a key
stored, deleted or expired by others in between.

External code is modelled from its use: PostgreSQL's READ COMMITTED rules for rows,
Valkey's atomic commands, TTLs and eviction, `http.Server.Shutdown`.

## 3. Runs

| Run | Question | Bounds and why they suffice |
|---|---|---|
| `trust_concurrent` | Do score, provenance, atomicity, freedom from deadlock and the stale ledger survive any interleaving and abort? Which changes can be lost, and which results repeated? | 2 agents (verifier and target), 2 workers (every race in the code is between two transactions), 1 verification, 4 requests (create a verification, submit twice, and one more writer); changes +490 and -450 put 500 within a bonus of 1000 and a penalty of 0 |
| `trust_double_result` | *refuted*: is a verification's result applied once? | as `trust_concurrent`, one kind of event |
| `recalculation` | What does a score saved from counts of different moments mean? | 1 recalculation beside 2 workers that commit between its queries and `UpdateRow`, 3 requests and updates in all: a verification and two results of it, so that the count of completed ones rises and falls; 1 day |
| `policy_evaluator` | Do the loops compute deny-overrides and strictest-action for every list, and do they heed whatever the parser accepts? | every list of at most 2 policies with at most 2 rules, out of rules that match exactly, by wildcard, not at all, with an empty list of types, or with an unknown effect or PII action; or an error instead of a list |
| `policy_first_match` | *refuted*: does the first rule that matches decide? | as `policy_evaluator` |
| `policy_cache` | How stale may a decision be, is the default deny ever stale, do errors deny, does the cache agree with the table in the end? | 1 agent (entries of different agents do not meet), 2 policy ids, 2 evaluators (a late fill over a newer entry), TTL 2, fills of at most 1 tick, 2 changes; without symmetry, because of the liveness property |
| `policy_immediate` | *refuted*: do policy changes take effect immediately? | 1 agent |
| `memories` | Do deletions stay, is Forget atomic over memories and policies, when can a forgotten agent store? | 2 agents, 2 ids, a policy per agent, 2 workers, 4 requests (Forget, two changes, a store), scores 50 (below the gate) and 998 (a bonus below 1000), changes +50, of which two make the 100 of the gate, and -100, and 100 written over a score |
| `memories_forget` | *refuted*: does Forget reach all data of an agent? | 1 agent |
| `working_memory` | Are the latest store retrievable, deletes final and the sorted set bounded, with failures? | 2 ids, 2 places, 2 workers, 3 operations (store, move, delete), 1 failed command, lifetimes over and not, a trim to 1 (1000 in the code; the rank arithmetic is the same) |
| `requests` | Does the log tell the truth, does the gate hold, do shutdown and audit goroutines end, does paging skip a row? | 2 requests, an error channel for 1 (100 in the code): the second error finds it full. 2 rows to begin with and limits 1, 2 and none asked for, so that a client takes two pages, and the event of the first, or of a request beside it, comes in between |
| `hybrid_search` | Does the fused order respect both rankings, is anything invented or lost, is the page right, what does a search over both stores guarantee? | 4 memories and limits 1 and 2, so that a query has one row more than the 3 it returns, or all; offsets at the start, inside and beyond the end; 1 write between the queries. 2 keys and 2 changes: one key goes, or stops matching, while the other comes |

The bounds are constants named `Max...` in the modules, and appear in guards only.
Each run has a terminal step in its MC module (`Finished`, `Ended`) for the states in
which everything asked for is done, so that deadlock is checked everywhere.

### Properties

* **`ScoreInRange`, `ScoreHasProvenance`, `RecordsMatchEffects`, `NoCircularWait`,
  `ForgottenForGood`** are what the trust transactions guarantee at READ COMMITTED. The range is
  not obvious: three of four paths clamp on one side only. `RecordsMatchEffects` counts: rows of
  `attestations` and `reputation_events` against the score changes that came with them, and
  every closed verification against an effect. **`TrustInvariant`** is the invariant of the
  proofs (section 5).
* **`RepeatedResultsOverlap`**: two results for one verification may both be applied
  (`trust_double_result`), but only if each was under way before the first was committed; the
  status check refuses whatever comes later.
* **`ImplementsStaleLedger`** says what the score changes are together: a credit may start
  from any balance the account has had, and nothing else can happen.
  **`ExactUnlessOvertaken`** says when it does not start from the current one: only the commit of
  a transaction that another one overtook, since it read the score, is no step of the exact ledger.
* **`SavedScoreIsBracketed`**: a recalculated score lies between two scores computed from the facts
  at its start and at its end, taken at their worst and best. For the completed verifications,
  which can also fall when results overlap, these are the fewest and the most there were.
* **`EvaluateIsDenyOverrides`, `CheckPIIIsStrictest`** relate nested loops to their
  meaning. **`WhatParsesIsHeeded`** relates parser and evaluator: in a policy the parser accepts,
  no rule that matches is passed over. All three hold for the answer to an error, too.
* **`StalenessIsBounded`**: one TTL plus one fill. **`DefaultDenyIsFresh`**: "no policies" is
  never answered from the cache. **`FailClosed`, `CacheConverges`** complete the picture.
* **`DeletedStaysDeleted`, `NothingIsHalfForgotten`, `LateStoresAreEarned`** are about writers
  racing Forget, about its failing in the middle, and about the agent it leaves. What keeps a
  forgotten agent from storing is not the activity check (its row is still there) but its score
  of 0, and no writer of scores asks whether an agent is revoked: an attestation with any
  signature that is not empty adds 25, the approval of a verification that was pending 50, a store
  that was under way 5. The property says that this takes its 100 points all the same: a request
  that began after the revocation is past the gate only once the agent has earned them since,
  or when a score was written that is not the present one and a change: by a transaction that had
  read the score before Forget emptied it, or by a recalculation or an Update.
* **`DeleteIsFinal`, `LatestIsBounded`, `SettledIsRetrievable`** hold although no sequence
  of commands is atomic. `SettledIsRetrievable` rests on the index being written after
  the data with the same TTL.
* **`AuditTellsTheOutcome`, `OnlyAllowedRequestsRun`, `SignalStops`,
  `AuditGoroutinesEnd`** are about a request, its audit row and the end of the process.
  **`PagingSkipsNothing`**: although the log grows under a client that pages by offset, by the
  client's own pages at least, no row that was there when it began is lost between two pages,
  rows of one timestamp excepted; it may be given rows twice.
* **`AgreementIsKept`, `BothBeatOne`, `SearchIsHonest`, `PageIsTheWindow`**: a memory ahead in
  one ranking and not behind in the other comes first, being found twice beats being first
  once (this is what k = 60 decides, for ranks below 62, which a limit up to 20 never exceeds),
  two queries at two moments still return nothing that was never findable and lose nothing that always was, and
  an offset beyond the total gives an empty page. Between two pages only ties may move.
* **`WorkingSearchIsHonest`**: a search of working memories that comes short of its limit has
  missed only what was not there throughout or what Valkey failed to return.
  **`SmallTotalsAreComplete`**: the total of a search over both stores adds a count of what was
  found beyond the page to a count of what was returned, and still a total below the limit says
  that nothing was left out. That holds for searches from offset 0 without filters: with
  filters the candidates have been cut before, and with an offset the total says less.

### Fairness

* `policy_cache`: weak fairness of `Tick` and of each evaluator. Time passes, and a
  goroutine the scheduler runs ends its call or gets an error. That a fill takes at most
  `MaxFill` ticks stands for the request's own deadlines.
* `requests`: weak fairness of the middleware's steps, of each audit goroutine (its INSERT
  has a timeout of five seconds, `logger.go:53`) and of the shutdown (its context has a
  timeout, `main.go:68`); `QueryFair` of `AuditQuery` is the same for the extended steps. A
  handler is *not* assumed to return, nor a signal to come; the queries of a page have no
  timeout of their own and are not assumed to return either.

## 4. Where the code and its words differ

Refuted by runs:

* `trust_double_result`: two results submitted at once for one verification both pass the
  status check of `verification.go:95` and both change a score.
* `policy_first_match`: `docs/policy_spec.md:99-100` says rules are evaluated top-down and the
  first that matches wins; Evaluate lets any later deny override an allow, which
  `EvaluateIsDenyOverrides` states.
* `policy_immediate`: `docs/policy_spec.md:198` promises immediate effect by invalidation;
  nothing calls `Invalidate`.
* `memories_forget`: `gdpr.go:20` speaks of all memories; the working ones stay in Valkey.

Visible in the models, with a reading of the code rather than a run behind them:

* `attestation.go:75` promises +25; a concurrent score change can swallow the bonus, which
  `ExactUnlessOvertaken` allows.
* `attestation.go:76`, `verification.go:119`, `router.go:88`: a forgotten agent earns reputation
  like any other, so four attestations let it store again; `LateStoresAreEarned` states it.
* `docs/trust_spec.md:68-69` gives +20 for a verification that passed and -30 for one that failed;
  `verification.go:125` pays the verifier 50 and `verification.go:139` costs the target 100.
* `verification.go:122` and `138` ignore an error of the SELECT and go on to the commit. That the
  result is then not recorded without its effect (`Abort` in `Trust`) is PostgreSQL's doing, which
  answers the COMMIT of a failed transaction with a rollback, and lib/pq's, which reports it.
* `docs/trust_spec.md:138`: a verifier whose score falls, or that is forgotten, between
  `SelectVerifier` and the INSERT is assigned all the same.
* `memory/trust_port.go:18` says a revoked agent is not active; `IsAgentActive` asks only
  for a row.
* `valkey_store.go:178`: an Update that changes namespace or agent leaves the old data key
  behind, which Delete does not remove and Search still finds; hence the condition on
  `homes` in `DeleteIsFinal`.
* `memory/search.go:46`: a search for types that need no embedding sends the semantic query
  with an empty vector, which PostgreSQL refuses, so it always fails (`SemanticSearch` has
  `embeds` in its guard); `search.go:125`: metadata is never decoded, so a filter by tag, least
  confidence or attestation drops everything.
* `memory/search.go:204`: memories of equal score change places between two requests, so
  consecutive pages may repeat one and skip another; `PageIsTheWindow` allows just that.
* `memory/search.go:57`: filters come after each query has been cut at three times the limit, so
  a filtered search can be empty although rows beyond the cut would pass.
* `memory/search.go:101`: a search that names no namespace looks for persistent memories in the
  namespace `*`, of which there are none as a rule, and for working memories in all.
* `memory/valkey_store.go:112`: the search of working memories ignores the offset, the types and
  the agent, returns a memory twice when SCAN returns its key twice, and skips a GET that fails
  without a word; `valkey_store.go:129` takes a key for an index when its namespace or agent
  contains `:index:` or its namespace is `index`.
* `memory/postgres_store.go:84`: Retrieve does not read the embedding and Update writes the one it
  is given, so a memory read, changed and written back is not found by meaning any more.
* `api/memory_handlers.go:26`: the TTL of a store request is decoded and ignored.
* `audit/logger.go:132`: the count and the rows of a page are two statements, so the total of a
  page may be smaller than what a client has been given by then: it is no criterion to stop at.
  A client that asks for one row at a time never advances, since each page adds its own event
  above; the property says only that nothing is skipped.
* `migrations/000003_memory_engine.up.sql:93`: `audit_log` has partitions for May and June 2026
  and no default one; outside them every INSERT fails, which `InsertFails` of `Requests` covers.
* `gdpr.go:57`: Export does not ask for `rows.Err()`, so that it may be truncated, and does not
  contain working memories.
* `api/policy_handlers.go:37`: CreatePolicy stores policies the parser would refuse, and the
  parser is called by tests only. Names are compared without regard to case and effects with: a
  rule with the effect `Deny` denies nothing.
* `reputation.go:158`, `registry.go:81`: a recalculation and an Update know nothing of
  revocation; the first gives a forgotten agent some 700 points. Both are called by tests only.
* `docs/architecture.md:326` speaks of a durable audit queue; an event is a goroutine that
  an orderly shutdown does not wait for, and a failed INSERT is dropped.

## 5. Proofs

Every invariant and action property the passing runs check, and the refinement, are theorems
for every value of the constants: any number of agents, memories, workers, requests, keys and
rules, any limits, lifetimes and bounds. The three liveness properties are not (see the end).
The assumptions are the `ASSUME`s of the modules, which say what kind of thing a constant is;
the ones with content are that `LatestCap` and the TTL of the cache are positive, limits are
positive (`api/memory_handlers.go:70` sets a default) and a table of memories is finite. No
theorem has a hypothesis beyond these.

**`TrustProofs`.** `TypeCorrect`, `ScoresStayInRange`, `ScoresHaveProvenance`,
`TrustImplementsStaleLedger`, `OnlyOvertakenChangesAreLost`, `NoDeadlock`, `ForgottenKeysStayGone`,
`RecordsAndEffectsAgree`, `LateResultsAreRefused`.
`ScoreInRange` is not inductive: a bonus is clamped from above only, so what a transaction
has *read* must be in range, too, and belong to a registered agent. `RangeInvariant` adds
that (`TransactionsAreSound`) and what the foreign keys give (`VerificationsAreSound`,
without which a result could be submitted for an agent that has no row). Provenance needs,
on top, that a value read is an entry of that agent's history and that the history exists
exactly for registered agents (`HistoryInvariant`). The two are proved one after the other,
the second from the first: one lemma per action group says that it preserves the invariant,
with the commits reduced to `Publish`, the common part of all of them. `TrustInvariant`,
their conjunction, is checked by TLC in `trust_concurrent` (`TrustInvariantHolds`). For the
refinement, a commit is a `Credit` from the balance that was read, or a `Revoke`, `Register`
is an `Open`, and every other action leaves the mapped variables alone. If nothing was committed
since the read, the balance that was read is the current one. `NoDeadlock` needs no
invariant: every transaction takes its locks in one order, so one that waits for an agent's row
may hold a verification's, never the other way round, and the predicate `Waits` says just that.
`RecordsInvariant` says which kind of history entry belongs to which record; the counts on both sides then grow by the same step.

For `LateResultsAreRefused`: while a verification is pending no result of it is in any history,
so whoever reads it then is among the first.

**`RecalculationProofs`.** `SavedScoresAreBracketed` is about any number of recalculations beside
any number of workers. `RecalculationsAreSound` says that each count read so far lies between its
values at the start and at present, because attestations and events are only added, and that of completed
verifications between the fewest and the most there have been; the formula rises with each bonus
and falls with each penalty.

**`PolicyEvaluatorProofs`.** `EvaluateDecides`, `CheckPIIDecides`, `ParsedRulesAreHeeded`, for
lists of any length. `LoopInvariant` is a loop invariant in the usual sense: the local variable is
the answer to the rules before the indices (`SoFar`), and none of those was one that ends the loop.

**`PolicyCacheProofs`.** `StalenessStaysBounded`, `DefaultDenyStaysFresh`, `ErrorsDeny`, for any
TTL and any fill time. `CacheInvariant` trades lateness for lifetime: an entry is as late as its
fill was allowed to be, plus the ticks it has lived (`SoundEntry`), and a request between its
table read and its fill is as late as it is old (`SoundDecision`).

**`MemoriesProofs`.** `MemoriesTypeCorrect`, `ForgetIsAtomic`, `DeletedRowsStayDeleted`,
`LateStoresHaveBeenEarned`. What makes Forget's statements one for all others are its locks: locked
rows are live, the agent's and nobody else's (`LocksAreSound` in `ForgetInvariant`). For the last
theorem, unless the score of a forgotten agent was written back or replaced, it is at most what the
agent has earned since, and so is every value of it that a transaction has read after the
revocation (`ScoresAreEarned`).

**`WorkingMemoryProofs`.** `WorkingMemoryTypeCorrect`, `DeletedMemoriesAreGone`,
`StoredMemoriesAreFound`, `LatestStaysBounded`. All rest on `MemoryInvariant` (what an operation
holds, and that data are only where their id has lived). `StoreInvariant` follows a store from its
first command to its last (`OnItsWay`), and says that data and index run out together;
`QuietInvariant` and `DeleteInvariant` say that a deletion that was alone has left nothing. For
the sorted set, members have moments of their own (`MomentsDiffer`), hence a trim leaves at most
the cap - counted by an injection from the members that stay into their ranks - and each member
beyond it has a Store that is yet to trim, or failed to (`TrimsAreFew`).

**`RequestsProofs`.** `RequestsTypeCorrect`, `AuditIsTruthful`, `GateHolds` from
`RequestsInvariant`, the last clause of which ties an event to the request that is over.
`QueryKeepsRequests` carries them over to the client that pages, whose steps are steps of
`Requests` or stutter, and `PagingLosesNothing` counts: a row that is still owed has more rows
above it than the client has been given, because rows only come up and keep their timestamps
(`PagingInvariant`).

**`SearchProofs`**, all under `RouterSpec`. `SearchTypeCorrect`, `FusionKeepsAgreement`,
`BothQueriesBeatOne`, `SearchesAreHonest`, `PagesAreTheWindow`, `WorkingSearchesAreHonest`,
`SmallTotalsMissNothing`. `SearchInvariant` keeps the rankings within what was findable (`Watched`
ties the history fields to the table while a query is still to be sent) and complete as far as
they go. The rest is about pure operators, for rankings of any length: the fusions of two rankings
are the orderings of their union by falling score (`FusionsAreRankings`), fractions compare as the
ranks do (`AheadIsHigher`; `BothAreHigher`: at rank 61 twice, 2/121 still beats 1/61, at rank 62
it is a tie), filtering keeps order and members
(`FiltersKeepOrder`), a page is a window (`PagesAreWindows`), and a place in a list by falling
score lies between the number of better ones and of those no worse (`PositionsFit`). `SoundScan`
says that what was a hit throughout is among the hits, was lost to a failing GET, waits in the
batch, or is still owed by SCAN.

Left to TLC: `CacheConverges`, `SignalStops` and `AuditGoroutinesEnd`, which hold under fairness;
the prover handles neither fairness nor ENABLED. That the constants of a run satisfy the assumptions of
the theorems is checked by TLC, which evaluates each `ASSUME`. What a recursive definition computes
cannot be proved either, and no module declares one; the one operator of the library that is
recursive and that the code called for, `SelectSeq`, is replaced by `Filter`, which says by position
what applyFilters keeps.

## 6. Plan

Order of work, the most important first; what is left is in the last item.

1. `Trust`, its properties, the ledger, its four theorems.
2. `Recalculation`.
3. `PolicyEvaluator`, `PolicyCache`.
4. `Memories`, `WorkingMemory`.
5. `Requests`.
6. `HybridSearch`.
7. `RouterSearch`: the SCAN of working memories and the router's concatenation of both backends.
8. Forget as one transaction over its three tables, in `Memories`; `Trust` and `PolicyCache` model
   the statement on their own table.
9. `AuditQuery`; the parser's rules in `PolicyEvaluator`; `AgentRegistry.Update` in `Recalculation`.
10. Proofs of every safety and action property and the refinement (section 5): done.
11. Left: the safety half of the liveness properties (no entry filled before a change outlives it
    by more than a TTL and a fill; an audit goroutine can always take its next step), and theorems
    that tell apart what one request sees from what two consecutive pages see.

## 7. What is not modelled

* Reads of a single statement that only return rows: Get, List, Retrieve of the persistent store,
  ListByNamespace, Export, the MCP server's `memory_retrieve` (it holds a policy evaluator and
  does not ask it).
* Similarity and text rank, which decide the order of a query's rows; what a filter keeps.
* Names of Valkey's keys: `WorkingMemory` tells them apart by place and id, `RouterSearch` by what
  the loop does with them.
* RedactPII and `gdpr.Redact` do nothing in the code.
* Signatures and DIDs: pure cryptography; a check's outcome is a choice in `Memories`.
* Decoding a policy from JSON or YAML, and the parser's tests of delegation and audit rules, which
  nothing reads afterwards.
* Configuration, connection set-up, health checks, indexes and partitions.
* What a caller of `AgentRegistry.Update` does with the row before it writes it back: `UpdateRow`
  writes one of a given set of scores.
* The transactions of attestations and results in `Memories`: there they are a read of a score
  and a write, `Trust` has the rest.
* That the embeddings have an IVFFlat index (`000003`, line 29), which finds the nearest rows only
  approximately: a row it misses is, for this search, one that the semantic query does not find.
* That the REST search passes no offset: `HybridSearch` takes any, as `SearchQuery` has one.
* Glob characters in a namespace (`valkey_store.go:113-116`, section 2).
* That the members of the sorted set have scores of whole seconds, which may tie, and keep them when
  a memory is updated; the trim counts members, whatever their scores.
* A client that changes its filter from one page of the audit log to the next.
* A handler that panics (the request then bypasses both middlewares' endings).
* The governance UI: a mock-up over sample data.
