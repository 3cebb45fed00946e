---------------------------- MODULE PolicyCache ----------------------------
(***************************************************************************)
(* The policy table in PostgreSQL, its copy in Valkey and the requests     *)
(* that are decided from them (internal/policy/evaluator.go:109-130,       *)
(* cache.go, postgres_store.go, api/policy_handlers.go).                   *)
(*                                                                         *)
(* A decision looks into the cache, loads from the table on a miss, writes *)
(* what it loaded to the cache and evaluates; nothing links these calls,   *)
(* and nothing in the program removes a cache entry: an entry only         *)
(* expires.  What the rules of a policy say about the request at hand is   *)
(* abstracted to the policy's effect; PolicyEvaluator shows that the order *)
(* of the rules does not matter.                                           *)
(*                                                                         *)
(* Time is counted in ticks.  "late" is a history counter: for how many    *)
(* ticks a copy of the table has differed from it.                         *)
(***************************************************************************)
EXTENDS Integers, FiniteSets

CONSTANTS
  Agents,      \* agents, all of them registered
  Ids,         \* policy ids, chosen by the client
  Evaluators,  \* the request goroutines that need a decision
  TTL,         \* ticks a cache entry lives (5 minutes)
  MaxFill,     \* bound: ticks between the table read and the cache write
  MaxChanges   \* bound: changes of the table

Effects == {"allow", "deny", "silent"}

ASSUME PolicyCacheAssumption ==
  TTL \in Nat \ {0} /\ MaxFill \in Nat /\ MaxChanges \in Nat

VARIABLES
  table,    \* the policies table: by id, [agent, effect] or NoRow
  cache,    \* Valkey: by agent, [copy, ttl, late] or NoEntry
  eval,     \* the requests being decided
  changes   \* how many times the table was changed

vars == <<table, cache, eval, changes>>

NoRow == [agent |-> "none", effect |-> "none"]
NoEntry == [copy |-> {}, ttl |-> 0, late |-> 0]

\* "seen" is a history field: the policies the agent has had since the request
\* began.  "source" tells where the copy came from.
Resting == [pc |-> "idle", agent |-> "none", copy |-> {}, late |-> 0, age |-> 0,
            source |-> "none", allowed |-> FALSE, seen |-> {}]

\* SELECT ... WHERE agent_did = $1, as a set of rows.
PoliciesOf(tab, a) ==
  {[id |-> i, effect |-> tab[i].effect] : i \in {j \in Ids : tab[j].agent = a}}

Decide(copy) ==
  LET effects == {row.effect : row \in copy} IN
  "allow" \in effects /\ "deny" \notin effects

Init ==
  /\ table = [i \in Ids |-> NoRow]
  /\ cache = [a \in Agents |-> NoEntry]
  /\ eval = [e \in Evaluators |-> Resting]
  /\ changes = 0

-----------------------------------------------------------------------------
(* Changes of the table.                                                   *)

\* The table becomes "tab"; every request under way has seen what it holds.
ChangeTable(tab) ==
  /\ changes < MaxChanges
  /\ changes' = changes + 1
  /\ table' = tab
  /\ eval' = [e \in Evaluators |->
       IF eval[e] = Resting THEN Resting
       ELSE [eval[e] EXCEPT !.seen = @ \cup {PoliciesOf(tab, eval[e].agent)}]]
  /\ UNCHANGED cache

\* CreatePolicy and SavePolicy: an INSERT that, when the id exists, replaces the
\* content and leaves agent_did alone.  The cache is not told.
SavePolicy(i, a, effect) ==
  LET owner == IF table[i] = NoRow THEN a ELSE table[i].agent IN
  ChangeTable([table EXCEPT ![i] = [agent |-> owner, effect |-> effect]])

\* gdpr.Forget: DELETE FROM policies WHERE agent_did = $1.
ForgetPolicies(a) ==
  /\ PoliciesOf(table, a) # {}
  /\ ChangeTable([i \in Ids |-> IF table[i].agent = a THEN NoRow ELSE table[i]])

-----------------------------------------------------------------------------
(* A decision.                                                             *)

Start(e, a) ==
  /\ eval[e] = Resting
  /\ eval' = [eval EXCEPT ![e] = [Resting EXCEPT !.pc = "get", !.agent = a,
                                                 !.seen = {PoliciesOf(table, a)}]]
  /\ UNCHANGED <<table, cache, changes>>

Answer(e, copy, late, source, allowed) ==
  eval' = [eval EXCEPT ![e] = [@ EXCEPT !.pc = "done", !.copy = copy, !.late = late,
                                        !.age = 0, !.source = source, !.allowed = allowed]]

\* Faulty variant: an empty list is cached as "[]" and is a hit.
CacheHitOnEmpty(e) ==
  LET entry == cache[eval[e].agent] IN
  /\ eval[e].pc = "get"
  /\ entry # NoEntry
  /\ Answer(e, entry.copy, entry.late, "cache", Decide(entry.copy))
  /\ UNCHANGED <<table, cache, changes>>

\* Faulty variant: a hit renews the entry (GETEX).
CacheHitRenews(e) ==
  LET entry == cache[eval[e].agent] IN
  /\ eval[e].pc = "get"
  /\ entry.copy # {}
  /\ Answer(e, entry.copy, entry.late, "cache", Decide(entry.copy))
  /\ cache' = [cache EXCEPT ![eval[e].agent].ttl = TTL]
  /\ UNCHANGED <<table, changes>>

\* A hit is a live entry that is not nil.  An empty list was marshalled from a
\* nil slice as "null" and comes back as nil, which reads as a miss.
CacheHit(e) ==
  LET entry == cache[eval[e].agent] IN
  /\ eval[e].pc = "get"
  /\ entry.copy # {}
  /\ Answer(e, entry.copy, entry.late, "cache", Decide(entry.copy))
  /\ UNCHANGED <<table, cache, changes>>

\* A miss, or an error of Valkey, which is treated alike.
CacheMiss(e) ==
  /\ eval[e].pc = "get"
  /\ eval' = [eval EXCEPT ![e].pc = "load"]
  /\ UNCHANGED <<table, cache, changes>>

Load(e) ==
  /\ eval[e].pc = "load"
  /\ eval' = [eval EXCEPT ![e].pc = "fill",
                          ![e].copy = PoliciesOf(table, eval[e].agent)]
  /\ UNCHANGED <<table, cache, changes>>

\* Faulty variant: the error is answered with an allow.
LoadFailsOpen(e) ==
  /\ eval[e].pc = "load"
  /\ Answer(e, {}, 0, "error", TRUE)
  /\ UNCHANGED <<table, cache, changes>>

\* The store fails: the answer is no, and the cache is left alone.
LoadFails(e) ==
  /\ eval[e].pc = "load"
  /\ Answer(e, {}, 0, "error", FALSE)
  /\ UNCHANGED <<table, cache, changes>>

\* SET with EX: the entry, whatever it was, is replaced and lives a full TTL.
Fill(e) ==
  /\ eval[e].pc = "fill"
  /\ cache' = [cache EXCEPT ![eval[e].agent] =
                 [copy |-> eval[e].copy, ttl |-> TTL, late |-> eval[e].late]]
  /\ Answer(e, eval[e].copy, eval[e].late, "table", Decide(eval[e].copy))
  /\ UNCHANGED <<table, changes>>

\* The error of SET is ignored.
FillFails(e) ==
  /\ eval[e].pc = "fill"
  /\ Answer(e, eval[e].copy, eval[e].late, "table", Decide(eval[e].copy))
  /\ UNCHANGED <<table, cache, changes>>

Return(e) ==
  /\ eval[e].pc = "done"
  /\ eval' = [eval EXCEPT ![e] = Resting]
  /\ UNCHANGED <<table, cache, changes>>

-----------------------------------------------------------------------------
(* Time.                                                                   *)

Later(late, copy, a) == IF copy = PoliciesOf(table, a) THEN 0 ELSE late + 1

\* Faulty variant: SET without EX, the entry never expires.
AgedForever(entry, a) == entry

Aged(entry, a) ==
  IF entry.ttl =< 1 THEN NoEntry
  ELSE [entry EXCEPT !.ttl = @ - 1, !.late = Later(@, entry.copy, a)]

Tick ==
  /\ \A e \in Evaluators : eval[e].pc = "fill" => eval[e].age < MaxFill
  /\ cache' = [a \in Agents |-> Aged(cache[a], a)]
  /\ eval' = [e \in Evaluators |->
       IF eval[e].pc = "fill"
       THEN [eval[e] EXCEPT !.age = @ + 1,
                            !.late = Later(@, eval[e].copy, eval[e].agent)]
       ELSE eval[e]]
  /\ UNCHANGED <<table, changes>>

\* Valkey drops an entry, or restarts empty.
Evict(a) ==
  /\ cache[a] # NoEntry
  /\ cache' = [cache EXCEPT ![a] = NoEntry]
  /\ UNCHANGED <<table, eval, changes>>

-----------------------------------------------------------------------------

Step(e) ==
  CacheHit(e) \/ CacheMiss(e) \/ Load(e) \/ LoadFails(e) \/ Fill(e) \/ FillFails(e)
    \/ Return(e)

Next ==
  \/ \E i \in Ids, a \in Agents, effect \in Effects : SavePolicy(i, a, effect)
  \/ \E a \in Agents : ForgetPolicies(a) \/ Evict(a)
  \/ \E e \in Evaluators : Step(e) \/ \E a \in Agents : Start(e, a)
  \/ Tick

Spec == Init /\ [][Next]_vars

\* Goroutines run and time passes.
FairSpec == Spec /\ WF_vars(Tick) /\ \A e \in Evaluators : WF_vars(Step(e))

-----------------------------------------------------------------------------
(* Properties.                                                             *)

Decided(e) == eval[e].pc = "done"

\* The staleness the five-minute TTL of cache.go:29 buys: a decision is made
\* from policies the agent really had, at most TTL and one cache fill ago, even
\* when a slow fill overwrites a newer entry.
StalenessIsBounded ==
  \A e \in Evaluators : Decided(e) => eval[e].late < TTL + MaxFill

\* "No policies found" is never a stale answer: it comes from the table, during
\* the request.  So an agent's first policy counts from the next request on,
\* although CreatePolicy does not touch the cache.
DefaultDenyIsFresh ==
  \A e \in Evaluators :
    Decided(e) /\ eval[e].copy = {} /\ eval[e].source # "error" =>
      eval[e].source = "table" /\ {} \in eval[e].seen

\* README.md:217, "policy errors result in DENY": nothing is allowed without an
\* allowing policy of that agent in hand, and none is when the store fails.
FailClosed ==
  \A e \in Evaluators :
    Decided(e) /\ eval[e].allowed =>
      /\ eval[e].source # "error"
      /\ \E row \in eval[e].copy : row.effect = "allow"
      /\ \A row \in eval[e].copy : row.effect # "deny"

CacheAgrees ==
  \A a \in Agents : cache[a].copy = {} \/ cache[a].copy = PoliciesOf(table, a)

\* Once the table stops changing, the cache ends up agreeing with it for good,
\* with no invalidation: late fills and old entries die out.
CacheConverges == <>[]CacheAgrees

\* docs/policy_spec.md:198: "Policy changes ... take effect immediately (cache
\* invalidation)": a request is decided by policies in force while it ran.
ChangesTakeEffect ==
  \A e \in Evaluators :
    Decided(e) /\ eval[e].source # "error" => eval[e].copy \in eval[e].seen
=============================================================================
