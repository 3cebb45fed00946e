-------------------------- MODULE PolicyCacheProofs --------------------------
(***************************************************************************)
(* Proofs about the decisions that are made from the policy cache, for any *)
(* agents, policies and number of requests, any time to live and any time  *)
(* a request may take between its table read and its cache write.          *)
(***************************************************************************)
EXTENDS PolicyCache, TLAPS

PolicyRows == [id : Ids, effect : Effects \cup {"none"}]
Copies == SUBSET PolicyRows

Rows == [agent : Agents \cup {"none"}, effect : Effects \cup {"none"}]
Entries == [copy : Copies, ttl : Nat, late : Nat]
Decisions ==
  [pc : {"idle", "get", "load", "fill", "done"}, agent : Agents \cup {"none"},
   copy : Copies, late : Nat, age : Nat, source : {"none", "cache", "table", "error"},
   allowed : BOOLEAN, seen : SUBSET Copies]

Shape ==
  /\ table \in [Ids -> Rows]
  /\ cache \in [Agents -> Entries]
  /\ eval \in [Evaluators -> Decisions]

\* An entry that can be hit: as late as its fill was, plus the ticks it has lived.
SoundEntry(entry) ==
  entry.copy # {} => entry.ttl \in 1..TTL /\ entry.late =< MaxFill + (TTL - entry.ttl)

\* A request has seen what the table holds until it has its copy, and the copy
\* is as late as the cache write is, at most.
SoundDecision(q) ==
  /\ q.pc \in {"get", "load", "fill"} => q.agent \in Agents
  /\ q.pc \in {"get", "load"} =>
       q.late = 0 /\ q.age = 0 /\ PoliciesOf(table, q.agent) \in q.seen
  /\ q.pc = "fill" => q.late =< q.age /\ q.age =< MaxFill /\ q.copy \in q.seen
  /\ q.pc = "done" =>
       /\ q.late < TTL + MaxFill
       /\ q.allowed => q.source # "error" /\ Decide(q.copy)
       /\ q.copy = {} /\ q.source # "error" => q.source = "table" /\ {} \in q.seen

CacheInvariant ==
  /\ Shape
  /\ \A a \in Agents : SoundEntry(cache[a])
  /\ \A e \in Evaluators : SoundDecision(eval[e])

LEMMA PoliciesAreCopies ==
  ASSUME NEW tab \in [Ids -> Rows], NEW a
  PROVE  PoliciesOf(tab, a) \in Copies
<1>1. \A i \in Ids : tab[i].effect \in Effects \cup {"none"}
  BY DEF Rows
<1> QED
  BY <1>1 DEF PoliciesOf, Copies, PolicyRows

LEMMA InitSatisfiesCache == Init => CacheInvariant
<1> SUFFICES ASSUME Init
             PROVE  CacheInvariant
  OBVIOUS
<1>1. {} \in Copies
  BY DEF Copies
<1>2. Shape
  <2>1. NoRow \in Rows
    BY DEF NoRow, Rows
  <2>2. NoEntry \in Entries
    BY <1>1 DEF NoEntry, Entries
  <2>3. Resting \in Decisions
    BY <1>1 DEF Resting, Decisions
  <2> QED
    BY <2>1, <2>2, <2>3 DEF Init, Shape
<1>3. \A a \in Agents : SoundEntry(cache[a])
  BY DEF Init, SoundEntry, NoEntry
<1>4. \A e \in Evaluators : SoundDecision(eval[e])
  BY DEF Init, SoundDecision, Resting
<1> QED
  BY <1>2, <1>3, <1>4 DEF CacheInvariant

\* A change of the table is seen by every request under way.
LEMMA ChangesKeepCache ==
  ASSUME CacheInvariant,
         NEW tab \in [Ids -> Rows],
         ChangeTable(tab)
  PROVE  CacheInvariant'
<1>1. table' = tab /\ UNCHANGED cache
  BY DEF ChangeTable
<1>2. ASSUME NEW e \in Evaluators
      PROVE  eval'[e] \in Decisions /\ SoundDecision(eval[e])'
  <2>1. CASE eval[e] = Resting
    <3>1. eval'[e] = eval[e] /\ eval[e].pc = "idle"
      BY <2>1 DEF ChangeTable, Resting
    <3> QED
      BY <3>1 DEF CacheInvariant, Shape, SoundDecision
  <2>2. CASE eval[e] # Resting
    <3>1. eval'[e] = [eval[e] EXCEPT !.seen = eval[e].seen \cup {PoliciesOf(tab, eval[e].agent)}]
      BY <2>2 DEF ChangeTable
    <3>2. PoliciesOf(tab, eval[e].agent) \in Copies
      BY PoliciesAreCopies
    <3>3. SoundDecision(eval[e])
      BY DEF CacheInvariant
    <3> QED
      BY <1>1, <3>1, <3>2, <3>3 DEF CacheInvariant, Shape, Decisions, SoundDecision
  <2> QED
    BY <2>1, <2>2
<1>3. Shape'
  BY <1>1, <1>2 DEF CacheInvariant, Shape, ChangeTable
<1> QED
  BY <1>1, <1>2, <1>3 DEF CacheInvariant

\* A step of one request that leaves the table alone.
LEMMA DecisionStep ==
  ASSUME CacheInvariant, NEW e \in Evaluators, NEW q \in Decisions, SoundDecision(q),
         eval' = [eval EXCEPT ![e] = q], UNCHANGED table,
         cache' \in [Agents -> Entries], \A a \in Agents : SoundEntry(cache'[a])
  PROVE  CacheInvariant'
<1>1. Shape'
  BY DEF CacheInvariant, Shape
<1>2. ASSUME NEW d \in Evaluators
      PROVE  SoundDecision(eval[d])'
  <2>1. SoundDecision(eval'[d])
    BY DEF CacheInvariant, Shape
  <2> QED
    BY <2>1 DEF SoundDecision
<1> QED
  BY <1>1, <1>2 DEF CacheInvariant

LEMMA DecisionsKeepCache ==
  ASSUME CacheInvariant, NEW e \in Evaluators, Step(e) \/ \E a \in Agents : Start(e, a)
  PROVE  CacheInvariant'
<1> DEFINE q == eval[e]
<1>0. /\ q \in Decisions /\ SoundDecision(q) /\ table \in [Ids -> Rows]
      /\ cache \in [Agents -> Entries] /\ \A a \in Agents : SoundEntry(cache[a])
      /\ TTL \in Nat /\ TTL >= 1 /\ MaxFill \in Nat
  BY PolicyCacheAssumption DEF CacheInvariant, Shape
<1>a. ASSUME NEW n \in Decisions, SoundDecision(n), eval' = [eval EXCEPT ![e] = n],
             UNCHANGED <<table, cache>>
      PROVE  CacheInvariant'
  BY <1>0, <1>a, DecisionStep
<1>1. ASSUME NEW a \in Agents, Start(e, a)
      PROVE  CacheInvariant'
  <2> DEFINE n == [Resting EXCEPT !.pc = "get", !.agent = a, !.seen = {PoliciesOf(table, a)}]
  <2>1. PoliciesOf(table, a) \in Copies /\ {} \in Copies
    BY <1>0, PoliciesAreCopies DEF Copies
  <2>2. n \in Decisions /\ SoundDecision(n)
    BY <2>1 DEF Resting, Decisions, SoundDecision
  <2>3. eval' = [eval EXCEPT ![e] = n] /\ UNCHANGED <<table, cache>>
    BY <1>1 DEF Start
  <2> HIDE DEF n
  <2> QED
    BY <1>a, <2>2, <2>3
<1>2. CASE CacheHit(e)
  <2> DEFINE entry == cache[q.agent]
             n == [q EXCEPT !.pc = "done", !.copy = entry.copy, !.late = entry.late, !.age = 0,
                            !.source = "cache", !.allowed = Decide(entry.copy)]
  <2>1. q.pc = "get" /\ q.agent \in Agents /\ entry.copy # {}
    BY <1>0, <1>2 DEF CacheHit, SoundDecision
  <2>2. /\ entry \in Entries /\ entry.ttl \in 1..TTL
        /\ entry.late =< MaxFill + (TTL - entry.ttl)
    BY <1>0, <2>1 DEF SoundEntry
  <2>3. entry.copy \in Copies /\ entry.late \in Nat /\ entry.late < TTL + MaxFill
    BY <1>0, <2>2 DEF Entries
  <2>4. Decide(entry.copy) \in BOOLEAN
    BY DEF Decide
  <2>5. eval' = [eval EXCEPT ![e] = n] /\ UNCHANGED <<table, cache>>
    BY <1>2 DEF CacheHit, Answer
  <2>6. n \in Decisions
    BY <1>0, <2>3, <2>4 DEF Decisions
  <2>7. SoundDecision(n)
    BY <1>0, <2>1, <2>3 DEF Decisions, SoundDecision
  <2> HIDE DEF n
  <2> QED
    BY <1>a, <2>5, <2>6, <2>7
<1>3. CASE CacheMiss(e)
  <2> DEFINE n == [q EXCEPT !.pc = "load"]
  <2>1. eval' = [eval EXCEPT ![e] = n] /\ UNCHANGED <<table, cache>> /\ q.pc = "get"
    BY <1>3 DEF CacheMiss
  <2>2. n \in Decisions /\ SoundDecision(n)
    BY <1>0, <2>1 DEF Decisions, SoundDecision
  <2> HIDE DEF n
  <2> QED
    BY <1>a, <2>1, <2>2
<1>4. CASE Load(e)
  <2> DEFINE n == [q EXCEPT !.pc = "fill", !.copy = PoliciesOf(table, q.agent)]
  <2>1. eval' = [eval EXCEPT ![e] = n] /\ UNCHANGED <<table, cache>> /\ q.pc = "load"
    BY <1>4 DEF Load
  <2>2. PoliciesOf(table, q.agent) \in Copies
    BY <1>0, PoliciesAreCopies
  <2>3. n \in Decisions
    BY <1>0, <2>2 DEF Decisions
  <2>4. /\ n.pc = "fill" /\ n.agent = q.agent /\ n.copy = PoliciesOf(table, q.agent)
        /\ n.late = q.late /\ n.age = q.age /\ n.seen = q.seen
    BY <1>0 DEF Decisions
  <2> HIDE DEF n
  <2>5. SoundDecision(n)
    BY <1>0, <2>1, <2>4 DEF SoundDecision
  <2> QED
    BY <1>a, <2>1, <2>3, <2>5
<1>5. CASE LoadFails(e)
  <2> DEFINE n == [q EXCEPT !.pc = "done", !.copy = {}, !.late = 0, !.age = 0,
                            !.source = "error", !.allowed = FALSE]
  <2>1. eval' = [eval EXCEPT ![e] = n] /\ UNCHANGED <<table, cache>>
    BY <1>5 DEF LoadFails, Answer
  <2>2. {} \in Copies
    BY DEF Copies
  <2>3. n \in Decisions
    BY <1>0, <2>2 DEF Decisions
  <2>4. n.pc = "done" /\ n.late = 0 /\ n.source = "error" /\ n.allowed = FALSE
    BY <1>0 DEF Decisions
  <2> HIDE DEF n
  <2>5. SoundDecision(n)
    BY <1>0, <2>4 DEF SoundDecision
  <2> QED
    BY <1>a, <2>1, <2>3, <2>5
<1>6. CASE Fill(e) \/ FillFails(e)
  <2> DEFINE n == [q EXCEPT !.pc = "done", !.copy = q.copy, !.late = q.late, !.age = 0,
                            !.source = "table", !.allowed = Decide(q.copy)]
             entry == [copy |-> q.copy, ttl |-> TTL, late |-> q.late]
  <2>1. eval' = [eval EXCEPT ![e] = n] /\ UNCHANGED table /\ q.pc = "fill"
    BY <1>6 DEF Fill, FillFails, Answer
  <2>2. /\ q.copy \in Copies /\ q.late \in Nat /\ q.age \in Nat /\ q.agent \in Agents
        /\ q.late =< MaxFill /\ q.copy \in q.seen /\ Decide(q.copy) \in BOOLEAN
    BY <1>0, <2>1 DEF Decisions, SoundDecision, Decide
  <2>3. q.late < TTL + MaxFill
    BY <1>0, <2>2
  <2>4. n \in Decisions
    BY <1>0, <2>2 DEF Decisions
  <2>5. SoundDecision(n)
    BY <1>0, <2>2, <2>3 DEF Decisions, SoundDecision
  <2>6. entry \in Entries /\ SoundEntry(entry)
    BY <1>0, <2>2 DEF Entries, SoundEntry
  <2>7. cache' = [cache EXCEPT ![q.agent] = entry] \/ UNCHANGED cache
    BY <1>6 DEF Fill, FillFails
  <2> HIDE DEF n, entry
  <2>8. cache' \in [Agents -> Entries] /\ \A a \in Agents : SoundEntry(cache'[a])
    BY <1>0, <2>2, <2>6, <2>7
  <2> QED
    BY <2>1, <2>4, <2>5, <2>8, DecisionStep
<1>7. CASE Return(e)
  <2>1. eval' = [eval EXCEPT ![e] = Resting] /\ UNCHANGED <<table, cache>>
    BY <1>7 DEF Return
  <2>2. Resting \in Decisions /\ SoundDecision(Resting)
    BY DEF Resting, Decisions, SoundDecision, Copies
  <2> QED
    BY <1>a, <2>1, <2>2
<1> QED
  BY <1>1, <1>2, <1>3, <1>4, <1>5, <1>6, <1>7 DEF Step

\* A tick ages entries and pending cache writes alike.
LEMMA TimeKeepsCache ==
  ASSUME CacheInvariant, Tick \/ \E a \in Agents : Evict(a)
  PROVE  CacheInvariant'
<1>0. /\ table \in [Ids -> Rows] /\ cache \in [Agents -> Entries]
      /\ eval \in [Evaluators -> Decisions]
      /\ \A a \in Agents : SoundEntry(cache[a])
      /\ TTL \in Nat /\ TTL >= 1 /\ MaxFill \in Nat
  BY PolicyCacheAssumption DEF CacheInvariant, Shape
<1>1. UNCHANGED table
  BY DEF Tick, Evict
<1>2. NoEntry \in Entries /\ SoundEntry(NoEntry)
  BY DEF NoEntry, Entries, SoundEntry, Copies
<1>3. ASSUME NEW late \in Nat, NEW copy, NEW a
      PROVE  Later(late, copy, a) \in Nat /\ Later(late, copy, a) =< late + 1
  BY DEF Later
<1>4. CASE Tick
  <2>1. ASSUME NEW a \in Agents
        PROVE  Aged(cache[a], a) \in Entries /\ SoundEntry(Aged(cache[a], a))
    <3> DEFINE entry == cache[a]
               old == [entry EXCEPT !.ttl = entry.ttl - 1, !.late = Later(entry.late, entry.copy, a)]
    <3>1. entry \in Entries /\ SoundEntry(entry)
      BY <1>0
    <3>2. CASE entry.ttl =< 1
      BY <1>2, <3>2 DEF Aged
    <3>3. CASE ~(entry.ttl =< 1)
      <4>1. /\ entry.ttl \in Nat /\ entry.late \in Nat /\ entry.ttl - 1 \in Nat
            /\ Later(entry.late, entry.copy, a) \in Nat
            /\ Later(entry.late, entry.copy, a) =< entry.late + 1
        BY <1>3, <3>1, <3>3 DEF Entries
      <4>2. /\ old \in Entries /\ old.copy = entry.copy /\ old.ttl = entry.ttl - 1
            /\ old.late = Later(entry.late, entry.copy, a)
        BY <3>1, <4>1 DEF Entries
      <4>3. SoundEntry(old)
        BY <1>0, <3>1, <3>3, <4>1, <4>2 DEF SoundEntry
      <4> QED
        BY <3>3, <4>2, <4>3 DEF Aged
    <3> QED
      BY <3>2, <3>3
  <2>2. cache' \in [Agents -> Entries] /\ \A a \in Agents : SoundEntry(cache'[a])
    BY <1>4, <2>1 DEF Tick
  <2>3. ASSUME NEW e \in Evaluators
        PROVE  eval'[e] \in Decisions /\ SoundDecision(eval'[e])
    <3> DEFINE q == eval[e]
               n == [q EXCEPT !.age = q.age + 1, !.late = Later(q.late, q.copy, q.agent)]
    <3>1. q \in Decisions /\ SoundDecision(q)
      BY DEF CacheInvariant, Shape
    <3>2. CASE q.pc # "fill"
      BY <1>4, <3>1, <3>2 DEF Tick
    <3>3. CASE q.pc = "fill"
      <4>1. eval'[e] = n /\ q.age < MaxFill
        BY <1>4, <3>3 DEF Tick
      <4>2. /\ q.late \in Nat /\ q.age \in Nat
            /\ Later(q.late, q.copy, q.agent) \in Nat
            /\ Later(q.late, q.copy, q.agent) =< q.late + 1
        BY <1>3, <3>1 DEF Decisions
      <4> DEFINE late == Later(q.late, q.copy, q.agent)
      <4>a. q.age + 1 \in Nat /\ late \in Nat
        BY <4>2
      <4> HIDE DEF late
      <4>3. [q EXCEPT !.age = q.age + 1, !.late = late] \in Decisions
        BY <3>1, <4>a DEF Decisions
      <4>4. /\ n.pc = "fill" /\ n.agent = q.agent /\ n.copy = q.copy /\ n.seen = q.seen
            /\ n.age = q.age + 1 /\ n.late = Later(q.late, q.copy, q.agent)
        BY <3>1, <3>3 DEF Decisions
      <4>5. SoundDecision(n)
        BY <1>0, <3>1, <3>3, <4>1, <4>2, <4>4 DEF SoundDecision
      <4> QED
        BY <4>1, <4>3, <4>5 DEF late
    <3> QED
      BY <3>2, <3>3
  <2>4. eval' \in [Evaluators -> Decisions]
    BY <1>4, <2>3 DEF Tick
  <2>5. \A e \in Evaluators : SoundDecision(eval[e])'
    BY <1>1, <2>3 DEF SoundDecision
  <2> QED
    BY <1>0, <1>1, <2>2, <2>4, <2>5 DEF CacheInvariant, Shape
<1>5. ASSUME NEW a \in Agents, Evict(a)
      PROVE  CacheInvariant'
  BY <1>0, <1>1, <1>2, <1>5 DEF Evict, CacheInvariant, Shape, SoundDecision
<1> QED
  BY <1>4, <1>5

LEMMA CacheIsInductive == CacheInvariant /\ [Next]_vars => CacheInvariant'
<1> SUFFICES ASSUME CacheInvariant, [Next]_vars
             PROVE  CacheInvariant'
  OBVIOUS
<1>0. table \in [Ids -> Rows]
  BY DEF CacheInvariant, Shape
<1>1. CASE UNCHANGED vars
  BY <1>1 DEF vars, CacheInvariant, Shape, SoundDecision
<1>2. ASSUME NEW i \in Ids, NEW a \in Agents, NEW effect \in Effects, SavePolicy(i, a, effect)
      PROVE  CacheInvariant'
  <2> DEFINE owner == IF table[i] = NoRow THEN a ELSE table[i].agent
             tab == [table EXCEPT ![i] = [agent |-> owner, effect |-> effect]]
  <2>1. owner \in Agents \cup {"none"}
    BY <1>0 DEF Rows
  <2>2. tab \in [Ids -> Rows]
    BY <1>0, <2>1 DEF Rows
  <2>3. ChangeTable(tab)
    BY <1>2 DEF SavePolicy
  <2> HIDE DEF tab
  <2> QED
    BY <2>2, <2>3, ChangesKeepCache
<1>3. ASSUME NEW a \in Agents, ForgetPolicies(a)
      PROVE  CacheInvariant'
  <2> DEFINE tab == [i \in Ids |-> IF table[i].agent = a THEN NoRow ELSE table[i]]
  <2>1. tab \in [Ids -> Rows]
    BY <1>0 DEF Rows, NoRow
  <2>2. ChangeTable(tab)
    BY <1>3 DEF ForgetPolicies
  <2> HIDE DEF tab
  <2> QED
    BY <2>1, <2>2, ChangesKeepCache
<1> QED
  BY <1>1, <1>2, <1>3, DecisionsKeepCache, TimeKeepsCache DEF Next

LEMMA CacheIsInvariant == Spec => []CacheInvariant
  BY InitSatisfiesCache, CacheIsInductive, PTL DEF Spec

\* A decision is made from policies of at most one TTL and one cache fill ago,
\* even when a slow fill overwrites a newer entry (cache.go:29).
THEOREM StalenessStaysBounded == Spec => []StalenessIsBounded
<1>1. CacheInvariant => StalenessIsBounded
  BY DEF CacheInvariant, SoundDecision, StalenessIsBounded, Decided
<1> QED
  BY <1>1, CacheIsInvariant, PTL

\* "No policies found" is read from the table during the request, as a cached
\* empty list reads as a miss (cache.go, evaluator.go:109-130).
THEOREM DefaultDenyStaysFresh == Spec => []DefaultDenyIsFresh
<1>1. CacheInvariant => DefaultDenyIsFresh
  BY DEF CacheInvariant, SoundDecision, DefaultDenyIsFresh, Decided
<1> QED
  BY <1>1, CacheIsInvariant, PTL

\* Only an allowing policy in hand allows, and a failing store never does
\* (evaluator.go:109-130).
THEOREM ErrorsDeny == Spec => []FailClosed
<1>1. CacheInvariant => FailClosed
  <2> SUFFICES ASSUME CacheInvariant, NEW e \in Evaluators, Decided(e), eval[e].allowed
               PROVE  /\ eval[e].source # "error"
                      /\ \E row \in eval[e].copy : row.effect = "allow"
                      /\ \A row \in eval[e].copy : row.effect # "deny"
    BY DEF FailClosed
  <2>1. eval[e].source # "error" /\ Decide(eval[e].copy)
    BY DEF CacheInvariant, SoundDecision, Decided
  <2> QED
    BY <2>1 DEF Decide
<1> QED
  BY <1>1, CacheIsInvariant, PTL
=============================================================================
