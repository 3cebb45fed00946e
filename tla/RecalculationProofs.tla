------------------------ MODULE RecalculationProofs ------------------------
(***************************************************************************)
(* Recalculations beside the requests of the trust layer, for any number   *)
(* of both: the scores they save are bracketed.                            *)
(***************************************************************************)
EXTENDS TrustProofs, Recalculation

\* The verifications an agent has completed.
CompletedFor(rows, a) ==
  {v \in Verifications : rows[v].verifier = a /\ rows[v].status = "completed"}

CompletedAreFinite == \A a \in Agents : IsFiniteSet(CompletedFor(verification, a))

\* At most one more is completed at a time.
LEMMA CompletedStayFinite ==
  ASSUME RangeInvariant, CompletedAreFinite, [Next]_vars, NEW a \in Agents
  PROVE  IsFiniteSet(CompletedFor(verification', a))
<1>0. verification \in [Verifications -> Verification]
  BY DEF RangeInvariant, TypeOK
<1> DEFINE Goal == IsFiniteSet(CompletedFor(verification', a))
<1>1. CASE UNCHANGED verification
  BY <1>1 DEF CompletedAreFinite
<1>2. ASSUME NEW x \in Verifications, NEW row,
             verification' = [verification EXCEPT ![x] = row]
      PROVE  Goal
  <2>1. verification'[x] = row /\ \A v \in Verifications \ {x} : verification'[v] = verification[v]
    BY <1>0, <1>2
  <2>3. CompletedFor(verification', a) \subseteq CompletedFor(verification, a) \cup {x}
    BY <2>1 DEF CompletedFor
  <2>4. IsFiniteSet(CompletedFor(verification, a) \cup {x})
    BY FS_AddElement DEF CompletedAreFinite
  <2> QED
    BY <2>3, <2>4, FS_Subset
<1>3. ASSUME NEW w \in Workers, InsertVerification(w)
      PROVE  Goal
  <2>1. PICK x \in Verifications :
          /\ verification' = [verification EXCEPT ![x] =
               [status |-> "pending", target |-> tx[w].agent, verifier |-> tx[w].peer]]
    BY <1>3 DEF InsertVerification
  <2> QED
    BY <1>2, <2>1
<1>4. ASSUME NEW w \in Workers, CommitApproval(w) \/ CommitRejection(w)
      PROVE  Goal
  <2>1. tx[w].pc = "commit" /\ tx[w].op \in ResultOps
    BY <1>4 DEF CommitApproval, CommitRejection, Committing, ResultOps
  <2>2. tx[w].ver \in Verifications
    BY <2>1 DEF RangeInvariant, TransactionsAreSound, SoundTransaction
  <2>4. PICK s : verification' = [verification EXCEPT ![tx[w].ver].status = s]
    BY <1>4 DEF CommitApproval, CommitRejection
  <2>5. verification' = [verification EXCEPT ![tx[w].ver] = [@ EXCEPT !.status = s]]
    BY <2>4
  <2> QED
    BY <1>2, <2>2, <2>5
<1>5. ASSUME NEW w \in Workers,
             \/ Request(w) \/ Abort(w)
             \/ ClaimVerification(w) \/ ReadScore(w) \/ UpdateAgent(w) \/ InsertRefused(w)
             \/ CommitEvent(w) \/ CommitAttestation(w) \/ CommitForget(w)
      PROVE  UNCHANGED verification
  BY <1>5 DEF Request, LogEvent, SaveAttestation, Forget, SelectVerifier, FetchVerification,
    Begin, ClaimVerification, ReadScore, UpdateAgent, InsertRefused, Abort, tables,
    CommitEvent, CommitAttestation, CommitForget
<1>6. ASSUME NEW b \in Agents, Register(b)
      PROVE  UNCHANGED verification
  BY <1>6 DEF Register
<1> QED
  BY <1>1, <1>3, <1>4, <1>5, <1>6 DEF Next, Step, vars

LEMMA CompletedAreCounted ==
  ASSUME NEW a \in Agents
  PROVE  /\ CompletedAreFinite => Completed(verification, a) \in Nat
         /\ CompletedAreFinite' => Completed(verification', a) \in Nat
<1>1. /\ Completed(verification, a) = Cardinality(CompletedFor(verification, a))
      /\ Completed(verification', a) = Cardinality(CompletedFor(verification', a))
  BY DEF Completed, CompletedFor
<1>2. CompletedAreFinite' => IsFiniteSet(CompletedFor(verification', a))
  BY DEF CompletedAreFinite, CompletedFor
<1> QED
  BY <1>1, <1>2, FS_CardinalityType DEF CompletedAreFinite

\* Attestations and events are never deleted.
LEMMA RowsGrow ==
  ASSUME RangeInvariant, [Next]_vars, NEW a \in Agents
  PROVE  /\ attestations[a] =< attestations'[a]
         /\ \A t \in EventTypes : events[a][t] =< events'[a][t]
<1>0. attestations \in [Agents -> Nat] /\ events \in [Agents -> [EventTypes -> Nat]]
  BY DEF RangeInvariant, TypeOK
<1>1. CASE UNCHANGED <<attestations, events>>
  BY <1>0, <1>1
<1>2. ASSUME NEW w \in Workers, CommitAttestation(w)
      PROVE  attestations[a] =< attestations'[a] /\ UNCHANGED events
  BY <1>0, <1>2 DEF CommitAttestation
<1>3. ASSUME NEW b, NEW y, events' = [events EXCEPT ![b][y] = @ + 1]
      PROVE  \A t \in EventTypes : events[a][t] =< events'[a][t]
  <2>1. events[a] \in [EventTypes -> Nat]
    BY <1>0
  <2>2. events'[a] = IF a = b THEN [events[a] EXCEPT ![y] = events[a][y] + 1] ELSE events[a]
    BY <1>0, <1>3
  <2> QED
    BY <2>1, <2>2
<1>4. ASSUME NEW w \in Workers, CommitEvent(w) \/ CommitRejection(w)
      PROVE  UNCHANGED attestations /\ \E b, y : events' = [events EXCEPT ![b][y] = @ + 1]
  BY <1>4 DEF CommitEvent, CommitRejection
<1>5. ASSUME NEW w \in Workers,
             \/ Request(w) \/ Abort(w)
             \/ ClaimVerification(w) \/ ReadScore(w) \/ UpdateAgent(w) \/ InsertRefused(w)
             \/ InsertVerification(w) \/ CommitApproval(w) \/ CommitForget(w)
      PROVE  UNCHANGED <<attestations, events>>
  BY <1>5 DEF Request, LogEvent, SaveAttestation, Forget, SelectVerifier, FetchVerification,
    Begin, ClaimVerification, ReadScore, UpdateAgent, InsertRefused, Abort, tables,
    InsertVerification, CommitApproval, CommitForget
<1>6. ASSUME NEW b \in Agents, Register(b)
      PROVE  UNCHANGED <<attestations, events>>
  BY <1>6 DEF Register
<1>7. CASE \E w \in Workers : CommitAttestation(w)
  BY <1>0, <1>2, <1>7
<1>8. CASE \E w \in Workers : CommitEvent(w) \/ CommitRejection(w)
  <2>1. PICK b, y : events' = [events EXCEPT ![b][y] = @ + 1]
    BY <1>4, <1>8
  <2>2. \A t \in EventTypes : events[a][t] =< events'[a][t]
    BY <1>3, <2>1
  <2>3. attestations[a] =< attestations'[a]
    BY <1>0, <1>4, <1>8
  <2> QED
    BY <2>2, <2>3
<1> QED
  BY <1>1, <1>5, <1>6, <1>7, <1>8 DEF Next, Step, vars

-----------------------------------------------------------------------------

\* The queries in which only rows that are never deleted are counted.
Growing == {"attestations", "violations", "disputes"}

Queries == {"verifications"} \cup Growing

FactSet == [days : Nat, verifications : Nat, attestations : Nat, violations : Nat, disputes : Nat]

AtMost(f, g, queries) == \A k \in queries : f[k] =< g[k]

\* Those answered when a recalculation is about to send query pc.
AnsweredBefore ==
  [verifications |-> {}, attestations |-> {}, violations |-> {"attestations"},
   disputes |-> {"attestations", "violations"}, save |-> Growing]

\* The answers lie between the facts at the start and those at present.
SoundRecalculation(q, facts) ==
  /\ q.pc \in Queries \cup {"save"}
  /\ q.origin \in FactSet /\ q.read \in FactSet
  /\ q.read.days = q.origin.days
  /\ AtMost(q.origin, facts, Growing)
  /\ AtMost(q.origin, q.read, AnsweredBefore[q.pc])
  /\ AtMost(q.read, facts, AnsweredBefore[q.pc])
  /\ q.fewest \in Nat /\ q.most \in Nat
  /\ q.fewest =< facts.verifications /\ facts.verifications =< q.most
  /\ q.pc # "verifications" =>
       q.fewest =< q.read.verifications /\ q.read.verifications =< q.most

Recalc == [pc : {"idle", "save"} \cup Queries, agent : Agents \cup {None},
           read : FactSet, origin : FactSet, fewest : Nat, most : Nat]

\* The inductive invariant of the recalculations.
RecalculationsAreSound ==
  /\ days \in [Agents -> Nat]
  /\ recalc \in [Recalculators -> Recalc]
  /\ \A r \in Recalculators : recalc[r] # Resting =>
       recalc[r].agent \in Agents /\ SoundRecalculation(recalc[r], Facts(recalc[r].agent))

LEMMA QueriesInOrder ==
  /\ DOMAIN After = Queries
  /\ \A k \in Queries :
       /\ After[k] \in Queries \cup {"save"} /\ After[k] # "verifications"
       /\ AnsweredBefore[After[k]] = AnsweredBefore[k] \cup ({k} \ {"verifications"})
  /\ \A k \in Queries \cup {"save"} : AnsweredBefore[k] \subseteq Growing
  /\ AnsweredBefore["save"] = Growing
  BY DEF After, Queries, Growing, AnsweredBefore

LEMMA FactsAreFacts ==
  ASSUME RangeInvariant, CompletedAreFinite, days \in [Agents -> Nat], NEW a \in Agents
  PROVE  Facts(a) \in FactSet
<1>1. /\ attestations[a] \in Nat /\ days[a] \in Nat
      /\ events[a]["policy_violation"] \in Nat /\ events[a]["dispute_lost"] \in Nat
  BY DEF RangeInvariant, TypeOK, EventTypes
<1> QED
  BY <1>1, CompletedAreCounted DEF Facts, FactSet

\* What the recalculations rely on in the trust layer.
BaseInvariant == RangeInvariant /\ CompletedAreFinite

LEMMA FactsGrow ==
  ASSUME RangeInvariant, RangeInvariant',
         [Next]_vars \/ UNCHANGED <<verification, attestations, events>>, NEW a \in Agents
  PROVE  AtMost(Facts(a), Facts(a)', Growing)
<1>1. /\ attestations[a] \in Nat /\ attestations'[a] \in Nat
      /\ \A t \in EventTypes : events[a][t] \in Nat /\ events'[a][t] \in Nat
  BY DEF RangeInvariant, TypeOK
<1>2. attestations[a] =< attestations'[a] /\ \A t \in EventTypes : events[a][t] =< events'[a][t]
  <2>1. CASE [Next]_vars
    BY <2>1, RowsGrow
  <2>2. CASE UNCHANGED <<verification, attestations, events>>
    BY <1>1, <2>2
  <2> QED
    BY <2>1, <2>2
<1>3. /\ Facts(a)["attestations"] = attestations[a] /\ Facts(a)'["attestations"] = attestations'[a]
      /\ Facts(a)["violations"] = events[a]["policy_violation"]
      /\ Facts(a)'["violations"] = events'[a]["policy_violation"]
      /\ Facts(a)["disputes"] = events[a]["dispute_lost"]
      /\ Facts(a)'["disputes"] = events'[a]["dispute_lost"]
  BY DEF Facts
<1>4. "policy_violation" \in EventTypes /\ "dispute_lost" \in EventTypes
  BY DEF EventTypes
<1> QED
  BY <1>2, <1>3, <1>4 DEF AtMost, Growing

\* A recalculation stays between its two ends while facts change around it, when
\* its history follows the completed verifications.
LEMMA SoundWhileFactsChange ==
  ASSUME NEW q, NEW f \in FactSet, NEW g \in FactSet, SoundRecalculation(q, f),
         AtMost(f, g, Growing),
         NEW p, p.pc = q.pc, p.origin = q.origin, p.read = q.read,
         p.fewest \in Nat, p.most \in Nat, p.fewest =< q.fewest, q.most =< p.most,
         p.fewest =< g.verifications, g.verifications =< p.most
  PROVE  SoundRecalculation(p, g)
<1>1. \A k \in Growing : /\ f[k] \in Nat /\ g[k] \in Nat /\ q.origin[k] \in Nat
                         /\ q.read[k] \in Nat
  BY DEF FactSet, Growing, SoundRecalculation
<1>2. AnsweredBefore[q.pc] \subseteq Growing
  BY QueriesInOrder DEF SoundRecalculation
<1>3. AtMost(q.origin, g, Growing)
  BY <1>1 DEF SoundRecalculation, AtMost
<1>4. AtMost(q.read, g, AnsweredBefore[q.pc])
  <2> SUFFICES ASSUME NEW k \in AnsweredBefore[q.pc]
               PROVE  q.read[k] =< g[k]
    BY DEF AtMost
  <2>1. k \in Growing /\ q.read[k] =< f[k] /\ f[k] =< g[k]
    BY <1>2 DEF SoundRecalculation, AtMost
  <2> QED
    BY <1>1, <2>1
<1>5. q.read.verifications \in Nat /\ q.fewest \in Nat /\ q.most \in Nat
  BY DEF SoundRecalculation, FactSet
<1>6. q.pc # "verifications" =>
        p.fewest =< q.read.verifications /\ q.read.verifications =< p.most
  BY <1>5 DEF SoundRecalculation
<1> QED
  BY <1>3, <1>4, <1>6 DEF SoundRecalculation

\* The answer to a query is what holds when it is asked.
LEMMA SoundAfterCount ==
  ASSUME NEW q, NEW f \in FactSet, SoundRecalculation(q, f), q.pc \in Queries,
         NEW p, p.pc = After[q.pc], p.origin = q.origin, p.fewest = q.fewest, p.most = q.most,
         p.read = [q.read EXCEPT ![q.pc] = f[q.pc]]
  PROVE  SoundRecalculation(p, f)
<1>1. /\ p.pc \in Queries \cup {"save"} /\ p.pc # "verifications"
      /\ AnsweredBefore[p.pc] = AnsweredBefore[q.pc] \cup ({q.pc} \ {"verifications"})
      /\ AnsweredBefore[q.pc] \subseteq Growing
  BY QueriesInOrder
<1>2. f[q.pc] \in Nat
  BY DEF FactSet, Queries, Growing
<1>3. /\ p.read \in FactSet
      /\ p.read.days = q.read.days
      /\ p.read[q.pc] = f[q.pc]
      /\ \A k \in Queries \ {q.pc} : p.read[k] = q.read[k]
  BY <1>2 DEF FactSet, Queries, Growing, SoundRecalculation
<1>4. \A k \in Growing : k \in Queries /\ f[k] \in Nat /\ q.origin[k] =< f[k]
  BY DEF FactSet, Queries, Growing, SoundRecalculation, AtMost
<1>5. \A k \in AnsweredBefore[p.pc] : k \in Growing /\ (k = q.pc \/ k \in AnsweredBefore[q.pc])
  BY <1>1 DEF Queries
<1>6. AtMost(p.origin, p.read, AnsweredBefore[p.pc])
  <2> SUFFICES ASSUME NEW k \in AnsweredBefore[p.pc]
               PROVE  p.origin[k] =< p.read[k]
    BY DEF AtMost
  <2>1. CASE k = q.pc
    BY <1>3, <1>4, <1>5, <2>1
  <2>2. CASE k # q.pc
    BY <1>3, <1>4, <1>5, <2>2 DEF SoundRecalculation, AtMost
  <2> QED
    BY <2>1, <2>2
<1>7. AtMost(p.read, f, AnsweredBefore[p.pc])
  <2> SUFFICES ASSUME NEW k \in AnsweredBefore[p.pc]
               PROVE  p.read[k] =< f[k]
    BY DEF AtMost
  <2>1. CASE k = q.pc
    BY <1>2, <1>3, <2>1
  <2>2. CASE k # q.pc
    BY <1>3, <1>4, <1>5, <2>2 DEF SoundRecalculation, AtMost
  <2> QED
    BY <2>1, <2>2
<1>8. p.fewest =< p.read.verifications /\ p.read.verifications =< p.most
  <2>0. "verifications" \in Queries
    BY DEF Queries
  <2>1. CASE q.pc = "verifications"
    BY <1>3, <2>1 DEF SoundRecalculation
  <2>2. CASE q.pc # "verifications"
    BY <1>3, <2>0, <2>2 DEF SoundRecalculation
  <2> QED
    BY <2>1, <2>2
<1> QED
  BY <1>1, <1>3, <1>6, <1>7, <1>8 DEF SoundRecalculation

-----------------------------------------------------------------------------

LEMMA ReputationInRange ==
  ASSUME NEW f \in FactSet
  PROVE  CalculateReputation(f) \in Scores
<1>1. 500 + 200 + f.verifications * 50 + f.attestations * 25
        - f.violations * 100 - f.disputes * 150 - f.days \in Int
  BY DEF FactSet
<1> QED
  BY <1>1, Clamping DEF CalculateReputation

\* Beside the requests, a step writes one score, and no other trust table.
WritesAScore ==
  /\ \E a \in Agents, n \in Scores : score' = [score EXCEPT ![a] = n]
  /\ started' \in Nat
  /\ UNCHANGED <<key, verification, events, attestations, tx, log>>

LEMMA StepsBesideRequests ==
  ASSUME RangeInvariant, RecalculationsAreSound, [RNext]_allVars
  PROVE  [Next]_vars \/ WritesAScore
<1>1. CASE UNCHANGED allVars \/ TrustStep \/ DayPasses
  BY <1>1 DEF allVars, TrustStep, DayPasses
<1>2. ASSUME NEW r \in Recalculators,
             (\E a \in Agents : FetchActivity(r, a)) \/ Count(r) \/ GiveUp(r)
      PROVE  UNCHANGED vars
  BY <1>2 DEF FetchActivity, Count, GiveUp
<1>3. ASSUME NEW a \in Agents, UpdateRow(a)
      PROVE  WritesAScore
  <2>1. PICK n \in Written : score' = [score EXCEPT ![a] = n]
    BY <1>3 DEF UpdateRow
  <2>2. \E b \in Agents, m \in Scores : score' = [score EXCEPT ![b] = m]
    BY <2>1, RecalculationAssumption
  <2>3. started' \in Nat /\ UNCHANGED <<key, verification, events, attestations, tx, log>>
    BY <1>3 DEF UpdateRow, RangeInvariant, TypeOK
  <2> QED
    BY <2>2, <2>3 DEF WritesAScore
<1>4. ASSUME NEW r \in Recalculators, SaveScore(r)
      PROVE  WritesAScore
  <2>1. recalc[r] # Resting
    BY <1>4 DEF SaveScore, Resting
  <2>2. recalc[r].agent \in Agents /\ CalculateReputation(recalc[r].read) \in Scores
    BY <2>1, ReputationInRange DEF RecalculationsAreSound, SoundRecalculation
  <2> QED
    BY <1>4, <2>2 DEF SaveScore, WritesAScore, RangeInvariant, TypeOK
<1> QED
  BY <1>1, <1>2, <1>3, <1>4 DEF RNext

LEMMA WritingAScoreKeepsBase ==
  ASSUME BaseInvariant, WritesAScore
  PROVE  BaseInvariant'
<1>1. PICK a \in Agents, n \in Scores : score' = [score EXCEPT ![a] = n]
  BY DEF WritesAScore
<1>2. UNCHANGED <<key, verification, events, attestations, tx, log>> /\ started' \in Nat
  BY DEF WritesAScore
<1>3. n \in Int
  BY DEF Scores
<1>4. TypeOK' /\ ScoreInRange'
  BY <1>1, <1>2, <1>3 DEF BaseInvariant, RangeInvariant, TypeOK, ScoreInRange
<1>5. TransactionsAreSound' /\ VerificationsAreSound'
  BY <1>2 DEF BaseInvariant, RangeInvariant, TransactionsAreSound, SoundTransaction,
              VerificationsAreSound, Registered
<1>6. CompletedAreFinite'
  BY <1>2 DEF BaseInvariant, CompletedAreFinite
<1> QED
  BY <1>4, <1>5, <1>6 DEF BaseInvariant, RangeInvariant

LEMMA BaseIsInductive ==
  ASSUME BaseInvariant, RecalculationsAreSound, [RNext]_allVars
  PROVE  BaseInvariant'
<1>1. CASE [Next]_vars
  <2>1. RangeInvariant'
    BY <1>1, RangeInvariantIsInductive DEF BaseInvariant
  <2>2. \A a \in Agents : IsFiniteSet(CompletedFor(verification', a))
    BY <1>1, CompletedStayFinite DEF BaseInvariant
  <2> QED
    BY <2>1, <2>2 DEF BaseInvariant, CompletedAreFinite
<1>2. CASE WritesAScore
  BY <1>2, WritingAScoreKeepsBase
<1> QED
  BY <1>1, <1>2, StepsBesideRequests DEF BaseInvariant

LEMMA FactsBesideRequests ==
  ASSUME BaseInvariant, RecalculationsAreSound, [RNext]_allVars,
         days' \in [Agents -> Nat], NEW a \in Agents
  PROVE  /\ Facts(a) \in FactSet /\ Facts(a)' \in FactSet
         /\ AtMost(Facts(a), Facts(a)', Growing)
<1>1. BaseInvariant'
  BY BaseIsInductive
<1>2. Facts(a) \in FactSet
  BY FactsAreFacts DEF BaseInvariant, RecalculationsAreSound
<1>3. AtMost(Facts(a), Facts(a)', Growing)
  BY <1>1, StepsBesideRequests, FactsGrow DEF BaseInvariant, WritesAScore
<1>4. Facts(a)' \in FactSet
  <2>1. /\ attestations'[a] \in Nat /\ days'[a] \in Nat
        /\ events'[a]["policy_violation"] \in Nat /\ events'[a]["dispute_lost"] \in Nat
    BY <1>1 DEF BaseInvariant, RangeInvariant, TypeOK, EventTypes
  <2>2. Completed(verification', a) \in Nat
    BY <1>1, CompletedAreCounted DEF BaseInvariant
  <2> QED
    BY <2>1, <2>2 DEF Facts, FactSet
<1> QED
  BY <1>2, <1>3, <1>4

LEMMA DaysAreCounted ==
  ASSUME days \in [Agents -> Nat], [RNext]_allVars
  PROVE  days' \in [Agents -> Nat]
<1>1. CASE UNCHANGED days
  BY <1>1
<1>2. CASE TrustStep
  BY <1>2 DEF TrustStep
<1>3. CASE DayPasses
  BY <1>3 DEF DayPasses
<1>4. ASSUME NEW a \in Agents, UpdateRow(a)
      PROVE  days' \in [Agents -> Nat]
  <2>1. PICK d \in 0..MaxDays : days' = [days EXCEPT ![a] = d]
    BY <1>4 DEF UpdateRow
  <2>2. d \in Nat
    BY RecalculationAssumption
  <2> QED
    BY <2>1, <2>2
<1>5. ASSUME NEW r \in Recalculators,
             (\E a \in Agents : FetchActivity(r, a)) \/ Count(r) \/ SaveScore(r) \/ GiveUp(r)
      PROVE  UNCHANGED days
  BY <1>5 DEF FetchActivity, Count, SaveScore, GiveUp
<1> QED
  BY <1>1, <1>2, <1>3, <1>4, <1>5 DEF RNext, allVars, rvars

\* What a recalculation's own step leaves behind is sound, for the facts of before.
LEMMA RecalculationSteps ==
  ASSUME BaseInvariant, RecalculationsAreSound, NEW r \in Recalculators,
         \/ (\E a \in Agents : FetchActivity(r, a)) \/ Count(r) \/ SaveScore(r) \/ GiveUp(r)
         \/ recalc'[r] = recalc[r]
  PROVE  \/ recalc'[r] = Resting
         \/ recalc'[r] \in Recalc /\ recalc'[r].agent \in Agents
              /\ SoundRecalculation(recalc'[r], Facts(recalc'[r].agent))
<1> DEFINE Goal == \/ recalc'[r] = Resting
                   \/ recalc'[r] \in Recalc /\ recalc'[r].agent \in Agents
                        /\ SoundRecalculation(recalc'[r], Facts(recalc'[r].agent))
<1>0. recalc \in [Recalculators -> Recalc] /\ days \in [Agents -> Nat]
  BY DEF RecalculationsAreSound
<1>a. \A a \in Agents : Facts(a) \in FactSet
  BY <1>0, FactsAreFacts DEF BaseInvariant
<1>1. CASE recalc'[r] = recalc[r]
  BY <1>0, <1>1 DEF RecalculationsAreSound
<1>2. ASSUME NEW a \in Agents, FetchActivity(r, a)
      PROVE  Goal
  <2> DEFINE first == [NoFacts EXCEPT !.days = days[a]]
             n == Facts(a).verifications
             q == [pc |-> "verifications", agent |-> a, origin |-> Facts(a), read |-> first,
                   fewest |-> n, most |-> n]
  <2>1. recalc'[r] = q
    BY <1>0, <1>2 DEF FetchActivity
  <2>2. first \in FactSet /\ first.days = Facts(a).days
    BY <1>0 DEF NoFacts, FactSet, Facts
  <2>3. n \in Nat
    BY <1>a DEF FactSet
  <2> HIDE DEF first, n
  <2>4. /\ q.pc = "verifications" /\ q.agent = a /\ q.origin = Facts(a) /\ q.read = first
        /\ q.fewest = n /\ q.most = n
    OBVIOUS
  <2>5. q \in Recalc
    BY <1>a, <2>2, <2>3 DEF Recalc, Queries
  <2> HIDE DEF q
  <2>6. AnsweredBefore[q.pc] = {}
    BY <2>4 DEF AnsweredBefore
  <2>7. \A k \in Growing : Facts(a)[k] =< Facts(a)[k]
    <3>1. \A k \in Growing : Facts(a)[k] \in Nat
      BY <1>a DEF FactSet, Growing
    <3> QED
      BY <3>1
  <2>8. n =< n /\ n = Facts(a).verifications
    BY <2>3 DEF n
  <2>9. SoundRecalculation(q, Facts(a))
    BY <1>a, <2>2, <2>3, <2>4, <2>6, <2>7, <2>8 DEF SoundRecalculation, AtMost, Queries
  <2> QED
    BY <2>1, <2>4, <2>5, <2>9
<1>3. CASE Count(r)
  <2> DEFINE q == recalc[r]
             f == Facts(q.agent)
             read == [q.read EXCEPT ![q.pc] = f[q.pc]]
             p == [q EXCEPT !.pc = After[q.pc], !.read = read]
  <2>1. q.pc \in Queries /\ q \in Recalc
    BY <1>0, <1>3, QueriesInOrder DEF Count
  <2>2. q # Resting
    BY <2>1 DEF Queries, Growing, Resting
  <2>3. q.agent \in Agents /\ SoundRecalculation(q, f) /\ f \in FactSet
    BY <1>a, <2>2 DEF RecalculationsAreSound
  <2>4. recalc'[r] = p
    BY <1>0, <1>3, <2>1 DEF Count, Recalc
  <2>5. /\ p.pc = After[q.pc] /\ p.origin = q.origin /\ p.read = read /\ p.agent = q.agent
        /\ p.fewest = q.fewest /\ p.most = q.most
    BY <2>1 DEF Recalc
  <2>6. SoundRecalculation(p, f)
    BY <2>1, <2>3, <2>5, SoundAfterCount
  <2>7. p \in Recalc
    BY <2>1, <2>5, <2>6 DEF SoundRecalculation, Recalc
  <2> QED
    BY <2>3, <2>4, <2>5, <2>6, <2>7
<1>4. CASE SaveScore(r) \/ GiveUp(r)
  BY <1>0, <1>4 DEF SaveScore, GiveUp
<1> QED
  BY <1>1, <1>2, <1>3, <1>4

LEMMA WatchingSteps ==
  ASSUME NEW q \in Recalc, NEW n \in Nat
  PROVE  /\ Watching(q, n) \in Recalc
         /\ Watching(q, n).pc = q.pc /\ Watching(q, n).agent = q.agent
         /\ Watching(q, n).origin = q.origin /\ Watching(q, n).read = q.read
         /\ Watching(q, n).fewest =< q.fewest /\ q.most =< Watching(q, n).most
         /\ Watching(q, n).fewest =< n /\ n =< Watching(q, n).most
<1> DEFINE f == Smaller(q.fewest, n)
           m == Larger(q.most, n)
           p == [q EXCEPT !.fewest = f, !.most = m]
<1>1. /\ f \in Nat /\ m \in Nat /\ f =< q.fewest /\ f =< n /\ q.most =< m /\ n =< m
  BY DEF Smaller, Larger, Recalc
<1> HIDE DEF f, m
<1>2. /\ p \in Recalc /\ p.pc = q.pc /\ p.agent = q.agent /\ p.origin = q.origin
      /\ p.read = q.read /\ p.fewest = f /\ p.most = m
  BY <1>1 DEF Recalc
<1>3. Watching(q, n) = p
  BY DEF Watching, f, m
<1> QED
  BY <1>1, <1>2, <1>3

LEMMA RecalculationsStaySound ==
  ASSUME BaseInvariant, RecalculationsAreSound, [RNext]_allVars
  PROVE  RecalculationsAreSound'
<1>0. recalc \in [Recalculators -> Recalc] /\ days' \in [Agents -> Nat]
  BY DaysAreCounted DEF RecalculationsAreSound
<1>1. Resting \in Recalc
  BY DEF Resting, NoFacts, Recalc, FactSet
<1>2. recalc' = [r \in Recalculators |-> recalc'[r]]
  BY <1>0 DEF RNext, TrustStep, DayPasses, UpdateRow, FetchActivity, Count, SaveScore, GiveUp,
              allVars, rvars
<1>3. ASSUME NEW r \in Recalculators, recalc'[r] # Resting
      PROVE  /\ recalc'[r] \in Recalc /\ recalc'[r].agent \in Agents
             /\ SoundRecalculation(recalc'[r], Facts(recalc[r].agent)')
  <2> DEFINE Goal(a) == /\ recalc'[r] \in Recalc /\ recalc'[r].agent = a
                        /\ SoundRecalculation(recalc'[r], Facts(a)')
  <2>1. CASE TrustStep
    <3>1. recalc[r] # Resting
      BY <1>3, <2>1 DEF TrustStep
    <3>2. recalc[r].agent \in Agents
      BY <3>1 DEF RecalculationsAreSound
    <3>3. PICK a \in Agents : a = recalc[r].agent
      BY <3>2
    <3>4. recalc'[r] = Watching(recalc[r], Completed(verification', a))
      BY <2>1, <3>1, <3>3 DEF TrustStep
    <3>5. SoundRecalculation(recalc[r], Facts(a)) /\ recalc[r] \in Recalc
      BY <1>0, <3>1, <3>3 DEF RecalculationsAreSound
    <3>6. /\ Facts(a) \in FactSet /\ Facts(a)' \in FactSet
          /\ AtMost(Facts(a), Facts(a)', Growing)
      BY <1>0, FactsBesideRequests
    <3>7. (Facts(a)').verifications = Completed(verification', a)
      BY DEF Facts
    <3>8. Completed(verification', a) \in Nat
      BY <3>6, <3>7 DEF FactSet
    <3>9. Goal(a)
      <4> DEFINE p == recalc'[r]
                 g == Facts(a)'
      <4>1. /\ p \in Recalc /\ p.pc = recalc[r].pc /\ p.agent = recalc[r].agent
            /\ p.origin = recalc[r].origin /\ p.read = recalc[r].read
            /\ p.fewest =< recalc[r].fewest /\ recalc[r].most =< p.most
            /\ p.fewest =< g.verifications /\ g.verifications =< p.most
        BY <3>4, <3>5, <3>7, <3>8, WatchingSteps
      <4>2. p.fewest \in Nat /\ p.most \in Nat
        BY <4>1 DEF Recalc
      <4>3. g \in FactSet /\ AtMost(Facts(a), g, Growing)
        BY <3>6
      <4> HIDE DEF p, g
      <4>4. SoundRecalculation(p, g)
        BY <3>5, <3>6, <4>1, <4>2, <4>3, SoundWhileFactsChange
      <4> QED
        BY <3>3, <4>1, <4>4 DEF p, g
    <3> QED
      BY <3>9 DEF Facts
  <2>2. CASE ~TrustStep
    <3>1. UNCHANGED verification
      BY <2>2 DEF RNext, DayPasses, UpdateRow, FetchActivity, Count, SaveScore, GiveUp,
                  allVars, vars
    <3>2. \/ (\E a \in Agents : FetchActivity(r, a)) \/ Count(r) \/ SaveScore(r) \/ GiveUp(r)
          \/ recalc'[r] = recalc[r]
      BY <1>0, <2>2 DEF RNext, DayPasses, UpdateRow, FetchActivity, Count, SaveScore, GiveUp,
                        allVars, rvars
    <3>3. /\ recalc'[r] \in Recalc /\ recalc'[r].agent \in Agents
          /\ SoundRecalculation(recalc'[r], Facts(recalc'[r].agent))
      BY <1>3, <3>2, RecalculationSteps
    <3>4. PICK a \in Agents : a = recalc'[r].agent
      BY <3>3
    <3>5. /\ Facts(a) \in FactSet /\ Facts(a)' \in FactSet
          /\ AtMost(Facts(a), Facts(a)', Growing)
      BY <1>0, FactsBesideRequests
    <3>6. (Facts(a)').verifications = Facts(a).verifications
      BY <3>1 DEF Facts, Completed
    <3>7. Goal(a)
      <4> DEFINE p == recalc'[r]
                 g == Facts(a)'
      <4>1. p \in Recalc /\ p.agent = a /\ SoundRecalculation(p, Facts(a))
        BY <3>3, <3>4
      <4>2. g \in FactSet /\ AtMost(Facts(a), g, Growing) /\ g.verifications = Facts(a).verifications
        BY <3>5, <3>6
      <4> HIDE DEF p, g
      <4>3. /\ p.fewest \in Nat /\ p.most \in Nat /\ p.fewest =< p.fewest /\ p.most =< p.most
            /\ p.fewest =< g.verifications /\ g.verifications =< p.most
        BY <4>1, <4>2 DEF Recalc, SoundRecalculation
      <4>4. SoundRecalculation(p, g)
        BY <3>5, <4>1, <4>2, <4>3, SoundWhileFactsChange
      <4> QED
        BY <4>1, <4>4 DEF p, g
    <3> QED
      BY <3>7 DEF Facts
  <2> QED
    BY <2>1, <2>2
<1>4. \A r \in Recalculators : recalc'[r] \in Recalc
  BY <1>1, <1>3
<1>5. recalc' \in [Recalculators -> Recalc]
  BY <1>2, <1>4
<1> QED
  BY <1>0, <1>3, <1>5 DEF RecalculationsAreSound

\* More bonuses raise the score, more penalties lower it.
LEMMA ReputationIsMonotone ==
  ASSUME NEW f \in FactSet, NEW g \in FactSet, f.days = g.days,
         f.verifications =< g.verifications, f.attestations =< g.attestations,
         g.violations =< f.violations, g.disputes =< f.disputes
  PROVE  CalculateReputation(f) =< CalculateReputation(g)
<1> DEFINE sum(h) == 500 + 200 + h.verifications * 50 + h.attestations * 25
                       - h.violations * 100 - h.disputes * 150 - h.days
<1>1. sum(f) \in Int /\ sum(g) \in Int /\ sum(f) =< sum(g)
  BY DEF FactSet
<1>2. \A m, n \in Int : m =< n =>
        AtMostThousand(AtLeastZero(m)) =< AtMostThousand(AtLeastZero(n))
  BY DEF AtMostThousand, AtLeastZero
<1> HIDE DEF sum
<1>3. AtMostThousand(AtLeastZero(sum(f))) =< AtMostThousand(AtLeastZero(sum(g)))
  BY <1>1, <1>2
<1> QED
  BY <1>3 DEF CalculateReputation, sum

LEMMA SavedIsBracketed ==
  ASSUME BaseInvariant, RecalculationsAreSound, NEW r \in Recalculators, recalc[r].pc = "save",
         recalc[r].agent \in Agents,
         score' = [score EXCEPT ![recalc[r].agent] = CalculateReputation(recalc[r].read)]
  PROVE  LET q == recalc[r]
             then == q.origin
             now == Facts(q.agent)
             worst == [then EXCEPT !.verifications = q.fewest,
                                   !.violations = now.violations, !.disputes = now.disputes]
             best == [then EXCEPT !.verifications = q.most, !.attestations = now.attestations]
         IN score'[q.agent] \in CalculateReputation(worst)..CalculateReputation(best)
<1> DEFINE q == recalc[r]
           read == q.read
           then == q.origin
           now == Facts(q.agent)
           worst == [then EXCEPT !.verifications = q.fewest,
                                 !.violations = now.violations, !.disputes = now.disputes]
           best == [then EXCEPT !.verifications = q.most, !.attestations = now.attestations]
<1>1. q # Resting
  BY DEF Resting
<1>2. /\ SoundRecalculation(q, now) /\ now \in FactSet
      /\ AnsweredBefore[q.pc] = Growing
  BY <1>1, QueriesInOrder, FactsAreFacts DEF RecalculationsAreSound, BaseInvariant
<1>3. /\ then \in FactSet /\ read \in FactSet /\ read.days = then.days
      /\ q.fewest \in Nat /\ q.most \in Nat
      /\ q.fewest =< read.verifications /\ read.verifications =< q.most
      /\ \A k \in Growing : then[k] =< read[k] /\ read[k] =< now[k]
  BY <1>2 DEF SoundRecalculation, AtMost
<1>4. score'[q.agent] = CalculateReputation(read)
  BY DEF BaseInvariant, RangeInvariant, TypeOK
<1>5. /\ then.attestations =< read.attestations /\ read.attestations =< now.attestations
      /\ then.violations =< read.violations /\ read.violations =< now.violations
      /\ then.disputes =< read.disputes /\ read.disputes =< now.disputes
  BY <1>3 DEF Growing
<1> HIDE DEF now, then, read
<1>6. /\ worst \in FactSet /\ worst.days = then.days
      /\ worst.verifications = q.fewest /\ worst.attestations = then.attestations
      /\ worst.violations = now.violations /\ worst.disputes = now.disputes
  BY <1>2, <1>3 DEF FactSet
<1>7. /\ best \in FactSet /\ best.days = then.days
      /\ best.verifications = q.most /\ best.attestations = now.attestations
      /\ best.violations = then.violations /\ best.disputes = then.disputes
  BY <1>2, <1>3 DEF FactSet
<1> HIDE DEF worst, best
<1>8. /\ CalculateReputation(worst) =< CalculateReputation(read)
      /\ CalculateReputation(read) =< CalculateReputation(best)
  BY <1>3, <1>5, <1>6, <1>7, ReputationIsMonotone
<1>9. \A n \in Scores : n \in Int
  BY DEF Scores
<1>10. /\ CalculateReputation(worst) \in Int /\ CalculateReputation(read) \in Int
       /\ CalculateReputation(best) \in Int
  BY <1>3, <1>6, <1>7, <1>9, ReputationInRange
<1>11. score'[q.agent] \in CalculateReputation(worst)..CalculateReputation(best)
  BY <1>4, <1>8, <1>10
<1> QED
  BY <1>11 DEF worst, best, now, then

\* The score FetchFactorsAndRecalculate saves lies between the scores of the facts
\* at its two ends, though its five counts come from five moments
\* (reputation.go:130-156): for any number of recalculations, of requests (double
\* results among them) and of AgentRegistry.Update's writes, whatever is committed
\* between the counts.
THEOREM SavedScoresAreBracketed == RSpec => SavedScoreIsBracketed
<1> DEFINE Saved(r) == recalc[r].pc = "save" /\ recalc'[r] = Resting
                         /\ score'[recalc[r].agent] # score[recalc[r].agent]
           Bracketed(r) ==
             LET q == recalc[r]
                 then == q.origin
                 now == Facts(q.agent)
                 worst == [then EXCEPT !.verifications = q.fewest,
                                       !.violations = now.violations, !.disputes = now.disputes]
                 best == [then EXCEPT !.verifications = q.most, !.attestations = now.attestations]
             IN score'[q.agent] \in CalculateReputation(worst)..CalculateReputation(best)
<1>1. RInit => BaseInvariant /\ RecalculationsAreSound
  <2> SUFFICES ASSUME RInit
               PROVE  BaseInvariant /\ RecalculationsAreSound
    OBVIOUS
  <2>1. Init
    BY DEF RInit
  <2>2. \A a \in Agents : CompletedFor(verification, a) = {}
    BY <2>1 DEF Init, NoVerification, CompletedFor
  <2>3. CompletedAreFinite
    BY <2>2, FS_EmptySet DEF CompletedAreFinite
  <2>4. Resting \in Recalc
    BY DEF Resting, NoFacts, Recalc, FactSet
  <2>5. RecalculationsAreSound
    BY <2>4 DEF RInit, RecalculationsAreSound
  <2> QED
    BY <2>1, <2>3, <2>5, InitSatisfiesRange DEF BaseInvariant
<1>2. BaseInvariant /\ RecalculationsAreSound /\ [RNext]_allVars
        => BaseInvariant' /\ RecalculationsAreSound'
  BY BaseIsInductive, RecalculationsStaySound
<1>3. BaseInvariant /\ RecalculationsAreSound /\ [RNext]_allVars
        => [\A r \in Recalculators : Saved(r) => Bracketed(r)]_allVars
  <2> SUFFICES ASSUME BaseInvariant, RecalculationsAreSound, [RNext]_allVars,
                      NEW r \in Recalculators, Saved(r)
               PROVE  Bracketed(r)
    OBVIOUS
  <2>0. recalc[r].agent \in Agents /\ recalc[r] # Resting /\ recalc \in [Recalculators -> Recalc]
    BY DEF RecalculationsAreSound, Resting
  <2>1. CASE SaveScore(r)
    <3>1. score' = [score EXCEPT ![recalc[r].agent] = CalculateReputation(recalc[r].read)]
      BY <2>1 DEF SaveScore
    <3> QED
      BY <2>0, <3>1, SavedIsBracketed
  <2>2. ASSUME NEW u \in Recalculators, SaveScore(u), u # r
        PROVE  FALSE
    BY <2>0, <2>2 DEF SaveScore
  <2>3. ASSUME NEW u \in Recalculators,
               (\E a \in Agents : FetchActivity(u, a)) \/ Count(u) \/ GiveUp(u)
        PROVE  FALSE
    BY <2>3 DEF FetchActivity, Count, GiveUp, vars
  <2>4. ASSUME DayPasses \/ (\E a \in Agents : UpdateRow(a)) \/ UNCHANGED allVars
        PROVE  FALSE
    BY <2>0, <2>4 DEF DayPasses, UpdateRow, allVars, rvars
  <2>5. ASSUME TrustStep
        PROVE  FALSE
    <3>1. recalc'[r] = Watching(recalc[r], Completed(verification', recalc[r].agent))
      BY <2>0, <2>5 DEF TrustStep
    <3>2. recalc'[r].pc = "save"
      BY <2>0, <3>1 DEF Watching, Recalc
    <3> QED
      BY <3>2 DEF Resting
  <2> QED
    BY <2>1, <2>2, <2>3, <2>4, <2>5 DEF RNext
<1> QED
  BY <1>1, <1>2, <1>3, PTL DEF RSpec, SavedScoreIsBracketed
=============================================================================
