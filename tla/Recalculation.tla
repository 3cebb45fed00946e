--------------------------- MODULE Recalculation ---------------------------
(***************************************************************************)
(* The two writers of agents.reputation_score that are no transactions of  *)
(* Trust.  FetchFactorsAndRecalculate (reputation.go) computes the score   *)
(* anew from the tables: five counts and one UPDATE, each a statement of   *)
(* its own that sees what is committed when it runs.  AgentRegistry.Update *)
(* (registry.go) writes what its caller has read at some time.             *)
(***************************************************************************)
EXTENDS Trust

CONSTANTS
  Recalculators,  \* the goroutines that recalculate
  Written,        \* the scores AgentRegistry.Update is called with
  MaxRecalcs,     \* bound: recalculations started in all
  MaxDays         \* bound: the days an agent is followed without activity

ASSUME RecalculationAssumption ==
  Written \subseteq Scores /\ MaxRecalcs \in Nat /\ MaxDays \in Nat

VARIABLES
  days,     \* whole days since agents.last_active_at
  recalc,   \* what each recalculation has read so far
  recalcs   \* how many have been started

rvars == <<days, recalc, recalcs>>
allVars == <<vars, rvars>>

\* The six factors; CompletionRate is always 1.0.
Completed(rows, a) ==
  Cardinality({v \in Verifications : rows[v].verifier = a /\ rows[v].status = "completed"})

Facts(a) ==
  [days |-> days[a], verifications |-> Completed(verification, a), attestations |-> attestations[a],
   violations |-> events[a]["policy_violation"], disputes |-> events[a]["dispute_lost"]]

CalculateReputation(f) ==
  AtMostThousand(AtLeastZero(
    500 + 200 + f.verifications * 50 + f.attestations * 25
        - f.violations * 100 - f.disputes * 150 - f.days))

NoFacts == [days |-> 0, verifications |-> 0, attestations |-> 0,
            violations |-> 0, disputes |-> 0]

\* The queries, in the order they are sent.
After == [verifications |-> "attestations", attestations |-> "violations",
          violations |-> "disputes", disputes |-> "save"]

\* Three history fields: "origin" holds the facts when the recalculation began,
\* "fewest" and "most" the smallest and the largest number of verifications that
\* were completed since.  (It can fall: an overlapping second result turns a
\* completed verification into a failed one.)
Resting == [pc |-> "idle", agent |-> None, read |-> NoFacts, origin |-> NoFacts,
            fewest |-> 0, most |-> 0]

RInit ==
  /\ Init
  /\ days = [a \in Agents |-> 0]
  /\ recalc = [r \in Recalculators |-> Resting]
  /\ recalcs = 0

\* Every commit that changes a score stamps last_active_at, except Forget's.
Stamped(a) ==
  Len(log'[a]) > Len(log[a]) /\ log'[a][Len(log'[a])].op # "forget"

Smaller(m, n) == IF m =< n THEN m ELSE n
Larger(m, n) == IF m =< n THEN n ELSE m

\* The history of a recalculation in progress, after n completed verifications.
Watching(q, n) == [q EXCEPT !.fewest = Smaller(@, n), !.most = Larger(@, n)]

TrustStep ==
  /\ Next
  /\ days' = [a \in Agents |-> IF Stamped(a) THEN 0 ELSE days[a]]
  /\ recalc' = [r \in Recalculators |->
       IF recalc[r] = Resting THEN Resting
       ELSE Watching(recalc[r], Completed(verification', recalc[r].agent))]
  /\ UNCHANGED recalcs

DayPasses ==
  /\ \E a \in Agents : Registered(a) /\ days[a] < MaxDays
  /\ days' = [a \in Agents |-> IF Registered(a) /\ days[a] < MaxDays
                                 THEN days[a] + 1 ELSE days[a]]
  /\ UNCHANGED <<vars, recalc, recalcs>>

\* AgentRegistry.Update: the score and the activity of its caller go into the row,
\* whatever happened to it since they were read.
UpdateRow(a) ==
  /\ Registered(a)
  /\ started < MaxOps
  /\ started' = started + 1
  /\ \A w \in Workers : ~HoldsAgent(w, a)
  /\ \E n \in Written, d \in 0..MaxDays :
       score' = [score EXCEPT ![a] = n] /\ days' = [days EXCEPT ![a] = d]
  /\ UNCHANGED <<key, verification, events, attestations, tx, log, recalc, recalcs>>

\* SELECT last_active_at.
FetchActivity(r, a) ==
  /\ recalc[r] = Resting
  /\ recalcs < MaxRecalcs
  /\ Registered(a)
  /\ recalcs' = recalcs + 1
  /\ recalc' = [recalc EXCEPT ![r] =
       [pc |-> "verifications", agent |-> a, origin |-> Facts(a),
        read |-> [NoFacts EXCEPT !.days = days[a]],
        fewest |-> Facts(a).verifications, most |-> Facts(a).verifications]]
  /\ UNCHANGED <<vars, days>>

\* Faulty variant: the query for violations has no filter on the event type.
CountAllEvents(r) ==
  LET q == recalc[r]
      f == Facts(q.agent)
  IN
  /\ q.pc \in DOMAIN After
  /\ recalc' = [recalc EXCEPT ![r].pc = After[q.pc],
                              ![r].read[q.pc] = IF q.pc = "violations"
                                                THEN f.violations + f.disputes ELSE f[q.pc]]
  /\ UNCHANGED <<vars, days, recalcs>>

\* One SELECT COUNT(*).
Count(r) ==
  LET q == recalc[r] IN
  /\ q.pc \in DOMAIN After
  /\ recalc' = [recalc EXCEPT ![r].pc = After[q.pc],
                              ![r].read[q.pc] = Facts(q.agent)[q.pc]]
  /\ UNCHANGED <<vars, days, recalcs>>

\* UPDATE agents SET reputation_score, outside any transaction: it waits for
\* the row like any UPDATE, and commits at once.
SaveScore(r) ==
  LET a == recalc[r].agent
      n == CalculateReputation(recalc[r].read)
  IN
  /\ recalc[r].pc = "save"
  /\ \A w \in Workers : ~HoldsAgent(w, a)
  /\ score' = [score EXCEPT ![a] = n]
  /\ recalc' = [recalc EXCEPT ![r] = Resting]
  /\ UNCHANGED <<key, verification, events, attestations, tx, started, log, days, recalcs>>

\* A query fails: the score is left as it is.
GiveUp(r) ==
  /\ recalc[r] # Resting
  /\ recalc' = [recalc EXCEPT ![r] = Resting]
  /\ UNCHANGED <<vars, days, recalcs>>

RNext ==
  \/ TrustStep
  \/ DayPasses
  \/ \E a \in Agents : UpdateRow(a)
  \/ \E r \in Recalculators :
       (\E a \in Agents : FetchActivity(r, a)) \/ Count(r) \/ SaveScore(r) \/ GiveUp(r)

RSpec == RInit /\ [][RNext]_allVars

-----------------------------------------------------------------------------
(* Properties.                                                             *)

\* The counts of reputation.go:130-156 come from different moments, and requests
\* commit in between.  The score saved nevertheless lies between two scores: that of
\* the bonuses at the start with the penalties at the end, and that of the bonuses
\* at the end with the penalties at the start.  Only the completed verifications can
\* also fall, when two results of one verification overlap, so for them it is the
\* fewest and the most there were.  With nothing committed in between it is exact.
SavedScoreIsBracketed ==
  [][\A r \in Recalculators :
       LET q == recalc[r]
           then == q.origin
           now == Facts(q.agent)
           worst == [then EXCEPT !.verifications = q.fewest,
                                 !.violations = now.violations, !.disputes = now.disputes]
           best == [then EXCEPT !.verifications = q.most, !.attestations = now.attestations]
           saved == q.pc = "save" /\ recalc'[r] = Resting /\ score'[q.agent] # score[q.agent]
       IN saved => score'[q.agent] \in CalculateReputation(worst)..CalculateReputation(best)]_allVars
=============================================================================
