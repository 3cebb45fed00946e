-------------------------- MODULE TrustProperties --------------------------
(***************************************************************************)
(* The properties of the trust layer, and the ledger it implements.        *)
(***************************************************************************)
EXTENDS Trust

LogEntry == [op : {"register"} \cup ScoreOps, ver : Verifications \cup {None},
             delta : Int, seen : Nat, first : BOOLEAN, score : Int]

Verification ==
  [status : {"none", "pending", "completed", "failed"},
   target : Agents \cup {None}, verifier : Agents \cup {None}]

Transaction ==
  [op : {"idle", "verify"} \cup ScoreOps,
   pc : {"idle", "claim", "score", "update", "commit", "insert"},
   agent : Agents \cup {None}, peer : Agents \cup {None},
   ver : Verifications \cup {None}, event : Events \cup {None},
   read : Int, seen : Nat, first : BOOLEAN]

\* Type invariant: the shape of the trust tables and of a transaction of
\* internal/trust in progress.
TypeOK ==
  /\ key \in [Agents -> {"absent", "set", "cleared"}]
  /\ score \in [Agents -> Int]
  /\ verification \in [Verifications -> Verification]
  /\ events \in [Agents -> [EventTypes -> Nat]]
  /\ attestations \in [Agents -> Nat]
  /\ tx \in [Workers -> Transaction]
  /\ started \in Nat
  /\ log \in [Agents -> Seq(LogEntry)]

\* Every committed score lies in 0..1000.  The attestation and approval paths
\* clamp only from above and the rejection path only from below
\* (attestation.go:83, verification.go:125 and 138), so this holds only because
\* what they read from other transactions is itself in range.
ScoreInRange == \A a \in Agents : score[a] \in Scores

Clamp(n) == AtMostThousand(AtLeastZero(n))

\* Where a score comes from: each committed score is one change applied to a
\* score committed earlier for the same agent, never to a value that was rolled
\* back, half-written or another agent's, whatever transactions of LogEvent,
\* Save, SubmitVerificationResult and Forget interleave.
ScoreHasProvenance ==
  \A a \in Agents : Registered(a) =>
    /\ log[a][Len(log[a])].score = score[a]
    /\ \A i \in 2..Len(log[a]) :
         LET e == log[a][i] IN
         /\ e.seen \in 1..(i - 1)
         /\ e.score = IF e.op = "forget" THEN 0
                      ELSE Clamp(log[a][e.seen].score + e.delta)

Entries(a, ops, v) ==
  {i \in 1..Len(log[a]) : log[a][i].op \in ops /\ log[a][i].ver = v}

\* A verification is completed only if its verifier was paid for it and failed
\* only if its target was charged for it (verification.go:115-161).
ResultsTakeEffect ==
  \A v \in Verifications :
    LET r == verification[v] IN
    /\ r.status = "completed" => Entries(r.verifier, {"approve"}, v) # {}
    /\ r.status = "failed" => Entries(r.target, {"reject"}, v) # {}

\* The tables FetchFactorsAndRecalculate counts agree with the scores
\* (reputation.go:137-156): there is one attestation row per attestation bonus and
\* one event row per committed LogEvent or rejection.
RowsMatchScores ==
  \A a \in Agents :
    /\ attestations[a] = Cardinality(Entries(a, {"attest"}, None))
    /\ events[a]["policy_violation"] + events[a]["dispute_lost"] + events[a]["other"]
         = Cardinality({i \in 1..Len(log[a]) : log[a][i].op \in {"event", "reject"}})

\* What is recorded and what is paid are one transaction (verification.go:74,
\* attestation.go:58, reputation.go:55): whatever aborts, and at whichever
\* statement, no result, attestation or event is left without its effect on a
\* score, and no effect without its record.
RecordsMatchEffects == ResultsTakeEffect /\ RowsMatchScores

\* An agent that was forgotten never gets a usable key back: its row stays, so
\* registry.go's INSERT of the same DID is refused by the primary key.
ForgottenForGood ==
  [][\A a \in Agents : key[a] = "cleared" => key'[a] = "cleared"]_vars

\* The row of an open transaction that w's next statement has to wait for.
Waits(w, u) ==
  /\ u # w
  /\ \/ tx[w].pc = "claim" /\ HoldsVerification(u, tx[w].ver)
     \/ tx[w].pc = "update" /\ HoldsAgent(u, tx[w].agent)

\* No deadlock: among any transactions of SubmitVerificationResult, LogEvent,
\* Save and Forget there is one that waits for none of them, because all of them
\* lock a verification before an agent and at most one of each.
NoCircularWait ==
  \A waiting \in (SUBSET Workers) \ {{}} :
    \E w \in waiting : \A u \in waiting : ~Waits(w, u)

-----------------------------------------------------------------------------
(* What makes the score invariants inductive: transactions in progress     *)
(* hold scores that were committed, for agents and rows that exist.        *)

InTransaction == {"claim", "score", "update", "commit"}

SoundTransaction(t) ==
  /\ t.read \in Scores
  /\ t.pc \in InTransaction =>
       t.op \in ScoreOps /\ t.agent \in Agents /\ Registered(t.agent)
  /\ t.pc \in {"claim", "score"} => t.op \in ResultOps
  /\ t.op = "event" => t.event \in Events
  /\ t.op \in ResultOps =>
       t.ver \in Verifications /\ verification[t.ver].status # "none"
  /\ t.pc = "insert" => t.agent \in Agents /\ t.peer \in Agents /\ Registered(t.peer)

\* Every transaction of internal/trust works on a registered agent, on a
\* verification that exists and from a score in range.
TransactionsAreSound == \A w \in Workers : SoundTransaction(tx[w])

\* The foreign keys of verifications (000002_trust_layer.up.sql), and the check
\* of verification.go:45.
VerificationsAreSound ==
  \A v \in Verifications :
    verification[v].status # "none" =>
      /\ verification[v].target \in Agents /\ Registered(verification[v].target)
      /\ verification[v].verifier \in Agents /\ Registered(verification[v].verifier)
      /\ verification[v].verifier # verification[v].target

ReadsCommitted(t) ==
  t.pc \in {"update", "commit"} =>
    /\ t.seen \in 1..Len(log[t.agent])
    /\ t.op # "forget" => t.read = log[t.agent][t.seen].score

\* What a transaction has read is a score its agent has had.
ReadsAreCommitted == \A w \in Workers : ReadsCommitted(tx[w])

\* An agent has a history exactly when it has a row.
HistoryMatchesRows ==
  \A a \in Agents :
    /\ Registered(a) <=> log[a] # <<>>
    /\ Registered(a) => log[a][Len(log[a])].score = score[a]

\* The inductive invariant: what every commit of internal/trust relies on.
RangeInvariant ==
  TypeOK /\ ScoreInRange /\ TransactionsAreSound /\ VerificationsAreSound

HistoryInvariant == ReadsAreCommitted /\ HistoryMatchesRows /\ ScoreHasProvenance

TrustInvariant == RangeInvariant /\ HistoryInvariant

-----------------------------------------------------------------------------
(* Results.                                                                *)

\* A verification gets one result: the status check of verification.go:95 is
\* meant to refuse the second.
AtMostOneResult ==
  \A v \in Verifications :
    LET r == verification[v] IN
    r.status # "none" =>
      Cardinality(Entries(r.verifier, ResultOps, v))
        + Cardinality(Entries(r.target, ResultOps, v)) =< 1

\* What the check does achieve, with any number of requests at once: whoever gets a
\* result applied had read the row of the verification when none had been.  So all
\* results beyond the first were under way when the first was committed, and one
\* submitted after that is refused, whatever aborts and however late it commits.
RepeatedResultsOverlap ==
  \A a \in Agents : \A i \in 1..Len(log[a]) :
    log[a][i].op \in ResultOps => log[a][i].first

-----------------------------------------------------------------------------
(* The abstract ledger.                                                    *)

Ledger == INSTANCE ReputationLedger WITH
  Amounts <- {AttestationBonus, VerifierBonus, TargetPenalty} \cup {e.delta : e \in Events},
  Opening <- RegisteredScore,
  Closed  <- None,
  balance <- [a \in Agents |-> IF Registered(a) THEN score[a] ELSE None],
  past    <- [a \in Agents |-> {log[a][i].score : i \in 1..Len(log[a])}]

\* Another transaction has committed a score for the agent since w read it.
Overtaken(w) == tx[w].pc = "commit" /\ tx[w].seen < Len(log[tx[w].agent])

\* When a score change is lost: a step of the trust layer that is no step of the
\* exact ledger is the commit of a transaction that was overtaken.  All others,
\* among any number of concurrent requests of which some abort, add their change to
\* the current score, as attestation.go:74, verification.go:119 and LogEvent say.
ExactUnlessOvertaken ==
  [][\/ Ledger!Next
     \/ UNCHANGED Ledger!ledger
     \/ \E w \in Workers : Overtaken(w) /\ tx'[w] = Idle]_vars

\* Served concurrently it is the ledger whose credits may start from an earlier
\* balance: a lost update loses whole transactions of LogEvent, Save and
\* SubmitVerificationResult, and invents nothing.
ImplementsStaleLedger == Ledger!StaleSpec
=============================================================================
