------------------------------- MODULE Trust -------------------------------
(***************************************************************************)
(* The trust layer (internal/trust): agents and their reputation scores,   *)
(* peer verifications, reputation events and attestations, all of them     *)
(* rows of PostgreSQL written by concurrent request goroutines.            *)
(*                                                                         *)
(* Every transaction runs at READ COMMITTED (BeginTx with nil options):    *)
(*   - a SELECT takes no lock and returns the last committed value;        *)
(*   - an UPDATE waits until no other open transaction has updated the     *)
(*     row, and keeps the row until its transaction ends;                  *)
(*   - what a transaction has written is invisible until it commits.       *)
(* So a transaction in progress is a private record tx[w], and the tables  *)
(* change only in the commit actions.  A statement that neither reads a    *)
(* shared row nor waits for one (BEGIN, the INSERT of an event or of an    *)
(* attestation) is folded into the statement next to it.                   *)
(***************************************************************************)
EXTENDS Integers, Sequences, FiniteSets

CONSTANTS
  Agents,         \* the DIDs that may be registered
  Verifications,  \* the ids the verifications table may hand out
  Workers,        \* the request goroutines
  Events,         \* the (event type, score change) pairs LogEvent is called with
  MaxOps,         \* bound: the requests the workers take in all
  None            \* the absent agent, verification or event

Scores == 0..1000
RegisteredScore == 500
VerifierThreshold == 500
AttestationBonus == 25
VerifierBonus == 50
TargetPenalty == -100

\* The event types the code tells apart; LogEvent stores any other one too.
EventTypes == {"policy_violation", "dispute_lost", "other"}

ASSUME TrustAssumption ==
  /\ Events \subseteq [type : EventTypes, delta : Int]
  /\ MaxOps \in Nat
  /\ None \notin Agents
  /\ None \notin Verifications
  /\ None \notin Events

VARIABLES
  key,           \* agents.public_key: no row, a key, or the empty key Forget writes
  score,         \* agents.reputation_score
  verification,  \* the rows of verifications
  events,        \* how many rows reputation_events holds, by agent and type
  attestations,  \* how many rows attestations holds, by agent
  tx,            \* what each worker is in the middle of
  started,       \* how many requests have been taken
  log            \* history: what each commit did to each agent's score

tables == <<key, score, verification, events, attestations, log>>
vars == <<key, score, verification, events, attestations, tx, started, log>>

ResultOps == {"approve", "reject"}
ScoreOps == {"event", "attest", "forget"} \cup ResultOps

NoVerification == [status |-> "none", target |-> None, verifier |-> None]

\* Two history fields: "seen" is how long the agent's log was when its score was
\* read, "first" that the verification had no result when its row was read.
Idle == [op |-> "idle", pc |-> "idle", agent |-> None, peer |-> None,
         ver |-> None, event |-> None, read |-> 0, seen |-> 0, first |-> TRUE]

Registered(a) == key[a] # "absent"

Init ==
  /\ key = [a \in Agents |-> "absent"]
  /\ score = [a \in Agents |-> 0]
  /\ verification = [v \in Verifications |-> NoVerification]
  /\ events = [a \in Agents |-> [t \in EventTypes |-> 0]]
  /\ attestations = [a \in Agents |-> 0]
  /\ tx = [w \in Workers |-> Idle]
  /\ started = 0
  /\ log = [a \in Agents |-> <<>>]

-----------------------------------------------------------------------------
(* The arithmetic of each transaction.                                     *)

AtLeastZero(n) == IF n < 0 THEN 0 ELSE n
AtMostThousand(n) == IF n > 1000 THEN 1000 ELSE n

\* Faulty variant: an approval pays the attestation bonus on top.
ChangePaidTwice(t) ==
  CASE t.op = "event"   -> t.event.delta
    [] t.op = "attest"  -> AttestationBonus
    [] t.op = "approve" -> VerifierBonus + AttestationBonus
    [] t.op = "reject"  -> TargetPenalty
    [] OTHER            -> 0

Change(t) ==
  CASE t.op = "event"   -> t.event.delta
    [] t.op = "attest"  -> AttestationBonus
    [] t.op = "approve" -> VerifierBonus
    [] t.op = "reject"  -> TargetPenalty
    [] OTHER            -> 0

\* Faulty variant: a rejection's penalty is not clamped.
NewScoreUnclampedPenalty(t) ==
  CASE t.op = "event"  -> AtMostThousand(AtLeastZero(t.read + Change(t)))
    [] t.op \in {"attest", "approve"} -> AtMostThousand(t.read + Change(t))
    [] t.op = "reject" -> t.read + Change(t)
    [] OTHER           -> 0

\* Faulty variant: LogEvent clamps from below only.
NewScoreHalfClampedEvent(t) ==
  CASE t.op = "event"  -> AtLeastZero(t.read + Change(t))
    [] t.op \in {"attest", "approve"} -> AtMostThousand(t.read + Change(t))
    [] t.op = "reject" -> AtLeastZero(t.read + Change(t))
    [] OTHER           -> 0

\* The score the transaction's UPDATE writes.  Only LogEvent clamps at both
\* ends: the bonuses are clamped from above, the penalty from below.
NewScore(t) ==
  CASE t.op = "event"  -> AtMostThousand(AtLeastZero(t.read + Change(t)))
    [] t.op \in {"attest", "approve"} -> AtMostThousand(t.read + Change(t))
    [] t.op = "reject" -> AtLeastZero(t.read + Change(t))
    [] OTHER           -> 0

-----------------------------------------------------------------------------
(* Row locks: an UPDATE holds its row until the transaction ends.          *)

HoldsAgent(w, a) == tx[w].pc = "commit" /\ tx[w].agent = a

\* Faulty variant: the first SELECT locks the row in share mode, and the UPDATE
\* then waits for the other readers.
HoldsVerificationShared(w, v) ==
  /\ tx[w].op \in ResultOps
  /\ tx[w].pc \in {"claim", "score", "update", "commit"}
  /\ tx[w].ver = v

HoldsVerification(w, v) ==
  /\ tx[w].op \in ResultOps
  /\ tx[w].pc \in {"score", "update", "commit"}
  /\ tx[w].ver = v

-----------------------------------------------------------------------------
(* Requests.                                                               *)

\* Faulty variant: an upsert, which gives a forgotten agent its key back.
RegisterUpsert(a) ==
  /\ key[a] # "set"
  /\ key' = [key EXCEPT ![a] = "set"]
  /\ score' = [score EXCEPT ![a] = RegisteredScore]
  /\ log' = [log EXCEPT ![a] = <<[op |-> "register", ver |-> None, delta |-> 0, seen |-> 0,
                                  first |-> TRUE, score |-> RegisteredScore]>>]
  /\ UNCHANGED <<verification, events, attestations, tx, started>>

\* AgentRegistry.Register from the handler: one INSERT, refused by the primary
\* key when the DID has a row, even one that Forget has emptied.
Register(a) ==
  /\ ~Registered(a)
  /\ key' = [key EXCEPT ![a] = "set"]
  /\ score' = [score EXCEPT ![a] = RegisteredScore]
  /\ log' = [log EXCEPT ![a] = <<[op |-> "register", ver |-> None, delta |-> 0, seen |-> 0,
                                  first |-> TRUE, score |-> RegisteredScore]>>]
  /\ UNCHANGED <<verification, events, attestations, tx, started>>

Begin(w, t) ==
  /\ tx[w] = Idle
  /\ started < MaxOps
  /\ started' = started + 1
  /\ tx' = [tx EXCEPT ![w] = t]
  /\ UNCHANGED tables

\* Faulty variant: READ UNCOMMITTED, the score of an open transaction is read.
LogEventDirtyRead(w, a, e) ==
  /\ Registered(a)
  /\ LET writers == {u \in Workers : HoldsAgent(u, a)}
         current == IF writers = {} THEN score[a] ELSE NewScore(tx[CHOOSE u \in writers : TRUE])
     IN Begin(w, [Idle EXCEPT !.op = "event", !.pc = "update", !.agent = a,
                              !.event = e, !.read = current, !.seen = Len(log[a])])

\* LogEvent up to its SELECT: BEGIN, INSERT of the event, the current score.
\* The foreign key refuses an agent without a row.
LogEvent(w, a, e) ==
  /\ Registered(a)
  /\ Begin(w, [Idle EXCEPT !.op = "event", !.pc = "update", !.agent = a,
                           !.event = e, !.read = score[a], !.seen = Len(log[a])])

\* AttestationStore.Save up to its SELECT.
SaveAttestation(w, a) ==
  /\ Registered(a)
  /\ Begin(w, [Idle EXCEPT !.op = "attest", !.pc = "update", !.agent = a,
                           !.read = score[a], !.seen = Len(log[a])])

\* A result of the verification has been committed.
Answered(v) ==
  \E a \in Agents : \E i \in 1..Len(log[a]) :
    log[a][i].op \in ResultOps /\ log[a][i].ver = v

\* Faulty variant: a row that was not found is not an error.
FetchVerificationUnchecked(w, v, success) ==
  Begin(w, [Idle EXCEPT
              !.op = IF success THEN "approve" ELSE "reject",
              !.pc = "claim",
              !.agent = IF success THEN verification[v].verifier
                                   ELSE verification[v].target,
              !.ver = v,
              !.first = ~Answered(v)])

\* Faulty variant: the status is not checked.
FetchVerificationAnyStatus(w, v, success) ==
  /\ verification[v].status # "none"
  /\ FetchVerificationUnchecked(w, v, success)

\* SubmitVerificationResult, first statement: the row is read without a lock,
\* and a row that is not pending any more is an error.
FetchVerification(w, v, success) ==
  /\ verification[v].status = "pending"
  /\ Begin(w, [Idle EXCEPT
                 !.op = IF success THEN "approve" ELSE "reject",
                 !.pc = "claim",
                 !.agent = IF success THEN verification[v].verifier
                                      ELSE verification[v].target,
                 !.ver = v,
                 !.first = ~Answered(v)])

\* SubmitVerificationResult: UPDATE verifications SET status.
ClaimVerification(w) ==
  /\ tx[w].pc = "claim"
  /\ \A u \in Workers \ {w} : ~HoldsVerification(u, tx[w].ver)
  /\ tx' = [tx EXCEPT ![w].pc = "score"]
  /\ UNCHANGED <<tables, started>>

\* SubmitVerificationResult: SELECT reputation_score of the agent it affects.  The
\* code goes on to Commit when this statement fails, but PostgreSQL answers the
\* COMMIT of a failed transaction with a rollback and lib/pq reports an error, so
\* that is Abort; and the row exists, since rows of agents are never deleted.
ReadScore(w) ==
  /\ tx[w].pc = "score"
  /\ tx' = [tx EXCEPT ![w].pc = "update",
                      ![w].read = score[tx[w].agent],
                      ![w].seen = Len(log[tx[w].agent])]
  /\ UNCHANGED <<tables, started>>

\* gdpr.Forget, its last statement: it reads no score.  (Its other statements
\* touch memories and policies, not the rows of this module.)
Forget(w, a) ==
  /\ Registered(a)
  /\ Begin(w, [Idle EXCEPT !.op = "forget", !.pc = "update", !.agent = a,
                           !.seen = Len(log[a])])

\* UPDATE agents SET reputation_score: the value was computed by the process
\* from what it read, so waiting for the row does not refresh it.
UpdateAgent(w) ==
  /\ tx[w].pc = "update"
  /\ \A u \in Workers \ {w} : ~HoldsAgent(u, tx[w].agent)
  /\ tx' = [tx EXCEPT ![w].pc = "commit"]
  /\ UNCHANGED <<tables, started>>

Committing(w, ops) == tx[w].pc = "commit" /\ tx[w].op \in ops

\* What every commit does: the score row, and the end of the transaction.
Publish(w) ==
  LET t == tx[w] IN
  /\ score' = [score EXCEPT ![t.agent] = NewScore(t)]
  /\ log' = [log EXCEPT ![t.agent] =
               Append(@, [op |-> t.op, ver |-> t.ver, delta |-> Change(t),
                          seen |-> t.seen, first |-> t.first, score |-> NewScore(t)])]
  /\ tx' = [tx EXCEPT ![w] = Idle]
  /\ UNCHANGED started

CommitEvent(w) ==
  /\ Committing(w, {"event"})
  /\ events' = [events EXCEPT ![tx[w].agent][tx[w].event.type] = @ + 1]
  /\ Publish(w)
  /\ UNCHANGED <<key, verification, attestations>>

CommitAttestation(w) ==
  /\ Committing(w, {"attest"})
  /\ attestations' = [attestations EXCEPT ![tx[w].agent] = @ + 1]
  /\ Publish(w)
  /\ UNCHANGED <<key, verification, events>>

\* An approval pays the verifier; a rejection costs the target and leaves a
\* policy_violation event.
CommitApproval(w) ==
  /\ Committing(w, {"approve"})
  /\ verification' = [verification EXCEPT ![tx[w].ver].status = "completed"]
  /\ Publish(w)
  /\ UNCHANGED <<key, events, attestations>>

\* Faulty variant: the policy_violation event is left out.
CommitRejectionUnrecorded(w) ==
  /\ Committing(w, {"reject"})
  /\ verification' = [verification EXCEPT ![tx[w].ver].status = "failed"]
  /\ Publish(w)
  /\ UNCHANGED <<key, events, attestations>>

\* Faulty variant: the column is TEXT and takes a word that no reader knows.
CommitRejectionMisspelt(w) ==
  /\ Committing(w, {"reject"})
  /\ verification' = [verification EXCEPT ![tx[w].ver].status = "rejected"]
  /\ events' = [events EXCEPT ![tx[w].agent]["policy_violation"] = @ + 1]
  /\ Publish(w)
  /\ UNCHANGED <<key, attestations>>

CommitRejection(w) ==
  /\ Committing(w, {"reject"})
  /\ verification' = [verification EXCEPT ![tx[w].ver].status = "failed"]
  /\ events' = [events EXCEPT ![tx[w].agent]["policy_violation"] = @ + 1]
  /\ Publish(w)
  /\ UNCHANGED <<key, attestations>>

CommitForget(w) ==
  /\ Committing(w, {"forget"})
  /\ key' = [key EXCEPT ![tx[w].agent] = "cleared"]
  /\ Publish(w)
  /\ UNCHANGED <<verification, events, attestations>>

\* SelectVerifier, one of the best-scoring agents other than the target; the
\* ties are broken by RANDOM().  No transaction spans it and the INSERT.
Eligible(target) ==
  {a \in Agents : /\ Registered(a)
                  /\ a # target
                  /\ score[a] >= VerifierThreshold}

SelectVerifier(w, target) ==
  /\ Cardinality({v \in Verifications : verification[v].status = "none"})
       > Cardinality({u \in Workers : tx[u].op = "verify"})   \* bound: ids left
  /\ \E a \in Eligible(target) :
       /\ \A b \in Eligible(target) : score[b] =< score[a]
       /\ Begin(w, [Idle EXCEPT !.op = "verify", !.pc = "insert",
                                !.agent = target, !.peer = a])

\* CreateVerification: the arguments differ (checked again here by the code),
\* and the foreign key refuses a target without a row.
InsertVerification(w) ==
  /\ tx[w].pc = "insert"
  /\ tx[w].agent # tx[w].peer
  /\ Registered(tx[w].agent)
  /\ \E v \in Verifications :
       /\ verification[v].status = "none"
       /\ verification' = [verification EXCEPT ![v] =
            [status |-> "pending", target |-> tx[w].agent, verifier |-> tx[w].peer]]
  /\ tx' = [tx EXCEPT ![w] = Idle]
  /\ UNCHANGED <<key, score, events, attestations, started, log>>

InsertRefused(w) ==
  /\ tx[w].pc = "insert"
  /\ tx[w].agent = tx[w].peer \/ ~Registered(tx[w].agent)
  /\ tx' = [tx EXCEPT ![w] = Idle]
  /\ UNCHANGED <<tables, started>>

\* A statement or the commit fails, or the request's context is cancelled: the
\* deferred Rollback ends the transaction and nothing it wrote is kept.
Abort(w) ==
  /\ tx[w] # Idle
  /\ tx' = [tx EXCEPT ![w] = Idle]
  /\ UNCHANGED <<tables, started>>

-----------------------------------------------------------------------------

Request(w) ==
  \/ \E a \in Agents, e \in Events : LogEvent(w, a, e)
  \/ \E a \in Agents : SaveAttestation(w, a) \/ Forget(w, a) \/ SelectVerifier(w, a)
  \/ \E v \in Verifications, success \in BOOLEAN : FetchVerification(w, v, success)

\* What a worker does once it has taken a request.
Step(w) ==
  \/ ClaimVerification(w)
  \/ ReadScore(w)
  \/ UpdateAgent(w)
  \/ CommitEvent(w)
  \/ CommitAttestation(w)
  \/ CommitApproval(w)
  \/ CommitRejection(w)
  \/ CommitForget(w)
  \/ InsertVerification(w)
  \/ InsertRefused(w)

Next ==
  \/ \E a \in Agents : Register(a)
  \/ \E w \in Workers : Request(w) \/ Step(w) \/ Abort(w)

Spec == Init /\ [][Next]_vars
=============================================================================
