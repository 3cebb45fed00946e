---------------------------- MODULE TrustProofs ----------------------------
(***************************************************************************)
(* Proofs about the trust layer, for any agents, workers, events and       *)
(* number of requests.                                                     *)
(***************************************************************************)
EXTENDS TrustProperties, SequenceTheorems, FiniteSetTheorems, TLAPS

\* Both clamps together bring any change into range; one clamp is enough for a
\* change of known sign.
LEMMA Clamping ==
  /\ \A n \in Int : AtMostThousand(AtLeastZero(n)) \in Scores
  /\ \A n \in Nat : AtMostThousand(n) \in Scores
  /\ \A n \in Int : n =< 1000 => AtLeastZero(n) \in Scores
<1>1. \A n \in Int : AtMostThousand(AtLeastZero(n)) \in Scores
  BY DEF AtMostThousand, AtLeastZero, Scores
<1>2. \A n \in Nat : AtMostThousand(n) \in Scores
  BY DEF AtMostThousand, Scores
<1>3. \A n \in Int : n =< 1000 => AtLeastZero(n) \in Scores
  BY DEF AtLeastZero, Scores
<1> QED
  BY <1>1, <1>2, <1>3

\* What a transaction's UPDATE writes is in range if what it read was.
LEMMA NewScoreInRange ==
  ASSUME NEW t \in Transaction, t.read \in Scores,
         t.op = "event" => t.event \in Events
  PROVE  /\ NewScore(t) \in Scores
         /\ Change(t) \in Int
<1>1. CASE t.op = "event"
  <2>1. t.event.delta \in Int
    BY <1>1, TrustAssumption
  <2>2. t.read + t.event.delta \in Int
    <3>1. \A n \in Scores, d \in Int : n + d \in Int
      BY DEF Scores
    <3> QED
      BY <2>1, <3>1
  <2>3. Change(t) = t.event.delta
    BY <1>1 DEF Change
  <2>4. NewScore(t) = AtMostThousand(AtLeastZero(t.read + t.event.delta))
    BY <1>1, <2>3 DEF NewScore
  <2> QED
    BY <2>1, <2>2, <2>3, <2>4, Clamping
<1>2. CASE t.op \in {"attest", "approve"}
  <2>1. Change(t) \in {25, 50}
    BY <1>2 DEF Change, AttestationBonus, VerifierBonus
  <2>2. NewScore(t) = AtMostThousand(t.read + Change(t))
    BY <1>2 DEF NewScore
  <2>3. \A n \in Scores, d \in {25, 50} : n + d \in Nat
    BY DEF Scores
  <2>4. t.read + Change(t) \in Nat
    BY <2>1, <2>3
  <2> QED
    BY <2>1, <2>2, <2>4, Clamping
<1>3. CASE t.op = "reject"
  <2>1. Change(t) = -100
    BY <1>3 DEF Change, TargetPenalty
  <2>2. NewScore(t) = AtLeastZero(t.read + Change(t))
    BY <1>3 DEF NewScore
  <2>3. \A n \in Scores : n + (-100) \in Int /\ n + (-100) =< 1000
    BY DEF Scores
  <2>4. t.read + Change(t) \in Int /\ t.read + Change(t) =< 1000
    BY <2>1, <2>3
  <2> QED
    BY <2>1, <2>2, <2>4, Clamping
<1>4. CASE t.op \notin {"event", "attest", "approve", "reject"}
  <2>1. NewScore(t) = 0 /\ Change(t) = 0
    BY <1>4 DEF NewScore, Change
  <2> QED
    BY <2>1 DEF Scores
<1> QED
  BY <1>1, <1>2, <1>3, <1>4

LEMMA InitSatisfiesRange == Init => RangeInvariant
  BY TrustAssumption
  DEF Init, RangeInvariant, TypeOK, ScoreInRange, TransactionsAreSound,
      VerificationsAreSound, SoundTransaction, Scores, Verification, Transaction, Idle, NoVerification,
      InTransaction, ResultOps, ScoreOps, Registered

-----------------------------------------------------------------------------
(* Steps that change one transaction and no table.                         *)

LEMMA IdleIsSound == Idle \in Transaction /\ SoundTransaction(Idle)
  BY TrustAssumption
  DEF Idle, Transaction, SoundTransaction, Scores, InTransaction, ScoreOps, ResultOps

\* A step of a worker that leaves the tables alone keeps the invariant when the
\* transaction it leaves behind is a sound one.
LEMMA TransactionStep ==
  ASSUME RangeInvariant, NEW w \in Workers, NEW t \in Transaction,
         SoundTransaction(t), started' \in Nat,
         tx' = [tx EXCEPT ![w] = t], UNCHANGED tables
  PROVE  RangeInvariant'
<1>1. tx' \in [Workers -> Transaction]
  BY DEF RangeInvariant, TypeOK
<1>2. TypeOK' /\ ScoreInRange'
  BY <1>1 DEF RangeInvariant, TypeOK, ScoreInRange, tables
<1>3. TransactionsAreSound'
  <2> SUFFICES ASSUME NEW u \in Workers
               PROVE  SoundTransaction(tx[u])'
    BY DEF TransactionsAreSound
  <2>1. SoundTransaction(tx'[u])
    BY DEF RangeInvariant, TypeOK, TransactionsAreSound
  <2> QED
    BY <2>1 DEF SoundTransaction, Registered, tables
<1>4. VerificationsAreSound'
  BY DEF RangeInvariant, VerificationsAreSound, Registered, tables
<1> QED
  BY <1>2, <1>3, <1>4 DEF RangeInvariant

LEMMA RequestsKeepRange ==
  ASSUME RangeInvariant, NEW w \in Workers, Request(w)
  PROVE  RangeInvariant'
<1>0. 0 \in Scores
  BY DEF Scores
<1>a. ASSUME NEW t, Begin(w, t)
      PROVE  started' \in Nat /\ UNCHANGED tables
  BY <1>a DEF Begin, RangeInvariant, TypeOK
<1> DEFINE Sound(t) == t \in Transaction /\ SoundTransaction(t)
           Next1(t) == tx' = [tx EXCEPT ![w] = t]
<1>1. ASSUME NEW a \in Agents, NEW e \in Events, LogEvent(w, a, e)
      PROVE  RangeInvariant'
  <2> DEFINE t == [Idle EXCEPT !.op = "event", !.pc = "update", !.agent = a,
                     !.event = e, !.read = score[a], !.seen = Len(log[a])]
  <2>1. Registered(a) /\ Next1(t) /\ Begin(w, t)
    BY <1>1 DEF LogEvent, Begin
  <2>2. Len(log[a]) \in Nat /\ score[a] \in Scores /\ score[a] \in Int
    BY DEF RangeInvariant, TypeOK, ScoreInRange
  <2>3. Sound(t)
    <3>1. t \in Transaction
      BY <1>0, <2>1, <2>2, IdleIsSound DEF Transaction, ScoreOps, ResultOps
    <3>2. SoundTransaction(t)
      BY <1>0, <2>1, <2>2, TrustAssumption
      DEF Idle, SoundTransaction, InTransaction, ScoreOps, ResultOps
    <3> QED
      BY <3>1, <3>2
  <2> QED
    BY <1>a, <2>1, <2>3, TransactionStep DEF Begin
<1>2. ASSUME NEW a \in Agents, SaveAttestation(w, a)
      PROVE  RangeInvariant'
  <2> DEFINE t == [Idle EXCEPT !.op = "attest", !.pc = "update", !.agent = a,
                     !.read = score[a], !.seen = Len(log[a])]
  <2>1. Registered(a) /\ Next1(t) /\ Begin(w, t)
    BY <1>2 DEF SaveAttestation, Begin
  <2>2. Len(log[a]) \in Nat /\ score[a] \in Scores /\ score[a] \in Int
    BY DEF RangeInvariant, TypeOK, ScoreInRange
  <2>3. Sound(t)
    <3>1. t \in Transaction
      BY <1>0, <2>1, <2>2, IdleIsSound DEF Transaction, ScoreOps, ResultOps
    <3>2. SoundTransaction(t)
      BY <1>0, <2>1, <2>2, TrustAssumption
      DEF Idle, SoundTransaction, InTransaction, ScoreOps, ResultOps
    <3> QED
      BY <3>1, <3>2
  <2> QED
    BY <1>a, <2>1, <2>3, TransactionStep DEF Begin
<1>3. ASSUME NEW a \in Agents, Forget(w, a)
      PROVE  RangeInvariant'
  <2> DEFINE t == [Idle EXCEPT !.op = "forget", !.pc = "update", !.agent = a,
                     !.seen = Len(log[a])]
  <2>1. Registered(a) /\ Next1(t) /\ Begin(w, t)
    BY <1>3 DEF Forget, Begin
  <2>2. Len(log[a]) \in Nat
    BY DEF RangeInvariant, TypeOK
  <2>3. Sound(t)
    <3>1. t \in Transaction
      BY <1>0, <2>1, <2>2, IdleIsSound DEF Transaction, ScoreOps, ResultOps
    <3>2. SoundTransaction(t)
      BY <1>0, <2>1, <2>2, TrustAssumption
      DEF Idle, SoundTransaction, InTransaction, ScoreOps, ResultOps
    <3> QED
      BY <3>1, <3>2
  <2> QED
    BY <1>a, <2>1, <2>3, TransactionStep DEF Begin
<1>4. ASSUME NEW a \in Agents, SelectVerifier(w, a)
      PROVE  RangeInvariant'
  <2>1. PICK b \in Eligible(a) :
          Begin(w, [Idle EXCEPT !.op = "verify", !.pc = "insert", !.agent = a, !.peer = b])
    BY <1>4 DEF SelectVerifier
  <2> DEFINE t == [Idle EXCEPT !.op = "verify", !.pc = "insert", !.agent = a, !.peer = b]
  <2>2. b \in Agents /\ Registered(b)
    BY DEF Eligible
  <2>3. Sound(t)
    <3>1. t \in Transaction
      BY <1>0, <2>2, IdleIsSound DEF Transaction, ScoreOps, ResultOps
    <3>2. SoundTransaction(t)
      BY <1>0, <2>2, TrustAssumption
      DEF Idle, SoundTransaction, InTransaction, ScoreOps, ResultOps
    <3> QED
      BY <3>1, <3>2
  <2> QED
    BY <1>a, <2>1, <2>3, TransactionStep DEF Begin
<1>5. ASSUME NEW v \in Verifications, NEW success \in BOOLEAN,
             FetchVerification(w, v, success)
      PROVE  RangeInvariant'
  <2> DEFINE o == IF success THEN "approve" ELSE "reject"
             agent == IF success THEN verification[v].verifier ELSE verification[v].target
             first == ~Answered(v)
             t == [Idle EXCEPT !.op = o, !.pc = "claim", !.agent = agent,
                               !.ver = v, !.first = first]
  <2>1. verification[v].status = "pending" /\ Next1(t) /\ Begin(w, t)
    BY <1>5 DEF FetchVerification, Begin
  <2>2. /\ agent \in Agents /\ Registered(agent)
        /\ o \in ResultOps /\ first \in BOOLEAN
    BY <2>1 DEF RangeInvariant, VerificationsAreSound, ResultOps
  <2>3. Sound(t)
    <3> HIDE DEF o, agent, first
    <3>1. t \in Transaction
      BY <1>0, <2>2, IdleIsSound DEF Transaction, ScoreOps, ResultOps
    <3>2. SoundTransaction(t)
      BY <1>0, <2>1, <2>2, TrustAssumption
      DEF Idle, SoundTransaction, InTransaction, ScoreOps, ResultOps
    <3> QED
      BY <3>1, <3>2
  <2> QED
    BY <1>a, <2>1, <2>3, TransactionStep DEF Begin
<1> QED
  BY <1>1, <1>2, <1>3, <1>4, <1>5 DEF Request

-----------------------------------------------------------------------------
(* Statements of a transaction in progress, and its end without effect.    *)

LEMMA StatementsKeepRange ==
  ASSUME RangeInvariant, NEW w \in Workers,
         ClaimVerification(w) \/ ReadScore(w) \/ UpdateAgent(w) \/ InsertRefused(w) \/ Abort(w)
  PROVE  RangeInvariant'
<1>0. /\ tx[w] \in Transaction /\ SoundTransaction(tx[w])
      /\ started \in Nat /\ tx \in [Workers -> Transaction]
  BY DEF RangeInvariant, TypeOK, TransactionsAreSound
<1>1. CASE ClaimVerification(w)
  <2> DEFINE t == [tx[w] EXCEPT !.pc = "score"]
  <2>1. tx' = [tx EXCEPT ![w] = t] /\ UNCHANGED <<tables, started>>
    BY <1>0, <1>1 DEF ClaimVerification
  <2>2. t \in Transaction
    BY <1>0 DEF Transaction
  <2>3. SoundTransaction(t)
    BY <1>0, <1>1 DEF ClaimVerification, SoundTransaction, Transaction, InTransaction
  <2> QED
    BY <1>0, <2>1, <2>2, <2>3, TransactionStep
<1>2. CASE ReadScore(w)
  <2> DEFINE a == tx[w].agent
             t == [tx[w] EXCEPT !.pc = "update", !.read = score[a], !.seen = Len(log[a])]
  <2>1. tx' = [tx EXCEPT ![w] = t] /\ UNCHANGED <<tables, started>>
    BY <1>0, <1>2 DEF ReadScore
  <2>2. a \in Agents
    BY <1>0, <1>2 DEF ReadScore, SoundTransaction, InTransaction
  <2>3. score[a] \in Scores /\ score[a] \in Int /\ Len(log[a]) \in Nat
    BY <2>2 DEF RangeInvariant, TypeOK, ScoreInRange
  <2>4. t \in Transaction
    BY <1>0, <2>3 DEF Transaction
  <2>5. SoundTransaction(t)
    BY <1>0, <1>2, <2>3 DEF ReadScore, SoundTransaction, Transaction, InTransaction
  <2> QED
    BY <1>0, <2>1, <2>4, <2>5, TransactionStep
<1>3. CASE UpdateAgent(w)
  <2> DEFINE t == [tx[w] EXCEPT !.pc = "commit"]
  <2>1. tx' = [tx EXCEPT ![w] = t] /\ UNCHANGED <<tables, started>>
    BY <1>0, <1>3 DEF UpdateAgent
  <2>2. t \in Transaction
    BY <1>0 DEF Transaction
  <2>3. SoundTransaction(t)
    BY <1>0, <1>3 DEF UpdateAgent, SoundTransaction, Transaction, InTransaction
  <2> QED
    BY <1>0, <2>1, <2>2, <2>3, TransactionStep
<1>4. CASE InsertRefused(w) \/ Abort(w)
  BY <1>0, <1>4, IdleIsSound, TransactionStep DEF InsertRefused, Abort
<1> QED
  BY <1>1, <1>2, <1>3, <1>4

-----------------------------------------------------------------------------
(* Commits.                                                                *)

\* A commit publishes a score in range for a registered agent.
LEMMA PublishKeepsRange ==
  ASSUME RangeInvariant, NEW w \in Workers, tx[w].pc = "commit", Publish(w),
         key' \in [Agents -> {"absent", "set", "cleared"}],
         \A a \in Agents : Registered(a) => Registered(a)',
         verification' \in [Verifications -> Verification],
         \A v \in Verifications :
           /\ verification'[v].target = verification[v].target
           /\ verification'[v].verifier = verification[v].verifier
           /\ verification[v].status = "none" <=> verification'[v].status = "none",
         events' \in [Agents -> [EventTypes -> Nat]],
         attestations' \in [Agents -> Nat]
  PROVE  RangeInvariant'
<1> DEFINE t == tx[w]
<1>1. /\ t \in Transaction /\ SoundTransaction(t)
      /\ t.agent \in Agents /\ t.op \in ScoreOps
  BY DEF RangeInvariant, TypeOK, TransactionsAreSound, SoundTransaction, InTransaction
<1>2. NewScore(t) \in Scores /\ Change(t) \in Int
  BY <1>1, NewScoreInRange DEF SoundTransaction
<1>3. NewScore(t) \in Int
  BY <1>2 DEF Scores
<1>4. ScoreInRange'
  BY <1>1, <1>2 DEF Publish, RangeInvariant, TypeOK, ScoreInRange
<1>5. log' \in [Agents -> Seq(LogEntry)]
  <2> DEFINE entry == [op |-> t.op, ver |-> t.ver, delta |-> Change(t),
                       seen |-> t.seen, first |-> t.first, score |-> NewScore(t)]
  <2>1. entry \in LogEntry
    BY <1>1, <1>2, <1>3 DEF LogEntry, Transaction
  <2>2. Append(log[t.agent], entry) \in Seq(LogEntry)
    BY <1>1, <2>1 DEF RangeInvariant, TypeOK
  <2>3. log' = [log EXCEPT ![t.agent] = Append(log[t.agent], entry)]
    BY DEF Publish
  <2> QED
    BY <2>2, <2>3 DEF RangeInvariant, TypeOK
<1>6. tx' \in [Workers -> Transaction] /\ started' \in Nat
  BY IdleIsSound DEF Publish, RangeInvariant, TypeOK
<1>7. score' \in [Agents -> Int]
  BY <1>3 DEF Publish, RangeInvariant, TypeOK
<1>8. TypeOK'
  BY <1>5, <1>6, <1>7 DEF TypeOK
<1>9. TransactionsAreSound'
  <2> SUFFICES ASSUME NEW u \in Workers
               PROVE  SoundTransaction(tx[u])'
    BY DEF TransactionsAreSound
  <2>1. tx'[u] = tx[u] \/ tx'[u] = Idle
    BY DEF Publish, RangeInvariant, TypeOK
  <2>2. SoundTransaction(tx'[u])
    BY <2>1, IdleIsSound DEF RangeInvariant, TransactionsAreSound
  <2> QED
    BY <2>2 DEF SoundTransaction
<1>10. VerificationsAreSound'
  BY DEF VerificationsAreSound, RangeInvariant
<1> QED
  BY <1>4, <1>8, <1>9, <1>10 DEF RangeInvariant

LEMMA CommitsKeepRange ==
  ASSUME RangeInvariant, NEW w \in Workers,
         CommitEvent(w) \/ CommitAttestation(w) \/ CommitApproval(w)
           \/ CommitRejection(w) \/ CommitForget(w)
  PROVE  RangeInvariant'
<1>0. /\ key \in [Agents -> {"absent", "set", "cleared"}]
      /\ verification \in [Verifications -> Verification]
      /\ events \in [Agents -> [EventTypes -> Nat]]
      /\ attestations \in [Agents -> Nat]
      /\ SoundTransaction(tx[w])
  BY DEF RangeInvariant, TypeOK, TransactionsAreSound
<1>a. \A a \in Agents, t \in EventTypes :
        [events EXCEPT ![a][t] = @ + 1] \in [Agents -> [EventTypes -> Nat]]
  <2> SUFFICES ASSUME NEW a \in Agents, NEW t \in EventTypes
               PROVE  [events EXCEPT ![a][t] = @ + 1] \in [Agents -> [EventTypes -> Nat]]
    OBVIOUS
  <2>1. events[a] \in [EventTypes -> Nat] /\ events[a][t] + 1 \in Nat
    BY <1>0
  <2>2. [events[a] EXCEPT ![t] = @ + 1] \in [EventTypes -> Nat]
    BY <2>1
  <2> QED
    BY <1>0, <2>2
<1>1. CASE CommitEvent(w)
  <2>1. tx[w].agent \in Agents /\ tx[w].event.type \in EventTypes
    BY <1>0, <1>1, TrustAssumption
    DEF CommitEvent, Committing, SoundTransaction, InTransaction
  <2>2. events' \in [Agents -> [EventTypes -> Nat]]
    BY <1>a, <1>1, <2>1 DEF CommitEvent
  <2> QED
    BY <1>0, <1>1, <2>2, PublishKeepsRange DEF CommitEvent, Committing, Registered
<1>2. CASE CommitAttestation(w)
  <2>1. tx[w].agent \in Agents
    BY <1>0, <1>2 DEF CommitAttestation, Committing, SoundTransaction, InTransaction
  <2>2. attestations[tx[w].agent] + 1 \in Nat
    BY <1>0, <2>1
  <2>3. attestations' \in [Agents -> Nat]
    BY <1>0, <1>2, <2>2 DEF CommitAttestation
  <2> QED
    BY <1>0, <1>2, <2>3, PublishKeepsRange DEF CommitAttestation, Committing, Registered
<1>3. CASE CommitApproval(w)
  <2>1. verification' \in [Verifications -> Verification]
    BY <1>0, <1>3 DEF CommitApproval, Verification
  <2>2. \A v \in Verifications :
           /\ verification'[v].target = verification[v].target
           /\ verification'[v].verifier = verification[v].verifier
           /\ verification[v].status = "none" <=> verification'[v].status = "none"
    BY <1>0, <1>3 DEF CommitApproval, Committing, SoundTransaction, ResultOps, Verification
  <2> QED
    BY <1>0, <1>3, <2>1, <2>2, PublishKeepsRange DEF CommitApproval, Committing, Registered
<1>4. CASE CommitRejection(w)
  <2>1. verification' \in [Verifications -> Verification]
    BY <1>0, <1>4 DEF CommitRejection, Verification
  <2>2. \A v \in Verifications :
           /\ verification'[v].target = verification[v].target
           /\ verification'[v].verifier = verification[v].verifier
           /\ verification[v].status = "none" <=> verification'[v].status = "none"
    BY <1>0, <1>4 DEF CommitRejection, Committing, SoundTransaction, ResultOps, Verification
  <2>3. tx[w].agent \in Agents /\ "policy_violation" \in EventTypes
    BY <1>0, <1>4
    DEF CommitRejection, Committing, SoundTransaction, InTransaction, EventTypes
  <2>4. events' \in [Agents -> [EventTypes -> Nat]]
    BY <1>a, <1>4, <2>3 DEF CommitRejection
  <2> QED
    BY <1>0, <1>4, <2>1, <2>2, <2>4, PublishKeepsRange
    DEF CommitRejection, Committing, Registered
<1>5. CASE CommitForget(w)
  <2>1. key' \in [Agents -> {"absent", "set", "cleared"}]
    BY <1>0, <1>5 DEF CommitForget
  <2>2. \A a \in Agents : Registered(a) => Registered(a)'
    BY <1>0, <1>5 DEF CommitForget, Registered
  <2> QED
    BY <1>0, <1>5, <2>1, <2>2, PublishKeepsRange DEF CommitForget, Committing
<1> QED
  BY <1>1, <1>2, <1>3, <1>4, <1>5

-----------------------------------------------------------------------------
(* New rows.                                                               *)

LEMMA NewRowsKeepRange ==
  ASSUME RangeInvariant,
         \/ \E a \in Agents : Register(a)
         \/ \E w \in Workers : InsertVerification(w)
  PROVE  RangeInvariant'
<1>1. ASSUME NEW a \in Agents, Register(a)
      PROVE  RangeInvariant'
  <2>1. RegisteredScore \in Scores /\ RegisteredScore \in Int
    BY DEF RegisteredScore, Scores
  <2>2. ScoreInRange' /\ score' \in [Agents -> Int]
    BY <1>1, <2>1 DEF Register, RangeInvariant, TypeOK, ScoreInRange
  <2> DEFINE first == [op |-> "register", ver |-> None, delta |-> 0, seen |-> 0,
                       first |-> TRUE, score |-> RegisteredScore]
  <2>3. first \in LogEntry
    BY <2>1 DEF LogEntry
  <2>4. log' \in [Agents -> Seq(LogEntry)]
    BY <1>1, <2>3 DEF Register, RangeInvariant, TypeOK
  <2>5. \A b \in Agents : Registered(b) => Registered(b)'
    BY <1>1 DEF Register, Registered, RangeInvariant, TypeOK
  <2>6. TypeOK'
    BY <1>1, <2>2, <2>4 DEF Register, RangeInvariant, TypeOK
  <2>7. TransactionsAreSound'
    BY <1>1, <2>5 DEF Register, RangeInvariant, TransactionsAreSound, SoundTransaction
  <2>8. VerificationsAreSound'
    BY <1>1, <2>5 DEF Register, RangeInvariant, VerificationsAreSound
  <2> QED
    BY <2>2, <2>6, <2>7, <2>8 DEF RangeInvariant
<1>2. ASSUME NEW w \in Workers, InsertVerification(w)
      PROVE  RangeInvariant'
  <2> DEFINE row == [status |-> "pending", target |-> tx[w].agent, verifier |-> tx[w].peer]
  <2>1. /\ tx[w].agent \in Agents /\ Registered(tx[w].agent)
        /\ tx[w].peer \in Agents /\ Registered(tx[w].peer)
    BY <1>2 DEF InsertVerification, RangeInvariant, TransactionsAreSound, SoundTransaction
  <2>2. PICK v \in Verifications : verification' = [verification EXCEPT ![v] = row]
    BY <1>2 DEF InsertVerification
  <2>3. row \in Verification
    BY <2>1 DEF Verification
  <2>4. TypeOK' /\ ScoreInRange'
    BY <1>2, <2>2, <2>3, IdleIsSound DEF InsertVerification, RangeInvariant, TypeOK, ScoreInRange
  <2>5. TransactionsAreSound'
    <3> SUFFICES ASSUME NEW u \in Workers
                 PROVE  SoundTransaction(tx[u])'
      BY DEF TransactionsAreSound
    <3>1. tx'[u] = tx[u] \/ tx'[u] = Idle
      BY <1>2 DEF InsertVerification, RangeInvariant, TypeOK
    <3>2. SoundTransaction(tx'[u])
      BY <3>1, IdleIsSound DEF RangeInvariant, TransactionsAreSound
    <3>3. \A x \in Verifications :
            verification[x].status # "none" => verification'[x].status # "none"
      BY <2>2 DEF RangeInvariant, TypeOK
    <3> QED
      BY <1>2, <3>2, <3>3 DEF InsertVerification, SoundTransaction, Registered
  <2>6. VerificationsAreSound'
    BY <1>2, <2>1, <2>2
    DEF InsertVerification, RangeInvariant, TypeOK, VerificationsAreSound, Registered
  <2> QED
    BY <2>4, <2>5, <2>6 DEF RangeInvariant
<1> QED
  BY <1>1, <1>2

-----------------------------------------------------------------------------

LEMMA RangeInvariantIsInductive == RangeInvariant /\ [Next]_vars => RangeInvariant'
<1> SUFFICES ASSUME RangeInvariant, [Next]_vars
             PROVE  RangeInvariant'
  OBVIOUS
<1>1. CASE UNCHANGED vars
  BY <1>1 DEF vars, RangeInvariant, TypeOK, ScoreInRange, TransactionsAreSound,
    SoundTransaction, VerificationsAreSound, Registered
<1>2. CASE \E a \in Agents : Register(a)
  BY <1>2, NewRowsKeepRange
<1>3. ASSUME NEW w \in Workers, Request(w)
      PROVE  RangeInvariant'
  BY <1>3, RequestsKeepRange
<1>4. ASSUME NEW w \in Workers, Step(w) \/ Abort(w)
      PROVE  RangeInvariant'
  BY <1>4, StatementsKeepRange, CommitsKeepRange, NewRowsKeepRange DEF Step
<1> QED
  BY <1>1, <1>2, <1>3, <1>4 DEF Next

LEMMA RangeIsInvariant == Spec => []RangeInvariant
  BY InitSatisfiesRange, RangeInvariantIsInductive, PTL DEF Spec

\* Type correctness of the trust layer.
THEOREM TypeCorrect == Spec => []TypeOK
<1>1. RangeInvariant => TypeOK
  BY DEF RangeInvariant
<1> QED
  BY <1>1, RangeIsInvariant, PTL

\* No interleaving of LogEvent, Save, SubmitVerificationResult and Forget brings
\* a score out of 0..1000, although most of them clamp at one end only.
THEOREM ScoresStayInRange == Spec => []ScoreInRange
<1>1. RangeInvariant => ScoreInRange
  BY DEF RangeInvariant
<1> QED
  BY <1>1, RangeIsInvariant, PTL

-----------------------------------------------------------------------------
(* Where scores come from.                                                 *)

LEMMA InitSatisfiesHistory == Init => HistoryInvariant
  BY DEF Init, HistoryInvariant, ReadsAreCommitted, ReadsCommitted, HistoryMatchesRows,
         ScoreHasProvenance, Registered, Idle

\* The last committed score is what a SELECT returns.
LEMMA ReadingIsCommitted ==
  ASSUME RangeInvariant, HistoryInvariant, NEW a \in Agents, Registered(a)
  PROVE  /\ Len(log[a]) \in 1..Len(log[a])
         /\ log[a][Len(log[a])].score = score[a]
<1>1. log[a] \in Seq(LogEntry) /\ log[a] # <<>>
  BY DEF RangeInvariant, TypeOK, HistoryInvariant, HistoryMatchesRows
<1>2. Len(log[a]) \in Nat /\ Len(log[a]) # 0
  BY <1>1, EmptySeq
<1> QED
  BY <1>2 DEF HistoryInvariant, HistoryMatchesRows

LEMMA TransactionStepKeepsHistory ==
  ASSUME HistoryInvariant, tx \in [Workers -> Transaction],
         NEW w \in Workers, NEW t, ReadsCommitted(t),
         tx' = [tx EXCEPT ![w] = t], UNCHANGED <<key, score, log>>
  PROVE  HistoryInvariant'
<1>1. ReadsAreCommitted'
  <2> SUFFICES ASSUME NEW u \in Workers
               PROVE  ReadsCommitted(tx[u])'
    BY DEF ReadsAreCommitted
  <2>1. ReadsCommitted(tx'[u])
    BY DEF HistoryInvariant, ReadsAreCommitted
  <2> QED
    BY <2>1 DEF ReadsCommitted
<1> QED
  BY <1>1 DEF HistoryInvariant, HistoryMatchesRows, ScoreHasProvenance, Registered

LEMMA StepsKeepHistory ==
  ASSUME RangeInvariant, HistoryInvariant, NEW w \in Workers,
         \/ Request(w)
         \/ ClaimVerification(w) \/ ReadScore(w) \/ UpdateAgent(w)
         \/ InsertVerification(w) \/ InsertRefused(w) \/ Abort(w)
  PROVE  HistoryInvariant'
<1>0. /\ tx \in [Workers -> Transaction] /\ tx[w] \in Transaction
      /\ SoundTransaction(tx[w]) /\ ReadsCommitted(tx[w])
  BY DEF RangeInvariant, TypeOK, TransactionsAreSound, HistoryInvariant, ReadsAreCommitted
<1>1. ReadsCommitted(Idle)
  BY DEF ReadsCommitted, Idle
<1>a. ASSUME NEW t, ReadsCommitted(t), Begin(w, t)
      PROVE  HistoryInvariant'
  BY <1>0, <1>a, TransactionStepKeepsHistory DEF Begin, tables
<1>2. ASSUME NEW a \in Agents, NEW e \in Events, LogEvent(w, a, e)
      PROVE  HistoryInvariant'
  <2> DEFINE t == [Idle EXCEPT !.op = "event", !.pc = "update", !.agent = a,
                     !.event = e, !.read = score[a], !.seen = Len(log[a])]
  <2>1. Begin(w, t) /\ Registered(a)
    BY <1>2 DEF LogEvent
  <2>2. ReadsCommitted(t)
    BY <2>1, ReadingIsCommitted DEF ReadsCommitted, Idle
  <2> QED
    BY <1>a, <2>1, <2>2
<1>3. ASSUME NEW a \in Agents, SaveAttestation(w, a)
      PROVE  HistoryInvariant'
  <2> DEFINE t == [Idle EXCEPT !.op = "attest", !.pc = "update", !.agent = a,
                     !.read = score[a], !.seen = Len(log[a])]
  <2>1. Begin(w, t) /\ Registered(a)
    BY <1>3 DEF SaveAttestation
  <2>2. ReadsCommitted(t)
    BY <2>1, ReadingIsCommitted DEF ReadsCommitted, Idle
  <2> QED
    BY <1>a, <2>1, <2>2
<1>4. ASSUME NEW a \in Agents, Forget(w, a)
      PROVE  HistoryInvariant'
  <2> DEFINE t == [Idle EXCEPT !.op = "forget", !.pc = "update", !.agent = a,
                     !.seen = Len(log[a])]
  <2>1. Begin(w, t) /\ Registered(a)
    BY <1>4 DEF Forget
  <2>2. ReadsCommitted(t)
    BY <2>1, ReadingIsCommitted DEF ReadsCommitted, Idle
  <2> QED
    BY <1>a, <2>1, <2>2
<1>5. ASSUME NEW a \in Agents, SelectVerifier(w, a)
      PROVE  HistoryInvariant'
  <2>1. PICK b \in Eligible(a) :
          Begin(w, [Idle EXCEPT !.op = "verify", !.pc = "insert", !.agent = a, !.peer = b])
    BY <1>5 DEF SelectVerifier
  <2>2. ReadsCommitted([Idle EXCEPT !.op = "verify", !.pc = "insert", !.agent = a, !.peer = b])
    BY DEF ReadsCommitted, Idle
  <2> QED
    BY <1>a, <2>1, <2>2
<1>6. ASSUME NEW v \in Verifications, NEW success \in BOOLEAN,
             FetchVerification(w, v, success)
      PROVE  HistoryInvariant'
  <2> DEFINE t == [Idle EXCEPT
                     !.op = IF success THEN "approve" ELSE "reject",
                     !.pc = "claim",
                     !.agent = IF success THEN verification[v].verifier
                                          ELSE verification[v].target,
                     !.ver = v, !.first = ~Answered(v)]
  <2>1. Begin(w, t)
    BY <1>6 DEF FetchVerification
  <2>2. ReadsCommitted(t)
    BY DEF ReadsCommitted, Idle
  <2> QED
    BY <1>a, <2>1, <2>2
<1>7. CASE ClaimVerification(w)
  <2> DEFINE t == [tx[w] EXCEPT !.pc = "score"]
  <2>1. tx' = [tx EXCEPT ![w] = t] /\ UNCHANGED tables
    BY <1>0, <1>7 DEF ClaimVerification
  <2>2. ReadsCommitted(t)
    BY <1>0 DEF ReadsCommitted, Transaction
  <2> QED
    BY <1>0, <2>1, <2>2, TransactionStepKeepsHistory DEF tables
<1>8. CASE ReadScore(w)
  <2> DEFINE a == tx[w].agent
             t == [tx[w] EXCEPT !.pc = "update", !.read = score[a], !.seen = Len(log[a])]
  <2>1. tx' = [tx EXCEPT ![w] = t] /\ UNCHANGED tables
    BY <1>0, <1>8 DEF ReadScore
  <2>2. a \in Agents /\ Registered(a)
    BY <1>0, <1>8 DEF ReadScore, SoundTransaction, InTransaction
  <2>3. ReadsCommitted(t)
    BY <1>0, <2>2, ReadingIsCommitted DEF ReadsCommitted, Transaction
  <2> QED
    BY <1>0, <2>1, <2>3, TransactionStepKeepsHistory DEF tables
<1>9. CASE UpdateAgent(w)
  <2> DEFINE t == [tx[w] EXCEPT !.pc = "commit"]
  <2>1. tx' = [tx EXCEPT ![w] = t] /\ UNCHANGED tables
    BY <1>0, <1>9 DEF UpdateAgent
  <2>2. ReadsCommitted(t)
    BY <1>0, <1>9 DEF UpdateAgent, ReadsCommitted, Transaction
  <2> QED
    BY <1>0, <2>1, <2>2, TransactionStepKeepsHistory DEF tables
<1>10. CASE InsertVerification(w) \/ InsertRefused(w) \/ Abort(w)
  BY <1>0, <1>1, <1>10, TransactionStepKeepsHistory
  DEF InsertVerification, InsertRefused, Abort, tables
<1> QED
  BY <1>2, <1>3, <1>4, <1>5, <1>6, <1>7, <1>8, <1>9, <1>10 DEF Request

\* The one-sided clamps do what clamping at both ends would.
LEMMA NewScoreIsClamped ==
  ASSUME NEW t \in Transaction, t.read \in Scores, t.op \in ScoreOps
  PROVE  NewScore(t) = IF t.op = "forget" THEN 0 ELSE Clamp(t.read + Change(t))
<1>1. CASE t.op = "event"
  BY <1>1 DEF NewScore, Clamp
<1>2. CASE t.op \in {"attest", "approve"}
  <2>1. Change(t) \in {25, 50}
    BY <1>2 DEF Change, AttestationBonus, VerifierBonus
  <2>2. \A n \in Scores, d \in {25, 50} : AtLeastZero(n + d) = n + d
    BY DEF Scores, AtLeastZero
  <2>3. NewScore(t) = AtMostThousand(t.read + Change(t))
    BY <1>2 DEF NewScore
  <2> QED
    BY <1>2, <2>1, <2>2, <2>3 DEF Clamp
<1>3. CASE t.op = "reject"
  <2>1. Change(t) = -100
    BY <1>3 DEF Change, TargetPenalty
  <2>2. \A n \in Scores : AtMostThousand(AtLeastZero(n + (-100))) = AtLeastZero(n + (-100))
    BY DEF Scores, AtLeastZero, AtMostThousand
  <2>3. NewScore(t) = AtLeastZero(t.read + Change(t))
    BY <1>3 DEF NewScore
  <2> QED
    BY <1>3, <2>1, <2>2, <2>3 DEF Clamp
<1>4. CASE t.op = "forget"
  BY <1>4 DEF NewScore
<1> QED
  BY <1>1, <1>2, <1>3, <1>4 DEF ScoreOps, ResultOps

LEMMA CommitKeepsHistory ==
  ASSUME RangeInvariant, HistoryInvariant, NEW w \in Workers,
         tx[w].pc = "commit", Publish(w),
         \A a \in Agents : Registered(a) <=> Registered(a)'
  PROVE  HistoryInvariant'
<1> DEFINE t == tx[w]
           b == t.agent
           entry == [op |-> t.op, ver |-> t.ver, delta |-> Change(t),
                     seen |-> t.seen, first |-> t.first, score |-> NewScore(t)]
<1>1. /\ t \in Transaction /\ SoundTransaction(t) /\ ReadsCommitted(t)
      /\ b \in Agents /\ Registered(b) /\ t.op \in ScoreOps
  BY DEF RangeInvariant, TypeOK, TransactionsAreSound, SoundTransaction, InTransaction,
         HistoryInvariant, ReadsAreCommitted
<1>2. /\ log' = [log EXCEPT ![b] = Append(log[b], entry)]
      /\ score' = [score EXCEPT ![b] = NewScore(t)]
      /\ tx' = [tx EXCEPT ![w] = Idle]
  BY DEF Publish
<1>3. /\ log \in [Agents -> Seq(LogEntry)] /\ score \in [Agents -> Int]
      /\ tx \in [Workers -> Transaction]
  BY DEF RangeInvariant, TypeOK
<1>4. entry \in LogEntry
  <2>1. NewScore(t) \in Scores /\ Change(t) \in Int
    BY <1>1, NewScoreInRange DEF SoundTransaction
  <2>2. NewScore(t) \in Int
    BY <2>1 DEF Scores
  <2> QED
    BY <1>1, <2>1, <2>2 DEF LogEntry, Transaction
<1>5. /\ log[b] \in Seq(LogEntry)
      /\ log'[b] = Append(log[b], entry)
      /\ \A a \in Agents \ {b} : log'[a] = log[a] /\ score'[a] = score[a]
      /\ score'[b] = NewScore(t)
  BY <1>1, <1>2, <1>3
<1>6. /\ Len(log'[b]) = Len(log[b]) + 1
      /\ Len(log[b]) \in Nat
      /\ log'[b][Len(log[b]) + 1] = entry
      /\ \A i \in 1..Len(log[b]) : log'[b][i] = log[b][i]
  BY <1>4, <1>5, AppendProperties, LenProperties
<1>7. \A a \in Agents : \A i \in 1..Len(log[a]) : i \in 1..Len(log'[a]) /\ log'[a][i] = log[a][i]
  <2>1. \A i \in 1..Len(log[b]) : i \in 1..Len(log'[b]) /\ log'[b][i] = log[b][i]
    BY <1>6
  <2>2. \A a \in Agents \ {b} : log'[a] = log[a]
    BY <1>5
  <2> QED
    BY <2>1, <2>2
<1>8. ReadsAreCommitted'
  <2> SUFFICES ASSUME NEW u \in Workers
               PROVE  ReadsCommitted(tx[u])'
    BY DEF ReadsAreCommitted
  <2>1. CASE u = w
    BY <1>2, <1>3, <2>1 DEF ReadsCommitted, Idle
  <2>2. CASE u # w
    <3>1. tx'[u] = tx[u] /\ SoundTransaction(tx[u]) /\ ReadsCommitted(tx[u])
      BY <1>2, <1>3, <2>2
      DEF RangeInvariant, TransactionsAreSound, HistoryInvariant, ReadsAreCommitted
    <3>2. tx[u].pc \in {"update", "commit"} => tx[u].agent \in Agents
      BY <3>1 DEF SoundTransaction, InTransaction
    <3> QED
      BY <1>7, <3>1, <3>2 DEF ReadsCommitted
  <2> QED
    BY <2>1, <2>2
<1>9. HistoryMatchesRows'
  <2> SUFFICES ASSUME NEW a \in Agents
               PROVE  /\ Registered(a)' <=> log'[a] # <<>>
                      /\ Registered(a)' => log'[a][Len(log'[a])].score = score'[a]
    BY DEF HistoryMatchesRows
  <2>1. CASE a = b
    <3>1. log'[b] # <<>>
      BY <1>4, <1>5, AppendProperties
    <3>2. log'[b][Len(log'[b])].score = score'[b]
      BY <1>5, <1>6
    <3> QED
      BY <1>1, <2>1, <3>1, <3>2
  <2>2. CASE a # b
    BY <1>5, <2>2 DEF HistoryInvariant, HistoryMatchesRows
  <2> QED
    BY <2>1, <2>2
<1>10. ScoreHasProvenance'
  <2> SUFFICES ASSUME NEW a \in Agents, Registered(a)', NEW i \in 2..Len(log'[a])
               PROVE  /\ log'[a][i].seen \in 1..(i - 1)
                      /\ log'[a][i].score =
                           IF log'[a][i].op = "forget" THEN 0
                           ELSE Clamp(log'[a][log'[a][i].seen].score + log'[a][i].delta)
    BY <1>9 DEF ScoreHasProvenance, HistoryMatchesRows
  <2>1. CASE a # b
    <3>1. log'[a] = log[a] /\ Registered(a) /\ i \in 2..Len(log[a])
      BY <1>5, <2>1
    <3> QED
      BY <3>1 DEF HistoryInvariant, ScoreHasProvenance
  <2>2. CASE a = b /\ i # Len(log[b]) + 1
    <3>1. i \in 2..Len(log[b])
      BY <1>6, <2>2
    <3>2. /\ log[b][i].seen \in 1..(i - 1)
          /\ log[b][i].score = IF log[b][i].op = "forget" THEN 0
                               ELSE Clamp(log[b][log[b][i].seen].score + log[b][i].delta)
      BY <1>1, <3>1 DEF HistoryInvariant, ScoreHasProvenance
    <3>3. i \in 1..Len(log[b]) /\ log[b][i].seen \in 1..Len(log[b])
      BY <1>6, <3>1, <3>2
    <3> QED
      BY <1>6, <2>2, <3>2, <3>3
  <2>3. CASE a = b /\ i = Len(log[b]) + 1
    <3>1. log'[a][i] = entry /\ i - 1 = Len(log[b])
      BY <1>6, <2>3
    <3>2. t.seen \in 1..Len(log[b]) /\ (t.op # "forget" => t.read = log[b][t.seen].score)
      BY <1>1 DEF ReadsCommitted
    <3>3. NewScore(t) = IF t.op = "forget" THEN 0 ELSE Clamp(t.read + Change(t))
      BY <1>1, NewScoreIsClamped DEF SoundTransaction
    <3>4. log'[b][t.seen] = log[b][t.seen]
      BY <1>6, <3>2
    <3>5. /\ entry.seen = t.seen /\ entry.op = t.op
          /\ entry.score = NewScore(t) /\ entry.delta = Change(t)
      OBVIOUS
    <3> HIDE DEF entry, t
    <3> QED
      BY <2>3, <3>1, <3>2, <3>3, <3>4, <3>5
  <2> QED
    BY <2>1, <2>2, <2>3
<1> QED
  BY <1>8, <1>9, <1>10 DEF HistoryInvariant

LEMMA RegisterKeepsHistory ==
  ASSUME RangeInvariant, HistoryInvariant, NEW b \in Agents, Register(b)
  PROVE  HistoryInvariant'
<1> DEFINE first == [op |-> "register", ver |-> None, delta |-> 0, seen |-> 0,
                     first |-> TRUE, score |-> RegisteredScore]
<1>1. /\ log'[b] = <<first>> /\ score'[b] = RegisteredScore /\ ~Registered(b)
      /\ Registered(b)' /\ UNCHANGED tx
      /\ \A a \in Agents \ {b} :
           log'[a] = log[a] /\ score'[a] = score[a] /\ (Registered(a)' <=> Registered(a))
  BY DEF Register, Registered, RangeInvariant, TypeOK
<1>2. Len(<<first>>) = 1 /\ <<first>>[1] = first /\ <<first>> # <<>>
  OBVIOUS
<1>3. ReadsAreCommitted'
  <2> SUFFICES ASSUME NEW u \in Workers
               PROVE  ReadsCommitted(tx[u])'
    BY DEF ReadsAreCommitted
  <2>1. SoundTransaction(tx[u]) /\ ReadsCommitted(tx[u])
    BY DEF RangeInvariant, TransactionsAreSound, HistoryInvariant, ReadsAreCommitted
  <2>2. tx[u].pc \in {"update", "commit"} => tx[u].agent \in Agents \ {b}
    BY <1>1, <2>1 DEF SoundTransaction, InTransaction
  <2> QED
    BY <1>1, <2>1, <2>2 DEF ReadsCommitted
<1>4. HistoryMatchesRows'
  BY <1>1, <1>2 DEF HistoryInvariant, HistoryMatchesRows
<1>5. ScoreHasProvenance'
  <2> SUFFICES ASSUME NEW a \in Agents, Registered(a)', NEW i \in 2..Len(log'[a])
               PROVE  /\ log'[a][i].seen \in 1..(i - 1)
                      /\ log'[a][i].score =
                           IF log'[a][i].op = "forget" THEN 0
                           ELSE Clamp(log'[a][log'[a][i].seen].score + log'[a][i].delta)
    BY <1>4 DEF ScoreHasProvenance, HistoryMatchesRows
  <2>1. a # b
    <3>1. Len(log'[b]) = 1
      BY <1>1, <1>2
    <3>2. a = b => i \in 2..1
      BY <3>1
    <3>3. 2..1 = {}
      OBVIOUS
    <3> QED
      BY <3>2, <3>3
  <2> QED
    BY <1>1, <2>1 DEF HistoryInvariant, ScoreHasProvenance
<1> QED
  BY <1>3, <1>4, <1>5 DEF HistoryInvariant

LEMMA HistoryIsInductive ==
  RangeInvariant /\ HistoryInvariant /\ [Next]_vars => HistoryInvariant'
<1> SUFFICES ASSUME RangeInvariant, HistoryInvariant, [Next]_vars
             PROVE  HistoryInvariant'
  OBVIOUS
<1>1. CASE UNCHANGED vars
  BY <1>1 DEF vars, HistoryInvariant, ReadsAreCommitted, ReadsCommitted,
    HistoryMatchesRows, ScoreHasProvenance, Registered
<1>2. ASSUME NEW a \in Agents, Register(a)
      PROVE  HistoryInvariant'
  BY <1>2, RegisterKeepsHistory
<1>3. ASSUME NEW w \in Workers,
             CommitEvent(w) \/ CommitAttestation(w) \/ CommitApproval(w) \/ CommitRejection(w)
      PROVE  HistoryInvariant'
  BY <1>3, CommitKeepsHistory
  DEF CommitEvent, CommitAttestation, CommitApproval, CommitRejection, Committing, Registered
<1>4. ASSUME NEW w \in Workers, CommitForget(w)
      PROVE  HistoryInvariant'
  <2>1. tx[w].pc = "commit" /\ Publish(w)
    BY <1>4 DEF CommitForget, Committing
  <2>2. tx[w].agent \in Agents /\ Registered(tx[w].agent)
    BY <2>1 DEF RangeInvariant, TransactionsAreSound, SoundTransaction, InTransaction
  <2>3. \A a \in Agents : Registered(a) <=> Registered(a)'
    BY <1>4, <2>2 DEF CommitForget, Registered, RangeInvariant, TypeOK
  <2> QED
    BY <2>1, <2>3, CommitKeepsHistory
<1>5. ASSUME NEW w \in Workers, Request(w) \/ Step(w) \/ Abort(w)
      PROVE  HistoryInvariant'
  BY <1>3, <1>4, <1>5, StepsKeepHistory DEF Step
<1> QED
  BY <1>1, <1>2, <1>5 DEF Next

LEMMA HistoryIsInvariant == Spec => []HistoryInvariant
  BY RangeIsInvariant, InitSatisfiesHistory, HistoryIsInductive, PTL DEF Spec

\* Every committed score is one clamped change applied to an earlier committed
\* score of the same agent: a concurrent commit may be overwritten as a whole,
\* and nothing rolled back or uncommitted ever enters a score.
THEOREM ScoresHaveProvenance == Spec => []ScoreHasProvenance
<1>1. HistoryInvariant => ScoreHasProvenance
  BY DEF HistoryInvariant
<1> QED
  BY <1>1, HistoryIsInvariant, PTL

-----------------------------------------------------------------------------
(* The trust layer implements the ledger with stale credits.               *)

Past(a) == {log[a][i].score : i \in 1..Len(log[a])}

LEMMA ClampsAgree == \A n \in Int : Clamp(n) = Ledger!Clamp(n)
  BY DEF Clamp, Ledger!Clamp, AtMostThousand, AtLeastZero

\* The amounts of the ledger are the changes the transactions make.
LEMMA ChangesAreAmounts ==
  ASSUME NEW t \in Transaction, SoundTransaction(t), t.op \in ScoreOps \ {"forget"}
  PROVE  Change(t) \in {AttestationBonus, VerifierBonus, TargetPenalty}
                         \cup {e.delta : e \in Events}
<1>1. CASE t.op = "event"
  <2>1. t.event \in Events
    BY <1>1 DEF SoundTransaction
  <2>2. Change(t) = t.event.delta
    BY <1>1 DEF Change
  <2> QED
    BY <2>1, <2>2
<1>2. CASE t.op # "event"
  BY <1>2 DEF Change, ScoreOps, ResultOps
<1> QED
  BY <1>1, <1>2

LEMMA CommitIsLedgerStep ==
  ASSUME RangeInvariant, HistoryInvariant, NEW w \in Workers,
         tx[w].pc = "commit", Publish(w),
         \A a \in Agents : Registered(a) <=> Registered(a)'
  PROVE  \E b \in Agents :
           /\ b = tx[w].agent /\ Registered(b)
           /\ \/ tx[w].op = "forget" /\ Ledger!Revoke(b)
              \/ tx[w].op # "forget" /\ tx[w].read \in Past(b) /\ Ledger!Credit(b, tx[w].read)
<1>0. tx[w].agent \in Agents
  BY DEF RangeInvariant, TransactionsAreSound, SoundTransaction, InTransaction
<1> PICK b \in Agents : b = tx[w].agent
  BY <1>0
<1> DEFINE t == tx[w]
           n == NewScore(t)
           entry == [op |-> t.op, ver |-> t.ver, delta |-> Change(t),
                     seen |-> t.seen, first |-> t.first, score |-> n]
<1>1. /\ t \in Transaction /\ SoundTransaction(t) /\ ReadsCommitted(t)
      /\ b = t.agent /\ Registered(b) /\ t.op \in ScoreOps
  BY DEF RangeInvariant, TypeOK, TransactionsAreSound, SoundTransaction, InTransaction,
         HistoryInvariant, ReadsAreCommitted
<1>2. /\ log \in [Agents -> Seq(LogEntry)] /\ score \in [Agents -> Int]
      /\ log' = [log EXCEPT ![b] = Append(log[b], entry)]
      /\ score' = [score EXCEPT ![b] = n]
  BY DEF Publish, RangeInvariant, TypeOK
<1>3. entry \in LogEntry
  <2>1. n \in Scores /\ Change(t) \in Int
    BY <1>1, NewScoreInRange DEF SoundTransaction
  <2>2. n \in Int
    BY <2>1 DEF Scores
  <2> QED
    BY <1>1, <2>1, <2>2 DEF LogEntry, Transaction
<1>4. /\ Len(log[b]) \in Nat /\ Len(log'[b]) = Len(log[b]) + 1
      /\ log'[b][Len(log[b]) + 1] = entry
      /\ \A i \in 1..Len(log[b]) : log'[b][i] = log[b][i]
  BY <1>1, <1>2, <1>3, AppendProperties, LenProperties
<1>5. Past(b)' = Past(b) \cup {n}
  <2>1. \A i \in 1..Len(log'[b]) : i \in 1..Len(log[b]) \/ i = Len(log[b]) + 1
    BY <1>4
  <2>2. ASSUME NEW i \in 1..Len(log'[b])
        PROVE  log'[b][i].score \in Past(b) \cup {n}
    <3>1. CASE i \in 1..Len(log[b])
      BY <1>4, <3>1 DEF Past
    <3>2. CASE i = Len(log[b]) + 1
      BY <1>4, <3>2
    <3> QED
      BY <2>1, <3>1, <3>2
  <2>3. \A i \in 1..Len(log[b]) : i \in 1..Len(log'[b])
    BY <1>4
  <2>4. \A x \in Past(b) : x \in Past(b)'
    BY <1>4, <2>3 DEF Past
  <2>5. Len(log[b]) + 1 \in 1..Len(log'[b])
    BY <1>4
  <2>6. n \in Past(b)'
    <3>1. log'[b][Len(log[b]) + 1].score = n
      BY <1>4
    <3> QED
      BY <2>5, <3>1 DEF Past
  <2>7. \A x \in Past(b)' : x \in Past(b) \cup {n}
    BY <2>2 DEF Past
  <2> QED
    BY <2>4, <2>6, <2>7
<1>6. \A a \in Agents \ {b} : Past(a)' = Past(a)
  BY <1>2 DEF Past
<1>7. [a \in Agents |-> Past(a)]' = [[a \in Agents |-> Past(a)] EXCEPT ![b] = @ \cup {n}]
  BY <1>1, <1>5, <1>6
<1>8. [a \in Agents |-> IF Registered(a) THEN score[a] ELSE None]'
        = [[a \in Agents |-> IF Registered(a) THEN score[a] ELSE None] EXCEPT ![b] = n]
  BY <1>1, <1>2
<1>9. Ledger!Become(b, n)
  BY <1>7, <1>8 DEF Ledger!Become, Past
<1>10. CASE t.op = "forget"
  <2>1. n = 0
    BY <1>1, <1>10, NewScoreIsClamped DEF SoundTransaction
  <2>2. Past(b) # {}
    BY <1>1, ReadingIsCommitted DEF Past
  <2>3. Ledger!Revoke(b)
    <3>1. Ledger!Become(b, 0)
      BY <1>7, <1>8, <2>1 DEF Ledger!Become, Past
    <3>2. [a \in Agents |-> Past(a)][b] # {}
      BY <2>2
    <3> QED
      BY <3>1, <3>2 DEF Ledger!Revoke, Past
  <2> QED
    BY <1>1, <1>10, <2>3
<1>11. CASE t.op # "forget"
  <2>1. n = Ledger!Clamp(t.read + Change(t))
    <3>1. t.read \in Int /\ Change(t) \in Int
      BY <1>1, NewScoreInRange DEF SoundTransaction, Transaction
    <3>2. t.read + Change(t) \in Int
      BY <3>1
    <3> QED
      BY <1>1, <1>11, <3>2, NewScoreIsClamped, ClampsAgree DEF SoundTransaction
  <2>2. t.read \in Past(b)
    BY <1>1, <1>11 DEF ReadsCommitted, Past
  <2>3. Change(t) \in {AttestationBonus, VerifierBonus, TargetPenalty}
                         \cup {e.delta : e \in Events}
    BY <1>1, <1>11, ChangesAreAmounts
  <2>4. Ledger!Credit(b, t.read)
    <3>1. PICK d \in {AttestationBonus, VerifierBonus, TargetPenalty}
                         \cup {e.delta : e \in Events} : d = Change(t)
      BY <2>3
    <3>2. Ledger!Become(b, Ledger!Clamp(t.read + d))
      BY <1>7, <1>8, <2>1, <3>1 DEF Ledger!Become, Past
    <3>3. t.read \in [a \in Agents |-> Past(a)][b]
      BY <2>2
    <3> QED
      BY <3>2, <3>3 DEF Ledger!Credit, Past
  <2> QED
    BY <1>1, <1>11, <2>2, <2>4
<1> QED
  BY <1>10, <1>11

LEMMA RegisterIsLedgerStep ==
  ASSUME RangeInvariant, HistoryInvariant, NEW b \in Agents, Register(b)
  PROVE  Ledger!Open(b)
<1> DEFINE first == [op |-> "register", ver |-> None, delta |-> 0, seen |-> 0,
                     first |-> TRUE, score |-> RegisteredScore]
<1>1. /\ log'[b] = <<first>> /\ score'[b] = RegisteredScore /\ ~Registered(b)
      /\ Registered(b)' /\ log[b] = <<>>
      /\ \A a \in Agents \ {b} :
           log'[a] = log[a] /\ score'[a] = score[a] /\ (Registered(a)' <=> Registered(a))
  BY DEF Register, Registered, RangeInvariant, TypeOK, HistoryInvariant, HistoryMatchesRows
<1>2. Past(b) = {}
  BY <1>1 DEF Past
<1>3. Past(b)' = {RegisteredScore}
  <2>1. Len(<<first>>) = 1 /\ <<first>>[1] = first
    OBVIOUS
  <2>2. 1..1 = {1}
    OBVIOUS
  <2> QED
    BY <1>1, <2>1, <2>2 DEF Past
<1>4. \A a \in Agents \ {b} : Past(a)' = Past(a)
  BY <1>1 DEF Past
<1>5. [a \in Agents |-> Past(a)]'
        = [[a \in Agents |-> Past(a)] EXCEPT ![b] = @ \cup {RegisteredScore}]
  BY <1>2, <1>3, <1>4
<1>6. [a \in Agents |-> IF Registered(a) THEN score[a] ELSE None]'
        = [[a \in Agents |-> IF Registered(a) THEN score[a] ELSE None]
             EXCEPT ![b] = RegisteredScore]
  BY <1>1
<1> QED
  BY <1>2, <1>5, <1>6 DEF Ledger!Open, Ledger!Become, Past

\* A step of the trust layer and what it is for the ledger.
LEMMA StepsOfTheLedger ==
  ASSUME RangeInvariant, HistoryInvariant, [Next]_vars
  PROVE  \/ UNCHANGED Ledger!ledger
         \/ \E b \in Agents : Ledger!Open(b) \/ Ledger!Revoke(b)
         \/ \E w \in Workers : \E b \in Agents :
              /\ tx[w].pc = "commit" /\ tx[w].op # "forget" /\ b = tx[w].agent /\ Registered(b)
              /\ tx[w].read \in Past(b) /\ Ledger!Credit(b, tx[w].read) /\ tx'[w] = Idle
<1>a. ASSUME UNCHANGED <<key, score, log>>
      PROVE  UNCHANGED Ledger!ledger
  BY <1>a DEF Ledger!ledger, Registered
<1>1. CASE UNCHANGED vars
  BY <1>a, <1>1 DEF vars
<1>2. ASSUME NEW a \in Agents, Register(a)
      PROVE  Ledger!Open(a)
  BY <1>2, RegisterIsLedgerStep
<1> DEFINE Settles(w) ==
             \E b \in Agents :
               /\ b = tx[w].agent /\ Registered(b)
               /\ \/ tx[w].op = "forget" /\ Ledger!Revoke(b)
                  \/ tx[w].op # "forget" /\ tx[w].read \in Past(b) /\ Ledger!Credit(b, tx[w].read)
<1>3. ASSUME NEW w \in Workers,
             CommitEvent(w) \/ CommitAttestation(w) \/ CommitApproval(w) \/ CommitRejection(w)
      PROVE  Settles(w) /\ tx[w].pc = "commit" /\ tx'[w] = Idle
  <2>1. tx[w].pc = "commit" /\ Publish(w) /\ key' = key
    BY <1>3 DEF CommitEvent, CommitAttestation, CommitApproval, CommitRejection, Committing
  <2>2. tx'[w] = Idle
    BY <2>1 DEF Publish, RangeInvariant, TypeOK
  <2> QED
    BY <2>1, <2>2, CommitIsLedgerStep DEF Registered
<1>4. ASSUME NEW w \in Workers, CommitForget(w)
      PROVE  Settles(w) /\ tx[w].pc = "commit" /\ tx'[w] = Idle
  <2>1. tx[w].pc = "commit" /\ Publish(w) /\ tx'[w] = Idle
    BY <1>4 DEF CommitForget, Committing, Publish, RangeInvariant, TypeOK
  <2>2. tx[w].agent \in Agents /\ Registered(tx[w].agent)
    BY <2>1 DEF RangeInvariant, TransactionsAreSound, SoundTransaction, InTransaction
  <2>3. \A a \in Agents : Registered(a) <=> Registered(a)'
    BY <1>4, <2>2 DEF CommitForget, Registered, RangeInvariant, TypeOK
  <2> QED
    BY <2>1, <2>3, CommitIsLedgerStep
<1>5. ASSUME NEW w \in Workers, Request(w)
      PROVE  UNCHANGED Ledger!ledger
  BY <1>a, <1>5 DEF Request, LogEvent, SaveAttestation, Forget, SelectVerifier,
    FetchVerification, Begin, tables
<1>6. ASSUME NEW w \in Workers,
             \/ ClaimVerification(w) \/ ReadScore(w) \/ UpdateAgent(w)
             \/ InsertVerification(w) \/ InsertRefused(w) \/ Abort(w)
      PROVE  UNCHANGED Ledger!ledger
  BY <1>a, <1>6 DEF ClaimVerification, ReadScore, UpdateAgent, InsertVerification,
    InsertRefused, Abort, tables
<1> QED
  BY <1>1, <1>2, <1>3, <1>4, <1>5, <1>6 DEF Next, Step

LEMMA StepsAreLedgerSteps ==
  RangeInvariant /\ HistoryInvariant /\ [Next]_vars => [Ledger!StaleNext]_(Ledger!ledger)
<1> SUFFICES ASSUME RangeInvariant, HistoryInvariant, [Next]_vars
             PROVE  [Ledger!StaleNext]_(Ledger!ledger)
  OBVIOUS
<1>1. ASSUME NEW b \in Agents, NEW n \in Past(b), Ledger!Credit(b, n)
      PROVE  Ledger!StaleNext
  BY <1>1 DEF Ledger!StaleNext, Past
<1>2. ASSUME NEW b \in Agents, Ledger!Open(b) \/ Ledger!Revoke(b)
      PROVE  Ledger!StaleNext
  BY <1>2 DEF Ledger!StaleNext
<1> QED
  BY <1>1, <1>2, StepsOfTheLedger

\* However requests interleave, the scores behave like a ledger whose credits
\* start from a balance the account has had.
THEOREM TrustImplementsStaleLedger == Spec => ImplementsStaleLedger
<1>1. Init => Ledger!Init
  BY DEF Init, Ledger!Init, Registered
<1> QED
  BY <1>1, RangeIsInvariant, HistoryIsInvariant, StepsAreLedgerSteps, PTL
  DEF Spec, ImplementsStaleLedger, Ledger!StaleSpec

\* A credit that is not exact is that of a transaction that was overtaken.
LEMMA StepsAreExact ==
  ASSUME RangeInvariant, HistoryInvariant, [Next]_vars
  PROVE  \/ Ledger!Next
         \/ UNCHANGED Ledger!ledger
         \/ \E w \in Workers : Overtaken(w) /\ tx'[w] = Idle
<1> DEFINE balance == [a \in Agents |-> IF Registered(a) THEN score[a] ELSE None]
<1>1. ASSUME NEW b \in Agents, Ledger!Open(b) \/ Ledger!Revoke(b) \/ Ledger!Credit(b, balance[b])
      PROVE  Ledger!Next
  BY <1>1 DEF Ledger!Next
<1>2. ASSUME NEW w \in Workers, NEW b \in Agents, tx[w].pc = "commit", tx[w].op # "forget",
             b = tx[w].agent, Registered(b), Ledger!Credit(b, tx[w].read), tx'[w] = Idle
      PROVE  Ledger!Credit(b, balance[b]) \/ (Overtaken(w) /\ tx'[w] = Idle)
  <2>1. tx[w].seen \in 1..Len(log[b]) /\ tx[w].read = log[b][tx[w].seen].score
    BY <1>2 DEF HistoryInvariant, ReadsAreCommitted, ReadsCommitted
  <2>2. Len(log[b]) \in Nat /\ log[b][Len(log[b])].score = score[b]
    BY <1>2, LenProperties DEF RangeInvariant, TypeOK, HistoryInvariant, HistoryMatchesRows
  <2>3. CASE tx[w].seen = Len(log[b])
    <3>1. tx[w].read = balance[b]
      BY <1>2, <2>1, <2>2, <2>3
    <3> QED
      BY <1>2, <3>1
  <2>4. CASE tx[w].seen # Len(log[b])
    BY <1>2, <2>1, <2>2, <2>4 DEF Overtaken
  <2> QED
    BY <2>3, <2>4
<1> QED
  BY <1>1, <1>2, StepsOfTheLedger

\* With any number of requests at once the trust layer takes steps of the exact
\* ledger only, but for the commits of transactions that were overtaken.
THEOREM OnlyOvertakenChangesAreLost == Spec => ExactUnlessOvertaken
<1>1. RangeInvariant /\ HistoryInvariant /\ [Next]_vars
        => \/ Ledger!Next
           \/ UNCHANGED Ledger!ledger
           \/ \E w \in Workers : Overtaken(w) /\ tx'[w] = Idle
  BY StepsAreExact
<1> QED
  BY <1>1, RangeIsInvariant, HistoryIsInvariant, PTL DEF Spec, ExactUnlessOvertaken

-----------------------------------------------------------------------------
(* Locks, and keys.                                                        *)

\* Among any open transactions there is one that waits for none of the others:
\* one that has its locks if there is one, else one that waits for a score row,
\* else any, as none has claimed a verification (verification.go:106-150).
THEOREM NoDeadlock == Spec => []NoCircularWait
<1>1. NoCircularWait
  <2> SUFFICES ASSUME NEW waiting \in SUBSET Workers, waiting # {}
               PROVE  \E w \in waiting : \A u \in waiting : ~Waits(w, u)
    BY DEF NoCircularWait
  <2>1. CASE \E w \in waiting : tx[w].pc \notin {"claim", "update"}
    BY <2>1 DEF Waits
  <2>2. CASE /\ \A w \in waiting : tx[w].pc \in {"claim", "update"}
             /\ \E w \in waiting : tx[w].pc = "update"
    BY <2>2 DEF Waits, HoldsAgent
  <2>3. CASE \A w \in waiting : tx[w].pc = "claim"
    BY <2>3 DEF Waits, HoldsVerification
  <2> QED
    BY <2>1, <2>2, <2>3
<1> QED
  BY <1>1, PTL

\* Register's INSERT is refused for a DID that Forget has emptied, and nothing
\* else writes a key (registry.go, gdpr.Forget): the key is gone for good.
THEOREM ForgottenKeysStayGone == Spec => ForgottenForGood
<1>1. ASSUME RangeInvariant, [Next]_vars, NEW a \in Agents, key[a] = "cleared"
      PROVE  key'[a] = "cleared"
  <2>1. ASSUME NEW b \in Agents, Register(b)
        PROVE  key'[a] = "cleared"
    BY <1>1, <2>1 DEF Register, Registered, RangeInvariant, TypeOK
  <2>2. ASSUME NEW w \in Workers, CommitForget(w)
        PROVE  key'[a] = "cleared"
    BY <1>1, <2>2 DEF CommitForget, RangeInvariant, TypeOK
  <2>3. ASSUME NEW w \in Workers, Request(w) \/ Abort(w)
        PROVE  UNCHANGED key
    BY <2>3 DEF Request, LogEvent, SaveAttestation, Forget, SelectVerifier,
      FetchVerification, Begin, Abort, tables
  <2>4. ASSUME NEW w \in Workers, Step(w), ~CommitForget(w)
        PROVE  UNCHANGED key
    BY <2>4 DEF Step, ClaimVerification, ReadScore, UpdateAgent, CommitEvent,
      CommitAttestation, CommitApproval, CommitRejection, InsertVerification, InsertRefused, tables
  <2> QED
    BY <1>1, <2>1, <2>2, <2>3, <2>4 DEF Next, vars
<1>2. RangeInvariant /\ [Next]_vars => [\A a \in Agents : key[a] = "cleared" => key'[a] = "cleared"]_vars
  BY <1>1
<1> QED
  BY <1>2, RangeIsInvariant, PTL DEF Spec, ForgottenForGood

-----------------------------------------------------------------------------
(* Records and effects.                                                    *)

\* The entries of a history with one of these operations and verifications.
Positions(s, ops, vers) == {i \in 1..Len(s) : s[i].op \in ops /\ s[i].ver \in vers}

Occurs(e, ops, vers) == e.op \in ops /\ e.ver \in vers

LEMMA PositionsAreFinite ==
  ASSUME NEW s \in Seq(LogEntry), NEW ops, NEW vers
  PROVE  /\ IsFiniteSet(Positions(s, ops, vers))
         /\ Cardinality(Positions(s, ops, vers)) \in Nat
<1>1. Len(s) \in Nat
  BY LenProperties
<1>2. IsFiniteSet(1..Len(s))
  BY <1>1, FS_Interval
<1>3. Positions(s, ops, vers) \in SUBSET (1..Len(s))
  BY DEF Positions
<1> QED
  BY <1>2, <1>3, FS_Subset, FS_CardinalityType

LEMMA PositionsAfterAppend ==
  ASSUME NEW s \in Seq(LogEntry), NEW e \in LogEntry, NEW ops, NEW vers
  PROVE  /\ Positions(s, ops, vers) \subseteq Positions(Append(s, e), ops, vers)
         /\ Occurs(e, ops, vers) => Len(s) + 1 \in Positions(Append(s, e), ops, vers)
         /\ Cardinality(Positions(Append(s, e), ops, vers)) =
              Cardinality(Positions(s, ops, vers)) + (IF Occurs(e, ops, vers) THEN 1 ELSE 0)
<1> DEFINE n == Len(s)
<1>1. /\ n \in Nat /\ Len(Append(s, e)) = n + 1
      /\ Append(s, e)[n + 1] = e
      /\ \A i \in 1..n : Append(s, e)[i] = s[i]
  BY AppendProperties, LenProperties
<1> HIDE DEF n
<1>2. 1..(n + 1) = (1..n) \cup {n + 1} /\ n + 1 \notin 1..n
  BY <1>1
<1>3. Positions(s, ops, vers) = {i \in 1..n : s[i].op \in ops /\ s[i].ver \in vers}
  BY DEF Positions, n
<1>4. Positions(Append(s, e), ops, vers) =
        IF Occurs(e, ops, vers) THEN Positions(s, ops, vers) \cup {n + 1}
                                ELSE Positions(s, ops, vers)
  <2> DEFINE p == Positions(Append(s, e), ops, vers)
             q == IF Occurs(e, ops, vers) THEN Positions(s, ops, vers) \cup {n + 1}
                                          ELSE Positions(s, ops, vers)
  <2>1. \A i : i \in p <=> /\ i \in (1..n) \cup {n + 1}
                           /\ Append(s, e)[i].op \in ops /\ Append(s, e)[i].ver \in vers
    BY <1>1, <1>2 DEF Positions
  <2>2. \A i \in 1..n : i \in p <=> i \in Positions(s, ops, vers)
    BY <1>1, <1>3, <2>1
  <2>3. n + 1 \in p <=> Occurs(e, ops, vers)
    BY <1>1, <2>1 DEF Occurs
  <2>4. \A i : i \in q <=> i \in Positions(s, ops, vers) \/ (i = n + 1 /\ Occurs(e, ops, vers))
    OBVIOUS
  <2>5. \A i \in Positions(s, ops, vers) : i \in 1..n
    BY <1>3
  <2>6. \A i : i \in p <=> i \in q
    BY <2>1, <2>2, <2>3, <2>4, <2>5
  <2> QED
    BY <2>6
<1>5. n + 1 \notin Positions(s, ops, vers)
  BY <1>2, <1>3
<1>6. IsFiniteSet(Positions(s, ops, vers)) /\ Cardinality(Positions(s, ops, vers)) \in Nat
  BY PositionsAreFinite
<1>7. Cardinality(Positions(s, ops, vers) \cup {n + 1}) = Cardinality(Positions(s, ops, vers)) + 1
  BY <1>5, <1>6, FS_AddElement
<1> QED
  BY <1>4, <1>6, <1>7 DEF n

LEMMA EntriesArePositions ==
  ASSUME NEW s \in Seq(LogEntry), NEW ops
  PROVE  {i \in 1..Len(s) : s[i].op \in ops} = Positions(s, ops, Verifications \cup {None})
<1>1. \A i \in 1..Len(s) : s[i] \in LogEntry
  BY LenProperties, ElementOfSeq
<1>2. \A i \in 1..Len(s) : s[i].ver \in Verifications \cup {None}
  BY <1>1 DEF LogEntry
<1> QED
  BY <1>2 DEF Positions

EventRows(a) ==
  events[a]["policy_violation"] + events[a]["dispute_lost"] + events[a]["other"]

\* A transaction is about the agent its verification names, and an attestation is
\* about none.
SoundEffect(t) ==
  /\ t.op = "attest" => t.ver = None
  /\ t.op \in ResultOps /\ t.pc \in InTransaction =>
       t.agent = IF t.op = "approve" THEN verification[t.ver].verifier
                                     ELSE verification[t.ver].target

EffectsAreSound == \A w \in Workers : SoundEffect(tx[w])

RecordsInvariant == EffectsAreSound /\ RecordsMatchEffects

LEMMA InitSatisfiesRecords == Init => RecordsInvariant
<1> SUFFICES ASSUME Init
             PROVE  EffectsAreSound /\ ResultsTakeEffect /\ RowsMatchScores
  BY DEF RecordsInvariant, RecordsMatchEffects
<1>1. EffectsAreSound
  BY DEF Init, EffectsAreSound, SoundEffect, Idle, ResultOps
<1>2. ResultsTakeEffect
  BY DEF Init, ResultsTakeEffect, NoVerification
<1>3. RowsMatchScores
  <2> SUFFICES ASSUME NEW a \in Agents
               PROVE  /\ attestations[a] = Cardinality(Entries(a, {"attest"}, None))
                      /\ events[a]["policy_violation"] + events[a]["dispute_lost"] + events[a]["other"]
                           = Cardinality({i \in 1..Len(log[a]) : log[a][i].op \in {"event", "reject"}})
    BY DEF RowsMatchScores
  <2>1. log[a] = <<>> /\ Len(log[a]) = 0 /\ 1..0 = {}
    BY DEF Init
  <2>2. /\ Entries(a, {"attest"}, None) = {}
        /\ {i \in 1..Len(log[a]) : log[a][i].op \in {"event", "reject"}} = {}
    BY <2>1 DEF Entries
  <2>3. attestations[a] = 0 /\ \A t \in EventTypes : events[a][t] = 0
    BY DEF Init
  <2>4. events[a]["policy_violation"] + events[a]["dispute_lost"] + events[a]["other"] = 0
    BY <2>3 DEF EventTypes
  <2> QED
    BY <2>2, <2>3, <2>4, FS_EmptySet
<1> QED
  BY <1>1, <1>2, <1>3

\* What a commit leaves in the histories.
LEMMA CommitAppends ==
  ASSUME RangeInvariant, NEW w \in Workers, tx[w].pc = "commit", Publish(w)
  PROVE  /\ tx[w].agent \in Agents
         /\ \E e \in LogEntry :
              /\ e.op = tx[w].op /\ e.ver = tx[w].ver /\ e.first = tx[w].first
              /\ e.score \in Scores
              /\ log'[tx[w].agent] = Append(log[tx[w].agent], e)
         /\ \A a \in Agents \ {tx[w].agent} : log'[a] = log[a]
<1> DEFINE t == tx[w]
           entry == [op |-> t.op, ver |-> t.ver, delta |-> Change(t),
                     seen |-> t.seen, first |-> t.first, score |-> NewScore(t)]
<1>1. /\ t \in Transaction /\ SoundTransaction(t) /\ t.agent \in Agents /\ t.op \in ScoreOps
  BY DEF RangeInvariant, TypeOK, TransactionsAreSound, SoundTransaction, InTransaction
<1>2. log' = [log EXCEPT ![t.agent] = Append(log[t.agent], entry)]
      /\ log \in [Agents -> Seq(LogEntry)]
  BY DEF Publish, RangeInvariant, TypeOK
<1>3. entry \in LogEntry
  <2>1. NewScore(t) \in Scores /\ Change(t) \in Int
    BY <1>1, NewScoreInRange DEF SoundTransaction
  <2>2. NewScore(t) \in Int
    BY <2>1 DEF Scores
  <2> QED
    BY <1>1, <2>1, <2>2 DEF LogEntry, Transaction
<1>4. entry.op = t.op /\ entry.ver = t.ver /\ entry.first = t.first /\ entry.score \in Scores
  BY <1>1, NewScoreInRange DEF SoundTransaction
<1> HIDE DEF entry
<1> QED
  BY <1>1, <1>2, <1>3, <1>4

\* The rows agree with the histories again when a commit has added to both.
LEMMA RowsAfterCommit ==
  ASSUME log \in [Agents -> Seq(LogEntry)], RowsMatchScores,
         NEW b \in Agents, NEW e \in LogEntry,
         e.op = "attest" => e.ver = None,
         log'[b] = Append(log[b], e),
         attestations'[b] = attestations[b] + (IF e.op = "attest" THEN 1 ELSE 0),
         EventRows(b)' = EventRows(b) + (IF e.op \in {"event", "reject"} THEN 1 ELSE 0),
         \A a \in Agents \ {b} :
           log'[a] = log[a] /\ attestations'[a] = attestations[a] /\ EventRows(a)' = EventRows(a)
  PROVE  RowsMatchScores'
<1> DEFINE Bonuses(s) == Positions(s, {"attest"}, {None})
           Marks(s) == Positions(s, {"event", "reject"}, Verifications \cup {None})
<1>1. log'[b] \in Seq(LogEntry) /\ \A a \in Agents : log[a] \in Seq(LogEntry)
  BY AppendProperties
<1>2. \A a \in Agents : log'[a] \in Seq(LogEntry)
  BY <1>1
<1>3. ASSUME NEW a \in Agents
      PROVE  /\ attestations[a] = Cardinality(Bonuses(log[a]))
             /\ EventRows(a) = Cardinality(Marks(log[a]))
  <2>1. Entries(a, {"attest"}, None) = Bonuses(log[a])
    BY DEF Entries, Positions
  <2>2. {i \in 1..Len(log[a]) : log[a][i].op \in {"event", "reject"}} = Marks(log[a])
    BY <1>1, EntriesArePositions
  <2> HIDE DEF Bonuses, Marks
  <2> QED
    BY <2>1, <2>2 DEF RowsMatchScores, EventRows
<1>4. /\ Occurs(e, {"attest"}, {None}) <=> e.op = "attest"
      /\ Occurs(e, {"event", "reject"}, Verifications \cup {None}) <=> e.op \in {"event", "reject"}
  BY DEF Occurs, LogEntry
<1>5. /\ Cardinality(Bonuses(log'[b])) = Cardinality(Bonuses(log[b])) + (IF e.op = "attest" THEN 1 ELSE 0)
      /\ Cardinality(Marks(log'[b])) =
           Cardinality(Marks(log[b])) + (IF e.op \in {"event", "reject"} THEN 1 ELSE 0)
  BY <1>1, <1>4, PositionsAfterAppend
<1> HIDE DEF Bonuses, Marks
<1>6. ASSUME NEW a \in Agents
      PROVE  attestations'[a] = Cardinality(Bonuses(log'[a]))
             /\ EventRows(a)' = Cardinality(Marks(log'[a]))
  <2>1. CASE a = b
    BY <1>3, <1>5, <2>1
  <2>2. CASE a # b
    BY <1>3, <2>2
  <2> QED
    BY <2>1, <2>2
<1>7. ASSUME NEW a \in Agents
      PROVE  /\ Entries(a, {"attest"}, None)' = Bonuses(log'[a])
             /\ {i \in 1..Len(log'[a]) : log'[a][i].op \in {"event", "reject"}} = Marks(log'[a])
  <2>1. Entries(a, {"attest"}, None)' = Bonuses(log'[a])
    BY DEF Entries, Positions, Bonuses
  <2>2. {i \in 1..Len(log'[a]) : log'[a][i].op \in {"event", "reject"}} = Marks(log'[a])
    BY <1>2, EntriesArePositions, Zenon DEF Marks
  <2> QED
    BY <2>1, <2>2
<1> QED
  BY <1>6, <1>7 DEF RowsMatchScores, EventRows

\* The result a commit publishes is paid for by the same commit, and the others
\* keep their entries.
LEMMA ResultsAfterCommit ==
  ASSUME RangeInvariant, RecordsInvariant, NEW w \in Workers, tx[w].pc = "commit", Publish(w),
         \A v \in Verifications :
           /\ verification'[v].target = verification[v].target
           /\ verification'[v].verifier = verification[v].verifier
           /\ \/ verification'[v].status = verification[v].status
              \/ /\ v = tx[w].ver
                 /\ \/ tx[w].op = "approve" /\ verification'[v].status = "completed"
                    \/ tx[w].op = "reject" /\ verification'[v].status = "failed"
  PROVE  ResultsTakeEffect'
<1>0. tx[w].agent \in Agents
  BY CommitAppends
<1> PICK b \in Agents : b = tx[w].agent
  BY <1>0
<1>1. PICK e \in LogEntry :
        e.op = tx[w].op /\ e.ver = tx[w].ver /\ log'[b] = Append(log[b], e)
          /\ \A a \in Agents \ {b} : log'[a] = log[a]
  BY CommitAppends
<1>2. \A a \in Agents : log[a] \in Seq(LogEntry)
  BY DEF RangeInvariant, TypeOK
<1>3. \A a \in Agents : \A v : Entries(a, {"approve"}, v) = Positions(log[a], {"approve"}, {v})
                           /\ Entries(a, {"reject"}, v) = Positions(log[a], {"reject"}, {v})
  BY DEF Entries, Positions
<1>4. \A a \in Agents : \A v : Entries(a, {"approve"}, v)' = Positions(log'[a], {"approve"}, {v})
                           /\ Entries(a, {"reject"}, v)' = Positions(log'[a], {"reject"}, {v})
  BY DEF Entries, Positions
<1>5. ASSUME NEW a \in Agents, NEW v, NEW ops \in {{"approve"}, {"reject"}}
      PROVE  Positions(log[a], ops, {v}) \subseteq Positions(log'[a], ops, {v})
  <2>1. CASE a = b
    BY <1>1, <1>2, <2>1, PositionsAfterAppend
  <2>2. CASE a # b
    BY <1>1, <2>2
  <2> QED
    BY <2>1, <2>2
<1>6. ASSUME NEW ops, tx[w].op \in ops
      PROVE  Positions(log'[b], ops, {tx[w].ver}) # {}
  <2>1. Occurs(e, ops, {tx[w].ver}) /\ log[b] \in Seq(LogEntry)
    BY <1>1, <1>2, <1>6 DEF Occurs
  <2> QED
    BY <1>1, <2>1, PositionsAfterAppend
<1>7. SoundEffect(tx[w])
  BY DEF RecordsInvariant, EffectsAreSound
<1>8. ASSUME NEW v \in Verifications, verification'[v].status = "completed"
      PROVE  Entries(verification[v].verifier, {"approve"}, v)' # {}
  <2>1. CASE verification[v].status = "completed"
    <3>1. verification[v].verifier \in Agents
      BY <2>1 DEF RangeInvariant, VerificationsAreSound
    <3>2. Entries(verification[v].verifier, {"approve"}, v) # {}
      BY <2>1 DEF RecordsInvariant, RecordsMatchEffects, ResultsTakeEffect
    <3>3. PICK a \in Agents : a = verification[v].verifier
      BY <3>1
    <3>4. Positions(log[a], {"approve"}, {v}) \subseteq Positions(log'[a], {"approve"}, {v})
      BY <1>5
    <3>5. Entries(a, {"approve"}, v) = Positions(log[a], {"approve"}, {v})
      BY <1>3
    <3>6. Entries(a, {"approve"}, v)' = Positions(log'[a], {"approve"}, {v})
      BY <1>4
    <3>7. Entries(a, {"approve"}, v)' # {}
      BY <3>2, <3>3, <3>4, <3>5, <3>6
    <3> QED
      BY <3>3, <3>7
  <2>2. CASE verification[v].status # "completed"
    <3>1. v = tx[w].ver /\ tx[w].op = "approve" /\ verification[v].verifier = b
      BY <1>7, <1>8, <2>2 DEF SoundEffect, ResultOps, InTransaction
    <3>2. Positions(log'[b], {"approve"}, {v}) # {}
      BY <1>6, <3>1
    <3>3. Entries(b, {"approve"}, v)' = Positions(log'[b], {"approve"}, {v})
      BY <1>1, <1>4
    <3> QED
      BY <3>1, <3>2, <3>3
  <2> QED
    BY <2>1, <2>2
<1>9. ASSUME NEW v \in Verifications, verification'[v].status = "failed"
      PROVE  Entries(verification[v].target, {"reject"}, v)' # {}
  <2>1. CASE verification[v].status = "failed"
    <3>1. verification[v].target \in Agents
      BY <2>1 DEF RangeInvariant, VerificationsAreSound
    <3>2. Entries(verification[v].target, {"reject"}, v) # {}
      BY <2>1 DEF RecordsInvariant, RecordsMatchEffects, ResultsTakeEffect
    <3>3. PICK a \in Agents : a = verification[v].target
      BY <3>1
    <3>4. Positions(log[a], {"reject"}, {v}) \subseteq Positions(log'[a], {"reject"}, {v})
      BY <1>5
    <3>5. Entries(a, {"reject"}, v) = Positions(log[a], {"reject"}, {v})
      BY <1>3
    <3>6. Entries(a, {"reject"}, v)' = Positions(log'[a], {"reject"}, {v})
      BY <1>4
    <3>7. Entries(a, {"reject"}, v)' # {}
      BY <3>2, <3>3, <3>4, <3>5, <3>6
    <3> QED
      BY <3>3, <3>7
  <2>2. CASE verification[v].status # "failed"
    <3>1. v = tx[w].ver /\ tx[w].op = "reject" /\ verification[v].target = b
      BY <1>7, <1>9, <2>2 DEF SoundEffect, ResultOps, InTransaction
    <3>2. Positions(log'[b], {"reject"}, {v}) # {}
      BY <1>6, <3>1
    <3>3. Entries(b, {"reject"}, v)' = Positions(log'[b], {"reject"}, {v})
      BY <1>1, <1>4
    <3> QED
      BY <3>1, <3>2, <3>3
  <2> QED
    BY <2>1, <2>2
<1> QED
  BY <1>8, <1>9 DEF ResultsTakeEffect

\* A transaction stays about the agent its verification names.
LEMMA EffectsStaySound ==
  ASSUME RangeInvariant, EffectsAreSound, NEW w \in Workers, NEW t,
         tx' = [tx EXCEPT ![w] = t],
         t.op = "attest" => t.ver = None,
         t.op \in ResultOps /\ t.pc \in InTransaction =>
           /\ t.ver \in Verifications /\ verification[t.ver].status # "none"
           /\ t.agent = IF t.op = "approve" THEN verification[t.ver].verifier
                                            ELSE verification[t.ver].target,
         \A v \in Verifications : verification[v].status # "none" =>
           /\ verification'[v].target = verification[v].target
           /\ verification'[v].verifier = verification[v].verifier
  PROVE  EffectsAreSound'
<1> SUFFICES ASSUME NEW u \in Workers
             PROVE  SoundEffect(tx[u])'
  BY DEF EffectsAreSound
<1>1. CASE u = w
  <2>1. tx'[u] = t
    BY <1>1 DEF RangeInvariant, TypeOK
  <2> QED
    BY <2>1 DEF SoundEffect
<1>2. CASE u # w
  <2>1. tx'[u] = tx[u] /\ SoundEffect(tx[u]) /\ SoundTransaction(tx[u])
    BY <1>2 DEF RangeInvariant, TypeOK, TransactionsAreSound, EffectsAreSound
  <2>2. tx[u].op \in ResultOps =>
          tx[u].ver \in Verifications /\ verification[tx[u].ver].status # "none"
    BY <2>1 DEF SoundTransaction
  <2> QED
    BY <2>1, <2>2 DEF SoundEffect
<1> QED
  BY <1>1, <1>2

LEMMA OneMoreEvent ==
  ASSUME events \in [Agents -> [EventTypes -> Nat]], NEW b \in Agents, NEW type \in EventTypes,
         events' = [events EXCEPT ![b][type] = @ + 1]
  PROVE  /\ EventRows(b)' = EventRows(b) + 1
         /\ \A a \in Agents \ {b} : EventRows(a)' = EventRows(a)
<1>1. events'[b] = [events[b] EXCEPT ![type] = @ + 1] /\ \A a \in Agents \ {b} : events'[a] = events[a]
  OBVIOUS
<1>2. events[b] \in [EventTypes -> Nat]
  OBVIOUS
<1>3. /\ events[b]["policy_violation"] \in Nat /\ events[b]["dispute_lost"] \in Nat
      /\ events[b]["other"] \in Nat
  BY <1>2 DEF EventTypes
<1>4. EventRows(b)' = EventRows(b) + 1
  <2>1. CASE type = "policy_violation"
    BY <1>1, <1>2, <1>3, <2>1 DEF EventRows, EventTypes
  <2>2. CASE type = "dispute_lost"
    BY <1>1, <1>2, <1>3, <2>2 DEF EventRows, EventTypes
  <2>3. CASE type = "other"
    BY <1>1, <1>2, <1>3, <2>3 DEF EventRows, EventTypes
  <2> QED
    BY <2>1, <2>2, <2>3 DEF EventTypes
<1> QED
  BY <1>1, <1>4 DEF EventRows

LEMMA CommitsKeepRecords ==
  ASSUME RangeInvariant, RecordsInvariant, NEW w \in Workers,
         CommitEvent(w) \/ CommitAttestation(w) \/ CommitApproval(w)
           \/ CommitRejection(w) \/ CommitForget(w)
  PROVE  RecordsInvariant'
<1>1. tx[w].pc = "commit" /\ Publish(w)
  BY DEF CommitEvent, CommitAttestation, CommitApproval, CommitRejection, CommitForget, Committing
<1>2. /\ tx[w] \in Transaction /\ SoundTransaction(tx[w]) /\ SoundEffect(tx[w])
      /\ tx[w].agent \in Agents
      /\ log \in [Agents -> Seq(LogEntry)] /\ attestations \in [Agents -> Nat]
      /\ events \in [Agents -> [EventTypes -> Nat]]
      /\ verification \in [Verifications -> Verification]
      /\ RowsMatchScores
  BY <1>1, CommitAppends
  DEF RangeInvariant, TypeOK, TransactionsAreSound, RecordsInvariant, EffectsAreSound,
      RecordsMatchEffects
<1> PICK b \in Agents : b = tx[w].agent
  BY <1>2
<1>3. PICK e \in LogEntry :
        e.op = tx[w].op /\ e.ver = tx[w].ver /\ log'[b] = Append(log[b], e)
          /\ \A a \in Agents \ {b} : log'[a] = log[a]
  BY <1>1, CommitAppends
<1>4. e.op = "attest" => e.ver = None
  BY <1>2, <1>3 DEF SoundEffect
<1>5. \A a \in Agents : EventRows(a) \in Int /\ attestations[a] \in Int
  <2> TAKE a \in Agents
  <2>1. events[a] \in [EventTypes -> Nat]
    BY <1>2
  <2>2. /\ events[a]["policy_violation"] \in Nat /\ events[a]["dispute_lost"] \in Nat
        /\ events[a]["other"] \in Nat
    BY <2>1 DEF EventTypes
  <2> QED
    BY <1>2, <2>2 DEF EventRows
<1>6. EffectsAreSound'
  <2>1. \A v \in Verifications :
          /\ verification'[v].target = verification[v].target
          /\ verification'[v].verifier = verification[v].verifier
    <3>1. CASE CommitApproval(w) \/ CommitRejection(w)
      <4>1. PICK status :
              verification' = [verification EXCEPT ![tx[w].ver].status = status]
        BY <3>1 DEF CommitApproval, CommitRejection
      <4>2. \A v \in Verifications : verification[v] \in Verification
        BY <1>2
      <4> QED
        BY <1>2, <4>1, <4>2 DEF Verification
    <3>2. CASE CommitEvent(w) \/ CommitAttestation(w) \/ CommitForget(w)
      BY <3>2 DEF CommitEvent, CommitAttestation, CommitForget
    <3> QED
      BY <3>1, <3>2
  <2>2. tx' = [tx EXCEPT ![w] = Idle]
    BY <1>1 DEF Publish
  <2>3. Idle.op = "idle"
    BY DEF Idle
  <2>4. EffectsAreSound
    BY DEF RecordsInvariant
  <2> QED
    BY <2>1, <2>2, <2>3, <2>4, EffectsStaySound DEF ResultOps
<1>7. ResultsTakeEffect'
  <2>1. CASE CommitApproval(w)
    BY <1>1, <1>2, <2>1, ResultsAfterCommit DEF CommitApproval, Committing, Verification
  <2>2. CASE CommitRejection(w)
    BY <1>1, <1>2, <2>2, ResultsAfterCommit DEF CommitRejection, Committing, Verification
  <2>3. CASE CommitEvent(w) \/ CommitAttestation(w) \/ CommitForget(w)
    <3>1. UNCHANGED verification
      BY <2>3 DEF CommitEvent, CommitAttestation, CommitForget
    <3> QED
      BY <1>1, <3>1, ResultsAfterCommit
  <2> QED
    BY <2>1, <2>2, <2>3
<1>8. RowsMatchScores'
  <2>1. CASE CommitEvent(w)
    <3>1. PICK type \in EventTypes : type = tx[w].event.type
      BY <1>2, <2>1, TrustAssumption DEF CommitEvent, Committing, SoundTransaction
    <3>2. events' = [events EXCEPT ![b][type] = @ + 1] /\ UNCHANGED attestations /\ e.op = "event"
      BY <1>3, <2>1, <3>1 DEF CommitEvent, Committing
    <3>3. EventRows(b)' = EventRows(b) + 1 /\ \A a \in Agents \ {b} : EventRows(a)' = EventRows(a)
      BY <1>2, <3>2, OneMoreEvent
    <3>4. attestations'[b] = attestations[b] + 0
      BY <1>5, <3>2
    <3> QED
      BY <1>2, <1>3, <1>4, <3>2, <3>3, <3>4, RowsAfterCommit
  <2>2. CASE CommitRejection(w)
    <3>1. events' = [events EXCEPT ![b]["policy_violation"] = @ + 1] /\ UNCHANGED attestations
          /\ e.op = "reject"
      BY <1>3, <2>2 DEF CommitRejection, Committing
    <3>2. EventRows(b)' = EventRows(b) + 1 /\ \A a \in Agents \ {b} : EventRows(a)' = EventRows(a)
      BY <1>2, <3>1, OneMoreEvent DEF EventTypes
    <3>3. attestations'[b] = attestations[b] + 0
      BY <1>5, <3>1
    <3> QED
      BY <1>2, <1>3, <1>4, <3>1, <3>2, <3>3, RowsAfterCommit
  <2>3. CASE CommitAttestation(w)
    <3>1. /\ attestations'[b] = attestations[b] + 1 /\ e.op = "attest"
          /\ \A a \in Agents \ {b} : attestations'[a] = attestations[a]
          /\ UNCHANGED events
      BY <1>2, <1>3, <2>3 DEF CommitAttestation, Committing
    <3>2. \A a \in Agents : EventRows(a)' = EventRows(a) + 0 /\ EventRows(a)' = EventRows(a)
      BY <1>5, <3>1 DEF EventRows
    <3>3. /\ attestations'[b] = attestations[b] + (IF e.op = "attest" THEN 1 ELSE 0)
          /\ EventRows(b)' = EventRows(b) + (IF e.op \in {"event", "reject"} THEN 1 ELSE 0)
      BY <3>1, <3>2
    <3>4. \A a \in Agents \ {b} :
            log'[a] = log[a] /\ attestations'[a] = attestations[a] /\ EventRows(a)' = EventRows(a)
      BY <1>3, <3>1 DEF EventRows
    <3> QED
      BY <1>2, <1>3, <1>4, <3>3, <3>4, RowsAfterCommit
  <2>4. CASE CommitApproval(w) \/ CommitForget(w)
    <3>1. UNCHANGED <<events, attestations>> /\ e.op \in {"approve", "forget"}
      BY <1>3, <2>4 DEF CommitApproval, CommitForget, Committing
    <3>2. \A a \in Agents : /\ EventRows(a)' = EventRows(a) + 0 /\ EventRows(a)' = EventRows(a)
                            /\ attestations'[a] = attestations[a] + 0
                            /\ attestations'[a] = attestations[a]
      BY <1>5, <3>1 DEF EventRows
    <3>3. /\ attestations'[b] = attestations[b] + (IF e.op = "attest" THEN 1 ELSE 0)
          /\ EventRows(b)' = EventRows(b) + (IF e.op \in {"event", "reject"} THEN 1 ELSE 0)
      BY <3>1, <3>2
    <3>4. \A a \in Agents \ {b} :
            log'[a] = log[a] /\ attestations'[a] = attestations[a] /\ EventRows(a)' = EventRows(a)
      BY <1>3, <3>2
    <3> QED
      BY <1>2, <1>3, <1>4, <3>3, <3>4, RowsAfterCommit
  <2> QED
    BY <2>1, <2>2, <2>3, <2>4
<1> QED
  BY <1>6, <1>7, <1>8 DEF RecordsInvariant, RecordsMatchEffects

LEMMA RegisterKeepsRecords ==
  ASSUME RangeInvariant, HistoryInvariant, RecordsInvariant, NEW b \in Agents, Register(b)
  PROVE  RecordsInvariant'
<1> DEFINE first == [op |-> "register", ver |-> None, delta |-> 0, seen |-> 0,
                     first |-> TRUE, score |-> RegisteredScore]
<1>1. /\ log[b] = <<>> /\ log'[b] = <<first>>
      /\ \A a \in Agents \ {b} : log'[a] = log[a]
      /\ UNCHANGED <<verification, events, attestations, tx>>
  BY DEF Register, RangeInvariant, TypeOK, HistoryInvariant, HistoryMatchesRows
<1>2. Len(<<>>) = 0 /\ Len(<<first>>) = 1 /\ <<first>>[1] = first /\ 1..0 = {} /\ 1..1 = {1}
  OBVIOUS
<1>3. first.op = "register"
  OBVIOUS
<1> HIDE DEF first
<1>4. \A a \in Agents, op \in {"attest", "approve", "reject"} : \A v :
        Positions(log'[a], {op}, {v}) = Positions(log[a], {op}, {v})
  <2> TAKE a \in Agents, op \in {"attest", "approve", "reject"}
  <2> TAKE v
  <2>1. CASE a = b
    <3>1. Positions(<<>>, {op}, {v}) = {}
      BY <1>2 DEF Positions
    <3>2. Positions(<<first>>, {op}, {v}) = {}
      BY <1>2, <1>3 DEF Positions
    <3> QED
      BY <1>1, <2>1, <3>1, <3>2
  <2>2. CASE a # b
    BY <1>1, <2>2
  <2> QED
    BY <2>1, <2>2
<1>5. \A a \in Agents : {i \in 1..Len(log'[a]) : log'[a][i].op \in {"event", "reject"}} =
                        {i \in 1..Len(log[a]) : log[a][i].op \in {"event", "reject"}}
  <2> TAKE a \in Agents
  <2>1. CASE a = b
    BY <1>1, <1>2, <1>3, <2>1
  <2>2. CASE a # b
    BY <1>1, <2>2
  <2> QED
    BY <2>1, <2>2
<1>6. EffectsAreSound'
  BY <1>1 DEF RecordsInvariant, EffectsAreSound, SoundEffect
<1>7. ResultsTakeEffect'
  <2> SUFFICES ASSUME NEW v \in Verifications
               PROVE  /\ verification[v].status = "completed" =>
                           Entries(verification[v].verifier, {"approve"}, v)' # {}
                      /\ verification[v].status = "failed" =>
                           Entries(verification[v].target, {"reject"}, v)' # {}
    BY <1>1 DEF ResultsTakeEffect
  <2>1. /\ verification[v].status = "completed" =>
             Entries(verification[v].verifier, {"approve"}, v) # {}
        /\ verification[v].status = "failed" =>
             Entries(verification[v].target, {"reject"}, v) # {}
    BY DEF RecordsInvariant, RecordsMatchEffects, ResultsTakeEffect
  <2>2. verification[v].status # "none" =>
          verification[v].verifier \in Agents /\ verification[v].target \in Agents
    BY DEF RangeInvariant, VerificationsAreSound
  <2>3. ASSUME NEW a \in Agents
        PROVE  /\ Entries(a, {"approve"}, v)' = Entries(a, {"approve"}, v)
               /\ Entries(a, {"reject"}, v)' = Entries(a, {"reject"}, v)
    <3>1. /\ Positions(log'[a], {"approve"}, {v}) = Positions(log[a], {"approve"}, {v})
          /\ Positions(log'[a], {"reject"}, {v}) = Positions(log[a], {"reject"}, {v})
      BY <1>4
    <3> QED
      BY <3>1 DEF Entries, Positions
  <2>4. CASE verification[v].status = "completed"
    <3> PICK a \in Agents : a = verification[v].verifier
      BY <2>2, <2>4
    <3> QED
      BY <1>1, <2>1, <2>3, <2>4
  <2>5. CASE verification[v].status = "failed"
    <3> PICK a \in Agents : a = verification[v].target
      BY <2>2, <2>5
    <3> QED
      BY <1>1, <2>1, <2>3, <2>5
  <2> QED
    BY <2>4, <2>5
<1>8. RowsMatchScores'
  <2> SUFFICES ASSUME NEW a \in Agents
               PROVE  /\ attestations[a] = Cardinality(Entries(a, {"attest"}, None)')
                      /\ events[a]["policy_violation"] + events[a]["dispute_lost"] + events[a]["other"]
                           = Cardinality({i \in 1..Len(log'[a]) : log'[a][i].op \in {"event", "reject"}})
    BY <1>1 DEF RowsMatchScores
  <2>1. Entries(a, {"attest"}, None)' = Entries(a, {"attest"}, None)
    <3>1. Positions(log'[a], {"attest"}, {None}) = Positions(log[a], {"attest"}, {None})
      BY <1>4
    <3> QED
      BY <3>1 DEF Entries, Positions
  <2>2. {i \in 1..Len(log'[a]) : log'[a][i].op \in {"event", "reject"}} =
          {i \in 1..Len(log[a]) : log[a][i].op \in {"event", "reject"}}
    BY <1>5
  <2> QED
    BY <2>1, <2>2 DEF RecordsInvariant, RecordsMatchEffects, RowsMatchScores
<1> QED
  BY <1>6, <1>7, <1>8 DEF RecordsInvariant, RecordsMatchEffects

\* The statements before a commit change no table, except for a new verification.
LEMMA StatementsKeepRecords ==
  ASSUME RangeInvariant, RecordsInvariant, NEW w \in Workers,
         Request(w) \/ Abort(w) \/ ClaimVerification(w) \/ ReadScore(w) \/ UpdateAgent(w)
           \/ InsertVerification(w) \/ InsertRefused(w)
  PROVE  RecordsInvariant'
<1>0. /\ tx \in [Workers -> Transaction] /\ SoundTransaction(tx[w]) /\ SoundEffect(tx[w])
      /\ EffectsAreSound /\ RecordsMatchEffects
      /\ verification \in [Verifications -> Verification]
  BY DEF RangeInvariant, TypeOK, TransactionsAreSound, RecordsInvariant, EffectsAreSound
<1>1. UNCHANGED <<events, attestations, log>>
  BY DEF Request, LogEvent, SaveAttestation, Forget, SelectVerifier, FetchVerification, Begin,
    Abort, ClaimVerification, ReadScore, UpdateAgent, InsertVerification, InsertRefused, tables
<1>2. \A v \in Verifications :
        \/ verification'[v] = verification[v]
        \/ verification[v].status = "none" /\ verification'[v].status = "pending"
  <2>1. CASE InsertVerification(w)
    BY <1>0, <2>1 DEF InsertVerification
  <2>2. CASE ~InsertVerification(w)
    BY <2>2 DEF Request, LogEvent, SaveAttestation, Forget, SelectVerifier, FetchVerification,
      Begin, Abort, ClaimVerification, ReadScore, UpdateAgent, InsertRefused, tables
  <2> QED
    BY <2>1, <2>2
<1>3. RecordsMatchEffects'
  <2>1. \A a, ops, v : Entries(a, ops, v)' = Entries(a, ops, v)
    BY <1>1 DEF Entries
  <2>2. ResultsTakeEffect'
    BY <1>0, <1>2, <2>1 DEF RecordsMatchEffects, ResultsTakeEffect
  <2>3. RowsMatchScores'
    BY <1>0, <1>1, <2>1 DEF RecordsMatchEffects, RowsMatchScores
  <2> QED
    BY <2>2, <2>3 DEF RecordsMatchEffects
<1>4. ASSUME NEW t, tx' = [tx EXCEPT ![w] = t], t.op = "attest" => t.ver = None,
             t.op \in ResultOps /\ t.pc \in InTransaction =>
               /\ t.ver \in Verifications /\ verification[t.ver].status # "none"
               /\ t.agent = IF t.op = "approve" THEN verification[t.ver].verifier
                                                ELSE verification[t.ver].target
      PROVE  RecordsInvariant'
  BY <1>0, <1>2, <1>3, <1>4, EffectsStaySound DEF RecordsInvariant
<1>5. CASE ClaimVerification(w)
  <2>1. tx' = [tx EXCEPT ![w] = [tx[w] EXCEPT !.pc = "score"]]
    BY <1>5 DEF ClaimVerification
  <2>2. tx[w].pc = "claim" /\ tx[w].op \in ResultOps
    BY <1>0, <1>5 DEF ClaimVerification, SoundTransaction
  <2> QED
    BY <1>0, <1>4, <2>1, <2>2 DEF Transaction, SoundTransaction, SoundEffect, InTransaction
<1>6. CASE ReadScore(w)
  <2> DEFINE t == [tx[w] EXCEPT !.pc = "update", !.read = score[tx[w].agent],
                                !.seen = Len(log[tx[w].agent])]
  <2>1. tx' = [tx EXCEPT ![w] = t] /\ tx[w].pc = "score"
    BY <1>6 DEF ReadScore
  <2>2. t.op = tx[w].op /\ t.ver = tx[w].ver /\ t.agent = tx[w].agent
    BY <1>0 DEF Transaction
  <2> HIDE DEF t
  <2> QED
    BY <1>0, <1>4, <2>1, <2>2 DEF SoundTransaction, SoundEffect, InTransaction
<1>7. CASE UpdateAgent(w)
  <2>1. tx' = [tx EXCEPT ![w] = [tx[w] EXCEPT !.pc = "commit"]] /\ tx[w].pc = "update"
    BY <1>7 DEF UpdateAgent
  <2> QED
    BY <1>0, <1>4, <2>1 DEF Transaction, SoundTransaction, SoundEffect, InTransaction
<1>8. CASE InsertVerification(w) \/ InsertRefused(w) \/ Abort(w)
  <2>1. tx' = [tx EXCEPT ![w] = Idle]
    BY <1>8 DEF InsertVerification, InsertRefused, Abort
  <2>2. Idle.op = "idle"
    BY DEF Idle
  <2> QED
    BY <1>4, <2>1, <2>2 DEF ResultOps
<1>9. ASSUME NEW t, Begin(w, t), t.ver = None, t.op \notin ResultOps
      PROVE  RecordsInvariant'
  BY <1>4, <1>9 DEF Begin
<1>10. ASSUME NEW a \in Agents, NEW e \in Events, LogEvent(w, a, e)
       PROVE  RecordsInvariant'
  <2> DEFINE t == [Idle EXCEPT !.op = "event", !.pc = "update", !.agent = a,
                     !.event = e, !.read = score[a], !.seen = Len(log[a])]
  <2>1. Begin(w, t) /\ t.ver = None /\ t.op = "event"
    BY <1>10 DEF LogEvent, Idle
  <2> HIDE DEF t
  <2> QED
    BY <1>9, <2>1 DEF ResultOps
<1>11. ASSUME NEW a \in Agents, SaveAttestation(w, a)
       PROVE  RecordsInvariant'
  <2> DEFINE t == [Idle EXCEPT !.op = "attest", !.pc = "update", !.agent = a,
                     !.read = score[a], !.seen = Len(log[a])]
  <2>1. Begin(w, t) /\ t.ver = None /\ t.op = "attest"
    BY <1>11 DEF SaveAttestation, Idle
  <2> HIDE DEF t
  <2> QED
    BY <1>9, <2>1 DEF ResultOps
<1>12. ASSUME NEW a \in Agents, Forget(w, a)
       PROVE  RecordsInvariant'
  <2> DEFINE t == [Idle EXCEPT !.op = "forget", !.pc = "update", !.agent = a, !.seen = Len(log[a])]
  <2>1. Begin(w, t) /\ t.ver = None /\ t.op = "forget"
    BY <1>12 DEF Forget, Idle
  <2> HIDE DEF t
  <2> QED
    BY <1>9, <2>1 DEF ResultOps
<1>13. ASSUME NEW a \in Agents, SelectVerifier(w, a)
       PROVE  RecordsInvariant'
  <2>1. PICK p \in Agents : Begin(w, [Idle EXCEPT !.op = "verify", !.pc = "insert",
                                                  !.agent = a, !.peer = p])
    BY <1>13 DEF SelectVerifier, Eligible
  <2> DEFINE t == [Idle EXCEPT !.op = "verify", !.pc = "insert", !.agent = a, !.peer = p]
  <2>2. Begin(w, t) /\ t.ver = None /\ t.op = "verify"
    BY <2>1 DEF Idle
  <2> HIDE DEF t
  <2> QED
    BY <1>9, <2>2 DEF ResultOps
<1>14. ASSUME NEW v \in Verifications, NEW success \in BOOLEAN, FetchVerification(w, v, success)
       PROVE  RecordsInvariant'
  <2> DEFINE t == [Idle EXCEPT
                     !.op = IF success THEN "approve" ELSE "reject", !.pc = "claim",
                     !.agent = IF success THEN verification[v].verifier ELSE verification[v].target,
                     !.ver = v, !.first = ~Answered(v)]
  <2>1. tx' = [tx EXCEPT ![w] = t] /\ verification[v].status = "pending"
    BY <1>14 DEF FetchVerification, Begin
  <2>2. /\ t.op = IF success THEN "approve" ELSE "reject"
        /\ t.agent = IF success THEN verification[v].verifier ELSE verification[v].target
        /\ t.ver = v
    BY DEF Idle
  <2> HIDE DEF t
  <2> QED
    BY <1>4, <2>1, <2>2
<1> QED
  BY <1>5, <1>6, <1>7, <1>8, <1>10, <1>11, <1>12, <1>13, <1>14 DEF Request

LEMMA RecordsAreInductive ==
  RangeInvariant /\ HistoryInvariant /\ RecordsInvariant /\ [Next]_vars => RecordsInvariant'
<1> SUFFICES ASSUME RangeInvariant, HistoryInvariant, RecordsInvariant, [Next]_vars
             PROVE  RecordsInvariant'
  OBVIOUS
<1>1. CASE UNCHANGED vars
  BY <1>1 DEF vars, RecordsInvariant, EffectsAreSound, SoundEffect, RecordsMatchEffects,
    ResultsTakeEffect, RowsMatchScores, Entries
<1> QED
  BY <1>1, CommitsKeepRecords, RegisterKeepsRecords, StatementsKeepRecords DEF Next, Step

\* No rolled-back or half-finished transaction leaves a result, an attestation or
\* an event without its effect on a score, or an effect without its record
\* (verification.go:74-161, attestation.go:58, reputation.go:55).
THEOREM RecordsAndEffectsAgree == Spec => []RecordsMatchEffects
<1>1. RecordsInvariant => RecordsMatchEffects
  BY DEF RecordsInvariant
<1> QED
  BY <1>1, RangeIsInvariant, HistoryIsInvariant, InitSatisfiesRecords, RecordsAreInductive, PTL
  DEF Spec

-----------------------------------------------------------------------------
(* Results of one verification.                                            *)

\* While a verification is pending it has no result, and what a transaction knows
\* is that it had none.
ResultsInvariant ==
  /\ \A v \in Verifications :
       verification[v].status \in {"none", "pending"} => ~Answered(v)
  /\ \A w \in Workers : tx[w].first
  /\ RepeatedResultsOverlap

LEMMA InitSatisfiesResults == Init => ResultsInvariant
<1> SUFFICES ASSUME Init
             PROVE  ResultsInvariant
  OBVIOUS
<1>1. \A a \in Agents : 1..Len(log[a]) = {}
  BY DEF Init
<1> QED
  BY <1>1 DEF Init, ResultsInvariant, Answered, RepeatedResultsOverlap, Idle

\* A step that leaves the logs alone, closes no verification and opens one at most.
LEMMA StatementsKeepResults ==
  ASSUME RangeInvariant, ResultsInvariant, UNCHANGED log,
         \A w \in Workers : tx'[w].first,
         \A v \in Verifications :
           verification'[v].status \in {"none", "pending"} =>
             verification[v].status \in {"none", "pending"}
  PROVE  ResultsInvariant'
BY DEF ResultsInvariant, Answered, RepeatedResultsOverlap

LEMMA RequestsKeepResults ==
  ASSUME RangeInvariant, ResultsInvariant, NEW w \in Workers, Request(w)
  PROVE  ResultsInvariant'
<1>0. tx \in [Workers -> Transaction]
  BY DEF RangeInvariant, TypeOK
<1>1. ASSUME NEW t, Begin(w, t), t.first
      PROVE  ResultsInvariant'
  <2>1. UNCHANGED <<log, verification>> /\ \A u \in Workers : tx'[u].first
    BY <1>0, <1>1 DEF Begin, tables, ResultsInvariant
  <2> QED
    BY <2>1, StatementsKeepResults
<1>2. ASSUME NEW a \in Agents, NEW e \in Events, LogEvent(w, a, e)
      PROVE  ResultsInvariant'
  <2> DEFINE t == [Idle EXCEPT !.op = "event", !.pc = "update", !.agent = a,
                     !.event = e, !.read = score[a], !.seen = Len(log[a])]
  <2>1. Begin(w, t) /\ t.first
    BY <1>2 DEF LogEvent, Idle
  <2> HIDE DEF t
  <2> QED
    BY <1>1, <2>1
<1>3. ASSUME NEW a \in Agents, SaveAttestation(w, a)
      PROVE  ResultsInvariant'
  <2> DEFINE t == [Idle EXCEPT !.op = "attest", !.pc = "update", !.agent = a,
                     !.read = score[a], !.seen = Len(log[a])]
  <2>1. Begin(w, t) /\ t.first
    BY <1>3 DEF SaveAttestation, Idle
  <2> HIDE DEF t
  <2> QED
    BY <1>1, <2>1
<1>4. ASSUME NEW a \in Agents, Forget(w, a)
      PROVE  ResultsInvariant'
  <2> DEFINE t == [Idle EXCEPT !.op = "forget", !.pc = "update", !.agent = a, !.seen = Len(log[a])]
  <2>1. Begin(w, t) /\ t.first
    BY <1>4 DEF Forget, Idle
  <2> HIDE DEF t
  <2> QED
    BY <1>1, <2>1
<1>5. ASSUME NEW a \in Agents, SelectVerifier(w, a)
      PROVE  ResultsInvariant'
  <2>1. PICK p \in Agents : Begin(w, [Idle EXCEPT !.op = "verify", !.pc = "insert",
                                                  !.agent = a, !.peer = p])
    BY <1>5 DEF SelectVerifier, Eligible
  <2> DEFINE t == [Idle EXCEPT !.op = "verify", !.pc = "insert", !.agent = a, !.peer = p]
  <2>2. Begin(w, t) /\ t.first
    BY <2>1 DEF Idle
  <2> HIDE DEF t
  <2> QED
    BY <1>1, <2>2
<1>6. ASSUME NEW v \in Verifications, NEW success \in BOOLEAN, FetchVerification(w, v, success)
      PROVE  ResultsInvariant'
  <2> DEFINE t == [Idle EXCEPT
                     !.op = IF success THEN "approve" ELSE "reject", !.pc = "claim",
                     !.agent = IF success THEN verification[v].verifier ELSE verification[v].target,
                     !.ver = v, !.first = ~Answered(v)]
  <2>1. Begin(w, t) /\ verification[v].status = "pending"
    BY <1>6 DEF FetchVerification
  <2>2. t.first = ~Answered(v)
    BY DEF Idle
  <2> HIDE DEF t
  <2>3. ~Answered(v)
    BY <2>1 DEF ResultsInvariant
  <2> QED
    BY <1>1, <2>1, <2>2, <2>3
<1> QED
  BY <1>2, <1>3, <1>4, <1>5, <1>6 DEF Request

LEMMA CommitsKeepResults ==
  ASSUME RangeInvariant, ResultsInvariant, NEW w \in Workers, tx[w].pc = "commit", Publish(w),
         \A v \in Verifications :
           verification'[v].status \in {"none", "pending"} =>
             /\ verification[v].status \in {"none", "pending"}
             /\ ~(tx[w].op \in ResultOps /\ tx[w].ver = v)
  PROVE  ResultsInvariant'
<1>0. tx[w].agent \in Agents
  BY CommitAppends
<1> PICK b \in Agents : b = tx[w].agent
  BY <1>0
<1>1. PICK e \in LogEntry :
        /\ e.op = tx[w].op /\ e.ver = tx[w].ver /\ e.first = tx[w].first
        /\ log'[b] = Append(log[b], e)
        /\ \A a \in Agents \ {b} : log'[a] = log[a]
  BY CommitAppends
<1>2. log[b] \in Seq(LogEntry) /\ tx \in [Workers -> Transaction]
  BY DEF RangeInvariant, TypeOK
<1>3. \A a \in Agents : \A i \in 1..Len(log'[a]) :
        (i \in 1..Len(log[a]) /\ log'[a][i] = log[a][i]) \/ log'[a][i] = e
  <2>1. /\ Len(log'[b]) = Len(log[b]) + 1 /\ Len(log[b]) \in Nat
        /\ log'[b][Len(log[b]) + 1] = e
        /\ \A i \in 1..Len(log[b]) : log'[b][i] = log[b][i]
    BY <1>1, <1>2, AppendProperties, LenProperties
  <2>2. \A i \in 1..Len(log'[b]) :
          (i \in 1..Len(log[b]) /\ log'[b][i] = log[b][i]) \/ log'[b][i] = e
    <3>1. \A n \in Nat : \A i \in 1..(n + 1) : i \in 1..n \/ i = n + 1
      OBVIOUS
    <3> QED
      BY <2>1, <3>1
  <2>3. ASSUME NEW a \in Agents \ {b}
        PROVE  \A i \in 1..Len(log'[a]) : i \in 1..Len(log[a]) /\ log'[a][i] = log[a][i]
    BY <1>1
  <2> QED
    BY <2>2, <2>3
<1>4. \A u \in Workers : tx'[u].first
  BY <1>2 DEF Publish, Idle, ResultsInvariant
<1>5. RepeatedResultsOverlap'
  BY <1>1, <1>3 DEF RepeatedResultsOverlap, ResultsInvariant
<1>6. ASSUME NEW v \in Verifications, verification'[v].status \in {"none", "pending"}
      PROVE  ~Answered(v)'
  <2>1. ~Answered(v) /\ ~(e.op \in ResultOps /\ e.ver = v)
    BY <1>1, <1>6 DEF ResultsInvariant
  <2> QED
    BY <1>3, <2>1 DEF Answered
<1> QED
  BY <1>4, <1>5, <1>6 DEF ResultsInvariant

LEMMA ResultsAreInductive ==
  RangeInvariant /\ ResultsInvariant /\ [Next]_vars => ResultsInvariant'
<1> SUFFICES ASSUME RangeInvariant, ResultsInvariant, [Next]_vars
             PROVE  ResultsInvariant'
  OBVIOUS
<1>0. verification \in [Verifications -> Verification] /\ tx \in [Workers -> Transaction]
  BY DEF RangeInvariant, TypeOK
<1>1. CASE UNCHANGED vars
  BY <1>1 DEF vars, ResultsInvariant, Answered, RepeatedResultsOverlap
<1>2. ASSUME NEW b \in Agents, Register(b)
      PROVE  ResultsInvariant'
  <2>1. UNCHANGED <<tx, verification>> /\ \A a \in Agents \ {b} : log'[a] = log[a]
    BY <1>2 DEF Register, RangeInvariant, TypeOK
  <2>2. PICK e : log'[b] = <<e>> /\ e.op = "register"
    BY <1>2 DEF Register, RangeInvariant, TypeOK
  <2>3. \A i \in 1..Len(log'[b]) : log'[b][i].op \notin ResultOps
    <3>1. Len(<<e>>) = 1 /\ <<e>>[1] = e /\ \A i \in 1..1 : i = 1
      OBVIOUS
    <3> QED
      BY <2>2, <3>1 DEF ResultOps
  <2>4. \A v : Answered(v)' => Answered(v)
    BY <2>1, <2>3 DEF Answered
  <2>5. RepeatedResultsOverlap'
    BY <2>1, <2>3 DEF RepeatedResultsOverlap, ResultsInvariant
  <2> QED
    BY <2>1, <2>4, <2>5 DEF ResultsInvariant
<1>3. ASSUME NEW w \in Workers, ClaimVerification(w) \/ ReadScore(w) \/ UpdateAgent(w)
      PROVE  ResultsInvariant'
  <2>1. UNCHANGED <<log, verification>>
    BY <1>3 DEF ClaimVerification, ReadScore, UpdateAgent, tables
  <2>2. \A u \in Workers : tx'[u].first
    <3>1. tx[w] \in Transaction /\ \A u \in Workers : tx[u].first
      BY <1>0 DEF ResultsInvariant
    <3>2. CASE ClaimVerification(w)
      <4> DEFINE t == [tx[w] EXCEPT !.pc = "score"]
      <4>1. t.first
        BY <3>1 DEF Transaction
      <4>2. tx' = [tx EXCEPT ![w] = t]
        BY <3>2 DEF ClaimVerification
      <4> HIDE DEF t
      <4> QED
        BY <1>0, <3>1, <4>1, <4>2
    <3>3. CASE ReadScore(w)
      <4> DEFINE t == [tx[w] EXCEPT !.pc = "update", !.read = score[tx[w].agent],
                                    !.seen = Len(log[tx[w].agent])]
      <4>1. t.first
        BY <3>1 DEF Transaction
      <4>2. tx' = [tx EXCEPT ![w] = t]
        BY <3>3 DEF ReadScore
      <4> HIDE DEF t
      <4> QED
        BY <1>0, <3>1, <4>1, <4>2
    <3>4. CASE UpdateAgent(w)
      <4> DEFINE t == [tx[w] EXCEPT !.pc = "commit"]
      <4>1. t.first
        BY <3>1 DEF Transaction
      <4>2. tx' = [tx EXCEPT ![w] = t]
        BY <3>4 DEF UpdateAgent
      <4> HIDE DEF t
      <4> QED
        BY <1>0, <3>1, <4>1, <4>2
    <3> QED
      BY <1>3, <3>2, <3>3, <3>4
  <2> QED
    BY <2>1, <2>2, StatementsKeepResults
<1>4. ASSUME NEW w \in Workers, InsertVerification(w) \/ InsertRefused(w) \/ Abort(w)
      PROVE  ResultsInvariant'
  <2>1. UNCHANGED log /\ tx' = [tx EXCEPT ![w] = Idle]
    BY <1>4 DEF InsertVerification, InsertRefused, Abort, tables
  <2>2. \A u \in Workers : tx'[u].first
    BY <1>0, <2>1 DEF Idle, ResultsInvariant
  <2>3. \A v \in Verifications :
          verification'[v] = verification[v] \/ verification[v].status = "none"
    BY <1>0, <1>4 DEF InsertVerification, InsertRefused, Abort, tables
  <2> QED
    BY <2>1, <2>2, <2>3, StatementsKeepResults
<1>5. ASSUME NEW w \in Workers,
             CommitEvent(w) \/ CommitAttestation(w) \/ CommitForget(w)
      PROVE  ResultsInvariant'
  <2>1. tx[w].pc = "commit" /\ tx[w].op \notin ResultOps /\ Publish(w) /\ UNCHANGED verification
    BY <1>5 DEF CommitEvent, CommitAttestation, CommitForget, Committing, ResultOps
  <2> QED
    BY <2>1, CommitsKeepResults
<1>6. ASSUME NEW w \in Workers, CommitApproval(w) \/ CommitRejection(w)
      PROVE  ResultsInvariant'
  <2>1. tx[w].pc = "commit" /\ Publish(w)
    BY <1>6 DEF CommitApproval, CommitRejection, Committing
  <2>2. PICK word \in {"completed", "failed"} :
          verification' = [verification EXCEPT ![tx[w].ver].status = word]
    BY <1>6 DEF CommitApproval, CommitRejection
  <2>3. \A v \in Verifications :
          IF v = tx[w].ver THEN verification'[v].status = word
                           ELSE verification'[v] = verification[v]
    BY <1>0, <2>2 DEF Verification
  <2> QED
    BY <2>1, <2>3, CommitsKeepResults
<1> QED
  BY <1>1, <1>2, <1>3, <1>4, <1>5, <1>6, RequestsKeepResults DEF Next, Step

\* However many results are submitted at once and whatever aborts, one that is
\* applied was on its way before the verification had any.
THEOREM LateResultsAreRefused == Spec => []RepeatedResultsOverlap
<1>1. ResultsInvariant => RepeatedResultsOverlap
  BY DEF ResultsInvariant
<1> QED
  BY <1>1, RangeIsInvariant, InitSatisfiesResults, ResultsAreInductive, PTL DEF Spec

\* The inductive invariant the run checks is what the proofs above rest on.
THEOREM TrustInvariantHolds == Spec => []TrustInvariant
  BY RangeIsInvariant, HistoryIsInvariant, PTL DEF TrustInvariant
=============================================================================
