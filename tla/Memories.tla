------------------------------ MODULE Memories ------------------------------
(***************************************************************************)
(* The memories of an agent and its right to be forgotten: the router      *)
(* (memory/router.go), the persistent store (memory/postgres_store.go),    *)
(* the GDPR service (gdpr/gdpr.go) and the trust port the router asks      *)
(* before it stores (trust/port_adapter.go).                               *)
(*                                                                         *)
(* Statements outside a transaction commit at once.  gdpr.Forget is a      *)
(* transaction at READ COMMITTED of three statements, over memories,       *)
(* policies and agents: each locks the rows it finds, nobody sees them     *)
(* changed before the commit, and a writer that waited for such a row      *)
(* evaluates its WHERE clause again.                                       *)
(*                                                                         *)
(* Working memories are in Valkey; here one is just a copy that expires    *)
(* (WorkingMemory models the keys it consists of).  All agents are         *)
(* registered, which the foreign key of memories asks for.  What changes a *)
(* score beside the stores is here only by how much: Trust models the      *)
(* transactions of LogEvent, attestations and verification results.        *)
(***************************************************************************)
EXTENDS Integers

CONSTANTS
  Agents,      \* registered agents
  Ids,         \* the UUIDs new memories get
  Workers,     \* the request goroutines
  TrustWired,  \* whether the router was built with a trust port
  StartScores, \* the reputation agents may have to begin with
  Changes,     \* by how much requests other than stores change a score
  Overwrites,  \* the scores written by what does not add to the present one
  MaxOps,      \* bound: the requests taken in all
  None

Scores == 0..1000

ASSUME MemoriesAssumption ==
  /\ TrustWired \in BOOLEAN
  /\ StartScores \subseteq Scores
  /\ Changes \subseteq Int
  /\ Overwrites \subseteq Scores
  /\ MaxOps \in Nat
  /\ None \notin Agents \cup Ids

VARIABLES
  row,      \* memories: by id, the row or NoRow
  policy,   \* policies: by agent, "none", "saved" or, deleted by Forget, "forgotten"
  copy,     \* Valkey: by id, the agent of the working copy or None
  revoked,  \* whether agents.public_key has been emptied
  score,    \* agents.reputation_score
  tx,       \* what each worker is in the middle of
  started,  \* how many requests have been taken
  earned,   \* history: by agent, what raised its score since it was revoked
  rewritten \* history: the agents given a score that is not the one they had and a
            \* change: one read before Forget emptied it, or one put in its place

vars == <<row, policy, copy, revoked, score, tx, started, earned, rewritten>>
tables == <<row, policy, copy, revoked, score, earned, rewritten>>

MinReputation == 100
StoreBonus == 5
Contents == {"stored", "updated", "corrected"}   \* which write the content is from

NoRow == [state |-> "none", agent |-> None, content |-> "stored", by |-> "none"]

\* Two history fields: the agent was revoked before the request began ("late") and
\* when its score was read ("after").
Idle == [pc |-> "idle", agent |-> None, working |-> FALSE, signed |-> FALSE,
         read |-> 0, change |-> 0, rows |-> {}, drops |-> FALSE,
         late |-> FALSE, after |-> FALSE]

Init ==
  /\ row = [i \in Ids |-> NoRow]
  /\ policy = [a \in Agents |-> "none"]
  /\ copy = [i \in Ids |-> None]
  /\ revoked = [a \in Agents |-> FALSE]
  /\ score \in [Agents -> StartScores]
  /\ tx = [w \in Workers |-> Idle]
  /\ started = 0
  /\ earned = [a \in Agents |-> 0]
  /\ rewritten = {}

Fresh == {i \in Ids : row[i] = NoRow /\ copy[i] = None}

\* A row that an open Forget has updated.
Locked(i) == \E w \in Workers : i \in tx[w].rows

LiveRowsOf(a) == {i \in Ids : row[i].state = "live" /\ row[i].agent = a}

TakeRequest == started < MaxOps /\ started' = started + 1

Goto(w, pc) == tx' = [tx EXCEPT ![w].pc = pc]
Finish(w) == tx' = [tx EXCEPT ![w] = Idle]

-----------------------------------------------------------------------------
(* StoreWithVerification.                                                  *)

StoreWithVerification(w, a) ==
  /\ tx[w] = Idle
  /\ TakeRequest
  /\ \E working, signed \in BOOLEAN :
       tx' = [tx EXCEPT ![w] = [Idle EXCEPT !.pc = IF TrustWired THEN "active" ELSE "store",
                                            !.agent = a, !.working = working,
                                            !.signed = signed, !.late = revoked[a]]]
  /\ UNCHANGED tables

\* IsAgentActive asks only whether the agent has a row, and it has.
CheckActive(w) ==
  /\ tx[w].pc = "active"
  /\ Goto(w, "verify")
  /\ UNCHANGED <<tables, started>>

\* No signature is no obstacle.  One that is there needs the agent's key, which
\* Forget has emptied, and must be right.
VerifySignature(w) ==
  /\ tx[w].pc = "verify"
  /\ IF tx[w].signed
     THEN (~revoked[tx[w].agent] /\ Goto(w, "gate")) \/ Finish(w)
     ELSE Goto(w, "gate")
  /\ UNCHANGED <<tables, started>>

\* Faulty variant: the reputation is not compared.
CheckReputationOpen(w) ==
  /\ tx[w].pc = "gate"
  /\ Goto(w, "store")
  /\ UNCHANGED <<tables, started>>

CheckReputation(w) ==
  /\ tx[w].pc = "gate"
  /\ IF score[tx[w].agent] < MinReputation THEN Finish(w) ELSE Goto(w, "store")
  /\ UNCHANGED <<tables, started>>

\* The backend's write fails: no event is recorded.
StoreFails(w) ==
  /\ tx[w].pc = "store"
  /\ Finish(w)
  /\ UNCHANGED <<tables, started>>

\* The write takes effect, even when its answer gets lost and the router reports
\* an error.
Store(w) ==
  LET t == tx[w] IN
  /\ t.pc = "store"
  /\ \E i \in Fresh :
       IF t.working
       THEN copy' = [copy EXCEPT ![i] = t.agent] /\ UNCHANGED row
       ELSE /\ row' = [row EXCEPT ![i] = [NoRow EXCEPT !.state = "live", !.agent = t.agent]]
            /\ UNCHANGED copy
  /\ (TrustWired /\ Goto(w, "record")) \/ Finish(w)
  /\ UNCHANGED <<policy, revoked, score, started, earned, rewritten>>

-----------------------------------------------------------------------------
(* The score: read, and written back with a change.                        *)

Reading(t, a, c) ==
  [t EXCEPT !.pc = "pay", !.agent = a, !.change = c,
            !.read = score[a], !.after = revoked[a]]

\* RecordEvent is LogEvent with the bonus of a store: it reads the score ...
RecordEvent(w) ==
  /\ tx[w].pc = "record"
  /\ tx' = [tx EXCEPT ![w] = Reading(tx[w], tx[w].agent, StoreBonus)]
  /\ UNCHANGED <<tables, started>>

\* ... as do LogEvent with any other change, AttestationStore.Save (any signature
\* that is not empty earns 25) and SubmitVerificationResult (50 for the verifier,
\* -100 for the target).  None of them asks whether the agent is revoked.
ReadScore(w, a) ==
  /\ tx[w] = Idle
  /\ TakeRequest
  /\ \E c \in Changes : tx' = [tx EXCEPT ![w] = Reading(Idle, a, c)]
  /\ UNCHANGED tables

Clamp(n) == IF n < 0 THEN 0 ELSE IF n > 1000 THEN 1000 ELSE n

\* The history of a score that is written.
NoteChange(t) ==
  /\ earned' = IF revoked[t.agent] /\ t.change > 0
               THEN [earned EXCEPT ![t.agent] = @ + t.change] ELSE earned
  /\ rewritten' = IF revoked[t.agent] /\ ~t.after
                  THEN rewritten \cup {t.agent} ELSE rewritten

\* Faulty variant: the sum is not clamped.
WriteScoreUnclamped(w) ==
  LET t == tx[w] IN
  /\ t.pc = "pay"
  /\ score' = [score EXCEPT ![t.agent] = t.read + t.change]
  /\ NoteChange(t)
  /\ Finish(w)
  /\ UNCHANGED <<row, policy, copy, revoked, started>>

\* ... and writes it back with the change.  (Save, which only adds, clamps from
\* above, a rejection from below: from a score in range that is the same.)
WriteScore(w) ==
  LET t == tx[w] IN
  /\ t.pc = "pay"
  /\ score' = [score EXCEPT ![t.agent] = Clamp(t.read + t.change)]
  /\ NoteChange(t)
  /\ Finish(w)
  /\ UNCHANGED <<row, policy, copy, revoked, started>>

\* FetchFactorsAndRecalculate's UPDATE and AgentRegistry.Update.
OverwriteScore(a) ==
  /\ TakeRequest
  /\ \E n \in Overwrites : score' = [score EXCEPT ![a] = n]
  /\ rewritten' = rewritten \cup {a}
  /\ UNCHANGED <<row, policy, copy, revoked, tx, earned>>

\* A statement or the commit fails.  The router ignores the error of its event.
RecordFails(w) ==
  /\ tx[w].pc \in {"record", "pay"}
  /\ Finish(w)
  /\ UNCHANGED <<tables, started>>

-----------------------------------------------------------------------------
(* The other writers of memories: one statement each.                      *)

\* Faulty variant: the deleted_at guard is missing.
WriteRowUnguarded(i, new) ==
  /\ row[i] # NoRow
  /\ ~Locked(i)
  /\ row' = [row EXCEPT ![i] = new]

\* UPDATE ... WHERE id = $1 AND deleted_at IS NULL: a row that is locked is
\* waited for, and a deleted one is not found.
WriteRow(i, new) ==
  /\ row[i].state = "live"
  /\ ~Locked(i)
  /\ row' = [row EXCEPT ![i] = new]

\* PostgresStore.Update replaces the owner along with everything else.
Update(i, a) ==
  /\ TakeRequest
  /\ WriteRow(i, [row[i] EXCEPT !.agent = a, !.content = "updated"])
  /\ UNCHANGED <<policy, copy, revoked, score, tx, earned, rewritten>>

\* gdpr.Rectify.
Rectify(i) ==
  /\ TakeRequest
  /\ WriteRow(i, [row[i] EXCEPT !.content = "corrected"])
  /\ UNCHANGED <<policy, copy, revoked, score, tx, earned, rewritten>>

\* PostgresStore.Delete has no such guard: a deleted row is deleted again.
Delete(i) ==
  /\ TakeRequest
  /\ row[i] # NoRow
  /\ ~Locked(i)
  /\ row' = [row EXCEPT ![i] = [row[i] EXCEPT !.state = "deleted",
                                               !.by = IF @ = "none" THEN "request" ELSE @]]
  /\ UNCHANGED <<policy, copy, revoked, score, tx, earned, rewritten>>

\* ValkeyStore.Update writes the keys anew, whatever was there: the router picks
\* the backend by the type in the request.
UpdateWorking(i, a) ==
  /\ TakeRequest
  /\ i \notin Fresh
  /\ copy' = [copy EXCEPT ![i] = a]
  /\ UNCHANGED <<row, policy, revoked, score, tx, earned, rewritten>>

DeleteWorking(i) ==
  /\ TakeRequest
  /\ copy[i] # None
  /\ copy' = [copy EXCEPT ![i] = None]
  /\ UNCHANGED <<row, policy, revoked, score, tx, earned, rewritten>>

\* PostgresStore.Expire: one UPDATE of the live rows whose valid_until is over,
\* whichever they are.
Expire ==
  /\ TakeRequest
  /\ \E over \in SUBSET {i \in Ids : row[i].state = "live"} :
       /\ over # {}
       /\ \A i \in over : ~Locked(i)
       /\ row' = [i \in Ids |-> IF i \in over
                                THEN [row[i] EXCEPT !.state = "deleted", !.by = "request"]
                                ELSE row[i]]
  /\ UNCHANGED <<policy, copy, revoked, score, tx, earned, rewritten>>

\* The TTL of the copy runs out.
CopyExpires(i) ==
  /\ copy[i] # None
  /\ copy' = [copy EXCEPT ![i] = None]
  /\ UNCHANGED <<row, policy, revoked, score, tx, started, earned, rewritten>>

\* SavePolicy, for an agent that has no policy yet or rewrites its own: a row that
\* an open Forget has deleted is waited for.
SavePolicy(a) ==
  /\ TakeRequest
  /\ \A w \in Workers : ~(tx[w].agent = a /\ tx[w].drops)
  /\ policy[a] # "saved"
  /\ policy' = [policy EXCEPT ![a] = "saved"]
  /\ UNCHANGED <<row, copy, revoked, score, tx, earned, rewritten>>

-----------------------------------------------------------------------------
(* Forget.                                                                 *)

\* Faulty variant: the UPDATE commits on its own.
ForgetMemoriesAutocommit(w, a) ==
  /\ tx[w] = Idle
  /\ TakeRequest
  /\ \A i \in LiveRowsOf(a) : ~Locked(i)
  /\ row' = [i \in Ids |-> IF i \in LiveRowsOf(a)
                           THEN [row[i] EXCEPT !.state = "deleted", !.by = "forget"]
                           ELSE row[i]]
  /\ tx' = [tx EXCEPT ![w] = [Idle EXCEPT !.pc = "policies", !.agent = a]]
  /\ UNCHANGED <<policy, copy, revoked, score, earned, rewritten>>

\* BEGIN and UPDATE memories: the rows it finds, once nobody else holds them.
ForgetMemories(w, a) ==
  /\ tx[w] = Idle
  /\ TakeRequest
  /\ \A i \in LiveRowsOf(a) : ~Locked(i)
  /\ tx' = [tx EXCEPT ![w] = [Idle EXCEPT !.pc = "policies", !.agent = a,
                                          !.rows = LiveRowsOf(a)]]
  /\ UNCHANGED tables

\* DELETE FROM policies: the one it finds, once nobody else holds it.
ForgetPolicies(w) ==
  LET a == tx[w].agent IN
  /\ tx[w].pc = "policies"
  /\ \A u \in Workers : ~(tx[u].agent = a /\ tx[u].drops)
  /\ tx' = [tx EXCEPT ![w] = [@ EXCEPT !.pc = "revoke", !.drops = policy[a] = "saved"]]
  /\ UNCHANGED <<tables, started>>

\* UPDATE agents and COMMIT.
RevokeAgent(w) ==
  LET t == tx[w] IN
  /\ t.pc = "revoke"
  /\ row' = [i \in Ids |-> IF i \in t.rows
                           THEN [row[i] EXCEPT !.state = "deleted", !.by = "forget"]
                           ELSE row[i]]
  /\ policy' = [policy EXCEPT ![t.agent] = IF t.drops THEN "forgotten" ELSE @]
  /\ revoked' = [revoked EXCEPT ![t.agent] = TRUE]
  /\ score' = [score EXCEPT ![t.agent] = 0]
  /\ Finish(w)
  /\ UNCHANGED <<copy, started, earned, rewritten>>

\* A statement or the commit fails: the deferred Rollback.
RollBack(w) ==
  /\ tx[w].pc \in {"policies", "revoke"}
  /\ Finish(w)
  /\ UNCHANGED <<tables, started>>

-----------------------------------------------------------------------------

Step(w) ==
  CheckActive(w) \/ VerifySignature(w) \/ CheckReputation(w) \/ Store(w) \/ StoreFails(w)
    \/ RecordEvent(w) \/ WriteScore(w) \/ RecordFails(w)
    \/ ForgetPolicies(w) \/ RevokeAgent(w) \/ RollBack(w)

Next ==
  \/ \E w \in Workers :
       \/ Step(w)
       \/ \E a \in Agents :
            StoreWithVerification(w, a) \/ ReadScore(w, a) \/ ForgetMemories(w, a)
  \/ \E i \in Ids :
       \/ \E a \in Agents : Update(i, a) \/ UpdateWorking(i, a)
       \/ Rectify(i) \/ Delete(i) \/ DeleteWorking(i) \/ CopyExpires(i)
  \/ Expire
  \/ \E a \in Agents : SavePolicy(a) \/ OverwriteScore(a)

Spec == Init /\ [][Next]_vars

-----------------------------------------------------------------------------
(* Properties.                                                             *)

Row == [state : {"none", "live", "deleted"}, agent : Agents \cup {None},
        content : Contents, by : {"none", "request", "forget"}]

Request ==
  [pc : {"idle", "active", "verify", "gate", "store", "record", "pay", "policies",
         "revoke"},
   agent : Agents \cup {None}, working : BOOLEAN, signed : BOOLEAN,
   read : Scores, change : Int, rows : SUBSET Ids, drops : BOOLEAN,
   late : BOOLEAN, after : BOOLEAN]

\* Type invariant; a score never leaves 0..1000 although WriteScore adds to a value
\* read earlier (reputation.go:79-86).
TypeOK ==
  /\ row \in [Ids -> Row]
  /\ policy \in [Agents -> {"none", "saved", "forgotten"}]
  /\ copy \in [Ids -> Agents \cup {None}]
  /\ revoked \in [Agents -> BOOLEAN]
  /\ score \in [Agents -> Scores]
  /\ tx \in [Workers -> Request]
  /\ started \in 0..MaxOps
  /\ earned \in [Agents -> Nat]
  /\ rewritten \subseteq Agents

\* A soft-deleted memory never comes back and is never rewritten, whichever of
\* Update, Rectify, Delete, Expire and Forget reach it in which order
\* (postgres_store.go:85 and 223, gdpr.go:29 and 87).
DeletedStaysDeleted ==
  [][\A i \in Ids : row[i].state = "deleted" => row'[i] = row[i]]_vars

\* Forget is all or nothing (gdpr.go:22, 46): a memory or a policy it deleted is
\* that of an agent that is revoked, whatever fails in between.
NothingIsHalfForgotten ==
  /\ \A i \in Ids : row[i].by = "forget" => revoked[row[i].agent]
  /\ \A a \in Agents : policy[a] = "forgotten" => revoked[a]

\* What keeps a forgotten agent from storing is its reputation of 0 alone
\* (router.go:61), which no writer of scores refuses to raise.  So a request that
\* began after the revocation gets past the gate, but only once the agent has earned
\* what it takes since then (five for each store that was under way, 25 for each
\* attestation, 50 for a verification that was pending, ...), or when its score from
\* before was written back by a transaction that had read it, or replaced.
LateStoresAreEarned ==
  TrustWired =>
    \A w \in Workers : tx[w].late /\ tx[w].pc = "store" =>
      tx[w].agent \in rewritten \/ earned[tx[w].agent] >= MinReputation

\* gdpr.go:20: "hard-deletes or soft-deletes all memories and data associated
\* with a specific agent".
ForgetReachesEverything ==
  [][\A a \in Agents : revoked'[a] /\ ~revoked[a] =>
       \A i \in Ids : copy'[i] # a]_vars
=============================================================================
