--------------------------- MODULE MemoriesProofs ---------------------------
(***************************************************************************)
(* What Memories promises, for all agents, memories, workers and bounds.   *)
(*                                                                         *)
(* The statements of Forget are several steps of one transaction.  What    *)
(* makes them one for everybody else are the rows the transaction has      *)
(* locked: they are live, they are the agent's, no other transaction has   *)
(* them, and no writer gets past them (LocksAreSound).                     *)
(***************************************************************************)
EXTENDS Memories, TLAPS

\* A request under way is some agent's.
Owned == \A w \in Workers : tx[w].pc # "idle" => tx[w].agent \in Agents

\* The rows an open Forget has updated.
LocksAreSound ==
  /\ \A w \in Workers : \A i \in tx[w].rows :
       row[i].state = "live" /\ row[i].agent = tx[w].agent
  /\ \A u \in Workers : \A w \in Workers :
       u # w => \A i \in tx[u].rows : i \notin tx[w].rows

\* Every deletion is some writer's.
DeletionsAreSigned == \A i \in Ids : row[i].state = "deleted" <=> row[i].by # "none"

ForgetInvariant ==
  TypeOK /\ Owned /\ LocksAreSound /\ DeletionsAreSigned /\ NothingIsHalfForgotten

-----------------------------------------------------------------------------
(* The steps that only move a request on.                                  *)

Moves(w) ==
  CheckActive(w) \/ VerifySignature(w) \/ CheckReputation(w) \/ StoreFails(w)
    \/ RecordFails(w) \/ RollBack(w)

\* Whatever happens, the request ends or it goes to its next place.
LEMMA MovesMove ==
  ASSUME NEW w \in Workers, Moves(w)
  PROVE  /\ UNCHANGED <<tables, started>>
         /\ tx[w].pc # "idle"
         /\ \/ tx' = [tx EXCEPT ![w] = Idle]
            \/ \E pc \in {"verify", "gate", "store"} :
                 tx' = [tx EXCEPT ![w] = [tx[w] EXCEPT !.pc = pc]]
  BY DEF Moves, CheckActive, VerifySignature, CheckReputation, StoreFails, RecordFails,
         RollBack, Goto, Finish

LEMMA IdleIsARequest == Idle \in Request
  BY DEF Idle, Request, Scores

LEMMA TakingARequest ==
  ASSUME TypeOK, TakeRequest
  PROVE  started' \in 0..MaxOps
<1>1. started \in Nat /\ MaxOps \in Nat /\ started < MaxOps /\ started' = started + 1
  BY MemoriesAssumption DEF TypeOK, TakeRequest
<1> QED
  BY <1>1

\* What a request looks like in its first place, and once it has read the score.
FirstOf(pc, a, working, signed, late) ==
  [Idle EXCEPT !.pc = pc, !.agent = a, !.working = working, !.signed = signed, !.late = late]

LEMMA FirstPlace ==
  ASSUME NEW pc \in {"active", "store"}, NEW a \in Agents,
         NEW working \in BOOLEAN, NEW signed \in BOOLEAN, NEW late \in BOOLEAN
  PROVE  /\ FirstOf(pc, a, working, signed, late) \in Request
         /\ FirstOf(pc, a, working, signed, late).agent = a
         /\ FirstOf(pc, a, working, signed, late).rows = {}
<1> DEFINE q1 == [Idle EXCEPT !.pc = pc]
           q2 == [q1 EXCEPT !.agent = a]
           q3 == [q2 EXCEPT !.working = working]
           q4 == [q3 EXCEPT !.signed = signed]
           q5 == [q4 EXCEPT !.late = late]
<1>1. q1 \in Request /\ q1.rows = {}
  <2>1. Idle.rows = {}
    BY DEF Idle
  <2> QED
    BY <2>1, IdleIsARequest DEF Request
<1>2. q2 \in Request /\ q2.agent = a /\ q2.rows = {}
  <2> HIDE DEF q1
  <2> QED
    BY <1>1 DEF Request
<1>3. q3 \in Request /\ q3.agent = a /\ q3.rows = {}
  <2> HIDE DEF q2
  <2> QED
    BY <1>2 DEF Request
<1>4. q4 \in Request /\ q4.agent = a /\ q4.rows = {}
  <2> HIDE DEF q3
  <2> QED
    BY <1>3 DEF Request
<1>5. q5 \in Request /\ q5.agent = a /\ q5.rows = {}
  <2> HIDE DEF q4
  <2> QED
    BY <1>4 DEF Request
<1>6. FirstOf(pc, a, working, signed, late) = q5
  BY DEF FirstOf, Idle
<1> QED
  BY <1>5, <1>6

LEMMA ReadPlace ==
  ASSUME TypeOK, NEW t \in Request, NEW a \in Agents, NEW c \in Int
  PROVE  /\ Reading(t, a, c) \in Request
         /\ Reading(t, a, c).pc = "pay"
         /\ Reading(t, a, c).agent = a
         /\ Reading(t, a, c).read = score[a]
         /\ Reading(t, a, c).after = revoked[a]
         /\ Reading(t, a, c).rows = t.rows
         /\ Reading(t, a, c).late = t.late
<1> DEFINE n == score[a]
           b == revoked[a]
           q1 == [t EXCEPT !.pc = "pay"]
           q2 == [q1 EXCEPT !.agent = a]
           q3 == [q2 EXCEPT !.change = c]
           q4 == [q3 EXCEPT !.read = n]
           q5 == [q4 EXCEPT !.after = b]
<1>0. n \in Scores /\ b \in BOOLEAN
  BY DEF TypeOK
<1>1. q5 = Reading(t, a, c)
  BY DEF Reading, Request
<1> HIDE DEF n, b
<1>2. q1 \in Request /\ q1.pc = "pay" /\ q1.rows = t.rows /\ q1.late = t.late
  BY DEF Request
<1>3. q2 \in Request /\ q2.pc = "pay" /\ q2.rows = t.rows /\ q2.late = t.late /\ q2.agent = a
  <2> HIDE DEF q1
  <2> QED
    BY <1>2 DEF Request
<1>4. q3 \in Request /\ q3.pc = "pay" /\ q3.rows = t.rows /\ q3.late = t.late /\ q3.agent = a
  <2> HIDE DEF q2
  <2> QED
    BY <1>3 DEF Request
<1>5. /\ q4 \in Request /\ q4.pc = "pay" /\ q4.rows = t.rows /\ q4.late = t.late /\ q4.agent = a
      /\ q4.read = n
  <2> HIDE DEF q3
  <2> QED
    BY <1>0, <1>4 DEF Request
<1>6. /\ q5 \in Request /\ q5.pc = "pay" /\ q5.rows = t.rows /\ q5.late = t.late /\ q5.agent = a
      /\ q5.read = n /\ q5.after = b
  <2> HIDE DEF q4
  <2> QED
    BY <1>0, <1>5 DEF Request
<1> QED
  BY <1>1, <1>6 DEF n, b

LEMMA ClampedToScores == \A m \in Int : Clamp(m) \in Scores
  BY DEF Clamp, Scores

LEMMA NoRowIsARow == NoRow \in Row
  BY DEF NoRow, Row, Contents

LEMMA InitSatisfiesForget == Init => ForgetInvariant
<1> SUFFICES ASSUME Init PROVE ForgetInvariant
  OBVIOUS
<1>1. score \in [Agents -> Scores]
  <2>1. score \in [Agents -> StartScores]
    BY DEF Init
  <2>2. StartScores \subseteq Scores
    BY MemoriesAssumption
  <2>3. \A a \in Agents : score[a] \in Scores
    BY <2>1, <2>2
  <2> QED
    BY <2>1, <2>3
<1>2. TypeOK
  BY <1>1, MemoriesAssumption, IdleIsARequest, NoRowIsARow DEF Init, TypeOK
<1>3. Owned /\ LocksAreSound
  BY DEF Init, Owned, LocksAreSound, Idle
<1>4. DeletionsAreSigned /\ NothingIsHalfForgotten
  BY DEF Init, DeletionsAreSigned, NothingIsHalfForgotten, NoRow
<1> QED
  BY <1>2, <1>3, <1>4 DEF ForgetInvariant

LEMMA MovesKeepForget ==
  ASSUME ForgetInvariant, NEW w \in Workers, Moves(w)
  PROVE  ForgetInvariant'
<1> USE DEF ForgetInvariant
<1>1. UNCHANGED <<tables, started>> /\ tx[w].pc # "idle"
  BY MovesMove
<1>2. tx[w] \in Request /\ tx[w].agent \in Agents
  BY <1>1 DEF TypeOK, Owned
<1>3. \E q \in Request : /\ tx' = [tx EXCEPT ![w] = q]
                         /\ q.rows \subseteq tx[w].rows
                         /\ q = Idle \/ q.agent = tx[w].agent
  <2>1. CASE tx' = [tx EXCEPT ![w] = Idle]
    BY <2>1, IdleIsARequest DEF Idle
  <2>2. CASE \E pc \in {"verify", "gate", "store"} :
                tx' = [tx EXCEPT ![w] = [tx[w] EXCEPT !.pc = pc]]
    <3>1. PICK pc \in {"verify", "gate", "store"} :
                 tx' = [tx EXCEPT ![w] = [tx[w] EXCEPT !.pc = pc]]
      BY <2>2
    <3>2. [tx[w] EXCEPT !.pc = pc] \in Request
      BY <1>2 DEF Request
    <3>3. [tx[w] EXCEPT !.pc = pc].rows = tx[w].rows /\ [tx[w] EXCEPT !.pc = pc].agent = tx[w].agent
      BY <1>2 DEF Request
    <3> QED
      BY <3>1, <3>2, <3>3
  <2> QED
    BY <2>1, <2>2, MovesMove
<1>4. PICK q \in Request : /\ tx' = [tx EXCEPT ![w] = q]
                           /\ q.rows \subseteq tx[w].rows
                           /\ q = Idle \/ q.agent = tx[w].agent
  BY <1>3
<1>5. \A u \in Workers : /\ tx'[u].rows \subseteq tx[u].rows
                         /\ tx'[u] = Idle \/ tx'[u].agent = tx[u].agent
                         /\ u # w => tx'[u] = tx[u]
  BY <1>4 DEF TypeOK
<1>6. TypeOK'
  BY <1>1, <1>4 DEF TypeOK, tables
<1>7. Owned'
  BY <1>2, <1>4, <1>5 DEF Owned, TypeOK, Idle
<1>8. LocksAreSound'
  BY <1>1, <1>5 DEF LocksAreSound, tables, Idle
<1>9. DeletionsAreSigned' /\ NothingIsHalfForgotten'
  BY <1>1 DEF DeletionsAreSigned, NothingIsHalfForgotten, tables
<1> QED
  BY <1>6, <1>7, <1>8, <1>9

-----------------------------------------------------------------------------
(* The steps of a request that read or write.                              *)

LEMMA RequestsKeepForget ==
  ASSUME ForgetInvariant, NEW w \in Workers,
         \/ \E a \in Agents : StoreWithVerification(w, a)
         \/ Store(w)
         \/ RecordEvent(w) \/ \E a \in Agents : ReadScore(w, a)
         \/ WriteScore(w)
  PROVE  ForgetInvariant'
<1> USE DEF ForgetInvariant
<1>1. ASSUME NEW a \in Agents, StoreWithVerification(w, a) PROVE ForgetInvariant'
  <2>1. PICK working \in BOOLEAN, signed \in BOOLEAN :
          tx' = [tx EXCEPT ![w] = FirstOf(IF TrustWired THEN "active" ELSE "store",
                                          a, working, signed, revoked[a])]
    BY <1>1 DEF StoreWithVerification, FirstOf
  <2> DEFINE q == FirstOf(IF TrustWired THEN "active" ELSE "store", a, working, signed, revoked[a])
  <2>2. q \in Request /\ q.agent = a /\ q.rows = {}
    <3>1. revoked[a] \in BOOLEAN
      BY DEF TypeOK
    <3>2. (IF TrustWired THEN "active" ELSE "store") \in {"active", "store"}
      OBVIOUS
    <3> QED
      BY <3>1, <3>2, FirstPlace
  <2>3. tx' = [tx EXCEPT ![w] = q] /\ UNCHANGED tables
    BY <1>1, <2>1 DEF StoreWithVerification
  <2>4. started' \in 0..MaxOps
    BY <1>1, TakingARequest DEF StoreWithVerification
  <2> HIDE DEF q
  <2>5. TypeOK'
    BY <2>2, <2>3, <2>4 DEF TypeOK, tables
  <2>6. Owned' /\ LocksAreSound'
    BY <2>2, <2>3 DEF Owned, LocksAreSound, TypeOK, tables
  <2>7. DeletionsAreSigned' /\ NothingIsHalfForgotten'
    BY <2>3 DEF DeletionsAreSigned, NothingIsHalfForgotten, tables
  <2> QED
    BY <2>5, <2>6, <2>7
<1>2. CASE Store(w)
  <2>1. PICK i \in Fresh :
          IF tx[w].working
          THEN copy' = [copy EXCEPT ![i] = tx[w].agent] /\ UNCHANGED row
          ELSE /\ row' = [row EXCEPT ![i] = [NoRow EXCEPT !.state = "live", !.agent = tx[w].agent]]
               /\ UNCHANGED copy
    BY <1>2 DEF Store
  <2>2. i \in Ids /\ row[i] = NoRow /\ tx[w] \in Request /\ tx[w].agent \in Agents
    BY <1>2 DEF Fresh, Store, TypeOK, Owned
  <2> DEFINE new == [NoRow EXCEPT !.state = "live", !.agent = tx[w].agent]
  <2>3. new \in Row /\ new.state = "live" /\ new.by = "none"
    BY <2>2 DEF NoRow, Row, Contents
  <2>4. row' = row \/ row' = [row EXCEPT ![i] = new]
    BY <2>1
  <2> HIDE DEF new
  <2>5. row' \in [Ids -> Row] /\ copy' \in [Ids -> Agents \cup {None}]
    BY <2>1, <2>2, <2>3, <2>4 DEF TypeOK
  <2>6. \E q \in Request : /\ tx' = [tx EXCEPT ![w] = q]
                           /\ q.rows \subseteq tx[w].rows
                           /\ q = Idle \/ q.agent = tx[w].agent
    <3>1. [tx[w] EXCEPT !.pc = "record"] \in Request
      BY <2>2 DEF Request
    <3>2. [tx[w] EXCEPT !.pc = "record"].rows = tx[w].rows
            /\ [tx[w] EXCEPT !.pc = "record"].agent = tx[w].agent
      BY <2>2 DEF Request
    <3>3. \/ tx' = [tx EXCEPT ![w] = [tx[w] EXCEPT !.pc = "record"]]
          \/ tx' = [tx EXCEPT ![w] = Idle]
      BY <1>2 DEF Store, Goto, Finish
    <3> QED
      BY <3>1, <3>2, <3>3, IdleIsARequest DEF Idle
  <2>7. PICK q \in Request : /\ tx' = [tx EXCEPT ![w] = q]
                             /\ q.rows \subseteq tx[w].rows
                             /\ q = Idle \/ q.agent = tx[w].agent
    BY <2>6
  <2>8. \A u \in Workers : /\ tx'[u].rows \subseteq tx[u].rows
                           /\ tx'[u] = Idle \/ tx'[u].agent = tx[u].agent
                           /\ u # w => tx'[u] = tx[u]
    BY <2>7 DEF TypeOK
  <2>9. TypeOK'
    BY <1>2, <2>5, <2>7 DEF TypeOK, Store
  <2>10. Owned'
    BY <2>2, <2>8 DEF Owned, Idle
  <2>11. \A j \in Ids : row[j].state = "live" => row'[j] = row[j]
    BY <2>2, <2>4 DEF TypeOK, NoRow
  <2>12. LocksAreSound'
    <3>1. \A u \in Workers : \A j \in tx[u].rows : j \in Ids
      BY DEF TypeOK, Request
    <3> QED
      BY <2>8, <2>11, <3>1 DEF LocksAreSound, Idle
  <2>13. DeletionsAreSigned' /\ NothingIsHalfForgotten'
    BY <1>2, <2>2, <2>3, <2>4 DEF Store, DeletionsAreSigned, NothingIsHalfForgotten, TypeOK
  <2> QED
    BY <2>9, <2>10, <2>12, <2>13
<1>3. ASSUME NEW t \in Request, NEW a \in Agents, NEW c \in Int, t.rows \subseteq tx[w].rows,
             tx' = [tx EXCEPT ![w] = Reading(t, a, c)], UNCHANGED tables, started' \in 0..MaxOps,
             t.rows = {} \/ a = tx[w].agent
      PROVE  ForgetInvariant'
  <2> DEFINE q == Reading(t, a, c)
  <2>1. q \in Request /\ q.rows = t.rows /\ q.agent = a
    BY ReadPlace
  <2>2. tx' = [tx EXCEPT ![w] = q]
    BY <1>3
  <2> HIDE DEF q
  <2>3. TypeOK'
    BY <1>3, <2>1, <2>2 DEF TypeOK, tables
  <2>4. \A u \in Workers : tx'[u] = IF u = w THEN q ELSE tx[u]
    BY <2>2 DEF TypeOK
  <2>5. Owned'
    BY <2>1, <2>4 DEF Owned
  <2>6. \A u \in Workers : /\ tx'[u].rows \subseteq tx[u].rows
                           /\ tx'[u].rows = {} \/ tx'[u].agent = tx[u].agent
    BY <1>3, <2>1, <2>4
  <2>7. LocksAreSound'
    BY <1>3, <2>6 DEF LocksAreSound, tables
  <2>8. DeletionsAreSigned' /\ NothingIsHalfForgotten'
    BY <1>3 DEF DeletionsAreSigned, NothingIsHalfForgotten, tables
  <2> QED
    BY <2>3, <2>5, <2>7, <2>8
<1>4. CASE RecordEvent(w)
  <2>1. tx[w] \in Request /\ tx[w].agent \in Agents /\ StoreBonus \in Int
    BY <1>4 DEF RecordEvent, TypeOK, Owned, StoreBonus
  <2>2. /\ tx' = [tx EXCEPT ![w] = Reading(tx[w], tx[w].agent, StoreBonus)]
        /\ UNCHANGED tables /\ started' \in 0..MaxOps
    BY <1>4 DEF RecordEvent, TypeOK
  <2> QED
    BY <1>3, <2>1, <2>2
<1>5. ASSUME NEW a \in Agents, ReadScore(w, a) PROVE ForgetInvariant'
  <2>1. PICK c \in Changes : tx' = [tx EXCEPT ![w] = Reading(Idle, a, c)]
    BY <1>5 DEF ReadScore
  <2>2. c \in Int
    BY MemoriesAssumption
  <2>3. Idle.rows = {}
    BY DEF Idle
  <2>4. UNCHANGED tables /\ started' \in 0..MaxOps
    BY <1>5, TakingARequest DEF ReadScore
  <2> QED
    BY <1>3, <2>1, <2>2, <2>3, <2>4, IdleIsARequest
<1>6. CASE WriteScore(w)
  <2>1. tx[w] \in Request /\ tx[w].agent \in Agents
    BY <1>6 DEF WriteScore, TypeOK, Owned
  <2>2. tx' = [tx EXCEPT ![w] = Idle] /\ UNCHANGED <<row, policy, copy, revoked, started>>
    BY <1>6 DEF WriteScore, Finish
  <2>3. score' \in [Agents -> Scores]
    <3> DEFINE n == Clamp(tx[w].read + tx[w].change)
    <3>1. tx[w].read + tx[w].change \in Int
      <4>1. tx[w].read \in Scores /\ tx[w].change \in Int
        BY <2>1 DEF Request
      <4>2. \A m \in Scores : m \in Int
        BY DEF Scores
      <4> QED
        BY <4>1, <4>2
    <3>2. n \in Scores
      BY <3>1, ClampedToScores
    <3>3. score' = [score EXCEPT ![tx[w].agent] = n]
      BY <1>6 DEF WriteScore
    <3> HIDE DEF n
    <3> QED
      BY <3>2, <3>3 DEF TypeOK
  <2>4. earned' \in [Agents -> Nat] /\ rewritten' \subseteq Agents
    <3>1. tx[w].change \in Int
      BY <2>1 DEF Request
    <3>2. \/ earned' = earned
          \/ tx[w].change > 0 /\ earned' = [earned EXCEPT ![tx[w].agent] = @ + tx[w].change]
      BY <1>6 DEF WriteScore, NoteChange
    <3>3. rewritten' \in {rewritten, rewritten \cup {tx[w].agent}}
      BY <1>6 DEF WriteScore, NoteChange
    <3> QED
      BY <2>1, <3>1, <3>2, <3>3 DEF TypeOK
  <2>5. TypeOK'
    BY <2>2, <2>3, <2>4, IdleIsARequest DEF TypeOK
  <2>6. Owned' /\ LocksAreSound'
    BY <2>2 DEF Owned, LocksAreSound, TypeOK, Idle
  <2>7. DeletionsAreSigned' /\ NothingIsHalfForgotten'
    BY <2>2 DEF DeletionsAreSigned, NothingIsHalfForgotten
  <2> QED
    BY <2>5, <2>6, <2>7
<1> QED
  BY <1>1, <1>2, <1>4, <1>5, <1>6

-----------------------------------------------------------------------------
(* The writers of one statement.                                           *)

\* A statement that rewrites rows no transaction holds: what it may do to them.
RowsMayBecome(i, new) ==
  /\ new \in Row
  /\ new.state = "deleted" <=> new.by # "none"
  /\ new.by = "forget" => new = row[i]
  /\ new # row[i] => ~Locked(i) /\ row[i] # NoRow

LEMMA StatementsKeepForget ==
  ASSUME ForgetInvariant, started' \in 0..MaxOps, UNCHANGED <<revoked, score, tx, earned, rewritten>>,
         policy' \in [Agents -> {"none", "saved", "forgotten"}],
         copy' \in [Ids -> Agents \cup {None}],
         \A a \in Agents : policy'[a] = "forgotten" => policy[a] = "forgotten",
         row' = row \/ \E next \in [Ids -> Row] : /\ row' = next
                                                 /\ \A i \in Ids : RowsMayBecome(i, next[i])
  PROVE  ForgetInvariant'
<1> USE DEF ForgetInvariant
<1>1. row' \in [Ids -> Row] /\ \A i \in Ids : row'[i] = row[i] \/ RowsMayBecome(i, row'[i])
  <2>1. CASE row' = row
    BY <2>1 DEF TypeOK
  <2>2. CASE \E next \in [Ids -> Row] : /\ row' = next
                                        /\ \A i \in Ids : RowsMayBecome(i, next[i])
    <3>1. PICK next \in [Ids -> Row] : /\ row' = next
                                       /\ \A i \in Ids : RowsMayBecome(i, next[i])
      BY <2>2
    <3>2. \A i \in Ids : RowsMayBecome(i, row'[i])
      BY <3>1 DEF RowsMayBecome, Locked
    <3> QED
      BY <3>1, <3>2
  <2> QED
    BY <2>1, <2>2
<1>2. TypeOK'
  BY <1>1 DEF TypeOK
<1>3. Owned'
  BY DEF Owned
<1>4. LocksAreSound'
  <2>1. \A u \in Workers : \A j \in tx[u].rows : j \in Ids
    BY DEF TypeOK, Request
  <2>2. \A u \in Workers : \A j \in tx[u].rows : row'[j] = row[j]
    BY <1>1, <2>1 DEF RowsMayBecome, Locked
  <2> QED
    BY <2>2 DEF LocksAreSound
<1>5. DeletionsAreSigned' /\ NothingIsHalfForgotten'
  BY <1>1 DEF RowsMayBecome, DeletionsAreSigned, NothingIsHalfForgotten
<1> QED
  BY <1>2, <1>3, <1>4, <1>5

\* A row a writer may leave in place of row i.
LEMMA WrittenRows ==
  ASSUME ForgetInvariant, NEW i \in Ids, NEW new \in Row, ~Locked(i), row[i] # NoRow,
         new.state = "deleted" <=> new.by # "none",
         new.by = "forget" => new = row[i],
         row' = [row EXCEPT ![i] = new]
  PROVE  \E next \in [Ids -> Row] : /\ row' = next
                                    /\ \A j \in Ids : RowsMayBecome(j, next[j])
<1>0. row \in [Ids -> Row]
  BY DEF ForgetInvariant, TypeOK
<1>1. [row EXCEPT ![i] = new] \in [Ids -> Row]
  BY <1>0
<1>2. ASSUME NEW j \in Ids PROVE RowsMayBecome(j, [row EXCEPT ![i] = new][j])
  BY <1>0 DEF RowsMayBecome, ForgetInvariant, DeletionsAreSigned
<1> QED
  BY <1>1, <1>2

\* The steps that are no request's of the router and no Forget's.
Writers ==
  \/ \E i \in Ids : \/ \E a \in Agents : Update(i, a) \/ UpdateWorking(i, a)
                    \/ Rectify(i) \/ Delete(i) \/ DeleteWorking(i) \/ CopyExpires(i)
  \/ Expire
  \/ \E a \in Agents : SavePolicy(a)

LEMMA WritersKeepForget ==
  ASSUME ForgetInvariant, Writers
  PROVE  ForgetInvariant'
<1>0. /\ row \in [Ids -> Row] /\ copy \in [Ids -> Agents \cup {None}]
      /\ policy \in [Agents -> {"none", "saved", "forgotten"}]
      /\ TypeOK
  BY DEF ForgetInvariant, TypeOK
<1>1. ASSUME NEW i \in Ids, NEW a \in Agents, Update(i, a) PROVE ForgetInvariant'
  <2> DEFINE new == [row[i] EXCEPT !.agent = a, !.content = "updated"]
  <2>1. new \in Row /\ new.state = row[i].state /\ new.by = row[i].by
    BY <1>0 DEF Row, Contents
  <2>2. row[i].state = "live" /\ ~Locked(i) /\ row' = [row EXCEPT ![i] = new]
    BY <1>1 DEF Update, WriteRow
  <2> HIDE DEF new
  <2>3. row[i] # NoRow /\ row[i].by = "none"
    BY <1>0, <2>2 DEF NoRow, ForgetInvariant, DeletionsAreSigned
  <2>4. \E next \in [Ids -> Row] : /\ row' = next
                                   /\ \A j \in Ids : RowsMayBecome(j, next[j])
    BY <2>1, <2>2, <2>3, WrittenRows
  <2> QED
    BY <1>0, <1>1, <2>4, TakingARequest, StatementsKeepForget DEF Update
<1>2. ASSUME NEW i \in Ids, Rectify(i) PROVE ForgetInvariant'
  <2> DEFINE new == [row[i] EXCEPT !.content = "corrected"]
  <2>1. new \in Row /\ new.state = row[i].state /\ new.by = row[i].by
    BY <1>0 DEF Row, Contents
  <2>2. row[i].state = "live" /\ ~Locked(i) /\ row' = [row EXCEPT ![i] = new]
    BY <1>2 DEF Rectify, WriteRow
  <2> HIDE DEF new
  <2>3. row[i] # NoRow /\ row[i].by = "none"
    BY <1>0, <2>2 DEF NoRow, ForgetInvariant, DeletionsAreSigned
  <2>4. \E next \in [Ids -> Row] : /\ row' = next
                                   /\ \A j \in Ids : RowsMayBecome(j, next[j])
    BY <2>1, <2>2, <2>3, WrittenRows
  <2> QED
    BY <1>0, <1>2, <2>4, TakingARequest, StatementsKeepForget DEF Rectify
<1>3. ASSUME NEW i \in Ids, Delete(i) PROVE ForgetInvariant'
  <2> DEFINE new == [row[i] EXCEPT !.state = "deleted",
                                   !.by = IF @ = "none" THEN "request" ELSE @]
  <2>1. /\ new \in Row /\ new.state = "deleted" /\ new.by # "none"
        /\ new.by = "forget" => new = row[i]
    BY <1>0 DEF Row, Contents, ForgetInvariant, DeletionsAreSigned
  <2>2. row[i] # NoRow /\ ~Locked(i) /\ row' = [row EXCEPT ![i] = new]
    BY <1>3 DEF Delete
  <2> HIDE DEF new
  <2>4. \E next \in [Ids -> Row] : /\ row' = next
                                   /\ \A j \in Ids : RowsMayBecome(j, next[j])
    BY <2>1, <2>2, WrittenRows
  <2> QED
    BY <1>0, <1>3, <2>4, TakingARequest, StatementsKeepForget DEF Delete
<1>4. ASSUME NEW i \in Ids, NEW a \in Agents, UpdateWorking(i, a) PROVE ForgetInvariant'
  BY <1>0, <1>4, TakingARequest, StatementsKeepForget DEF UpdateWorking
<1>5. ASSUME NEW i \in Ids, DeleteWorking(i) PROVE ForgetInvariant'
  BY <1>0, <1>5, TakingARequest, StatementsKeepForget DEF DeleteWorking
<1>6. ASSUME NEW i \in Ids, CopyExpires(i) PROVE ForgetInvariant'
  <2>1. started' \in 0..MaxOps
    BY <1>0, <1>6 DEF CopyExpires, TypeOK
  <2> QED
    BY <1>0, <1>6, <2>1, StatementsKeepForget DEF CopyExpires
<1>7. CASE Expire
  <2>1. PICK over \in SUBSET {i \in Ids : row[i].state = "live"} :
          /\ \A i \in over : ~Locked(i)
          /\ row' = [i \in Ids |-> IF i \in over
                                   THEN [row[i] EXCEPT !.state = "deleted", !.by = "request"]
                                   ELSE row[i]]
    BY <1>7 DEF Expire
  <2> DEFINE next == [i \in Ids |-> IF i \in over
                                    THEN [row[i] EXCEPT !.state = "deleted", !.by = "request"]
                                    ELSE row[i]]
  <2>2. ASSUME NEW i \in Ids
        PROVE  next[i] \in Row /\ RowsMayBecome(i, next[i])
    <3>1. CASE i \in over
      <4> DEFINE new == [row[i] EXCEPT !.state = "deleted", !.by = "request"]
      <4>1. new \in Row /\ new.state = "deleted" /\ new.by = "request"
        BY <1>0 DEF Row
      <4>2. next[i] = new
        BY <3>1
      <4>3. row[i] # NoRow /\ ~Locked(i)
        <5>1. row[i].state = "live" /\ ~Locked(i)
          BY <2>1, <3>1
        <5> QED
          BY <5>1 DEF NoRow
      <4> HIDE DEF new, next
      <4> QED
        BY <4>1, <4>2, <4>3 DEF RowsMayBecome
    <3>2. CASE i \notin over
      BY <1>0, <3>2 DEF RowsMayBecome, ForgetInvariant, DeletionsAreSigned
    <3> QED
      BY <3>1, <3>2
  <2>3. row' = next
    BY <2>1
  <2>4. next \in [Ids -> Row]
    <3>1. \A i \in Ids : next[i] \in Row
      BY <2>2
    <3> QED
      BY <3>1
  <2>5. \A i \in Ids : RowsMayBecome(i, next[i])
    BY <2>2
  <2> HIDE DEF next
  <2>6. \E n \in [Ids -> Row] : /\ row' = n
                                /\ \A j \in Ids : RowsMayBecome(j, n[j])
    BY <2>3, <2>4, <2>5
  <2> QED
    BY <1>0, <1>7, <2>6, TakingARequest, StatementsKeepForget DEF Expire
<1>8. ASSUME NEW a \in Agents, SavePolicy(a) PROVE ForgetInvariant'
  <2>1. policy' \in [Agents -> {"none", "saved", "forgotten"}]
    BY <1>0, <1>8 DEF SavePolicy
  <2>2. \A b \in Agents : policy'[b] = "forgotten" => policy[b] = "forgotten"
    BY <1>0, <1>8 DEF SavePolicy
  <2> QED
    BY <1>0, <1>8, <2>1, <2>2, TakingARequest, StatementsKeepForget DEF SavePolicy
<1> QED
  BY <1>1, <1>2, <1>3, <1>4, <1>5, <1>6, <1>7, <1>8 DEF Writers

LEMMA OverwritingKeepsForget ==
  ASSUME ForgetInvariant, NEW a \in Agents, OverwriteScore(a)
  PROVE  ForgetInvariant'
<1>1. PICK n \in Overwrites : score' = [score EXCEPT ![a] = n]
  BY DEF OverwriteScore
<1>2. n \in Scores
  BY MemoriesAssumption
<1>3. /\ UNCHANGED <<row, policy, copy, revoked, tx, earned>>
      /\ rewritten' = rewritten \cup {a} /\ started' \in 0..MaxOps
  BY TakingARequest DEF OverwriteScore, ForgetInvariant
<1>4. TypeOK'
  BY <1>1, <1>2, <1>3 DEF ForgetInvariant, TypeOK
<1> QED
  BY <1>3, <1>4 DEF ForgetInvariant, Owned, LocksAreSound, DeletionsAreSigned,
                    NothingIsHalfForgotten

-----------------------------------------------------------------------------
(* Forget.                                                                 *)

LEMMA ForgetKeepsForget ==
  ASSUME ForgetInvariant, NEW w \in Workers,
         (\E a \in Agents : ForgetMemories(w, a)) \/ ForgetPolicies(w) \/ RevokeAgent(w)
  PROVE  ForgetInvariant'
<1>0. TypeOK /\ Owned /\ LocksAreSound /\ DeletionsAreSigned /\ NothingIsHalfForgotten
  BY DEF ForgetInvariant
<1>1. ASSUME NEW a \in Agents, ForgetMemories(w, a) PROVE ForgetInvariant'
  <2> DEFINE q == [Idle EXCEPT !.pc = "policies", !.agent = a, !.rows = LiveRowsOf(a)]
             q1 == [Idle EXCEPT !.pc = "policies"]
             q2 == [q1 EXCEPT !.agent = a]
             q3 == [q2 EXCEPT !.rows = LiveRowsOf(a)]
  <2>1. q1 \in Request
    BY IdleIsARequest DEF Request
  <2>2. q2 \in Request
    <3> HIDE DEF q1
    <3> QED
      BY <2>1 DEF Request
  <2>3. q3 \in Request
    <3> HIDE DEF q2
    <3>1. LiveRowsOf(a) \subseteq Ids
      BY DEF LiveRowsOf
    <3> QED
      BY <2>2, <3>1 DEF Request
  <2>4. q = q3 /\ q.agent = a /\ q.rows = LiveRowsOf(a)
    BY DEF Idle
  <2>5. tx' = [tx EXCEPT ![w] = q] /\ UNCHANGED tables /\ tx[w] = Idle
    BY <1>1 DEF ForgetMemories
  <2>6. q \in Request
    BY <2>3, <2>4
  <2>7. q.agent = a /\ q.rows = LiveRowsOf(a)
    BY <2>4
  <2> HIDE DEF q, q1, q2, q3
  <2>8. TypeOK'
    <3>1. started' \in 0..MaxOps
      BY <1>0, <1>1, TakingARequest DEF ForgetMemories
    <3> QED
      BY <1>0, <2>5, <2>6, <3>1 DEF TypeOK, tables
  <2>9. Owned'
    BY <1>0, <2>5, <2>7 DEF Owned, TypeOK
  <2>10. LocksAreSound'
    <3>1. \A u \in Workers : tx'[u] = IF u = w THEN q ELSE tx[u]
      BY <1>0, <2>5 DEF TypeOK
    <3>2. \A i \in LiveRowsOf(a) : i \in Ids /\ row[i].state = "live" /\ row[i].agent = a
      BY DEF LiveRowsOf
    <3>3. \A i \in LiveRowsOf(a) : \A u \in Workers : i \notin tx[u].rows
      BY <1>1 DEF ForgetMemories, Locked
    <3>4. row' = row
      BY <2>5 DEF tables
    <3>5. \A u \in Workers : \A i \in tx'[u].rows :
            row'[i].state = "live" /\ row'[i].agent = tx'[u].agent
      BY <1>0, <2>7, <3>1, <3>2, <3>4 DEF LocksAreSound
    <3>6. ASSUME NEW u \in Workers, NEW v \in Workers, u # v, NEW i \in tx'[u].rows
          PROVE  i \notin tx'[v].rows
      BY <1>0, <2>7, <3>1, <3>3, <3>6 DEF LocksAreSound
    <3> QED
      BY <3>5, <3>6 DEF LocksAreSound
  <2>11. DeletionsAreSigned' /\ NothingIsHalfForgotten'
    BY <1>0, <2>5 DEF DeletionsAreSigned, NothingIsHalfForgotten, tables
  <2> QED
    BY <2>8, <2>9, <2>10, <2>11 DEF ForgetInvariant
<1>2. CASE ForgetPolicies(w)
  <2> DEFINE q0 == [tx[w] EXCEPT !.pc = "revoke"]
             q1 == [q0 EXCEPT !.drops = policy[tx[w].agent] = "saved"]
             q  == [tx[w] EXCEPT !.pc = "revoke", !.drops = policy[tx[w].agent] = "saved"]
  <2>1. tx[w] \in Request /\ tx[w].agent \in Agents
    BY <1>0, <1>2 DEF ForgetPolicies, TypeOK, Owned
  <2>2. q0 \in Request
    BY <2>1 DEF Request
  <2>3. q1 \in Request
    <3> HIDE DEF q0
    <3> QED
      BY <2>2 DEF Request
  <2>4. q = q1 /\ q.rows = tx[w].rows /\ q.agent = tx[w].agent
    BY <2>1 DEF Request
  <2>5. tx' = [tx EXCEPT ![w] = q] /\ UNCHANGED <<tables, started>>
    BY <1>2 DEF ForgetPolicies
  <2>6. q \in Request
    BY <2>3, <2>4
  <2>7. q.rows = tx[w].rows /\ q.agent = tx[w].agent
    BY <2>4
  <2> HIDE DEF q, q0, q1
  <2>8. TypeOK'
    BY <1>0, <2>5, <2>6 DEF TypeOK, tables
  <2>9. Owned' /\ LocksAreSound'
    BY <1>0, <2>1, <2>5, <2>7 DEF Owned, LocksAreSound, TypeOK, tables
  <2>10. DeletionsAreSigned' /\ NothingIsHalfForgotten'
    BY <1>0, <2>5 DEF DeletionsAreSigned, NothingIsHalfForgotten, tables
  <2> QED
    BY <2>8, <2>9, <2>10 DEF ForgetInvariant
<1>3. CASE RevokeAgent(w)
  <2> DEFINE t == tx[w]
             Gone(i) == [row[i] EXCEPT !.state = "deleted", !.by = "forget"]
  <2>1. t \in Request /\ t.agent \in Agents
    BY <1>0, <1>3 DEF RevokeAgent, TypeOK, Owned
  <2>2. /\ row' = [i \in Ids |-> IF i \in t.rows THEN Gone(i) ELSE row[i]]
        /\ policy' = [policy EXCEPT ![t.agent] = IF t.drops THEN "forgotten" ELSE @]
        /\ revoked' = [revoked EXCEPT ![t.agent] = TRUE]
        /\ score' = [score EXCEPT ![t.agent] = 0]
        /\ tx' = [tx EXCEPT ![w] = Idle]
        /\ UNCHANGED <<copy, started, earned, rewritten>>
    BY <1>3 DEF RevokeAgent, Finish
  <2>3. \A i \in Ids : /\ Gone(i) \in Row /\ Gone(i).state = "deleted" /\ Gone(i).by = "forget"
                       /\ Gone(i).agent = row[i].agent
    BY <1>0 DEF TypeOK, Row
  <2>4. \A i \in Ids : row'[i] = IF i \in t.rows THEN Gone(i) ELSE row[i]
    BY <2>2
  <2>5. \A i \in t.rows : row[i].agent = t.agent
    BY <1>0 DEF LocksAreSound
  <2> HIDE DEF Gone
  <2>6. TypeOK'
    <3>1. row' \in [Ids -> Row]
      BY <1>0, <2>2, <2>3 DEF TypeOK
    <3>2. policy' \in [Agents -> {"none", "saved", "forgotten"}] /\ revoked' \in [Agents -> BOOLEAN]
      BY <1>0, <2>1, <2>2 DEF TypeOK
    <3>3. score' \in [Agents -> Scores]
      BY <1>0, <2>1, <2>2 DEF TypeOK, Scores
    <3> QED
      BY <1>0, <2>1, <2>2, <3>1, <3>2, <3>3, IdleIsARequest DEF TypeOK
  <2>7. \A u \in Workers : tx'[u] = IF u = w THEN Idle ELSE tx[u]
    BY <1>0, <2>2 DEF TypeOK
  <2>8. Owned'
    BY <1>0, <2>7 DEF Owned, Idle
  <2>9. LocksAreSound'
    <3>1. \A u \in Workers : \A i \in tx'[u].rows : u # w /\ i \in tx[u].rows /\ i \in Ids
      BY <1>0, <2>7 DEF TypeOK, Request, Idle
    <3>2. \A u \in Workers : \A i \in tx'[u].rows : i \notin t.rows
      BY <1>0, <3>1 DEF LocksAreSound
    <3>3. \A u \in Workers : \A i \in tx'[u].rows : row'[i] = row[i]
      BY <2>4, <3>1, <3>2
    <3> QED
      BY <1>0, <2>7, <3>1, <3>3 DEF LocksAreSound
  <2>10. DeletionsAreSigned'
    BY <1>0, <2>3, <2>4 DEF DeletionsAreSigned
  <2>11. NothingIsHalfForgotten'
    <3>1. \A a \in Agents : revoked[a] => revoked'[a]
      BY <1>0, <2>2 DEF TypeOK
    <3>2. revoked'[t.agent]
      BY <1>0, <2>1, <2>2 DEF TypeOK
    <3>3. \A i \in Ids : row[i].by = "forget" => revoked'[row[i].agent]
      <4>1. \A i \in Ids : row[i].agent \in Agents \/ row[i].agent = None
        BY <1>0 DEF TypeOK, Row
      <4>2. revoked' = [revoked EXCEPT ![t.agent] = TRUE] /\ revoked \in [Agents -> BOOLEAN]
        BY <1>0, <2>2 DEF TypeOK
      <4> QED
        BY <1>0, <3>1, <4>1, <4>2 DEF NothingIsHalfForgotten
    <3>4. \A i \in Ids : row'[i].by = "forget" => revoked'[row'[i].agent]
      BY <2>3, <2>4, <2>5, <3>2, <3>3
    <3>5. \A a \in Agents : policy'[a] = "forgotten" => revoked'[a]
      BY <1>0, <2>1, <2>2, <3>1, <3>2 DEF TypeOK, NothingIsHalfForgotten
    <3> QED
      BY <3>4, <3>5 DEF NothingIsHalfForgotten
  <2> QED
    BY <2>6, <2>8, <2>9, <2>10, <2>11 DEF ForgetInvariant
<1> QED
  BY <1>1, <1>2, <1>3

LEMMA NextKeepsForget == ForgetInvariant /\ [Next]_vars => ForgetInvariant'
<1> SUFFICES ASSUME ForgetInvariant, [Next]_vars
             PROVE  ForgetInvariant'
  OBVIOUS
<1>1. ASSUME NEW w \in Workers, Step(w) PROVE ForgetInvariant'
  <2>1. \/ Moves(w)
        \/ Store(w) \/ RecordEvent(w) \/ WriteScore(w)
        \/ ForgetPolicies(w) \/ RevokeAgent(w)
    BY <1>1 DEF Step, Moves
  <2> QED
    BY <2>1, MovesKeepForget, RequestsKeepForget, ForgetKeepsForget
<1>2. ASSUME NEW w \in Workers, NEW a \in Agents,
             StoreWithVerification(w, a) \/ ReadScore(w, a) \/ ForgetMemories(w, a)
      PROVE  ForgetInvariant'
  BY <1>2, RequestsKeepForget, ForgetKeepsForget
<1>3. CASE Writers
  BY <1>3, WritersKeepForget
<1>4. ASSUME NEW a \in Agents, OverwriteScore(a) PROVE ForgetInvariant'
  BY <1>4, OverwritingKeepsForget
<1>5. CASE UNCHANGED vars
  BY <1>5 DEF ForgetInvariant, TypeOK, Owned, LocksAreSound, DeletionsAreSigned,
              NothingIsHalfForgotten, vars
<1> QED
  BY <1>1, <1>2, <1>3, <1>4, <1>5 DEF Next, Writers

LEMMA ForgetInvariantHolds == Spec => []ForgetInvariant
  BY InitSatisfiesForget, NextKeepsForget, PTL DEF Spec

\* Type correctness: above all, a score stays in 0..1000 although LogEvent adds to
\* a value it read earlier (reputation.go:79-86), and although Forget writes 0 in
\* between.
THEOREM MemoriesTypeCorrect == Spec => []TypeOK
<1>1. ForgetInvariant => TypeOK
  BY DEF ForgetInvariant
<1> QED
  BY <1>1, ForgetInvariantHolds, PTL

\* Forget is all or nothing (gdpr.go:22, 46), whatever writers and other Forgets
\* come in between its statements and whichever of these fails: a memory or a
\* policy is deleted by it only if the agent is revoked.
THEOREM ForgetIsAtomic == Spec => []NothingIsHalfForgotten
<1>1. ForgetInvariant => NothingIsHalfForgotten
  BY DEF ForgetInvariant
<1> QED
  BY <1>1, ForgetInvariantHolds, PTL

\* A step leaves a deleted row as it is.
LEMMA DeletedRowsStay ==
  ASSUME ForgetInvariant, [Next]_vars, NEW i \in Ids, row[i].state = "deleted"
  PROVE  row'[i] = row[i]
<1>0. row \in [Ids -> Row] /\ row[i].by # "none" /\ LocksAreSound
  BY DEF ForgetInvariant, TypeOK, DeletionsAreSigned
<1>1. CASE \E w \in Workers : Store(w)
  <2>1. PICK w \in Workers : Store(w)
    BY <1>1
  <2>2. \E j \in Fresh : \/ UNCHANGED row
                         \/ row' = [row EXCEPT ![j] = [NoRow EXCEPT !.state = "live", !.agent = tx[w].agent]]
    BY <2>1 DEF Store
  <2>3. i \notin Fresh
    BY DEF Fresh, NoRow
  <2> QED
    BY <1>0, <2>2, <2>3
<1>2. CASE \E w \in Workers : RevokeAgent(w)
  <2>1. PICK w \in Workers : RevokeAgent(w)
    BY <1>2
  <2>2. i \notin tx[w].rows
    BY <1>0 DEF LocksAreSound
  <2> QED
    BY <2>1, <2>2 DEF RevokeAgent
<1>3. ASSUME NEW w \in Workers,
             \/ Moves(w) \/ RecordEvent(w) \/ WriteScore(w) \/ ForgetPolicies(w)
             \/ \E a \in Agents :
                  StoreWithVerification(w, a) \/ ReadScore(w, a) \/ ForgetMemories(w, a)
      PROVE  row'[i] = row[i]
  BY <1>3, MovesMove DEF RecordEvent, ReadScore, WriteScore, ForgetPolicies,
                         StoreWithVerification, ForgetMemories, tables
<1>4. ASSUME NEW j \in Ids, NEW a \in Agents, Update(j, a) \/ UpdateWorking(j, a)
      PROVE  row'[i] = row[i]
  BY <1>0, <1>4 DEF Update, UpdateWorking, WriteRow
<1>5. ASSUME NEW j \in Ids, Rectify(j) \/ DeleteWorking(j) \/ CopyExpires(j)
      PROVE  row'[i] = row[i]
  BY <1>0, <1>5 DEF Rectify, DeleteWorking, CopyExpires, WriteRow
<1>6. ASSUME NEW j \in Ids, Delete(j) PROVE row'[i] = row[i]
  <2> DEFINE new == [row[j] EXCEPT !.state = "deleted",
                                   !.by = IF @ = "none" THEN "request" ELSE @]
  <2>1. row' = [row EXCEPT ![j] = new]
    BY <1>6 DEF Delete
  <2>2. j = i => new = row[i]
    BY <1>0 DEF Row
  <2> HIDE DEF new
  <2> QED
    BY <1>0, <2>1, <2>2
<1>7. CASE Expire \/ \E a \in Agents : SavePolicy(a) \/ OverwriteScore(a)
  BY <1>0, <1>7 DEF Expire, SavePolicy, OverwriteScore
<1>8. CASE UNCHANGED vars
  BY <1>8 DEF vars
<1> QED
  BY <1>1, <1>2, <1>3, <1>4, <1>5, <1>6, <1>7, <1>8 DEF Next, Step, Moves

\* A soft-deleted memory never comes back and is never rewritten, whichever of
\* Update, Rectify, Delete, Expire and Forget reach it in which order
\* (postgres_store.go:85 and 223, gdpr.go:29 and 87).
THEOREM DeletedRowsStayDeleted == Spec => DeletedStaysDeleted
<1>1. ForgetInvariant /\ [Next]_vars =>
        [\A i \in Ids : row[i].state = "deleted" => row'[i] = row[i]]_vars
  BY DeletedRowsStay
<1> QED
  BY <1>1, ForgetInvariantHolds, PTL DEF Spec, DeletedStaysDeleted

-----------------------------------------------------------------------------
(* What a forgotten agent can still do.  Its score starts from the 0 that   *)
(* Forget writes, unless it is rewritten.  So it never is more than what    *)
(* the agent has earned since, and neither is what a transaction has read   *)
(* of it, whichever increases are lost and whichever decreases come.        *)

ScoresAreEarned ==
  \A a \in Agents : a \notin rewritten =>
    /\ revoked[a] => score[a] =< earned[a]
    /\ \A w \in Workers : tx[w].pc = "pay" /\ tx[w].agent = a /\ tx[w].after =>
         tx[w].read =< earned[a]

\* A request that was late began after the revocation, and got past the gate with
\* what was earned.
LateRequestsAreSound ==
  /\ \A w \in Workers : tx[w].late => revoked[tx[w].agent]
  /\ LateStoresAreEarned

EarningsInvariant == ForgetInvariant /\ ScoresAreEarned /\ LateRequestsAreSound

LEMMA InitSatisfiesEarnings == Init => EarningsInvariant
<1>1. Init => ScoresAreEarned /\ LateRequestsAreSound
  BY DEF Init, ScoresAreEarned, LateRequestsAreSound, LateStoresAreEarned, Idle
<1> QED
  BY <1>1, InitSatisfiesForget DEF EarningsInvariant

LEMMA Amounts ==
  ASSUME ForgetInvariant
  PROVE  /\ \A a \in Agents : score[a] \in Nat /\ earned[a] \in Nat
         /\ \A w \in Workers : tx[w].read \in Nat /\ tx[w].change \in Int
<1>1. Scores \subseteq Nat
  BY DEF Scores
<1>2. \A a \in Agents : score[a] \in Scores /\ earned[a] \in Nat
  BY DEF ForgetInvariant, TypeOK
<1>3. \A w \in Workers : tx[w].read \in Scores /\ tx[w].change \in Int
  BY DEF ForgetInvariant, TypeOK, Request
<1> QED
  BY <1>1, <1>2, <1>3

\* A step of a request that writes no score: what it reads it reads now, and where
\* it gets with the score it gets with the present one.
LEMMA QuietStepsKeepEarnings ==
  ASSUME EarningsInvariant, NEW w \in Workers,
         UNCHANGED <<revoked, score, earned, rewritten>>,
         \A v \in Workers \ {w} : tx'[v] = tx[v],
         tx'[w].pc = "pay" =>
           tx'[w].read = score[tx'[w].agent] /\ tx'[w].after = revoked[tx'[w].agent],
         tx'[w].late => revoked[tx'[w].agent],
         tx'[w].pc = "store" /\ tx'[w].late /\ TrustWired =>
           tx'[w].agent \in Agents /\ score[tx'[w].agent] >= MinReputation
  PROVE  ScoresAreEarned' /\ LateRequestsAreSound'
<1>1. ScoresAreEarned /\ LateRequestsAreSound /\ LateStoresAreEarned
  BY DEF EarningsInvariant, LateRequestsAreSound
<1>2. ASSUME NEW a \in Agents, a \notin rewritten
      PROVE  /\ revoked[a] => score[a] =< earned[a]
             /\ \A v \in Workers : tx'[v].pc = "pay" /\ tx'[v].agent = a /\ tx'[v].after =>
                  tx'[v].read =< earned[a]
  <2>1. revoked[a] => score[a] =< earned[a]
    BY <1>1, <1>2 DEF ScoresAreEarned
  <2>2. ASSUME NEW v \in Workers, tx'[v].pc = "pay", tx'[v].agent = a, tx'[v].after
        PROVE  tx'[v].read =< earned[a]
    <3>1. CASE v = w
      BY <2>1, <2>2, <3>1
    <3>2. CASE v # w
      <4>1. tx'[v] = tx[v]
        BY <3>2
      <4> QED
        BY <1>1, <1>2, <2>2, <4>1 DEF ScoresAreEarned
    <3> QED
      BY <3>1, <3>2
  <2> QED
    BY <2>1, <2>2
<1>3. \A v \in Workers : tx'[v].late => revoked[tx'[v].agent]
  BY <1>1 DEF LateRequestsAreSound
<1>4. ASSUME TrustWired, NEW v \in Workers, tx'[v].late, tx'[v].pc = "store",
             tx'[v].agent \notin rewritten
      PROVE  earned[tx'[v].agent] >= MinReputation
  <2>1. CASE v = w
    <3> DEFINE a == tx'[w].agent
    <3>1. a \in Agents /\ a \notin rewritten /\ revoked[a] /\ score[a] >= MinReputation
      BY <1>4, <2>1
    <3>2. score[a] =< earned[a] /\ score[a] \in Nat /\ earned[a] \in Nat
      BY <1>2, <3>1, Amounts DEF EarningsInvariant
    <3>3. earned[a] >= MinReputation
      BY <3>1, <3>2 DEF MinReputation
    <3> QED
      BY <2>1, <3>3
  <2>2. CASE v # w
    <3>1. tx'[v] = tx[v]
      BY <2>2
    <3> QED
      BY <1>1, <1>4, <3>1 DEF LateStoresAreEarned
  <2> QED
    BY <2>1, <2>2
<1>5. ScoresAreEarned'
  BY <1>2 DEF ScoresAreEarned
<1>6. LateRequestsAreSound'
  BY <1>3, <1>4 DEF LateRequestsAreSound, LateStoresAreEarned
<1> QED
  BY <1>5, <1>6

LEMMA RequestsKeepEarnings ==
  ASSUME EarningsInvariant, NEW w \in Workers,
         \/ Moves(w) \/ RecordEvent(w) \/ ForgetPolicies(w) \/ Store(w)
         \/ \E a \in Agents :
              StoreWithVerification(w, a) \/ ReadScore(w, a) \/ ForgetMemories(w, a)
  PROVE  ScoresAreEarned' /\ LateRequestsAreSound'
<1>0. /\ TypeOK /\ tx \in [Workers -> Request] /\ tx[w] \in Request
      /\ tx[w].late => revoked[tx[w].agent]
  BY DEF EarningsInvariant, ForgetInvariant, TypeOK, LateRequestsAreSound
<1> DEFINE Goal == ScoresAreEarned' /\ LateRequestsAreSound'
<1>a. ASSUME NEW q, tx' = [tx EXCEPT ![w] = q],
             UNCHANGED <<revoked, score, earned, rewritten>>, q.pc \notin {"pay", "store"},
             q.late => revoked[q.agent]
      PROVE  Goal
  <2>1. tx'[w] = q /\ \A v \in Workers \ {w} : tx'[v] = tx[v]
    BY <1>0, <1>a
  <2> QED
    BY <1>a, <2>1, QuietStepsKeepEarnings
<1>b. ASSUME tx' = [tx EXCEPT ![w] = Idle], UNCHANGED <<revoked, score, earned, rewritten>>
      PROVE  Goal
  <2>1. Idle.pc = "idle" /\ Idle.late = FALSE
    BY DEF Idle
  <2> QED
    BY <1>a, <1>b, <2>1
<1>c. ASSUME NEW pc \in {"verify", "gate", "record"},
             tx' = [tx EXCEPT ![w] = [tx[w] EXCEPT !.pc = pc]],
             UNCHANGED <<revoked, score, earned, rewritten>>
      PROVE  Goal
  <2> DEFINE q == [tx[w] EXCEPT !.pc = pc]
  <2>1. q.pc = pc /\ q.late = tx[w].late /\ q.agent = tx[w].agent
    BY <1>0 DEF Request
  <2> HIDE DEF q
  <2>2. tx' = [tx EXCEPT ![w] = q]
    BY <1>c DEF q
  <2> QED
    BY <1>0, <1>a, <1>c, <2>1, <2>2
<1>d. ASSUME NEW t \in Request, NEW a \in Agents, NEW c \in Int,
             tx' = [tx EXCEPT ![w] = Reading(t, a, c)],
             UNCHANGED <<revoked, score, earned, rewritten>>, t.late => revoked[a]
      PROVE  Goal
  <2>1. tx'[w] = Reading(t, a, c) /\ \A v \in Workers \ {w} : tx'[v] = tx[v]
    BY <1>0, <1>d
  <2>2. /\ tx'[w].pc = "pay" /\ tx'[w].agent = a /\ tx'[w].read = score[a]
        /\ tx'[w].after = revoked[a] /\ tx'[w].late = t.late
    BY <1>0, <2>1, ReadPlace
  <2> QED
    BY <1>d, <2>1, <2>2, QuietStepsKeepEarnings
<1>1. CASE CheckReputation(w)
  <2>1. CASE score[tx[w].agent] < MinReputation
    BY <1>1, <1>b, <2>1 DEF CheckReputation, Finish, tables
  <2>2. CASE ~(score[tx[w].agent] < MinReputation)
    <3> DEFINE q == [tx[w] EXCEPT !.pc = "store"]
    <3>1. q.pc = "store" /\ q.late = tx[w].late /\ q.agent = tx[w].agent
      BY <1>0 DEF Request
    <3>2. tx' = [tx EXCEPT ![w] = q] /\ UNCHANGED <<revoked, score, earned, rewritten>>
      BY <1>1, <2>2 DEF CheckReputation, Goto, tables
    <3>3. tx[w].agent \in Agents
      BY <1>1 DEF CheckReputation, EarningsInvariant, ForgetInvariant, Owned
    <3>4. score[tx[w].agent] >= MinReputation
      BY <2>2, <3>3, Amounts DEF EarningsInvariant, MinReputation
    <3> HIDE DEF q
    <3>5. tx'[w] = q /\ \A v \in Workers \ {w} : tx'[v] = tx[v]
      BY <1>0, <3>2
    <3> QED
      BY <1>0, <3>1, <3>2, <3>3, <3>4, <3>5, QuietStepsKeepEarnings
  <2> QED
    BY <2>1, <2>2
<1>2. CASE CheckActive(w)
  BY <1>2, <1>c DEF CheckActive, Goto, tables
<1>3. CASE VerifySignature(w)
  BY <1>3, <1>b, <1>c DEF VerifySignature, Goto, Finish, tables
<1>4. CASE StoreFails(w) \/ RecordFails(w) \/ RollBack(w)
  BY <1>4, <1>b DEF StoreFails, RecordFails, RollBack, Finish, tables
<1>5. CASE Store(w)
  BY <1>5, <1>b, <1>c DEF Store, Goto, Finish
<1>6. CASE RecordEvent(w)
  <2>1. tx[w].agent \in Agents /\ StoreBonus \in Int
    BY <1>6 DEF RecordEvent, EarningsInvariant, ForgetInvariant, Owned, StoreBonus
  <2>2. tx' = [tx EXCEPT ![w] = Reading(tx[w], tx[w].agent, StoreBonus)] /\ UNCHANGED tables
    BY <1>6 DEF RecordEvent
  <2> QED
    BY <1>0, <1>d, <2>1, <2>2 DEF tables
<1>7. ASSUME NEW a \in Agents, ReadScore(w, a) PROVE Goal
  <2>1. PICK c \in Changes : tx' = [tx EXCEPT ![w] = Reading(Idle, a, c)]
    BY <1>7 DEF ReadScore
  <2>2. c \in Int /\ Idle.late = FALSE /\ UNCHANGED tables
    BY <1>7, MemoriesAssumption DEF ReadScore, Idle
  <2> QED
    BY <1>d, <2>1, <2>2, IdleIsARequest DEF tables
<1>8. CASE ForgetPolicies(w)
  <2> DEFINE q == [tx[w] EXCEPT !.pc = "revoke", !.drops = policy[tx[w].agent] = "saved"]
  <2>1. tx' = [tx EXCEPT ![w] = q] /\ UNCHANGED tables
    BY <1>8 DEF ForgetPolicies
  <2>2. q.pc = "revoke" /\ q.late = tx[w].late /\ q.agent = tx[w].agent
    BY <1>0 DEF Request
  <2> HIDE DEF q
  <2> QED
    BY <1>0, <1>a, <2>1, <2>2 DEF tables
<1>9. ASSUME NEW a \in Agents, ForgetMemories(w, a) PROVE Goal
  <2> DEFINE q == [Idle EXCEPT !.pc = "policies", !.agent = a, !.rows = LiveRowsOf(a)]
  <2>1. tx' = [tx EXCEPT ![w] = q] /\ UNCHANGED tables
    BY <1>9 DEF ForgetMemories
  <2>2. q.pc = "policies" /\ q.late = FALSE
    BY DEF Idle
  <2> HIDE DEF q
  <2> QED
    BY <1>a, <2>1, <2>2 DEF tables
<1>10. ASSUME NEW a \in Agents, StoreWithVerification(w, a) PROVE Goal
  <2>1. PICK working \in BOOLEAN, signed \in BOOLEAN :
          tx' = [tx EXCEPT ![w] = FirstOf(IF TrustWired THEN "active" ELSE "store",
                                          a, working, signed, revoked[a])]
    BY <1>10 DEF StoreWithVerification, FirstOf
  <2> DEFINE pc == IF TrustWired THEN "active" ELSE "store"
             q == FirstOf(pc, a, working, signed, revoked[a])
  <2>2. q.pc = pc /\ q.agent = a /\ q.late = revoked[a]
    BY DEF FirstOf, Idle
  <2>3. tx' = [tx EXCEPT ![w] = q] /\ UNCHANGED <<revoked, score, earned, rewritten>>
    BY <1>10, <2>1 DEF StoreWithVerification, tables
  <2> HIDE DEF q
  <2>4. tx'[w] = q /\ \A v \in Workers \ {w} : tx'[v] = tx[v]
    BY <1>0, <2>3
  <2>5. tx'[w].pc # "pay" /\ (tx'[w].pc = "store" => ~TrustWired)
    BY <2>2, <2>4
  <2>6. tx'[w].late => revoked[tx'[w].agent]
    BY <2>2, <2>4
  <2> QED
    BY <2>3, <2>4, <2>5, <2>6, QuietStepsKeepEarnings
<1> QED
  BY <1>1, <1>2, <1>3, <1>4, <1>5, <1>6, <1>7, <1>8, <1>9, <1>10 DEF Moves

\* A change written: it adds to what was read at most what it adds to the earnings.
LEMMA WritingKeepsEarnings ==
  ASSUME EarningsInvariant, NEW w \in Workers, WriteScore(w)
  PROVE  ScoresAreEarned' /\ LateRequestsAreSound'
<1> DEFINE b == tx[w].agent
           m == tx[w].read
           c == tx[w].change
<1>0. /\ tx \in [Workers -> Request] /\ score \in [Agents -> Scores] /\ b \in Agents
      /\ earned \in [Agents -> Nat] /\ m \in Nat /\ c \in Int
      /\ ScoresAreEarned /\ LateRequestsAreSound /\ LateStoresAreEarned
  BY Amounts DEF EarningsInvariant, ForgetInvariant, TypeOK, Owned, WriteScore,
                 LateRequestsAreSound
<1>1. /\ tx[w].pc = "pay" /\ UNCHANGED revoked
      /\ score' = [score EXCEPT ![b] = Clamp(m + c)]
      /\ earned' = IF revoked[b] /\ c > 0 THEN [earned EXCEPT ![b] = @ + c] ELSE earned
      /\ rewritten' = IF revoked[b] /\ ~tx[w].after THEN rewritten \cup {b} ELSE rewritten
      /\ tx' = [tx EXCEPT ![w] = Idle]
  BY DEF WriteScore, NoteChange, Finish
<1>2. \A v \in Workers \ {w} : tx'[v] = tx[v]
  BY <1>0, <1>1
<1>3. tx'[w].pc = "idle" /\ tx'[w].late = FALSE
  BY <1>0, <1>1 DEF Idle
<1>4. /\ rewritten \subseteq rewritten'
      /\ \A a \in Agents : earned[a] \in Nat /\ earned'[a] \in Nat /\ earned[a] =< earned'[a]
  BY <1>0, <1>1
<1> HIDE DEF b, m, c
<1>5. ASSUME NEW a \in Agents, a \notin rewritten', revoked[a]
      PROVE  score'[a] =< earned'[a]
  <2>1. CASE a = b
    <3>1. tx[w].after /\ b \notin rewritten
      BY <1>1, <1>5, <2>1
    <3>2. m =< earned[b]
      BY <1>0, <1>1, <3>1 DEF ScoresAreEarned, b, m
    <3>3. earned'[b] = IF c > 0 THEN earned[b] + c ELSE earned[b]
      BY <1>0, <1>1, <1>5, <2>1
    <3>4. score'[b] = Clamp(m + c)
      BY <1>0, <1>1
    <3>5. earned[b] \in Nat
      BY <1>0
    <3>6. Clamp(m + c) =< earned'[b]
      BY <1>0, <3>2, <3>3, <3>5 DEF Clamp
    <3> QED
      BY <2>1, <3>4, <3>6
  <2>2. CASE a # b
    <3>1. score'[a] = score[a] /\ earned'[a] = earned[a]
      BY <1>0, <1>1, <2>2
    <3> QED
      BY <1>0, <1>4, <1>5, <3>1 DEF ScoresAreEarned
  <2> QED
    BY <2>1, <2>2
<1>6. ASSUME NEW a \in Agents, a \notin rewritten', NEW v \in Workers,
             tx'[v].pc = "pay", tx'[v].agent = a, tx'[v].after
      PROVE  tx'[v].read =< earned'[a]
  <2>1. tx'[v] = tx[v]
    BY <1>2, <1>3, <1>6
  <2>2. tx[v].read =< earned[a] /\ tx[v].read \in Nat
    BY <1>0, <1>4, <1>6, <2>1, Amounts DEF ScoresAreEarned, EarningsInvariant
  <2> QED
    BY <1>4, <2>1, <2>2
<1>7. ScoresAreEarned'
  BY <1>1, <1>5, <1>6 DEF ScoresAreEarned
<1>8. ASSUME TrustWired, NEW v \in Workers, tx'[v].late, tx'[v].pc = "store"
      PROVE  tx'[v].agent \in rewritten' \/ earned'[tx'[v].agent] >= MinReputation
  <2>1. tx'[v] = tx[v]
    BY <1>2, <1>3, <1>8
  <2>2. tx[v].agent \in Agents
    BY <1>8, <2>1 DEF EarningsInvariant, ForgetInvariant, Owned
  <2>3. tx[v].agent \in rewritten \/ earned[tx[v].agent] >= MinReputation
    BY <1>0, <1>8, <2>1 DEF LateStoresAreEarned
  <2>4. earned[tx[v].agent] >= MinReputation => earned'[tx[v].agent] >= MinReputation
    BY <1>4, <2>2 DEF MinReputation
  <2> QED
    BY <1>4, <2>1, <2>3, <2>4
<1>9. \A v \in Workers : tx'[v].late => revoked[tx'[v].agent]
  BY <1>0, <1>2, <1>3 DEF LateRequestsAreSound
<1> QED
  BY <1>1, <1>7, <1>8, <1>9 DEF LateRequestsAreSound, LateStoresAreEarned

\* The commit of Forget writes 0.
LEMMA RevokingKeepsEarnings ==
  ASSUME EarningsInvariant, NEW w \in Workers, RevokeAgent(w)
  PROVE  ScoresAreEarned' /\ LateRequestsAreSound'
<1> DEFINE b == tx[w].agent
<1>0. /\ tx \in [Workers -> Request] /\ score \in [Agents -> Scores] /\ b \in Agents
      /\ earned \in [Agents -> Nat] /\ revoked \in [Agents -> BOOLEAN]
      /\ ScoresAreEarned /\ LateRequestsAreSound /\ LateStoresAreEarned
  BY DEF EarningsInvariant, ForgetInvariant, TypeOK, Owned, RevokeAgent, LateRequestsAreSound
<1>1. /\ tx[w].pc = "revoke" /\ UNCHANGED <<earned, rewritten>>
      /\ revoked' = [revoked EXCEPT ![b] = TRUE]
      /\ score' = [score EXCEPT ![b] = 0]
      /\ tx' = [tx EXCEPT ![w] = Idle]
  BY DEF RevokeAgent, Finish
<1>2. \A v \in Workers \ {w} : tx'[v] = tx[v]
  BY <1>0, <1>1
<1>3. tx'[w].pc = "idle" /\ tx'[w].late = FALSE
  BY <1>0, <1>1 DEF Idle
<1> HIDE DEF b
<1>4. ASSUME NEW a \in Agents, a \notin rewritten, revoked'[a]
      PROVE  score'[a] =< earned[a]
  <2>1. CASE a = b
    BY <1>0, <1>1, <2>1
  <2>2. CASE a # b
    BY <1>0, <1>1, <1>4, <2>2 DEF ScoresAreEarned
  <2> QED
    BY <2>1, <2>2
<1>5. ASSUME NEW a \in Agents, a \notin rewritten, NEW v \in Workers,
             tx'[v].pc = "pay", tx'[v].agent = a, tx'[v].after
      PROVE  tx'[v].read =< earned[a]
  <2>1. tx'[v] = tx[v]
    BY <1>2, <1>3, <1>5
  <2> QED
    BY <1>0, <1>5, <2>1 DEF ScoresAreEarned
<1>6. ScoresAreEarned'
  BY <1>1, <1>4, <1>5 DEF ScoresAreEarned
<1>7. ASSUME TrustWired, NEW v \in Workers, tx'[v].late, tx'[v].pc = "store"
      PROVE  tx'[v].agent \in rewritten \/ earned[tx'[v].agent] >= MinReputation
  <2>1. tx'[v] = tx[v]
    BY <1>2, <1>3, <1>7
  <2> QED
    BY <1>0, <1>7, <2>1 DEF LateStoresAreEarned
<1>8. ASSUME NEW v \in Workers, tx'[v].late
      PROVE  revoked'[tx'[v].agent]
  <2>1. tx'[v] = tx[v]
    BY <1>2, <1>3, <1>8
  <2>2. revoked[tx[v].agent]
    BY <1>0, <1>8, <2>1 DEF LateRequestsAreSound
  <2> QED
    BY <1>0, <1>1, <2>1, <2>2
<1> QED
  BY <1>1, <1>6, <1>7, <1>8 DEF LateRequestsAreSound, LateStoresAreEarned

LEMMA OverwritingKeepsEarnings ==
  ASSUME EarningsInvariant, NEW a \in Agents, OverwriteScore(a)
  PROVE  ScoresAreEarned' /\ LateRequestsAreSound'
<1>1. /\ score \in [Agents -> Scores] /\ UNCHANGED <<revoked, tx, earned>>
      /\ rewritten' = rewritten \cup {a}
      /\ \E n : score' = [score EXCEPT ![a] = n]
  BY DEF OverwriteScore, EarningsInvariant, ForgetInvariant, TypeOK
<1>2. \A b \in Agents \ {a} : score'[b] = score[b]
  BY <1>1
<1>3. ScoresAreEarned'
  BY <1>1, <1>2 DEF ScoresAreEarned, EarningsInvariant
<1>4. LateRequestsAreSound'
  BY <1>1 DEF EarningsInvariant, LateRequestsAreSound, LateStoresAreEarned
<1> QED
  BY <1>3, <1>4

LEMMA NextKeepsEarnings == EarningsInvariant /\ [Next]_vars => EarningsInvariant'
<1> SUFFICES ASSUME EarningsInvariant, [Next]_vars
             PROVE  EarningsInvariant'
  OBVIOUS
<1>1. ForgetInvariant'
  BY NextKeepsForget DEF EarningsInvariant
<1>2. ASSUME NEW w \in Workers, Step(w) PROVE ScoresAreEarned' /\ LateRequestsAreSound'
  <2>1. \/ Moves(w) \/ RecordEvent(w) \/ ForgetPolicies(w)
        \/ Store(w) \/ WriteScore(w) \/ RevokeAgent(w)
    BY <1>2 DEF Step, Moves
  <2> QED
    BY <2>1, RequestsKeepEarnings, WritingKeepsEarnings, RevokingKeepsEarnings
<1>3. ASSUME NEW w \in Workers, NEW a \in Agents,
             StoreWithVerification(w, a) \/ ReadScore(w, a) \/ ForgetMemories(w, a)
      PROVE  ScoresAreEarned' /\ LateRequestsAreSound'
  BY <1>3, RequestsKeepEarnings
<1>4. CASE Writers \/ UNCHANGED vars
  <2>1. UNCHANGED <<revoked, score, tx, earned, rewritten>>
    BY <1>4 DEF Writers, Update, UpdateWorking, Rectify, Delete, DeleteWorking, CopyExpires,
                Expire, SavePolicy, vars
  <2> QED
    BY <1>1, <2>1 DEF EarningsInvariant, ScoresAreEarned, LateRequestsAreSound,
                      LateStoresAreEarned
<1>5. ASSUME NEW a \in Agents, OverwriteScore(a)
      PROVE  ScoresAreEarned' /\ LateRequestsAreSound'
  BY <1>5, OverwritingKeepsEarnings
<1> QED
  BY <1>1, <1>2, <1>3, <1>4, <1>5 DEF Next, Writers, EarningsInvariant

\* The reputation of 0 keeps a forgotten agent from storing (router.go:61) until it
\* has earned what it takes: a request that began after the revocation gets past
\* the gate only when the changes committed for the agent since then make up 100,
\* or its score was rewritten.
THEOREM LateStoresHaveBeenEarned == Spec => []LateStoresAreEarned
<1>1. EarningsInvariant => LateStoresAreEarned
  BY DEF EarningsInvariant, LateRequestsAreSound
<1> QED
  BY <1>1, InitSatisfiesEarnings, NextKeepsEarnings, PTL DEF Spec
=============================================================================
