--------------------------- MODULE WorkingMemory ---------------------------
(***************************************************************************)
(* Working memories in Valkey (memory/valkey_store.go).  A memory is three *)
(* entries written by separate commands: the data under a key made of its  *)
(* namespace, its agent and its id; an index entry that leads from the id  *)
(* to that key; and a member of the "latest" sorted set of the namespace   *)
(* and agent.  The data and the index expire, each on its own clock; the   *)
(* sorted set does not.                                                    *)
(*                                                                         *)
(* Every command is atomic; between two of them other requests run, time   *)
(* passes, and a command may fail, which ends the operation where it is.   *)
(* A place is a (namespace, agent) pair.                                   *)
(***************************************************************************)
EXTENDS Integers, FiniteSets

CONSTANTS
  Ids,        \* memory ids
  Places,     \* (namespace, agent) pairs
  Workers,    \* the request goroutines
  Lives,      \* the lifetimes asked for, in ticks; one =< 0 is already over
  LatestCap,  \* members the trim leaves (1000)
  MaxOps,     \* bound: operations taken in all
  MaxFaults,  \* bound: commands that fail
  None

ASSUME WorkingMemoryAssumption ==
  /\ Lives \subseteq Int
  /\ LatestCap \in Nat \ {0}
  /\ MaxOps \in Nat /\ MaxFaults \in Nat
  /\ None \notin Places

VARIABLES
  data,    \* by place and id: [version, ttl], or Absent
  index,   \* by id: [place, ttl], or NoIndex
  latest,  \* by place: the sorted set, as [id, at] pairs
  op,      \* what each worker is in the middle of
  clock,   \* how many operations have begun: the CreatedAt of the next memory
  faults,  \* how many commands have failed
  untrimmed, \* history: trims that failed, by place
  settled, \* history: by id, the version of the last Store no other overlapped
  gone,    \* history: the ids whose last operation was a successful Delete
  homes    \* history: by id, the places it was ever stored at

vars == <<data, index, latest, op, clock, faults, untrimmed, settled, gone, homes>>
keys == <<data, index, latest, untrimmed, settled, gone, homes>>

Absent == [version |-> 0, ttl |-> 0]
NoIndex == [place |-> None, ttl |-> 0]

\* "alone" is a history field: no other writer of the same id has been active
\* since this one began.
Idle == [pc |-> "idle", id |-> None, place |-> None, ttl |-> 0, version |-> 0,
         alone |-> TRUE]

Init ==
  /\ data = [p \in Places |-> [i \in Ids |-> Absent]]
  /\ index = [i \in Ids |-> NoIndex]
  /\ latest = [p \in Places |-> {}]
  /\ op = [w \in Workers |-> Idle]
  /\ clock = 0
  /\ faults = 0
  /\ untrimmed = [p \in Places |-> 0]
  /\ settled = [i \in Ids |-> 0]
  /\ gone = {}
  /\ homes = [i \in Ids |-> {}]

Goto(w, pc) == op' = [op EXCEPT ![w].pc = pc]
Finish(w) == op' = [op EXCEPT ![w] = Idle]

\* An operation begins: from now on no writer of its id is alone, unless it is
\* the only one.
Begin(w, o) ==
  LET others == {u \in Workers : op[u] # Idle /\ op[u].id = o.id} IN
  /\ op[w] = Idle
  /\ clock < MaxOps
  /\ clock' = clock + 1
  /\ op' = [u \in Workers |->
       IF u = w THEN [o EXCEPT !.alone = others = {}]
       ELSE IF u \in others THEN [op[u] EXCEPT !.alone = FALSE]
       ELSE op[u]]
  /\ settled' = [settled EXCEPT ![o.id] = 0]
  /\ gone' = gone \ {o.id}
  /\ UNCHANGED <<data, index, latest, faults, untrimmed>>

-----------------------------------------------------------------------------
(* Store, and Update, which is Store.                                      *)

Store(w, i, p, life) ==
  /\ Begin(w, [Idle EXCEPT !.pc = "set", !.id = i, !.place = p, !.ttl = life,
                           !.version = clock + 1])
  /\ homes' = [homes EXCEPT ![i] = @ \cup {p}]

\* A lifetime that is over: SET ... EX refuses it before anything is written.
SetRefused(w) ==
  /\ op[w].pc = "set"
  /\ op[w].ttl =< 0
  /\ Finish(w)
  /\ UNCHANGED <<keys, clock, faults>>

\* Faulty variant: the lifetime is not looked at.
SetDataAnyLife(w) ==
  LET o == op[w] IN
  /\ o.pc = "set"
  /\ data' = [data EXCEPT ![o.place][o.id] = [version |-> o.version, ttl |-> o.ttl]]
  /\ Goto(w, "index")
  /\ UNCHANGED <<index, latest, clock, faults, untrimmed, settled, gone, homes>>

SetData(w) ==
  LET o == op[w] IN
  /\ o.pc = "set" /\ o.ttl > 0
  /\ data' = [data EXCEPT ![o.place][o.id] = [version |-> o.version, ttl |-> o.ttl]]
  /\ Goto(w, "index")
  /\ UNCHANGED <<index, latest, clock, faults, untrimmed, settled, gone, homes>>

\* Faulty variant: the index gets what is left of the entry's old life.
SetIndexKeepTTL(w) ==
  LET o == op[w] IN
  /\ o.pc = "index"
  /\ index' = [index EXCEPT ![o.id] =
       [place |-> o.place, ttl |-> IF @ = NoIndex THEN o.ttl ELSE @.ttl]]
  /\ Goto(w, "latest")
  /\ UNCHANGED <<data, latest, clock, faults, untrimmed, settled, gone, homes>>

SetIndex(w) ==
  LET o == op[w] IN
  /\ o.pc = "index"
  /\ index' = [index EXCEPT ![o.id] = [place |-> o.place, ttl |-> o.ttl]]
  /\ Goto(w, "latest")
  /\ UNCHANGED <<data, latest, clock, faults, untrimmed, settled, gone, homes>>

\* ZADD: the member's score is the CreatedAt of the memory, here the moment its Store
\* began.  (The code has it in whole seconds, so that scores may tie, and an Update
\* keeps it; ZREMRANGEBYRANK counts members, which ties and old scores do not change.)
AddLatest(w) ==
  LET o == op[w] IN
  /\ o.pc = "latest"
  /\ latest' = [latest EXCEPT ![o.place] =
       {e \in @ : e.id # o.id} \cup {[id |-> o.id, at |-> o.version]}]
  /\ Goto(w, "trim")
  /\ UNCHANGED <<data, index, clock, faults, untrimmed, settled, gone, homes>>

\* The members ZREMRANGEBYRANK 0 -(n + 1) leaves: the n with the highest scores.
Newest(set, n) == {e \in set : Cardinality({f \in set : f.at > e.at}) < n}

Settle(w) ==
  settled' = [settled EXCEPT ![op[w].id] = IF op[w].alone THEN op[w].version ELSE 0]

\* Faulty variant: the ranks leave one member too many.
TrimLatestLoose(w) ==
  LET p == op[w].place IN
  /\ op[w].pc = "trim"
  /\ latest' = [latest EXCEPT ![p] = Newest(@, LatestCap + 1)]
  /\ untrimmed' = [untrimmed EXCEPT ![p] = 0]
  /\ Settle(w)
  /\ Finish(w)
  /\ UNCHANGED <<data, index, clock, faults, gone, homes>>

TrimLatest(w) ==
  LET p == op[w].place IN
  /\ op[w].pc = "trim"
  /\ latest' = [latest EXCEPT ![p] = Newest(@, LatestCap)]
  /\ untrimmed' = [untrimmed EXCEPT ![p] = 0]
  /\ Settle(w)
  /\ Finish(w)
  /\ UNCHANGED <<data, index, clock, faults, gone, homes>>

\* The trim is best effort: its error is ignored.  Or the answer of ZADD was
\* lost, and the Store ends with an error before it trims.
TrimFails(w) ==
  /\ op[w].pc = "trim"
  /\ faults < MaxFaults
  /\ faults' = faults + 1
  /\ untrimmed' = [untrimmed EXCEPT ![op[w].place] = @ + 1]
  /\ Settle(w) \/ UNCHANGED settled
  /\ Finish(w)
  /\ UNCHANGED <<data, index, latest, clock, gone, homes>>

-----------------------------------------------------------------------------
(* Delete.                                                                 *)

Delete(w, i) ==
  /\ Begin(w, [Idle EXCEPT !.pc = "get", !.id = i])
  /\ UNCHANGED homes

GetIndex(w) ==
  LET o == op[w] IN
  /\ o.pc = "get"
  /\ IF index[o.id] = NoIndex
     THEN Finish(w)   \* "memory not found"
     ELSE op' = [op EXCEPT ![w].pc = "unindex", ![w].place = index[o.id].place]
  /\ UNCHANGED <<keys, clock, faults>>

DeleteIndex(w) ==
  /\ op[w].pc = "unindex"
  /\ index' = [index EXCEPT ![op[w].id] = NoIndex]
  /\ Goto(w, "unset")
  /\ UNCHANGED <<data, latest, clock, faults, untrimmed, settled, gone, homes>>

\* Faulty variant: the data is left to its TTL.
DeleteDataLater(w) ==
  /\ op[w].pc = "unset"
  /\ gone' = IF op[w].alone THEN gone \cup {op[w].id} ELSE gone
  /\ Finish(w)
  /\ UNCHANGED <<data, index, latest, clock, faults, untrimmed, settled, homes>>

\* DEL of the key the index led to; the member of the sorted set stays.
DeleteData(w) ==
  LET o == op[w] IN
  /\ o.pc = "unset"
  /\ data' = [data EXCEPT ![o.place][o.id] = Absent]
  /\ gone' = IF o.alone THEN gone \cup {o.id} ELSE gone
  /\ Finish(w)
  /\ UNCHANGED <<index, latest, clock, faults, untrimmed, settled, homes>>

\* A command fails, or its answer is lost, or the process dies: the operation
\* ends where it is, and nothing is undone.
CommandFails(w) ==
  /\ op[w].pc \in {"set", "index", "latest", "get", "unindex", "unset"}
  /\ faults < MaxFaults
  /\ faults' = faults + 1
  /\ Finish(w)
  /\ UNCHANGED <<keys, clock>>

-----------------------------------------------------------------------------
(* Time.                                                                   *)

Aged(e, dead) ==
  IF e.ttl =< 1 THEN dead ELSE [e EXCEPT !.ttl = @ - 1]

Empty == (\A p \in Places, i \in Ids : data[p][i] = Absent) /\ \A i \in Ids : index[i] = NoIndex

Tick ==
  /\ ~Empty
  /\ data' = [p \in Places |-> [i \in Ids |-> Aged(data[p][i], Absent)]]
  /\ index' = [i \in Ids |-> Aged(index[i], NoIndex)]
  /\ UNCHANGED <<latest, op, clock, faults, untrimmed, settled, gone, homes>>

-----------------------------------------------------------------------------

Step(w) ==
  SetRefused(w) \/ SetData(w) \/ SetIndex(w) \/ AddLatest(w) \/ TrimLatest(w) \/ TrimFails(w)
    \/ GetIndex(w) \/ DeleteIndex(w) \/ DeleteData(w) \/ CommandFails(w)

Next ==
  \/ \E w \in Workers :
       \/ Step(w)
       \/ \E i \in Ids : Delete(w, i) \/ \E p \in Places, life \in Lives : Store(w, i, p, life)
  \/ Tick

Spec == Init /\ [][Next]_vars

-----------------------------------------------------------------------------
(* Properties.                                                             *)

\* The moments a memory may be created at, and the time one may have left.
Versions == 1..MaxOps
TimeLeft == UNION {1..life : life \in Lives}

Copies == {Absent} \cup [version : Versions, ttl : TimeLeft]
Pointers == {NoIndex} \cup [place : Places, ttl : TimeLeft]
Operations ==
  [pc : {"idle", "set", "index", "latest", "trim", "get", "unindex", "unset"},
   id : Ids \cup {None}, place : Places \cup {None}, ttl : Lives \cup {0},
   version : Versions \cup {0}, alone : BOOLEAN]

\* Type invariant.  An entry that exists has time to live: a lifetime that is over
\* is refused before anything is written (valkey_store.go:54-62).
TypeOK ==
  /\ data \in [Places -> [Ids -> Copies]]
  /\ index \in [Ids -> Pointers]
  /\ latest \in [Places -> SUBSET [id : Ids, at : Versions]]
  /\ op \in [Workers -> Operations]
  /\ clock \in 0..MaxOps /\ faults \in 0..MaxFaults
  /\ untrimmed \in [Places -> Nat]
  /\ settled \in [Ids -> Versions \cup {0}]
  /\ gone \subseteq Ids
  /\ homes \in [Ids -> SUBSET Places]

\* Retrieve: GET of the index, then GET of the key it holds; 0 when not found.
Retrieved(i) == IF index[i] = NoIndex THEN 0 ELSE data[index[i].place][i].version

\* What was stored last can be retrieved for as long as its data lives, and
\* nothing older ever is: the data is SET before the index, so the index outlives
\* it (valkey_store.go:59-66), whatever failed or moved the memory before.
SettledIsRetrievable ==
  \A i \in Ids : settled[i] # 0 =>
    /\ Retrieved(i) \in {0, settled[i]}
    /\ \A p \in Places : data[p][i].version = settled[i] => Retrieved(i) = settled[i]

\* valkey_store.go:178: "Delete removes Working Memory".  After a Delete that
\* returned success and that no Store overlapped, no copy is left of a memory that
\* never changed its place, whatever earlier Stores and Deletes left half-done.
\* (One that did leaves a copy at its old place.)
DeleteIsFinal ==
  \A i \in gone : Cardinality(homes[i]) = 1 => \A p \in Places : data[p][i] = Absent

Trimming(p) == Cardinality({w \in Workers : op[w].pc = "trim" /\ op[w].place = p})

\* The sorted set holds at most LatestCap members, plus one for each Store that
\* has not trimmed yet or whose trim failed (valkey_store.go:77-78).
LatestIsBounded ==
  \A p \in Places : Cardinality(latest[p]) =< LatestCap + Trimming(p) + untrimmed[p]
=============================================================================
