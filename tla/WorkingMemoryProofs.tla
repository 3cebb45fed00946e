------------------------ MODULE WorkingMemoryProofs ------------------------
(***************************************************************************)
(* Proofs about working memories, for any number of ids, places, requests, *)
(* lifetimes and failing commands.                                         *)
(***************************************************************************)
EXTENDS WorkingMemory, FiniteSetTheorems, TLAPS

Storing == {"set", "index", "latest", "trim"}

\* An operation knows the id it is about, and the place once it has one.
SoundOperation(o) ==
  /\ o.pc = "idle" => o = Idle
  /\ o.pc # "idle" => o.id \in Ids
  /\ o.pc \in Storing =>
       o.place \in homes[o.id] /\ o.version \in Versions /\ o.version =< clock
  /\ o.pc \in Storing \ {"set"} => o.ttl \in TimeLeft
  /\ o.pc \in {"unindex", "unset"} => o.place \in homes[o.id]

OperationsAreSound == \A w \in Workers : SoundOperation(op[w])

\* What is stored was stored there by an operation that has begun.
AtHome ==
  \A i \in Ids :
    /\ \A p \in Places : data[p][i] # Absent => p \in homes[i] /\ data[p][i].version =< clock
    /\ index[i] # NoIndex => index[i].place \in homes[i]

MemoryInvariant == TypeOK /\ OperationsAreSound /\ AtHome

LEMMA ClockIsNatural == TypeOK => clock \in Nat /\ MaxOps \in Nat /\ faults \in Nat
  BY WorkingMemoryAssumption DEF TypeOK

LEMMA VersionsAreNatural == \A v \in Versions : v \in Nat /\ v # 0
  BY WorkingMemoryAssumption DEF Versions

LEMMA TimeRunsOut ==
  /\ \A t \in TimeLeft : t \in Nat /\ t >= 1 /\ (t > 1 => t - 1 \in TimeLeft)
  /\ \A life \in Lives : life > 0 => life \in TimeLeft
<1>1. ASSUME NEW t \in TimeLeft
      PROVE  t \in Nat /\ t >= 1 /\ (t > 1 => t - 1 \in TimeLeft)
  <2>1. PICK life \in Lives : t \in 1..life
    BY DEF TimeLeft
  <2>2. life \in Int
    BY WorkingMemoryAssumption
  <2>3. t \in Nat /\ t >= 1 /\ (t > 1 => t - 1 \in 1..life)
    BY <2>1, <2>2
  <2> QED
    BY <2>3 DEF TimeLeft
<1>2. ASSUME NEW life \in Lives, life > 0
      PROVE  life \in TimeLeft
  <2>1. life \in 1..life
    BY <1>2, WorkingMemoryAssumption
  <2> QED
    BY <2>1 DEF TimeLeft
<1> QED
  BY <1>1, <1>2

LEMMA IdleIsAnOperation == Idle \in Operations
  BY DEF Idle, Operations

\* An entry loses one tick, or is gone with its last one.
LEMMA AgedCopies ==
  ASSUME NEW e \in Copies
  PROVE  /\ Aged(e, Absent) \in Copies
         /\ \/ Aged(e, Absent) = Absent
            \/ /\ e # Absent /\ Aged(e, Absent).version = e.version
               /\ e.ttl > 1 /\ Aged(e, Absent).ttl = e.ttl - 1
<1>1. CASE e = Absent
  BY <1>1 DEF Aged, Absent, Copies
<1>2. CASE e \in [version : Versions, ttl : TimeLeft]
  <2>1. e.ttl \in TimeLeft /\ e.ttl \in Nat /\ e.ttl >= 1
    BY <1>2, TimeRunsOut
  <2>2. e # Absent
    BY <2>1 DEF Absent
  <2>3. CASE e.ttl =< 1
    BY <2>3 DEF Aged, Copies
  <2>4. CASE e.ttl > 1
    <3>1. Aged(e, Absent) = [e EXCEPT !.ttl = e.ttl - 1]
      BY <2>1, <2>4 DEF Aged
    <3>2. e.ttl - 1 \in TimeLeft
      BY <2>1, <2>4, TimeRunsOut
    <3> QED
      BY <1>2, <2>2, <2>4, <3>1, <3>2 DEF Copies
  <2> QED
    BY <2>1, <2>3, <2>4
<1> QED
  BY <1>1, <1>2 DEF Copies

LEMMA AgedPointers ==
  ASSUME NEW e \in Pointers
  PROVE  /\ Aged(e, NoIndex) \in Pointers
         /\ \/ Aged(e, NoIndex) = NoIndex
            \/ /\ e # NoIndex /\ Aged(e, NoIndex).place = e.place
               /\ e.ttl > 1 /\ Aged(e, NoIndex).ttl = e.ttl - 1
<1>1. CASE e = NoIndex
  BY <1>1 DEF Aged, NoIndex, Pointers
<1>2. CASE e \in [place : Places, ttl : TimeLeft]
  <2>1. e.ttl \in TimeLeft /\ e.ttl \in Nat /\ e.ttl >= 1
    BY <1>2, TimeRunsOut
  <2>2. e # NoIndex
    BY <2>1 DEF NoIndex
  <2>3. CASE e.ttl =< 1
    BY <2>3 DEF Aged, Pointers
  <2>4. CASE e.ttl > 1
    <3>1. Aged(e, NoIndex) = [e EXCEPT !.ttl = e.ttl - 1]
      BY <2>1, <2>4 DEF Aged
    <3>2. e.ttl - 1 \in TimeLeft
      BY <2>1, <2>4, TimeRunsOut
    <3> QED
      BY <1>2, <2>2, <2>4, <3>1, <3>2 DEF Pointers
  <2> QED
    BY <2>1, <2>3, <2>4
<1> QED
  BY <1>1, <1>2 DEF Pointers

-----------------------------------------------------------------------------
(* How an operation begins and goes on.                                    *)

SameButAlone(o, q) ==
  q.pc = o.pc /\ q.id = o.id /\ q.place = o.place /\ q.ttl = o.ttl /\ q.version = o.version

LEMMA OperationsBegin ==
  ASSUME TypeOK, NEW w \in Workers, NEW o \in Operations, o.id \in Ids, Begin(w, o)
  PROVE  /\ op' \in [Workers -> Operations]
         /\ op[w] = Idle /\ clock' = clock + 1 /\ clock' \in 0..MaxOps
         /\ UNCHANGED <<data, index, latest, faults, untrimmed>>
         /\ settled' = [settled EXCEPT ![o.id] = 0] /\ gone' = gone \ {o.id}
         /\ SameButAlone(o, op'[w])
         /\ op'[w].alone => \A u \in Workers : op[u] # Idle => op[u].id # o.id
         /\ \A u \in Workers \ {w} :
              /\ op[u] = Idle => op'[u] = Idle
              /\ SameButAlone(op[u], op'[u])
              /\ op'[u].alone => op[u].alone /\ (op[u] # Idle => op[u].id # o.id)
<1> DEFINE others == {u \in Workers : op[u] # Idle /\ op[u].id = o.id}
<1>1. /\ op[w] = Idle /\ clock < MaxOps /\ clock' = clock + 1
      /\ settled' = [settled EXCEPT ![o.id] = 0] /\ gone' = gone \ {o.id}
      /\ UNCHANGED <<data, index, latest, faults, untrimmed>>
      /\ op' = [u \in Workers |->
           IF u = w THEN [o EXCEPT !.alone = others = {}]
           ELSE IF u \in others THEN [op[u] EXCEPT !.alone = FALSE]
           ELSE op[u]]
  BY DEF Begin
<1>2. clock' \in 0..MaxOps
  BY <1>1, ClockIsNatural
<1>3. PICK alone \in BOOLEAN : alone <=> others = {}
  OBVIOUS
<1>4. op'[w] = [o EXCEPT !.alone = alone]
  BY <1>1, <1>3
<1>5. SameButAlone(o, op'[w]) /\ op'[w] \in Operations /\ (op'[w].alone <=> alone)
  BY <1>4 DEF Operations, SameButAlone
<1>6. ASSUME NEW u \in Workers \ {w}
      PROVE  /\ op'[u] \in Operations
             /\ op[u] = Idle => op'[u] = Idle
             /\ SameButAlone(op[u], op'[u])
             /\ op'[u].alone => op[u].alone /\ (op[u] # Idle => op[u].id # o.id)
  <2>1. op[u] \in Operations
    BY DEF TypeOK
  <2>2. CASE u \in others
    <3>1. op'[u] = [op[u] EXCEPT !.alone = FALSE]
      BY <1>1, <2>2
    <3>2. op[u] # Idle
      BY <2>2
    <3> QED
      BY <2>1, <3>1, <3>2 DEF Operations, SameButAlone
  <2>3. CASE u \notin others
    <3>1. op'[u] = op[u]
      BY <1>1, <2>3
    <3>2. op[u] # Idle => op[u].id # o.id
      BY <2>3
    <3> QED
      BY <2>1, <3>1, <3>2 DEF SameButAlone
  <2> QED
    BY <2>2, <2>3
<1>7. op' = [u \in Workers |-> op'[u]]
  BY <1>1
<1>8. op' \in [Workers -> Operations]
  BY <1>5, <1>6, <1>7
<1>9. op'[w].alone => \A u \in Workers : op[u] # Idle => op[u].id # o.id
  BY <1>3, <1>5
<1> QED
  BY <1>1, <1>2, <1>5, <1>6, <1>8, <1>9

\* The operation goes to its next command: what it knows stays.
GoesOn(o, q) ==
  /\ q.id = o.id /\ q.ttl = o.ttl /\ q.version = o.version /\ q.alone = o.alone
  /\ \/ /\ q.place = o.place
        /\ \/ o.pc = "set" /\ o.ttl > 0 /\ q.pc = "index"
           \/ o.pc = "index" /\ q.pc = "latest"
           \/ o.pc = "latest" /\ q.pc = "trim"
           \/ o.pc = "unindex" /\ q.pc = "unset"
     \/ /\ o.pc = "get" /\ q.pc = "unindex"
        /\ index[o.id] # NoIndex /\ q.place = index[o.id].place

LEMMA OperationsGoOn ==
  ASSUME TypeOK, OperationsAreSound, NEW w \in Workers, Step(w)
  PROVE  /\ op' \in [Workers -> Operations]
         /\ op[w].pc # "idle" /\ UNCHANGED <<clock, homes>>
         /\ \A u \in Workers \ {w} : op'[u] = op[u]
         /\ op'[w] = Idle \/ GoesOn(op[w], op'[w])
<1> DEFINE o == op[w]
           Goal == /\ op' \in [Workers -> Operations]
                   /\ op[w].pc # "idle" /\ UNCHANGED <<clock, homes>>
                   /\ \A u \in Workers \ {w} : op'[u] = op[u]
                   /\ op'[w] = Idle \/ GoesOn(op[w], op'[w])
<1>0. op \in [Workers -> Operations] /\ o \in Operations
  BY DEF TypeOK
<1>a. ASSUME op' = [op EXCEPT ![w] = Idle], o.pc # "idle", UNCHANGED <<clock, homes>>
      PROVE  Goal
  BY <1>0, <1>a, IdleIsAnOperation
<1>b. ASSUME NEW pc \in {"index", "latest", "trim", "unset"}, op' = [op EXCEPT ![w].pc = pc],
             UNCHANGED <<clock, homes>>,
             \/ o.pc = "set" /\ o.ttl > 0 /\ pc = "index"
             \/ o.pc = "index" /\ pc = "latest"
             \/ o.pc = "latest" /\ pc = "trim"
             \/ o.pc = "unindex" /\ pc = "unset"
      PROVE  Goal
  <2> DEFINE q == [o EXCEPT !.pc = pc]
  <2>1. /\ q \in Operations /\ q.pc = pc /\ q.id = o.id /\ q.ttl = o.ttl
        /\ q.version = o.version /\ q.alone = o.alone /\ q.place = o.place
    BY <1>0 DEF Operations
  <2>2. op' = [op EXCEPT ![w] = q]
    BY <1>0, <1>b
  <2> HIDE DEF q
  <2>3. GoesOn(o, q)
    BY <1>b, <2>1 DEF GoesOn
  <2> QED
    BY <1>0, <1>b, <2>1, <2>2, <2>3
<1>1. CASE SetRefused(w) \/ TrimLatest(w) \/ TrimFails(w) \/ DeleteData(w) \/ CommandFails(w)
  BY <1>a, <1>1 DEF SetRefused, TrimLatest, TrimFails, DeleteData, CommandFails, Finish, keys
<1>2. CASE SetData(w)
  BY <1>b, <1>2 DEF SetData, Goto
<1>3. CASE SetIndex(w)
  BY <1>b, <1>3 DEF SetIndex, Goto
<1>4. CASE AddLatest(w)
  BY <1>b, <1>4 DEF AddLatest, Goto
<1>5. CASE DeleteIndex(w)
  BY <1>b, <1>5 DEF DeleteIndex, Goto
<1>6. CASE GetIndex(w) /\ index[o.id] = NoIndex
  BY <1>a, <1>6 DEF GetIndex, Finish, keys
<1>7. CASE GetIndex(w) /\ index[o.id] # NoIndex
  <2> DEFINE p == index[o.id].place
             q == [o EXCEPT !.pc = "unindex", !.place = p]
  <2>1. o.pc = "get" /\ UNCHANGED <<clock, homes>> /\ op' = [op EXCEPT ![w] = q]
    BY <1>0, <1>7 DEF GetIndex, keys
  <2>2. p \in Places
    <3>1. o.id \in Ids
      BY <2>1 DEF OperationsAreSound, SoundOperation
    <3>2. index[o.id] \in [place : Places, ttl : TimeLeft]
      BY <1>7, <3>1 DEF TypeOK, Pointers
    <3> QED
      BY <3>2
  <2>3. /\ q \in Operations /\ q.pc = "unindex" /\ q.id = o.id /\ q.ttl = o.ttl
        /\ q.version = o.version /\ q.alone = o.alone /\ q.place = p
    BY <1>0, <2>2 DEF Operations
  <2> HIDE DEF q
  <2>4. GoesOn(o, q)
    BY <1>7, <2>1, <2>3 DEF GoesOn
  <2> QED
    BY <1>0, <2>1, <2>3, <2>4
<1> QED
  BY <1>1, <1>2, <1>3, <1>4, <1>5, <1>6, <1>7 DEF Step

-----------------------------------------------------------------------------
(* Types, and where copies are.                                            *)

LEMMA InitSatisfiesMemory == Init => MemoryInvariant
<1> SUFFICES ASSUME Init
             PROVE  MemoryInvariant
  OBVIOUS
<1>1. TypeOK
  BY IdleIsAnOperation, WorkingMemoryAssumption DEF Init, TypeOK, Copies, Pointers
<1>2. OperationsAreSound
  BY DEF Init, OperationsAreSound, SoundOperation, Idle, Storing
<1>3. AtHome
  BY DEF Init, AtHome
<1> QED
  BY <1>1, <1>2, <1>3 DEF MemoryInvariant

\* One copy is written or deleted.
LEMMA OneCopyChanges ==
  ASSUME TypeOK, NEW x \in Places, NEW y \in Ids, NEW c \in Copies,
         data' = [data EXCEPT ![x][y] = c]
  PROVE  /\ data' \in [Places -> [Ids -> Copies]]
         /\ \A p \in Places, i \in Ids :
              data'[p][i] = IF p = x /\ i = y THEN c ELSE data[p][i]
<1>1. data \in [Places -> [Ids -> Copies]]
  BY DEF TypeOK
<1>2. \A p \in Places : data'[p] = IF p = x THEN [data[p] EXCEPT ![y] = c] ELSE data[p]
  BY <1>1
<1>3. \A p \in Places : data'[p] \in [Ids -> Copies]
  BY <1>1, <1>2
<1>4. data' = [p \in Places |-> data'[p]]
  BY <1>1
<1> QED
  BY <1>1, <1>2, <1>3, <1>4

\* What a command does to the copies and the index entries.
LEMMA WritesOfAStep ==
  ASSUME MemoryInvariant, NEW w \in Workers, Step(w)
  PROVE  /\ data' \in [Places -> [Ids -> Copies]] /\ index' \in [Ids -> Pointers]
         /\ \A p \in Places, i \in Ids :
              \/ data'[p][i] = data[p][i]
              \/ /\ op[w].pc = "set" /\ op'[w].pc = "index" /\ p = op[w].place /\ i = op[w].id
                 /\ data'[p][i] = [version |-> op[w].version, ttl |-> op[w].ttl]
              \/ /\ op[w].pc = "unset" /\ i = op[w].id /\ data'[p][i] = Absent
         /\ op[w].pc = "set" /\ op'[w].pc = "index" =>
              data'[op[w].place][op[w].id] = [version |-> op[w].version, ttl |-> op[w].ttl]
         /\ \A i \in Ids :
              \/ index'[i] = index[i]
              \/ /\ op[w].pc = "index" /\ op'[w].pc = "latest" /\ i = op[w].id
                 /\ index'[i] = [place |-> op[w].place, ttl |-> op[w].ttl]
              \/ op[w].pc = "unindex" /\ i = op[w].id /\ index'[i] = NoIndex
         /\ op[w].pc = "index" /\ op'[w].pc = "latest" =>
              index'[op[w].id] = [place |-> op[w].place, ttl |-> op[w].ttl]
<1> DEFINE o == op[w]
           Goal == /\ data' \in [Places -> [Ids -> Copies]] /\ index' \in [Ids -> Pointers]
                   /\ \A p \in Places, i \in Ids :
                        \/ data'[p][i] = data[p][i]
                        \/ /\ op[w].pc = "set" /\ op'[w].pc = "index" /\ p = op[w].place
                           /\ i = op[w].id
                           /\ data'[p][i] = [version |-> op[w].version, ttl |-> op[w].ttl]
                        \/ /\ op[w].pc = "unset" /\ i = op[w].id /\ data'[p][i] = Absent
                   /\ op[w].pc = "set" /\ op'[w].pc = "index" =>
                        data'[op[w].place][op[w].id] = [version |-> op[w].version, ttl |-> op[w].ttl]
                   /\ \A i \in Ids :
                        \/ index'[i] = index[i]
                        \/ /\ op[w].pc = "index" /\ op'[w].pc = "latest" /\ i = op[w].id
                           /\ index'[i] = [place |-> op[w].place, ttl |-> op[w].ttl]
                        \/ op[w].pc = "unindex" /\ i = op[w].id /\ index'[i] = NoIndex
                   /\ op[w].pc = "index" /\ op'[w].pc = "latest" =>
                        index'[op[w].id] = [place |-> op[w].place, ttl |-> op[w].ttl]
<1>0. /\ op \in [Workers -> Operations] /\ o \in Operations /\ SoundOperation(o)
      /\ data \in [Places -> [Ids -> Copies]] /\ index \in [Ids -> Pointers]
      /\ homes \in [Ids -> SUBSET Places]
  BY DEF MemoryInvariant, TypeOK, OperationsAreSound
<1>1. CASE SetData(w)
  <2> DEFINE c == [version |-> o.version, ttl |-> o.ttl]
  <2>1. o.pc = "set" /\ o.ttl > 0 /\ UNCHANGED index /\ op'[w].pc = "index"
    BY <1>0, <1>1 DEF SetData, Goto, Operations
  <2>2. o.id \in Ids /\ o.place \in Places
    BY <1>0, <2>1 DEF SoundOperation, Storing
  <2>3. o.ttl \in TimeLeft
    <3>1. o.ttl \in Lives
      BY <1>0, <2>1 DEF Operations
    <3> QED
      BY <2>1, <3>1, TimeRunsOut
  <2>4. c \in Copies
    BY <1>0, <2>1, <2>3 DEF Copies, SoundOperation, Storing
  <2>5. data' = [data EXCEPT ![o.place][o.id] = c]
    BY <1>1 DEF SetData
  <2> HIDE DEF c
  <2>6. /\ data' \in [Places -> [Ids -> Copies]]
        /\ \A p \in Places, i \in Ids :
             data'[p][i] = IF p = o.place /\ i = o.id THEN c ELSE data[p][i]
    BY <2>2, <2>4, <2>5, OneCopyChanges DEF MemoryInvariant
  <2> QED
    BY <1>0, <2>1, <2>2, <2>6 DEF c
<1>2. CASE DeleteData(w)
  <2>1. o.pc = "unset" /\ UNCHANGED index /\ data' = [data EXCEPT ![o.place][o.id] = Absent]
    BY <1>2 DEF DeleteData
  <2>2. o.id \in Ids /\ o.place \in Places
    BY <1>0, <2>1 DEF SoundOperation
  <2>3. /\ data' \in [Places -> [Ids -> Copies]]
        /\ \A p \in Places, i \in Ids :
             data'[p][i] = IF p = o.place /\ i = o.id THEN Absent ELSE data[p][i]
    BY <2>1, <2>2, OneCopyChanges DEF MemoryInvariant, Copies
  <2> QED
    BY <1>0, <2>1, <2>3
<1>3. CASE SetIndex(w)
  <2> DEFINE c == [place |-> o.place, ttl |-> o.ttl]
  <2>1. /\ o.pc = "index" /\ UNCHANGED data /\ op'[w].pc = "latest"
        /\ index' = [index EXCEPT ![o.id] = c]
    BY <1>0, <1>3 DEF SetIndex, Goto, Operations
  <2>2. o.id \in Ids /\ c \in Pointers
    BY <1>0, <2>1 DEF SoundOperation, Storing, Pointers
  <2> HIDE DEF c
  <2>3. index' \in [Ids -> Pointers] /\ \A i \in Ids : index'[i] = IF i = o.id THEN c ELSE index[i]
    BY <1>0, <2>1, <2>2
  <2> QED
    BY <1>0, <2>1, <2>2, <2>3 DEF c
<1>4. CASE DeleteIndex(w)
  <2>1. o.pc = "unindex" /\ UNCHANGED data /\ index' = [index EXCEPT ![o.id] = NoIndex]
    BY <1>4 DEF DeleteIndex
  <2> QED
    BY <1>0, <2>1 DEF Pointers
<1>5. CASE \/ SetRefused(w) \/ AddLatest(w) \/ TrimLatest(w) \/ TrimFails(w)
           \/ GetIndex(w) \/ CommandFails(w)
  <2>1. UNCHANGED <<data, index>>
    BY <1>5 DEF SetRefused, AddLatest, TrimLatest, TrimFails, GetIndex, CommandFails, keys
  <2>2. ~(op[w].pc = "set" /\ op'[w].pc = "index") /\ ~(op[w].pc = "index" /\ op'[w].pc = "latest")
    BY <1>0, <1>5 DEF SetRefused, AddLatest, TrimLatest, TrimFails, GetIndex, CommandFails,
                      Finish, Goto, Idle, Operations
  <2> QED
    BY <1>0, <2>1, <2>2
<1> QED
  BY <1>1, <1>2, <1>3, <1>4, <1>5 DEF Step

LEMMA RestOfAStep ==
  ASSUME MemoryInvariant, NEW w \in Workers, Step(w)
  PROVE  /\ latest' \in [Places -> SUBSET [id : Ids, at : Versions]]
         /\ faults' \in 0..MaxFaults
         /\ untrimmed' \in [Places -> Nat]
         /\ settled' \in [Ids -> Versions \cup {0}]
         /\ gone' \subseteq Ids
<1> DEFINE o == op[w]
<1>0. /\ o \in Operations /\ SoundOperation(o) /\ homes \in [Ids -> SUBSET Places]
      /\ latest \in [Places -> SUBSET [id : Ids, at : Versions]]
      /\ faults \in 0..MaxFaults /\ untrimmed \in [Places -> Nat]
      /\ settled \in [Ids -> Versions \cup {0}] /\ gone \subseteq Ids
  BY DEF MemoryInvariant, TypeOK, OperationsAreSound
<1>1. CASE AddLatest(w)
  <2> DEFINE e == [id |-> o.id, at |-> o.version]
             set == {f \in latest[o.place] : f.id # o.id} \cup {e}
  <2>1. o.pc = "latest" /\ latest' = [latest EXCEPT ![o.place] = set]
        /\ UNCHANGED <<faults, untrimmed, settled, gone>>
    BY <1>1 DEF AddLatest
  <2>2. e \in [id : Ids, at : Versions] /\ o.place \in Places
    BY <1>0, <2>1 DEF SoundOperation, Storing
  <2> HIDE DEF e
  <2>3. set \in SUBSET [id : Ids, at : Versions]
    BY <1>0, <2>2
  <2> HIDE DEF set
  <2> QED
    BY <1>0, <2>1, <2>3
<1>2. CASE TrimLatest(w)
  <2>1. o.pc = "trim" /\ latest' = [latest EXCEPT ![o.place] = Newest(latest[o.place], LatestCap)]
        /\ untrimmed' = [untrimmed EXCEPT ![o.place] = 0]
        /\ settled' = [settled EXCEPT ![o.id] = IF o.alone THEN o.version ELSE 0]
        /\ UNCHANGED <<faults, gone>>
    BY <1>0, <1>2 DEF TrimLatest, Settle
  <2>2. o.place \in Places
    BY <1>0, <2>1 DEF SoundOperation, Storing
  <2>3. Newest(latest[o.place], LatestCap) \in SUBSET latest[o.place]
    BY DEF Newest
  <2>4. Newest(latest[o.place], LatestCap) \in SUBSET [id : Ids, at : Versions]
    BY <1>0, <2>2, <2>3
  <2>5. (IF o.alone THEN o.version ELSE 0) \in Versions \cup {0}
    BY <1>0 DEF Operations
  <2> QED
    BY <1>0, <2>1, <2>4, <2>5
<1>3. CASE TrimFails(w)
  <2>1. /\ faults < MaxFaults /\ faults' = faults + 1
        /\ untrimmed' = [untrimmed EXCEPT ![o.place] = @ + 1]
        /\ \/ settled' = [settled EXCEPT ![o.id] = IF o.alone THEN o.version ELSE 0]
           \/ UNCHANGED settled
        /\ UNCHANGED <<latest, gone>>
    BY <1>3 DEF TrimFails, Settle
  <2>2. (IF o.alone THEN o.version ELSE 0) \in Versions \cup {0}
    BY <1>0 DEF Operations
  <2>3. settled' \in [Ids -> Versions \cup {0}]
    BY <1>0, <2>1, <2>2
  <2>4. o.place \in Places
    BY <1>0, <1>3 DEF TrimFails, SoundOperation, Storing
  <2>5. untrimmed[o.place] + 1 \in Nat
    BY <1>0, <2>4
  <2>6. untrimmed' \in [Places -> Nat]
    BY <1>0, <2>1, <2>5
  <2>7. faults' \in 0..MaxFaults
    BY <1>0, <2>1, WorkingMemoryAssumption
  <2> QED
    BY <1>0, <2>1, <2>3, <2>6, <2>7
<1>4. CASE DeleteData(w)
  <2>1. o.pc = "unset" /\ gone' \in {gone, gone \cup {o.id}} /\ UNCHANGED <<latest, faults, untrimmed, settled>>
    BY <1>4 DEF DeleteData
  <2>2. o.id \in Ids
    BY <1>0, <2>1 DEF SoundOperation
  <2> QED
    BY <1>0, <2>1, <2>2
<1>5. CASE CommandFails(w)
  BY <1>0, <1>5, WorkingMemoryAssumption DEF CommandFails, keys
<1>6. CASE SetRefused(w) \/ SetData(w) \/ SetIndex(w) \/ GetIndex(w) \/ DeleteIndex(w)
  BY <1>0, <1>6 DEF SetRefused, SetData, SetIndex, GetIndex, DeleteIndex, keys
<1> QED
  BY <1>1, <1>2, <1>3, <1>4, <1>5, <1>6 DEF Step

LEMMA StepsKeepMemory ==
  ASSUME MemoryInvariant, NEW w \in Workers, Step(w)
  PROVE  MemoryInvariant'
<1>0. /\ op \in [Workers -> Operations] /\ OperationsAreSound /\ AtHome
      /\ clock \in 0..MaxOps /\ homes \in [Ids -> SUBSET Places]
      /\ index \in [Ids -> Pointers]
  BY DEF MemoryInvariant, TypeOK
<1>1. /\ op' \in [Workers -> Operations] /\ UNCHANGED <<clock, homes>>
      /\ \A u \in Workers \ {w} : op'[u] = op[u]
      /\ op'[w] = Idle \/ GoesOn(op[w], op'[w])
  BY OperationsGoOn DEF MemoryInvariant
<1>2. TypeOK'
  BY <1>0, <1>1, WritesOfAStep, RestOfAStep DEF TypeOK
<1>3. OperationsAreSound'
  <2> SUFFICES ASSUME NEW u \in Workers
               PROVE  SoundOperation(op[u])'
    BY DEF OperationsAreSound
  <2>1. CASE u # w \/ op'[u] = Idle
    <3>1. SoundOperation(op'[u])
      BY <1>0, <1>1, <2>1 DEF OperationsAreSound, SoundOperation, Idle, Storing
    <3> QED
      BY <1>1, <3>1 DEF SoundOperation
  <2>2. CASE u = w /\ GoesOn(op[w], op'[w])
    <3> DEFINE o == op[w]
               q == op'[w]
    <3>1. SoundOperation(o) /\ o \in Operations
      BY <1>0 DEF OperationsAreSound
    <3>2. o.pc = "set" /\ o.ttl > 0 => o.ttl \in TimeLeft
      <4>1. o.ttl \in Lives \cup {0}
        BY <3>1 DEF Operations
      <4> QED
        BY <4>1, TimeRunsOut
    <3>3. o.pc = "get" => o.id \in Ids
      BY <3>1 DEF SoundOperation
    <3>4. index[o.id] # NoIndex /\ o.id \in Ids => index[o.id].place \in homes[o.id]
      BY <1>0 DEF AtHome
    <3>5. SoundOperation(q)
      BY <2>2, <3>1, <3>2, <3>3, <3>4 DEF GoesOn, SoundOperation, Storing
    <3> QED
      BY <1>1, <2>2, <3>5 DEF SoundOperation
  <2> QED
    BY <1>1, <2>1, <2>2
<1>4. AtHome'
  <2>1. SoundOperation(op[w])
    BY <1>0 DEF OperationsAreSound
  <2>a. \A p \in Places, i \in Ids :
          \/ data'[p][i] = data[p][i]
          \/ /\ op[w].pc = "set" /\ op'[w].pc = "index" /\ p = op[w].place /\ i = op[w].id
             /\ data'[p][i] = [version |-> op[w].version, ttl |-> op[w].ttl]
          \/ op[w].pc = "unset" /\ i = op[w].id /\ data'[p][i] = Absent
    BY WritesOfAStep
  <2>2. ASSUME NEW i \in Ids, NEW p \in Places, data'[p][i] # Absent
        PROVE  p \in homes[i] /\ data'[p][i].version =< clock
    <3>1. CASE data'[p][i] = data[p][i]
      BY <1>0, <2>2, <3>1 DEF AtHome
    <3>2. CASE data'[p][i] # data[p][i]
      <4>1. /\ op[w].pc = "set" /\ p = op[w].place /\ i = op[w].id
            /\ data'[p][i] = [version |-> op[w].version, ttl |-> op[w].ttl]
        BY <2>a, <2>2, <3>2
      <4>2. op[w].place \in homes[op[w].id] /\ op[w].version =< clock
        BY <2>1, <4>1 DEF SoundOperation, Storing
      <4> QED
        BY <4>1, <4>2
    <3> QED
      BY <3>1, <3>2
  <2>3. ASSUME NEW i \in Ids, index'[i] # NoIndex
        PROVE  index'[i].place \in homes[i]
    <3>1. CASE index'[i] = index[i]
      BY <1>0, <2>3, <3>1 DEF AtHome
    <3>2. CASE index'[i] # index[i]
      <4>1. /\ op[w].pc = "index" /\ i = op[w].id
            /\ index'[i] = [place |-> op[w].place, ttl |-> op[w].ttl]
        BY <2>3, <3>2, WritesOfAStep
      <4>2. op[w].place \in homes[op[w].id]
        BY <2>1, <4>1 DEF SoundOperation, Storing
      <4> QED
        BY <4>1, <4>2
    <3> QED
      BY <3>1, <3>2
  <2> QED
    BY <1>1, <2>2, <2>3 DEF AtHome
<1> QED
  BY <1>2, <1>3, <1>4 DEF MemoryInvariant

\* Requests: what begins is a Store or a Delete.
Fresh(o) ==
  /\ o \in Operations /\ o.id \in Ids
  /\ \/ o.pc = "set" /\ o.place \in Places /\ o.version = clock + 1
        /\ homes' = [homes EXCEPT ![o.id] = @ \cup {o.place}]
     \/ o.pc = "get" /\ UNCHANGED homes

LEMMA RequestsAreFresh ==
  ASSUME TypeOK, NEW w \in Workers, NEW i \in Ids,
         Delete(w, i) \/ \E p \in Places, life \in Lives : Store(w, i, p, life)
  PROVE  \E o : Fresh(o) /\ Begin(w, o) /\ o.id = i
<1>1. CASE Delete(w, i)
  <2> DEFINE o == [Idle EXCEPT !.pc = "get", !.id = i]
  <2>1. Begin(w, o) /\ UNCHANGED homes
    BY <1>1 DEF Delete
  <2>2. o \in Operations /\ o.id = i /\ o.pc = "get"
    BY IdleIsAnOperation DEF Operations
  <2> HIDE DEF o
  <2> QED
    BY <2>1, <2>2 DEF Fresh
<1>2. ASSUME NEW p \in Places, NEW life \in Lives, Store(w, i, p, life)
      PROVE  \E o : Fresh(o) /\ Begin(w, o) /\ o.id = i
  <2> DEFINE o == [Idle EXCEPT !.pc = "set", !.id = i, !.place = p, !.ttl = life,
                               !.version = clock + 1]
  <2>1. Begin(w, o) /\ homes' = [homes EXCEPT ![i] = @ \cup {p}]
    BY <1>2 DEF Store
  <2>2. clock + 1 \in Versions
    <3>1. clock < MaxOps
      BY <2>1 DEF Begin
    <3> QED
      BY <3>1, ClockIsNatural DEF Versions
  <2>3. o \in Operations /\ o.id = i /\ o.pc = "set" /\ o.place = p /\ o.version = clock + 1
    BY <2>2, IdleIsAnOperation DEF Operations
  <2> HIDE DEF o
  <2> QED
    BY <2>1, <2>3 DEF Fresh
<1> QED
  BY <1>1, <1>2

LEMMA RequestsKeepMemory ==
  ASSUME MemoryInvariant, NEW w \in Workers, NEW o, Fresh(o), Begin(w, o)
  PROVE  MemoryInvariant'
<1>0. /\ TypeOK /\ OperationsAreSound /\ AtHome /\ o \in Operations /\ o.id \in Ids
      /\ clock \in Nat /\ homes \in [Ids -> SUBSET Places]
      /\ data \in [Places -> [Ids -> Copies]]
  BY ClockIsNatural DEF MemoryInvariant, TypeOK, Fresh
<1>1. /\ op' \in [Workers -> Operations] /\ clock' = clock + 1 /\ clock' \in 0..MaxOps
      /\ UNCHANGED <<data, index, latest, faults, untrimmed>>
      /\ settled' = [settled EXCEPT ![o.id] = 0] /\ gone' = gone \ {o.id}
      /\ SameButAlone(o, op'[w])
      /\ \A u \in Workers \ {w} : /\ op[u] = Idle => op'[u] = Idle
                                  /\ SameButAlone(op[u], op'[u])
  BY <1>0, OperationsBegin
<1>2. /\ homes' \in [Ids -> SUBSET Places]
      /\ \A i \in Ids : homes[i] \subseteq homes'[i]
      /\ o.pc = "set" => o.place \in homes'[o.id]
  BY <1>0 DEF Fresh
<1>3. TypeOK'
  BY <1>0, <1>1, <1>2 DEF TypeOK
<1>4. OperationsAreSound'
  <2> SUFFICES ASSUME NEW u \in Workers
               PROVE  SoundOperation(op[u])'
    BY DEF OperationsAreSound
  <2>1. \A v \in Versions : v =< clock => v =< clock'
    BY <1>0, <1>1, VersionsAreNatural
  <2>2. CASE u = w
    <3>1. o.pc = "set" => o.version = clock'
      BY <1>1 DEF Fresh
    <3>2. clock' \in Versions /\ clock' =< clock'
      BY <1>0, <1>1 DEF Versions
    <3> QED
      BY <1>1, <1>2, <2>2, <3>1, <3>2 DEF Fresh, SameButAlone, SoundOperation, Storing
  <2>3. CASE u # w
    <3>1. SoundOperation(op[u])
      BY <1>0 DEF OperationsAreSound
    <3>2. /\ op[u] = Idle => op'[u] = Idle
          /\ SameButAlone(op[u], op'[u])
      BY <1>1, <2>3
    <3>3. op'[u].pc # "idle" => op'[u].id \in Ids
      BY <3>1, <3>2 DEF SameButAlone, SoundOperation
    <3>4. op'[u].pc \in Storing => op'[u].version \in Versions /\ op'[u].version =< clock'
      BY <2>1, <3>1, <3>2 DEF SameButAlone, SoundOperation
    <3>5. op'[u].pc \in Storing => op'[u].place \in homes'[op'[u].id]
      BY <1>2, <3>1, <3>2, <3>3 DEF SameButAlone, SoundOperation, Storing
    <3>6. op'[u].pc \in {"unindex", "unset"} => op'[u].place \in homes'[op'[u].id]
      BY <1>2, <3>1, <3>2, <3>3 DEF SameButAlone, SoundOperation
    <3>7. op'[u].pc = "idle" => op'[u] = Idle
      BY <3>1, <3>2 DEF SameButAlone, SoundOperation
    <3>8. op'[u].pc \in Storing \ {"set"} => op'[u].ttl \in TimeLeft
      BY <3>1, <3>2 DEF SameButAlone, SoundOperation
    <3> QED
      BY <3>3, <3>4, <3>5, <3>6, <3>7, <3>8 DEF SoundOperation
  <2> QED
    BY <2>2, <2>3
<1>5. AtHome'
  <2>1. \A p \in Places, i \in Ids : data[p][i] # Absent => data[p][i].version \in Versions
    BY <1>0 DEF Copies
  <2>2. \A p \in Places, i \in Ids :
          data[p][i] # Absent /\ data[p][i].version =< clock => data[p][i].version =< clock'
    BY <1>0, <1>1, <2>1, VersionsAreNatural
  <2> QED
    BY <1>0, <1>1, <1>2, <2>2 DEF AtHome
<1> QED
  BY <1>3, <1>4, <1>5 DEF MemoryInvariant

\* Time passes.
LEMMA TicksAge ==
  ASSUME TypeOK, Tick
  PROVE  /\ UNCHANGED <<latest, op, clock, faults, untrimmed, settled, gone, homes>>
         /\ data' \in [Places -> [Ids -> Copies]] /\ index' \in [Ids -> Pointers]
         /\ \A p \in Places, i \in Ids : data'[p][i] = Aged(data[p][i], Absent)
         /\ \A i \in Ids : index'[i] = Aged(index[i], NoIndex)
<1>1. /\ data' = [p \in Places |-> [i \in Ids |-> Aged(data[p][i], Absent)]]
      /\ index' = [i \in Ids |-> Aged(index[i], NoIndex)]
      /\ UNCHANGED <<latest, op, clock, faults, untrimmed, settled, gone, homes>>
  BY DEF Tick
<1>2. \A p \in Places, i \in Ids : Aged(data[p][i], Absent) \in Copies
  BY AgedCopies DEF TypeOK
<1>3. \A i \in Ids : Aged(index[i], NoIndex) \in Pointers
  BY AgedPointers DEF TypeOK
<1> QED
  BY <1>1, <1>2, <1>3

LEMMA TicksKeepMemory ==
  ASSUME MemoryInvariant, Tick
  PROVE  MemoryInvariant'
<1>1. TypeOK'
  BY TicksAge DEF MemoryInvariant, TypeOK
<1>2. OperationsAreSound'
  BY TicksAge DEF MemoryInvariant, OperationsAreSound, SoundOperation
<1>3. ASSUME NEW i \in Ids, NEW p \in Places, data'[p][i] # Absent
      PROVE  data[p][i] # Absent /\ data'[p][i].version = data[p][i].version
  <2>1. data'[p][i] = Aged(data[p][i], Absent) /\ data[p][i] \in Copies
    BY TicksAge DEF MemoryInvariant, TypeOK
  <2> QED
    BY <1>3, <2>1, AgedCopies
<1>4. ASSUME NEW i \in Ids, index'[i] # NoIndex
      PROVE  index[i] # NoIndex /\ index'[i].place = index[i].place
  <2>1. index'[i] = Aged(index[i], NoIndex) /\ index[i] \in Pointers
    BY TicksAge DEF MemoryInvariant, TypeOK
  <2> QED
    BY <1>4, <2>1, AgedPointers
<1>5. UNCHANGED <<homes, clock>>
  BY TicksAge DEF MemoryInvariant
<1>6. AtHome'
  BY <1>3, <1>4, <1>5 DEF MemoryInvariant, AtHome
<1> QED
  BY <1>1, <1>2, <1>6 DEF MemoryInvariant

LEMMA MemoryIsInductive == MemoryInvariant /\ [Next]_vars => MemoryInvariant'
<1> SUFFICES ASSUME MemoryInvariant, [Next]_vars
             PROVE  MemoryInvariant'
  OBVIOUS
<1>1. CASE UNCHANGED vars
  BY <1>1 DEF vars, MemoryInvariant, TypeOK, OperationsAreSound, SoundOperation, AtHome
<1>2. ASSUME NEW w \in Workers, NEW i \in Ids,
             Delete(w, i) \/ \E p \in Places, life \in Lives : Store(w, i, p, life)
      PROVE  MemoryInvariant'
  BY <1>2, RequestsAreFresh, RequestsKeepMemory DEF MemoryInvariant
<1> QED
  BY <1>1, <1>2, StepsKeepMemory, TicksKeepMemory DEF Next

LEMMA MemoryIsInvariant == Spec => []MemoryInvariant
  BY InitSatisfiesMemory, MemoryIsInductive, PTL DEF Spec

\* Working memories, their index and the sorted sets are well typed, and what
\* exists has time to live.
THEOREM WorkingMemoryTypeCorrect == Spec => []TypeOK
<1>1. MemoryInvariant => TypeOK
  BY DEF MemoryInvariant
<1> QED
  BY <1>1, MemoryIsInvariant, PTL

-----------------------------------------------------------------------------
(* Deleted memories.                                                       *)

\* An operation that thinks it is alone with its id is.
AloneIsAlone ==
  \A w, u \in Workers :
    w # u /\ op[w] # Idle /\ op[u] # Idle /\ op[w].alone => op[u].id # op[w].id

\* What is marked as deleted or settled has nobody working on it.
MarkedAreQuiet ==
  \A w \in Workers : op[w] # Idle => op[w].id \notin gone /\ settled[op[w].id] = 0

HomesAreFinite == \A i \in Ids : IsFiniteSet(homes[i])

\* DeleteIsFinal, without counting.
NoCopyLeft ==
  \A i \in gone : \A x : homes[i] = {x} => \A p \in Places : data[p][i] = Absent

QuietInvariant == AloneIsAlone /\ MarkedAreQuiet

DeleteInvariant == HomesAreFinite /\ NoCopyLeft

\* A memory is marked by an operation that was alone and ends.
LEMMA MarksOfAStep ==
  ASSUME MemoryInvariant, NEW w \in Workers, Step(w)
  PROVE  /\ \A i \in gone' :
              \/ i \in gone
              \/ /\ i = op[w].id /\ op[w].alone /\ op[w].pc = "unset" /\ op'[w] = Idle
                 /\ data'[op[w].place][i] = Absent
         /\ \A i \in Ids :
              \/ settled'[i] = settled[i]
              \/ /\ i = op[w].id /\ op[w].pc = "trim" /\ op'[w] = Idle
                 /\ settled'[i] = 0 \/ (op[w].alone /\ settled'[i] = op[w].version)
<1> DEFINE o == op[w]
           Goal == /\ \A i \in gone' :
                        \/ i \in gone
                        \/ /\ i = op[w].id /\ op[w].alone /\ op[w].pc = "unset" /\ op'[w] = Idle
                           /\ data'[op[w].place][i] = Absent
                   /\ \A i \in Ids :
                        \/ settled'[i] = settled[i]
                        \/ /\ i = op[w].id /\ op[w].pc = "trim" /\ op'[w] = Idle
                           /\ settled'[i] = 0 \/ (op[w].alone /\ settled'[i] = op[w].version)
<1>0. /\ op \in [Workers -> Operations] /\ SoundOperation(o)
      /\ settled \in [Ids -> Versions \cup {0}] /\ homes \in [Ids -> SUBSET Places]
      /\ data \in [Places -> [Ids -> Copies]]
  BY DEF MemoryInvariant, TypeOK, OperationsAreSound
<1>1. CASE TrimLatest(w) \/ TrimFails(w)
  <2>1. o.pc = "trim" /\ op' = [op EXCEPT ![w] = Idle] /\ UNCHANGED gone
        /\ \/ settled' = [settled EXCEPT ![o.id] = IF o.alone THEN o.version ELSE 0]
           \/ UNCHANGED settled
    BY <1>1 DEF TrimLatest, TrimFails, Settle, Finish
  <2> QED
    BY <1>0, <2>1
<1>2. CASE DeleteData(w)
  <2>1. /\ o.pc = "unset" /\ op' = [op EXCEPT ![w] = Idle] /\ UNCHANGED settled
        /\ data' = [data EXCEPT ![o.place][o.id] = Absent]
        /\ gone' = IF o.alone THEN gone \cup {o.id} ELSE gone
    BY <1>2 DEF DeleteData, Finish
  <2>2. o.id \in Ids /\ o.place \in Places
    BY <1>0, <2>1 DEF SoundOperation
  <2>3. data'[o.place][o.id] = Absent
    BY <2>1, <2>2, OneCopyChanges DEF MemoryInvariant, Copies
  <2>4. op'[w] = Idle
    BY <1>0, <2>1
  <2> QED
    BY <2>1, <2>3, <2>4
<1>3. CASE \/ SetRefused(w) \/ SetData(w) \/ SetIndex(w) \/ AddLatest(w)
           \/ GetIndex(w) \/ DeleteIndex(w) \/ CommandFails(w)
  <2>1. UNCHANGED <<gone, settled>>
    BY <1>3 DEF SetRefused, SetData, SetIndex, AddLatest, GetIndex, DeleteIndex, CommandFails, keys
  <2> QED
    BY <2>1
<1> QED
  BY <1>1, <1>2, <1>3 DEF Step

LEMMA StepsStayQuiet ==
  ASSUME MemoryInvariant, QuietInvariant, NEW w \in Workers, Step(w)
  PROVE  QuietInvariant'
<1>0. /\ op[w] # Idle
      /\ \A u \in Workers \ {w} : op'[u] = op[u]
      /\ op'[w] = Idle \/ (op'[w].id = op[w].id /\ op'[w].alone = op[w].alone)
  <2>1. /\ op[w].pc # "idle" /\ \A u \in Workers \ {w} : op'[u] = op[u]
        /\ op'[w] = Idle \/ GoesOn(op[w], op'[w])
    BY OperationsGoOn DEF MemoryInvariant
  <2>2. op[w] # Idle
    BY <2>1 DEF Idle
  <2>3. GoesOn(op[w], op'[w]) => op'[w].id = op[w].id /\ op'[w].alone = op[w].alone
    BY DEF GoesOn
  <2> QED
    BY <2>1, <2>2, <2>3
<1>1. AloneIsAlone'
  BY <1>0 DEF QuietInvariant, AloneIsAlone
<1>2. ASSUME NEW u \in Workers, op'[u] # Idle
      PROVE  op'[u].id \notin gone' /\ settled'[op'[u].id] = 0
  <2>1. op[u] # Idle /\ op'[u].id = op[u].id /\ op[u].id \in Ids
    <3>1. op[u] # Idle /\ op'[u].id = op[u].id
      BY <1>0, <1>2
    <3> QED
      BY <3>1 DEF MemoryInvariant, OperationsAreSound, SoundOperation
  <2>2. op[u].id \notin gone /\ settled[op[u].id] = 0
    BY <2>1 DEF QuietInvariant, MarkedAreQuiet
  <2>3. CASE u = w
    BY <1>2, <2>1, <2>2, <2>3, MarksOfAStep
  <2>4. CASE u # w
    <3>1. op[w].alone => op[u].id # op[w].id
      BY <1>0, <2>1, <2>4 DEF QuietInvariant, AloneIsAlone
    <3> QED
      BY <2>1, <2>2, <3>1, MarksOfAStep
  <2> QED
    BY <2>3, <2>4
<1> QED
  BY <1>1, <1>2 DEF QuietInvariant, MarkedAreQuiet

LEMMA RequestsStayQuiet ==
  ASSUME MemoryInvariant, QuietInvariant, NEW w \in Workers, NEW o, Fresh(o), Begin(w, o)
  PROVE  QuietInvariant'
<1>0. /\ o.id \in Ids /\ settled \in [Ids -> Versions \cup {0}]
      /\ settled' = [settled EXCEPT ![o.id] = 0] /\ gone' = gone \ {o.id}
      /\ op'[w].id = o.id
      /\ op'[w].alone => \A u \in Workers : op[u] # Idle => op[u].id # o.id
      /\ \A u \in Workers \ {w} :
           /\ op[u] = Idle => op'[u] = Idle
           /\ op'[u].id = op[u].id
           /\ op'[u].alone => op[u].alone /\ (op[u] # Idle => op[u].id # o.id)
  BY OperationsBegin DEF MemoryInvariant, TypeOK, Fresh, SameButAlone
<1>1. AloneIsAlone'
  BY <1>0 DEF QuietInvariant, AloneIsAlone
<1>2. ASSUME NEW u \in Workers, op'[u] # Idle
      PROVE  op'[u].id \notin gone' /\ settled'[op'[u].id] = 0
  <2>1. CASE u = w
    BY <1>0, <2>1
  <2>2. CASE u # w
    <3>1. op[u] # Idle /\ op'[u].id = op[u].id
      BY <1>0, <1>2, <2>2
    <3>2. op[u].id \in Ids
      BY <3>1 DEF MemoryInvariant, OperationsAreSound, SoundOperation
    <3> QED
      BY <1>0, <3>1, <3>2 DEF QuietInvariant, MarkedAreQuiet
  <2> QED
    BY <2>1, <2>2
<1> QED
  BY <1>1, <1>2 DEF QuietInvariant, MarkedAreQuiet

LEMMA QuietIsInductive == MemoryInvariant /\ QuietInvariant /\ [Next]_vars => QuietInvariant'
<1> SUFFICES ASSUME MemoryInvariant, QuietInvariant, [Next]_vars
             PROVE  QuietInvariant'
  OBVIOUS
<1>1. CASE UNCHANGED <<op, gone, settled>>
  BY <1>1 DEF QuietInvariant, AloneIsAlone, MarkedAreQuiet
<1>2. ASSUME NEW w \in Workers, NEW i \in Ids,
             Delete(w, i) \/ \E p \in Places, life \in Lives : Store(w, i, p, life)
      PROVE  QuietInvariant'
  BY <1>2, RequestsAreFresh, RequestsStayQuiet DEF MemoryInvariant
<1>3. CASE Tick
  BY <1>1, <1>3 DEF Tick
<1> QED
  BY <1>1, <1>2, <1>3, StepsStayQuiet DEF Next, vars

LEMMA DeleteIsInductive ==
  MemoryInvariant /\ QuietInvariant /\ DeleteInvariant /\ [Next]_vars => DeleteInvariant'
<1> SUFFICES ASSUME MemoryInvariant, QuietInvariant, DeleteInvariant, [Next]_vars
             PROVE  DeleteInvariant'
  OBVIOUS
<1>0. /\ homes \in [Ids -> SUBSET Places] /\ gone \subseteq Ids
      /\ data \in [Places -> [Ids -> Copies]]
  BY DEF MemoryInvariant, TypeOK
<1>1. CASE UNCHANGED vars
  BY <1>1 DEF vars, DeleteInvariant, HomesAreFinite, NoCopyLeft
<1>2. ASSUME NEW w \in Workers, Step(w)
      PROVE  DeleteInvariant'
  <2> DEFINE o == op[w]
  <2>0. UNCHANGED homes /\ o # Idle /\ SoundOperation(o)
    <3>1. UNCHANGED homes /\ o.pc # "idle" /\ SoundOperation(o)
      BY <1>2, OperationsGoOn DEF MemoryInvariant, OperationsAreSound
    <3> QED
      BY <3>1 DEF Idle
  <2>1. HomesAreFinite'
    BY <2>0 DEF DeleteInvariant, HomesAreFinite
  <2>2. \A p \in Places, i \in Ids :
          \/ data'[p][i] = data[p][i]
          \/ /\ op[w].pc = "set" /\ op'[w].pc = "index" /\ p = op[w].place /\ i = op[w].id
             /\ data'[p][i] = [version |-> op[w].version, ttl |-> op[w].ttl]
          \/ /\ op[w].pc = "unset" /\ i = op[w].id /\ data'[p][i] = Absent
    BY <1>2, WritesOfAStep
  <2>3. ASSUME NEW i \in gone', NEW x, homes[i] = {x}, NEW p \in Places
        PROVE  data'[p][i] = Absent
    <3>1. CASE i \in gone
      <4>1. data[p][i] = Absent /\ i # o.id /\ i \in Ids
        BY <1>0, <2>0, <2>3, <3>1
        DEF DeleteInvariant, NoCopyLeft, QuietInvariant, MarkedAreQuiet
      <4> QED
        BY <2>2, <4>1
    <3>2. CASE i \notin gone
      <4>1. i = o.id /\ o.pc = "unset" /\ data'[o.place][i] = Absent
        BY <1>2, <3>2, MarksOfAStep
      <4>2. o.place = x /\ i \in Ids
        BY <2>0, <2>3, <4>1 DEF SoundOperation
      <4>3. CASE p = x
        BY <4>1, <4>2, <4>3
      <4>4. CASE p # x
        <5>1. data[p][i] = Absent
          BY <2>3, <4>2, <4>4 DEF MemoryInvariant, AtHome
        <5> QED
          BY <2>2, <4>1, <4>2, <5>1
      <4> QED
        BY <4>3, <4>4
    <3> QED
      BY <3>1, <3>2
  <2>4. NoCopyLeft'
    BY <2>0, <2>3 DEF NoCopyLeft
  <2> QED
    BY <2>1, <2>4 DEF DeleteInvariant
<1>3. ASSUME NEW w \in Workers, NEW o, Fresh(o), Begin(w, o)
      PROVE  DeleteInvariant'
  <2>1. /\ gone' = gone \ {o.id} /\ UNCHANGED data /\ o.id \in Ids
        /\ \A i \in Ids \ {o.id} : homes'[i] = homes[i]
        /\ homes'[o.id] = homes[o.id] \/ homes'[o.id] = homes[o.id] \cup {o.place}
    BY <1>0, <1>3 DEF Fresh, Begin
  <2>2. HomesAreFinite'
    <3> SUFFICES ASSUME NEW i \in Ids
                 PROVE  IsFiniteSet(homes'[i])
      BY DEF HomesAreFinite
    <3>1. IsFiniteSet(homes[i]) /\ IsFiniteSet(homes[i] \cup {o.place})
      BY FS_AddElement DEF DeleteInvariant, HomesAreFinite
    <3> QED
      BY <2>1, <3>1
  <2>3. NoCopyLeft'
    BY <1>0, <2>1 DEF DeleteInvariant, NoCopyLeft
  <2> QED
    BY <2>2, <2>3 DEF DeleteInvariant
<1>4. CASE Tick
  <2>1. UNCHANGED <<homes, gone>>
        /\ \A p \in Places, i \in Ids : data'[p][i] = Aged(data[p][i], Absent)
    BY <1>4, TicksAge DEF MemoryInvariant
  <2>2. Aged(Absent, Absent) = Absent
    BY AgedCopies DEF Copies
  <2>3. HomesAreFinite'
    BY <2>1 DEF DeleteInvariant, HomesAreFinite
  <2>4. ASSUME NEW i \in gone', NEW x, homes'[i] = {x}, NEW p \in Places
        PROVE  data'[p][i] = Absent
    <3>1. i \in gone /\ homes[i] = {x} /\ i \in Ids
      BY <1>0, <2>1, <2>4
    <3>2. data[p][i] = Absent
      BY <3>1 DEF DeleteInvariant, NoCopyLeft
    <3>3. data'[p][i] = Aged(Absent, Absent)
      BY <2>1, <3>1, <3>2
    <3> QED
      BY <2>2, <3>3
  <2>5. NoCopyLeft'
    BY <2>4 DEF NoCopyLeft
  <2> QED
    BY <2>3, <2>5 DEF DeleteInvariant
<1>5. ASSUME NEW w \in Workers, NEW i \in Ids,
             Delete(w, i) \/ \E p \in Places, life \in Lives : Store(w, i, p, life)
      PROVE  DeleteInvariant'
  BY <1>3, <1>5, RequestsAreFresh DEF MemoryInvariant
<1> QED
  BY <1>1, <1>2, <1>4, <1>5 DEF Next

LEMMA QuietIsInvariant == Spec => [](QuietInvariant /\ DeleteInvariant)
<1>1. Init => QuietInvariant /\ DeleteInvariant
  <2> SUFFICES ASSUME Init
               PROVE  QuietInvariant /\ DeleteInvariant
    OBVIOUS
  <2>1. QuietInvariant
    BY DEF Init, QuietInvariant, AloneIsAlone, MarkedAreQuiet
  <2>2. HomesAreFinite
    BY FS_EmptySet DEF Init, HomesAreFinite
  <2> QED
    BY <2>1, <2>2 DEF Init, DeleteInvariant, NoCopyLeft
<1> QED
  BY <1>1, MemoryIsInvariant, QuietIsInductive, DeleteIsInductive, PTL DEF Spec

\* After a Delete that returned success and that no Store overlapped, no copy is
\* left of a memory that never changed its place (valkey_store.go:178), whatever
\* earlier Stores and Deletes left half-done when a command of theirs failed.
THEOREM DeletedMemoriesAreGone == Spec => []DeleteIsFinal
<1>1. MemoryInvariant /\ DeleteInvariant => DeleteIsFinal
  <2> SUFFICES ASSUME MemoryInvariant, DeleteInvariant,
                      NEW i \in gone, Cardinality(homes[i]) = 1, NEW p \in Places
               PROVE  data[p][i] = Absent
    BY DEF DeleteIsFinal
  <2>1. IsFiniteSet(homes[i])
    BY DEF MemoryInvariant, TypeOK, DeleteInvariant, HomesAreFinite
  <2>2. \E x : homes[i] = {x}
    BY <2>1, FS_Singleton
  <2> QED
    BY <2>2 DEF DeleteInvariant, NoCopyLeft
<1> QED
  BY <1>1, MemoryIsInvariant, QuietIsInvariant, PTL
-----------------------------------------------------------------------------
(* What was stored last.                                                   *)

\* Seen from one place with its copy c and the index entry e: the memory stored
\* as version v is found whenever it is there, its entry outlives it, and no other
\* version is found instead.
Current(p, c, e, v) ==
  /\ c.version = v => e.place = p /\ c.ttl =< e.ttl
  /\ e.place = p => c.version \in {0, v}

\* The same along a Store that nobody disturbs.
OnItsWay(o, p, c, e) ==
  /\ o.pc = "set" => c.version # o.version
  /\ o.pc = "index" =>
       /\ c.version = o.version => p = o.place /\ c.ttl =< o.ttl
       /\ p = o.place => c.version \in {0, o.version}
  /\ o.pc \in {"latest", "trim"} => Current(p, c, e, o.version)

StoresGoWell ==
  \A w \in Workers, p \in Places :
    op[w].pc # "idle" /\ op[w].alone => OnItsWay(op[w], p, data[p][op[w].id], index[op[w].id])

SettledIsCurrent ==
  \A i \in Ids, p \in Places :
    settled[i] # 0 => Current(p, data[p][i], index[i], settled[i])

StoreInvariant == StoresGoWell /\ SettledIsCurrent

\* Time brings copy and entry nearer to their ends by the same tick.
LEMMA CurrentStaysCurrent ==
  ASSUME NEW p \in Places, NEW c \in Copies, NEW e \in Pointers, NEW v \in Versions,
         Current(p, c, e, v)
  PROVE  Current(p, Aged(c, Absent), Aged(e, NoIndex), v)
<1> DEFINE d == Aged(c, Absent)
           f == Aged(e, NoIndex)
<1>1. /\ d = Absent \/ (d.version = c.version /\ c.ttl > 1 /\ d.ttl = c.ttl - 1)
      /\ f = NoIndex \/ (f.place = e.place /\ e.ttl > 1 /\ f.ttl = e.ttl - 1)
  BY AgedCopies, AgedPointers
<1>2. c.ttl \in Nat /\ e.ttl \in Nat /\ v # 0
  BY TimeRunsOut, VersionsAreNatural DEF Copies, Pointers, Absent, NoIndex
<1>3. f.place = p => f # NoIndex
  BY WorkingMemoryAssumption DEF NoIndex
<1>4. f = NoIndex => f = e \/ e.ttl =< 1
  <2>1. e \in Pointers => Aged(e, NoIndex) = e \/ e.ttl =< 1 \/ Aged(e, NoIndex).place \in Places
    <3>1. CASE e = NoIndex
      BY <3>1 DEF Aged, NoIndex
    <3>2. CASE e \in [place : Places, ttl : TimeLeft] /\ ~(e.ttl =< 1)
      BY <3>2 DEF Aged
    <3> QED
      BY <3>1, <3>2 DEF Pointers
  <2> QED
    BY <2>1, WorkingMemoryAssumption DEF NoIndex
<1>5. d.version = v => f.place = p /\ d.ttl =< f.ttl
  <2> SUFFICES ASSUME d.version = v
               PROVE  f.place = p /\ d.ttl =< f.ttl
    OBVIOUS
  <2>1. d # Absent
    BY <1>2 DEF Absent
  <2>2. c.version = v /\ c.ttl > 1 /\ d.ttl = c.ttl - 1
    BY <1>1, <2>1
  <2>3. e.place = p /\ c.ttl =< e.ttl
    BY <2>2 DEF Current
  <2>4. f # NoIndex
    BY <1>2, <1>4, <2>2, <2>3, WorkingMemoryAssumption DEF NoIndex
  <2> HIDE DEF d, f
  <2> QED
    BY <1>1, <1>2, <2>2, <2>3, <2>4
<1>6. f.place = p => d.version \in {0, v}
  <2> SUFFICES ASSUME f.place = p
               PROVE  d.version \in {0, v}
    OBVIOUS
  <2>1. e.place = p
    BY <1>1, <1>3
  <2>2. c.version \in {0, v}
    BY <2>1 DEF Current
  <2> QED
    BY <1>1, <2>2 DEF Absent
<1> QED
  BY <1>5, <1>6 DEF Current

LEMMA StoresStayOnTheirWay ==
  ASSUME MemoryInvariant, QuietInvariant, StoreInvariant, NEW w \in Workers, Step(w)
  PROVE  StoreInvariant'
<1> DEFINE o == op[w]
           q == op'[w]
<1>1. /\ o.pc # "idle" /\ UNCHANGED <<clock, homes>>
      /\ \A u \in Workers \ {w} : op'[u] = op[u]
      /\ q = Idle \/ GoesOn(o, q)
  BY OperationsGoOn DEF MemoryInvariant
<1>2. o # Idle /\ SoundOperation(o) /\ o.id \in Ids /\ o \in Operations
  <2>1. o # Idle
    BY <1>1 DEF Idle
  <2>2. SoundOperation(o) /\ o \in Operations
    BY DEF MemoryInvariant, OperationsAreSound, TypeOK
  <2> QED
    BY <1>1, <2>1, <2>2 DEF SoundOperation
<1>a. \A p \in Places, i \in Ids :
        \/ data'[p][i] = data[p][i]
        \/ /\ op[w].pc = "set" /\ op'[w].pc = "index" /\ p = op[w].place /\ i = op[w].id
           /\ data'[p][i] = [version |-> op[w].version, ttl |-> op[w].ttl]
        \/ /\ op[w].pc = "unset" /\ i = op[w].id /\ data'[p][i] = Absent
  BY WritesOfAStep
<1>b. \A i \in Ids :
        \/ index'[i] = index[i]
        \/ /\ op[w].pc = "index" /\ op'[w].pc = "latest" /\ i = op[w].id
           /\ index'[i] = [place |-> op[w].place, ttl |-> op[w].ttl]
        \/ op[w].pc = "unindex" /\ i = op[w].id /\ index'[i] = NoIndex
  BY WritesOfAStep
<1>c. \A i \in Ids :
        \/ settled'[i] = settled[i]
        \/ /\ i = op[w].id /\ op[w].pc = "trim" /\ op'[w] = Idle
           /\ settled'[i] = 0 \/ (op[w].alone /\ settled'[i] = op[w].version)
  BY MarksOfAStep
<1>3. ASSUME NEW i \in Ids, i # o.id
      PROVE  settled'[i] = settled[i] /\ index'[i] = index[i]
             /\ \A p \in Places : data'[p][i] = data[p][i]
  BY <1>3, <1>a, <1>b, <1>c
<1>4. ASSUME NEW u \in Workers, NEW p \in Places, u # w, op'[u].pc # "idle", op'[u].alone
      PROVE  OnItsWay(op'[u], p, data'[p][op'[u].id], index'[op'[u].id])
  <2>1. op'[u] = op[u]
    BY <1>1, <1>4
  <2>2. op[u] # Idle
    BY <1>4, <2>1 DEF Idle
  <2>3. op[u].id \in Ids
    BY <1>4, <2>1 DEF MemoryInvariant, OperationsAreSound, SoundOperation
  <2>4. op[u].id # o.id
    BY <1>2, <1>4, <2>1, <2>2 DEF QuietInvariant, AloneIsAlone
  <2>5. OnItsWay(op[u], p, data[p][op[u].id], index[op[u].id])
    BY <1>4, <2>1 DEF StoreInvariant, StoresGoWell
  <2> QED
    BY <1>3, <2>1, <2>3, <2>4, <2>5
<1>5. ASSUME NEW p \in Places, q.pc # "idle", q.alone
      PROVE  OnItsWay(q, p, data'[p][q.id], index'[q.id])
  <2> DEFINE c == data[p][o.id]
             d == data'[p][o.id]
             e == index[o.id]
             f == index'[o.id]
  <2>1. GoesOn(o, q) /\ q.id = o.id /\ q.version = o.version /\ q.ttl = o.ttl /\ o.alone
    <3>1. q # Idle
      BY <1>5 DEF Idle
    <3>2. GoesOn(o, q)
      BY <1>1, <3>1
    <3> QED
      BY <1>5, <3>2 DEF GoesOn
  <2>2. OnItsWay(o, p, c, e)
    BY <1>1, <2>1 DEF StoreInvariant, StoresGoWell
  <2>3. /\ \/ d = c
           \/ /\ o.pc = "set" /\ q.pc = "index" /\ p = o.place
              /\ d = [version |-> o.version, ttl |-> o.ttl]
           \/ o.pc = "unset"
        /\ o.pc = "set" /\ q.pc = "index" =>
             data'[o.place][o.id] = [version |-> o.version, ttl |-> o.ttl]
        /\ f = e \/ o.pc \in {"index", "unindex"}
        /\ o.pc = "index" /\ q.pc = "latest" => f = [place |-> o.place, ttl |-> o.ttl]
    BY <1>2, WritesOfAStep
  <2>4. CASE o.pc = "set"
    <3>1. q.pc = "index" /\ q.place = o.place /\ o.ttl \in Int
      <4>1. q.pc = "index" /\ q.place = o.place
        BY <2>1, <2>4 DEF GoesOn
      <4>2. o.ttl \in Lives \cup {0}
        BY <1>2 DEF Operations
      <4>3. \A t \in Lives \cup {0} : t \in Int
        BY WorkingMemoryAssumption
      <4>4. o.ttl \in Int
        BY <4>2, <4>3
      <4> QED
        BY <4>1, <4>4
    <3>2. c.version # o.version
      BY <2>2, <2>4 DEF OnItsWay
    <3>3. CASE p = o.place
      BY <2>1, <2>3, <2>4, <3>1, <3>3 DEF OnItsWay
    <3>4. CASE p # o.place
      BY <2>1, <2>3, <2>4, <3>1, <3>2, <3>4 DEF OnItsWay
    <3> QED
      BY <3>3, <3>4
  <2>5. CASE o.pc = "index"
    <3>1. q.pc = "latest" /\ q.place = o.place
      BY <2>1, <2>5 DEF GoesOn
    <3>2. d = c /\ f = [place |-> o.place, ttl |-> o.ttl]
      BY <2>3, <2>5, <3>1
    <3> QED
      BY <2>1, <2>2, <2>5, <3>1, <3>2 DEF OnItsWay, Current
  <2>6. CASE o.pc = "latest"
    <3>1. q.pc = "trim"
      BY <2>1, <2>6 DEF GoesOn
    <3>2. d = c /\ f = e
      BY <2>3, <2>6
    <3>3. Current(p, c, e, o.version)
      BY <2>2, <2>6 DEF OnItsWay
    <3> QED
      BY <2>1, <3>1, <3>2, <3>3 DEF OnItsWay
  <2>7. CASE o.pc \in {"get", "unindex"}
    <3>1. q.pc \in {"unindex", "unset"}
      BY <2>1, <2>7 DEF GoesOn
    <3> QED
      BY <3>1 DEF OnItsWay
  <2> QED
    BY <2>1, <2>4, <2>5, <2>6, <2>7 DEF GoesOn
<1>6. ASSUME NEW i \in Ids, NEW p \in Places, settled'[i] # 0
      PROVE  Current(p, data'[p][i], index'[i], settled'[i])
  <2>1. CASE i # o.id
    BY <1>3, <1>6, <2>1 DEF StoreInvariant, SettledIsCurrent
  <2>2. CASE i = o.id
    <3>1. settled[i] = 0
      BY <1>2, <2>2 DEF QuietInvariant, MarkedAreQuiet
    <3>2. o.pc = "trim" /\ o.alone /\ settled'[i] = o.version
      BY <1>6, <2>2, <3>1, MarksOfAStep
    <3>3. data'[p][i] = data[p][i] /\ index'[i] = index[i]
      BY <1>a, <1>b, <3>2
    <3>4. OnItsWay(o, p, data[p][o.id], index[o.id])
      BY <1>1, <3>2 DEF StoreInvariant, StoresGoWell
    <3> QED
      BY <2>2, <3>2, <3>3, <3>4 DEF OnItsWay
  <2> QED
    BY <2>1, <2>2
<1>7. StoresGoWell'
  <2> SUFFICES ASSUME NEW u \in Workers, NEW p \in Places, op'[u].pc # "idle", op'[u].alone
               PROVE  OnItsWay(op[u], p, data[p][op[u].id], index[op[u].id])'
    BY DEF StoresGoWell
  <2>1. OnItsWay(op'[u], p, data'[p][op'[u].id], index'[op'[u].id])
    BY <1>4, <1>5
  <2> QED
    BY <2>1 DEF OnItsWay, Current
<1>8. SettledIsCurrent'
  BY <1>6 DEF SettledIsCurrent, Current
<1> QED
  BY <1>7, <1>8 DEF StoreInvariant

LEMMA RequestsDisturbNoStore ==
  ASSUME MemoryInvariant, StoreInvariant, NEW w \in Workers, NEW o, Fresh(o), Begin(w, o)
  PROVE  StoreInvariant'
<1>0. /\ o.id \in Ids /\ UNCHANGED <<data, index>> /\ op \in [Workers -> Operations]
      /\ settled \in [Ids -> Versions \cup {0}]
      /\ settled' = [settled EXCEPT ![o.id] = 0]
      /\ SameButAlone(o, op'[w])
      /\ \A u \in Workers \ {w} : /\ SameButAlone(op[u], op'[u])
                                  /\ op'[u].alone => op[u].alone
  BY OperationsBegin DEF MemoryInvariant, TypeOK, Fresh
<1>1. ASSUME NEW u \in Workers, NEW p \in Places, op'[u].pc # "idle", op'[u].alone
      PROVE  OnItsWay(op'[u], p, data[p][op'[u].id], index[op'[u].id])
  <2>1. CASE u = w
    <3>1. CASE o.pc = "set"
      <4>1. data[p][o.id].version # clock + 1
        <5>1. data[p][o.id] \in Copies /\ clock \in Nat
          BY <1>0, ClockIsNatural DEF MemoryInvariant, TypeOK
        <5>2. data[p][o.id] # Absent => data[p][o.id].version =< clock
          BY <1>0 DEF MemoryInvariant, AtHome
        <5>3. data[p][o.id] = Absent => data[p][o.id].version = 0
          BY DEF Absent
        <5>4. data[p][o.id] # Absent => data[p][o.id].version \in Nat
          BY <5>1, VersionsAreNatural DEF Copies
        <5> QED
          BY <5>1, <5>2, <5>3, <5>4
      <4> QED
        BY <1>0, <2>1, <3>1, <4>1 DEF Fresh, SameButAlone, OnItsWay
    <3>2. CASE o.pc = "get"
      BY <1>0, <2>1, <3>2 DEF SameButAlone, OnItsWay
    <3> QED
      BY <3>1, <3>2 DEF Fresh
  <2>2. CASE u # w
    <3>1. SameButAlone(op[u], op'[u]) /\ op[u].alone
      BY <1>0, <1>1, <2>2
    <3>2. OnItsWay(op[u], p, data[p][op[u].id], index[op[u].id])
      BY <1>1, <3>1 DEF SameButAlone, StoreInvariant, StoresGoWell
    <3> QED
      BY <3>1, <3>2 DEF SameButAlone, OnItsWay
  <2> QED
    BY <2>1, <2>2
<1>2. StoresGoWell'
  <2> SUFFICES ASSUME NEW u \in Workers, NEW p \in Places, op'[u].pc # "idle", op'[u].alone
               PROVE  OnItsWay(op[u], p, data[p][op[u].id], index[op[u].id])'
    BY DEF StoresGoWell
  <2> QED
    BY <1>0, <1>1 DEF OnItsWay, Current
<1>3. SettledIsCurrent'
  BY <1>0 DEF StoreInvariant, SettledIsCurrent, Current
<1> QED
  BY <1>2, <1>3 DEF StoreInvariant

LEMMA TicksDisturbNoStore ==
  ASSUME MemoryInvariant, StoreInvariant, Tick
  PROVE  StoreInvariant'
<1>1. /\ UNCHANGED <<op, settled>> /\ TypeOK
      /\ data \in [Places -> [Ids -> Copies]] /\ index \in [Ids -> Pointers]
      /\ settled \in [Ids -> Versions \cup {0}]
      /\ \A p \in Places, i \in Ids : data'[p][i] = Aged(data[p][i], Absent)
      /\ \A i \in Ids : index'[i] = Aged(index[i], NoIndex)
  BY TicksAge DEF MemoryInvariant, TypeOK
<1>2. ASSUME NEW i \in Ids, NEW p \in Places, settled[i] # 0
      PROVE  Current(p, data'[p][i], index'[i], settled[i])
  BY <1>1, <1>2, CurrentStaysCurrent DEF StoreInvariant, SettledIsCurrent
<1>3. ASSUME NEW u \in Workers, NEW p \in Places, op[u].pc # "idle", op[u].alone
      PROVE  OnItsWay(op[u], p, data'[p][op[u].id], index'[op[u].id])
  <2> DEFINE o == op[u]
             c == data[p][o.id]
             e == index[o.id]
  <2>1. SoundOperation(o) /\ o.id \in Ids
    BY <1>3 DEF MemoryInvariant, OperationsAreSound, SoundOperation
  <2>2. c \in Copies /\ e \in Pointers /\ OnItsWay(o, p, c, e)
    BY <1>1, <1>3, <2>1 DEF StoreInvariant, StoresGoWell
  <2>3. data'[p][o.id] = Aged(c, Absent) /\ index'[o.id] = Aged(e, NoIndex)
    BY <1>1, <2>1
  <2>4. CASE o.pc \in {"latest", "trim"}
    <3>1. Current(p, c, e, o.version) /\ o.version \in Versions
      BY <2>1, <2>2, <2>4 DEF OnItsWay, SoundOperation, Storing
    <3>2. Current(p, Aged(c, Absent), Aged(e, NoIndex), o.version)
      BY <2>2, <3>1, CurrentStaysCurrent
    <3> QED
      BY <2>3, <2>4, <3>2 DEF OnItsWay
  <2>5. CASE o.pc \in {"set", "index"}
    <3>1. o.version \in Versions /\ o.version # 0 /\ o.ttl \in Int
      <4>1. o.version \in Versions
        BY <2>1, <2>5 DEF SoundOperation, Storing
      <4>2. o \in Operations
        BY <1>1
        DEF TypeOK
      <4>3. o.ttl \in Lives \cup {0}
        BY <4>2 DEF Operations
      <4>4. Lives \subseteq Int
        BY WorkingMemoryAssumption
      <4>5. o.version # 0
        BY <4>1, VersionsAreNatural
      <4>6. o.ttl \in Int
        <5>1. \A t \in Lives \cup {0} : t \in Int
          BY ONLY <4>4
        <5> QED
          BY ONLY <4>3, <5>1
      <4> QED
        BY ONLY <4>1, <4>5, <4>6
    <3> DEFINE d == Aged(c, Absent)
    <3>2. \/ d = Absent
          \/ d.version = c.version /\ c.ttl > 1 /\ d.ttl = c.ttl - 1
      BY <2>2, AgedCopies
    <3>3. c.ttl \in Int
      BY <2>2, TimeRunsOut DEF Copies, Absent
    <3>4. CASE d = Absent
      <4>1. d.version = 0
        BY <3>4 DEF Absent
      <4> HIDE DEF d
      <4>2. OnItsWay(o, p, d, index'[o.id])
        BY <2>5, <3>1, <4>1 DEF OnItsWay
      <4> QED
        BY <2>3, <4>2 DEF d
    <3>5. CASE d.version = c.version /\ c.ttl > 1 /\ d.ttl = c.ttl - 1
      <4> HIDE DEF d
      <4>1. OnItsWay(o, p, d, index'[o.id])
        BY <2>2, <2>5, <3>1, <3>3, <3>5 DEF OnItsWay
      <4> QED
        BY <2>3, <4>1 DEF d
    <3> QED
      BY <3>2, <3>4, <3>5
  <2>6. CASE o.pc \notin {"set", "index", "latest", "trim"}
    BY <2>6 DEF OnItsWay
  <2> QED
    BY <2>4, <2>5, <2>6
<1>4. StoresGoWell'
  <2> SUFFICES ASSUME NEW u \in Workers, NEW p \in Places, op'[u].pc # "idle", op'[u].alone
               PROVE  OnItsWay(op[u], p, data[p][op[u].id], index[op[u].id])'
    BY DEF StoresGoWell
  <2> QED
    BY <1>1, <1>3 DEF OnItsWay, Current
<1>5. SettledIsCurrent'
  BY <1>1, <1>2 DEF SettledIsCurrent, Current
<1> QED
  BY <1>4, <1>5 DEF StoreInvariant

LEMMA StoreIsInductive ==
  MemoryInvariant /\ QuietInvariant /\ StoreInvariant /\ [Next]_vars => StoreInvariant'
<1> SUFFICES ASSUME MemoryInvariant, QuietInvariant, StoreInvariant, [Next]_vars
             PROVE  StoreInvariant'
  OBVIOUS
<1>1. CASE UNCHANGED vars
  BY <1>1 DEF vars, StoreInvariant, StoresGoWell, SettledIsCurrent, OnItsWay, Current
<1>2. ASSUME NEW w \in Workers, NEW i \in Ids,
             Delete(w, i) \/ \E p \in Places, life \in Lives : Store(w, i, p, life)
      PROVE  StoreInvariant'
  BY <1>2, RequestsAreFresh, RequestsDisturbNoStore DEF MemoryInvariant
<1> QED
  BY <1>1, <1>2, StoresStayOnTheirWay, TicksDisturbNoStore DEF Next

\* What was stored last is found for as long as its data lives, and nothing older
\* is found in its place: the data is written before the index
\* (valkey_store.go:59-66), so its entry always outlives it.
THEOREM StoredMemoriesAreFound == Spec => []SettledIsRetrievable
<1>1. Init => StoreInvariant
  BY DEF Init, StoreInvariant, StoresGoWell, SettledIsCurrent, Idle
<1>2. MemoryInvariant /\ StoreInvariant => SettledIsRetrievable
  <2> SUFFICES ASSUME MemoryInvariant, StoreInvariant, NEW i \in Ids, settled[i] # 0
               PROVE  /\ Retrieved(i) \in {0, settled[i]}
                      /\ \A p \in Places :
                           data[p][i].version = settled[i] => Retrieved(i) = settled[i]
    BY DEF SettledIsRetrievable
  <2>1. \A p \in Places : Current(p, data[p][i], index[i], settled[i])
    BY DEF StoreInvariant, SettledIsCurrent
  <2>2. index[i] = NoIndex \/ index[i].place \in Places
    BY DEF MemoryInvariant, TypeOK, Pointers
  <2>3. index[i] = NoIndex => index[i].place \notin Places
    BY WorkingMemoryAssumption DEF NoIndex
  <2> QED
    BY <2>1, <2>2, <2>3 DEF Retrieved, Current
<1> QED
  BY <1>1, <1>2, MemoryIsInvariant, QuietIsInvariant, StoreIsInductive, PTL DEF Spec
-----------------------------------------------------------------------------
(* The sorted sets.                                                        *)

Distinct(set) == \A e, f \in set : e.at = f.at => e = f

Members == [id : Ids, at : Versions]

\* Of a set whose scores differ, the trim leaves no more members than it should:
\* each is told from the others by how many are newer.
LEMMA NewestAreFew ==
  ASSUME NEW set \in SUBSET Members, IsFiniteSet(set), Distinct(set), NEW n \in Nat \ {0}
  PROVE  IsFiniteSet(Newest(set, n)) /\ Cardinality(Newest(set, n)) =< n
<1> DEFINE Newer(e) == {f \in set : f.at > e.at}
           few == Newest(set, n)
           rank == [e \in few |-> Cardinality(Newer(e))]
<1>1. ASSUME NEW e \in set
      PROVE  IsFiniteSet(Newer(e)) /\ Cardinality(Newer(e)) \in Nat /\ e.at \in Nat
  <2>1. Newer(e) \in SUBSET set
    OBVIOUS
  <2>2. IsFiniteSet(Newer(e))
    BY <2>1, FS_Subset
  <2>3. e.at \in Versions
    BY DEF Members
  <2> QED
    BY <2>2, <2>3, FS_CardinalityType, VersionsAreNatural
<1>2. ASSUME NEW e \in set, NEW f \in set, e.at > f.at
      PROVE  Cardinality(Newer(e)) # Cardinality(Newer(f))
  <2>0. \A g \in set : g.at \in Nat
    BY <1>1
  <2>1. e \in Newer(f) /\ e \notin Newer(e)
    BY <1>2, <2>0
  <2>2. Newer(e) \in SUBSET Newer(f)
    BY <1>2, <2>0
  <2>3. Newer(e) # Newer(f)
    BY <2>1
  <2>4. IsFiniteSet(Newer(f))
    BY <1>1
  <2> HIDE DEF Newer
  <2> QED
    BY <2>2, <2>3, <2>4, FS_Subset
<1>3. ASSUME NEW e \in set, NEW f \in set, e # f
      PROVE  Cardinality(Newer(e)) # Cardinality(Newer(f))
  <2>1. e.at \in Nat /\ f.at \in Nat /\ e.at # f.at
    BY <1>1, <1>3 DEF Distinct
  <2>2. e.at > f.at \/ f.at > e.at
    BY <2>1
  <2> HIDE DEF Newer
  <2> QED
    BY <1>2, <2>2
<1>4. \A e \in few : e \in set /\ Cardinality(Newer(e)) \in 0..(n - 1)
  <2> SUFFICES ASSUME NEW e \in few
               PROVE  e \in set /\ Cardinality(Newer(e)) \in 0..(n - 1)
    OBVIOUS
  <2>1. e \in set /\ Cardinality(Newer(e)) < n
    BY DEF Newest
  <2>2. Cardinality(Newer(e)) \in Nat
    BY <1>1, <2>1
  <2> HIDE DEF Newer
  <2> QED
    BY <2>1, <2>2
<1> HIDE DEF Newer, few
<1>5. rank \in Injection(few, 0..(n - 1))
  BY <1>3, <1>4 DEF Injection, IsInjective
<1>6. IsFiniteSet(0..(n - 1)) /\ Cardinality(0..(n - 1)) = n
  BY FS_Interval
<1> HIDE DEF rank
<1> QED
  BY <1>5, <1>6, FS_Injection DEF few

\* The members of the sorted sets, and the Stores under way, each have a moment
\* of their own.
MomentsDiffer ==
  /\ \A p \in Places :
       /\ IsFiniteSet(latest[p]) /\ Distinct(latest[p])
       /\ \A e \in latest[p] : e.at =< clock
  /\ \A w, u \in Workers :
       w # u /\ op[w].pc \in Storing /\ op[u].pc \in Storing => op[w].version # op[u].version
  /\ \A w \in Workers : op[w].pc \in Storing \ {"trim"} =>
       \A p \in Places : \A e \in latest[p] : e.at # op[w].version

Trimmers(o, p) == {w \in Workers : o[w].pc = "trim" /\ o[w].place = p}

TrimsAreFew ==
  \A p \in Places :
    /\ IsFiniteSet(Trimmers(op, p))
    /\ Cardinality(latest[p]) =< LatestCap + Cardinality(Trimmers(op, p)) + untrimmed[p]

\* Only ZADD adds a member.
LEMMA LatestOfAStep ==
  ASSUME MemoryInvariant, NEW w \in Workers, Step(w)
  PROVE  \A p \in Places :
           \/ latest'[p] \in SUBSET latest[p]
           \/ /\ op[w].pc = "latest" /\ op'[w].pc = "trim" /\ p = op[w].place
              /\ latest'[p] \in SUBSET (latest[p] \cup {[id |-> op[w].id, at |-> op[w].version]})
<1> DEFINE o == op[w]
<1>0. /\ op \in [Workers -> Operations] /\ o \in Operations
      /\ latest \in [Places -> SUBSET Members]
  BY DEF MemoryInvariant, TypeOK, Members
<1>1. CASE AddLatest(w)
  <2> DEFINE x == [id |-> o.id, at |-> o.version]
             set == {e \in latest[o.place] : e.id # o.id} \cup {x}
  <2>1. o.pc = "latest" /\ latest' = [latest EXCEPT ![o.place] = set]
    BY <1>1 DEF AddLatest
  <2>2. op'[w].pc = "trim"
    BY <1>0, <1>1 DEF AddLatest, Goto, Operations
  <2> HIDE DEF x
  <2>3. set \in SUBSET (latest[o.place] \cup {x})
    OBVIOUS
  <2> HIDE DEF set
  <2>4. \A p \in Places : latest'[p] = IF p = o.place THEN set ELSE latest[p]
    BY <1>0, <2>1
  <2> QED
    BY <2>1, <2>2, <2>3, <2>4 DEF x
<1>2. CASE TrimLatest(w)
  <2>1. latest' = [latest EXCEPT ![o.place] = Newest(latest[o.place], LatestCap)]
    BY <1>0, <1>2 DEF TrimLatest
  <2>2. Newest(latest[o.place], LatestCap) \in SUBSET latest[o.place]
    BY DEF Newest
  <2> QED
    BY <1>0, <2>1, <2>2
<1>3. CASE \/ SetRefused(w) \/ SetData(w) \/ SetIndex(w) \/ TrimFails(w) \/ GetIndex(w)
           \/ DeleteIndex(w) \/ DeleteData(w) \/ CommandFails(w)
  <2>1. UNCHANGED latest
    BY <1>3 DEF SetRefused, SetData, SetIndex, TrimFails, GetIndex, DeleteIndex, DeleteData,
                CommandFails, keys
  <2> QED
    BY <2>1
<1> QED
  BY <1>1, <1>2, <1>3 DEF Step

LEMMA StepsKeepMomentsApart ==
  ASSUME MemoryInvariant, MomentsDiffer, NEW w \in Workers, Step(w)
  PROVE  MomentsDiffer'
<1> DEFINE o == op[w]
           x == [id |-> o.id, at |-> o.version]
<1>1. /\ UNCHANGED clock /\ o.pc # "idle"
      /\ \A u \in Workers \ {w} : op'[u] = op[u]
      /\ op'[w] = Idle \/ GoesOn(o, op'[w])
  BY OperationsGoOn DEF MemoryInvariant
<1>2. ASSUME op'[w].pc \in Storing
      PROVE  /\ o.pc \in Storing /\ op'[w].version = o.version
             /\ op'[w].pc # "trim" => o.pc # "trim" /\ op'[w].pc # "trim" /\ o.pc # "latest"
  <2>1. op'[w] # Idle
    BY <1>2 DEF Idle, Storing
  <2>2. GoesOn(o, op'[w])
    BY <1>1, <2>1
  <2> QED
    BY <1>2, <2>2 DEF GoesOn, Storing
<1>3. SoundOperation(o)
  BY DEF MemoryInvariant, OperationsAreSound
<1>4. \A p \in Places :
        \/ latest'[p] \in SUBSET latest[p]
        \/ /\ o.pc = "latest" /\ op'[w].pc = "trim" /\ p = o.place
           /\ latest'[p] \in SUBSET (latest[p] \cup {x})
  BY LatestOfAStep
<1>5. x.at = o.version /\ x = x
  OBVIOUS
<1> HIDE DEF x
<1>6. ASSUME NEW p \in Places
      PROVE  /\ IsFiniteSet(latest'[p]) /\ Distinct(latest'[p])
             /\ \A e \in latest'[p] : e.at =< clock
  <2>1. /\ IsFiniteSet(latest[p]) /\ Distinct(latest[p])
        /\ \A e \in latest[p] : e.at =< clock
    BY DEF MomentsDiffer
  <2>2. CASE latest'[p] \in SUBSET latest[p]
    BY <2>1, <2>2, FS_Subset DEF Distinct
  <2>3. CASE o.pc = "latest" /\ latest'[p] \in SUBSET (latest[p] \cup {x})
    <3>1. IsFiniteSet(latest[p] \cup {x})
      BY <2>1, FS_AddElement
    <3>2. IsFiniteSet(latest'[p])
      BY <2>3, <3>1, FS_Subset
    <3>3. x.at =< clock
      BY <1>3, <1>5, <2>3 DEF SoundOperation, Storing
    <3>4. \A e \in latest[p] : e.at # x.at
      BY <1>5, <2>3 DEF MomentsDiffer, Storing
    <3>5. Distinct(latest'[p])
      BY <2>1, <2>3, <3>4 DEF Distinct
    <3> QED
      BY <2>1, <2>3, <3>2, <3>3, <3>5
  <2> QED
    BY <1>4, <2>2, <2>3
<1>7. ASSUME NEW u \in Workers, NEW v \in Workers, u # v,
             op'[u].pc \in Storing, op'[v].pc \in Storing
      PROVE  op'[u].version # op'[v].version
  <2>1. ASSUME NEW t \in {u, v}
        PROVE  op[t].pc \in Storing /\ op'[t].version = op[t].version
    BY <1>1, <1>2, <1>7, <2>1
  <2> QED
    BY <1>7, <2>1 DEF MomentsDiffer
<1>8. ASSUME NEW u \in Workers, op'[u].pc \in Storing \ {"trim"}, NEW p \in Places,
             NEW e \in latest'[p]
      PROVE  e.at # op'[u].version
  <2>1. op[u].pc \in Storing \ {"trim"} /\ op'[u].version = op[u].version
        /\ (u = w => o.pc # "latest")
    BY <1>1, <1>2, <1>8
  <2>2. CASE e \in latest[p]
    BY <2>1, <2>2 DEF MomentsDiffer
  <2>3. CASE e \notin latest[p]
    <3>1. o.pc = "latest" /\ e = x
      BY <1>4, <1>8, <2>3
    <3>2. op[u].version # o.version
      BY <2>1, <3>1 DEF MomentsDiffer, Storing
    <3> QED
      BY <1>5, <2>1, <3>1, <3>2
  <2> QED
    BY <2>2, <2>3
<1> QED
  BY <1>1, <1>6, <1>7, <1>8 DEF MomentsDiffer

LEMMA RequestsKeepMomentsApart ==
  ASSUME MemoryInvariant, MomentsDiffer, NEW w \in Workers, NEW o, Fresh(o), Begin(w, o)
  PROVE  MomentsDiffer'
<1>0. /\ UNCHANGED latest /\ clock \in Nat /\ clock' = clock + 1
      /\ latest \in [Places -> SUBSET Members]
      /\ SameButAlone(o, op'[w])
      /\ \A u \in Workers \ {w} : SameButAlone(op[u], op'[u])
  BY OperationsBegin, ClockIsNatural DEF MemoryInvariant, TypeOK, Fresh, Members
<1>1. op'[w].pc \in Storing => op'[w].version = clock + 1
  BY <1>0 DEF SameButAlone, Fresh, Storing
<1>2. \A u \in Workers \ {w} : op'[u].pc = op[u].pc /\ op'[u].version = op[u].version
  BY <1>0 DEF SameButAlone
<1>3. \A u \in Workers : op[u].pc \in Storing =>
        op[u].version \in Nat /\ op[u].version =< clock
  BY VersionsAreNatural DEF MemoryInvariant, OperationsAreSound, SoundOperation
<1>4. ASSUME NEW p \in Places, NEW e \in latest[p]
      PROVE  e.at \in Nat /\ e.at =< clock
  <2>1. e.at \in Versions
    BY <1>0 DEF Members
  <2> QED
    BY <2>1, VersionsAreNatural DEF MomentsDiffer
<1>5. ASSUME NEW p \in Places
      PROVE  /\ IsFiniteSet(latest'[p]) /\ Distinct(latest'[p])
             /\ \A e \in latest'[p] : e.at =< clock'
  <2>1. IsFiniteSet(latest[p]) /\ Distinct(latest[p])
    BY DEF MomentsDiffer
  <2> QED
    BY <1>0, <1>4, <2>1
<1>6. ASSUME NEW u \in Workers, NEW v \in Workers, u # v,
             op'[u].pc \in Storing, op'[v].pc \in Storing
      PROVE  op'[u].version # op'[v].version
  <2>1. CASE u = w
    BY <1>0, <1>1, <1>2, <1>3, <1>6, <2>1
  <2>2. CASE v = w
    BY <1>0, <1>1, <1>2, <1>3, <1>6, <2>2
  <2>3. CASE u # w /\ v # w
    BY <1>2, <1>6, <2>3 DEF MomentsDiffer
  <2> QED
    BY <2>1, <2>2, <2>3
<1>7. ASSUME NEW u \in Workers, op'[u].pc \in Storing \ {"trim"}, NEW p \in Places,
             NEW e \in latest[p]
      PROVE  e.at # op'[u].version
  <2>1. CASE u = w
    BY <1>0, <1>1, <1>4, <1>7, <2>1
  <2>2. CASE u # w
    BY <1>2, <1>7, <2>2 DEF MomentsDiffer
  <2> QED
    BY <2>1, <2>2
<1> QED
  BY <1>0, <1>5, <1>6, <1>7 DEF MomentsDiffer

LEMMA MomentsAreInductive == MemoryInvariant /\ MomentsDiffer /\ [Next]_vars => MomentsDiffer'
<1> SUFFICES ASSUME MemoryInvariant, MomentsDiffer, [Next]_vars
             PROVE  MomentsDiffer'
  OBVIOUS
<1>1. CASE UNCHANGED <<op, clock, latest>>
  BY <1>1 DEF MomentsDiffer, Distinct
<1>2. ASSUME NEW w \in Workers, NEW i \in Ids,
             Delete(w, i) \/ \E p \in Places, life \in Lives : Store(w, i, p, life)
      PROVE  MomentsDiffer'
  BY <1>2, RequestsAreFresh, RequestsKeepMomentsApart DEF MemoryInvariant
<1>3. CASE Tick
  BY <1>1, <1>3 DEF Tick
<1> QED
  BY <1>1, <1>2, <1>3, StepsKeepMomentsApart DEF Next, vars

\* A Store that has added its member is there to trim; one whose trim failed has
\* been counted.
LEMMA StepsTrim ==
  ASSUME MemoryInvariant, MomentsDiffer, TrimsAreFew, NEW w \in Workers, Step(w)
  PROVE  TrimsAreFew'
<1> DEFINE o == op[w]
           Bound(p) ==
             /\ IsFiniteSet(Trimmers(op', p))
             /\ Cardinality(latest'[p]) =< LatestCap + Cardinality(Trimmers(op', p)) + untrimmed'[p]
<1>0. /\ op \in [Workers -> Operations] /\ o \in Operations /\ SoundOperation(o)
      /\ latest \in [Places -> SUBSET Members] /\ untrimmed \in [Places -> Nat]
      /\ homes \in [Ids -> SUBSET Places] /\ LatestCap \in Nat \ {0}
  BY WorkingMemoryAssumption DEF MemoryInvariant, TypeOK, OperationsAreSound, Members
<1>1. /\ \A u \in Workers \ {w} : op'[u] = op[u]
      /\ op'[w] = Idle \/ GoesOn(o, op'[w])
  BY OperationsGoOn DEF MemoryInvariant
<1>2. ASSUME NEW p \in Places
      PROVE  /\ IsFiniteSet(Trimmers(op, p)) /\ Cardinality(Trimmers(op, p)) \in Nat
             /\ IsFiniteSet(latest[p]) /\ Cardinality(latest[p]) \in Nat
             /\ untrimmed[p] \in Nat
             /\ Cardinality(latest[p]) =< LatestCap + Cardinality(Trimmers(op, p)) + untrimmed[p]
  BY <1>0, FS_CardinalityType DEF TrimsAreFew, MomentsDiffer
<1>3. ASSUME NEW p \in Places, p # o.place \/ (o.pc # "trim" /\ op'[w].pc # "trim"),
             op'[w] = Idle \/ op'[w].place = o.place \/ op'[w].pc # "trim"
      PROVE  Trimmers(op', p) = Trimmers(op, p)
  <2>1. \A u \in Workers : (op'[u].pc = "trim" /\ op'[u].place = p)
                             <=> (op[u].pc = "trim" /\ op[u].place = p)
    BY <1>1, <1>3 DEF Idle
  <2> QED
    BY <2>1 DEF Trimmers
<1>4. op'[w] = Idle \/ op'[w].place = o.place \/ op'[w].pc # "trim"
  BY <1>1 DEF GoesOn
<1>5. CASE AddLatest(w)
  <2> DEFINE x == [id |-> o.id, at |-> o.version]
             P == o.place
             set == {e \in latest[P] : e.id # o.id} \cup {x}
  <2>1. /\ o.pc = "latest" /\ latest' = [latest EXCEPT ![P] = set] /\ UNCHANGED untrimmed
        /\ op' = [op EXCEPT ![w].pc = "trim"]
    BY <1>5 DEF AddLatest, Goto
  <2>2. op'[w].pc = "trim" /\ op'[w].place = P /\ P \in Places
    BY <1>0, <2>1 DEF Operations, SoundOperation, Storing
  <2> HIDE DEF x
  <2>3. IsFiniteSet(set) /\ Cardinality(set) =< Cardinality(latest[P]) + 1
    <3>1. set \in SUBSET (latest[P] \cup {x})
      OBVIOUS
    <3>2. /\ IsFiniteSet(latest[P] \cup {x})
          /\ Cardinality(latest[P] \cup {x}) =< Cardinality(latest[P]) + 1
      <4>1. IsFiniteSet(latest[P]) /\ Cardinality(latest[P]) \in Nat
        BY <1>2, <2>2
      <4>2. /\ IsFiniteSet(latest[P] \cup {x})
            /\ \/ Cardinality(latest[P] \cup {x}) = Cardinality(latest[P])
               \/ Cardinality(latest[P] \cup {x}) = Cardinality(latest[P]) + 1
        BY <4>1, FS_AddElement
      <4> QED
        BY <4>1, <4>2
    <3> HIDE DEF set
    <3>3. IsFiniteSet(set) /\ Cardinality(set) =< Cardinality(latest[P] \cup {x})
      BY <3>1, <3>2, FS_Subset
    <3> QED
      BY <1>2, <2>2, <3>2, <3>3, FS_CardinalityType
  <2> HIDE DEF set
  <2>4. \A p \in Places : latest'[p] = IF p = P THEN set ELSE latest[p]
    BY <1>0, <2>1
  <2>5. ASSUME NEW p \in Places, p # P
        PROVE  Bound(p)
    BY <1>2, <1>3, <1>4, <2>1, <2>4, <2>5
  <2>6. Bound(P)
    <3>1. Trimmers(op', P) = Trimmers(op, P) \cup {w} /\ w \notin Trimmers(op, P)
      BY <1>1, <2>1, <2>2 DEF Trimmers
    <3>2. /\ IsFiniteSet(Trimmers(op', P))
          /\ Cardinality(Trimmers(op', P)) = Cardinality(Trimmers(op, P)) + 1
      <4>1. IsFiniteSet(Trimmers(op, P))
        BY <1>2, <2>2
      <4>2. /\ IsFiniteSet(Trimmers(op, P) \cup {w})
            /\ Cardinality(Trimmers(op, P) \cup {w}) = Cardinality(Trimmers(op, P)) + 1
        BY <3>1, <4>1, FS_AddElement
      <4> QED
        BY ONLY <3>1, <4>2
    <3>3. Cardinality(set) \in Nat
      BY <2>3, FS_CardinalityType
    <3> QED
      BY <1>0, <1>2, <2>1, <2>2, <2>3, <2>4, <3>2, <3>3
  <2> QED
    BY <2>5, <2>6 DEF TrimsAreFew, Trimmers
<1>6. CASE TrimLatest(w)
  <2> DEFINE P == o.place
             set == Newest(latest[P], LatestCap)
  <2>1. /\ o.pc = "trim" /\ latest' = [latest EXCEPT ![P] = set]
        /\ untrimmed' = [untrimmed EXCEPT ![P] = 0] /\ op' = [op EXCEPT ![w] = Idle]
    BY <1>0, <1>6 DEF TrimLatest, Finish
  <2>2. op'[w] = Idle /\ P \in Places
    BY <1>0, <2>1 DEF SoundOperation, Storing
  <2>3. Cardinality(set) =< LatestCap /\ Cardinality(set) \in Nat
    <3>1. latest[P] \in SUBSET Members /\ IsFiniteSet(latest[P]) /\ Distinct(latest[P])
      BY <1>0, <2>2 DEF MomentsDiffer
    <3>2. IsFiniteSet(set) /\ Cardinality(set) =< LatestCap
      BY <1>0, <3>1, NewestAreFew
    <3> QED
      BY <3>2, FS_CardinalityType
  <2> HIDE DEF set
  <2>4. /\ \A p \in Places : latest'[p] = IF p = P THEN set ELSE latest[p]
        /\ \A p \in Places : untrimmed'[p] = IF p = P THEN 0 ELSE untrimmed[p]
    BY <1>0, <2>1
  <2>5. ASSUME NEW p \in Places, p # P
        PROVE  Bound(p)
    BY <1>2, <1>3, <1>4, <2>4, <2>5
  <2>6. Bound(P)
    <3>1. Trimmers(op', P) \in SUBSET Trimmers(op, P)
      BY <1>1, <2>2 DEF Trimmers, Idle
    <3>2. IsFiniteSet(Trimmers(op', P)) /\ Cardinality(Trimmers(op', P)) \in Nat
      BY <1>2, <2>2, <3>1, FS_Subset, FS_CardinalityType
    <3> QED
      BY <1>0, <2>2, <2>3, <2>4, <3>2
  <2> QED
    BY <2>5, <2>6 DEF TrimsAreFew, Trimmers
<1>7. CASE TrimFails(w)
  <2> DEFINE P == o.place
  <2>1. /\ o.pc = "trim" /\ UNCHANGED latest /\ op' = [op EXCEPT ![w] = Idle]
        /\ untrimmed' = [untrimmed EXCEPT ![P] = @ + 1]
    BY <1>7 DEF TrimFails, Finish
  <2>2. op'[w] = Idle /\ P \in Places
    BY <1>0, <2>1 DEF SoundOperation, Storing
  <2>3. \A p \in Places : untrimmed'[p] = IF p = P THEN untrimmed[p] + 1 ELSE untrimmed[p]
    BY <1>0, <2>1
  <2>4. ASSUME NEW p \in Places, p # P
        PROVE  Bound(p)
    BY <1>2, <1>3, <1>4, <2>1, <2>3, <2>4
  <2>5. Bound(P)
    <3>1. Trimmers(op', P) = Trimmers(op, P) \ {w} /\ w \in Trimmers(op, P)
      BY <1>1, <2>1, <2>2 DEF Trimmers, Idle
    <3>2. /\ IsFiniteSet(Trimmers(op', P))
          /\ Cardinality(Trimmers(op', P)) = Cardinality(Trimmers(op, P)) - 1
      BY <1>2, <2>2, <3>1, FS_RemoveElement
    <3> QED
      BY <1>0, <1>2, <2>1, <2>2, <2>3, <3>2
  <2> QED
    BY <2>4, <2>5 DEF TrimsAreFew, Trimmers
<1>8. CASE \/ SetRefused(w) \/ SetData(w) \/ SetIndex(w) \/ GetIndex(w)
           \/ DeleteIndex(w) \/ DeleteData(w) \/ CommandFails(w)
  <2>1. UNCHANGED <<latest, untrimmed>>
    BY <1>8 DEF SetRefused, SetData, SetIndex, GetIndex, DeleteIndex, DeleteData,
                CommandFails, keys
  <2>2. o.pc \notin {"latest", "trim"} \/ (o.pc = "latest" /\ op'[w] = Idle)
    <3>1. CASE CommandFails(w)
      <4>1. op' = [op EXCEPT ![w] = Idle] /\ o.pc # "trim"
        BY <3>1 DEF CommandFails, Finish
      <4>2. op'[w] = Idle
        BY <1>0, <4>1
      <4> QED
        BY <4>1, <4>2
    <3>2. CASE ~CommandFails(w)
      BY <1>8, <3>2 DEF SetRefused, SetData, SetIndex, GetIndex, DeleteIndex, DeleteData
    <3> QED
      BY <3>1, <3>2
  <2>3. o.pc # "trim" /\ op'[w].pc # "trim"
    BY <1>1, <2>2 DEF GoesOn, Idle
  <2>4. ASSUME NEW p \in Places
        PROVE  Bound(p)
    BY <1>2, <1>3, <1>4, <2>1, <2>3
  <2> QED
    BY <2>4 DEF TrimsAreFew, Trimmers
<1> QED
  BY <1>5, <1>6, <1>7, <1>8 DEF Step

LEMMA RequestsTrimNothing ==
  ASSUME MemoryInvariant, TrimsAreFew, NEW w \in Workers, NEW o, Fresh(o), Begin(w, o)
  PROVE  TrimsAreFew'
<1>1. /\ UNCHANGED <<latest, untrimmed>>
      /\ op[w] = Idle /\ SameButAlone(o, op'[w])
      /\ \A u \in Workers \ {w} : SameButAlone(op[u], op'[u])
  BY OperationsBegin DEF MemoryInvariant, Fresh
<1>2. op[w].pc # "trim"
  BY <1>1 DEF Idle
<1>3. op'[w].pc # "trim"
  BY <1>1 DEF SameButAlone, Fresh
<1>4. \A u \in Workers \ {w} : op'[u].pc = op[u].pc /\ op'[u].place = op[u].place
  BY <1>1 DEF SameButAlone
<1>5. ASSUME NEW p \in Places
      PROVE  Trimmers(op', p) = Trimmers(op, p)
  BY <1>2, <1>3, <1>4 DEF Trimmers
<1>6. ASSUME NEW p \in Places
      PROVE  /\ IsFiniteSet(Trimmers(op', p))
             /\ Cardinality(latest'[p]) =<
                  LatestCap + Cardinality(Trimmers(op', p)) + untrimmed'[p]
  BY <1>1, <1>5 DEF TrimsAreFew
<1> QED
  BY <1>6 DEF TrimsAreFew, Trimmers

LEMMA TrimsAreInductive ==
  MemoryInvariant /\ MomentsDiffer /\ TrimsAreFew /\ [Next]_vars => TrimsAreFew'
<1> SUFFICES ASSUME MemoryInvariant, MomentsDiffer, TrimsAreFew, [Next]_vars
             PROVE  TrimsAreFew'
  OBVIOUS
<1>1. CASE UNCHANGED <<op, latest, untrimmed>>
  BY <1>1 DEF TrimsAreFew, Trimmers
<1>2. ASSUME NEW w \in Workers, NEW i \in Ids,
             Delete(w, i) \/ \E p \in Places, life \in Lives : Store(w, i, p, life)
      PROVE  TrimsAreFew'
  BY <1>2, RequestsAreFresh, RequestsTrimNothing DEF MemoryInvariant
<1>3. CASE Tick
  BY <1>1, <1>3 DEF Tick
<1> QED
  BY <1>1, <1>2, <1>3, StepsTrim DEF Next, vars

\* The sorted set of a place holds at most LatestCap members, plus one for each
\* Store that has not trimmed yet or whose trim failed (valkey_store.go:77-78),
\* for any number of concurrent Stores.
THEOREM LatestStaysBounded == Spec => []LatestIsBounded
<1>1. Init => MomentsDiffer /\ TrimsAreFew
  <2> SUFFICES ASSUME Init
               PROVE  MomentsDiffer /\ TrimsAreFew
    OBVIOUS
  <2>1. \A w \in Workers : op[w].pc = "idle"
    BY DEF Init, Idle
  <2>2. \A p \in Places : latest[p] = {} /\ untrimmed[p] = 0
    BY DEF Init
  <2>3. \A p \in Places : Trimmers(op, p) = {}
    BY <2>1 DEF Trimmers
  <2>4. MomentsDiffer
    BY <2>1, <2>2, FS_EmptySet DEF MomentsDiffer, Distinct, Storing
  <2>5. TrimsAreFew
    BY <2>2, <2>3, FS_EmptySet, WorkingMemoryAssumption DEF TrimsAreFew
  <2> QED
    BY <2>4, <2>5
<1>2. TrimsAreFew => LatestIsBounded
  BY DEF TrimsAreFew, LatestIsBounded, Trimming, Trimmers
<1> QED
  BY <1>1, <1>2, MemoryIsInvariant, MomentsAreInductive, TrimsAreInductive, PTL DEF Spec
=============================================================================
