--------------------------- MODULE RequestsProofs ---------------------------
(***************************************************************************)
(* Proofs about the requests, the audit goroutines and the shutdown, and   *)
(* about a client that pages through the audit log meanwhile, for any      *)
(* number of requests, any limit and any capacity of errChan.              *)
(***************************************************************************)
EXTENDS AuditQuery, FiniteSetTheorems, TLAPS

-----------------------------------------------------------------------------
(* The requests.                                                           *)

\* What the middlewares leave in a request: an answer of 200 is a handler's, and
\* behind the policy middleware only an allowed request reaches one.
SoundRequest(q) ==
  /\ q.pc \in {"log", "done"} /\ q.status = 200 => q.ran
  /\ q.guarded /\ (q.pc = "handler" \/ q.ran) => q.did /\ q.verdict = "allow"

\* An event and a row are there only once the request is over.
SoundEvents ==
  /\ \A r \in Requests : event[r] # "none" => request[r].pc = "done"
  /\ \A e \in auditLog :
       /\ request[e.request].pc = "done"
       /\ e.allowed <=> request[e.request].status < 400

RequestsInvariant ==
  /\ TypeOK
  /\ \A r \in Requests : SoundRequest(request[r])
  /\ SoundEvents

LEMMA InitSatisfiesRequests == Init => RequestsInvariant
  BY RequestsAssumption
  DEF Init, RequestsInvariant, TypeOK, RequestStates, Unsent, Statuses, SoundRequest, SoundEvents

LEMMA Answering ==
  \A q \in RequestStates, status \in Statuses : Answered(q, status) \in RequestStates
  BY DEF Answered, RequestStates

\* The steps of a request itself.
LEMMA RequestStepsKeepRequests ==
  ASSUME RequestsInvariant, NEW r \in Requests, Accept(r) \/ Serve(r)
  PROVE  RequestsInvariant'
<1> USE DEF RequestsInvariant
<1>1. CASE Accept(r)
  <2>0. request' \in [Requests -> RequestStates]
    BY <1>1 DEF Accept, TypeOK, RequestStates, Statuses
  <2>1. TypeOK'
    BY <1>1, <2>0 DEF Accept, TypeOK
  <2>2. \A s \in Requests : SoundRequest(request[s])'
    BY <1>1 DEF Accept, TypeOK, Unsent, RequestStates, SoundRequest
  <2>3. SoundEvents'
    BY <1>1 DEF Accept, TypeOK, Unsent, SoundEvents, Entries
  <2> QED
    BY <1>1, <2>1, <2>2, <2>3 DEF Accept
<1>2. CASE EnforcePolicy(r)
  <2>0. request' \in [Requests -> RequestStates]
    BY <1>2 DEF EnforcePolicy, Respond, TypeOK, RequestStates, Statuses
  <2>1. TypeOK'
    BY <1>2, <2>0 DEF EnforcePolicy, TypeOK
  <2>2. \A s \in Requests : SoundRequest(request[s])'
    BY <1>2 DEF EnforcePolicy, Respond, TypeOK, RequestStates, SoundRequest
  <2>3. SoundEvents'
    BY <1>2 DEF EnforcePolicy, Respond, TypeOK, SoundEvents, Entries
  <2> QED
    BY <1>2, <2>1, <2>2, <2>3 DEF EnforcePolicy, Running
<1>3. CASE Handle(r)
  <2>0. request' \in [Requests -> RequestStates]
    <3>1. PICK status \in {200, 400, 500} :
            request' = [request EXCEPT ![r] = Answered(@, status)]
      BY <1>3 DEF Handle
    <3>2. request[r] \in RequestStates /\ status \in Statuses
      BY DEF TypeOK, Statuses
    <3>3. Answered(request[r], status) \in RequestStates
      BY <3>2, Answering
    <3>4. request' = [request EXCEPT ![r] = Answered(request[r], status)]
      BY <3>1
    <3> QED
      BY <3>3, <3>4 DEF TypeOK
  <2>a. UNCHANGED <<server, event, auditLog, errs, grace>>
    BY <1>3 DEF Handle
  <2>1. TypeOK'
    BY <2>0, <2>a DEF TypeOK
  <2>2. \A s \in Requests : SoundRequest(request[s])'
    BY <1>3 DEF Handle, Answered, TypeOK, RequestStates, SoundRequest
  <2>3. SoundEvents'
    BY <1>3 DEF Handle, Answered, TypeOK, SoundEvents, Entries
  <2> QED
    BY <1>3, <2>1, <2>2, <2>3 DEF Handle, Running
<1>4. CASE LogAndFinish(r)
  <2>0. request' \in [Requests -> RequestStates]
    BY <1>4 DEF LogAndFinish, TypeOK, RequestStates, Statuses
  <2>1. TypeOK'
    BY <1>4, <2>0 DEF LogAndFinish, TypeOK
  <2>2. \A s \in Requests : SoundRequest(request[s])'
    BY <1>4 DEF LogAndFinish, TypeOK, RequestStates, SoundRequest
  <2>3. SoundEvents'
    BY <1>4 DEF LogAndFinish, TypeOK, SoundEvents, Entries
  <2> QED
    BY <1>4, <2>1, <2>2, <2>3 DEF LogAndFinish, Running
<1> QED
  BY <1>1, <1>2, <1>3, <1>4 DEF Serve

\* The steps of an audit goroutine, and of the server.
LEMMA OtherStepsKeepRequests ==
  ASSUME RequestsInvariant,
         (\E r \in Requests : Audit(r)) \/ Signal \/ ShutDown \/ Crash
  PROVE  RequestsInvariant'
<1> USE DEF RequestsInvariant
<1>1. ASSUME NEW r \in Requests, Audit(r)
      PROVE  RequestsInvariant'
  <2>1. Entry(r) \in Entries /\ event[r] \in {"pending", "error"}
    BY <1>1 DEF Audit, InsertEvent, InsertFails, ReportError, Entry, Entries, TypeOK
  <2>a. UNCHANGED <<server, request, grace>>
    BY <1>1 DEF Audit, InsertEvent, InsertFails, ReportError
  <2>2. TypeOK'
    <3>1. errs' \in 0..ErrCap
      BY <1>1, RequestsAssumption DEF Audit, InsertEvent, InsertFails, ReportError, TypeOK
    <3>2. event' \in [Requests -> {"none", "pending", "error", "done"}]
      BY <1>1 DEF Audit, InsertEvent, InsertFails, ReportError, TypeOK
    <3>3. auditLog' \subseteq Entries
      BY <1>1, <2>1 DEF Audit, InsertEvent, InsertFails, ReportError, TypeOK
    <3> QED
      BY <2>a, <3>1, <3>2, <3>3 DEF TypeOK
  <2>3. SoundEvents'
    <3>1. auditLog' \subseteq auditLog \cup {Entry(r)}
      BY <1>1 DEF Audit, InsertEvent, InsertFails, ReportError
    <3>2. \A s \in Requests : event'[s] # "none" => event[s] # "none"
      BY <1>1 DEF Audit, InsertEvent, InsertFails, ReportError, TypeOK
    <3>3. /\ Entry(r).request = r
          /\ Entry(r).allowed <=> request[r].status < 400
      BY DEF Entry
    <3> QED
      BY <2>1, <2>a, <3>1, <3>2, <3>3 DEF SoundEvents
  <2> QED
    BY <2>a, <2>2, <2>3 DEF SoundRequest
<1>2. CASE Signal \/ Crash \/ GraceEnds \/ GiveUp
  <2>1. UNCHANGED <<request, event, auditLog, errs>>
    BY <1>2 DEF Signal, Crash, GraceEnds, GiveUp
  <2>2. /\ server' \in {"draining", "failed"}
        /\ grace' \in {grace, FALSE}
    BY <1>2 DEF Signal, Crash, GraceEnds, GiveUp
  <2>3. TypeOK'
    BY <2>1, <2>2 DEF TypeOK
  <2> QED
    BY <2>1, <2>2, <2>3 DEF SoundRequest, SoundEvents
<1>3. CASE Stop
  <2>1. \A r \in Requests : request[r].pc \in {"unsent", "done"}
    BY <1>3 DEF Stop, Active, TypeOK, RequestStates
  <2> QED
    BY <1>3, <2>1 DEF Stop, TypeOK, SoundRequest, SoundEvents
<1> QED
  BY <1>1, <1>2, <1>3 DEF ShutDown

LEMMA RequestsAreInductive == RequestsInvariant /\ [Next]_vars => RequestsInvariant'
<1> SUFFICES ASSUME RequestsInvariant, [Next]_vars
             PROVE  RequestsInvariant'
  OBVIOUS
<1>1. CASE UNCHANGED vars
  BY <1>1 DEF vars, RequestsInvariant, TypeOK, SoundRequest, SoundEvents
<1> QED
  BY <1>1, RequestStepsKeepRequests, OtherStepsKeepRequests DEF Next

LEMMA RequestsAreInvariant == Spec => []RequestsInvariant
  BY InitSatisfiesRequests, RequestsAreInductive, PTL DEF Spec

\* The shape of requests, events and the log; errChan never holds more than it
\* can (logger.go:44).
THEOREM RequestsTypeCorrect == Spec => []TypeOK
<1>1. RequestsInvariant => TypeOK
  BY DEF RequestsInvariant
<1> QED
  BY <1>1, RequestsAreInvariant, PTL

\* A row of the audit log says what became of the request, although a goroutine
\* writes it afterwards and may time out and still succeed (logger.go:52-84).
THEOREM AuditIsTruthful == Spec => []AuditTellsTheOutcome
<1>1. RequestsInvariant => AuditTellsTheOutcome
  <2> SUFFICES ASSUME RequestsInvariant, NEW e \in auditLog
               PROVE  /\ request[e.request].pc = "done"
                      /\ e.allowed <=> request[e.request].ran /\ request[e.request].status = 200
    BY DEF AuditTellsTheOutcome
  <2>1. e \in Entries /\ e.request \in Requests /\ request[e.request].status \in Statuses
    BY DEF RequestsInvariant, TypeOK, RequestStates, Entries
  <2>2. /\ request[e.request].pc = "done"
        /\ e.allowed <=> request[e.request].status < 400
        /\ request[e.request].status = 200 => request[e.request].ran
    BY <2>1 DEF RequestsInvariant, SoundEvents, SoundRequest
  <2>3. request[e.request].status < 400 <=> request[e.request].status = 200
    BY <2>1 DEF Statuses
  <2> QED
    BY <2>2, <2>3
<1> QED
  BY <1>1, RequestsAreInvariant, PTL

\* Behind the policy middleware a handler runs for allowed requests only, and a
\* request that was stopped there leaves no "allowed" row (middleware.go:65-94).
THEOREM GateHolds == Spec => []OnlyAllowedRequestsRun
<1>1. RequestsInvariant => OnlyAllowedRequestsRun
  <2> SUFFICES ASSUME RequestsInvariant, NEW r \in Requests, request[r].guarded,
                      request[r].ran \/ [request |-> r, allowed |-> TRUE] \in auditLog
               PROVE  request[r].did /\ request[r].verdict = "allow"
    BY DEF OnlyAllowedRequestsRun
  <2>1. SoundRequest(request[r]) /\ request[r].status \in Statuses
    BY DEF RequestsInvariant, TypeOK, RequestStates
  <2>2. CASE [request |-> r, allowed |-> TRUE] \in auditLog
    <3>1. request[r].pc = "done" /\ request[r].status < 400
      BY <2>2 DEF RequestsInvariant, SoundEvents
    <3>2. request[r].status = 200
      BY <2>1, <3>1 DEF Statuses
    <3> QED
      BY <2>1, <3>1, <3>2 DEF SoundRequest
  <2> QED
    BY <2>1, <2>2 DEF SoundRequest
<1> QED
  BY <1>1, RequestsAreInvariant, PTL

-----------------------------------------------------------------------------
(* The client that pages through the log.                                  *)

\* COUNT(*) is a step inside a handler; the page, or its failure, is its end.
LEMMA QueryStepsAreSteps == [QueryNext]_queryVars => [Next]_vars
<1> SUFFICES ASSUME [QueryNext]_queryVars
             PROVE  Next \/ UNCHANGED vars
  OBVIOUS
<1>1. ASSUME NEW r \in Requests, CountRows(r)
      PROVE  UNCHANGED vars
  BY <1>1 DEF CountRows
<1>2. ASSUME NEW r \in Requests, QueryRows(r) \/ QueryFails(r)
      PROVE  Handle(r)
  BY <1>2 DEF QueryRows, QueryFails, Handle
<1>3. ASSUME NEW r \in Requests, Accept(r) \/ Middleware(r) \/ HandleOther(r) \/ AuditRow(r)
      PROVE  Next
  BY <1>3 DEF Middleware, HandleOther, AuditRow, Next, Serve
<1> QED
  BY <1>1, <1>2, <1>3 DEF QueryNext, queryVars, ShutDownSame, Next, Serve

\* What holds of the requests holds with a client that pages through the log.
THEOREM QueryKeepsRequests ==
  QuerySpec => [](TypeOK /\ AuditTellsTheOutcome /\ OnlyAllowedRequestsRun)
<1>1. QueryInit => Init
  BY DEF QueryInit
<1>2. QuerySpec => Spec
  BY <1>1, QueryStepsAreSteps, PTL DEF QuerySpec, Spec
<1> QED
  BY <1>2, RequestsTypeCorrect, AuditIsTruthful, GateHolds, PTL

-----------------------------------------------------------------------------
(* No row is lost between two pages.                                       *)

Readers == [pc : {"between", "counted", "done"}, limit : Nat \ {0}, offset : Nat,
            total : Nat, page : SUBSET Requests, owed : SUBSET (Requests \cup OldRows)]

\* Every row of the log has a timestamp, and the log is finite.
SoundStamps ==
  /\ stamp \in [Requests \cup OldRows -> 0..(Older + 1)]
  /\ IsFiniteSet(Rows)
  /\ \A e \in auditLog : e.request \in Rows

\* The log only grows: what is owed and what was counted is in it.
SoundReader ==
  /\ reader \in Readers
  /\ reader.owed \subseteq Rows
  /\ reader.total =< Cardinality(Rows)

PagingInvariant == TypeOK /\ SoundStamps /\ SoundReader /\ PagingSkipsNothing

\* Rows have their timestamps for good.
LogGrows ==
  /\ Rows \subseteq Rows'
  /\ \A x \in Rows : stamp'[x] = stamp[x]
  /\ IsFiniteSet(Rows')

LEMMA InitSatisfiesPaging == QueryInit => PagingInvariant
<1> SUFFICES ASSUME QueryInit
             PROVE  PagingInvariant
  OBVIOUS
<1>1. TypeOK
  BY InitSatisfiesRequests DEF QueryInit, RequestsInvariant
<1>2. Older \in Nat /\ Asked \subseteq Nat
  BY AuditQueryAssumption
<1>3. stamp \in [Requests \cup OldRows -> 0..(Older + 1)]
  BY <1>2 DEF QueryInit, OldRows
<1>4. Rows = OldRows
  <2>1. \A x \in OldRows : x # 0
    BY <1>2 DEF OldRows
  <2>2. \A x \in Requests \cup OldRows : stamp[x] = IF x \in OldRows THEN x ELSE 0
    BY DEF QueryInit
  <2> QED
    BY <2>1, <2>2 DEF Rows
<1>5. IsFiniteSet(Rows) /\ Cardinality(Rows) = Older
  BY <1>2, <1>4, FS_Interval DEF OldRows
<1>6. SoundStamps
  BY <1>3, <1>5 DEF SoundStamps, QueryInit, Init
<1>7. PICK asked \in Asked :
        reader = [pc |-> "between", limit |-> PageLimit(asked), offset |-> 0,
                  total |-> 0, page |-> {}, owed |-> {}]
  BY DEF QueryInit
<1>8. PageLimit(asked) \in Nat \ {0}
  BY <1>2 DEF PageLimit
<1>9. SoundReader
  BY <1>2, <1>5, <1>7, <1>8 DEF SoundReader, Readers
<1> QED
  BY <1>1, <1>6, <1>7, <1>9 DEF PagingInvariant, PagingSkipsNothing

\* When the log grows, and the client stays as it is, there is as much ahead of
\* it as before.
LEMMA GrowthKeepsPaging ==
  ASSUME PagingInvariant, LogGrows, UNCHANGED reader
  PROVE  SoundReader' /\ PagingSkipsNothing'
<1>1. IsFiniteSet(Rows) /\ Cardinality(Rows) \in Nat /\ Cardinality(Rows') \in Nat
  BY FS_CardinalityType DEF PagingInvariant, SoundStamps, LogGrows
<1>2. Cardinality(Rows) =< Cardinality(Rows')
  BY FS_Subset DEF LogGrows
<1>3. reader.total \in Nat /\ reader.offset \in Nat
  BY DEF PagingInvariant, SoundReader, Readers
<1>4. SoundReader'
  BY <1>1, <1>2, <1>3 DEF PagingInvariant, SoundReader, LogGrows
<1>5. ASSUME NEW x \in reader.owed, Ties(x)
      PROVE  Ties(x)'
  BY <1>5 DEF Ties, LogGrows, PagingInvariant, SoundReader
<1>6. ASSUME NEW x \in reader.owed
      PROVE  Cardinality(Newer(x)) =< Cardinality(Newer(x)')
  <2>1. Newer(x) \in SUBSET Newer(x)' /\ Newer(x)' \in SUBSET Rows' /\ Newer(x) \in SUBSET Rows
    BY DEF Newer, LogGrows, PagingInvariant, SoundReader
  <2>2. IsFiniteSet(Newer(x)')
    BY <2>1, FS_Subset DEF LogGrows
  <2> QED
    BY <2>1, <2>2, FS_Subset
<1>7. ASSUME NEW x \in reader.owed
      PROVE  Cardinality(Newer(x)) \in Nat /\ Cardinality(Newer(x)') \in Nat
  <2>1. Newer(x) \in SUBSET Rows /\ Newer(x)' \in SUBSET Rows'
    BY DEF Newer
  <2>2. IsFiniteSet(Newer(x)) /\ IsFiniteSet(Newer(x)')
    BY <1>1, <2>1, FS_Subset DEF LogGrows
  <2> QED
    BY <2>2, FS_CardinalityType
<1>8. ASSUME NEW x \in reader.owed, ~Ties(x)'
      PROVE  reader.pc # "done" /\ Cardinality(Newer(x)') >= reader.offset
  <2>1. reader.pc # "done" /\ Cardinality(Newer(x)) >= reader.offset
    BY <1>5, <1>8 DEF PagingInvariant, PagingSkipsNothing
  <2> QED
    BY <1>3, <1>6, <1>7, <2>1
<1> QED
  BY <1>4, <1>8 DEF PagingInvariant, PagingSkipsNothing

\* An audit goroutine adds one row at most, with a timestamp of its own.
LEMMA AuditGrowsTheLog ==
  ASSUME PagingInvariant, NEW r \in Requests, AuditRow(r)
  PROVE  LogGrows /\ SoundStamps'
<1> DEFINE new == {q \in Requests : stamp[q] = 0 /\ \E e \in auditLog' : e.request = q}
<1>1. stamp \in [Requests \cup OldRows -> 0..(Older + 1)] /\ IsFiniteSet(Rows)
  BY DEF PagingInvariant, SoundStamps
<1>2. auditLog' \subseteq auditLog \cup {Entry(r)} /\ Entry(r).request = r
  BY DEF AuditRow, Audit, InsertEvent, InsertFails, ReportError, Entry
<1>3. \A e \in auditLog : e.request \in Requests /\ stamp[e.request] # 0
  BY DEF PagingInvariant, SoundStamps, Rows, TypeOK, Entries
<1>4. new \subseteq {r}
  BY <1>2, <1>3
<1>5. CASE new = {}
  <2>1. UNCHANGED stamp
    BY <1>5 DEF AuditRow, Timestamp
  <2>2. \A e \in auditLog' : e.request \in Rows
    BY <1>2, <1>3, <1>5 DEF Rows
  <2> QED
    BY <1>1, <2>1, <2>2 DEF LogGrows, SoundStamps, Rows
<1>6. CASE new # {}
  <2>1. PICK s \in Stamps :
          stamp' = [x \in DOMAIN stamp |-> IF x \in new THEN s ELSE stamp[x]]
    BY <1>6 DEF AuditRow, Timestamp
  <2>2. s \in 0..(Older + 1) /\ s # 0
    BY AuditQueryAssumption DEF Stamps
  <2>3. stamp' \in [Requests \cup OldRows -> 0..(Older + 1)]
    BY <1>1, <2>1, <2>2
  <2>4. new = {r} /\ stamp[r] = 0
    BY <1>4, <1>6
  <2>5. \A x \in Requests \cup OldRows : stamp'[x] = IF x = r THEN s ELSE stamp[x]
    BY <1>1, <2>1, <2>4
  <2>6. Rows' = Rows \cup {r} /\ \A x \in Rows : stamp'[x] = stamp[x]
    BY <2>2, <2>4, <2>5 DEF Rows
  <2>7. IsFiniteSet(Rows')
    BY <1>1, <2>6, FS_AddElement
  <2>8. \A e \in auditLog' : e.request \in Rows'
    BY <1>2, <1>3, <2>6 DEF Rows
  <2> QED
    BY <2>3, <2>6, <2>7, <2>8 DEF LogGrows, SoundStamps
<1> QED
  BY <1>5, <1>6

\* A row that a client is still owed, and that no other row shares its timestamp
\* with, is behind the window when the window does not show it.
LEMMA WhatIsOwedIsAhead ==
  ASSUME IsFiniteSet(Rows), stamp \in [Requests \cup OldRows -> 0..(Older + 1)],
         NEW offset \in Nat, NEW limit \in Nat \ {0},
         NEW first \in Newest(offset), NEW last \in Newest(offset + limit),
         first \subseteq last,
         NEW x \in Rows, x \notin last \ first, ~Ties(x),
         Cardinality(Newer(x)) >= offset
  PROVE  /\ Cardinality(last \ first) = limit
         /\ Cardinality(Newer(x)) >= offset + limit
<1>1. /\ first \in SUBSET Rows /\ last \in SUBSET Rows /\ Newer(x) \in SUBSET Rows
      /\ \A y \in first, z \in Rows \ first : stamp[y] >= stamp[z]
      /\ \A y \in last, z \in Rows \ last : stamp[y] >= stamp[z]
  BY DEF Newest, Newer
<1>2. /\ IsFiniteSet(first) /\ IsFiniteSet(last) /\ IsFiniteSet(Newer(x))
      /\ Cardinality(first) \in Nat /\ Cardinality(last) \in Nat
      /\ Cardinality(Newer(x)) \in Nat /\ Cardinality(Rows) \in Nat
  BY <1>1, FS_Subset, FS_CardinalityType
<1>3. \A y \in Rows : stamp[y] \in Nat
  BY AuditQueryAssumption DEF Rows
<1>4. x \notin first
  <2> SUFFICES ASSUME x \in first
               PROVE  FALSE
    OBVIOUS
  <2>1. Newer(x) \subseteq first
    BY <1>1, <1>3 DEF Newer
  <2>2. x \notin Newer(x)
    BY <1>3 DEF Newer
  <2>3. Newer(x) \cup {x} \in SUBSET first
    BY <2>1
  <2>4. Cardinality(Newer(x) \cup {x}) = Cardinality(Newer(x)) + 1
    BY <1>2, <2>2, FS_AddElement
  <2>5. Cardinality(Newer(x)) + 1 =< Cardinality(first)
    BY <1>2, <2>3, <2>4, FS_Subset
  <2>6. Cardinality(first) =< offset
    BY <1>2 DEF Newest
  <2> QED
    BY <1>2, <2>5, <2>6
<1>5. x \notin last
  BY <1>4
<1>6. last \in SUBSET Newer(x)
  <2> SUFFICES ASSUME NEW y \in last
               PROVE  y \in Rows /\ stamp[y] > stamp[x]
    BY DEF Newer
  <2>1. y \in Rows /\ y # x /\ stamp[y] >= stamp[x]
    BY <1>1, <1>5
  <2>2. stamp[y] # stamp[x]
    BY <2>1 DEF Ties
  <2> QED
    BY <1>3, <2>1, <2>2
<1>7. Cardinality(last) =< Cardinality(Newer(x))
  BY <1>2, <1>6, FS_Subset
<1>8. Cardinality(last) # Cardinality(Rows)
  BY <1>1, <1>5, FS_Subset
<1>9. Cardinality(last) = offset + limit /\ offset + limit < Cardinality(Rows)
  BY <1>2, <1>8 DEF Newest
<1>10. Cardinality(first) = offset
  BY <1>2, <1>9 DEF Newest
<1>11. Cardinality(last \ first) = Cardinality(last) - Cardinality(first)
  <2>1. last \cap first = first
    OBVIOUS
  <2> QED
    BY <1>2, <2>1, FS_Difference
<1> QED
  BY <1>2, <1>7, <1>9, <1>10, <1>11

\* A short window reaches the end of the log.
LEMMA ShortPagesAreLast ==
  ASSUME IsFiniteSet(Rows), NEW offset \in Nat, NEW limit \in Nat \ {0},
         NEW first \in Newest(offset), NEW last \in Newest(offset + limit),
         first \subseteq last
  PROVE  /\ IsFiniteSet(last \ first) /\ Cardinality(last \ first) \in Nat
         /\ Cardinality(last \ first) < limit =>
              offset + Cardinality(last \ first) >= Cardinality(Rows)
<1>1. first \in SUBSET Rows /\ last \in SUBSET Rows
  BY DEF Newest
<1>2. /\ IsFiniteSet(first) /\ IsFiniteSet(last) /\ IsFiniteSet(last \ first)
      /\ Cardinality(first) \in Nat /\ Cardinality(last) \in Nat /\ Cardinality(Rows) \in Nat
      /\ Cardinality(last \ first) \in Nat
  BY <1>1, FS_Subset, FS_CardinalityType, FS_Difference
<1>3. Cardinality(last \ first) = Cardinality(last) - Cardinality(first)
  <2>1. last \cap first = first
    OBVIOUS
  <2> QED
    BY <1>2, <2>1, FS_Difference
<1>4. /\ Cardinality(first) = IF offset < Cardinality(Rows) THEN offset ELSE Cardinality(Rows)
      /\ Cardinality(last) = IF offset + limit < Cardinality(Rows)
                             THEN offset + limit ELSE Cardinality(Rows)
  BY DEF Newest
<1> QED
  BY <1>2, <1>3, <1>4

\* The steps of the client.
LEMMA ReaderKeepsPaging ==
  ASSUME PagingInvariant, NEW r \in Requests, CountRows(r) \/ QueryRows(r) \/ QueryFails(r)
  PROVE  SoundStamps' /\ SoundReader' /\ PagingSkipsNothing'
<1>1. /\ reader \in Readers /\ reader.owed \subseteq Rows
      /\ reader.total \in Nat /\ reader.offset \in Nat /\ reader.limit \in Nat \ {0}
      /\ reader.total =< Cardinality(Rows)
      /\ IsFiniteSet(Rows) /\ Cardinality(Rows) \in Nat
      /\ stamp \in [Requests \cup OldRows -> 0..(Older + 1)]
  BY FS_CardinalityType DEF PagingInvariant, SoundReader, SoundStamps, Readers
<1>2. UNCHANGED <<stamp, auditLog>>
  BY DEF CountRows, QueryRows, QueryFails, vars
<1>3. Rows' = Rows /\ \A x : Newer(x)' = Newer(x) /\ (Ties(x)' <=> Ties(x))
  BY <1>2 DEF Rows, Newer, Ties
<1>4. SoundStamps'
  BY <1>2, <1>3 DEF PagingInvariant, SoundStamps
<1>5. \A x \in Rows : Cardinality(Newer(x)) \in Nat
  <2> TAKE x \in Rows
  <2>1. Newer(x) \in SUBSET Rows
    BY DEF Newer
  <2> QED
    BY <1>1, <2>1, FS_Subset, FS_CardinalityType
<1>6. /\ \A x \in reader.owed :
           Ties(x) \/ (reader.pc # "done" /\ Cardinality(Newer(x)) >= reader.offset)
      /\ reader.pc = "done" => reader.offset >= reader.total
  BY DEF PagingInvariant, PagingSkipsNothing
<1>7. CASE CountRows(r)
  <2> DEFINE owed == IF reader.offset = 0 THEN Rows ELSE reader.owed
  <2>1. reader' = [reader EXCEPT !.pc = "counted", !.page = {r}, !.total = Cardinality(Rows),
                                 !.owed = owed]
    BY <1>7 DEF CountRows
  <2>2. owed \subseteq Rows /\ Rows \subseteq Requests \cup OldRows
    BY <1>1 DEF Rows
  <2>3. reader' \in Readers /\ reader'.owed = owed /\ reader'.total = Cardinality(Rows)
        /\ reader'.offset = reader.offset /\ reader'.pc = "counted"
    BY <1>1, <2>1, <2>2 DEF Readers
  <2>4. \A x \in owed : Ties(x) \/ Cardinality(Newer(x)) >= reader.offset
    BY <1>1, <1>5, <1>6
  <2> QED
    BY <1>1, <1>3, <1>4, <2>2, <2>3, <2>4 DEF SoundReader, PagingSkipsNothing
<1>8. CASE QueryRows(r)
  <2>1. PICK rows \in Window(reader.offset, reader.limit) :
          reader' = [reader EXCEPT
            !.pc = IF Cardinality(rows) < reader.limit THEN "done" ELSE "between",
            !.page = {}, !.offset = @ + Cardinality(rows), !.owed = @ \ rows]
    BY <1>8 DEF QueryRows
  <2>2. PICK first \in Newest(reader.offset), last \in Newest(reader.offset + reader.limit) :
          first \subseteq last /\ rows = last \ first
    BY <2>1 DEF Window
  <2>3. /\ Cardinality(rows) \in Nat
        /\ Cardinality(rows) < reader.limit =>
             reader.offset + Cardinality(rows) >= Cardinality(Rows)
    BY <1>1, <2>2, ShortPagesAreLast
  <2>4. /\ reader' \in Readers
        /\ reader'.pc = IF Cardinality(rows) < reader.limit THEN "done" ELSE "between"
        /\ reader'.offset = reader.offset + Cardinality(rows)
        /\ reader'.owed = reader.owed \ rows /\ reader'.total = reader.total
    <3> DEFINE pc == IF Cardinality(rows) < reader.limit THEN "done" ELSE "between"
               offset == reader.offset + Cardinality(rows)
               owed == reader.owed \ rows
    <3>1. reader' = [reader EXCEPT !.pc = pc, !.page = {}, !.offset = offset, !.owed = owed]
      BY <2>1
    <3>2. /\ pc \in {"between", "done"} /\ offset \in Nat
          /\ owed \in SUBSET (Requests \cup OldRows)
      BY <1>1, <2>3 DEF Rows
    <3> HIDE DEF pc, offset, owed
    <3>3. /\ reader' \in Readers
          /\ reader'.pc = pc /\ reader'.offset = offset
          /\ reader'.owed = owed /\ reader'.total = reader.total
      BY <1>1, <3>1, <3>2 DEF Readers
    <3> QED
      BY <3>3 DEF pc, offset, owed
  <2>5. ASSUME NEW x \in reader.owed \ rows, ~Ties(x)
        PROVE  Cardinality(rows) = reader.limit
               /\ Cardinality(Newer(x)) >= reader.offset + reader.limit
    <3>1. /\ x \in Rows /\ x \notin last \ first /\ ~Ties(x)
          /\ Cardinality(Newer(x)) >= reader.offset
      BY <1>1, <1>6, <2>2, <2>5
    <3>2. /\ Cardinality(last \ first) = reader.limit
          /\ Cardinality(Newer(x)) >= reader.offset + reader.limit
      BY <1>1, <2>2, <3>1, WhatIsOwedIsAhead
    <3> QED
      BY <2>2, <3>2
  <2>6. PagingSkipsNothing'
    BY <1>1, <1>3, <2>3, <2>4, <2>5 DEF PagingSkipsNothing
  <2> QED
    BY <1>1, <1>3, <1>4, <2>4, <2>6 DEF SoundReader
<1>9. CASE QueryFails(r)
  <2>1. /\ reader' \in Readers /\ reader'.pc = "between" /\ reader'.offset = reader.offset
        /\ reader'.owed = reader.owed /\ reader'.total = reader.total
    BY <1>1, <1>9 DEF QueryFails, Readers
  <2>2. \A x \in reader.owed : Ties(x) \/ Cardinality(Newer(x)) >= reader.offset
    BY <1>6
  <2> QED
    BY <1>1, <1>3, <1>4, <2>1, <2>2 DEF SoundReader, PagingSkipsNothing
<1> QED
  BY <1>7, <1>8, <1>9

LEMMA PagingIsInductive ==
  PagingInvariant /\ TypeOK' /\ [QueryNext]_queryVars => PagingInvariant'
<1> SUFFICES ASSUME PagingInvariant, TypeOK', [QueryNext]_queryVars
             PROVE  SoundStamps' /\ SoundReader' /\ PagingSkipsNothing'
  BY DEF PagingInvariant
<1>1. ASSUME NEW r \in Requests, AuditRow(r)
      PROVE  SoundStamps' /\ SoundReader' /\ PagingSkipsNothing'
  BY <1>1, AuditGrowsTheLog, GrowthKeepsPaging DEF AuditRow
<1>2. CASE UNCHANGED <<stamp, reader, auditLog>>
  <2>1. Rows' = Rows /\ \A x : Newer(x)' = Newer(x) /\ (Ties(x)' <=> Ties(x))
    BY <1>2 DEF Rows, Newer, Ties
  <2> QED
    BY <1>2, <2>1 DEF PagingInvariant, SoundStamps, SoundReader, PagingSkipsNothing
<1>3. ASSUME NEW r \in Requests, (Accept(r) /\ Same) \/ Middleware(r) \/ HandleOther(r)
      PROVE  UNCHANGED <<stamp, reader, auditLog>>
  BY <1>3 DEF Accept, Middleware, EnforcePolicy, LogAndFinish, HandleOther, Handle, Same
<1>4. CASE ((Signal \/ Crash) /\ Same) \/ ShutDownSame \/ UNCHANGED queryVars
  <2>1. UNCHANGED <<stamp, reader, auditLog>>
    BY <1>4 DEF Signal, Crash, ShutDownSame, ShutDown, GraceEnds, Stop, GiveUp, Same, queryVars, vars
  <2> QED
    BY <1>2, <2>1
<1> QED
  BY <1>1, <1>2, <1>3, <1>4, ReaderKeepsPaging DEF QueryNext

\* A client that pages through the log while it grows loses no row that was
\* there when it began, rows of the same timestamp excepted, and gets a page that
\* comes short only at the end (logger.go:132-149).
THEOREM PagingLosesNothing == QuerySpec => []PagingSkipsNothing
<1>1. PagingInvariant => PagingSkipsNothing
  BY DEF PagingInvariant
<1> QED
  BY <1>1, InitSatisfiesPaging, PagingIsInductive, QueryKeepsRequests, PTL DEF QuerySpec
=============================================================================
