----------------------------- MODULE AuditQuery -----------------------------
(***************************************************************************)
(* Reading the audit log while it is written: GET /api/audit               *)
(* (api/audit_handlers.go) and Logger.Query (audit/logger.go), added to    *)
(* the requests, the audit goroutines and the shutdown of Requests.        *)
(*                                                                         *)
(* A client reads the log page by page, each page a request of its own     *)
(* whose offset is the number of rows it has been given so far, until a    *)
(* page comes short.  Every page is itself audited, so the log grows       *)
(* under the client even when nobody else is there.  The rows are those    *)
(* that match the client's filter, which is the same for every page.       *)
(***************************************************************************)
EXTENDS Requests

CONSTANTS
  Older,  \* how many rows the log has at the start
  Asked   \* the limits clients ask for, 0 when they ask for none or for nonsense

ASSUME AuditQueryAssumption == Older \in Nat /\ Asked \subseteq Nat

VARIABLES
  stamp,  \* by row, its timestamp; 0 until it is there
  reader  \* the client that pages through the log

queryVars == <<vars, stamp, reader>>

\* A request has one row at most, and the rows of the start are numbered in the
\* order of their timestamps.
OldRows == 1..Older
Rows == {x \in Requests \cup OldRows : stamp[x] # 0}
Stamps == 1..(Older + 1)

PageLimit(asked) == IF asked > 0 THEN asked ELSE 100

\* "owed" is a history field: the rows that were there when the client began and
\* that it has not been given yet.
QueryInit ==
  /\ Init
  /\ stamp = [x \in Requests \cup OldRows |-> IF x \in OldRows THEN x ELSE 0]
  /\ \E asked \in Asked :
       reader = [pc |-> "between", limit |-> PageLimit(asked), offset |-> 0,
                 total |-> 0, page |-> {}, owed |-> {}]

-----------------------------------------------------------------------------
(* Writing.                                                                *)

\* A row that appears has the time at which its INSERT began, so that it may be
\* older than rows that were visible before it, or of the same time.
Timestamp ==
  LET new == {r \in Requests : stamp[r] = 0 /\ \E e \in auditLog' : e.request = r} IN
  IF new = {}
  THEN UNCHANGED stamp
  ELSE \E s \in Stamps : stamp' = [x \in DOMAIN stamp |-> IF x \in new THEN s ELSE stamp[x]]

-----------------------------------------------------------------------------
(* Reading.                                                                *)

\* The sets that can be the first n rows ORDER BY timestamp DESC: rows of the same
\* time come in any order.
Newest(n) ==
  {s \in SUBSET Rows :
     /\ Cardinality(s) = (IF n < Cardinality(Rows) THEN n ELSE Cardinality(Rows))
     /\ \A x \in s, y \in Rows \ s : stamp[x] >= stamp[y]}

\* Faulty variant: LIMIT and OFFSET without an order.
WindowUnordered(offset, limit) ==
  LET n == Cardinality(Rows) - offset IN
  {s \in SUBSET Rows :
     Cardinality(s) = (IF n < 0 THEN 0 ELSE IF n < limit THEN n ELSE limit)}

\* The rows between the offset and the offset plus the limit.
Window(offset, limit) ==
  {p[2] \ p[1] : p \in
     {q \in Newest(offset) \X Newest(offset + limit) : q[1] \subseteq q[2]}}

Reading(r) == reader.pc = "counted" /\ reader.page = {r}

\* COUNT(*), in the handler of a request for a page.
CountRows(r) ==
  /\ Running
  /\ request[r].pc = "handler"
  /\ ~request[r].guarded
  /\ reader.pc = "between"
  /\ reader' = [reader EXCEPT !.pc = "counted", !.page = {r}, !.total = Cardinality(Rows),
                              !.owed = IF reader.offset = 0 THEN Rows ELSE @]
  /\ UNCHANGED <<vars, stamp>>

\* The rows, in a statement of their own, and the answer.
QueryRows(r) ==
  /\ Running
  /\ request[r].pc = "handler"
  /\ Reading(r)
  /\ \E rows \in Window(reader.offset, reader.limit) :
       reader' = [reader EXCEPT
         !.pc = IF Cardinality(rows) < reader.limit THEN "done" ELSE "between",
         !.page = {}, !.offset = @ + Cardinality(rows), !.owed = @ \ rows]
  /\ request' = [request EXCEPT ![r] = Answered(@, 200)]
  /\ UNCHANGED <<server, event, auditLog, errs, grace, stamp>>

\* One of the two statements fails; the client asks for the page again.
QueryFails(r) ==
  /\ Running
  /\ request[r].pc = "handler"
  /\ Reading(r)
  /\ reader' = [reader EXCEPT !.pc = "between", !.page = {}]
  /\ request' = [request EXCEPT ![r] = Answered(@, 500)]
  /\ UNCHANGED <<server, event, auditLog, errs, grace, stamp>>

-----------------------------------------------------------------------------

\* The steps of Requests, of which only the audit goroutines write rows.
Same == UNCHANGED <<stamp, reader>>
HandleOther(r) == ~Reading(r) /\ Handle(r) /\ Same
Middleware(r) == (EnforcePolicy(r) \/ LogAndFinish(r)) /\ Same
AuditRow(r) == Audit(r) /\ Timestamp /\ UNCHANGED reader
ShutDownSame == ShutDown /\ Same

QueryNext ==
  \/ \E r \in Requests :
       \/ Accept(r) /\ Same
       \/ Middleware(r) \/ HandleOther(r) \/ AuditRow(r)
       \/ CountRows(r) \/ QueryRows(r) \/ QueryFails(r)
  \/ (Signal \/ Crash) /\ Same
  \/ ShutDownSame

QuerySpec == QueryInit /\ [][QueryNext]_queryVars

QueryFair ==
  /\ \A r \in Requests : WF_queryVars(Middleware(r)) /\ WF_queryVars(AuditRow(r))
  /\ WF_queryVars(ShutDownSame)

-----------------------------------------------------------------------------
(* Properties.                                                             *)

Newer(x) == {y \in Rows : stamp[y] > stamp[x]}
Ties(x) == \E y \in Rows \ {x} : stamp[y] = stamp[x]

\* No row that was there when a client began is lost between two pages, although
\* rows come in above and below it while the client pages, its own events among
\* them: what it has not been given yet is still ahead of its offset, and nothing
\* is left when a page comes short.  Rows of the same timestamp are the
\* exception, as the order (logger.go:137) leaves theirs open.  And a short page
\* is never short of the total that came with it, although the two are counted
\* by two statements (logger.go:132, 149).
PagingSkipsNothing ==
  /\ \A x \in reader.owed :
       Ties(x) \/ (reader.pc # "done" /\ Cardinality(Newer(x)) >= reader.offset)
  /\ reader.pc = "done" => reader.offset >= reader.total
=============================================================================
