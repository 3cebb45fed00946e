------------------------------ MODULE Requests ------------------------------
(***************************************************************************)
(* The life of a request and of the server: the audit and the policy       *)
(* middleware (api/middleware.go, api/router.go), the audit logger         *)
(* (audit/logger.go) and the shutdown of the process (cmd/acumius/main.go).*)
(*                                                                         *)
(* The memory routes are wrapped in both middlewares, the policy, audit    *)
(* and GDPR routes in the audit middleware alone.  When the wrapped        *)
(* handler has returned, the audit middleware hands an event to Log, which *)
(* starts a goroutine of its own for the INSERT and returns; the request   *)
(* is then over.  A signal makes the server refuse new requests and wait,  *)
(* for a limited time, for the ones under way - not for those goroutines.  *)
(***************************************************************************)
EXTENDS Integers, FiniteSets

CONSTANTS
  Requests,  \* the requests clients send
  ErrCap     \* what errChan holds (100)

ASSUME RequestsAssumption == ErrCap \in Nat

VARIABLES
  server,   \* "serving", "draining" after a signal, "stopped" or "failed"
  request,  \* by request, [pc, guarded, did, verdict, ran, status]
  event,    \* by request, its audit event: "none", "pending", "error", "done"
  auditLog, \* the rows of audit_log, as [request, allowed]
  errs,     \* how many errors errChan holds
  grace     \* whether the shutdown timeout is still running

vars == <<server, request, event, auditLog, errs, grace>>

Statuses == {200, 400, 401, 403, 500}
Unsent == [pc |-> "unsent", guarded |-> FALSE, did |-> FALSE, verdict |-> "none",
           ran |-> FALSE, status |-> 200]

Init ==
  /\ server = "serving"
  /\ request = [r \in Requests |-> Unsent]
  /\ event = [r \in Requests |-> "none"]
  /\ auditLog = {}
  /\ errs = 0
  /\ grace = TRUE

Running == server \in {"serving", "draining"}
Active(r) == request[r].pc \in {"policy", "handler", "log"}

\* The handler has returned or was not called; the middleware has the status.
Respond(r, status) ==
  request' = [request EXCEPT ![r].pc = "log", ![r].status = status]

\* The handler returns.
Answered(q, status) == [q EXCEPT !.pc = "log", !.status = status, !.ran = TRUE]

-----------------------------------------------------------------------------
(* Middleware.                                                             *)

\* A request arrives at a route without the policy middleware, or at one with it,
\* where it matters whether it has an X-Agent-DID header.
Accept(r) ==
  /\ server = "serving"
  /\ request[r] = Unsent
  /\ \/ request' = [request EXCEPT ![r].pc = "handler"]
     \/ \E did \in BOOLEAN :
          request' = [request EXCEPT ![r].pc = "policy", ![r].guarded = TRUE, ![r].did = did]
  /\ UNCHANGED <<server, event, auditLog, errs, grace>>

\* Faulty variant: an evaluator error is logged and the request goes on.
EnforcePolicyOpen(r) ==
  /\ Running
  /\ request[r].pc = "policy"
  /\ IF ~request[r].did
     THEN Respond(r, 401)
     ELSE \/ Respond(r, 403)
          \/ \E verdict \in {"allow", "error"} :
               request' = [request EXCEPT ![r].pc = "handler", ![r].verdict = verdict]
  /\ UNCHANGED <<server, event, auditLog, errs, grace>>

\* Without the header the answer is 401; otherwise the evaluator's: an error is a
\* 500, a denial a 403, and only an allow calls the handler.
EnforcePolicy(r) ==
  /\ Running
  /\ request[r].pc = "policy"
  /\ IF ~request[r].did
     THEN Respond(r, 401)
     ELSE \/ Respond(r, 500)
          \/ Respond(r, 403)
          \/ request' = [request EXCEPT ![r].pc = "handler", ![r].verdict = "allow"]
  /\ UNCHANGED <<server, event, auditLog, errs, grace>>

\* Faulty variant: the recorder of the status starts at 0, and most handlers that
\* succeed never call WriteHeader.
HandleUnrecorded(r) ==
  /\ Running
  /\ request[r].pc = "handler"
  /\ \E status \in {0, 400, 500} :
       request' = [request EXCEPT ![r] = Answered(@, status)]
  /\ UNCHANGED <<server, event, auditLog, errs, grace>>

\* The handler: whatever it does, it leaves a status, the recorder's 200 when it
\* sets none.
Handle(r) ==
  /\ Running
  /\ request[r].pc = "handler"
  /\ \E status \in {200, 400, 500} :
       request' = [request EXCEPT ![r] = Answered(@, status)]
  /\ UNCHANGED <<server, event, auditLog, errs, grace>>

\* AuditMiddleware calls Log, which starts the goroutine, and the request ends.
LogAndFinish(r) ==
  /\ Running
  /\ request[r].pc = "log"
  /\ request' = [request EXCEPT ![r].pc = "done"]
  /\ event' = [event EXCEPT ![r] = "pending"]
  /\ UNCHANGED <<server, auditLog, errs, grace>>

-----------------------------------------------------------------------------
(* The audit goroutine of a request.                                       *)

\* Faulty variant: the event is allowed unless the policy refused it.
EntryNotForbidden(r) == [request |-> r, allowed |-> request[r].status # 403]

Entry(r) == [request |-> r, allowed |-> request[r].status < 400]

InsertEvent(r) ==
  /\ Running
  /\ event[r] = "pending"
  /\ auditLog' = auditLog \cup {Entry(r)}
  /\ event' = [event EXCEPT ![r] = "done"]
  /\ UNCHANGED <<server, request, errs, grace>>

\* The INSERT fails or does not answer within five seconds, with or without
\* having taken effect.
InsertFails(r) ==
  /\ Running
  /\ event[r] = "pending"
  /\ auditLog' \in {auditLog, auditLog \cup {Entry(r)}}
  /\ event' = [event EXCEPT ![r] = "error"]
  /\ UNCHANGED <<server, request, errs, grace>>

\* Faulty variant: a send without a default branch waits for room.
ReportErrorBlocking(r) ==
  /\ Running
  /\ event[r] = "error"
  /\ errs < ErrCap
  /\ errs' = errs + 1
  /\ event' = [event EXCEPT ![r] = "done"]
  /\ UNCHANGED <<server, request, auditLog, grace>>

\* The error goes to errChan if there is room, which nobody ever makes, and to
\* standard output otherwise.
ReportError(r) ==
  /\ Running
  /\ event[r] = "error"
  /\ errs' = IF errs < ErrCap THEN errs + 1 ELSE errs
  /\ event' = [event EXCEPT ![r] = "done"]
  /\ UNCHANGED <<server, request, auditLog, grace>>

-----------------------------------------------------------------------------
(* The server.                                                             *)

\* SIGINT or SIGTERM: Shutdown closes the listener and starts to wait.
Signal ==
  /\ server = "serving"
  /\ server' = "draining"
  /\ UNCHANGED <<request, event, auditLog, errs, grace>>

\* Faulty variant: Shutdown gets a context without a timeout.
GraceUnlimited ==
  /\ server = "draining"
  /\ grace
  /\ UNCHANGED vars

GraceEnds ==
  /\ server = "draining"
  /\ grace
  /\ grace' = FALSE
  /\ UNCHANGED <<server, request, event, auditLog, errs>>

\* Shutdown returns nil when no request is active; main returns.
Stop ==
  /\ server = "draining"
  /\ \A r \in Requests : ~Active(r)
  /\ server' = "stopped"
  /\ UNCHANGED <<request, event, auditLog, errs, grace>>

\* Shutdown ran out of time, and os.Exit(1).
GiveUp ==
  /\ server = "draining"
  /\ ~grace
  /\ server' = "failed"
  /\ UNCHANGED <<request, event, auditLog, errs, grace>>

\* The listener or the process fails.
Crash ==
  /\ Running
  /\ server' = "failed"
  /\ UNCHANGED <<request, event, auditLog, errs, grace>>

-----------------------------------------------------------------------------

Serve(r) == EnforcePolicy(r) \/ Handle(r) \/ LogAndFinish(r)
Audit(r) == InsertEvent(r) \/ InsertFails(r) \/ ReportError(r)
ShutDown == GraceEnds \/ Stop \/ GiveUp

Next ==
  \/ \E r \in Requests : Accept(r) \/ Serve(r) \/ Audit(r)
  \/ Signal \/ ShutDown \/ Crash

Spec == Init /\ [][Next]_vars

\* Goroutines keep running and timers fire.  A handler may take for ever, so the
\* steps of a request are fair only up to there.
FairSpec ==
  /\ Spec
  /\ \A r \in Requests : WF_vars(EnforcePolicy(r) \/ LogAndFinish(r)) /\ WF_vars(Audit(r))
  /\ WF_vars(ShutDown)

-----------------------------------------------------------------------------
(* Properties.                                                             *)

RequestStates == [pc : {"unsent", "policy", "handler", "log", "done"},
                  guarded : BOOLEAN, did : BOOLEAN, ran : BOOLEAN,
                  verdict : {"none", "allow", "error"}, status : Statuses]
Entries == [request : Requests, allowed : BOOLEAN]

\* Type invariant.  errChan is never asked to hold more than it can, with nobody
\* reading it (logger.go:44, 79-83).
TypeOK ==
  /\ server \in {"serving", "draining", "stopped", "failed"}
  /\ request \in [Requests -> RequestStates]
  /\ event \in [Requests -> {"none", "pending", "error", "done"}]
  /\ auditLog \subseteq Entries
  /\ errs \in 0..ErrCap
  /\ grace \in BOOLEAN

\* What the audit log says happened: a row that says "allowed" is of a request
\* whose handler ran and succeeded, a row that says "not allowed" of one that was
\* refused or failed, and no request has one of each, although rows are written
\* after the request by a goroutine that may time out and still succeed.
AuditTellsTheOutcome ==
  \A e \in auditLog :
    LET r == request[e.request] IN
    /\ r.pc = "done"
    /\ e.allowed <=> r.ran /\ r.status = 200

\* middleware.go:65-94: behind the policy middleware a handler runs only for a
\* request that named its agent and that the evaluator allowed, and a request that
\* was stopped there leaves no "allowed" row behind.
OnlyAllowedRequestsRun ==
  \A r \in Requests :
    LET q == request[r] IN
    q.guarded /\ (q.ran \/ [request |-> r, allowed |-> TRUE] \in auditLog) =>
      q.did /\ q.verdict = "allow"

\* A process that was told to stop does, even when a handler never returns.
SignalStops == (server = "draining") ~> (server \in {"stopped", "failed"})

\* No audit goroutine is left behind in a running server, although nobody reads
\* errChan: a full channel does not hold it up (logger.go:77-84).
AuditGoroutinesEnd ==
  \A r \in Requests : (event[r] = "pending") ~> (event[r] = "done" \/ ~Running)
=============================================================================
