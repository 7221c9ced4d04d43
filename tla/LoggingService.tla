--------------------------- MODULE LoggingService ---------------------------
(***************************************************************************)
(* The readiness protocol of the two tower middlewares: `poll_ready`,      *)
(* `call`, `clone` and drop of treat-axum-logging's LoggingMiddleware and  *)
(* of treat-tower's TraceService, over an inner service of limited         *)
(* capacity, driven by concurrent connections whose requests are answered  *)
(* out of order and may be cancelled at any point.                         *)
(*                                                                         *)
(* A service value is an instance.  Polling an instance ready reserves a   *)
(* permit on that instance; a clone holds no reservation; the inner `call` *)
(* spends the reservation of the instance it is called on and panics if    *)
(* there is none; dropping an instance or a future gives its permit back.  *)
(* That is tower's ConcurrencyLimit, the contract logging.rs:92-99 quotes. *)
(***************************************************************************)
CONSTANTS LoggingHandles, \* connections served through a LoggingMiddleware
          TraceHandles,   \* connections served through a TraceService
          Requests,       \* requests that may be in the server at once
          Instances,      \* values of the inner service
          Permits,        \* its capacity
          None            \* no instance, no request, nobody

Handles == LoggingHandles \cup TraceHandles

ASSUME DistinctKinds ==
  /\ LoggingHandles \cap TraceHandles = {}
  /\ Requests \cap Instances = {}
  /\ None \notin Requests \cup Instances

VARIABLES
  service,  \* the `state` / `inner` field of each connection's middleware
  job,      \* the request a connection is driving through poll_ready and call
  ready,    \* poll_ready answered Ready and call has not consumed it
  future,   \* how far the future `call` returned for a request has come
  captured, \* the instance moved into the request's async block
  holder    \* who holds each permit: an instance, an inner response future

vars == <<service, job, ready, future, captured, holder>>

Stages == {"free", "queued", "created", "running", "panicked"}

TypeOK ==
  /\ service \in [Handles -> Instances \cup {None}]
  /\ job \in [Handles -> Requests \cup {None}]
  /\ ready \in [Handles -> BOOLEAN]
  /\ future \in [Requests -> Stages]
  /\ captured \in [Requests -> Instances \cup {None}]
  /\ holder \in [Permits -> Instances \cup Requests \cup {None}]
  /\ \A h \in Handles : (ready[h] => job[h] # None) /\ (job[h] # None => service[h] # None)

Init ==
  /\ service = [h \in Handles |-> None]
  /\ job = [h \in Handles |-> None]
  /\ ready = [h \in Handles |-> FALSE]
  /\ future = [r \in Requests |-> "free"]
  /\ captured = [r \in Requests |-> None]
  /\ holder = [p \in Permits |-> None]

-----------------------------------------------------------------------------
(* The inner service, as the middlewares use it. *)

Owned(i) == \/ \E h \in Handles : service[h] = i
            \/ \E r \in Requests : captured[r] = i

\* `clone` returns a value nobody else has, without a reservation.
Fresh(i) == i \in Instances /\ ~Owned(i) /\ \A p \in Permits : holder[p] # i

Reserved(x) == \E p \in Permits : holder[p] = x

\* Dropping every value in S returns the permits they hold.
Release(S) == [p \in Permits |-> IF holder[p] \in S THEN None ELSE holder[p]]

\* Reserves a permit unless the instance already has one; pending otherwise.
InnerReady(i) ==
  \/ Reserved(i) /\ UNCHANGED holder
  \/ /\ ~Reserved(i)
     /\ \E p \in Permits : holder[p] = None /\ holder' = [holder EXCEPT ![p] = i]

\* The permit moves from the instance into the response future.
InnerCall(i, r) ==
  /\ future' = [future EXCEPT ![r] = IF Reserved(i) THEN "running" ELSE "panicked"]
  /\ holder' = [p \in Permits |-> IF holder[p] = i THEN r ELSE holder[p]]

-----------------------------------------------------------------------------
(* The connection's task. *)

\* The server clones the middleware for a new connection.
Connect(h) ==
  /\ service[h] = None
  /\ \E i \in Instances : Fresh(i) /\ service' = [service EXCEPT ![h] = i]
  /\ UNCHANGED <<job, ready, future, captured, holder>>

\* The connection's middleware is dropped, and with it the request it had
\* not called yet.  Futures already returned live on.
Discard(h) ==
  /\ service' = [service EXCEPT ![h] = None]
  /\ job' = [job EXCEPT ![h] = None]
  /\ ready' = [ready EXCEPT ![h] = FALSE]
  /\ future' = [r \in Requests |-> IF r = job[h] THEN "free" ELSE future[r]]
  /\ holder' = Release({service[h]})
  /\ UNCHANGED captured

\* The connection is closed.
Disconnect(h) == service[h] # None /\ Discard(h)

Arrive(h, r) ==
  /\ service[h] # None
  /\ job[h] = None
  /\ future[r] = "free"
  /\ job' = [job EXCEPT ![h] = r]
  /\ future' = [future EXCEPT ![r] = "queued"]
  /\ UNCHANGED <<service, ready, captured, holder>>

-----------------------------------------------------------------------------
(* The middlewares. *)

PollReadyMutClone(h) ==
  /\ job[h] # None
  /\ \E p \in Permits : holder[p] = None
  /\ ready' = [ready EXCEPT ![h] = TRUE]
  /\ UNCHANGED <<service, job, future, captured, holder>>

\* Both middlewares delegate to the instance they hold.
PollReady(h) ==
  /\ job[h] # None
  /\ InnerReady(service[h])
  /\ ready' = [ready EXCEPT ![h] = TRUE]
  /\ UNCHANGED <<service, job, future, captured>>

\* The inner poll_ready fails, reserved or not; both middlewares pass the
\* error on, and a service that failed to get ready is called no more.
PollReadyFails(h) == job[h] # None /\ Discard(h)

CallLoggingMutCapturesClone(h) ==
  /\ ready[h]
  /\ \E i \in Instances : Fresh(i) /\ captured' = [captured EXCEPT ![job[h]] = i]
  /\ future' = [future EXCEPT ![job[h]] = "created"]
  /\ job' = [job EXCEPT ![h] = None]
  /\ ready' = [ready EXCEPT ![h] = FALSE]
  /\ UNCHANGED <<service, holder>>

\* LoggingMiddleware: swap a clone in, move the ready instance into the
\* future.  Nothing runs before the future is first polled.
CallLogging(h) ==
  /\ ready[h]
  /\ \E i \in Instances : Fresh(i) /\ service' = [service EXCEPT ![h] = i]
  /\ captured' = [captured EXCEPT ![job[h]] = service[h]]
  /\ future' = [future EXCEPT ![job[h]] = "created"]
  /\ job' = [job EXCEPT ![h] = None]
  /\ ready' = [ready EXCEPT ![h] = FALSE]
  /\ UNCHANGED holder

CallTraceMutClone(h) ==
  /\ ready[h]
  /\ \E i \in Instances : Fresh(i) /\ InnerCall(i, job[h])
  /\ job' = [job EXCEPT ![h] = None]
  /\ ready' = [ready EXCEPT ![h] = FALSE]
  /\ UNCHANGED <<service, captured>>

\* TraceService calls the instance it holds at once.
CallTrace(h) ==
  /\ ready[h]
  /\ InnerCall(service[h], job[h])
  /\ job' = [job EXCEPT ![h] = None]
  /\ ready' = [ready EXCEPT ![h] = FALSE]
  /\ UNCHANGED <<service, captured>>

\* First poll of the LoggingMiddleware future: `state.call(request)`.
Start(r) ==
  /\ future[r] = "created"
  /\ InnerCall(captured[r], r)
  /\ UNCHANGED <<service, job, ready, captured>>

\* The inner future resolves, to Ok or Err alike, and the outer one with it.
Finish(r) ==
  /\ future[r] = "running"
  /\ future' = [future EXCEPT ![r] = "free"]
  /\ captured' = [captured EXCEPT ![r] = None]
  /\ holder' = Release({r, captured[r]} \ {None})
  /\ UNCHANGED <<service, job, ready>>

\* The future is dropped before it resolves, polled or not.
Cancel(r) ==
  /\ future[r] \in {"created", "running"}
  /\ future' = [future EXCEPT ![r] = "free"]
  /\ captured' = [captured EXCEPT ![r] = None]
  /\ holder' = Release({r, captured[r]} \ {None})
  /\ UNCHANGED <<service, job, ready>>

-----------------------------------------------------------------------------
Next ==
  \/ \E h \in Handles :
       \/ Connect(h) \/ Disconnect(h)
       \/ \E r \in Requests : Arrive(h, r)
       \/ PollReady(h) \/ PollReadyFails(h)
  \/ \E h \in LoggingHandles : CallLogging(h)
  \/ \E h \in TraceHandles : CallTrace(h)
  \/ \E r \in Requests : Start(r) \/ Finish(r) \/ Cancel(r)

Spec == Init /\ [][Next]_vars

(***************************************************************************)
(* A task that was woken is polled again and a handler returns; a closing  *)
(* connection and a cancelled future are never certain.  Readiness is      *)
(* contended, so one poll among many may find the capacity taken: the      *)
(* limiter's queue of wakers is first come, first served, which strong     *)
(* fairness of the poll stands for.                                        *)
(***************************************************************************)
Fairness ==
  /\ \A h \in Handles : SF_vars(PollReady(h))
  /\ \A h \in LoggingHandles : WF_vars(CallLogging(h))
  /\ \A h \in TraceHandles : WF_vars(CallTrace(h))
  /\ \A r \in Requests : WF_vars(Start(r)) /\ WF_vars(Finish(r))

FairSpec == Spec /\ Fairness

-----------------------------------------------------------------------------
(* No interleaving of connections, cancellations and late first polls      *)
(* makes a middleware call an instance that was never polled ready, which  *)
(* logging.rs:94-95 says a service may panic over.                         *)
NeverCalledUnready == \A r \in Requests : future[r] # "panicked"

(* A reservation is never stranded: the permit an instance holds belongs   *)
(* to a connection about to call it or to a future about to be polled.     *)
NoStrandedPermit ==
  \A p \in Permits : holder[p] \in Instances =>
    \/ \E h \in Handles : service[h] = holder[p] /\ ready[h]
    \/ \E r \in Requests : captured[r] = holder[p] /\ future[r] = "created"

(* Why the two invariants above are inductive: an instance has one owner,  *)
(* a request one driver, a permit one user, and "ready" and "created" are  *)
(* never stale: each is backed by a reservation on the very instance.      *)
OwnedOnce ==
  /\ \A h, k \in Handles : service[h] = service[k] /\ service[h] # None => h = k
  /\ \A r, s \in Requests : captured[r] = captured[s] /\ captured[r] # None => r = s
  /\ \A h \in Handles, r \in Requests : service[h] = captured[r] => service[h] = None

DrivenOnce ==
  /\ \A h, k \in Handles : job[h] = job[k] /\ job[h] # None => h = k
  /\ \A h \in Handles : job[h] # None => future[job[h]] = "queued"

BackedByPermit ==
  /\ \A h \in Handles : ready[h] => Reserved(service[h])
  /\ \A r \in Requests :
       /\ future[r] \in {"free", "queued"} => captured[r] = None
       /\ future[r] = "created" => captured[r] # None /\ Reserved(captured[r])
       /\ future[r] = "running" <=> Reserved(r)

SpentOnce ==
  \A p, q \in Permits : holder[p] = holder[q] /\ holder[p] # None => p = q

IInv ==
  /\ TypeOK
  /\ OwnedOnce
  /\ DrivenOnce
  /\ BackedByPermit
  /\ SpentOnce
  /\ NoStrandedPermit
  /\ NeverCalledUnready

(* Every request that reaches a connection leaves the server again, unless *)
(* nobody polls its task: no schedule leaves the capacity reserved by      *)
(* something that will never use it.                                       *)
EveryRequestLeaves ==
  \A r \in Requests : future[r] = "queued" ~> future[r] = "free"

-----------------------------------------------------------------------------
(* The abstract view: a permit is spent on the request for whose sake its  *)
(* holder keeps it, and a request is admitted once a permit is reserved    *)
(* for it.                                                                 *)
Beneficiary(x) ==
  IF x \in Requests \cup {None} THEN x
  ELSE IF \E r \in Requests : captured[r] = x
       THEN CHOOSE r \in Requests : captured[r] = x
       ELSE IF \E h \in Handles : service[h] = x
            THEN job[CHOOSE h \in Handles : service[h] = x]
            ELSE None

grantView == [p \in Permits |-> Beneficiary(holder[p])]

stageView ==
  [r \in Requests |->
     IF future[r] # "queued"
     THEN IF future[r] = "free" THEN "free" ELSE "admitted"
     ELSE IF \E h \in Handles : job[h] = r /\ ready[h] THEN "admitted" ELSE "queued"]

Abstract == INSTANCE Admission WITH stage <- stageView, grant <- grantView

(* The middlewares implement Admission: they neither admit a request       *)
(* without a permit of its own nor spend two on one request.               *)
ImplementsAdmission == Abstract!Spec
OnePermitPerRequest == Abstract!AdmittedIffGranted
=============================================================================
