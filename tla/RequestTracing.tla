--------------------------- MODULE RequestTracing ---------------------------
(***************************************************************************)
(* The life of a request under the tracing middlewares: treat-tower's      *)
(* TraceLayer, treat-axum-logging's LoggingLayer, in either order or alone,*)
(* and treat-actix's Logger.  Worker threads call and poll the futures of  *)
(* several requests in any interleaving; each thread has its own stack of  *)
(* entered spans, the context that decides which span a new span or an     *)
(* event belongs to.  The layer at index 1 of `stack` is the outermost.    *)
(***************************************************************************)
EXTENDS Naturals, Sequences, FiniteSets

CONSTANTS Requests,
          Workers,   \* threads that call and poll
          Stacks,    \* the layer stacks a server may be built with
          Ids,       \* request ids
          Statuses,  \* HTTP statuses a handler answers with
          MaxSuspends, \* bound: polls of one handler that end in Pending
          Own,       \* an X-Request-Id the handler set itself
          None

LayerKinds == {"trace", "logging", "actix"}

ASSUME EachLayerOnce ==
  \A s \in Stacks : /\ s \in Seq(LayerKinds) /\ s # <<>>
                    /\ \A m, n \in DOMAIN s : s[m] = s[n] => m = n

\* The Logger is a middleware of actix-web, the layers are tower's.
ASSUME ActixAlone ==
  \A s \in Stacks : (\E n \in DOMAIN s : s[n] = "actix") => s = <<"actix">>

ASSUME BoundIsNat == MaxSuspends \in Nat
ASSUME NoneIsNothing == None \notin Requests \cup Ids \cup Statuses

VARIABLES
  stack,    \* the layers of this server, chosen once
  sent,     \* the usable id in each request's X-Request-Id header
  ext,      \* the RequestId in the request's extensions
  stage,    \* new, pending, polling, returning, done or dropped
  called,   \* layers of a request whose `call` has run
  depth,    \* layers of a request entered by the poll in progress, its body's too
  spans,    \* the span each layer opened for a request
  outcome,  \* what the handler returned, as the layers pass it outwards
  journal,  \* events recorded while a request was worked on, with their span
  suspends, \* polls of a request that ended in Pending
  home,     \* the worker that called each request
  worker,   \* the request each worker is working on
  current   \* the stack of entered spans of each worker

vars == <<stack, sent, ext, stage, called, depth, spans, outcome, journal,
          suspends, home, worker, current>>

Layers == DOMAIN stack
Inner == Len(stack)
HasId(n) == stack[n] # "logging"

\* The span of layer n of request r is named <<r, n>>.
NoOutcome == [kind |-> "none", status |-> None, carries |-> FALSE, header |-> None]
NoSpan == [parent |-> None, id |-> None, status |-> None]
Parents == (Requests \X Layers) \cup {None}
Spans == [parent : Parents, id : Ids \cup {None}, status : Statuses \cup {None}]
Outcomes == [kind : {"none", "ok", "err"}, status : Statuses \cup {None},
             carries : BOOLEAN, header : Ids \cup {Own, None}]

Init ==
  /\ stack \in Stacks
  /\ sent = [r \in Requests |-> None]
  /\ ext = [r \in Requests |-> None]
  /\ stage = [r \in Requests |-> "new"]
  /\ called = [r \in Requests |-> 0]
  /\ depth = [r \in Requests |-> 0]
  /\ spans = [r \in Requests |-> [n \in Layers |-> NoSpan]]
  /\ outcome = [r \in Requests |-> NoOutcome]
  /\ journal = [r \in Requests |-> <<>>]
  /\ suspends = [r \in Requests |-> 0]
  /\ home = [r \in Requests |-> None]
  /\ worker = [w \in Workers |-> None]
  /\ current = [w \in Workers |-> <<>>]

Top(s) == IF s = <<>> THEN None ELSE s[Len(s)]

-----------------------------------------------------------------------------
(* Calling. *)

\* `call` runs through the layers until one that returns a lazy future:
\* LoggingMiddleware only calls inwards when its future is first polled.
LastCalled(n) ==
  IF \E m \in n .. Inner : stack[m] = "logging"
  THEN CHOOSE m \in n .. Inner : stack[m] = "logging"
  ELSE Inner

ResolvedIdsMutIgnoresCaller(s) == Ids \ {ext[q] : q \in Requests}

\* The caller's id is adopted, else one is generated that nobody uses yet.
ResolvedIds(s) == IF s # None THEN {s} ELSE Ids \ {ext[q] : q \in Requests}

ParentMutNoGuard(r, n, k, top) == top

\* The span that is entered when layer k, called through layers n .. k, opens
\* its own: TraceService and the actix Logger hold theirs while they call.
Parent(r, n, k, top) == IF k = n THEN top ELSE <<r, k - 1>>

\* Layers n onwards open their spans; TraceLayer and the actix Logger put the
\* request id in the extensions first, LoggingLayer records what is there.
Open(r, n, s, top) ==
  \E id \in ResolvedIds(s) :
    LET last == LastCalled(n)
        seen == IF \E k \in Layers : k \in n .. last /\ HasId(k) THEN id ELSE ext[r]
    IN  /\ ext' = [ext EXCEPT ![r] = seen]
        /\ spans' = [spans EXCEPT ![r] = [k \in Layers |->
                       IF k \notin n .. last THEN @[k]
                       ELSE [parent |-> Parent(r, n, k, top), id |-> seen, status |-> None]]]
        /\ called' = [called EXCEPT ![r] = last]

Call(w, r) ==
  /\ stage[r] = "new"
  /\ worker[w] = None
  /\ \E s \in Ids \cup {None} :
       /\ sent' = [sent EXCEPT ![r] = s]
       /\ Open(r, 1, s, Top(current[w]))
  /\ stage' = [stage EXCEPT ![r] = "pending"]
  /\ home' = [home EXCEPT ![r] = w]
  /\ UNCHANGED <<stack, depth, outcome, journal, suspends, worker, current>>

-----------------------------------------------------------------------------
(* Polling. *)

\* An actix request stays on the thread that accepted it.
MayPoll(w, r) == stack = <<"actix">> => home[r] = w

BeginPoll(w, r) ==
  /\ stage[r] = "pending"
  /\ worker[w] = None
  /\ MayPoll(w, r)
  /\ worker' = [worker EXCEPT ![w] = r]
  /\ stage' = [stage EXCEPT ![r] = "polling"]
  /\ depth' = [depth EXCEPT ![r] = 0]
  /\ UNCHANGED <<stack, sent, ext, called, spans, outcome, journal, suspends, home, current>>

\* Each layer enters its span and polls the future inside.
Enter(w) ==
  LET r == worker[w] IN
  /\ r # None /\ stage[r] = "polling"
  /\ depth[r] < called[r]
  /\ depth' = [depth EXCEPT ![r] = @ + 1]
  /\ current' = [current EXCEPT ![w] = Append(@, <<r, depth[r] + 1>>)]
  /\ UNCHANGED <<stack, sent, ext, stage, called, spans, outcome, journal, suspends, home, worker>>

\* First poll of a LoggingMiddleware future: `state.call(request)`.
CallInner(w) ==
  LET r == worker[w] IN
  /\ r # None /\ stage[r] = "polling"
  /\ depth[r] = called[r] /\ called[r] < Inner
  /\ Open(r, called[r] + 1, sent[r], Top(current[w]))
  /\ UNCHANGED <<stack, sent, stage, depth, outcome, journal, suspends, home, worker, current>>

Handling(w) == worker[w] # None /\ stage[worker[w]] = "polling" /\ depth[worker[w]] = Inner

Record(r, what, span) ==
  journal' = [journal EXCEPT ![r] = Append(@, [what |-> what, span |-> span])]

\* The handler records an event (one per request is enough to look at).
Emit(w) ==
  LET r == worker[w] IN
  /\ Handling(w)
  /\ journal[r] = <<>>
  /\ Record(r, "handler", Top(current[w]))
  /\ UNCHANGED <<stack, sent, ext, stage, called, depth, spans, outcome, suspends, home, worker, current>>

UnwindMutLeaks(w, to) ==
  /\ Handling(w)
  /\ stage' = [stage EXCEPT ![worker[w]] = to]
  /\ depth' = [depth EXCEPT ![worker[w]] = 0]
  /\ worker' = [worker EXCEPT ![w] = None]
  /\ UNCHANGED <<stack, sent, ext, called, spans, outcome, journal, home, current>>

\* Every layer returns, or is unwound, and its guard leaves the span it entered.
Unwind(w, to) ==
  /\ Handling(w)
  /\ stage' = [stage EXCEPT ![worker[w]] = to]
  /\ depth' = [depth EXCEPT ![worker[w]] = 0]
  /\ worker' = [worker EXCEPT ![w] = None]
  /\ current' = [current EXCEPT ![w] = SubSeq(@, 1, Len(@) - depth[worker[w]])]
  /\ UNCHANGED <<stack, sent, ext, called, spans, outcome, journal, home>>

\* Pending
Suspend(w) ==
  /\ Handling(w) /\ suspends[worker[w]] < MaxSuspends
  /\ suspends' = [suspends EXCEPT ![worker[w]] = @ + 1]
  /\ Unwind(w, "pending")

\* The handler panics; the runtime stops the panic at the task and drops it.
Panic(w) == Unwind(w, "dropped") /\ UNCHANGED suspends

\* The handler answers: a response that may carry a stashed error and may
\* have its own X-Request-Id, or an error of the inner service.
Resolve(w) ==
  LET r == worker[w] IN
  /\ Handling(w)
  /\ \E o \in Outcomes :
       /\ o.kind # "none" /\ o.status # None /\ o.header \in {Own, None}
       /\ o.kind = "err" => ~o.carries /\ o.header = None
       /\ outcome' = [outcome EXCEPT ![r] = o]
  /\ stage' = [stage EXCEPT ![r] = "returning"]
  /\ UNCHANGED <<stack, sent, ext, called, depth, spans, journal, suspends, home, worker, current>>

-----------------------------------------------------------------------------
(* Returning through layer n.  *)

RecordStatus(r, n) == spans' = [spans EXCEPT ![r][n].status = outcome[r].status]

EchoIdMutOverwrites(r, n) ==
  outcome' = [outcome EXCEPT ![r].header = spans[r][n].id]

\* A header the handler set has the final say.
EchoId(r, n) ==
  outcome' = [outcome EXCEPT ![r].header = IF @ = None THEN spans[r][n].id ELSE @]

TraceReturnMutSkipsErrors(r, n) ==
  IF outcome[r].kind = "ok" /\ ~outcome[r].carries
  THEN RecordStatus(r, n) /\ EchoId(r, n) /\ UNCHANGED journal
  ELSE UNCHANGED <<spans, outcome, journal>>

\* TraceFuture: only a response has a status to record and headers to fill.
TraceReturn(r, n) ==
  IF outcome[r].kind = "ok"
  THEN RecordStatus(r, n) /\ EchoId(r, n) /\ UNCHANGED journal
  ELSE UNCHANGED <<spans, outcome, journal>>

LoggingReturnMutIgnoresStash(r, n, top) ==
  /\ UNCHANGED outcome
  /\ IF outcome[r].kind = "ok"
     THEN RecordStatus(r, n) /\ Record(r, "api_error", top)
     ELSE Record(r, "service_error", top) /\ UNCHANGED spans

\* Records the status, then hands the error the response carries, if any, to
\* the logger; an Err is logged as such and has nothing to inspect.
LoggingReturn(r, n, top) ==
  /\ UNCHANGED outcome
  /\ IF outcome[r].kind = "ok"
     THEN /\ RecordStatus(r, n)
          /\ IF outcome[r].carries
             THEN Record(r, "api_error", top)
             ELSE UNCHANGED journal
     ELSE Record(r, "service_error", top) /\ UNCHANGED spans

\* The actix Logger records and logs both outcomes; only a response has
\* headers to echo the id in.
ActixReturn(r, n, top) ==
  /\ RecordStatus(r, n)
  /\ Record(r, IF outcome[r].kind = "err" \/ outcome[r].carries THEN "api_error" ELSE "success", top)
  /\ IF outcome[r].kind = "ok" THEN EchoId(r, n) ELSE UNCHANGED outcome

Return(w) ==
  LET r == worker[w]
      n == depth[r]
      top == Top(current[w])
  IN
  /\ r # None /\ stage[r] = "returning"
  /\ \/ stack[n] = "trace" /\ TraceReturn(r, n)
     \/ stack[n] = "logging" /\ LoggingReturn(r, n, top)
     \/ stack[n] = "actix" /\ ActixReturn(r, n, top)
  /\ current' = [current EXCEPT ![w] = SubSeq(@, 1, Len(@) - 1)]
  /\ depth' = [depth EXCEPT ![r] = n - 1]
  /\ worker' = [worker EXCEPT ![w] = IF n = 1 THEN None ELSE r]
  /\ stage' = [stage EXCEPT ![r] = IF n = 1 THEN "done" ELSE "returning"]
  /\ UNCHANGED <<stack, sent, ext, called, suspends, home>>

-----------------------------------------------------------------------------
(* Streaming.  A poll of the body of an actix response, on the thread of   *)
(* its request, is made by StreamSpan: enter the span, poll the body, and  *)
(* leave again, also if the body panics.  A body is polled until it ends.  *)

HasBody(r) == stack = <<"actix">> /\ stage[r] = "done" /\ outcome[r].kind = "ok"

BeginBodyMutNoGuard(w, r) ==
  /\ HasBody(r) /\ depth[r] = 0
  /\ worker[w] = None /\ home[r] = w
  /\ worker' = [worker EXCEPT ![w] = r]
  /\ depth' = [depth EXCEPT ![r] = 1]
  /\ UNCHANGED <<stack, sent, ext, stage, called, spans, outcome, journal, suspends, home, current>>

BeginBody(w, r) ==
  /\ HasBody(r) /\ depth[r] = 0
  /\ worker[w] = None /\ home[r] = w
  /\ worker' = [worker EXCEPT ![w] = r]
  /\ depth' = [depth EXCEPT ![r] = 1]
  /\ current' = [current EXCEPT ![w] = Append(@, <<r, 1>>)]
  /\ UNCHANGED <<stack, sent, ext, stage, called, spans, outcome, journal, suspends, home>>

Streaming(w) == worker[w] # None /\ stage[worker[w]] = "done"

\* The body records an event (one per request is enough to look at).
EmitBody(w) ==
  LET r == worker[w] IN
  /\ Streaming(w)
  /\ \A i \in DOMAIN journal[r] : journal[r][i].what # "body"
  /\ Record(r, "body", Top(current[w]))
  /\ UNCHANGED <<stack, sent, ext, stage, called, depth, spans, outcome, suspends, home, worker, current>>

EndBody(w) ==
  /\ Streaming(w)
  /\ worker' = [worker EXCEPT ![w] = None]
  /\ depth' = [depth EXCEPT ![worker[w]] = 0]
  /\ current' = [current EXCEPT ![w] = SubSeq(@, 1, Len(@) - 1)]
  /\ UNCHANGED <<stack, sent, ext, stage, called, spans, outcome, journal, suspends, home>>

-----------------------------------------------------------------------------
\* The caller is gone: the future is dropped between two polls.
Drop(r) ==
  /\ stage[r] = "pending"
  /\ stage' = [stage EXCEPT ![r] = "dropped"]
  /\ UNCHANGED <<stack, sent, ext, called, depth, spans, outcome, journal, suspends, home, worker, current>>

Next ==
  \/ \E w \in Workers :
       \/ \E r \in Requests : Call(w, r) \/ BeginPoll(w, r) \/ BeginBody(w, r)
       \/ Enter(w) \/ CallInner(w) \/ Emit(w) \/ Suspend(w) \/ Panic(w) \/ Resolve(w) \/ Return(w)
       \/ EmitBody(w) \/ EndBody(w)
  \/ \E r \in Requests : Drop(r)

Spec == Init /\ [][Next]_vars

-----------------------------------------------------------------------------
TypeOK ==
  /\ stack \in Stacks
  /\ sent \in [Requests -> Ids \cup {None}]
  /\ ext \in [Requests -> Ids \cup {None}]
  /\ stage \in [Requests -> {"new", "pending", "polling", "returning", "done", "dropped"}]
  /\ called \in [Requests -> 0 .. Inner]
  /\ depth \in [Requests -> 0 .. Inner]
  /\ spans \in [Requests -> [Layers -> Spans]]
  /\ outcome \in [Requests -> Outcomes]
  /\ suspends \in [Requests -> 0 .. MaxSuspends]
  /\ home \in [Requests -> Workers \cup {None}]
  /\ worker \in [Workers -> Requests \cup {None}]
  /\ current \in [Workers -> Seq(Requests \X Layers)]

\* The spans of the d outermost layers of request r.
Scope(r, d) == [n \in 1 .. d |-> <<r, n>>]

(* Between two polls a thread is inside no request's span, even if the     *)
(* handler panicked, and while it polls a request it is inside exactly the *)
(* spans of that request's layers, outermost first, however other requests *)
(* are interleaved on it.                                                  *)
ScopesNested ==
  \A w \in Workers :
    current[w] = IF worker[w] = None THEN <<>> ELSE Scope(worker[w], depth[worker[w]])

(* The spans of one request form one chain under the outermost layer's,    *)
(* although LoggingMiddleware calls inwards only at its first poll, maybe  *)
(* on another thread than the one that made the call.                      *)
SpansChained ==
  \A r \in Requests, n \in Layers :
    n <= called[r] => spans[r][n].parent = IF n = 1 THEN None ELSE <<r, n - 1>>

(* Why nesting and chaining are inductive: a request is polled by one      *)
(* worker at a time, only layers that were called are entered, and they    *)
(* are left in the order they were entered in.                             *)
PolledOnce ==
  /\ \A v, w \in Workers : worker[v] = worker[w] /\ worker[v] # None => v = w
  /\ \A w \in Workers : worker[w] # None =>
       \/ stage[worker[w]] \in {"polling", "returning"}
       \/ stack = <<"actix">> /\ stage[worker[w]] = "done" /\ depth[worker[w]] = 1
  /\ \A r \in Requests :
       /\ stage[r] = "new" <=> called[r] = 0
       /\ depth[r] <= called[r]
       /\ stage[r] = "returning" => depth[r] > 0

ScopeInv == TypeOK /\ ScopesNested /\ SpansChained /\ PolledOnce

Logs(n) == stack[n] \in {"logging", "actix"}

(* What the handler, the loggers and the body stream record lands in the   *)
(* span of the request it is about: the handler's in the innermost span, a *)
(* logger's in its own.                                                    *)
EventsInOwnSpan ==
  \A r \in Requests : \A i \in DOMAIN journal[r] :
    \E n \in Layers :
      /\ journal[r][i].span = <<r, n>>
      /\ IF journal[r][i].what = "handler" THEN n = Inner ELSE Logs(n)

\* The layers that have passed the answer of r on.
Answered(r, n) == stage[r] = "done" \/ (stage[r] = "returning" /\ n > depth[r])

Recorded(r, what) == Cardinality({i \in DOMAIN journal[r] : journal[r][i].what = what})

(* An error a response carries is handed to the configured logger once and *)
(* for all when the logging layer passes the response on, an error of the  *)
(* inner service is logged once, and nothing is logged for a request that  *)
(* has not been answered.                                                  *)
LoggedOnce ==
  \A r \in Requests :
    LET o == outcome[r]
        logged == \E n \in Layers : Logs(n) /\ Answered(r, n)
        failed == IF stack = <<"actix">> THEN o.carries \/ o.kind = "err" ELSE o.carries
    IN  /\ Recorded(r, "api_error") = IF logged /\ failed THEN 1 ELSE 0
        /\ Recorded(r, "service_error") =
             IF logged /\ o.kind = "err" /\ stack # <<"actix">> THEN 1 ELSE 0

(* Every answered response can be correlated with the logs: its header is  *)
(* the handler's own or the id on the spans, and that is the id the        *)
(* caller sent, if it sent one.                                            *)
Correlated ==
  \A r \in Requests :
    /\ stage[r] = "done" /\ outcome[r].kind = "ok" /\ (\E n \in Layers : HasId(n)) =>
         /\ outcome[r].header \in {Own, ext[r]}
         /\ ext[r] # None
    /\ \A n \in Layers : n <= called[r] =>
         /\ spans[r][n].id # None => spans[r][n].id = ext[r]
         /\ (\E m \in 1 .. n : HasId(m)) => spans[r][n].id # None
    /\ sent[r] # None => ext[r] \in {None, sent[r]}

(* When a response leaves, every layer's span has its status; an error of  *)
(* the inner service and a dropped future leave the tower spans without.   *)
StatusOnEverySpan ==
  \A r \in Requests, n \in Layers :
    spans[r][n].status =
      IF Answered(r, n) /\ (outcome[r].kind = "ok" \/ stack = <<"actix">>)
      THEN outcome[r].status ELSE None

(* Layers pass the handler's answer on: all a step may change in it is to  *)
(* fill in a missing request id.                                           *)
AnswerUntouched ==
  [][\A r \in Requests : outcome[r].kind # "none" =>
       \/ outcome'[r] = outcome[r]
       \/ /\ outcome[r].header = None
          /\ outcome'[r] = [outcome[r] EXCEPT !.header = ext[r]]]_vars

(* Why these are inductive.  There is an answer exactly from the handler's *)
(* on, and by then every layer has been called.                            *)
AnsweredByHandler ==
  \A r \in Requests :
    /\ outcome[r].kind = "none" <=> stage[r] \notin {"returning", "done"}
    /\ outcome[r].kind = "none" => outcome[r].header = None
    /\ outcome[r].kind = "err" => ~outcome[r].carries
    /\ stage[r] \in {"returning", "done"} => called[r] = Inner

\* The id is settled by the one layer that has ids, before it passes an
\* answer on, and the answer's header is never anything else.
IdSettled ==
  \A r \in Requests :
    /\ ext[r] # None <=> \E n \in Layers : n <= called[r] /\ HasId(n)
    /\ outcome[r].header \in {Own, None, ext[r]}
    /\ \A n \in Layers : Answered(r, n) /\ HasId(n) /\ outcome[r].kind = "ok" =>
         outcome[r].header \in {Own, ext[r]}

AnswerInv == ScopeInv /\ AnsweredByHandler /\ IdSettled /\ Correlated /\ StatusOnEverySpan
=============================================================================
