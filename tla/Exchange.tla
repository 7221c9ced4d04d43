------------------------------- MODULE Exchange -------------------------------
(***************************************************************************)
(* One call: a handler builds an ApiResponse or an ApiError, or an         *)
(* extractor rejects the request before the handler runs; an adapter of    *)
(* one of three frameworks turns the result into an HTTP response; a proxy *)
(* may drop the header on the way; a client parses the body back.          *)
(*                                                                         *)
(* Error codes stand for whole ErrorMessages.  A release build is          *)
(* modelled: the debug assertions on statuses are not compiled in.         *)
(***************************************************************************)
EXTENDS Naturals, Sequences

CONSTANTS Payloads,      \* values of `data` that are not null in JSON
          Unit,          \* the value `()`, which is
          Metas,
          Codes,         \* error codes of the service
          InvalidBody,   \* the code of a body that does not parse
          StatusCode,    \* ApiErrorStatus: a status per code
          Statuses,      \* statuses handlers set by hand, valid or not
          DefaultStatus, \* DEFAULT_ERROR_STATUS: 200, or 500 by feature
          RpcHeader,     \* the rpc-status-header feature
          Frameworks,
          Extractors,    \* the extractors handlers use
          MaxSteps,      \* bound: builder calls of a handler
          None

RejectionStatus == 422
RawStatus == 400   \* of the framework's own answer to an unreadable body

U16 == 0 .. 65535

ASSUME Feature == DefaultStatus \in {200, 500} /\ RpcHeader \in BOOLEAN /\ MaxSteps \in Nat
ASSUME Deployments ==
  Frameworks \subseteq {"axum", "actix", "poem"} /\ Extractors \subseteq {"ApiJson", "ApiValidated"}
ASSUME SixteenBits == Statuses \subseteq U16 /\ StatusCode \in [Codes -> U16]
ASSUME NoneIsNothing ==
  None \notin Payloads \cup Metas \cup Codes \cup {Unit, InvalidBody} \cup U16

VARIABLES
  stage,    \* accepted, building, answered, received or unparsable
  kind,     \* what the handler holds: a response, an error
  resp,
  err,
  steps,
  explicit, \* the status last set by hand on the outermost error
  adopted,  \* the first status taken over from a cause, since explicit
  wire,     \* the HTTP response
  rejected, \* history: which extractor turned the request down, and why
  client    \* what the client parsed

held == <<kind, resp, err, explicit, adopted>>
vars == <<stage, held, steps, wire, rejected, client>>

NoResp == [data |-> None, meta |-> None, errors |-> <<>>]
NewError(c) == [code |-> c, status |-> None, verbose |-> FALSE, causes |-> <<>>]
NoErr == NewError(None)

\* A JSON document: the fields it has, and what is in them; None is null.
Raw == [fields |-> {}, data |-> None, meta |-> None, errors |-> <<>>]
NoWire == [status |-> None, header |-> None, body |-> Raw, stash |-> None]
Rejection(f, x, why, s) == [framework |-> f, extractor |-> x, body |-> why, status |-> s]
NotRejected == Rejection(None, None, None, None)

Init ==
  /\ stage = "accepted"
  /\ kind = "none"
  /\ resp = NoResp
  /\ err = NoErr
  /\ steps = 0
  /\ explicit = None /\ adopted = None
  /\ wire = NoWire
  /\ rejected = NotRejected
  /\ client = NoResp

Build == stage' = "building" /\ steps' = steps + 1 /\ UNCHANGED <<wire, rejected, client>>
Busy == stage = "building" /\ steps < MaxSteps

-----------------------------------------------------------------------------
(* Responses. *)

SetResp(r) == kind' = "response" /\ resp' = r /\ Build /\ UNCHANGED <<err, explicit, adopted>>

\* success, success_with_meta, From<T>
Success ==
  /\ stage = "accepted"
  /\ \E d \in Payloads \cup {Unit}, m \in Metas \cup {None} :
       SetResp([data |-> d, meta |-> m, errors |-> <<>>])

\* failure takes any list of errors, the empty one too.
Failure ==
  /\ stage = "accepted"
  /\ \E es \in {<<>>} \cup {<<c>> : c \in Codes} : SetResp([NoResp EXCEPT !.errors = es])

Extend ==
  /\ Busy /\ kind = "response"
  /\ \/ \E d \in Payloads : SetResp([resp EXCEPT !.data = d])
     \/ \E m \in Metas : SetResp([resp EXCEPT !.meta = m])
     \/ \E es \in {<<>>} \cup (Codes \X Codes) : SetResp([resp EXCEPT !.errors = es])

-----------------------------------------------------------------------------
(* Errors. *)

SetErr(e) == kind' = "error" /\ err' = e /\ Build /\ UNCHANGED resp

Raise ==
  /\ stage = "accepted"
  /\ \E c \in Codes : SetErr(NewError(c))
  /\ UNCHANGED <<explicit, adopted>>

\* A new error takes the one in hand as its source, and nothing else of it.
Wrap(c) ==
  /\ SetErr([NewError(c) EXCEPT !.causes = <<err.code>> \o err.causes])
  /\ explicit' = None /\ adopted' = None

Status(e) == IF e.status = None THEN DefaultStatus ELSE e.status

WithSourceStatusMutOverrides(e, s) == [e EXCEPT !.status = s]
WithSourceStatus(e, s) == IF e.status = None THEN [e EXCEPT !.status = s] ELSE e

\* wrap_api_error and with_error, then with_source_status(inner.status())
WrapAndAdopt(c) ==
  /\ SetErr(WithSourceStatus([NewError(c) EXCEPT !.causes = <<err.code>> \o err.causes], Status(err)))
  /\ explicit' = None /\ adopted' = Status(err)

\* with_source_status on an error whose cause was read earlier.
Adopt(s) ==
  /\ SetErr(WithSourceStatus(err, s))
  /\ adopted' = IF explicit = None /\ adopted = None THEN s ELSE adopted
  /\ UNCHANGED explicit

\* with_status and with_code_status share a field: the last call wins.
WithStatus(s) ==
  /\ SetErr([err EXCEPT !.status = s])
  /\ explicit' = s
  /\ UNCHANGED adopted

Other(e) == SetErr(e) /\ UNCHANGED <<explicit, adopted>>
WithVerbose == Other([err EXCEPT !.verbose = TRUE])
MapCode(c) == Other([err EXCEPT !.code = c])

Enrich ==
  /\ Busy /\ kind = "error"
  /\ \/ \E c \in Codes : Wrap(c) \/ WrapAndAdopt(c) \/ MapCode(c)
     \/ \E s \in Statuses : WithStatus(s) \/ Adopt(s)
     \/ WithStatus(StatusCode[err.code])
     \/ WithVerbose

IntoApiResponseMutAlwaysVerbose(e) == [NoResp EXCEPT !.errors = <<e.code>> \o e.causes]

IntoApiResponseMutRootCauseFirst(e) ==
  [NoResp EXCEPT !.errors = IF e.verbose THEN e.causes \o <<e.code>> ELSE <<e.code>>]

\* into_api_response: the causes are listed in verbose mode only.
IntoApiResponse(e) ==
  [NoResp EXCEPT !.errors = IF e.verbose THEN <<e.code>> \o e.causes ELSE <<e.code>>]

\* From<ApiError> for ApiResponse: by hand, not through an adapter.
Convert ==
  /\ Busy /\ kind = "error"
  /\ SetResp(IntoApiResponse(err))

-----------------------------------------------------------------------------
(* Adapters. *)

\* What is not a status becomes 200.
ResolveStatus(s) == IF s \in 100 .. 599 THEN s ELSE 200

Json(d) == IF d = Unit THEN None ELSE d

SerializeMutKeepsData(r) ==
  [fields |-> {"data"} \cup (IF r.meta # None THEN {"meta"} ELSE {})
                       \cup (IF r.errors # <<>> THEN {"errors"} ELSE {}),
   data |-> Json(r.data), meta |-> r.meta, errors |-> r.errors]

\* Either `data`, null or not, or `errors`, never both and never `[]`.
Serialize(r) ==
  [fields |-> (IF r.errors = <<>> THEN {"data"} ELSE {"errors"})
              \cup (IF r.meta # None THEN {"meta"} ELSE {}),
   data |-> IF r.errors = <<>> THEN Json(r.data) ELSE None,
   meta |-> r.meta,
   errors |-> r.errors]

Header(value) == IF RpcHeader THEN value ELSE None
RpcStatusMutByData(r) == IF r.data # None THEN "ok" ELSE "error"
RpcStatus(r) == IF r.errors = <<>> THEN "ok" ELSE "error"

AxumResponse(r) == [status |-> 200, header |-> Header(RpcStatus(r)), body |-> Serialize(r), stash |-> None]
ActixResponse(r) == [status |-> 200, header |-> Header(RpcStatus(r)), body |-> Serialize(r), stash |-> None]
PoemResponse(r) == [status |-> 200, header |-> Header(RpcStatus(r)), body |-> Serialize(r), stash |-> None]

\* The error itself is stashed in the extensions for the middlewares.
AxumError(e) == [status |-> ResolveStatus(Status(e)), header |-> Header("error"),
                 body |-> Serialize(IntoApiResponse(e)), stash |-> e]
ActixError(e) == [status |-> ResolveStatus(Status(e)), header |-> Header("error"),
                  body |-> Serialize(IntoApiResponse(e)), stash |-> e]
PoemErrorMutStatusUnset(e) == [status |-> 200, header |-> Header("error"),
                               body |-> Serialize(IntoApiResponse(e)), stash |-> e]
PoemError(e) == [status |-> ResolveStatus(Status(e)), header |-> Header("error"),
                 body |-> Serialize(IntoApiResponse(e)), stash |-> e]

RespondIn(f, r) ==
  CASE f = "axum" -> AxumResponse(r) [] f = "actix" -> ActixResponse(r) [] f = "poem" -> PoemResponse(r)
FailIn(f, e) ==
  CASE f = "axum" -> AxumError(e) [] f = "actix" -> ActixError(e) [] f = "poem" -> PoemError(e)

Answer(f) == IF kind = "response" THEN RespondIn(f, resp) ELSE FailIn(f, err)

\* The handler returns.
Return(f) ==
  /\ stage = "building"
  /\ wire' = Answer(f)
  /\ stage' = "answered"
  /\ UNCHANGED <<held, steps, rejected, client>>

-----------------------------------------------------------------------------
(* Extractors.  Poem has none. *)

BodyError == [NewError(InvalidBody) EXCEPT !.status = RejectionStatus]

\* ApiResponseError has a status of its own, which service code around the
\* extractor may override; it sets no header and stashes nothing.
ActixResponseError(r, s) ==
  [status |-> ResolveStatus(s), header |-> None, body |-> Serialize(r), stash |-> None]
Overrides(f, x) ==
  {RejectionStatus} \cup IF f = "actix" /\ x = "ApiValidated" THEN Statuses ELSE {}

\* The body cannot be read: axum answers in its own words.
Unreadable(f, x, s) ==
  CASE f = "axum" -> [NoWire EXCEPT !.status = RawStatus]
    [] f = "actix" /\ x = "ApiJson" -> ActixError(BodyError)
    [] f = "actix" /\ x = "ApiValidated" -> ActixResponseError(IntoApiResponse(NewError(InvalidBody)), s)

MalformedMutPlainStatus(f, x, s) ==
  CASE f = "axum" -> AxumError(NewError(InvalidBody))
    [] f = "actix" /\ x = "ApiJson" -> ActixError(BodyError)
    [] f = "actix" /\ x = "ApiValidated" -> ActixResponseError(IntoApiResponse(BodyError), s)

\* The body does not parse: deserialize_body.
Malformed(f, x, s) ==
  CASE f = "axum" -> AxumError(BodyError)
    [] f = "actix" /\ x = "ApiJson" -> ActixError(BodyError)
    [] f = "actix" /\ x = "ApiValidated" -> ActixResponseError(IntoApiResponse(BodyError), s)

\* The value does not validate: one error for each invalid field.
Invalid(f, errors, s) ==
  LET r == [NoResp EXCEPT !.errors = errors] IN
  IF f = "axum" THEN [AxumResponse(r) EXCEPT !.status = RejectionStatus]
                ELSE ActixResponseError(r, s)

RejectedAs(f, x, why, s, answer) == wire' = answer /\ rejected' = Rejection(f, x, why, s)

Reject(f) ==
  /\ stage = "accepted" /\ f # "poem"
  /\ \E x \in Extractors : \E s \in Overrides(f, x) :
       \/ RejectedAs(f, x, "unreadable", s, Unreadable(f, x, s))
       \/ RejectedAs(f, x, "malformed", s, Malformed(f, x, s))
       \/ /\ x = "ApiValidated"
          /\ \E c, d \in Codes : \E errors \in {<<c>>, <<c, d>>} :
               RejectedAs(f, x, "invalid", s, Invalid(f, errors, s))
  /\ stage' = "answered"
  /\ UNCHANGED <<held, steps, client>>

-----------------------------------------------------------------------------
(* What the root span says of the answer: `otel.status_code`. *)

\* record_status
TowerOtel(w) == IF w.status \in 500 .. 599 THEN "ERROR" ELSE "OK"

ActixOtelMutErrorsAreErrors(w) == IF w.stash # None THEN "ERROR" ELSE "OK"

\* on_request_end and handle_error: a response built from an error is an
\* error unless its status blames the client.
ActixOtel(w) == IF w.stash # None /\ w.status \notin 400 .. 499 THEN "ERROR" ELSE "OK"

-----------------------------------------------------------------------------
(* Proxy and client. *)

StripHeader ==
  /\ stage = "answered"
  /\ wire' = [wire EXCEPT !.header = None]
  /\ stage' = "stripped"
  /\ UNCHANGED <<held, steps, rejected, client>>

\* `data` and `meta` are Options, `errors` defaults to the empty list.
Deserialize(body) ==
  [data |-> IF "data" \in body.fields THEN body.data ELSE None,
   meta |-> IF "meta" \in body.fields THEN body.meta ELSE None,
   errors |-> IF "errors" \in body.fields THEN body.errors ELSE <<>>]

Receive ==
  /\ stage \in {"answered", "stripped"}
  /\ IF wire.body = Raw
     THEN stage' = "unparsable" /\ UNCHANGED client
     ELSE stage' = "received" /\ client' = Deserialize(wire.body)
  /\ UNCHANGED <<held, steps, wire, rejected>>

\* into_inner: the first error, or the data if there is any.
IntoInner(r) == IF r.errors # <<>> THEN [err |-> Head(r.errors), ok |-> None]
                                   ELSE [err |-> None, ok |-> r.data]

Next ==
  \/ Success \/ Failure \/ Extend
  \/ Raise \/ Enrich \/ Convert
  \/ \E f \in Frameworks : Return(f) \/ Reject(f)
  \/ StripHeader \/ Receive

Spec == Init /\ [][Next]_vars

-----------------------------------------------------------------------------
AllCodes == Codes \cup {InvalidBody}
Responses == [data : Payloads \cup {Unit, None}, meta : Metas \cup {None}, errors : Seq(AllCodes)]
Errors == [code : AllCodes \cup {None}, status : U16 \cup {None}, verbose : BOOLEAN, causes : Seq(Codes)]
Bodies == [fields : SUBSET {"data", "meta", "errors"}, data : Payloads \cup {None},
           meta : Metas \cup {None}, errors : Seq(AllCodes)]

\* An empty stash can be told from a stashed error.
ASSUME StashIsEmptyOrError == None \notin Errors

TypeOK ==
  /\ stage \in {"accepted", "building", "answered", "stripped", "received", "unparsable"}
  /\ kind \in {"none", "response", "error"}
  /\ resp \in Responses /\ client \in Responses
  /\ err \in Errors
  /\ steps \in Nat
  /\ explicit \in U16 \cup {None} /\ adopted \in U16 \cup {None}
  /\ wire.status \in (100 .. 599) \cup {None}
  /\ wire.header \in {"ok", "error", None}
  /\ wire.body \in Bodies
  /\ rejected.framework \in {"axum", "actix", None} /\ rejected.extractor \in Extractors \cup {None}
  /\ rejected.body \in {"unreadable", "malformed", "invalid", None}
  /\ rejected.status \in U16 \cup {None}

Sent == stage \in {"answered", "stripped", "received"}
Handled == Sent /\ kind # "none"
OwnWords == rejected.framework = "axum" /\ rejected.body = "unreadable"
Overridable == rejected.framework = "actix" /\ rejected.extractor = "ApiValidated"

(* On the wire `data` and `errors` exclude each other and one of them is   *)
(* there, whatever the builders left in the struct (response.rs:32-41).    *)
DataXorErrors ==
  Sent /\ wire.body # Raw =>
    /\ "data" \in wire.body.fields <=> "errors" \notin wire.body.fields
    /\ "errors" \in wire.body.fields => wire.body.errors # <<>>

(* A response a handler built carries the header, unless it was stripped,  *)
(* and the header says what the body says, whatever the status line does   *)
(* (response.rs:84-86, rpc_status.rs:19-21).                               *)
HeaderAgreesWithBody ==
  Handled =>
    \/ RpcHeader /\ wire.header = IF "errors" \in wire.body.fields THEN "error" ELSE "ok"
    \/ wire.header = None /\ (~RpcHeader \/ stage # "answered")

(* The client's view of the call is the handler's: it fails exactly when   *)
(* the handler's result carries errors, with the outermost error, and      *)
(* succeeds with the very data otherwise, null for ().                     *)
ClientLearnsOutcome ==
  stage = "received" /\ kind # "none" =>
    LET view == IntoInner(client) IN
    IF kind = "error" THEN view.err = err.code
    ELSE IF resp.errors # <<>> THEN view.err = resp.errors[1]
    ELSE view = [err |-> None, ok |-> IF resp.data = Unit THEN None ELSE resp.data]

(* Whichever framework a service is built on, its clients and middlewares  *)
(* see the same answer.                                                    *)
FrameworksAgree ==
  stage = "building" => \A f, g \in Frameworks : Answer(f) = Answer(g)

(* The status line is decided by the error the handler returns: what was   *)
(* last set on it by hand, else the first status it adopted, else the      *)
(* default; a cause that is only wrapped never shows through, and a number *)
(* that is no HTTP status never reaches the wire.                          *)
StatusDecidedOutermost ==
  Handled =>
    LET chosen == IF explicit # None THEN explicit ELSE IF adopted # None THEN adopted ELSE DefaultStatus
    IN  wire.status = IF kind = "response" \/ chosen \notin 100 .. 599 THEN 200 ELSE chosen

(* Causes stay inside unless the returned error itself was made verbose: a *)
(* verbose cause does not make the error around it verbose.                *)
CausesStayPrivate ==
  Handled /\ kind = "error" =>
    \/ wire.body.errors = <<err.code>>
    \/ err.verbose /\ wire.body.errors = <<err.code>> \o err.causes

(* A request that never gets to its handler is answered with an envelope   *)
(* of errors and 422, or the status that service code put in its place;    *)
(* only a body that axum cannot read is answered by axum itself, with 400  *)
(* and no envelope (extract_axum.rs:28-30, 54-56).                         *)
RejectedWithEnvelope ==
  stage # "accepted" /\ kind = "none" =>
    /\ "errors" \in wire.body.fields <=> ~OwnWords
    /\ wire.body = Raw <=> OwnWords
    /\ wire.status = IF OwnWords THEN RawStatus ELSE IF Overridable THEN ResolveStatus(rejected.status)
                                                     ELSE RejectionStatus

(* Spans agree where the status says whose fault it is: an error answered  *)
(* with a 4xx never marks a span as failed and one with a 5xx always does, *)
(* whichever middleware records it.                                        *)
SpansAgreeOnFailures ==
  Handled /\ kind = "error" /\ wire.status >= 400 =>
    {TowerOtel(wire), ActixOtel(wire)} = {IF wire.status < 500 THEN "OK" ELSE "ERROR"}

(* treat-tower's root_span.rs:68-69: record_status matches the policy of   *)
(* the actix builder.                                                      *)
SamePolicy == Handled => TowerOtel(wire) = ActixOtel(wire)

(* rpc_status.rs:10-11: every response the crate builds carries exactly    *)
(* one X-RPC-Status header.                                                *)
EveryResponseCarriesHeader ==
  RpcHeader /\ stage = "answered" /\ wire.body # Raw => wire.header # None
=============================================================================
