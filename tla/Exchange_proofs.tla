--------------------------- MODULE Exchange_proofs ---------------------------
EXTENDS Exchange, TLAPS

-----------------------------------------------------------------------------
(* The inductive invariant. *)

\* The result of the handler as a response, and the answer it becomes in
\* any framework.
Given == IF kind = "response" THEN resp ELSE IntoApiResponse(err)

Reply ==
  [status |-> IF kind = "response" THEN 200 ELSE ResolveStatus(Status(err)),
   header |-> Header(IF kind = "response" THEN RpcStatus(resp) ELSE "error"),
   body |-> Serialize(Given),
   stash |-> IF kind = "response" THEN None ELSE err]

\* Where the handler stands, and what it holds by then.
HandlerInv ==
  /\ stage = "accepted" => kind = "none" /\ explicit = None /\ adopted = None
  /\ stage = "building" => kind # "none"
  /\ kind = "error" => err.code \in Codes
  /\ err.status = IF explicit # None THEN explicit ELSE adopted

OnTheWire == stage \notin {"accepted", "building"}

\* What the handler returned, but for a header that was stripped.
ReplyInv ==
  OnTheWire /\ kind # "none" =>
    \/ wire = Reply
    \/ stage # "answered" /\ wire = [Reply EXCEPT !.header = None]

\* What an extractor answered: an envelope with its status, or axum's own words.
Envelopes(status) ==
  [status : {status}, header : {"error", None},
   body : {b \in Bodies : b.fields = {"errors"} /\ b.errors # <<>>}, stash : {None} \cup Errors]
InOwnWords == [NoWire EXCEPT !.status = RawStatus]
StatusOfRejection == IF Overridable THEN ResolveStatus(rejected.status) ELSE RejectionStatus
RejectInv ==
  OnTheWire /\ kind = "none" =>
    IF OwnWords THEN wire = InOwnWords ELSE wire \in Envelopes(StatusOfRejection)

ClientInv == stage = "received" => wire.body # Raw /\ client = Deserialize(wire.body)

IInv == TypeOK /\ HandlerInv /\ ReplyInv /\ RejectInv /\ ClientInv

-----------------------------------------------------------------------------
(* The operators the answers are made of. *)

\* A resolved status is one that HTTP has.
LEMMA Resolved ==
  ASSUME NEW s \in U16 PROVE ResolveStatus(s) \in 100 .. 599
BY DEF ResolveStatus

LEMMA Widths ==
  /\ None \notin U16 /\ DefaultStatus \in U16
  /\ Statuses \subseteq U16 /\ StatusCode \in [Codes -> U16]
<1>1. DefaultStatus \in U16
  BY Feature DEF U16
<1> QED BY <1>1, NoneIsNothing, SixteenBits

\* The lists of up to two codes that handlers and extractors name.
LEMMA ShortLists ==
  /\ <<>> \in Seq(AllCodes)
  /\ \A c, d \in AllCodes : <<c>> \in Seq(AllCodes) /\ <<c, d>> \in Seq(AllCodes)
  /\ Codes \subseteq AllCodes
<1>1. <<>> \in Seq(AllCodes)
  OBVIOUS
<1>2. ASSUME NEW c \in AllCodes, NEW d \in AllCodes
      PROVE  <<c>> \in Seq(AllCodes) /\ <<c, d>> \in Seq(AllCodes)
  OBVIOUS
<1> QED BY <1>1, <1>2 DEF AllCodes

LEMMA StatusTyped ==
  ASSUME NEW e \in Errors PROVE Status(e) \in U16 /\ Status(e) # None
<1>1. e.status \in U16 \cup {None}
  BY DEF Errors
<1> QED BY <1>1, Widths DEF Status

\* An error's response lists the error first and, if it is verbose, its causes.
LEMMA Converted ==
  ASSUME NEW e \in Errors, e.code \in AllCodes
  PROVE  /\ IntoApiResponse(e) \in Responses
         /\ IntoApiResponse(e).errors # <<>>
         /\ IntoApiResponse(e).errors[1] = e.code
         /\ IntoApiResponse(e).errors = IF e.verbose THEN <<e.code>> \o e.causes ELSE <<e.code>>
         /\ e.code \in Codes => IntoApiResponse(e).errors \in Seq(Codes)
<1> DEFINE es == IF e.verbose THEN <<e.code>> \o e.causes ELSE <<e.code>>
<1>1. e.causes \in Seq(Codes) /\ e.causes \in Seq(AllCodes)
  BY DEF Errors, AllCodes
<1>2. es \in Seq(AllCodes) /\ es # <<>> /\ es[1] = e.code
  BY <1>1
<1>3. e.code \in Codes => es \in Seq(Codes)
  BY <1>1
<1>4. IntoApiResponse(e) = [data |-> None, meta |-> None, errors |-> es]
  BY DEF IntoApiResponse, NoResp
<1> HIDE DEF es
<1> QED BY <1>2, <1>3, <1>4 DEF Responses, es

\* Serialized, a response has one of `data` and `errors`, and never no field.
LEMMA Serialized ==
  ASSUME NEW r \in Responses
  PROVE  /\ Serialize(r) \in Bodies
         /\ Serialize(r) # Raw
         /\ "errors" \in Serialize(r).fields <=> r.errors # <<>>
         /\ "data" \in Serialize(r).fields <=> r.errors = <<>>
         /\ Serialize(r).errors = r.errors
<1>1. Json(r.data) \in Payloads \cup {None}
  BY DEF Json, Responses
<1>2. /\ Serialize(r).fields \in SUBSET {"data", "meta", "errors"}
      /\ "errors" \in Serialize(r).fields <=> r.errors # <<>>
      /\ "data" \in Serialize(r).fields <=> r.errors = <<>>
  BY DEF Serialize
<1>3. /\ Serialize(r).data \in Payloads \cup {None}
      /\ Serialize(r).meta \in Metas \cup {None}
      /\ Serialize(r).errors = r.errors /\ r.errors \in Seq(AllCodes)
  BY <1>1 DEF Serialize, Responses
<1>4. Serialize(r) \in Bodies
  BY <1>2, <1>3 DEF Serialize, Bodies
<1>5. Serialize(r).fields # {} /\ Raw.fields = {}
  BY <1>2 DEF Raw
<1> QED BY <1>2, <1>3, <1>4, <1>5

\* Parsed back, it says what was serialized.
LEMMA ParsedBack ==
  ASSUME NEW r \in Responses
  PROVE  /\ Deserialize(Serialize(r)).errors = r.errors
         /\ r.errors = <<>> => Deserialize(Serialize(r)).data = Json(r.data)
<1>1. r.errors = <<>> => Deserialize(Serialize(r)).data = Json(r.data)
  BY Serialized DEF Deserialize, Serialize
<1>2. Deserialize(Serialize(r)).errors = IF "errors" \in Serialize(r).fields THEN Serialize(r).errors ELSE <<>>
  BY DEF Deserialize
<1>3. Deserialize(Serialize(r)).errors = r.errors
  BY <1>2, Serialized
<1> QED BY <1>1, <1>3

LEMMA Parsed == ASSUME NEW b \in Bodies PROVE Deserialize(b) \in Responses
BY DEF Bodies, Responses, Deserialize

LEMMA RawTyped == Raw \in Bodies /\ NoWire.body = Raw
BY DEF Raw, Bodies, NoWire

LEMMA GivenTyped ==
  ASSUME TypeOK, HandlerInv, kind # "none"
  PROVE  Given \in Responses /\ (kind = "error" => Given.errors # <<>>)
BY Converted DEF Given, TypeOK, HandlerInv, AllCodes

\* The three adapters make the same answer.
LEMMA Uniform ==
  ASSUME NEW f \in Frameworks, kind \in {"response", "error"} PROVE Answer(f) = Reply
<1>1. CASE kind = "response"
  BY <1>1, Deployments DEF Answer, RespondIn, AxumResponse, ActixResponse, PoemResponse, Reply, Given
<1>2. CASE kind = "error"
  BY <1>2, Deployments DEF Answer, FailIn, AxumError, ActixError, PoemError, Reply, Given
<1> QED BY <1>1, <1>2

LEMMA ReplyTyped ==
  ASSUME TypeOK, HandlerInv, kind # "none"
  PROVE  /\ Reply.status \in 100 .. 599
         /\ Reply.header \in {"ok", "error", None}
         /\ Reply.body \in Bodies /\ Reply.body # Raw
<1>1. Given \in Responses
  BY GivenTyped
<1>2. ResolveStatus(Status(err)) \in 100 .. 599
  BY Resolved, StatusTyped DEF TypeOK
<1> QED BY <1>1, <1>2, Serialized DEF Reply, Header, RpcStatus

-----------------------------------------------------------------------------
(* IInv is inductive. *)

LEMMA InitEstablishes == Init => IInv
<1> SUFFICES ASSUME Init PROVE IInv
  OBVIOUS
<1>1. NoResp \in Responses /\ NoErr \in Errors
  BY DEF NoResp, Responses, NoErr, NewError, Errors
<1>2. TypeOK
  BY <1>1, RawTyped DEF Init, TypeOK, NoWire, NotRejected, Rejection
<1> QED
  BY <1>2 DEF Init, IInv, HandlerInv, ReplyInv, RejectInv, ClientInv, OnTheWire, NoErr, NewError

\* A builder call leaves a well-formed result, and nothing on the wire.
LEMMA BuildPreserves ==
  ASSUME IInv, Build,
         kind' \in {"response", "error"}, resp' \in Responses, err' \in Errors,
         explicit' \in U16 \cup {None}, adopted' \in U16 \cup {None},
         kind' = "error" => err'.code \in Codes,
         err'.status = IF explicit' # None THEN explicit' ELSE adopted'
  PROVE  IInv'
<1>1. stage' = "building" /\ steps' \in Nat /\ wire' = wire /\ rejected' = rejected /\ client' = client
  BY DEF Build, IInv, TypeOK
<1>2. TypeOK'
  BY <1>1 DEF IInv, TypeOK
<1>3. HandlerInv'
  BY <1>1 DEF HandlerInv
<1> QED BY <1>1, <1>2, <1>3 DEF IInv, ReplyInv, RejectInv, ClientInv, OnTheWire

LEMMA ResponsePreserves ==
  ASSUME IInv, Success \/ Failure \/ Extend \/ Convert PROVE IInv'
<1>1. ASSUME NEW r \in Responses, SetResp(r) PROVE IInv'
  BY <1>1, BuildPreserves DEF SetResp, IInv, TypeOK, HandlerInv
<1>2. CASE Success
  <2>1. \A d \in Payloads \cup {Unit}, m \in Metas \cup {None} :
          [data |-> d, meta |-> m, errors |-> <<>>] \in Responses
    BY DEF Responses
  <2> QED BY <1>1, <1>2, <2>1 DEF Success
<1>3. CASE Failure
  <2>1. \A es \in Seq(AllCodes) : [NoResp EXCEPT !.errors = es] \in Responses
    BY DEF NoResp, Responses
  <2>2. PICK es \in {<<>>} \cup {<<c>> : c \in Codes} : SetResp([NoResp EXCEPT !.errors = es])
    BY <1>3 DEF Failure
  <2>3. es \in Seq(AllCodes)
    <3>1. CASE es = <<>>
      BY <3>1, ShortLists
    <3>2. ASSUME NEW c \in Codes, es = <<c>> PROVE es \in Seq(AllCodes)
      BY <3>2, ShortLists
    <3> QED BY <3>1, <3>2, Zenon
  <2> QED BY <1>1, <2>1, <2>2, <2>3
<1>4. CASE Extend
  <2>0. resp \in Responses
    BY DEF IInv, TypeOK
  <2>1. /\ \A d \in Payloads : [resp EXCEPT !.data = d] \in Responses
        /\ \A m \in Metas : [resp EXCEPT !.meta = m] \in Responses
    BY <2>0 DEF Responses
  <2>2. \A es \in Seq(AllCodes) : [resp EXCEPT !.errors = es] \in Responses
    BY <2>0 DEF Responses
  <2>3. ASSUME \E es \in {<<>>} \cup (Codes \X Codes) : SetResp([resp EXCEPT !.errors = es])
        PROVE  IInv'
    <3>1. PICK es \in {<<>>} \cup (Codes \X Codes) : SetResp([resp EXCEPT !.errors = es])
      BY <2>3
    <3>2. es \in Seq(AllCodes)
      <4>1. CASE es = <<>>
        BY <4>1, ShortLists
      <4>2. CASE es \in Codes \X Codes
        <5>1. PICK c \in Codes, d \in Codes : es = <<c, d>>
          BY <4>2
        <5> QED BY <5>1, ShortLists
      <4> QED BY <4>1, <4>2
    <3>3. [resp EXCEPT !.errors = es] \in Responses
      BY <2>2, <3>2
    <3> QED BY <1>1, <3>1, <3>3, Zenon
  <2>4. CASE \E d \in Payloads : SetResp([resp EXCEPT !.data = d])
    BY <1>1, <2>1, <2>4
  <2>5. CASE \E m \in Metas : SetResp([resp EXCEPT !.meta = m])
    BY <1>1, <2>1, <2>5
  <2> QED BY <1>4, <2>3, <2>4, <2>5, Zenon DEF Extend
<1>5. CASE Convert
  <2>1. IntoApiResponse(err) \in Responses
    BY <1>5, Converted DEF Convert, IInv, TypeOK, HandlerInv, AllCodes
  <2> QED BY <1>1, <1>5, <2>1 DEF Convert
<1> QED BY <1>2, <1>3, <1>4, <1>5

\* With the error in hand made e.
LEMMA ErrorPreserves ==
  ASSUME IInv, NEW e \in Errors, SetErr(e), e.code \in Codes,
         explicit' \in U16 \cup {None}, adopted' \in U16 \cup {None},
         e.status = IF explicit' # None THEN explicit' ELSE adopted'
  PROVE  IInv'
BY BuildPreserves DEF SetErr, IInv, TypeOK

LEMMA RaisePreserves == ASSUME IInv, Raise PROVE IInv'
<1>1. PICK c \in Codes : SetErr(NewError(c))
  BY DEF Raise
<1>2. NewError(c) \in Errors /\ NewError(c).code = c /\ NewError(c).status = None
  BY DEF NewError, Errors, AllCodes
<1>3. explicit' = None /\ adopted' = None
  BY DEF Raise, IInv, HandlerInv
<1> QED BY <1>1, <1>2, <1>3, ErrorPreserves

LEMMA EnrichPreserves == ASSUME IInv, Enrich PROVE IInv'
<1>0. /\ err \in Errors /\ err.code \in Codes /\ err.causes \in Seq(Codes)
      /\ explicit \in U16 \cup {None} /\ adopted \in U16 \cup {None}
      /\ err.status = IF explicit # None THEN explicit ELSE adopted
  BY DEF Enrich, IInv, TypeOK, HandlerInv, Errors
<1>1. <<err.code>> \o err.causes \in Seq(Codes)
  BY <1>0
<1>2. None \notin U16 /\ Statuses \subseteq U16 /\ StatusCode \in [Codes -> U16]
  BY Widths
<1> DEFINE causes == <<err.code>> \o err.causes
<1>3. ASSUME NEW c \in Codes, Wrap(c) PROVE IInv'
  <2> DEFINE e == [NewError(c) EXCEPT !.causes = causes]
  <2>1. e \in Errors /\ e.code = c /\ e.status = None
    BY <1>1 DEF NewError, Errors, AllCodes
  <2>2. SetErr(e) /\ explicit' = None /\ adopted' = None
    BY <1>3 DEF Wrap
  <2> HIDE DEF e
  <2> QED BY <2>1, <2>2, ErrorPreserves
<1>4. ASSUME NEW c \in Codes, WrapAndAdopt(c) PROVE IInv'
  <2> DEFINE e == WithSourceStatus([NewError(c) EXCEPT !.causes = causes], Status(err))
  <2>1. Status(err) \in U16
    BY <1>0, StatusTyped
  <2>2. e \in Errors /\ e.code = c /\ e.status = Status(err)
    BY <1>1, <2>1 DEF NewError, Errors, AllCodes, WithSourceStatus
  <2>3. SetErr(e) /\ explicit' = None /\ adopted' = Status(err)
    BY <1>4 DEF WrapAndAdopt
  <2> HIDE DEF e
  <2> QED BY <2>1, <2>2, <2>3, ErrorPreserves
<1>5. ASSUME NEW c \in Codes, MapCode(c) PROVE IInv'
  <2> DEFINE e == [err EXCEPT !.code = c]
  <2>1. e \in Errors /\ e.code = c /\ e.status = err.status
    BY <1>0 DEF Errors, AllCodes
  <2>2. SetErr(e) /\ UNCHANGED <<explicit, adopted>>
    BY <1>5 DEF MapCode, Other
  <2> HIDE DEF e
  <2> QED BY <1>0, <2>1, <2>2, ErrorPreserves
<1>6. ASSUME NEW s \in U16, WithStatus(s) PROVE IInv'
  <2> DEFINE e == [err EXCEPT !.status = s]
  <2>1. e \in Errors /\ e.code = err.code /\ e.status = s
    BY <1>0 DEF Errors
  <2>2. SetErr(e) /\ explicit' = s /\ adopted' = adopted
    BY <1>6 DEF WithStatus
  <2> HIDE DEF e
  <2> QED BY <1>0, <1>2, <2>1, <2>2, ErrorPreserves
<1>7. ASSUME NEW s \in U16, Adopt(s) PROVE IInv'
  <2> DEFINE e == WithSourceStatus(err, s)
  <2>1. /\ e \in Errors /\ e.code = err.code
        /\ e.status = IF err.status = None THEN s ELSE err.status
    BY <1>0 DEF Errors, WithSourceStatus
  <2>2. SetErr(e) /\ explicit' = explicit
        /\ adopted' = IF explicit = None /\ adopted = None THEN s ELSE adopted
    BY <1>7 DEF Adopt
  <2> HIDE DEF e
  <2> QED BY <1>0, <1>2, <2>1, <2>2, ErrorPreserves
<1>8. ASSUME WithVerbose PROVE IInv'
  <2> DEFINE e == [err EXCEPT !.verbose = TRUE]
  <2>1. e \in Errors /\ e.code = err.code /\ e.status = err.status
    BY <1>0 DEF Errors
  <2>2. SetErr(e) /\ UNCHANGED <<explicit, adopted>>
    BY <1>8 DEF WithVerbose, Other
  <2> HIDE DEF e
  <2> QED BY <1>0, <2>1, <2>2, ErrorPreserves
<1>9. StatusCode[err.code] \in U16
  BY <1>0, <1>2
<1> QED BY <1>2, <1>3, <1>4, <1>5, <1>6, <1>7, <1>8, <1>9 DEF Enrich

LEMMA ReturnPreserves ==
  ASSUME IInv, NEW f \in Frameworks, Return(f) PROVE IInv'
<1>1. kind \in {"response", "error"}
  BY DEF Return, IInv, TypeOK, HandlerInv
<1>2. wire' = Reply
  BY <1>1, Uniform DEF Return
<1>3. /\ stage' = "answered"
      /\ UNCHANGED <<kind, resp, err, explicit, adopted, steps, rejected, client>>
  BY DEF Return, held
<1>4. Reply' = Reply
  BY <1>3 DEF Reply, Given
<1>5. TypeOK'
  BY <1>1, <1>2, <1>3, ReplyTyped DEF IInv, TypeOK
<1>6. HandlerInv'
  BY <1>3 DEF IInv, HandlerInv
<1> QED BY <1>1, <1>2, <1>3, <1>4, <1>5, <1>6 DEF IInv, ReplyInv, RejectInv, ClientInv

\* What an extractor answers other than in axum's own words is an envelope.
LEMMA Resolution == ResolveStatus(RejectionStatus) = RejectionStatus /\ RejectionStatus \in U16
<1>1. RejectionStatus \in U16
  BY DEF RejectionStatus, U16
<1> QED BY <1>1 DEF ResolveStatus, RejectionStatus

LEMMA ErrorRejects ==
  ASSUME NEW e \in Errors, e.code \in AllCodes, Status(e) = RejectionStatus
  PROVE  AxumError(e) \in Envelopes(RejectionStatus) /\ ActixError(e) \in Envelopes(RejectionStatus)
<1> DEFINE r == IntoApiResponse(e)
           b == Serialize(r)
<1>1. r \in Responses /\ r.errors # <<>>
  BY Converted
<1>2. b \in Bodies /\ b.errors # <<>>
  BY <1>1, Serialized
<1>3. b.fields = {"errors"}
  BY <1>1 DEF Serialize, IntoApiResponse, NoResp
<1>4. Header("error") \in {"error", None}
  BY DEF Header
<1> HIDE DEF r, b
<1>5. [status |-> RejectionStatus, header |-> Header("error"), body |-> b, stash |-> e]
        \in Envelopes(RejectionStatus)
  BY <1>2, <1>3, <1>4 DEF Envelopes
<1> QED BY <1>5, Resolution DEF AxumError, ActixError, b, r

LEMMA InvalidRejects ==
  ASSUME NEW f, NEW es \in Seq(AllCodes), es # <<>>, NEW s
  PROVE  Invalid(f, es, s) \in Envelopes(IF f = "axum" THEN RejectionStatus ELSE ResolveStatus(s))
<1> DEFINE r == [NoResp EXCEPT !.errors = es]
           b == Serialize(r)
<1>1. r \in Responses /\ r.errors # <<>> /\ r.meta = None
  BY DEF NoResp, Responses
<1>2. b \in Bodies /\ b.errors # <<>>
  BY <1>1, Serialized
<1>3. b.fields = {"errors"}
  BY <1>1 DEF Serialize
<1>4. RpcStatus(r) = "error"
  BY <1>1 DEF RpcStatus
<1>5. Header("error") \in {"error", None}
  BY DEF Header
<1>6. Invalid(f, es, s) = [status |-> IF f = "axum" THEN RejectionStatus ELSE ResolveStatus(s),
                           header |-> IF f = "axum" THEN Header("error") ELSE None,
                           body |-> b, stash |-> None]
  BY <1>4 DEF Invalid, AxumResponse, ActixResponseError
<1> HIDE DEF r, b
<1> QED BY <1>2, <1>3, <1>5, <1>6 DEF Envelopes

\* actix's ApiValidated answers the body of an error, but not its header.
LEMMA BareRejects ==
  ASSUME NEW e \in Errors, e.code \in AllCodes, ~e.verbose, NEW s
  PROVE  ActixResponseError(IntoApiResponse(e), s) \in Envelopes(ResolveStatus(s))
<1> DEFINE r == IntoApiResponse(e)
           b == Serialize(r)
<1>1. r \in Responses /\ r.errors # <<>>
  BY Converted
<1>2. b \in Bodies /\ b.errors # <<>>
  BY <1>1, Serialized
<1>3. b.fields = {"errors"}
  BY <1>1 DEF Serialize, IntoApiResponse, NoResp
<1>4. ActixResponseError(r, s) = [status |-> ResolveStatus(s), header |-> None, body |-> b, stash |-> None]
  BY DEF ActixResponseError
<1> HIDE DEF r, b
<1>5. ActixResponseError(r, s) \in Envelopes(ResolveStatus(s))
  BY <1>2, <1>3, <1>4 DEF Envelopes
<1> QED BY <1>5 DEF r

LEMMA BodyErrors ==
  /\ BodyError \in Errors /\ BodyError.code \in AllCodes /\ ~BodyError.verbose
  /\ Status(BodyError) = RejectionStatus
  /\ NewError(InvalidBody) \in Errors /\ NewError(InvalidBody).code \in AllCodes
  /\ ~NewError(InvalidBody).verbose
<1>1. RejectionStatus \in U16 /\ RejectionStatus # None
  <2>1. RejectionStatus \in U16
    BY DEF RejectionStatus, U16
  <2> QED BY <2>1, Widths
<1>2. InvalidBody \in AllCodes
  BY DEF AllCodes
<1> DEFINE e == NewError(InvalidBody)
<1>3. e = [code |-> InvalidBody, status |-> None, verbose |-> FALSE, causes |-> <<>>]
  BY DEF NewError
<1>4. BodyError = [e EXCEPT !.status = RejectionStatus]
  BY DEF BodyError
<1> HIDE DEF e
<1>5. BodyError = [code |-> InvalidBody, status |-> RejectionStatus, verbose |-> FALSE, causes |-> <<>>]
  BY <1>3, <1>4
<1> QED BY <1>1, <1>2, <1>3, <1>5 DEF Errors, Status, e

\* One rejection, by the reason for it.
AnsweredAs(f, x, why, s, answer) ==
  IF f = "axum" /\ why = "unreadable" THEN answer = InOwnWords
  ELSE answer \in Envelopes(IF f = "actix" /\ x = "ApiValidated" THEN ResolveStatus(s) ELSE RejectionStatus)

LEMMA Refusals ==
  ASSUME NEW f \in {"axum", "actix"}, NEW x \in {"ApiJson", "ApiValidated"}, NEW s
  PROVE  /\ AnsweredAs(f, x, "unreadable", s, Unreadable(f, x, s))
         /\ AnsweredAs(f, x, "malformed", s, Malformed(f, x, s))
         /\ x = "ApiValidated" =>
              \A c, d \in Codes : \A es \in {<<c>>, <<c, d>>} : AnsweredAs(f, x, "invalid", s, Invalid(f, es, s))
<1>1. AnsweredAs(f, x, "unreadable", s, Unreadable(f, x, s))
  BY BodyErrors, ErrorRejects, BareRejects DEF AnsweredAs, Unreadable, InOwnWords
<1>2. AnsweredAs(f, x, "malformed", s, Malformed(f, x, s))
  BY BodyErrors, ErrorRejects, BareRejects DEF AnsweredAs, Malformed
<1>3. ASSUME x = "ApiValidated", NEW c \in Codes, NEW d \in Codes, NEW es \in {<<c>>, <<c, d>>}
      PROVE  AnsweredAs(f, x, "invalid", s, Invalid(f, es, s))
  <2>1. c \in AllCodes /\ d \in AllCodes
    BY ShortLists
  <2>2. <<c>> \in Seq(AllCodes) /\ <<c, d>> \in Seq(AllCodes)
    BY <2>1, ShortLists
  <2>3. <<c>> # <<>> /\ <<c, d>> # <<>>
    OBVIOUS
  <2>4. es \in Seq(AllCodes) /\ es # <<>>
    BY <1>3, <2>2, <2>3
  <2> QED BY <1>3, <2>4, InvalidRejects DEF AnsweredAs
<1> QED BY <1>1, <1>2, <1>3

LEMMA RejectPreserves ==
  ASSUME IInv, NEW f \in Frameworks, Reject(f) PROVE IInv'
<1>1. f \in {"axum", "actix"} /\ kind = "none"
  BY Deployments DEF Reject, IInv, HandlerInv
<1>2. /\ stage' = "answered"
      /\ UNCHANGED <<kind, resp, err, explicit, adopted, steps, client>>
  BY DEF Reject, held
<1>3. PICK x \in Extractors : \E s \in Overrides(f, x) :
        \/ RejectedAs(f, x, "unreadable", s, Unreadable(f, x, s))
        \/ RejectedAs(f, x, "malformed", s, Malformed(f, x, s))
        \/ /\ x = "ApiValidated"
           /\ \E c, d \in Codes : \E es \in {<<c>>, <<c, d>>} :
                RejectedAs(f, x, "invalid", s, Invalid(f, es, s))
  BY DEF Reject
<1>4. PICK s \in Overrides(f, x) :
        \/ RejectedAs(f, x, "unreadable", s, Unreadable(f, x, s))
        \/ RejectedAs(f, x, "malformed", s, Malformed(f, x, s))
        \/ /\ x = "ApiValidated"
           /\ \E c, d \in Codes : \E es \in {<<c>>, <<c, d>>} :
                RejectedAs(f, x, "invalid", s, Invalid(f, es, s))
  BY <1>3
<1>5. x \in {"ApiJson", "ApiValidated"} /\ s \in U16
  BY Deployments, Resolution, Widths DEF Overrides
<1>6. PICK why \in {"unreadable", "malformed", "invalid"} :
        rejected' = Rejection(f, x, why, s) /\ AnsweredAs(f, x, why, s, wire')
  BY <1>1, <1>4, <1>5, Refusals DEF RejectedAs
<1>7. /\ rejected'.framework = f /\ rejected'.extractor = x
      /\ rejected'.body = why /\ rejected'.status = s
  BY <1>6 DEF Rejection
<1>8. IF OwnWords' THEN wire' = InOwnWords ELSE wire' \in Envelopes(StatusOfRejection')
  BY <1>6, <1>7 DEF AnsweredAs, OwnWords, Overridable, StatusOfRejection
<1>9. StatusOfRejection' \in 100 .. 599
  BY <1>5, <1>7, Resolved DEF StatusOfRejection, RejectionStatus
<1>10. wire'.status \in 100 .. 599 /\ wire'.header \in {"error", None} /\ wire'.body \in Bodies
  <2>1. CASE wire' = InOwnWords
    BY <2>1, RawTyped DEF InOwnWords, NoWire, RawStatus
  <2>2. CASE wire' \in Envelopes(StatusOfRejection')
    <3>1. wire'.status = StatusOfRejection'
      BY <2>2 DEF Envelopes
    <3>2. wire'.header \in {"error", None}
      BY <2>2 DEF Envelopes
    <3>3. wire'.body \in Bodies
      BY <2>2 DEF Envelopes
    <3> QED BY <1>9, <3>1, <3>2, <3>3
  <2> QED BY <1>8, <2>1, <2>2
<1>11. TypeOK'
  BY <1>1, <1>2, <1>5, <1>7, <1>10 DEF IInv, TypeOK
<1>12. RejectInv'
  BY <1>8 DEF RejectInv, InOwnWords, Envelopes
<1> QED BY <1>1, <1>2, <1>11, <1>12 DEF IInv, HandlerInv, ReplyInv, ClientInv

LEMMA StripPreserves == ASSUME IInv, StripHeader PROVE IInv'
<1>1. /\ stage = "answered" /\ stage' = "stripped" /\ wire' = [wire EXCEPT !.header = None]
      /\ UNCHANGED <<kind, resp, err, explicit, adopted, steps, rejected, client>>
  BY DEF StripHeader, held
<1>2. Reply' = Reply
  BY <1>1 DEF Reply, Given
<1>3. CASE kind # "none"
  <2>1. wire = Reply
    BY <1>1, <1>3 DEF IInv, ReplyInv, OnTheWire
  <2>2. wire'.status = wire.status /\ wire'.header = None /\ wire'.body = wire.body
    BY <1>1, <2>1 DEF Reply
  <2>3. TypeOK'
    BY <1>1, <2>2 DEF IInv, TypeOK
  <2> QED BY <1>1, <1>2, <1>3, <2>1, <2>3 DEF IInv, HandlerInv, ReplyInv, RejectInv, ClientInv
<1>4. CASE kind = "none"
  <2>1. IF OwnWords THEN wire = InOwnWords ELSE wire \in Envelopes(StatusOfRejection)
    BY <1>1, <1>4 DEF IInv, RejectInv, OnTheWire
  <2>2. /\ IF OwnWords THEN wire' = InOwnWords ELSE wire' \in Envelopes(StatusOfRejection)
        /\ wire'.status = wire.status /\ wire'.header = None /\ wire'.body = wire.body
    BY <1>1, <2>1 DEF InOwnWords, Envelopes, NoWire
  <2>3. TypeOK'
    BY <1>1, <2>2 DEF IInv, TypeOK
  <2>4. RejectInv'
    BY <1>1, <2>2 DEF RejectInv, OwnWords, Overridable, StatusOfRejection, InOwnWords, Envelopes
  <2> QED BY <1>1, <1>4, <2>2, <2>3, <2>4 DEF IInv, HandlerInv, ReplyInv, ClientInv
<1> QED BY <1>3, <1>4

LEMMA ReceivePreserves == ASSUME IInv, Receive PROVE IInv'
<1>1. /\ stage \in {"answered", "stripped"} /\ stage' \in {"unparsable", "received"}
      /\ UNCHANGED <<kind, resp, err, explicit, adopted, steps, wire, rejected>>
  BY DEF Receive, held
<1>2. client' \in Responses
  BY Parsed DEF Receive, IInv, TypeOK
<1>3. TypeOK'
  BY <1>1, <1>2 DEF IInv, TypeOK
<1>4. Reply' = Reply
  BY <1>1 DEF Reply, Given
<1>5. ClientInv'
  BY <1>1 DEF Receive, ClientInv
<1>6. RejectInv'
  BY <1>1 DEF IInv, RejectInv, OnTheWire, OwnWords, Overridable, StatusOfRejection, InOwnWords, Envelopes
<1> QED BY <1>1, <1>3, <1>4, <1>5, <1>6 DEF IInv, HandlerInv, ReplyInv, OnTheWire

LEMMA StepPreserves == IInv /\ [Next]_vars => IInv'
<1> SUFFICES ASSUME IInv, [Next]_vars PROVE IInv'
  OBVIOUS
<1>1. CASE UNCHANGED vars
  BY <1>1 DEF vars, held, IInv, TypeOK, HandlerInv, ReplyInv, RejectInv, ClientInv, OnTheWire, Reply, Given,
     OwnWords, Overridable, StatusOfRejection
<1>2. CASE Next
  BY <1>2, ResponsePreserves, RaisePreserves, EnrichPreserves, ReturnPreserves,
     RejectPreserves, StripPreserves, ReceivePreserves DEF Next
<1> QED BY <1>1, <1>2

(* Whatever a handler builds, however the request is rejected and whatever *)
(* a proxy does to the header, the exchange keeps to IInv.                 *)
THEOREM ExchangeInvariant == Spec => []IInv
BY InitEstablishes, StepPreserves, PTL DEF Spec

(* The state keeps its shape, and what is sent has an HTTP status.         *)
THEOREM ExchangeWellFormed == Spec => []TypeOK
<1>1. IInv => TypeOK
  BY DEF IInv
<1> QED BY <1>1, ExchangeInvariant, PTL

-----------------------------------------------------------------------------
(* What follows from it. *)

\* The body of a handler's answer is what it holds, serialized.
LEMMA HandledBody ==
  ASSUME IInv, Handled
  PROVE  /\ Given \in Responses /\ wire.body = Serialize(Given) /\ wire.status = Reply.status
         /\ \/ wire.header = Reply.header
            \/ stage # "answered" /\ wire.header = None
<1>1. kind # "none" /\ OnTheWire
  BY DEF Handled, Sent, OnTheWire
<1>2. Given \in Responses
  BY <1>1, GivenTyped DEF IInv
<1>3. \/ wire = Reply
      \/ stage # "answered" /\ wire = [Reply EXCEPT !.header = None]
  BY <1>1 DEF IInv, ReplyInv
<1> QED BY <1>2, <1>3 DEF Reply

(* A body has `data` or `errors` and never both, whatever the builders     *)
(* left in the struct and whichever adapter or extractor made it.          *)
THEOREM EnvelopesAreOneOfTwo == Spec => []DataXorErrors
<1>1. IInv => DataXorErrors
  <2> SUFFICES ASSUME IInv, Sent, wire.body # Raw
               PROVE  /\ "data" \in wire.body.fields <=> "errors" \notin wire.body.fields
                      /\ "errors" \in wire.body.fields => wire.body.errors # <<>>
    BY DEF DataXorErrors
  <2>1. CASE kind # "none"
    BY <2>1, HandledBody, Serialized DEF Handled
  <2>2. CASE kind = "none"
    <3>1. wire = InOwnWords \/ wire \in Envelopes(StatusOfRejection)
      BY <2>2 DEF IInv, RejectInv, OnTheWire, Sent
    <3> QED BY <3>1 DEF Envelopes, InOwnWords, NoWire
  <2> QED BY <2>1, <2>2
<1> QED BY <1>1, ExchangeInvariant, PTL

(* The X-RPC-Status header says what the body says, unless a proxy removed *)
(* it or the feature is off.                                               *)
THEOREM HeadersTellTheBody == Spec => []HeaderAgreesWithBody
<1>1. IInv => HeaderAgreesWithBody
  <2> SUFFICES ASSUME IInv, Handled
               PROVE  \/ RpcHeader /\ wire.header = IF "errors" \in wire.body.fields THEN "error" ELSE "ok"
                      \/ wire.header = None /\ (~RpcHeader \/ stage # "answered")
    BY DEF HeaderAgreesWithBody
  <2>1. kind \in {"response", "error"}
    BY DEF Handled, IInv, TypeOK
  <2>2. "errors" \in wire.body.fields <=> Given.errors # <<>>
    BY HandledBody, Serialized
  <2>3. kind = "error" => Given.errors # <<>>
    BY <2>1, GivenTyped DEF IInv
  <2>4. Reply.header = Header(IF Given.errors # <<>> THEN "error" ELSE "ok")
    BY <2>1, <2>3 DEF Reply, Given, RpcStatus
  <2> QED BY <2>2, <2>4, HandledBody, Feature DEF Header
<1> QED BY <1>1, ExchangeInvariant, PTL

(* The client fails with the handler's outermost error exactly when the    *)
(* handler's result carries one, and has the handler's data otherwise.     *)
THEOREM ClientsLearnTheOutcome == Spec => []ClientLearnsOutcome
<1>1. IInv => ClientLearnsOutcome
  <2> SUFFICES ASSUME IInv, stage = "received", kind # "none" PROVE ClientLearnsOutcome
    BY DEF ClientLearnsOutcome
  <2>1. kind \in {"response", "error"} /\ Handled
    BY DEF Handled, Sent, IInv, TypeOK
  <2>2. Given \in Responses /\ client = Deserialize(Serialize(Given))
    BY <2>1, HandledBody DEF IInv, ClientInv
  <2>3. client.errors = Given.errors /\ (Given.errors = <<>> => client.data = Json(Given.data))
    BY <2>2, ParsedBack
  <2>4. CASE kind = "error"
    <3>1. Given.errors # <<>> /\ Given.errors[1] = err.code
      BY <2>4, Converted DEF Given, IInv, TypeOK, HandlerInv, AllCodes
    <3>2. IntoInner(client).err = err.code
      BY <2>3, <3>1 DEF IntoInner
    <3> QED BY <2>4, <3>2 DEF ClientLearnsOutcome
  <2>5. CASE kind = "response"
    <3>1. Given = resp
      BY <2>5 DEF Given
    <3>2. CASE resp.errors # <<>>
      BY <2>3, <2>5, <3>1, <3>2 DEF IntoInner, ClientLearnsOutcome
    <3>3. CASE resp.errors = <<>>
      BY <2>3, <2>5, <3>1, <3>3 DEF IntoInner, Json, ClientLearnsOutcome
    <3> QED BY <3>2, <3>3
  <2> QED BY <2>1, <2>4, <2>5
<1> QED BY <1>1, ExchangeInvariant, PTL

(* Whichever framework a service is built on, its answer is the same.      *)
THEOREM FrameworksAnswerAlike == Spec => []FrameworksAgree
<1>1. IInv => FrameworksAgree
  BY Uniform DEF IInv, TypeOK, HandlerInv, FrameworksAgree
<1> QED BY <1>1, ExchangeInvariant, PTL

(* The status on the wire is what was last set by hand on the outermost    *)
(* error, else the first status it adopted, else the default, and 200 in   *)
(* the place of a number that is no HTTP status.                           *)
THEOREM OutermostDecidesStatus == Spec => []StatusDecidedOutermost
<1>1. IInv => StatusDecidedOutermost
  <2> SUFFICES ASSUME IInv, Handled PROVE StatusDecidedOutermost
    BY DEF StatusDecidedOutermost
  <2> DEFINE chosen == IF explicit # None THEN explicit ELSE IF adopted # None THEN adopted ELSE DefaultStatus
  <2>1. kind \in {"response", "error"} /\ wire.status = Reply.status
    BY HandledBody DEF Handled, IInv, TypeOK
  <2>2. Status(err) = chosen
    BY DEF Status, IInv, HandlerInv
  <2>3. wire.status = IF kind = "response" THEN 200 ELSE ResolveStatus(chosen)
    BY <2>1, <2>2 DEF Reply
  <2> HIDE DEF chosen
  <2>4. wire.status = IF kind = "response" \/ chosen \notin 100 .. 599 THEN 200 ELSE chosen
    BY <2>3 DEF ResolveStatus
  <2> QED BY <2>4 DEF StatusDecidedOutermost, chosen
<1> QED BY <1>1, ExchangeInvariant, PTL

(* Causes reach the wire only if the returned error itself is verbose.     *)
THEOREM PrivateUnlessVerbose == Spec => []CausesStayPrivate
<1>1. IInv => CausesStayPrivate
  <2> SUFFICES ASSUME IInv, Handled, kind = "error"
               PROVE  \/ wire.body.errors = <<err.code>>
                      \/ err.verbose /\ wire.body.errors = <<err.code>> \o err.causes
    BY DEF CausesStayPrivate
  <2>1. wire.body.errors = IntoApiResponse(err).errors
    BY HandledBody, Serialized DEF Given
  <2>2. IntoApiResponse(err).errors = IF err.verbose THEN <<err.code>> \o err.causes ELSE <<err.code>>
    BY Converted DEF IInv, TypeOK, HandlerInv, AllCodes
  <2> QED BY <2>1, <2>2
<1> QED BY <1>1, ExchangeInvariant, PTL

(* A rejected request gets an error envelope, with 422 where no service    *)
(* code put another status; but for a body axum cannot read.               *)
THEOREM RejectionsAreEnvelopes == Spec => []RejectedWithEnvelope
<1>1. IInv => RejectedWithEnvelope
  <2> SUFFICES ASSUME IInv, stage # "accepted", kind = "none"
               PROVE  /\ "errors" \in wire.body.fields <=> ~OwnWords
                      /\ wire.body = Raw <=> OwnWords
                      /\ wire.status = IF OwnWords THEN RawStatus ELSE StatusOfRejection
    BY DEF RejectedWithEnvelope, StatusOfRejection
  <2>1. IF OwnWords THEN wire = InOwnWords ELSE wire \in Envelopes(StatusOfRejection)
    BY DEF IInv, HandlerInv, RejectInv, OnTheWire
  <2>2. CASE OwnWords
    <3>1. InOwnWords.status = RawStatus /\ InOwnWords.body = Raw
      BY DEF InOwnWords, NoWire
    <3>2. Raw.fields = {}
      BY DEF Raw
    <3> QED BY <2>1, <2>2, <3>1, <3>2
  <2>3. CASE ~OwnWords
    <3>1. wire.status = StatusOfRejection /\ wire.body.fields = {"errors"}
      BY <2>1, <2>3 DEF Envelopes
    <3>2. Raw.fields = {}
      BY DEF Raw
    <3> QED BY <2>3, <3>1, <3>2
  <2> QED BY <2>2, <2>3
<1> QED BY <1>1, ExchangeInvariant, PTL

(* A 4xx never marks a span as failed and a 5xx always does, whether it is *)
(* treat-tower or actix's root span builder that decides: actix looks at   *)
(* the stash first, and an error's answer never comes without one.         *)
THEOREM SpansAgree == Spec => []SpansAgreeOnFailures
<1>1. IInv => SpansAgreeOnFailures
  <2> SUFFICES ASSUME IInv, Handled, kind = "error", wire.status >= 400
               PROVE  {TowerOtel(wire), ActixOtel(wire)} = {IF wire.status < 500 THEN "OK" ELSE "ERROR"}
    BY DEF SpansAgreeOnFailures
  <2>1. wire.stash = err /\ err \in Errors
    BY DEF Handled, Sent, OnTheWire, IInv, TypeOK, ReplyInv, Reply
  <2>2. wire.stash # None
    BY <2>1, StashIsEmptyOrError
  <2>3. wire.status \in 400 .. 599
    <3>1. wire.status = Reply.status /\ Reply.status \in 100 .. 599
      BY HandledBody, ReplyTyped DEF Handled, IInv
    <3> QED BY <3>1
  <2> QED BY <2>2, <2>3 DEF TowerOtel, ActixOtel
<1> QED BY <1>1, ExchangeInvariant, PTL
=============================================================================
