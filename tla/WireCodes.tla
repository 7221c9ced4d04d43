------------------------------ MODULE WireCodes ------------------------------
(***************************************************************************)
(* What the three derive macros generate, put together: a service declares *)
(* an enum of errors (ApiErrorCode, or ApiError on an existing enum), one  *)
(* of its variants crosses the wire as a code and a status, and a client   *)
(* maps the code back onto an enum of its own (FromErrorMessage).          *)
(*                                                                         *)
(* Declarations a macro or rustc refuses never run.  Messages are data.    *)
(***************************************************************************)
EXTENDS Naturals, Sequences, FiniteSets

CONSTANTS Variants,       \* of the service's enum; their names
          ServerVariants, \* declarations: [code, status, tuple]
          ClientVariants, \* declarations: [code, fields]
          MaxClient,      \* bound: variants of the client's enum
          DefaultStatus,  \* DEFAULT_ERROR_STATUS
          None

CatchAll == "_"
ValidStatusRange == 100 .. 599
InvalidStatusFallback == 200

ASSUME Declarations ==
  /\ \A d \in ServerVariants : d.status \in Nat \cup {None} /\ d.tuple \in BOOLEAN
  /\ \A d \in ClientVariants : d.fields \in Nat
  /\ DefaultStatus \in {200, 500}
  /\ MaxClient \in Nat

VARIABLES
  derive,   \* the macro on the service's enum
  server,
  marked,   \* variants with #[catch_all]
  client,   \* the variants in source order
  stage,    \* declared, refused, running, raised, sent or handled
  err,
  wire,
  handled   \* position of the client's variant

declared == <<derive, server, marked, client>>
vars == <<declared, stage, err, wire, handled>>

NoErr == [variant |-> None, status |-> None, seeded |-> FALSE]

Init ==
  /\ server \in [Variants -> ServerVariants]
  /\ \/ derive = "ApiErrorCode" /\ marked = {}
     \/ derive = "ApiError" /\ marked \in SUBSET Variants
  /\ client \in UNION {[1 .. n -> ClientVariants] : n \in 1 .. MaxClient}
  /\ stage = "declared"
  /\ err = NoErr
  /\ wire = [code |-> None, status |-> None]
  /\ handled = 0

-----------------------------------------------------------------------------
(* Compile time. *)

StatusAttrOkMutHttpCrate(d) == d.status = None \/ d.status \in 100 .. 999
\* fetch_status_from_attrs has its own copy of the range.
StatusAttrOk(d) == d.status = None \/ d.status \in 100 .. 599

\* A variant without a code has no match arm in derive(ApiError), which rustc
\* then refuses; derive(ApiErrorCode) falls back on the variant's name.
ServerCompiles ==
  /\ \A v \in Variants : StatusAttrOk(server[v])
  /\ derive = "ApiError" =>
       /\ \A v \in Variants : server[v].code # None
       /\ Cardinality(marked) <= 1 /\ \A v \in marked : server[v].tuple

CatchAlls == {i \in DOMAIN client : client[i].code = CatchAll}

\* impl_from_error_message and build_construct
ClientCompiles ==
  /\ \A i \in DOMAIN client : client[i].code # None /\ client[i].fields = 1
  /\ Cardinality(CatchAlls) = 1

Compile ==
  /\ stage = "declared"
  /\ stage' = IF ServerCompiles /\ ClientCompiles THEN "running" ELSE "refused"
  /\ UNCHANGED <<declared, err, wire, handled>>

-----------------------------------------------------------------------------
(* The service. *)

Raise(e) ==
  /\ stage = "running"
  /\ err' = e
  /\ stage' = "raised"
  /\ UNCHANGED <<declared, wire, handled>>

\* The generated From<Enum> for ApiError applies the attribute.
From(v) == Raise([variant |-> v, status |-> server[v].status, seeded |-> TRUE])

\* From<erris::Report>, then From<Enum>
FromReport == \E v \in marked : From(v)

\* error(code) without the conversion: a typed code only.
ByHand(v) ==
  /\ derive = "ApiErrorCode"
  /\ Raise([variant |-> v, status |-> None, seeded |-> FALSE])

StatusCodeMutOk(v) == IF server[v].status = None THEN 200 ELSE server[v].status
\* The generated ApiErrorStatus::status_code.
StatusCode(v) == IF server[v].status = None THEN DefaultStatus ELSE server[v].status

\* with_code_status, once some variant has a #[status] and with it the impl.
WithCodeStatus ==
  /\ stage = "raised" /\ derive = "ApiErrorCode"
  /\ \E v \in Variants : server[v].status # None
  /\ err' = [err EXCEPT !.status = StatusCode(err.variant), !.seeded = TRUE]
  /\ UNCHANGED <<declared, stage, wire, handled>>

Display(v) == IF server[v].code = None THEN v ELSE server[v].code
Status == IF err.status = None THEN DefaultStatus ELSE err.status
ResolveStatus(s) == IF s \in ValidStatusRange THEN s ELSE InvalidStatusFallback

Send ==
  /\ stage = "raised"
  /\ wire' = [code |-> Display(err.variant), status |-> ResolveStatus(Status)]
  /\ stage' = "sent"
  /\ UNCHANGED <<declared, err, handled>>

-----------------------------------------------------------------------------
(* The client. *)

EarlierMutSourceOrder(i, j) == i <= j

\* The arms: the concrete ones in source order, then the catch-all.
Earlier(i, j) == IF i \in CatchAlls <=> j \in CatchAlls THEN i <= j ELSE j \in CatchAlls

Fitting == {i \in DOMAIN client : client[i].code \in {wire.code, CatchAll}}

\* A match takes the first arm that fits.
Receive ==
  /\ stage = "sent"
  /\ handled' = IF Fitting = {} THEN 0 ELSE CHOOSE i \in Fitting : \A j \in Fitting : Earlier(i, j)
  /\ stage' = "handled"
  /\ UNCHANGED <<declared, err, wire>>

Over == stage \in {"refused", "handled"} /\ UNCHANGED vars

Next ==
  \/ Compile
  \/ \E v \in Variants : From(v) \/ ByHand(v)
  \/ FromReport
  \/ WithCodeStatus
  \/ Send
  \/ Receive
  \/ Over

Spec == Init /\ [][Next]_vars

-----------------------------------------------------------------------------
(* The shape of the state; a received error always reaches a variant.      *)
TypeOK ==
  /\ stage \in {"declared", "refused", "running", "raised", "sent", "handled"}
  /\ err \in [variant : Variants \cup {None}, status : Nat \cup {None}, seeded : BOOLEAN]
  /\ wire.status \in ValidStatusRange \cup {None}
  /\ stage = "handled" => handled \in DOMAIN client

(* Wherever the client declares its catch-all, an error reaches a variant  *)
(* of its own code if there is one, and the catch-all only if not; codes   *)
(* that default to the name of a variant included.                         *)
RoutedByCode ==
  stage = "handled" =>
    client[handled].code =
      IF \E i \in DOMAIN client : client[i].code = wire.code THEN wire.code ELSE CatchAll

(* Both generated ways of giving an error its status agree, and what was   *)
(* declared is what is sent: the range the macro checks at compile time    *)
(* admits nothing that the adapters would replace at run time.             *)
DeclaredStatusSent ==
  stage \in {"sent", "handled"} =>
    wire.status = IF err.seeded /\ server[err.variant].status # None
                  THEN server[err.variant].status ELSE DefaultStatus

(* What the two rest on: what runs was accepted by the macros, and an      *)
(* error carries one of the two statuses generated for its own variant.    *)
AcceptedOnly ==
  stage \in {"running", "raised", "sent", "handled"} => ServerCompiles /\ ClientCompiles
FromItsVariant ==
  stage \in {"raised", "sent", "handled"} =>
    /\ err.variant \in Variants
    /\ err.status \in IF err.seeded THEN {server[err.variant].status, StatusCode(err.variant)} ELSE {None}
DeclaredEnums ==
  /\ marked \subseteq Variants
  /\ server \in [Variants -> ServerVariants]
  /\ \E n \in 1 .. MaxClient : client \in [1 .. n -> ClientVariants]
IInv ==
  TypeOK /\ DeclaredEnums /\ AcceptedOnly /\ FromItsVariant /\ RoutedByCode /\ DeclaredStatusSent
=============================================================================
