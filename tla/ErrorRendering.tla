---------------------------- MODULE ErrorRendering ----------------------------
(***************************************************************************)
(* The ways out of an ApiError: the three conversions into the             *)
(* ErrorMessage that a client gets, its two renderings as JSON, `Debug`,   *)
(* and the loggers of treat-axum-logging and treat-actix.                  *)
(*                                                                         *)
(* A message is the sequence of the texts it is joined from.  A log line   *)
(* has the places it names in the order in which it names them.            *)
(***************************************************************************)
EXTENDS TypedError, SequencesExt

CONSTANT LoggedCodes \* code types `C` of error_log_for and debug_log_for

DefaultCode == "str" \* &'static str

ASSUME NoneIsNoValue ==
  /\ None \notin Seq(Texts \cup Codes)
  /\ None \notin [LocatorFields -> OrNone(Texts)]
  /\ None \notin [key : {"user", "value"}, value : Texts]

-----------------------------------------------------------------------------
(* Messages. *)

RawMessage(e) == IF e.message = None THEN <<>> ELSE <<e.message>>

\* What the report displays, unless it is transparent.
SourceText(e) == IF e.source = <<>> \/ Head(e.source) = Blank THEN <<>> ELSE <<Head(e.source)>>

FormatMessageVerbose(e) == RawMessage(e) \o SourceText(e)
FormatMessage(e) == IF e.verbose THEN FormatMessageVerbose(e) ELSE RawMessage(e)

IsEmpty(locator) == \A f \in LocatorFields : locator[f] = None
Filled(locator) == IF locator = None \/ IsEmpty(locator) THEN None ELSE locator

ToErrorMessageMutKeepsEmptySource(e) ==
  [code |-> e.code, message |-> FormatMessage(e), type |-> e.type, instance |-> e.instance,
   source |-> e.locator, meta |-> e.meta]

ToErrorMessage(e) ==
  [code |-> e.code, message |-> FormatMessage(e), type |-> e.type, instance |-> e.instance,
   source |-> Filled(e.locator), meta |-> e.meta]

ToErrorMessageWithMutRechecks(e, verbose) ==
  [code |-> e.code, message |-> IF verbose THEN FormatMessageVerbose(e) ELSE FormatMessage(e),
   type |-> e.type, instance |-> e.instance, source |-> Filled(e.locator), meta |-> e.meta]

ToErrorMessageWith(e, verbose) ==
  [code |-> e.code, message |-> IF verbose THEN FormatMessageVerbose(e) ELSE RawMessage(e),
   type |-> e.type, instance |-> e.instance, source |-> Filled(e.locator), meta |-> e.meta]

IntoErrorMessage(e) ==
  [code |-> e.code, message |-> IF e.verbose THEN FormatMessageVerbose(e) ELSE RawMessage(e),
   type |-> e.type, instance |-> e.instance, source |-> Filled(e.locator), meta |-> e.meta]

-----------------------------------------------------------------------------
(* JSON: an object is the function of the fields it has. *)

Fields == {"code", "message", "type", "instance", "source", "meta"}
Given(m) == {f \in Fields : m[f] # None /\ (f = "message" => m[f] # <<>>)}
Json(locator) == [f \in {f \in LocatorFields : locator[f] # None} |-> locator[f]]
Fill(m, fields) == [f \in fields |-> IF f = "source" THEN Json(m[f]) ELSE m[f]]

\* derive(Serialize): `source` is there if there is one, empty or not.
Serialize(m) == Fill(m, Given(m))

\* From<ErrorMessage> for Value: an empty `source` is not.
ToValue(m) == Fill(m, {f \in Given(m) : f = "source" => ~IsEmpty(m[f])})

\* derive(Deserialize)
Deserialize(j) ==
  [f \in Fields |->
     CASE f \notin DOMAIN j -> IF f = "message" THEN <<>> ELSE None
       [] f \in DOMAIN j /\ f # "source" -> j[f]
       [] f \in DOMAIN j /\ f = "source" ->
            [g \in LocatorFields |-> IF g \in DOMAIN j[f] THEN j[f][g] ELSE None]]

-----------------------------------------------------------------------------
(* Logs. *)

\* One after the other, but not what is hidden nor what was just listed.
Listed(s, hidden) ==
  FoldLeft(LAMBDA list, x : IF x \in hidden \/ (list # <<>> /\ Last(list) = x) THEN list
                            ELSE Append(list, x),
           <<>>, s)

\* Debug: the chain without transparent links; the places from the last hop
\* down to the raise location, and on down the chain.
DebugMutInOrder(e) ==
  [code |-> e.code, message |-> FormatMessage(e),
   causes |-> Listed(e.source, {Blank}),
   places |-> Listed(e.hops \o <<e.location>> \o e.origins, {})]

Debug(e) ==
  [code |-> e.code, message |-> FormatMessage(e),
   causes |-> Listed(e.source, {Blank}),
   places |-> Listed(Reverse(e.hops) \o <<e.location>> \o e.origins, {})]

FormatHops(e) == Reverse(e.hops) \* no field if there are none

\* error_code, error_hops, error_location, cause or error_source; the places
\* are those of error_hops and error_location.
Structured(level, e, message, source) ==
  [level |-> level, structured |-> TRUE, code |-> e.code, message |-> message,
   causes |-> source, places |-> FormatHops(e) \o <<e.location>>]

Unstructured(level, e) ==
  LET shown == Debug(e) IN
  [level |-> level, structured |-> FALSE, code |-> shown.code, message |-> shown.message,
   causes |-> shown.causes, places |-> shown.places]

\* treat-axum-logging's error_log: the severity follows the error.
AxumErrorLog(e) ==
  IF e.source # <<>> THEN Structured("ERROR", e, FormatMessageVerbose(e), e.source)
                     ELSE Structured("DEBUG", e, FormatMessage(e), <<>>)
AxumInfoLog(e) == Structured("INFO", e, FormatMessage(e), e.source)
AxumDebugLog(e) == Structured("DEBUG", e, FormatMessage(e), e.source)

\* as_error::<ApiError<C>>, in log_api_error::<C>
AsError(e, code) == e.code = code

ActixLogMutNoFallback(e, code, level) ==
  IF AsError(e, code) THEN Structured(level, e, FormatMessage(e), e.source) ELSE Unstructured(level, e)

\* error_log_for::<C>, debug_log_for::<C>: as C, then as the default, then Debug.
ActixLog(e, code, level) ==
  IF AsError(e, code) \/ AsError(e, DefaultCode)
  THEN Structured(level, e, FormatMessage(e), e.source)
  ELSE Unstructured(level, e)

ActixLines(e) == {ActixLog(e, c, l) : c \in LoggedCodes, l \in {"ERROR", "DEBUG"}}
LogLines(e) == {AxumErrorLog(e), AxumInfoLog(e), AxumDebugLog(e)} \cup ActixLines(e)

-----------------------------------------------------------------------------
Creation == calls[1].arg \* the error as it was created
LastSaid(ops) == SelectLastInSeq(calls, LAMBDA c : c.op \in ops)

\* The argument of the last call of an operation, if there was one.
Said(op, before) == IF LastSaid({op}) = 0 THEN before ELSE calls[LastSaid({op})].arg

SaidOfLocator(f) ==
  LET last == LastSaid({f, "with_error_source"}) IN
  IF last = 0 THEN None ELSE IF calls[last].op = f THEN calls[last].arg ELSE calls[last].arg[f]

SaidMessage == LET m == Said("with_message", Creation.message) IN IF m = None THEN <<>> ELSE <<m>>

SaidStatus ==
  LET own == Said("with_status", Creation.status)
      first == SelectInSeq(calls, LAMBDA c : c.op = "with_source_status")
  IN  IF own # None THEN own ELSE IF first = 0 THEN None ELSE calls[first].arg

Read(j, f) == IF f \in DOMAIN j THEN j[f] ELSE None
ReadLocator(j, f) == IF "source" \in DOMAIN j THEN Read(j.source, f) ELSE None

(* A client reads, of every field, what was said of it last; no builder,   *)
(* hop or change of code loses what another one said, and the status       *)
(* comes along (error.rs:400-421).                                         *)
ClientReadsWhatWasSaid ==
  LET j == ToValue(ToErrorMessage(err)) IN
  /\ Read(j, "code") = Said("map_code", Creation.code)
  /\ SaidMessage # <<>> => Head(j.message) = Head(SaidMessage)
  /\ Read(j, "type") = Said("with_type", None)
  /\ Read(j, "instance") = Said("with_instance", None)
  /\ LET m == Said("with_meta", None) IN
     IF m = None THEN "meta" \notin DOMAIN j ELSE j.meta.value = m.value
  /\ \A f \in LocatorFields : ReadLocator(j, f) = SaidOfLocator(f)
  /\ err.status = SaidStatus

(* However an error becomes an ErrorMessage, the client is sent the same   *)
(* JSON and reads the same message back from it.                           *)
ConversionsAgree ==
  LET m == ToErrorMessage(err) IN
  /\ IntoErrorMessage(err) = m /\ ToErrorMessageWith(err, err.verbose) = m
  /\ Serialize(m) = ToValue(m)
  /\ Deserialize(Serialize(m)) = m

(* No cause gets into a message unless with_verbose was called on this     *)
(* error or the conversion is asked for causes; asked for none, it gives   *)
(* none even then (error.rs:263-267).                                      *)
CausesOnlyIfVerbose ==
  /\ ToErrorMessageWith(err, FALSE).message = SaidMessage
  /\ LastSaid({"with_verbose"}) = 0 =>
       {ToErrorMessage(err).message, IntoErrorMessage(err).message} = {SaidMessage}

\* What was attached to the error as its source, since and when it was created.
Attached ==
  {[texts |-> Creation.source, places |-> Creation.origins]}
    \cup {calls[i].arg : i \in {i \in DOMAIN calls : calls[i].op = "with_source"}}

Trails == {[places |-> line.places, structured |-> line.structured] : line \in LogLines(err)}
CausePlaces == UNION {ToSet(a.places) : a \in Attached}

(* Every log line, of any logger and in either form, leads back from the   *)
(* frame that passed the error on last to the place it was raised at.      *)
(* Only Debug's goes on from there: to the places its causes came from,    *)
(* none of them missing or made up.                                        *)
LogsTellTheTrail ==
  \A t \in Trails : \E k \in DOMAIN t.places :
    /\ t.places[k] = Creation.location
    /\ ToSet(SubSeq(t.places, k, Len(t.places))) =
         {Creation.location} \cup IF t.structured THEN {} ELSE CausePlaces
    /\ Follows(Reverse(SubSeq(t.places, 1, k - 1)))

(* docs/errors.md:221-222, logging.rs:127-133: an error is logged as       *)
(* ERROR exactly if a cause was attached to it, visible or not, which no   *)
(* hop is; and every cause that displays as something is in every line.    *)
LogsTellTheCause ==
  /\ AxumErrorLog(err).level = "ERROR" <=> \E a \in Attached : a.texts # <<>>
  /\ \A line \in LogLines(err) :
       (UNION {ToSet(a.texts) : a \in Attached}) \ {Blank} \subseteq ToSet(line.causes)

(* logger.rs:251-256: in a mixed codebase an error logs the same fields    *)
(* under the service's code type and under the default, whichever of them  *)
(* the route was built with, and as treat-axum-logging would; and every    *)
(* line, structured or not, has the code that the client is sent and no    *)
(* less than the client's message.                                         *)
LogsMatchTheAnswer ==
  LET answer == ToErrorMessage(err) IN
  /\ \A line \in LogLines(err) : line.code = answer.code /\ IsPrefix(answer.message, line.message)
  /\ \A c \in LoggedCodes : Said("map_code", Creation.code) \in {c, DefaultCode} =>
       \A level \in {"ERROR", "DEBUG"} :
         [ActixLog(err, c, level) EXCEPT !.level = "DEBUG"] = AxumDebugLog(err)
=============================================================================
