------------------------------ MODULE TypedError ------------------------------
(***************************************************************************)
(* An ApiError from the call that creates it, through the builders and the *)
(* frames it passes on its way up, to wherever it is read: `error` and the *)
(* conversions into errors, `with_*`, `map_code`, `track`, and the         *)
(* `track_hop` that erris' tracked mode calls at every `?`.                *)
(*                                                                         *)
(* `calls` is a history variable: what was done to the error in hand since *)
(* it was created.                                                         *)
(***************************************************************************)
EXTENDS Naturals, Sequences, FiniteSets

CONSTANTS Lines,     \* of all files: a line stands for a file and a line
          Columns,
          Codes,     \* one code of each code type
          Declared,  \* what derive(ApiErrorCode) declares of a code
          Texts,     \* messages, names, URIs, texts of foreign errors
          Statuses,
          Blank,     \* what a transparent report displays
          None,
          MaxCalls,  \* bound: calls on one error, the one that creates it included
          MaxCauses  \* bound: length of a source chain

OrNone(S) == S \cup {None}
Locations == [line : Lines, column : Columns]

ASSUME DeclaredOfCodes == Declared \in [Codes -> [message : OrNone(Texts), status : OrNone(Statuses)]]
ASSUME BoundsAreNat == MaxCalls \in Nat \ {0} /\ MaxCauses \in Nat
ASSUME NoneIsNothing == None \notin Texts /\ None \notin Statuses /\ None \notin Codes

VARIABLES err, calls

vars == <<err, calls>>

LocatorFields == {"pointer", "parameter", "header"}
NoLocator == [f \in LocatorFields |-> None] \* ErrorSource::default()
Locators == {NoLocator} \cup {[NoLocator EXCEPT !["pointer"] = t] : t \in Texts}

\* What with_meta takes: an object of one key, null, any other value.
Metas == [json : {"object", "other"}, value : Texts] \cup {None}
Object(key, value) == [key |-> key, value |-> value]

\* The place a link of a source chain has, if erris recorded one.
Origins == {<<>>} \cup {<<at>> : at \in Locations}

\* Foreign reports of one link; a transparent one displays as nothing.
Reports == [texts : {<<t>> : t \in Texts \cup {Blank}}, places : Origins]

-----------------------------------------------------------------------------
(* Creating an error. *)

\* `#[track_caller]`: at is where the caller is.
NewError(code, at) ==
  [code |-> code, message |-> None, meta |-> None, locator |-> None, type |-> None,
   instance |-> None, status |-> None, source |-> <<>>, origins |-> <<>>, verbose |-> FALSE,
   location |-> at, hops |-> <<>>]

\* `code.into()`, generated by derive(ApiErrorCode)
FromCode(code, at) ==
  [NewError(code, at) EXCEPT !.message = Declared[code].message, !.status = Declared[code].status]

ErrorAndMessage(code, text, at) == [NewError(code, at) EXCEPT !.message = text]

Created(at) ==
  UNION {{NewError(c, at), FromCode(c, at)} \cup {ErrorAndMessage(c, t, at) : t \in Texts} : c \in Codes}

\* The source is what `chain()` displays and the places it has, outermost
\* first: a second source is added over the first.
WithSource(e, report) == [e EXCEPT !.source = report.texts \o @, !.origins = report.places \o @]

Start(e) == <<[op |-> "error", arg |-> e]>>

\* error, error_and_message, ok_or_api_*; wrap_error, wrap_api_*, with_*_code
\* and track_api_response over a foreign error
Init ==
  \E at \in Locations : \E e \in Created(at) :
    /\ err \in {e} \cup {WithSource(e, r) : r \in Reports}
    /\ calls = Start(err)

\* An ApiError converted into a report at a place: one more link, which erris
\* may have recorded the place of, as chain() may or may not know those of the
\* links below it.
AsReports(e, at) ==
  [texts : {<<e.code>> \o e.source},
   places : {link \o below : link \in {<<>>, <<at>>}, below \in {<<>>, e.origins}}]

\* The same over the ApiError in hand, which becomes the source of a new one.
Wrap ==
  /\ Len(err.source) < MaxCauses
  /\ \E at \in Locations : \E e \in Created(at), r \in AsReports(err, at) : err' = WithSource(e, r)
  /\ calls' = Start(err')

-----------------------------------------------------------------------------
(* What is done to an error. *)

Call(op, arg, e) ==
  /\ Len(calls) < MaxCalls
  /\ err' = e
  /\ calls' = Append(calls, [op |-> op, arg |-> arg])

TrackedMutAsCause(e, at) == [e EXCEPT !.hops = Append(@, at), !.source = <<Blank>> \o @]
Tracked(e, at) == [e EXCEPT !.hops = Append(@, at)]

\* track, track_api_error
Track(at) == Call("track", at, Tracked(err, at))

OnThisLine(location, here) == location.line = here.line

KnownMutAnyHop(e, here) ==
  \/ OnThisLine(e.location, here)
  \/ \E i \in DOMAIN e.hops : OnThisLine(e.hops[i], here)

\* Raised here, or tracked here last.
Known(e, here) ==
  \/ OnThisLine(e.location, here)
  \/ e.hops # <<>> /\ OnThisLine(e.hops[Len(e.hops)], here)

\* `?` in erris' tracked mode
TrackHop(at) == Call("track_hop", at, IF Known(err, at) THEN err ELSE Tracked(err, at))

MapCode(c) == Call("map_code", c, [err EXCEPT !.code = c])

WithMessage(t) == Call("with_message", t, [err EXCEPT !.message = t])

\* An object as it is, null as nothing, the rest under a key.
AsMeta(m) ==
  CASE m = None -> None
    [] m # None /\ m.json = "object" -> Object("user", m.value)
    [] m # None /\ m.json = "other" -> Object("value", m.value)
WithMeta(m) == Call("with_meta", m, [err EXCEPT !.meta = AsMeta(m)])

WithErrorSource(l) == Call("with_error_source", l, [err EXCEPT !.locator = l])

LocatedMutReplaces(e, f, t) == [e EXCEPT !.locator = [NoLocator EXCEPT ![f] = t]]
\* get_or_insert_default
Located(e, f, t) == [e EXCEPT !.locator = [IF @ = None THEN NoLocator ELSE @ EXCEPT ![f] = t]]
WithPointer(t) == Call("pointer", t, Located(err, "pointer", t))
WithParameter(t) == Call("parameter", t, Located(err, "parameter", t))
WithHeader(t) == Call("header", t, Located(err, "header", t))

WithType(t) == Call("with_type", t, [err EXCEPT !.type = t])
WithInstance(t) == Call("with_instance", t, [err EXCEPT !.instance = t])

\* with_status, and with_code_status with the code's status
WithStatus(s) == Call("with_status", s, [err EXCEPT !.status = s])
WithSourceStatus(s) ==
  Call("with_source_status", s, IF err.status = None THEN [err EXCEPT !.status = s] ELSE err)

WithVerbose == Call("with_verbose", None, [err EXCEPT !.verbose = TRUE])

\* with_source, with_error
WithError(r) ==
  /\ Len(err.source) < MaxCauses
  /\ Call("with_source", r, WithSource(err, r))

Pass(at) == Track(at) \/ TrackHop(at)

Enrich ==
  \/ \E t \in Texts : \/ WithMessage(t) \/ WithType(t) \/ WithInstance(t)
                      \/ WithPointer(t) \/ WithParameter(t) \/ WithHeader(t)
  \/ \E m \in Metas : WithMeta(m)
  \/ \E l \in Locators : WithErrorSource(l)
  \/ \E s \in Statuses : WithStatus(s) \/ WithSourceStatus(s)
  \/ \E r \in Reports : WithError(r)
  \/ WithVerbose

Next ==
  \/ Wrap
  \/ \E at \in Locations : Pass(at)
  \/ \E c \in Codes : MapCode(c)
  \/ Enrich

Spec == Init /\ [][Next]_vars

-----------------------------------------------------------------------------
Errors ==
  [code : Codes, message : OrNone(Texts),
   meta : OrNone([key : {"user", "value"}, value : Texts]),
   locator : OrNone([LocatorFields -> OrNone(Texts)]),
   type : OrNone(Texts), instance : OrNone(Texts), status : OrNone(Statuses),
   source : Seq(Texts \cup Codes \cup {Blank}), origins : Seq(Locations), verbose : BOOLEAN,
   location : Locations, hops : Seq(Locations)]

Ops == {"error", "track", "track_hop", "map_code", "with_message", "with_meta", "with_error_source",
        "pointer", "parameter", "header", "with_type", "with_instance", "with_status",
        "with_source_status", "with_verbose", "with_source"}

TypeOK ==
  /\ err \in Errors
  /\ calls # <<>> /\ Len(calls) <= MaxCalls
  /\ \A i \in DOMAIN calls : calls[i].op \in Ops
  /\ calls[1].op = "error" /\ calls[1].arg \in Errors

Passes == {"track", "track_hop"}

\* hops, oldest first, is a record of the places the error passed: at[i] hops
\* were recorded by the time of call i, and a place is left out only on the
\* line of the last one recorded or the one the error was raised on.
Follows(hops) ==
  \E at \in [DOMAIN calls -> 0 .. Len(hops)] :
    /\ at[1] = 0 /\ at[Len(calls)] = Len(hops)
    /\ \A i \in 2 .. Len(calls) :
         \/ /\ calls[i].op \in Passes
            /\ at[i] = at[i - 1] + 1
            /\ hops[at[i]] = calls[i].arg
         \/ /\ at[i] = at[i - 1]
            /\ calls[i].op \in Passes =>
                 \/ OnThisLine(err.location, calls[i].arg)
                 \/ at[i] # 0 /\ OnThisLine(hops[at[i]], calls[i].arg)

(* The trail can be followed back: `hops` names the lines the error came   *)
(* through in the order it passed them, from the place it was raised at,   *)
(* with no line missing or made up, whatever builders and remappings lie   *)
(* between and whichever of `track` and `?` recorded them.                 *)
TrailFaithful == err.location = calls[1].arg.location /\ Follows(err.hops)
=============================================================================
