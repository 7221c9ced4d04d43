-------------------------- MODULE TypedError_proofs --------------------------
(***************************************************************************)
(* The trail of an ApiError is faithful for any numbers of lines, calls    *)
(* and codes.                                                              *)
(*                                                                         *)
(* A call is of one of three kinds: it creates an error, it is a place the *)
(* error passes, or it touches neither `hops` nor `location`.  Each action *)
(* is shown to be of one kind, and each kind to preserve the trail.        *)
(***************************************************************************)
EXTENDS ErrorRendering, Recursion

Args ==
  Errors \cup Locations \cup Codes \cup Texts \cup Metas \cup Locators \cup Statuses \cup {None}
  \cup Reports

CallsTyped == calls \in Seq([op : Ops, arg : Args])

IInv == TypeOK /\ CallsTyped /\ TrailFaithful

-----------------------------------------------------------------------------
(* What creates an error creates one with no hops, at the caller's place.  *)
LEMMA CreatedAtCaller ==
  ASSUME NEW at \in Locations, NEW e \in Created(at)
  PROVE  e \in Errors /\ e.location = at /\ e.hops = <<>>
<1>1. PICK c \in Codes :
        e \in {NewError(c, at), FromCode(c, at)} \cup {ErrorAndMessage(c, t, at) : t \in Texts}
  BY DEF Created
<1>2. NewError(c, at) \in Errors /\ NewError(c, at).location = at /\ NewError(c, at).hops = <<>>
  BY DEF NewError, Errors, OrNone
<1>3. CASE e = NewError(c, at)
  BY <1>2, <1>3
<1>4. CASE e = FromCode(c, at)
  <2>1. Declared[c].message \in OrNone(Texts) /\ Declared[c].status \in OrNone(Statuses)
    BY DeclaredOfCodes
  <2> QED BY <1>2, <1>4, <2>1 DEF FromCode, Errors
<1>5. CASE \E t \in Texts : e = ErrorAndMessage(c, t, at)
  BY <1>2, <1>5 DEF ErrorAndMessage, Errors, OrNone
<1> QED BY <1>1, <1>3, <1>4, <1>5

\* What WithSource takes: a foreign report, or an error as one.
Chains == [texts : Seq(Texts \cup Codes \cup {Blank}), places : Seq(Locations)]

LEMMA ReportsAreChains ==
  ASSUME NEW r \in Reports
  PROVE  r \in Chains
<1>1. PICK t \in Texts \cup {Blank} : r.texts = <<t>>
  BY DEF Reports
<1>2. r.texts \in Seq(Texts \cup Codes \cup {Blank})
  BY <1>1
<1>3. r.places \in Seq(Locations)
  <2>1. r.places \in Origins
    BY DEF Reports
  <2>2. <<>> \in Seq(Locations) /\ \A at \in Locations : <<at>> \in Seq(Locations)
    OBVIOUS
  <2> QED BY <2>1, <2>2 DEF Origins
<1> QED
  BY <1>2, <1>3 DEF Reports, Chains

LEMMA ErrorsAreChains ==
  ASSUME NEW e \in Errors, NEW at \in Locations, NEW r \in AsReports(e, at)
  PROVE  r \in Chains
<1>1. e.source \in Seq(Texts \cup Codes \cup {Blank}) /\ e.code \in Codes /\ e.origins \in Seq(Locations)
  BY DEF Errors
<1>2. r.texts \in Seq(Texts \cup Codes \cup {Blank})
  <2>1. r.texts = <<e.code>> \o e.source
    BY DEF AsReports
  <2> QED BY <1>1, <2>1
<1>3. r.places \in Seq(Locations)
  <2>1. PICK link \in {<<>>, <<at>>} : \E below \in {<<>>, e.origins} : r.places = link \o below
    BY DEF AsReports
  <2>2. PICK below \in {<<>>, e.origins} : r.places = link \o below
    BY <2>1
  <2>3. <<>> \in Seq(Locations) /\ <<at>> \in Seq(Locations)
    OBVIOUS
  <2>4. link \in Seq(Locations) /\ below \in Seq(Locations)
    BY <1>1, <2>3
  <2> QED BY <2>2, <2>4
<1> QED
  BY <1>2, <1>3 DEF AsReports, Chains

(* A source is added to an error without touching its trail.               *)
LEMMA SourceOnly ==
  ASSUME NEW e \in Errors, NEW r \in Chains
  PROVE  /\ WithSource(e, r) \in Errors
         /\ WithSource(e, r).location = e.location
         /\ WithSource(e, r).hops = e.hops
<1>1. r.texts \o e.source \in Seq(Texts \cup Codes \cup {Blank})
  BY DEF Errors, Chains
<1>2. r.places \o e.origins \in Seq(Locations)
  BY DEF Errors, Chains
<1> QED BY <1>1, <1>2 DEF WithSource, Errors
-----------------------------------------------------------------------------
(* The kinds of calls. *)

Creates == err' \in Errors /\ err'.hops = <<>> /\ calls' = Start(err')

Enriches ==
  /\ err' \in Errors /\ err'.hops = err.hops /\ err'.location = err.location
  /\ \E op \in Ops \ (Passes \cup {"error"}), arg \in Args : calls' = Append(calls, [op |-> op, arg |-> arg])
  /\ Len(calls) < MaxCalls

PassesAt(at) ==
  /\ err' \in Errors /\ err'.location = err.location
  /\ \/ err'.hops = Append(err.hops, at)
     \/ err'.hops = err.hops /\ Known(err, at)
  /\ \E op \in Passes : calls' = Append(calls, [op |-> op, arg |-> at])
  /\ Len(calls) < MaxCalls

LEMMA WrapCreates ==
  ASSUME TypeOK, Wrap
  PROVE  Creates
<1>1. PICK at \in Locations : \E e \in Created(at), r \in AsReports(err, at) : err' = WithSource(e, r)
  BY DEF Wrap
<1>2. PICK e \in Created(at) : \E r \in AsReports(err, at) : err' = WithSource(e, r)
  BY <1>1
<1>3. PICK r \in AsReports(err, at) : err' = WithSource(e, r)
  BY <1>2
<1>4. e \in Errors /\ e.hops = <<>>
  BY CreatedAtCaller
<1>5. r \in Chains
  BY ErrorsAreChains DEF TypeOK
<1>6. err' \in Errors /\ err'.hops = <<>>
  BY <1>3, <1>4, <1>5, SourceOnly
<1> QED
  BY <1>6 DEF Creates, Wrap

LEMMA PassRecords ==
  ASSUME TypeOK, NEW at \in Locations, Pass(at)
  PROVE  PassesAt(at)
<1>1. Tracked(err, at) \in Errors /\ Tracked(err, at).location = err.location
      /\ Tracked(err, at).hops = Append(err.hops, at)
  <2>1. Append(err.hops, at) \in Seq(Locations)
    BY DEF TypeOK, Errors
  <2> QED BY <2>1 DEF TypeOK, Tracked, Errors
<1>2. CASE Track(at)
  BY <1>1, <1>2 DEF Track, Call, PassesAt, Passes
<1>3. CASE TrackHop(at)
  BY <1>1, <1>3 DEF TrackHop, Call, PassesAt, Passes, TypeOK
<1> QED
  BY <1>2, <1>3 DEF Pass

\* What an operation other than a pass leaves in the error.
Untracked(e) == e \in Errors /\ e.hops = err.hops /\ e.location = err.location

LEMMA CallEnriches ==
  ASSUME NEW op \in Ops \ {"error", "track", "track_hop"}, NEW arg \in Args, NEW e,
         Untracked(e), Call(op, arg, e)
  PROVE  Enriches
  BY DEF Untracked, Call, Enriches, Passes

LEMMA MapCodeEnriches ==
  ASSUME TypeOK, NEW c \in Codes, MapCode(c)
  PROVE  Enriches
<1>1. Untracked([err EXCEPT !.code = c])
  BY DEF TypeOK, Errors, Untracked
<1> QED
  BY <1>1, CallEnriches DEF MapCode, Args, Ops

(* No builder touches the trail.                                           *)
LEMMA BuildersEnrich ==
  ASSUME TypeOK, Enrich
  PROVE  Enriches
<1>1. ASSUME NEW t \in Texts, WithMessage(t) \/ WithType(t) \/ WithInstance(t)
      PROVE  Enriches
  <2>1. Untracked([err EXCEPT !.message = t]) /\ Untracked([err EXCEPT !.type = t])
        /\ Untracked([err EXCEPT !.instance = t])
    BY DEF TypeOK, Errors, Untracked, OrNone
  <2> QED
    BY <1>1, <2>1, CallEnriches DEF WithMessage, WithType, WithInstance, Args, Ops
<1>2. ASSUME NEW t \in Texts, WithPointer(t) \/ WithParameter(t) \/ WithHeader(t)
      PROVE  Enriches
  <2>1. ASSUME NEW f \in LocatorFields
        PROVE  Untracked(Located(err, f, t))
    <3>1. NoLocator \in [LocatorFields -> OrNone(Texts)]
      BY DEF NoLocator, OrNone
    <3>2. [IF err.locator = None THEN NoLocator ELSE err.locator EXCEPT ![f] = t]
            \in [LocatorFields -> OrNone(Texts)]
      BY <3>1 DEF OrNone, TypeOK, Errors
    <3> QED BY <3>2 DEF Located, TypeOK, Errors, Untracked, OrNone
  <2>2. Untracked(Located(err, "pointer", t)) /\ Untracked(Located(err, "parameter", t))
        /\ Untracked(Located(err, "header", t))
    BY <2>1 DEF LocatorFields
  <2> QED BY <1>2, <2>2, CallEnriches DEF WithPointer, WithParameter, WithHeader, Args, Ops
<1>3. ASSUME NEW m \in Metas, WithMeta(m)
      PROVE  Enriches
  <2>1. AsMeta(m) \in OrNone([key : {"user", "value"}, value : Texts])
    BY DEF AsMeta, Metas, Object, OrNone
  <2>2. Untracked([err EXCEPT !.meta = AsMeta(m)])
    BY <2>1 DEF TypeOK, Errors, Untracked
  <2> QED BY <1>3, <2>2, CallEnriches DEF WithMeta, Args, Ops
<1>4. ASSUME NEW l \in Locators, WithErrorSource(l)
      PROVE  Enriches
  <2>1. l \in [LocatorFields -> OrNone(Texts)]
    BY DEF Locators, NoLocator, OrNone
  <2>2. Untracked([err EXCEPT !.locator = l])
    BY <2>1 DEF TypeOK, Errors, Untracked, OrNone
  <2> QED BY <1>4, <2>2, CallEnriches DEF WithErrorSource, Args, Ops
<1>5. ASSUME NEW s \in Statuses, WithStatus(s) \/ WithSourceStatus(s)
      PROVE  Enriches
  <2>1. Untracked([err EXCEPT !.status = s]) /\ Untracked(err)
    BY DEF TypeOK, Errors, Untracked, OrNone
  <2> QED BY <1>5, <2>1, CallEnriches DEF WithStatus, WithSourceStatus, Args, Ops
<1>6. ASSUME NEW r \in Reports, WithError(r)
      PROVE  Enriches
  <2>1. r \in Chains
    BY ReportsAreChains
  <2>2. Untracked(WithSource(err, r))
    BY <2>1, SourceOnly DEF TypeOK, Untracked
  <2> QED BY <1>6, <2>1, <2>2, CallEnriches DEF WithError, Args, Ops
<1>7. CASE WithVerbose
  <2>1. Untracked([err EXCEPT !.verbose = TRUE])
    BY DEF TypeOK, Errors, Untracked
  <2> QED BY <1>7, <2>1, CallEnriches DEF WithVerbose, Args, Ops
<1> QED
  BY <1>1, <1>2, <1>3, <1>4, <1>5, <1>6, <1>7 DEF Enrich

-----------------------------------------------------------------------------
(* What each kind of call does to the types and to the trail. *)

LEMMA CreationStartsTrail ==
  ASSUME Creates
  PROVE  IInv'
<1>1. calls' = <<[op |-> "error", arg |-> err']>> /\ err' \in Errors /\ err'.hops = <<>>
  BY DEF Creates, Start
<1>2. TypeOK'
  BY <1>1, BoundsAreNat DEF TypeOK, Ops
<1>3. CallsTyped'
  <2>1. [op |-> "error", arg |-> err'] \in [op : Ops, arg : Args]
    BY <1>1 DEF Ops, Args
  <2> QED BY <1>1, <2>1 DEF CallsTyped
<1>4. Follows(err.hops)'
  <2>1. DOMAIN calls' = 1 .. 1 /\ Len(calls') = 1 /\ Len(err'.hops) = 0
    BY <1>1
  <2> DEFINE at == [i \in 1 .. 1 |-> 0]
  <2>2. at \in [DOMAIN calls' -> 0 .. Len(err'.hops)] /\ at[1] = 0 /\ at[Len(calls')] = Len(err'.hops)
    BY <2>1
  <2>3. 2 .. Len(calls') = {}
    BY <2>1
  <2> QED BY <2>2, <2>3 DEF Follows
<1> QED
  BY <1>1, <1>2, <1>3, <1>4 DEF IInv, TrailFaithful

(* A further call keeps the history typed and its beginning as it is.      *)
LEMMA HistoryExtended ==
  ASSUME TypeOK, CallsTyped, Len(calls) < MaxCalls, err' \in Errors,
         NEW op \in Ops, NEW arg \in Args, calls' = Append(calls, [op |-> op, arg |-> arg])
  PROVE  /\ TypeOK' /\ CallsTyped'
         /\ Len(calls) \in Nat \ {0} /\ DOMAIN calls = 1 .. Len(calls)
         /\ Len(calls') = Len(calls) + 1 /\ DOMAIN calls' = 1 .. Len(calls) + 1
         /\ calls'[Len(calls) + 1] = [op |-> op, arg |-> arg]
         /\ \A i \in 1 .. Len(calls) : calls'[i] = calls[i]
<1>1. [op |-> op, arg |-> arg] \in [op : Ops, arg : Args]
  OBVIOUS
<1>2. /\ CallsTyped'
      /\ Len(calls) \in Nat \ {0} /\ DOMAIN calls = 1 .. Len(calls)
      /\ Len(calls') = Len(calls) + 1 /\ DOMAIN calls' = 1 .. Len(calls) + 1
      /\ calls'[Len(calls) + 1] = [op |-> op, arg |-> arg]
      /\ \A i \in 1 .. Len(calls) : calls'[i] = calls[i]
  BY <1>1 DEF CallsTyped, TypeOK
<1>3. TypeOK'
  <2>1. \A i \in DOMAIN calls' : calls'[i].op \in Ops
    BY <1>2 DEF CallsTyped, TypeOK
  <2>2. calls' # <<>> /\ Len(calls') <= MaxCalls
    BY <1>2, BoundsAreNat
  <2>3. calls'[1].op = "error" /\ calls'[1].arg \in Errors
    BY <1>2 DEF TypeOK
  <2> QED BY <2>1, <2>2, <2>3 DEF TypeOK
<1> QED
  BY <1>2, <1>3

LEMMA EnrichingKeepsTrail ==
  ASSUME IInv, Enriches
  PROVE  IInv'
<1>1. PICK op \in Ops \ (Passes \cup {"error"}), arg \in Args : calls' = Append(calls, [op |-> op, arg |-> arg])
  BY DEF Enriches
<1> DEFINE n == Len(calls)
<1>2. /\ TypeOK' /\ CallsTyped' /\ n \in Nat \ {0} /\ DOMAIN calls = 1 .. n
      /\ Len(calls') = n + 1 /\ DOMAIN calls' = 1 .. n + 1
      /\ calls'[n + 1].op \notin Passes /\ \A i \in 1 .. n : calls'[i] = calls[i]
  BY <1>1, HistoryExtended DEF IInv, Enriches
<1> HIDE DEF n
<1>3. PICK at \in [DOMAIN calls -> 0 .. Len(err.hops)] :
        /\ at[1] = 0 /\ at[n] = Len(err.hops)
        /\ \A i \in 2 .. n :
             \/ calls[i].op \in Passes /\ at[i] = at[i - 1] + 1 /\ err.hops[at[i]] = calls[i].arg
             \/ /\ at[i] = at[i - 1]
                /\ calls[i].op \in Passes =>
                     \/ OnThisLine(err.location, calls[i].arg)
                     \/ at[i] # 0 /\ OnThisLine(err.hops[at[i]], calls[i].arg)
  BY DEF IInv, TrailFaithful, Follows, n
<1> DEFINE next == [i \in 1 .. n + 1 |-> IF i = n + 1 THEN Len(err.hops) ELSE at[i]]
<1>4. err'.hops = err.hops /\ err'.location = err.location
  BY DEF Enriches
<1>5. Len(err.hops) \in Nat
  BY DEF IInv, TypeOK, Errors
<1>6. next \in [DOMAIN calls' -> 0 .. Len(err'.hops)] /\ next[1] = 0 /\ next[n + 1] = Len(err'.hops)
  BY <1>2, <1>3, <1>4, <1>5
<1>7. ASSUME NEW i \in 2 .. n + 1
      PROVE  \/ calls'[i].op \in Passes /\ next[i] = next[i - 1] + 1 /\ err'.hops[next[i]] = calls'[i].arg
             \/ /\ next[i] = next[i - 1]
                /\ calls'[i].op \in Passes =>
                     \/ OnThisLine(err'.location, calls'[i].arg)
                     \/ next[i] # 0 /\ OnThisLine(err'.hops[next[i]], calls'[i].arg)
  <2>1. CASE i = n + 1
    BY <1>2, <1>3, <2>1
  <2>2. CASE i \in 2 .. n
    <3>1. next[i] = at[i] /\ next[i - 1] = at[i - 1] /\ calls'[i] = calls[i]
      BY <1>2, <2>2
    <3> QED BY <1>3, <1>4, <2>2, <3>1
  <2> QED BY <1>2, <2>1, <2>2
<1> HIDE DEF next
<1>8. Follows(err.hops)'
  <2>1. next \in [DOMAIN calls' -> 0 .. Len(err'.hops)] /\ next[1] = 0 /\ next[Len(calls')] = Len(err'.hops)
    BY <1>2, <1>6
  <2>2. 2 .. Len(calls') = 2 .. n + 1
    BY <1>2
  <2> QED BY <1>7, <2>1, <2>2, Zenon DEF Follows
<1>9. calls'[1] = calls[1]
  BY <1>2
<1> QED
  BY <1>2, <1>4, <1>8, <1>9 DEF IInv, TrailFaithful

LEMMA PassExtendsTrail ==
  ASSUME IInv, NEW place \in Locations, PassesAt(place)
  PROVE  IInv'
<1>1. PICK op \in Passes : calls' = Append(calls, [op |-> op, arg |-> place])
  BY DEF PassesAt
<1> DEFINE n == Len(calls)
<1>2. /\ TypeOK' /\ CallsTyped' /\ n \in Nat \ {0} /\ DOMAIN calls = 1 .. n
      /\ Len(calls') = n + 1 /\ DOMAIN calls' = 1 .. n + 1
      /\ calls'[n + 1].op \in Passes /\ calls'[n + 1].arg = place
      /\ \A i \in 1 .. n : calls'[i] = calls[i]
  <2>1. op \in Ops /\ place \in Args
    BY DEF Passes, Ops, Args
  <2> QED BY <1>1, <2>1, HistoryExtended DEF IInv, PassesAt
<1> HIDE DEF n
<1>3. PICK at \in [DOMAIN calls -> 0 .. Len(err.hops)] :
        /\ at[1] = 0 /\ at[n] = Len(err.hops)
        /\ \A i \in 2 .. n :
             \/ calls[i].op \in Passes /\ at[i] = at[i - 1] + 1 /\ err.hops[at[i]] = calls[i].arg
             \/ /\ at[i] = at[i - 1]
                /\ calls[i].op \in Passes =>
                     \/ OnThisLine(err.location, calls[i].arg)
                     \/ at[i] # 0 /\ OnThisLine(err.hops[at[i]], calls[i].arg)
  BY DEF IInv, TrailFaithful, Follows, n
<1>4. err'.location = err.location /\ err.hops \in Seq(Locations) /\ Len(err.hops) \in Nat
  BY DEF PassesAt, IInv, TypeOK, Errors
\* The new place is recorded, or is the one known already.
<1>5. /\ Len(err'.hops) \in {Len(err.hops), Len(err.hops) + 1}
      /\ \A k \in 1 .. Len(err.hops) : err'.hops[k] = err.hops[k]
      /\ \/ Len(err'.hops) = Len(err.hops) + 1 /\ err'.hops[Len(err.hops) + 1] = place
         \/ Len(err'.hops) = Len(err.hops) /\ Known(err, place)
  BY <1>4 DEF PassesAt
<1> DEFINE next == [i \in 1 .. n + 1 |-> IF i = n + 1 THEN Len(err'.hops) ELSE at[i]]
<1>6. next \in [DOMAIN calls' -> 0 .. Len(err'.hops)] /\ next[1] = 0 /\ next[n + 1] = Len(err'.hops)
  BY <1>2, <1>3, <1>4, <1>5
<1>7. ASSUME NEW i \in 2 .. n + 1
      PROVE  \/ calls'[i].op \in Passes /\ next[i] = next[i - 1] + 1 /\ err'.hops[next[i]] = calls'[i].arg
             \/ /\ next[i] = next[i - 1]
                /\ calls'[i].op \in Passes =>
                     \/ OnThisLine(err'.location, calls'[i].arg)
                     \/ next[i] # 0 /\ OnThisLine(err'.hops[next[i]], calls'[i].arg)
  <2>1. CASE i = n + 1
    <3>1. next[i] = Len(err'.hops) /\ next[i - 1] = Len(err.hops)
      BY <1>2, <1>3, <2>1
    <3>2. CASE Len(err'.hops) = Len(err.hops) + 1 /\ err'.hops[Len(err.hops) + 1] = place
      BY <1>2, <2>1, <3>1, <3>2
    <3>3. CASE Len(err'.hops) = Len(err.hops) /\ Known(err, place)
      <4>1. \/ OnThisLine(err.location, place)
            \/ Len(err.hops) # 0 /\ OnThisLine(err.hops[Len(err.hops)], place)
        BY <1>4, <3>3 DEF Known
      <4>2. Len(err.hops) # 0 => err'.hops[Len(err.hops)] = err.hops[Len(err.hops)]
        BY <1>4, <1>5
      <4> QED BY <1>2, <1>4, <2>1, <3>1, <3>3, <4>1, <4>2
    <3> QED BY <1>5, <3>2, <3>3
  <2>2. CASE i \in 2 .. n
    <3>1. next[i] = at[i] /\ next[i - 1] = at[i - 1] /\ calls'[i] = calls[i]
      BY <1>2, <2>2
    <3>2. at[i] \in 0 .. Len(err.hops)
      BY <1>2, <1>3, <2>2
    <3>3. at[i] # 0 => err'.hops[at[i]] = err.hops[at[i]]
      BY <1>4, <1>5, <3>2
    <3>4. at[i - 1] \in 0 .. Len(err.hops)
      BY <1>2, <1>3, <2>2
    <3> QED BY <1>3, <1>4, <2>2, <3>1, <3>2, <3>3, <3>4
  <2> QED BY <1>2, <2>1, <2>2
<1> HIDE DEF next
<1>8. Follows(err.hops)'
  <2>1. next \in [DOMAIN calls' -> 0 .. Len(err'.hops)] /\ next[1] = 0 /\ next[Len(calls')] = Len(err'.hops)
    BY <1>2, <1>6
  <2>2. 2 .. Len(calls') = 2 .. n + 1
    BY <1>2
  <2> QED BY <1>7, <2>1, <2>2, Zenon DEF Follows
<1>9. calls'[1] = calls[1]
  BY <1>2
<1> QED
  BY <1>2, <1>4, <1>8, <1>9 DEF IInv, TrailFaithful

-----------------------------------------------------------------------------
LEMMA InitEstablishes ==
  ASSUME Init
  PROVE  IInv
<1>1. err \in Errors /\ err.hops = <<>> /\ calls = Start(err)
  <2>1. PICK at \in Locations : \E e \in Created(at) :
          /\ err \in {e} \cup {WithSource(e, r) : r \in Reports}
          /\ calls = Start(err)
    BY DEF Init
  <2>2. PICK e \in Created(at) :
          /\ err \in {e} \cup {WithSource(e, r) : r \in Reports}
          /\ calls = Start(err)
    BY <2>1
  <2>3. e \in Errors /\ e.hops = <<>>
    BY CreatedAtCaller
  <2>4. \A r \in Reports : WithSource(e, r) \in Errors /\ WithSource(e, r).hops = <<>>
    BY <2>3, ReportsAreChains, SourceOnly
  <2> QED BY <2>2, <2>3, <2>4
<1>2. calls = <<[op |-> "error", arg |-> err]>>
  BY <1>1 DEF Start
<1>3. TypeOK
  BY <1>1, <1>2, BoundsAreNat DEF TypeOK, Ops
<1>4. CallsTyped
  <2>1. [op |-> "error", arg |-> err] \in [op : Ops, arg : Args]
    BY <1>1 DEF Ops, Args
  <2> QED BY <1>2, <2>1 DEF CallsTyped
<1>5. Follows(err.hops)
  <2>1. DOMAIN calls = 1 .. 1 /\ Len(calls) = 1 /\ Len(err.hops) = 0
    BY <1>1, <1>2
  <2> DEFINE at == [i \in 1 .. 1 |-> 0]
  <2>2. at \in [DOMAIN calls -> 0 .. Len(err.hops)] /\ at[1] = 0 /\ at[Len(calls)] = Len(err.hops)
    BY <2>1
  <2>3. 2 .. Len(calls) = {}
    BY <2>1
  <2> QED BY <2>2, <2>3 DEF Follows
<1> QED
  BY <1>2, <1>3, <1>4, <1>5 DEF IInv, TrailFaithful

LEMMA StepPreserves ==
  ASSUME IInv, [Next]_vars
  PROVE  IInv'
<1>1. TypeOK
  BY DEF IInv
<1>2. CASE Wrap
  BY <1>1, <1>2, WrapCreates, CreationStartsTrail
<1>3. CASE \E at \in Locations : Pass(at)
  BY <1>1, <1>3, PassRecords, PassExtendsTrail
<1>4. CASE \E c \in Codes : MapCode(c)
  BY <1>1, <1>4, MapCodeEnriches, EnrichingKeepsTrail
<1>5. CASE Enrich
  BY <1>1, <1>5, BuildersEnrich, EnrichingKeepsTrail
<1>6. CASE UNCHANGED vars
  BY <1>6 DEF vars, IInv, TypeOK, CallsTyped, TrailFaithful, Follows
<1> QED
  BY <1>2, <1>3, <1>4, <1>5, <1>6 DEF Next

(* Whatever is done to an error, in any order and number, it stays a well  *)
(* formed ApiError: its meta an object, its locator whole (error.rs:103).  *)
THEOREM ErrorsWellFormed == Spec => []TypeOK
<1>1. Init => IInv
  BY InitEstablishes
<1>2. IInv /\ [Next]_vars => IInv'
  BY StepPreserves
<1>3. IInv => TypeOK
  BY DEF IInv
<1> QED
  BY <1>1, <1>2, <1>3, PTL DEF Spec

(* `hops` can be followed back to where the error was raised: no line that *)
(* the error came through is missing and none is made up (track.rs:96-109, *)
(* error.rs:365-373, error.rs:427-457).                                    *)
THEOREM TrailIsFaithful == Spec => []TrailFaithful
<1>1. Init => IInv
  BY InitEstablishes
<1>2. IInv /\ [Next]_vars => IInv'
  BY StepPreserves
<1>3. IInv => TrailFaithful
  BY DEF IInv
<1> QED
  BY <1>1, <1>2, <1>3, PTL DEF Spec

-----------------------------------------------------------------------------
(* What becomes of an error as a message. *)

Messages ==
  [code : Codes, message : Seq(Texts \cup Codes), type : OrNone(Texts), instance : OrNone(Texts),
   source : OrNone([LocatorFields -> OrNone(Texts)]),
   meta : OrNone([key : {"user", "value"}, value : Texts])]

\* A locator that is sent says something.
Sendable(m) == m \in Messages /\ (m.source # None => ~IsEmpty(m.source))

LEMMA MessageSendable ==
  ASSUME NEW e \in Errors
  PROVE  /\ Sendable(ToErrorMessage(e))
         /\ RawMessage(e) \in Seq(Texts \cup Codes)
         /\ FormatMessage(e) = IF e.verbose THEN FormatMessageVerbose(e) ELSE RawMessage(e)
<1>1. RawMessage(e) \in Seq(Texts \cup Codes)
  <2>1. CASE e.message = None
    BY <2>1 DEF RawMessage
  <2>2. CASE e.message \in Texts
    <3>1. <<e.message>> \in Seq(Texts \cup Codes)
      BY <2>2
    <3> QED BY <2>2, <3>1, NoneIsNothing DEF RawMessage
  <2> QED BY <2>1, <2>2 DEF Errors, OrNone
<1>2. SourceText(e) \in Seq(Texts \cup Codes)
  <2>1. e.source \in Seq(Texts \cup Codes \cup {Blank})
    BY DEF Errors
  <2>2. e.source # <<>> => Head(e.source) \in Texts \cup Codes \cup {Blank}
    BY <2>1
  <2>3. CASE e.source = <<>> \/ Head(e.source) = Blank
    BY <2>3 DEF SourceText
  <2>4. CASE e.source # <<>> /\ Head(e.source) # Blank
    <3>1. <<Head(e.source)>> \in Seq(Texts \cup Codes)
      BY <2>2, <2>4
    <3> QED BY <2>4, <3>1 DEF SourceText
  <2> QED BY <2>3, <2>4
<1>3. FormatMessageVerbose(e) \in Seq(Texts \cup Codes)
  BY <1>1, <1>2 DEF FormatMessageVerbose
<1>4. FormatMessage(e) \in Seq(Texts \cup Codes)
  BY <1>1, <1>3 DEF FormatMessage
<1>5. /\ Filled(e.locator) \in OrNone([LocatorFields -> OrNone(Texts)])
      /\ Filled(e.locator) # None => ~IsEmpty(Filled(e.locator))
  BY DEF Filled, OrNone, Errors
<1>6. ToErrorMessage(e) \in Messages
  BY <1>4, <1>5 DEF ToErrorMessage, Messages, Errors
<1> QED BY <1>1, <1>5, <1>6 DEF Sendable, ToErrorMessage, FormatMessage

\* A locator can be read back from the object of the fields it has.
LEMMA LocatorReadBack ==
  ASSUME NEW l \in [LocatorFields -> OrNone(Texts)]
  PROVE  [g \in LocatorFields |-> IF g \in DOMAIN Json(l) THEN Json(l)[g] ELSE None] = l
BY DEF Json

LEMMA RoundTrip ==
  ASSUME NEW m, Sendable(m)
  PROVE  Serialize(m) = ToValue(m) /\ Deserialize(Serialize(m)) = m
<1>0. m \in Messages
  BY DEF Sendable
<1>1. {f \in Given(m) : f = "source" => ~IsEmpty(m[f])} = Given(m)
  BY DEF Sendable, Given
<1>2. Serialize(m) = ToValue(m)
  BY <1>1 DEF Serialize, ToValue
<1>3. Given(m) \subseteq Fields /\ Serialize(m) = [f \in Given(m) |-> IF f = "source" THEN Json(m[f]) ELSE m[f]]
  BY DEF Given, Serialize, Fill
<1>4. /\ DOMAIN Serialize(m) = Given(m)
      /\ \A f \in Given(m) \ {"source"} : Serialize(m)[f] = m[f]
      /\ "source" \in Given(m) => Serialize(m)["source"] = Json(m["source"])
  BY <1>3
<1>5. m = [f \in Fields |-> m[f]]
  BY <1>0 DEF Messages, Fields
<1>6. /\ m["message"] \in Seq(Texts \cup Codes) /\ m["message"] # None
      /\ m["source"] # None => m["source"] \in [LocatorFields -> OrNone(Texts)]
  BY <1>0, NoneIsNoValue DEF Messages, OrNone
<1>7. ASSUME NEW f \in Fields PROVE Deserialize(Serialize(m))[f] = m[f]
  <2>1. CASE f \notin Given(m)
    BY <1>4, <1>6, <1>7, <2>1 DEF Deserialize, Given
  <2>2. CASE f \in Given(m) /\ f # "source"
    BY <1>4, <1>7, <2>2 DEF Deserialize
  <2>3. CASE f \in Given(m) /\ f = "source"
    <3>1. m["source"] # None
      BY <2>3 DEF Given
    <3>2. Deserialize(Serialize(m))["source"] =
            [g \in LocatorFields |-> IF g \in DOMAIN Json(m["source"]) THEN Json(m["source"])[g] ELSE None]
      BY <1>4, <1>7, <2>3 DEF Deserialize
    <3> QED BY <1>6, <2>3, <3>1, <3>2, LocatorReadBack
  <2> QED BY <2>1, <2>2, <2>3
<1>8. Deserialize(Serialize(m)) = [f \in Fields |-> Deserialize(Serialize(m))[f]]
  BY DEF Deserialize
<1>9. Deserialize(Serialize(m)) = m
  BY <1>5, <1>7, <1>8
<1> QED BY <1>2, <1>9

(* The three conversions of an error give one message, derive(Serialize)   *)
(* and From<ErrorMessage> for Value one JSON document, and parsing that    *)
(* gives the message back, whatever was done to the error.                 *)
THEOREM OneMessageForClients == Spec => []ConversionsAgree
<1>1. IInv => ConversionsAgree
  <2> SUFFICES ASSUME err \in Errors PROVE ConversionsAgree
    BY DEF IInv, TypeOK
  <2>1. IntoErrorMessage(err) = ToErrorMessage(err) /\ ToErrorMessageWith(err, err.verbose) = ToErrorMessage(err)
    BY MessageSendable DEF IntoErrorMessage, ToErrorMessageWith, ToErrorMessage
  <2> QED BY <2>1, MessageSendable, RoundTrip DEF ConversionsAgree
<1> QED BY <1>1, InitEstablishes, StepPreserves, PTL DEF Spec

-----------------------------------------------------------------------------
(* What was said last, and first. *)

LEMMA LastSaidIs ==
  ASSUME CallsTyped, NEW ops
  PROVE  \/ LastSaid(ops) = 0 /\ \A i \in DOMAIN calls : calls[i].op \notin ops
         \/ LastSaid(ops) \in DOMAIN calls /\ calls[LastSaid(ops)].op \in ops
<1> DEFINE I == {i \in 1 .. Len(calls) : calls[i].op \in ops}
<1>1. Len(calls) \in Nat /\ DOMAIN calls = 1 .. Len(calls)
  BY DEF CallsTyped
<1>2. LastSaid(ops) = IF I # {} THEN Max(I) ELSE 0
  BY DEF LastSaid, SelectLastInSeq
<1>3. I # {} => Max(I) \in I
  <2> SUFFICES ASSUME I # {} PROVE Max(I) \in I
    OBVIOUS
  <2>1. I \subseteq 0 .. Len(calls)
    BY <1>1
  <2>2. \E x \in I : \A y \in I : y <= x
    BY <1>1, <2>1, Greatest
  <2>3. \E x \in I : \A y \in I : x >= y
    BY <1>1, <2>1, <2>2
  <2> QED BY <2>3 DEF Max
<1> QED BY <1>1, <1>2, <1>3

FirstAdopted == SelectInSeq(calls, LAMBDA c : c.op = "with_source_status")

LEMMA FirstAdoptedIs ==
  ASSUME CallsTyped
  PROVE  FirstAdopted = 0 \/ FirstAdopted \in DOMAIN calls
<1> DEFINE I == {i \in 1 .. Len(calls) : calls[i].op = "with_source_status"}
<1>1. Len(calls) \in Nat /\ DOMAIN calls = 1 .. Len(calls)
  BY DEF CallsTyped
<1>2. FirstAdopted = IF I # {} THEN Min(I) ELSE 0
  BY DEF FirstAdopted, SelectInSeq
<1>3. I # {} => Min(I) \in I
  <2> SUFFICES ASSUME I # {} PROVE Min(I) \in I
    OBVIOUS
  <2>1. I \subseteq Nat
    BY <1>1
  <2>2. \E x \in I : \A y \in I : x <= y
    BY <2>1, Least
  <2> QED BY <2>2 DEF Min
<1> QED BY <1>1, <1>2, <1>3

\* One more call changes what was said last of its own operation only, and
\* what was said first if it is the first.
LEMMA SaidNext ==
  ASSUME CallsTyped, calls # <<>>, NEW op, NEW arg, calls' = Append(calls, [op |-> op, arg |-> arg])
  PROVE  /\ Creation' = Creation
         /\ Len(calls) \in Nat /\ calls'[Len(calls) + 1] = [op |-> op, arg |-> arg]
         /\ \A i \in DOMAIN calls : calls'[i] = calls[i] /\ i # Len(calls) + 1
         /\ \A ops : LastSaid(ops)' = IF op \in ops THEN Len(calls) + 1 ELSE LastSaid(ops)
         /\ \A o, before : Said(o, before)' = IF op = o THEN arg ELSE Said(o, before)
         /\ FirstAdopted' = IF FirstAdopted = 0 /\ op = "with_source_status" THEN Len(calls) + 1
                            ELSE FirstAdopted
<1> DEFINE n == Len(calls)
           c == [op |-> op, arg |-> arg]
<1>1. /\ n \in Nat \ {0} /\ DOMAIN calls = 1 .. n /\ Len(calls') = n + 1 /\ DOMAIN calls' = 1 .. n + 1
      /\ calls'[n + 1] = c /\ \A i \in 1 .. n : calls'[i] = calls[i]
  BY DEF CallsTyped
<1>2. c.op = op /\ c.arg = arg
  OBVIOUS
<1> HIDE DEF c, n
<1>3. ASSUME NEW ops
      PROVE  LastSaid(ops)' = IF op \in ops THEN n + 1 ELSE LastSaid(ops)
  <2> DEFINE I == {i \in 1 .. n : calls[i].op \in ops}
             J == {i \in 1 .. n + 1 : calls'[i].op \in ops}
  <2>1. /\ LastSaid(ops) = IF I # {} THEN Max(I) ELSE 0
        /\ LastSaid(ops)' = IF J # {} THEN Max(J) ELSE 0
    BY <1>1 DEF LastSaid, SelectLastInSeq, n
  <2>2. CASE op \in ops
    <3>1. n + 1 \in J /\ \A j \in J : n + 1 >= j /\ j \in Nat
      BY <1>1, <1>2, <2>2
    <3>2. Max(J) = n + 1
      <4> HIDE DEF J
      <4>1. Max(J) \in J /\ \A j \in J : Max(J) >= j
        BY <3>1 DEF Max
      <4>2. Max(J) >= n + 1 /\ n + 1 >= Max(J) /\ Max(J) \in Nat
        BY <3>1, <4>1
      <4> QED BY <1>1, <4>2
    <3> QED BY <2>1, <2>2, <3>1, <3>2
  <2>3. CASE op \notin ops
    <3>1. I = J
      BY <1>1, <1>2, <2>3
    <3> QED BY <2>1, <2>3, <3>1
  <2> QED BY <2>2, <2>3
<1>4. ASSUME NEW o, NEW before
      PROVE  Said(o, before)' = IF op = o THEN arg ELSE Said(o, before)
  <2>1. LastSaid({o})' = IF op = o THEN n + 1 ELSE LastSaid({o})
    BY <1>3
  <2>2. LastSaid({o}) = 0 \/ LastSaid({o}) \in 1 .. n
    BY <1>1, LastSaidIs
  <2>3. CASE op = o
    BY <1>1, <1>2, <2>1, <2>3 DEF Said
  <2>4. CASE op # o
    BY <1>1, <2>1, <2>2, <2>4 DEF Said
  <2> QED BY <2>3, <2>4
<1>5. FirstAdopted' = IF FirstAdopted = 0 /\ op = "with_source_status" THEN n + 1 ELSE FirstAdopted
  <2> DEFINE I == {i \in 1 .. n : calls[i].op = "with_source_status"}
             J == {i \in 1 .. n + 1 : calls'[i].op = "with_source_status"}
  <2>1. /\ FirstAdopted = IF I # {} THEN Min(I) ELSE 0
        /\ FirstAdopted' = IF J # {} THEN Min(J) ELSE 0
    BY <1>1 DEF FirstAdopted, SelectInSeq, n
  <2>2. I # {} => Min(I) \in I /\ \A y \in I : Min(I) <= y
    <3> SUFFICES ASSUME I # {} PROVE Min(I) \in I /\ \A y \in I : Min(I) <= y
      OBVIOUS
    <3>1. I \subseteq Nat
      BY <1>1
    <3>2. \E x \in I : \A y \in I : x <= y
      BY <3>1, Least
    <3> QED BY <3>2 DEF Min
  <2>3. CASE op # "with_source_status"
    <3>1. I = J
      BY <1>1, <1>2, <2>3
    <3> QED BY <2>1, <2>3, <3>1
  <2>4. CASE op = "with_source_status"
    <3>1. J = I \cup {n + 1}
      BY <1>1, <1>2, <2>4
    <3>2. CASE I = {}
      <4>1. Min({n + 1}) = n + 1
        BY <1>1 DEF Min
      <4> QED BY <2>1, <2>4, <3>1, <3>2, <4>1
    <3>3. CASE I # {}
      <4>1. Min(I) \in J /\ \A j \in J : Min(I) <= j /\ j \in Nat
        BY <1>1, <2>2, <3>1, <3>3
      <4>2. Min(I) # 0 /\ Min(I) \in Nat
        BY <1>1, <2>2, <3>3
      <4> HIDE DEF I, J
      <4>3. Min(J) \in J /\ \A j \in J : Min(J) <= j
        BY <4>1 DEF Min
      <4>4. Min(J) = Min(I)
        BY <4>1, <4>2, <4>3
      <4> QED BY <2>1, <3>1, <3>3, <4>2, <4>4 DEF I
    <3> QED BY <3>2, <3>3
  <2> QED BY <2>3, <2>4
<1>6. Creation' = Creation
  BY <1>1 DEF Creation
<1>7. \A i \in DOMAIN calls : calls'[i] = calls[i] /\ i # n + 1
  BY <1>1
<1> QED BY <1>1, <1>3, <1>4, <1>5, <1>6, <1>7 DEF n, c

-----------------------------------------------------------------------------
(* An error is what was said of it. *)

Locate(locator, f) == IF locator = None THEN None ELSE locator[f]

SaidInv ==
  /\ err.code = Said("map_code", Creation.code)
  /\ err.message = Said("with_message", Creation.message)
  /\ err.type = Said("with_type", None)
  /\ err.instance = Said("with_instance", None)
  /\ Said("with_meta", None) \in Metas /\ err.meta = AsMeta(Said("with_meta", None))
  /\ \A f \in LocatorFields : Locate(err.locator, f) = SaidOfLocator(f)
  /\ err.status = SaidStatus
  /\ FirstAdopted # 0 => calls[FirstAdopted].arg \in Statuses
  /\ err.verbose <=> LastSaid({"with_verbose"}) # 0

\* What a call says of an error, and all it says.
Says(op, arg, e) ==
  /\ e.code = IF op = "map_code" THEN arg ELSE err.code
  /\ e.message = IF op = "with_message" THEN arg ELSE err.message
  /\ e.type = IF op = "with_type" THEN arg ELSE err.type
  /\ e.instance = IF op = "with_instance" THEN arg ELSE err.instance
  /\ e.meta = IF op = "with_meta" THEN AsMeta(arg) ELSE err.meta
  /\ op = "with_meta" => arg \in Metas
  /\ \A f \in LocatorFields :
       Locate(e.locator, f) = IF op = f THEN arg
                              ELSE IF op = "with_error_source" THEN arg[f]
                              ELSE Locate(err.locator, f)
  /\ e.status = IF op = "with_status" \/ (op = "with_source_status" /\ err.status = None) THEN arg
                ELSE err.status
  /\ op \in {"with_status", "with_source_status"} => arg \in Statuses
  /\ e.verbose <=> err.verbose \/ op = "with_verbose"
  /\ e.source = IF op = "with_source" THEN arg.texts \o err.source ELSE err.source
  /\ e.origins = IF op = "with_source" THEN arg.places \o err.origins ELSE err.origins
  /\ op = "with_source" => arg \in Reports

LEMMA CallSays ==
  ASSUME IInv, SaidInv, NEW op, NEW arg, NEW e, Call(op, arg, e), Says(op, arg, e)
  PROVE  SaidInv'
<1> DEFINE n == Len(calls)
<1>0. CallsTyped /\ calls # <<>> /\ n \in Nat /\ DOMAIN calls = 1 .. n
  BY DEF IInv, TypeOK, CallsTyped
<1>1. err' = e /\ calls' = Append(calls, [op |-> op, arg |-> arg])
  BY DEF Call
<1>2. /\ Creation' = Creation /\ calls'[n + 1] = [op |-> op, arg |-> arg]
      /\ \A i \in DOMAIN calls : calls'[i] = calls[i] /\ i # n + 1
      /\ \A ops : LastSaid(ops)' = IF op \in ops THEN n + 1 ELSE LastSaid(ops)
      /\ \A o, before : Said(o, before)' = IF op = o THEN arg ELSE Said(o, before)
      /\ FirstAdopted' = IF FirstAdopted = 0 /\ op = "with_source_status" THEN n + 1 ELSE FirstAdopted
  BY <1>0, <1>1, SaidNext
<1>3. /\ [op |-> op, arg |-> arg].op = op /\ [op |-> op, arg |-> arg].arg = arg
  OBVIOUS
<1>4. ASSUME NEW o
      PROVE  /\ LastSaid({o}) = 0 \/ LastSaid({o}) \in DOMAIN calls
             /\ LastSaid({o})' = IF op = o THEN n + 1 ELSE LastSaid({o})
  <2>1. LastSaid({o})' = IF op \in {o} THEN n + 1 ELSE LastSaid({o})
    BY <1>2
  <2> QED BY <1>0, <2>1, LastSaidIs
<1> HIDE DEF n
<1>5. Said("map_code", Creation.code)' = IF op = "map_code" THEN arg ELSE Said("map_code", Creation.code)
  <2>1. /\ LastSaid({"map_code"}) = 0 \/ LastSaid({"map_code"}) \in DOMAIN calls
        /\ LastSaid({"map_code"})' = IF op = "map_code" THEN n + 1 ELSE LastSaid({"map_code"})
    BY <1>4
  <2> QED BY <1>0, <1>2, <1>3, <2>1 DEF Said
<1>6. Said("with_message", Creation.message)' = IF op = "with_message" THEN arg ELSE Said("with_message", Creation.message)
  <2>1. /\ LastSaid({"with_message"}) = 0 \/ LastSaid({"with_message"}) \in DOMAIN calls
        /\ LastSaid({"with_message"})' = IF op = "with_message" THEN n + 1 ELSE LastSaid({"with_message"})
    BY <1>4
  <2> QED BY <1>0, <1>2, <1>3, <2>1 DEF Said
<1>7. Said("with_status", Creation.status)' = IF op = "with_status" THEN arg ELSE Said("with_status", Creation.status)
  <2>1. /\ LastSaid({"with_status"}) = 0 \/ LastSaid({"with_status"}) \in DOMAIN calls
        /\ LastSaid({"with_status"})' = IF op = "with_status" THEN n + 1 ELSE LastSaid({"with_status"})
    BY <1>4
  <2> QED BY <1>0, <1>2, <1>3, <2>1 DEF Said
<1>8. /\ Said("with_type", None)' = IF op = "with_type" THEN arg ELSE Said("with_type", None)
      /\ Said("with_instance", None)' = IF op = "with_instance" THEN arg ELSE Said("with_instance", None)
      /\ Said("with_meta", None)' = IF op = "with_meta" THEN arg ELSE Said("with_meta", None)
  BY <1>2
<1>9. /\ err'.code = Said("map_code", Creation.code)'
      /\ err'.message = Said("with_message", Creation.message)'
      /\ err'.type = Said("with_type", None)'
      /\ err'.instance = Said("with_instance", None)'
  BY <1>1, <1>5, <1>6, <1>8 DEF Says, SaidInv
<1>10. Said("with_meta", None)' \in Metas /\ err'.meta = AsMeta(Said("with_meta", None)')
  BY <1>1, <1>8 DEF Says, SaidInv
<1>11. ASSUME NEW f \in LocatorFields
       PROVE  Locate(err'.locator, f) = SaidOfLocator(f)'
  <2> DEFINE ops == {f, "with_error_source"}
  <2>1. LastSaid(ops)' = IF op \in ops THEN n + 1 ELSE LastSaid(ops)
    BY <1>2
  <2>2. \/ LastSaid(ops) = 0
        \/ LastSaid(ops) \in DOMAIN calls /\ calls[LastSaid(ops)].op \in ops
    BY <1>0, LastSaidIs
  <2>3. Locate(err.locator, f) = SaidOfLocator(f)
    BY DEF SaidInv
  <2>4. Locate(err'.locator, f) = IF op = f THEN arg
                                  ELSE IF op = "with_error_source" THEN arg[f]
                                  ELSE Locate(err.locator, f)
    BY <1>1 DEF Says
  <2>5. f # "with_error_source"
    BY DEF LocatorFields
  <2>6. CASE op \in ops
    <3>1. SaidOfLocator(f)' = IF op = f THEN arg ELSE arg[f]
      BY <1>0, <1>2, <1>3, <2>1, <2>6 DEF SaidOfLocator
    <3> QED BY <2>4, <2>5, <2>6, <3>1
  <2>7. CASE op \notin ops
    <3>1. SaidOfLocator(f)' = SaidOfLocator(f)
      BY <1>0, <1>2, <2>1, <2>2, <2>7 DEF SaidOfLocator
    <3> QED BY <2>3, <2>4, <2>7, <3>1
  <2> QED BY <2>6, <2>7
<1>12. FirstAdopted = 0 \/ FirstAdopted \in DOMAIN calls
  BY <1>0, FirstAdoptedIs
<1>13. FirstAdopted' # 0 => calls'[FirstAdopted'].arg \in Statuses
  BY <1>2, <1>3, <1>12 DEF Says, SaidInv
<1>14. /\ SaidStatus = IF Said("with_status", Creation.status) # None THEN Said("with_status", Creation.status)
                       ELSE IF FirstAdopted = 0 THEN None ELSE calls[FirstAdopted].arg
       /\ SaidStatus' = IF Said("with_status", Creation.status)' # None
                        THEN Said("with_status", Creation.status)'
                        ELSE IF FirstAdopted' = 0 THEN None ELSE calls'[FirstAdopted'].arg
  BY DEF SaidStatus, FirstAdopted
<1>15. err'.status = SaidStatus'
  <2>1. err.status = SaidStatus
    BY DEF SaidInv
  <2>2. err'.status = IF op = "with_status" \/ (op = "with_source_status" /\ err.status = None) THEN arg
                      ELSE err.status
    BY <1>1 DEF Says
  <2>3. op \in {"with_status", "with_source_status"} => arg # None
    BY NoneIsNothing DEF Says
  <2>4. FirstAdopted # 0 => calls[FirstAdopted].arg # None
    BY NoneIsNothing DEF SaidInv
  <2>5. n + 1 # 0
    BY <1>0 DEF n
  <2> QED BY <1>2, <1>3, <1>7, <1>12, <1>14, <2>1, <2>2, <2>3, <2>4, <2>5
<1>16. err'.verbose <=> LastSaid({"with_verbose"})' # 0
  <2>1. n + 1 # 0
    BY <1>0 DEF n
  <2>2. LastSaid({"with_verbose"})' = IF op = "with_verbose" THEN n + 1 ELSE LastSaid({"with_verbose"})
    BY <1>4
  <2> QED BY <1>1, <2>1, <2>2 DEF Says, SaidInv
<1>17. \A f \in LocatorFields : Locate(err.locator, f)' = SaidOfLocator(f)'
  BY <1>11 DEF Locate
<1>18. err'.meta = AsMeta(Said("with_meta", None))'
  BY <1>10
<1> QED BY <1>9, <1>10, <1>13, <1>15, <1>16, <1>17, <1>18 DEF SaidInv

\* Of an error just created only its code, message and status are said.
Fresh(e) ==
  /\ e.type = None /\ e.instance = None /\ e.meta = None /\ e.locator = None
  /\ ~e.verbose

LEMMA CreatedFresh ==
  ASSUME NEW at \in Locations, NEW e \in Created(at), NEW r
  PROVE  Fresh(e) /\ Fresh(WithSource(e, r))
<1>1. PICK c \in Codes :
        e \in {NewError(c, at), FromCode(c, at)} \cup {ErrorAndMessage(c, t, at) : t \in Texts}
  BY DEF Created
<1>2. /\ Fresh(NewError(c, at)) /\ Fresh(FromCode(c, at))
      /\ \A t \in Texts : Fresh(ErrorAndMessage(c, t, at))
  BY DEF Fresh, NewError, FromCode, ErrorAndMessage
<1>3. Fresh(e)
  BY <1>1, <1>2
<1>4. e \in Errors
  BY CreatedAtCaller
<1> QED BY <1>3, <1>4 DEF WithSource, Fresh, Errors

LEMMA StartSays ==
  ASSUME calls = Start(err), Fresh(err) PROVE SaidInv
<1>1. calls = <<[op |-> "error", arg |-> err]>>
  BY DEF Start
<1>2. Len(calls) = 1 /\ calls[1].op = "error" /\ Creation = err
  BY <1>1 DEF Creation
<1>3. ASSUME NEW ops, "error" \notin ops PROVE LastSaid(ops) = 0
  <2>1. {i \in 1 .. Len(calls) : calls[i].op \in ops} = {}
    BY <1>2, <1>3
  <2> QED BY <2>1 DEF LastSaid, SelectLastInSeq
<1>4. FirstAdopted = 0
  <2>1. {i \in 1 .. Len(calls) : calls[i].op = "with_source_status"} = {}
    BY <1>2
  <2> QED BY <2>1 DEF FirstAdopted, SelectInSeq
<1>5. \A o, before : o # "error" => Said(o, before) = before
  BY <1>3 DEF Said
<1>6. \A f \in LocatorFields : SaidOfLocator(f) = None
  BY <1>3 DEF SaidOfLocator, LocatorFields
<1>7. SaidStatus = IF Creation.status # None THEN Creation.status ELSE None
  BY <1>4, <1>5 DEF SaidStatus, FirstAdopted
<1>8. AsMeta(None) = None /\ None \in Metas
  BY DEF AsMeta, Metas
<1>9. LastSaid({"with_verbose"}) = 0
  BY <1>3
<1> QED BY <1>2, <1>4, <1>5, <1>6, <1>7, <1>8, <1>9 DEF SaidInv, Fresh, Locate

LEMMA InitSays == Init => SaidInv
<1> SUFFICES ASSUME Init PROVE SaidInv
  OBVIOUS
<1>1. PICK at \in Locations :
        \E e \in Created(at) : err \in {e} \cup {WithSource(e, r) : r \in Reports} /\ calls = Start(err)
  BY DEF Init
<1>2. Fresh(err)
  BY <1>1, CreatedFresh
<1> QED BY <1>1, <1>2, StartSays

LEMMA WrapSays ==
  ASSUME Wrap PROVE SaidInv'
<1>1. PICK at \in Locations : \E e \in Created(at), r \in AsReports(err, at) : err' = WithSource(e, r)
  BY DEF Wrap
<1>2. Fresh(err')
  BY <1>1, CreatedFresh
<1>3. calls' = Start(err')
  BY DEF Wrap
<1>4. (calls = Start(err) /\ Fresh(err) => SaidInv)'
  BY StartSays, PTL
<1> QED BY <1>2, <1>3, <1>4 DEF Start, Fresh

\* Every operation but the ones that create an error says what it is for.
LEMMA NextSays ==
  ASSUME IInv, (\E at \in Locations : Pass(at)) \/ (\E c \in Codes : MapCode(c)) \/ Enrich
  PROVE  \E op, arg, e : Call(op, arg, e) /\ Says(op, arg, e)
<1>0. err \in Errors
  BY DEF IInv, TypeOK
<1> DEFINE Spoken == \E op, arg, e : Call(op, arg, e) /\ Says(op, arg, e)
<1>1. ASSUME NEW at \in Locations, Pass(at) PROVE Spoken
  <2>1. Says("track", at, Tracked(err, at)) /\ Says("track_hop", at, Tracked(err, at))
        /\ Says("track_hop", at, err)
    BY <1>0 DEF Says, Tracked, Errors, LocatorFields
  <2> QED BY <1>1, <2>1 DEF Pass, Track, TrackHop
<1>2. ASSUME NEW c \in Codes, MapCode(c) PROVE Spoken
  <2>1. Says("map_code", c, [err EXCEPT !.code = c])
    BY <1>0 DEF Says, Errors, LocatorFields
  <2> QED BY <1>2, <2>1 DEF MapCode
<1>3. ASSUME NEW t \in Texts, WithMessage(t) \/ WithType(t) \/ WithInstance(t) PROVE Spoken
  <2>1. /\ Says("with_message", t, [err EXCEPT !.message = t])
        /\ Says("with_type", t, [err EXCEPT !.type = t])
        /\ Says("with_instance", t, [err EXCEPT !.instance = t])
    BY <1>0 DEF Says, Errors, LocatorFields
  <2> QED BY <1>3, <2>1 DEF WithMessage, WithType, WithInstance
<1>4. ASSUME NEW t \in Texts, WithPointer(t) \/ WithParameter(t) \/ WithHeader(t) PROVE Spoken
  <2>1. ASSUME NEW f \in LocatorFields PROVE Says(f, t, Located(err, f, t))
    <3> DEFINE l == IF err.locator = None THEN NoLocator ELSE err.locator
    <3>1. l \in [LocatorFields -> OrNone(Texts)]
      BY <1>0 DEF NoLocator, OrNone, Errors
    <3>2. [l EXCEPT ![f] = t] \in [LocatorFields -> OrNone(Texts)]
      BY <3>1 DEF OrNone
    <3>3. [l EXCEPT ![f] = t] # None
      BY <3>2, NoneIsNoValue
    <3>4. \A g \in LocatorFields : [l EXCEPT ![f] = t][g] = IF f = g THEN t ELSE Locate(err.locator, g)
      BY <3>1 DEF Locate, NoLocator
    <3>5. Located(err, f, t) = [err EXCEPT !.locator = [l EXCEPT ![f] = t]]
      BY DEF Located
    <3> HIDE DEF l
    <3>6. Located(err, f, t).locator = [l EXCEPT ![f] = t]
      BY <1>0, <3>5 DEF Errors
    <3>7. \A g \in LocatorFields : Locate(Located(err, f, t).locator, g) =
                                     IF f = g THEN t ELSE Locate(err.locator, g)
      BY <3>3, <3>4, <3>6 DEF Locate
    <3>8. f \in {"pointer", "parameter", "header"}
      BY DEF LocatorFields
    <3> QED BY <1>0, <3>5, <3>7, <3>8 DEF Says, Errors
  <2>2. /\ Says("pointer", t, Located(err, "pointer", t))
        /\ Says("parameter", t, Located(err, "parameter", t))
        /\ Says("header", t, Located(err, "header", t))
    BY <2>1 DEF LocatorFields
  <2> QED BY <1>4, <2>2 DEF WithPointer, WithParameter, WithHeader
<1>5. ASSUME NEW m \in Metas, WithMeta(m) PROVE Spoken
  <2>1. Says("with_meta", m, [err EXCEPT !.meta = AsMeta(m)])
    BY <1>0 DEF Says, Errors, LocatorFields
  <2> QED BY <1>5, <2>1 DEF WithMeta
<1>6. ASSUME NEW l \in Locators, WithErrorSource(l) PROVE Spoken
  <2>1. l \in [LocatorFields -> OrNone(Texts)]
    BY DEF Locators, NoLocator, OrNone
  <2>2. l # None
    BY <2>1, NoneIsNoValue
  <2>3. Says("with_error_source", l, [err EXCEPT !.locator = l])
    BY <1>0, <2>2 DEF Says, Errors, LocatorFields, Locate
  <2> QED BY <1>6, <2>3 DEF WithErrorSource
<1>7. ASSUME NEW s \in Statuses, WithStatus(s) \/ WithSourceStatus(s) PROVE Spoken
  <2>1. Says("with_status", s, [err EXCEPT !.status = s])
    BY <1>0 DEF Says, Errors, LocatorFields
  <2>2. Says("with_source_status", s, IF err.status = None THEN [err EXCEPT !.status = s] ELSE err)
    BY <1>0 DEF Says, Errors, LocatorFields
  <2> QED BY <1>7, <2>1, <2>2 DEF WithStatus, WithSourceStatus
<1>8. ASSUME NEW r \in Reports, WithError(r) PROVE Spoken
  <2>1. Says("with_source", r, WithSource(err, r))
    BY <1>0 DEF Says, WithSource, Errors, LocatorFields
  <2> QED BY <1>8, <2>1 DEF WithError
<1>9. ASSUME WithVerbose PROVE Spoken
  <2>1. Says("with_verbose", None, [err EXCEPT !.verbose = TRUE])
    BY <1>0 DEF Says, Errors, LocatorFields
  <2> QED BY <1>9, <2>1 DEF WithVerbose
<1>10. Spoken
  <2> HIDE DEF Spoken
  <2> QED BY <1>1, <1>2, <1>3, <1>4, <1>5, <1>6, <1>7, <1>8, <1>9 DEF Enrich
<1> QED BY <1>10

LEMMA SaidStep == IInv /\ SaidInv /\ [Next]_vars => SaidInv'
<1> SUFFICES ASSUME IInv, SaidInv, [Next]_vars PROVE SaidInv'
  OBVIOUS
<1>1. CASE UNCHANGED vars
  <2>1. err' = err /\ calls' = calls
    BY <1>1 DEF vars
  <2>2. \A ops : LastSaid(ops)' = LastSaid(ops)
    BY <2>1 DEF LastSaid, SelectLastInSeq
  <2>3. FirstAdopted' = FirstAdopted
    BY <2>1 DEF FirstAdopted, SelectInSeq
  <2>4. Creation' = Creation
    BY <2>1 DEF Creation
  <2>5. /\ Said("map_code", Creation.code)' = Said("map_code", Creation.code)
        /\ Said("with_message", Creation.message)' = Said("with_message", Creation.message)
        /\ Said("with_status", Creation.status)' = Said("with_status", Creation.status)
        /\ \A o : Said(o, None)' = Said(o, None)
    BY <2>1, <2>2, <2>4 DEF Said
  <2>6. \A f \in LocatorFields : SaidOfLocator(f)' = SaidOfLocator(f)
    BY <2>1, <2>2 DEF SaidOfLocator
  <2>7. SaidStatus' = SaidStatus
    BY <2>1, <2>3, <2>5 DEF SaidStatus, FirstAdopted
  <2> QED BY <2>1, <2>2, <2>3, <2>5, <2>6, <2>7 DEF SaidInv
<1> QED BY <1>1, WrapSays, NextSays, CallSays DEF Next

(* The strengthening of the three properties below.                        *)
THEOREM ErrorsAreWhatWasSaid == Spec => [](IInv /\ SaidInv)
BY InitEstablishes, StepPreserves, InitSays, SaidStep, PTL DEF Spec

\* What a client finds in the JSON of a message.
LEMMA ReadBack ==
  ASSUME NEW m, Sendable(m)
  PROVE  /\ DOMAIN ToValue(m) = Given(m)
         /\ \A f \in {"code", "type", "instance", "meta"} : Read(ToValue(m), f) = m[f]
         /\ m.message # <<>> => ToValue(m)["message"] = m.message
         /\ \A f \in LocatorFields : ReadLocator(ToValue(m), f) = Locate(m.source, f)
<1>0. m \in Messages
  BY DEF Sendable
<1>1. ToValue(m) = [f \in Given(m) |-> IF f = "source" THEN Json(m[f]) ELSE m[f]]
  BY RoundTrip DEF Serialize, Fill
<1>2. /\ DOMAIN ToValue(m) = Given(m)
      /\ \A f \in Given(m) \ {"source"} : ToValue(m)[f] = m[f]
      /\ "source" \in Given(m) => ToValue(m)["source"] = Json(m.source)
  BY <1>1
<1>3. ASSUME NEW f \in {"code", "type", "instance", "meta"} PROVE Read(ToValue(m), f) = m[f]
  BY <1>2 DEF Read, Given, Fields
<1>4. m.message # <<>> => ToValue(m)["message"] = m.message
  <2>1. m.message \in Seq(Texts \cup Codes)
    BY <1>0 DEF Messages
  <2>2. m.message # <<>> => "message" \in Given(m)
    BY <2>1, NoneIsNoValue DEF Given, Fields
  <2> QED BY <1>2, <2>2
<1>5. ASSUME NEW f \in LocatorFields PROVE ReadLocator(ToValue(m), f) = Locate(m.source, f)
  <2>1. "source" \in Given(m) <=> m.source # None
    BY DEF Given, Fields
  <2>2. m.source # None => Read(Json(m.source), f) = m.source[f]
    BY DEF Read, Json
  <2> QED BY <1>2, <2>1, <2>2 DEF ReadLocator, Locate
<1> QED BY <1>2, <1>3, <1>4, <1>5

(* The client of an error reads what was said of it last, in every field,  *)
(* and the status that goes with it is the one that was decided.           *)
THEOREM ClientsReadWhatWasSaid == Spec => []ClientReadsWhatWasSaid
<1>1. IInv /\ SaidInv => ClientReadsWhatWasSaid
  <2> DEFINE m == ToErrorMessage(err)
             j == ToValue(m)
             meta == Said("with_meta", None)
  <2> SUFFICES ASSUME err \in Errors, SaidInv PROVE ClientReadsWhatWasSaid
    BY DEF IInv, TypeOK
  <2>1. Sendable(m)
    BY MessageSendable
  <2>2. /\ m.code = err.code /\ m.type = err.type /\ m.instance = err.instance /\ m.meta = err.meta
        /\ m.message = FormatMessage(err) /\ m.source = Filled(err.locator)
    BY DEF ToErrorMessage
  <2> HIDE DEF m
  <2>3. /\ Read(j, "code") = err.code /\ Read(j, "type") = err.type
        /\ Read(j, "instance") = err.instance /\ Read(j, "meta") = err.meta
    BY <2>1, <2>2, ReadBack
  <2>4. SaidMessage # <<>> => Head(j.message) = Head(SaidMessage)
    <3>1. SaidMessage = RawMessage(err)
      BY DEF SaidMessage, SaidInv, RawMessage
    <3>2. CASE err.message = None
      BY <3>1, <3>2 DEF RawMessage
    <3>3. CASE err.message # None
      <4>1. RawMessage(err) = <<err.message>>
        BY <3>3 DEF RawMessage
      <4>2. SourceText(err) = <<>> \/ SourceText(err) = <<Head(err.source)>>
        BY DEF SourceText
      <4>3. FormatMessage(err) # <<>> /\ Head(FormatMessage(err)) = err.message
        BY <4>1, <4>2 DEF FormatMessage, FormatMessageVerbose
      <4> QED BY <2>1, <2>2, <3>1, <4>1, <4>3, ReadBack
    <3> QED BY <3>2, <3>3
  <2>5. IF meta = None THEN "meta" \notin DOMAIN j ELSE j.meta.value = meta.value
    <3>0. meta \in Metas /\ err.meta = AsMeta(meta)
      BY DEF SaidInv
    <3> HIDE DEF meta, j
    <3>1. DOMAIN j = Given(m)
      BY <2>1, ReadBack DEF j
    <3>2. CASE meta = None
      <4>1. err.meta = None
        BY <3>0, <3>2 DEF AsMeta
      <4> QED BY <2>2, <3>1, <3>2, <4>1 DEF Given
    <3>3. CASE meta # None
      <4>1. PICK key \in {"user", "value"} : err.meta = Object(key, meta.value) /\ meta.value \in Texts
        BY <3>0, <3>3 DEF AsMeta, Metas
      <4>2. err.meta # None /\ err.meta.value = meta.value
        BY <4>1, NoneIsNoValue DEF Object
      <4>3. "meta" \in DOMAIN j
        BY <2>2, <3>1, <4>2 DEF Given, Fields
      <4> QED BY <2>3, <3>3, <4>2, <4>3 DEF Read
    <3> QED BY <3>2, <3>3
  <2>6. ASSUME NEW f \in LocatorFields PROVE ReadLocator(j, f) = SaidOfLocator(f)
    <3>1. ReadLocator(j, f) = Locate(Filled(err.locator), f)
      BY <2>1, <2>2, ReadBack
    <3>2. Locate(Filled(err.locator), f) = Locate(err.locator, f)
      BY DEF Locate, Filled, IsEmpty
    <3> QED BY <3>1, <3>2 DEF SaidInv
  <2>7. /\ err.code = Said("map_code", Creation.code) /\ err.type = Said("with_type", None)
        /\ err.instance = Said("with_instance", None) /\ err.status = SaidStatus
    BY DEF SaidInv
  <2> QED BY <2>3, <2>4, <2>5, <2>6, <2>7 DEF ClientReadsWhatWasSaid, m
<1> QED BY <1>1, ErrorsAreWhatWasSaid, PTL

(* No cause gets into a message that was not asked for, by a flag of the   *)
(* error or of the conversion.                                             *)
THEOREM CausesStayPrivate == Spec => []CausesOnlyIfVerbose
<1>1. IInv /\ SaidInv => CausesOnlyIfVerbose
  <2> SUFFICES ASSUME err \in Errors, SaidInv PROVE CausesOnlyIfVerbose
    BY DEF IInv, TypeOK
  <2>1. SaidMessage = RawMessage(err)
    BY DEF SaidMessage, SaidInv, RawMessage
  <2>2. ToErrorMessageWith(err, FALSE).message = RawMessage(err)
    BY DEF ToErrorMessageWith
  <2>3. LastSaid({"with_verbose"}) = 0 => ~err.verbose
    BY DEF SaidInv
  <2>4. ~err.verbose => /\ ToErrorMessage(err).message = RawMessage(err)
                        /\ IntoErrorMessage(err).message = RawMessage(err)
    BY DEF ToErrorMessage, IntoErrorMessage, FormatMessage
  <2> QED BY <2>1, <2>2, <2>3, <2>4 DEF CausesOnlyIfVerbose
<1> QED BY <1>1, ErrorsAreWhatWasSaid, PTL

(* No logger shows another code or another message than the client gets,   *)
(* and an error of the service's code or of the default is logged by       *)
(* treat-actix as by treat-axum-logging.                                   *)
THEOREM LoggedAsAnswered == Spec => []LogsMatchTheAnswer
<1>1. IInv /\ SaidInv => LogsMatchTheAnswer
  <2> SUFFICES ASSUME IInv, SaidInv PROVE LogsMatchTheAnswer
    OBVIOUS
  <2>1. err \in Errors /\ err.code = Said("map_code", Creation.code)
    BY DEF IInv, TypeOK, SaidInv
  <2>2. ASSUME NEW line \in LogLines(err)
        PROVE  line.code = err.code /\ line.message \in {FormatMessage(err), FormatMessageVerbose(err)}
    <3>1. \A level, message, source : /\ Structured(level, err, message, source).code = err.code
                                      /\ Structured(level, err, message, source).message = message
      BY DEF Structured
    <3>2. \A level : /\ Unstructured(level, err).code = err.code
                     /\ Unstructured(level, err).message = FormatMessage(err)
      BY DEF Unstructured, Debug
    <3>3. CASE line \in {AxumErrorLog(err), AxumInfoLog(err), AxumDebugLog(err)}
      BY <3>1, <3>3 DEF AxumErrorLog, AxumInfoLog, AxumDebugLog
    <3>4. CASE line \in ActixLines(err)
      <4>1. PICK c \in LoggedCodes, level \in {"ERROR", "DEBUG"} : line = ActixLog(err, c, level)
        BY <3>4 DEF ActixLines
      <4> QED BY <3>1, <3>2, <4>1 DEF ActixLog
    <3> QED BY <3>3, <3>4 DEF LogLines
  <2>3. \A m \in {FormatMessage(err), FormatMessageVerbose(err)} : IsPrefix(FormatMessage(err), m)
    <3>1. \A u, v \in Seq(Texts \cup Codes) : IsPrefix(u, u) /\ IsPrefix(u, u \o v)
      <4> SUFFICES ASSUME NEW u \in Seq(Texts \cup Codes), NEW v \in Seq(Texts \cup Codes)
                   PROVE  IsPrefix(u, u) /\ IsPrefix(u, u \o v)
        OBVIOUS
      <4> QED BY DEF IsPrefix
    <3>2. RawMessage(err) \in Seq(Texts \cup Codes)
      <4>1. err.message \in Texts \cup {None}
        BY <2>1 DEF Errors, OrNone
      <4>2. <<>> \in Seq(Texts \cup Codes)
        OBVIOUS
      <4>3. \A t \in Texts : <<t>> \in Seq(Texts \cup Codes)
        OBVIOUS
      <4> QED BY <4>1, <4>2, <4>3 DEF RawMessage
    <3>3. SourceText(err) \in Seq(Texts \cup Codes)
      <4>1. err.source \in Seq(Texts \cup Codes \cup {Blank})
        BY <2>1 DEF Errors
      <4>2. err.source # <<>> => Head(err.source) \in Texts \cup Codes \cup {Blank}
        BY <4>1
      <4>3. <<>> \in Seq(Texts \cup Codes) /\ \A t \in Texts \cup Codes : <<t>> \in Seq(Texts \cup Codes)
        OBVIOUS
      <4> QED BY <4>2, <4>3 DEF SourceText
    <3>4. FormatMessageVerbose(err) = RawMessage(err) \o SourceText(err)
      BY DEF FormatMessageVerbose
    <3>5. FormatMessageVerbose(err) \in Seq(Texts \cup Codes)
      BY <3>2, <3>3, <3>4
    <3>6. FormatMessage(err) \in {RawMessage(err), FormatMessageVerbose(err)}
      BY DEF FormatMessage
    <3> QED BY <3>1, <3>2, <3>3, <3>4, <3>5, <3>6 DEF FormatMessage
  <2>4. ASSUME NEW c \in LoggedCodes, Said("map_code", Creation.code) \in {c, DefaultCode},
               NEW level \in {"ERROR", "DEBUG"}
        PROVE  [ActixLog(err, c, level) EXCEPT !.level = "DEBUG"] = AxumDebugLog(err)
    <3>1. ActixLog(err, c, level) = Structured(level, err, FormatMessage(err), err.source)
      BY <2>1, <2>4 DEF ActixLog, AsError
    <3>2. ASSUME NEW places, NEW message, NEW source
          PROVE  [[level |-> level, structured |-> TRUE, code |-> err.code, message |-> message,
                   causes |-> source, places |-> places] EXCEPT !.level = "DEBUG"]
                   = [level |-> "DEBUG", structured |-> TRUE, code |-> err.code, message |-> message,
                      causes |-> source, places |-> places]
      <4> DEFINE Line == [level : {level, "DEBUG"}, structured : {TRUE}, code : {err.code}, message : {message},
                          causes : {source}, places : {places}]
                 u == [level |-> level, structured |-> TRUE, code |-> err.code, message |-> message,
                       causes |-> source, places |-> places]
                 v == [level |-> "DEBUG", structured |-> TRUE, code |-> err.code, message |-> message,
                       causes |-> source, places |-> places]
      <4>1. u \in Line /\ v \in Line
        OBVIOUS
      <4> HIDE DEF u
      <4>2. [u EXCEPT !.level = "DEBUG"] \in Line /\ [u EXCEPT !.level = "DEBUG"].level = "DEBUG"
        BY <4>1
      <4>3. ASSUME NEW w \in Line, w.level = "DEBUG" PROVE w = v
        <5>1. w = [level |-> w.level, structured |-> w.structured, code |-> w.code, message |-> w.message,
                   causes |-> w.causes, places |-> w.places]
          OBVIOUS
        <5>2. w.structured = TRUE /\ w.code = err.code /\ w.message = message
              /\ w.causes = source /\ w.places = places
          OBVIOUS
        <5> QED BY <4>3, <5>1, <5>2
      <4>4. [u EXCEPT !.level = "DEBUG"] = v
        <5> HIDE DEF Line, v
        <5> QED BY <4>2, <4>3
      <4> QED BY <4>4 DEF u
    <3>3. [Structured(level, err, FormatMessage(err), err.source) EXCEPT !.level = "DEBUG"]
            = Structured("DEBUG", err, FormatMessage(err), err.source)
      BY <3>2 DEF Structured
    <3> QED BY <3>1, <3>3 DEF AxumDebugLog
  <2>5. ToErrorMessage(err).code = err.code /\ ToErrorMessage(err).message = FormatMessage(err)
    BY DEF ToErrorMessage
  <2> QED BY <2>2, <2>3, <2>4, <2>5 DEF LogsMatchTheAnswer
<1> QED BY <1>1, ErrorsAreWhatWasSaid, PTL

-----------------------------------------------------------------------------
(* What Debug lists. *)

Noted(list, x, hidden) ==
  IF x \in hidden \/ (list # <<>> /\ Last(list) = x) THEN list ELSE Append(list, x)

LEMMA MaxOfPart ==
  ASSUME NEW n \in Nat, NEW T \in SUBSET (1 .. n), T # {}
  PROVE  Max(T) \in T /\ \A y \in T : y <= Max(T)
<1>1. T \subseteq 0 .. n
  OBVIOUS
<1>2. \E x \in T : \A y \in T : y <= x
  BY <1>1, Greatest
<1>3. \E x \in T : \A y \in T : x >= y
  BY <1>2
<1>4. Max(T) \in T /\ \A y \in T : Max(T) >= y
  BY <1>3 DEF Max
<1> HIDE DEF Max
<1> QED BY <1>4

\* f[k] is the list after k elements.
Lists(f, q, hidden) ==
  /\ f[0] = <<>> /\ f[Len(q)] = Listed(q, hidden)
  /\ \A k \in 1 .. Len(q) : f[k] = Noted(f[k - 1], q[k], hidden)

\* The fold takes the elements of a set from the greatest down: a recursion
\* over sets with their greatest elements as ranks, read off the intervals.
LEMMA ListedUnfolds ==
  ASSUME NEW C, NEW q \in Seq(C), NEW H
  PROVE  \E f \in [0 .. Len(q) -> Seq(C)] : Lists(f, q, H)
<1> DEFINE n == Len(q)
           S == SUBSET (1 .. n)
           V == Seq(C)
           body(g, T) == IF T = {} THEN <<>> ELSE Noted(g[T \ {Max(T)}], q[Max(T)], H)
           G == [p \in S \X [S -> V] |-> body(p[2], p[1])]
           rank == [T \in S |-> IF T = {} THEN 0 ELSE Max(T)]
           listed == CHOOSE g : g = [T \in S |-> body(g, T)]
<1>1. n \in Nat /\ DOMAIN q = 1 .. n /\ \A i \in 1 .. n : q[i] \in C
  OBVIOUS
<1>2. <<>> \in V /\ \A v \in V, x \in C : Noted(v, x, H) \in V
  <2>1. \A v \in V, x \in C : Append(v, x) \in V
    OBVIOUS
  <2> QED BY <2>1 DEF Noted
<1> HIDE DEF n, V
<1>3. ASSUME NEW T \in S, T # {}
      PROVE  Max(T) \in T /\ Max(T) \in 1 .. n /\ \A y \in T : y <= Max(T)
  BY <1>1, <1>3, MaxOfPart
<1> HIDE DEF S
<1>4. ASSUME NEW T \in S, T # {} PROVE T \ {Max(T)} \in S
  BY DEF S
<1>5. rank \in [S -> 0 .. n]
  <2>1. \A T \in S : T # {} => Max(T) \in 0 .. n
    BY <1>1, <1>3
  <2>2. 0 \in 0 .. n
    BY <1>1
  <2> QED BY <2>1, <2>2, Zenon
<1>6. ASSUME NEW T \in S, T # {} PROVE rank[T \ {Max(T)}] < rank[T]
  <2> DEFINE U == T \ {Max(T)}
  <2>1. U \in S /\ U \subseteq T /\ Max(T) \notin U
    BY <1>4, <1>6
  <2>2. U # {} => Max(U) \in U /\ Max(U) \in 1 .. n
    BY <1>3, <2>1
  <2>3. Max(T) \in 1 .. n /\ \A y \in T : y <= Max(T)
    BY <1>3, <1>6
  <2>4. rank[T] = Max(T) /\ rank[U] = IF U = {} THEN 0 ELSE Max(U)
    BY <1>6, <2>1
  <2> HIDE DEF rank, U
  <2>5. rank[U] < rank[T]
    BY <1>1, <2>1, <2>2, <2>3, <2>4
  <2> QED BY <2>5 DEF U
<1>7. ASSUME NEW T \in S, NEW g \in [S -> V] PROVE body(g, T) \in V
  BY <1>1, <1>2, <1>3, <1>4
<1>8. G \in [S \X [S -> V] -> V]
  <2>1. \A p \in S \X [S -> V] : body(p[2], p[1]) \in V
    BY <1>7
  <2> HIDE DEF body
  <2> QED BY <2>1
<1>9. \A T \in S, g \in [S -> V] : G[<<T, g>>] = body(g, T)
  OBVIOUS
<1>10. OnlyOnLower(S, V, rank, G)
  <2> SUFFICES ASSUME NEW T \in S, NEW f \in [S -> V], NEW g \in [S -> V],
                      \A U \in S : rank[U] < rank[T] => f[U] = g[U]
               PROVE  G[<<T, f>>] = G[<<T, g>>]
    BY DEF OnlyOnLower
  <2> HIDE DEF rank
  <2>1. T # {} => f[T \ {Max(T)}] = g[T \ {Max(T)}]
    BY <1>4, <1>6
  <2>2. body(f, T) = body(g, T)
    BY <2>1
  <2> QED BY <1>9, <2>2
<1> HIDE DEF G, rank
<1>11. PICK h \in [S -> V] : Solution(S, G, h)
  BY <1>1, <1>2, <1>5, <1>8, <1>10, RankedRecursion
<1>12. h = [T \in S |-> body(h, T)]
  BY <1>9, <1>11 DEF Solution
<1>13. listed = [T \in S |-> body(listed, T)]
  BY <1>12
<1>14. Listed(q, H) = listed[1 .. n]
  BY <1>1 DEF Listed, FoldLeft, MapThenFoldSet, Noted, S
<1> HIDE DEF listed
<1>15. ASSUME NEW T \in S PROVE listed[T] = body(listed, T)
  BY <1>13
<1>16. ASSUME NEW k \in 1 .. n
       PROVE  1 .. k \in S /\ 1 .. k # {} /\ Max(1 .. k) = k /\ (1 .. k) \ {k} = 1 .. k - 1
  <2>1. 1 .. k \in S /\ 1 .. k # {} /\ k \in 1 .. k /\ (1 .. k) \ {k} = 1 .. k - 1
    BY <1>1 DEF S
  <2>2. Max(1 .. k) \in 1 .. k /\ k <= Max(1 .. k)
    BY <1>3, <2>1
  <2>3. Max(1 .. k) = k
    BY <1>1, <2>2
  <2> QED BY <2>1, <2>3
<1> DEFINE f == [k \in 0 .. n |-> listed[1 .. k]]
<1>17. f[0] = <<>>
  <2>1. {} \in S /\ 1 .. 0 = {} /\ 0 \in 0 .. n
    BY <1>1 DEF S
  <2>2. f[0] = listed[1 .. 0]
    BY <2>1, Zenon
  <2> QED BY <1>15, <2>1, <2>2
<1>18. f[n] = Listed(q, H)
  BY <1>1, <1>14
<1>19. ASSUME NEW k \in 1 .. n PROVE f[k] = Noted(f[k - 1], q[k], H)
  <2>1. k \in 0 .. n /\ k - 1 \in 0 .. n
    BY <1>1
  <2>2. f[k] = listed[1 .. k] /\ f[k - 1] = listed[1 .. k - 1]
    BY <2>1
  <2>3. listed[1 .. k] = Noted(listed[(1 .. k) \ {Max(1 .. k)}], q[Max(1 .. k)], H)
    BY <1>15, <1>16
  <2> QED BY <1>16, <2>2, <2>3
<1> DEFINE P == {k \in 0 .. n : f[k] \in V}
           down == [k \in 0 .. n |-> k]
<1>20. \A k \in 0 .. n : k \in P
  <2>1. down \in [0 .. n -> 0 .. n]
    OBVIOUS
  <2>2. ASSUME NEW k \in 0 .. n, \A j \in 0 .. n : down[j] < down[k] => j \in P PROVE k \in P
    <3>1. CASE k = 0
      BY <1>2, <1>17, <3>1
    <3>2. CASE k # 0
      <4>1. k \in 1 .. n /\ k - 1 \in 0 .. n /\ down[k - 1] < down[k]
        BY <1>1, <3>2
      <4>2. f[k - 1] \in V /\ q[k] \in C
        BY <1>1, <2>2, <4>1
      <4>3. f[k] \in V
        BY <1>2, <1>19, <4>1, <4>2
      <4> QED BY <4>3
    <3> QED BY <3>1, <3>2
  <2> HIDE DEF P, down
  <2>3. \A k \in 0 .. n : (\A j \in 0 .. n : down[j] < down[k] => j \in P) => k \in P
    BY <2>2, Zenon
  <2>4. ASSUME NEW D, D = 0 .. n PROVE \A k \in D : k \in P
    <3>1. down \in [D -> 0 .. n]
      BY <2>1, <2>4, Zenon
    <3>2. \A k \in D : (\A j \in D : down[j] < down[k] => j \in P) => k \in P
      BY <2>3, <2>4, Zenon
    <3> QED BY <1>1, <3>1, <3>2, RankInduction
  <2> QED BY <2>4
<1>21. f \in [0 .. n -> V]
  <2>1. \A k \in 0 .. n : listed[1 .. k] \in V
    BY <1>20
  <2> QED BY <2>1
<1> HIDE DEF f
<1>22. Lists(f, q, H)
  BY <1>17, <1>18, <1>19 DEF Lists, n
<1> QED BY <1>21, <1>22 DEF n, V

\* r says all that s says and is not hidden, in the same order: k elements of
\* s have become m[k] of r.
Keeps(s, r, hidden) ==
  \E m \in [0 .. Len(s) -> 0 .. Len(r)] :
    /\ m[0] = 0 /\ m[Len(s)] = Len(r)
    /\ \A k \in 1 .. Len(s) :
         \/ s[k] \in hidden /\ m[k] = m[k - 1]
         \/ s[k] \notin hidden /\ m[k] \in {m[k - 1], m[k - 1] + 1} /\ m[k] # 0 /\ r[m[k]] = s[k]

LEMMA NotedIs ==
  ASSUME NEW C, NEW v \in Seq(C), NEW x \in C, NEW H
  PROVE  /\ Len(Noted(v, x, H)) \in {Len(v), Len(v) + 1}
         /\ \A i \in 1 .. Len(v) : Noted(v, x, H)[i] = v[i]
         /\ x \in H => Noted(v, x, H) = v
         /\ x \notin H => Noted(v, x, H) # <<>> /\ Noted(v, x, H)[Len(Noted(v, x, H))] = x
                          /\ Len(Noted(v, x, H)) # 0
<1>1. /\ Append(v, x) # <<>> /\ Len(Append(v, x)) = Len(v) + 1 /\ Len(v) \in Nat
      /\ Append(v, x)[Len(v) + 1] = x /\ \A i \in 1 .. Len(v) : Append(v, x)[i] = v[i]
      /\ v # <<>> => Len(v) # 0
  OBVIOUS
<1>2. CASE x \in H \/ (v # <<>> /\ Last(v) = x)
  BY <1>1, <1>2 DEF Noted, Last
<1>3. CASE ~(x \in H \/ (v # <<>> /\ Last(v) = x))
  BY <1>1, <1>3 DEF Noted
<1> QED BY <1>2, <1>3

\* What has been listed is not changed by what is listed after it.
LEMMA ListedKeeps ==
  ASSUME NEW C, NEW s \in Seq(C), NEW H
  PROVE  Listed(s, H) \in Seq(C) /\ Keeps(s, Listed(s, H), H)
<1> DEFINE n == Len(s)
<1>1. n \in Nat /\ \A k \in 1 .. n : s[k] \in C
  OBVIOUS
<1>2. PICK f \in [0 .. n -> Seq(C)] :
        /\ f[0] = <<>> /\ f[n] = Listed(s, H)
        /\ \A k \in 1 .. n : f[k] = Noted(f[k - 1], s[k], H)
  <2>1. PICK f \in [0 .. Len(s) -> Seq(C)] : Lists(f, s, H)
    BY ListedUnfolds
  <2> QED BY <2>1 DEF Lists
<1> HIDE DEF n
<1> DEFINE m == [k \in 0 .. n |-> Len(f[k])]
<1>3. ASSUME NEW k \in 1 .. n
      PROVE  /\ k \in 0 .. n /\ k - 1 \in 0 .. n /\ f[k] \in Seq(C) /\ f[k - 1] \in Seq(C)
             /\ m[k - 1] = Len(f[k - 1]) /\ m[k] = Len(f[k]) /\ m[k] \in Nat /\ m[k - 1] \in Nat
             /\ m[k] \in {m[k - 1], m[k - 1] + 1}
             /\ \A i \in 1 .. m[k - 1] : f[k][i] = f[k - 1][i]
             /\ s[k] \in H => m[k] = m[k - 1]
             /\ s[k] \notin H => m[k] # 0 /\ f[k][m[k]] = s[k]
  <2>1. k \in 0 .. n /\ k - 1 \in 0 .. n
    BY <1>1
  <2>2. f[k] \in Seq(C) /\ f[k - 1] \in Seq(C) /\ s[k] \in C /\ f[k] = Noted(f[k - 1], s[k], H)
    BY <1>1, <1>2, <2>1
  <2>3. m[k - 1] = Len(f[k - 1]) /\ m[k] = Len(f[k]) /\ m[k] \in Nat /\ m[k - 1] \in Nat
    BY <2>1, <2>2
  <2> HIDE DEF m
  <2> QED BY <2>1, <2>2, <2>3, NotedIs
<1>4. ASSUME NEW k \in 0 .. n
      PROVE  \A j \in k .. n : m[k] <= m[j] /\ \A i \in 1 .. m[k] : f[j][i] = f[k][i]
  <2> DEFINE Bad == {j \in k .. n : ~(m[k] <= m[j] /\ \A i \in 1 .. m[k] : f[j][i] = f[k][i])}
  <2>1. SUFFICES ASSUME Bad # {} PROVE FALSE
    OBVIOUS
  <2>2. Bad \subseteq Nat
    BY <1>1
  <2>3. PICK j \in Bad : \A i \in Bad : j <= i
    BY <2>1, <2>2, Least
  <2>4. m[k] \in Nat
    BY <1>2
  <2> HIDE DEF m
  <2>5. j \in k .. n /\ j # k
    BY <1>1, <2>4
  <2>6. j - 1 \in k .. n /\ j \in 1 .. n /\ j - 1 \notin Bad
    BY <1>1, <2>2, <2>3, <2>5
  <2>7. m[k] <= m[j - 1] /\ \A i \in 1 .. m[k] : f[j - 1][i] = f[k][i]
    BY <2>6
  <2>8. /\ m[j - 1] \in Nat /\ m[j] \in {m[j - 1], m[j - 1] + 1}
        /\ \A i \in 1 .. m[j - 1] : f[j][i] = f[j - 1][i]
    BY <1>3, <2>6
  <2>9. m[k] <= m[j] /\ \A i \in 1 .. m[k] : f[j][i] = f[k][i]
    BY <2>4, <2>7, <2>8
  <2> QED BY <2>3, <2>9
<1> DEFINE r == Listed(s, H)
<1>5. r \in Seq(C) /\ r = f[n] /\ Len(r) = m[n] /\ n \in 0 .. n /\ Len(r) \in Nat
  BY <1>1, <1>2
<1>6. \A k \in 0 .. n : m[k] \in 0 .. Len(r)
  <2>1. \A k \in 0 .. n : m[k] \in Nat
    BY <1>2
  <2>2. \A k \in 0 .. n : n \in k .. n
    BY <1>1
  <2> HIDE DEF m, r
  <2> QED BY <1>4, <1>5, <2>1, <2>2
<1>7. m \in [0 .. n -> 0 .. Len(r)] /\ m[0] = 0 /\ m[n] = Len(r)
  <2>1. 0 \in 0 .. n /\ Len(f[0]) = 0
    BY <1>1, <1>2
  <2> HIDE DEF r
  <2> QED BY <1>5, <1>6, <2>1
<1>8. ASSUME NEW k \in 1 .. n
      PROVE  \/ s[k] \in H /\ m[k] = m[k - 1]
             \/ s[k] \notin H /\ m[k] \in {m[k - 1], m[k - 1] + 1} /\ m[k] # 0 /\ r[m[k]] = s[k]
  <2> HIDE DEF m, r
  <2>1. k \in 0 .. n /\ n \in k .. n /\ m[k] \in Nat
    BY <1>1, <1>3
  <2>2. \A i \in 1 .. m[k] : r[i] = f[k][i]
    BY <1>4, <1>5, <2>1
  <2>3. m[k] # 0 => r[m[k]] = f[k][m[k]]
    BY <2>1, <2>2
  <2> QED BY <1>3, <2>3
<1> HIDE DEF m, r
<1>9. Keeps(s, r, H)
  BY <1>7, <1>8 DEF Keeps, n
<1> QED BY <1>5, <1>9 DEF r

LEMMA AllKept ==
  ASSUME NEW C, NEW s \in Seq(C)
  PROVE  Keeps(s, s, {})
<1> DEFINE m == [k \in 0 .. Len(s) |-> k]
<1>1. m \in [0 .. Len(s) -> 0 .. Len(s)] /\ m[0] = 0 /\ m[Len(s)] = Len(s)
  OBVIOUS
<1>2. \A k \in 1 .. Len(s) : m[k] = k /\ m[k - 1] + 1 = k /\ k # 0
  OBVIOUS
<1> HIDE DEF m
<1>3. \A k \in 1 .. Len(s) : s[k] \notin {} /\ m[k] \in {m[k - 1], m[k - 1] + 1} /\ m[k] # 0 /\ s[m[k]] = s[k]
  BY <1>2
<1> QED BY <1>1, <1>3 DEF Keeps

LEMMA KeptElements ==
  ASSUME NEW C, NEW s \in Seq(C), NEW r \in Seq(C), NEW H, Keeps(s, r, H)
  PROVE  ToSet(s) \ H \subseteq ToSet(r)
<1>1. PICK m \in [0 .. Len(s) -> 0 .. Len(r)] :
        \A k \in 1 .. Len(s) :
          \/ s[k] \in H /\ m[k] = m[k - 1]
          \/ s[k] \notin H /\ m[k] \in {m[k - 1], m[k - 1] + 1} /\ m[k] # 0 /\ r[m[k]] = s[k]
  BY DEF Keeps
<1>2. ASSUME NEW k \in 1 .. Len(s), s[k] \notin H PROVE s[k] \in ToSet(r)
  <2>1. m[k] \in 1 .. Len(r) /\ r[m[k]] = s[k]
    BY <1>1, <1>2
  <2> QED BY <2>1 DEF ToSet
<1> QED BY <1>2 DEF ToSet

LEMMA PartOfSeq ==
  ASSUME NEW C, NEW s \in Seq(C), NEW i \in 1 .. Len(s), NEW j \in i .. Len(s)
  PROVE  /\ SubSeq(s, i, j) \in Seq(C) /\ Len(SubSeq(s, i, j)) = j + 1 - i
         /\ \A k \in 1 .. j + 1 - i : SubSeq(s, i, j)[k] = s[i + k - 1]
         /\ ToSet(SubSeq(s, i, j)) = {s[k] : k \in i .. j}
<1> DEFINE t == SubSeq(s, i, j)
<1>1. t \in Seq(C) /\ Len(t) = j + 1 - i /\ \A k \in 1 .. j + 1 - i : t[k] = s[i + k - 1]
  OBVIOUS
<1> HIDE DEF t
<1>2. ToSet(t) = {t[k] : k \in 1 .. j + 1 - i}
  BY <1>1 DEF ToSet
<1>3. ASSUME NEW k \in 1 .. j + 1 - i PROVE t[k] \in {s[v] : v \in i .. j}
  <2>1. i + k - 1 \in i .. j
    OBVIOUS
  <2> QED BY <1>1, <2>1
<1>4. ASSUME NEW v \in i .. j PROVE s[v] \in {t[k] : k \in 1 .. j + 1 - i}
  <2>1. v + 1 - i \in 1 .. j + 1 - i /\ i + (v + 1 - i) - 1 = v
    OBVIOUS
  <2> QED BY <1>1, <2>1
<1> QED BY <1>1, <1>2, <1>3, <1>4 DEF t

(* Cut where element n has gone, r keeps what s has up to n and what it    *)
(* has from n on.                                                          *)
LEMMA KeptInTwo ==
  ASSUME NEW C, NEW s \in Seq(C), NEW r \in Seq(C), Keeps(s, r, {}), NEW n \in 1 .. Len(s)
  PROVE  \E k \in 1 .. Len(r) :
           /\ r[k] = s[n]
           /\ Keeps(SubSeq(s, 1, n), SubSeq(r, 1, k), {})
           /\ ToSet(SubSeq(r, k, Len(r))) = ToSet(SubSeq(s, n, Len(s)))
<1> DEFINE N == Len(s)
<1>1. N \in Nat /\ Len(r) \in Nat /\ n \in 1 .. N
  OBVIOUS
<1>2. PICK m \in [0 .. N -> 0 .. Len(r)] :
        /\ m[0] = 0 /\ m[N] = Len(r)
        /\ \A k \in 1 .. N : m[k] \in {m[k - 1], m[k - 1] + 1} /\ m[k] # 0 /\ r[m[k]] = s[k]
  BY DEF Keeps
<1> HIDE DEF N
<1>3. \A j \in 0 .. N : \A i \in 0 .. j : m[i] <= m[j]
  <2> DEFINE P == {j \in 0 .. N : \A i \in 0 .. j : m[i] <= m[j]}
  <2>1. 0 \in P
    BY <1>1, <1>2
  <2>2. ASSUME NEW k \in 1 .. N, k - 1 \in P PROVE k \in P
    <3>1. k \in 0 .. N /\ k - 1 \in 0 .. N /\ \A i \in 0 .. k : i \in 0 .. N /\ (i = k \/ i \in 0 .. k - 1)
      BY <1>1
    <3>2. m[k] \in 0 .. Len(r) /\ m[k - 1] \in 0 .. Len(r) /\ m[k] \in {m[k - 1], m[k - 1] + 1}
      BY <1>2, <3>1
    <3>3. \A i \in 0 .. k - 1 : m[i] <= m[k - 1] /\ m[i] \in Nat
      BY <1>1, <1>2, <2>2
    <3>4. \A i \in 0 .. k : m[i] <= m[k]
      BY <1>1, <3>1, <3>2, <3>3
    <3> QED BY <3>1, <3>4
  <2> HIDE DEF P
  <2>3. \A k \in 0 .. N : k \in P
    BY <1>1, <2>1, <2>2, UpToInduction
  <2> QED BY <2>3 DEF P
<1>4. \A j \in 0 .. N : \A v \in 1 .. m[j] : \E i \in 1 .. j : m[i] = v
  <2> DEFINE P == {j \in 0 .. N : \A v \in 1 .. m[j] : \E i \in 1 .. j : m[i] = v}
  <2>1. 0 \in P
    BY <1>1, <1>2
  <2>2. ASSUME NEW k \in 1 .. N, k - 1 \in P PROVE k \in P
    <3>1. k \in 0 .. N /\ k - 1 \in 0 .. N /\ k \in 1 .. k /\ 1 .. k - 1 \subseteq 1 .. k
      BY <1>1
    <3>2. m[k] \in Nat /\ m[k - 1] \in Nat /\ m[k] \in {m[k - 1], m[k - 1] + 1}
      BY <1>2, <3>1
    <3>3. \A v \in 1 .. m[k] : v = m[k] \/ v \in 1 .. m[k - 1]
      BY <3>2
    <3>4. \A v \in 1 .. m[k - 1] : \E i \in 1 .. k - 1 : m[i] = v
      BY <2>2
    <3> QED BY <3>1, <3>3, <3>4
  <2> HIDE DEF P
  <2>3. \A k \in 0 .. N : k \in P
    BY <1>1, <2>1, <2>2, UpToInduction
  <2> QED BY <2>3 DEF P
<1> DEFINE k == m[n]
<1>5. /\ k \in 1 .. Len(r) /\ r[k] = s[n] /\ n \in 0 .. N /\ N \in 0 .. N
      /\ \A i \in 0 .. n : m[i] \in 0 .. k
  <2>1. n \in 0 .. N /\ N \in 0 .. N
    BY <1>1
  <2>2. m[n] \in 0 .. Len(r) /\ m[n] # 0 /\ r[m[n]] = s[n]
    BY <1>1, <1>2, <2>1
  <2>3. \A i \in 0 .. n : m[i] \in 0 .. Len(r) /\ m[i] <= m[n]
    BY <1>1, <1>2, <1>3, <2>1
  <2> QED BY <1>1, <2>1, <2>2, <2>3
<1> HIDE DEF k
<1>6. /\ Len(SubSeq(s, 1, n)) = n /\ \A i \in 1 .. n : SubSeq(s, 1, n)[i] = s[i]
      /\ ToSet(SubSeq(s, n, N)) = {s[i] : i \in n .. N}
  <2>1. 1 \in 1 .. N /\ n \in 1 .. N /\ N \in n .. N
    BY <1>1
  <2>2. N = Len(s)
    BY DEF N
  <2>3. Len(SubSeq(s, 1, n)) = n + 1 - 1 /\ \A i \in 1 .. n + 1 - 1 : SubSeq(s, 1, n)[i] = s[1 + i - 1]
    BY <2>1, <2>2, PartOfSeq
  <2>4. n + 1 - 1 = n /\ \A i \in 1 .. n : 1 + i - 1 = i
    BY <1>1
  <2>5. ToSet(SubSeq(s, n, N)) = {s[i] : i \in n .. N}
    BY <2>1, <2>2, PartOfSeq
  <2> QED BY <2>3, <2>4, <2>5
<1>7. /\ Len(SubSeq(r, 1, k)) = k /\ \A i \in 1 .. k : SubSeq(r, 1, k)[i] = r[i]
      /\ ToSet(SubSeq(r, k, Len(r))) = {r[i] : i \in k .. Len(r)}
  <2>1. 1 \in 1 .. Len(r) /\ k \in 1 .. Len(r) /\ Len(r) \in k .. Len(r)
    BY <1>1, <1>5
  <2>3. Len(SubSeq(r, 1, k)) = k + 1 - 1 /\ \A i \in 1 .. k + 1 - 1 : SubSeq(r, 1, k)[i] = r[1 + i - 1]
    BY <2>1, PartOfSeq
  <2>4. k + 1 - 1 = k /\ \A i \in 1 .. k : 1 + i - 1 = i
    BY <2>1
  <2>5. ToSet(SubSeq(r, k, Len(r))) = {r[i] : i \in k .. Len(r)}
    BY <2>1, PartOfSeq
  <2> QED BY <2>3, <2>4, <2>5
<1>8. Keeps(SubSeq(s, 1, n), SubSeq(r, 1, k), {})
  <2> DEFINE u == SubSeq(s, 1, n)
             v == SubSeq(r, 1, k)
             w == [i \in 0 .. n |-> m[i]]
  <2>1. Len(u) = n /\ Len(v) = k /\ (\A i \in 1 .. n : u[i] = s[i]) /\ \A i \in 1 .. k : v[i] = r[i]
    BY <1>6, <1>7
  <2> HIDE DEF u, v
  <2>2. w \in [0 .. n -> 0 .. k] /\ w[0] = 0 /\ w[n] = k
    BY <1>1, <1>2, <1>5 DEF k
  <2>3. ASSUME NEW i \in 1 .. n
        PROVE  u[i] \notin {} /\ w[i] \in {w[i - 1], w[i - 1] + 1} /\ w[i] # 0 /\ v[w[i]] = u[i]
    <3>1. i \in 1 .. N /\ i \in 0 .. n /\ i - 1 \in 0 .. n
      BY <1>1
    <3>2. w[i] = m[i] /\ w[i - 1] = m[i - 1]
      BY <3>1
    <3>3. m[i] \in {m[i - 1], m[i - 1] + 1} /\ m[i] # 0 /\ r[m[i]] = s[i] /\ m[i] \in 0 .. k
      BY <1>2, <1>5, <3>1
    <3>4. m[i] \in 1 .. k
      BY <3>3
    <3> HIDE DEF w
    <3> QED BY <2>1, <3>2, <3>3, <3>4
  <2> HIDE DEF w
  <2>4. w \in [0 .. Len(u) -> 0 .. Len(v)] /\ w[0] = 0 /\ w[Len(u)] = Len(v)
    BY <2>1, <2>2
  <2>5. \A i \in 1 .. Len(u) :
          u[i] \notin {} /\ w[i] \in {w[i - 1], w[i - 1] + 1} /\ w[i] # 0 /\ v[w[i]] = u[i]
    BY <2>1, <2>3
  <2>6. Keeps(u, v, {})
    BY <2>4, <2>5, Zenon DEF Keeps
  <2> QED BY <2>6 DEF u, v
<1>9. ASSUME NEW i \in n .. N PROVE s[i] \in {r[v] : v \in k .. Len(r)}
  <2>1. i \in 1 .. N /\ i \in 0 .. N /\ n \in 0 .. i
    BY <1>1
  <2>2. m[i] \in 0 .. Len(r) /\ m[n] <= m[i] /\ r[m[i]] = s[i]
    BY <1>2, <1>3, <2>1
  <2>3. m[i] \in k .. Len(r)
    BY <1>1, <1>5, <2>2 DEF k
  <2> QED BY <2>2, <2>3
<1>10. ASSUME NEW v \in k .. Len(r) PROVE r[v] \in {s[i] : i \in n .. N}
  <2>1. v \in 1 .. m[N]
    BY <1>1, <1>2, <1>5
  <2>2. PICK i \in 1 .. N : m[i] = v
    BY <1>4, <1>5, <2>1
  <2>3. r[v] = s[i]
    BY <1>2, <2>2
  <2>4. CASE i \in n .. N
    BY <2>3, <2>4
  <2>5. CASE i \notin n .. N
    <3>1. i \in 0 .. n
      BY <1>1, <2>5
    <3>2. v \in 0 .. k
      BY <1>5, <2>2, <3>1
    <3>3. v = k /\ n \in n .. N
      BY <1>1, <1>5, <3>2
    <3> QED BY <1>5, <3>3
  <2> QED BY <2>4, <2>5
<1>11. ToSet(SubSeq(r, k, Len(r))) = ToSet(SubSeq(s, n, N))
  BY <1>6, <1>7, <1>9, <1>10
<1> QED BY <1>5, <1>8, <1>11 DEF N

-----------------------------------------------------------------------------
(* Whatever keeps the hops and the raise location is a trail.              *)

\* Hop j of the error is place p[j] of the list, counted from the raise
\* location, which is place 0.
Condenses(p, list, hops, location) ==
  /\ p \in [0 .. Len(hops) -> 0 .. Len(list)] /\ p[0] = 0 /\ p[Len(hops)] = Len(list)
  /\ \A j \in 1 .. Len(hops) :
       /\ p[j] \in {p[j - 1], p[j - 1] + 1}
       /\ p[j] = 0 => hops[j] = location
       /\ p[j] # 0 => list[p[j]] = hops[j]

LEMMA CondensedFollows ==
  ASSUME IInv, NEW list \in Seq(Locations), NEW p, Condenses(p, list, err.hops, err.location)
  PROVE  Follows(list)
<1> DEFINE hops == err.hops
           h == Len(err.hops)
           n == Len(calls)
<1>1. /\ hops \in Seq(Locations) /\ h \in Nat /\ n \in Nat \ {0} /\ DOMAIN calls = 1 .. n
      /\ Len(list) \in Nat
  BY DEF IInv, TypeOK, CallsTyped, Errors
<1>2. PICK at \in [DOMAIN calls -> 0 .. h] :
        /\ at[1] = 0 /\ at[n] = h
        /\ \A i \in 2 .. n :
             \/ calls[i].op \in Passes /\ at[i] = at[i - 1] + 1 /\ hops[at[i]] = calls[i].arg
             \/ /\ at[i] = at[i - 1]
                /\ calls[i].op \in Passes =>
                     \/ OnThisLine(err.location, calls[i].arg)
                     \/ at[i] # 0 /\ OnThisLine(hops[at[i]], calls[i].arg)
  BY DEF IInv, TrailFaithful, Follows
<1>3. /\ p \in [0 .. h -> 0 .. Len(list)] /\ p[0] = 0 /\ p[h] = Len(list)
      /\ \A j \in 1 .. h : /\ p[j] \in {p[j - 1], p[j - 1] + 1}
                           /\ p[j] = 0 => hops[j] = err.location
                           /\ p[j] # 0 => list[p[j]] = hops[j]
  BY DEF Condenses
<1> HIDE DEF h, n, hops
<1> DEFINE to == [i \in DOMAIN calls |-> p[at[i]]]
<1>4. \A i \in DOMAIN calls : at[i] \in 0 .. h /\ to[i] = p[at[i]] /\ to[i] \in 0 .. Len(list)
  BY <1>2, <1>3
<1>5. to \in [DOMAIN calls -> 0 .. Len(list)] /\ to[1] = 0 /\ to[n] = Len(list)
  BY <1>1, <1>2, <1>3, <1>4
<1>6. ASSUME NEW i \in 2 .. n
      PROVE  \/ calls[i].op \in Passes /\ to[i] = to[i - 1] + 1 /\ list[to[i]] = calls[i].arg
             \/ /\ to[i] = to[i - 1]
                /\ calls[i].op \in Passes =>
                     \/ OnThisLine(err.location, calls[i].arg)
                     \/ to[i] # 0 /\ OnThisLine(list[to[i]], calls[i].arg)
  <2>1. i \in DOMAIN calls /\ i - 1 \in DOMAIN calls
    BY <1>1
  <2>2. to[i] = p[at[i]] /\ to[i - 1] = p[at[i - 1]] /\ at[i] \in 0 .. h /\ at[i - 1] \in 0 .. h
    BY <1>4, <2>1
  <2> HIDE DEF to
  \* The place that hop at[i] has become.
  <2>3. at[i] # 0 => IF p[at[i]] = 0 THEN hops[at[i]] = err.location ELSE list[p[at[i]]] = hops[at[i]]
    <3>1. at[i] # 0 => at[i] \in 1 .. h
      BY <1>1, <2>2
    <3> QED BY <1>3, <3>1
  <2>4. CASE calls[i].op \in Passes /\ at[i] = at[i - 1] + 1 /\ hops[at[i]] = calls[i].arg
    <3>1. at[i] \in 1 .. h /\ at[i] - 1 = at[i - 1]
      <4> DEFINE now == at[i]
                 before == at[i - 1]
      <4>1. now \in 0 .. h /\ before \in 0 .. h /\ now = before + 1
        BY <2>2, <2>4
      <4> HIDE DEF now, before
      <4>2. now \in 1 .. h /\ now - 1 = before
        BY <1>1, <4>1
      <4> QED BY <4>2 DEF now, before
    <3>2. p[at[i]] \in {p[at[i - 1]], p[at[i - 1]] + 1}
      BY <1>3, <3>1
    <3>3. at[i] # 0
      BY <3>1
    <3>4. CASE p[at[i]] = 0
      <4>1. p[at[i - 1]] = 0 /\ calls[i].arg = err.location
        <5>1. p[at[i - 1]] \in 0 .. Len(list)
          BY <1>3, <2>2
        <5> QED BY <1>1, <2>3, <2>4, <3>2, <3>3, <3>4, <5>1
      <4> QED BY <2>2, <3>4, <4>1 DEF OnThisLine
    <3>5. CASE p[at[i]] # 0
      <4>1. list[to[i]] = calls[i].arg /\ to[i] # 0
        BY <2>2, <2>3, <2>4, <3>3, <3>5
      <4> QED BY <2>2, <2>4, <3>2, <4>1 DEF OnThisLine
    <3> QED BY <3>4, <3>5
  <2>5. CASE /\ at[i] = at[i - 1]
             /\ calls[i].op \in Passes =>
                  \/ OnThisLine(err.location, calls[i].arg)
                  \/ at[i] # 0 /\ OnThisLine(hops[at[i]], calls[i].arg)
    <3>1. to[i] = to[i - 1]
      BY <2>2, <2>5
    <3>2. at[i] # 0 /\ OnThisLine(hops[at[i]], calls[i].arg) =>
            \/ OnThisLine(err.location, calls[i].arg)
            \/ to[i] # 0 /\ OnThisLine(list[to[i]], calls[i].arg)
      BY <2>2, <2>3
    <3> QED BY <2>5, <3>1, <3>2
  <2> QED BY <1>2, <2>4, <2>5
<1> HIDE DEF to
<1>7. 2 .. n = 2 .. Len(calls) /\ to[Len(calls)] = Len(list)
  BY <1>5 DEF n
<1> QED BY <1>5, <1>6, <1>7 DEF Follows

\* The places of a log line, read from the end.
LEMMA TrailOfPlaces ==
  ASSUME IInv, NEW r \in Seq(Locations), Keeps(Reverse(err.hops) \o <<err.location>>, r, {})
  PROVE  Head(Reverse(r)) = err.location /\ Follows(Tail(Reverse(r)))
<1> DEFINE hops == err.hops
           h == Len(err.hops)
           s == Reverse(hops) \o <<err.location>>
           list == Tail(Reverse(r))
<1>1. hops \in Seq(Locations) /\ h \in Nat /\ err.location \in Locations
  BY DEF IInv, TypeOK, Errors
<1>2. Reverse(hops) \in Seq(Locations) /\ Len(Reverse(hops)) = h
      /\ \A i \in 1 .. h : Reverse(hops)[i] = hops[h + 1 - i]
  BY <1>1 DEF Reverse
<1>3. /\ s \in Seq(Locations) /\ Len(s) = h + 1 /\ s[h + 1] = err.location
      /\ \A i \in 1 .. h : s[i] = hops[h + 1 - i]
  <2> DEFINE back == Reverse(hops)
  <2>1. back \in Seq(Locations) /\ Len(back) = h /\ \A i \in 1 .. h : back[i] = hops[h + 1 - i]
    BY <1>2
  <2> HIDE DEF back, h
  <2>2. /\ back \o <<err.location>> \in Seq(Locations) /\ Len(back \o <<err.location>>) = h + 1
        /\ (back \o <<err.location>>)[h + 1] = err.location
        /\ \A i \in 1 .. h : (back \o <<err.location>>)[i] = back[i]
    BY <1>1, <2>1
  <2> QED BY <2>1, <2>2 DEF back
<1>4. PICK m \in [0 .. h + 1 -> 0 .. Len(r)] :
        /\ m[0] = 0 /\ m[h + 1] = Len(r)
        /\ \A k \in 1 .. h + 1 : m[k] \in {m[k - 1], m[k - 1] + 1} /\ m[k] # 0 /\ r[m[k]] = s[k]
  <2>1. Keeps(s, r, {})
    OBVIOUS
  <2> HIDE DEF s
  <2>2. PICK m \in [0 .. Len(s) -> 0 .. Len(r)] :
          /\ m[0] = 0 /\ m[Len(s)] = Len(r)
          /\ \A k \in 1 .. Len(s) : m[k] \in {m[k - 1], m[k - 1] + 1} /\ m[k] # 0 /\ r[m[k]] = s[k]
    BY <2>1 DEF Keeps
  <2> HIDE DEF h
  <2>3. Len(s) = h + 1
    BY <1>3
  <2> QED BY <2>2, <2>3
<1> HIDE DEF s
<1>5. Len(r) \in Nat \ {0} /\ r[Len(r)] = err.location
  <2>1. h + 1 \in 1 .. h + 1
    BY <1>1
  <2> QED BY <1>3, <1>4, <2>1
<1>6. /\ Reverse(r) \in Seq(Locations) /\ Len(Reverse(r)) = Len(r)
      /\ \A i \in 1 .. Len(r) : Reverse(r)[i] = r[Len(r) + 1 - i]
  BY DEF Reverse
<1>7. Head(Reverse(r)) = err.location
  <2>1. Reverse(r) # <<>> /\ Reverse(r)[1] = r[Len(r)]
    BY <1>5, <1>6
  <2> HIDE DEF Reverse
  <2> QED BY <1>5, <1>6, <2>1
<1>8. /\ list \in Seq(Locations) /\ Len(list) = Len(r) - 1
      /\ \A i \in 1 .. Len(r) - 1 : list[i] = r[Len(r) - i]
  <2>1. \A u \in Seq(Locations) : u # <<>> =>
          Tail(u) \in Seq(Locations) /\ Len(Tail(u)) = Len(u) - 1 /\ \A i \in 1 .. Len(u) - 1 : Tail(u)[i] = u[i + 1]
    OBVIOUS
  <2>2. Reverse(r) # <<>>
    BY <1>5, <1>6
  <2>3. /\ list \in Seq(Locations) /\ Len(list) = Len(r) - 1
        /\ \A i \in 1 .. Len(r) - 1 : list[i] = Reverse(r)[i + 1]
    BY <1>6, <2>1, <2>2
  <2>4. \A i \in 1 .. Len(r) - 1 : Reverse(r)[i + 1] = r[Len(r) - i]
    <3> SUFFICES ASSUME NEW i \in 1 .. Len(r) - 1 PROVE Reverse(r)[i + 1] = r[Len(r) - i]
      OBVIOUS
    <3>1. i + 1 \in 1 .. Len(r) /\ Len(r) + 1 - (i + 1) = Len(r) - i
      BY <1>5
    <3> QED BY <1>6, <3>1
  <2> QED BY <2>3, <2>4
<1> HIDE DEF list
<1> DEFINE p == [j \in 0 .. h |-> Len(r) - m[h + 1 - j]]
<1>9. m[1] = 1 /\ \A k \in 1 .. h + 1 : m[k] \in 1 .. Len(r)
  <2>1. ASSUME NEW k \in 1 .. h + 1 PROVE m[k] \in 1 .. Len(r)
    <3>1. k \in 0 .. h + 1
      BY <1>1
    <3>2. m[k] \in 0 .. Len(r) /\ m[k] # 0
      BY <1>4, <3>1
    <3> QED BY <1>5, <3>2
  <2>2. 1 \in 1 .. h + 1 /\ 1 - 1 = 0
    BY <1>1
  <2>3. m[1] \in {0, 1} /\ m[1] # 0
    BY <1>4, <2>2
  <2> QED BY <2>1, <2>3
<1>10. p \in [0 .. h -> 0 .. Len(list)] /\ p[0] = 0 /\ p[h] = Len(list)
  <2>1. ASSUME NEW j \in 0 .. h PROVE Len(r) - m[h + 1 - j] \in 0 .. Len(list)
    <3>1. h + 1 - j \in 1 .. h + 1
      BY <1>1
    <3>2. m[h + 1 - j] \in 1 .. Len(r)
      BY <1>9, <3>1
    <3> QED BY <1>5, <1>8, <3>2
  <2>2. p[0] = Len(r) - m[h + 1 - 0] /\ p[h] = Len(r) - m[h + 1 - h] /\ h + 1 - 0 = h + 1 /\ h + 1 - h = 1
    BY <1>1
  <2> QED BY <1>4, <1>5, <1>8, <1>9, <2>1, <2>2
<1>11. ASSUME NEW j \in 1 .. h
       PROVE  /\ p[j] \in {p[j - 1], p[j - 1] + 1}
              /\ p[j] = 0 => hops[j] = err.location
              /\ p[j] # 0 => list[p[j]] = hops[j]
  <2> DEFINE k == h + 1 - j
  <2>1. /\ k \in 1 .. h /\ k \in 1 .. h + 1 /\ k + 1 \in 1 .. h + 1 /\ (k + 1) - 1 = k
        /\ h + 1 - (j - 1) = k + 1 /\ h + 1 - k = j /\ j \in 0 .. h /\ j - 1 \in 0 .. h
    BY <1>1
  <2>2. p[j] = Len(r) - m[k] /\ p[j - 1] = Len(r) - m[k + 1]
    BY <2>1
  <2> HIDE DEF p, k
  <2>3. m[k + 1] \in {m[k], m[k] + 1} /\ m[k] \in 1 .. Len(r) /\ m[k + 1] \in 1 .. Len(r)
    BY <1>4, <1>9, <2>1
  <2>4. r[m[k]] = hops[j]
    BY <1>3, <1>4, <2>1
  <2>5. p[j] \in {p[j - 1], p[j - 1] + 1}
    BY <1>5, <2>2, <2>3
  <2>6. p[j] = 0 => m[k] = Len(r)
    BY <1>5, <2>2, <2>3
  <2>7. p[j] # 0 => p[j] \in 1 .. Len(r) - 1 /\ Len(r) - p[j] = m[k]
    BY <1>5, <2>2, <2>3
  <2> QED BY <1>5, <1>8, <2>4, <2>5, <2>6, <2>7
<1> HIDE DEF p
<1>12. Condenses(p, list, err.hops, err.location)
  BY <1>10, <1>11 DEF Condenses
<1>13. Follows(list)
  BY <1>8, <1>12, CondensedFollows
<1> QED BY <1>7, <1>13 DEF list

-----------------------------------------------------------------------------
(* What caused an error. *)

CauseTexts == UNION {ToSet(a.texts) : a \in Attached}

\* What an error says of its causes is what they say, no more and no less.
CauseInv ==
  /\ err.source # <<>> <=> \E a \in Attached : a.texts # <<>>
  /\ ToSet(err.source) = CauseTexts
  /\ ToSet(err.origins) = CausePlaces

LEMMA StartCauses ==
  ASSUME calls = Start(err) PROVE CauseInv
<1>1. calls = <<[op |-> "error", arg |-> err]>>
  BY DEF Start
<1>2. Creation = err /\ DOMAIN calls = 1 .. 1 /\ calls[1].op = "error"
  BY <1>1 DEF Creation
<1>3. Attached = {[texts |-> err.source, places |-> err.origins]}
  BY <1>2 DEF Attached
<1> QED BY <1>3 DEF CauseInv, CauseTexts, CausePlaces

LEMMA AttachedNext ==
  ASSUME CallsTyped, calls # <<>>, NEW op, NEW arg, calls' = Append(calls, [op |-> op, arg |-> arg])
  PROVE  Attached' = IF op = "with_source" THEN Attached \cup {arg} ELSE Attached
<1> DEFINE n == Len(calls)
           I == {i \in DOMAIN calls : calls[i].op = "with_source"}
           J == {i \in DOMAIN calls' : calls'[i].op = "with_source"}
<1>1. /\ n \in Nat \ {0} /\ DOMAIN calls = 1 .. n /\ DOMAIN calls' = 1 .. n + 1
      /\ calls'[n + 1] = [op |-> op, arg |-> arg] /\ \A i \in 1 .. n : calls'[i] = calls[i]
  BY DEF CallsTyped
<1>2. calls'[n + 1].op = op /\ calls'[n + 1].arg = arg
  BY <1>1
<1>3. Creation' = Creation
  BY <1>1 DEF Creation
<1> HIDE DEF n
<1>4. J = IF op = "with_source" THEN I \cup {n + 1} ELSE I
  BY <1>1, <1>2
<1>5. I \subseteq 1 .. n
  BY <1>1
<1> HIDE DEF I, J
<1>6. {calls'[i].arg : i \in J} =
        IF op = "with_source" THEN {calls[i].arg : i \in I} \cup {arg} ELSE {calls[i].arg : i \in I}
  <2>1. \A i \in I : calls'[i].arg = calls[i].arg
    BY <1>1, <1>5
  <2>2. {calls'[i].arg : i \in I} = {calls[i].arg : i \in I}
    BY <2>1
  <2>3. {calls'[i].arg : i \in I \cup {n + 1}} = {calls'[i].arg : i \in I} \cup {calls'[n + 1].arg}
    OBVIOUS
  <2> QED BY <1>2, <1>4, <2>2, <2>3
<1>7. Attached = {[texts |-> Creation.source, places |-> Creation.origins]} \cup {calls[i].arg : i \in I}
  BY DEF Attached, I
<1>8. Attached' = {[texts |-> Creation'.source, places |-> Creation'.origins]} \cup {calls'[i].arg : i \in J}
  BY DEF Attached, J
<1> QED BY <1>3, <1>6, <1>7, <1>8

LEMMA JoinedSet ==
  ASSUME NEW C, NEW a \in Seq(C), NEW b \in Seq(C)
  PROVE  ToSet(a \o b) = ToSet(a) \cup ToSet(b)
<1> DEFINE c == a \o b
<1>1. /\ Len(a) \in Nat /\ Len(b) \in Nat /\ Len(c) = Len(a) + Len(b)
      /\ \A i \in 1 .. Len(a) : c[i] = a[i]
      /\ \A i \in 1 .. Len(b) : c[Len(a) + i] = b[i]
      /\ DOMAIN a = 1 .. Len(a) /\ DOMAIN b = 1 .. Len(b) /\ DOMAIN c = 1 .. Len(c)
  OBVIOUS
<1> HIDE DEF c
<1>2. \A i \in DOMAIN a : i \in DOMAIN c /\ c[i] = a[i]
  BY <1>1
<1>3. \A i \in DOMAIN b : Len(a) + i \in DOMAIN c /\ c[Len(a) + i] = b[i]
  BY <1>1
<1>4. ASSUME NEW i \in DOMAIN c PROVE c[i] \in ToSet(a) \cup ToSet(b)
  <2>1. CASE i \in 1 .. Len(a)
    BY <1>1, <2>1 DEF ToSet
  <2>2. CASE i \notin 1 .. Len(a)
    <3>1. i - Len(a) \in DOMAIN b /\ Len(a) + (i - Len(a)) = i
      BY <1>1, <2>2
    <3> QED BY <1>3, <3>1 DEF ToSet
  <2> QED BY <2>1, <2>2
<1>5. ToSet(c) = ToSet(a) \cup ToSet(b)
  BY <1>2, <1>3, <1>4 DEF ToSet
<1> QED BY <1>5 DEF c

LEMMA CallCauses ==
  ASSUME IInv, CauseInv, NEW op, NEW arg, NEW e, Call(op, arg, e), Says(op, arg, e)
  PROVE  CauseInv'
<1>1. err' = e /\ calls' = Append(calls, [op |-> op, arg |-> arg]) /\ CallsTyped /\ calls # <<>>
  BY DEF Call, IInv, TypeOK
<1>2. Attached' = IF op = "with_source" THEN Attached \cup {arg} ELSE Attached
  BY <1>1, AttachedNext
<1>3. CASE op # "with_source"
  <2>1. err'.source = err.source /\ err'.origins = err.origins /\ Attached' = Attached
    BY <1>1, <1>2, <1>3 DEF Says
  <2> QED BY <2>1 DEF CauseInv, CauseTexts, CausePlaces
<1>4. CASE op = "with_source"
  <2>1. /\ err'.source = arg.texts \o err.source /\ err'.origins = arg.places \o err.origins
        /\ arg \in Reports /\ Attached' = Attached \cup {arg}
    BY <1>1, <1>2, <1>4 DEF Says
  <2>2. arg.texts \in Seq(Texts \cup Codes \cup {Blank}) /\ arg.places \in Seq(Locations)
    BY <2>1, ReportsAreChains DEF Chains
  <2>3. err.source \in Seq(Texts \cup Codes \cup {Blank}) /\ err.origins \in Seq(Locations)
    BY DEF IInv, TypeOK, Errors
  <2>4. arg.texts # <<>> /\ arg.texts \o err.source # <<>>
    <3>1. PICK t \in Texts \cup {Blank} : arg.texts = <<t>>
      BY <2>1 DEF Reports
    <3>2. Len(<<t>> \o err.source) = 1 + Len(err.source) /\ Len(err.source) \in Nat
      BY <2>3
    <3>3. Len(<<>>) = 0 /\ <<t>> # <<>>
      OBVIOUS
    <3>4. <<t>> \o err.source # <<>>
      BY <3>2, <3>3
    <3> QED BY <3>1, <3>3, <3>4
  <2>5. err'.source # <<>> <=> \E a \in Attached' : a.texts # <<>>
    BY <2>1, <2>4
  <2>6. ToSet(err'.source) = ToSet(arg.texts) \cup ToSet(err.source)
    BY <2>1, <2>2, <2>3, JoinedSet
  <2>7. ToSet(err'.origins) = ToSet(arg.places) \cup ToSet(err.origins)
    BY <2>1, <2>2, <2>3, JoinedSet
  <2>8. /\ UNION {ToSet(a.texts) : a \in Attached \cup {arg}}
             = ToSet(arg.texts) \cup UNION {ToSet(a.texts) : a \in Attached}
        /\ UNION {ToSet(a.places) : a \in Attached \cup {arg}}
             = ToSet(arg.places) \cup UNION {ToSet(a.places) : a \in Attached}
    <3> HIDE DEF ToSet
    <3> QED OBVIOUS
  <2>9. ToSet(err'.source) = CauseTexts' /\ ToSet(err'.origins) = CausePlaces'
    BY <2>1, <2>6, <2>7, <2>8 DEF CauseInv, CauseTexts, CausePlaces
  <2> QED BY <2>5, <2>9 DEF CauseInv
<1> QED BY <1>3, <1>4

LEMMA InitCauses == Init => CauseInv
BY StartCauses DEF Init

LEMMA CauseStep == IInv /\ CauseInv /\ [Next]_vars => CauseInv'
<1> SUFFICES ASSUME IInv, CauseInv, [Next]_vars PROVE CauseInv'
  OBVIOUS
<1>1. CASE Wrap
  <2>1. calls' = Start(err')
    BY <1>1 DEF Wrap
  <2>2. (calls = Start(err) => CauseInv)'
    BY StartCauses, PTL
  <2> QED BY <2>1, <2>2 DEF Start
<1>2. CASE (\E at \in Locations : Pass(at)) \/ (\E c \in Codes : MapCode(c)) \/ Enrich
  BY <1>2, NextSays, CallCauses
<1>3. CASE UNCHANGED vars
  BY <1>3 DEF vars, CauseInv, CauseTexts, CausePlaces, Attached, Creation
<1> QED BY <1>1, <1>2, <1>3 DEF Next

(* The chain and the places of an error are those of its causes.           *)
THEOREM ErrorsTellTheirCauses == Spec => [](IInv /\ CauseInv)
<1>1. Spec => []IInv
  BY InitEstablishes, StepPreserves, PTL DEF Spec
<1> QED BY <1>1, InitCauses, CauseStep, PTL DEF Spec

\* A log line has the whole chain, or what Debug lists of it.
LEMMA CausesKept ==
  ASSUME NEW e \in Errors, NEW line \in LogLines(e)
  PROVE  ToSet(e.source) \ {Blank} \subseteq ToSet(line.causes)
<1>1. e.source \in Seq(Texts \cup Codes \cup {Blank})
  BY DEF Errors
<1>2. ToSet(e.source) \ {Blank} \subseteq ToSet(Listed(e.source, {Blank}))
  <2>1. /\ Listed(e.source, {Blank}) \in Seq(Texts \cup Codes \cup {Blank})
        /\ Keeps(e.source, Listed(e.source, {Blank}), {Blank})
    BY <1>1, ListedKeeps
  <2> QED BY <1>1, <2>1, KeptElements
<1>3. \A level, message, source : Structured(level, e, message, source).causes = source
  BY DEF Structured
<1>4. \A level : Unstructured(level, e).causes = Listed(e.source, {Blank})
  BY DEF Unstructured, Debug
<1>5. line.causes = e.source \/ line.causes = Listed(e.source, {Blank})
  <2>1. CASE line \in {AxumErrorLog(e), AxumInfoLog(e), AxumDebugLog(e)}
    BY <1>3, <2>1 DEF AxumErrorLog, AxumInfoLog, AxumDebugLog
  <2>2. CASE line \in ActixLines(e)
    <3>1. PICK c \in LoggedCodes, level \in {"ERROR", "DEBUG"} : line = ActixLog(e, c, level)
      BY <2>2 DEF ActixLines
    <3> QED BY <1>3, <1>4, <3>1 DEF ActixLog
  <2> QED BY <2>1, <2>2 DEF LogLines
<1> QED BY <1>2, <1>5

(* An error is logged as ERROR exactly if a cause was attached to it, by   *)
(* whoever created it or later, and no log line of any logger loses a      *)
(* cause that displays as something.                                       *)
THEOREM LogsNameTheCause == Spec => []LogsTellTheCause
<1>1. IInv /\ CauseInv => LogsTellTheCause
  <2> SUFFICES ASSUME err \in Errors, CauseInv PROVE LogsTellTheCause
    BY DEF IInv, TypeOK
  <2>1. AxumErrorLog(err).level = "ERROR" <=> \E a \in Attached : a.texts # <<>>
    BY DEF AxumErrorLog, Structured, CauseInv
  <2>2. \A line \in LogLines(err) : CauseTexts \ {Blank} \subseteq ToSet(line.causes)
    BY CausesKept DEF CauseInv
  <2> QED BY <2>1, <2>2 DEF LogsTellTheCause, CauseTexts
<1> QED BY <1>1, ErrorsTellTheirCauses, PTL

-----------------------------------------------------------------------------
(* The trail of a log line.                                                *)

\* The places of an error from its last hop to the raise.
WayBack(e) == Reverse(e.hops) \o <<e.location>>

LEMMA WayBackIs ==
  ASSUME NEW e \in Errors
  PROVE  /\ WayBack(e) \in Seq(Locations) /\ Len(WayBack(e)) \in Nat \ {0}
         /\ WayBack(e)[Len(WayBack(e))] = e.location
<1>1. e.hops \in Seq(Locations) /\ e.location \in Locations
  BY DEF Errors
<1>2. Reverse(e.hops) \in Seq(Locations)
  BY <1>1 DEF Reverse
<1> DEFINE back == Reverse(e.hops)
<1>3. back \in Seq(Locations)
  BY <1>2
<1> HIDE DEF back
<1>4. /\ back \o <<e.location>> \in Seq(Locations) /\ Len(back \o <<e.location>>) = Len(back) + 1
      /\ Len(back) \in Nat /\ (back \o <<e.location>>)[Len(back) + 1] = e.location
  BY <1>1, <1>3
<1> QED BY <1>4 DEF WayBack, back

LEMMA PlacesKept ==
  ASSUME NEW e \in Errors, NEW line \in LogLines(e)
  PROVE  /\ line.structured \in BOOLEAN
         /\ line.places \in Seq(Locations)
         /\ line.structured => Keeps(WayBack(e), line.places, {})
         /\ ~line.structured => Keeps(WayBack(e) \o e.origins, line.places, {})
<1> DEFINE s == WayBack(e)
           u == WayBack(e) \o e.origins
<1>1. s \in Seq(Locations) /\ u \in Seq(Locations)
  <2>1. s \in Seq(Locations) /\ e.origins \in Seq(Locations)
    BY WayBackIs DEF Errors
  <2> QED BY <2>1
<1>4. \A level, message, source : /\ Structured(level, e, message, source).places = s
                                  /\ Structured(level, e, message, source).structured = TRUE
  BY DEF Structured, FormatHops, WayBack
<1>5. \A level : Unstructured(level, e).places = Listed(u, {}) /\ Unstructured(level, e).structured = FALSE
  BY DEF Unstructured, Debug, WayBack
<1> HIDE DEF s, u
<1>2. Keeps(s, s, {})
  BY <1>1, AllKept
<1>3. Listed(u, {}) \in Seq(Locations) /\ Keeps(u, Listed(u, {}), {})
  BY <1>1, ListedKeeps
<1>6. \/ line.structured = TRUE /\ line.places = s
      \/ line.structured = FALSE /\ line.places = Listed(u, {})
  <2>1. CASE line \in {AxumErrorLog(e), AxumInfoLog(e), AxumDebugLog(e)}
    BY <1>4, <2>1 DEF AxumErrorLog, AxumInfoLog, AxumDebugLog
  <2>2. CASE line \in ActixLines(e)
    <3>1. PICK c \in LoggedCodes, level \in {"ERROR", "DEBUG"} : line = ActixLog(e, c, level)
      BY <2>2 DEF ActixLines
    <3> QED BY <1>4, <1>5, <3>1 DEF ActixLog
  <2> QED BY <2>1, <2>2 DEF LogLines
<1> QED BY <1>1, <1>2, <1>3, <1>6 DEF s, u

\* Read from the end, a list that is cut at place k begins there.
LEMMA ReversedPart ==
  ASSUME NEW C, NEW r \in Seq(C), NEW k \in 1 .. Len(r)
  PROVE  /\ Head(Reverse(SubSeq(r, 1, k))) = r[k]
         /\ Tail(Reverse(SubSeq(r, 1, k))) = Reverse(SubSeq(r, 1, k - 1))
<1> DEFINE a == SubSeq(r, 1, k)
           b == SubSeq(r, 1, k - 1)
<1>1. a \in Seq(C) /\ Len(a) = k /\ \A i \in 1 .. k : a[i] = r[i]
  OBVIOUS
<1>2. b \in Seq(C) /\ Len(b) = k - 1 /\ \A i \in 1 .. k - 1 : b[i] = r[i]
  OBVIOUS
<1>3. k \in Nat \ {0}
  OBVIOUS
<1> HIDE DEF a, b
<1> DEFINE ra == Reverse(a)
           rb == Reverse(b)
<1>4. ra \in Seq(C) /\ Len(ra) = k /\ \A i \in 1 .. k : ra[i] = a[k + 1 - i]
  <2>1. Len(a) \in Nat /\ \A i \in 1 .. Len(a) : a[i] \in C
    BY <1>1
  <2>2. ra \in Seq(C) /\ Len(ra) = Len(a) /\ \A i \in 1 .. Len(a) : ra[i] = a[Len(a) - i + 1]
    BY <2>1 DEF Reverse
  <2>3. \A i \in 1 .. k : k - i + 1 = k + 1 - i
    BY <1>3
  <2> HIDE DEF ra
  <2> QED BY <1>1, <2>2, <2>3
<1>5. rb \in Seq(C) /\ Len(rb) = k - 1 /\ \A i \in 1 .. k - 1 : rb[i] = b[(k - 1) + 1 - i]
  BY <1>2 DEF Reverse
<1> HIDE DEF ra, rb
<1>6. Head(ra) = r[k]
  <2>1. 1 \in 1 .. k /\ k + 1 - 1 = k /\ k \in 1 .. k
    BY <1>3
  <2>2. ra[1] = r[k]
    BY <1>1, <1>4, <2>1
  <2> QED BY <1>3, <1>4, <2>2
<1>7. Tail(ra) = rb
  <2>1. Tail(ra) \in Seq(C) /\ Len(Tail(ra)) = k - 1 /\ \A i \in 1 .. k - 1 : Tail(ra)[i] = ra[i + 1]
    <3>1. ra # <<>>
      BY <1>3, <1>4
    <3> QED BY <1>3, <1>4, <3>1
  <2>2. ASSUME NEW i \in 1 .. k - 1 PROVE ra[i + 1] = rb[i]
    <3>1. i + 1 \in 1 .. k /\ k + 1 - (i + 1) = k - i /\ (k - 1) + 1 - i = k - i /\ k - i \in 1 .. k - 1
          /\ k - i \in 1 .. k
      BY <1>3
    <3> QED BY <1>1, <1>2, <1>4, <1>5, <3>1
  <2>3. \A i \in 1 .. k - 1 : Tail(ra)[i] = rb[i]
    BY <2>1, <2>2
  <2> QED BY <1>5, <2>1, <2>3
<1> QED BY <1>6, <1>7 DEF ra, rb, a, b

\* Cut at the raise, a line has the trail before it and the causes after it.
LEMMA TrailOfLine ==
  ASSUME IInv, CauseInv, NEW line \in LogLines(err)
  PROVE  \E k \in DOMAIN line.places :
           /\ line.places[k] = Creation.location
           /\ ToSet(SubSeq(line.places, k, Len(line.places))) =
                {Creation.location} \cup IF line.structured THEN {} ELSE CausePlaces
           /\ Follows(Reverse(SubSeq(line.places, 1, k - 1)))
<1> DEFINE r == line.places
           back == WayBack(err)
           n == Len(WayBack(err))
           more == IF line.structured THEN <<>> ELSE err.origins
           s == back \o more
<1>1. err \in Errors /\ err.location = Creation.location /\ err.location \in Locations
  BY DEF IInv, TypeOK, TrailFaithful, Creation, Errors
<1>2. back \in Seq(Locations) /\ n \in Nat \ {0} /\ back[n] = err.location /\ Len(back) = n
  BY <1>1, WayBackIs
<1>3. more \in Seq(Locations) /\ ToSet(more) = IF line.structured THEN {} ELSE CausePlaces
  <2>1. err.origins \in Seq(Locations) /\ ToSet(err.origins) = CausePlaces
    BY <1>1 DEF Errors, CauseInv
  <2>2. <<>> \in Seq(Locations) /\ ToSet(<<>>) = {}
    BY DEF ToSet
  <2> QED BY <2>1, <2>2
<1>4. line.structured \in BOOLEAN /\ r \in Seq(Locations)
  BY <1>1, PlacesKept
<1>5. Keeps(s, r, {})
  <2>1. line.structured => Keeps(back, r, {})
    BY <1>1, PlacesKept
  <2>2. ~line.structured => Keeps(back \o err.origins, r, {})
    BY <1>1, PlacesKept
  <2> HIDE DEF back, r
  <2>3. back \o <<>> = back
    BY <1>2
  <2> QED BY <2>1, <2>2, <2>3
<1> HIDE DEF back, more, r, n
<1>6. /\ s \in Seq(Locations) /\ Len(s) = n + Len(more) /\ Len(more) \in Nat
      /\ (\A i \in 1 .. n : s[i] = back[i])
      /\ \A i \in 1 .. Len(more) : s[n + i] = more[i]
  BY <1>2, <1>3
<1> HIDE DEF s
<1>7. n \in 1 .. Len(s) /\ 1 \in 1 .. Len(s) /\ n \in 1 .. n /\ s[n] = err.location /\ Len(s) \in n .. Len(s)
  BY <1>2, <1>6
<1>8. PICK k \in 1 .. Len(r) :
        /\ r[k] = s[n]
        /\ Keeps(SubSeq(s, 1, n), SubSeq(r, 1, k), {})
        /\ ToSet(SubSeq(r, k, Len(r))) = ToSet(SubSeq(s, n, Len(s)))
  BY <1>4, <1>5, <1>6, <1>7, KeptInTwo
<1>9. SubSeq(s, 1, n) = back
  <2> DEFINE t == SubSeq(s, 1, n)
  <2>1. t \in Seq(Locations) /\ Len(t) = n + 1 - 1 /\ \A i \in 1 .. n + 1 - 1 : t[i] = s[1 + i - 1]
    BY <1>6, <1>7, PartOfSeq
  <2>2. n + 1 - 1 = n /\ \A i \in 1 .. n : 1 + i - 1 = i
    BY <1>2
  <2> HIDE DEF t
  <2>3. Len(t) = Len(back) /\ \A i \in 1 .. Len(back) : t[i] = back[i]
    BY <1>2, <1>6, <2>1, <2>2
  <2>4. t = back
    BY <1>2, <2>1, <2>3
  <2> QED BY <2>4 DEF t
<1>10. ToSet(SubSeq(s, n, Len(s))) = {err.location} \cup ToSet(more)
  <2>1. ToSet(SubSeq(s, n, Len(s))) = {s[i] : i \in n .. Len(s)}
    BY <1>6, <1>7, PartOfSeq
  <2>2. ASSUME NEW i \in n .. Len(s) PROVE s[i] \in {err.location} \cup ToSet(more)
    <3>1. CASE i = n
      BY <1>7, <3>1
    <3>2. CASE i # n
      <4>1. i - n \in 1 .. Len(more) /\ n + (i - n) = i
        BY <1>2, <1>6, <3>2
      <4>2. s[i] = more[i - n] /\ i - n \in DOMAIN more
        BY <1>3, <1>6, <4>1
      <4> QED BY <4>2 DEF ToSet
    <3> QED BY <3>1, <3>2
  <2>3. ASSUME NEW i \in DOMAIN more PROVE more[i] \in {s[j] : j \in n .. Len(s)}
    <3>1. i \in 1 .. Len(more)
      BY <1>3
    <3>2. n + i \in n .. Len(s) /\ s[n + i] = more[i]
      BY <1>2, <1>6, <3>1
    <3> QED BY <3>2
  <2>4. err.location \in {s[j] : j \in n .. Len(s)}
    <3>1. n \in n .. Len(s)
      BY <1>2, <1>6
    <3> QED BY <1>7, <3>1
  <2> QED BY <2>1, <2>2, <2>3, <2>4 DEF ToSet
<1>11. SubSeq(r, 1, k) \in Seq(Locations)
  <2>1. 1 \in 1 .. Len(r) /\ k \in 1 .. Len(r)
    BY <1>4
  <2> QED BY <1>4, <2>1, PartOfSeq
<1>12. Follows(Tail(Reverse(SubSeq(r, 1, k))))
  BY <1>8, <1>9, <1>11, TrailOfPlaces DEF back, WayBack
<1>13. Follows(Reverse(SubSeq(r, 1, k - 1)))
  BY <1>4, <1>12, ReversedPart
<1>14. k \in DOMAIN r
  BY <1>4
<1> QED BY <1>1, <1>3, <1>7, <1>8, <1>10, <1>13, <1>14 DEF r

(* Every log line, of any logger and in either form, leads back from the   *)
(* frame that passed the error on last to where it was raised, although    *)
(* Debug leaves out the places that repeat the one before; and from there  *)
(* Debug goes on to all the places that its causes have, and to no other.  *)
THEOREM LogsLeadToTheRaise == Spec => []LogsTellTheTrail
<1>1. IInv /\ CauseInv => LogsTellTheTrail
  <2> SUFFICES ASSUME IInv, CauseInv, NEW line \in LogLines(err)
               PROVE  \E k \in DOMAIN line.places :
                        /\ line.places[k] = Creation.location
                        /\ ToSet(SubSeq(line.places, k, Len(line.places))) =
                             {Creation.location} \cup IF line.structured THEN {} ELSE CausePlaces
                        /\ Follows(Reverse(SubSeq(line.places, 1, k - 1)))
    BY DEF LogsTellTheTrail, Trails
  <2> QED BY TrailOfLine
<1> QED BY <1>1, ErrorsTellTheirCauses, PTL
=============================================================================
