------------------------------ MODULE ErrorChain ------------------------------
(***************************************************************************)
(* Source chains of ApiErrors: how `error`, `clone`, `map_code` and        *)
(* `with_source` build them, and how `collect_messages` and                *)
(* `report_collect_messages` flatten one into `errors[]`.                  *)
(*                                                                         *)
(* A report is a tree of nodes: an ApiError with an optional source, a     *)
(* foreign error, or the wrapper that erris' `with_err` puts over a report *)
(* to give it a second branch.  `chain()` yields both branches of the      *)
(* wrappers it unfolds from the report it is called on, but only follows   *)
(* `source()` beyond an error that is not erris' own, which is why the     *)
(* collector calls it again on the source of every ApiError.               *)
(***************************************************************************)
EXTENDS Naturals, Sequences

CONSTANTS Texts,    \* messages and texts of foreign errors
          Within,   \* pairs <<t, u>>: text t is a substring of text u
          Blank,    \* no message; what a transparent report displays
          Internal, \* "treat error: ...", how an ApiError displays itself
          Codes,    \* code types of the errors that are built
          Callers,  \* code types `C` messages are collected for
          Nested,   \* foreign errors may have a source of their own
          Orders,   \* which branch of a wrapper `chain()` yields first
          MaxNodes  \* bound: errors, reports and wrappers built

DefaultCode == "str"

ASSUME TextsAreTexts == Blank \notin Texts /\ Internal \notin Texts /\ Within \subseteq Texts \X Texts
ASSUME BlankIsNoCode == Blank \notin Codes \cup Callers
ASSUME BoundIsNat == MaxNodes \in Nat

VARIABLES
  heap,   \* the nodes built so far
  free,   \* those the program still owns: the others have been moved into one
  order,  \* how erris orders the branches of a wrapper
  typed,  \* the code type messages are collected for, Blank while building
  verbose, \* asked for the messages with their causes
  root,   \* the error or report they are collected from
  frames, \* the chain each active call of collect_api_errors has yet to visit
  output,
  seen

building == <<heap, free, order>>
vars == <<heap, free, order, typed, verbose, root, frames, output, seen>>

Nodes == DOMAIN heap
Api(n) == heap[n].kind = "api"

Init ==
  /\ heap = <<>>
  /\ free = {}
  /\ order \in Orders
  /\ typed = Blank
  /\ verbose = FALSE
  /\ root = 0
  /\ frames = <<>>
  /\ output = <<>>
  /\ seen = {}

-----------------------------------------------------------------------------
(* Building.  0 stands for no source and no message branch. *)

Error(code, text, source) ==
  [kind |-> "api", code |-> code, text |-> text, source |-> source, branch |-> 0]
Foreign(text, source) ==
  [kind |-> "foreign", code |-> Blank, text |-> text, source |-> source, branch |-> 0]
Wrapper(branch, source) ==
  [kind |-> "wrapper", code |-> Blank, text |-> Blank, source |-> source, branch |-> branch]

New(node, moved) ==
  /\ Len(heap) < MaxNodes
  /\ heap' = Append(heap, node)
  /\ free' = (free \ moved) \cup {Len(heap) + 1}
  /\ UNCHANGED <<order, typed, verbose, root, frames, output, seen>>

\* erris::report!, or a foreign error turned into a report.
NewForeign ==
  /\ typed = Blank
  /\ \E t \in Texts \cup {Blank} :
       \/ New(Foreign(t, 0), {})
       \/ Nested /\ t # Blank /\ \E c \in free : New(Foreign(t, c), {c})

NewError ==
  /\ typed = Blank
  /\ \E c \in Codes, t \in Texts \cup {Blank} : New(Error(c, t, 0), {})

\* The clone shares the source.
Clone(e) == typed = Blank /\ Api(e) /\ New(heap[e], {})

WithSourceMutReplaces(e, s) ==
  /\ typed = Blank /\ Api(e) /\ s # e
  /\ heap' = [heap EXCEPT ![e].source = s]
  /\ free' = free \ {s}
  /\ UNCHANGED <<order, typed, verbose, root, frames, output, seen>>

\* A second source becomes the message branch of a wrapper over the first.
WithSource(e, s) ==
  /\ typed = Blank /\ Api(e) /\ s # e
  /\ \/ /\ heap[e].source = 0
        /\ heap' = [heap EXCEPT ![e].source = s]
     \/ /\ heap[e].source # 0
        /\ Len(heap) < MaxNodes
        /\ heap' = Append([heap EXCEPT ![e].source = Len(heap) + 1], Wrapper(s, heap[e].source))
  /\ free' = free \ {s}
  /\ UNCHANGED <<order, typed, verbose, root, frames, output, seen>>

MapCode(e) ==
  /\ typed = Blank /\ Api(e)
  /\ \E c \in Codes \ {heap[e].code} : heap' = [heap EXCEPT ![e].code = c]
  /\ UNCHANGED <<free, order, typed, verbose, root, frames, output, seen>>

-----------------------------------------------------------------------------
(* What erris' `chain()` yields. *)

\* Following `source()` from node n.
Follow ==
  LET f[n \in Nodes] == <<n>> \o (IF heap[n].source = 0 THEN <<>> ELSE f[heap[n].source])
  IN  f

\* From a report that is owned.
Chain ==
  LET f[n \in Nodes] ==
        IF heap[n].kind # "wrapper" THEN Follow[n]
        ELSE <<n>> \o (IF order = "branch first" THEN f[heap[n].branch] \o f[heap[n].source]
                                                 ELSE f[heap[n].source] \o f[heap[n].branch])
  IN  f

ChainOf(n) == IF n = 0 THEN <<>> ELSE Chain[n]

-----------------------------------------------------------------------------
(* Collecting. *)

\* A message is the sequence of the texts it is joined from.
RawMessageMutEmptyToo(n) == <<heap[n].text>>

RawMessage(n) == IF heap[n].text = Blank THEN <<>> ELSE <<heap[n].text>>

\* A wrapper displays as the error it adds.
Display ==
  LET f[n \in Nodes] ==
        CASE heap[n].kind = "wrapper" -> f[heap[n].branch]
          [] heap[n].kind = "api" -> <<Internal>> \o RawMessage(n)
          [] heap[n].kind = "foreign" -> RawMessage(n)
  IN  f

SourceText(n) == IF heap[n].source = 0 THEN <<>> ELSE Display[heap[n].source]

\* to_error_message_with
Entry(n) == [id |-> n, message |-> IF verbose THEN RawMessage(n) \o SourceText(n) ELSE RawMessage(n)]

\* `contains`
Mentions(message, text) ==
  \E i \in DOMAIN message : message[i] = text \/ <<text, message[i]>> \in Within
Contains(message, texts) ==
  IF Len(texts) = 1 THEN Mentions(message, texts[1])
  ELSE \E i \in 1 .. Len(message) - Len(texts) + 1 : SubSeq(message, i, i + Len(texts) - 1) = texts

CollectMessages(e) ==
  /\ typed = Blank /\ Api(e) /\ heap[e].code \in Callers
  /\ typed' = heap[e].code
  /\ root' = e
  /\ output' = <<Entry(e)>> \* the caller's own: verbose is FALSE
  /\ frames' = <<ChainOf(heap[e].source)>>
  /\ UNCHANGED <<building, verbose, seen>>

ReportCollectMessages(n) ==
  /\ typed = Blank
  /\ typed' \in Callers
  /\ verbose' \in BOOLEAN
  /\ root' = n
  /\ frames' = <<Chain[n]>>
  /\ UNCHANGED <<building, output, seen>>

\* downcast_ref to ApiError<C>, then to ApiError<&'static str>
Matched(n) == Api(n) /\ heap[n].code \in {typed, DefaultCode}

Active == frames # <<>>
Rest == Head(frames)
Here == Head(Rest)
Advance == <<Tail(Rest)>> \o Tail(frames)

ListErrorMutNoRecursion ==
  /\ Active /\ Rest # <<>> /\ Matched(Here) /\ Here \notin seen
  /\ seen' = seen \cup {Here}
  /\ output' = Append(output, Entry(Here))
  /\ frames' = Advance
  /\ UNCHANGED <<building, typed, verbose, root>>

ListErrorMutListsAfterItsCauses ==
  /\ Active /\ Rest # <<>> /\ Matched(Here) /\ Here \notin seen
  /\ seen' = seen \cup {Here}
  /\ output' = <<Entry(Here)>> \o output
  /\ frames' = IF heap[Here].source = 0 THEN Advance
               ELSE <<Chain[heap[Here].source]>> \o Advance
  /\ UNCHANGED <<building, typed, verbose, root>>

\* The loop lists an ApiError and recurses into its source.
ListError ==
  /\ Active /\ Rest # <<>> /\ Matched(Here) /\ Here \notin seen
  /\ seen' = seen \cup {Here}
  /\ output' = Append(output, Entry(Here))
  /\ frames' = IF heap[Here].source = 0 THEN Advance
               ELSE <<Chain[heap[Here].source]>> \o Advance
  /\ UNCHANGED <<building, typed, verbose, root>>

SkipSeen ==
  /\ Active /\ Rest # <<>> /\ Matched(Here) /\ Here \in seen
  /\ frames' = Advance
  /\ UNCHANGED <<building, typed, verbose, root, output, seen>>

FoldableMutWrappersToo(n) == output # <<>> /\ Display[n] # <<>>

\* append_foreign_cause appends only leaves, only to an entry, only some text.
Foldable(n) == heap[n].source = 0 /\ output # <<>> /\ Display[n] # <<>>

Fold(texts) ==
  LET last == Len(output) IN
  output' = IF Contains(output[last].message, texts) THEN output
            ELSE [output EXCEPT ![last].message = @ \o texts]

FoldForeignMutDropsText ==
  /\ Active /\ Rest # <<>> /\ ~Matched(Here)
  /\ IF Foldable(Here) /\ output[Len(output)].message = <<>> THEN Fold(Display[Here]) ELSE UNCHANGED output
  /\ frames' = Advance
  /\ UNCHANGED <<building, typed, verbose, root, seen>>

FoldForeign ==
  /\ Active /\ Rest # <<>> /\ ~Matched(Here)
  /\ IF Foldable(Here) THEN Fold(Display[Here]) ELSE UNCHANGED output
  /\ frames' = Advance
  /\ UNCHANGED <<building, typed, verbose, root, seen>>

\* The loop is over: back to the caller's.
EndLoop ==
  /\ Active /\ Rest = <<>>
  /\ frames' = Tail(frames)
  /\ UNCHANGED <<building, typed, verbose, root, output, seen>>

Next ==
  \/ NewForeign \/ NewError
  \/ \E e \in free : \/ Clone(e) \/ MapCode(e) \/ CollectMessages(e) \/ ReportCollectMessages(e)
                     \/ \E s \in free : WithSource(e, s)
  \/ ListError \/ SkipSeen \/ FoldForeign \/ EndLoop

Spec == Init /\ [][Next]_vars

-----------------------------------------------------------------------------
TypeOK ==
  /\ heap \in Seq([kind : {"api", "foreign", "wrapper"}, code : Codes \cup {Blank},
                   text : Texts \cup {Blank},
                   source : 0 .. MaxNodes, branch : 0 .. MaxNodes])
  /\ free \subseteq Nodes /\ seen \subseteq Nodes
  /\ order \in Orders /\ typed \in Callers \cup {Blank}
  /\ verbose \in BOOLEAN
  /\ root \in Nodes \cup {0}
  /\ frames \in Seq(Seq(Nodes))
  /\ output \in Seq([id : Nodes, message : Seq(Texts \cup {Internal})])

\* The nodes of the tree under n, n included.
Under ==
  LET f[n \in Nodes \cup {0}] ==
        IF n = 0 THEN {} ELSE {n} \cup f[heap[n].source] \cup f[heap[n].branch]
  IN  f

\* The nodes under n that are reached through no ApiError.
Region ==
  LET f[n \in Nodes \cup {0}] ==
        IF n = 0 THEN {} ELSE IF Api(n) THEN {n} ELSE {n} \cup f[heap[n].source] \cup f[heap[n].branch]
  IN  f

\* An error hangs off the ApiErrors that reach it through no other ApiError.
HangsOff(n) == {a \in Nodes : Api(a) /\ n \in Region[heap[a].source]}

Done == typed # Blank /\ frames = <<>>
OfError == Done /\ Api(root)
Ids == {output[i].id : i \in DOMAIN output}

(* Every ApiError of the chain is listed exactly once, whatever branches   *)
(* and shared sources it is reached through, and nothing else is listed.   *)
EveryErrorListedOnce ==
  Done => /\ Ids = {n \in Under[root] : Api(n)}
          /\ \A i, j \in DOMAIN output : output[i].id = output[j].id => i = j

(* An entry comes after an error it is a cause of: the first entry is the  *)
(* error a client is meant to see, and the list reads outermost first.     *)
CausesFollow ==
  \A i \in DOMAIN output :
    LET causeOf == HangsOff(output[i].id) \cap Under[root]
    IN  causeOf = {} \/ \E j \in 1 .. i - 1 : output[j].id \in causeOf

Told(n) == heap[n].text = Blank \/ \E i \in DOMAIN output : Mentions(output[i].message, heap[n].text)

(* No root cause is lost from the response of an error: the text of every  *)
(* foreign leaf, down any branch, ends up in a message                     *)
(* (error_report.rs:118-132).                                              *)
NoCauseLost ==
  OfError => \A n \in Under[root] : heap[n].kind = "foreign" /\ heap[n].source = 0 => Told(n)

(* error_report.rs:31-36: the text of any foreign error of the chain is    *)
(* appended to a message, leaf or not.                                     *)
NoForeignTextLost ==
  OfError => \A n \in Under[root] : heap[n].kind = "foreign" => Told(n)

(* The `treat error:` prefix that an ApiError displays with never gets     *)
(* into a message (test_api_error.rs, verbose_response_keeps_a_mixed_chain)*)
(* unless the causes themselves are asked for.                             *)
NoInternalText ==
  ~verbose => \A i \in DOMAIN output : ~Mentions(output[i].message, Internal)

(* Building only ever adds causes: whatever an error has in its chain it   *)
(* keeps through further sources, a changed code and being wrapped, and    *)
(* nothing done to one error shows in the chain of another, clones         *)
(* included.                                                               *)
ChainsOnlyGrow ==
  [][/\ \A n \in Nodes : Under[n] \subseteq Under'[n]
     /\ \A e, f \in free : Under'[e] # Under[e] /\ Under'[f] # Under[f] => e = f]_vars

(* error_report.rs:22-23: collect_messages lists the top-level error       *)
(* together with every ApiError found in its cause chain.                  *)
EveryErrorFound ==
  OfError /\ output # <<>> /\ output[1].id = root => {n \in Under[root] : Api(n)} \subseteq Ids

(* The comments on collect_messages and in its test: the text of a foreign *)
(* cause is added to the entry it hangs off, so whatever a message has     *)
(* beside the error's own text is the text of such a cause.  When causes   *)
(* are asked for, a message has the text of the source to begin with.      *)
FoldedWhereItHangs ==
  OfError /\ ~verbose => \A i \in DOMAIN output : \A k \in DOMAIN output[i].message :
    \/ k = 1 /\ output[i].message[k] = heap[output[i].id].text
    \/ \E n \in Under[root] : /\ heap[n].text = output[i].message[k]
                              /\ output[i].id \in HangsOff(n)
=============================================================================
