------------------------------ MODULE Validation ------------------------------
(***************************************************************************)
(* A request body is parsed and validated.  A body that does not parse is  *)
(* reported with a JSON Pointer built from serde's path (serde_path.rs);   *)
(* the violations in one that does are collected depth first, every        *)
(* pointer being spelled in one string the whole recursion shares          *)
(* (validate.rs).  Texts are sequences of characters: pointers escape two. *)
(***************************************************************************)
EXTENDS Naturals, Sequences, SequencesExt, FiniteSetsExt

CONSTANTS Names,       \* field names
          Indices,     \* positions in a list; one digit each
          RuleLists,   \* the rules one field may violate: sequences of codes
          InvalidBody, \* INVALID_BODY
          None

ASSUME Digits == Indices \subseteq 0 .. 9
ASSUME NamesAreTexts == Names \subseteq Seq(STRING)
\* A field is listed because a rule is violated.
ASSUME RulesAreListed == \A l \in RuleLists : l # <<>> /\ l \in Seq(Range(l))

VARIABLES
  broken,  \* where parsing fails, or None
  tree,    \* ValidationErrors: the rules violated, by path
  prefix,
  frames,  \* the active loops over fields or items, innermost first
  output,
  answer   \* none, accepted or rejected

vars == <<broken, tree, prefix, frames, output, answer>>

Field(n) == [name |-> n]
Item(i) == [index |-> i]
Unknown == [unknown |-> TRUE]

Fields == {Field(n) : n \in Names}
Items == {Item(i) : i \in Indices}

\* A field, a field of a nested struct, a field of a struct in a list.
Paths == {<<f>> : f \in Fields} \cup (Fields \X Fields) \cup (Fields \X Items \X Fields)

\* ValidationErrorsKind: all that lies below one place is of one kind.
OneKind(P) ==
  \A p, q \in P : \A k \in DOMAIN p :
    IsPrefix(SubSeq(p, 1, k - 1), q) => k <= Len(q) /\ DOMAIN p[k] = DOMAIN q[k]

\* Bound: at most three fields of a body are invalid.
Trees ==
  UNION {[P -> RuleLists] : P \in {{}} \cup {Q \in {{p, q, r} : p, q, r \in Paths} : OneKind(Q)}}

\* serde fails at the top, at a value, at an item, or at a key it cannot name.
ParsePaths ==
  {<<>>} \cup Paths \cup (Fields \X Items) \cup {Append(p, Unknown) : p \in {<<>>} \cup Paths}

Init ==
  /\ \/ broken = None /\ tree \in Trees
     \/ broken \in ParsePaths /\ tree = <<>>
  /\ prefix = <<>>
  /\ frames = <<>>
  /\ output = <<>>
  /\ answer = "none"

-----------------------------------------------------------------------------
(* Spelling. *)

Replace(s, c, by) == FlattenSeq([i \in DOMAIN s |-> IF s[i] = c THEN by ELSE <<s[i]>>])

EscapeMutSlashFirst(t) == Replace(Replace(t, "/", <<"~", "1">>), "~", <<"~", "0">>)
Escape(t) == Replace(Replace(t, "~", <<"~", "0">>), "/", <<"~", "1">>)

Numerals == <<"0", "1", "2", "3", "4", "5", "6", "7", "8", "9">>
Decimal(i) == <<Numerals[i + 1]>>

Token(key) ==
  <<"/">> \o CASE key \in Items -> Decimal(key.index)
               [] key = Unknown -> <<"?">>
               [] OTHER -> Escape(key.name)

JsonPointer(path) == FlattenSeq([i \in DOMAIN path |-> Token(path[i])])

-----------------------------------------------------------------------------
(* The walk. *)

Keys(at) == {p[Len(at) + 1] : p \in {q \in DOMAIN tree : IsStrictPrefix(at, q)}}
Frame(at, base) == [at |-> at, todo |-> Keys(at), base |-> base]

Top == Head(frames)
Here(key) == Append(Top.at, key)
Taken(key) == <<[Top EXCEPT !.todo = @ \ {key}]>> \o Tail(frames)

DueMutAnyOrder == Top.todo
\* Fields come in the order of a HashMap, items in that of a BTreeMap.
Due == {k \in Top.todo : k \in Items => \A j \in Top.todo : k.index <= j.index}

\* A body that fails to parse is never validated.
Malformed ==
  /\ answer = "none" /\ broken # None
  /\ output' = <<[code |-> InvalidBody, pointer |-> IF broken = <<>> THEN None ELSE JsonPointer(broken)]>>
  /\ answer' = "rejected"
  /\ UNCHANGED <<broken, tree, prefix, frames>>

\* validate_api: only an invalid value is walked.
Validate ==
  /\ answer = "none" /\ broken = None /\ frames = <<>>
  /\ \/ DOMAIN tree = {} /\ answer' = "accepted" /\ UNCHANGED frames
     \/ DOMAIN tree # {} /\ frames' = <<Frame(<<>>, 0)>> /\ UNCHANGED answer
  /\ UNCHANGED <<broken, tree, prefix, output>>

\* ValidationErrorsKind::Field: the token is pushed, used and truncated.
Report(key) ==
  /\ Here(key) \in DOMAIN tree
  /\ LET rules == tree[Here(key)]
     IN  output' = output \o [i \in DOMAIN rules |-> [code |-> rules[i], pointer |-> prefix \o Token(key)]]
  /\ frames' = Taken(key)
  /\ UNCHANGED prefix

\* ValidationErrorsKind::Struct and List: a loop one level down.
Descend(key) ==
  /\ Here(key) \notin DOMAIN tree
  /\ prefix' = prefix \o Token(key)
  /\ frames' = <<Frame(Here(key), Len(prefix))>> \o Taken(key)
  /\ UNCHANGED output

Visit ==
  /\ frames # <<>>
  /\ \E key \in Due : Report(key) \/ Descend(key)
  /\ UNCHANGED <<broken, tree, answer>>

AscendMutKeepsPrefix ==
  /\ frames # <<>> /\ Top.todo = {}
  /\ frames' = Tail(frames)
  /\ answer' = IF Len(frames) = 1 THEN "rejected" ELSE "none"
  /\ UNCHANGED <<broken, tree, prefix, output>>

AscendMutTruncatesToParent ==
  /\ frames # <<>> /\ Top.todo = {}
  /\ prefix' = IF Len(frames) = 1 THEN <<>> ELSE SubSeq(prefix, 1, frames[2].base)
  /\ frames' = Tail(frames)
  /\ answer' = IF Len(frames) = 1 THEN "rejected" ELSE "none"
  /\ UNCHANGED <<broken, tree, output>>

\* A loop is over; the caller truncates the prefix to what it was.
Ascend ==
  /\ frames # <<>> /\ Top.todo = {}
  /\ prefix' = SubSeq(prefix, 1, Top.base)
  /\ frames' = Tail(frames)
  /\ answer' = IF Len(frames) = 1 THEN "rejected" ELSE "none"
  /\ UNCHANGED <<broken, tree, output>>

Answered == answer # "none" /\ UNCHANGED vars

Next == Malformed \/ Validate \/ Visit \/ Ascend \/ Answered

Spec == Init /\ [][Next]_vars

-----------------------------------------------------------------------------
(* The shape of the state; the offset an open loop will truncate to is one *)
(* its string still has, and outside the walk the string is empty.         *)
Codes == (UNION {Range(l) : l \in RuleLists}) \cup {InvalidBody}
TypeOK ==
  /\ broken \in ParsePaths \cup {None}
  /\ answer \in {"none", "accepted", "rejected"}
  /\ \A i \in DOMAIN frames : frames[i].todo \subseteq Fields \cup Items /\ frames[i].base \in 0 .. Len(prefix)
  /\ \A i \in DOMAIN output : output[i].code \in Codes
  /\ frames = <<>> => prefix = <<>>

\* The open loops: each is inside the next, the last one over the whole body,
\* and the offset of each is the length of the pointer of the loop around it.
Loops == [at : Seq(Fields \cup Items), todo : SUBSET (Fields \cup Items), base : Nat]
Inside(f, g) ==
  \E key \in Fields \cup Items : f.at = Append(g.at, key) /\ f.base = Len(JsonPointer(g.at))
Stacked(fs) ==
  /\ fs \in Seq(Loops)
  /\ fs # <<>> => fs[Len(fs)].at = <<>> /\ fs[Len(fs)].base = 0
  /\ \A i \in 1 .. Len(fs) - 1 : Inside(fs[i], fs[i + 1])
  /\ \A i, j \in 1 .. Len(fs) : i <= j => Len(JsonPointer(fs[j].at)) <= Len(JsonPointer(fs[i].at))

Entry(p, k) == [code |-> tree[p][k], pointer |-> JsonPointer(p)]
Reported(p) == \A k \in DOMAIN tree[p] : \E i \in DOMAIN output : output[i] = Entry(p, k)
Awaits(f, p) == IsStrictPrefix(f.at, p) /\ p[Len(f.at) + 1] \in f.todo

NothingForgotten ==
  \A p \in DOMAIN tree :
    frames # <<>> \/ answer # "none" =>
      Reported(p) \/ \E i \in DOMAIN frames : Awaits(frames[i], p)
NothingInvented ==
  \A i \in DOMAIN output :
    \/ broken = None /\ \E p \in DOMAIN tree : \E k \in DOMAIN tree[p] : output[i] = Entry(p, k)
    \/ broken # None /\ output[i].code = InvalidBody

(* A loop that is open lies inside the one it was entered from and knows   *)
(* the length of that one's pointer, which is all the string is cut to;    *)
(* each place that is invalid has been reported, rule by rule, or is still *)
(* to be reached from an open loop; nothing else has been reported.        *)
WalkInv ==
  /\ Stacked(frames)
  /\ prefix = IF frames = <<>> THEN <<>> ELSE JsonPointer(Top.at)
  /\ frames # <<>> => broken = None /\ answer = "none" /\ DOMAIN tree # {}
  /\ NothingForgotten /\ NothingInvented
  /\ answer = "accepted" => broken = None /\ DOMAIN tree = {}
  /\ answer = "rejected" => output # <<>>

(* Whatever subtrees have been left, the shared string is the pointer of   *)
(* the place the innermost loop is at, as serde_path.rs would spell it: a  *)
(* violation has the pointer that a parse failure at its place has.        *)
PrefixPointsHere == frames # <<>> => prefix = JsonPointer(Top.at)

\* RFC 6901: a reference token begins at "/"; "~0" and "~1" are escapes in it.
Read(r, c) ==
  CASE c = "/" -> [tokens |-> Append(r.tokens, <<>>), escape |-> FALSE]
    [] c = "~" -> [r EXCEPT !.escape = TRUE]
    [] OTHER ->
      LET meant == IF ~r.escape THEN c ELSE IF c = "1" THEN "/" ELSE "~"
      IN  [tokens |-> [r.tokens EXCEPT ![Len(r.tokens)] = Append(@, meant)], escape |-> FALSE]
Reading(p) == FoldLeft(Read, [tokens |-> <<>>, escape |-> FALSE], p)

Plain(key) ==
  CASE key \in Items -> Decimal(key.index)
    [] key = Unknown -> <<"?">>
    [] OTHER -> key.name
Spelled(path) == [i \in DOMAIN path |-> Plain(path[i])]
Under(path) == {i \in DOMAIN output : Reading(output[i].pointer).tokens = Spelled(path)}

(* A body is rejected if it is invalid, and read back by the rules of      *)
(* RFC 6901 the pointers name exactly the places that are: under each the  *)
(* rules violated there, once, in their order and next to each other, and  *)
(* nothing under any other.                                                *)
EveryViolationLocated ==
  answer # "none" =>
    /\ answer = "rejected" <=> output # <<>>
    /\ \A p \in DOMAIN tree : \E before \in 0 .. Len(output) :
         /\ Under(p) = {before + k : k \in DOMAIN tree[p]}
         /\ \A k \in DOMAIN tree[p] : output[before + k].code = tree[p][k]
    /\ broken = None => \A i \in DOMAIN output : \E p \in DOMAIN tree : i \in Under(p)
    /\ broken \notin {None, <<>>} => Len(output) = 1 /\ Under(broken) = {1}

(* The violations in a list are reported in the order of its items, even   *)
(* if the fields around them come in the order of a hash map.              *)
ItemsInOrder ==
  \A p, q \in DOMAIN tree : \A i, j \in DOMAIN output :
    /\ i < j /\ Len(p) = 3 /\ Len(q) = 3 /\ p[1] = q[1]
    /\ output[i].pointer = JsonPointer(p) /\ output[j].pointer = JsonPointer(q)
    => p[2].index <= q[2].index
=============================================================================
