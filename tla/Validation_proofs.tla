--------------------------- MODULE Validation_proofs ---------------------------
(***************************************************************************)
(* Proofs about Validation.  A pointer is the concatenation of its tokens, *)
(* so the pointer of a place is the one of the place around it and one     *)
(* token more: what an open loop pushes is what its truncation takes away. *)
(***************************************************************************)
EXTENDS Validation, Recursion

\* To the provers, a literal is not a STRING.
Characters == STRING \cup {"/", "~", "?"} \cup {Numerals[i] : i \in 1 .. 10}
Texts == Seq(Characters)

Segments == Fields \cup Items \cup {Unknown}

-----------------------------------------------------------------------------
(* Concatenation. *)

\* FlattenSeq's recursion has a solution, so it is one.
LEMMA FlattenUnfolds ==
  ASSUME NEW C, NEW s \in Seq(Seq(C)), s # <<>>
  PROVE  \E f \in [1 .. Len(s) -> Seq(C)] :
           /\ FlattenSeq(s) = f[Len(s)]
           /\ \A i \in 1 .. Len(s) : f[i] = IF i = 1 THEN s[i] ELSE f[i - 1] \o s[i]
<1> DEFINE S == 1 .. Len(s)
           V == Seq(C)
           body(f, i) == IF i = 1 THEN s[i] ELSE f[i - 1] \o s[i]
           G == [p \in S \X [S -> V] |-> body(p[2], p[1])]
           rank == [i \in S |-> i]
           flatten == CHOOSE f : f = [i \in S |-> body(f, i)]
<1>1. Len(s) \in Nat \ {0} /\ rank \in [S -> 0 .. Len(s)] /\ \A i \in S : s[i] \in V
  OBVIOUS
<1>2. <<>> \in V /\ \A x, y \in V : x \o y \in V
  OBVIOUS
<1>3. ASSUME NEW i \in S, NEW f \in [S -> V] PROVE body(f, i) \in V
  <2>1. i # 1 => i - 1 \in S
    BY <1>1
  <2> HIDE DEF V, S
  <2> QED BY <1>1, <1>2, <2>1
<1>4. G \in [S \X [S -> V] -> V]
  <2>1. \A p \in S \X [S -> V] : body(p[2], p[1]) \in V
    BY <1>3
  <2> HIDE DEF body, V, S
  <2> QED BY <2>1
<1>5. \A i \in S, f \in [S -> V] : G[<<i, f>>] = body(f, i)
  OBVIOUS
<1>6. OnlyOnLower(S, V, rank, G)
  <2> SUFFICES ASSUME NEW i \in S, NEW f \in [S -> V], NEW g \in [S -> V],
                      \A m \in S : rank[m] < rank[i] => f[m] = g[m]
               PROVE  G[<<i, f>>] = G[<<i, g>>]
    BY DEF OnlyOnLower
  <2>1. i # 1 => i - 1 \in S /\ rank[i - 1] < rank[i]
    BY <1>1
  <2>2. body(f, i) = body(g, i)
    BY <2>1
  <2> QED BY <1>5, <2>2
<1> HIDE DEF G, rank
<1>7. PICK h \in [S -> V] : Solution(S, G, h)
  BY <1>1, <1>2, <1>4, <1>6, RankedRecursion
<1>8. h = [i \in S |-> body(h, i)]
  BY <1>5, <1>7 DEF Solution
<1>9. flatten = [i \in S |-> body(flatten, i)]
  BY <1>8
<1>10. FlattenSeq(s) = flatten[Len(s)]
  BY <1>1 DEF FlattenSeq
<1> HIDE DEF flatten
<1> DEFINE P == {i \in S : flatten[i] = h[i]}
<1>11. ASSUME NEW i \in S, \A m \in S : rank[m] < rank[i] => m \in P PROVE i \in P
  <2>1. i # 1 => i - 1 \in S /\ rank[i - 1] < rank[i]
    BY <1>1 DEF rank
  <2>2. body(flatten, i) = body(h, i)
    BY <1>11, <2>1
  <2> QED BY <1>8, <1>9, <2>2
<1>12. \A i \in S : i \in P
  <2> HIDE DEF P
  <2> QED BY <1>1, <1>11, RankInduction
<1>13. Len(s) \in S
  BY <1>1
<1>14. FlattenSeq(s) = h[Len(s)]
  BY <1>10, <1>12, <1>13
<1> QED BY <1>7, <1>8, <1>14

LEMMA FlattenEmpty == FlattenSeq(<<>>) = <<>>
BY DEF FlattenSeq

LEMMA FlattenTyped ==
  ASSUME NEW C, NEW s \in Seq(Seq(C))
  PROVE  FlattenSeq(s) \in Seq(C)
<1>1. CASE s = <<>>
  <2>1. FlattenSeq(s) = <<>>
    BY <1>1, FlattenEmpty, Zenon
  <2>2. <<>> \in Seq(C)
    OBVIOUS
  <2> QED BY <2>1, <2>2, Zenon
<1>2. CASE s # <<>>
  <2>1. PICK f \in [1 .. Len(s) -> Seq(C)] : FlattenSeq(s) = f[Len(s)]
    BY <1>2, FlattenUnfolds
  <2>2. Len(s) \in 1 .. Len(s)
    BY <1>2
  <2> QED BY <2>1, <2>2
<1> QED BY <1>1, <1>2

LEMMA FlattenAppend ==
  ASSUME NEW C, NEW s \in Seq(Seq(C)), NEW x \in Seq(C)
  PROVE  FlattenSeq(Append(s, x)) = FlattenSeq(s) \o x
<1> DEFINE t == Append(s, x)
           n == Len(s)
<1>1. t \in Seq(Seq(C)) /\ t # <<>> /\ Len(t) = n + 1 /\ n \in Nat
  <2> DEFINE D == Seq(C)
  <2>1. s \in Seq(D) /\ x \in D
    OBVIOUS
  <2> HIDE DEF D
  <2>2. Append(s, x) \in Seq(D) /\ Len(Append(s, x)) = Len(s) + 1 /\ Len(s) \in Nat
    BY <2>1
  <2>3. Append(s, x) # <<>>
    BY <2>1
  <2> QED BY <2>2, <2>3 DEF D
<1>2. t[n + 1] = x /\ \A i \in 1 .. n : t[i] = s[i]
  OBVIOUS
<1>3. PICK f \in [1 .. Len(t) -> Seq(C)] :
        /\ FlattenSeq(t) = f[Len(t)]
        /\ \A i \in 1 .. Len(t) : f[i] = IF i = 1 THEN t[i] ELSE f[i - 1] \o t[i]
  <2> HIDE DEF t
  <2> QED BY <1>1, FlattenUnfolds
<1> HIDE DEF t
<1>4. CASE n = 0
  <2>1. s = <<>> /\ FlattenSeq(s) = <<>>
    BY <1>4, FlattenEmpty
  <2>2. FlattenSeq(t) = x
    BY <1>1, <1>2, <1>3, <1>4
  <2> QED BY <2>1, <2>2 DEF t
<1>5. CASE n # 0
  <2>1. PICK g \in [1 .. n -> Seq(C)] :
          /\ FlattenSeq(s) = g[n]
          /\ \A i \in 1 .. n : g[i] = IF i = 1 THEN s[i] ELSE g[i - 1] \o s[i]
    <3>1. s # <<>>
      BY <1>5
    <3> QED BY <3>1, FlattenUnfolds
  <2> HIDE DEF n
  <2> DEFINE P == {i \in 1 .. n : f[i] = g[i]}
             rank == [i \in 1 .. n |-> i]
  <2>2. rank \in [1 .. n -> 0 .. n]
    OBVIOUS
  <2>3. ASSUME NEW i \in 1 .. n, \A m \in 1 .. n : rank[m] < rank[i] => m \in P PROVE i \in P
    <3>1. i \in 1 .. Len(t) /\ t[i] = s[i]
      BY <1>1, <1>2
    <3>2. i # 1 => i - 1 \in 1 .. n /\ rank[i - 1] < rank[i]
      BY <1>1
    <3>3. i # 1 => f[i - 1] = g[i - 1]
      BY <2>3, <3>2
    <3>4. /\ f[i] = IF i = 1 THEN t[i] ELSE f[i - 1] \o t[i]
          /\ g[i] = IF i = 1 THEN s[i] ELSE g[i - 1] \o s[i]
      BY <1>3, <2>1, <3>1
    <3>5. f[i] = g[i]
      BY <3>1, <3>3, <3>4, Zenon
    <3> QED BY <3>5
  <2>4. \A i \in 1 .. n : i \in P
    <3> HIDE DEF P, rank
    <3> QED BY <1>1, <2>2, <2>3, RankInduction
  <2>5. n \in 1 .. n /\ n + 1 \in 1 .. Len(t) /\ n + 1 # 1 /\ (n + 1) - 1 = n
    BY <1>1, <1>5
  <2>6. f[n] = g[n] /\ f[n + 1] = f[n] \o t[n + 1]
    BY <1>3, <2>4, <2>5
  <2> QED BY <1>1, <1>2, <1>3, <2>1, <2>6 DEF t
<1> QED BY <1>4, <1>5

-----------------------------------------------------------------------------
(* The spelling of a place. *)

LEMMA SeqWidens ==
  ASSUME NEW A, NEW B, A \subseteq B, NEW s \in Seq(A)
  PROVE  s \in Seq(B)
OBVIOUS

LEMMA ReplaceTyped ==
  ASSUME NEW C, NEW s \in Seq(C), NEW c, NEW by \in Seq(C)
  PROVE  Replace(s, c, by) \in Seq(C)
<1> DEFINE parts == [i \in DOMAIN s |-> IF s[i] = c THEN by ELSE <<s[i]>>]
<1>1. DOMAIN s = 1 .. Len(s) /\ Len(s) \in Nat /\ \A i \in 1 .. Len(s) : s[i] \in C
  OBVIOUS
<1>2. \A i \in 1 .. Len(s) : <<s[i]>> \in Seq(C)
  BY <1>1
<1>3. \A i \in DOMAIN s : (IF s[i] = c THEN by ELSE <<s[i]>>) \in Seq(C)
  BY <1>1, <1>2
<1>4. parts \in Seq(Seq(C))
  BY <1>1, <1>3
<1> HIDE DEF parts
<1>5. FlattenSeq(parts) \in Seq(C)
  BY <1>4, FlattenTyped
<1> QED BY <1>5 DEF Replace, parts

LEMMA TokenTyped ==
  ASSUME NEW key \in Segments
  PROVE  Token(key) \in Texts /\ Token(key) # <<>>
<1> DEFINE rest == CASE key \in Items -> Decimal(key.index)
                     [] key = Unknown -> <<"?">>
                     [] OTHER -> Escape(key.name)
<1>1. \A x \in Characters : <<x>> \in Texts
  BY DEF Texts
<1>2. ASSUME key \in Items PROVE rest \in Texts
  <2>1. PICK i \in Indices : key = [index |-> i]
    BY <1>2 DEF Items, Item
  <2>2. Numerals[key.index + 1] \in Characters
    <3>1. key.index + 1 \in 1 .. 10
      BY <2>1, Digits
    <3> QED BY <3>1, Zenon DEF Characters
  <2>3. Decimal(key.index) \in Texts
    BY <1>1, <2>2, Zenon DEF Decimal
  <2>4. key # Unknown
    <3>1. DOMAIN [index |-> i] # DOMAIN [unknown |-> TRUE]
      OBVIOUS
    <3> QED BY <2>1, <3>1 DEF Unknown
  <2> QED BY <1>2, <2>3, <2>4
<1>3. ASSUME key \notin Items, key = Unknown PROVE rest \in Texts
  <2>1. "?" \in Characters
    BY DEF Characters
  <2> QED BY <1>1, <1>3, <2>1
<1>4. ASSUME key \notin Items, key # Unknown PROVE rest \in Texts
  <2>1. PICK n \in Names : key = [name |-> n]
    BY <1>4 DEF Segments, Fields, Field
  <2>2. key.name \in Texts
    <3>1. n \in Seq(STRING) /\ STRING \subseteq Characters
      BY NamesAreTexts DEF Characters
    <3>2. n \in Texts
      BY <3>1, SeqWidens DEF Texts
    <3> QED BY <2>1, <3>2
  <2>3. <<"~", "0">> \in Texts /\ <<"~", "1">> \in Texts
    <3>1. \A x, y \in Characters : <<x, y>> \in Texts
      BY DEF Texts
    <3>2. "~" \in Characters /\ Numerals[1] \in Characters /\ Numerals[2] \in Characters
      BY DEF Characters
    <3>3. Numerals[1] = "0" /\ Numerals[2] = "1"
      BY DEF Numerals
    <3> QED BY <3>1, <3>2, <3>3
  <2>4. Replace(key.name, "~", <<"~", "0">>) \in Texts
    BY <2>2, <2>3, ReplaceTyped DEF Texts
  <2>5. Escape(key.name) \in Texts
    <3> DEFINE e == Replace(key.name, "~", <<"~", "0">>)
    <3>1. e \in Texts
      BY <2>4
    <3> HIDE DEF e
    <3>2. Replace(e, "/", <<"~", "1">>) \in Texts
      BY <2>3, <3>1, ReplaceTyped DEF Texts
    <3> QED BY <3>2 DEF Escape, e
  <2> QED BY <1>4, <2>5
<1>5. rest \in Texts
  BY <1>2, <1>3, <1>4
<1>6. Token(key) = <<"/">> \o rest
  BY DEF Token
<1>7. <<"/">> \in Texts /\ <<"/">> # <<>>
  <2>1. "/" \in Characters
    BY DEF Characters
  <2> QED BY <1>1, <2>1
<1> HIDE DEF rest
<1> QED BY <1>5, <1>6, <1>7 DEF Texts

LEMMA PointerIs ==
  ASSUME NEW at \in Seq(Segments)
  PROVE  /\ JsonPointer(<<>>) = <<>>
         /\ JsonPointer(at) \in Texts
         /\ \A key \in Segments : JsonPointer(Append(at, key)) = JsonPointer(at) \o Token(key)
<1> DEFINE tokens(p) == [i \in DOMAIN p |-> Token(p[i])]
<1>1. JsonPointer(<<>>) = <<>>
  <2>1. tokens(<<>>) = <<>>
    OBVIOUS
  <2> QED BY <2>1, FlattenEmpty DEF JsonPointer
<1>2. DOMAIN at = 1 .. Len(at) /\ Len(at) \in Nat /\ \A i \in 1 .. Len(at) : Token(at[i]) \in Texts
  BY TokenTyped
<1>3. tokens(at) \in Seq(Texts)
  BY <1>2
<1>4. JsonPointer(at) \in Texts
  <2> HIDE DEF tokens
  <2>1. FlattenSeq(tokens(at)) \in Texts
    BY <1>3, FlattenTyped DEF Texts
  <2> QED BY <2>1 DEF JsonPointer, tokens
<1>5. ASSUME NEW key \in Segments PROVE JsonPointer(Append(at, key)) = JsonPointer(at) \o Token(key)
  <2>1. DOMAIN Append(at, key) = 1 .. Len(at) + 1
    OBVIOUS
  <2>2. \A i \in 1 .. Len(at) : Append(at, key)[i] = at[i]
    OBVIOUS
  <2>3. Append(at, key)[Len(at) + 1] = key
    OBVIOUS
  <2>4. tokens(Append(at, key)) = Append(tokens(at), Token(key))
    <3> DEFINE l == tokens(Append(at, key))
               r == Append(tokens(at), Token(key))
    <3>1. DOMAIN l = 1 .. Len(at) + 1 /\ DOMAIN r = 1 .. Len(at) + 1
      BY <1>2, <1>3, <2>1
    <3>2. \A i \in 1 .. Len(at) : l[i] = Token(at[i]) /\ r[i] = Token(at[i])
      BY <1>2, <1>3, <2>1, <2>2
    <3>3. l[Len(at) + 1] = Token(key) /\ r[Len(at) + 1] = Token(key)
      BY <1>2, <1>3, <2>1, <2>3
    <3>4. \A i \in 1 .. Len(at) + 1 : l[i] = r[i]
      <4> HIDE DEF l, r
      <4> QED BY <1>2, <3>2, <3>3
    <3>5. l = [i \in DOMAIN l |-> l[i]] /\ r = [i \in DOMAIN r |-> r[i]]
      BY <1>3
    <3> HIDE DEF l, r
    <3>6. l = r
      BY <3>1, <3>4, <3>5
    <3> QED BY <3>6 DEF l, r
  <2>5. Token(key) \in Texts
    BY TokenTyped
  <2> HIDE DEF tokens
  <2>6. FlattenSeq(Append(tokens(at), Token(key))) = FlattenSeq(tokens(at)) \o Token(key)
    BY <1>3, <2>5, FlattenAppend DEF Texts
  <2> QED BY <2>4, <2>6 DEF JsonPointer, tokens
<1> QED BY <1>1, <1>4, <1>5

LEMMA PlacePointer ==
  ASSUME NEW at \in Seq(Fields \cup Items)
  PROVE  /\ JsonPointer(<<>>) = <<>>
         /\ JsonPointer(at) \in Texts
         /\ Len(JsonPointer(at)) \in Nat
         /\ \A key \in Fields \cup Items :
              /\ Append(at, key) \in Seq(Fields \cup Items)
              /\ JsonPointer(Append(at, key)) = JsonPointer(at) \o Token(key)
              /\ Token(key) \in Texts
              /\ Len(JsonPointer(at)) <= Len(JsonPointer(Append(at, key)))
<1>1. at \in Seq(Segments) /\ Fields \cup Items \subseteq Segments
  <2>1. Fields \cup Items \subseteq Segments
    BY DEF Segments
  <2> QED BY <2>1, SeqWidens
<1>2. JsonPointer(<<>>) = <<>> /\ JsonPointer(at) \in Texts
  BY <1>1, PointerIs
<1>3. ASSUME NEW s \in Texts PROVE Len(s) \in Nat /\ \A t \in Texts : Len(s) <= Len(s \o t)
  BY DEF Texts
<1>4. ASSUME NEW key \in Fields \cup Items
      PROVE  /\ JsonPointer(Append(at, key)) = JsonPointer(at) \o Token(key)
             /\ Token(key) \in Texts
             /\ Len(JsonPointer(at)) <= Len(JsonPointer(Append(at, key)))
  <2>1. JsonPointer(Append(at, key)) = JsonPointer(at) \o Token(key) /\ Token(key) \in Texts
    BY <1>1, PointerIs, TokenTyped
  <2> QED BY <1>2, <1>3, <2>1
<1>5. \A key \in Fields \cup Items : Append(at, key) \in Seq(Fields \cup Items)
  OBVIOUS
<1> QED BY <1>2, <1>3, <1>4, <1>5

-----------------------------------------------------------------------------
(* Stacks of loops. *)

LEMMA ConsIs ==
  ASSUME NEW S, NEW x \in S, NEW s \in Seq(S)
  PROVE  /\ <<x>> \o s \in Seq(S) /\ Len(<<x>> \o s) = Len(s) + 1 /\ <<x>> \o s # <<>>
         /\ Head(<<x>> \o s) = x /\ (<<x>> \o s)[1] = x
         /\ \A i \in 1 .. Len(s) : (<<x>> \o s)[i + 1] = s[i]
OBVIOUS

LEMMA TailIs ==
  ASSUME NEW S, NEW s \in Seq(S), s # <<>>
  PROVE  /\ Tail(s) \in Seq(S) /\ Len(Tail(s)) = Len(s) - 1 /\ Len(s) \in Nat \ {0}
         /\ Head(s) = s[1] /\ s[1] \in S
         /\ \A i \in 1 .. Len(s) - 1 : Tail(s)[i] = s[i + 1]
OBVIOUS

LEMMA StackedTail ==
  ASSUME NEW fs, Stacked(fs), fs # <<>>
  PROVE  /\ Stacked(Tail(fs))
         /\ Tail(fs) = <<>> <=> Len(fs) = 1
         /\ Tail(fs) # <<>> => Inside(Head(fs), Head(Tail(fs)))
<1> DEFINE gs == Tail(fs)
           n == Len(fs)
<1>1. fs \in Seq(Loops)
  BY DEF Stacked
<1>2. /\ gs \in Seq(Loops) /\ Len(gs) = n - 1 /\ n \in Nat \ {0} /\ Head(fs) = fs[1]
      /\ \A i \in 1 .. n - 1 : gs[i] = fs[i + 1]
  BY <1>1, TailIs
<1>3. /\ fs[n].at = <<>> /\ fs[n].base = 0
      /\ \A i \in 1 .. n - 1 : Inside(fs[i], fs[i + 1])
      /\ \A i, j \in 1 .. n : i <= j => Len(JsonPointer(fs[j].at)) <= Len(JsonPointer(fs[i].at))
  BY DEF Stacked
<1> HIDE DEF gs, n
<1>4. gs = <<>> <=> n = 1
  BY <1>2
<1>5. gs # <<>> => gs[Len(gs)] = fs[n] /\ Head(gs) = fs[2]
  BY <1>2, <1>4
<1>6. \A i \in 1 .. Len(gs) - 1 : Inside(gs[i], gs[i + 1])
  <2>1. ASSUME NEW i \in 1 .. Len(gs) - 1 PROVE Inside(gs[i], gs[i + 1])
    <3>1. /\ i \in 1 .. n - 1 /\ i + 1 \in 1 .. n - 1
          /\ gs[i] = fs[i + 1] /\ gs[i + 1] = fs[(i + 1) + 1]
      BY <1>2
    <3>2. Inside(fs[i + 1], fs[(i + 1) + 1])
      BY <1>3, <3>1
    <3> QED BY <3>1, <3>2
  <2> QED BY <2>1
<1>7. \A i, j \in 1 .. Len(gs) : i <= j => Len(JsonPointer(gs[j].at)) <= Len(JsonPointer(gs[i].at))
  <2>1. ASSUME NEW i \in 1 .. Len(gs), NEW j \in 1 .. Len(gs), i <= j
        PROVE  Len(JsonPointer(gs[j].at)) <= Len(JsonPointer(gs[i].at))
    <3>1. i + 1 \in 1 .. n /\ j + 1 \in 1 .. n /\ i + 1 <= j + 1 /\ gs[i] = fs[i + 1] /\ gs[j] = fs[j + 1]
      BY <1>2, <2>1
    <3> QED BY <1>3, <3>1
  <2> QED BY <2>1
<1>8. n # 1 => Inside(fs[1], fs[2])
  <2>1. n # 1 => 1 \in 1 .. n - 1 /\ 1 + 1 = 2
    BY <1>2
  <2> QED BY <1>3, <2>1
<1>9. Stacked(gs)
  BY <1>2, <1>3, <1>5, <1>6, <1>7 DEF Stacked
<1> QED BY <1>2, <1>4, <1>5, <1>8, <1>9 DEF gs, n

LEMMA StackedCons ==
  ASSUME NEW fs, Stacked(fs), fs # <<>>, NEW f \in Loops, Inside(f, Head(fs))
  PROVE  Stacked(<<f>> \o fs)
<1> DEFINE gs == <<f>> \o fs
           n == Len(fs)
<1>1. fs \in Seq(Loops) /\ n \in Nat \ {0} /\ Head(fs) = fs[1] /\ fs[1] \in Loops
  BY TailIs DEF Stacked
<1>2. gs \in Seq(Loops) /\ Len(gs) = n + 1 /\ gs[1] = f /\ \A i \in 1 .. n : gs[i + 1] = fs[i]
  BY <1>1, ConsIs
<1>3. /\ fs[n].at = <<>> /\ fs[n].base = 0
      /\ \A i \in 1 .. n - 1 : Inside(fs[i], fs[i + 1])
      /\ \A i, j \in 1 .. n : i <= j => Len(JsonPointer(fs[j].at)) <= Len(JsonPointer(fs[i].at))
  BY DEF Stacked
<1> HIDE DEF gs, n
<1>4. gs[Len(gs)] = fs[n]
  BY <1>1, <1>2
<1>5. ASSUME NEW i \in 2 .. n + 1 PROVE i - 1 \in 1 .. n /\ gs[i] = fs[i - 1]
  <2>1. i - 1 \in 1 .. n /\ (i - 1) + 1 = i
    BY <1>1
  <2> QED BY <1>2, <2>1
<1>6. \A i \in 1 .. Len(gs) - 1 : Inside(gs[i], gs[i + 1])
  <2>1. ASSUME NEW i \in 1 .. Len(gs) - 1 PROVE Inside(gs[i], gs[i + 1])
    <3>1. i \in 1 .. n /\ gs[i + 1] = fs[i]
      BY <1>1, <1>2
    <3>2. CASE i = 1
      BY <1>1, <1>2, <3>1, <3>2
    <3>3. CASE i # 1
      <4>1. i \in 2 .. n + 1 /\ i - 1 \in 1 .. n - 1 /\ (i - 1) + 1 = i
        BY <1>1, <3>1, <3>3
      <4> QED BY <1>3, <1>5, <3>1, <4>1
    <3> QED BY <3>2, <3>3
  <2> QED BY <2>1
<1>7. Len(JsonPointer(fs[1].at)) <= Len(JsonPointer(f.at))
  <2>1. PICK key \in Fields \cup Items : f.at = Append(fs[1].at, key)
    BY <1>1 DEF Inside
  <2>2. fs[1].at \in Seq(Fields \cup Items)
    BY <1>1 DEF Loops
  <2> QED BY <2>1, <2>2, PlacePointer
<1>8. \A i \in 1 .. n + 1 : gs[i].at \in Seq(Fields \cup Items) /\ Len(JsonPointer(gs[i].at)) \in Nat
  <2>1. \A i \in 1 .. n + 1 : gs[i] \in Loops
    BY <1>1, <1>2
  <2>2. \A i \in 1 .. n + 1 : gs[i].at \in Seq(Fields \cup Items)
    BY <2>1 DEF Loops
  <2> QED BY <2>2, PlacePointer
<1>9. \A i, j \in 1 .. Len(gs) : i <= j => Len(JsonPointer(gs[j].at)) <= Len(JsonPointer(gs[i].at))
  <2>1. ASSUME NEW i \in 1 .. Len(gs), NEW j \in 1 .. Len(gs), i <= j
        PROVE  Len(JsonPointer(gs[j].at)) <= Len(JsonPointer(gs[i].at))
    <3>1. CASE j = 1
      <4>1. i = 1
        BY <1>1, <1>2, <2>1, <3>1
      <4> QED BY <1>1, <1>8, <3>1, <4>1
    <3>2. CASE j # 1 /\ i # 1
      <4>1. i \in 2 .. n + 1 /\ j \in 2 .. n + 1 /\ i - 1 <= j - 1
        BY <1>1, <1>2, <2>1, <3>2
      <4> QED BY <1>3, <1>5, <4>1
    <3>3. CASE j # 1 /\ i = 1
      <4>1. j \in 2 .. n + 1 /\ 1 \in 1 .. n /\ 1 <= j - 1
        BY <1>1, <1>2, <3>3
      <4>2. gs[j] = fs[j - 1] /\ j - 1 \in 1 .. n
        BY <1>5, <4>1
      <4>3. Len(JsonPointer(fs[j - 1].at)) <= Len(JsonPointer(fs[1].at))
        BY <1>3, <4>1, <4>2
      <4>4. /\ Len(JsonPointer(fs[j - 1].at)) \in Nat /\ Len(JsonPointer(f.at)) \in Nat
            /\ Len(JsonPointer(fs[1].at)) \in Nat
        <5>1. fs[1].at \in Seq(Fields \cup Items)
          BY <1>1 DEF Loops
        <5> QED BY <1>1, <1>2, <1>8, <4>1, <4>2, <5>1, PlacePointer
      <4> QED BY <1>2, <1>7, <3>3, <4>2, <4>3, <4>4
    <3> QED BY <3>1, <3>2, <3>3
  <2> QED BY <2>1
<1>10. Stacked(gs)
  BY <1>2, <1>3, <1>4, <1>6, <1>9 DEF Stacked
<1> QED BY <1>10 DEF gs

\* Where a loop is and what it cuts to stay; what is left of it does not.
LEMMA StackedTaken ==
  ASSUME NEW fs, Stacked(fs), fs # <<>>, NEW f \in Loops, f.at = Head(fs).at, f.base = Head(fs).base
  PROVE  /\ Stacked(<<f>> \o Tail(fs)) /\ <<f>> \o Tail(fs) # <<>>
         /\ Head(<<f>> \o Tail(fs)) = f
         /\ Len(<<f>> \o Tail(fs)) = Len(fs)
         /\ \A i \in 2 .. Len(fs) : (<<f>> \o Tail(fs))[i] = fs[i]
<1> DEFINE gs == <<f>> \o Tail(fs)
           n == Len(fs)
<1>1. /\ fs \in Seq(Loops) /\ n \in Nat \ {0} /\ Head(fs) = fs[1] /\ Tail(fs) \in Seq(Loops)
      /\ Len(Tail(fs)) = n - 1 /\ \A i \in 1 .. n - 1 : Tail(fs)[i] = fs[i + 1]
  BY TailIs DEF Stacked
<1>2. /\ gs \in Seq(Loops) /\ Len(gs) = n /\ gs # <<>> /\ Head(gs) = f /\ gs[1] = f
      /\ \A i \in 1 .. n - 1 : gs[i + 1] = Tail(fs)[i]
  BY <1>1, ConsIs
<1>3. /\ fs[n].at = <<>> /\ fs[n].base = 0
      /\ \A i \in 1 .. n - 1 : Inside(fs[i], fs[i + 1])
      /\ \A i, j \in 1 .. n : i <= j => Len(JsonPointer(fs[j].at)) <= Len(JsonPointer(fs[i].at))
  BY DEF Stacked
<1> HIDE DEF gs, n
<1>4. \A i \in 2 .. n : gs[i] = fs[i]
  <2>1. ASSUME NEW i \in 2 .. n PROVE gs[i] = fs[i]
    <3>1. i - 1 \in 1 .. n - 1 /\ (i - 1) + 1 = i
      BY <1>1
    <3> QED BY <1>1, <1>2, <3>1
  <2> QED BY <2>1
<1>5. \A i \in 1 .. n : gs[i].at = fs[i].at /\ gs[i].base = fs[i].base
  <2>1. ASSUME NEW i \in 1 .. n PROVE gs[i].at = fs[i].at /\ gs[i].base = fs[i].base
    <3>1. CASE i = 1
      BY <1>1, <1>2, <3>1
    <3>2. CASE i # 1
      <4>1. i \in 2 .. n
        BY <1>1, <3>2
      <4> QED BY <1>4, <4>1
    <3> QED BY <3>1, <3>2
  <2> QED BY <2>1
<1>6. \A i \in 1 .. n - 1 : Inside(gs[i], gs[i + 1])
  <2>1. ASSUME NEW i \in 1 .. n - 1 PROVE Inside(gs[i], gs[i + 1])
    <3>1. i \in 1 .. n /\ i + 1 \in 1 .. n
      BY <1>1
    <3>2. gs[i].at = fs[i].at /\ gs[i].base = fs[i].base /\ gs[i + 1].at = fs[i + 1].at
      BY <1>5, <3>1
    <3>3. Inside(fs[i], fs[i + 1])
      BY <1>3
    <3> QED BY <3>2, <3>3 DEF Inside
  <2> QED BY <2>1
<1>7. \A i, j \in 1 .. n : i <= j => Len(JsonPointer(gs[j].at)) <= Len(JsonPointer(gs[i].at))
  BY <1>3, <1>5
<1>8. gs[n].at = <<>> /\ gs[n].base = 0
  <2>1. n \in 1 .. n
    BY <1>1
  <2> QED BY <1>3, <1>5, <2>1
<1>9. Stacked(gs)
  BY <1>2, <1>6, <1>7, <1>8 DEF Stacked
<1> QED BY <1>2, <1>4, <1>9 DEF gs, n

LEMMA StackedFirst ==
  ASSUME NEW f \in Loops, f.at = <<>>, f.base = 0
  PROVE  Stacked(<<f>>)
<1>1. <<f>> \in Seq(Loops) /\ Len(<<f>>) = 1 /\ <<f>>[1] = f
  OBVIOUS
<1>2. Len(JsonPointer(f.at)) \in Nat
  <2>1. f.at \in Seq(Fields \cup Items)
    BY DEF Loops
  <2> QED BY <2>1, PlacePointer
<1>3. \A i, j \in 1 .. 1 : i <= j => Len(JsonPointer(<<f>>[j].at)) <= Len(JsonPointer(<<f>>[i].at))
  <2>1. \A i \in 1 .. 1 : <<f>>[i] = f
    BY <1>1
  <2>2. \A i \in 1 .. 1 : Len(JsonPointer(<<f>>[i].at)) = Len(JsonPointer(f.at))
    BY <2>1
  <2> QED BY <1>2, <2>2
<1>4. \A i \in 1 .. Len(<<f>>) - 1 : FALSE
  BY <1>1
<1> QED BY <1>1, <1>3, <1>4 DEF Stacked

-----------------------------------------------------------------------------
(* The tree. *)

TreeInv ==
  /\ broken \in ParsePaths \cup {None}
  /\ DOMAIN tree \subseteq Paths /\ OneKind(DOMAIN tree)
  /\ \A p \in DOMAIN tree : tree[p] \in RuleLists
  /\ broken # None => DOMAIN tree = {}

LEMMA PathsAre ==
  ASSUME NEW p \in Paths
  PROVE  p \in Seq(Fields \cup Items) /\ p # <<>>
<1>1. CASE p \in {<<f>> : f \in Fields}
  <2>1. PICK f \in Fields : p = <<f>>
    BY <1>1
  <2> QED BY <2>1
<1>2. CASE p \in Fields \X Fields
  <2>1. PICK f \in Fields, g \in Fields : p = <<f, g>>
    BY <1>2
  <2> QED BY <2>1
<1>3. CASE p \in Fields \X Items \X Fields
  <2>1. PICK f \in Fields, i \in Items, g \in Fields : p = <<f, i, g>>
    BY <1>3
  <2> QED BY <2>1
<1> QED BY <1>1, <1>2, <1>3 DEF Paths

LEMMA InitTree == ASSUME Init PROVE TreeInv
<1>1. CASE broken = None /\ tree \in Trees
  <2>1. PICK P \in {{}} \cup {Q \in {{p, q, r} : p, q, r \in Paths} : OneKind(Q)} : tree \in [P -> RuleLists]
    BY <1>1 DEF Trees
  <2>2. P \subseteq Paths /\ OneKind(P)
    <3>1. CASE P = {}
      BY <3>1 DEF OneKind
    <3>2. CASE P # {}
      <4>1. OneKind(P) /\ \E p, q, r \in Paths : P = {p, q, r}
        BY <2>1, <3>2
      <4> QED BY <4>1
    <3> QED BY <3>1, <3>2
  <2>3. DOMAIN tree = P /\ \A p \in P : tree[p] \in RuleLists
    BY <2>1
  <2> QED BY <1>1, <2>2, <2>3 DEF TreeInv
<1>2. CASE broken \in ParsePaths /\ tree = <<>>
  <2>1. DOMAIN tree = {}
    BY <1>2
  <2>2. OneKind({})
    BY DEF OneKind
  <2> QED BY <1>2, <2>1, <2>2 DEF TreeInv
<1> QED BY <1>1, <1>2 DEF Init

\* No place is inside another.
LEMMA NothingBeyond ==
  ASSUME TreeInv, NEW p \in DOMAIN tree, NEW q \in DOMAIN tree, IsPrefix(q, p)
  PROVE  p = q
<1>1. p \in Seq(Fields \cup Items) /\ q \in Seq(Fields \cup Items)
  BY PathsAre DEF TreeInv
<1>2. Len(p) \in Nat /\ Len(q) \in Nat /\ Len(q) <= Len(p) /\ SubSeq(q, 1, Len(q)) = SubSeq(p, 1, Len(q))
  BY <1>1 DEF IsPrefix
<1>3. Len(p) = Len(q)
  <2>1. SUFFICES ASSUME Len(q) + 1 <= Len(p) PROVE FALSE
    BY <1>2
  <2> DEFINE k == Len(q) + 1
             s == SubSeq(p, 1, k - 1)
  <2>2. k \in DOMAIN p /\ k - 1 = Len(q)
    BY <1>1, <1>2, <2>1
  <2>3. s = q
    <3>1. SubSeq(q, 1, Len(q)) = q
      BY <1>1
    <3> QED BY <1>2, <2>2, <3>1
  <2>4. IsPrefix(s, q)
    BY <1>1, <1>2, <2>3 DEF IsPrefix
  <2>5. k <= Len(q)
    BY <2>2, <2>4 DEF TreeInv, OneKind
  <2> QED BY <1>2, <2>5
<1>4. SubSeq(q, 1, Len(q)) = q /\ SubSeq(p, 1, Len(p)) = p
  BY <1>1
<1> QED BY <1>2, <1>3, <1>4

LEMMA ParsePathsAre ==
  ASSUME NEW p \in ParsePaths
  PROVE  p \in Seq(Segments)
<1>1. Fields \cup Items \subseteq Segments /\ Unknown \in Segments
  BY DEF Segments
<1>2. ASSUME NEW q \in {<<>>} \cup Paths PROVE q \in Seq(Segments)
  <2>1. CASE q = <<>>
    BY <2>1
  <2>2. CASE q \in Paths
    BY <1>1, <2>2, PathsAre, SeqWidens
  <2> QED BY <2>1, <2>2
<1>3. CASE p \in {<<>>} \cup Paths
  BY <1>2, <1>3
<1>4. CASE p \in Fields \X Items
  <2>1. PICK f \in Fields, i \in Items : p = <<f, i>>
    BY <1>4
  <2> QED BY <1>1, <2>1
<1>5. CASE p \in {Append(q, Unknown) : q \in {<<>>} \cup Paths}
  <2>1. PICK q \in {<<>>} \cup Paths : p = Append(q, Unknown)
    BY <1>5
  <2>2. q \in Seq(Segments)
    BY <1>2
  <2> QED BY <1>1, <2>1, <2>2
<1> QED BY <1>3, <1>4, <1>5 DEF ParsePaths

LEMMA KeysAre ==
  ASSUME TreeInv, NEW at \in Seq(Fields \cup Items)
  PROVE  /\ Keys(at) \subseteq Fields \cup Items
         /\ \A p \in DOMAIN tree : IsStrictPrefix(at, p) => p[Len(at) + 1] \in Keys(at)
<1>1. ASSUME NEW p \in DOMAIN tree, IsStrictPrefix(at, p) PROVE p[Len(at) + 1] \in Fields \cup Items
  <2>1. p \in Seq(Fields \cup Items)
    BY PathsAre DEF TreeInv
  <2>2. Len(at) \in Nat /\ Len(p) \in Nat /\ Len(at) <= Len(p) /\ at # p
        /\ SubSeq(at, 1, Len(at)) = SubSeq(p, 1, Len(at))
    BY <1>1, <2>1 DEF IsStrictPrefix, IsPrefix
  <2>3. SubSeq(at, 1, Len(at)) = at /\ SubSeq(p, 1, Len(p)) = p
    BY <2>1
  <2>4. Len(at) # Len(p)
    BY <2>2, <2>3
  <2>5. Len(at) + 1 \in 1 .. Len(p)
    BY <2>2, <2>4
  <2> QED BY <2>1, <2>5
<1> QED BY <1>1 DEF Keys

\* What is below a place and begins with `key` is at or below that key's place.
LEMMA PrefixExtends ==
  ASSUME NEW S, NEW at \in Seq(S), NEW p \in Seq(S), IsStrictPrefix(at, p)
  PROVE  IsPrefix(Append(at, p[Len(at) + 1]), p)
<1> DEFINE n == Len(at)
           key == p[n + 1]
           here == Append(at, key)
<1>1. n \in Nat /\ Len(p) \in Nat /\ n <= Len(p) /\ at # p /\ SubSeq(at, 1, n) = SubSeq(p, 1, n)
  BY DEF IsStrictPrefix, IsPrefix
<1>2. SubSeq(at, 1, n) = at /\ SubSeq(p, 1, Len(p)) = p
  OBVIOUS
<1>3. n # Len(p)
  BY <1>1, <1>2
<1>4. n + 1 \in 1 .. Len(p) /\ key \in S
  BY <1>1, <1>3
<1>5. here \in Seq(S) /\ Len(here) = n + 1 /\ here[n + 1] = key /\ \A i \in 1 .. n : here[i] = at[i]
  BY <1>4
<1>6. \A i \in 1 .. n : at[i] = p[i]
  <2>1. ASSUME NEW i \in 1 .. n PROVE at[i] = p[i]
    <3>1. SubSeq(p, 1, n)[i] = p[i]
      BY <1>1
    <3> QED BY <1>1, <1>2, <3>1
  <2> QED BY <2>1
<1> HIDE DEF here, key, n
<1>7. \A i \in 1 .. n + 1 : here[i] = p[i]
  <2>1. ASSUME NEW i \in 1 .. n + 1 PROVE here[i] = p[i]
    <3>1. i \in 1 .. n \/ i = n + 1
      BY <1>1
    <3> QED BY <1>5, <1>6, <3>1 DEF key
  <2> QED BY <2>1
<1>8. SubSeq(here, 1, n + 1) = SubSeq(p, 1, n + 1)
  <2>1. SubSeq(here, 1, n + 1) = [i \in 1 .. n + 1 |-> here[i]]
    BY <1>1, <1>5
  <2>2. SubSeq(p, 1, n + 1) = [i \in 1 .. n + 1 |-> p[i]]
    BY <1>1, <1>4
  <2> QED BY <1>7, <2>1, <2>2
<1>9. IsPrefix(here, p)
  BY <1>4, <1>5, <1>8 DEF IsPrefix
<1> QED BY <1>9 DEF here, key, n

LEMMA CutBack ==
  ASSUME NEW C, NEW s \in Seq(C), NEW t \in Seq(C)
  PROVE  SubSeq(s \o t, 1, Len(s)) = s
<1>1. s \o t \in Seq(C) /\ Len(s) \in Nat /\ Len(s) <= Len(s \o t) /\ \A i \in 1 .. Len(s) : (s \o t)[i] = s[i]
  OBVIOUS
<1>2. SubSeq(s \o t, 1, Len(s)) = [i \in 1 .. Len(s) |-> (s \o t)[i]]
  BY <1>1
<1>3. s = [i \in 1 .. Len(s) |-> s[i]]
  OBVIOUS
<1> QED BY <1>1, <1>2, <1>3

-----------------------------------------------------------------------------
(* The walk. *)

Entries == [code : Codes, pointer : Texts \cup {None}]

IInv ==
  /\ TreeInv
  /\ answer \in {"none", "accepted", "rejected"}
  /\ output \in Seq(Entries)
  /\ WalkInv

LEMMA InitIInv == ASSUME Init PROVE IInv
<1>1. TreeInv
  BY InitTree
<1>2. frames = <<>> /\ prefix = <<>> /\ output = <<>> /\ answer = "none"
  BY DEF Init
<1>3. Stacked(<<>>)
  <2>1. <<>> \in Seq(Loops) /\ Len(<<>>) = 0
    OBVIOUS
  <2> QED BY <2>1 DEF Stacked
<1>4. Stacked(frames)
  BY <1>2, <1>3
<1>5. NothingForgotten
  BY <1>2 DEF NothingForgotten
<1>6. DOMAIN output = {}
  BY <1>2
<1>7. NothingInvented
  BY <1>6 DEF NothingInvented
<1>8. output \in Seq(Entries)
  BY <1>2
<1>9. WalkInv
  BY <1>2, <1>4, <1>5, <1>7 DEF WalkInv
<1> QED BY <1>1, <1>2, <1>8, <1>9 DEF IInv

LEMMA EntriesTyped ==
  ASSUME TreeInv, NEW p \in DOMAIN tree
  PROVE  /\ p \in Seq(Fields \cup Items)
         /\ Len(tree[p]) \in Nat \ {0} /\ DOMAIN tree[p] = 1 .. Len(tree[p])
         /\ \A k \in DOMAIN tree[p] : Entry(p, k) \in Entries
<1>1. p \in Seq(Fields \cup Items) /\ tree[p] \in RuleLists
  BY PathsAre DEF TreeInv
<1>2. tree[p] # <<>> /\ tree[p] \in Seq(Range(tree[p]))
  BY <1>1, RulesAreListed
<1>3. Len(tree[p]) \in Nat \ {0} /\ DOMAIN tree[p] = 1 .. Len(tree[p])
  BY <1>2
<1>4. ASSUME NEW k \in DOMAIN tree[p] PROVE Entry(p, k) \in Entries
  <2>1. tree[p][k] \in Codes
    <3>1. tree[p][k] \in Range(tree[p])
      BY DEF Range
    <3> QED BY <1>1, <3>1 DEF Codes
  <2>2. JsonPointer(p) \in Texts
    BY <1>1, PlacePointer
  <2> QED BY <2>1, <2>2 DEF Entry, Entries
<1> QED BY <1>1, <1>3, <1>4

LEMMA StaysReported ==
  ASSUME NEW more \in Seq(Entries), output \in Seq(Entries), output' = output \o more, tree' = tree,
         NEW p, Reported(p)
  PROVE  Reported(p)'
<1>1. ASSUME NEW k \in DOMAIN tree[p] PROVE \E i \in DOMAIN output' : output'[i] = Entry(p, k)
  <2>1. PICK i \in DOMAIN output : output[i] = Entry(p, k)
    BY DEF Reported
  <2>2. i \in DOMAIN (output \o more) /\ (output \o more)[i] = output[i]
    OBVIOUS
  <2> QED BY <2>1, <2>2
<1>2. \A k : Entry(p, k)' = Entry(p, k)
  BY DEF Entry
<1> QED BY <1>1, <1>2 DEF Reported

LEMMA MalformedIInv == ASSUME IInv, Malformed PROVE IInv'
<1>1. /\ answer = "none" /\ broken # None /\ broken' = broken /\ tree' = tree /\ prefix' = prefix
      /\ frames' = frames /\ answer' = "rejected"
      /\ output' = <<[code |-> InvalidBody,
                      pointer |-> IF broken = <<>> THEN None ELSE JsonPointer(broken)]>>
  BY DEF Malformed
<1>2. TreeInv /\ WalkInv
  BY DEF IInv
<1>3. frames = <<>> /\ DOMAIN tree = {} /\ broken \in ParsePaths
  BY <1>1, <1>2 DEF TreeInv, WalkInv
<1>4. TreeInv'
  BY <1>1, <1>2 DEF TreeInv
<1> DEFINE e == [code |-> InvalidBody, pointer |-> IF broken = <<>> THEN None ELSE JsonPointer(broken)]
<1>5. e \in Entries /\ e.code = InvalidBody
  <2>1. JsonPointer(broken) \in Texts
    BY <1>3, ParsePathsAre, PointerIs
  <2>2. InvalidBody \in Codes
    BY DEF Codes
  <2> QED BY <2>1, <2>2 DEF Entries
<1> HIDE DEF e
<1>6. output' \in Seq(Entries) /\ output' # <<>> /\ \A i \in DOMAIN output' : output'[i].code = InvalidBody
  <2>1. output' = <<e>>
    BY <1>1 DEF e
  <2> QED BY <1>5, <2>1
<1>7. NothingForgotten'
  BY <1>1, <1>3 DEF NothingForgotten
<1>8. NothingInvented'
  BY <1>1, <1>6 DEF NothingInvented
<1>9. WalkInv'
  <2>1. Stacked(frames)' /\ prefix' = <<>> /\ frames' = <<>>
    BY <1>1, <1>2, <1>3 DEF WalkInv
  <2> QED BY <1>1, <1>6, <1>7, <1>8, <2>1 DEF WalkInv
<1> QED BY <1>1, <1>4, <1>6, <1>9 DEF IInv

LEMMA ValidateIInv == ASSUME IInv, Validate PROVE IInv'
<1>1. /\ answer = "none" /\ broken = None /\ frames = <<>> /\ broken' = broken /\ tree' = tree
      /\ prefix' = prefix /\ output' = output
  BY DEF Validate
<1>2. TreeInv /\ WalkInv /\ prefix = <<>> /\ NothingInvented
  BY <1>1 DEF IInv, WalkInv
<1>3. TreeInv' /\ NothingInvented' /\ output' \in Seq(Entries)
  <2>1. \A p, k : Entry(p, k)' = Entry(p, k)
    BY <1>1 DEF Entry
  <2>2. NothingInvented'
    BY <1>1, <1>2, <2>1 DEF NothingInvented
  <2>3. TreeInv'
    BY <1>1, <1>2 DEF TreeInv
  <2> QED BY <1>1, <2>2, <2>3 DEF IInv
<1>4. CASE DOMAIN tree = {} /\ answer' = "accepted" /\ UNCHANGED frames
  <2>1. NothingForgotten'
    BY <1>1, <1>4 DEF NothingForgotten
  <2>2. Stacked(frames)' /\ prefix' = <<>> /\ frames' = <<>>
    BY <1>1, <1>2, <1>4 DEF WalkInv
  <2>3. WalkInv'
    BY <1>1, <1>3, <1>4, <2>1, <2>2 DEF WalkInv
  <2> QED BY <1>3, <1>4, <2>3 DEF IInv
<1>5. CASE DOMAIN tree # {} /\ frames' = <<Frame(<<>>, 0)>> /\ UNCHANGED answer
  <2> DEFINE f == Frame(<<>>, 0)
  <2>1. <<>> \in Seq(Fields \cup Items)
    OBVIOUS
  <2>2. f \in Loops /\ f.at = <<>> /\ f.base = 0 /\ f.todo = Keys(<<>>)
    BY <1>2, <2>1, KeysAre DEF Frame, Loops
  <2> HIDE DEF f
  <2>3. frames' = <<f>>
    BY <1>5 DEF f
  <2>4. Stacked(frames)' /\ frames' # <<>> /\ 1 \in DOMAIN frames' /\ frames'[1] = f /\ Top' = f
    BY <2>2, <2>3, StackedFirst DEF Top
  <2>5. prefix' = JsonPointer(Top.at)'
    <3>1. JsonPointer(<<>>) = <<>>
      BY <2>1, PlacePointer
    <3> QED BY <1>1, <1>2, <2>2, <2>4, <3>1
  <2>6. ASSUME NEW p \in DOMAIN tree PROVE Awaits(f, p)
    <3>1. p \in Seq(Fields \cup Items) /\ p # <<>>
      BY <1>2, PathsAre DEF TreeInv
    <3>2. IsStrictPrefix(<<>>, p)
      BY <3>1 DEF IsStrictPrefix, IsPrefix
    <3>3. p[Len(<<>>) + 1] \in Keys(<<>>)
      BY <1>2, <2>1, <3>2, KeysAre
    <3> QED BY <2>2, <3>2, <3>3 DEF Awaits
  <2>7. NothingForgotten'
    <3>1. \A p \in DOMAIN tree' : \E i \in DOMAIN frames' : Awaits(frames'[i], p)
      BY <1>1, <2>4, <2>6
    <3> QED BY <3>1 DEF NothingForgotten
  <2>8. WalkInv'
    BY <1>1, <1>3, <1>5, <2>4, <2>5, <2>7 DEF WalkInv
  <2> QED BY <1>1, <1>3, <1>5, <2>8 DEF IInv
<1> QED BY <1>4, <1>5 DEF Validate

\* What a step of a loop finds, and what its two outcomes share.
LEMMA StepFinds ==
  ASSUME IInv, frames # <<>>, NEW key \in Due
  PROVE  /\ broken = None /\ answer = "none" /\ DOMAIN tree # {} /\ TreeInv
         /\ Stacked(frames) /\ Top = frames[1] /\ Top \in Loops /\ Top.at \in Seq(Fields \cup Items)
         /\ key \in Top.todo /\ key \in Fields \cup Items
         /\ prefix = JsonPointer(Top.at) /\ prefix \in Texts
         /\ Here(key) \in Seq(Fields \cup Items)
         /\ prefix \o Token(key) = JsonPointer(Here(key))
         /\ Stacked(Taken(key)) /\ Taken(key) # <<>> /\ Len(Taken(key)) = Len(frames) /\ Len(frames) \in Nat \ {0}
         /\ Head(Taken(key)) = [Top EXCEPT !.todo = @ \ {key}]
         /\ Taken(key)[1] = [Top EXCEPT !.todo = @ \ {key}]
         /\ \A i \in 2 .. Len(frames) : Taken(key)[i] = frames[i]
<1>1. /\ TreeInv /\ Stacked(frames) /\ broken = None /\ answer = "none" /\ DOMAIN tree # {}
      /\ prefix = JsonPointer(Top.at)
  BY DEF IInv, WalkInv
<1>2. Top = frames[1] /\ Top \in Loops /\ Len(frames) \in Nat \ {0}
  BY <1>1, TailIs DEF Stacked, Top
<1>3. Top.at \in Seq(Fields \cup Items) /\ Top.todo \subseteq Fields \cup Items
  BY <1>2 DEF Loops
<1>4. key \in Top.todo
  BY DEF Due
<1>5. /\ prefix \in Texts /\ Here(key) \in Seq(Fields \cup Items)
      /\ prefix \o Token(key) = JsonPointer(Here(key))
  BY <1>1, <1>3, <1>4, PlacePointer DEF Here
<1> DEFINE f == [Top EXCEPT !.todo = @ \ {key}]
<1>6. f \in Loops /\ f.at = Top.at /\ f.base = Top.base
  BY <1>2 DEF Loops
<1>7. Taken(key) = <<f>> \o Tail(frames) /\ Top = Head(frames)
  BY DEF Taken, Top
<1> HIDE DEF f
<1>8. /\ Stacked(<<f>> \o Tail(frames)) /\ <<f>> \o Tail(frames) # <<>>
      /\ Head(<<f>> \o Tail(frames)) = f /\ Len(<<f>> \o Tail(frames)) = Len(frames)
      /\ \A i \in 2 .. Len(frames) : (<<f>> \o Tail(frames))[i] = frames[i]
  BY <1>1, <1>6, <1>7, StackedTaken
<1>9. Taken(key)[1] = f
  <2>1. Taken(key) \in Seq(Loops)
    BY <1>7, <1>8 DEF Stacked
  <2> QED BY <1>7, <1>8, <2>1
<1> QED BY <1>1, <1>2, <1>3, <1>4, <1>5, <1>7, <1>8, <1>9 DEF f

\* Taking a key leaves every other place to the loop that it was left to; what is
\* at or below the key's place was waiting for the key.
LEMMA StillAwaited ==
  ASSUME IInv, frames # <<>>, NEW key \in Due, NEW p \in DOMAIN tree,
         NEW i \in DOMAIN frames, Awaits(frames[i], p)
  PROVE  IsPrefix(Here(key), p) \/ \E j \in 1 .. Len(frames) : Awaits(Taken(key)[j], p)
<1>1. /\ Top = frames[1] /\ Top \in Loops /\ Top.at \in Seq(Fields \cup Items) /\ Len(frames) \in Nat \ {0}
      /\ Taken(key)[1] = [Top EXCEPT !.todo = @ \ {key}]
      /\ \A j \in 2 .. Len(frames) : Taken(key)[j] = frames[j]
      /\ TreeInv /\ frames \in Seq(Loops)
  BY StepFinds DEF Stacked
<1>2. DOMAIN frames = 1 .. Len(frames)
  BY <1>1
<1>3. CASE i # 1
  BY <1>1, <1>2, <1>3
<1>4. CASE i = 1 /\ p[Len(Top.at) + 1] # key
  <2>1. [Top EXCEPT !.todo = @ \ {key}].at = Top.at /\ [Top EXCEPT !.todo = @ \ {key}].todo = Top.todo \ {key}
    BY <1>1 DEF Loops
  <2>2. IsStrictPrefix(Top.at, p) /\ p[Len(Top.at) + 1] \in Top.todo
    BY <1>1, <1>4 DEF Awaits
  <2>3. Awaits(Taken(key)[1], p)
    BY <1>1, <1>4, <2>1, <2>2 DEF Awaits
  <2> QED BY <1>1, <2>3
<1>5. CASE i = 1 /\ p[Len(Top.at) + 1] = key
  <2>1. IsStrictPrefix(Top.at, p)
    BY <1>1, <1>5 DEF Awaits
  <2>2. p \in Seq(Fields \cup Items)
    BY <1>1, PathsAre DEF TreeInv
  <2>3. IsPrefix(Append(Top.at, p[Len(Top.at) + 1]), p)
    BY <1>1, <2>1, <2>2, PrefixExtends
  <2> QED BY <1>5, <2>3 DEF Here
<1> QED BY <1>3, <1>4, <1>5

LEMMA ReportIInv ==
  ASSUME IInv, frames # <<>>, NEW key \in Due, Report(key), UNCHANGED <<broken, tree, answer>>
  PROVE  IInv'
<1>1. /\ broken = None /\ answer = "none" /\ DOMAIN tree # {} /\ TreeInv
      /\ Top \in Loops
      /\ prefix = JsonPointer(Top.at)
      /\ prefix \o Token(key) = JsonPointer(Here(key))
      /\ Stacked(Taken(key)) /\ Taken(key) # <<>> /\ Len(Taken(key)) = Len(frames)
      /\ Head(Taken(key)) = [Top EXCEPT !.todo = @ \ {key}]
  BY StepFinds
<1>0. PICK here : here = Here(key)
  OBVIOUS
<1> DEFINE more == [i \in DOMAIN tree[here] |-> [code |-> tree[here][i], pointer |-> prefix \o Token(key)]]
<1>2. /\ broken' = broken /\ tree' = tree /\ answer' = answer /\ prefix' = prefix
      /\ frames' = Taken(key) /\ output' = output \o more /\ here \in DOMAIN tree
  BY <1>0 DEF Report
<1>3. output \in Seq(Entries) /\ NothingForgotten /\ NothingInvented
  BY DEF IInv, WalkInv
<1>4. /\ DOMAIN tree[here] = 1 .. Len(tree[here]) /\ Len(tree[here]) \in Nat \ {0}
      /\ \A k \in DOMAIN tree[here] : Entry(here, k) \in Entries
  BY <1>1, <1>2, EntriesTyped
<1>5. more = [k \in DOMAIN tree[here] |-> Entry(here, k)]
  BY <1>0, <1>1 DEF Entry
<1>6. more \in Seq(Entries) /\ DOMAIN more = DOMAIN tree[here] /\ \A k \in DOMAIN more : more[k] = Entry(here, k)
      /\ Len(more) = Len(tree[here])
  <2> HIDE DEF more
  <2> QED BY <1>4, <1>5
<1> HIDE DEF more
<1>7. /\ output' \in Seq(Entries) /\ Len(output') = Len(output) + Len(more)
      /\ Len(output) \in Nat /\ Len(more) \in Nat
      /\ \A i \in 1 .. Len(output) : output'[i] = output[i]
      /\ \A k \in 1 .. Len(more) : output'[Len(output) + k] = more[k]
  BY <1>2, <1>3, <1>6
<1>8. \A p, k : Entry(p, k)' = Entry(p, k)
  BY <1>2 DEF Entry
<1>9. Reported(here)'
  <2>1. ASSUME NEW k \in DOMAIN tree[here] PROVE \E i \in DOMAIN output' : output'[i] = Entry(here, k)
    <3>1. k \in 1 .. Len(more) /\ more[k] = Entry(here, k)
      BY <1>4, <1>6
    <3>2. Len(output) + k \in 1 .. Len(output') /\ output'[Len(output) + k] = Entry(here, k)
      BY <1>7, <3>1
    <3>3. DOMAIN output' = 1 .. Len(output')
      BY <1>7
    <3> QED BY <3>2, <3>3
  <2> QED BY <1>2, <1>8, <2>1 DEF Reported
<1>10. NothingForgotten'
  <2>1. ASSUME NEW p \in DOMAIN tree PROVE Reported(p)' \/ \E j \in 1 .. Len(frames) : Awaits(Taken(key)[j], p)
    <3>1. Reported(p) \/ \E i \in DOMAIN frames : Awaits(frames[i], p)
      BY <1>3 DEF NothingForgotten
    <3>2. CASE Reported(p)
      BY <1>2, <1>3, <1>6, <3>2, StaysReported
    <3>3. CASE \E i \in DOMAIN frames : Awaits(frames[i], p)
      <4>1. IsPrefix(here, p) \/ \E j \in 1 .. Len(frames) : Awaits(Taken(key)[j], p)
        BY <1>0, <3>3, StillAwaited
      <4>2. IsPrefix(here, p) => p = here
        BY <1>1, <1>2, NothingBeyond
      <4> QED BY <1>9, <4>1, <4>2
    <3> QED BY <3>1, <3>2, <3>3
  <2>2. DOMAIN Taken(key) = 1 .. Len(frames)
    BY <1>1 DEF Stacked
  <2>3. \A j, p : Awaits(frames'[j], p) = Awaits(Taken(key)[j], p)
    BY <1>2
  <2> QED BY <1>2, <2>1, <2>2, <2>3 DEF NothingForgotten
<1>11. NothingInvented'
  <2>1. ASSUME NEW i \in DOMAIN output'
        PROVE  \E p \in DOMAIN tree : \E k \in DOMAIN tree[p] : output'[i] = Entry(p, k)
    <3>1. i \in 1 .. Len(output) + Len(more)
      BY <1>7
    <3>2. CASE i \in 1 .. Len(output)
      <4>1. i \in DOMAIN output /\ output'[i] = output[i]
        BY <1>3, <1>7, <3>2
      <4> QED BY <1>1, <1>3, <4>1 DEF NothingInvented
    <3>3. CASE i \notin 1 .. Len(output)
      <4>1. i - Len(output) \in 1 .. Len(more) /\ Len(output) + (i - Len(output)) = i
        BY <1>7, <3>1, <3>3
      <4>2. output'[i] = more[i - Len(output)]
        BY <1>7, <4>1
      <4>3. i - Len(output) \in DOMAIN tree[here] /\ output'[i] = Entry(here, i - Len(output))
        BY <1>4, <1>6, <4>1, <4>2
      <4> QED BY <1>2, <4>3
    <3> QED BY <3>2, <3>3
  <2> QED BY <1>1, <1>2, <1>8, <2>1 DEF NothingInvented
<1>12. prefix' = JsonPointer(Top.at)'
  <2>1. Top' = [Top EXCEPT !.todo = @ \ {key}]
    BY <1>1, <1>2 DEF Top
  <2>2. [Top EXCEPT !.todo = @ \ {key}].at = Top.at
    BY <1>1 DEF Loops
  <2> QED BY <1>1, <1>2, <2>1, <2>2
<1>13. WalkInv'
  <2>1. Stacked(frames)' /\ frames' # <<>>
    BY <1>1, <1>2
  <2> QED BY <1>1, <1>2, <1>10, <1>11, <1>12, <2>1 DEF WalkInv
<1>14. TreeInv'
  BY <1>1, <1>2 DEF TreeInv
<1> QED BY <1>1, <1>2, <1>7, <1>13, <1>14 DEF IInv

LEMMA DescendIInv ==
  ASSUME IInv, frames # <<>>, NEW key \in Due, Descend(key), UNCHANGED <<broken, tree, answer>>
  PROVE  IInv'
<1>0. PICK here : here = Here(key)
  OBVIOUS
<1>1. /\ broken = None /\ answer = "none" /\ DOMAIN tree # {} /\ TreeInv
      /\ Top \in Loops /\ key \in Fields \cup Items
      /\ prefix = JsonPointer(Top.at) /\ prefix \in Texts
      /\ here = Append(Top.at, key) /\ here \in Seq(Fields \cup Items)
      /\ prefix \o Token(key) = JsonPointer(here)
      /\ Stacked(Taken(key)) /\ Taken(key) # <<>> /\ Len(Taken(key)) = Len(frames)
      /\ Head(Taken(key)) = [Top EXCEPT !.todo = @ \ {key}]
      /\ Len(frames) \in Nat \ {0}
  BY <1>0, StepFinds DEF Here
<1>2. PICK f : f = Frame(here, Len(prefix))
  OBVIOUS
<1>3. /\ broken' = broken /\ tree' = tree /\ answer' = answer /\ output' = output
      /\ prefix' = prefix \o Token(key) /\ frames' = <<f>> \o Taken(key) /\ here \notin DOMAIN tree
  BY <1>0, <1>2 DEF Descend
<1>4. output \in Seq(Entries) /\ NothingForgotten /\ NothingInvented
  BY DEF IInv, WalkInv
<1>5. /\ f \in Loops /\ f.at = here /\ f.base = Len(prefix) /\ f.todo = Keys(here)
  <2>1. Len(prefix) \in Nat
    BY <1>1 DEF Texts
  <2>2. Keys(here) \subseteq Fields \cup Items
    BY <1>1, KeysAre
  <2> QED BY <1>1, <1>2, <2>1, <2>2 DEF Frame, Loops
<1>6. Inside(f, Head(Taken(key)))
  <2>1. [Top EXCEPT !.todo = @ \ {key}].at = Top.at
    BY <1>1 DEF Loops
  <2> QED BY <1>1, <1>5, <2>1 DEF Inside
<1>7. Stacked(frames)'
  BY <1>1, <1>3, <1>5, <1>6, StackedCons
<1>8. /\ frames' # <<>> /\ frames'[1] = f /\ Head(frames') = f /\ DOMAIN frames' = 1 .. Len(frames) + 1
      /\ \A i \in 1 .. Len(frames) : frames'[i + 1] = Taken(key)[i]
  <2>1. Taken(key) \in Seq(Loops)
    BY <1>1 DEF Stacked
  <2>2. /\ <<f>> \o Taken(key) \in Seq(Loops) /\ <<f>> \o Taken(key) # <<>>
        /\ Len(<<f>> \o Taken(key)) = Len(Taken(key)) + 1
        /\ Head(<<f>> \o Taken(key)) = f /\ (<<f>> \o Taken(key))[1] = f
        /\ \A i \in 1 .. Len(Taken(key)) : (<<f>> \o Taken(key))[i + 1] = Taken(key)[i]
    BY <1>5, <2>1, ConsIs
  <2>3. DOMAIN (<<f>> \o Taken(key)) = 1 .. Len(<<f>> \o Taken(key))
    BY <2>2
  <2> QED BY <1>1, <1>3, <2>2, <2>3
<1>9. prefix' = JsonPointer(Top.at)'
  <2>1. Top' = f
    BY <1>8 DEF Top
  <2> QED BY <1>1, <1>3, <1>5, <2>1
<1>10. \A p, k : Entry(p, k)' = Entry(p, k)
  BY <1>3 DEF Entry
<1>11. \A p : Reported(p) => Reported(p)'
  BY <1>3, <1>10 DEF Reported
<1>12. NothingForgotten'
  <2>1. ASSUME NEW p \in DOMAIN tree PROVE Reported(p) \/ \E i \in DOMAIN frames' : Awaits(frames'[i], p)
    <3>1. Reported(p) \/ \E i \in DOMAIN frames : Awaits(frames[i], p)
      BY <1>4 DEF NothingForgotten
    <3>2. CASE \E i \in DOMAIN frames : Awaits(frames[i], p)
      <4>1. IsPrefix(here, p) \/ \E j \in 1 .. Len(frames) : Awaits(Taken(key)[j], p)
        BY <1>0, <3>2, StillAwaited
      <4>2. CASE IsPrefix(here, p)
        <5>1. IsStrictPrefix(here, p)
          BY <1>3, <4>2 DEF IsStrictPrefix
        <5>2. p[Len(here) + 1] \in Keys(here)
          BY <1>1, <5>1, KeysAre
        <5>3. Awaits(f, p)
          BY <1>5, <5>1, <5>2 DEF Awaits
        <5>4. 1 \in DOMAIN frames'
          BY <1>1, <1>8
        <5> QED BY <1>8, <5>3, <5>4
      <4>3. CASE \E j \in 1 .. Len(frames) : Awaits(Taken(key)[j], p)
        <5>1. PICK j \in 1 .. Len(frames) : Awaits(Taken(key)[j], p)
          BY <4>3
        <5>2. j + 1 \in DOMAIN frames' /\ frames'[j + 1] = Taken(key)[j]
          BY <1>1, <1>8
        <5> QED BY <5>1, <5>2
      <4> QED BY <4>1, <4>2, <4>3
    <3> QED BY <3>1, <3>2
  <2> QED BY <1>3, <1>11, <2>1 DEF NothingForgotten
<1>13. NothingInvented'
  BY <1>3, <1>4, <1>10 DEF NothingInvented
<1>14. WalkInv'
  BY <1>1, <1>3, <1>7, <1>8, <1>9, <1>12, <1>13 DEF WalkInv
<1>15. TreeInv'
  BY <1>1, <1>3 DEF TreeInv
<1> QED BY <1>1, <1>3, <1>4, <1>14, <1>15 DEF IInv

LEMMA AscendIInv == ASSUME IInv, Ascend PROVE IInv'
<1>1. /\ frames # <<>> /\ Top.todo = {} /\ prefix' = SubSeq(prefix, 1, Top.base)
      /\ frames' = Tail(frames) /\ answer' = (IF Len(frames) = 1 THEN "rejected" ELSE "none")
      /\ broken' = broken /\ tree' = tree /\ output' = output
  BY DEF Ascend
<1>2. /\ TreeInv /\ Stacked(frames) /\ prefix = JsonPointer(Top.at)
      /\ broken = None /\ answer = "none" /\ DOMAIN tree # {}
      /\ output \in Seq(Entries) /\ NothingForgotten /\ NothingInvented
  BY <1>1 DEF IInv, WalkInv
<1>3. /\ Stacked(Tail(frames)) /\ (Tail(frames) = <<>> <=> Len(frames) = 1)
      /\ Tail(frames) # <<>> => Inside(Head(frames), Head(Tail(frames)))
  BY <1>1, <1>2, StackedTail
<1>4. /\ Top = frames[1] /\ Top = Head(frames) /\ Top \in Loops /\ Len(frames) \in Nat \ {0}
      /\ Len(Tail(frames)) = Len(frames) - 1 /\ \A i \in 1 .. Len(frames) - 1 : Tail(frames)[i] = frames[i + 1]
      /\ Tail(frames) \in Seq(Loops) /\ frames \in Seq(Loops)
  BY <1>1, <1>2, TailIs DEF Stacked, Top
<1>5. prefix' = IF frames' = <<>> THEN <<>> ELSE JsonPointer(Head(frames').at)
  <2>1. CASE Len(frames) = 1
    <3>1. Top.base = 0
      BY <1>1, <1>2, <1>4, <2>1 DEF Stacked
    <3>2. prefix \in Texts
      BY <1>2, <1>4, PlacePointer DEF Loops
    <3>3. SubSeq(prefix, 1, 0) = <<>>
      BY <3>2 DEF Texts
    <3> QED BY <1>1, <1>3, <2>1, <3>1, <3>3
  <2>2. CASE Len(frames) # 1
    <3> DEFINE g == Head(Tail(frames))
    <3>1. Inside(Top, g) /\ Tail(frames) # <<>>
      BY <1>3, <1>4, <2>2
    <3>2. g \in Loops
      BY <1>4, <3>1
    <3> HIDE DEF g
    <3>3. PICK key \in Fields \cup Items : Top.at = Append(g.at, key) /\ Top.base = Len(JsonPointer(g.at))
      BY <3>1 DEF Inside
    <3>4. g.at \in Seq(Fields \cup Items)
      BY <3>2 DEF Loops
    <3>5. /\ JsonPointer(g.at) \in Texts /\ Token(key) \in Texts
          /\ prefix = JsonPointer(g.at) \o Token(key)
      BY <1>2, <3>3, <3>4, PlacePointer
    <3>6. SubSeq(prefix, 1, Len(JsonPointer(g.at))) = JsonPointer(g.at)
      BY <3>5, CutBack DEF Texts
    <3> QED BY <1>1, <3>1, <3>3, <3>6 DEF g
  <2> QED BY <2>1, <2>2
<1>6. \A p, k : Entry(p, k)' = Entry(p, k)
  BY <1>1 DEF Entry
<1>7. \A p : Reported(p) => Reported(p)'
  BY <1>1, <1>6 DEF Reported
<1>8. ASSUME NEW p \in DOMAIN tree PROVE Reported(p) \/ \E i \in DOMAIN frames' : Awaits(frames'[i], p)
  <2>1. Reported(p) \/ \E i \in DOMAIN frames : Awaits(frames[i], p)
    BY <1>1, <1>2 DEF NothingForgotten
  <2>2. ASSUME NEW i \in DOMAIN frames, Awaits(frames[i], p) PROVE \E j \in DOMAIN frames' : Awaits(frames'[j], p)
    <3>1. i # 1
      BY <1>1, <1>4, <2>2 DEF Awaits
    <3>2. i - 1 \in 1 .. Len(frames) - 1 /\ (i - 1) + 1 = i /\ DOMAIN frames' = 1 .. Len(frames) - 1
      BY <1>1, <1>4, <3>1
    <3>3. frames'[i - 1] = frames[i]
      BY <1>1, <1>4, <3>2
    <3> QED BY <2>2, <3>2, <3>3
  <2> QED BY <2>1, <2>2
<1>9. NothingForgotten'
  BY <1>1, <1>7, <1>8 DEF NothingForgotten
<1>10. NothingInvented'
  BY <1>1, <1>2, <1>6 DEF NothingInvented
<1>11. frames' = <<>> => output # <<>>
  <2>1. SUFFICES ASSUME frames' = <<>> PROVE output # <<>>
    OBVIOUS
  <2>2. PICK p \in DOMAIN tree : TRUE
    BY <1>2
  <2>3. DOMAIN frames' = {}
    BY <2>1
  <2>4. Reported(p)
    BY <1>8, <2>3
  <2>5. 1 \in DOMAIN tree[p]
    BY <1>2, EntriesTyped
  <2>6. DOMAIN output # {}
    BY <2>4, <2>5 DEF Reported
  <2> QED BY <1>2, <2>6
<1>12. WalkInv'
  <2>1. Stacked(frames)' /\ (frames' = <<>> <=> Len(frames) = 1)
    BY <1>1, <1>3
  <2>2. prefix' = IF frames' = <<>> THEN <<>> ELSE JsonPointer(Top.at)'
    BY <1>5 DEF Top
  <2> QED BY <1>1, <1>2, <1>9, <1>10, <1>11, <2>1, <2>2 DEF WalkInv
<1>13. TreeInv'
  BY <1>1, <1>2 DEF TreeInv
<1> QED BY <1>1, <1>2, <1>12, <1>13 DEF IInv

LEMMA StutterIInv == ASSUME IInv, UNCHANGED vars PROVE IInv'
<1>1. /\ broken' = broken /\ tree' = tree /\ prefix' = prefix /\ frames' = frames
      /\ output' = output /\ answer' = answer
  BY DEF vars
<1>2. TreeInv'
  BY <1>1 DEF IInv, TreeInv
<1>3. NothingForgotten' /\ NothingInvented'
  BY <1>1 DEF IInv, WalkInv, NothingForgotten, NothingInvented, Reported, Entry
<1>4. WalkInv'
  BY <1>1, <1>3 DEF IInv, WalkInv, Top
<1> QED BY <1>1, <1>2, <1>4 DEF IInv

LEMMA NextIInv == ASSUME IInv, [Next]_vars PROVE IInv'
<1>1. CASE Malformed
  BY <1>1, MalformedIInv
<1>2. CASE Validate
  BY <1>2, ValidateIInv
<1>3. CASE Visit
  <2>1. PICK key \in Due : Report(key) \/ Descend(key)
    BY <1>3 DEF Visit
  <2>2. frames # <<>> /\ UNCHANGED <<broken, tree, answer>>
    BY <1>3 DEF Visit
  <2> QED BY <2>1, <2>2, ReportIInv, DescendIInv
<1>4. CASE Ascend
  BY <1>4, AscendIInv
<1>5. CASE UNCHANGED vars \/ Answered
  BY <1>5, StutterIInv DEF Answered
<1> QED BY <1>1, <1>2, <1>3, <1>4, <1>5 DEF Next

LEMMA InvariantHolds == Spec => []IInv
<1>1. Init => IInv
  BY InitIInv
<1>2. IInv /\ [Next]_vars => IInv'
  BY NextIInv
<1> QED BY <1>1, <1>2, PTL DEF Spec

(* At every step of the walk, whatever the tree and the order of the hash  *)
(* map: the open loops are nested, the shared string is the pointer of the *)
(* innermost, every violation has been reported or is ahead of an open     *)
(* loop, and nothing but violations has been reported.                     *)
THEOREM WalkInvariant == Spec => []WalkInv
BY InvariantHolds, PTL DEF IInv

(* validate.rs spells a place the way serde_path.rs does: the string that  *)
(* is pushed to and truncated is the pointer of the place the walk is at.  *)
THEOREM PrefixIsThePointer == Spec => []PrefixPointsHere
<1>1. WalkInv => PrefixPointsHere
  BY DEF WalkInv, PrefixPointsHere
<1> QED BY <1>1, WalkInvariant, PTL

(* The variables stay what they are declared to be; in particular no       *)
(* truncation is past the end of the string it is done to.                 *)
THEOREM TypeCorrect == Spec => []TypeOK
<1>1. ASSUME IInv PROVE TypeOK
  <2>1. broken \in ParsePaths \cup {None} /\ answer \in {"none", "accepted", "rejected"}
    BY <1>1 DEF IInv, TreeInv
  <2>2. \A i \in DOMAIN output : output[i].code \in Codes
    <3>1. output \in Seq(Entries)
      BY <1>1 DEF IInv
    <3>2. \A i \in DOMAIN output : output[i] \in Entries
      BY <3>1
    <3> QED BY <3>2 DEF Entries
  <2>3. Stacked(frames) /\ prefix = IF frames = <<>> THEN <<>> ELSE JsonPointer(Top.at)
    BY <1>1 DEF IInv, WalkInv
  <2>4. ASSUME NEW i \in DOMAIN frames
        PROVE  frames[i].todo \subseteq Fields \cup Items /\ frames[i].base \in 0 .. Len(prefix)
    <3>1. frames \in Seq(Loops) /\ DOMAIN frames = 1 .. Len(frames) /\ Len(frames) \in Nat
      BY <2>3 DEF Stacked
    <3>2. frames # <<>> /\ 1 \in 1 .. Len(frames) /\ Top = frames[1] /\ \A j \in 1 .. Len(frames) : frames[j] \in Loops
      BY <2>4, <3>1 DEF Top
    <3>3. \A j \in 1 .. Len(frames) :
            frames[j].at \in Seq(Fields \cup Items) /\ frames[j].base \in Nat /\ frames[j].todo \subseteq Fields \cup Items
      BY <3>2 DEF Loops
    <3>4. prefix = JsonPointer(frames[1].at) /\ \A j \in 1 .. Len(frames) : Len(JsonPointer(frames[j].at)) \in Nat
      BY <2>3, <3>2, <3>3, PlacePointer
    <3>5. CASE i = Len(frames)
      <4>1. frames[i].base = 0
        BY <2>3, <3>2, <3>5 DEF Stacked
      <4> QED BY <2>4, <3>1, <3>2, <3>3, <3>4, <4>1
    <3>6. CASE i # Len(frames)
      <4>1. i \in 1 .. Len(frames) - 1 /\ i + 1 \in 1 .. Len(frames) /\ 1 <= i + 1
        BY <2>4, <3>1, <3>6
      <4>2. frames[i].base = Len(JsonPointer(frames[i + 1].at))
        BY <2>3, <4>1 DEF Stacked, Inside
      <4>3. Len(JsonPointer(frames[i + 1].at)) <= Len(JsonPointer(frames[1].at))
        BY <2>3, <3>2, <4>1 DEF Stacked
      <4> QED BY <2>4, <3>1, <3>3, <3>4, <4>1, <4>2, <4>3
    <3> QED BY <3>5, <3>6
  <2> QED BY <2>1, <2>2, <2>3, <2>4 DEF TypeOK
<1> QED BY <1>1, InvariantHolds, PTL

AllReported ==
  answer # "none" =>
    /\ answer = "accepted" <=> broken = None /\ DOMAIN tree = {}
    /\ \A p \in DOMAIN tree : Reported(p)

(* validate_api's answer: a body is accepted if nothing is wrong with it,  *)
(* and else the answer has every rule violated at every place, under the   *)
(* pointer of that place.                                                  *)
THEOREM EveryRuleReported == Spec => []AllReported
<1>1. ASSUME IInv PROVE AllReported
  <2> SUFFICES ASSUME answer # "none"
               PROVE  /\ answer = "accepted" <=> broken = None /\ DOMAIN tree = {}
                      /\ \A p \in DOMAIN tree : Reported(p)
    BY DEF AllReported
  <2>1. /\ frames = <<>> /\ NothingForgotten /\ NothingInvented /\ answer \in {"accepted", "rejected"}
        /\ answer = "accepted" => broken = None /\ DOMAIN tree = {}
        /\ answer = "rejected" => output # <<>>
        /\ output \in Seq(Entries)
    BY <1>1 DEF IInv, WalkInv
  <2>2. DOMAIN frames = {}
    BY <2>1
  <2>3. \A p \in DOMAIN tree : Reported(p)
    BY <2>1, <2>2 DEF NothingForgotten
  <2>4. ASSUME answer = "rejected", broken = None PROVE DOMAIN tree # {}
    <3>1. 1 \in DOMAIN output
      BY <2>1, <2>4
    <3> QED BY <2>1, <2>4, <3>1 DEF NothingInvented
  <2> QED BY <2>1, <2>3, <2>4
<1> QED BY <1>1, InvariantHolds, PTL
-----------------------------------------------------------------------------
(* Reading pointers back. *)

Readings == [tokens : Seq(Texts), escape : BOOLEAN]
Unread == [tokens |-> <<>>, escape |-> FALSE]

LEMMA AppendIs ==
  ASSUME NEW S, NEW s \in Seq(S), NEW x \in S
  PROVE  Append(s, x) = [i \in 1 .. Len(s) + 1 |-> IF i = Len(s) + 1 THEN x ELSE s[i]]
<1> DEFINE t == Append(s, x)
<1>1. t \in Seq(S) /\ Len(t) = Len(s) + 1 /\ t[Len(s) + 1] = x /\ \A i \in 1 .. Len(s) : t[i] = s[i]
  OBVIOUS
<1>2. Len(s) \in Nat
  OBVIOUS
<1> HIDE DEF t
<1>3. t = [i \in 1 .. Len(t) |-> t[i]]
  BY <1>1
<1>4. \A i \in 1 .. Len(s) + 1 : t[i] = IF i = Len(s) + 1 THEN x ELSE s[i]
  BY <1>1, <1>2
<1>5. t = [i \in 1 .. Len(s) + 1 |-> IF i = Len(s) + 1 THEN x ELSE s[i]]
  BY <1>1, <1>3, <1>4
<1> QED BY <1>5 DEF t

LEMMA ReadIs ==
  ASSUME NEW r \in Readings, NEW c \in Characters
  PROVE  /\ Read(r, c) \in Readings
         /\ c = "/" => Read(r, c) = [tokens |-> Append(r.tokens, <<>>), escape |-> FALSE]
         /\ c = "~" => Read(r, c) = [tokens |-> r.tokens, escape |-> TRUE]
         /\ \A q \in Seq(Texts), t \in Texts :
              r.tokens = Append(q, t) /\ c \notin {"/", "~"} =>
                Read(r, c) =
                  [tokens |-> Append(q, Append(t, IF ~r.escape THEN c ELSE IF c = "1" THEN "/" ELSE "~")),
                   escape |-> FALSE]
<1> DEFINE meant == IF ~r.escape THEN c ELSE IF c = "1" THEN "/" ELSE "~"
           n == Len(r.tokens)
           more == [r.tokens EXCEPT ![n] = Append(@, meant)]
<1>1. r = [tokens |-> r.tokens, escape |-> r.escape] /\ r.tokens \in Seq(Texts) /\ r.escape \in BOOLEAN
  BY DEF Readings
<1>2. meant \in Characters
  BY DEF Characters
<1>3. c = "/" => Read(r, c) = [tokens |-> Append(r.tokens, <<>>), escape |-> FALSE]
  BY DEF Read
<1>4. c = "~" => Read(r, c) = [tokens |-> r.tokens, escape |-> TRUE]
  BY <1>1 DEF Read
<1>5. c \notin {"/", "~"} => Read(r, c) = [tokens |-> more, escape |-> FALSE]
  BY DEF Read
<1> HIDE DEF meant
<1>6. more \in Seq(Texts)
  <2>1. \A t \in Texts : Append(t, meant) \in Texts
    BY <1>2 DEF Texts
  <2>2. n \in Nat /\ DOMAIN r.tokens = 1 .. n /\ \A i \in 1 .. n : r.tokens[i] \in Texts
    BY <1>1
  <2>3. more = [i \in 1 .. n |-> IF i = n THEN Append(r.tokens[n], meant) ELSE r.tokens[i]]
    BY <2>2
  <2>4. \A i \in 1 .. n : (IF i = n THEN Append(r.tokens[n], meant) ELSE r.tokens[i]) \in Texts
    BY <2>1, <2>2
  <2> HIDE DEF more, n
  <2> QED BY <2>2, <2>3, <2>4
<1>7. Append(r.tokens, <<>>) \in Seq(Texts)
  BY <1>1 DEF Texts
<1>8. Read(r, c) \in Readings
  <2> HIDE DEF more
  <2>1. /\ [tokens |-> Append(r.tokens, <<>>), escape |-> FALSE] \in Readings
        /\ [tokens |-> r.tokens, escape |-> TRUE] \in Readings
        /\ [tokens |-> more, escape |-> FALSE] \in Readings
    BY <1>1, <1>6, <1>7 DEF Readings
  <2> QED BY <1>3, <1>4, <1>5, <2>1, Zenon
<1>9. ASSUME NEW q \in Seq(Texts), NEW t \in Texts, r.tokens = Append(q, t), c \notin {"/", "~"}
      PROVE  Read(r, c) = [tokens |-> Append(q, Append(t, meant)), escape |-> FALSE]
  <2> DEFINE u == Append(t, meant)
  <2>0. u \in Texts
    BY <1>2 DEF Texts
  <2>1. n = Len(q) + 1 /\ r.tokens[n] = t
    BY <1>9
  <2>2. more = [r.tokens EXCEPT ![n] = u]
    BY <2>1
  <2> HIDE DEF u
  <2>3. [r.tokens EXCEPT ![n] = u] = Append(q, u)
    <3>1. Append(q, t) = [i \in 1 .. Len(q) + 1 |-> IF i = Len(q) + 1 THEN t ELSE q[i]]
      BY AppendIs
    <3>2. Append(q, u) = [i \in 1 .. Len(q) + 1 |-> IF i = Len(q) + 1 THEN u ELSE q[i]]
      BY <2>0, AppendIs
    <3> QED BY <1>9, <2>1, <3>1, <3>2
  <2> QED BY <1>5, <1>9, <2>2, <2>3 DEF u
<1> QED BY <1>3, <1>4, <1>8, <1>9 DEF meant

\* f[k] is what has been read after k characters.
Reads(f, p) ==
  /\ f[0] = Unread /\ f[Len(p)] = Reading(p)
  /\ \A k \in 1 .. Len(p) : f[k] = Read(f[k - 1], p[k])

LEMMA ReadingUnfolds ==
  ASSUME NEW p \in Texts
  PROVE  \E f \in [0 .. Len(p) -> Readings] : Reads(f, p)
<1> DEFINE n == Len(p)
           V == Readings
           S == SUBSET (1 .. n)
           body(g, T) == IF T = {} THEN Unread ELSE Read(g[T \ {Max(T)}], p[Max(T)])
           step == [x \in V \X (1 .. n) |-> Read(x[1], p[x[2]])]
           reading == CHOOSE g : g = [T \in S |-> body(g, T)]
<1>1. n \in Nat /\ DOMAIN p = 1 .. n /\ \A i \in 1 .. n : p[i] \in Characters
  BY DEF Texts
<1>2. Unread \in V
  <2>1. <<>> \in Seq(Texts)
    OBVIOUS
  <2> QED BY <2>1 DEF Unread, Readings
<1>3. step \in [V \X (1 .. n) -> V]
  <2>1. \A v \in V, x \in Characters : Read(v, x) \in V
    BY ReadIs
  <2> HIDE DEF V, n
  <2> QED BY <1>1, <2>1
<1>4. \A x \in V, i \in 1 .. n : step[<<x, i>>] = Read(x, p[i])
  OBVIOUS
<1> HIDE DEF step, n, V
<1>5. PICK h \in [S -> V] : Peels(h, S, Unread, step)
  BY <1>1, <1>2, <1>3, FoldExists
<1>6. ASSUME NEW T \in S, T # {} PROVE Max(T) \in 1 .. n /\ T \ {Max(T)} \in S
  BY <1>1, <1>6, GreatestIndex
<1> HIDE DEF S
<1>7. ASSUME NEW T \in S PROVE h[T] = body(h, T)
  <2>1. T # {} => h[T \ {Max(T)}] \in V
    BY <1>6
  <2> QED BY <1>4, <1>5, <1>6, <2>1 DEF Peels
<1>8. reading = [T \in S |-> body(reading, T)]
  <2>1. h = [T \in S |-> body(h, T)]
    BY <1>7
  <2> QED BY <2>1
<1>9. Reading(p) = reading[1 .. n]
  BY <1>1 DEF Reading, FoldLeft, MapThenFoldSet, Unread, S
<1> HIDE DEF reading
<1>10. \A T \in S : reading[T] = body(reading, T)
  BY <1>8
<1>11. reading[{}] = Unread
  BY <1>10 DEF S
<1>12. ASSUME NEW T \in SUBSET (1 .. n), T # {}, reading[T \ {Max(T)}] \in V
       PROVE  reading[T] = step[<<reading[T \ {Max(T)}], Max(T)>>]
  <2>1. T \in S
    BY DEF S
  <2>2. reading[T] = Read(reading[T \ {Max(T)}], p[Max(T)])
    BY <1>10, <1>12, <2>1
  <2> QED BY <1>4, <1>6, <1>12, <2>1, <2>2
<1>13. \A T \in SUBSET (1 .. n) :
         T # {} /\ reading[T \ {Max(T)}] \in V => reading[T] = step[<<reading[T \ {Max(T)}], Max(T)>>]
  BY <1>12, Zenon
<1>14. PICK f \in [0 .. n -> V] : StepByStep(f, n, Unread, reading[1 .. n], step)
  BY <1>1, <1>2, <1>3, <1>11, <1>13, FoldUnfolds
<1>15. ASSUME NEW k \in 1 .. n PROVE f[k] = Read(f[k - 1], p[k])
  <2>1. k - 1 \in 0 .. n
    BY <1>1
  <2> QED BY <1>4, <1>14, <2>1 DEF StepByStep
<1>16. Reads(f, p)
  BY <1>9, <1>14, <1>15 DEF Reads, StepByStep, n
<1> QED BY <1>14, <1>16 DEF n, V

LEMMA ReadingIs ==
  /\ Reading(<<>>) = Unread
  /\ \A p \in Texts :
       /\ Reading(p) \in Readings
       /\ \A c \in Characters : Append(p, c) \in Texts /\ Reading(Append(p, c)) = Read(Reading(p), c)
<1>1. Reading(<<>>) = Unread
  <2>1. <<>> \in Texts /\ Len(<<>>) = 0
    BY DEF Texts
  <2>2. PICK f \in [0 .. Len(<<>>) -> Readings] : Reads(f, <<>>)
    BY <2>1, ReadingUnfolds
  <2> QED BY <2>1, <2>2 DEF Reads
<1>2. ASSUME NEW p \in Texts
      PROVE  /\ Reading(p) \in Readings
             /\ \A c \in Characters : Append(p, c) \in Texts /\ Reading(Append(p, c)) = Read(Reading(p), c)
  <2> DEFINE n == Len(p)
  <2>1. n \in Nat /\ \A i \in 1 .. n : p[i] \in Characters
    BY DEF Texts
  <2>2. PICK f \in [0 .. n -> Readings] : Reads(f, p)
    BY ReadingUnfolds
  <2>3. Reading(p) \in Readings
    BY <2>1, <2>2 DEF Reads
  <2>4. ASSUME NEW c \in Characters PROVE Append(p, c) \in Texts /\ Reading(Append(p, c)) = Read(Reading(p), c)
    <3> DEFINE q == Append(p, c)
    <3>1. q \in Texts /\ Len(q) = n + 1 /\ q[n + 1] = c /\ \A i \in 1 .. n : q[i] = p[i]
      BY DEF Texts
    <3> HIDE DEF q
    <3>2. PICK g \in [0 .. Len(q) -> Readings] : Reads(g, q)
      BY <3>1, ReadingUnfolds
    <3> HIDE DEF n
    <3>3. g[0] = f[0] /\ \A k \in 1 .. n : f[k] = Read(f[k - 1], p[k]) /\ g[k] = Read(g[k - 1], p[k])
      <4>1. \A k \in 1 .. n : k \in 1 .. n + 1
        BY <2>1
      <4> QED BY <2>2, <3>1, <3>2, <4>1 DEF Reads, n
    <3> DEFINE P == {k \in 0 .. n : f[k] = g[k]}
    <3>4. 0 \in P
      BY <2>1, <3>3
    <3>5. ASSUME NEW k \in 1 .. n, k - 1 \in P PROVE k \in P
      BY <3>3, <3>5
    <3> HIDE DEF P
    <3>6. \A k \in 0 .. n : k \in P
      BY <2>1, <3>4, <3>5, UpToInduction
    <3>7. f[n] = g[n]
      <4>1. n \in 0 .. n
        BY <2>1
      <4> QED BY <3>6, <4>1 DEF P
    <3>8. Reading(p) = f[n] /\ Reading(q) = g[n + 1]
      BY <2>2, <3>1, <3>2 DEF Reads, n
    <3>9. g[n + 1] = Read(g[n], c)
      <4>1. n + 1 \in 1 .. n + 1 /\ (n + 1) - 1 = n
        BY <2>1
      <4> QED BY <3>1, <3>2, <4>1 DEF Reads
    <3> QED BY <3>1, <3>7, <3>8, <3>9 DEF q
  <2> QED BY <2>3, <2>4
<1> QED BY <1>1, <1>2

-----------------------------------------------------------------------------
(* What is escaped is read back. *)

LEMMA ConcatIs ==
  ASSUME NEW S, NEW s \in Seq(S), NEW x \in S, NEW y \in S
  PROVE  /\ s \o <<>> = s
         /\ s \o <<x>> = Append(s, x) /\ Append(s, x) \in Seq(S)
         /\ s \o <<x, y>> = Append(Append(s, x), y)
<1>1. s \o <<>> = s
  OBVIOUS
<1>2. s \o <<x>> = Append(s, x) /\ Append(s, x) \in Seq(S)
  OBVIOUS
<1>3. s \o <<x, y>> = Append(Append(s, x), y)
  OBVIOUS
<1> QED BY <1>1, <1>2, <1>3

LEMMA Reassociate ==
  ASSUME NEW S, NEW s \in Seq(S), NEW x \in S, NEW t \in Seq(S)
  PROVE  s \o (<<x>> \o t) = Append(s, x) \o t
<1> DEFINE u == <<x>> \o t
           v == Append(s, x)
           l == s \o u
           r == v \o t
<1>1. /\ u \in Seq(S) /\ Len(u) = Len(t) + 1 /\ u[1] = x
      /\ \A i \in 1 .. Len(t) : u[i + 1] = t[i]
  BY ConsIs
<1>2. v \in Seq(S) /\ Len(v) = Len(s) + 1 /\ v[Len(s) + 1] = x /\ \A i \in 1 .. Len(s) : v[i] = s[i]
  OBVIOUS
<1>3. Len(s) \in Nat /\ Len(t) \in Nat
  OBVIOUS
<1> HIDE DEF u, v
<1>4. /\ l \in Seq(S) /\ Len(l) = Len(s) + Len(u)
      /\ \A i \in 1 .. Len(s) : l[i] = s[i]
      /\ \A i \in 1 .. Len(u) : l[Len(s) + i] = u[i]
  BY <1>1
<1>5. /\ r \in Seq(S) /\ Len(r) = Len(v) + Len(t)
      /\ \A i \in 1 .. Len(v) : r[i] = v[i]
      /\ \A i \in 1 .. Len(t) : r[Len(v) + i] = t[i]
  BY <1>2
<1> HIDE DEF l, r
<1>6. ASSUME NEW i \in 1 .. Len(l) PROVE l[i] = r[i]
  <2>1. CASE i <= Len(s)
    <3>1. i \in 1 .. Len(s) /\ i \in 1 .. Len(v)
      BY <1>2, <1>3, <2>1
    <3> QED BY <1>2, <1>4, <1>5, <3>1
  <2>2. CASE i = Len(s) + 1
    <3>1. 1 \in 1 .. Len(u) /\ i \in 1 .. Len(v)
      BY <1>1, <1>2, <1>3, <2>2
    <3> QED BY <1>1, <1>2, <1>4, <1>5, <2>2, <3>1
  <2>3. CASE i > Len(s) + 1
    <3>1. PICK j \in 1 .. Len(t) : i = Len(v) + j
      <4>1. i - Len(v) \in 1 .. Len(t) /\ i = Len(v) + (i - Len(v))
        BY <1>1, <1>2, <1>3, <1>4, <2>3
      <4> QED BY <4>1
    <3>2. j + 1 \in 1 .. Len(u) /\ i = Len(s) + (j + 1)
      BY <1>1, <1>2, <1>3, <3>1
    <3> QED BY <1>1, <1>4, <1>5, <3>1, <3>2
  <2>4. i <= Len(s) \/ i = Len(s) + 1 \/ i > Len(s) + 1
    BY <1>3
  <2> QED BY <2>1, <2>2, <2>3, <2>4
<1>7. Len(l) = Len(r)
  BY <1>1, <1>2, <1>3, <1>4, <1>5
<1>8. l = [i \in 1 .. Len(l) |-> l[i]] /\ r = [i \in 1 .. Len(r) |-> r[i]]
  BY <1>4, <1>5
<1>9. l = r
  BY <1>6, <1>7, <1>8
<1> QED BY <1>9 DEF l, r, u, v

LEMMA ReplaceEmpty ==
  ASSUME NEW c, NEW by
  PROVE  Replace(<<>>, c, by) = <<>>
<1>1. [i \in DOMAIN <<>> |-> IF <<>>[i] = c THEN by ELSE <<<<>>[i]>>] = <<>>
  OBVIOUS
<1> QED BY <1>1, FlattenEmpty DEF Replace

LEMMA ReplaceAppend ==
  ASSUME NEW C, NEW s \in Seq(C), NEW x \in C, NEW c, NEW by \in Seq(C)
  PROVE  Replace(Append(s, x), c, by) = Replace(s, c, by) \o IF x = c THEN by ELSE <<x>>
<1> DEFINE part(y) == IF y = c THEN by ELSE <<y>>
           parts(u) == [i \in DOMAIN u |-> part(u[i])]
           t == Append(s, x)
           D == Seq(C)
<1>1. /\ DOMAIN s = 1 .. Len(s) /\ Len(s) \in Nat /\ DOMAIN t = 1 .. Len(s) + 1 /\ t[Len(s) + 1] = x
      /\ \A i \in 1 .. Len(s) : s[i] \in C /\ t[i] = s[i]
  OBVIOUS
<1>2. \A y \in C : part(y) \in D
  <2>1. \A y \in C : <<y>> \in Seq(C)
    OBVIOUS
  <2> QED BY <2>1
<1> HIDE DEF t, D, part
<1>3. parts(s) \in Seq(D) /\ Len(parts(s)) = Len(s) /\ \A i \in 1 .. Len(s) : parts(s)[i] = part(s[i])
  BY <1>1, <1>2
<1> DEFINE l == parts(t)
           q == parts(s)
<1>4. l = [i \in 1 .. Len(s) + 1 |-> part(t[i])]
  BY <1>1
<1>5. q \in Seq(D) /\ Len(q) = Len(s) /\ \A i \in 1 .. Len(s) : q[i] = part(s[i])
  BY <1>3
<1> HIDE DEF l, q
<1>6. Append(q, part(x)) = [i \in 1 .. Len(s) + 1 |-> IF i = Len(s) + 1 THEN part(x) ELSE q[i]]
  BY <1>2, <1>5, AppendIs
<1>7. \A i \in 1 .. Len(s) + 1 : part(t[i]) = IF i = Len(s) + 1 THEN part(x) ELSE q[i]
  <2>1. \A n \in Nat : \A i \in 1 .. n + 1 : i = n + 1 \/ (i \in 1 .. n /\ i # n + 1)
    OBVIOUS
  <2> QED BY <1>1, <1>5, <2>1
<1>8. l = Append(q, part(x))
  BY <1>4, <1>6, <1>7
<1>9. FlattenSeq(Append(q, part(x))) = FlattenSeq(q) \o part(x)
  BY <1>2, <1>5, FlattenAppend DEF D
<1>10. Replace(t, c, by) = FlattenSeq(l) /\ Replace(s, c, by) = FlattenSeq(q)
  BY DEF Replace, l, q, part
<1> QED BY <1>8, <1>9, <1>10 DEF t, part

LEMMA EscapeIs ==
  /\ Escape(<<>>) = <<>>
  /\ {"~", "/", "0", "1", "?"} \subseteq Characters
  /\ \A t \in Texts :
       /\ Escape(t) \in Texts
       /\ \A c \in Characters :
            Escape(Append(t, c)) = CASE c = "~" -> Append(Append(Escape(t), "~"), "0")
                                     [] c = "/" -> Append(Append(Escape(t), "~"), "1")
                                     [] OTHER -> Append(Escape(t), c)
<1>1. {"~", "/", "0", "1", "?"} \subseteq Characters
  <2>1. Numerals[1] = "0" /\ Numerals[2] = "1"
    BY DEF Numerals
  <2>2. Numerals[1] \in Characters /\ Numerals[2] \in Characters
    BY DEF Characters
  <2>3. {"~", "/", "?"} \subseteq Characters
    BY DEF Characters
  <2> QED BY <2>1, <2>2, <2>3
<1> DEFINE zero == <<"~", "0">>
           one == <<"~", "1">>
<1>2. zero \in Texts /\ one \in Texts /\ <<>> \in Texts
  BY <1>1 DEF Texts
<1>3. Escape(<<>>) = <<>>
  <2>1. Replace(<<>>, "~", zero) = <<>>
    BY ReplaceEmpty
  <2>2. Replace(<<>>, "/", one) = <<>>
    BY ReplaceEmpty
  <2> QED BY <2>1, <2>2 DEF Escape
<1>4. ASSUME NEW t \in Texts, NEW c \in Characters
      PROVE  /\ Escape(t) \in Texts
             /\ Escape(Append(t, c)) = CASE c = "~" -> Append(Append(Escape(t), "~"), "0")
                                         [] c = "/" -> Append(Append(Escape(t), "~"), "1")
                                         [] OTHER -> Append(Escape(t), c)
  <2>0. zero \in Seq(Characters) /\ one \in Seq(Characters) /\ t \in Seq(Characters)
    BY <1>2 DEF Texts
  <2> HIDE DEF zero, one
  <2> DEFINE r == Replace(t, "~", zero)
  <2>1. r \in Texts
    BY <1>2, ReplaceTyped DEF Texts
  <2>2. Replace(Append(t, c), "~", zero) = r \o IF c = "~" THEN zero ELSE <<c>>
    BY <2>0, ReplaceAppend
  <2>3. r \o zero = Append(Append(r, "~"), "0") /\ r \o <<c>> = Append(r, c)
    BY <1>1, <2>1, ConcatIs DEF Texts, zero
  <2> DEFINE e == Replace(r, "/", one)
  <2>4. Escape(t) = e /\ Escape(Append(t, c)) = Replace(Replace(Append(t, c), "~", zero), "/", one)
    BY DEF Escape, zero, one
  <2> HIDE DEF r
  <2>5. e \in Texts
    BY <1>2, <2>1, ReplaceTyped DEF Texts
  <2>6. ASSUME NEW u \in Texts, NEW x \in Characters
        PROVE  Replace(Append(u, x), "/", one) = Replace(u, "/", one) \o IF x = "/" THEN one ELSE <<x>>
    <3>1. u \in Seq(Characters)
      BY DEF Texts
    <3> QED BY <2>0, <3>1, ReplaceAppend
  <2>7. CASE c = "~"
    <3>1. Append(r, "~") \in Texts
      BY <1>1, <2>1 DEF Texts
    <3>2. Replace(Append(r, "~"), "/", one) = e \o <<"~">>
      BY <1>1, <2>1, <2>6
    <3>3. Replace(Append(Append(r, "~"), "0"), "/", one) = (e \o <<"~">>) \o <<"0">>
      BY <1>1, <2>6, <3>1, <3>2
    <3> HIDE DEF e
    <3>4. e \o <<"~">> = Append(e, "~") /\ Append(e, "~") \in Texts
      BY <1>1, <2>5, ConcatIs DEF Texts
    <3>5. Append(e, "~") \o <<"0">> = Append(Append(e, "~"), "0")
      BY <1>1, <3>4, ConcatIs DEF Texts
    <3>6. Escape(Append(t, c)) = Append(Append(e, "~"), "0")
      BY <2>2, <2>3, <2>4, <2>7, <3>3, <3>4, <3>5, Zenon
    <3> QED BY <2>4, <2>5, <2>7, <3>6
  <2>8. CASE c = "/"
    <3>1. Replace(Append(r, "/"), "/", one) = e \o one
      BY <1>1, <2>1, <2>6
    <3>2. e \o <<"~", "1">> = Append(Append(e, "~"), "1")
      <4> HIDE DEF e
      <4> QED BY <1>1, <2>5, ConcatIs DEF Texts
    <3>3. c # "~"
      BY <2>8
    <3> HIDE DEF e
    <3>4. Escape(Append(t, c)) = Append(Append(e, "~"), "1")
      BY <2>2, <2>3, <2>4, <2>8, <3>1, <3>2, <3>3, Zenon DEF one
    <3> QED BY <2>4, <2>5, <2>8, <3>3, <3>4
  <2>9. CASE c \notin {"~", "/"}
    <3>1. Replace(Append(r, c), "/", one) = e \o <<c>>
      BY <2>1, <2>6, <2>9
    <3> HIDE DEF e
    <3>2. e \o <<c>> = Append(e, c)
      BY <2>5, ConcatIs DEF Texts
    <3>3. Escape(Append(t, c)) = Append(e, c)
      BY <2>2, <2>3, <2>4, <2>9, <3>1, <3>2
    <3> QED BY <2>4, <2>5, <2>9, <3>3
  <2> QED BY <2>7, <2>8, <2>9
<1>5. \A t \in Texts : Escape(t) \in Texts
  BY <1>1, <1>4
<1> QED BY <1>1, <1>3, <1>4, <1>5

\* A text that has been escaped adds itself to the token that is open.
LEMMA EscapedIsRead ==
  ASSUME NEW p \in Texts, NEW q \in Seq(Texts), Reading(p) = [tokens |-> Append(q, <<>>), escape |-> FALSE],
         NEW t \in Texts
  PROVE  Reading(p \o Escape(t)) = [tokens |-> Append(q, t), escape |-> FALSE]
<1> DEFINE n == Len(t)
           upTo(k) == SubSeq(t, 1, k)
           says(k) == Reading(p \o Escape(upTo(k))) = [tokens |-> Append(q, upTo(k)), escape |-> FALSE]
<1>1. n \in Nat /\ upTo(0) = <<>> /\ upTo(n) = t
  BY DEF Texts
<1>2. ASSUME NEW k \in 1 .. n
      PROVE  upTo(k - 1) \in Texts /\ t[k] \in Characters /\ upTo(k) = Append(upTo(k - 1), t[k])
  <2>1. k - 1 \in 0 .. n - 1 /\ t \in Seq(Characters)
    BY DEF Texts
  <2>2. upTo(k - 1) \in Seq(Characters) /\ Len(upTo(k - 1)) = k - 1 /\ t[k] \in Characters
    BY <2>1
  <2>3. upTo(k) = [i \in 1 .. k |-> t[i]] /\ \A i \in 1 .. k - 1 : upTo(k - 1)[i] = t[i]
    BY <2>1
  <2> HIDE DEF upTo
  <2>4. Append(upTo(k - 1), t[k]) = [i \in 1 .. (k - 1) + 1 |-> IF i = (k - 1) + 1 THEN t[k] ELSE upTo(k - 1)[i]]
    BY <2>2, AppendIs
  <2>5. \A i \in 1 .. k : t[i] = IF i = k THEN t[k] ELSE upTo(k - 1)[i]
    BY <2>3
  <2>6. (k - 1) + 1 = k
    OBVIOUS
  <2> QED BY <2>2, <2>3, <2>4, <2>5, <2>6 DEF Texts
<1>3. says(0)
  <2>1. p \o <<>> = p
    BY DEF Texts
  <2> QED BY <1>1, <2>1, EscapeIs
<1>4. ASSUME NEW k \in 1 .. n, says(k - 1) PROVE says(k)
  <2> DEFINE u == upTo(k - 1)
             c == t[k]
             s == p \o Escape(u)
  <2>1. u \in Texts /\ c \in Characters /\ upTo(k) = Append(u, c) /\ Append(u, c) \in Texts
    BY <1>2 DEF Texts
  <2>2. Reading(s) = [tokens |-> Append(q, u), escape |-> FALSE]
    BY <1>4
  <2> HIDE DEF u, c, upTo
  <2>3. Escape(u) \in Texts /\ s \in Texts
    BY <2>1, EscapeIs DEF Texts
  <2>4. \A x \in Characters : p \o Append(Escape(u), x) = Append(s, x) /\ Append(s, x) \in Texts
                              /\ Append(Escape(u), x) \in Texts
    BY <2>3 DEF Texts
  <2>5. \A x, y \in Characters : p \o Append(Append(Escape(u), x), y) = Append(Append(s, x), y)
    BY <2>3 DEF Texts
  <2> HIDE DEF s
  <2>6. Append(q, u) \in Seq(Texts)
    BY <2>1
  <2> DEFINE r == [tokens |-> Append(q, u), escape |-> FALSE]
             r2 == [tokens |-> Append(q, u), escape |-> TRUE]
  <2>7. r \in Readings /\ r2 \in Readings
    BY <2>6 DEF Readings
  <2>8. ASSUME NEW x \in Characters PROVE Reading(Append(s, x)) = Read(r, x)
    BY <2>2, <2>3, ReadingIs
  <2>9. Read(r, "~") = r2
    BY <2>7, EscapeIs, ReadIs
  <2>10. ASSUME NEW x \in Characters, x \notin {"~", "/"}
         PROVE  /\ Read(r, x) = [tokens |-> Append(q, Append(u, x)), escape |-> FALSE]
                /\ Read(r2, x) = [tokens |-> Append(q, Append(u, IF x = "1" THEN "/" ELSE "~")), escape |-> FALSE]
    <3>1. r.tokens = Append(q, u) /\ r2.tokens = Append(q, u) /\ r.escape = FALSE /\ r2.escape = TRUE
      OBVIOUS
    <3> HIDE DEF r, r2
    <3> QED BY <2>1, <2>7, <2>10, <3>1, ReadIs
  <2> HIDE DEF r, r2
  <2>11. ASSUME NEW x \in {"0", "1"}
         PROVE  Reading(Append(Append(s, "~"), x)) =
                  [tokens |-> Append(q, Append(u, IF x = "1" THEN "/" ELSE "~")), escape |-> FALSE]
    <3>1. "~" \in Characters /\ x \in Characters /\ x \notin {"~", "/"}
      BY EscapeIs
    <3>2. Append(s, "~") \in Texts /\ Reading(Append(s, "~")) = r2
      BY <2>4, <2>8, <2>9, <3>1
    <3>3. Reading(Append(Append(s, "~"), x)) = Read(r2, x)
      BY <3>1, <3>2, ReadingIs
    <3> QED BY <2>10, <3>1, <3>3
  <2>12. /\ c = "~" => Escape(Append(u, c)) = Append(Append(Escape(u), "~"), "0")
         /\ c = "/" => Escape(Append(u, c)) = Append(Append(Escape(u), "~"), "1")
         /\ c \notin {"~", "/"} => Escape(Append(u, c)) = Append(Escape(u), c)
    BY <2>1, EscapeIs
  <2>13. {"~", "0", "1"} \subseteq Characters
    BY EscapeIs
  <2>14. CASE c = "~"
    <3>1. p \o Escape(Append(u, c)) = Append(Append(s, "~"), "0")
      BY <2>5, <2>12, <2>13, <2>14
    <3>2. Reading(Append(Append(s, "~"), "0")) = [tokens |-> Append(q, Append(u, "~")), escape |-> FALSE]
      BY <2>11
    <3> QED BY <2>1, <2>14, <3>1, <3>2
  <2>15. CASE c = "/"
    <3>1. p \o Escape(Append(u, c)) = Append(Append(s, "~"), "1")
      BY <2>5, <2>12, <2>13, <2>15
    <3>2. Reading(Append(Append(s, "~"), "1")) = [tokens |-> Append(q, Append(u, "/")), escape |-> FALSE]
      BY <2>11
    <3> QED BY <2>1, <2>15, <3>1, <3>2
  <2>16. CASE c \notin {"~", "/"}
    <3>1. p \o Escape(Append(u, c)) = Append(s, c)
      BY <2>1, <2>4, <2>12, <2>16
    <3>2. Reading(Append(s, c)) = [tokens |-> Append(q, Append(u, c)), escape |-> FALSE]
      BY <2>1, <2>8, <2>10, <2>16
    <3> QED BY <2>1, <3>1, <3>2
  <2> QED BY <2>14, <2>15, <2>16
<1> DEFINE P == {k \in 0 .. n : says(k)}
<1>5. \A k \in 0 .. n : k \in P
  <2> HIDE DEF says
  <2>1. 0 \in P
    BY <1>1, <1>3
  <2>2. ASSUME NEW k \in 1 .. n, k - 1 \in P PROVE k \in P
    BY <1>4, <2>2
  <2> HIDE DEF P, n
  <2> QED BY <1>1, <2>1, <2>2, UpToInduction
<1>6. says(n)
  <2>1. n \in 0 .. n
    BY <1>1
  <2> QED BY <1>5, <2>1
<1> QED BY <1>1, <1>6

LEMMA DecimalIs ==
  ASSUME NEW i \in 0 .. 9
  PROVE  /\ Numerals[i + 1] \in Characters \ {"/", "~"}
         /\ \A j \in 0 .. 9 : Decimal(i) = Decimal(j) => i = j
<1>1. Numerals[i + 1] \in Characters
  <2>1. i + 1 \in 1 .. 10
    OBVIOUS
  <2> QED BY <2>1, Zenon DEF Characters
<1>2. /\ Numerals[1] = "0" /\ Numerals[2] = "1" /\ Numerals[3] = "2" /\ Numerals[4] = "3" /\ Numerals[5] = "4"
      /\ Numerals[6] = "5" /\ Numerals[7] = "6" /\ Numerals[8] = "7" /\ Numerals[9] = "8" /\ Numerals[10] = "9"
  BY DEF Numerals
<1>3. \A j \in 0 .. 9 : j + 1 \in {1, 2, 3, 4, 5, 6, 7, 8, 9, 10}
  OBVIOUS
<1>4. Numerals[i + 1] \notin {"/", "~"}
  BY <1>2, <1>3
<1>5. ASSUME NEW j \in 0 .. 9, Decimal(i) = Decimal(j) PROVE i = j
  <2>1. Numerals[i + 1] = Numerals[j + 1]
    BY <1>5 DEF Decimal
  <2>2. i + 1 = j + 1
    BY <1>2, <1>3, <2>1
  <2> QED BY <2>2
<1> QED BY <1>1, <1>4, <1>5

LEMMA PlainIs ==
  ASSUME NEW key \in Segments
  PROVE  /\ Plain(key) \in Texts
         /\ Token(key) = <<"/">> \o IF key \in Fields THEN Escape(Plain(key)) ELSE Plain(key)
         /\ key \notin Fields => \E c \in Characters \ {"/", "~"} : Plain(key) = <<c>>
<1>1. \A i, n : [index |-> i] # [name |-> n] /\ [index |-> i] # [unknown |-> TRUE] /\ [name |-> n] # [unknown |-> TRUE]
  <2>1. ASSUME NEW i, NEW n PROVE /\ DOMAIN [index |-> i] = {"index"} /\ DOMAIN [name |-> n] = {"name"}
                                  /\ DOMAIN [unknown |-> TRUE] = {"unknown"}
    OBVIOUS
  <2>2. {"index"} # {"name"} /\ {"index"} # {"unknown"} /\ {"name"} # {"unknown"}
    OBVIOUS
  <2> QED BY <2>1, <2>2, Zenon
<1>2. CASE key \in Items
  <2>1. PICK i \in Indices : key = [index |-> i]
    BY <1>2 DEF Items, Item
  <2>2. key \notin Fields /\ key # Unknown /\ key.index = i /\ i \in 0 .. 9
    BY <1>1, <2>1, Digits DEF Fields, Field, Unknown
  <2>3. Plain(key) = <<Numerals[i + 1]>>
    BY <1>2, <2>2 DEF Plain, Decimal
  <2>4. Numerals[i + 1] \in Characters \ {"/", "~"}
    BY <2>2, DecimalIs
  <2>5. Plain(key) \in Texts
    BY <2>3, <2>4 DEF Texts
  <2>6. Token(key) = <<"/">> \o Plain(key)
    BY <1>2, <2>2, <2>3 DEF Token, Decimal
  <2> QED BY <2>2, <2>3, <2>4, <2>5, <2>6
<1>3. CASE key = Unknown
  <2>1. key \notin Items /\ key \notin Fields
    BY <1>1, <1>3 DEF Unknown, Items, Item, Fields, Field
  <2>2. Plain(key) = <<"?">> /\ Token(key) = <<"/">> \o <<"?">>
    BY <1>3, <2>1 DEF Plain, Token
  <2>3. "?" \in Characters \ {"/", "~"}
    BY EscapeIs
  <2>4. Plain(key) \in Texts
    BY <2>2, <2>3 DEF Texts
  <2> QED BY <2>1, <2>2, <2>3, <2>4
<1>4. CASE key \in Fields
  <2>1. PICK n \in Names : key = [name |-> n]
    BY <1>4 DEF Fields, Field
  <2>2. key \notin Items /\ key # Unknown
    BY <1>1, <2>1 DEF Unknown, Items, Item
  <2>3. Plain(key) = key.name /\ Token(key) = <<"/">> \o Escape(key.name) /\ key.name = n
    BY <2>1, <2>2 DEF Plain, Token
  <2>4. n \in Texts
    <3>1. n \in Seq(STRING) /\ STRING \subseteq Characters
      BY NamesAreTexts DEF Characters
    <3> QED BY <3>1, SeqWidens DEF Texts
  <2> QED BY <1>4, <2>3, <2>4
<1> QED BY <1>2, <1>3, <1>4 DEF Segments

\* A token adds itself to a pointer whose reading is complete.
LEMMA TokenIsRead ==
  ASSUME NEW p \in Texts, NEW q \in Seq(Texts), Reading(p) = [tokens |-> q, escape |-> FALSE],
         NEW key \in Segments
  PROVE  Reading(p \o Token(key)) = [tokens |-> Append(q, Plain(key)), escape |-> FALSE]
<1>1. "/" \in Characters /\ <<"/">> \in Texts
  BY EscapeIs DEF Texts
<1> DEFINE s == Append(p, "/")
<1>2. [tokens |-> q, escape |-> FALSE] \in Readings /\ <<>> \in Texts
  BY DEF Readings, Texts
<1>3. s \in Texts /\ Reading(s) = [tokens |-> Append(q, <<>>), escape |-> FALSE]
  <2>1. s \in Texts /\ Reading(s) = Read(Reading(p), "/")
    BY <1>1, ReadingIs
  <2> DEFINE r == [tokens |-> q, escape |-> FALSE]
  <2>2. r.tokens = q
    OBVIOUS
  <2> HIDE DEF r
  <2>3. Read(r, "/") = [tokens |-> Append(r.tokens, <<>>), escape |-> FALSE]
    BY <1>1, <1>2, ReadIs DEF r
  <2> QED BY <2>1, <2>2, <2>3 DEF r
<1>4. \A t \in Texts : p \o (<<"/">> \o t) = s \o t
  BY <1>1, Reassociate DEF Texts
<1> HIDE DEF s
<1>5. /\ Plain(key) \in Texts
      /\ Token(key) = <<"/">> \o IF key \in Fields THEN Escape(Plain(key)) ELSE Plain(key)
      /\ key \notin Fields => \E c \in Characters \ {"/", "~"} : Plain(key) = <<c>>
  BY PlainIs
<1>6. CASE key \in Fields
  <2>1. Escape(Plain(key)) \in Texts
    BY <1>5, EscapeIs
  <2>2. p \o Token(key) = s \o Escape(Plain(key))
    BY <1>4, <1>5, <1>6, <2>1
  <2>3. Reading(s \o Escape(Plain(key))) = [tokens |-> Append(q, Plain(key)), escape |-> FALSE]
    BY <1>3, <1>5, EscapedIsRead
  <2> QED BY <2>2, <2>3
<1>7. CASE key \notin Fields
  <2>1. PICK c \in Characters \ {"/", "~"} : Plain(key) = <<c>>
    BY <1>5, <1>7
  <2>2. p \o Token(key) = s \o <<c>>
    BY <1>4, <1>5, <1>7, <2>1
  <2>3. s \o <<c>> = Append(s, c)
    BY <1>3, ConcatIs DEF Texts
  <2> DEFINE r == [tokens |-> Append(q, <<>>), escape |-> FALSE]
  <2>4. Reading(Append(s, c)) = Read(r, c)
    BY <1>3, ReadingIs
  <2>5. r \in Readings
    <3>1. Append(q, <<>>) \in Seq(Texts)
      BY <1>2
    <3> QED BY <3>1 DEF Readings
  <2>6. r.tokens = Append(q, <<>>) /\ ~r.escape
    OBVIOUS
  <2> HIDE DEF r
  <2>7. Read(r, c) = [tokens |-> Append(q, Append(<<>>, c)), escape |-> FALSE]
    BY <1>2, <2>5, <2>6, ReadIs
  <2>8. Append(<<>>, c) = <<c>>
    OBVIOUS
  <2> QED BY <2>1, <2>2, <2>3, <2>4, <2>7, <2>8
<1> QED BY <1>6, <1>7

LEMMA UpTo ==
  ASSUME NEW S, NEW s \in Seq(S)
  PROVE  /\ Len(s) \in Nat /\ SubSeq(s, 1, 0) = <<>> /\ SubSeq(s, 1, Len(s)) = s
         /\ \A k \in 1 .. Len(s) :
              /\ SubSeq(s, 1, k - 1) \in Seq(S) /\ s[k] \in S
              /\ SubSeq(s, 1, k) = Append(SubSeq(s, 1, k - 1), s[k])
<1>1. Len(s) \in Nat /\ SubSeq(s, 1, 0) = <<>> /\ SubSeq(s, 1, Len(s)) = s
  OBVIOUS
<1>2. ASSUME NEW k \in 1 .. Len(s)
      PROVE  /\ SubSeq(s, 1, k - 1) \in Seq(S) /\ s[k] \in S
             /\ SubSeq(s, 1, k) = Append(SubSeq(s, 1, k - 1), s[k])
  <2> DEFINE u == SubSeq(s, 1, k - 1)
  <2>1. k - 1 \in 0 .. Len(s)
    OBVIOUS
  <2>2. u \in Seq(S) /\ Len(u) = k - 1 /\ s[k] \in S /\ \A i \in 1 .. k - 1 : u[i] = s[i]
    BY <2>1
  <2>3. SubSeq(s, 1, k) = [i \in 1 .. k |-> s[i]]
    OBVIOUS
  <2> HIDE DEF u
  <2>4. Append(u, s[k]) = [i \in 1 .. (k - 1) + 1 |-> IF i = (k - 1) + 1 THEN s[k] ELSE u[i]]
    BY <2>2, AppendIs
  <2>5. \A i \in 1 .. k : s[i] = IF i = k THEN s[k] ELSE u[i]
    BY <2>2
  <2>6. (k - 1) + 1 = k
    OBVIOUS
  <2>7. SubSeq(s, 1, k) = Append(u, s[k])
    BY <2>3, <2>4, <2>5, <2>6
  <2> QED BY <2>2, <2>7 DEF u
<1> QED BY <1>1, <1>2

LEMMA SpelledIs ==
  ASSUME NEW at \in Seq(Segments)
  PROVE  /\ Spelled(at) \in Seq(Texts)
         /\ Spelled(<<>>) = <<>>
         /\ \A key \in Segments : Spelled(Append(at, key)) = Append(Spelled(at), Plain(key))
<1>1. DOMAIN at = 1 .. Len(at) /\ Len(at) \in Nat /\ \A i \in 1 .. Len(at) : Plain(at[i]) \in Texts
  BY PlainIs
<1>2. Spelled(at) \in Seq(Texts) /\ Len(Spelled(at)) = Len(at)
      /\ \A i \in 1 .. Len(at) : Spelled(at)[i] = Plain(at[i])
  BY <1>1 DEF Spelled
<1>3. Spelled(<<>>) = <<>>
  BY DEF Spelled
<1>4. ASSUME NEW key \in Segments PROVE Spelled(Append(at, key)) = Append(Spelled(at), Plain(key))
  <2> DEFINE t == Append(at, key)
  <2>1. DOMAIN t = 1 .. Len(at) + 1 /\ t[Len(at) + 1] = key /\ \A i \in 1 .. Len(at) : t[i] = at[i]
    OBVIOUS
  <2> HIDE DEF t
  <2>2. Spelled(t) = [i \in 1 .. Len(at) + 1 |-> Plain(t[i])]
    BY <2>1 DEF Spelled
  <2>3. Append(Spelled(at), Plain(key)) =
          [i \in 1 .. Len(at) + 1 |-> IF i = Len(at) + 1 THEN Plain(key) ELSE Spelled(at)[i]]
    BY <1>2, PlainIs, AppendIs
  <2>4. \A i \in 1 .. Len(at) + 1 : Plain(t[i]) = IF i = Len(at) + 1 THEN Plain(key) ELSE Spelled(at)[i]
    <3>1. \A n \in Nat : \A i \in 1 .. n + 1 : i = n + 1 \/ (i \in 1 .. n /\ i # n + 1)
      OBVIOUS
    <3> QED BY <1>1, <1>2, <2>1, <3>1
  <2> QED BY <2>2, <2>3, <2>4 DEF t
<1> QED BY <1>2, <1>3, <1>4

(* RFC 6901: the pointer of a place, read back, is the place.              *)
LEMMA PointersAreRead ==
  ASSUME NEW at \in Seq(Segments)
  PROVE  Reading(JsonPointer(at)) = [tokens |-> Spelled(at), escape |-> FALSE]
<1> DEFINE n == Len(at)
           upTo(k) == SubSeq(at, 1, k)
           says(k) == Reading(JsonPointer(upTo(k))) = [tokens |-> Spelled(upTo(k)), escape |-> FALSE]
<1>1. /\ n \in Nat /\ upTo(0) = <<>> /\ upTo(n) = at
      /\ \A k \in 1 .. n : /\ upTo(k - 1) \in Seq(Segments) /\ at[k] \in Segments
                           /\ upTo(k) = Append(upTo(k - 1), at[k])
  BY UpTo
<1> HIDE DEF upTo
<1>2. says(0)
  BY <1>1, PointerIs, ReadingIs, SpelledIs DEF Unread
<1>3. ASSUME NEW k \in 1 .. n, says(k - 1) PROVE says(k)
  <2> DEFINE u == upTo(k - 1)
             key == at[k]
  <2>1. u \in Seq(Segments) /\ key \in Segments /\ upTo(k) = Append(u, key)
    BY <1>1
  <2>2. Reading(JsonPointer(u)) = [tokens |-> Spelled(u), escape |-> FALSE]
    BY <1>3
  <2> HIDE DEF u, key
  <2>3. JsonPointer(u) \in Texts /\ JsonPointer(Append(u, key)) = JsonPointer(u) \o Token(key)
    BY <2>1, PointerIs
  <2>4. Spelled(u) \in Seq(Texts) /\ Spelled(Append(u, key)) = Append(Spelled(u), Plain(key))
    BY <2>1, SpelledIs
  <2>5. Reading(JsonPointer(u) \o Token(key)) = [tokens |-> Append(Spelled(u), Plain(key)), escape |-> FALSE]
    BY <2>1, <2>2, <2>3, <2>4, TokenIsRead
  <2> QED BY <2>1, <2>3, <2>4, <2>5
<1> DEFINE P == {k \in 0 .. n : says(k)}
<1>5. \A k \in 0 .. n : k \in P
  <2> HIDE DEF says
  <2>1. 0 \in P
    BY <1>1, <1>2
  <2>2. ASSUME NEW k \in 1 .. n, k - 1 \in P PROVE k \in P
    BY <1>3, <2>2
  <2> HIDE DEF P, n
  <2> QED BY <1>1, <2>1, <2>2, UpToInduction
<1>6. says(n)
  <2>1. n \in 0 .. n
    BY <1>1
  <2> QED BY <1>5, <2>1
<1> QED BY <1>1, <1>6

-----------------------------------------------------------------------------
(* Places and their pointers. *)

LEMMA PrefixIs ==
  ASSUME NEW S, NEW s \in Seq(S), NEW t \in Seq(S)
  PROVE  /\ IsPrefix(s, t) <=> Len(s) <= Len(t) /\ \A i \in 1 .. Len(s) : s[i] = t[i]
         /\ IsStrictPrefix(s, t) <=> Len(s) < Len(t) /\ \A i \in 1 .. Len(s) : s[i] = t[i]
<1> DEFINE same == \A i \in 1 .. Len(s) : s[i] = t[i]
<1>1. Len(s) \in Nat /\ Len(t) \in Nat
  OBVIOUS
<1>2. ASSUME Len(s) <= Len(t) PROVE SubSeq(s, 1, Len(s)) = SubSeq(t, 1, Len(s)) <=> same
  <2>1. SubSeq(s, 1, Len(s)) = [i \in 1 .. Len(s) |-> s[i]]
    OBVIOUS
  <2>2. SubSeq(t, 1, Len(s)) = [i \in 1 .. Len(s) |-> t[i]]
    BY <1>1, <1>2
  <2>3. [i \in 1 .. Len(s) |-> s[i]] = [i \in 1 .. Len(s) |-> t[i]] <=> same
    <3>1. ASSUME [i \in 1 .. Len(s) |-> s[i]] = [i \in 1 .. Len(s) |-> t[i]], NEW i \in 1 .. Len(s)
          PROVE  s[i] = t[i]
      <4>1. [j \in 1 .. Len(s) |-> s[j]][i] = [j \in 1 .. Len(s) |-> t[j]][i]
        BY <3>1
      <4> QED BY <4>1
    <3> QED BY <3>1
  <2> QED BY <2>1, <2>2, <2>3
<1>3. IsPrefix(s, t) <=> Len(s) <= Len(t) /\ same
  BY <1>2 DEF IsPrefix
<1>4. Len(s) = Len(t) => (same <=> s = t)
  <2>1. s = [i \in 1 .. Len(s) |-> s[i]] /\ t = [i \in 1 .. Len(t) |-> t[i]]
    OBVIOUS
  <2> QED BY <2>1
<1>5. IsStrictPrefix(s, t) <=> IsPrefix(s, t) /\ s # t
  BY DEF IsStrictPrefix
<1>6. s = t => Len(s) = Len(t)
  OBVIOUS
<1> HIDE DEF same
<1>7. IsStrictPrefix(s, t) <=> Len(s) < Len(t) /\ same
  BY <1>1, <1>3, <1>4, <1>5, <1>6
<1> QED BY <1>3, <1>7 DEF same

LEMMA SameInterval ==
  ASSUME NEW m \in Nat, NEW n \in Nat, 1 .. m = 1 .. n
  PROVE  m = n
<1>1. CASE m < n
  <2>1. n \in 1 .. n /\ n \notin 1 .. m
    BY <1>1
  <2> QED BY <2>1
<1>2. CASE n < m
  <2>1. m \in 1 .. m /\ m \notin 1 .. n
    BY <1>2
  <2> QED BY <2>1
<1> QED BY <1>1, <1>2

LEMMA PlainApart ==
  ASSUME NEW x \in Fields \cup Items, NEW y \in Fields \cup Items, DOMAIN x = DOMAIN y, Plain(x) = Plain(y)
  PROVE  x = y
<1>1. ASSUME NEW i PROVE DOMAIN [index |-> i] = {"index"}
  OBVIOUS
<1>2. ASSUME NEW n PROVE DOMAIN [name |-> n] = {"name"}
  OBVIOUS
<1>3. {"index"} # {"name"} /\ DOMAIN Unknown = {"unknown"} /\ {"unknown"} # {"name"} /\ {"unknown"} # {"index"}
  BY DEF Unknown
<1>4. /\ \A k \in Items : /\ DOMAIN k = {"index"} /\ k # Unknown /\ k.index \in 0 .. 9 /\ k = [index |-> k.index]
                          /\ Plain(k) = Decimal(k.index)
  <2>1. ASSUME NEW k \in Items PROVE /\ DOMAIN k = {"index"} /\ k # Unknown /\ k.index \in 0 .. 9
                                     /\ k = [index |-> k.index] /\ Plain(k) = Decimal(k.index)
    <3>1. PICK i \in Indices : k = [index |-> i]
      BY DEF Items, Item
    <3>2. DOMAIN k = {"index"} /\ k.index = i /\ i \in 0 .. 9
      BY <1>1, <3>1, Digits
    <3>3. k # Unknown
      BY <1>3, <3>2, Zenon
    <3>4. Plain(k) = Decimal(k.index)
      BY <3>3 DEF Plain
    <3> QED BY <3>1, <3>2, <3>3, <3>4
  <2> QED BY <2>1
<1>5. \A k \in Fields : DOMAIN k = {"name"} /\ k = [name |-> k.name] /\ Plain(k) = k.name
  <2>1. ASSUME NEW k \in Fields PROVE DOMAIN k = {"name"} /\ k = [name |-> k.name] /\ Plain(k) = k.name
    <3>1. PICK n \in Names : k = [name |-> n]
      BY DEF Fields, Field
    <3>2. DOMAIN k = {"name"} /\ k.name = n
      BY <1>2, <3>1
    <3>3. k # Unknown /\ k \notin Items
      BY <1>3, <1>4, <3>2, Zenon
    <3>4. Plain(k) = k.name
      BY <3>3 DEF Plain
    <3> QED BY <3>1, <3>2, <3>4
  <2> QED BY <2>1
<1>6. CASE x \in Items
  <2>1. y \in Items
    BY <1>3, <1>4, <1>5, <1>6
  <2>2. x.index = y.index
    BY <1>4, <1>6, <2>1, DecimalIs
  <2> QED BY <1>4, <1>6, <2>1, <2>2
<1>7. CASE x \in Fields
  <2>1. y \in Fields
    BY <1>3, <1>4, <1>5, <1>7
  <2> QED BY <1>5, <1>7, <2>1
<1> QED BY <1>6, <1>7

\* The places of a tree have spellings of their own, and so have their pointers.
LEMMA PlacesApart ==
  ASSUME TreeInv, NEW p \in DOMAIN tree, NEW q \in DOMAIN tree
  PROVE  /\ Spelled(p) = Spelled(q) => p = q
         /\ Reading(JsonPointer(p)).tokens = Spelled(p)
         /\ JsonPointer(p) = JsonPointer(q) => p = q
<1>1. p \in Seq(Fields \cup Items) /\ q \in Seq(Fields \cup Items) /\ p \in Seq(Segments) /\ q \in Seq(Segments)
  <2>1. p \in Seq(Fields \cup Items) /\ q \in Seq(Fields \cup Items)
    BY PathsAre DEF TreeInv
  <2>2. Fields \cup Items \subseteq Segments
    BY DEF Segments
  <2> QED BY <2>1, <2>2, SeqWidens
<1>2. ASSUME Spelled(p) = Spelled(q) PROVE p = q
  <2> DEFINE n == Len(p)
             P == {k \in 0 .. n : \A i \in 1 .. k : p[i] = q[i]}
  <2>1. n \in Nat /\ n = Len(q) /\ DOMAIN p = 1 .. n /\ DOMAIN q = 1 .. n
    <3>1. DOMAIN Spelled(p) = DOMAIN p /\ DOMAIN Spelled(q) = DOMAIN q
      BY DEF Spelled
    <3>2. DOMAIN p = 1 .. Len(p) /\ DOMAIN q = 1 .. Len(q) /\ Len(p) \in Nat /\ Len(q) \in Nat
      BY <1>1
    <3>3. 1 .. Len(p) = 1 .. Len(q)
      BY <1>2, <3>1, <3>2
    <3>4. Len(p) = Len(q)
      BY <3>2, <3>3, SameInterval
    <3> QED BY <3>2, <3>4
  <2>2. \A i \in 1 .. n : Plain(p[i]) = Plain(q[i]) /\ p[i] \in Fields \cup Items /\ q[i] \in Fields \cup Items
    <3>1. ASSUME NEW i \in 1 .. n PROVE Plain(p[i]) = Plain(q[i])
      <4>1. Spelled(p)[i] = Plain(p[i]) /\ Spelled(q)[i] = Plain(q[i])
        BY <2>1 DEF Spelled
      <4> QED BY <1>2, <4>1
    <3> QED BY <1>1, <2>1, <3>1
  <2>3. ASSUME NEW k \in 1 .. n, k - 1 \in P PROVE k \in P
    <3>1. \A i \in 1 .. k - 1 : p[i] = q[i]
      BY <2>3
    <3> DEFINE s == SubSeq(p, 1, k - 1)
    <3>2. s \in Seq(Fields \cup Items) /\ Len(s) = k - 1 /\ \A i \in 1 .. k - 1 : s[i] = p[i]
      BY <1>1, <2>1
    <3> HIDE DEF s
    <3>3. IsPrefix(s, q)
      <4>1. Len(s) <= Len(q) /\ \A i \in 1 .. Len(s) : s[i] = q[i]
        BY <2>1, <3>1, <3>2
      <4> QED BY <1>1, <3>2, <4>1, PrefixIs
    <3>4. DOMAIN p[k] = DOMAIN q[k]
      BY <2>1, <3>3 DEF TreeInv, OneKind, s
    <3>5. p[k] = q[k]
      BY <2>2, <3>4, PlainApart
    <3>6. \A i \in 1 .. k : i = k \/ i \in 1 .. k - 1
      OBVIOUS
    <3> QED BY <2>1, <3>1, <3>5, <3>6
  <2>4. 0 \in P
    BY <2>1
  <2> HIDE DEF P, n
  <2>5. \A k \in 0 .. n : k \in P
    BY <2>1, <2>3, <2>4, UpToInduction
  <2>6. \A i \in 1 .. n : p[i] = q[i]
    <3>1. n \in 0 .. n
      BY <2>1
    <3> QED BY <2>5, <3>1 DEF P
  <2>7. p = [i \in 1 .. n |-> p[i]] /\ q = [i \in 1 .. n |-> q[i]]
    BY <1>1, <2>1
  <2> QED BY <2>6, <2>7
<1>3. /\ Reading(JsonPointer(p)) = [tokens |-> Spelled(p), escape |-> FALSE]
      /\ Reading(JsonPointer(q)) = [tokens |-> Spelled(q), escape |-> FALSE]
  BY <1>1, PointersAreRead
<1>4. Reading(JsonPointer(p)).tokens = Spelled(p) /\ Reading(JsonPointer(q)).tokens = Spelled(q)
  BY <1>3
<1> QED BY <1>2, <1>4

-----------------------------------------------------------------------------
(* Once, and in turn. *)

Places(p) == {i \in DOMAIN output : output[i].pointer = JsonPointer(p)}

InOneBlock(p) ==
  \E before \in 0 .. Len(output) :
    /\ Places(p) = {before + k : k \in DOMAIN tree[p]}
    /\ \A k \in DOMAIN tree[p] : output[before + k] = Entry(p, k)

\* Loop g, further out than f, is past the key that f lies below.
Past(f, g) ==
  /\ IsStrictPrefix(g.at, f.at)
  /\ f.at[Len(g.at) + 1] \notin g.todo
  /\ f.at[Len(g.at) + 1] \in Items => \A k \in g.todo : f.at[Len(g.at) + 1].index <= k.index
PastWhatIsOpen == \A i, j \in DOMAIN frames : i < j => Past(frames[i], frames[j])

ReportedOnce ==
  \A p \in DOMAIN tree : Places(p) # {} =>
    InOneBlock(p) /\ \A i \in DOMAIN frames : ~Awaits(frames[i], p)

SameList(p, q) == Len(p) = 3 /\ Len(q) = 3 /\ p[1] = q[1]
LaterItemsAhead ==
  \A p, q \in DOMAIN tree : \A i \in DOMAIN frames :
    SameList(p, q) /\ Places(p) # {} /\ Awaits(frames[i], q) => p[2].index <= q[2].index

OnlyWhileWalking ==
  /\ frames = <<>> /\ answer # "rejected" => output = <<>>
  /\ answer # "none" /\ broken # None =>
       output = <<[code |-> InvalidBody, pointer |-> IF broken = <<>> THEN None ELSE JsonPointer(broken)]>>

OnceInv == PastWhatIsOpen /\ ReportedOnce /\ LaterItemsAhead /\ OnlyWhileWalking /\ ItemsInOrder

\* What a loop that has taken a key waits for, it waited for before.
LEMMA AwaitedBefore ==
  ASSUME IInv, frames # <<>>, NEW key \in Due, NEW j \in 1 .. Len(frames), NEW p, Awaits(Taken(key)[j], p)
  PROVE  Awaits(frames[j], p) /\ (j = 1 => p[Len(Top.at) + 1] # key)
<1>1. /\ Top = frames[1] /\ Top \in Loops
      /\ Taken(key)[1] = [Top EXCEPT !.todo = @ \ {key}]
      /\ \A i \in 2 .. Len(frames) : Taken(key)[i] = frames[i]
      /\ Len(frames) \in Nat \ {0}
  BY StepFinds
<1>2. [Top EXCEPT !.todo = @ \ {key}].at = Top.at /\ [Top EXCEPT !.todo = @ \ {key}].todo = Top.todo \ {key}
  BY <1>1 DEF Loops
<1>3. CASE j = 1
  BY <1>1, <1>2, <1>3 DEF Awaits
<1>4. CASE j # 1
  <2>1. j \in 2 .. Len(frames)
    BY <1>1, <1>4
  <2> QED BY <1>1, <1>4, <2>1
<1> QED BY <1>3, <1>4

\* A place at or below the key that is taken was awaited and is no longer.
LEMMA BelowWhatIsTaken ==
  ASSUME IInv, PastWhatIsOpen, frames # <<>>, NEW key \in Due,
         NEW p \in Seq(Fields \cup Items), IsPrefix(Here(key), p)
  PROVE  /\ Awaits(frames[1], p)
         /\ \A j \in 1 .. Len(frames) : ~Awaits(Taken(key)[j], p)
<1> DEFINE K == Fields \cup Items
           n == Len(Top.at)
           here == Here(key)
<1>1. /\ Top = frames[1] /\ Top.at \in Seq(K) /\ key \in Top.todo /\ key \in K
      /\ frames \in Seq(Loops) /\ Len(frames) \in Nat \ {0} /\ here = Append(Top.at, key)
  BY StepFinds DEF Here, Stacked
<1>2. /\ here \in Seq(K) /\ Len(here) = n + 1 /\ n \in Nat /\ here[n + 1] = key
      /\ \A i \in 1 .. n : here[i] = Top.at[i]
  BY <1>1
<1> HIDE DEF here, n
<1>3. Len(p) >= n + 1 /\ Len(p) \in Nat /\ \A i \in 1 .. n + 1 : p[i] = here[i]
  <2>1. IsPrefix(here, p)
    BY DEF here
  <2> HIDE DEF K
  <2> QED BY <1>2, <2>1, PrefixIs DEF K
<1>4. p[n + 1] = key /\ \A i \in 1 .. n : p[i] = Top.at[i]
  BY <1>2, <1>3
<1>5. IsStrictPrefix(Top.at, p)
  <2>1. Len(Top.at) < Len(p) /\ \A i \in 1 .. Len(Top.at) : Top.at[i] = p[i]
    BY <1>2, <1>3, <1>4 DEF n
  <2> QED BY <1>1, <2>1, PrefixIs
<1>6. Awaits(frames[1], p)
  BY <1>1, <1>4, <1>5 DEF Awaits, n
<1>7. ASSUME NEW j \in 1 .. Len(frames), Awaits(Taken(key)[j], p) PROVE FALSE
  <2>1. Awaits(frames[j], p) /\ (j = 1 => p[n + 1] # key)
    BY <1>7, AwaitedBefore DEF n
  <2>2. j # 1
    BY <1>4, <2>1
  <2>3. 1 \in DOMAIN frames /\ j \in DOMAIN frames /\ 1 < j
    BY <1>1, <2>2
  <2>4. Past(frames[1], frames[j])
    BY <2>3 DEF PastWhatIsOpen
  <2> DEFINE g == frames[j]
             m == Len(g.at)
  <2>5. g.at \in Seq(K) /\ IsStrictPrefix(g.at, Top.at) /\ Top.at[m + 1] \notin g.todo
    <3>1. g \in Loops
      BY <1>1, <2>3
    <3>2. g.at \in Seq(K)
      BY <3>1 DEF Loops
    <3> QED BY <1>1, <2>4, <3>2 DEF Past
  <2>6. m \in Nat /\ m < n
    BY <1>1, <2>5, PrefixIs DEF n
  <2>7. p[m + 1] = Top.at[m + 1]
    BY <1>2, <1>4, <2>6
  <2>8. p[m + 1] \in g.todo
    BY <2>1 DEF Awaits
  <2> QED BY <2>5, <2>7, <2>8
<1> QED BY <1>6, <1>7

LEMMA ItemIndex ==
  ASSUME NEW p \in Paths, Len(p) = 3
  PROVE  p[2] \in Items /\ p[2].index \in Nat
<1>1. ASSUME NEW f \in Fields PROVE Len(<<f>>) = 1
  OBVIOUS
<1>2. ASSUME NEW f \in Fields, NEW g \in Fields PROVE Len(<<f, g>>) = 2
  OBVIOUS
<1>3. p \notin {<<f>> : f \in Fields} /\ p \notin Fields \X Fields
  BY <1>1, <1>2
<1>4. p \in Fields \X Items \X Fields
  BY <1>3 DEF Paths
<1>5. PICK i \in Indices : p[2] = [index |-> i]
  BY <1>4 DEF Items, Item
<1> QED BY <1>4, <1>5, Digits

\* What is still to come of a list comes at or after the item of `here`.
LEMMA LaterInList ==
  ASSUME IInv, PastWhatIsOpen, frames # <<>>, NEW key \in Due, Here(key) \in Paths,
         NEW q \in Paths, SameList(Here(key), q),
         NEW j \in 1 .. Len(frames), Awaits(Taken(key)[j], q)
  PROVE  Here(key)[2].index <= q[2].index
<1> DEFINE K == Fields \cup Items
           here == Here(key)
<1>1. /\ Top = frames[1] /\ Top.at \in Seq(K) /\ key \in K /\ frames \in Seq(Loops)
      /\ Len(frames) \in Nat \ {0} /\ here = Append(Top.at, key)
  BY StepFinds DEF Here, Stacked
<1>2. Len(here) = 3 /\ Len(q) = 3 /\ here[1] = q[1]
  BY DEF SameList
<1>3. Len(Top.at) = 2 /\ here[1] = Top.at[1] /\ here[2] = Top.at[2]
  <2>1. \A i \in 1 .. Len(Top.at) : here[i] = Top.at[i]
    BY <1>1
  <2>2. PICK m \in Nat : m = Len(Top.at) /\ Len(here) = m + 1
    BY <1>1
  <2> HIDE DEF here
  <2>3. Len(here) = 3
    BY <1>2
  <2>4. m + 1 = 3
    BY <2>2, <2>3
  <2>5. m = 2
    BY <2>4
  <2>6. 1 \in 1 .. Len(Top.at) /\ 2 \in 1 .. Len(Top.at)
    BY <2>2, <2>5
  <2> QED BY <2>1, <2>2, <2>5, <2>6
<1>4. q \in Seq(K) /\ here \in Seq(K)
  BY PathsAre
<1>5. here[2] \in Items /\ here[2].index \in Nat
  <2> HIDE DEF here
  <2>1. here \in Paths
    BY DEF here
  <2> QED BY <1>2, <2>1, ItemIndex
<1> HIDE DEF here
<1>6. Awaits(frames[j], q)
  BY AwaitedBefore
<1> DEFINE g == frames[j]
           m == Len(g.at)
<1>7. g.at \in Seq(K)
  <2>1. g \in Loops
    BY <1>1
  <2> QED BY <2>1 DEF Loops
<1>8. m < Len(q) /\ m \in Nat /\ q[m + 1] \in g.todo /\ \A i \in 1 .. m : g.at[i] = q[i]
  <2>1. IsStrictPrefix(g.at, q) /\ q[m + 1] \in g.todo
    BY <1>6 DEF Awaits
  <2> QED BY <1>4, <1>7, <2>1, PrefixIs
<1>9. CASE j = 1
  <2>1. m = 2 /\ q[2] = here[2]
    BY <1>1, <1>3, <1>8, <1>9
  <2> QED BY <1>5, <2>1 DEF here
<1>10. CASE j # 1
  <2>1. Past(Top, g)
    <3>1. 1 \in DOMAIN frames /\ j \in DOMAIN frames /\ 1 < j
      BY <1>1, <1>10
    <3> QED BY <1>1, <3>1 DEF PastWhatIsOpen
  <2>2. m < 2 /\ Top.at[m + 1] \notin g.todo
        /\ (Top.at[m + 1] \in Items => \A k \in g.todo : Top.at[m + 1].index <= k.index)
    <3>1. IsStrictPrefix(g.at, Top.at)
      BY <2>1 DEF Past
    <3>2. m < Len(Top.at)
      BY <1>1, <1>7, <3>1, PrefixIs
    <3> QED BY <1>3, <2>1, <3>2 DEF Past
  <2> HIDE DEF m, g
  <2>3. CASE m = 0
    <3>1. q[1] = Top.at[1]
      BY <1>2, <1>3
    <3> QED BY <1>8, <2>2, <2>3, <3>1
  <2>4. CASE m = 1
    <3>1. \A k \in g.todo : here[2].index <= k.index
      BY <1>3, <1>5, <2>2, <2>4
    <3> QED BY <1>8, <2>4, <3>1 DEF here
  <2> QED BY <1>8, <2>2, <2>3, <2>4
<1> QED BY <1>9, <1>10

\* Of two open loops, the outer one stays past the key the inner one lies below.
LEMMA TakenIsPast ==
  ASSUME IInv, PastWhatIsOpen, frames # <<>>, NEW key \in Due,
         NEW i \in 1 .. Len(frames), NEW j \in 1 .. Len(frames), i < j
  PROVE  Past(Taken(key)[i], Taken(key)[j])
<1>1. /\ Top = frames[1] /\ Top \in Loops /\ frames \in Seq(Loops) /\ Len(frames) \in Nat \ {0}
      /\ Taken(key)[1] = [Top EXCEPT !.todo = @ \ {key}]
      /\ \A l \in 2 .. Len(frames) : Taken(key)[l] = frames[l]
  BY StepFinds DEF Stacked
<1>2. Past(frames[i], frames[j])
  <2>1. i \in DOMAIN frames /\ j \in DOMAIN frames
    BY <1>1
  <2> QED BY <2>1 DEF PastWhatIsOpen
<1>3. Taken(key)[j] = frames[j]
  BY <1>1
<1>4. Taken(key)[i].at = frames[i].at
  <2>1. [Top EXCEPT !.todo = @ \ {key}].at = Top.at
    BY <1>1 DEF Loops
  <2>2. i # 1 => i \in 2 .. Len(frames)
    BY <1>1
  <2> QED BY <1>1, <2>1, <2>2
<1> QED BY <1>2, <1>3, <1>4 DEF Past

LEMMA ReportAdds ==
  ASSUME IInv, frames # <<>>, NEW key \in Due, Report(key), UNCHANGED <<broken, tree, answer>>,
         NEW here, here = Here(key)
  PROVE  /\ tree' = tree /\ broken' = broken /\ answer' = answer
         /\ frames' = Taken(key) /\ here \in DOMAIN tree
         /\ Len(tree[here]) \in Nat \ {0} /\ DOMAIN tree[here] = 1 .. Len(tree[here])
         /\ Len(output) \in Nat /\ DOMAIN output = 1 .. Len(output)
         /\ Len(output') = Len(output) + Len(tree[here]) /\ DOMAIN output' = 1 .. Len(output')
         /\ \A i \in 1 .. Len(output) : output'[i] = output[i]
         /\ \A k \in 1 .. Len(tree[here]) : output'[Len(output) + k] = Entry(here, k)
<1> DEFINE more == [i \in DOMAIN tree[here] |-> [code |-> tree[here][i], pointer |-> prefix \o Token(key)]]
<1>1. /\ tree' = tree /\ broken' = broken /\ answer' = answer
      /\ frames' = Taken(key) /\ output' = output \o more /\ here \in DOMAIN tree
  BY DEF Report
<1>2. TreeInv /\ output \in Seq(Entries) /\ prefix \o Token(key) = JsonPointer(here)
  BY StepFinds DEF IInv
<1>3. /\ DOMAIN tree[here] = 1 .. Len(tree[here]) /\ Len(tree[here]) \in Nat \ {0}
      /\ \A k \in DOMAIN tree[here] : Entry(here, k) \in Entries
  BY <1>1, <1>2, EntriesTyped
<1>4. more = [k \in DOMAIN tree[here] |-> Entry(here, k)]
  BY <1>2 DEF Entry
<1> HIDE DEF more
<1>5. more \in Seq(Entries) /\ Len(more) = Len(tree[here]) /\ \A k \in 1 .. Len(tree[here]) : more[k] = Entry(here, k)
  BY <1>3, <1>4
<1>6. /\ output' \in Seq(Entries) /\ Len(output') = Len(output) + Len(more)
      /\ Len(output) \in Nat /\ Len(more) \in Nat
      /\ \A i \in 1 .. Len(output) : output'[i] = output[i]
      /\ \A k \in 1 .. Len(more) : output'[Len(output) + k] = more[k]
  <2>1. Len(more) \in Nat /\ more \in Seq(Entries)
    BY <1>3, <1>5
  <2> QED BY <1>1, <1>2, <2>1
<1>7. DOMAIN output = 1 .. Len(output) /\ DOMAIN output' = 1 .. Len(output')
  BY <1>2, <1>6
<1> QED BY <1>1, <1>3, <1>5, <1>6, <1>7

\* A rule that is reported adds to one place only.
LEMMA ReportFills ==
  ASSUME IInv, frames # <<>>, NEW key \in Due, Report(key), UNCHANGED <<broken, tree, answer>>,
         NEW here, here = Here(key), NEW p \in DOMAIN tree
  PROVE  Places(p)' = Places(p) \cup IF p = here THEN {Len(output) + k : k \in 1 .. Len(tree[here])} ELSE {}
<1> DEFINE n == Len(output)
           more == Len(tree[here])
<1>1. /\ here \in DOMAIN tree /\ more \in Nat \ {0} /\ n \in Nat
      /\ DOMAIN output = 1 .. n /\ DOMAIN output' = 1 .. n + more
      /\ \A i \in 1 .. n : output'[i] = output[i]
      /\ \A k \in 1 .. more : output'[n + k] = Entry(here, k)
  BY ReportAdds
<1>2. JsonPointer(p) = JsonPointer(here) <=> p = here
  BY <1>1, PlacesApart DEF IInv
<1>3. \A k : Entry(here, k).pointer = JsonPointer(here)
  BY DEF Entry
<1>4. Places(p)' = {i \in 1 .. n + more : output'[i].pointer = JsonPointer(p)}
  BY <1>1 DEF Places
<1>5. Places(p) = {i \in 1 .. n : output[i].pointer = JsonPointer(p)}
  BY <1>1 DEF Places
<1> HIDE DEF n, more
<1> DEFINE new == {n + k : k \in 1 .. more}
<1>6. 1 .. n + more = (1 .. n) \cup new
  <2>1. ASSUME NEW i \in 1 .. n + more, i \notin 1 .. n PROVE i \in new
    <3>1. i - n \in 1 .. more /\ n + (i - n) = i
      BY <1>1, <2>1
    <3> QED BY <3>1
  <2>2. new \subseteq 1 .. n + more
    BY <1>1
  <2>3. 1 .. n \subseteq 1 .. n + more
    BY <1>1
  <2> HIDE DEF new
  <2> QED BY <2>1, <2>2, <2>3
<1>7. \A i \in new : output'[i].pointer = JsonPointer(here)
  BY <1>1, <1>3
<1> HIDE DEF new
<1>8. Places(p)' = Places(p) \cup IF p = here THEN new ELSE {}
  BY <1>1, <1>2, <1>4, <1>5, <1>6, <1>7
<1> QED BY <1>8 DEF new, n, more

LEMMA ReportOnceInv ==
  ASSUME IInv, OnceInv, frames # <<>>, NEW key \in Due, Report(key), UNCHANGED <<broken, tree, answer>>
  PROVE  OnceInv'
<1>0. PICK here : here = Here(key)
  OBVIOUS
<1>1. /\ tree' = tree /\ broken' = broken /\ answer' = answer
      /\ frames' = Taken(key) /\ here \in DOMAIN tree
      /\ Len(tree[here]) \in Nat \ {0} /\ DOMAIN tree[here] = 1 .. Len(tree[here])
      /\ Len(output) \in Nat /\ DOMAIN output = 1 .. Len(output)
      /\ Len(output') = Len(output) + Len(tree[here]) /\ DOMAIN output' = 1 .. Len(output')
      /\ \A i \in 1 .. Len(output) : output'[i] = output[i]
      /\ \A k \in 1 .. Len(tree[here]) : output'[Len(output) + k] = Entry(here, k)
  BY <1>0, ReportAdds
<1>2. /\ broken = None /\ TreeInv /\ Top = frames[1] /\ Top \in Loops
      /\ frames \in Seq(Loops) /\ Len(frames) \in Nat \ {0}
      /\ Taken(key) # <<>> /\ DOMAIN Taken(key) = 1 .. Len(frames) /\ DOMAIN frames = 1 .. Len(frames)
      /\ Taken(key)[1] = [Top EXCEPT !.todo = @ \ {key}]
      /\ \A i \in 2 .. Len(frames) : Taken(key)[i] = frames[i]
  <2>1. /\ broken = None /\ TreeInv /\ Top = frames[1] /\ Top \in Loops
        /\ Stacked(frames) /\ Stacked(Taken(key)) /\ Taken(key) # <<>> /\ Len(Taken(key)) = Len(frames)
        /\ Len(frames) \in Nat \ {0}
        /\ Taken(key)[1] = [Top EXCEPT !.todo = @ \ {key}]
        /\ \A i \in 2 .. Len(frames) : Taken(key)[i] = frames[i]
    BY StepFinds
  <2>2. frames \in Seq(Loops) /\ Taken(key) \in Seq(Loops)
    BY <2>1 DEF Stacked
  <2>3. DOMAIN Taken(key) = 1 .. Len(frames) /\ DOMAIN frames = 1 .. Len(frames)
    BY <2>1, <2>2
  <2> QED BY <2>1, <2>2, <2>3
<1>3. PastWhatIsOpen /\ ReportedOnce /\ LaterItemsAhead /\ ItemsInOrder
  BY DEF OnceInv
<1>4. here \in Paths /\ here \in Seq(Fields \cup Items)
  BY <1>1, <1>2, PathsAre DEF TreeInv
<1>5. Awaits(frames[1], here) /\ \A j \in 1 .. Len(frames) : ~Awaits(Taken(key)[j], here)
  <2>1. IsPrefix(here, here)
    BY <1>4, PrefixIs
  <2> QED BY <1>0, <1>3, <1>4, <2>1, BelowWhatIsTaken
<1>6. Places(here) = {}
  BY <1>1, <1>2, <1>3, <1>5 DEF ReportedOnce
<1> DEFINE new == {Len(output) + k : k \in 1 .. Len(tree[here])}
<1>7. Places(here)' = new /\ \A p \in DOMAIN tree : p # here => Places(p)' = Places(p)
  <2>1. ASSUME NEW p \in DOMAIN tree PROVE Places(p)' = Places(p) \cup IF p = here THEN new ELSE {}
    BY <1>0, ReportFills
  <2> HIDE DEF new
  <2>2. Places(here)' = new
    BY <1>1, <1>6, <2>1
  <2> QED BY <2>1, <2>2
<1>8. \A p, k : Entry(p, k)' = Entry(p, k)
  BY <1>1 DEF Entry
<1>9. PastWhatIsOpen'
  <2>1. ASSUME NEW i \in 1 .. Len(frames), NEW j \in 1 .. Len(frames), i < j PROVE Past(Taken(key)[i], Taken(key)[j])
    BY <1>3, <2>1, TakenIsPast
  <2>2. \A i, j \in DOMAIN Taken(key) : i < j => Past(Taken(key)[i], Taken(key)[j])
    BY <1>2, <2>1
  <2>3. PastWhatIsOpen' <=> \A i, j \in DOMAIN frames' : i < j => Past(frames'[i], frames'[j])
    BY DEF PastWhatIsOpen, Past
  <2> QED BY <1>1, <2>2, <2>3
<1>10. ReportedOnce'
  <2>1. ASSUME NEW p \in DOMAIN tree, Places(p)' # {}
        PROVE  InOneBlock(p)' /\ \A i \in 1 .. Len(frames) : ~Awaits(Taken(key)[i], p)
    <3>1. CASE p = here
      <4>1. Len(output) \in 0 .. Len(output')
        BY <1>1
      <4>2. InOneBlock(here)'
        BY <1>1, <1>7, <1>8, <4>1 DEF InOneBlock
      <4> QED BY <1>5, <3>1, <4>2
    <3>2. CASE p # here
      <4>1. Places(p)' = Places(p) /\ Places(p) # {}
        BY <1>7, <2>1, <3>2
      <4>2. InOneBlock(p) /\ \A i \in DOMAIN frames : ~Awaits(frames[i], p)
        BY <1>3, <4>1 DEF ReportedOnce
      <4>3. \A i \in 1 .. Len(frames) : ~Awaits(Taken(key)[i], p)
        BY <1>2, <4>2, AwaitedBefore
      <4>4. PICK before \in 0 .. Len(output) :
              /\ Places(p) = {before + k : k \in DOMAIN tree[p]}
              /\ \A k \in DOMAIN tree[p] : output[before + k] = Entry(p, k)
        BY <4>2 DEF InOneBlock
      <4>5. before \in 0 .. Len(output')
        BY <1>1
      <4>6. ASSUME NEW k \in DOMAIN tree[p] PROVE output'[before + k] = Entry(p, k)
        <5>1. before + k \in 1 .. Len(output)
          BY <1>1, <4>4 DEF Places
        <5> QED BY <1>1, <4>4, <5>1
      <4>7. InOneBlock(p)'
        BY <1>1, <1>8, <4>1, <4>4, <4>5, <4>6 DEF InOneBlock
      <4> QED BY <4>3, <4>7
    <3> QED BY <3>1, <3>2
  <2>2. \A i, p : Awaits(frames'[i], p) <=> Awaits(Taken(key)[i], p)
    BY <1>1
  <2> QED BY <1>1, <1>2, <2>1, <2>2 DEF ReportedOnce
<1>11. LaterItemsAhead'
  <2>1. ASSUME NEW p \in DOMAIN tree, NEW q \in DOMAIN tree, NEW i \in 1 .. Len(frames),
               SameList(p, q), Places(p)' # {}, Awaits(Taken(key)[i], q)
        PROVE  p[2].index <= q[2].index
    <3>1. CASE p = here
      <4>1. q \in Paths
        BY <1>2 DEF TreeInv
      <4> QED BY <1>0, <1>3, <1>4, <2>1, <3>1, <4>1, LaterInList
    <3>2. CASE p # here
      <4>1. Places(p) # {} /\ Awaits(frames[i], q) /\ i \in DOMAIN frames
        BY <1>2, <1>7, <2>1, <3>2, AwaitedBefore
      <4> QED BY <1>3, <2>1, <4>1 DEF LaterItemsAhead
    <3> QED BY <3>1, <3>2
  <2>2. \A i, p : Awaits(frames'[i], p) <=> Awaits(Taken(key)[i], p)
    BY <1>1
  <2> QED BY <1>1, <1>2, <2>1, <2>2 DEF LaterItemsAhead
<1>12. OnlyWhileWalking'
  BY <1>1, <1>2 DEF OnlyWhileWalking
<1>13. ItemsInOrder'
  <2>1. ASSUME NEW p \in DOMAIN tree, NEW q \in DOMAIN tree, NEW i \in DOMAIN output', NEW j \in DOMAIN output',
               i < j, SameList(p, q), i \in Places(p)', j \in Places(q)'
        PROVE  p[2].index <= q[2].index
    <3>1. SameList(here, here) => here[2].index <= here[2].index
      <4>1. SameList(here, here) => here[2].index \in Nat
        BY <1>4, ItemIndex DEF SameList
      <4> QED BY <4>1
    <3>2. i \in Nat /\ j \in Nat /\ \A r \in DOMAIN tree : r # here => Places(r)' \subseteq 1 .. Len(output)
      <4>1. \A r \in DOMAIN tree : Places(r) \subseteq 1 .. Len(output)
        BY <1>1 DEF Places
      <4> QED BY <1>1, <1>7, <4>1
    <3>3. CASE q = here /\ p # here
      <4>1. Places(p) # {} /\ 1 \in DOMAIN frames
        BY <1>2, <1>7, <2>1, <3>3
      <4> QED BY <1>1, <1>3, <1>5, <2>1, <3>3, <4>1 DEF LaterItemsAhead
    <3>4. CASE q = here /\ p = here
      BY <2>1, <3>1, <3>4
    <3>5. CASE q # here /\ p = here
      <4>1. j \in 1 .. Len(output) /\ i \in new
        BY <1>7, <2>1, <3>2, <3>5
      <4>2. j < i
        BY <1>1, <4>1
      <4> QED BY <2>1, <3>2, <4>2
    <3>6. CASE q # here /\ p # here
      <4>1. i \in Places(p) /\ j \in Places(q)
        BY <1>7, <2>1, <3>6
      <4>2. i \in DOMAIN output /\ j \in DOMAIN output
            /\ output[i].pointer = JsonPointer(p) /\ output[j].pointer = JsonPointer(q)
        BY <4>1 DEF Places
      <4> QED BY <1>3, <2>1, <4>2 DEF ItemsInOrder, SameList
    <3> QED BY <3>3, <3>4, <3>5, <3>6
  <2> QED BY <1>1, <2>1 DEF ItemsInOrder, SameList, Places
<1> QED BY <1>9, <1>10, <1>11, <1>12, <1>13 DEF OnceInv

\* What a step that reports nothing leaves of the invariant, if no loop awaits more.
LEMMA OnceStays ==
  ASSUME OnceInv, output' = output, tree' = tree,
         \A p \in DOMAIN tree :
           (\E i \in DOMAIN frames' : Awaits(frames'[i], p)) => \E j \in DOMAIN frames : Awaits(frames[j], p)
  PROVE  ReportedOnce' /\ LaterItemsAhead' /\ ItemsInOrder'
<1>1. ReportedOnce /\ LaterItemsAhead /\ ItemsInOrder
  BY DEF OnceInv
<1>2. \A p, k : Entry(p, k)' = Entry(p, k)
  BY DEF Entry
<1>3. \A p : Places(p)' = Places(p)
  BY DEF Places
<1>4. \A p : InOneBlock(p) => InOneBlock(p)'
  BY <1>2, <1>3 DEF InOneBlock
<1>5. ASSUME NEW p \in DOMAIN tree, Places(p) # {} PROVE InOneBlock(p)' /\ \A i \in DOMAIN frames' : ~Awaits(frames'[i], p)
  BY <1>1, <1>4, <1>5 DEF ReportedOnce
<1>6. ReportedOnce'
  BY <1>3, <1>5 DEF ReportedOnce
<1>7. ASSUME NEW p \in DOMAIN tree, NEW q \in DOMAIN tree, NEW i \in DOMAIN frames',
             SameList(p, q), Places(p) # {}, Awaits(frames'[i], q)
      PROVE  p[2].index <= q[2].index
  <2>1. PICK j \in DOMAIN frames : Awaits(frames[j], q)
    BY <1>7
  <2> QED BY <1>1, <1>7, <2>1 DEF LaterItemsAhead
<1>8. LaterItemsAhead'
  BY <1>3, <1>7 DEF LaterItemsAhead
<1>9. ItemsInOrder'
  BY <1>1 DEF ItemsInOrder
<1> QED BY <1>6, <1>8, <1>9

LEMMA DescendOpens ==
  ASSUME IInv, frames # <<>>, NEW key \in Due, Descend(key), UNCHANGED <<broken, tree, answer>>,
         NEW here, here = Here(key)
  PROVE  /\ tree' = tree /\ broken' = broken /\ answer' = answer /\ output' = output
         /\ Len(frames) \in Nat \ {0} /\ DOMAIN frames = 1 .. Len(frames)
         /\ DOMAIN frames' = 1 .. Len(frames) + 1
         /\ frames'[1].at = here
         /\ \A i \in 1 .. Len(frames) : frames'[i + 1] = Taken(key)[i]
<1>1. /\ Stacked(frames) /\ Stacked(Taken(key)) /\ Len(Taken(key)) = Len(frames) /\ Len(frames) \in Nat \ {0}
      /\ prefix \in Texts /\ TreeInv /\ here \in Seq(Fields \cup Items)
  BY StepFinds
<1>2. PICK f : f = Frame(here, Len(prefix))
  OBVIOUS
<1>3. /\ broken' = broken /\ tree' = tree /\ answer' = answer /\ output' = output
      /\ frames' = <<f>> \o Taken(key)
  BY <1>2 DEF Descend
<1>4. f \in Loops /\ f.at = here
  <2>1. Len(prefix) \in Nat
    BY <1>1 DEF Texts
  <2>2. Keys(here) \subseteq Fields \cup Items
    BY <1>1, KeysAre
  <2> QED BY <1>1, <1>2, <2>1, <2>2 DEF Frame, Loops
<1>5. Taken(key) \in Seq(Loops) /\ frames \in Seq(Loops)
  BY <1>1 DEF Stacked
<1>6. /\ <<f>> \o Taken(key) \in Seq(Loops) /\ Len(<<f>> \o Taken(key)) = Len(Taken(key)) + 1
      /\ (<<f>> \o Taken(key))[1] = f
      /\ \A i \in 1 .. Len(Taken(key)) : (<<f>> \o Taken(key))[i + 1] = Taken(key)[i]
  BY <1>4, <1>5, ConsIs
<1>7. DOMAIN (<<f>> \o Taken(key)) = 1 .. Len(<<f>> \o Taken(key)) /\ DOMAIN frames = 1 .. Len(frames)
  BY <1>5, <1>6
<1> QED BY <1>1, <1>3, <1>4, <1>6, <1>7

LEMMA DescendOnceInv ==
  ASSUME IInv, OnceInv, frames # <<>>, NEW key \in Due, Descend(key), UNCHANGED <<broken, tree, answer>>
  PROVE  OnceInv'
<1> DEFINE K == Fields \cup Items
           n == Len(frames)
           m == Len(Top.at)
<1>0. PICK here : here = Here(key)
  OBVIOUS
<1>1. /\ tree' = tree /\ broken' = broken /\ answer' = answer /\ output' = output
      /\ n \in Nat \ {0} /\ DOMAIN frames = 1 .. n /\ DOMAIN frames' = 1 .. n + 1
      /\ frames'[1].at = here /\ \A i \in 1 .. n : frames'[i + 1] = Taken(key)[i]
  BY <1>0, DescendOpens
<1>2. /\ broken = None /\ answer = "none" /\ TreeInv /\ Top = frames[1] /\ Top \in Loops /\ Top.at \in Seq(K)
      /\ key \in K /\ frames \in Seq(Loops)
      /\ Taken(key)[1] = [Top EXCEPT !.todo = @ \ {key}]
      /\ \A i \in 2 .. n : Taken(key)[i] = frames[i]
      /\ here = Append(Top.at, key)
  BY <1>0, StepFinds DEF Here, Stacked
<1>3. /\ here \in Seq(K) /\ Len(here) = m + 1 /\ m \in Nat /\ here[m + 1] = key
      /\ \A i \in 1 .. m : here[i] = Top.at[i]
  BY <1>2
<1>4. PastWhatIsOpen /\ ReportedOnce
  BY DEF OnceInv
<1> HIDE DEF n, m
<1>5. \A p \in DOMAIN tree :
        (\E i \in DOMAIN frames' : Awaits(frames'[i], p)) => \E j \in DOMAIN frames : Awaits(frames[j], p)
  <2>1. ASSUME NEW p \in DOMAIN tree, NEW i \in 1 .. n + 1, Awaits(frames'[i], p)
        PROVE  \E j \in 1 .. n : Awaits(frames[j], p)
    <3>1. CASE i = 1
      <4>1. IsPrefix(here, p)
        BY <1>1, <2>1, <3>1 DEF Awaits, IsStrictPrefix
      <4>2. p \in Seq(K)
        BY <1>2, PathsAre DEF TreeInv
      <4>3. Awaits(frames[1], p)
        BY <1>0, <1>4, <4>1, <4>2, BelowWhatIsTaken
      <4> QED BY <1>1, <4>3
    <3>2. CASE i # 1
      <4>1. i - 1 \in 1 .. n /\ (i - 1) + 1 = i
        BY <1>1, <3>2
      <4>2. Awaits(Taken(key)[i - 1], p)
        BY <1>1, <2>1, <4>1
      <4>3. Awaits(frames[i - 1], p)
        BY <4>1, <4>2, AwaitedBefore DEF n
      <4> QED BY <4>1, <4>3
    <3> QED BY <3>1, <3>2
  <2> QED BY <1>1, <2>1
<1>6. ReportedOnce' /\ LaterItemsAhead' /\ ItemsInOrder'
  BY <1>1, <1>5, OnceStays
<1>7. ASSUME NEW f, f.at = here, NEW j \in 1 .. n PROVE Past(f, Taken(key)[j])
  <2>1. CASE j = 1
    <3> DEFINE g == [Top EXCEPT !.todo = @ \ {key}]
    <3>1. g.at = Top.at /\ g.todo = Top.todo \ {key} /\ Taken(key)[j] = g
      BY <1>2, <2>1 DEF Loops
    <3> HIDE DEF g
    <3>2. IsStrictPrefix(Top.at, here)
      <4>1. Len(Top.at) < Len(here) /\ \A i \in 1 .. Len(Top.at) : Top.at[i] = here[i]
        BY <1>3 DEF m
      <4> QED BY <1>2, <1>3, <4>1, PrefixIs
    <3>3. key \in Items => \A k \in Top.todo : key.index <= k.index
      BY DEF Due
    <3>4. f.at[Len(g.at) + 1] = key
      BY <1>3, <1>7, <3>1 DEF m
    <3> QED BY <1>7, <3>1, <3>2, <3>3, <3>4 DEF Past
  <2>2. CASE j # 1
    <3> DEFINE g == frames[j]
               l == Len(g.at)
    <3>1. 1 \in DOMAIN frames /\ j \in DOMAIN frames /\ 1 < j /\ Taken(key)[j] = g
      BY <1>1, <1>2, <2>2
    <3>2. Past(Top, g)
      BY <1>2, <1>4, <3>1 DEF PastWhatIsOpen
    <3>3. g.at \in Seq(K)
      <4>1. g \in Loops
        BY <1>1, <1>2, <3>1
      <4> QED BY <4>1 DEF Loops
    <3>4. l < m /\ l \in Nat /\ \A i \in 1 .. l : g.at[i] = Top.at[i]
      <4>1. IsStrictPrefix(g.at, Top.at)
        BY <3>2 DEF Past
      <4> QED BY <1>2, <3>3, <4>1, PrefixIs DEF m
    <3>5. IsStrictPrefix(g.at, here)
      <4>1. Len(g.at) < Len(here) /\ \A i \in 1 .. Len(g.at) : g.at[i] = here[i]
        BY <1>3, <3>4
      <4> QED BY <1>3, <3>3, <4>1, PrefixIs
    <3>6. here[l + 1] = Top.at[l + 1]
      BY <1>3, <3>4
    <3> HIDE DEF g
    <3> QED BY <1>7, <3>1, <3>2, <3>5, <3>6 DEF Past
  <2> QED BY <2>1, <2>2
<1>8. PastWhatIsOpen'
  <2>1. ASSUME NEW i \in 1 .. n + 1, NEW j \in 1 .. n + 1, i < j PROVE Past(frames'[i], frames'[j])
    <3>1. j - 1 \in 1 .. n /\ (j - 1) + 1 = j
      BY <1>1, <2>1
    <3>2. frames'[j] = Taken(key)[j - 1]
      BY <1>1, <3>1
    <3>3. CASE i = 1
      BY <1>1, <1>7, <3>1, <3>2, <3>3
    <3>4. CASE i # 1
      <4>1. i - 1 \in 1 .. n /\ (i - 1) + 1 = i /\ i - 1 < j - 1
        BY <1>1, <2>1, <3>4
      <4>2. frames'[i] = Taken(key)[i - 1]
        BY <1>1, <4>1
      <4>3. Past(Taken(key)[i - 1], Taken(key)[j - 1])
        BY <1>4, <3>1, <4>1, TakenIsPast DEF n
      <4> QED BY <3>2, <4>2, <4>3
    <3> QED BY <3>3, <3>4
  <2>2. PastWhatIsOpen' <=> \A i, j \in DOMAIN frames' : i < j => Past(frames'[i], frames'[j])
    BY DEF PastWhatIsOpen, Past
  <2> QED BY <1>1, <2>1, <2>2
<1>9. OnlyWhileWalking'
  <2>1. frames' # <<>>
    <3>1. 1 \in DOMAIN frames'
      BY <1>1
    <3>2. DOMAIN <<>> = {}
      OBVIOUS
    <3> QED BY <3>1, <3>2
  <2> QED BY <1>1, <1>2, <2>1 DEF OnlyWhileWalking
<1> QED BY <1>6, <1>8, <1>9 DEF OnceInv

LEMMA AscendOnceInv == ASSUME IInv, OnceInv, Ascend PROVE OnceInv'
<1> DEFINE n == Len(frames)
<1>1. /\ frames # <<>> /\ frames' = Tail(frames) /\ answer' = (IF n = 1 THEN "rejected" ELSE "none")
      /\ broken' = broken /\ tree' = tree /\ output' = output
  BY DEF Ascend
<1>2. /\ Stacked(frames) /\ broken = None /\ answer = "none"
  BY <1>1 DEF IInv, WalkInv
<1>3. /\ Tail(frames) \in Seq(Loops) /\ Len(Tail(frames)) = n - 1 /\ n \in Nat \ {0} /\ frames \in Seq(Loops)
      /\ \A i \in 1 .. n - 1 : Tail(frames)[i] = frames[i + 1]
  BY <1>1, <1>2, TailIs DEF Stacked
<1>4. DOMAIN frames' = 1 .. n - 1 /\ DOMAIN frames = 1 .. n /\ (frames' = <<>> <=> n = 1)
  BY <1>1, <1>2, <1>3, StackedTail
<1> HIDE DEF n
<1>5. ASSUME NEW i \in 1 .. n - 1 PROVE i + 1 \in 1 .. n /\ frames'[i] = frames[i + 1]
  BY <1>1, <1>3
<1>6. \A p \in DOMAIN tree :
        (\E i \in DOMAIN frames' : Awaits(frames'[i], p)) => \E j \in DOMAIN frames : Awaits(frames[j], p)
  BY <1>4, <1>5
<1>7. ReportedOnce' /\ LaterItemsAhead' /\ ItemsInOrder'
  BY <1>1, <1>6, OnceStays
<1>8. PastWhatIsOpen'
  <2>1. ASSUME NEW i \in 1 .. n - 1, NEW j \in 1 .. n - 1, i < j PROVE Past(frames'[i], frames'[j])
    <3>1. i + 1 < j + 1 /\ i + 1 \in DOMAIN frames /\ j + 1 \in DOMAIN frames
      BY <1>3, <1>4, <2>1
    <3> QED BY <1>5, <3>1 DEF OnceInv, PastWhatIsOpen
  <2>2. PastWhatIsOpen' <=> \A i, j \in DOMAIN frames' : i < j => Past(frames'[i], frames'[j])
    BY DEF PastWhatIsOpen, Past
  <2> QED BY <1>4, <2>1, <2>2
<1>9. OnlyWhileWalking'
  BY <1>1, <1>2, <1>4 DEF OnlyWhileWalking
<1> QED BY <1>7, <1>8, <1>9 DEF OnceInv

\* Before the first report there is nothing that could have been reported twice.
LEMMA NothingYet ==
  ASSUME output = <<>>
  PROVE  ReportedOnce /\ LaterItemsAhead /\ ItemsInOrder
<1>1. DOMAIN output = {}
  OBVIOUS
<1> QED BY <1>1 DEF ReportedOnce, LaterItemsAhead, ItemsInOrder, Places

LEMMA ValidateOnceInv == ASSUME IInv, OnceInv, Validate PROVE OnceInv'
<1>1. /\ answer = "none" /\ broken = None /\ frames = <<>> /\ broken' = broken /\ output' = output
      /\ \/ answer' = "accepted" /\ frames' = frames
         \/ answer' = "none" /\ frames' = <<Frame(<<>>, 0)>>
  BY DEF Validate
<1>2. output' = <<>>
  BY <1>1 DEF OnceInv, OnlyWhileWalking
<1>3. ReportedOnce' /\ LaterItemsAhead' /\ ItemsInOrder'
  <2>1. DOMAIN output' = {}
    BY <1>2
  <2> QED BY <2>1 DEF ReportedOnce, LaterItemsAhead, ItemsInOrder, Places
<1>4. DOMAIN frames' \subseteq {1}
  <2>1. ASSUME NEW f PROVE DOMAIN <<f>> = {1}
    OBVIOUS
  <2>2. DOMAIN <<>> = {}
    OBVIOUS
  <2> QED BY <1>1, <2>1, <2>2
<1>5. PastWhatIsOpen'
  BY <1>4 DEF PastWhatIsOpen
<1>6. OnlyWhileWalking'
  BY <1>1, <1>2 DEF OnlyWhileWalking
<1> QED BY <1>3, <1>5, <1>6 DEF OnceInv

LEMMA MalformedOnceInv == ASSUME IInv, OnceInv, Malformed PROVE OnceInv'
<1>1. /\ broken # None /\ broken' = broken /\ tree' = tree /\ frames' = frames /\ answer' = "rejected"
      /\ output' = <<[code |-> InvalidBody,
                      pointer |-> IF broken = <<>> THEN None ELSE JsonPointer(broken)]>>
  BY DEF Malformed
<1>2. frames = <<>> /\ DOMAIN tree = {}
  BY <1>1 DEF IInv, TreeInv, WalkInv
<1>3. ReportedOnce' /\ LaterItemsAhead' /\ ItemsInOrder'
  BY <1>1, <1>2 DEF ReportedOnce, LaterItemsAhead, ItemsInOrder
<1>4. PastWhatIsOpen'
  <2>1. DOMAIN frames' = {}
    BY <1>1, <1>2
  <2> QED BY <2>1 DEF PastWhatIsOpen
<1>5. OnlyWhileWalking'
  BY <1>1 DEF OnlyWhileWalking
<1> QED BY <1>3, <1>4, <1>5 DEF OnceInv

LEMMA StutterOnceInv == ASSUME OnceInv, UNCHANGED vars PROVE OnceInv'
<1>1. /\ broken' = broken /\ tree' = tree /\ frames' = frames /\ output' = output /\ answer' = answer
  BY DEF vars
<1>2. ReportedOnce' /\ LaterItemsAhead' /\ ItemsInOrder'
  BY <1>1, OnceStays
<1>3. PastWhatIsOpen'
  BY <1>1 DEF OnceInv, PastWhatIsOpen
<1>4. OnlyWhileWalking'
  BY <1>1 DEF OnceInv, OnlyWhileWalking
<1> QED BY <1>2, <1>3, <1>4 DEF OnceInv

LEMMA InitOnceInv == ASSUME Init PROVE OnceInv
<1>1. frames = <<>> /\ output = <<>> /\ answer = "none"
  BY DEF Init
<1>2. PastWhatIsOpen
  <2>1. DOMAIN frames = {}
    BY <1>1
  <2> QED BY <2>1 DEF PastWhatIsOpen
<1>3. OnlyWhileWalking
  BY <1>1 DEF OnlyWhileWalking
<1> QED BY <1>1, <1>2, <1>3, NothingYet DEF OnceInv

LEMMA NextOnceInv == ASSUME IInv, OnceInv, [Next]_vars PROVE OnceInv'
<1>1. CASE Malformed
  BY <1>1, MalformedOnceInv
<1>2. CASE Validate
  BY <1>2, ValidateOnceInv
<1>3. CASE Visit
  <2>1. PICK key \in Due : Report(key) \/ Descend(key)
    BY <1>3 DEF Visit
  <2>2. frames # <<>> /\ UNCHANGED <<broken, tree, answer>>
    BY <1>3 DEF Visit
  <2> QED BY <2>1, <2>2, ReportOnceInv, DescendOnceInv
<1>4. CASE Ascend
  BY <1>4, AscendOnceInv
<1>5. CASE UNCHANGED vars \/ Answered
  BY <1>5, StutterOnceInv DEF Answered
<1> QED BY <1>1, <1>2, <1>3, <1>4, <1>5 DEF Next

LEMMA OnceInvariantHolds == Spec => [](IInv /\ OnceInv)
<1>1. Init => OnceInv
  BY InitOnceInv
<1>2. IInv /\ OnceInv /\ [Next]_vars => OnceInv'
  BY NextOnceInv
<1> QED BY <1>1, <1>2, InvariantHolds, PTL DEF Spec

(* BTreeMap under HashMap: whatever the order in which the fields of the   *)
(* bodies come, two violations in one list are reported in the order of    *)
(* their items, even if other fields are reported between the two.         *)
THEOREM ListsInOrder == Spec => []ItemsInOrder
<1>1. OnceInv => ItemsInOrder
  BY DEF OnceInv
<1> QED BY <1>1, OnceInvariantHolds, PTL

(* validate_api's answer, read as RFC 6901 reads it: it rejects a body     *)
(* with a violation and no other; what its pointers name is where the body *)
(* is invalid and nowhere else; a place's rules stand under it in one run, *)
(* in order, none twice.  A body that does not parse has one violation,    *)
(* located where serde stopped.                                            *)
THEOREM ViolationsLocated == Spec => []EveryViolationLocated
<1>1. ASSUME IInv, OnceInv PROVE EveryViolationLocated
  <2> SUFFICES ASSUME answer # "none"
               PROVE  /\ answer = "rejected" <=> output # <<>>
                      /\ \A p \in DOMAIN tree : \E before \in 0 .. Len(output) :
                           /\ Under(p) = {before + k : k \in DOMAIN tree[p]}
                           /\ \A k \in DOMAIN tree[p] : output[before + k].code = tree[p][k]
                      /\ broken = None => \A i \in DOMAIN output : \E p \in DOMAIN tree : i \in Under(p)
                      /\ broken \notin {None, <<>>} => Len(output) = 1 /\ Under(broken) = {1}
    BY DEF EveryViolationLocated
  <2>1. /\ frames = <<>> /\ NothingForgotten /\ NothingInvented /\ answer \in {"accepted", "rejected"}
        /\ answer = "rejected" => output # <<>>
        /\ TreeInv /\ ReportedOnce /\ OnlyWhileWalking
    BY <1>1 DEF IInv, WalkInv, OnceInv
  <2>2. answer = "rejected" <=> output # <<>>
    BY <2>1 DEF OnlyWhileWalking
  <2>3. ASSUME broken = None, NEW i \in DOMAIN output
        PROVE  \E p \in DOMAIN tree : \E k \in DOMAIN tree[p] : output[i] = Entry(p, k)
    BY <2>1, <2>3 DEF NothingInvented
  <2>4. \A p, k : Entry(p, k).pointer = JsonPointer(p) /\ Entry(p, k).code = tree[p][k]
    BY DEF Entry
  <2>5. \A p \in DOMAIN tree : broken = None
    BY <2>1 DEF TreeInv
  <2>6. ASSUME NEW p \in DOMAIN tree PROVE Under(p) = Places(p)
    <3>1. ASSUME NEW i \in DOMAIN output
          PROVE  Reading(output[i].pointer).tokens = Spelled(p) <=> output[i].pointer = JsonPointer(p)
      <4>1. PICK q \in DOMAIN tree : \E k \in DOMAIN tree[q] : output[i] = Entry(q, k)
        BY <2>3, <2>5, <3>1
      <4>2. output[i].pointer = JsonPointer(q)
        BY <2>4, <4>1
      <4>3. Reading(JsonPointer(q)).tokens = Spelled(q) /\ (Spelled(q) = Spelled(p) => q = p)
        BY <2>1, PlacesApart
      <4>4. Reading(JsonPointer(p)).tokens = Spelled(p)
        BY <2>1, PlacesApart
      <4> QED BY <4>2, <4>3, <4>4
    <3> QED BY <3>1 DEF Under, Places
  <2>7. ASSUME NEW p \in DOMAIN tree
        PROVE  \E before \in 0 .. Len(output) :
                 /\ Under(p) = {before + k : k \in DOMAIN tree[p]}
                 /\ \A k \in DOMAIN tree[p] : output[before + k].code = tree[p][k]
    <3>1. Reported(p)
      <4>1. DOMAIN frames = {}
        BY <2>1
      <4> QED BY <2>1, <4>1 DEF NothingForgotten
    <3>2. 1 \in DOMAIN tree[p]
      BY <2>1, EntriesTyped
    <3>3. Places(p) # {}
      BY <2>4, <3>1, <3>2 DEF Reported, Places
    <3>4. InOneBlock(p)
      BY <2>1, <3>3 DEF ReportedOnce
    <3> QED BY <2>4, <2>6, <3>4 DEF InOneBlock
  <2>8. ASSUME broken = None, NEW i \in DOMAIN output PROVE \E p \in DOMAIN tree : i \in Under(p)
    <3>1. PICK p \in DOMAIN tree : \E k \in DOMAIN tree[p] : output[i] = Entry(p, k)
      BY <2>3, <2>8
    <3>2. i \in Places(p)
      BY <2>4, <3>1 DEF Places
    <3> QED BY <2>6, <3>2
  <2>9. ASSUME broken \notin {None, <<>>} PROVE Len(output) = 1 /\ Under(broken) = {1}
    <3> DEFINE e == [code |-> InvalidBody, pointer |-> JsonPointer(broken)]
    <3>1. output = <<e>>
      BY <2>1, <2>9 DEF OnlyWhileWalking
    <3>2. e.pointer = JsonPointer(broken)
      OBVIOUS
    <3> HIDE DEF e
    <3>3. Len(output) = 1 /\ DOMAIN output = {1} /\ output[1] = e
      BY <3>1
    <3>4. broken \in Seq(Segments)
      BY <2>1, <2>9, ParsePathsAre DEF TreeInv
    <3>5. Reading(JsonPointer(broken)) = [tokens |-> Spelled(broken), escape |-> FALSE]
      BY <3>4, PointersAreRead
    <3>6. Reading(output[1].pointer).tokens = Spelled(broken)
      BY <3>2, <3>3, <3>5
    <3> QED BY <3>3, <3>6 DEF Under
  <2> QED BY <2>2, <2>7, <2>8, <2>9
<1> QED BY <1>1, OnceInvariantHolds, PTL
=============================================================================
