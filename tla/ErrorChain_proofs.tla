--------------------------- MODULE ErrorChain_proofs ---------------------------
(***************************************************************************)
(* Proofs about ErrorChain.  A heap that a program can build has no        *)
(* cycles, since `with_source` moves a report that nothing points to; so   *)
(* what is defined by recursion over it is what the definition says, and   *)
(* facts about it are proved over the rank of a node.                      *)
(***************************************************************************)
EXTENDS ErrorChain, Recursion

Records == [kind : {"api", "foreign", "wrapper"}, code : Codes \cup {Blank},
            text : Texts \cup {Blank}, source : 0 .. MaxNodes, branch : 0 .. MaxNodes]

Below(n) == {heap[n].source, heap[n].branch}

\* A node is above all it points to, and above 0.
Ranks(K, rank) ==
  /\ rank \in [Nodes \cup {0} -> 0 .. K]
  /\ \A n \in Nodes : \A m \in Below(n) : rank[m] < rank[n]

\* What a node of each kind points to.  A wrapper goes over two reports that
\* were owned, and what is owned is no wrapper.
Shaped(n) ==
  /\ Below(n) \subseteq Nodes \cup {0}
  /\ heap[n].kind = "wrapper" => 0 \notin Below(n)
  /\ heap[n].kind # "wrapper" => heap[n].branch = 0
  /\ heap[n].kind = "foreign" /\ heap[n].source # 0 => heap[heap[n].source].kind # "wrapper"

\* Nothing points to what the program owns.
Owned(n) == heap[n].kind # "wrapper" /\ \A m \in Nodes : n \notin Below(m)

HeapInv ==
  /\ heap \in Seq(Records) /\ Len(heap) <= MaxNodes
  /\ \A n \in Nodes : Shaped(n)
  /\ free \subseteq Nodes /\ \A n \in free : Owned(n)
  /\ \E K \in Nat : \E rank : Ranks(K, rank)

-----------------------------------------------------------------------------
(* The recursive definitions. *)

LEMMA NodesAre ==
  ASSUME HeapInv
  PROVE  /\ Nodes = 1 .. Len(heap) /\ 0 \notin Nodes
         /\ \A n \in Nodes : /\ heap[n] \in Records /\ Shaped(n)
                             /\ heap[n].source \in Nodes \cup {0} /\ heap[n].branch \in Nodes \cup {0}
<1>1. Nodes = 1 .. Len(heap) /\ Len(heap) \in Nat
  BY DEF HeapInv, Nodes
<1>2. \A n \in Nodes : heap[n] \in Records /\ Shaped(n)
  BY DEF HeapInv, Nodes
<1> QED BY <1>1, <1>2 DEF Shaped, Below

LEMMA HeapRanked ==
  ASSUME HeapInv
  PROVE  \E K \in Nat : \E rank \in [Nodes \cup {0} -> 0 .. K] :
           \A n \in Nodes : \A m \in Below(n) : rank[m] < rank[n]
BY DEF HeapInv, Ranks

LEMMA UnderIs ==
  ASSUME HeapInv
  PROVE  /\ Under \in [Nodes \cup {0} -> SUBSET Nodes]
         /\ Under[0] = {}
         /\ \A n \in Nodes : Under[n] = {n} \cup Under[heap[n].source] \cup Under[heap[n].branch]
<1> DEFINE S == Nodes \cup {0}
           V == SUBSET Nodes
           body(f, n) == IF n = 0 THEN {} ELSE {n} \cup f[heap[n].source] \cup f[heap[n].branch]
           G == [p \in S \X [S -> V] |-> body(p[2], p[1])]
<1>1. PICK K \in Nat : \E above \in [Nodes \cup {0} -> 0 .. K] :
        \A n \in Nodes : \A m \in Below(n) : above[m] < above[n]
  BY HeapRanked
<1>2. PICK above \in [Nodes \cup {0} -> 0 .. K] : \A n \in Nodes : \A m \in Below(n) : above[m] < above[n]
  BY <1>1
<1> DEFINE rank == above
<1>3. rank \in [S -> 0 .. K] /\ \A n \in Nodes : \A m \in Below(n) \cap S : rank[m] < rank[n]
  BY <1>2
<1> HIDE DEF rank
<1>4. /\ 0 \notin Nodes /\ \A n \in Nodes : heap[n].source \in S /\ heap[n].branch \in S
      /\ \A n \in Nodes : heap[n].source \in Below(n) /\ heap[n].branch \in Below(n)
  BY NodesAre DEF Below, Shaped
<1> HIDE DEF S
<1>5. ASSUME NEW n \in S, NEW f \in [S -> V] PROVE body(f, n) \in V
  BY <1>4, <1>5 DEF S
<1>6. ASSUME NEW n \in S, NEW f, NEW g, \A m \in S : rank[m] < rank[n] => f[m] = g[m]
      PROVE  body(f, n) = body(g, n)
  BY <1>3, <1>4, <1>6 DEF S
<1> HIDE DEF V
<1>7. G \in [S \X [S -> V] -> V] /\ {} \in V
  <2>1. \A p \in S \X [S -> V] : body(p[2], p[1]) \in V
    BY <1>5
  <2> HIDE DEF body
  <2> QED BY <2>1 DEF V
<1>8. \A n \in S, f \in [S -> V] : G[<<n, f>>] = body(f, n)
  OBVIOUS
<1>9. OnlyOnLower(S, V, rank, G)
  <2> SUFFICES ASSUME NEW n \in S, NEW f \in [S -> V], NEW g \in [S -> V],
                      \A m \in S : rank[m] < rank[n] => f[m] = g[m]
               PROVE  G[<<n, f>>] = G[<<n, g>>]
    BY DEF OnlyOnLower
  <2>1. body(f, n) = body(g, n)
    BY <1>6
  <2>2. G[<<n, f>>] = body(f, n) /\ G[<<n, g>>] = body(g, n)
    BY <1>8
  <2> QED BY <2>1, <2>2
<1> HIDE DEF G
<1>10. PICK h \in [S -> V] : Solution(S, G, h)
  BY <1>3, <1>7, <1>9, RankedRecursion
<1>11. h = [n \in S |-> body(h, n)]
  BY <1>8, <1>10 DEF Solution
<1>12. Under = [n \in S |-> body(Under, n)]
  BY <1>11 DEF Under, S
<1> DEFINE P == {n \in S : Under[n] = h[n]}
<1>13. ASSUME NEW n \in S, \A m \in S : rank[m] < rank[n] => m \in P PROVE n \in P
  <2>1. body(Under, n) = body(h, n)
    BY <1>6, <1>13
  <2>2. Under[n] = body(Under, n) /\ h[n] = body(h, n)
    BY <1>11, <1>12
  <2>3. Under[n] = h[n]
    BY <2>1, <2>2
  <2> QED BY <2>3
<1>14. \A n \in S : n \in P
  <2> HIDE DEF P
  <2> QED BY <1>3, <1>13, RankInduction
<1>15. Under \in [S -> V]
  BY <1>12, <1>14
<1> QED BY <1>4, <1>12, <1>15 DEF S, V

LEMMA RegionIs ==
  ASSUME HeapInv
  PROVE  /\ Region \in [Nodes \cup {0} -> SUBSET Nodes]
         /\ Region[0] = {}
         /\ \A n \in Nodes :
              Region[n] = IF Api(n) THEN {n} ELSE {n} \cup Region[heap[n].source] \cup Region[heap[n].branch]
<1> DEFINE S == Nodes \cup {0}
           V == SUBSET Nodes
           body(f, n) == IF n = 0 THEN {} ELSE IF Api(n) THEN {n} ELSE {n} \cup f[heap[n].source] \cup f[heap[n].branch]
           G == [p \in S \X [S -> V] |-> body(p[2], p[1])]
<1>1. PICK K \in Nat : \E above \in [Nodes \cup {0} -> 0 .. K] :
        \A n \in Nodes : \A m \in Below(n) : above[m] < above[n]
  BY HeapRanked
<1>2. PICK above \in [Nodes \cup {0} -> 0 .. K] : \A n \in Nodes : \A m \in Below(n) : above[m] < above[n]
  BY <1>1
<1> DEFINE rank == above
<1>3. rank \in [S -> 0 .. K] /\ \A n \in Nodes : \A m \in Below(n) \cap S : rank[m] < rank[n]
  BY <1>2
<1> HIDE DEF rank
<1>4. /\ 0 \notin Nodes /\ \A n \in Nodes : heap[n].source \in S /\ heap[n].branch \in S
      /\ \A n \in Nodes : heap[n].source \in Below(n) /\ heap[n].branch \in Below(n)
  BY NodesAre DEF Below, Shaped
<1> HIDE DEF S
<1>5. ASSUME NEW n \in S, NEW f \in [S -> V] PROVE body(f, n) \in V
  BY <1>4, <1>5 DEF S
<1>6. ASSUME NEW n \in S, NEW f, NEW g, \A m \in S : rank[m] < rank[n] => f[m] = g[m]
      PROVE  body(f, n) = body(g, n)
  BY <1>3, <1>4, <1>6 DEF S
<1> HIDE DEF V
<1>7. G \in [S \X [S -> V] -> V] /\ {} \in V
  <2>1. \A p \in S \X [S -> V] : body(p[2], p[1]) \in V
    BY <1>5
  <2> HIDE DEF body
  <2> QED BY <2>1 DEF V
<1>8. \A n \in S, f \in [S -> V] : G[<<n, f>>] = body(f, n)
  OBVIOUS
<1>9. OnlyOnLower(S, V, rank, G)
  <2> SUFFICES ASSUME NEW n \in S, NEW f \in [S -> V], NEW g \in [S -> V],
                      \A m \in S : rank[m] < rank[n] => f[m] = g[m]
               PROVE  G[<<n, f>>] = G[<<n, g>>]
    BY DEF OnlyOnLower
  <2>1. body(f, n) = body(g, n)
    BY <1>6
  <2>2. G[<<n, f>>] = body(f, n) /\ G[<<n, g>>] = body(g, n)
    BY <1>8
  <2> QED BY <2>1, <2>2
<1> HIDE DEF G
<1>10. PICK h \in [S -> V] : Solution(S, G, h)
  BY <1>3, <1>7, <1>9, RankedRecursion
<1>11. h = [n \in S |-> body(h, n)]
  BY <1>8, <1>10 DEF Solution
<1>12. Region = [n \in S |-> body(Region, n)]
  BY <1>11 DEF Region, S
<1> DEFINE P == {n \in S : Region[n] = h[n]}
<1>13. ASSUME NEW n \in S, \A m \in S : rank[m] < rank[n] => m \in P PROVE n \in P
  <2>1. body(Region, n) = body(h, n)
    BY <1>6, <1>13
  <2>2. Region[n] = body(Region, n) /\ h[n] = body(h, n)
    BY <1>11, <1>12
  <2>3. Region[n] = h[n]
    BY <2>1, <2>2
  <2> QED BY <2>3
<1>14. \A n \in S : n \in P
  <2> HIDE DEF P
  <2> QED BY <1>3, <1>13, RankInduction
<1>15. Region \in [S -> V]
  BY <1>12, <1>14
<1> QED BY <1>4, <1>12, <1>15 DEF S, V

LEMMA FollowIs ==
  ASSUME HeapInv
  PROVE  /\ Follow \in [Nodes -> Seq(Nodes)]
         /\ \A n \in Nodes :
              Follow[n] = <<n>> \o (IF heap[n].source = 0 THEN <<>> ELSE Follow[heap[n].source])
<1> DEFINE S == Nodes
           V == Seq(Nodes)
           body(f, n) == <<n>> \o (IF heap[n].source = 0 THEN <<>> ELSE f[heap[n].source])
           G == [p \in S \X [S -> V] |-> body(p[2], p[1])]
<1>1. PICK K \in Nat : \E above \in [Nodes \cup {0} -> 0 .. K] :
        \A n \in Nodes : \A m \in Below(n) : above[m] < above[n]
  BY HeapRanked
<1>2. PICK above \in [Nodes \cup {0} -> 0 .. K] : \A n \in Nodes : \A m \in Below(n) : above[m] < above[n]
  BY <1>1
<1> DEFINE rank == [n \in Nodes |-> above[n]]
<1>3. rank \in [S -> 0 .. K] /\ \A n \in Nodes : \A m \in Below(n) \cap S : rank[m] < rank[n]
  BY <1>2
<1> HIDE DEF rank
<1>4. /\ \A n \in Nodes : heap[n].source # 0 => heap[n].source \in Below(n) \cap S
      /\ \A n \in Nodes : heap[n].kind = "wrapper" =>
           heap[n].source \in Below(n) \cap S /\ heap[n].branch \in Below(n) \cap S
  BY NodesAre DEF Below, Shaped
<1> HIDE DEF S
<1>5. ASSUME NEW n \in S, NEW f \in [S -> V] PROVE body(f, n) \in V
  BY <1>4, <1>5 DEF S
<1>6. ASSUME NEW n \in S, NEW f, NEW g, \A m \in S : rank[m] < rank[n] => f[m] = g[m]
      PROVE  body(f, n) = body(g, n)
  BY <1>3, <1>4, <1>6 DEF S
<1> HIDE DEF V
<1>7. G \in [S \X [S -> V] -> V] /\ <<>> \in V
  <2>1. \A p \in S \X [S -> V] : body(p[2], p[1]) \in V
    BY <1>5
  <2> HIDE DEF body
  <2> QED BY <2>1 DEF V
<1>8. \A n \in S, f \in [S -> V] : G[<<n, f>>] = body(f, n)
  OBVIOUS
<1>9. OnlyOnLower(S, V, rank, G)
  <2> SUFFICES ASSUME NEW n \in S, NEW f \in [S -> V], NEW g \in [S -> V],
                      \A m \in S : rank[m] < rank[n] => f[m] = g[m]
               PROVE  G[<<n, f>>] = G[<<n, g>>]
    BY DEF OnlyOnLower
  <2>1. body(f, n) = body(g, n)
    BY <1>6
  <2>2. G[<<n, f>>] = body(f, n) /\ G[<<n, g>>] = body(g, n)
    BY <1>8
  <2> QED BY <2>1, <2>2
<1> HIDE DEF G
<1>10. PICK h \in [S -> V] : Solution(S, G, h)
  BY <1>3, <1>7, <1>9, RankedRecursion
<1>11. h = [n \in S |-> body(h, n)]
  BY <1>8, <1>10 DEF Solution
<1>12. Follow = [n \in S |-> body(Follow, n)]
  BY <1>11 DEF Follow, S
<1> DEFINE P == {n \in S : Follow[n] = h[n]}
<1>13. ASSUME NEW n \in S, \A m \in S : rank[m] < rank[n] => m \in P PROVE n \in P
  <2>1. body(Follow, n) = body(h, n)
    BY <1>6, <1>13
  <2>2. Follow[n] = body(Follow, n) /\ h[n] = body(h, n)
    BY <1>11, <1>12
  <2>3. Follow[n] = h[n]
    BY <2>1, <2>2
  <2> QED BY <2>3
<1>14. \A n \in S : n \in P
  <2> HIDE DEF P
  <2> QED BY <1>3, <1>13, RankInduction
<1>15. Follow \in [S -> V]
  BY <1>12, <1>14
<1> QED BY <1>4, <1>12, <1>15 DEF S, V

LEMMA ChainIs ==
  ASSUME HeapInv
  PROVE  /\ Chain \in [Nodes -> Seq(Nodes)]
         /\ \A n \in Nodes :
              Chain[n] = IF heap[n].kind # "wrapper" THEN Follow[n]
                         ELSE <<n>> \o (IF order = "branch first" THEN Chain[heap[n].branch] \o Chain[heap[n].source]
                                                                  ELSE Chain[heap[n].source] \o Chain[heap[n].branch])
<1> DEFINE S == Nodes
           V == Seq(Nodes)
           body(f, n) == IF heap[n].kind # "wrapper" THEN Follow[n]
                         ELSE <<n>> \o (IF order = "branch first" THEN f[heap[n].branch] \o f[heap[n].source]
                                                                  ELSE f[heap[n].source] \o f[heap[n].branch])
           G == [p \in S \X [S -> V] |-> body(p[2], p[1])]
<1>1. PICK K \in Nat : \E above \in [Nodes \cup {0} -> 0 .. K] :
        \A n \in Nodes : \A m \in Below(n) : above[m] < above[n]
  BY HeapRanked
<1>2. PICK above \in [Nodes \cup {0} -> 0 .. K] : \A n \in Nodes : \A m \in Below(n) : above[m] < above[n]
  BY <1>1
<1> DEFINE rank == [n \in Nodes |-> above[n]]
<1>3. rank \in [S -> 0 .. K] /\ \A n \in Nodes : \A m \in Below(n) \cap S : rank[m] < rank[n]
  BY <1>2
<1> HIDE DEF rank
<1>4. /\ \A n \in Nodes : heap[n].source # 0 => heap[n].source \in Below(n) \cap S
      /\ \A n \in Nodes : heap[n].kind = "wrapper" =>
           heap[n].source \in Below(n) \cap S /\ heap[n].branch \in Below(n) \cap S
      /\ \A n \in Nodes : Follow[n] \in Seq(Nodes)
  BY NodesAre, FollowIs DEF Below, Shaped
<1> HIDE DEF S
<1>5. ASSUME NEW n \in S, NEW f \in [S -> V] PROVE body(f, n) \in V
  <2>1. CASE heap[n].kind # "wrapper"
    BY <1>4, <1>5, <2>1 DEF S
  <2>2. CASE heap[n].kind = "wrapper"
    <3>1. f[heap[n].branch] \in Seq(Nodes) /\ f[heap[n].source] \in Seq(Nodes) /\ <<n>> \in Seq(Nodes)
      BY <1>4, <1>5, <2>2 DEF S
    <3>2. <<n>> \o (f[heap[n].branch] \o f[heap[n].source]) \in Seq(Nodes)
      BY <3>1
    <3>3. <<n>> \o (f[heap[n].source] \o f[heap[n].branch]) \in Seq(Nodes)
      BY <3>1
    <3> QED BY <2>2, <3>2, <3>3
  <2> QED BY <2>1, <2>2
<1>6. ASSUME NEW n \in S, NEW f, NEW g, \A m \in S : rank[m] < rank[n] => f[m] = g[m]
      PROVE  body(f, n) = body(g, n)
  BY <1>3, <1>4, <1>6 DEF S
<1> HIDE DEF V
<1>7. G \in [S \X [S -> V] -> V] /\ <<>> \in V
  <2>1. \A p \in S \X [S -> V] : body(p[2], p[1]) \in V
    BY <1>5
  <2> HIDE DEF body
  <2> QED BY <2>1 DEF V
<1>8. \A n \in S, f \in [S -> V] : G[<<n, f>>] = body(f, n)
  OBVIOUS
<1>9. OnlyOnLower(S, V, rank, G)
  <2> SUFFICES ASSUME NEW n \in S, NEW f \in [S -> V], NEW g \in [S -> V],
                      \A m \in S : rank[m] < rank[n] => f[m] = g[m]
               PROVE  G[<<n, f>>] = G[<<n, g>>]
    BY DEF OnlyOnLower
  <2>1. body(f, n) = body(g, n)
    BY <1>6
  <2>2. G[<<n, f>>] = body(f, n) /\ G[<<n, g>>] = body(g, n)
    BY <1>8
  <2> QED BY <2>1, <2>2
<1> HIDE DEF G
<1>10. PICK h \in [S -> V] : Solution(S, G, h)
  BY <1>3, <1>7, <1>9, RankedRecursion
<1>11. h = [n \in S |-> body(h, n)]
  BY <1>8, <1>10 DEF Solution
<1>12. Chain = [n \in S |-> body(Chain, n)]
  BY <1>11 DEF Chain, S
<1> DEFINE P == {n \in S : Chain[n] = h[n]}
<1>13. ASSUME NEW n \in S, \A m \in S : rank[m] < rank[n] => m \in P PROVE n \in P
  <2>1. body(Chain, n) = body(h, n)
    BY <1>6, <1>13
  <2>2. Chain[n] = body(Chain, n) /\ h[n] = body(h, n)
    BY <1>11, <1>12
  <2>3. Chain[n] = h[n]
    BY <2>1, <2>2
  <2> QED BY <2>3
<1>14. \A n \in S : n \in P
  <2> HIDE DEF P
  <2> QED BY <1>3, <1>13, RankInduction
<1>15. Chain \in [S -> V]
  BY <1>12, <1>14
<1> QED BY <1>4, <1>12, <1>15 DEF S, V

LEMMA RawMessageIs ==
  ASSUME NEW n, heap[n] \in Records
  PROVE  RawMessage(n) \in Seq(Texts)
<1>1. CASE heap[n].text = Blank
  BY <1>1 DEF RawMessage
<1>2. CASE heap[n].text # Blank
  <2>1. heap[n].text \in Texts
    BY <1>2 DEF Records
  <2> QED BY <1>2, <2>1 DEF RawMessage
<1> QED BY <1>1, <1>2

LEMMA DisplayIs ==
  ASSUME HeapInv
  PROVE  /\ Display \in [Nodes -> Seq(Texts \cup {Internal})]
         /\ \A n \in Nodes : /\ RawMessage(n) \in Seq(Texts)
                             /\ heap[n].kind = "foreign" => Display[n] = RawMessage(n)
<1> DEFINE S == Nodes
           V == Seq(Texts \cup {Internal})
           body(f, n) == CASE heap[n].kind = "wrapper" -> f[heap[n].branch]
                           [] heap[n].kind = "api" -> <<Internal>> \o RawMessage(n)
                           [] heap[n].kind = "foreign" -> RawMessage(n)
           G == [p \in S \X [S -> V] |-> body(p[2], p[1])]
<1>1. PICK K \in Nat : \E above \in [Nodes \cup {0} -> 0 .. K] :
        \A n \in Nodes : \A m \in Below(n) : above[m] < above[n]
  BY HeapRanked
<1>2. PICK above \in [Nodes \cup {0} -> 0 .. K] : \A n \in Nodes : \A m \in Below(n) : above[m] < above[n]
  BY <1>1
<1> DEFINE rank == [n \in Nodes |-> above[n]]
<1>3. rank \in [S -> 0 .. K] /\ \A n \in Nodes : \A m \in Below(n) \cap S : rank[m] < rank[n]
  BY <1>2
<1> HIDE DEF rank
<1>4. /\ \A n \in Nodes : heap[n].source # 0 => heap[n].source \in Below(n) \cap S
      /\ \A n \in Nodes : heap[n].kind = "wrapper" =>
           heap[n].source \in Below(n) \cap S /\ heap[n].branch \in Below(n) \cap S
      /\ \A n \in Nodes : heap[n] \in Records
  BY NodesAre DEF Below, Shaped
<1> HIDE DEF S
<1>5. ASSUME NEW n \in S, NEW f \in [S -> V] PROVE body(f, n) \in V
  <2>1. RawMessage(n) \in Seq(Texts)
    BY <1>4, RawMessageIs DEF S
  <2>2. <<Internal>> \o RawMessage(n) \in Seq(Texts \cup {Internal}) /\ RawMessage(n) \in Seq(Texts \cup {Internal})
    BY <2>1
  <2>3. heap[n].kind \in {"api", "foreign", "wrapper"}
    BY <1>4 DEF S, Records
  <2> QED BY <1>4, <1>5, <2>2, <2>3 DEF S
<1>6. ASSUME NEW n \in S, NEW f, NEW g, \A m \in S : rank[m] < rank[n] => f[m] = g[m]
      PROVE  body(f, n) = body(g, n)
  <2>1. heap[n].kind \in {"api", "foreign", "wrapper"}
    BY <1>4 DEF S, Records
  <2>2. CASE heap[n].kind = "wrapper"
    <3>1. f[heap[n].branch] = g[heap[n].branch]
      BY <1>3, <1>4, <1>6, <2>2 DEF S
    <3> QED BY <2>2, <3>1
  <2>3. CASE heap[n].kind = "api"
    BY <2>3
  <2>4. CASE heap[n].kind = "foreign"
    BY <2>4
  <2> QED BY <2>1, <2>2, <2>3, <2>4
<1> HIDE DEF V
<1>7. G \in [S \X [S -> V] -> V] /\ <<>> \in V
  <2>1. \A p \in S \X [S -> V] : body(p[2], p[1]) \in V
    BY <1>5
  <2> HIDE DEF body
  <2> QED BY <2>1 DEF V
<1>8. \A n \in S, f \in [S -> V] : G[<<n, f>>] = body(f, n)
  OBVIOUS
<1>9. OnlyOnLower(S, V, rank, G)
  <2> SUFFICES ASSUME NEW n \in S, NEW f \in [S -> V], NEW g \in [S -> V],
                      \A m \in S : rank[m] < rank[n] => f[m] = g[m]
               PROVE  G[<<n, f>>] = G[<<n, g>>]
    BY DEF OnlyOnLower
  <2>1. body(f, n) = body(g, n)
    BY <1>6
  <2>2. G[<<n, f>>] = body(f, n) /\ G[<<n, g>>] = body(g, n)
    BY <1>8
  <2> QED BY <2>1, <2>2
<1> HIDE DEF G
<1>10. PICK h \in [S -> V] : Solution(S, G, h)
  BY <1>3, <1>7, <1>9, RankedRecursion
<1>11. h = [n \in S |-> body(h, n)]
  BY <1>8, <1>10 DEF Solution
<1>12. Display = [n \in S |-> body(Display, n)]
  BY <1>11 DEF Display, S
<1> DEFINE P == {n \in S : Display[n] = h[n]}
<1>13. ASSUME NEW n \in S, \A m \in S : rank[m] < rank[n] => m \in P PROVE n \in P
  <2>1. body(Display, n) = body(h, n)
    BY <1>6, <1>13
  <2>2. Display[n] = body(Display, n) /\ h[n] = body(h, n)
    BY <1>11, <1>12
  <2>3. Display[n] = h[n]
    BY <2>1, <2>2
  <2> QED BY <2>3
<1>14. \A n \in S : n \in P
  <2> HIDE DEF P
  <2> QED BY <1>3, <1>13, RankInduction
<1>15. Display \in [S -> V]
  BY <1>12, <1>14
<1> QED BY <1>4, <1>12, <1>15, RawMessageIs DEF S, V

-----------------------------------------------------------------------------
(* Building keeps the heap without cycles. *)

LEMMA InitHeap == Init => HeapInv
<1> SUFFICES ASSUME Init PROVE HeapInv
  OBVIOUS
<1>1. heap = <<>> /\ free = {} /\ Nodes = {}
  BY DEF Init, Nodes
<1>2. Ranks(0, [n \in {0} |-> 0])
  BY <1>1 DEF Ranks
<1>3. \E K \in Nat : \E rank : Ranks(K, rank)
  <2>1. 0 \in Nat
    OBVIOUS
  <2> QED BY <1>2, <2>1
<1>4. heap \in Seq(Records) /\ Len(heap) <= MaxNodes
  BY <1>1, BoundIsNat
<1> QED BY <1>1, <1>3, <1>4 DEF HeapInv

LEMMA NewKeepsHeap ==
  ASSUME HeapInv, NEW node \in Records, NEW moved, New(node, moved),
         node.kind # "wrapper", node.branch = 0,
         node.source \in Nodes \cup {0}, node.source \notin free \ moved,
         node.kind = "foreign" /\ node.source # 0 => heap[node.source].kind # "wrapper"
  PROVE  HeapInv' /\ Nodes \subseteq Nodes' /\ \A n \in Nodes : heap'[n] = heap[n]
<1>0. PICK new : new = Len(heap) + 1
  OBVIOUS
<1>1. /\ heap \in Seq(Records) /\ Len(heap) \in Nat /\ Len(heap) < MaxNodes
      /\ heap' = Append(heap, node) /\ free' = (free \ moved) \cup {new}
  BY <1>0 DEF New, HeapInv
<1>2. /\ heap' \in Seq(Records) /\ Len(heap') = new /\ Len(heap') <= MaxNodes
      /\ Nodes = 1 .. Len(heap) /\ Nodes' = Nodes \cup {new} /\ new \notin Nodes /\ new # 0
      /\ \A n \in Nodes : heap'[n] = heap[n]
      /\ heap'[new] = node
  BY <1>0, <1>1, BoundIsNat DEF Nodes
<1>3. ASSUME NEW n \in Nodes PROVE Shaped(n)' /\ Below(n)' = Below(n)
  <2>1. Shaped(n) /\ heap[n].source \in Nodes \cup {0}
    BY NodesAre
  <2>2. heap'[n] = heap[n] /\ (heap[n].source # 0 => heap'[heap[n].source] = heap[heap[n].source])
    BY <1>2, <2>1
  <2>3. Below(n)' = Below(n)
    BY <2>2 DEF Below
  <2> QED BY <1>2, <2>1, <2>2, <2>3 DEF Shaped
<1>4. Below(new)' = {node.source, 0}
  BY <1>2 DEF Below
<1>5. Shaped(new)'
  <2>1. node.source # 0 => heap'[node.source] = heap[node.source]
    BY <1>2
  <2> QED BY <1>2, <1>4, <2>1 DEF Shaped
<1>6. ASSUME NEW n \in free' PROVE n \in Nodes' /\ Owned(n)'
  <2>1. CASE n = new
    <3>1. \A m \in Nodes : new \notin Below(m)
      BY <1>2, NodesAre DEF Shaped
    <3>2. new \notin {node.source, 0}
      BY <1>2
    <3> QED BY <1>2, <1>3, <1>4, <2>1, <3>1, <3>2 DEF Owned
  <2>2. CASE n \in free \ moved
    <3>1. n \in Nodes /\ Owned(n)
      BY <2>2 DEF HeapInv
    <3>2. n \notin {node.source, 0}
      BY <1>2, <2>2, <3>1
    <3> QED BY <1>2, <1>3, <1>4, <3>1, <3>2 DEF Owned
  <2> QED BY <1>1, <2>1, <2>2
<1>7. \E K \in Nat : \E rank : Ranks(K, rank)'
  <2>1. PICK K \in Nat : \E rank : Ranks(K, rank)
    BY DEF HeapInv
  <2>2. PICK rank : Ranks(K, rank)
    BY <2>1
  <2>0. PICK rank2 : rank2 = [n \in Nodes' \cup {0} |-> IF n = new THEN K + 1 ELSE rank[n]]
    OBVIOUS
  <2>3. rank \in [Nodes \cup {0} -> 0 .. K] /\ \A n \in Nodes : \A m \in Below(n) : rank[m] < rank[n]
    BY <2>2 DEF Ranks
  <2>4. rank2 \in [Nodes' \cup {0} -> 0 .. K + 1]
    BY <1>2, <2>0, <2>3
  <2>5. ASSUME NEW n \in Nodes' PROVE \A m \in Below(n)' : rank2[m] < rank2[n]
    <3>1. CASE n \in Nodes
      <4>1. Below(n)' = Below(n) /\ Below(n) \subseteq Nodes \cup {0}
        BY <1>3, <3>1, NodesAre DEF Shaped
      <4> QED BY <1>2, <2>0, <2>3, <3>1, <4>1
    <3>2. CASE n = new
      <4>1. Below(n)' \subseteq Nodes \cup {0}
        BY <1>4, <3>2
      <4> QED BY <1>2, <2>0, <2>3, <3>2, <4>1
    <3> QED BY <1>2, <3>1, <3>2
  <2>6. Ranks(K + 1, rank2)'
    BY <2>4, <2>5 DEF Ranks
  <2>7. K + 1 \in Nat
    OBVIOUS
  <2> QED BY <2>6, <2>7
<1> QED BY <1>2, <1>3, <1>5, <1>6, <1>7 DEF HeapInv

LEMMA WithSourceKeepsHeap ==
  ASSUME HeapInv, NEW e \in free, NEW s \in free, WithSource(e, s)
  PROVE  /\ HeapInv' /\ Nodes \subseteq Nodes' /\ \A n \in Nodes \ {e} : heap'[n] = heap[n]
         /\ heap[e].branch = 0 /\ heap'[e].branch = 0
         /\ heap[e].source = 0 => heap'[e].source = s
         /\ heap[e].source # 0 => /\ heap'[e].source \in Nodes'
                                  /\ heap'[heap'[e].source] = Wrapper(s, heap[e].source)
<1>0. PICK w, old : w = Len(heap) + 1 /\ old = heap[e].source
  OBVIOUS
<1> DEFINE Alone == old = 0 /\ heap' = [heap EXCEPT ![e].source = s]
           Wrapped == /\ old # 0 /\ Len(heap) < MaxNodes
                      /\ heap' = Append([heap EXCEPT ![e].source = w], Wrapper(s, old))
<1>1. /\ e \in Nodes /\ s \in Nodes /\ s # e /\ Api(e) /\ free' = free \ {s} /\ Owned(e) /\ Owned(s)
      /\ heap \in Seq(Records) /\ Len(heap) \in Nat /\ Len(heap) <= MaxNodes /\ Nodes = 1 .. Len(heap)
      /\ old \in Nodes \cup {0} /\ heap[e].branch = 0 /\ 0 \notin Nodes
      /\ heap[e] \in Records /\ (Alone \/ Wrapped)
  <2>1. /\ e \in Nodes /\ s \in Nodes /\ Owned(e) /\ Owned(s)
        /\ heap \in Seq(Records) /\ Len(heap) \in Nat /\ Len(heap) <= MaxNodes
    BY DEF HeapInv
  <2>2. s # e /\ Api(e) /\ free' = free \ {s} /\ (Alone \/ Wrapped)
    BY <1>0 DEF WithSource
  <2>3. Nodes = 1 .. Len(heap) /\ 0 \notin Nodes /\ heap[e] \in Records /\ Shaped(e) /\ old \in Nodes \cup {0}
    BY <1>0, <2>1, NodesAre
  <2>4. heap[e].branch = 0
    BY <2>2, <2>3 DEF Api, Shaped
  <2> HIDE DEF Alone, Wrapped
  <2> QED BY <2>1, <2>2, <2>3, <2>4
<1>2. e \notin {0, s, old}
  <2>1. e \notin Below(e)
    BY <1>1 DEF Owned
  <2> QED BY <1>1, <2>1, <1>0 DEF Below
<1>3. Nodes \subseteq 0 .. MaxNodes
  BY <1>1, BoundIsNat
<1>4. /\ heap' \in Seq(Records) /\ Len(heap') <= MaxNodes
      /\ Nodes' = IF old = 0 THEN Nodes ELSE Nodes \cup {w}
      /\ \A n \in Nodes \ {e} : heap'[n] = heap[n]
      /\ heap'[e] = [heap[e] EXCEPT !.source = IF old = 0 THEN s ELSE w]
      /\ old # 0 => heap'[w] = Wrapper(s, old)
  <2>1. CASE Alone
    <3>1. [heap[e] EXCEPT !.source = s] \in Records
      <4>1. s \in 0 .. MaxNodes /\ heap[e] \in Records
        BY <1>1, <1>3
      <4> QED BY <4>1 DEF Records
    <3> QED BY <1>1, <2>1, <3>1 DEF Nodes
  <2>2. CASE Wrapped
    <3>1. [heap[e] EXCEPT !.source = w] \in Records
      <4>1. w \in 0 .. MaxNodes /\ heap[e] \in Records
        BY <1>0, <1>1, <2>2, BoundIsNat
      <4> QED BY <4>1 DEF Records
    <3>2. Wrapper(s, old) \in Records
      <4>1. s \in 0 .. MaxNodes /\ old \in 0 .. MaxNodes
        BY <1>1, <1>3, <2>2
      <4> QED BY <4>1 DEF Records, Wrapper
    <3>3. [heap EXCEPT ![e].source = w] \in Seq(Records) /\ Len([heap EXCEPT ![e].source = w]) = Len(heap)
      BY <1>1, <3>1
    <3>4. PICK moved : moved = [heap EXCEPT ![e].source = w]
      OBVIOUS
    <3>5. /\ moved \in Seq(Records) /\ Len(moved) = Len(heap) /\ heap' = Append(moved, Wrapper(s, old))
          /\ \A n \in Nodes \ {e} : moved[n] = heap[n]
          /\ moved[e] = [heap[e] EXCEPT !.source = w]
      <4>1. DOMAIN heap = Nodes
        BY DEF Nodes
      <4>2. /\ \A n \in Nodes \ {e} : moved[n] = heap[n]
            /\ moved[e] = [heap[e] EXCEPT !.source = w]
        BY <1>1, <3>4, <4>1
      <4>3. heap' = Append(moved, Wrapper(s, old))
        BY <2>2, <3>4
      <4>4. moved \in Seq(Records) /\ Len(moved) = Len(heap)
        BY <3>3, <3>4
      <4> QED BY <4>2, <4>3, <4>4
    <3>6. /\ heap' \in Seq(Records) /\ Len(heap') = w /\ Nodes' = 1 .. w
          /\ \A n \in Nodes : heap'[n] = moved[n]
          /\ heap'[w] = Wrapper(s, old)
      <4>1. /\ heap' \in Seq(Records) /\ Len(heap') = w /\ heap'[w] = Wrapper(s, old)
            /\ \A n \in 1 .. Len(moved) : heap'[n] = moved[n]
        BY <1>0, <1>1, <3>2, <3>5
      <4>2. Nodes' = 1 .. w
        BY <4>1 DEF Nodes
      <4> QED BY <1>1, <3>5, <4>1, <4>2
    <3>7. w <= MaxNodes /\ Nodes' = Nodes \cup {w}
      BY <1>0, <1>1, <2>2, <3>6, BoundIsNat
    <3>8. old # 0
      BY <2>2
    <3> HIDE DEF Wrapped
    <3> QED BY <1>1, <3>5, <3>6, <3>7, <3>8
  <2> QED BY <1>1, <2>1, <2>2
<1>5. w \notin Nodes /\ w # 0 /\ w # e
  BY <1>0, <1>1
<1>6. /\ \A n \in Nodes \ {e} : Below(n)' = Below(n)
      /\ Below(e)' = {IF old = 0 THEN s ELSE w, 0}
      /\ old # 0 => Below(w)' = {s, old}
  <2>1. heap'[e].source = (IF old = 0 THEN s ELSE w) /\ heap'[e].branch = 0
    BY <1>1, <1>4 DEF Records
  <2> QED BY <1>4, <2>1 DEF Below, Wrapper
<1>7. \A n \in Nodes : heap'[n].kind = heap[n].kind
  <2>1. heap'[e].kind = heap[e].kind
    BY <1>1, <1>4 DEF Records
  <2> QED BY <1>4, <2>1
<1>8. ASSUME NEW n \in Nodes \ {e} PROVE Shaped(n)'
  <2>1. Shaped(n) /\ heap[n].source \in Nodes \cup {0}
    BY NodesAre
  <2>2. heap'[n] = heap[n] /\ (heap[n].source # 0 => heap'[heap[n].source].kind = heap[heap[n].source].kind)
    BY <1>4, <1>7, <2>1
  <2> QED BY <1>4, <1>6, <2>1, <2>2 DEF Shaped
<1>9. Shaped(e)'
  <2>1. heap'[e].kind = "api" /\ heap'[e].branch = 0
    BY <1>1, <1>4 DEF Records, Api
  <2> QED BY <1>1, <1>4, <1>6, <2>1 DEF Shaped
<1>10. old # 0 => Shaped(w)'
  BY <1>1, <1>4, <1>6 DEF Shaped, Wrapper
<1>11. \A n \in Nodes' : Shaped(n)'
  BY <1>4, <1>8, <1>9, <1>10
<1>12. ASSUME NEW n \in free' PROVE n \in Nodes' /\ Owned(n)'
  <2>1. n \in Nodes /\ n # s /\ Owned(n)
    BY <1>1 DEF HeapInv
  <2>2. n \notin {0, w} /\ n \notin Below(e)
    BY <1>1, <1>5, <2>1 DEF Owned
  <2>3. n # old
    BY <1>0, <2>2 DEF Below
  <2> QED BY <1>1, <1>4, <1>6, <1>7, <2>1, <2>2, <2>3 DEF Owned
<1>13. \E K \in Nat : \E rank : Ranks(K, rank)'
  <2>1. PICK K \in Nat : \E rank : Ranks(K, rank)
    BY DEF HeapInv
  <2>2. PICK rank : Ranks(K, rank)
    BY <2>1
  <2>0. PICK rank2 : rank2 = [n \in Nodes' \cup {0} |-> IF n = e THEN K + 2
                                                       ELSE IF n = w THEN K + 1 ELSE rank[n]]
    OBVIOUS
  <2>3. rank \in [Nodes \cup {0} -> 0 .. K] /\ \A n \in Nodes : \A m \in Below(n) : rank[m] < rank[n]
    BY <2>2 DEF Ranks
  <2>4. rank2 \in [Nodes' \cup {0} -> 0 .. K + 2]
    BY <1>4, <2>0, <2>3
  <2>5. \A m \in (Nodes \cup {0}) \ {e} : rank2[m] = rank[m] /\ rank[m] \in 0 .. K
    BY <1>4, <1>5, <2>0, <2>3
  <2>6. old # 0 => rank2[w] = K + 1 /\ w \in Nodes'
    BY <1>4, <1>5, <1>1, <2>0
  <2>7. ASSUME NEW n \in Nodes' PROVE \A m \in Below(n)' : rank2[m] < rank2[n]
    <3>1. CASE n \in Nodes \ {e}
      <4>1. Below(n)' = Below(n) /\ Below(n) \subseteq (Nodes \cup {0}) \ {e}
        BY <1>1, <1>2, <1>6, <3>1, NodesAre DEF Shaped, Owned
      <4> QED BY <2>3, <2>5, <3>1, <4>1
    <3>2. CASE n = e
      <4>1. Below(n)' \subseteq (Nodes' \cup {0}) \ {e}
        BY <1>1, <1>2, <1>4, <1>5, <1>6, <3>2
      <4>2. \A m \in (Nodes' \cup {0}) \ {e} : rank2[m] <= K + 1
        BY <1>4, <2>0, <2>3
      <4> QED BY <1>1, <1>4, <2>0, <2>3, <3>2, <4>1, <4>2
    <3>3. CASE old # 0 /\ n = w
      <4>1. Below(n)' \subseteq Nodes \ {e}
        BY <1>1, <1>2, <1>6, <3>3
      <4>2. \A m \in Below(n)' : rank2[m] = rank[m] /\ rank[m] \in 0 .. K
        BY <2>5, <4>1
      <4>3. rank2[n] = K + 1
        BY <2>6, <3>3
      <4> QED BY <4>2, <4>3
    <3> QED BY <1>4, <3>1, <3>2, <3>3
  <2>8. Ranks(K + 2, rank2)'
    BY <2>4, <2>7 DEF Ranks
  <2>9. K + 2 \in Nat
    OBVIOUS
  <2> QED BY <2>8, <2>9
<1>14. free' \subseteq Nodes'
  BY <1>12
<1>15. HeapInv'
  BY <1>4, <1>11, <1>12, <1>13, <1>14 DEF HeapInv
<1>16. heap'[e].source = (IF old = 0 THEN s ELSE w) /\ heap'[e].branch = 0
  BY <1>1, <1>4 DEF Records
<1>17. old # 0 => w \in Nodes'
  BY <1>4
<1> QED BY <1>0, <1>1, <1>4, <1>15, <1>16, <1>17

Building ==
  \/ NewForeign \/ NewError
  \/ \E e \in free : Clone(e) \/ MapCode(e) \/ \E s \in free : WithSource(e, s)

Collecting ==
  \/ \E n \in free : CollectMessages(n) \/ ReportCollectMessages(n)
  \/ ListError \/ SkipSeen \/ FoldForeign \/ EndLoop

LEMMA MapCodeKeepsHeap ==
  ASSUME HeapInv, NEW e \in free, MapCode(e)
  PROVE  /\ HeapInv' /\ Nodes' = Nodes
         /\ \A n \in Nodes : heap'[n].source = heap[n].source /\ heap'[n].branch = heap[n].branch
<1>1. /\ heap \in Seq(Records) /\ Len(heap) \in Nat /\ e \in Nodes /\ free' = free
      /\ Nodes = 1 .. Len(heap) /\ heap[e] \in Records
  BY NodesAre DEF MapCode, HeapInv
<1>2. PICK c \in Codes : heap' = [heap EXCEPT ![e].code = c]
  BY DEF MapCode
<1>3. /\ [heap[e] EXCEPT !.code = c] \in Records
      /\ [heap[e] EXCEPT !.code = c].source = heap[e].source
      /\ [heap[e] EXCEPT !.code = c].branch = heap[e].branch
      /\ [heap[e] EXCEPT !.code = c].kind = heap[e].kind
  BY <1>1 DEF Records
<1>4. /\ heap' \in Seq(Records) /\ Len(heap') = Len(heap) /\ Nodes' = Nodes
      /\ \A n \in Nodes \ {e} : heap'[n] = heap[n]
      /\ heap'[e] = [heap[e] EXCEPT !.code = c]
  BY <1>1, <1>2, <1>3 DEF Nodes
<1>5. \A n \in Nodes : /\ heap'[n].source = heap[n].source /\ heap'[n].branch = heap[n].branch
                       /\ heap'[n].kind = heap[n].kind
  BY <1>3, <1>4
<1>6. \A n \in Nodes : Below(n)' = Below(n)
  BY <1>5 DEF Below
<1>7. ASSUME NEW n \in Nodes PROVE Shaped(n)'
  <2>1. Shaped(n) /\ heap[n].source \in Nodes \cup {0}
    BY NodesAre
  <2> QED BY <1>4, <1>5, <1>6, <2>1 DEF Shaped
<1>8. \A n \in free' : Owned(n)'
  <2>1. \A n \in free : n \in Nodes /\ Owned(n)
    BY DEF HeapInv
  <2> QED BY <1>1, <1>4, <1>5, <1>6, <2>1 DEF Owned
<1>9. \E K \in Nat : \E rank : Ranks(K, rank)'
  <2>1. \A K, rank : Ranks(K, rank) => Ranks(K, rank)'
    BY <1>4, <1>6 DEF Ranks
  <2> QED BY <2>1 DEF HeapInv
<1>10. Len(heap') <= MaxNodes /\ free' \subseteq Nodes'
  BY <1>1, <1>4 DEF HeapInv
<1> QED BY <1>4, <1>5, <1>7, <1>8, <1>9, <1>10 DEF HeapInv

\* What a program adds is no wrapper, and points to at most one report it owned.
Adds(node, moved) ==
  /\ New(node, moved)
  /\ node \in Records /\ node.kind # "wrapper" /\ node.branch = 0
  /\ node.source \in Nodes \cup {0} /\ node.source \notin free \ moved
  /\ node.kind = "foreign" /\ node.source # 0 => heap[node.source].kind # "wrapper"

LEMMA NewAdds ==
  ASSUME HeapInv, NewForeign \/ NewError \/ \E e \in free : Clone(e)
  PROVE  \E node, moved : Adds(node, moved)
<1>0. Nodes \subseteq 0 .. MaxNodes /\ free \subseteq Nodes /\ 0 \in 0 .. MaxNodes /\ 0 \notin Nodes
  BY NodesAre, BoundIsNat DEF HeapInv
<1>1. CASE NewError
  <2>1. PICK c \in Codes, t \in Texts \cup {Blank} : New(Error(c, t, 0), {})
    BY <1>1 DEF NewError
  <2>2. Adds(Error(c, t, 0), {})
    BY <1>0, <2>1 DEF Adds, Error, Records
  <2> QED BY <2>2
<1>2. CASE NewForeign
  <2>1. PICK t \in Texts \cup {Blank} : New(Foreign(t, 0), {}) \/ \E c \in free : New(Foreign(t, c), {c})
    BY <1>2 DEF NewForeign
  <2>2. CASE New(Foreign(t, 0), {})
    <3>1. Adds(Foreign(t, 0), {})
      BY <1>0, <2>2 DEF Adds, Foreign, Records
    <3> QED BY <3>1
  <2>3. ASSUME NEW c \in free, New(Foreign(t, c), {c}) PROVE \E node, moved : Adds(node, moved)
    <3>1. heap[c].kind # "wrapper"
      BY DEF HeapInv, Owned
    <3>2. c \in 0 .. MaxNodes /\ c \in Nodes
      BY <1>0
    <3>3. Foreign(t, c) \in Records
      BY <1>0, <3>2 DEF Foreign, Records
    <3>4. /\ Foreign(t, c).kind = "foreign" /\ Foreign(t, c).branch = 0
          /\ Foreign(t, c).source = c
      BY DEF Foreign
    <3>5. Adds(Foreign(t, c), {c})
      BY <2>3, <3>1, <3>2, <3>3, <3>4 DEF Adds
    <3> QED BY <3>5
  <2> QED BY <2>1, <2>2, <2>3
<1>3. ASSUME NEW e \in free, Clone(e) PROVE \E node, moved : Adds(node, moved)
  <2>1. e \in Nodes /\ Api(e) /\ New(heap[e], {})
    BY <1>0, <1>3 DEF Clone
  <2>2. heap[e] \in Records /\ Shaped(e) /\ heap[e].source \in Nodes \cup {0}
    BY <2>1, NodesAre
  <2>3. heap[e].source \notin free
    <3>1. \A n \in free : n \notin Below(e)
      BY <2>1 DEF HeapInv, Owned
    <3> QED BY <3>1 DEF Below
  <2>4. Adds(heap[e], {})
    BY <2>1, <2>2, <2>3 DEF Adds, Api, Shaped
  <2> QED BY <2>4
<1> QED BY <1>1, <1>2, <1>3

LEMMA NextIs == ASSUME Next PROVE Building \/ (Collecting /\ UNCHANGED building)
BY DEF Next, Building, Collecting, CollectMessages, ReportCollectMessages, ListError, SkipSeen,
       FoldForeign, EndLoop

LEMMA HeapStep == HeapInv /\ [Next]_vars => HeapInv'
<1> SUFFICES ASSUME HeapInv, [Next]_vars PROVE HeapInv'
  OBVIOUS
<1>1. CASE UNCHANGED building
  BY <1>1 DEF building, HeapInv, Nodes, Shaped, Owned, Below, Ranks
<1>2. CASE NewForeign \/ NewError \/ \E e \in free : Clone(e)
  <2>1. PICK node, moved : Adds(node, moved)
    BY <1>2, NewAdds
  <2> QED BY <2>1, NewKeepsHeap DEF Adds
<1> QED BY <1>1, <1>2, NextIs, MapCodeKeepsHeap, WithSourceKeepsHeap DEF Building, vars, building

LEMMA HeapAlways == Spec => []HeapInv
BY InitHeap, HeapStep, PTL DEF Spec

-----------------------------------------------------------------------------
(* What one build step does to the causes of the errors there are. *)

LEMMA UnderFacts ==
  HeapInv => /\ Under[0] = {} /\ 0 \notin Nodes
             /\ \A n \in Nodes : Under[n] = {n} \cup Under[heap[n].source] \cup Under[heap[n].branch]
BY UnderIs, NodesAre

LEMMA UnderSame ==
  ASSUME HeapInv, HeapInv', Nodes \subseteq Nodes', NEW C, C \subseteq Nodes,
         \A n \in C : /\ heap'[n].source = heap[n].source /\ heap'[n].branch = heap[n].branch
                      /\ Below(n) \subseteq C \cup {0}
  PROVE  \A n \in C : Under'[n] = Under[n]
<1> DEFINE S == Nodes \cup {0}
           P == {n \in S : n \in C => Under'[n] = Under[n]}
<1>1. PICK K \in Nat : \E rank \in [S -> 0 .. K] : \A n \in Nodes : \A m \in Below(n) : rank[m] < rank[n]
  BY HeapRanked
<1>2. PICK rank \in [S -> 0 .. K] : \A n \in Nodes : \A m \in Below(n) : rank[m] < rank[n]
  BY <1>1
<1>3. /\ Under[0] = {} /\ 0 \notin Nodes
      /\ \A n \in Nodes : Under[n] = {n} \cup Under[heap[n].source] \cup Under[heap[n].branch]
  BY UnderFacts
<1>4. (HeapInv => /\ Under[0] = {} /\ 0 \notin Nodes
                  /\ \A n \in Nodes : Under[n] = {n} \cup Under[heap[n].source] \cup Under[heap[n].branch])'
  BY UnderFacts, PTL
<1>5. ASSUME NEW n \in S, \A m \in S : rank[m] < rank[n] => m \in P PROVE n \in P
  <2> SUFFICES ASSUME n \in C PROVE Under'[n] = Under[n]
    OBVIOUS
  <2>1. ASSUME NEW m \in Below(n) PROVE Under'[m] = Under[m]
    <3>1. CASE m = 0
      BY <1>3, <1>4, <3>1
    <3>2. CASE m \in C
      <4>1. rank[m] < rank[n]
        BY <1>2
      <4> QED BY <1>5, <3>2, <4>1
    <3> QED BY <3>1, <3>2
  <2>2. Under'[n] = {n} \cup Under'[heap[n].source] \cup Under'[heap[n].branch]
    BY <1>4
  <2> QED BY <1>3, <2>1, <2>2 DEF Below
<1> HIDE DEF P
<1>6. \A n \in S : n \in P
  BY <1>2, <1>5, RankInduction
<1> QED BY <1>6 DEF P

LEMMA WithSourceGrows ==
  ASSUME HeapInv, NEW e \in free, NEW s \in free, WithSource(e, s)
  PROVE  Under[e] \subseteq Under'[e] /\ \A n \in Nodes \ {e} : Under'[n] = Under[n]
<1>1. /\ HeapInv' /\ Nodes \subseteq Nodes' /\ \A n \in Nodes \ {e} : heap'[n] = heap[n]
      /\ heap[e].branch = 0 /\ heap'[e].branch = 0
      /\ heap[e].source = 0 => heap'[e].source = s
      /\ heap[e].source # 0 => /\ heap'[e].source \in Nodes'
                               /\ heap'[heap'[e].source] = Wrapper(s, heap[e].source)
  BY WithSourceKeepsHeap
<1>2. e \in Nodes /\ s \in Nodes /\ s # e /\ Owned(e)
  BY DEF HeapInv, WithSource
<1>3. \A n \in Nodes : Below(n) \subseteq (Nodes \ {e}) \cup {0}
  BY <1>2, NodesAre DEF Shaped, Owned
<1>4. \A n \in Nodes \ {e} : Under'[n] = Under[n]
  BY <1>1, <1>3, UnderSame
<1>5. (HeapInv => /\ Under[0] = {} /\ 0 \notin Nodes
                  /\ \A n \in Nodes : Under[n] = {n} \cup Under[heap[n].source] \cup Under[heap[n].branch])'
  BY UnderFacts, PTL
<1>6. Under[e] = {e} \cup Under[heap[e].source]
  BY <1>1, <1>2, UnderFacts
<1>7. Under'[e] = {e} \cup Under'[heap'[e].source]
  BY <1>1, <1>2, <1>5
<1>8. CASE heap[e].source = 0
  <2>1. Under[0] = {}
    BY UnderFacts
  <2>2. Under[e] = {e}
    BY <1>6, <1>8, <2>1
  <2> QED BY <1>4, <1>7, <2>2
<1>9. CASE heap[e].source # 0
  <2>1. heap[e].source \in Nodes \ {e}
    BY <1>2, <1>3, <1>9 DEF Below
  <2>2. PICK w \in Nodes' : w = heap'[e].source /\ heap'[w].branch = s /\ heap'[w].source = heap[e].source
    BY <1>1, <1>9 DEF Wrapper
  <2>3. Under'[w] = {w} \cup Under'[heap[e].source] \cup Under'[s]
    BY <1>1, <1>5, <2>2
  <2> QED BY <1>4, <1>6, <1>7, <2>1, <2>2, <2>3
<1> QED BY <1>4, <1>8, <1>9

(* An error keeps the causes it has, and gets another one only by what is  *)
(* done to it: not to a clone it shares its causes with, nor to an error   *)
(* that is one of its causes.                                              *)
THEOREM CausesAccumulate == Spec => ChainsOnlyGrow
<1> DEFINE Grows == /\ \A n \in Nodes : Under[n] \subseteq Under'[n]
                    /\ \A e, f \in free : Under'[e] # Under[e] /\ Under'[f] # Under[f] => e = f
<1>1. HeapInv /\ [Next]_vars => [Grows]_vars
  <2> SUFFICES ASSUME HeapInv, Next PROVE Grows \/ UNCHANGED vars
    OBVIOUS
  <2>0. free \subseteq Nodes /\ \A n \in Nodes : Below(n) \subseteq Nodes \cup {0}
    BY NodesAre DEF HeapInv, Shaped
  <2>1. CASE UNCHANGED building
    <3>1. Under' = Under
      BY <2>1 DEF building, Under, Nodes
    <3> QED BY <3>1
  <2>2. CASE NewForeign \/ NewError \/ \E e \in free : Clone(e)
    <3>1. PICK node, moved : Adds(node, moved)
      BY <2>2, NewAdds
    <3>2. HeapInv' /\ Nodes \subseteq Nodes' /\ \A n \in Nodes : heap'[n] = heap[n]
      BY <3>1, NewKeepsHeap DEF Adds
    <3>3. \A n \in Nodes : Under'[n] = Under[n]
      BY <2>0, <3>2, UnderSame
    <3> QED BY <2>0, <3>3
  <2>3. ASSUME NEW e \in free, MapCode(e) PROVE Grows
    <3>1. \A n \in Nodes : Under'[n] = Under[n]
      BY <2>0, <2>3, MapCodeKeepsHeap, UnderSame
    <3> QED BY <2>0, <3>1
  <2>4. ASSUME NEW e \in free, NEW s \in free, WithSource(e, s) PROVE Grows
    <3>1. Under[e] \subseteq Under'[e] /\ \A n \in Nodes \ {e} : Under'[n] = Under[n]
      BY <2>4, WithSourceGrows
    <3> QED BY <2>0, <3>1
  <2> QED BY <2>1, <2>2, <2>3, <2>4, NextIs DEF Building
<1> QED BY <1>1, HeapAlways, PTL DEF Spec, ChainsOnlyGrow

-----------------------------------------------------------------------------
(* The tree under a node. *)

LEMMA UnderTransitive ==
  ASSUME HeapInv, NEW n \in Nodes \cup {0}, NEW m \in Under[n]
  PROVE  Under[m] \subseteq Under[n]
<1> DEFINE S == Nodes \cup {0}
           P == {k \in S : \A x \in Under[k] : Under[x] \subseteq Under[k]}
<1>1. PICK K \in Nat : \E rank \in [S -> 0 .. K] : \A k \in Nodes : \A x \in Below(k) : rank[x] < rank[k]
  BY HeapRanked
<1>2. PICK rank \in [S -> 0 .. K] : \A k \in Nodes : \A x \in Below(k) : rank[x] < rank[k]
  BY <1>1
<1>3. ASSUME NEW k \in S, \A j \in S : rank[j] < rank[k] => j \in P PROVE k \in P
  <2>1. CASE k = 0
    BY <2>1, UnderFacts
  <2>2. CASE k \in Nodes
    <3>1. Below(k) \subseteq S
      BY <2>2, NodesAre DEF Shaped
    <3>2. \A x \in Below(k) : x \in P
      BY <1>2, <1>3, <2>2, <3>1
    <3>3. Under[k] = {k} \cup Under[heap[k].source] \cup Under[heap[k].branch]
      BY <2>2, UnderFacts
    <3>4. ASSUME NEW x \in Under[k] PROVE Under[x] \subseteq Under[k]
      BY <3>2, <3>3 DEF Below
    <3> QED BY <1>3, <3>4
  <2> QED BY <2>1, <2>2
<1> HIDE DEF P
<1>4. \A k \in S : k \in P
  BY <1>2, <1>3, RankInduction
<1> QED BY <1>4 DEF P

\* No node is among the causes of one of its causes.
LEMMA Acyclic ==
  ASSUME HeapInv, NEW n \in Nodes, NEW m \in Below(n)
  PROVE  n \notin Under[m]
<1> DEFINE S == Nodes \cup {0}
<1>1. PICK K \in Nat : \E rank \in [S -> 0 .. K] : \A k \in Nodes : \A x \in Below(k) : rank[x] < rank[k]
  BY HeapRanked
<1>2. PICK rank \in [S -> 0 .. K] : \A k \in Nodes : \A x \in Below(k) : rank[x] < rank[k]
  BY <1>1
<1> DEFINE P == {k \in S : \A x \in Under[k] : rank[x] <= rank[k]}
<1>3. ASSUME NEW k \in S, \A j \in S : rank[j] < rank[k] => j \in P PROVE k \in P
  <2>1. CASE k = 0
    BY <2>1, UnderFacts
  <2>2. CASE k \in Nodes
    <3>1. Below(k) \subseteq S /\ Under[k] \subseteq Nodes
      BY <2>2, NodesAre, UnderIs DEF Shaped
    <3>2. \A x \in Below(k) : x \in P /\ rank[x] < rank[k]
      BY <1>2, <1>3, <2>2, <3>1
    <3>3. Under[k] = {k} \cup Under[heap[k].source] \cup Under[heap[k].branch]
      BY <2>2, UnderFacts
    <3>4. ASSUME NEW x \in Under[k] PROVE rank[x] <= rank[k]
      <4>1. CASE x = k
        BY <1>2, <4>1
      <4>2. ASSUME NEW y \in Below(k), x \in Under[y] PROVE rank[x] <= rank[k]
        <5>1. rank[x] <= rank[y] /\ rank[y] < rank[k] /\ x \in S /\ y \in S
          BY <3>1, <3>2, <4>2
        <5> QED BY <1>2, <5>1
      <4> QED BY <3>3, <4>1, <4>2 DEF Below
    <3> QED BY <1>3, <3>4
  <2> QED BY <2>1, <2>2
<1>4. \A k \in S : k \in P
  <2> HIDE DEF P
  <2> QED BY <1>2, <1>3, RankInduction
<1>5. m \in S
  BY NodesAre DEF Shaped
<1>6. n \in Under[m] => rank[n] <= rank[m]
  BY <1>4, <1>5
<1> QED BY <1>2, <1>5, <1>6

\* A set that has the causes of all it has, has the tree under each.
LEMMA UnderLeast ==
  ASSUME HeapInv, NEW C, \A c \in C : c \in Nodes /\ Below(c) \subseteq C \cup {0}
  PROVE  \A n \in C : Under[n] \subseteq C
<1> DEFINE S == Nodes \cup {0}
           P == {k \in S : k \in C => Under[k] \subseteq C}
<1>1. PICK K \in Nat : \E rank \in [S -> 0 .. K] : \A k \in Nodes : \A x \in Below(k) : rank[x] < rank[k]
  BY HeapRanked
<1>2. PICK rank \in [S -> 0 .. K] : \A k \in Nodes : \A x \in Below(k) : rank[x] < rank[k]
  BY <1>1
<1>3. ASSUME NEW k \in S, \A j \in S : rank[j] < rank[k] => j \in P PROVE k \in P
  <2> SUFFICES ASSUME k \in C PROVE Under[k] \subseteq C
    OBVIOUS
  <2>1. Under[k] = {k} \cup Under[heap[k].source] \cup Under[heap[k].branch] /\ Under[0] = {}
    BY UnderFacts
  <2>2. \A x \in Below(k) : Under[x] \subseteq C
    <3>1. \A x \in Below(k) : x \in C \cup {0} /\ x \in S /\ rank[x] < rank[k]
      BY <1>2
    <3> QED BY <1>3, <2>1, <3>1
  <2> QED BY <2>1, <2>2 DEF Below
<1> HIDE DEF P
<1>4. \A k \in S : k \in P
  BY <1>2, <1>3, RankInduction
<1> QED BY <1>4 DEF P

LEMMA UnderRegion ==
  ASSUME HeapInv
  PROVE  \A n \in Nodes \cup {0} : Region[n] \subseteq Under[n]
<1> DEFINE S == Nodes \cup {0}
           P == {k \in S : Region[k] \subseteq Under[k]}
<1>1. PICK K \in Nat : \E rank \in [S -> 0 .. K] : \A k \in Nodes : \A x \in Below(k) : rank[x] < rank[k]
  BY HeapRanked
<1>2. PICK rank \in [S -> 0 .. K] : \A k \in Nodes : \A x \in Below(k) : rank[x] < rank[k]
  BY <1>1
<1>3. ASSUME NEW k \in S, \A j \in S : rank[j] < rank[k] => j \in P PROVE k \in P
  <2>1. CASE k = 0
    BY <2>1, RegionIs
  <2>2. CASE k \in Nodes
    <3>1. \A x \in Below(k) : x \in P
      BY <1>2, <1>3, <2>2, NodesAre DEF Shaped
    <3>2. Under[k] = {k} \cup Under[heap[k].source] \cup Under[heap[k].branch]
      BY <2>2, UnderFacts
    <3>3. Region[k] = {k} \/ Region[k] = {k} \cup Region[heap[k].source] \cup Region[heap[k].branch]
      BY <2>2, RegionIs
    <3> QED BY <2>2, <3>1, <3>2, <3>3 DEF Below
  <2> QED BY <2>1, <2>2
<1> HIDE DEF P
<1>4. \A k \in S : k \in P
  BY <1>2, <1>3, RankInduction
<1> QED BY <1>4 DEF P

\* Below a report that is no wrapper nothing leads back to what is reached
\* through no ApiError.
LEMMA TopHangsOffNone ==
  ASSUME HeapInv, NEW n \in Nodes, heap[n].kind # "wrapper"
  PROVE  \A x \in Region[n] : HangsOff(x) \cap Under[n] = {}
<1> DEFINE Clear(k) == \A x \in Region[k] : \A a \in Under[k] : Api(a) => x \notin Region[heap[a].source]
           P == {k \in Nodes : heap[k].kind # "wrapper" => Clear(k)}
<1>1. PICK K \in Nat : \E rank \in [Nodes \cup {0} -> 0 .. K] : \A k \in Nodes : \A x \in Below(k) : rank[x] < rank[k]
  BY HeapRanked
<1>2. PICK above \in [Nodes \cup {0} -> 0 .. K] : \A k \in Nodes : \A x \in Below(k) : above[x] < above[k]
  BY <1>1
<1>3. PICK rank : rank = [k \in Nodes |-> above[k]]
  OBVIOUS
<1>4. rank \in [Nodes -> 0 .. K] /\ \A k \in Nodes : rank[k] = above[k]
  BY <1>2, <1>3
\* A node that is reached from below one of its causes would be its own cause.
<1>5. ASSUME NEW k \in Nodes, NEW a \in Under[k], Api(a) PROVE k \notin Region[heap[a].source]
  <2>1. a \in Nodes /\ heap[a].source \in Nodes \cup {0} /\ heap[a].source \in Below(a)
    BY UnderIs, NodesAre DEF Below
  <2>2. Region[heap[a].source] \subseteq Under[heap[a].source]
    BY <2>1, UnderRegion
  <2>3. a \notin Under[heap[a].source]
    BY <2>1, Acyclic
  <2>4. k \in Under[heap[a].source] => Under[k] \subseteq Under[heap[a].source]
    BY <2>1, UnderTransitive
  <2> QED BY <2>2, <2>3, <2>4
<1>6. ASSUME NEW k \in Nodes, \A j \in Nodes : rank[j] < rank[k] => j \in P PROVE k \in P
  <2> SUFFICES ASSUME heap[k].kind # "wrapper", NEW x \in Region[k], NEW a \in Under[k], Api(a)
               PROVE  x \notin Region[heap[a].source]
    OBVIOUS
  <2>1. CASE x = k
    BY <1>5, <2>1
  <2>2. CASE x # k
    <3>1. /\ ~Api(k) /\ heap[k].branch = 0 /\ Region[0] = {} /\ Under[0] = {}
          /\ Region[k] = {k} \cup Region[heap[k].source] \cup Region[heap[k].branch]
          /\ Under[k] = {k} \cup Under[heap[k].source] \cup Under[heap[k].branch]
      <4>1. Region[0] = {} /\ Region[k] = IF Api(k) THEN {k}
                                          ELSE {k} \cup Region[heap[k].source] \cup Region[heap[k].branch]
        BY RegionIs
      <4>2. ~Api(k)
        BY <2>2, <4>1
      <4>3. heap[k].branch = 0
        BY NodesAre DEF Shaped
      <4>4. Under[0] = {} /\ Under[k] = {k} \cup Under[heap[k].source] \cup Under[heap[k].branch]
        BY UnderFacts
      <4> QED BY <4>1, <4>2, <4>3, <4>4
    <3>2. x \in Region[heap[k].source] /\ a \in Under[heap[k].source] /\ heap[k].source # 0
      BY <2>2, <3>1
    <3>3. heap[k].kind = "foreign" /\ heap[k].source \in Nodes /\ heap[heap[k].source].kind # "wrapper"
      BY <3>1, <3>2, NodesAre DEF Records, Shaped, Api
    <3>4. rank[heap[k].source] < rank[k]
      BY <1>2, <1>4, <3>3 DEF Below
    <3>5. Clear(heap[k].source)
      BY <1>6, <3>3, <3>4
    <3> QED BY <3>2, <3>5
  <2> QED BY <2>1, <2>2
<1> HIDE DEF P
<1>7. \A k \in Nodes : k \in P
  BY <1>4, <1>6, RankInduction
<1> QED BY <1>7 DEF P, HangsOff

-----------------------------------------------------------------------------
(* What a chain yields, in which order. *)

Elems(s) == {s[i] : i \in DOMAIN s}

\* All of s is in A or comes after an ApiError it hangs off.
LedIn(s, A) ==
  \A i \in DOMAIN s : s[i] \in A \/ \E j \in 1 .. i - 1 : Api(s[j]) /\ s[i] \in Region[heap[s[j]].source]

\* At the places in J what is no ApiError is followed by all it points to.
Unfolds(s, J) ==
  /\ J \subseteq DOMAIN s
  /\ \A j \in J : Api(s[j]) \/ \A c \in Below(s[j]) \ {0} : \E i \in J : j < i /\ s[i] = c

Unfolded(s, n) == \E J : Unfolds(s, J) /\ \E j \in J : s[j] = n

LEMMA ConsIs ==
  ASSUME NEW S, NEW n \in S, NEW t \in Seq(S)
  PROVE  /\ <<n>> \o t \in Seq(S) /\ <<n>> \o t # <<>>
         /\ Len(<<n>> \o t) = Len(t) + 1 /\ DOMAIN (<<n>> \o t) = 1 .. Len(t) + 1
         /\ (<<n>> \o t)[1] = n /\ \A i \in 1 .. Len(t) : (<<n>> \o t)[i + 1] = t[i]
         /\ Head(<<n>> \o t) = n /\ Tail(<<n>> \o t) = t
<1>1. <<n>> \in Seq(S) /\ Len(<<n>>) = 1
  OBVIOUS
<1>2. <<n>> \o t \in Seq(S) /\ Len(<<n>> \o t) = Len(t) + 1 /\ <<n>> \o t # <<>>
  BY <1>1
<1>3. (<<n>> \o t)[1] = n /\ \A i \in 1 .. Len(t) : (<<n>> \o t)[i + 1] = t[i]
  BY <1>1
<1>4. Head(<<n>> \o t) = n
  BY <1>2, <1>3
<1>5. Tail(<<n>> \o t) = t
  <2>1. /\ Tail(<<n>> \o t) \in Seq(S) /\ Len(Tail(<<n>> \o t)) = Len(t)
        /\ \A i \in 1 .. Len(t) : Tail(<<n>> \o t)[i] = (<<n>> \o t)[i + 1]
    BY <1>2
  <2> QED BY <1>3, <2>1
<1> QED BY <1>2, <1>3, <1>4, <1>5

LEMMA HeadAndTail ==
  ASSUME NEW S, NEW s \in Seq(S), s # <<>>
  PROVE  /\ Head(s) \in S /\ Tail(s) \in Seq(S) /\ s = <<Head(s)>> \o Tail(s)
         /\ Len(Tail(s)) = Len(s) - 1 /\ s[1] = Head(s) /\ 1 \in DOMAIN s
         /\ \A i \in 1 .. Len(s) - 1 : Tail(s)[i] = s[i + 1]
<1>1. /\ Head(s) \in S /\ Tail(s) \in Seq(S) /\ Len(s) \in Nat \ {0} /\ s[1] = Head(s)
      /\ Len(Tail(s)) = Len(s) - 1 /\ \A i \in 1 .. Len(s) - 1 : Tail(s)[i] = s[i + 1]
  OBVIOUS
<1>2. /\ <<Head(s)>> \o Tail(s) \in Seq(S) /\ Len(<<Head(s)>> \o Tail(s)) = Len(s)
      /\ (<<Head(s)>> \o Tail(s))[1] = s[1]
      /\ \A i \in 1 .. Len(s) - 1 : (<<Head(s)>> \o Tail(s))[i + 1] = s[i + 1]
  BY <1>1, ConsIs
<1>3. ASSUME NEW i \in 1 .. Len(s) PROVE (<<Head(s)>> \o Tail(s))[i] = s[i]
  <2>1. CASE i = 1
    BY <1>2, <2>1
  <2>2. CASE i # 1
    <3>1. i - 1 \in 1 .. Len(s) - 1 /\ (i - 1) + 1 = i
      BY <1>1, <2>2
    <3> QED BY <1>2, <3>1
  <2> QED BY <2>1, <2>2
<1>4. s = <<Head(s)>> \o Tail(s)
  BY <1>2, <1>3
<1> QED BY <1>1, <1>4

LEMMA ConcatIs ==
  ASSUME NEW S, NEW s \in Seq(S), NEW t \in Seq(S)
  PROVE  /\ s \o t \in Seq(S) /\ Len(s \o t) = Len(s) + Len(t) /\ DOMAIN (s \o t) = 1 .. Len(s) + Len(t)
         /\ \A i \in 1 .. Len(s) : (s \o t)[i] = s[i]
         /\ \A i \in 1 .. Len(t) : (s \o t)[Len(s) + i] = t[i]
         /\ \A i \in 1 .. Len(s) + Len(t) : i \in 1 .. Len(s) \/ \E k \in 1 .. Len(t) : i = Len(s) + k
<1>1. ASSUME NEW i \in 1 .. Len(s) + Len(t), i \notin 1 .. Len(s) PROVE \E k \in 1 .. Len(t) : i = Len(s) + k
  <2>1. i - Len(s) \in 1 .. Len(t) /\ i = Len(s) + (i - Len(s))
    BY <1>1
  <2> QED BY <2>1
<1> QED BY <1>1

LEMMA ElemsConcat ==
  ASSUME NEW S, NEW s \in Seq(S), NEW t \in Seq(S)
  PROVE  Elems(s \o t) = Elems(s) \cup Elems(t)
<1>1. ASSUME NEW x \in Elems(s \o t) PROVE x \in Elems(s) \cup Elems(t)
  BY ConcatIs DEF Elems
<1>2. ASSUME NEW x \in Elems(s) PROVE x \in Elems(s \o t)
  <2>1. PICK i \in 1 .. Len(s) : x = s[i]
    BY DEF Elems
  <2>2. i \in DOMAIN (s \o t) /\ (s \o t)[i] = x
    BY <2>1, ConcatIs
  <2> QED BY <2>2 DEF Elems
<1>3. ASSUME NEW x \in Elems(t) PROVE x \in Elems(s \o t)
  <2>1. PICK i \in 1 .. Len(t) : x = t[i]
    BY DEF Elems
  <2>2. Len(s) + i \in DOMAIN (s \o t) /\ (s \o t)[Len(s) + i] = x
    BY <2>1, ConcatIs
  <2> QED BY <2>2 DEF Elems
<1> QED BY <1>1, <1>2, <1>3

LEMMA ElemsCons ==
  ASSUME NEW S, NEW m \in S, NEW u \in Seq(S)
  PROVE  Elems(<<m>> \o u) = {m} \cup Elems(u)
<1>1. /\ DOMAIN (<<m>> \o u) = 1 .. Len(u) + 1 /\ (<<m>> \o u)[1] = m
      /\ \A i \in 1 .. Len(u) : (<<m>> \o u)[i + 1] = u[i]
  BY ConsIs
<1>2. ASSUME NEW i \in 1 .. Len(u) + 1 PROVE (<<m>> \o u)[i] \in {m} \cup Elems(u)
  <2>1. CASE i = 1
    BY <1>1, <2>1
  <2>2. CASE i # 1
    <3>1. i - 1 \in 1 .. Len(u) /\ (i - 1) + 1 = i
      BY <2>2
    <3> QED BY <1>1, <3>1 DEF Elems
  <2> QED BY <2>1, <2>2
<1>3. ASSUME NEW i \in 1 .. Len(u) PROVE u[i] \in Elems(<<m>> \o u)
  <2>1. i + 1 \in DOMAIN (<<m>> \o u)
    BY <1>1
  <2> QED BY <1>1, <2>1 DEF Elems
<1>4. 1 \in DOMAIN (<<m>> \o u)
  BY <1>1
<1>5. m \in Elems(<<m>> \o u)
  BY <1>1, <1>4 DEF Elems
<1>6. Elems(<<m>> \o u) \subseteq {m} \cup Elems(u)
  BY <1>1, <1>2 DEF Elems
<1>7. Elems(u) \subseteq Elems(<<m>> \o u)
  <2>1. DOMAIN u = 1 .. Len(u)
    OBVIOUS
  <2>2. \A x \in Elems(u) : \E i \in 1 .. Len(u) : x = u[i]
    BY <2>1 DEF Elems
  <2> QED BY <1>3, <2>2
<1> QED BY <1>5, <1>6, <1>7

LEMMA ElemsOf ==
  ASSUME NEW S, NEW s \in Seq(S), NEW t \in Seq(S), NEW n \in S
  PROVE  /\ Elems(s \o t) = Elems(s) \cup Elems(t) /\ Elems(<<n>> \o t) = {n} \cup Elems(t)
         /\ Elems(<<>>) = {}
         /\ s # <<>> => Elems(s) = {Head(s)} \cup Elems(Tail(s)) /\ Head(s) \in Elems(s)
<1>1. Elems(s \o t) = Elems(s) \cup Elems(t)
  BY ElemsConcat
<1>2. ASSUME NEW m \in S, NEW u \in Seq(S) PROVE Elems(<<m>> \o u) = {m} \cup Elems(u)
  BY ElemsCons
<1>3. Elems(<<>>) = {}
  BY DEF Elems
<1>4. s # <<>> => Elems(s) = {Head(s)} \cup Elems(Tail(s))
  <2> SUFFICES ASSUME s # <<>> PROVE Elems(s) = {Head(s)} \cup Elems(Tail(s))
    OBVIOUS
  <2>1. Head(s) \in S /\ Tail(s) \in Seq(S) /\ s = <<Head(s)>> \o Tail(s)
    BY HeadAndTail
  <2> QED BY <1>2, <2>1
<1> QED BY <1>1, <1>2, <1>3, <1>4

LEMMA LedMono ==
  ASSUME NEW s, NEW A, NEW C, A \subseteq C, LedIn(s, A)
  PROVE  LedIn(s, C)
BY DEF LedIn

LEMMA LedCons ==
  ASSUME NEW S, NEW n \in S, NEW t \in Seq(S), NEW A,
         IF Api(n) THEN LedIn(t, Region[heap[n].source]) ELSE LedIn(t, A)
  PROVE  LedIn(<<n>> \o t, {n} \cup A)
<1>1. PICK s \in Seq(S) : s = <<n>> \o t
  BY ConsIs
<1>2. DOMAIN s = 1 .. Len(t) + 1 /\ s[1] = n /\ \A i \in 1 .. Len(t) : s[i + 1] = t[i]
  BY <1>1, ConsIs
<1>3. ASSUME NEW i \in DOMAIN s
      PROVE  s[i] \in {n} \cup A \/ \E j \in 1 .. i - 1 : Api(s[j]) /\ s[i] \in Region[heap[s[j]].source]
  <2>1. CASE i = 1
    BY <1>2, <2>1
  <2>2. CASE i # 1
    <3>1. PICK k \in 1 .. Len(t) : i = k + 1
      <4>1. i - 1 \in 1 .. Len(t) /\ i = (i - 1) + 1
        BY <1>2, <2>2
      <4> QED BY <4>1
    <3>2. s[i] = t[k] /\ k \in DOMAIN t
      BY <1>2, <3>1
    <3>3. CASE \E j \in 1 .. k - 1 : Api(t[j]) /\ t[k] \in Region[heap[t[j]].source]
      <4>1. PICK j \in 1 .. k - 1 : Api(t[j]) /\ t[k] \in Region[heap[t[j]].source]
        BY <3>3
      <4>2. j + 1 \in 1 .. i - 1 /\ j \in 1 .. Len(t)
        BY <3>1
      <4>3. s[j + 1] = t[j]
        BY <1>2, <4>2
      <4> QED BY <3>2, <4>1, <4>2, <4>3
    <3>4. CASE Api(n) /\ t[k] \in Region[heap[n].source]
      <4>1. 1 \in 1 .. i - 1
        BY <3>1
      <4> QED BY <1>2, <3>2, <3>4, <4>1
    <3>5. CASE ~Api(n) /\ t[k] \in A
      BY <3>2, <3>5
    <3> QED BY <3>2, <3>3, <3>4, <3>5 DEF LedIn
  <2> QED BY <2>1, <2>2
<1>4. LedIn(s, {n} \cup A)
  BY <1>3 DEF LedIn
<1> QED BY <1>1, <1>4

LEMMA LedConcat ==
  ASSUME NEW S, NEW s \in Seq(S), NEW t \in Seq(S), NEW A, LedIn(s, A), LedIn(t, A)
  PROVE  LedIn(s \o t, A)
<1>1. PICK u \in Seq(S) : u = s \o t
  BY ConcatIs
<1>2. /\ DOMAIN u = 1 .. Len(s) + Len(t)
      /\ \A i \in 1 .. Len(s) : u[i] = s[i]
      /\ \A i \in 1 .. Len(t) : u[Len(s) + i] = t[i]
      /\ \A i \in 1 .. Len(s) + Len(t) : i \in 1 .. Len(s) \/ \E k \in 1 .. Len(t) : i = Len(s) + k
  <2>1. \A i \in 1 .. Len(s) + Len(t) : i \in 1 .. Len(s) \/ \E k \in 1 .. Len(t) : i = Len(s) + k
    BY ConcatIs
  <2>2. DOMAIN u = 1 .. Len(s) + Len(t) /\ \A i \in 1 .. Len(s) : u[i] = s[i]
    BY <1>1, ConcatIs
  <2>3. \A i \in 1 .. Len(t) : u[Len(s) + i] = t[i]
    BY <1>1, ConcatIs
  <2> QED BY <2>1, <2>2, <2>3
<1>3. ASSUME NEW i \in DOMAIN u
      PROVE  u[i] \in A \/ \E j \in 1 .. i - 1 : Api(u[j]) /\ u[i] \in Region[heap[u[j]].source]
  <2>1. CASE i \in 1 .. Len(s)
    <3>1. u[i] = s[i] /\ i \in DOMAIN s
      BY <1>2, <2>1
    <3>2. CASE s[i] \in A
      BY <3>1, <3>2
    <3>3. CASE \E j \in 1 .. i - 1 : Api(s[j]) /\ s[i] \in Region[heap[s[j]].source]
      <4>1. \A j \in 1 .. i - 1 : u[j] = s[j]
        BY <1>2, <2>1
      <4> QED BY <3>1, <3>3, <4>1
    <3> QED BY <3>1, <3>2, <3>3 DEF LedIn
  <2>2. ASSUME NEW k \in 1 .. Len(t), i = Len(s) + k
        PROVE  u[i] \in A \/ \E j \in 1 .. i - 1 : Api(u[j]) /\ u[i] \in Region[heap[u[j]].source]
    <3>1. u[i] = t[k] /\ k \in DOMAIN t
      BY <1>2, <2>2
    <3>2. CASE t[k] \in A
      BY <3>1, <3>2
    <3>3. CASE \E j \in 1 .. k - 1 : Api(t[j]) /\ t[k] \in Region[heap[t[j]].source]
      <4>1. PICK j \in 1 .. k - 1 : Api(t[j]) /\ t[k] \in Region[heap[t[j]].source]
        BY <3>3
      <4>2. j \in 1 .. Len(t) /\ Len(s) + j \in 1 .. i - 1
        BY <2>2
      <4>3. u[Len(s) + j] = t[j]
        BY <1>2, <4>2
      <4> QED BY <3>1, <4>1, <4>2, <4>3
    <3> QED BY <3>1, <3>2, <3>3 DEF LedIn
  <2> QED BY <1>2, <2>1, <2>2
<1>4. LedIn(u, A)
  BY <1>3 DEF LedIn
<1> QED BY <1>1, <1>4

LEMMA LedTail ==
  ASSUME NEW S, NEW s \in Seq(S), s # <<>>, NEW A, LedIn(s, A),
         Api(Head(s)) => Region[heap[Head(s)].source] \subseteq A
  PROVE  Head(s) \in A /\ LedIn(Tail(s), A)
<1>1. PICK t \in Seq(S) : t = Tail(s)
  BY HeadAndTail
<1>2. /\ s[1] = Head(s) /\ 1 \in DOMAIN s /\ DOMAIN s = 1 .. Len(t) + 1 /\ DOMAIN t = 1 .. Len(t)
      /\ \A i \in 1 .. Len(t) : t[i] = s[i + 1]
  BY <1>1, HeadAndTail
<1>3. Head(s) \in A
  <2>1. 1 .. 1 - 1 = {}
    OBVIOUS
  <2> QED BY <1>2, <2>1 DEF LedIn
<1>4. ASSUME NEW i \in DOMAIN t
      PROVE  t[i] \in A \/ \E j \in 1 .. i - 1 : Api(t[j]) /\ t[i] \in Region[heap[t[j]].source]
  <2>1. i \in 1 .. Len(t) /\ i + 1 \in DOMAIN s /\ t[i] = s[i + 1]
    BY <1>2
  <2>2. CASE s[i + 1] \in A
    BY <2>1, <2>2
  <2>3. ASSUME NEW j \in 1 .. (i + 1) - 1, Api(s[j]) /\ s[i + 1] \in Region[heap[s[j]].source]
        PROVE  t[i] \in A \/ \E k \in 1 .. i - 1 : Api(t[k]) /\ t[i] \in Region[heap[t[k]].source]
    <3>1. CASE j = 1
      BY <1>2, <2>1, <2>3, <3>1
    <3>2. CASE j # 1
      <4>1. j - 1 \in 1 .. i - 1 /\ j - 1 \in 1 .. Len(t) /\ (j - 1) + 1 = j
        BY <2>1, <3>2
      <4>2. t[j - 1] = s[j]
        BY <1>2, <4>1
      <4> QED BY <2>1, <2>3, <4>1, <4>2
    <3> QED BY <3>1, <3>2
  <2> QED BY <2>1, <2>2, <2>3 DEF LedIn
<1>5. LedIn(t, A)
  BY <1>4 DEF LedIn
<1> QED BY <1>1, <1>3, <1>5

\* The places that some J says are unfolded.
Live(s) == {i \in DOMAIN s : \E J : Unfolds(s, J) /\ i \in J}

LEMMA LiveUnfolds ==
  ASSUME NEW s
  PROVE  Unfolds(s, Live(s)) /\ \A n : Unfolded(s, n) <=> \E i \in Live(s) : s[i] = n
<1>1. ASSUME NEW j \in Live(s)
      PROVE  Api(s[j]) \/ \A c \in Below(s[j]) \ {0} : \E i \in Live(s) : j < i /\ s[i] = c
  <2>1. PICK J : Unfolds(s, J) /\ j \in J
    BY DEF Live
  <2>2. J \subseteq Live(s)
    BY <2>1 DEF Live, Unfolds
  <2> QED BY <2>1, <2>2 DEF Unfolds
<1>2. Unfolds(s, Live(s))
  <2>1. Live(s) \subseteq DOMAIN s
    BY DEF Live
  <2> QED BY <1>1, <2>1 DEF Unfolds
<1>3. ASSUME NEW n PROVE Unfolded(s, n) => \E i \in Live(s) : s[i] = n
  BY DEF Unfolded, Unfolds, Live
<1>4. ASSUME NEW n PROVE (\E i \in Live(s) : s[i] = n) => Unfolded(s, n)
  BY <1>2 DEF Unfolded
<1> QED BY <1>2, <1>3, <1>4

LEMMA UnfoldCons ==
  ASSUME NEW S, NEW n \in S, NEW t \in Seq(S),
         Api(n) \/ \A c \in Below(n) \ {0} : Unfolded(t, c)
  PROVE  Unfolded(<<n>> \o t, n)
<1>1. PICK s \in Seq(S) : s = <<n>> \o t
  BY ConsIs
<1>2. DOMAIN s = 1 .. Len(t) + 1 /\ s[1] = n /\ (\A i \in 1 .. Len(t) : s[i + 1] = t[i])
  BY <1>1, ConsIs
<1>3. 1 \in DOMAIN s
  BY <1>2
<1>4. CASE Api(n)
  <2>1. Unfolds(s, {1})
    BY <1>2, <1>3, <1>4 DEF Unfolds
  <2> QED BY <1>1, <1>2, <2>1 DEF Unfolded
<1>5. CASE ~Api(n)
  <2>1. PICK L : L = Live(t)
    OBVIOUS
  <2>2. Unfolds(t, L) /\ L \subseteq 1 .. Len(t)
    <3>1. Unfolds(t, L)
      BY <2>1, LiveUnfolds
    <3>2. DOMAIN t = 1 .. Len(t)
      OBVIOUS
    <3> QED BY <3>1, <3>2 DEF Unfolds
  <2> DEFINE J == {1} \cup {i + 1 : i \in L}
  <2>3. J \subseteq DOMAIN s
    BY <1>2, <1>3, <2>2
  <2>4. \A c \in Below(n) \ {0} : \E i \in J : 1 < i /\ s[i] = c
    <3> SUFFICES ASSUME NEW c \in Below(n) \ {0} PROVE \E i \in J : 1 < i /\ s[i] = c
      OBVIOUS
    <3>1. PICK i \in L : t[i] = c
      BY <1>5, <2>1, LiveUnfolds
    <3>2. i + 1 \in J /\ 1 < i + 1 /\ s[i + 1] = c
      BY <1>2, <2>2, <3>1
    <3> QED BY <3>2
  <2>5. ASSUME NEW j \in L, ~Api(s[j + 1]), NEW c \in Below(s[j + 1]) \ {0}
        PROVE  \E i \in J : j + 1 < i /\ s[i] = c
    <3>1. s[j + 1] = t[j]
      BY <1>2, <2>2
    <3>2. PICK i \in L : j < i /\ t[i] = c
      BY <2>2, <2>5, <3>1 DEF Unfolds
    <3>3. i + 1 \in J /\ j + 1 < i + 1 /\ s[i + 1] = c
      BY <1>2, <2>2, <3>2
    <3> QED BY <3>3
  <2>6. \A j \in J : Api(s[j]) \/ \A c \in Below(s[j]) \ {0} : \E i \in J : j < i /\ s[i] = c
    <3> SUFFICES ASSUME NEW j \in J, ~Api(s[j]), NEW c \in Below(s[j]) \ {0}
                 PROVE  \E i \in J : j < i /\ s[i] = c
      BY Zenon
    <3>1. CASE j = 1
      BY <1>2, <2>4, <3>1
    <3>2. ASSUME NEW i \in L, j = i + 1 PROVE \E k \in J : j < k /\ s[k] = c
      <4> HIDE DEF J
      <4> QED BY <2>5, <3>2
    <3> QED BY <3>1, <3>2
  <2>7. 1 \in J
    OBVIOUS
  <2> HIDE DEF J
  <2>8. Unfolds(s, J)
    BY <2>3, <2>6 DEF Unfolds
  <2> QED BY <1>1, <1>2, <2>7, <2>8 DEF Unfolded
<1> QED BY <1>4, <1>5

LEMMA UnfoldConcat ==
  ASSUME NEW S, NEW s \in Seq(S), NEW t \in Seq(S), NEW n, Unfolded(s, n) \/ Unfolded(t, n)
  PROVE  Unfolded(s \o t, n)
<1>1. PICK u \in Seq(S) : u = s \o t
  BY ConcatIs
<1>2. /\ DOMAIN u = 1 .. Len(s) + Len(t) /\ DOMAIN s = 1 .. Len(s) /\ DOMAIN t = 1 .. Len(t)
      /\ Len(s) \in Nat /\ Len(t) \in Nat
  BY <1>1, ConcatIs
<1>3. \A i \in 1 .. Len(s) : u[i] = s[i]
  BY <1>1, ConcatIs
<1>4. \A i \in 1 .. Len(t) : u[Len(s) + i] = t[i]
  BY <1>1, ConcatIs
<1>5. CASE Unfolded(s, n)
  <2>1. PICK J : Unfolds(s, J) /\ \E j \in J : s[j] = n
    BY <1>5 DEF Unfolded
  <2>2. J \subseteq 1 .. Len(s) /\ J \subseteq DOMAIN u
    BY <1>2, <2>1 DEF Unfolds
  <2>3. Unfolds(u, J)
    <3>1. \A j \in J : u[j] = s[j]
      BY <1>3, <2>2
    <3>2. \A j \in J : Api(s[j]) \/ \A c \in Below(s[j]) \ {0} : \E i \in J : j < i /\ s[i] = c
      BY <2>1 DEF Unfolds
    <3>3. \A j \in J : Api(u[j]) \/ \A c \in Below(u[j]) \ {0} : \E i \in J : j < i /\ u[i] = c
      BY <3>1, <3>2
    <3> QED BY <2>2, <3>3 DEF Unfolds
  <2>4. \E j \in J : u[j] = n
    BY <1>3, <2>1, <2>2
  <2> QED BY <1>1, <2>3, <2>4 DEF Unfolded
<1>6. CASE Unfolded(t, n)
  <2>1. PICK J : Unfolds(t, J) /\ \E j \in J : t[j] = n
    BY <1>6 DEF Unfolded
  <2>2. J \subseteq 1 .. Len(t)
    BY <1>2, <2>1 DEF Unfolds
  <2>3. \A j \in J : u[Len(s) + j] = t[j] /\ Len(s) + j \in DOMAIN u
    BY <1>2, <1>4, <2>2
  <2> DEFINE M == {Len(s) + j : j \in J}
  <2>4. ASSUME NEW j \in J, ~Api(t[j]), NEW c \in Below(t[j]) \ {0}
        PROVE  \E i \in M : Len(s) + j < i /\ u[i] = c
    <3>1. PICK i \in J : j < i /\ t[i] = c
      BY <2>1, <2>4 DEF Unfolds
    <3>2. Len(s) + i \in M /\ Len(s) + j < Len(s) + i /\ u[Len(s) + i] = c
      BY <1>2, <2>2, <2>3, <3>1
    <3> QED BY <3>2
  <2>5. M \subseteq DOMAIN u
    BY <2>3
  <2>6. \A m \in M : \E j \in J : m = Len(s) + j
    OBVIOUS
  <2>7. \E m \in M : u[m] = n
    BY <2>1, <2>3
  <2> HIDE DEF M
  <2>8. \A m \in M : Api(u[m]) \/ \A c \in Below(u[m]) \ {0} : \E i \in M : m < i /\ u[i] = c
    <3> SUFFICES ASSUME NEW m \in M, ~Api(u[m]), NEW c \in Below(u[m]) \ {0}
                 PROVE  \E i \in M : m < i /\ u[i] = c
      BY Zenon
    <3>1. PICK j \in J : m = Len(s) + j
      BY <2>6
    <3>2. u[m] = t[j]
      BY <2>3, <3>1
    <3> QED BY <2>4, <3>1, <3>2
  <2>9. Unfolds(u, M)
    BY <2>5, <2>8 DEF Unfolds
  <2> QED BY <1>1, <2>7, <2>9 DEF Unfolded
<1> QED BY <1>5, <1>6

\* Once the head of a chain is dropped, what it was unfolded to is to come.
LEMMA UnfoldTail ==
  ASSUME NEW S, NEW s \in Seq(S), s # <<>>, NEW n, Unfolded(s, n)
  PROVE  \/ Unfolded(Tail(s), n)
         \/ n = Head(s) /\ (Api(n) \/ \A c \in Below(n) \ {0} : Unfolded(Tail(s), c))
<1>1. PICK t \in Seq(S) : t = Tail(s)
  BY HeadAndTail
<1>2. /\ s[1] = Head(s) /\ DOMAIN s = 1 .. Len(t) + 1 /\ DOMAIN t = 1 .. Len(t) /\ Len(t) \in Nat
      /\ \A i \in 1 .. Len(t) : t[i] = s[i + 1]
  BY <1>1, HeadAndTail
<1>3. PICK J : Unfolds(s, J) /\ \E j \in J : s[j] = n
  BY DEF Unfolded
<1> DEFINE M == {i \in 1 .. Len(t) : i + 1 \in J}
<1>4. \A j \in J : 1 < j => j - 1 \in M /\ t[j - 1] = s[j] /\ (j - 1) + 1 = j
  <2> SUFFICES ASSUME NEW j \in J, 1 < j PROVE j - 1 \in M /\ t[j - 1] = s[j] /\ (j - 1) + 1 = j
    OBVIOUS
  <2>1. j \in 1 .. Len(t) + 1
    BY <1>2, <1>3 DEF Unfolds
  <2>2. j - 1 \in 1 .. Len(t) /\ (j - 1) + 1 = j
    BY <1>2, <2>1
  <2> QED BY <1>2, <2>2
<1>5. Unfolds(t, M)
  <2>1. ASSUME NEW m \in M, ~Api(t[m]), NEW c \in Below(t[m]) \ {0} PROVE \E i \in M : m < i /\ t[i] = c
    <3>1. m + 1 \in J /\ t[m] = s[m + 1] /\ m \in 1 .. Len(t)
      BY <1>2
    <3>2. PICK j \in J : m + 1 < j /\ s[j] = c
      BY <1>3, <2>1, <3>1 DEF Unfolds
    <3>3. j \in Nat
      BY <1>2, <1>3 DEF Unfolds
    <3>4. 1 < j /\ m < j - 1
      BY <3>1, <3>2, <3>3
    <3>5. j - 1 \in M /\ t[j - 1] = c
      BY <1>4, <3>2, <3>4
    <3> QED BY <3>4, <3>5
  <2>2. M \subseteq DOMAIN t
    BY <1>2
  <2> HIDE DEF M
  <2> QED BY <2>1, <2>2 DEF Unfolds
<1>6. PICK j \in J : s[j] = n
  BY <1>3
<1>7. j \in Nat /\ 1 <= j
  BY <1>2, <1>3 DEF Unfolds
<1>8. CASE 1 < j
  BY <1>1, <1>4, <1>5, <1>6, <1>8 DEF Unfolded
<1>9. CASE j = 1
  <2>1. ASSUME ~Api(n), NEW c \in Below(n) \ {0} PROVE Unfolded(t, c)
    <3>1. PICK i \in J : 1 < i /\ s[i] = c
      BY <1>3, <1>6, <1>9, <2>1 DEF Unfolds
    <3>2. i - 1 \in M /\ t[i - 1] = c
      BY <1>4, <3>1
    <3> QED BY <1>5, <3>2 DEF Unfolded
  <2> QED BY <1>1, <1>2, <1>6, <1>9, <2>1
<1> QED BY <1>7, <1>8, <1>9

\* A chain that starts at n stays below n and is led by what it has yielded.
Spells(s, n) ==
  /\ \E t \in Seq(Nodes) : s = <<n>> \o t /\ Elems(t) \subseteq Under[heap[n].source] \cup Under[heap[n].branch]
  /\ LedIn(s, Region[n])

LEMMA SpellsUnder ==
  ASSUME HeapInv, NEW n \in Nodes, NEW s, Spells(s, n)
  PROVE  s \in Seq(Nodes) /\ s # <<>> /\ Head(s) = n /\ Elems(s) \subseteq Under[n]
<1>1. PICK t \in Seq(Nodes) : s = <<n>> \o t /\ Elems(t) \subseteq Under[heap[n].source] \cup Under[heap[n].branch]
  BY DEF Spells
<1>2. s \in Seq(Nodes) /\ s # <<>> /\ Head(s) = n /\ Elems(s) = {n} \cup Elems(t)
  BY <1>1, ConsIs, ElemsOf
<1>3. Under[n] = {n} \cup Under[heap[n].source] \cup Under[heap[n].branch]
  BY UnderFacts
<1> QED BY <1>1, <1>2, <1>3

\* What is read after n is spelled out as it should be, so n over it is.
LEMMA SpellsCons ==
  ASSUME HeapInv, NEW n \in Nodes, NEW t \in Seq(Nodes),
         Elems(t) \subseteq Under[heap[n].source] \cup Under[heap[n].branch],
         LedIn(t, IF Api(n) THEN Region[heap[n].source] ELSE Region[heap[n].source] \cup Region[heap[n].branch])
  PROVE  Spells(<<n>> \o t, n)
<1>1. LedIn(<<n>> \o t, Region[n])
  <2>1. Region[n] = IF Api(n) THEN {n} ELSE {n} \cup Region[heap[n].source] \cup Region[heap[n].branch]
    BY RegionIs
  <2>2. CASE Api(n)
    <3>1. LedIn(<<n>> \o t, {n} \cup {})
      BY <2>2, LedCons
    <3>2. {n} \cup {} = {n}
      OBVIOUS
    <3> QED BY <2>1, <2>2, <3>1, <3>2
  <2>3. CASE ~Api(n)
    <3>1. PICK A : A = Region[heap[n].source] \cup Region[heap[n].branch]
      OBVIOUS
    <3>2. LedIn(<<n>> \o t, {n} \cup A)
      BY <2>3, <3>1, LedCons
    <3>3. {n} \cup A = Region[n]
      BY <2>1, <2>3, <3>1
    <3> QED BY <3>2, <3>3
  <2> QED BY <2>2, <2>3
<1> QED BY <1>1 DEF Spells

LEMMA FollowFacts ==
  ASSUME HeapInv
  PROVE  \A n \in Nodes : Spells(Follow[n], n) /\ (heap[n].kind # "wrapper" => Unfolded(Follow[n], n))
<1> DEFINE Good(k) == Spells(Follow[k], k) /\ (heap[k].kind # "wrapper" => Unfolded(Follow[k], k))
           P == {k \in Nodes : Good(k)}
<1>1. PICK K \in Nat : \E rank \in [Nodes \cup {0} -> 0 .. K] : \A k \in Nodes : \A x \in Below(k) : rank[x] < rank[k]
  BY HeapRanked
<1>2. PICK above \in [Nodes \cup {0} -> 0 .. K] : \A k \in Nodes : \A x \in Below(k) : above[x] < above[k]
  BY <1>1
<1>3. PICK rank : rank = [k \in Nodes |-> above[k]]
  OBVIOUS
<1>4. rank \in [Nodes -> 0 .. K] /\ \A k \in Nodes : rank[k] = above[k]
  BY <1>2, <1>3
<1>5. ASSUME NEW k \in Nodes, \A j \in Nodes : rank[j] < rank[k] => j \in P PROVE k \in P
  <2> DEFINE q == heap[k].source
  <2>0. /\ heap[k] \in Records /\ Shaped(k) /\ q \in Nodes \cup {0} /\ 0 \notin Nodes
    BY NodesAre
  <2>1. PICK t \in Seq(Nodes) : /\ Follow[k] = <<k>> \o t
                                /\ t = IF q = 0 THEN <<>> ELSE Follow[q]
    <3>1. Follow[k] = <<k>> \o (IF q = 0 THEN <<>> ELSE Follow[q])
      BY FollowIs
    <3>2. (IF q = 0 THEN <<>> ELSE Follow[q]) \in Seq(Nodes)
      BY <2>0, FollowIs
    <3> QED BY <3>1, <3>2
  <2>2. q # 0 => Good(q)
    <3>1. q # 0 => q \in Nodes /\ rank[q] < rank[k]
      BY <1>2, <1>4, <2>0 DEF Below
    <3> QED BY <1>5, <3>1
  <2>3. Elems(t) \subseteq Under[q] /\ LedIn(t, Region[q])
    <3>1. CASE q = 0
      <4>1. t = <<>> /\ DOMAIN t = {}
        BY <2>1, <3>1
      <4> QED BY <4>1 DEF Elems, LedIn
    <3>2. CASE q # 0
      BY <2>0, <2>1, <2>2, <3>2, SpellsUnder DEF Spells
    <3> QED BY <3>1, <3>2
  <2>4. LedIn(t, IF Api(k) THEN Region[q] ELSE Region[q] \cup Region[heap[k].branch])
    <3>1. LedIn(t, Region[q] \cup Region[heap[k].branch])
      BY <2>3, LedMono
    <3> QED BY <2>3, <3>1
  <2>5. Spells(Follow[k], k)
    BY <2>1, <2>3, <2>4, SpellsCons
  <2>6. heap[k].kind # "wrapper" => Unfolded(Follow[k], k)
    <3> SUFFICES ASSUME heap[k].kind # "wrapper" PROVE Unfolded(<<k>> \o t, k)
      BY <2>1
    <3>1. CASE Api(k)
      BY <3>1, UnfoldCons
    <3>2. CASE ~Api(k)
      <4>1. heap[k].kind = "foreign" /\ heap[k].branch = 0
        BY <2>0, <3>2 DEF Records, Api, Shaped
      <4>2. Below(k) \ {0} \subseteq {q} \ {0}
        BY <4>1 DEF Below
      <4>3. q # 0 => Unfolded(t, q)
        BY <2>0, <2>1, <2>2, <4>1 DEF Shaped
      <4> QED BY <4>2, <4>3, UnfoldCons
    <3> QED BY <3>1, <3>2
  <2> QED BY <2>5, <2>6
<1> HIDE DEF P
<1>6. \A k \in Nodes : k \in P
  BY <1>4, <1>5, RankInduction
<1> QED BY <1>6 DEF P

LEMMA ChainFacts ==
  ASSUME HeapInv
  PROVE  \A n \in Nodes : Spells(Chain[n], n) /\ Unfolded(Chain[n], n)
<1> DEFINE Good(k) == Spells(Chain[k], k) /\ Unfolded(Chain[k], k)
           P == {k \in Nodes : Good(k)}
<1>1. PICK K \in Nat : \E rank \in [Nodes \cup {0} -> 0 .. K] : \A k \in Nodes : \A x \in Below(k) : rank[x] < rank[k]
  BY HeapRanked
<1>2. PICK above \in [Nodes \cup {0} -> 0 .. K] : \A k \in Nodes : \A x \in Below(k) : above[x] < above[k]
  BY <1>1
<1>3. PICK rank : rank = [k \in Nodes |-> above[k]]
  OBVIOUS
<1>4. rank \in [Nodes -> 0 .. K] /\ \A k \in Nodes : rank[k] = above[k]
  BY <1>2, <1>3
<1>5. ASSUME NEW k \in Nodes, \A j \in Nodes : rank[j] < rank[k] => j \in P PROVE k \in P
  <2>1. CASE heap[k].kind # "wrapper"
    <3>1. Chain[k] = Follow[k]
      BY <2>1, ChainIs
    <3> QED BY <2>1, <3>1, FollowFacts
  <2>2. CASE heap[k].kind = "wrapper"
    <3>1. PICK s, b : s = heap[k].source /\ b = heap[k].branch
      OBVIOUS
    <3>2. s \in Nodes /\ b \in Nodes /\ Below(k) = {s, b} /\ ~Api(k)
      BY <2>2, <3>1, NodesAre DEF Shaped, Below, Api
    <3>3. Good(s) /\ Good(b)
      <4>1. rank[s] < rank[k] /\ rank[b] < rank[k]
        BY <1>2, <1>4, <3>2
      <4> QED BY <1>5, <3>2, <4>1
    <3>4. /\ Chain[s] \in Seq(Nodes) /\ Elems(Chain[s]) \subseteq Under[s] /\ LedIn(Chain[s], Region[s])
          /\ Chain[b] \in Seq(Nodes) /\ Elems(Chain[b]) \subseteq Under[b] /\ LedIn(Chain[b], Region[b])
      BY <3>2, <3>3, SpellsUnder DEF Spells
    <3>5. PICK A : A = Region[s] \cup Region[b]
      OBVIOUS
    <3>6. LedIn(Chain[s], A) /\ LedIn(Chain[b], A)
      BY <3>4, <3>5, LedMono
    <3>7. ASSUME NEW u \in Seq(Nodes), NEW v \in Seq(Nodes), {u, v} = {Chain[s], Chain[b]}
          PROVE  Good(k) \/ Chain[k] # <<k>> \o (u \o v)
      <4>1. u \o v \in Seq(Nodes) /\ Elems(u \o v) \subseteq Under[s] \cup Under[b]
        <5>1. u \o v \in Seq(Nodes)
          BY ConcatIs
        <5>2. Elems(u \o v) = Elems(u) \cup Elems(v)
          BY ElemsConcat
        <5>3. u \in {Chain[s], Chain[b]} /\ v \in {Chain[s], Chain[b]}
          BY <3>7
        <5>4. \A w \in {Chain[s], Chain[b]} : Elems(w) \subseteq Under[s] \cup Under[b]
          BY <3>4
        <5> QED BY <5>1, <5>2, <5>3, <5>4
      <4>2. LedIn(u \o v, A)
        <5>1. LedIn(u, A) /\ LedIn(v, A)
          BY <3>6, <3>7
        <5> QED BY <5>1, LedConcat
      <4>3. Spells(<<k>> \o (u \o v), k)
        BY <3>1, <3>2, <3>5, <4>1, <4>2, SpellsCons
      <4>4. Unfolded(u \o v, s) /\ Unfolded(u \o v, b)
        <5>1. Unfolded(u, s) \/ Unfolded(v, s)
          BY <3>3, <3>7
        <5>2. Unfolded(u, b) \/ Unfolded(v, b)
          BY <3>3, <3>7
        <5> QED BY <5>1, <5>2, UnfoldConcat
      <4>5. Unfolded(<<k>> \o (u \o v), k)
        BY <3>2, <4>1, <4>4, UnfoldCons
      <4> QED BY <4>3, <4>5
    <3>8. \/ Chain[k] = <<k>> \o (Chain[b] \o Chain[s])
          \/ Chain[k] = <<k>> \o (Chain[s] \o Chain[b])
      BY <2>2, <3>1, ChainIs
    <3>9. {Chain[b], Chain[s]} = {Chain[s], Chain[b]}
      OBVIOUS
    <3> HIDE DEF Good
    <3>10. Good(k)
      BY <3>4, <3>7, <3>8, <3>9
    <3> QED BY <3>10
  <2> QED BY <2>1, <2>2
<1> HIDE DEF P
<1>6. \A k \in Nodes : k \in P
  BY <1>4, <1>5, RankInduction
<1> QED BY <1>6 DEF P

-----------------------------------------------------------------------------
(* What collecting starts from. *)

\* Only what is built as an ApiError has a code, and one of the program's.
CodesInv == \A n \in Nodes : Api(n) => heap[n].code \in Codes

LEMMA CodesStep == HeapInv /\ CodesInv /\ [Next]_vars => CodesInv'
<1> SUFFICES ASSUME HeapInv, CodesInv, [Next]_vars PROVE CodesInv'
  OBVIOUS
<1>0. heap \in Seq(Records) /\ Len(heap) \in Nat /\ free \subseteq Nodes /\ Nodes = 1 .. Len(heap)
  BY NodesAre DEF HeapInv
<1>1. CASE UNCHANGED building
  BY <1>1 DEF building, CodesInv, Nodes, Api
<1>2. ASSUME NEW node \in Records, NEW moved, New(node, moved), node.kind = "api" => node.code \in Codes
      PROVE  CodesInv'
  <2>1. PICK new : new = Len(heap) + 1
    OBVIOUS
  <2>2. /\ Nodes' = Nodes \cup {new} /\ heap'[new] = node
        /\ \A n \in Nodes : heap'[n] = heap[n]
    BY <1>0, <1>2, <2>1 DEF New, Nodes
  <2> QED BY <1>2, <2>2 DEF CodesInv, Api
<1>3. CASE NewForeign
  <2>1. PICK t \in Texts \cup {Blank} : New(Foreign(t, 0), {}) \/ \E c \in free : New(Foreign(t, c), {c})
    BY <1>3 DEF NewForeign
  <2>2. \A c \in free \cup {0} : Foreign(t, c) \in Records /\ Foreign(t, c).kind # "api"
    <3>1. \A c \in free \cup {0} : c \in 0 .. MaxNodes /\ 0 \in 0 .. MaxNodes
      BY <1>0, BoundIsNat DEF HeapInv
    <3> QED BY <3>1 DEF Foreign, Records
  <2>3. CASE New(Foreign(t, 0), {})
    BY <1>2, <2>2, <2>3
  <2>4. ASSUME NEW c \in free, New(Foreign(t, c), {c}) PROVE CodesInv'
    BY <1>2, <2>2, <2>4
  <2> QED BY <2>1, <2>3, <2>4
<1>4. CASE NewError
  <2>1. PICK c \in Codes, t \in Texts \cup {Blank} : New(Error(c, t, 0), {})
    BY <1>4 DEF NewError
  <2>2. Error(c, t, 0) \in Records /\ Error(c, t, 0).code = c
    BY BoundIsNat DEF Error, Records
  <2> QED BY <1>2, <2>1, <2>2
<1>5. ASSUME NEW e \in free, Clone(e) PROVE CodesInv'
  <2>1. e \in Nodes /\ New(heap[e], {}) /\ heap[e] \in Records
    BY <1>0, <1>5 DEF Clone
  <2>2. heap[e].kind = "api" => heap[e].code \in Codes
    BY <2>1 DEF CodesInv, Api
  <2> QED BY <1>2, <2>1, <2>2
<1>6. ASSUME NEW e \in free, MapCode(e) PROVE CodesInv'
  <2>1. PICK c \in Codes : heap' = [heap EXCEPT ![e].code = c]
    BY <1>6 DEF MapCode
  <2>2. e \in Nodes /\ heap[e] \in Records
    BY <1>0
  <2>3. heap'[e].code = c /\ Nodes' = Nodes /\ \A n \in Nodes \ {e} : heap'[n] = heap[n]
    BY <1>0, <2>1, <2>2 DEF Nodes, Records
  <2> QED BY <2>2, <2>3 DEF CodesInv, Api
<1>7. ASSUME NEW e \in free, NEW s \in free, WithSource(e, s) PROVE CodesInv'
  <2>1. PICK w, old : w = Len(heap) + 1 /\ old = heap[e].source
    OBVIOUS
  <2>2. e \in Nodes /\ heap[e] \in Records
    BY <1>0
  <2>3. CASE heap' = [heap EXCEPT ![e].source = s]
    <3>1. /\ Nodes' = Nodes /\ heap'[e].code = heap[e].code /\ heap'[e].kind = heap[e].kind
          /\ \A n \in Nodes \ {e} : heap'[n] = heap[n]
      BY <1>0, <2>2, <2>3 DEF Nodes, Records
    <3> QED BY <2>2, <3>1 DEF CodesInv, Api
  <2>4. CASE Len(heap) < MaxNodes /\ heap' = Append([heap EXCEPT ![e].source = w], Wrapper(s, old))
    <3>1. PICK h : h = [heap EXCEPT ![e].source = w]
      OBVIOUS
    <3>2. /\ DOMAIN h = 1 .. Len(heap) /\ h[e].code = heap[e].code /\ h[e].kind = heap[e].kind
          /\ \A n \in Nodes \ {e} : h[n] = heap[n]
      BY <1>0, <2>2, <3>1 DEF Nodes, Records
    <3>3. h \in Seq(Records) /\ Len(h) = Len(heap)
      <4>1. [heap[e] EXCEPT !.source = w] \in Records
        <5>1. w \in 0 .. MaxNodes
          BY <1>0, <2>1, <2>4, BoundIsNat
        <5> QED BY <2>2, <5>1 DEF Records
      <4> QED BY <1>0, <2>2, <3>1, <4>1
    <3>4. heap' = Append(h, Wrapper(s, old))
      BY <2>4, <3>1
    <3>5. /\ Nodes' = Nodes \cup {w} /\ heap'[w] = Wrapper(s, old)
          /\ \A n \in Nodes : heap'[n] = h[n]
      BY <1>0, <2>1, <3>3, <3>4 DEF Nodes
    <3>6. Wrapper(s, old).kind # "api"
      BY DEF Wrapper
    <3> QED BY <2>2, <3>2, <3>5, <3>6 DEF CodesInv, Api
  <2> QED BY <1>7, <2>1, <2>3, <2>4 DEF WithSource
<1> QED BY <1>1, <1>3, <1>4, <1>5, <1>6, <1>7, NextIs DEF Building, vars, building

LEMMA Frozen ==
  ASSUME UNCHANGED building
  PROVE  /\ Nodes' = Nodes /\ heap' = heap
         /\ Under' = Under /\ Region' = Region /\ Chain' = Chain /\ Display' = Display
         /\ \A n : HangsOff(n)' = HangsOff(n)
<1>1. heap' = heap /\ order' = order /\ Nodes' = Nodes
  BY DEF building, Nodes
<1>2. Under' = Under /\ Region' = Region
  BY <1>1 DEF Under, Region, Nodes, Api
<1>3. Chain' = Chain
  BY <1>1 DEF Chain, Follow, Nodes
<1>4. Display' = Display
  BY <1>1 DEF Display, RawMessage, Nodes
<1>5. \A n : HangsOff(n)' = HangsOff(n)
  BY <1>1, <1>2 DEF HangsOff, Api
<1> QED BY <1>1, <1>2, <1>3, <1>4, <1>5

LEMMA BuildingIsBefore ==
  ASSUME Building
  PROVE  typed = Blank /\ UNCHANGED <<order, typed, verbose, root, frames, output, seen>>
BY DEF Building, NewForeign, NewError, Clone, MapCode, WithSource, New

Entries == [id : Nodes, message : Seq(Texts \cup {Internal})]

CollectTypes ==
  /\ order \in Orders /\ typed \in Callers \cup {Blank} /\ verbose \in BOOLEAN
  /\ seen \subseteq Nodes /\ root \in Nodes \cup {0}
  /\ frames \in Seq(Seq(Nodes))
  /\ output \in Seq(Entries)
  /\ typed = Blank => root = 0 /\ frames = <<>> /\ output = <<>> /\ seen = {}
  /\ typed # Blank => root # 0 /\ heap[root].kind # "wrapper"

\* The chains that are being read.
Pending == Elems(frames)

\* A step reads h in one of them, t is left of it, and the others are in T.
Reads(h, t, T) ==
  /\ h \in Nodes /\ t \in Seq(Nodes) /\ T \in SUBSET Seq(Nodes)
  /\ <<h>> \o t \in Seq(Nodes) /\ Pending = {<<h>> \o t} \cup T

Lists(h, t, T) ==
  /\ Matched(h) /\ h \notin seen
  /\ seen' = seen \cup {h} /\ output' = Append(output, Entry(h))
  /\ Pending' = {t} \cup T \cup (IF heap[h].source = 0 THEN {} ELSE {Chain[heap[h].source]})

Skips(h, t, T) == Matched(h) /\ h \in seen /\ Pending' = {t} \cup T /\ UNCHANGED <<output, seen>>

Folds(h, t, T) ==
  /\ ~Matched(h)
  /\ IF Foldable(h) THEN Fold(Display[h]) ELSE UNCHANGED output
  /\ Pending' = {t} \cup T /\ UNCHANGED seen

Loops ==
  \E h, t, T : Reads(h, t, T) /\ (Lists(h, t, T) \/ Skips(h, t, T) \/ Folds(h, t, T))

Ends == \E T : Pending = {<<>>} \cup T /\ Pending' = T /\ UNCHANGED <<output, seen>>

LEMMA EntryIs ==
  ASSUME HeapInv, CollectTypes, NEW n \in Nodes
  PROVE  /\ Entry(n) \in Entries /\ Entry(n).id = n
         /\ ~verbose => Entry(n).message = RawMessage(n)
<1>1. RawMessage(n) \in Seq(Texts \cup {Internal})
  <2>1. RawMessage(n) \in Seq(Texts)
    BY DisplayIs
  <2> QED BY <2>1
<1>2. SourceText(n) \in Seq(Texts \cup {Internal})
  <2>1. heap[n].source \in Nodes \cup {0}
    BY NodesAre
  <2>2. Display \in [Nodes -> Seq(Texts \cup {Internal})]
    BY DisplayIs
  <2>3. CASE heap[n].source = 0
    BY <2>3 DEF SourceText
  <2>4. CASE heap[n].source # 0
    BY <2>1, <2>2, <2>4 DEF SourceText
  <2> QED BY <2>3, <2>4
<1>3. RawMessage(n) \o SourceText(n) \in Seq(Texts \cup {Internal})
  BY <1>1, <1>2
<1> QED BY <1>1, <1>3 DEF Entry, Entries

LEMMA LoopReads ==
  ASSUME HeapInv, CollectTypes, ListError \/ SkipSeen \/ FoldForeign
  PROVE  frames' \in Seq(Seq(Nodes)) /\ Loops
<1>1. /\ frames \in Seq(Seq(Nodes)) /\ frames # <<>> /\ Rest # <<>>
  BY DEF CollectTypes, ListError, SkipSeen, FoldForeign, Active
<1>2. PICK r, o : r = Rest /\ o = Tail(frames)
  OBVIOUS
<1>3. r \in Seq(Nodes) /\ o \in Seq(Seq(Nodes)) /\ frames = <<r>> \o o
  BY <1>1, <1>2, HeadAndTail DEF Rest
<1>4. PICK h, t : h = Head(r) /\ t = Tail(r)
  OBVIOUS
<1>5. h \in Nodes /\ t \in Seq(Nodes) /\ r = <<h>> \o t
  BY <1>1, <1>2, <1>3, <1>4, HeadAndTail
<1>6. Here = h /\ Advance = <<t>> \o o
  BY <1>2, <1>4 DEF Here, Rest, Advance
<1>7. PICK a : a = <<t>> \o o
  OBVIOUS
<1>8. a \in Seq(Seq(Nodes)) /\ Elems(a) = {t} \cup Elems(o) /\ Elems(frames) = {r} \cup Elems(o)
  <2>1. a \in Seq(Seq(Nodes))
    BY <1>3, <1>5, <1>7, ConsIs
  <2>2. Elems(a) = {t} \cup Elems(o)
    BY <1>3, <1>5, <1>7, ElemsCons
  <2>3. Elems(frames) = {r} \cup Elems(o)
    BY <1>3, ElemsCons
  <2> QED BY <2>1, <2>2, <2>3
<1>9. ASSUME NEW c \in Seq(Nodes)
      PROVE  <<c>> \o a \in Seq(Seq(Nodes)) /\ Elems(<<c>> \o a) = {c} \cup {t} \cup Elems(o)
  BY <1>8, ConsIs, ElemsCons
<1>10. Elems(o) \in SUBSET Seq(Nodes)
  BY <1>3 DEF Elems
<1>11. Reads(h, t, Elems(o))
  BY <1>5, <1>3, <1>8, <1>10 DEF Reads, Pending
<1>12. CASE ListError
  <2>1. /\ Matched(h) /\ h \notin seen /\ seen' = seen \cup {h} /\ output' = Append(output, Entry(h))
        /\ frames' = IF heap[h].source = 0 THEN a ELSE <<Chain[heap[h].source]>> \o a
    BY <1>6, <1>7, <1>12 DEF ListError
  <2>2. heap[h].source # 0 => Chain[heap[h].source] \in Seq(Nodes)
    BY <1>5, NodesAre, ChainIs
  <2>3. frames' \in Seq(Seq(Nodes))
    BY <1>8, <1>9, <2>1, <2>2
  <2>4. Elems(frames') = {t} \cup Elems(o) \cup (IF heap[h].source = 0 THEN {} ELSE {Chain[heap[h].source]})
    <3>1. CASE heap[h].source = 0
      BY <1>8, <2>1, <3>1
    <3>2. CASE heap[h].source # 0
      BY <1>9, <2>1, <2>2, <3>2
    <3> QED BY <3>1, <3>2
  <2>5. Lists(h, t, Elems(o))
    BY <2>1, <2>4 DEF Lists, Pending
  <2> QED BY <1>11, <2>3, <2>5 DEF Loops
<1>13. CASE SkipSeen
  <2>1. Matched(h) /\ h \in seen /\ frames' = a /\ UNCHANGED <<output, seen>>
    BY <1>6, <1>7, <1>13 DEF SkipSeen
  <2>2. Skips(h, t, Elems(o))
    BY <1>8, <2>1 DEF Skips, Pending
  <2> QED BY <1>8, <1>11, <2>1, <2>2 DEF Loops
<1>14. CASE FoldForeign
  <2>1. /\ ~Matched(h) /\ frames' = a /\ UNCHANGED seen
        /\ IF Foldable(h) THEN Fold(Display[h]) ELSE UNCHANGED output
    BY <1>6, <1>7, <1>14 DEF FoldForeign
  <2>2. Folds(h, t, Elems(o))
    BY <1>8, <2>1 DEF Folds, Pending
  <2> QED BY <1>8, <1>11, <2>1, <2>2 DEF Loops
<1> QED BY <1>12, <1>13, <1>14

LEMMA LoopEnds ==
  ASSUME CollectTypes, EndLoop
  PROVE  frames' \in Seq(Seq(Nodes)) /\ Ends
<1>1. /\ frames \in Seq(Seq(Nodes)) /\ frames # <<>> /\ Head(frames) = <<>> /\ frames' = Tail(frames)
      /\ UNCHANGED <<output, seen>>
  BY DEF CollectTypes, EndLoop, Active, Rest
<1>2. PICK o : o = Tail(frames)
  OBVIOUS
<1>3. o \in Seq(Seq(Nodes)) /\ frames = <<Head(frames)>> \o o
  BY <1>1, <1>2, HeadAndTail
<1>4. <<>> \in Seq(Nodes) /\ frames = << <<>> >> \o o
  BY <1>1, <1>3
<1>5. Elems(frames) = {<<>>} \cup Elems(o)
  BY <1>3, <1>4, ElemsCons
<1> QED BY <1>1, <1>2, <1>3, <1>5 DEF Ends, Pending

\* What is folded is appended to the last entry, and only its message changes.
LEMMA FoldIs ==
  ASSUME HeapInv, CollectTypes, NEW n \in Nodes,
         IF Foldable(n) THEN Fold(Display[n]) ELSE UNCHANGED output
  PROVE  /\ output' \in Seq(Entries) /\ DOMAIN output' = DOMAIN output
         /\ \A i \in DOMAIN output :
              /\ output'[i].id = output[i].id
              /\ \/ output'[i].message = output[i].message
                 \/ Foldable(n) /\ output'[i].message = output[i].message \o Display[n]
         /\ Foldable(n) => LET last == Len(output) IN
              /\ last \in DOMAIN output
              /\ \/ Contains(output[last].message, Display[n]) /\ output' = output
                 \/ output'[last].message = output[last].message \o Display[n]
<1>1. output \in Seq(Entries) /\ Len(output) \in Nat /\ DOMAIN output = 1 .. Len(output)
  BY DEF CollectTypes
<1>2. CASE output' = output /\ ~Foldable(n)
  BY <1>1, <1>2
<1>3. CASE Foldable(n)
  <2>1. output # <<>>
    BY <1>3 DEF Foldable
  <2>2. PICK last : last = Len(output)
    OBVIOUS
  <2>3. last \in DOMAIN output
    BY <1>1, <2>1, <2>2
  <2>4. output' = IF Contains(output[last].message, Display[n]) THEN output
                  ELSE [output EXCEPT ![last].message = @ \o Display[n]]
    BY <1>3, <2>2 DEF Fold
  <2>5. CASE output' = output /\ Contains(output[last].message, Display[n])
    BY <1>1, <1>3, <2>2, <2>3, <2>5
  <2>6. CASE output' = [output EXCEPT ![last].message = @ \o Display[n]]
    <3>1. PICK d : d = Display[n]
      OBVIOUS
    <3>2. d \in Seq(Texts \cup {Internal})
      BY <3>1, DisplayIs
    <3>3. output[last] \in Entries
      BY <1>1, <2>3
    <3>4. PICK e : e = [output[last] EXCEPT !.message = @ \o d]
      OBVIOUS
    <3>5. output[last].message \in Seq(Texts \cup {Internal}) /\ output[last].id \in Nodes
      BY <3>3 DEF Entries
    <3>6. output[last].message \o d \in Seq(Texts \cup {Internal})
      BY <3>2, <3>5
    <3>7. e \in Entries /\ e.id = output[last].id /\ e.message = output[last].message \o d
      BY <3>3, <3>4, <3>5, <3>6 DEF Entries
    <3>8. output' = [output EXCEPT ![last] = e]
      BY <2>6, <3>1, <3>4
    <3>9. /\ output' \in Seq(Entries) /\ DOMAIN output' = DOMAIN output /\ output'[last] = e
          /\ \A i \in DOMAIN output \ {last} : output'[i] = output[i]
      BY <1>1, <2>3, <3>7, <3>8
    <3> QED BY <1>3, <2>2, <2>3, <3>1, <3>7, <3>9
  <2> QED BY <2>4, <2>5, <2>6
<1> QED BY <1>2, <1>3

\* Collecting begins with the error itself listed and its causes to be read,
\* or with nothing listed and a whole report to be read.
Begins ==
  /\ typed = Blank /\ typed' # Blank /\ root' \in Nodes /\ heap[root'].kind # "wrapper"
  /\ frames' \in Seq(Seq(Nodes)) /\ seen' = {}
  /\ \/ /\ Api(root') /\ output' = <<Entry(root')>>
        /\ Pending' = {IF heap[root'].source = 0 THEN <<>> ELSE Chain[heap[root'].source]}
     \/ output' = <<>> /\ Pending' = {Chain[root']}

LEMMA CollectBegins ==
  ASSUME HeapInv, CollectTypes, NEW n \in free, CollectMessages(n) \/ ReportCollectMessages(n)
  PROVE  Begins /\ typed' \in Callers
<1>1. n \in Nodes /\ heap[n].kind # "wrapper"
  BY DEF HeapInv, Owned
<1>2. /\ typed = Blank /\ typed' \in Callers /\ root' = n /\ seen' = {} /\ output = <<>>
  BY DEF CollectTypes, CollectMessages, ReportCollectMessages
<1>3. \A c \in Seq(Nodes) : <<c>> \in Seq(Seq(Nodes)) /\ Elems(<<c>>) = {c}
  <2> SUFFICES ASSUME NEW c \in Seq(Nodes) PROVE <<c>> \in Seq(Seq(Nodes)) /\ Elems(<<c>>) = {c}
    OBVIOUS
  <2>1. DOMAIN <<c>> = {1} /\ <<c>>[1] = c
    OBVIOUS
  <2> QED BY <2>1 DEF Elems
<1>4. CASE CollectMessages(n)
  <2>1. PICK c : c = IF heap[n].source = 0 THEN <<>> ELSE Chain[heap[n].source]
    OBVIOUS
  <2>2. c \in Seq(Nodes)
    <3>1. heap[n].source # 0 => Chain[heap[n].source] \in Seq(Nodes)
      BY <1>1, NodesAre, ChainIs
    <3> QED BY <2>1, <3>1
  <2>3. Api(n) /\ output' = <<Entry(n)>> /\ frames' = <<c>>
    BY <1>4, <2>1 DEF CollectMessages, ChainOf
  <2> QED BY <1>1, <1>2, <1>3, <2>1, <2>2, <2>3, BlankIsNoCode DEF Begins, Pending
<1>5. CASE ReportCollectMessages(n)
  <2>1. Chain[n] \in Seq(Nodes)
    BY <1>1, ChainIs
  <2>2. output' = <<>> /\ frames' = <<Chain[n]>>
    BY <1>2, <1>5 DEF ReportCollectMessages
  <2> QED BY <1>1, <1>2, <1>3, <2>1, <2>2, BlankIsNoCode DEF Begins, Pending
<1> QED BY <1>4, <1>5

\* What a step of collecting does, whichever it is.
Collects ==
  \/ Begins
  \/ /\ Loops \/ Ends
     /\ typed # Blank /\ UNCHANGED <<typed, verbose, root>>

LEMMA CollectSteps ==
  ASSUME HeapInv, CollectTypes, Collecting
  PROVE  /\ Collects /\ frames' \in Seq(Seq(Nodes))
         /\ verbose' \in BOOLEAN /\ typed' \in Callers \cup {Blank}
<1>1. ASSUME NEW n \in free, CollectMessages(n) \/ ReportCollectMessages(n)
      PROVE  Begins /\ typed' \in Callers /\ verbose' \in BOOLEAN
  BY <1>1, CollectBegins DEF CollectTypes, CollectMessages, ReportCollectMessages
<1>2. CASE ListError \/ SkipSeen \/ FoldForeign \/ EndLoop
  <2>1. frames # <<>> /\ UNCHANGED <<typed, verbose, root>>
    BY <1>2 DEF ListError, SkipSeen, FoldForeign, EndLoop, Active
  <2>2. typed # Blank
    BY <2>1 DEF CollectTypes
  <2>3. frames' \in Seq(Seq(Nodes)) /\ (Loops \/ Ends)
    BY <1>2, LoopReads, LoopEnds
  <2> QED BY <2>1, <2>2, <2>3 DEF Collects, CollectTypes
<1> QED BY <1>1, <1>2 DEF Collecting, Collects, Begins

LEMMA OutputGrows ==
  ASSUME HeapInv, CollectTypes, Collects
  PROVE  output' \in Seq(Entries) /\ seen' \subseteq Nodes
<1>1. output \in Seq(Entries) /\ seen \subseteq Nodes
  BY DEF CollectTypes
<1>2. CASE Begins
  <2>1. Entry(root') \in Entries
    <3>1. \A n \in Nodes : Entry(n) \in Entries
      BY EntryIs
    <3> QED BY <1>2, <3>1 DEF Begins
  <2>2. PICK e : e = Entry(root')
    OBVIOUS
  <2>3. (output' = <<e>> \/ output' = <<>>) /\ seen' = {}
    BY <1>2, <2>2 DEF Begins
  <2>4. <<e>> \in Seq(Entries) /\ <<>> \in Seq(Entries)
    BY <2>1, <2>2
  <2> QED BY <2>3, <2>4
<1>3. CASE Loops
  <2>1. PICK h, t, T : Reads(h, t, T) /\ (Lists(h, t, T) \/ Skips(h, t, T) \/ Folds(h, t, T))
    BY <1>3 DEF Loops
  <2>2. h \in Nodes /\ Entry(h) \in Entries
    BY <2>1, EntryIs DEF Reads
  <2>3. CASE Lists(h, t, T)
    BY <1>1, <2>2, <2>3 DEF Lists
  <2>4. CASE Skips(h, t, T)
    BY <1>1, <2>4 DEF Skips
  <2>5. CASE Folds(h, t, T)
    BY <1>1, <2>2, <2>5, FoldIs DEF Folds
  <2> QED BY <2>1, <2>3, <2>4, <2>5
<1>4. CASE Ends
  BY <1>1, <1>4 DEF Ends
<1> QED BY <1>2, <1>3, <1>4 DEF Collects

Base == HeapInv /\ CodesInv /\ CollectTypes

LEMMA InitBase == Init => Base
<1> SUFFICES ASSUME Init PROVE Base
  OBVIOUS
<1>1. Nodes = {}
  BY DEF Init, Nodes
<1>2. CodesInv
  BY <1>1 DEF CodesInv
<1>3. CollectTypes
  <2>1. frames \in Seq(Seq(Nodes)) /\ output \in Seq(Entries)
    BY DEF Init
  <2> QED BY <2>1 DEF Init, CollectTypes
<1> QED BY <1>2, <1>3, InitHeap DEF Base

LEMMA BaseStep == Base /\ [Next]_vars => Base'
<1> SUFFICES ASSUME Base, [Next]_vars PROVE Base'
  OBVIOUS
<1>1. HeapInv' /\ CodesInv'
  BY HeapStep, CodesStep DEF Base
<1>2. CASE Building
  <2>1. typed = Blank /\ UNCHANGED <<order, typed, verbose, root, frames, output, seen>>
    BY <1>2, BuildingIsBefore
  <2>2. root = 0 /\ frames = <<>> /\ output = <<>> /\ seen = {}
    BY <2>1 DEF Base, CollectTypes
  <2>3. CollectTypes'
    BY <2>1, <2>2 DEF Base, CollectTypes
  <2> QED BY <1>1, <2>3 DEF Base
<1>3. CASE UNCHANGED vars
  <2>1. CollectTypes'
    BY <1>3 DEF vars, Base, CollectTypes, Nodes, Entries
  <2> QED BY <1>1, <2>1 DEF Base
<1>4. CASE Collecting /\ UNCHANGED building
  <2>1. HeapInv /\ CollectTypes
    BY DEF Base
  <2>2. /\ Collects /\ frames' \in Seq(Seq(Nodes))
        /\ verbose' \in BOOLEAN /\ typed' \in Callers \cup {Blank}
    BY <1>4, <2>1, CollectSteps
  <2>3. output' \in Seq(Entries) /\ seen' \subseteq Nodes
    BY <2>1, <2>2, OutputGrows
  <2>4. Nodes' = Nodes /\ heap' = heap /\ order' = order /\ Entries' = Entries
    BY <1>4, Frozen DEF building, Entries
  <2>5. /\ typed' # Blank /\ root' \in Nodes /\ root' # 0 /\ heap[root'].kind # "wrapper"
    <3>1. CASE Begins
      BY <2>1, <3>1, NodesAre DEF Begins
    <3>2. CASE typed # Blank /\ UNCHANGED <<typed, verbose, root>>
      BY <2>1, <3>2 DEF CollectTypes
    <3> QED BY <2>2, <3>1, <3>2 DEF Collects
  <2>6. CollectTypes'
    <3>1. order \in Orders
      BY <2>1 DEF CollectTypes
    <3> QED BY <2>2, <2>3, <2>4, <2>5, <3>1 DEF CollectTypes
  <2> QED BY <1>1, <2>6 DEF Base
<1> QED BY <1>2, <1>3, <1>4, NextIs

LEMMA BaseAlways == Spec => []Base
BY InitBase, BaseStep, PTL DEF Spec

(* Every entry is of an error there is, with texts that were given.        *)
THEOREM TypeCorrect == Spec => []TypeOK
<1>1. Base => TypeOK
  BY DEF Base, HeapInv, CollectTypes, TypeOK, Records, Entries
<1> QED BY <1>1, BaseAlways, PTL

-----------------------------------------------------------------------------
(* What is listed, and how often. *)

\* What has been listed is under the root and is not listed again: it has been
\* seen, or it is the root, which is not read any more.
Distinct ==
  /\ \A i, j \in DOMAIN output : output[i].id = output[j].id => i = j
  /\ seen \subseteq Ids /\ Ids \subseteq seen \cup {root}
  /\ \A n \in Ids : n \in Under[root] /\ Api(n)
  /\ \A f \in Pending : Elems(f) \subseteq Under[root]
  /\ root \in Ids \ seen => \A f \in Pending : root \notin Elems(f)

LEMMA AppendIs ==
  ASSUME HeapInv, CollectTypes, NEW h \in Nodes, output' = Append(output, Entry(h))
  PROVE  /\ Ids' = Ids \cup {h} /\ Len(output) \in Nat
         /\ DOMAIN output = 1 .. Len(output) /\ DOMAIN output' = 1 .. Len(output) + 1
         /\ \A i \in 1 .. Len(output) : output'[i] = output[i]
         /\ output'[Len(output) + 1] = Entry(h) /\ Entry(h).id = h
<1>1. PICK e, k : e = Entry(h) /\ k = Len(output)
  OBVIOUS
<1>2. e \in Entries /\ e.id = h
  BY <1>1, EntryIs
<1>3. /\ k \in Nat /\ DOMAIN output = 1 .. k /\ DOMAIN output' = 1 .. k + 1
      /\ \A i \in 1 .. k : output'[i] = output[i]
      /\ output'[k + 1] = e
  BY <1>1, <1>2 DEF CollectTypes
<1>4. 1 .. k + 1 = 1 .. k \cup {k + 1}
  BY <1>3
<1>5. Ids' = Ids \cup {h}
  <2>1. \A i \in 1 .. k : output'[i].id = output[i].id
    BY <1>3
  <2>2. Ids = {output[i].id : i \in 1 .. k} /\ Ids' = {output'[i].id : i \in 1 .. k + 1}
    BY <1>3 DEF Ids
  <2>3. {output'[i].id : i \in 1 .. k + 1} = {output'[i].id : i \in 1 .. k} \cup {output'[k + 1].id}
    BY <1>4
  <2>4. {output'[i].id : i \in 1 .. k} = {output[i].id : i \in 1 .. k}
    BY <2>1
  <2> QED BY <1>2, <1>3, <2>2, <2>3, <2>4
<1> QED BY <1>1, <1>2, <1>3, <1>5

LEMMA FoldKeepsIds ==
  ASSUME HeapInv, CollectTypes, NEW h \in Nodes, NEW t, NEW T, Folds(h, t, T)
  PROVE  /\ Ids' = Ids /\ DOMAIN output' = DOMAIN output
         /\ \A i \in DOMAIN output : output'[i].id = output[i].id
<1>1. DOMAIN output' = DOMAIN output /\ \A i \in DOMAIN output : output'[i].id = output[i].id
  BY FoldIs DEF Folds
<1> QED BY <1>1 DEF Ids

LEMMA BeginIds ==
  ASSUME HeapInv, CollectTypes, Begins
  PROVE  \/ Ids' = {root'} /\ DOMAIN output' = {1} /\ output'[1] = Entry(root') /\ output'[1].id = root'
         \/ Ids' = {} /\ DOMAIN output' = {}
<1>1. PICK r, e : r = root' /\ e = Entry(root')
  OBVIOUS
<1>2. r \in Nodes /\ e.id = r
  <2>1. \A n \in Nodes : Entry(n).id = n
    BY EntryIs
  <2> QED BY <1>1, <2>1 DEF Begins
<1>3. CASE output' = <<e>>
  <2>1. DOMAIN output' = {1} /\ output'[1] = e
    BY <1>3
  <2> QED BY <1>1, <1>2, <2>1 DEF Ids
<1>4. CASE output' = <<>>
  <2>1. DOMAIN output' = {}
    BY <1>4
  <2> QED BY <2>1 DEF Ids
<1> QED BY <1>1, <1>3, <1>4 DEF Begins

\* The causes of an error are under it, and it is under none of them.
LEMMA CausesBelow ==
  ASSUME HeapInv, NEW n \in Nodes, heap[n].source # 0
  PROVE  /\ Chain[heap[n].source] \in Seq(Nodes)
         /\ \A x \in Elems(Chain[heap[n].source]) : x \in Under[n] /\ n \notin Under[x]
<1>1. PICK s : s = heap[n].source
  OBVIOUS
<1>2. s \in Nodes /\ s \in Below(n)
  BY <1>1, NodesAre DEF Below
<1>3. Chain[s] \in Seq(Nodes) /\ Elems(Chain[s]) \subseteq Under[s]
  BY <1>2, ChainFacts, SpellsUnder
<1>4. Under[s] \subseteq Under[n]
  BY <1>1, UnderFacts
<1>5. ASSUME NEW x \in Under[s] PROVE n \notin Under[x]
  <2>1. Under[x] \subseteq Under[s]
    BY <1>2, UnderTransitive
  <2>2. n \notin Under[s]
    BY <1>2, Acyclic
  <2> QED BY <2>1, <2>2
<1> QED BY <1>1, <1>3, <1>4, <1>5

LEMMA ChainUnder ==
  ASSUME HeapInv, NEW n \in Nodes
  PROVE  Chain[n] \in Seq(Nodes) /\ Chain[n] # <<>> /\ Head(Chain[n]) = n /\ Elems(Chain[n]) \subseteq Under[n]
BY ChainFacts, SpellsUnder

LEMMA DistinctBegins ==
  ASSUME HeapInv, CollectTypes, Begins, UNCHANGED building
  PROVE  Distinct'
<1>1. PICK r : r = root'
  OBVIOUS
<1>2. r \in Nodes /\ r \in Under[r]
  BY <1>1, UnderFacts DEF Begins
<1>3. Under' = Under /\ Nodes' = Nodes /\ heap' = heap
  BY Frozen
<1>4. \A i, j \in DOMAIN output' : output'[i].id = output'[j].id => i = j
  BY BeginIds
<1>5. CASE /\ Api(r) /\ output' = <<Entry(r)>>
           /\ Pending' = {IF heap[r].source = 0 THEN <<>> ELSE Chain[heap[r].source]}
  <2>1. ASSUME NEW f \in Pending' PROVE Elems(f) \subseteq Under[r] /\ r \notin Elems(f)
    <3>1. CASE f = <<>>
      BY <3>1 DEF Elems
    <3>2. CASE heap[r].source # 0 /\ f = Chain[heap[r].source]
      BY <1>2, <3>2, CausesBelow
    <3> QED BY <1>5, <3>1, <3>2
  <2>2. Ids' = {r}
    <3>1. DOMAIN output' = {1}
      BY <1>5
    <3> QED BY <1>1, <3>1, BeginIds
  <2>3. seen' = {} /\ Api(r)'
    BY <1>3, <1>5 DEF Begins, Api
  <2> QED BY <1>1, <1>2, <1>3, <1>4, <2>1, <2>2, <2>3 DEF Distinct
<1>6. CASE output' = <<>> /\ Pending' = {Chain[r]}
  <2>1. Elems(Chain[r]) \subseteq Under[r]
    BY <1>2, ChainUnder
  <2>2. Ids' = {} /\ seen' = {}
    <3>1. DOMAIN output' = {}
      BY <1>6
    <3> QED BY <3>1 DEF Ids, Begins
  <2> QED BY <1>1, <1>3, <1>4, <1>6, <2>1, <2>2 DEF Distinct
<1> QED BY <1>1, <1>5, <1>6 DEF Begins

LEMMA DistinctLoops ==
  ASSUME HeapInv, CollectTypes, typed # Blank, Distinct, Loops, UNCHANGED building, UNCHANGED root
  PROVE  Distinct'
<1>1. PICK h, t, T : Reads(h, t, T) /\ (Lists(h, t, T) \/ Skips(h, t, T) \/ Folds(h, t, T))
  BY DEF Loops
<1>2. PICK r : r = root
  OBVIOUS
<1>3. /\ h \in Nodes /\ t \in Seq(Nodes) /\ Pending = {<<h>> \o t} \cup T
      /\ Elems(<<h>> \o t) = {h} \cup Elems(t)
  BY <1>1, ElemsCons DEF Reads
<1>4. Under' = Under /\ Nodes' = Nodes /\ heap' = heap /\ root' = r
  BY <1>2, Frozen
<1>5. /\ \A f \in {t} \cup T : Elems(f) \subseteq Under[r] /\ (r \in Ids \ seen => r \notin Elems(f))
      /\ h \in Under[r] /\ (r \in Ids \ seen => r # h)
  BY <1>2, <1>3 DEF Distinct
<1>6. \A n \in Nodes : Api(n)' = Api(n)
  BY <1>4 DEF Api
<1>7. r \in Nodes
  BY <1>2 DEF CollectTypes
<1>8. CASE Lists(h, t, T)
  <2>1. /\ output' = Append(output, Entry(h)) /\ seen' = seen \cup {h} /\ h \notin seen /\ Api(h)
        /\ Pending' = {t} \cup T \cup (IF heap[h].source = 0 THEN {} ELSE {Chain[heap[h].source]})
    BY <1>8 DEF Lists, Matched
  <2>2. h \notin Ids
    BY <1>2, <1>5, <2>1 DEF Distinct
  <2>3. /\ Ids' = Ids \cup {h} /\ Len(output) \in Nat
        /\ DOMAIN output = 1 .. Len(output) /\ DOMAIN output' = 1 .. Len(output) + 1
        /\ \A i \in 1 .. Len(output) : output'[i] = output[i]
        /\ output'[Len(output) + 1].id = h
    BY <1>3, <2>1, AppendIs
  <2>4. ASSUME NEW i \in DOMAIN output', NEW j \in DOMAIN output', output'[i].id = output'[j].id PROVE i = j
    <3>1. \A k \in DOMAIN output : output'[k].id \in Ids /\ output'[k].id # h /\ output'[k] = output[k]
      BY <2>2, <2>3 DEF Ids
    <3>2. \A k \in DOMAIN output' : k \in DOMAIN output \/ k = Len(output) + 1
      BY <2>3
    <3> QED BY <2>3, <2>4, <3>1, <3>2 DEF Distinct
  <2>5. ASSUME NEW f \in Pending' PROVE Elems(f) \subseteq Under[r]
    <3>1. CASE f \in {t} \cup T
      BY <1>5, <3>1
    <3>2. CASE heap[h].source # 0 /\ f = Chain[heap[h].source]
      <4>1. Under[h] \subseteq Under[r]
        BY <1>5, <1>7, UnderTransitive
      <4> QED BY <1>3, <3>2, <4>1, CausesBelow
    <3> QED BY <2>1, <3>1, <3>2
  <2>6. ASSUME r \in Ids' \ seen', NEW f \in Pending' PROVE r \notin Elems(f)
    <3>1. r # h /\ r \in Ids \ seen
      BY <2>1, <2>3, <2>6
    <3>2. CASE f \in {t} \cup T
      BY <1>5, <3>1, <3>2
    <3>3. CASE heap[h].source # 0 /\ f = Chain[heap[h].source]
      BY <1>3, <1>5, <3>3, CausesBelow
    <3> QED BY <2>1, <3>2, <3>3
  <2>7. seen' \subseteq Ids' /\ Ids' \subseteq seen' \cup {r}
    BY <1>2, <2>1, <2>3 DEF Distinct
  <2>8. Ids \subseteq Nodes
    <3>1. \A i \in DOMAIN output : output[i] \in Entries
      BY DEF CollectTypes
    <3> QED BY <3>1 DEF Ids, Entries
  <2>9. \A n \in Ids' : n \in Under[r] /\ Api(n)'
    BY <1>2, <1>3, <1>5, <1>6, <2>1, <2>3, <2>8 DEF Distinct
  <2> QED BY <1>4, <2>4, <2>5, <2>6, <2>7, <2>9 DEF Distinct
<1>9. CASE Skips(h, t, T) \/ Folds(h, t, T)
  <2>1. /\ Ids' = Ids /\ DOMAIN output' = DOMAIN output
        /\ \A i \in DOMAIN output : output'[i].id = output[i].id
    <3>1. CASE Skips(h, t, T)
      BY <3>1 DEF Skips, Ids
    <3>2. CASE Folds(h, t, T)
      BY <1>3, <3>2, FoldKeepsIds
    <3> QED BY <1>9, <3>1, <3>2
  <2>2. Pending' = {t} \cup T /\ seen' = seen
    BY <1>9 DEF Skips, Folds
  <2>3. \A n \in Ids : n \in Under[r] /\ Api(n)'
    BY <1>2, <1>4 DEF Distinct, Api
  <2> QED BY <1>2, <1>4, <1>5, <2>1, <2>2, <2>3 DEF Distinct
<1> QED BY <1>1, <1>8, <1>9

LEMMA DistinctStep == Base /\ Distinct /\ [Next]_vars => Distinct'
<1> SUFFICES ASSUME Base, Distinct, [Next]_vars PROVE Distinct'
  OBVIOUS
<1>1. HeapInv /\ CollectTypes
  BY DEF Base
<1>2. CASE UNCHANGED vars
  <2>1. /\ Under' = Under /\ heap' = heap /\ output' = output /\ seen' = seen /\ root' = root
        /\ Pending' = Pending /\ Ids' = Ids
    BY <1>2, Frozen DEF vars, building, Pending, Ids
  <2>2. \A n \in Ids : Api(n)' = Api(n)
    BY <2>1 DEF Api
  <2> QED BY <2>1, <2>2 DEF Distinct
<1>3. CASE Building
  <2>1. output' = <<>> /\ frames' = <<>> /\ seen' = {}
    BY <1>1, <1>3, BuildingIsBefore DEF CollectTypes
  <2>2. DOMAIN output' = {} /\ DOMAIN frames' = {}
    BY <2>1
  <2>3. Ids' = {} /\ Pending' = {}
    BY <2>2 DEF Ids, Pending, Elems
  <2> QED BY <2>1, <2>2, <2>3 DEF Distinct
<1>4. CASE Collecting /\ UNCHANGED building
  <2>1. Collects
    BY <1>1, <1>4, CollectSteps
  <2>2. CASE Begins
    BY <1>1, <1>4, <2>2, DistinctBegins
  <2>3. CASE Loops /\ typed # Blank /\ UNCHANGED root
    BY <1>1, <1>4, <2>3, DistinctLoops
  <2>4. CASE Ends /\ UNCHANGED root
    <3>1. /\ output' = output /\ seen' = seen /\ Under' = Under /\ heap' = heap
          /\ Pending' \subseteq Pending /\ Ids' = Ids
      BY <1>4, <2>4, Frozen DEF Ends, Ids
    <3>2. \A n \in Ids : Api(n)' = Api(n)
      BY <3>1 DEF Api
    <3> QED BY <2>4, <3>1, <3>2 DEF Distinct
  <2> QED BY <2>1, <2>2, <2>3, <2>4 DEF Collects
<1> QED BY <1>2, <1>3, <1>4, NextIs

LEMMA InitDistinct == Init => Distinct
<1> SUFFICES ASSUME Init PROVE Distinct
  OBVIOUS
<1>1. output = <<>> /\ frames = <<>> /\ seen = {}
  BY DEF Init
<1>2. DOMAIN output = {} /\ DOMAIN frames = {}
  BY <1>1
<1>3. Ids = {} /\ Pending = {}
  BY <1>2 DEF Ids, Pending, Elems
<1> QED BY <1>1, <1>2, <1>3 DEF Distinct

LEMMA DistinctAlways == Spec => [](Base /\ Distinct)
BY InitBase, BaseStep, InitDistinct, DistinctStep, PTL DEF Spec

(* No error is listed twice, and none that is not of the chain, whatever   *)
(* is not recognised in it.                                                *)
THEOREM NothingListedTwice ==
  Spec => [](/\ Ids \subseteq {n \in Under[root] : Api(n)}
             /\ \A i, j \in DOMAIN output : output[i].id = output[j].id => i = j)
<1>1. Distinct => /\ Ids \subseteq {n \in Under[root] : Api(n)}
                  /\ \A i, j \in DOMAIN output : output[i].id = output[j].id => i = j
  BY DEF Distinct
<1> QED BY <1>1, DistinctAlways, PTL

-----------------------------------------------------------------------------
(* The order of what is listed. *)

\* Every error of the program has the code that is asked for or the default
\* one.  An error of another code is not recognised, and is read as a foreign
\* one would be.
KnownCodes == \A c \in Callers : Codes \subseteq {c, DefaultCode}

Lost(n) == Api(n) /\ ~Matched(n)

LEMMA AllMatched ==
  ASSUME KnownCodes, Base, typed # Blank, NEW n \in Nodes
  PROVE  Matched(n) <=> Api(n)
<1>1. typed \in Callers
  BY DEF Base, CollectTypes
<1>2. Api(n) => heap[n].code \in Codes
  BY DEF Base, CodesInv
<1> QED BY <1>1, <1>2 DEF KnownCodes, Matched

\* An error that hangs off an unrecognised one may be listed before the others
\* it is a cause of.
Obscured(x) == \E u \in HangsOff(x) \cap Under[root] : ~Matched(u)

InOrder ==
  \A i \in DOMAIN output :
    LET causeOf == HangsOff(output[i].id) \cap Under[root]
    IN  causeOf = {} \/ Obscured(output[i].id) \/ \E j \in 1 .. i - 1 : output[j].id \in causeOf

\* What may be listed next: an error that hangs off one that has been, or off
\* none that is to be listed.
Well == {x \in Nodes : HangsOff(x) \cap Under[root] = {} \/ Obscured(x) \/ HangsOff(x) \cap Ids # {}}

Led == InOrder /\ \A f \in Pending : LedIn(f, Well)

LEMMA MatchedFrozen ==
  ASSUME UNCHANGED building, UNCHANGED <<typed, root>>
  PROVE  \A n : /\ Matched(n)' = Matched(n) /\ Lost(n)' = Lost(n) /\ Obscured(n)' = Obscured(n)
<1>1. \A n : Matched(n)' = Matched(n) /\ Lost(n)' = Lost(n)
  BY Frozen DEF Matched, Lost, Api
<1>2. \A n : HangsOff(n)' = HangsOff(n)
  BY Frozen
<1>3. Under' = Under /\ root' = root
  BY Frozen
<1>4. \A n : Obscured(n)' = Obscured(n)
  BY <1>1, <1>2, <1>3 DEF Obscured
<1> QED BY <1>1, <1>4

LEMMA LedHead ==
  ASSUME NEW S, NEW s \in Seq(S), s # <<>>, NEW A, LedIn(s, A)
  PROVE  Head(s) \in A
<1>1. s[1] = Head(s) /\ 1 \in DOMAIN s /\ 1 .. 1 - 1 = {}
  BY HeadAndTail
<1> QED BY <1>1 DEF LedIn

LEMMA LedFrozen ==
  ASSUME UNCHANGED building, NEW s, NEW A
  PROVE  LedIn(s, A)' <=> LedIn(s, A)
<1>1. heap' = heap /\ Region' = Region
  BY Frozen
<1> QED BY <1>1 DEF LedIn, Api

\* What hangs off an error that is listed is well placed.
LEMMA ListedLeads ==
  ASSUME HeapInv, NEW h \in Nodes, Api(h), NEW I, h \in I
  PROVE  \A x \in Region[heap[h].source] : x \in Nodes /\ HangsOff(x) \cap I # {}
<1>1. heap[h].source \in Nodes \cup {0}
  BY NodesAre
<1>2. Region[heap[h].source] \subseteq Nodes
  BY <1>1, RegionIs
<1>3. \A x \in Region[heap[h].source] : h \in HangsOff(x)
  BY DEF HangsOff
<1> QED BY <1>2, <1>3

LEMMA LedBegins ==
  ASSUME HeapInv, CollectTypes, Begins, UNCHANGED building
  PROVE  Led'
<1>1. PICK r, W : r = root' /\ W = Well'
  OBVIOUS
<1>2. r \in Nodes /\ heap[r].kind # "wrapper"
  BY <1>1 DEF Begins
<1>3. Under' = Under /\ Nodes' = Nodes /\ heap' = heap /\ \A n : HangsOff(n)' = HangsOff(n)
  BY Frozen
<1>4. {x \in Nodes : HangsOff(x) \cap Under[r] = {} \/ HangsOff(x) \cap Ids' # {}} \subseteq W
  BY <1>1, <1>3 DEF Well
<1>5. r \in Region[r] /\ Region[r] \subseteq Nodes
  BY <1>2, RegionIs
<1>6. HangsOff(r) \cap Under[r] = {} /\ Region[r] \subseteq W
  BY <1>2, <1>4, <1>5, TopHangsOffNone
<1>7. \A i \in DOMAIN output' : HangsOff(output'[i].id) \cap Under[r] = {}
  <2>1. \A i \in DOMAIN output' : output'[i].id = r
    BY <1>1, BeginIds
  <2> QED BY <1>6, <2>1
<1>8. InOrder'
  <2>1. \A i \in DOMAIN output' : (HangsOff(output[i].id) \cap Under[root])' = HangsOff(output'[i].id) \cap Under[r]
    BY <1>1, <1>3
  <2> QED BY <1>7, <2>1 DEF InOrder
<1>9. ASSUME NEW f \in Pending' PROVE LedIn(f, W)
  <2>1. CASE f = <<>>
    BY <2>1 DEF LedIn
  <2>2. CASE f = Chain[r]
    <3>1. LedIn(f, Region[r])
      BY <1>2, <2>2, ChainFacts DEF Spells
    <3> QED BY <1>6, <3>1, LedMono
  <2>3. CASE Api(r) /\ r \in Ids' /\ heap[r].source # 0 /\ f = Chain[heap[r].source]
    <3>1. heap[r].source \in Nodes
      BY <1>2, <2>3, NodesAre
    <3>2. LedIn(f, Region[heap[r].source])
      BY <2>3, <3>1, ChainFacts DEF Spells
    <3>3. Region[heap[r].source] \subseteq W
      BY <1>2, <1>4, <2>3, ListedLeads
    <3> QED BY <3>2, <3>3, LedMono
  <2>4. Api(r) /\ output' = <<Entry(r)>> => r \in Ids'
    <3> SUFFICES ASSUME Api(r), output' = <<Entry(r)>> PROVE r \in Ids'
      OBVIOUS
    <3>1. DOMAIN output' # {}
      OBVIOUS
    <3> QED BY <1>1, <3>1, BeginIds
  <2> QED BY <1>1, <1>9, <2>1, <2>2, <2>3, <2>4 DEF Begins
<1>10. \A f \in Pending' : LedIn(f, W)'
  BY <1>9, LedFrozen
<1> QED BY <1>1, <1>8, <1>10 DEF Led

LEMMA LedLoops ==
  ASSUME Base, Distinct, Led, Loops, UNCHANGED building, UNCHANGED <<typed, root>>
  PROVE  Led'
<1>0. HeapInv /\ CollectTypes
  BY DEF Base
<1>1. PICK h, t, T : Reads(h, t, T) /\ (Lists(h, t, T) \/ Skips(h, t, T) \/ Folds(h, t, T))
  BY DEF Loops
<1>2. PICK r, V, W : r = root /\ V = Well /\ W = Well'
  OBVIOUS
<1>3. /\ Under' = Under /\ Nodes' = Nodes /\ heap' = heap /\ root' = r
      /\ \A n : HangsOff(n)' = HangsOff(n) /\ Obscured(n)' = Obscured(n)
  <2>1. Under' = Under /\ Nodes' = Nodes /\ heap' = heap /\ root' = r
    BY <1>2, Frozen
  <2>2. \A n : HangsOff(n)' = HangsOff(n)
    BY Frozen
  <2> QED BY <2>1, <2>2, MatchedFrozen
<1>4. /\ V = {x \in Nodes : HangsOff(x) \cap Under[r] = {} \/ Obscured(x) \/ HangsOff(x) \cap Ids # {}}
      /\ W = {x \in Nodes : HangsOff(x) \cap Under[r] = {} \/ Obscured(x) \/ HangsOff(x) \cap Ids' # {}}
  BY <1>2, <1>3 DEF Well
<1>5. h \in Nodes /\ Ids \subseteq Ids' /\ (Matched(h) => h \in Ids')
  <2>1. h \in Nodes
    BY <1>1 DEF Reads
  <2>2. CASE Lists(h, t, T)
    <3>1. output' = Append(output, Entry(h))
      BY <2>2 DEF Lists
    <3>2. Ids' = Ids \cup {h}
      BY <1>0, <2>1, <3>1, AppendIs
    <3> QED BY <2>1, <3>2
  <2>3. CASE Skips(h, t, T)
    BY <2>1, <2>3 DEF Skips, Distinct, Ids
  <2>4. CASE Folds(h, t, T)
    <3>1. Ids' = Ids
      BY <1>0, <2>1, <2>4, FoldKeepsIds
    <3>2. ~Matched(h)
      BY <2>4 DEF Folds
    <3> QED BY <2>1, <3>1, <3>2
  <2> QED BY <1>1, <2>2, <2>3, <2>4
<1>6. V \subseteq W
  BY <1>4, <1>5
<1>7. PICK s : s = <<h>> \o t
  OBVIOUS
<1>8. /\ s \in Seq(Nodes) /\ s # <<>> /\ Head(s) = h /\ Tail(s) = t /\ Pending = {s} \cup T
      /\ h \in Elems(s)
  BY <1>1, <1>7, ConsIs, ElemsCons DEF Reads
\* What hangs off h hangs off an error that is listed or is not recognised.
<1>9. Api(h) => Region[heap[h].source] \subseteq W
  <2>1. CASE Matched(h)
    BY <1>0, <1>4, <1>5, <2>1, ListedLeads
  <2>2. CASE Lost(h)
    <3>1. h \in Under[r]
      BY <1>2, <1>8 DEF Distinct
    <3>2. \A x \in Region[heap[h].source] : x \in Nodes /\ h \in HangsOff(x)
      <4>1. heap[h].source \in Nodes \cup {0}
        BY <1>0, <1>5, NodesAre
      <4>2. Region[heap[h].source] \subseteq Nodes
        BY <1>0, <4>1, RegionIs
      <4> QED BY <1>5, <2>2, <4>2 DEF HangsOff, Lost
    <3>3. \A x \in Region[heap[h].source] : Obscured(x)
      BY <1>2, <2>2, <3>1, <3>2 DEF Obscured, Lost
    <3> QED BY <1>4, <3>2, <3>3
  <2> QED BY <2>1, <2>2 DEF Lost
<1>10. h \in V
  <2>1. LedIn(s, V)
    BY <1>2, <1>8 DEF Led
  <2> QED BY <1>8, <2>1, LedHead
<1>11. \A f \in {t} \cup T : LedIn(f, W)
  <2>1. \A f \in {s} \cup T : LedIn(f, V)
    BY <1>2, <1>8 DEF Led
  <2>2. \A f \in {s} \cup T : LedIn(f, W)
    BY <1>6, <2>1, LedMono
  <2>3. LedIn(Tail(s), W)
    BY <1>9, <1>8, <2>2, LedTail
  <2> QED BY <1>8, <2>2, <2>3
<1>12. ASSUME Api(h), heap[h].source # 0 PROVE LedIn(Chain[heap[h].source], W)
  <2>1. heap[h].source \in Nodes
    BY <1>0, <1>5, <1>12, NodesAre
  <2>2. LedIn(Chain[heap[h].source], Region[heap[h].source])
    BY <1>0, <2>1, ChainFacts DEF Spells
  <2> QED BY <1>9, <1>12, <2>2, LedMono
<1>13. \A f \in Pending' : LedIn(f, W)
  <2>1. CASE Lists(h, t, T)
    BY <1>11, <1>12, <2>1 DEF Lists, Matched
  <2>2. CASE Skips(h, t, T) \/ Folds(h, t, T)
    BY <1>11, <2>2 DEF Skips, Folds
  <2> QED BY <1>1, <2>1, <2>2
<1>14. \A i \in DOMAIN output : LET causeOf == HangsOff(output[i].id) \cap Under[r]
                                IN  \/ causeOf = {} \/ Obscured(output[i].id)
                                    \/ \E j \in 1 .. i - 1 : output[j].id \in causeOf
  BY <1>2 DEF Led, InOrder
<1>15. \A i \in DOMAIN output' : LET causeOf == HangsOff(output'[i].id) \cap Under[r]
                                 IN  \/ causeOf = {} \/ Obscured(output'[i].id)
                                     \/ \E j \in 1 .. i - 1 : output'[j].id \in causeOf
  <2>1. CASE Lists(h, t, T)
    <3>1. PICK k : k = Len(output)
      OBVIOUS
    <3>2. /\ k \in Nat /\ DOMAIN output = 1 .. k /\ DOMAIN output' = 1 .. k + 1
          /\ \A i \in 1 .. k : output'[i] = output[i]
          /\ output'[k + 1].id = h
      BY <1>0, <1>5, <2>1, <3>1, AppendIs DEF Lists
    <3> SUFFICES ASSUME NEW i \in 1 .. k + 1, NEW a \in HangsOff(output'[i].id) \cap Under[r],
                        ~Obscured(output'[i].id)
                 PROVE  \E j \in 1 .. i - 1 : output'[j].id \in HangsOff(output'[i].id) \cap Under[r]
      BY <3>2
    <3>3. CASE i \in 1 .. k
      <4>1. output'[i] = output[i] /\ \A j \in 1 .. i - 1 : output'[j] = output[j]
        BY <3>2, <3>3
      <4>2. \E j \in 1 .. i - 1 : output[j].id \in HangsOff(output[i].id) \cap Under[r]
        BY <1>14, <3>2, <3>3, <4>1
      <4> QED BY <4>1, <4>2
    <3>4. CASE i = k + 1
      <4>1. PICK b \in Ids : b \in HangsOff(h)
        BY <1>4, <1>10, <3>2, <3>4
      <4>2. b \in Under[r]
        BY <1>2 DEF Distinct
      <4>3. PICK j \in DOMAIN output : output[j].id = b
        BY DEF Ids
      <4>4. j \in 1 .. i - 1 /\ output'[j].id = b
        BY <3>2, <3>4, <4>3
      <4> QED BY <3>2, <3>4, <4>1, <4>2, <4>4
    <3>5. i \in 1 .. k \/ i = k + 1
      BY <3>2
    <3> QED BY <3>3, <3>4, <3>5
  <2>2. CASE Skips(h, t, T) \/ Folds(h, t, T)
    <3>1. DOMAIN output' = DOMAIN output /\ \A i \in DOMAIN output : output'[i].id = output[i].id
      BY <1>0, <1>5, <2>2, FoldKeepsIds DEF Skips
    <3>2. \A i \in DOMAIN output : \A j \in 1 .. i - 1 : j \in DOMAIN output
      <4>1. DOMAIN output = 1 .. Len(output) /\ Len(output) \in Nat
        BY <1>0 DEF CollectTypes
      <4> QED BY <4>1
    <3> SUFFICES ASSUME NEW i \in DOMAIN output, NEW a \in HangsOff(output'[i].id) \cap Under[r],
                        ~Obscured(output'[i].id)
                 PROVE  \E j \in 1 .. i - 1 : output'[j].id \in HangsOff(output'[i].id) \cap Under[r]
      BY <3>1
    <3>3. \E j \in 1 .. i - 1 : output[j].id \in HangsOff(output[i].id) \cap Under[r]
      BY <1>14, <3>1
    <3> QED BY <3>1, <3>2, <3>3
  <2> QED BY <1>1, <2>1, <2>2
<1>16. InOrder'
  BY <1>3, <1>15 DEF InOrder
<1>17. \A f \in Pending' : LedIn(f, W)'
  BY <1>13, LedFrozen
<1> QED BY <1>2, <1>16, <1>17 DEF Led

LEMMA LedStep == Base /\ Distinct /\ Led /\ [Next]_vars => Led'
<1> SUFFICES ASSUME Base, Distinct, Led, [Next]_vars PROVE Led'
  OBVIOUS
<1>1. HeapInv /\ CollectTypes
  BY DEF Base
<1>2. ASSUME UNCHANGED building, output' = output, UNCHANGED <<typed, root>>, Pending' \subseteq Pending
      PROVE  Led'
  <2>0. \A n : HangsOff(n)' = HangsOff(n)
    BY <1>2, Frozen
  <2>1. /\ Under' = Under /\ Nodes' = Nodes /\ Ids' = Ids
        /\ \A n : HangsOff(n)' = HangsOff(n) /\ Obscured(n)' = Obscured(n)
    BY <1>2, <2>0, Frozen, MatchedFrozen DEF Ids
  <2>2. Well' = Well
    BY <1>2, <2>1 DEF Well
  <2>3. InOrder'
    BY <1>2, <2>1 DEF Led, InOrder
  <2>4. PICK W : W = Well
    OBVIOUS
  <2>5. \A f \in Pending' : LedIn(f, W)'
    BY <1>2, <2>4, LedFrozen DEF Led
  <2> QED BY <2>2, <2>3, <2>4, <2>5 DEF Led
<1>3. CASE UNCHANGED vars
  BY <1>2, <1>3 DEF vars, building, Pending
<1>4. CASE Building
  <2>1. output' = <<>> /\ frames' = <<>>
    BY <1>1, <1>4, BuildingIsBefore DEF CollectTypes
  <2>2. DOMAIN output' = {} /\ DOMAIN frames' = {}
    BY <2>1
  <2>3. Pending' = {}
    BY <2>2 DEF Pending, Elems
  <2> QED BY <2>2, <2>3 DEF Led, InOrder
<1>5. CASE Collecting /\ UNCHANGED building
  <2>1. Collects
    BY <1>1, <1>5, CollectSteps
  <2>2. CASE Begins
    BY <1>1, <1>5, <2>2, LedBegins
  <2>3. CASE Loops /\ UNCHANGED <<typed, root>>
    BY <1>5, <2>3, LedLoops
  <2>4. CASE Ends /\ UNCHANGED <<typed, root>>
    BY <1>2, <1>5, <2>4 DEF Ends
  <2> QED BY <2>1, <2>2, <2>3, <2>4 DEF Collects
<1> QED BY <1>3, <1>4, <1>5, NextIs

LEMMA InitLed == Init => Led
<1> SUFFICES ASSUME Init PROVE Led
  OBVIOUS
<1>1. output = <<>> /\ frames = <<>>
  BY DEF Init
<1>2. DOMAIN output = {} /\ DOMAIN frames = {}
  BY <1>1
<1> QED BY <1>2 DEF Led, InOrder, Pending, Elems

LEMMA LedAlways == Spec => [](Base /\ Distinct /\ Led)
BY InitLed, LedStep, DistinctAlways, PTL DEF Spec

(* Whatever is recognised, an entry comes after an error it is a cause of, *)
(* unless it is a cause of one that is not listed at all.                  *)
THEOREM ComesAfterItsErrors == Spec => []InOrder
<1>1. Led => InOrder
  BY DEF Led
<1> QED BY <1>1, LedAlways, PTL

(* The list reads outermost first, through shared causes and branches.     *)
THEOREM OutermostFirst ==
  ASSUME KnownCodes
  PROVE  Spec => []CausesFollow
<1>1. Base /\ Led => CausesFollow
  <2> SUFFICES ASSUME Base, Led PROVE CausesFollow
    OBVIOUS
  <2>1. CASE typed = Blank
    <3>1. DOMAIN output = {}
      BY <2>1 DEF Base, CollectTypes
    <3> QED BY <3>1 DEF CausesFollow
  <2>2. CASE typed # Blank
    <3>1. \A n \in Nodes : Api(n) => Matched(n)
      BY <2>2, AllMatched
    <3>2. \A x : ~Obscured(x)
      BY <3>1 DEF Obscured, HangsOff
    <3> QED BY <3>2 DEF Led, InOrder, CausesFollow
  <2> QED BY <2>1, <2>2
<1> QED BY <1>1, LedAlways, PTL

-----------------------------------------------------------------------------
(* What gets into the messages. *)

\* An unrecognised error without a cause is read as a foreign leaf would be,
\* and displays the internal prefix.
LostLeaf == \E u \in Under[root] : Lost(u) /\ heap[u].source = 0

\* Unless causes are asked for, messages are of the texts that were given.
Plain == ~verbose /\ ~LostLeaf => \A i \in DOMAIN output : output[i].message \in Seq(Texts)

\* A leaf that is no ApiError displays its own text.
LEMMA LeafDisplays ==
  ASSUME HeapInv, NEW n \in Nodes, ~Api(n), heap[n].source = 0
  PROVE  heap[n].kind = "foreign" /\ Display[n] = RawMessage(n) /\ RawMessage(n) \in Seq(Texts)
<1>1. heap[n] \in Records /\ Shaped(n)
  BY NodesAre
<1>2. heap[n].kind # "wrapper"
  BY <1>1 DEF Shaped, Below
<1>3. heap[n].kind = "foreign"
  BY <1>1, <1>2 DEF Records, Api
<1> QED BY <1>3, DisplayIs

LEMMA PlainStep == Base /\ Distinct /\ Plain /\ [Next]_vars => Plain'
<1> SUFFICES ASSUME Base, Distinct, Plain, [Next]_vars, ~verbose', ~LostLeaf', NEW i \in DOMAIN output'
             PROVE  output'[i].message \in Seq(Texts)
  BY DEF Plain
<1>1. HeapInv /\ CollectTypes
  BY DEF Base
<1>2. ASSUME UNCHANGED building, UNCHANGED <<typed, root>> PROVE ~LostLeaf
  BY <1>2, Frozen, MatchedFrozen DEF LostLeaf
<1>3. CASE UNCHANGED vars
  <2>1. ~LostLeaf
    BY <1>2, <1>3 DEF vars, building
  <2> QED BY <1>3, <2>1 DEF vars, Plain
<1>4. CASE Building
  <2>1. output' = <<>>
    BY <1>1, <1>4, BuildingIsBefore DEF CollectTypes
  <2>2. DOMAIN output' = {}
    BY <2>1
  <2> QED BY <2>2
<1>5. CASE Collecting /\ UNCHANGED building
  <2>1. Collects
    BY <1>1, <1>5, CollectSteps
  \* With `collect_messages` verbose stays, and `report_collect_messages` lists nothing yet.
  <2>2. CASE Begins
    <3>1. PICK r : r = root'
      OBVIOUS
    <3>2. output' # <<>> => verbose' = verbose
      <4>1. ASSUME NEW n \in free, CollectMessages(n) PROVE verbose' = verbose
        BY <4>1 DEF CollectMessages
      <4>2. ASSUME NEW n \in free, ReportCollectMessages(n) PROVE output' = <<>>
        BY <1>1, <4>2 DEF ReportCollectMessages, CollectTypes
      <4>3. typed' # typed
        BY <2>2 DEF Begins
      <4>4. \E n \in free : CollectMessages(n) \/ ReportCollectMessages(n)
        BY <1>5, <4>3 DEF Collecting, ListError, SkipSeen, FoldForeign, EndLoop
      <4> QED BY <4>1, <4>2, <4>4
    <3>3. DOMAIN output' # {} => output' # <<>>
      OBVIOUS
    <3>4. output'[i] = Entry(r) /\ r \in Nodes
      BY <1>1, <2>2, <3>1, BeginIds DEF Begins
    <3>5. Entry(r).message = RawMessage(r)
      BY <1>1, <3>2, <3>3, <3>4, EntryIs
    <3> QED BY <1>1, <3>4, <3>5, DisplayIs
  <2>3. CASE Loops /\ UNCHANGED <<typed, verbose, root>>
    <3>1. PICK h, t, T : Reads(h, t, T) /\ (Lists(h, t, T) \/ Skips(h, t, T) \/ Folds(h, t, T))
      BY <2>3 DEF Loops
    <3>2. h \in Nodes /\ h \in Under[root]
      <4>1. h \in Elems(<<h>> \o t)
        BY <3>1, ElemsCons DEF Reads
      <4> QED BY <3>1, <4>1 DEF Reads, Distinct
    <3>3. ~LostLeaf /\ \A k \in DOMAIN output : output[k].message \in Seq(Texts)
      BY <1>2, <1>5, <2>3 DEF Plain
    <3>4. CASE Lists(h, t, T)
      <4>1. output' = Append(output, Entry(h))
        BY <3>4 DEF Lists
      <4>2. (i \in DOMAIN output /\ output'[i] = output[i]) \/ output'[i] = Entry(h)
        BY <1>1, <3>2, <4>1, AppendIs
      <4>3. Entry(h).message \in Seq(Texts)
        <5>1. Entry(h).message = RawMessage(h)
          BY <1>1, <2>3, <3>2, EntryIs
        <5> QED BY <1>1, <3>2, <5>1, DisplayIs
      <4> QED BY <3>3, <4>2, <4>3
    <3>5. CASE Skips(h, t, T)
      BY <3>3, <3>5 DEF Skips
    <3>6. CASE Folds(h, t, T)
      <4>1. IF Foldable(h) THEN Fold(Display[h]) ELSE UNCHANGED output
        BY <3>6 DEF Folds
      <4>2. /\ i \in DOMAIN output
            /\ \/ output'[i].message = output[i].message
               \/ Foldable(h) /\ output'[i].message = output[i].message \o Display[h]
        BY <1>1, <3>2, <4>1, FoldIs
      <4>3. Foldable(h) => Display[h] \in Seq(Texts)
        <5> SUFFICES ASSUME Foldable(h) PROVE Display[h] \in Seq(Texts)
          OBVIOUS
        <5>1. heap[h].source = 0 /\ ~Api(h)
          BY <3>2, <3>3, <3>6 DEF Foldable, Folds, LostLeaf, Lost
        <5> QED BY <1>1, <3>2, <5>1, LeafDisplays
      <4>4. output[i].message \in Seq(Texts)
        BY <3>3, <4>2
      <4>5. \A u, v \in Seq(Texts) : u \o v \in Seq(Texts)
        OBVIOUS
      <4> QED BY <4>2, <4>3, <4>4, <4>5
    <3> QED BY <3>1, <3>4, <3>5, <3>6
  <2>4. CASE Ends /\ UNCHANGED <<typed, verbose, root>>
    BY <1>2, <1>5, <2>4 DEF Ends, Plain
  <2> QED BY <2>1, <2>2, <2>3, <2>4 DEF Collects
<1> QED BY <1>3, <1>4, <1>5, NextIs

(* Whatever is recognised, the internal prefix shows in no message unless  *)
(* causes are asked for, or an error that is not recognised has no cause.  *)
THEOREM InternalOnlyIfLost == Spec => [](NoInternalText \/ LostLeaf)
<1>1. Init => Plain
  BY DEF Init, Plain
<1>2. Plain => NoInternalText \/ LostLeaf
  <2> SUFFICES ASSUME Plain, ~LostLeaf, ~verbose, NEW i \in DOMAIN output,
                      Mentions(output[i].message, Internal)
               PROVE  FALSE
    BY DEF NoInternalText
  <2>1. output[i].message \in Seq(Texts)
    BY DEF Plain
  <2>2. PICK k \in DOMAIN output[i].message :
          output[i].message[k] = Internal \/ <<Internal, output[i].message[k]>> \in Within
    BY DEF Mentions
  <2>3. output[i].message[k] \in Texts
    BY <2>1
  <2> QED BY <2>2, <2>3, TextsAreTexts
<1> QED BY <1>1, <1>2, PlainStep, DistinctAlways, PTL DEF Spec

(* The internal prefix shows in no message unless causes are asked for.    *)
THEOREM NothingInternal ==
  ASSUME KnownCodes
  PROVE  Spec => []NoInternalText
<1>1. Base => NoInternalText \/ ~LostLeaf
  <2> SUFFICES ASSUME Base, LostLeaf PROVE NoInternalText
    OBVIOUS
  <2>1. PICK u \in Under[root] : Lost(u)
    BY DEF LostLeaf
  <2>2. CASE typed = Blank
    <3>1. DOMAIN output = {}
      BY <2>2 DEF Base, CollectTypes
    <3> QED BY <3>1 DEF NoInternalText
  <2>3. CASE typed # Blank
    <3>1. root \in Nodes \cup {0} /\ HeapInv
      BY DEF Base, CollectTypes
    <3>2. u \in Nodes
      BY <2>1, <3>1, UnderIs
    <3> QED BY <2>1, <2>3, <3>2, AllMatched DEF Lost
  <2> QED BY <2>2, <2>3
<1> QED BY <1>1, InternalOnlyIfLost, BaseAlways, PTL

-----------------------------------------------------------------------------
(* That nothing of the chain is left out. *)

\* A node is to come if a chain that is being read still unfolds it.
ToCome(x) == \E f \in Pending : Unfolded(f, x)

Leaf(n) == heap[n].kind = "foreign" /\ heap[n].source = 0

\* B has been dealt with, and what it points to is in it or is to come, but
\* for the causes of errors that are not recognised.
Covers(B) ==
  /\ B \subseteq Nodes /\ seen \subseteq B
  /\ root \in B \/ ToCome(root)
  /\ \A b \in B : Lost(b) \/ \A c \in Below(b) \ {0} : c \in B \/ ToCome(c)
  /\ \A b \in B : Matched(b) => b \in Ids
  /\ Matched(root) => \A b \in B : Leaf(b) => Told(b)

Covered ==
  typed # Blank => /\ \E B : Covers(B)
                   /\ Matched(root) /\ output = <<>> => \A f \in Pending : f = Chain[root]

LEMMA UnfoldFrozen ==
  ASSUME UNCHANGED building, NEW s, NEW n
  PROVE  Unfolded(s, n)' <=> Unfolded(s, n)
<1>1. heap' = heap
  BY Frozen
<1> QED BY <1>1 DEF Unfolded, Unfolds, Below, Api

LEMMA ComesStill ==
  ASSUME UNCHANGED building, NEW f \in Pending', NEW x, Unfolded(f, x)
  PROVE  ToCome(x)'
<1>1. Unfolded(f, x)'
  BY UnfoldFrozen
<1> QED BY <1>1 DEF ToCome

\* When h is read, what was to come still is, but for h.
LEMMA ReadingMoves ==
  ASSUME UNCHANGED building, NEW h, NEW t, NEW T, Reads(h, t, T), {t} \cup T \subseteq Pending',
         NEW x, ToCome(x)
  PROVE  \/ ToCome(x)'
         \/ x = h /\ (Api(h) \/ \A c \in Below(h) \ {0} : ToCome(c)')
<1>1. PICK s : s = <<h>> \o t
  OBVIOUS
<1>2. s \in Seq(Nodes) /\ s # <<>> /\ Head(s) = h /\ Tail(s) = t /\ Pending = {s} \cup T
  BY <1>1, ConsIs DEF Reads
<1>3. PICK f \in {s} \cup T : Unfolded(f, x)
  BY <1>2 DEF ToCome
<1>4. CASE f \in T
  BY <1>3, <1>4, ComesStill
<1>5. CASE f = s
  <2>1. \/ Unfolded(t, x)
        \/ x = h /\ (Api(x) \/ \A c \in Below(x) \ {0} : Unfolded(t, c))
    BY <1>2, <1>3, <1>5, UnfoldTail
  <2>2. \A c : Unfolded(t, c) => ToCome(c)'
    <3>1. t \in Pending'
      OBVIOUS
    <3> QED BY <3>1, ComesStill
  <2> QED BY <2>1, <2>2
<1> QED BY <1>3, <1>4, <1>5

LEMMA MentionsMore ==
  ASSUME NEW S, NEW u \in Seq(S), NEW v \in Seq(S), NEW x, Mentions(u, x) \/ Mentions(v, x)
  PROVE  Mentions(u \o v, x)
<1>1. PICK w : w = u \o v
  OBVIOUS
<1>2. /\ DOMAIN w = 1 .. Len(u) + Len(v) /\ DOMAIN u = 1 .. Len(u) /\ DOMAIN v = 1 .. Len(v)
      /\ Len(u) \in Nat /\ Len(v) \in Nat
  BY <1>1, ConcatIs
<1>3. \A i \in 1 .. Len(u) : w[i] = u[i]
  BY <1>1, ConcatIs
<1>4. \A i \in 1 .. Len(v) : w[Len(u) + i] = v[i]
  BY <1>1, ConcatIs
<1>5. CASE Mentions(u, x)
  <2>1. PICK i \in 1 .. Len(u) : u[i] = x \/ <<x, u[i]>> \in Within
    BY <1>2, <1>5 DEF Mentions
  <2>2. i \in DOMAIN w /\ w[i] = u[i]
    BY <1>2, <1>3
  <2> QED BY <1>1, <2>1, <2>2 DEF Mentions
<1>6. CASE Mentions(v, x)
  <2>1. PICK i \in 1 .. Len(v) : v[i] = x \/ <<x, v[i]>> \in Within
    BY <1>2, <1>6 DEF Mentions
  <2>2. Len(u) + i \in DOMAIN w /\ w[Len(u) + i] = v[i]
    BY <1>2, <1>4
  <2> QED BY <1>1, <2>1, <2>2 DEF Mentions
<1> QED BY <1>5, <1>6

LEMMA MessageIs ==
  ASSUME CollectTypes, NEW i \in DOMAIN output
  PROVE  output[i].message \in Seq(Texts \cup {Internal})
<1>1. output[i] \in Entries
  BY DEF CollectTypes
<1> QED BY <1>1 DEF Entries

LEMMA ToldStays ==
  ASSUME HeapInv, CollectTypes, Loops, UNCHANGED building, NEW n \in Nodes, Told(n)
  PROVE  Told(n)'
<1>1. PICK h, t, T : Reads(h, t, T) /\ (Lists(h, t, T) \/ Skips(h, t, T) \/ Folds(h, t, T))
  BY DEF Loops
<1>2. h \in Nodes /\ heap' = heap
  BY <1>1, Frozen DEF Reads
<1>3. CASE heap[n].text = Blank
  BY <1>2, <1>3 DEF Told
<1>4. ASSUME NEW i \in DOMAIN output, Mentions(output[i].message, heap[n].text)
      PROVE  i \in DOMAIN output' /\ Mentions(output'[i].message, heap[n].text)
  <2>1. CASE Lists(h, t, T)
    <3>1. i \in DOMAIN output' /\ output'[i] = output[i]
      BY <1>2, <2>1, AppendIs DEF Lists
    <3> QED BY <1>4, <3>1
  <2>2. CASE Skips(h, t, T)
    BY <1>4, <2>2 DEF Skips
  <2>3. CASE Folds(h, t, T)
    <3>1. /\ DOMAIN output' = DOMAIN output
          /\ \/ output'[i].message = output[i].message
             \/ output'[i].message = output[i].message \o Display[h]
      BY <1>2, <2>3, FoldIs DEF Folds
    <3>2. output[i].message \in Seq(Texts \cup {Internal})
      BY MessageIs
    <3>3. Display[h] \in Seq(Texts \cup {Internal})
      BY <1>2, DisplayIs
    <3>4. Mentions(output[i].message \o Display[h], heap[n].text)
      BY <1>4, <3>2, <3>3, MentionsMore
    <3> QED BY <1>4, <3>1, <3>4
  <2> QED BY <1>1, <2>1, <2>2, <2>3
<1> QED BY <1>2, <1>3, <1>4 DEF Told

\* Folding a leaf tells its text, if there is an entry to tell it in.
LEMMA FoldTells ==
  ASSUME HeapInv, CollectTypes, UNCHANGED building, NEW h \in Nodes, NEW t, NEW T, Folds(h, t, T),
         output # <<>>, ~Api(h), Leaf(h)
  PROVE  Told(h)'
<1>1. heap' = heap
  BY Frozen
<1>2. CASE heap[h].text = Blank
  BY <1>1, <1>2 DEF Told
<1>3. CASE heap[h].text # Blank
  <2>1. PICK x : x = heap[h].text
    OBVIOUS
  <2>2. Display[h] = <<x>> /\ Foldable(h)
    <3>1. heap[h].source = 0 /\ Display[h] = RawMessage(h)
      BY LeafDisplays DEF Leaf
    <3>2. RawMessage(h) = <<x>> /\ <<x>> # <<>>
      BY <1>3, <2>1 DEF RawMessage
    <3> QED BY <3>1, <3>2 DEF Foldable
  <2>3. PICK last : last = Len(output)
    OBVIOUS
  <2>4. /\ last \in DOMAIN output /\ DOMAIN output' = DOMAIN output
        /\ \/ Contains(output[last].message, <<x>>) /\ output' = output
           \/ output'[last].message = output[last].message \o <<x>>
    BY <2>2, <2>3, FoldIs DEF Folds
  <2>5. CASE Contains(output[last].message, <<x>>) /\ output' = output
    <3>1. Len(<<x>>) = 1 /\ <<x>>[1] = x
      OBVIOUS
    <3>2. Mentions(output'[last].message, x)
      BY <2>5, <3>1 DEF Contains
    <3> QED BY <1>1, <2>1, <2>4, <3>2 DEF Told
  <2>6. CASE output'[last].message = output[last].message \o <<x>>
    <3>1. output[last].message \in Seq(Texts \cup {Internal})
      BY <2>4, MessageIs
    <3>2. <<x>> \in Seq(Texts \cup {Internal})
      BY <2>2, DisplayIs
    <3>3. Mentions(<<x>>, x)
      <4>1. 1 \in DOMAIN <<x>> /\ <<x>>[1] = x
        OBVIOUS
      <4> QED BY <4>1 DEF Mentions
    <3>4. Mentions(output'[last].message, x)
      BY <2>6, <3>1, <3>2, <3>3, MentionsMore
    <3> QED BY <1>1, <2>1, <2>4, <3>4 DEF Told
  <2> QED BY <2>4, <2>5, <2>6
<1> QED BY <1>2, <1>3

LEMMA CoveredBegins ==
  ASSUME HeapInv, CollectTypes, Begins, UNCHANGED building
  PROVE  Covered'
<1>1. PICK r : r = root'
  OBVIOUS
<1>2. r \in Nodes /\ heap[r].kind # "wrapper" /\ seen' = {}
  BY <1>1 DEF Begins
<1>3. heap' = heap /\ Nodes' = Nodes /\ Chain' = Chain
  BY Frozen
<1>4. CASE /\ Api(r) /\ output' = <<Entry(r)>>
           /\ Pending' = {IF heap[r].source = 0 THEN <<>> ELSE Chain[heap[r].source]}
  <2>1. heap[r].branch = 0 /\ heap[r].source \in Nodes \cup {0}
    BY <1>2, NodesAre DEF Shaped
  <2>2. ASSUME NEW c \in Below(r) \ {0} PROVE ToCome(c)'
    <3>1. c = heap[r].source /\ c \in Nodes
      BY <2>1 DEF Below
    <3>2. Chain[c] \in Pending' /\ Unfolded(Chain[c], c)
      BY <1>4, <3>1, ChainFacts
    <3> QED BY <3>2, ComesStill
  <2>3. Ids' = {r} /\ output' # <<>>
    <3>1. DOMAIN output' = {1} /\ output' # <<>>
      BY <1>4
    <3> QED BY <1>1, <3>1, BeginIds
  <2>4. ~Leaf(r)' /\ Below(r)' = Below(r)
    BY <1>3, <1>4 DEF Leaf, Api, Below
  <2>5. Covers({r})'
    BY <1>1, <1>2, <1>3, <2>2, <2>3, <2>4 DEF Covers
  <2> QED BY <2>3, <2>5 DEF Covered
<1>5. CASE Pending' = {Chain[r]}
  <2>1. ToCome(r)'
    BY <1>2, <1>5, ChainFacts, ComesStill
  <2>2. Covers({})'
    BY <1>1, <1>2, <2>1 DEF Covers
  <2> QED BY <1>1, <1>3, <1>5, <2>2 DEF Covered
<1> QED BY <1>1, <1>4, <1>5 DEF Begins

LEMMA CoveredLoops ==
  ASSUME Base, Distinct, typed # Blank, Covered, Loops, UNCHANGED building, UNCHANGED <<typed, root>>
  PROVE  Covered'
<1>0. HeapInv /\ CollectTypes
  BY DEF Base
<1>1. PICK h, t, T : Reads(h, t, T) /\ (Lists(h, t, T) \/ Skips(h, t, T) \/ Folds(h, t, T))
  BY DEF Loops
<1>2. PICK B : Covers(B)
  BY DEF Covered
<1>3. PICK r : r = root
  OBVIOUS
<1>4. /\ heap' = heap /\ Nodes' = Nodes /\ root' = r
      /\ \A n : Below(n)' = Below(n) /\ Leaf(n)' = Leaf(n)
      /\ \A n : Matched(n)' = Matched(n) /\ Lost(n)' = Lost(n)
  <2>1. heap' = heap /\ Nodes' = Nodes
    BY Frozen
  <2> QED BY <1>3, <2>1, MatchedFrozen DEF Below, Leaf
<1>5. h \in Nodes /\ (Matched(h) => Api(h)) /\ r \in Nodes
  BY <1>1, <1>3 DEF Reads, Base, CollectTypes, Matched
<1>6. {t} \cup T \subseteq Pending'
  BY <1>1 DEF Lists, Skips, Folds
\* Until something is listed a recognised error is the first that is read.
<1>7. Matched(r) /\ output = <<>> => h = r
  <2> SUFFICES ASSUME Matched(r), output = <<>> PROVE h = r
    OBVIOUS
  <2>1. PICK s : s = <<h>> \o t
    OBVIOUS
  <2>2. Head(s) = h
    BY <1>1, <2>1, ConsIs DEF Reads
  <2>3. s = Chain[r]
    BY <1>1, <1>3, <2>1 DEF Covered, Reads
  <2> QED BY <1>0, <1>5, <2>2, <2>3, ChainUnder
<1>8. Matched(r) => output' # <<>>
  <2>1. CASE Lists(h, t, T)
    <3>1. Len(output) + 1 \in DOMAIN output'
      BY <1>0, <1>5, <2>1, AppendIs DEF Lists
    <3> QED BY <3>1
  <2>2. CASE Skips(h, t, T)
    <3>1. h \in Ids /\ output' = output
      BY <2>2 DEF Skips, Distinct
    <3>2. DOMAIN output # {}
      BY <3>1 DEF Ids
    <3> QED BY <3>1, <3>2
  <2>3. CASE Folds(h, t, T)
    <3>1. DOMAIN output' = DOMAIN output /\ ~Matched(h)
      BY <1>0, <1>5, <2>3, FoldKeepsIds DEF Folds
    <3>2. Matched(r) => DOMAIN output # {}
      <4>1. output \in Seq(Entries)
        BY <1>0 DEF CollectTypes
      <4>2. Matched(r) => output # <<>>
        BY <1>7, <3>1
      <4>3. output # <<>> => 1 \in DOMAIN output
        BY <4>1, HeadAndTail
      <4> QED BY <4>2, <4>3
    <3>3. output' = <<>> => DOMAIN output' = {}
      OBVIOUS
    <3> QED BY <3>1, <3>2, <3>3
  <2> QED BY <1>1, <2>1, <2>2, <2>3
<1>9. /\ \A b \in B : Matched(b) => b \in Ids'
      /\ Matched(h) => h \in Ids' /\ (h \in seen' \/ h \in B) /\ seen' \subseteq B \cup {h}
      /\ ~Matched(h) => seen' = seen
  <2>1. CASE Lists(h, t, T)
    <3>1. Ids' = Ids \cup {h} /\ seen' = seen \cup {h}
      BY <1>0, <1>5, <2>1, AppendIs DEF Lists
    <3> QED BY <1>2, <1>5, <2>1, <3>1 DEF Covers, Lists
  <2>2. CASE Skips(h, t, T)
    <3>1. Ids' = Ids /\ seen' = seen /\ h \in seen /\ Matched(h)
      BY <2>2 DEF Skips, Ids
    <3> QED BY <1>2, <1>5, <3>1 DEF Covers, Distinct
  <2>3. CASE Folds(h, t, T)
    <3>1. Ids' = Ids /\ seen' = seen /\ ~Matched(h)
      BY <1>0, <1>5, <2>3, FoldKeepsIds DEF Folds
    <3> QED BY <1>2, <1>5, <3>1 DEF Covers
  <2> QED BY <1>1, <2>1, <2>2, <2>3
\* What h points to is dealt with or to come once h is.
<1>10. ASSUME Matched(h) \/ (ToCome(h) /\ ~ToCome(h)'), ~Lost(h), NEW c \in Below(h) \ {0}
       PROVE  c \in B \/ ToCome(c)'
  <2>1. CASE Matched(h)
    <3>1. heap[h].branch = 0
      BY <1>0, <1>5, <2>1, NodesAre DEF Shaped, Api
    <3>2. c = heap[h].source /\ c \in Nodes /\ c # 0
      BY <1>0, <1>5, <3>1, NodesAre DEF Below
    <3>3. CASE Lists(h, t, T)
      <4>1. Chain[c] \in Pending'
        BY <3>2, <3>3 DEF Lists
      <4>2. Unfolded(Chain[c], c)
        BY <1>0, <3>2, ChainFacts
      <4> QED BY <4>1, <4>2, ComesStill
    <3>4. CASE Skips(h, t, T)
      <4>1. h \in B
        BY <1>2, <3>4 DEF Skips, Covers
      <4>2. c \in B \/ ToCome(c)
        BY <1>2, <1>10, <4>1 DEF Covers
      <4>3. ToCome(c) => ToCome(c)' \/ c = h
        BY <1>1, <1>6, ReadingMoves
      <4> QED BY <4>1, <4>2, <4>3
    <3> QED BY <1>1, <1>5, <2>1, <3>3, <3>4 DEF Folds
  <2>2. CASE ~Matched(h)
    <3>1. ~Api(h)
      BY <1>10, <2>2 DEF Lost
    <3> QED BY <1>1, <1>6, <1>10, <2>2, <3>1, ReadingMoves
  <2> QED BY <2>1, <2>2
<1>11. PICK C : C = IF Matched(h) \/ (ToCome(h) /\ ~ToCome(h)') THEN B \cup {h} ELSE B
  OBVIOUS
<1>12. B \subseteq C /\ C \subseteq B \cup {h} /\ (Matched(h) => h \in C)
  BY <1>11
<1>13. ASSUME NEW x, ToCome(x) PROVE x \in C \/ ToCome(x)'
  <2>1. CASE x = h
    BY <1>11, <1>13, <2>1
  <2>2. CASE x # h
    BY <1>1, <1>6, <1>13, <2>2, ReadingMoves
  <2> QED BY <2>1, <2>2
<1>14. ASSUME NEW b \in C, ~Lost(b), NEW c \in Below(b) \ {0} PROVE c \in C \/ ToCome(c)'
  <2>1. CASE b \in B
    <3>1. c \in B \/ ToCome(c)
      BY <1>2, <1>14, <2>1 DEF Covers
    <3> QED BY <1>12, <1>13, <3>1
  <2>2. CASE b \notin B
    <3>1. b = h /\ (Matched(h) \/ (ToCome(h) /\ ~ToCome(h)'))
      BY <1>11, <2>2
    <3> QED BY <1>10, <1>12, <1>14, <3>1
  <2> QED BY <2>1, <2>2
<1>15. ASSUME Matched(r), NEW b \in C, Leaf(b) PROVE Told(b)'
  <2>1. CASE b \in B
    <3>1. Told(b) /\ b \in Nodes
      BY <1>2, <1>3, <1>15, <2>1 DEF Covers
    <3> QED BY <1>0, <3>1, ToldStays
  <2>2. CASE b \notin B
    <3>1. b = h /\ ~Api(h)
      BY <1>12, <1>15, <2>2 DEF Leaf, Api
    <3>2. Folds(h, t, T)
      BY <1>1, <1>5, <3>1 DEF Lists, Skips
    <3>3. output # <<>>
      BY <1>5, <1>7, <1>15, <3>1
    <3> QED BY <1>0, <1>5, <1>15, <3>1, <3>2, <3>3, FoldTells
  <2> QED BY <2>1, <2>2
<1>16. C \subseteq Nodes /\ seen' \subseteq C
  BY <1>2, <1>5, <1>9, <1>12 DEF Covers
<1>17. r \in C \/ ToCome(r)'
  BY <1>2, <1>3, <1>12, <1>13 DEF Covers
<1>18. \A b \in C : Matched(b) => b \in Ids'
  BY <1>9, <1>12
<1>19. Covers(C)'
  BY <1>4, <1>14, <1>15, <1>16, <1>17, <1>18 DEF Covers
<1> QED BY <1>4, <1>8, <1>19 DEF Covered

LEMMA CoveredStep == Base /\ Distinct /\ Covered /\ [Next]_vars => Covered'
<1> SUFFICES ASSUME Base, Distinct, Covered, [Next]_vars PROVE Covered'
  OBVIOUS
<1>1. HeapInv /\ CollectTypes
  BY DEF Base
\* Where nothing is left to read in a chain, it unfolds nothing.
<1>2. ASSUME UNCHANGED building, UNCHANGED <<typed, root, output, seen>>, Pending' \subseteq Pending,
             Pending \subseteq Pending' \cup {<<>>}
      PROVE  Covered'
  <2> SUFFICES ASSUME typed # Blank
               PROVE  (\E B : Covers(B)') /\ (Matched(root) /\ output = <<>> => \A f \in Pending : f = Chain[root])'
    BY <1>2 DEF Covered
  <2>1. PICK B : Covers(B)
    BY DEF Covered
  <2>2. ASSUME NEW x, ToCome(x) PROVE ToCome(x)'
    <3>1. PICK f \in Pending : Unfolded(f, x)
      BY <2>2 DEF ToCome
    <3>2. f # <<>>
      <4>1. DOMAIN <<>> = {}
        OBVIOUS
      <4> QED BY <3>1, <4>1 DEF Unfolded, Unfolds
    <3> QED BY <1>2, <3>1, <3>2, ComesStill
  <2>3. heap' = heap /\ Nodes' = Nodes /\ Chain' = Chain
    BY <1>2, Frozen
  <2>4. /\ Ids' = Ids
        /\ \A n : Below(n)' = Below(n) /\ Leaf(n)' = Leaf(n) /\ Told(n)' = Told(n)
        /\ \A n : Matched(n)' = Matched(n) /\ Lost(n)' = Lost(n)
    BY <1>2, <2>3, MatchedFrozen DEF Ids, Below, Leaf, Told
  <2>5. Covers(B)'
    BY <1>2, <2>1, <2>2, <2>3, <2>4 DEF Covers
  <2>6. (Matched(root) /\ output = <<>> => \A f \in Pending : f = Chain[root])'
    BY <1>2, <2>3, <2>4 DEF Covered
  <2> QED BY <2>5, <2>6
<1>3. CASE UNCHANGED vars
  BY <1>2, <1>3 DEF vars, building, Pending
<1>4. CASE Building
  BY <1>4, BuildingIsBefore DEF Covered
<1>5. CASE Collecting /\ UNCHANGED building
  <2>1. Collects
    BY <1>1, <1>5, CollectSteps
  <2>2. CASE Begins
    BY <1>1, <1>5, <2>2, CoveredBegins
  <2>3. CASE Loops /\ typed # Blank /\ UNCHANGED <<typed, root>>
    BY <1>5, <2>3, CoveredLoops
  <2>4. CASE Ends /\ UNCHANGED <<typed, root>>
    BY <1>2, <1>5, <2>4 DEF Ends
  <2> QED BY <2>1, <2>2, <2>3, <2>4 DEF Collects
<1> QED BY <1>3, <1>4, <1>5, NextIs

LEMMA CoveredAlways == Spec => [](Base /\ Distinct /\ Covered)
<1>1. Init => Covered
  BY DEF Init, Covered
<1> QED BY <1>1, CoveredStep, DistinctAlways, PTL DEF Spec

\* What is reached from the root, but not through an error that is not
\* recognised: the least set that holds the root and what is below the others.
Reached ==
  {n \in Nodes : \A S \in SUBSET Nodes :
     root \in S /\ (\A b \in S : Lost(b) \/ Below(b) \ {0} \subseteq S) => n \in S}

LEMMA DoneCovers ==
  ASSUME Base, Covered, Done
  PROVE  \E B : Covers(B) /\ Reached \subseteq B
<1>1. PICK B : Covers(B)
  BY DEF Covered, Done
<1>2. \A x : ~ToCome(x)
  <2>1. DOMAIN frames = {}
    BY DEF Done
  <2> QED BY <2>1 DEF ToCome, Pending, Elems
<1>3. /\ B \in SUBSET Nodes /\ root \in B
      /\ \A b \in B : Lost(b) \/ Below(b) \ {0} \subseteq B
  BY <1>1, <1>2 DEF Covers
<1>4. Reached \subseteq B
  BY <1>3 DEF Reached
<1> QED BY <1>1, <1>4

\* Where all are recognised, the whole chain is reached.
LEMMA AllReached ==
  ASSUME KnownCodes, Base, typed # Blank
  PROVE  Under[root] \subseteq Reached
<1>1. HeapInv /\ root \in Nodes
  BY DEF Base, CollectTypes
<1>2. \A n \in Nodes : ~Lost(n)
  BY AllMatched DEF Lost
<1>3. ASSUME NEW S \in SUBSET Nodes, root \in S, \A b \in S : Lost(b) \/ Below(b) \ {0} \subseteq S
      PROVE  Under[root] \subseteq S
  <2>1. \A b \in S : b \in Nodes /\ Below(b) \subseteq S \cup {0}
    BY <1>2, <1>3
  <2> QED BY <1>1, <1>3, <2>1, UnderLeast
<1>4. Under[root] \subseteq Nodes
  BY <1>1, UnderIs
<1> QED BY <1>3, <1>4 DEF Reached

NoneLost ==
  Done => /\ {n \in Reached : Matched(n)} \subseteq Ids
          /\ Matched(root) => \A n \in Reached : Leaf(n) => Told(n)

(* Whatever is recognised, the only recognised errors that are not listed, *)
(* and the only foreign leaves of a recognised error whose text is not     *)
(* told, are those that nothing but an unrecognised error leads to.        *)
THEOREM NoneReachedIsLost == Spec => []NoneLost
<1>1. Base /\ Covered => NoneLost
  <2> SUFFICES ASSUME Base, Covered, Done
               PROVE  /\ {n \in Reached : Matched(n)} \subseteq Ids
                      /\ Matched(root) => \A n \in Reached : Leaf(n) => Told(n)
    BY DEF NoneLost
  <2>1. PICK B : Covers(B) /\ Reached \subseteq B
    BY DoneCovers
  <2> QED BY <2>1 DEF Covers
<1> QED BY <1>1, CoveredAlways, PTL

(* Every error of the chain is listed once, however often it is reached    *)
(* and down whichever branch, and nothing else is.                         *)
THEOREM ListsTheErrors ==
  ASSUME KnownCodes
  PROVE  Spec => []EveryErrorListedOnce
<1>1. Base /\ Distinct /\ Covered => EveryErrorListedOnce
  <2> SUFFICES ASSUME Base, Distinct, Covered, Done
               PROVE  /\ Ids = {n \in Under[root] : Api(n)}
                      /\ \A i, j \in DOMAIN output : output[i].id = output[j].id => i = j
    BY DEF EveryErrorListedOnce
  <2>1. PICK B : Covers(B) /\ Reached \subseteq B
    BY DoneCovers
  <2>2. Under[root] \subseteq B /\ \A n \in B : Api(n) => Matched(n)
    BY <2>1, AllReached, AllMatched DEF Done, Covers
  <2>3. \A n \in Under[root] : Api(n) => n \in Ids
    BY <2>1, <2>2 DEF Covers
  <2> QED BY <2>3 DEF Distinct
<1> QED BY <1>1, CoveredAlways, PTL

(* The text of every foreign leaf of an error ends up in a message.        *)
THEOREM TellsTheCauses ==
  ASSUME KnownCodes
  PROVE  Spec => []NoCauseLost
<1>1. Base /\ Distinct /\ Covered => NoCauseLost
  <2> SUFFICES ASSUME Base, Distinct, Covered, OfError, NEW n \in Under[root], Leaf(n)
               PROVE  Told(n)
    BY DEF NoCauseLost, Leaf
  <2>1. PICK B : Covers(B) /\ Reached \subseteq B
    BY DoneCovers DEF OfError
  <2>2. n \in B
    BY <2>1, AllReached DEF OfError, Done
  <2>3. Matched(root)
    BY AllMatched DEF OfError, Done, Base, CollectTypes
  <2> QED BY <2>1, <2>2, <2>3 DEF Covers
<1> QED BY <1>1, CoveredAlways, PTL
=============================================================================
