------------------------ MODULE RequestTracing_proofs ------------------------
EXTENDS RequestTracing, TLAPS, SequenceTheorems, FiniteSetTheorems

-----------------------------------------------------------------------------
(* The span stack of a worker inside d layers of a request. *)

LEMMA ScopeSeq ==
  ASSUME NEW r, NEW d \in Nat
  PROVE  /\ Scope(r, d) \in Seq({r} \X Nat)
         /\ Len(Scope(r, d)) = d
         /\ \A n \in 1 .. d : Scope(r, d)[n] = <<r, n>>
<1>1. \A n \in 1 .. d : <<r, n>> \in {r} \X Nat
  OBVIOUS
<1> QED BY <1>1, IsASeq DEF Scope

LEMMA EmptyScope == ASSUME NEW r PROVE Scope(r, 0) = <<>>
  BY ScopeSeq, EmptySeq, LenProperties DEF Scope

LEMMA TopOfScope ==
  ASSUME NEW r, NEW d \in Nat
  PROVE  Top(Scope(r, d)) = IF d = 0 THEN None ELSE <<r, d>>
<1>1. CASE d = 0
  BY <1>1, EmptyScope DEF Top
<1>2. CASE d # 0
  <2>1. Len(Scope(r, d)) = d /\ \A n \in 1 .. d : Scope(r, d)[n] = <<r, n>>
    BY ScopeSeq
  <2>2. Scope(r, d) # <<>>
    BY <1>2, <2>1
  <2>3. d \in 1 .. d
    BY <1>2
  <2>4. Scope(r, d)[Len(Scope(r, d))] = <<r, d>>
    BY <2>1, <2>3
  <2> QED BY <1>2, <2>2, <2>4 DEF Top
<1> QED BY <1>1, <1>2

\* Two sequences are the same when they have the same elements in order.
LEMMA EnterScope ==
  ASSUME NEW r, NEW d \in Nat
  PROVE  Append(Scope(r, d), <<r, d + 1>>) = Scope(r, d + 1)
<1> DEFINE T == {r} \X Nat
           s == Append(Scope(r, d), <<r, d + 1>>)
           t == Scope(r, d + 1)
<1>0. d + 1 \in Nat
  OBVIOUS
<1>1. Scope(r, d) \in Seq(T) /\ Len(Scope(r, d)) = d /\ \A n \in 1 .. d : Scope(r, d)[n] = <<r, n>>
  BY ScopeSeq
<1>2. <<r, d + 1>> \in T
  BY <1>0
<1>3. s \in Seq(T) /\ Len(s) = d + 1 /\ (\A n \in 1 .. d : s[n] = <<r, n>>) /\ s[d + 1] = <<r, d + 1>>
  BY <1>1, <1>2, AppendProperties
<1>4. t \in Seq(T) /\ Len(t) = d + 1 /\ \A n \in 1 .. d + 1 : t[n] = <<r, n>>
  BY <1>0, ScopeSeq
<1>5. \A n \in 1 .. d + 1 : n \in 1 .. d \/ n = d + 1
  OBVIOUS
<1> HIDE DEF s, t, T
<1>6. \A n \in 1 .. Len(s) : s[n] = t[n]
  BY <1>3, <1>4, <1>5
<1>7. s = t
  BY <1>3, <1>4, <1>6, SeqEqual
<1> QED BY <1>7 DEF s, t

LEMMA LeaveScope ==
  ASSUME NEW r, NEW d \in Nat, NEW k \in 0 .. d
  PROVE  SubSeq(Scope(r, d), 1, Len(Scope(r, d)) - k) = Scope(r, d - k)
<1> DEFINE T == {r} \X Nat
           e == d - k
           s == SubSeq(Scope(r, d), 1, e)
           t == Scope(r, e)
<1>0. e \in Nat /\ e <= d
  OBVIOUS
<1>1. /\ Scope(r, d) \in Seq(T) /\ Len(Scope(r, d)) = d
      /\ \A n \in 1 .. d : Scope(r, d)[n] = <<r, n>>
  BY ScopeSeq
<1>2. t \in Seq(T) /\ Len(t) = e /\ \A n \in 1 .. e : t[n] = <<r, n>>
  BY <1>0, ScopeSeq
<1> HIDE DEF e
<1>3. \A n \in 1 .. e : n \in 1 .. d
  BY <1>0
<1>4. s = [n \in 1 .. e |-> Scope(r, d)[n]]
  BY <1>0, <1>1
<1>5. \A n \in 1 .. e : s[n] = t[n]
  BY <1>1, <1>2, <1>3, <1>4
<1>6. s \in Seq(T) /\ Len(s) = e
  BY <1>0, <1>1, <1>3, <1>4
<1> HIDE DEF s, t, T
<1>7. s = t
  BY <1>2, <1>5, <1>6, SeqEqual
<1> QED BY <1>1, <1>7 DEF s, t, e
-----------------------------------------------------------------------------
(* ScopeInv is inductive. *)

LEMMA StackFacts ==
  ASSUME stack \in Stacks
  PROVE  Inner \in Nat \ {0} /\ Layers = 1 .. Inner
BY EachLayerOnce DEF Inner, Layers

LEMMA InitScope == Init => ScopeInv
<1> SUFFICES ASSUME Init PROVE ScopeInv
  OBVIOUS
<1>0. Inner \in Nat \ {0} /\ Layers = 1 .. Inner
  BY StackFacts DEF Init
<1>1. TypeOK
  BY <1>0, BoundIsNat DEF Init, TypeOK, NoSpan, NoOutcome, Spans, Parents, Outcomes
<1>2. ScopesNested
  BY NoneIsNothing DEF Init, ScopesNested
<1>3. SpansChained
  BY <1>0 DEF Init, SpansChained
<1>4. PolledOnce
  BY DEF Init, PolledOnce
<1> QED BY <1>1, <1>2, <1>3, <1>4 DEF ScopeInv

Chains(r, n, top, last) ==
  /\ called' = [called EXCEPT ![r] = last]
  /\ ext' \in [Requests -> Ids \cup {None}]
  /\ spans' \in [Requests -> [Layers -> Spans]]
  /\ \A q \in Requests \ {r} : spans'[q] = spans[q]
  /\ \A k \in Layers : spans'[r][k].parent =
       IF k \notin n .. last THEN spans[r][k].parent
       ELSE IF k = n THEN top ELSE <<r, k - 1>>

\* What opening spans changes: the layers from n to some last one are called,
\* each under the one outside it, the first under the span entered right now.
LEMMA Opened ==
  ASSUME TypeOK, NEW r \in Requests, NEW n \in 1 .. Inner,
         NEW s \in Ids \cup {None}, NEW top \in Parents, Open(r, n, s, top)
  PROVE  \E last \in n .. Inner : Chains(r, n, top, last)
<1>0. Inner \in Nat \ {0} /\ Layers = 1 .. Inner
  BY StackFacts DEF TypeOK
<1> DEFINE last == LastCalled(n)
<1>1. last \in n .. Inner
  BY <1>0 DEF LastCalled
<1> HIDE DEF last
<1>2. PICK id \in ResolvedIds(s) :
        LET seen == IF \E k \in Layers : k \in n .. last /\ HasId(k) THEN id ELSE ext[r]
        IN  /\ ext' = [ext EXCEPT ![r] = seen]
            /\ spans' = [spans EXCEPT ![r] = [k \in Layers |->
                           IF k \notin n .. last THEN @[k]
                           ELSE [parent |-> Parent(r, n, k, top), id |-> seen, status |-> None]]]
            /\ called' = [called EXCEPT ![r] = last]
  BY DEF Open, last
<1> DEFINE seen == IF \E k \in Layers : k \in n .. last /\ HasId(k) THEN id ELSE ext[r]
           new == [k \in Layers |->
                     IF k \notin n .. last THEN spans[r][k]
                     ELSE [parent |-> Parent(r, n, k, top), id |-> seen, status |-> None]]
<1>3. seen \in Ids \cup {None}
  BY DEF ResolvedIds, TypeOK
<1> HIDE DEF seen
<1>4. ext' \in [Requests -> Ids \cup {None}]
  BY <1>2, <1>3 DEF TypeOK, seen
<1>5. \A k \in n .. last : Parent(r, n, k, top) \in Parents
  BY <1>0, <1>1 DEF Parent, Parents
<1>6. new \in [Layers -> Spans]
  BY <1>3, <1>5 DEF TypeOK, Spans
<1>7. spans' = [spans EXCEPT ![r] = new]
  BY <1>2 DEF seen
<1>8. \A k \in Layers : new[k].parent =
        IF k \notin n .. last THEN spans[r][k].parent
        ELSE IF k = n THEN top ELSE <<r, k - 1>>
  BY DEF Parent
<1> HIDE DEF new
<1>9. /\ spans' \in [Requests -> [Layers -> Spans]] /\ spans'[r] = new
      /\ \A q \in Requests \ {r} : spans'[q] = spans[q]
  BY <1>6, <1>7 DEF TypeOK
<1> QED BY <1>1, <1>2, <1>4, <1>8, <1>9 DEF Chains

LEMMA CallScope ==
  ASSUME ScopeInv, NEW w \in Workers, NEW r \in Requests, Call(w, r)
  PROVE  ScopeInv'
<1>0. Inner \in Nat \ {0} /\ Layers = 1 .. Inner
  BY StackFacts DEF ScopeInv, TypeOK
<1>1. Top(current[w]) = None
  BY DEF Call, ScopeInv, ScopesNested, Top
<1>2. PICK s \in Ids \cup {None} :
        sent' = [sent EXCEPT ![r] = s] /\ Open(r, 1, s, None)
  BY <1>1 DEF Call
<1>b. TypeOK /\ 1 \in 1 .. Inner /\ None \in Parents
  BY <1>0 DEF ScopeInv, Parents
<1>a. PICK last \in 1 .. Inner : Chains(r, 1, None, last)
  BY <1>2, <1>b, Opened
<1>3. /\ called' = [called EXCEPT ![r] = last]
      /\ ext' \in [Requests -> Ids \cup {None}]
      /\ spans' \in [Requests -> [Layers -> Spans]]
      /\ \A q \in Requests \ {r} : spans'[q] = spans[q]
      /\ \A k \in Layers : spans'[r][k].parent =
           IF k \notin 1 .. last THEN spans[r][k].parent
           ELSE IF k = 1 THEN None ELSE <<r, k - 1>>
  BY <1>a DEF Chains
<1>4. TypeOK'
  BY <1>0, <1>2, <1>3 DEF Call, ScopeInv, TypeOK, Inner, Layers, Spans, Parents, Outcomes
<1>5. ScopesNested'
  BY DEF Call, ScopeInv, ScopesNested, Scope
<1>6. SpansChained'
  BY <1>0, <1>3 DEF Call, ScopeInv, SpansChained, TypeOK, Layers
<1>7. PolledOnce'
  BY <1>0, <1>3 DEF Call, ScopeInv, PolledOnce, TypeOK
<1> QED BY <1>4, <1>5, <1>6, <1>7 DEF ScopeInv

LEMMA CallInnerScope ==
  ASSUME ScopeInv, NEW w \in Workers, CallInner(w)
  PROVE  ScopeInv'
<1> DEFINE r == worker[w]
           n == called[r] + 1
<1>0. Inner \in Nat \ {0} /\ Layers = 1 .. Inner
  BY StackFacts DEF ScopeInv, TypeOK
<1>1. /\ r \in Requests /\ stage[r] = "polling" /\ depth[r] = called[r]
      /\ called[r] \in 1 .. Inner /\ n \in 1 .. Inner
  BY <1>0 DEF CallInner, ScopeInv, TypeOK, PolledOnce
<1>2. Top(current[w]) = <<r, called[r]>>
  BY <1>1, TopOfScope DEF CallInner, ScopeInv, ScopesNested
<1>3. <<r, called[r]>> \in Parents /\ sent[r] \in Ids \cup {None}
  BY <1>0, <1>1 DEF Parents, ScopeInv, TypeOK
<1>4. Open(r, n, sent[r], <<r, called[r]>>)
  BY <1>2 DEF CallInner
<1> HIDE DEF r, n
<1>a. PICK last \in n .. Inner : Chains(r, n, <<r, called[r]>>, last)
  BY <1>1, <1>3, <1>4, Opened DEF ScopeInv
<1>5. /\ called' = [called EXCEPT ![r] = last]
      /\ ext' \in [Requests -> Ids \cup {None}]
      /\ spans' \in [Requests -> [Layers -> Spans]]
      /\ \A q \in Requests \ {r} : spans'[q] = spans[q]
      /\ \A k \in Layers : spans'[r][k].parent =
           IF k \notin n .. last THEN spans[r][k].parent
           ELSE IF k = n THEN <<r, called[r]>> ELSE <<r, k - 1>>
  BY <1>a DEF Chains
<1>6. TypeOK'
  BY <1>0, <1>1, <1>5 DEF CallInner, ScopeInv, TypeOK, Inner, Layers, Spans, Parents, Outcomes
<1>7. ScopesNested'
  BY DEF CallInner, ScopeInv, ScopesNested, Scope
<1>8. SpansChained'
  <2> SUFFICES ASSUME NEW q \in Requests, NEW k \in Layers, k <= called'[q]
               PROVE  spans'[q][k].parent = IF k = 1 THEN None ELSE <<q, k - 1>>
    BY DEF SpansChained, Layers, CallInner
  <2>1. CASE q # r
    BY <1>1, <1>5, <2>1 DEF ScopeInv, SpansChained, TypeOK
  <2>2. CASE q = r /\ k < n
    BY <1>0, <1>1, <1>5, <2>2 DEF ScopeInv, SpansChained, n
  <2>3. CASE q = r /\ k >= n
    <3>1. k \in n .. last /\ k # 1 /\ called[r] = n - 1
      BY <1>0, <1>1, <1>5, <2>3 DEF ScopeInv, TypeOK, n
    <3> QED BY <1>5, <2>3, <3>1
  <2> QED BY <1>0, <1>1, <2>1, <2>2, <2>3
<1>9. PolledOnce'
  BY <1>0, <1>1, <1>5 DEF CallInner, ScopeInv, PolledOnce, TypeOK, n
<1> QED BY <1>6, <1>7, <1>8, <1>9 DEF ScopeInv

\* What a worker that polls a request stands in.
LEMMA Standing ==
  ASSUME ScopeInv, NEW w \in Workers, worker[w] # None
  PROVE  /\ worker[w] \in Requests
         /\ depth[worker[w]] \in 0 .. Inner
         /\ current[w] = Scope(worker[w], depth[worker[w]])
         /\ current \in [Workers -> Seq(Requests \X Layers)]
         /\ \A v \in Workers \ {w} : worker[v] # worker[w]
BY DEF ScopeInv, TypeOK, ScopesNested, PolledOnce

LEMMA ScopeTyped ==
  ASSUME stack \in Stacks, NEW r \in Requests, NEW d \in 0 .. Inner
  PROVE  Scope(r, d) \in Seq(Requests \X Layers)
<1>1. Inner \in Nat \ {0} /\ Layers = 1 .. Inner
  BY StackFacts
<1>2. \A n \in 1 .. d : <<r, n>> \in Requests \X Layers
  BY <1>1
<1> QED BY <1>1, <1>2 DEF Scope

LEMMA BeginPollScope ==
  ASSUME ScopeInv, NEW w \in Workers, NEW r \in Requests, BeginPoll(w, r)
  PROVE  ScopeInv'
<1>0. Inner \in Nat \ {0} /\ Layers = 1 .. Inner
  BY StackFacts DEF ScopeInv, TypeOK
<1>1. TypeOK'
  BY <1>0 DEF BeginPoll, ScopeInv, TypeOK, Inner, Layers, Spans, Parents, Outcomes
<1>2. \A v \in Workers : worker[v] # r
  BY NoneIsNothing DEF BeginPoll, ScopeInv, PolledOnce
<1>3. ScopesNested'
  <2> SUFFICES ASSUME NEW v \in Workers
               PROVE  current'[v] = IF worker'[v] = None THEN <<>> ELSE Scope(worker'[v], depth'[worker'[v]])
    BY DEF ScopesNested, Scope
  <2>1. CASE v = w
    BY <2>1, EmptyScope, NoneIsNothing DEF BeginPoll, ScopeInv, ScopesNested, TypeOK
  <2>2. CASE v # w
    BY <1>2, <2>2 DEF BeginPoll, ScopeInv, ScopesNested, TypeOK
  <2> QED BY <2>1, <2>2
<1>4. SpansChained'
  BY DEF BeginPoll, ScopeInv, SpansChained, Layers
<1>5. PolledOnce'
  BY <1>0, <1>2 DEF BeginPoll, ScopeInv, PolledOnce, TypeOK
<1> QED BY <1>1, <1>3, <1>4, <1>5 DEF ScopeInv

LEMMA EnterScopeInv ==
  ASSUME ScopeInv, NEW w \in Workers, Enter(w)
  PROVE  ScopeInv'
<1> DEFINE r == worker[w]
<1>0. Inner \in Nat \ {0} /\ Layers = 1 .. Inner
  BY StackFacts DEF ScopeInv, TypeOK
<1>1. /\ r # None /\ r \in Requests /\ stage[r] = "polling"
      /\ depth[r] \in 0 .. Inner /\ depth[r] + 1 \in 0 .. Inner
      /\ depth[r] + 1 <= called[r]
      /\ current[w] = Scope(r, depth[r])
      /\ \A v \in Workers \ {w} : worker[v] # r
  BY <1>0, Standing DEF Enter, ScopeInv, TypeOK
<1>2. current'[w] = Scope(r, depth[r] + 1)
  <2>1. current'[w] = Append(current[w], <<r, depth[r] + 1>>)
    BY Standing, <1>1 DEF Enter
  <2>2. depth[r] \in Nat
    BY <1>0, <1>1
  <2> HIDE DEF r
  <2> QED BY <1>1, <2>1, <2>2, EnterScope
<1>3. current'[w] \in Seq(Requests \X Layers)
  BY <1>1, <1>2, ScopeTyped DEF ScopeInv, TypeOK
<1>4. /\ depth' = [depth EXCEPT ![r] = @ + 1]
      /\ UNCHANGED <<stack, sent, ext, stage, called, spans, outcome, journal, suspends, home, worker>>
      /\ \A v \in Workers \ {w} : current'[v] = current[v]
      /\ current' \in [Workers -> Seq(Requests \X Layers)]
  BY <1>3, Standing, <1>1 DEF Enter
<1> HIDE DEF r
<1>5. TypeOK'
  BY <1>0, <1>1, <1>4 DEF ScopeInv, TypeOK, Inner, Layers, Spans, Parents, Outcomes
<1>6. ScopesNested'
  <2> SUFFICES ASSUME NEW v \in Workers
               PROVE  current'[v] = IF worker'[v] = None THEN <<>> ELSE Scope(worker'[v], depth'[worker'[v]])
    BY DEF ScopesNested, Scope
  <2>1. CASE v = w
    BY <1>1, <1>2, <1>4, <2>1 DEF ScopeInv, TypeOK, r
  <2>2. CASE v # w
    BY <1>1, <1>4, <2>2 DEF ScopeInv, ScopesNested, TypeOK
  <2> QED BY <2>1, <2>2
<1>7. SpansChained'
  BY <1>4 DEF ScopeInv, SpansChained, Layers
<1>8. PolledOnce'
  BY <1>0, <1>1, <1>4 DEF ScopeInv, PolledOnce, TypeOK
<1> QED BY <1>5, <1>6, <1>7, <1>8 DEF ScopeInv

\* A poll that ends, in Pending or in a panic, leaves no span entered.
LEMMA UnwindScope ==
  ASSUME ScopeInv, NEW w \in Workers, NEW to \in {"pending", "dropped"}, Unwind(w, to),
         suspends' \in [Requests -> 0 .. MaxSuspends]
  PROVE  ScopeInv'
<1> DEFINE r == worker[w]
<1>0. Inner \in Nat \ {0} /\ Layers = 1 .. Inner
  BY StackFacts DEF ScopeInv, TypeOK
<1>1. /\ r # None /\ r \in Requests /\ stage[r] = "polling"
      /\ depth[r] \in 0 .. Inner
      /\ current[w] = Scope(r, depth[r])
      /\ \A v \in Workers \ {w} : worker[v] # r
  BY <1>0, Standing DEF Unwind, Handling, ScopeInv, TypeOK
<1>2. SubSeq(current[w], 1, Len(current[w]) - depth[r]) = <<>>
  BY <1>0, <1>1, LeaveScope, EmptyScope
<1>3. current' = [current EXCEPT ![w] = <<>>]
  BY <1>2 DEF Unwind
<1>4. /\ depth' = [depth EXCEPT ![r] = 0]
      /\ stage' = [stage EXCEPT ![r] = to]
      /\ worker' = [worker EXCEPT ![w] = None]
      /\ UNCHANGED <<stack, sent, ext, called, spans, outcome, journal, home>>
  BY DEF Unwind
<1> HIDE DEF r
<1>9. current' \in [Workers -> Seq(Requests \X Layers)]
  <2>1. current \in [Workers -> Seq(Requests \X Layers)]
    BY DEF ScopeInv, TypeOK
  <2>2. <<>> \in Seq(Requests \X Layers)
    OBVIOUS
  <2> QED BY <1>3, <2>1, <2>2
<1>5. TypeOK'
  <2>1. Layers' = Layers /\ Inner' = Inner /\ Spans' = Spans /\ stack' = stack
    BY <1>4 DEF Inner, Layers, Spans, Parents
  <2>2. /\ stage' \in [Requests -> {"new", "pending", "polling", "returning", "done", "dropped"}]
        /\ depth' \in [Requests -> 0 .. Inner]
        /\ suspends' \in [Requests -> 0 .. MaxSuspends]
        /\ worker' \in [Workers -> Requests \cup {None}]
    BY <1>0, <1>1, <1>4 DEF ScopeInv, TypeOK
  <2> QED BY <1>4, <1>9, <2>1, <2>2 DEF ScopeInv, TypeOK, Outcomes
<1>6. ScopesNested'
  BY <1>1, <1>3, <1>4 DEF ScopeInv, ScopesNested, TypeOK, Scope
<1>7. SpansChained'
  BY <1>4 DEF ScopeInv, SpansChained, Layers
<1>8. PolledOnce'
  BY <1>0, <1>1, <1>4 DEF ScopeInv, PolledOnce, TypeOK, r
<1> QED BY <1>5, <1>6, <1>7, <1>8 DEF ScopeInv

LEMMA SuspendScope ==
  ASSUME ScopeInv, NEW w \in Workers, Suspend(w) \/ Panic(w)
  PROVE  ScopeInv'
<1>1. CASE Suspend(w)
  <2>1. worker[w] \in Requests
    BY <1>1, Standing DEF Suspend, Handling
  <2>2. suspends' \in [Requests -> 0 .. MaxSuspends]
    BY <1>1, <2>1, BoundIsNat DEF Suspend, ScopeInv, TypeOK
  <2> QED BY <1>1, <2>2, UnwindScope DEF Suspend
<1>2. CASE Panic(w)
  BY <1>2, UnwindScope DEF Panic, ScopeInv, TypeOK
<1> QED BY <1>1, <1>2

\* A poll of a body stands in the span of the request, and leaves it.
LEMMA BeginBodyScope ==
  ASSUME ScopeInv, NEW w \in Workers, NEW r \in Requests, BeginBody(w, r)
  PROVE  ScopeInv'
<1>0. Inner \in Nat \ {0} /\ Layers = 1 .. Inner
  BY StackFacts DEF ScopeInv, TypeOK
<1>1. \A v \in Workers : worker[v] # r
  BY NoneIsNothing DEF BeginBody, HasBody, ScopeInv, PolledOnce
<1>2. current[w] = Scope(r, 0)
  BY EmptyScope DEF BeginBody, ScopeInv, ScopesNested
<1>3. Append(current[w], <<r, 1>>) = Scope(r, 1)
  <2>1. Append(Scope(r, 0), <<r, 0 + 1>>) = Scope(r, 0 + 1)
    BY EnterScope
  <2> QED BY <1>2, <2>1
<1>4. current' = [current EXCEPT ![w] = Scope(r, 1)]
  BY <1>3 DEF BeginBody
<1>5. 1 \in 0 .. Inner
  BY <1>0
<1>6. Scope(r, 1) \in Seq(Requests \X Layers)
  BY <1>5, ScopeTyped DEF ScopeInv, TypeOK
<1>7. current \in [Workers -> Seq(Requests \X Layers)]
  BY DEF ScopeInv, TypeOK
<1>8. current' \in [Workers -> Seq(Requests \X Layers)]
  BY <1>4, <1>6, <1>7
<1>9. TypeOK'
  BY <1>5, <1>8 DEF BeginBody, ScopeInv, TypeOK, Inner, Layers, Spans, Parents, Outcomes
<1>10. ScopesNested'
  <2> SUFFICES ASSUME NEW v \in Workers
               PROVE  current'[v] = IF worker'[v] = None THEN <<>> ELSE Scope(worker'[v], depth'[worker'[v]])
    BY DEF ScopesNested, Scope
  <2>1. CASE v = w
    <3>1. worker'[v] = r /\ depth'[r] = 1 /\ r # None
      BY <2>1, NoneIsNothing DEF BeginBody, ScopeInv, TypeOK
    <3>2. current'[v] = Scope(r, 1)
      BY <1>4, <1>7, <2>1
    <3> QED BY <3>1, <3>2
  <2>2. CASE v # w
    BY <1>1, <1>4, <1>7, <2>2 DEF BeginBody, ScopeInv, ScopesNested, TypeOK
  <2> QED BY <2>1, <2>2
<1>11. SpansChained'
  BY DEF BeginBody, ScopeInv, SpansChained, Layers
<1>12. PolledOnce'
  BY <1>0, <1>1, <1>5 DEF BeginBody, HasBody, ScopeInv, PolledOnce, TypeOK
<1> QED BY <1>9, <1>10, <1>11, <1>12 DEF ScopeInv

LEMMA StreamingOne ==
  ASSUME ScopeInv, NEW w \in Workers, Streaming(w)
  PROVE  /\ worker[w] \in Requests /\ worker[w] # None /\ stage[worker[w]] = "done"
         /\ stack = <<"actix">> /\ depth[worker[w]] = 1
         /\ current[w] = Scope(worker[w], 1)
<1>1. worker[w] # None /\ stage[worker[w]] = "done"
  BY DEF Streaming
<1>2. worker[w] \in Requests /\ current[w] = Scope(worker[w], depth[worker[w]])
  BY <1>1, Standing
<1>3. stack = <<"actix">> /\ depth[worker[w]] = 1
  BY <1>1 DEF ScopeInv, PolledOnce
<1> QED BY <1>1, <1>2, <1>3

LEMMA EndBodyScope ==
  ASSUME ScopeInv, NEW w \in Workers, EndBody(w)
  PROVE  ScopeInv'
<1> DEFINE r == worker[w]
<1>0. Inner \in Nat \ {0} /\ Layers = 1 .. Inner
  BY StackFacts DEF ScopeInv, TypeOK
<1>1. /\ r \in Requests /\ r # None /\ stage[r] = "done"
      /\ current[w] = Scope(r, 1)
      /\ \A v \in Workers \ {w} : worker[v] # r
  BY StreamingOne, Standing DEF EndBody
<1>2. SubSeq(current[w], 1, Len(current[w]) - 1) = <<>>
  <2>1. 1 \in Nat /\ 1 \in 0 .. 1 /\ 1 - 1 = 0
    OBVIOUS
  <2>2. SubSeq(Scope(r, 1), 1, Len(Scope(r, 1)) - 1) = Scope(r, 1 - 1)
    BY <2>1, LeaveScope
  <2> QED BY <1>1, <2>1, <2>2, EmptyScope
<1>3. /\ current' = [current EXCEPT ![w] = <<>>]
      /\ depth' = [depth EXCEPT ![r] = 0]
      /\ worker' = [worker EXCEPT ![w] = None]
      /\ UNCHANGED <<stack, sent, ext, stage, called, spans, outcome, journal, suspends, home>>
  BY <1>2 DEF EndBody
<1> HIDE DEF r
<1>4. current' \in [Workers -> Seq(Requests \X Layers)]
  <2>1. current \in [Workers -> Seq(Requests \X Layers)]
    BY DEF ScopeInv, TypeOK
  <2>2. <<>> \in Seq(Requests \X Layers)
    OBVIOUS
  <2> QED BY <1>3, <2>1, <2>2
<1>5. TypeOK'
  <2>1. Layers' = Layers /\ Inner' = Inner /\ Spans' = Spans
    BY <1>3 DEF Inner, Layers, Spans, Parents
  <2>2. depth' \in [Requests -> 0 .. Inner] /\ worker' \in [Workers -> Requests \cup {None}]
    BY <1>0, <1>1, <1>3 DEF ScopeInv, TypeOK
  <2> QED BY <1>3, <1>4, <2>1, <2>2 DEF ScopeInv, TypeOK, Outcomes
<1>6. ScopesNested'
  BY <1>1, <1>3 DEF ScopeInv, ScopesNested, TypeOK, Scope
<1>7. SpansChained'
  BY <1>3 DEF ScopeInv, SpansChained, Layers
<1>8. PolledOnce'
  BY <1>0, <1>1, <1>3 DEF ScopeInv, PolledOnce, TypeOK, r
<1> QED BY <1>5, <1>6, <1>7, <1>8 DEF ScopeInv

LEMMA ReturnScope ==
  ASSUME ScopeInv, NEW w \in Workers, Return(w)
  PROVE  ScopeInv'
<1> DEFINE r == worker[w]
           n == depth[r]
<1>0. Inner \in Nat \ {0} /\ Layers = 1 .. Inner
  BY StackFacts DEF ScopeInv, TypeOK
<1>a. r # None /\ stage[r] = "returning"
  BY DEF Return
<1>b. /\ r \in Requests /\ n \in 0 .. Inner /\ current[w] = Scope(r, n)
      /\ \A v \in Workers \ {w} : worker[v] # r
  BY <1>a, Standing
<1>c. n > 0 /\ n <= called[r]
  BY <1>a, <1>b DEF ScopeInv, PolledOnce
<1>1. /\ r # None /\ r \in Requests /\ stage[r] = "returning"
      /\ n \in 1 .. Inner /\ n <= called[r]
      /\ current[w] = Scope(r, n)
      /\ \A v \in Workers \ {w} : worker[v] # r
  BY <1>0, <1>a, <1>b, <1>c
<1>2. SubSeq(current[w], 1, Len(current[w]) - 1) = Scope(r, n - 1)
  <2>1. n \in Nat /\ 1 \in 0 .. n
    BY <1>0, <1>1
  <2> HIDE DEF r, n
  <2> QED BY <1>1, <2>1, LeaveScope
<1>3. Scope(r, n - 1) \in Seq(Requests \X Layers)
  BY <1>0, <1>1, ScopeTyped DEF ScopeInv, TypeOK
<1>4. /\ current' = [current EXCEPT ![w] = Scope(r, n - 1)]
      /\ depth' = [depth EXCEPT ![r] = n - 1]
      /\ worker' = [worker EXCEPT ![w] = IF n = 1 THEN None ELSE r]
      /\ stage' = [stage EXCEPT ![r] = IF n = 1 THEN "done" ELSE "returning"]
      /\ UNCHANGED <<stack, sent, ext, called, suspends, home>>
  BY <1>2 DEF Return
<1>5. /\ spans' = spans \/ spans' = [spans EXCEPT ![r][n].status = outcome[r].status]
      /\ outcome' = outcome
         \/ outcome' = [outcome EXCEPT ![r].header = IF @ = None THEN spans[r][n].id ELSE @]
  BY DEF Return, TraceReturn, LoggingReturn, ActixReturn, RecordStatus, EchoId
<1> HIDE DEF r, n
<1>6. /\ spans' \in [Requests -> [Layers -> Spans]]
      /\ outcome' \in [Requests -> Outcomes]
      /\ \A q \in Requests, k \in Layers : spans'[q][k].parent = spans[q][k].parent
  <2>1. /\ spans \in [Requests -> [Layers -> Spans]] /\ outcome \in [Requests -> Outcomes]
        /\ n \in Layers
    BY <1>0, <1>1 DEF ScopeInv, TypeOK
  <2>2. spans[r][n] \in Spans /\ outcome[r] \in Outcomes
    BY <1>1, <2>1
  <2>3. [spans[r][n] EXCEPT !.status = outcome[r].status] \in Spans
    BY <2>2 DEF Spans, Outcomes
  <2>4. [outcome[r] EXCEPT !.header = IF @ = None THEN spans[r][n].id ELSE @] \in Outcomes
    BY <2>2 DEF Spans, Outcomes
  <2>5. /\ spans' \in [Requests -> [Layers -> Spans]]
        /\ \A q \in Requests, k \in Layers : spans'[q][k].parent = spans[q][k].parent
    <3>1. CASE spans' = spans
      BY <2>1, <3>1
    <3>2. CASE spans' = [spans EXCEPT ![r][n].status = outcome[r].status]
      <4>1. [spans[r][n] EXCEPT !.status = outcome[r].status].parent = spans[r][n].parent
        BY <2>2 DEF Spans
      <4> QED BY <1>1, <2>1, <2>3, <3>2, <4>1
    <3> QED BY <1>5, <3>1, <3>2
  <2>6. outcome' \in [Requests -> Outcomes]
    BY <1>1, <1>5, <2>1, <2>4
  <2> QED BY <2>5, <2>6
<1>11. current' \in [Workers -> Seq(Requests \X Layers)]
  <2>1. current \in [Workers -> Seq(Requests \X Layers)]
    BY DEF ScopeInv, TypeOK
  <2> QED BY <1>3, <1>4, <2>1
<1>7. TypeOK'
  <2>1. Layers' = Layers /\ Inner' = Inner /\ Spans' = Spans /\ stack' = stack
    BY <1>4 DEF Inner, Layers, Spans, Parents
  <2>2. /\ stage' \in [Requests -> {"new", "pending", "polling", "returning", "done", "dropped"}]
        /\ depth' \in [Requests -> 0 .. Inner]
        /\ worker' \in [Workers -> Requests \cup {None}]
    BY <1>0, <1>1, <1>4 DEF ScopeInv, TypeOK
  <2> QED BY <1>4, <1>6, <1>11, <2>1, <2>2 DEF ScopeInv, TypeOK, Outcomes
<1>8. ScopesNested'
  <2> SUFFICES ASSUME NEW v \in Workers
               PROVE  current'[v] = IF worker'[v] = None THEN <<>> ELSE Scope(worker'[v], depth'[worker'[v]])
    BY DEF ScopesNested, Scope
  <2>1. CASE v = w /\ n = 1
    BY <1>1, <1>4, <2>1, EmptyScope DEF ScopeInv, TypeOK
  <2>2. CASE v = w /\ n # 1
    BY <1>1, <1>4, <2>2 DEF ScopeInv, TypeOK
  <2>3. CASE v # w
    BY <1>1, <1>4, <2>3 DEF ScopeInv, ScopesNested, TypeOK
  <2> QED BY <2>1, <2>2, <2>3
<1>9. SpansChained'
  BY <1>4, <1>6 DEF ScopeInv, SpansChained, Layers
<1>10. PolledOnce'
  <2>1. \A v \in Workers : worker'[v] # None => worker'[v] = worker[v]
    BY <1>1, <1>4 DEF ScopeInv, TypeOK, r
  <2>2. \A u, v \in Workers : worker'[u] = worker'[v] /\ worker'[u] # None => u = v
    BY <2>1 DEF ScopeInv, PolledOnce
  <2>3. ASSUME NEW v \in Workers, worker'[v] # None
        PROVE  \/ stage'[worker'[v]] \in {"polling", "returning"}
               \/ stack' = <<"actix">> /\ stage'[worker'[v]] = "done" /\ depth'[worker'[v]] = 1
    <3>1. CASE v = w
      <4>1. worker'[v] = r /\ n # 1
        BY <1>1, <1>4, <2>3, <3>1 DEF ScopeInv, TypeOK
      <4>2. stage'[r] = "returning"
        BY <1>1, <1>4, <4>1 DEF ScopeInv, TypeOK
      <4> QED BY <4>1, <4>2
    <3>2. CASE v # w
      <4>1. worker'[v] = worker[v] /\ worker[v] \in Requests /\ worker[v] # r
        BY <1>1, <1>4, <2>1, <2>3, <3>2 DEF ScopeInv, TypeOK
      <4>2. stage'[worker[v]] = stage[worker[v]] /\ depth'[worker[v]] = depth[worker[v]] /\ stack' = stack
        BY <1>4, <4>1 DEF ScopeInv, TypeOK
      <4> QED BY <2>3, <4>1, <4>2 DEF ScopeInv, PolledOnce
    <3> QED BY <3>1, <3>2
  <2>4. \A q \in Requests :
          /\ stage'[q] = "new" <=> called'[q] = 0
          /\ depth'[q] <= called'[q]
          /\ stage'[q] = "returning" => depth'[q] > 0
    BY <1>0, <1>1, <1>4 DEF ScopeInv, PolledOnce, TypeOK
  <2> QED BY <2>2, <2>3, <2>4 DEF PolledOnce
<1> QED BY <1>7, <1>8, <1>9, <1>10 DEF ScopeInv

\* The steps that enter and leave no span.
LEMMA OtherScope ==
  ASSUME ScopeInv,
         \/ \E w \in Workers : Emit(w) \/ Resolve(w) \/ EmitBody(w)
         \/ \E r \in Requests : Drop(r)
         \/ UNCHANGED vars
  PROVE  ScopeInv'
<1>0. Inner \in Nat \ {0} /\ Layers = 1 .. Inner
  BY StackFacts DEF ScopeInv, TypeOK
<1>1. UNCHANGED <<stack, sent, ext, called, depth, spans, suspends, home, worker, current>>
  BY DEF Emit, Resolve, EmitBody, Drop, Record, vars
<1>2. UNCHANGED stage
      \/ (\E r \in Requests : stage[r] = "pending" /\ stage' = [stage EXCEPT ![r] = "dropped"])
      \/ \E w \in Workers : /\ Handling(w)
                            /\ stage' = [stage EXCEPT ![worker[w]] = "returning"]
  BY DEF Emit, Resolve, EmitBody, Drop, vars
<1>3. outcome' \in [Requests -> Outcomes]
  BY DEF Emit, Resolve, EmitBody, Drop, vars, ScopeInv, TypeOK
<1>4. TypeOK'
  BY <1>1, <1>2, <1>3 DEF ScopeInv, TypeOK, Inner, Layers, Spans, Parents, Outcomes
<1>5. ScopesNested' /\ SpansChained'
  BY <1>1 DEF ScopeInv, ScopesNested, SpansChained, Scope, Layers
<1>6. PolledOnce'
  <2>1. CASE UNCHANGED stage
    BY <1>1, <2>1 DEF ScopeInv, PolledOnce
  <2>2. CASE \E r \in Requests : stage[r] = "pending" /\ stage' = [stage EXCEPT ![r] = "dropped"]
    BY <1>1, <2>2 DEF ScopeInv, PolledOnce, TypeOK
  <2>3. CASE \E w \in Workers : Handling(w) /\ stage' = [stage EXCEPT ![worker[w]] = "returning"]
    <3>1. PICK w \in Workers : Handling(w) /\ stage' = [stage EXCEPT ![worker[w]] = "returning"]
      BY <2>3
    <3>2. worker[w] \in Requests /\ depth[worker[w]] > 0 /\ stage[worker[w]] = "polling"
      BY <1>0, <3>1 DEF Handling, ScopeInv, TypeOK
    <3> QED BY <1>1, <3>1, <3>2 DEF ScopeInv, PolledOnce, TypeOK
  <2> QED BY <1>2, <2>1, <2>2, <2>3
<1> QED BY <1>4, <1>5, <1>6 DEF ScopeInv

-----------------------------------------------------------------------------
LEMMA ScopeStep == ScopeInv /\ [Next]_vars => ScopeInv'
  BY CallScope, CallInnerScope, BeginPollScope, EnterScopeInv, SuspendScope,
     ReturnScope, BeginBodyScope, EndBodyScope, OtherScope DEF Next

(* However many requests, workers and layers there are and however polls   *)
(* interleave, ScopeInv holds of every reachable state.                    *)
THEOREM ScopesInvariant == Spec => []ScopeInv
<1>1. Init => ScopeInv
  BY InitScope
<1> QED BY <1>1, ScopeStep, PTL DEF Spec

(* The state keeps its shape; in particular no layer's span ever takes a   *)
(* parent that is not a span of this server.                               *)
THEOREM TracingWellFormed == Spec => []TypeOK
BY ScopesInvariant, PTL DEF ScopeInv

(* A worker stands in exactly the spans of the request it is polling: no   *)
(* span leaks into another request that the same thread serves.            *)
THEOREM NoSpanLeaks == Spec => []ScopesNested
BY ScopesInvariant, PTL DEF ScopeInv

(* The spans of a request are chained under its outermost layer's span,    *)
(* whichever thread ran which part of the call.                            *)
THEOREM SpansFormOneChain == Spec => []SpansChained
BY ScopesInvariant, PTL DEF ScopeInv
-----------------------------------------------------------------------------
(* What is recorded belongs to the request it is about. *)

Kinds == {"handler", "api_error", "service_error", "success", "body"}
Events == [what : Kinds, span : Parents]
JournalTyped == journal \in [Requests -> Seq(Events)]

\* The span of e is one of request r's, and the one e has to be in.
Records(n, what) == IF what = "handler" THEN n = Inner ELSE Logs(n)
Fits(r, e) == \E n \in Layers : e.span = <<r, n>> /\ Records(n, e.what)

EventsInv == ScopeInv /\ JournalTyped /\ EventsInOwnSpan

\* Recording an event that fits keeps every event in its own span.
LEMMA RecordFits ==
  ASSUME EventsInv, stack' = stack, NEW r \in Requests, NEW what \in Kinds,
         NEW n \in Layers, Records(n, what), Record(r, what, <<r, n>>)
  PROVE  JournalTyped' /\ EventsInOwnSpan'
<1> DEFINE e == [what |-> what, span |-> <<r, n>>]
<1>0. Layers' = Layers /\ Inner' = Inner /\ Parents' = Parents /\ Events' = Events
  BY DEF Layers, Inner, Parents, Events
<1>1. e \in Events
  BY DEF Events, Parents
<1>2. journal \in [Requests -> Seq(Events)]
  BY DEF EventsInv, JournalTyped
<1>3. journal' = [journal EXCEPT ![r] = Append(@, e)]
  BY DEF Record
<1>4. Fits(r, e)
  BY DEF Fits
<1> HIDE DEF e
<1>5. JournalTyped'
  BY <1>0, <1>1, <1>2, <1>3 DEF JournalTyped
<1>6. ASSUME NEW q \in Requests, NEW i \in DOMAIN journal'[q] PROVE Fits(q, journal'[q][i])
  <2>1. CASE q = r /\ i = Len(journal[r]) + 1
    BY <1>1, <1>2, <1>3, <1>4, <2>1
  <2>2. CASE ~(q = r /\ i = Len(journal[r]) + 1)
    <3>1. i \in DOMAIN journal[q] /\ journal'[q][i] = journal[q][i]
      BY <1>1, <1>2, <1>3, <2>2
    <3> QED BY <3>1 DEF EventsInv, EventsInOwnSpan, Fits, Records
  <2> QED BY <2>1, <2>2
<1>7. EventsInOwnSpan'
  BY <1>0, <1>6 DEF EventsInOwnSpan, Fits, Records, Logs
<1> QED BY <1>5, <1>7

LEMMA EmitFits ==
  ASSUME EventsInv, NEW w \in Workers, Emit(w)
  PROVE  JournalTyped' /\ EventsInOwnSpan'
<1>0. Inner \in Nat \ {0} /\ Layers = 1 .. Inner
  BY StackFacts DEF EventsInv, ScopeInv, TypeOK
<1>1. /\ worker[w] \in Requests /\ depth[worker[w]] = Inner
      /\ current[w] = Scope(worker[w], Inner)
  BY Standing DEF Emit, Handling, EventsInv
<1>2. Top(current[w]) = <<worker[w], Inner>>
  BY <1>0, <1>1, TopOfScope
<1>3. Record(worker[w], "handler", <<worker[w], Inner>>) /\ stack' = stack
  BY <1>2 DEF Emit
<1>4. Inner \in Layers /\ Records(Inner, "handler") /\ "handler" \in Kinds
  BY <1>0 DEF Records, Kinds
<1> QED BY <1>1, <1>3, <1>4, RecordFits

LEMMA ReturnFits ==
  ASSUME EventsInv, NEW w \in Workers, Return(w)
  PROVE  JournalTyped' /\ EventsInOwnSpan'
<1> DEFINE r == worker[w]
           n == depth[r]
<1>0. Inner \in Nat \ {0} /\ Layers = 1 .. Inner
  BY StackFacts DEF EventsInv, ScopeInv, TypeOK
<1>1. r \in Requests /\ n \in Layers /\ current[w] = Scope(r, n)
  BY <1>0, Standing DEF Return, EventsInv, ScopeInv, PolledOnce
<1>2. n \in Nat /\ n # 0
  BY <1>0, <1>1
<1>3. Top(current[w]) = <<r, n>>
  BY <1>1, <1>2, TopOfScope
<1>4. stack' = stack
  BY DEF Return
<1>5. \/ UNCHANGED journal
      \/ Logs(n) /\ \E what \in {"api_error", "service_error", "success"} :
                       Record(r, what, <<r, n>>)
  BY <1>3 DEF Return, TraceReturn, LoggingReturn, ActixReturn, Logs
<1>6. CASE UNCHANGED journal
  BY <1>4, <1>6 DEF EventsInv, JournalTyped, EventsInOwnSpan, Events, Kinds, Parents, Layers, Inner, Logs
<1> HIDE DEF r, n
<1>7. ASSUME NEW what \in {"api_error", "service_error", "success"}, Logs(n), Record(r, what, <<r, n>>)
      PROVE  JournalTyped' /\ EventsInOwnSpan'
  <2>1. Records(n, what) /\ what \in Kinds
    BY <1>7 DEF Records, Kinds
  <2> QED BY <1>1, <1>4, <1>7, <2>1, RecordFits
<1> QED BY <1>5, <1>6, <1>7

LEMMA StreamFits ==
  ASSUME EventsInv, NEW w \in Workers, EmitBody(w)
  PROVE  JournalTyped' /\ EventsInOwnSpan'
<1>0. Inner \in Nat \ {0} /\ Layers = 1 .. Inner
  BY StackFacts DEF EventsInv, ScopeInv, TypeOK
<1>1. worker[w] \in Requests /\ stack = <<"actix">> /\ current[w] = Scope(worker[w], 1)
  BY StreamingOne DEF EmitBody, EventsInv
<1>2. Top(current[w]) = <<worker[w], 1>>
  BY <1>1, TopOfScope
<1>3. Record(worker[w], "body", <<worker[w], 1>>) /\ stack' = stack
  BY <1>2 DEF EmitBody
<1>4. 1 \in Layers /\ Records(1, "body") /\ "body" \in Kinds
  BY <1>0, <1>1 DEF Logs, Records, Kinds
<1> QED BY <1>1, <1>3, <1>4, RecordFits

LEMMA EventsInit == Init => EventsInv
<1>1. ASSUME Init PROVE JournalTyped /\ EventsInOwnSpan
  BY <1>1 DEF Init, JournalTyped, EventsInOwnSpan
<1> QED BY <1>1, InitScope DEF EventsInv

LEMMA EventsStep == EventsInv /\ [Next]_vars => EventsInv'
<1> SUFFICES ASSUME EventsInv, [Next]_vars PROVE JournalTyped' /\ EventsInOwnSpan'
  BY ScopeStep DEF EventsInv
<1>1. CASE UNCHANGED <<journal, stack>>
  BY <1>1 DEF EventsInv, JournalTyped, EventsInOwnSpan, Events, Kinds, Parents, Layers, Inner, Logs
<1>2. \/ UNCHANGED <<journal, stack>>
      \/ \E w \in Workers : Emit(w) \/ Return(w) \/ EmitBody(w)
  BY DEF Next, vars, Call, BeginPoll, Enter, CallInner, Suspend, Panic, Unwind, Resolve, BeginBody,
         EndBody, Drop
<1> QED BY <1>1, <1>2, EmitFits, ReturnFits, StreamFits

(* Whatever is recorded while requests are called, polled and streamed on  *)
(* any threads lands in a span of the request it is about: a handler's     *)
(* events in the innermost span, a logger's in the logger's own.           *)
THEOREM EventsStayHome == Spec => []EventsInOwnSpan
<1>1. EventsInv => EventsInOwnSpan
  BY DEF EventsInv
<1> QED BY <1>1, EventsInit, EventsStep, PTL DEF Spec

-----------------------------------------------------------------------------
(* What reaches the answer, the spans and the extensions. *)

\* A server has one layer that knows ids, if any, and one that logs, if any.
LEMMA OneOfAKind ==
  ASSUME stack \in Stacks, NEW m \in Layers, NEW n \in Layers
  PROVE  /\ HasId(m) /\ HasId(n) => m = n
         /\ Logs(m) /\ Logs(n) => m = n
         /\ stack[m] = "actix" => stack = <<"actix">> /\ Inner = 1 /\ m = 1
         /\ stack = <<"actix">> => stack[m] = "actix"
         /\ stack[m] \in LayerKinds
<1>1. stack \in Seq(LayerKinds) /\ \A k, l \in Layers : stack[k] = stack[l] => k = l
  BY EachLayerOnce DEF Layers
<1>2. (\E k \in Layers : stack[k] = "actix") => stack = <<"actix">>
  BY ActixAlone DEF Layers
<1>3. stack = <<"actix">> => Inner = 1 /\ Layers = {1} /\ stack[1] = "actix"
  BY DEF Inner, Layers
<1>4. stack[m] \in LayerKinds /\ stack[n] \in LayerKinds
  BY <1>1 DEF Layers
<1> QED BY <1>1, <1>2, <1>3, <1>4 DEF HasId, Logs, LayerKinds

Settles(r, n, s, last, seen) ==
  /\ called' = [called EXCEPT ![r] = last]
  /\ ext' = [ext EXCEPT ![r] = seen]
  /\ \A q \in Requests \ {r} : spans'[q] = spans[q]
  /\ \A k \in Layers :
       IF k \notin n .. last THEN spans'[r][k] = spans[r][k]
       ELSE spans'[r][k].id = seen /\ spans'[r][k].status = None
  /\ IF \E k \in Layers : k \in n .. last /\ HasId(k)
     THEN seen # None /\ (s # None => seen = s)
     ELSE seen = ext[r]

\* What opening spans settles: the id of the layers called, and whether the
\* extensions have one.
LEMMA OpenedIds ==
  ASSUME TypeOK, NEW r \in Requests, NEW n \in 1 .. Inner,
         NEW s \in Ids \cup {None}, NEW top, Open(r, n, s, top)
  PROVE  \E last \in n .. Inner, seen \in Ids \cup {None} : Settles(r, n, s, last, seen)
<1>0. Inner \in Nat \ {0} /\ Layers = 1 .. Inner
  BY StackFacts DEF TypeOK
<1> DEFINE last == LastCalled(n)
<1>1. last \in n .. Inner
  BY <1>0 DEF LastCalled
<1> HIDE DEF last
<1>2. PICK id \in ResolvedIds(s) :
        LET seen == IF \E k \in Layers : k \in n .. last /\ HasId(k) THEN id ELSE ext[r]
        IN  /\ ext' = [ext EXCEPT ![r] = seen]
            /\ spans' = [spans EXCEPT ![r] = [k \in Layers |->
                           IF k \notin n .. last THEN @[k]
                           ELSE [parent |-> Parent(r, n, k, top), id |-> seen, status |-> None]]]
            /\ called' = [called EXCEPT ![r] = last]
  BY DEF Open, last
<1> DEFINE seen == IF \E k \in Layers : k \in n .. last /\ HasId(k) THEN id ELSE ext[r]
<1>3. id \in Ids \cup {None} /\ id # None /\ (s # None => id = s)
  BY NoneIsNothing DEF ResolvedIds
<1>4. seen \in Ids \cup {None}
  BY <1>3 DEF TypeOK
<1>5. IF \E k \in Layers : k \in n .. last /\ HasId(k)
      THEN seen # None /\ (s # None => seen = s)
      ELSE seen = ext[r]
  BY <1>3
<1>6. ext' = [ext EXCEPT ![r] = seen] /\ called' = [called EXCEPT ![r] = last]
  BY <1>2
<1>7. /\ \A q \in Requests \ {r} : spans'[q] = spans[q]
      /\ \A k \in Layers :
           IF k \notin n .. last THEN spans'[r][k] = spans[r][k]
           ELSE spans'[r][k].id = seen /\ spans'[r][k].status = None
  BY <1>2 DEF TypeOK
<1> HIDE DEF seen
<1>8. Settles(r, n, s, last, seen)
  BY <1>5, <1>6, <1>7 DEF Settles
<1> QED BY <1>1, <1>4, <1>8

\* The layers from n on are called: their spans have the id that is known now.
LEMMA OpenAnswer ==
  ASSUME AnswerInv, NEW r \in Requests, NEW n \in 1 .. Inner, n = called[r] + 1,
         NEW s \in Ids \cup {None}, sent' = [sent EXCEPT ![r] = s],
         n # 1 => s = sent[r], NEW top, Open(r, n, s, top),
         stage[r] \in {"new", "polling"},
         stage' \in {stage, [stage EXCEPT ![r] = "pending"]},
         UNCHANGED <<stack, outcome, depth>>
  PROVE  AnsweredByHandler' /\ IdSettled' /\ Correlated' /\ StatusOnEverySpan'
<1>0. Inner \in Nat \ {0} /\ Layers = 1 .. Inner /\ stack \in Stacks
  BY StackFacts DEF AnswerInv, ScopeInv, TypeOK
<1>a. TypeOK
  BY DEF AnswerInv, ScopeInv
<1>b. PICK last \in n .. Inner, seen \in Ids \cup {None} : Settles(r, n, s, last, seen)
  BY <1>a, OpenedIds
<1>1. /\ called' = [called EXCEPT ![r] = last]
      /\ ext' = [ext EXCEPT ![r] = seen]
      /\ \A q \in Requests \ {r} : spans'[q] = spans[q]
      /\ \A k \in Layers :
           IF k \notin n .. last THEN spans'[r][k] = spans[r][k]
           ELSE spans'[r][k].id = seen /\ spans'[r][k].status = None
      /\ IF \E k \in Layers : k \in n .. last /\ HasId(k)
         THEN seen # None /\ (s # None => seen = s)
         ELSE seen = ext[r]
  BY <1>b DEF Settles
<1>2. /\ Layers' = Layers /\ Inner' = Inner
      /\ \A k : HasId(k)' <=> HasId(k)
  BY DEF Layers, Inner, HasId
<1>3. /\ stage'[r] \in {"new", "pending", "polling"}
      /\ \A q \in Requests \ {r} : stage'[q] = stage[q] /\ ext'[q] = ext[q] /\ called'[q] = called[q] /\ sent'[q] = sent[q]
      /\ called'[r] = last /\ ext'[r] = seen /\ sent'[r] = s
  BY <1>1, <1>a DEF TypeOK
<1>4. AnsweredByHandler'
  BY <1>2, <1>3 DEF AnswerInv, AnsweredByHandler
<1>5. \A q \in Requests, k \in Layers : Answered(q, k)' <=> (q # r /\ Answered(q, k))
  BY <1>3 DEF Answered
<1>6. ~\E k \in Layers : Answered(r, k)
  BY DEF Answered
<1>7. StatusOnEverySpan'
  <2>1. \A k \in Layers : spans'[r][k].status = None
    BY <1>1, <1>6 DEF AnswerInv, StatusOnEverySpan
  <2> QED BY <1>1, <1>2, <1>5, <2>1 DEF AnswerInv, StatusOnEverySpan
\* A layer that has ids and is called now is the first one.
<1>8. (\E k \in Layers : k \in n .. last /\ HasId(k)) => ext[r] = None
  BY <1>0, <1>a, OneOfAKind DEF AnswerInv, IdSettled, TypeOK
<1>9. seen # None <=> \E k \in Layers : k <= last /\ HasId(k)
  <2>1. CASE \E k \in Layers : k \in n .. last /\ HasId(k)
    BY <1>0, <1>1, <2>1
  <2>2. CASE ~\E k \in Layers : k \in n .. last /\ HasId(k)
    <3>1. \A k \in Layers : k <= last /\ HasId(k) => k <= called[r]
      BY <1>0, <1>a, <2>2 DEF TypeOK
    <3>2. \A k \in Layers : k <= called[r] => k <= last
      BY <1>0, <1>a DEF TypeOK
    <3> QED BY <1>1, <2>2, <3>1, <3>2 DEF AnswerInv, IdSettled
  <2> QED BY <2>1, <2>2
<1>10. IdSettled'
  <2>1. outcome[r].header = None
    BY DEF AnswerInv, AnsweredByHandler
  <2> QED BY <1>2, <1>3, <1>5, <1>9, <2>1 DEF AnswerInv, IdSettled
<1>11. s # None => seen \in {None, s}
  BY <1>0, <1>1, <1>a DEF AnswerInv, Correlated, IdSettled, TypeOK
<1>12. ASSUME NEW k \in Layers, k <= last
       PROVE  /\ spans'[r][k].id # None => spans'[r][k].id = seen
              /\ (\E m \in 1 .. k : HasId(m)) => spans'[r][k].id # None
  <2>1. CASE k \in n .. last
    <3>1. (\E m \in 1 .. k : HasId(m)) => seen # None
      BY <1>0, <1>9, <2>1
    <3> QED BY <1>1, <2>1, <3>1
  <2>2. CASE k \notin n .. last
    <3>1. k <= called[r] /\ spans'[r][k] = spans[r][k]
      BY <1>0, <1>1, <1>12, <1>a, <2>2 DEF TypeOK
    <3>2. /\ spans[r][k].id # None => spans[r][k].id = ext[r]
          /\ (\E m \in 1 .. k : HasId(m)) => spans[r][k].id # None
      BY <3>1 DEF AnswerInv, Correlated
    <3> QED BY <1>1, <1>8, <3>1, <3>2
  <2> QED BY <2>1, <2>2
<1>13. Correlated'
  BY <1>1, <1>2, <1>3, <1>11, <1>12 DEF AnswerInv, Correlated
<1> QED BY <1>4, <1>7, <1>10, <1>13

LEMMA CallAnswer ==
  ASSUME AnswerInv, NEW w \in Workers, NEW r \in Requests, Call(w, r)
  PROVE  AnsweredByHandler' /\ IdSettled' /\ Correlated' /\ StatusOnEverySpan'
<1>0. Inner \in Nat \ {0}
  BY StackFacts DEF AnswerInv, ScopeInv, TypeOK
<1>1. stage[r] = "new" /\ called[r] = 0
  BY DEF Call, AnswerInv, ScopeInv, PolledOnce
<1>2. PICK s \in Ids \cup {None} :
        sent' = [sent EXCEPT ![r] = s] /\ Open(r, 1, s, Top(current[w]))
  BY DEF Call
<1>3. /\ stage' \in {stage, [stage EXCEPT ![r] = "pending"]}
      /\ UNCHANGED <<stack, outcome, depth>>
  BY DEF Call
<1>4. 1 \in 1 .. Inner /\ 1 = called[r] + 1
  BY <1>0, <1>1
<1> DEFINE top == Top(current[w])
<1>5. Open(r, 1, s, top)
  BY <1>2
<1> HIDE DEF top
<1> QED BY <1>1, <1>2, <1>3, <1>4, <1>5, OpenAnswer

LEMMA CallInnerAnswer ==
  ASSUME AnswerInv, NEW w \in Workers, CallInner(w)
  PROVE  AnsweredByHandler' /\ IdSettled' /\ Correlated' /\ StatusOnEverySpan'
<1> DEFINE r == worker[w]
           n == called[r] + 1
           top == Top(current[w])
<1>0. Inner \in Nat \ {0} /\ TypeOK
  BY StackFacts DEF AnswerInv, ScopeInv, TypeOK
<1>1. r \in Requests /\ stage[r] = "polling" /\ n \in 1 .. Inner /\ sent[r] \in Ids \cup {None}
  BY <1>0 DEF CallInner, TypeOK
<1>2. /\ Open(r, n, sent[r], top)
      /\ UNCHANGED <<stack, sent, outcome, depth, stage>>
  BY DEF CallInner
<1>3. sent' = [sent EXCEPT ![r] = sent[r]]
  BY <1>0, <1>1, <1>2 DEF TypeOK
<1>4. n = called[r] + 1
  OBVIOUS
<1> HIDE DEF r, n, top
<1> QED BY <1>1, <1>2, <1>3, <1>4, OpenAnswer

\* Before there is an answer, polls may begin, end and be dropped.
LEMMA QuietAnswer ==
  ASSUME AnswerInv, UNCHANGED <<stack, sent, ext, called, spans, outcome>>,
         \A r \in Requests :
           \/ stage'[r] = stage[r] /\ depth'[r] = depth[r]
           \/ {stage[r], stage'[r]} \subseteq {"pending", "polling", "dropped"}
           \/ stage[r] = "done" /\ stage'[r] = "done"
  PROVE  AnsweredByHandler' /\ IdSettled' /\ Correlated' /\ StatusOnEverySpan'
<1>1. /\ Layers' = Layers /\ Inner' = Inner
      /\ \A k : HasId(k)' <=> HasId(k)
  BY DEF Layers, Inner, HasId
<1>2. \A r \in Requests :
        /\ stage'[r] \in {"returning", "done"} <=> stage[r] \in {"returning", "done"}
        /\ stage'[r] = "done" <=> stage[r] = "done"
        /\ \A n \in Layers : Answered(r, n)' <=> Answered(r, n)
  BY DEF Answered
<1>3. AnsweredByHandler'
  BY <1>1, <1>2 DEF AnswerInv, AnsweredByHandler
<1>4. IdSettled'
  BY <1>1, <1>2 DEF AnswerInv, IdSettled
<1>5. Correlated'
  BY <1>1, <1>2 DEF AnswerInv, Correlated
<1>6. StatusOnEverySpan'
  BY <1>1, <1>2 DEF AnswerInv, StatusOnEverySpan
<1> QED BY <1>3, <1>4, <1>5, <1>6

LEMMA ResolveAnswer ==
  ASSUME AnswerInv, NEW w \in Workers, Resolve(w)
  PROVE  AnsweredByHandler' /\ IdSettled' /\ Correlated' /\ StatusOnEverySpan'
<1> DEFINE r == worker[w]
<1>0. Inner \in Nat \ {0} /\ Layers = 1 .. Inner /\ TypeOK
  BY StackFacts DEF AnswerInv, ScopeInv, TypeOK
<1>1. r \in Requests /\ stage[r] = "polling" /\ depth[r] = Inner
  BY <1>0 DEF Resolve, Handling, TypeOK
<1>2. called[r] = Inner
  BY <1>0, <1>1 DEF AnswerInv, ScopeInv, PolledOnce, TypeOK
<1>3. PICK o \in Outcomes :
        /\ o.kind # "none" /\ o.header \in {Own, None}
        /\ o.kind = "err" => ~o.carries
        /\ outcome' = [outcome EXCEPT ![r] = o]
  BY DEF Resolve
<1>4. /\ stage' = [stage EXCEPT ![r] = "returning"]
      /\ UNCHANGED <<stack, sent, ext, called, depth, spans>>
  BY DEF Resolve
<1> HIDE DEF r
<1>5. /\ Layers' = Layers /\ Inner' = Inner
      /\ \A k : HasId(k)' <=> HasId(k)
  BY <1>4 DEF Layers, Inner, HasId
<1>6. /\ stage'[r] = "returning" /\ outcome'[r] = o
      /\ \A q \in Requests \ {r} : stage'[q] = stage[q] /\ outcome'[q] = outcome[q]
  BY <1>0, <1>1, <1>3, <1>4 DEF TypeOK
<1>7. \A q \in Requests, k \in Layers : Answered(q, k)' <=> Answered(q, k)
  BY <1>0, <1>1, <1>4, <1>6 DEF Answered
<1>8. \A k \in Layers : ~Answered(r, k)
  BY <1>1 DEF Answered
<1>9. AnsweredByHandler'
  BY <1>2, <1>3, <1>4, <1>5, <1>6 DEF AnswerInv, AnsweredByHandler
<1>10. IdSettled'
  BY <1>3, <1>4, <1>5, <1>6, <1>7, <1>8 DEF AnswerInv, IdSettled
<1>11. Correlated'
  BY <1>4, <1>5, <1>6 DEF AnswerInv, Correlated
<1>12. StatusOnEverySpan'
  <2> SUFFICES ASSUME NEW q \in Requests, NEW k \in Layers
               PROVE  spans'[q][k].status =
                        IF Answered(q, k)' /\ (outcome'[q].kind = "ok" \/ stack' = <<"actix">>)
                        THEN outcome'[q].status ELSE None
    BY <1>5 DEF StatusOnEverySpan
  <2>1. CASE q = r
    BY <1>4, <1>7, <1>8, <2>1 DEF AnswerInv, StatusOnEverySpan
  <2>2. CASE q # r
    BY <1>4, <1>6, <1>7, <2>2 DEF AnswerInv, StatusOnEverySpan
  <2> QED BY <2>1, <2>2
<1> QED BY <1>9, <1>10, <1>11, <1>12

\* What layer n does with the answer that passes it.
Passed(r, n) ==
  /\ \A q \in Requests \ {r} : spans'[q] = spans[q] /\ outcome'[q] = outcome[q]
  /\ \A k \in Layers : spans'[r][k].id = spans[r][k].id
  /\ \A k \in Layers \ {n} : spans'[r][k].status = spans[r][k].status
  /\ spans'[r][n].status = IF outcome[r].kind = "ok" \/ stack = <<"actix">> THEN outcome[r].status
                           ELSE spans[r][n].status
  /\ outcome'[r] = IF outcome[r].kind = "ok" /\ HasId(n) /\ outcome[r].header = None
                   THEN [outcome[r] EXCEPT !.header = ext[r]] ELSE outcome[r]

\* What a worker that returns through a layer has.
LEMMA Returning ==
  ASSUME AnswerInv, NEW w \in Workers, Return(w)
  PROVE  /\ worker[w] \in Requests /\ depth[worker[w]] \in Layers
         /\ stage[worker[w]] = "returning" /\ called[worker[w]] = Inner
         /\ outcome[worker[w]].kind \in {"ok", "err"}
<1>0. Inner \in Nat \ {0} /\ Layers = 1 .. Inner /\ TypeOK
  BY StackFacts DEF AnswerInv, ScopeInv, TypeOK
<1>1. worker[w] \in Requests /\ stage[worker[w]] = "returning"
  BY <1>0 DEF Return, TypeOK
<1>2. depth[worker[w]] \in Layers
  BY <1>0, <1>1 DEF AnswerInv, ScopeInv, PolledOnce, TypeOK
<1>3. called[worker[w]] = Inner /\ outcome[worker[w]].kind # "none"
  BY <1>1 DEF AnswerInv, AnsweredByHandler
<1>4. outcome[worker[w]].kind \in {"ok", "err", "none"}
  BY <1>0, <1>1 DEF TypeOK, Outcomes
<1> QED BY <1>1, <1>2, <1>3, <1>4

LEMMA ReturnPasses ==
  ASSUME AnswerInv, NEW w \in Workers, Return(w)
  PROVE  Passed(worker[w], depth[worker[w]])
<1> DEFINE r == worker[w]
           n == depth[r]
<1>0. Inner \in Nat \ {0} /\ Layers = 1 .. Inner /\ TypeOK
  BY StackFacts DEF AnswerInv, ScopeInv, TypeOK
<1>1. /\ r \in Requests /\ n \in Layers /\ called[r] = Inner
      /\ outcome[r].kind \in {"ok", "err"}
  BY Returning
<1>2. /\ stack[n] \in LayerKinds
      /\ stack[n] = "actix" <=> stack = <<"actix">>
  BY <1>0, <1>1, OneOfAKind DEF TypeOK
<1>3. HasId(n) => spans[r][n].id = ext[r]
  BY <1>0, <1>1 DEF AnswerInv, Correlated
<1>4. spans \in [Requests -> [Layers -> Spans]] /\ outcome \in [Requests -> Outcomes]
  BY <1>0 DEF TypeOK
<1>5. spans[r] \in [Layers -> Spans] /\ spans[r][n] \in Spans /\ outcome[r] \in Outcomes
  BY <1>1, <1>4
<1>6. ASSUME RecordStatus(r, n)
      PROVE  /\ \A q \in Requests \ {r} : spans'[q] = spans[q]
             /\ \A k \in Layers : spans'[r][k].id = spans[r][k].id
             /\ \A k \in Layers \ {n} : spans'[r][k].status = spans[r][k].status
             /\ spans'[r][n].status = outcome[r].status
  <2>1. spans' = [spans EXCEPT ![r] = [spans[r] EXCEPT ![n] = [spans[r][n] EXCEPT !.status = outcome[r].status]]]
    BY <1>6 DEF RecordStatus
  <2>2. [spans[r][n] EXCEPT !.status = outcome[r].status].id = spans[r][n].id
    BY <1>5 DEF Spans
  <2>3. [spans[r][n] EXCEPT !.status = outcome[r].status].status = outcome[r].status
    BY <1>5 DEF Spans
  <2>4. /\ \A q \in Requests \ {r} : spans'[q] = spans[q]
        /\ spans'[r] = [spans[r] EXCEPT ![n] = [spans[r][n] EXCEPT !.status = outcome[r].status]]
    BY <1>1, <1>4, <2>1
  <2>5. /\ \A k \in Layers \ {n} : spans'[r][k] = spans[r][k]
        /\ spans'[r][n] = [spans[r][n] EXCEPT !.status = outcome[r].status]
    BY <1>1, <1>5, <2>4
  <2> QED BY <2>2, <2>3, <2>4, <2>5
<1>7. ASSUME EchoId(r, n), HasId(n)
      PROVE  /\ \A q \in Requests \ {r} : outcome'[q] = outcome[q]
             /\ outcome'[r] = IF outcome[r].header = None THEN [outcome[r] EXCEPT !.header = ext[r]]
                              ELSE outcome[r]
  <2>1. outcome' = [outcome EXCEPT ![r] =
                      [outcome[r] EXCEPT !.header = IF outcome[r].header = None THEN ext[r] ELSE outcome[r].header]]
    BY <1>3, <1>7 DEF EchoId
  <2>2. [outcome[r] EXCEPT !.header = outcome[r].header] = outcome[r]
    BY <1>5 DEF Outcomes
  <2> QED BY <1>1, <1>4, <2>1, <2>2
<1>8. CASE stack[n] = "trace"
  <2>1. TraceReturn(r, n)
    BY <1>8 DEF Return
  <2>2. HasId(n) /\ stack # <<"actix">>
    BY <1>2, <1>8 DEF HasId
  <2>3. CASE outcome[r].kind = "ok"
    <3>1. RecordStatus(r, n) /\ EchoId(r, n)
      BY <2>1, <2>3 DEF TraceReturn
    <3> QED BY <1>6, <1>7, <2>2, <2>3, <3>1 DEF Passed
  <2>4. CASE outcome[r].kind = "err"
    BY <2>1, <2>2, <2>4 DEF TraceReturn, Passed
  <2> QED BY <1>1, <2>3, <2>4
<1>9. CASE stack[n] = "logging"
  <2>1. LoggingReturn(r, n, Top(current[w]))
    BY <1>9 DEF Return
  <2>2. ~HasId(n) /\ stack # <<"actix">>
    BY <1>2, <1>9 DEF HasId
  <2>3. CASE outcome[r].kind = "ok"
    <3>1. RecordStatus(r, n) /\ UNCHANGED outcome
      BY <2>1, <2>3 DEF LoggingReturn
    <3> QED BY <1>6, <2>2, <2>3, <3>1 DEF Passed
  <2>4. CASE outcome[r].kind = "err"
    BY <2>1, <2>2, <2>4 DEF LoggingReturn, Passed
  <2> QED BY <1>1, <2>3, <2>4
<1>10. CASE stack[n] = "actix"
  <2>1. ActixReturn(r, n, Top(current[w]))
    BY <1>10 DEF Return
  <2>2. HasId(n) /\ stack = <<"actix">>
    BY <1>2, <1>10 DEF HasId
  <2>3. CASE outcome[r].kind = "ok"
    <3>1. RecordStatus(r, n) /\ EchoId(r, n)
      BY <2>1, <2>3 DEF ActixReturn
    <3> QED BY <1>6, <1>7, <2>2, <2>3, <3>1 DEF Passed
  <2>4. CASE outcome[r].kind = "err"
    <3>1. RecordStatus(r, n) /\ UNCHANGED outcome
      BY <2>1, <2>4 DEF ActixReturn
    <3> QED BY <1>6, <2>2, <2>4, <3>1 DEF Passed
  <2> QED BY <1>1, <2>3, <2>4
<1> QED BY <1>2, <1>8, <1>9, <1>10 DEF LayerKinds

\* After the return layer n is one more that has passed the answer on.
LEMMA ReturnAnswered ==
  ASSUME AnswerInv, NEW w \in Workers, Return(w)
  PROVE  /\ UNCHANGED <<stack, sent, ext, called>>
         /\ stage'[worker[w]] \in {"returning", "done"}
         /\ \A q \in Requests \ {worker[w]} : stage'[q] = stage[q]
         /\ \A q \in Requests, k \in Layers :
              Answered(q, k)' <=> Answered(q, k) \/ (q = worker[w] /\ k = depth[worker[w]])
         /\ ~Answered(worker[w], depth[worker[w]])
<1> DEFINE r == worker[w]
           n == depth[r]
<1>0. Inner \in Nat \ {0} /\ Layers = 1 .. Inner /\ TypeOK
  BY StackFacts DEF AnswerInv, ScopeInv, TypeOK
<1>1. r \in Requests /\ n \in Layers /\ stage[r] = "returning"
  BY Returning
<1>2. /\ stage' = [stage EXCEPT ![r] = IF n = 1 THEN "done" ELSE "returning"]
      /\ depth' = [depth EXCEPT ![r] = n - 1]
      /\ UNCHANGED <<stack, sent, ext, called>>
  BY DEF Return
<1> HIDE DEF r
<1>3. /\ stage'[r] = IF n = 1 THEN "done" ELSE "returning"
      /\ depth'[r] = n - 1
      /\ \A q \in Requests \ {r} : stage'[q] = stage[q] /\ depth'[q] = depth[q]
  BY <1>0, <1>1, <1>2 DEF TypeOK
<1>4. \A q \in Requests, k \in Layers : Answered(q, k)' <=> Answered(q, k) \/ (q = r /\ k = n)
  BY <1>0, <1>1, <1>3 DEF Answered
<1>5. ~Answered(r, n)
  BY <1>0, <1>1 DEF Answered
<1> QED BY <1>2, <1>3, <1>4, <1>5 DEF r

LEMMA ReturnAnswer ==
  ASSUME AnswerInv, NEW w \in Workers, Return(w)
  PROVE  AnsweredByHandler' /\ IdSettled' /\ Correlated' /\ StatusOnEverySpan'
<1> DEFINE r == worker[w]
           n == depth[r]
<1>0. Inner \in Nat \ {0} /\ Layers = 1 .. Inner /\ TypeOK
  BY StackFacts DEF AnswerInv, ScopeInv, TypeOK
<1>1. /\ r \in Requests /\ n \in Layers /\ stage[r] = "returning" /\ called[r] = Inner
      /\ outcome[r].kind \in {"ok", "err"}
  BY Returning
<1>2. Passed(r, n)
  BY ReturnPasses
<1>3. /\ UNCHANGED <<stack, sent, ext, called>>
      /\ stage'[r] \in {"returning", "done"}
      /\ \A q \in Requests \ {r} : stage'[q] = stage[q]
      /\ \A q \in Requests, k \in Layers : Answered(q, k)' <=> Answered(q, k) \/ (q = r /\ k = n)
      /\ ~Answered(r, n)
  BY ReturnAnswered
<1> HIDE DEF r, n
<1>4. /\ Layers' = Layers /\ Inner' = Inner
      /\ \A k : HasId(k)' <=> HasId(k)
  BY <1>3 DEF Layers, Inner, HasId
<1>5. /\ outcome'[r].kind = outcome[r].kind /\ outcome'[r].status = outcome[r].status
      /\ outcome'[r].carries = outcome[r].carries
      /\ outcome'[r].header = IF outcome[r].kind = "ok" /\ HasId(n) /\ outcome[r].header = None
                              THEN ext[r] ELSE outcome[r].header
  <2>1. outcome[r] \in Outcomes
    BY <1>0, <1>1 DEF TypeOK
  <2> QED BY <1>2, <2>1 DEF Passed, Outcomes
<1>6. \A q \in Requests \ {r} : outcome'[q] = outcome[q] /\ spans'[q] = spans[q]
  BY <1>2 DEF Passed
<1>7. AnsweredByHandler'
  BY <1>1, <1>3, <1>4, <1>5, <1>6 DEF AnswerInv, AnsweredByHandler
<1>8. IdSettled'
  <2> SUFFICES ASSUME NEW q \in Requests
               PROVE  /\ outcome'[q].header \in {Own, None, ext[q]}
                      /\ \A k \in Layers : Answered(q, k)' /\ HasId(k) /\ outcome'[q].kind = "ok" =>
                           outcome'[q].header \in {Own, ext[q]}
    BY <1>3, <1>4 DEF AnswerInv, IdSettled
  <2>1. CASE q = r
    BY <1>1, <1>3, <1>5, <2>1 DEF AnswerInv, IdSettled
  <2>2. CASE q # r
    BY <1>3, <1>6, <2>2 DEF AnswerInv, IdSettled
  <2> QED BY <2>1, <2>2
<1>9. Correlated'
  <2>1. \A q \in Requests, k \in Layers : spans'[q][k].id = spans[q][k].id
    <3> SUFFICES ASSUME NEW q \in Requests, NEW k \in Layers
                 PROVE  spans'[q][k].id = spans[q][k].id
      OBVIOUS
    <3> QED BY <1>2, <1>6 DEF Passed
  <2>2. ASSUME NEW q \in Requests, stage'[q] = "done", outcome'[q].kind = "ok",
               NEW k \in Layers, HasId(k)
        PROVE  outcome'[q].header \in {Own, ext[q]} /\ ext[q] # None
    <3>1. Answered(q, k)'
      BY <2>2 DEF Answered
    <3>2. outcome'[q].header \in {Own, ext[q]}
      BY <1>3, <1>4, <1>8, <2>2, <3>1 DEF IdSettled
    <3>3. called[q] = Inner
      BY <1>3, <1>4, <1>7, <2>2 DEF AnsweredByHandler
    <3>4. k <= called[q]
      BY <1>0, <3>3
    <3> QED BY <2>2, <3>2, <3>4 DEF AnswerInv, IdSettled
  <2> QED BY <1>3, <1>4, <2>1, <2>2 DEF AnswerInv, Correlated
<1>10. StatusOnEverySpan'
  <2> SUFFICES ASSUME NEW q \in Requests, NEW k \in Layers
               PROVE  spans'[q][k].status =
                        IF Answered(q, k)' /\ (outcome'[q].kind = "ok" \/ stack = <<"actix">>)
                        THEN outcome'[q].status ELSE None
    BY <1>3, <1>4 DEF StatusOnEverySpan
  <2>1. CASE q = r /\ k = n
    <3>1. spans[r][n].status = None
      BY <1>1, <1>3 DEF AnswerInv, StatusOnEverySpan
    <3> QED BY <1>1, <1>2, <1>3, <1>5, <2>1, <3>1 DEF Passed
  <2>2. CASE q = r /\ k # n
    BY <1>2, <1>3, <1>5, <2>2 DEF AnswerInv, StatusOnEverySpan, Passed
  <2>3. CASE q # r
    BY <1>3, <1>6, <2>3 DEF AnswerInv, StatusOnEverySpan
  <2> QED BY <2>1, <2>2, <2>3
<1> QED BY <1>7, <1>8, <1>9, <1>10

\* A worker handles requests.
LEMMA HandlesRequest ==
  ASSUME AnswerInv, NEW w \in Workers, worker[w] # None
  PROVE  worker[w] \in Requests
BY DEF AnswerInv, ScopeInv, TypeOK

\* The steps that leave the answers and the spans alone.
LEMMA OtherAnswer ==
  ASSUME AnswerInv,
         \/ \E w \in Workers :
              \/ \E r \in Requests : BeginPoll(w, r) \/ BeginBody(w, r)
              \/ Enter(w) \/ Emit(w) \/ Suspend(w) \/ Panic(w) \/ EmitBody(w) \/ EndBody(w)
         \/ \E r \in Requests : Drop(r)
         \/ UNCHANGED vars
  PROVE  AnsweredByHandler' /\ IdSettled' /\ Correlated' /\ StatusOnEverySpan'
<1>0. TypeOK
  BY DEF AnswerInv, ScopeInv
<1>1. UNCHANGED <<stack, sent, ext, called, spans, outcome>>
  BY DEF BeginPoll, BeginBody, EmitBody, EndBody, Enter, Emit, Suspend, Panic, Unwind, Drop, vars
<1> DEFINE Quiet(q) ==
             \/ stage'[q] = stage[q] /\ depth'[q] = depth[q]
             \/ {stage[q], stage'[q]} \subseteq {"pending", "polling", "dropped"}
             \/ stage[q] = "done" /\ stage'[q] = "done"
<1> SUFFICES ASSUME NEW q \in Requests PROVE Quiet(q)
  BY <1>1, QuietAnswer
<1>2. ASSUME NEW w \in Workers, NEW r \in Requests, BeginPoll(w, r) PROVE Quiet(q)
  BY <1>0, <1>2 DEF BeginPoll, TypeOK
<1>3. ASSUME NEW w \in Workers, Enter(w) PROVE Quiet(q)
  BY <1>0, <1>3 DEF Enter, TypeOK
<1>4. ASSUME NEW w \in Workers, NEW to \in {"pending", "dropped"}, Unwind(w, to) PROVE Quiet(q)
  <2>1. worker[w] \in Requests /\ stage[worker[w]] = "polling"
    BY <1>4, HandlesRequest DEF Unwind, Handling
  <2> QED BY <1>0, <1>4, <2>1 DEF Unwind, TypeOK
<1>5. ASSUME NEW r \in Requests, Drop(r) PROVE Quiet(q)
  BY <1>0, <1>5 DEF Drop, TypeOK
<1>6. CASE UNCHANGED <<stage, depth>>
  BY <1>6
<1>8. ASSUME NEW w \in Workers, NEW r \in Requests, BeginBody(w, r) PROVE Quiet(q)
  BY <1>0, <1>8 DEF BeginBody, HasBody, TypeOK
<1>9. ASSUME NEW w \in Workers, EndBody(w) PROVE Quiet(q)
  <2>1. worker[w] \in Requests /\ stage[worker[w]] = "done"
    BY <1>9, StreamingOne DEF EndBody, AnswerInv
  <2> QED BY <1>0, <1>9, <2>1 DEF EndBody, TypeOK
<1>7. \/ \E w \in Workers : \/ \E r \in Requests : BeginPoll(w, r) \/ BeginBody(w, r)
                            \/ Enter(w) \/ Unwind(w, "pending") \/ Unwind(w, "dropped") \/ EndBody(w)
      \/ \E r \in Requests : Drop(r)
      \/ UNCHANGED <<stage, depth>>
  BY DEF EmitBody, Emit, Suspend, Panic, vars
<1> HIDE DEF Quiet
<1> QED BY <1>2, <1>3, <1>4, <1>5, <1>6, <1>7, <1>8, <1>9

LEMMA AnswerInit == Init => AnswerInv
<1> SUFFICES ASSUME Init PROVE AnsweredByHandler /\ IdSettled /\ Correlated /\ StatusOnEverySpan
  BY InitScope DEF AnswerInv
<1>1. Inner \in Nat \ {0} /\ Layers = 1 .. Inner
  BY StackFacts DEF Init
<1>2. \A r \in Requests : /\ stage[r] = "new" /\ called[r] = 0 /\ outcome[r] = NoOutcome
                         /\ ext[r] = None /\ sent[r] = None
                         /\ \A n \in Layers : spans[r][n] = NoSpan
  BY DEF Init
<1>3. AnsweredByHandler
  BY <1>2 DEF AnsweredByHandler, NoOutcome
<1>4. IdSettled
  BY <1>1, <1>2 DEF IdSettled, NoOutcome, Answered
<1>5. Correlated
  BY <1>1, <1>2 DEF Correlated
<1>6. StatusOnEverySpan
  BY <1>2 DEF StatusOnEverySpan, NoSpan, Answered
<1> QED BY <1>3, <1>4, <1>5, <1>6

LEMMA AnswerStep == AnswerInv /\ [Next]_vars => AnswerInv'
<1> SUFFICES ASSUME AnswerInv, [Next]_vars
             PROVE  AnsweredByHandler' /\ IdSettled' /\ Correlated' /\ StatusOnEverySpan'
  BY ScopeStep DEF AnswerInv
<1> QED BY CallAnswer, CallInnerAnswer, OtherAnswer, ResolveAnswer, ReturnAnswer DEF Next

(* AnswerInv holds of every reachable state of every server, whatever its  *)
(* layers and however its requests interleave.                             *)
THEOREM AnswersInvariant == Spec => []AnswerInv
BY AnswerInit, AnswerStep, PTL DEF Spec

(* An answered response carries the handler's own request id or the one on *)
(* its spans, every span of a request has the same id or none, and it is   *)
(* the caller's wherever the caller sent one: create_span and the header   *)
(* fill of TraceFuture and of the actix Logger never part.                 *)
THEOREM ResponsesCorrelated == Spec => []Correlated
BY AnswersInvariant, PTL DEF AnswerInv

(* A layer records a status exactly when it passes a response outwards, or *)
(* an error through actix's Logger, and it is the answer's own status.     *)
THEOREM SpansToldTheStatus == Spec => []StatusOnEverySpan
BY AnswersInvariant, PTL DEF AnswerInv

(* What the handler answered is what leaves: no layer changes anything of  *)
(* it but a missing X-Request-Id.                                          *)
THEOREM LayersPassAnswersOn == Spec => AnswerUntouched
<1> DEFINE Untouched ==
      \A r \in Requests : outcome[r].kind # "none" =>
        \/ outcome'[r] = outcome[r]
        \/ /\ outcome[r].header = None
           /\ outcome'[r] = [outcome[r] EXCEPT !.header = ext[r]]
<1>1. ASSUME AnswerInv, [Next]_vars PROVE Untouched
  <2>1. CASE UNCHANGED outcome
    BY <2>1
  <2>2. ASSUME NEW w \in Workers, Resolve(w) PROVE Untouched
    <3>1. worker[w] \in Requests /\ stage[worker[w]] = "polling"
      BY <1>1, <2>2, HandlesRequest DEF Resolve, Handling
    <3>2. outcome[worker[w]].kind = "none"
      BY <1>1, <3>1 DEF AnswerInv, AnsweredByHandler
    <3>3. \A r \in Requests \ {worker[w]} : outcome'[r] = outcome[r]
      BY <1>1, <2>2 DEF Resolve, AnswerInv, ScopeInv, TypeOK
    <3> QED BY <3>2, <3>3
  <2>3. ASSUME NEW w \in Workers, Return(w) PROVE Untouched
    BY <1>1, <2>3, ReturnPasses DEF Passed
  <2>4. UNCHANGED outcome \/ \E w \in Workers : Resolve(w) \/ Return(w)
    BY <1>1 DEF Next, vars, Call, BeginPoll, BeginBody, EmitBody, EndBody, Enter, CallInner, Emit, Suspend, Panic,
                Unwind, Drop
  <2> HIDE DEF Untouched
  <2> QED BY <2>1, <2>2, <2>3, <2>4
<1>2. AnswerInv /\ [Next]_vars => [Untouched]_vars
  BY <1>1
<1> QED BY <1>2, AnswersInvariant, PTL DEF Spec, AnswerUntouched

-----------------------------------------------------------------------------
(* What is logged about an answer. *)

LogInv == AnswerInv /\ EventsInv /\ LoggedOnce

\* The events of kind what about request r.
Kept(r, what) == {i \in DOMAIN journal[r] : journal[r][i].what = what}

LEMMA KeptFinite ==
  ASSUME JournalTyped, NEW r \in Requests, NEW what
  PROVE  IsFiniteSet(Kept(r, what)) /\ Recorded(r, what) \in Nat
<1>1. journal[r] \in Seq(Events)
  BY DEF JournalTyped
<1>2. DOMAIN journal[r] = 1 .. Len(journal[r]) /\ Len(journal[r]) \in Nat
  BY <1>1
<1>3. IsFiniteSet(DOMAIN journal[r])
  BY <1>2, FS_Interval
<1>4. IsFiniteSet(Kept(r, what))
  BY <1>3, FS_Subset DEF Kept
<1> QED BY <1>4, FS_CardinalityType DEF Recorded, Kept

\* Recording an event counts once, for its request and its kind.
LEMMA RecordCounts ==
  ASSUME JournalTyped, NEW r \in Requests, NEW kind, NEW span, Record(r, kind, span),
         NEW q \in Requests, NEW what
  PROVE  Recorded(q, what)' = Recorded(q, what) + IF q = r /\ what = kind THEN 1 ELSE 0
<1>1. journal \in [Requests -> Seq(Events)]
  BY DEF JournalTyped
<1>2. journal' = [journal EXCEPT ![r] = Append(@, [what |-> kind, span |-> span])]
  BY DEF Record
<1>3. Recorded(q, what) \in Nat /\ IsFiniteSet(Kept(q, what))
  BY KeptFinite
<1>4. CASE q # r
  BY <1>1, <1>2, <1>3, <1>4 DEF Recorded
<1>5. CASE q = r
  <2> DEFINE s == journal[q]
             e == [what |-> kind, span |-> span]
             last == Len(s) + 1
  <2>1. s \in Seq(Events) /\ journal'[q] = Append(s, e)
    BY <1>1, <1>2, <1>5
  <2>2. /\ DOMAIN s = 1 .. Len(s) /\ Len(s) \in Nat
        /\ DOMAIN Append(s, e) = 1 .. last
        /\ Append(s, e)[last] = e
        /\ \A i \in DOMAIN s : Append(s, e)[i] = s[i]
    BY <2>1
  <2>3. e.what = kind
    OBVIOUS
  <2>4. Kept(q, what)' = {i \in DOMAIN Append(s, e) : Append(s, e)[i].what = what}
    BY <2>1 DEF Kept
  <2>5. Kept(q, what) = {i \in DOMAIN s : s[i].what = what}
    BY DEF Kept
  <2>6. last \notin Kept(q, what)
    BY <2>2, <2>5
  <2> HIDE DEF s, e, last
  <2>7. CASE what = kind
    <3>1. Kept(q, what)' = Kept(q, what) \cup {last}
      BY <2>2, <2>3, <2>4, <2>5, <2>7 DEF last
    <3>2. Cardinality(Kept(q, what) \cup {last}) = Cardinality(Kept(q, what)) + 1
      BY <1>3, <2>6, FS_AddElement
    <3>3. Recorded(q, what)' = Recorded(q, what) + 1
      BY <3>1, <3>2 DEF Recorded, Kept
    <3> QED BY <1>5, <2>7, <3>3
  <2>8. CASE what # kind
    <3>1. Kept(q, what)' = Kept(q, what)
      BY <2>2, <2>3, <2>4, <2>5, <2>8 DEF last
    <3>2. Recorded(q, what)' = Recorded(q, what)
      BY <3>1 DEF Recorded, Kept
    <3> QED BY <1>3, <2>8, <3>2
  <2> QED BY <2>7, <2>8
<1> QED BY <1>4, <1>5

Logged(r) == \E n \in Layers : Logs(n) /\ Answered(r, n)
Failed(r) == outcome[r].carries \/ (stack = <<"actix">> /\ outcome[r].kind = "err")
Lost(r) == outcome[r].kind = "err" /\ stack # <<"actix">>

\* LoggedOnce of one request.
Told(r) ==
  /\ Recorded(r, "api_error") = IF Logged(r) /\ Failed(r) THEN 1 ELSE 0
  /\ Recorded(r, "service_error") = IF Logged(r) /\ Lost(r) THEN 1 ELSE 0

LEMMA ToldEach == LoggedOnce <=> \A r \in Requests : Told(r)
BY DEF LoggedOnce, Told, Logged, Failed, Lost

\* Only a logging layer that returns logs an answer.
LEMMA OtherLogged ==
  ASSUME LogInv, [Next]_vars, \A w \in Workers : ~Return(w), NEW q \in Requests
  PROVE  Told(q)'
<1>0. TypeOK /\ JournalTyped /\ AnswerInv
  BY DEF LogInv, AnswerInv, ScopeInv, EventsInv
<1>1. stack' = stack /\ Layers' = Layers /\ (\A n : Logs(n)' <=> Logs(n))
  BY DEF Next, vars, Call, BeginPoll, BeginBody, EmitBody, EndBody, Enter, CallInner, Emit, Suspend, Panic, Unwind,
         Resolve, Drop, Layers, Inner, Logs
<1>2. ASSUME NEW what \in {"api_error", "service_error"}
      PROVE  Recorded(q, what)' = Recorded(q, what)
  <2>0. Recorded(q, what) \in Nat
    BY <1>0, KeptFinite
  <2>1. CASE UNCHANGED journal
    BY <2>1 DEF Recorded
  <2>2. ASSUME NEW w \in Workers, Emit(w) PROVE Recorded(q, what)' = Recorded(q, what)
    <3>1. worker[w] \in Requests /\ Record(worker[w], "handler", Top(current[w]))
      BY <1>0, <2>2, HandlesRequest DEF Emit, Handling
    <3> QED BY <1>0, <2>0, <3>1, RecordCounts
  <2>3. ASSUME NEW w \in Workers, EmitBody(w) PROVE Recorded(q, what)' = Recorded(q, what)
    <3>1. worker[w] \in Requests /\ Record(worker[w], "body", Top(current[w]))
      BY <1>0, <2>3, HandlesRequest DEF EmitBody, Streaming
    <3> QED BY <1>0, <2>0, <3>1, RecordCounts
  <2>4. UNCHANGED journal \/ \E w \in Workers : Emit(w) \/ EmitBody(w)
    BY DEF Next, vars, Call, BeginPoll, BeginBody, EndBody, Enter, CallInner, Suspend, Panic, Unwind,
           Resolve, Drop
  <2> QED BY <2>1, <2>2, <2>3, <2>4
<1>3. Told(q)
  BY ToldEach DEF LogInv
<1>4. ASSUME NEW w \in Workers, Resolve(w) PROVE Told(q)'
  <2>1. /\ worker[w] \in Requests /\ stage[worker[w]] = "polling"
        /\ depth[worker[w]] = Inner
    BY <1>0, <1>4, HandlesRequest DEF Resolve, Handling
  <2>2. /\ stage' = [stage EXCEPT ![worker[w]] = "returning"] /\ depth' = depth
        /\ \A r \in Requests \ {worker[w]} : outcome'[r] = outcome[r]
    BY <1>0, <1>4 DEF Resolve, TypeOK
  <2>3. Inner \in Nat /\ Layers = 1 .. Inner
    BY <1>0, StackFacts DEF TypeOK
  <2>4. CASE q = worker[w]
    <3>1. ~Logged(q) /\ ~Logged(q)'
      BY <1>0, <1>1, <2>1, <2>2, <2>3, <2>4 DEF Logged, Answered, TypeOK
    <3> QED BY <1>2, <1>3, <3>1 DEF Told
  <2>5. CASE q # worker[w]
    <3>1. Logged(q)' <=> Logged(q)
      BY <1>0, <1>1, <2>1, <2>2, <2>5 DEF Logged, Answered, TypeOK
    <3> QED BY <1>1, <1>2, <1>3, <2>2, <2>5, <3>1 DEF Told, Failed, Lost
  <2> QED BY <2>4, <2>5
<1>5. CASE \A w \in Workers : ~Resolve(w)
  <2>1. UNCHANGED outcome
    BY <1>5 DEF Next, vars, Call, BeginPoll, BeginBody, EmitBody, EndBody, Enter, CallInner, Emit, Suspend, Panic,
                Unwind, Drop
  <2>2. /\ stage'[q] = "done" <=> stage[q] = "done"
        /\ stage'[q] = "returning" <=> stage[q] = "returning"
        /\ stage[q] = "returning" => depth'[q] = depth[q]
    <3>1. ASSUME NEW w \in Workers, NEW r \in Requests, Call(w, r) \/ BeginPoll(w, r) \/ BeginBody(w, r)
          PROVE  /\ {stage[q], stage'[q]} \cap {"returning", "done"} = {} \/ stage'[q] = stage[q]
                 /\ stage[q] = "returning" => depth'[q] = depth[q]
      BY <1>0, <3>1 DEF Call, BeginPoll, BeginBody, HasBody, TypeOK
    <3>2. ASSUME NEW w \in Workers, Enter(w) \/ Suspend(w) \/ Panic(w)
          PROVE  /\ {stage[q], stage'[q]} \cap {"returning", "done"} = {} \/ stage'[q] = stage[q]
                 /\ stage[q] = "returning" => depth'[q] = depth[q]
      <4>1. worker[w] \in Requests /\ stage[worker[w]] = "polling"
        BY <1>0, <3>2, HandlesRequest DEF Enter, Suspend, Panic, Unwind, Handling
      <4> QED BY <1>0, <3>2, <4>1 DEF Enter, Suspend, Panic, Unwind, TypeOK
    <3>3. ASSUME NEW r \in Requests, Drop(r)
          PROVE  /\ {stage[q], stage'[q]} \cap {"returning", "done"} = {} \/ stage'[q] = stage[q]
                 /\ stage[q] = "returning" => depth'[q] = depth[q]
      BY <1>0, <3>3 DEF Drop, TypeOK
    <3>4. ASSUME NEW w \in Workers, CallInner(w) \/ Emit(w) \/ EmitBody(w)
          PROVE  stage' = stage /\ depth' = depth
      BY <3>4 DEF CallInner, Emit, EmitBody
    <3>5. ASSUME NEW w \in Workers, EndBody(w)
          PROVE  stage'[q] = stage[q] /\ (stage[q] = "returning" => depth'[q] = depth[q])
      <4>1. worker[w] \in Requests /\ stage[worker[w]] = "done"
        BY <1>0, <3>5, StreamingOne DEF EndBody, AnswerInv
      <4> QED BY <1>0, <3>5, <4>1 DEF EndBody, TypeOK
    <3> QED BY <1>5, <3>1, <3>2, <3>3, <3>4, <3>5 DEF Next, vars
  <2>3. Logged(q)' <=> Logged(q)
    BY <1>1, <2>2 DEF Logged, Answered
  <2> QED BY <1>1, <1>2, <1>3, <2>1, <2>3 DEF Told, Failed, Lost
<1> QED BY <1>4, <1>5

\* A layer that returns logs the answer, if it logs at all, for the first time.
LEMMA ReturnLogged ==
  ASSUME LogInv, NEW w \in Workers, Return(w), NEW q \in Requests
  PROVE  Told(q)'
<1> DEFINE r == worker[w]
           n == depth[r]
<1>0. AnswerInv /\ TypeOK /\ JournalTyped /\ Inner \in Nat /\ Layers = 1 .. Inner
  BY StackFacts DEF LogInv, AnswerInv, ScopeInv, EventsInv, TypeOK
<1>1. r \in Requests /\ n \in Layers /\ outcome[r].kind \in {"ok", "err"}
  BY <1>0, Returning
<1>2. Passed(r, n)
  BY <1>0, ReturnPasses
<1>3. /\ stack' = stack
      /\ \A p \in Requests, k \in Layers : Answered(p, k)' <=> Answered(p, k) \/ (p = r /\ k = n)
      /\ ~Answered(r, n)
  BY <1>0, ReturnAnswered
<1>4. Layers' = Layers /\ (\A k : Logs(k)' <=> Logs(k))
  BY <1>3 DEF Layers, Inner, Logs
<1>5. Told(q) /\ Recorded(q, "api_error") \in Nat /\ Recorded(q, "service_error") \in Nat
  BY <1>0, ToldEach, KeptFinite DEF LogInv
<1>6. outcome'[q].kind = outcome[q].kind /\ outcome'[q].carries = outcome[q].carries
  <2>1. outcome[q] \in Outcomes
    BY <1>0 DEF TypeOK
  <2> QED BY <1>2, <2>1 DEF Passed, Outcomes
<1>7. (Failed(q)' <=> Failed(q)) /\ (Lost(q)' <=> Lost(q))
  BY <1>3, <1>6 DEF Failed, Lost
<1>8. Logged(q)' <=> Logged(q) \/ (q = r /\ Logs(n))
  BY <1>1, <1>3, <1>4 DEF Logged
<1>9. Logs(n) => ~Logged(r)
  BY <1>0, <1>1, <1>3, OneOfAKind DEF Logged, TypeOK
<1>10. stack[n] \in LayerKinds /\ (stack[n] = "actix" <=> stack = <<"actix">>)
  BY <1>0, <1>1, OneOfAKind DEF TypeOK
<1>11. outcome[r].kind = "err" => ~outcome[r].carries
  BY <1>0, <1>1 DEF AnswerInv, AnsweredByHandler
<1>12. \/ ~Logs(n) /\ UNCHANGED journal
       \/ Logs(n) /\ ~Failed(r) /\ ~Lost(r) /\ UNCHANGED journal
       \/ Logs(n) /\ ~Failed(r) /\ ~Lost(r) /\ Record(r, "success", Top(current[w]))
       \/ Logs(n) /\ Failed(r) /\ ~Lost(r) /\ Record(r, "api_error", Top(current[w]))
       \/ Logs(n) /\ ~Failed(r) /\ Lost(r) /\ Record(r, "service_error", Top(current[w]))
  <2>1. CASE stack[n] = "trace"
    <3>1. TraceReturn(r, n)
      BY <2>1 DEF Return
    <3> QED BY <2>1, <3>1 DEF TraceReturn, Logs
  <2>2. CASE stack[n] = "logging"
    <3>1. LoggingReturn(r, n, Top(current[w]))
      BY <2>2 DEF Return
    <3> QED BY <1>1, <1>10, <1>11, <2>2, <3>1 DEF LoggingReturn, Logs, Failed, Lost
  <2>3. CASE stack[n] = "actix"
    <3>1. ActixReturn(r, n, Top(current[w]))
      BY <2>3 DEF Return
    <3> QED BY <1>1, <1>10, <2>3, <3>1 DEF ActixReturn, Logs, Failed, Lost
  <2> QED BY <1>10, <2>1, <2>2, <2>3 DEF LayerKinds
<1> HIDE DEF r, n
<1>13. CASE UNCHANGED journal /\ (Logs(n) => ~Failed(r) /\ ~Lost(r))
  <2>1. Recorded(q, "api_error")' = Recorded(q, "api_error")
        /\ Recorded(q, "service_error")' = Recorded(q, "service_error")
    BY <1>13 DEF Recorded
  <2> QED BY <1>5, <1>7, <1>8, <1>13, <2>1 DEF Told
<1>14. ASSUME NEW what \in {"success", "api_error", "service_error"}, NEW span, Record(r, what, span),
              Logs(n), what = "api_error" <=> Failed(r), what = "service_error" <=> Lost(r)
       PROVE  Told(q)'
  <2>1. \A k : Recorded(q, k)' = Recorded(q, k) + IF q = r /\ k = what THEN 1 ELSE 0
    BY <1>0, <1>1, <1>14, RecordCounts
  <2> QED BY <1>5, <1>7, <1>8, <1>9, <1>14, <2>1 DEF Told
<1> QED BY <1>12, <1>13, <1>14

(* Under every stack of layers and every interleaving, an error a response *)
(* carries reaches the logger exactly once, an error of the inner service  *)
(* is logged exactly once, and neither before the request is answered.     *)
THEOREM AnswersLoggedOnce == Spec => []LoggedOnce
<1>1. Init => LogInv
  <2>1. ASSUME Init, NEW r \in Requests PROVE Told(r)
    <3>1. journal[r] = <<>> /\ stage[r] = "new"
      BY <2>1 DEF Init
    <3>2. \A what : Recorded(r, what) = 0
      BY <3>1, FS_EmptySet DEF Recorded
    <3> QED BY <3>1, <3>2 DEF Told, Logged, Answered
  <2> QED BY <2>1, ToldEach, AnswerInit, EventsInit DEF LogInv
<1>2. LogInv /\ [Next]_vars => LogInv'
  <2>1. ASSUME LogInv, [Next]_vars, NEW q \in Requests PROVE Told(q)'
    BY <2>1, OtherLogged, ReturnLogged
  <2>2. (LoggedOnce <=> \A r \in Requests : Told(r))'
    BY ToldEach, PTL
  <2> QED BY <2>1, <2>2, AnswerStep, EventsStep DEF LogInv
<1>3. LogInv => LoggedOnce
  BY DEF LogInv
<1> QED BY <1>1, <1>2, <1>3, PTL DEF Spec

=============================================================================
