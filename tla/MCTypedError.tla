---------------------------- MODULE MCTypedError ----------------------------
EXTENDS ErrorRendering, TLC
CONSTANTS found, gone
MCDeclared == [c \in Codes |-> IF c = "own" THEN [message |-> gone, status |-> 404]
                                            ELSE [message |-> None, status |-> None]]
Permuted == Permutations(Lines) \cup Permutations(Columns)

Count(ops) == Cardinality({i \in DOMAIN calls : calls[i].op \in ops})
\* Any error and any two calls, one if it has two causes or a place of one; on
\* a bare one, one call after three hops.
Bounded ==
  /\ Len(calls) < MaxCalls
  /\ Len(calls) >= 2 => Creation.origins = <<>> /\ Len(Creation.source) < 2
  /\ Len(calls) >= 3 => /\ Creation = NewError("own", Creation.location)
                        /\ Count(Passes) = Len(calls) - 1
=============================================================================
