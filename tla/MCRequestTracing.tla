-------------------------- MODULE MCRequestTracing --------------------------
EXTENDS RequestTracing, TLC
MCStacks == { <<"trace">>, <<"logging">>, <<"trace", "logging">>, <<"logging", "trace">>, <<"actix">> }
Symmetry == Permutations(Requests) \cup Permutations(Workers) \cup Permutations(Ids)
=============================================================================
