----------------------------- MODULE MCErrorChain -----------------------------
EXTENDS ErrorChain, FiniteSets
MCWithin == {<<"refused", "connection refused">>}
\* Errors that are not part of the chain cannot show in its messages, so only
\* the collections that leave none over are followed, and the order in which
\* independent errors are built does not matter, so few are kept at a time.
Relevant == IF typed = Blank THEN Cardinality(free) <= 2 ELSE free = {root}

\* The largest trees have one text only, and no foreign error with a source.
Plain ==
  \A n \in Nodes : /\ heap[n].text # "connection refused"
                   /\ heap[n].kind = "foreign" => heap[n].source = 0
Bounded == Relevant /\ (Len(heap) = MaxNodes => Plain)
=============================================================================
