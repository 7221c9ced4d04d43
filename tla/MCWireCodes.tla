------------------------------ MODULE MCWireCodes ------------------------------
EXTENDS WireCodes
Server(c, s, t) == [code |-> c, status |-> s, tuple |-> t]
MCServerVariants ==
  {Server(None, None, FALSE), Server(None, 404, FALSE), Server("gone", None, TRUE),
   Server("gone", 404, TRUE), Server("_", None, FALSE), Server("gone", 600, FALSE)}
MCClientVariants ==
  {[code |-> c, fields |-> 1] : c \in {"gone", "NotFound", "_", None}} \cup {[code |-> "gone", fields |-> 2]}
=============================================================================
