CONSTANTS
  Texts = {"refused", "connection refused"}
  Within <- MCWithin
  Blank = ""
  Internal = "treat error"
  Codes = {"own", "str"}
  Callers = {"own"}
  Nested = TRUE
  Orders = {"branch first", "source first"}
  MaxNodes = 5
SPECIFICATION Spec
CHECK_DEADLOCK FALSE
CONSTRAINT Bounded
INVARIANTS TypeOK EveryErrorListedOnce CausesFollow NoInternalText NoCauseLost
PROPERTIES ChainsOnlyGrow
