CONSTANTS
  Texts = {"refused"}
  Within = {}
  Blank = ""
  Internal = "treat error"
  Codes = {"own", "str"}
  Callers = {"str"}
  Nested = FALSE
  Orders = {"branch first", "source first"}
  MaxNodes = 3
SPECIFICATION Spec
CHECK_DEADLOCK FALSE
CONSTRAINT Relevant
INVARIANTS EveryErrorFound
