CONSTANTS
  Texts = {"refused", "connection reset"}
  Within = {}
  Blank = ""
  Internal = "treat error"
  Codes = {"own", "str"}
  Callers = {"own"}
  Nested = TRUE
  Orders = {"branch first", "source first"}
  MaxNodes = 3
SPECIFICATION Spec
CHECK_DEADLOCK FALSE
CONSTRAINT Relevant
INVARIANTS NoForeignTextLost
