CONSTANTS
  Texts = {"refused"}
  Within = {}
  Blank = ""
  Internal = "treat error"
  Codes = {"own", "str"}
  Callers = {"own"}
  Nested = FALSE
  Orders = {"source first"}
  MaxNodes = 5
SPECIFICATION Spec
CHECK_DEADLOCK FALSE
CONSTRAINT Relevant
INVARIANTS FoldedWhereItHangs
