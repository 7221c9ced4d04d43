CONSTANTS
  Lines = {l1, l2, l3}
  Columns = {c1, c2}
  Codes = {"own", "other", "str"}
  LoggedCodes = {"own", "str"}
  Declared <- MCDeclared
  found = found
  gone = gone
  Texts = {found, gone}
  Statuses = {404, 500}
  Blank = Blank
  None = None
  MaxCalls = 5
  MaxCauses = 2
SPECIFICATION Spec
SYMMETRY Permuted
CONSTRAINT Bounded
CHECK_DEADLOCK FALSE
INVARIANTS TrailFaithful ClientReadsWhatWasSaid ConversionsAgree CausesOnlyIfVerbose LogsTellTheTrail LogsTellTheCause LogsMatchTheAnswer
