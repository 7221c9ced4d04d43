CONSTANTS
  LoggingHandles = {l1}
  TraceHandles = {t1}
  Requests = {r1, r2, r3}
  Instances = {i1, i2, i3, i4, i5}
  Permits = {p1, p2}
  None = None
SPECIFICATION FairSpec
INVARIANTS NeverCalledUnready NoStrandedPermit OnePermitPerRequest
PROPERTIES ImplementsAdmission EveryRequestLeaves
