CONSTANTS
  Payloads = {user}
  Unit = Unit
  Metas = {page}
  not_found = not_found
  internal = internal
  Codes <- MCCodes
  InvalidBody = InvalidBody
  StatusCode <- MCStatusCode
  Statuses = {99, 200, 599, 600}
  DefaultStatus = 200
  RpcHeader = TRUE
  Frameworks = {"axum", "actix", "poem"}
  Extractors = {"ApiJson", "ApiValidated"}
  MaxSteps = 4
  None = None
SPECIFICATION Spec
CHECK_DEADLOCK FALSE
INVARIANTS SamePolicy
