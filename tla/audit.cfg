SPECIFICATION AuditSpec
CONSTANTS
  o = o
  l = l
  k = k
  create = create
  fetch = fetch
  Operations = {o, l, k}
  Kind <- MCKind
  Calls = {create, fetch}
  EndpointOf <- MCEndpointOf
  CreateOf <- MCCreateOf
  FetchOf <- MCFetchOf
  MaxRetries = 3
INVARIANTS MissedWebhooksAreReported
PROPERTIES ImplementsCall EveryCallEnds
CHECK_DEADLOCK FALSE
