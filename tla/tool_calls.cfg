SPECIFICATION Spec
CONSTANTS
  a = a
  b = b
  s1 = s1
  s2 = s2
  Agents = {a, b}
  NoAgent = NoAgent
  AgentType <- MCAgentType
  Owner <- MCOwner
  Whitelist <- MCWhitelist
  Rpcs <- MCCalls
  Production = FALSE
  Sessions = {s1, s2}
  MaxSends = 2
INVARIANTS DeniedIsNeverDispatched ListedToolsPassThePolicy
CHECK_DEADLOCK FALSE
