SPECIFICATION Spec
CONSTANTS
  procure = procure
  s1 = s1
  s2 = s2
  Agents = {procure}
  AgentType <- MCAgentType
  Grants <- MCGrants
  Prompts <- MCPrompts
  ModelCalls <- MCModelCalls
  OpenAI = TRUE
  Orders <- MCOrders
  Sessions = {s1, s2}
  MaxTurns = 2
INVARIANTS OnlyTheLastIsUntraced ReissuedMandatesServe RiskyOrdersAreNotExecuted QuestionsMutateNothing
SYMMETRY SessionSymmetry
CHECK_DEADLOCK FALSE
