SPECIFICATION Spec
CONSTANTS
  InvalidNames <- None
  Names <- ShortNames
  Hosts <- MCHosts
  Types <- MCTypes
  Ids = {1, 513}
  Texts <- MCTexts
  Addresses <- MCAddresses
  MaxCalls = 1
  MaxAnswers = 2
  Unsupported = TRUE
  Chains = FALSE
  Loss = TRUE
  Duplication = FALSE
  Reuse = FALSE
INVARIANTS
  QueryRoundTrip
  AnswerUnpacked
PROPERTIES
  ResolveReturns
CHECK_DEADLOCK FALSE
