SPECIFICATION LookupsSpec
CONSTANTS
  Scope <- MCScope
  Topic <- MCTopic
  Reason = {r1, r2}
  Underscore = 5
  Entry <- MCEntry
  Filter <- MCFilter
  Wildcard <- MCWildcard
  Continuation <- MCContinuation
  ResourceType = {"topic", "group"}
  Lookup <- MCLookup
INVARIANTS
  ResolutionExact
  MatchingExact
PROPERTIES
  ScopeRespected
  ImplementsStore
