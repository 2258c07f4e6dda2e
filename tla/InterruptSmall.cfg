CONSTANTS
  R = 2
  C = 3
  RequestLists <- SmallRequests
  CandidateLists <- SmallCandidateLists
  DemandSets <- SmallDemands
  Budgets <- SmallBudgets
SPECIFICATION FairSpec
INVARIANTS Inv RefusalIsJustified PlanIsLeast
PROPERTY Returns
