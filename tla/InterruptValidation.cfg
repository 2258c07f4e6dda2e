CONSTANTS
  R = 3
  C = 6
  Catalog <- MCCatalog
  Later <- MCLater
  RequestLists <- MCRequests
  CandidateLists <- MCCandidateLists
  DemandSets <- MCDemands
  Budgets = {6, 20}
  DefaultBudget = 9
SPECIFICATION ValidationSpec
INVARIANTS BudgetIsExact PlanIsValid AcceptedPlansServe SameProblemStands
