CONSTANTS
  D = 3
  C = 4
  Applications <- MCApplications
  CandidateLists <- MCCandidateLists
  ReservationSets <- MCReservationSets
  Budgets = {TRUE, FALSE}
SPECIFICATION Spec
INVARIANTS Inv PlanIsSound RefusalIsJustified PlanIsPreferred
