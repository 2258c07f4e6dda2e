CONSTANTS
  Million = 4
  Programs <- MCPrograms
  Residents = {"avr", "atmega328p", "esp32"}
  RequestLists <- MCRequestLists
  CandidateLists <- MCCandidateLists
  ResourceLists <- MCResourceLists
  ReservationLists <- MCReservationLists
  Budgets = {TRUE, FALSE}
SPECIFICATION MCSpec
INVARIANTS PhasesInv PlanIsSound RefusalIsJustified PlanIsPreferred ResultIsOfTheSet AnswerIsOfTheDeclaration
