CONSTANTS
  Summaries = {sum1, sum2}
  Translations = {tr1}
  Slots = {slot1, slot2}
  QueueCapacity = 1
  MaxPending = 1
  MaxTokens = 2
  MaxSearches = 1
SPECIFICATION Spec
INVARIANTS SummarisedOnce AbandonedStops NoneIsForgotten
PROPERTIES ServingEnds
CHECK_DEADLOCK FALSE
