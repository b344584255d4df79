\* Every input of each algorithm up to a length.
SPECIFICATION Spec
INVARIANTS RulesAreOurs MatchIsWildcard BlockedByAncestor StaysInTier LimitHolds EveryWordIsKept
  RankedOnce CompletedByHeaviest NearIsFound Normalised DatesAreRight
  PageIsRead SaidInTheText AnswersAreRight SummaryIsGrounded
CHECK_DEADLOCK FALSE
