SPECIFICATION DataSpec
CONSTANTS
  MaxNode = 14
  MaxHeld = 3
  MaxOps = 3
  Names = {1, 2}
  Texts <- MCTexts
  Filters <- MCFilters
  Documents <- MCDocuments
  Width = 8
  StampLength = 2
INVARIANTS Intact ReadersSeeTree ReadsLdif ConditionsSplitItems AuditsAddUp LatestAuditAnswers RulesFit SubstringsSelect CommandsMeanWhatHelpSays LinesAreObeyed
PROPERTY ImplementsForest
CHECK_DEADLOCK FALSE
