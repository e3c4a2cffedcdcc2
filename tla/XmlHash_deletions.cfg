SPECIFICATION DataSpec
CONSTANTS
  MaxNode = 14
  MaxHeld = 3
  MaxOps = 3
  Names = {1, 2}
  Texts <- MCTexts
  Filters <- MCFilters
  Documents <- MCDocuments
  Width = 8
  StampLength = 2
INVARIANT DeletesOnlyMatching
CHECK_DEADLOCK FALSE
