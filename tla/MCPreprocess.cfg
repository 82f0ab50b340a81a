\* One request at a time is built, of one or two questions.
CONSTANTS
  MaxLen = 32
  HeadMaxLen = 20
  OptionMaxLen = 5
  HeadReserve = 8
  Vocabulary <- SmallVocabulary
  Questions <- SmallQuestions
  Inputs <- SmallInputs
  InputTokenLimits = {0, 14, 24, 25, 40}
  MaxQuestions = 2
SPECIFICATION Spec
CHECK_DEADLOCK FALSE
INVARIANTS
  MarkersAreTheMasks
  RowsKeepTheirBudgets
  RowsMatchReference
  TruncationIsReported
