\* One question.
CONSTANTS
  MaxLen = 32
  HeadMaxLen = 20
  OptionMaxLen = 5
  HeadReserve = 8
  Vocabulary <- SmallVocabulary
  Questions <- SmallQuestions
  Inputs <- SmallInputs
  InputTokenLimits = {0}
  MaxQuestions = 1
SPECIFICATION Spec
CHECK_DEADLOCK FALSE
INVARIANTS
  TruncationIsOptIn
