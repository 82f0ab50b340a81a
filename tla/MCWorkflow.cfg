\* Requests of up to two questions and routings of up to three branches;
\* probabilities in eighths, rounded to quarters. Manifests with edits in two
\* sections and agent configurations with one.
CONSTANTS
  One = 4
  Unit = 2
  Questions <- SmallQuestions
  MaxQuestions = 2
  Signals = {0, 3, 8}
  Configs <- SmallConfigs
  NameOf <- SmallNames
  NodeConfigs <- SmallNodes
  Folded <- SmallFolded
  NoneRepeated <- rejectDuplicateFields
  FieldsExact <- validateExactFields
  Decodable <- Decodes
  Unmarshaled <- Unmarshal
  ZeroOf <- Zero
  Paths <- SmallPaths
  Documents <- SmallDocuments
  AgentConfigs <- SmallAgentConfigs
  Served <- SmallServed
SPECIFICATION Spec
CHECK_DEADLOCK FALSE
INVARIANTS
  FiniteOutputsAreAnswered
  AnswerAgreesWithDistribution
  OneTargetIsReached
  UncertainGoesToFallback
  NodeAnswersItsQuestions
  DeclaredFilesAreTheArtifacts
PROPERTIES
  DecodedAsWritten
  CalibrationMatchesReference
