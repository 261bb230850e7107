SPECIFICATION Spec
CONSTANTS
  Vocabularies <- AllVocabularies
  Alphabets <- AllAlphabets
INVARIANTS ParserIsTheGrammar TextReadsAsWritten
PROPERTY AliasesReadOnce
CHECK_DEADLOCK FALSE
