SPECIFICATION Spec
CONSTANTS
  Vocabularies <- Deviating
  Alphabets <- Deviants
INVARIANTS DiagnosedFirst LinesAreCounted NothingIsLost NoRedirectedPrefix UnfinishedIsDiagnosed GuardStops
CHECK_DEADLOCK FALSE
