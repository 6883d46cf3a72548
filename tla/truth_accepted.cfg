\* Two employers, the same title: a profile that names one of the roles.
CONSTANTS
  NoDocument = NoDocument
  Uploaded <- RepeatedTitle
  Answers <- SomeAnswers
  Edits <- SomeEdits
  Variants <- SomeVariants
SPECIFICATION DocumentSpec
INVARIANT TruthIsAccepted
CHECK_DEADLOCK FALSE
