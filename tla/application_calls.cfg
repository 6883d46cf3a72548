\* Five calls of any kind, one fault; or the texts of a CV with two roles.
CONSTANTS
  Calls = {c1, c2, c3, c4, c5}
  MaxFaults = 1
  None = None
  NoDocument = NoDocument
  Uploaded <- DistinctRoles
  Answers <- SomeAnswers
  Edits <- SomeEdits
  Variants <- SomeVariants
SYMMETRY Symmetry
SPECIFICATION MCSpec
INVARIANTS
  HandedOutIsApproved
  
  GenerationIsAttended
  AcceptedIsGrounded
  TextsStayWithTheirRole
CHECK_DEADLOCK FALSE
