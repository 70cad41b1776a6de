SPECIFICATION Spec
CONSTANTS
  None = None
  reviewer = reviewer
  editor = editor
  Users <- MCUsers
  Reviewers <- MCReviewers
  Valid <- MCValid
  SymbolicLocking = TRUE
  MinorEdits = FALSE
  MaxRunning = 1
  Crashes = TRUE
INVARIANTS TypeOK ApprovedIsPublic
PROPERTIES LockHandedOver PublishesWhatWasValidated
