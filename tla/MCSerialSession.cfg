SPECIFICATION SerialSpec
CONSTANTS
  None = None
  reviewer = reviewer
  editor = editor
  Group = group
  Users <- MCUsers
  Reviewers <- MCReviewers
  Valid <- MCValid
  SymbolicLocking = TRUE
  MinorEdits = TRUE
  MaxRunning = 1
  Crashes = FALSE
PROPERTY RequestsAddUp
