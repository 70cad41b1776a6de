SPECIFICATION FairSpec
CONSTANTS
  None = None
  reviewer = reviewer
  editor = editor
  Users <- MCUsers
  Reviewers <- MCReviewers
  Valid <- MCValid
  SymbolicLocking = TRUE
  MinorEdits = FALSE
  MaxRunning = 2
  Crashes = FALSE
PROPERTIES CopyDroppedOncePublished PublishesCurrentCopy MonitorReleased
