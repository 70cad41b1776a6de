SPECIFICATION Spec
CONSTANTS
  None = None
  admin = admin
  reviewer = reviewer
  editor = editor
  group = group
  good = good
  bad = bad
  Groups = {group}
  Content = {good, bad}
  Valid = {good}
  Profile <- MCProfile
  MemberOf <- MCMemberOf
  Users <- MCUsers
  Agiv = TRUE
  SymbolicLocking = TRUE
  Requested <- OfferedStatuses
  MinorEdits = FALSE
  TogglesTemplate = FALSE
  Processing = FALSE
  CanDeleteGroups = {}
INVARIANTS TypeOK PublicContentValid
PROPERTIES PublishedOnlyByApproval AgivDecidesApproval
