SPECIFICATION Spec
CONSTANTS
  None = None
  admin = admin
  reviewer = reviewer
  editor = editor
  group = group
  good = good
  bad = bad
  Groups = {group}
  Content = {good, bad}
  Valid = {good}
  Profile <- MCProfile
  MemberOf <- MCMemberOf
  Users <- MCUsers
  Agiv = FALSE
  SymbolicLocking = FALSE
  Requested <- OfferedStatuses
  MinorEdits = TRUE
  TogglesTemplate = FALSE
  Processing = TRUE
  CanDeleteGroups = {group}
INVARIANTS LockMatchesWorkspace PublicationMatchesHistory
PROPERTIES ApprovedSurvivesEditing
