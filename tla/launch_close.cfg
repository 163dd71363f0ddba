\* The workspace preview's "deleted on close", one draft.
CONSTANTS
  Drafts = {d1}
  NoDraft = none
  Manifest <- MCManifest
  Entries <- MCEntries
  MaxReviewTurns = 1
  Capacity = 1
SPECIFICATION Spec
INVARIANT WorkspaceDeleted
CONSTRAINT Explored
CHECK_DEADLOCK FALSE
