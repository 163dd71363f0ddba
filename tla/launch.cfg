\* Two drafts, two review turns, one supervisor from start to close.
CONSTANTS
  Drafts = {d1, d2}
  NoDraft = none
  Manifest <- MCManifest
  Entries <- MCEntries
  MaxReviewTurns = 2
  Capacity = 1
SPECIFICATION Spec
INVARIANTS LaunchedAsReviewed FailedPlanRunsNothing
PROPERTIES JourneyHonest ChildrenEnd
CONSTRAINT Explored
CHECK_DEADLOCK FALSE
