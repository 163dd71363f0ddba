\* Two sessions of either route beside one budget process, one fixture.
CONSTANTS
  Sessions = {s1, s2}
  NoSession = none
  Fixtures = {f1}
  NoFixture = nofixture
  MaxSessions = 1
SPECIFICATION Spec
INVARIANTS CompletedIsSettled FixturesUsedOnce ClosedPortalRunsNothing
PROPERTY JourneysEnd
CONSTRAINT Explored
CHECK_DEADLOCK FALSE
