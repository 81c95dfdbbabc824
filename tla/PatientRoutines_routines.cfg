SPECIFICATION FairSpec
CONSTANTS
  Routine = {arms, legs}
  Exercise = {1, 2}
  Nothing = Nothing
  Events <- Everything
INVARIANT TypeOK
INVARIANT OrphansHaveCause
INVARIANT CrashHasCause
PROPERTY TapMeansRow
PROPERTY ListShowsRoutine
