SPECIFICATION FairSpec
CONSTANTS
  Patient = {ann, bob}
  Routine = {arms, legs}
  Nothing = Nothing
  Events <- Everything
  MaxAsked = 2
INVARIANT TypeOK
INVARIANT ListedExact
INVARIANT CrashNeedsHaste
PROPERTY RowMeansRoutine
PROPERTY RemovalDone
