SPECIFICATION FairSpec
CONSTANTS
  Patient = {ann, bob}
  Routine = {arms, dotted}
  Unkeyable = {dotted}
  Exercise = {1, 2}
  Nothing = Nothing
  Events <- Everything
  MaxSaves = 1
INVARIANT TypeOK
INVARIANT CatalogueOnce
PROPERTY SavedWhereTapped
PROPERTY SwipeMeansRow
PROPERTY SaveLands
PROPERTY TableShowsRoutine
