SPECIFICATION FairSpec
CONSTANTS
  Device = {phone1}
  Patient = {1, 3, 4}
  Physio = {2}
  NoAccount <- NobodyAtAll
  Events <- Removals
  MaxAsks = 1
  MaxOutbox = 2
INVARIANT TypeOK
INVARIANT NeverCrashes
PROPERTY RowsConverge
PROPERTY AddedShown
