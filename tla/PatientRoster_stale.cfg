SPECIFICATION FairSpec
CONSTANTS
  Device = {phone1, phone2}
  Patient = {1}
  Physio = {2}
  NoAccount <- NobodyAtAll
  Events <- Deletions
  MaxAsks = 1
  MaxOutbox = 1
PROPERTY RowsConverge
