SPECIFICATION Spec
CONSTANTS
  Device = {phone1, phone2}
  Patient = {1, 3}
  Physio = {}
  NoAccount <- NobodyAtAll
  Events <- Connected
  MaxAsks = 1
  MaxOutbox = 1
SYMMETRY Symmetry
INVARIANT OnlyInvited
PROPERTY RowMeansPatient
PROPERTY ListShared
