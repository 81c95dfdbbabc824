SPECIFICATION Spec
CONSTANTS
  PatientDevice = {phone1}
  PhysioDevice = {physio}
  Exercise = {squat}
  NoExercise = NoExercise
  Feedback <- Buttons
  Events <- Deletions
  MaxPresses = 1
  MaxFeedback = 1
  MaxOutbox = 2
  MaxPages = 3
  MaxReads = 1
SYMMETRY Symmetry
INVARIANT EveryChildNamed
CHECK_DEADLOCK FALSE
