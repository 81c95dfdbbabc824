SPECIFICATION Spec
CONSTANTS
  PatientDevice = {phone1}
  PhysioDevice = {physio}
  Exercise = {squat, lunge}
  NoExercise = NoExercise
  Feedback <- OneButton
  Events <- SheetsNoDelete
  MaxPresses = 1
  MaxFeedback = 1
  MaxOutbox = 1
  MaxPages = 4
  MaxReads = 1
SYMMETRY Symmetry
INVARIANT EveryChildNamed
INVARIANT NeverCrashes
