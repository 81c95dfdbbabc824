SPECIFICATION Spec
CONSTANTS
  PatientDevice = {phone1, phone2}
  PhysioDevice = {physio}
  Exercise = {squat}
  NoExercise = NoExercise
  Feedback <- Buttons
  Events <- Interference
  MaxPresses = 2
  MaxFeedback = 1
  MaxOutbox = 1
  MaxPages = 3
  MaxReads = 1
SYMMETRY Symmetry
INVARIANT NothingInvented
