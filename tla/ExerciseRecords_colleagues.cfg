SPECIFICATION Spec
CONSTANTS
  PatientDevice = {phone1}
  PhysioDevice = {physio1, physio2}
  Exercise = {squat}
  NoExercise = NoExercise
  Feedback <- Buttons
  Events <- Edits
  MaxPresses = 1
  MaxFeedback = 1
  MaxOutbox = 1
  MaxPages = 3
  MaxReads = 1
SYMMETRY Symmetry
INVARIANT TypeOK
PROPERTY PrescriptionHolds
