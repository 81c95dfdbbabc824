SPECIFICATION FairSpec
CONSTANTS
  PatientDevice = {phone1}
  PhysioDevice = {physio}
  Exercise = {squat, lunge}
  NoExercise = NoExercise
  Feedback <- Buttons
  Events <- NoEvents
  MaxPresses = 2
  MaxFeedback = 2
  MaxOutbox = 2
  MaxPages = 3
  MaxReads = 0
INVARIANT ProgressAgrees
PROPERTY ProgressStays
PROPERTY ProgressArrives
