\* What submit waits for (a finding).
SPECIFICATION Spec
CONSTANTS
  AC_BATCHES = 2
  MaxFrames = 2
  Image <- MCImage
INVARIANTS
  SubmitDoesNotWait
