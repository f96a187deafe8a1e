\* Two frames through one slot, any call of which may fail.
SPECIFICATION Spec
CONSTANTS
  AC_BATCHES = 2
  MaxFrames = 2
  Image <- MCImage
INVARIANTS
  TypeOK
  HostReadsItsFrame
  OkLeavesNothingRunning
PROPERTIES
  FreedWhenUnused
