\* A ring of two slots that wraps around twice.
SPECIFICATION Spec
CONSTANTS
  Depth = 2
  MaxCalls = 5
  p1 = p1
  p2 = p2
  b1 = b1
  b2 = b2
  NoFrame = NoFrame
  Params <- MCParams
  Encodable <- MCEncodable
  Buffers <- MCBuffers
INVARIANTS
  TypeOK
  CountersOrdered
  SlotExclusive
  CodesItsFrame
  ResultsStand
  ExitDrains
PROPERTIES
  InFlightKept
  FilesWrittenInFlight
