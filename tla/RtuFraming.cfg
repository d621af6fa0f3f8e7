SPECIFICATION ScannerSpec
CONSTANTS
  ByteRange = 16
  Streams <- ThreePieces
  HasCrc <- IsNibbles
  SlaveId = 1
  RegisterMap <- AllTypes
INVARIANTS
  FramesAreFound
  ChunksDoNotMatter
  ReadingsAreMeant
CHECK_DEADLOCK FALSE
