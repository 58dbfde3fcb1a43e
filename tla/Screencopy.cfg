SPECIFICATION FairSpec
CONSTANTS
  small = small
  large = large
  dmabuf = dmabuf
  Shapes <- AllShapes
  Supported <- ShmShapes
  None = None
  Garbage = Garbage
INVARIANTS
  IInv
  BufferFits
  FrameWhole
PROPERTIES
  ImplementsFrameSource
  NewestShapeSeen
  EndReachesConsumer
CHECK_DEADLOCK FALSE
