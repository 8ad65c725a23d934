\* Two regions, values that share a page, fill it exactly, leave its tail and exceed it.
CONSTANTS
  NPages = 4
  BagSize = 2
  PageWords = 4
  HeaderWords = 1
  StackTop = 2
  Sizes = {2, 3, 4}
  Lobj = {o1}
SPECIFICATION Spec
INVARIANTS IndInv PointersExact LargeObjectsExact ValuesInPages
PROPERTIES UnwindExact PoolSpec AllocFresh UnwindTerminates
