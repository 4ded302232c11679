\* Four words of storage, two values.
CONSTANTS
  ADDR_BITS = 2
  Words = {0, 1}
SPECIFICATION Spec
INVARIANTS TypeOK PointersInOrder HoldsWhatWasPushed
PROPERTIES ReadsSettledWord WordArrives FullClears
