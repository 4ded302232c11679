\* fifo_multi_push of four queues of two words.
CONSTANTS
  Units = {"fifo_multi_push_4"}
  Words = {0}
  Off = Off
  PtrN = 4
  SrN = 4
  VQ_N = 2
  VqN = 2
  MultiF = 2
  MultiN = 2
SPECIFICATION Spec
PROPERTY WordVisible
