\* fifo_ptr and fifo_sr of four words, fifo_n of two queues of two words,
\* fifo_multi_push of two and four queues of two words; two values.
CONSTANTS
  Units = {"fifo_ptr", "fifo_ptr_replay", "fifo_sr", "fifo_n", "fifo_multi_push",
           "fifo_multi_push_4"}
  Words = {0, 1}
  Off = Off
  PtrN = 4
  SrN = 4
  VQ_N = 2
  VqN = 2
  MultiF = 2
  MultiN = 2
SPECIFICATION Spec
INVARIANTS TypeOK PopsInOrder FlagsExact FlagsSafe
PROPERTIES FullClears ImplementsQueue
