\* The designs that part from what their testbenches expect, one after the other.
SPECIFICATION Spec
INVARIANT NotAllReport
