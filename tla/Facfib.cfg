\* Any requests for numbers from -1 to 6, in any order.
CONSTANTS
  Numbers <- AskedNumbers
  None = None
SPECIFICATION Spec
INVARIANTS FacExact FibExactIfSeeded FastFibExact
PROPERTIES Finishes
