\* As in Facfib.cfg, for the claim that fib is right.
CONSTANTS
  Numbers <- AskedNumbers
  None = None
SPECIFICATION Spec
INVARIANTS FibExact
