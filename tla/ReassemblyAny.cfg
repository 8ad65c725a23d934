\* Packets lost, repeated and reordered; two datagrams share an identification.
CONSTANTS
  long = long
  short = short
  plain = plain
  whole = whole
  k1 = k1
  k2 = k2
  k3 = k3
  k4 = k4
  Dgram = {long, short, plain}
  KeyOf <- SharedKey
  SizeOf <- Sizes
  DontFragment = {}
  Scale = 2
  FragUnits = 1
  Network = "any"
  MaxArrivals = 3
  Zero = Zero
SPECIFICATION Spec
INVARIANTS Isolation OneEntryPerKey
CHECK_DEADLOCK FALSE
