\* Each datagram in order, datagrams of different clients interleaved.
CONSTANTS
  long = long
  short = short
  plain = plain
  whole = whole
  k1 = k1
  k2 = k2
  k3 = k3
  k4 = k4
  Dgram = {long, short, plain, whole}
  KeyOf <- OwnKey
  SizeOf <- Sizes
  DontFragment = {whole}
  Scale = 2
  FragUnits = 1
  Network = "inorder"
  MaxArrivals = 0
  Zero = Zero
SPECIFICATION Spec
INVARIANTS EchoExact
CHECK_DEADLOCK FALSE
