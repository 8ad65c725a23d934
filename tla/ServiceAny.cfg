\* Packets lost, repeated and in any order, two datagrams under one identification.
CONSTANTS
  long = long
  short = short
  bare = bare
  faulty = faulty
  ping = ping
  k1 = k1
  k2 = k2
  k3 = k3
  k4 = k4
  k5 = k5
  note = note
  host = host
  Dgram = {long, short, faulty}
  KeyOf <- SharedKey
  SizeOf <- Sizes
  DontFragment = {}
  Scale = 2
  FragUnits = 1
  Network = "any"
  MaxArrivals = 3
  Zero = Zero
  Mtu = 4
  IpHeader = 1
  OffsetLimit = 16
  FromPort <- From
  ToPort <- To
  Udp = {long, short, faulty}
  Bindings <- TooLong
  Apply <- Callback
  Raised = Raised
  Unmapped <- Text
  MaxUdp = 9
  Others = {}
  Mac = Mac
  StackLimit = 30
SPECIFICATION Spec
INVARIANTS RepliesIsolated
CHECK_DEADLOCK FALSE
