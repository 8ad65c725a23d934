\* One datagram after the other, in fragments of two elements, other frames between them.
CONSTANTS
  long = long
  short = short
  bare = bare
  faulty = faulty
  ping = ping
  k1 = k1
  k2 = k2
  k3 = k3
  k4 = k4
  k5 = k5
  note = note
  host = host
  Dgram = {long, short, bare, faulty, ping}
  KeyOf <- OwnKey
  SizeOf <- Sizes
  DontFragment = {bare}
  Scale = 2
  FragUnits = 1
  Network = "serial"
  MaxArrivals = 0
  Zero = Zero
  Mtu = 4
  IpHeader = 1
  OffsetLimit = 16
  FromPort <- From
  ToPort <- To
  Udp = {long, short, bare, faulty}
  Bindings <- Program
  Apply <- Callback
  Raised = Raised
  Unmapped <- Text
  MaxUdp = 6
  Others <- Noise
  Mac = Mac
  StackLimit = 30
SPECIFICATION Spec
INVARIANTS AllOrNothing
PROPERTIES PromiseSpec ComesBack
CHECK_DEADLOCK FALSE
