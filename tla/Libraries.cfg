\* Packets of 9 bytes with 3 of header; buffers of 26 bytes on the tap device,
\* of which 4 are packet information; header fields at their boundaries;
\* words of five bits; pages of malloc of 24 bytes, of which the headers of an
\* object take 4: a page holds up to four small objects, and whole pages come in
\* ones and twos; strings in words of two bytes, with a character above 127.
CONSTANTS
  Mtu = 9
  IpHeader = 3
  Unit = 2
  OffsetLimit = 16
  MaxLen = 32
  MTU = 26
  FirstFrame = 14
  LastFrame = 24
  FirstList = 14
  LastList = 24
  Frames <- FrameLengths
  Lists <- ListLengths
  Info = Info
  Null = Null
  Payloads <- Counted
  Ids = {0, 1, 255, 256, 9945, 65535}
  Flags = {0, 1, 2, 7}
  Offsets = {0, 1, 255, 256, 8191}
  Ports = {0, 255, 256, 8080, 65535}
  Raised = Raised
  EthHeaders <- Eths
  ArpHeaders <- Arps
  UdpHeaders <- Udps
  IpHeaders <- Ips
  Contents <- Data
  MinPayload = 22
  Quarter = 8
  PAGE_SIZE = 24
  Pages = 3
  Chunks = {1, 2, 4}
  Align = 2
  Hdr = 2
  Pad = 1
  Sizes = {1, 5, 20, 21}
  MaxUsed = 4
  Reallocs = {}
  WordBytes = 2
  Words = 6
  Chars = {65, 200}
  MaxString = 3
  MaxPieces = 2
  Div = Div
  Overflow = Overflow
  Trap = Trap
  MantissaBits = 7
  FractionBits = 8
  MaxExponent = 12
  IntBits = 10
  CIntBits = 8
  Decimals = 2
  OverflowExn = OverflowExn
  SortValues <- Sortable
  MaxTokens = 6
  Word = Word
  TooBig = TooBig
  Invalid = Invalid
  NoReply = NoReply
SPECIFICATION MCSpec
INVARIANTS PacketsFit Tiles CarriesBytes StaysInBuffers RoundTrip ChecksumExact DivisionsExact RealsExact
           StringsKept OrderIsTotal RepliesSorted HeapSound EmptyPagesReturned
CHECK_DEADLOCK FALSE
