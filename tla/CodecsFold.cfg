\* The 44th fragment of a long answer.
CONSTANTS
  Ids <- LateIds
  Flags = {1}
  Offsets = {7955}
  Ports = {}
  EthHeaders = {}
  ArpHeaders = {}
  UdpHeaders = {}
  IpHeaders <- Sent
  Contents <- Full
  MinPayload = 46
  Raised = Raised
SPECIFICATION CodecSpec
INVARIANTS ChecksumVerifies
