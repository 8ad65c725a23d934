-------------------------------- MODULE Codecs --------------------------------
(***************************************************************************)
(* The codecs of Libs/: ethlib, arplib, ipv4lib and udplib, over byte      *)
(* sequences.  A packet is encoded, then decoded: the state is the header  *)
(* asked for, the bytes, and the header read back.                         *)
(***************************************************************************)
EXTENDS Integers, Sequences

CONSTANTS
  EthHeaders, ArpHeaders, UdpHeaders, IpHeaders,   \* headers that are encoded
  Contents,                                        \* and what follows them
  MinPayload,    \* bytes to which the link pads what an Ethernet frame carries (46, or 0)
  Raised                                           \* an exception

VARIABLES
  codec,    \* "eth", "arp", "udp", "ipv4"; "" before the first packet
  asked,    \* the header and payload that were encoded: <<header, payload>>
  bytes,    \* what encode made of them, or Raised
  parsed    \* what decode read back, <<>> before it runs

codecVars == <<codec, asked, bytes, parsed>>

------------------------------------------------------------------------------
(* utilslib: numbers as nb bytes, the most significant first.  Only the    *)
(* first byte is not reduced: Char.chr raises if it is above 255.          *)
TooWide(i, nb) == i \div 256^(nb - 1) > 255
intToRawbyteString(i, nb) == [k \in 1..nb |-> (i \div 256^(nb - k)) % 256]

convertRawBytes(s) ==
  LET acc[k \in 0..Len(s)] == IF k = 0 THEN 0 ELSE acc[k - 1] * 256 + s[k]
  IN acc[Len(s)]
Field(s, at, n) == convertRawBytes(SubSeq(s, at + 1, at + n))
extract(s, at) == SubSeq(s, at + 1, Len(s))

getLBits(octet, nb) == octet \div 2^(8 - nb)
getRBits(octet, nb) == octet % 2^nb
setLBits(num, nb) == num * 2^(8 - nb)

------------------------------------------------------------------------------
(* ethlib *)
EthTypes == [ARP |-> 2054, IPv4 |-> 2048, IPv6 |-> 34525]

EthEncode(h, p) ==
  h.dstMac \o h.srcMac \o intToRawbyteString(EthTypes[h.et], 2) \o p

EthDecode(s) ==
  LET known == {t \in DOMAIN EthTypes : Len(s) >= 14 /\ EthTypes[t] = Field(s, 12, 2)}
  IN IF known = {} THEN Raised
     ELSE <<[et |-> CHOOSE t \in known : TRUE, dstMac |-> SubSeq(s, 1, 6),
             srcMac |-> SubSeq(s, 7, 12)], extract(s, 14)>>

------------------------------------------------------------------------------
(* arplib: encode writes operation 2 whatever the header says. *)
ArpEncode(h) ==
  intToRawbyteString(h.htype, 2) \o intToRawbyteString(h.ptype, 2)
    \o intToRawbyteString(h.hlen, 1) \o intToRawbyteString(h.plen, 1)
    \o intToRawbyteString(2, 2) \o h.sha \o h.spa \o h.tha \o h.tpa

toArpOperation(i) == IF i = 1 THEN "Request" ELSE "Reply"

ArpDecode(s) ==
  IF Len(s) < 28 \/ Field(s, 6, 2) \notin {1, 2} THEN Raised
  ELSE <<[htype |-> Field(s, 0, 2), ptype |-> Field(s, 2, 2), hlen |-> Field(s, 4, 1),
          plen |-> Field(s, 5, 1), oper |-> toArpOperation(Field(s, 6, 2)),
          sha |-> SubSeq(s, 9, 14), spa |-> SubSeq(s, 15, 18),
          tha |-> SubSeq(s, 19, 24), tpa |-> SubSeq(s, 25, 28)], <<>>>>

------------------------------------------------------------------------------
(* udplib: the length is that of the payload, whatever the header says. *)
UdpEncode(h, p) ==
  IF TooWide(Len(p) + 8, 2) THEN Raised
  ELSE intToRawbyteString(h.source_port, 2) \o intToRawbyteString(h.dest_port, 2)
         \o intToRawbyteString(Len(p) + 8, 2) \o <<0, 0>> \o p

UdpDecode(s) ==
  IF Len(s) < 8 THEN Raised
  ELSE <<[source_port |-> Field(s, 0, 2), dest_port |-> Field(s, 2, 2),
          length |-> Field(s, 4, 2), checksum |-> Field(s, 6, 2)], extract(s, 8)>>

------------------------------------------------------------------------------
(* ipv4lib *)
Protocols == [ICMP |-> 1, TCP |-> 6, UDP |-> 17]

toHextets(s) == [k \in 1..(Len(s) \div 2) |-> s[2 * k - 1] * 256 + s[2 * k]]
Sum(l) ==
  LET acc[k \in 0..Len(l)] == IF k = 0 THEN 0 ELSE acc[k - 1] + l[k]
  IN acc[Len(l)]

(* The carry is folded in once; Word.andb cuts the complement to 16 bits. *)
FoldedNot(sum) == 65535 - (sum % 65536)                              \* mutant
FoldedOnce(sum) == 65535 - (((sum % 65536) + (sum \div 65536)) % 65536)
ipv4Checksum(l) == FoldedOnce(Sum(l))

FlagsUnshifted(h) == h.flags * 256 + h.fragment_offset              \* mutant
FlagsAndOffset(h) == setLBits(h.flags, 3) * 256 + h.fragment_offset

(* The header with checksum c. *)
IpHeaderBytes(h, p, c) ==
  <<setLBits(4, 4) + h.ihl, setLBits(h.dscp, 6) + h.ecn>>
    \o intToRawbyteString(20 + Len(p), 2) \o intToRawbyteString(h.identification, 2)
    \o intToRawbyteString(FlagsAndOffset(h), 2)
    \o <<h.time_to_live, Protocols[h.protocol]>> \o intToRawbyteString(c, 2)
    \o h.source_addr \o h.dest_addr

IpEncode(h, p) ==
  IF h.protocol \notin DOMAIN Protocols \/ TooWide(20 + Len(p), 2) THEN Raised
  ELSE IpHeaderBytes(h, p, ipv4Checksum(toHextets(IpHeaderBytes(h, p, 0)))) \o p

intToProt(i) == LET known == {q \in DOMAIN Protocols : Protocols[q] = i}
                IN IF known = {} THEN "UNKNOWN" ELSE CHOOSE q \in known : TRUE

IpDecode(s) ==
  IF Len(s) < 20 THEN Raised
  ELSE <<[version |-> getLBits(s[1], 4), ihl |-> getRBits(s[1], 4),
          dscp |-> getLBits(s[2], 6), ecn |-> getRBits(s[2], 2),
          total_length |-> Field(s, 2, 2), identification |-> Field(s, 4, 2),
          flags |-> getLBits(s[7], 3), fragment_offset |-> getRBits(Field(s, 6, 2), 13),
          time_to_live |-> s[9], protocol |-> intToProt(s[10]),
          header_checksum |-> Field(s, 10, 2),
          source_addr |-> SubSeq(s, 13, 16), dest_addr |-> SubSeq(s, 17, 20)],
         extract(s, 20)>>

------------------------------------------------------------------------------
(* The fields fit their places in a header. *)
Byte == 0..255
Hextet == 0..65535
EthFields == [et : DOMAIN EthTypes, dstMac : [1..6 -> Byte], srcMac : [1..6 -> Byte]]
ArpFields == [htype : Hextet, ptype : Hextet, hlen : Byte, plen : Byte, oper : {"Request", "Reply"},
              sha : [1..6 -> Byte], spa : [1..4 -> Byte], tha : [1..6 -> Byte], tpa : [1..4 -> Byte]]
UdpFields == [source_port : Hextet, dest_port : Hextet, length : Nat, checksum : Nat]
IpFields == [version : Nat, ihl : 0..15, dscp : 0..63, ecn : 0..3, total_length : Nat,
             identification : Hextet, flags : 0..7, fragment_offset : 0..8191,
             time_to_live : Byte, protocol : DOMAIN Protocols \cup {"UNKNOWN"}, header_checksum : Nat,
             source_addr : [1..4 -> Byte], dest_addr : [1..4 -> Byte]]

ASSUME CodecsAssumption ==
  /\ EthHeaders \subseteq EthFields /\ ArpHeaders \subseteq ArpFields
  /\ UdpHeaders \subseteq UdpFields /\ IpHeaders \subseteq IpFields
  /\ Contents \subseteq Seq(Byte) /\ MinPayload \in Nat

------------------------------------------------------------------------------
Encode(c, h, p) ==
  /\ codec = "" /\ codec' = c /\ asked' = <<h, p>> /\ parsed' = <<>>
  /\ bytes' = CASE c = "eth" -> EthEncode(h, p) [] c = "arp" -> ArpEncode(h)
                [] c = "udp" -> UdpEncode(h, p) [] c = "ipv4" -> IpEncode(h, p)

(* The link adds zero bytes to a frame that is too short; handleIPv4 gives *)
(* IPv4.decode all that follows the Ethernet header.                       *)
Padded(s) == s \o [k \in 1..(IF Len(s) < MinPayload THEN MinPayload - Len(s) ELSE 0) |-> 0]

Decode ==
  /\ codec # "" /\ bytes # Raised /\ parsed = <<>>
  /\ parsed' = CASE codec = "eth" -> EthDecode(bytes) [] codec = "arp" -> ArpDecode(bytes)
                 [] codec = "udp" -> UdpDecode(bytes) [] codec = "ipv4" -> IpDecode(Padded(bytes))
  /\ UNCHANGED <<codec, asked, bytes>>

(* The next packet. *)
Forget == /\ codec # "" /\ (parsed # <<>> \/ bytes = Raised)
          /\ codec' = "" /\ asked' = <<>> /\ bytes' = <<>> /\ parsed' = <<>>

CodecInit == codec = "" /\ asked = <<>> /\ bytes = <<>> /\ parsed = <<>>

CodecNext == \/ \E h \in EthHeaders, p \in Contents : Encode("eth", h, p)
             \/ \E h \in ArpHeaders : Encode("arp", h, <<>>)
             \/ \E h \in UdpHeaders, p \in Contents : Encode("udp", h, p)
             \/ \E h \in IpHeaders, p \in Contents : Encode("ipv4", h, p)
             \/ Decode \/ Forget

CodecSpec == CodecInit /\ [][CodecNext]_codecVars

------------------------------------------------------------------------------
(* The fields encode computes instead of copying them. *)
Computed == CASE codec = "udp" -> {"length", "checksum"} [] codec = "arp" -> {"oper"}
              [] codec = "ipv4" -> {"version", "total_length", "header_checksum"}
              [] OTHER -> {}

(* What is read back is what was written: every field that is copied, in   *)
(* particular the flags and the fragment offset, which share two bytes,    *)
(* and the payload, behind which a padded packet has more; the lengths     *)
(* tell where it ends.  An ARP packet is read back as a reply, always.     *)
RoundTrip ==
  parsed # <<>> =>
    /\ parsed # Raised
    /\ SubSeq(parsed[2], 1, Len(asked[2])) = asked[2]
    /\ codec # "ipv4" => Len(parsed[2]) = Len(asked[2])
    /\ \A f \in DOMAIN asked[1] \ Computed : parsed[1][f] = asked[1][f]
    /\ codec = "arp" => parsed[1].oper = "Reply"
    /\ codec = "udp" => parsed[1].length = 8 + Len(asked[2])
    /\ codec = "ipv4" => parsed[1].total_length = 20 + Len(asked[2]) /\ parsed[1].version = 4

(* A receiver adds the hextets of the header, checksum included, with the  *)
(* carries folded in until none is left, and gets all ones: the sum is a   *)
(* multiple of 65535, and not 0.                                           *)
AllOnes(sum) == sum > 0 /\ sum % 65535 = 0
Verifies == AllOnes(Sum(toHextets(SubSeq(bytes, 1, 20))))

(* The checksum of a packet verifies exactly if folding in the carry of    *)
(* its header's sum leaves no carry: the one case encode does not fold.    *)
ChecksumExact ==
  codec = "ipv4" /\ bytes # Raised =>
    LET sum == Sum(toHextets(IpHeaderBytes(asked[1], asked[2], 0)))
    IN Verifies <=> (sum % 65536) + (sum \div 65536) < 65536

(* Every packet the service sends has a checksum that verifies. *)
ChecksumVerifies == codec = "ipv4" /\ bytes # Raised => Verifies
=============================================================================
