------------------------------- MODULE Service --------------------------------
(***************************************************************************)
(* A program on the network library (Libs/networklib/networklib.sml): it   *)
(* binds ports, then listen handles one frame after the other.  Fragments  *)
(* go through Reassembly, answers through Fragmentation.  The UDP header   *)
(* is the first element of a datagram.                                     *)
(***************************************************************************)
EXTENDS Integers, Sequences, FiniteSets

CONSTANTS Dgram, KeyOf, SizeOf, DontFragment, Scale, FragUnits, Network,
          MaxArrivals, Zero           \* of Reassembly
CONSTANTS Mtu, IpHeader, OffsetLimit  \* of Fragmentation
CONSTANTS FromPort, ToPort,           \* the ports of each datagram
          Udp,                        \* the datagrams whose protocol is UDP
          Bindings, Apply(_, _), Raised, Unmapped, MaxUdp  \* see UdpService
CONSTANTS
  Others,       \* frames that are not IPv4: [et, dstMac] and for ARP sha and spa
  Mac,          \* the hard-coded MAC address, to which clients send
  StackLimit    \* how many handlers of listen the stack holds

VARIABLES
  fragmentBuffer, assemblingList, out, arrived,   \* of Reassembly
  payload, rest, offset, sending, sent,           \* of Fragmentation
  listenOn,     \* list of <<port, callback>>, the newest first
  phase,        \* "bind", "listen", "send" or "overflow"
  depth,        \* handlers of listen on the stack
  client,       \* the key of the datagram being answered
  wire,         \* the frames given to Netif.send, in order
  heard         \* the frames of Others that came

ASSUME ServiceAssumption ==
  /\ Mtu \in Nat /\ IpHeader \in Nat /\ Scale \in Nat \ {0} /\ IpHeader + Scale <= Mtu
  /\ OffsetLimit \in Nat \ {0} /\ FragUnits \in Nat \ {0} /\ MaxArrivals \in Nat
  /\ SizeOf \in [Dgram -> Nat \ {0}] /\ DontFragment \subseteq Dgram
  /\ Udp \subseteq Dgram
  /\ Network \in {"serial", "inorder", "any"}
  /\ \A d \in Dgram : \A i \in 1..SizeOf[d] : Zero # <<d, i>>
  /\ Unmapped \in Seq({Unmapped[i] : i \in DOMAIN Unmapped})
  /\ Bindings \in Seq({Bindings[i] : i \in DOMAIN Bindings})

In == INSTANCE Reassembly
Out == INSTANCE Fragmentation WITH Unit <- Scale, Payloads <- {}

inVars == <<fragmentBuffer, assemblingList, out, arrived>>
outVars == <<payload, rest, offset, sending, sent>>
vars == <<inVars, outVars, listenOn, phase, depth, client, wire, heard>>

------------------------------------------------------------------------------
(* The program binds its ports and calls listen. *)
Bind == /\ phase = "bind" /\ Len(listenOn) < Len(Bindings)
        /\ listenOn' = <<Bindings[Len(listenOn) + 1]>> \o listenOn
        /\ UNCHANGED <<inVars, outVars, phase, depth, client, wire, heard>>

Listen == /\ phase = "bind" /\ Len(listenOn) = Len(Bindings)
          /\ phase' = "listen" /\ depth' = 1
          /\ UNCHANGED <<inVars, outVars, listenOn, client, wire, heard>>

(* A frame that was handled: listen calls itself inside the scope of its   *)
(* handler, which therefore stays on the stack.                            *)
Again == IF depth < StackLimit THEN phase' = "listen" /\ depth' = depth + 1
         ELSE phase' = "overflow" /\ UNCHANGED depth

(* A frame whose handling raised: the handler is gone when it calls listen. *)
CaughtReturns == phase' = "returned" /\ UNCHANGED depth            \* mutant
Caught == phase' = "listen" /\ UNCHANGED depth

------------------------------------------------------------------------------
(* Frames that are not IPv4. *)
Receive(f) == /\ phase = "listen" /\ f \in Others \ heard
              /\ heard' = heard \union {f}
              /\ UNCHANGED <<inVars, outVars, listenOn, client>>

(* Any ARP packet is answered, to the address the frame was sent to. *)
HandleArp(f) ==
  /\ f.et = "ARP" /\ Receive(f)
  /\ wire' = Append(wire, [et |-> "ARP", dst |-> f.dstMac, oper |-> "Reply",
                           sha |-> Mac, tha |-> f.sha, tpa |-> f.spa \o <<0, 0>>])
  /\ Again

(* An ARP packet that cannot be decoded, or IPv6. *)
Ignore(f) == f.et \in {"badARP", "IPv6"} /\ Receive(f) /\ Again /\ UNCHANGED wire

(* Eth.decode raises: a short frame or an unknown type. *)
Reject(f) == f.et = "unknown" /\ Receive(f) /\ Caught /\ UNCHANGED wire

------------------------------------------------------------------------------
(* handleUDP *)
FoundOldest(port) ==                                               \* mutant
  LET at == {k \in DOMAIN listenOn : listenOn[k][1] = port}
  IN IF at = {} THEN 0 ELSE CHOOSE k \in at : \A j \in at : j <= k
Found(port) ==
  LET at == {k \in DOMAIN listenOn : listenOn[k][1] = port}
  IN IF at = {} THEN 0 ELSE CHOOSE k \in at : \A j \in at : k <= j

(* The ports in a header; \000 bytes are port 0. *)
Ports(h) == IF h = Zero THEN [from |-> 0, to |-> 0]
            ELSE [from |-> FromPort[h[1]], to |-> ToPort[h[1]]]

Swapped(h) == [from |-> Ports(h).to, to |-> Ports(h).from]

(* The datagram to send back, or Raised: by the callback, or by            *)
(* intToRawbyteString when the length has no 16 bits.                      *)
Answer(data) ==
  LET k == Found(Ports(data[1]).to)
      result == IF k = 0 THEN Unmapped ELSE Apply(listenOn[k][2], Tail(data))
  IN IF result = Raised \/ (result # Raised /\ Len(result) + 1 > MaxUdp) THEN Raised
     ELSE <<Swapped(data[1])>> \o result

HandleUDPStale(up) ==                                              \* mutant
  LET answer == Answer(up.data)
  IN IF answer = Raised THEN Caught /\ UNCHANGED <<outVars, client>>
     ELSE /\ Out!Start(answer) /\ phase' = "send" /\ UNCHANGED depth
          /\ client' = IF client = Zero THEN up.key ELSE client
HandleUDP(up) ==
  LET answer == Answer(up.data)
  IN IF answer = Raised THEN Caught /\ UNCHANGED <<outVars, client>>
     ELSE Out!Start(answer) /\ phase' = "send" /\ client' = up.key /\ UNCHANGED depth

------------------------------------------------------------------------------
(* handleIPv4 *)
Raises(pkt) ==
  LET added == In!AddFragment(pkt)
      built == In!InitAssembling(pkt, added.buf, added.asm)
  IN /\ ~(pkt.offset = 0 /\ pkt.flags = 2)
     /\ ~added.ok \/ (pkt.flags = 0 /\ ~built.ok)

IsUdp(key) == key \in {KeyOf[d] : d \in Udp}

HandleIPv4(d, i) ==
  /\ phase = "listen"
  /\ In!Arrive(d, i)
  /\ \/ Raises(In!Packet(d, i)) /\ Caught /\ UNCHANGED <<outVars, client>>
     \/ /\ ~Raises(In!Packet(d, i))
        /\ out' = out \/ ~IsUdp(KeyOf[d])
        /\ Again /\ UNCHANGED <<outVars, client>>
     \/ out' # out /\ IsUdp(KeyOf[d]) /\ HandleUDP(out'[Len(out')])
  /\ UNCHANGED <<listenOn, wire, heard>>

(* ethSend of one packet of the answer. *)
Packet(p) == [et |-> "IPv4", dst |-> Mac, key |-> client, offset |-> p.offset,
              flags |-> p.flags, data |-> p.data]

SendPacketYields ==                                                \* mutant
  /\ phase = "send"
  /\ Out!SendMore \/ Out!SendLast
  /\ wire' = Append(wire, Packet(sent'[Len(sent')]))
  /\ Again
  /\ UNCHANGED <<inVars, listenOn, client, heard>>
SendPacket ==
  /\ phase = "send"
  /\ Out!SendMore \/ Out!SendLast
  /\ wire' = Append(wire, Packet(sent'[Len(sent')]))
  /\ IF sending' THEN UNCHANGED <<phase, depth>> ELSE Again
  /\ UNCHANGED <<inVars, listenOn, client, heard>>

------------------------------------------------------------------------------
Init == /\ In!Init /\ Out!Init
        /\ listenOn = <<>> /\ phase = "bind" /\ depth = 0
        /\ client = Zero /\ wire = <<>> /\ heard = {}

Next == \/ Bind \/ Listen \/ SendPacket
        \/ \E f \in Others : HandleArp(f) \/ Ignore(f) \/ Reject(f)
        \/ \E d \in Dgram : \E i \in 1..In!Fragments(d) : HandleIPv4(d, i)

Spec == Init /\ [][Next]_vars /\ WF_vars(Bind \/ Listen \/ SendPacket)

------------------------------------------------------------------------------
(* What a peer makes of the frames up to the end of an answer: the packets *)
(* from the last one at offset 0 on, each at its offset.                   *)
Datagrams(frames) == {j \in DOMAIN frames : frames[j].et = "IPv4"}
Parts(frames) ==
  LET ip == Datagrams(frames)
      first == CHOOSE j \in ip : /\ frames[j].offset = 0
                                 /\ \A l \in ip : l > j => frames[l].offset # 0
  IN {j \in ip : j >= first}
Covers(p, b) == p.offset * Scale < b /\ b <= p.offset * Scale + Len(p.data)
Rebuilt(frames) ==
  LET last == frames[Len(frames)]
  IN [key |-> last.key,
      data |-> [b \in 1..(last.offset * Scale + Len(last.data)) |->
        LET p == frames[CHOOSE j \in Parts(frames) : Covers(frames[j], b)]
        IN p.data[b - p.offset * Scale]]]

(* The i-th answer ends with the i-th packet without the more-fragments    *)
(* flag.                                                                   *)
Lasts == {k \in Datagrams(wire) : wire[k].flags = 0}
Rank(k) == Cardinality({l \in Lasts : l <= k})
EndOf(i) == CHOOSE k \in Lasts : Rank(k) = i
Replies == [i \in 1..Cardinality(Lasts) |-> Rebuilt(SubSeq(wire, 1, EndOf(i)))]

(* Whatever the network does to the requests: what is sent to a client is  *)
(* made of \000 bytes, the service's own text and bytes of datagrams that  *)
(* client sent, and goes to the port one of them came from.                *)
Own == {Unmapped[i] : i \in DOMAIN Unmapped} \union {Zero}
RepliesIsolated ==
  \A k \in DOMAIN wire : wire[k].et = "IPv4" =>
    \A i \in DOMAIN wire[k].data :
      LET b == wire[k].data[i]
          mine == {d \in Dgram : KeyOf[d] = wire[k].key}
      IN IF wire[k].offset = 0 /\ i = 1
         THEN b = [from |-> 0, to |-> 0] \/ \E d \in mine : b = [from |-> ToPort[d], to |-> FromPort[d]]
         ELSE b \in Own \/ b[1] \in mine

(* An answer is sent whole or not at all: an exception comes before its    *)
(* first packet (Answer), never between two.  That the encoders raise for  *)
(* no packet after that is Fragmentation!PacketsFit; what may come between *)
(* two packets is another frame's handler, or an early return.             *)
AllOrNothing ==
  \A k \in DOMAIN wire :
    wire[k].et = "IPv4" /\ wire[k].flags = 1 =>
      IF k < Len(wire)
      THEN wire[k + 1].key = wire[k].key /\ wire[k + 1].offset > wire[k].offset
      ELSE phase = "send" /\ client = wire[k].key

(* Requests that come one after the other, among frames that are not for   *)
(* it, are answered as UdpService says.                                    *)
Promise == INSTANCE UdpService WITH
             replies <- Replies,
             pending <- {d \in Dgram : arrived[d] < In!Fragments(d)}
                          \union {d \in Dgram : phase = "send" /\ client = KeyOf[d]}
PromiseSpec == Promise!Spec

(* Once the ports are bound, listen comes back for the next frame: after   *)
(* an answer of any length, and after a callback that raised.              *)
ComesBack == (phase # "listen") ~> (phase = "listen")

(* listen is infinite: the service is never out of stack. *)
KeepsListening == phase # "overflow"
=============================================================================
