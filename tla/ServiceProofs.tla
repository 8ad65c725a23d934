---------------------------- MODULE ServiceProofs -----------------------------
(***************************************************************************)
(* Proofs about a whole service, for every program, network, MTU and set   *)
(* of clients: how it uses the reassembly, that its answers leave whole,   *)
(* that no client's bytes are in another's answer, and that requests that  *)
(* come one after the other are answered as UdpService promises.           *)
(***************************************************************************)
EXTENDS Service, SequenceTheorems, FiniteSetTheorems, WellFoundedInduction, TLAPS

------------------------------------------------------------------------------
(* Of handleIPv4 the service makes one call for each packet, and nothing   *)
(* else touches the two lists: what ReassemblyProofs says of Reassembly    *)
(* holds of In.                                                            *)
THEOREM ServiceReassembles == Spec => In!Spec
<1>1. Init => In!Init
  BY DEF Init
<1>2. [Next]_vars => [In!Next]_inVars
  <2> SUFFICES ASSUME [Next]_vars PROVE In!Next \/ UNCHANGED inVars
    OBVIOUS
  <2>1. CASE Bind \/ Listen \/ SendPacket
    BY <2>1 DEF Bind, Listen, SendPacket
  <2>2. ASSUME NEW f \in Others, HandleArp(f) \/ Ignore(f) \/ Reject(f)
        PROVE  UNCHANGED inVars
    BY <2>2 DEF HandleArp, Ignore, Reject, Receive
  <2>3. ASSUME NEW d \in Dgram, NEW i \in 1..In!Fragments(d), HandleIPv4(d, i)
        PROVE  In!Next
    BY <2>3 DEF HandleIPv4, In!Next
  <2>4. CASE UNCHANGED vars
    BY <2>4 DEF vars
  <2> QED
    BY <2>1, <2>2, <2>3, <2>4 DEF Next
<1>3. [Next]_vars => [In!Next]_(In!vars)
  BY <1>2 DEF inVars, In!vars
<1> QED
  BY <1>1, <1>3, PTL DEF Spec, In!Spec

------------------------------------------------------------------------------
(* What ReassemblyProofs proves of Reassembly holds of In: its operators    *)
(* are the same, one after the other.                                       *)
InP == INSTANCE ReassemblyProofs

LEMMA ReassemblyAssumed == InP!ReassemblyAssumption
BY ServiceAssumption DEF InP!ReassemblyAssumption

LEMMA FindSame == \A list, key : InP!Find(list, key) = In!Find(list, key)
BY DEF In!Find, InP!Find

LEMMA PacketSame ==
  \A d, i : InP!Packet(d, i) = In!Packet(d, i) /\ InP!Fragments(d) = In!Fragments(d)
BY DEF In!Packet, InP!Packet, In!Payload, InP!Payload, In!Fragments, InP!Fragments,
       In!FragBytes, InP!FragBytes

LEMMA AddFragmentSame ==
  ASSUME NEW pkt
  PROVE  InP!AddFragment(pkt) = In!AddFragment(pkt)
<1>1. CASE In!Find(fragmentBuffer, pkt.key) # 0
  <2>1. \A b, frag : InP!StoreIn(b, frag) = In!StoreIn(b, frag)
    BY DEF In!StoreIn, InP!StoreIn
  <2> QED
    BY FindSame, <1>1, <2>1, Zenon DEF In!AddFragment, InP!AddFragment
<1>2. CASE In!Find(fragmentBuffer, pkt.key) = 0
  <2>1. /\ \A arr, at, data : InP!Write(arr, at, data) = In!Write(arr, at, data)
        /\ \A len, at, data : InP!Fits(len, at, data) = In!Fits(len, at, data)
    BY DEF In!Write, InP!Write, In!Fits, InP!Fits
  <2> QED
    BY FindSame, <1>2, <2>1 DEF In!AddFragment, InP!AddFragment
<1> QED
  BY <1>1, <1>2

LEMMA ByteSame ==
  ASSUME NEW frags, NEW i
  PROVE  InP!Byte(frags, i) = In!Byte(frags, i)
BY SMT DEF In!Byte, InP!Byte, In!Covering, InP!Covering

LEMMA InitAssemblingSame ==
  ASSUME NEW pkt, NEW buf, NEW asm
  PROVE  InP!InitAssembling(pkt, buf, asm) = In!InitAssembling(pkt, buf, asm)
<1> DEFINE len == pkt.offset * Scale + Len(pkt.data)
           b == In!Find(buf, pkt.key)
           frags == IF b = 0 THEN <<>> ELSE buf[b].frags
           Built(arr) == [buf |-> IF b = 0 THEN buf ELSE In!Drop(buf, b),
                          asm |-> <<[key |-> pkt.key, arr |-> arr]>> \o asm,
                          ok |-> \A j \in DOMAIN frags :
                                   In!Fits(len, frags[j].offset * Scale, frags[j].data)]
<1>1. [i \in 1..len |-> InP!Byte(frags, i)] = [i \in 1..len |-> In!Byte(frags, i)]
  BY ByteSame
<1>2. /\ \A list, i : InP!Drop(list, i) = In!Drop(list, i)
      /\ \A n, at, data : InP!Fits(n, at, data) = In!Fits(n, at, data)
      /\ InP!Find(buf, pkt.key) = b
  BY FindSame DEF In!Drop, InP!Drop, In!Fits, InP!Fits
<1>3. InP!InitAssembling(pkt, buf, asm) = Built([i \in 1..len |-> InP!Byte(frags, i)])
  <2> HIDE DEF b
  <2> QED
    BY <1>2, Zenon DEF InP!InitAssembling
<1>4. In!InitAssembling(pkt, buf, asm) = Built([i \in 1..len |-> In!Byte(frags, i)])
  BY DEF In!InitAssembling
<1> HIDE DEF len, frags, Built
<1> QED
  BY <1>1, <1>3, <1>4

LEMMA HandleSame ==
  ASSUME NEW pkt
  PROVE  InP!Handle(pkt) <=> In!Handle(pkt)
BY FindSame, AddFragmentSame, InitAssemblingSame
DEF In!Handle, InP!Handle, In!HandleWhole, InP!HandleWhole, In!HandleFragment,
    InP!HandleFragment, In!HandleLast, InP!HandleLast, In!Drop, InP!Drop, In!HandUp, InP!HandUp

LEMMA NextSame == InP!Next <=> In!Next
<1>1. ASSUME NEW d, NEW i PROVE InP!Arrive(d, i) <=> In!Arrive(d, i)
  BY PacketSame, HandleSame, Zenon DEF In!Arrive, InP!Arrive, In!MayArrive, InP!MayArrive
<1> QED
  BY <1>1, PacketSame DEF In!Next, InP!Next

(* What Reassembly promises of the payloads it hands up. *)
Reassembled == In!TypeOK /\ In!PayloadsIsolated

LEMMA ServiceReassembled == Spec => []Reassembled
<1>1. In!Init => InP!Init
  BY DEF In!Init, InP!Init
<1>2. [In!Next]_(In!vars) => [InP!Next]_(InP!vars)
  BY NextSame DEF In!vars, InP!vars
<1>3. In!Spec => InP!Spec
  BY <1>1, <1>2, PTL DEF In!Spec, InP!Spec
<1>4. InP!Spec => []InP!TypeOK
  BY ReassemblyAssumed, InP!ReassemblyTypes, PTL
<1>5. InP!Spec => []InP!Isolation
  BY ReassemblyAssumed, InP!ClientsIsolated, PTL
<1>6. InP!TypeOK /\ InP!Isolation => Reassembled
  BY DEF Reassembled, In!TypeOK, InP!TypeOK, In!PayloadsIsolated, InP!Isolation,
         InP!PayloadsIsolated, In!Keys, InP!Keys, In!Bytes, InP!Bytes, In!FragBytes,
         InP!FragBytes
<1> QED
  BY ServiceReassembles, <1>3, <1>4, <1>5, <1>6, PTL

------------------------------------------------------------------------------
(* Sequences whatever is in them. *)
IsList(s) == s \in Seq({s[k] : k \in DOMAIN s})

(* What Append does to a sequence of no known type. *)
LEMMA ListAppend ==
  ASSUME NEW s, IsList(s), NEW e
  PROVE  LET t == Append(s, e)
         IN /\ IsList(t) /\ Len(t) \in Nat /\ Len(s) \in Nat
            /\ Len(t) = Len(s) + 1 /\ DOMAIN t = 1..Len(t) /\ DOMAIN s = 1..Len(s)
            /\ t[Len(t)] = e /\ \A k \in 1..Len(s) : t[k] = s[k]
<1> DEFINE S == {s[k] : k \in DOMAIN s} \union {e}
           t == Append(s, e)
<1>1. s \in Seq(S) /\ e \in S
  <2>1. s \in Seq({s[k] : k \in DOMAIN s})
    BY DEF IsList
  <2> QED
    BY <2>1
<1>2. /\ t \in Seq(S) /\ Len(t) = Len(s) + 1 /\ Len(s) \in Nat
      /\ t[Len(s) + 1] = e /\ \A k \in 1..Len(s) : t[k] = s[k]
  <2> HIDE DEF S
  <2> QED
    BY <1>1, AppendProperties
<1>3. t = [k \in 1..Len(t) |-> t[k]] /\ Len(t) \in Nat /\ DOMAIN t = 1..Len(t)
  <2> HIDE DEF S, t
  <2> QED
    BY <1>2
<1>4. IsList(t)
  <2> HIDE DEF t
  <2>1. \A k \in 1..Len(t) : t[k] \in {t[j] : j \in DOMAIN t}
    BY <1>3
  <2> QED
    BY <1>3, <2>1 DEF IsList
<1>5. DOMAIN s = 1..Len(s)
  <2> HIDE DEF S
  <2> QED
    BY <1>1
<1> QED
  BY <1>2, <1>3, <1>4, <1>5

(* A fragment has at least one unit, so that the offset grows. *)
LEMMA FragmentUnits == Out!nfb \in Nat /\ Out!nfb >= 1
<1> DEFINE room == Mtu - IpHeader
<1>1. room \in Nat /\ room >= Scale /\ Scale \in Nat /\ Scale >= 1
  BY ServiceAssumption
<1> HIDE DEF room
<1>2. room \div Scale \in Nat /\ room \div Scale >= 1
  BY <1>1
<1> QED
  BY <1>2 DEF Out!nfb, room

------------------------------------------------------------------------------
(* An answer that is not finished: its last packet is the last frame, and  *)
(* the service is still sending it.                                        *)
Follows(a, b) == b.key = a.key /\ b.offset > a.offset
Opens(f) == f.et = "IPv4" /\ f.flags = 1

SendInv ==
  /\ IsList(wire) /\ IsList(sent)
  /\ phase \in {"bind", "listen", "send", "overflow"}
  /\ sending \in BOOLEAN /\ (sending <=> phase = "send")
  /\ offset \in Nat
  /\ \A k \in 1..Len(wire) : Opens(wire[k]) =>
       /\ wire[k].offset \in Nat
       /\ k < Len(wire) => Follows(wire[k], wire[k + 1])
       /\ k = Len(wire) => /\ phase = "send" /\ client = wire[k].key
                           /\ offset > wire[k].offset

(* Steps that send nothing and begin no answer. *)
LEMMA Silence ==
  ASSUME SendInv, UNCHANGED <<wire, outVars, client>>,
         phase' \in {"bind", "listen", "overflow"}, phase # "send"
  PROVE  SendInv'
BY DEF SendInv, outVars, IsList, Opens, Follows

(* listen goes on with the next frame, or out of stack. *)
LEMMA AgainOrCaught ==
  ASSUME phase = "listen", Again \/ Caught
  PROVE  phase' \in {"bind", "listen", "overflow"}
BY DEF Again, Caught

(* A frame that begins no answer of several packets. *)
LEMMA Closed ==
  ASSUME SendInv, NEW f, ~Opens(f), wire' = Append(wire, f), phase # "send",
         UNCHANGED <<outVars, client>>, phase' \in {"bind", "listen", "overflow"}
  PROVE  SendInv'
<1>1. /\ IsList(wire') /\ Len(wire') \in Nat /\ Len(wire) \in Nat
      /\ Len(wire') = Len(wire) + 1 /\ wire'[Len(wire')] = f
      /\ \A k \in 1..Len(wire) : wire'[k] = wire[k]
  BY ListAppend DEF SendInv
<1>2. ASSUME NEW k \in 1..Len(wire'), Opens(wire'[k])
      PROVE  /\ wire[k].offset \in Nat /\ wire'[k] = wire[k]
             /\ k < Len(wire) /\ k + 1 \in 1..Len(wire)
             /\ Follows(wire[k], wire[k + 1])
  <2>1. k \in 1..Len(wire) /\ wire'[k] = wire[k]
    BY <1>1, <1>2
  <2>2. k # Len(wire)
    BY <1>2, <2>1 DEF SendInv
  <2> QED
    BY <1>1, <1>2, <2>1, <2>2 DEF SendInv
<1>3. \A k \in 1..Len(wire') : Opens(wire'[k]) =>
        /\ wire'[k].offset \in Nat
        /\ k < Len(wire') => Follows(wire'[k], wire'[k + 1])
        /\ k # Len(wire')
  BY <1>1, <1>2
<1> QED
  BY <1>1, <1>3 DEF SendInv, outVars, IsList

(* A datagram handed up: its answer begins, or there is none. *)
LEMMA AnswerBegins ==
  ASSUME SendInv, phase = "listen", NEW up, HandleUDP(up), wire' = wire
  PROVE  SendInv'
<1>1. CASE Caught /\ UNCHANGED <<outVars, client>>
  BY <1>1, Silence, AgainOrCaught
<1>2. ASSUME NEW answer, Out!Start(answer), phase' = "send"
      PROVE  SendInv'
  <2>1. /\ sending' = TRUE /\ offset' = 0 /\ sent' = <<>>
    BY <1>2 DEF Out!Start
  <2>2. \A k \in 1..Len(wire) : Opens(wire[k]) => k # Len(wire)
    BY DEF SendInv
  <2>3. IsList(sent')
    BY <2>1 DEF IsList
  <2> QED
    BY <1>2, <2>1, <2>2, <2>3 DEF SendInv, IsList
<1> QED
  BY <1>1, <1>2 DEF HandleUDP

(* The packet sendFragments sends next. *)
Cut(data) == [offset |-> offset, flags |-> IF sending' THEN 1 ELSE 0, data |-> data]

(* It goes on the wire, and the offset grows if more follow. *)
LEMMA PacketOf ==
  ASSUME SendInv, SendPacket, NEW data, sending' \in BOOLEAN,
         sent' = Append(sent, Cut(data)),
         offset' = IF sending' THEN offset + Out!nfb ELSE offset
  PROVE  /\ wire' = Append(wire, Packet(Cut(data)))
         /\ IsList(sent') /\ offset' \in Nat
         /\ sending' => offset' > offset
<1>1. IsList(sent') /\ sent'[Len(sent')] = Cut(data)
  BY ListAppend DEF SendInv
<1>2. wire' = Append(wire, Packet(Cut(data)))
  BY <1>1 DEF SendPacket
<1>3. offset \in Nat /\ offset' \in Nat /\ (sending' => offset' > offset)
  <2>1. offset \in Nat
    BY DEF SendInv
  <2>2. CASE sending'
    BY <2>1, <2>2, FragmentUnits
  <2>3. CASE ~sending'
    BY <2>1, <2>3
  <2> QED
    BY <2>1, <2>2, <2>3
<1> QED
  BY <1>1, <1>2, <1>3

(* Both the last packet and one with more to come are such a cut.          *)
LEMMA PacketSent ==
  ASSUME SendInv, SendPacket
  PROVE  /\ \E data : wire' = Append(wire, Packet(Cut(data)))
         /\ sending' \in BOOLEAN /\ IsList(sent') /\ offset' \in Nat
         /\ sending' => offset' > offset
<1>1. CASE Out!SendMore
  <2> DEFINE data == SubSeq(rest, 1, Out!nfb * Scale)
  <2>1. /\ sending' = TRUE /\ offset' = offset + Out!nfb
        /\ sent' = Append(sent, [offset |-> offset, flags |-> 1, data |-> data])
    BY <1>1 DEF Out!SendMore, SendInv
  <2> HIDE DEF data
  <2>2. sent' = Append(sent, Cut(data))
    BY <2>1 DEF Cut
  <2> QED
    BY <2>1, <2>2, PacketOf
<1>2. CASE Out!SendLast
  <2>1. /\ sending' = FALSE /\ offset' = offset
        /\ sent' = Append(sent, [offset |-> offset, flags |-> 0, data |-> rest])
    BY <1>2 DEF Out!SendLast
  <2>2. sent' = Append(sent, Cut(rest))
    BY <2>1 DEF Cut
  <2>3. sending' \in BOOLEAN /\ ~sending'
    BY <2>1
  <2>4. offset' = IF sending' THEN offset + Out!nfb ELSE offset
    BY <2>1, <2>3
  <2>5. /\ \E data : wire' = Append(wire, Packet(Cut(data)))
        /\ IsList(sent') /\ offset' \in Nat
    BY <2>2, <2>3, <2>4, PacketOf
  <2> QED
    BY <2>3, <2>5
<1> QED
  BY <1>1, <1>2 DEF SendPacket

(* A packet of an answer follows the one before it, if it is not the first. *)
LEMMA PacketKeeps ==
  ASSUME SendInv, SendPacket
  PROVE  SendInv'
<1>1. PICK data : wire' = Append(wire, Packet(Cut(data)))
  BY PacketSent
<1> DEFINE f == Packet(Cut(data))
<1>2. /\ f.et = "IPv4" /\ f.key = client /\ f.offset = offset
      /\ f.flags = (IF sending' THEN 1 ELSE 0)
  BY DEF Packet, Cut
<1> HIDE DEF f
<1>3. /\ IsList(wire') /\ Len(wire') \in Nat /\ Len(wire) \in Nat
      /\ Len(wire') = Len(wire) + 1 /\ wire'[Len(wire')] = f
      /\ \A k \in 1..Len(wire) : wire'[k] = wire[k]
  <2>1. wire' = Append(wire, f)
    BY <1>1 DEF f
  <2> QED
    BY <2>1, ListAppend DEF SendInv
<1>4. /\ phase = "send" /\ client' = client /\ offset \in Nat
      /\ sending' \in BOOLEAN /\ IsList(sent') /\ offset' \in Nat
      /\ sending' => offset' > offset
  BY PacketSent DEF SendInv, SendPacket
<1>5. phase' \in {"listen", "send", "overflow"} /\ (sending' <=> phase' = "send")
  BY <1>4 DEF SendPacket, Again
<1>6. ASSUME NEW k \in 1..Len(wire), Opens(wire[k])
      PROVE  /\ wire'[k].offset \in Nat
             /\ Follows(wire'[k], wire'[k + 1])
  <2>1. wire'[k] = wire[k] /\ wire[k].offset \in Nat
    BY <1>3, <1>6 DEF SendInv
  <2>2. CASE k < Len(wire)
    <3>1. wire'[k + 1] = wire[k + 1]
      BY <1>3, <2>2
    <3> QED
      BY <1>6, <2>1, <2>2, <3>1 DEF SendInv
  <2>3. CASE k = Len(wire)
    <3>1. wire'[k + 1] = f
      BY <1>3, <2>3
    <3>2. client = wire[k].key /\ offset > wire[k].offset
      BY <1>6, <2>3 DEF SendInv
    <3> QED
      BY <1>2, <2>1, <3>1, <3>2 DEF Follows
  <2> QED
    BY <1>3, <2>2, <2>3
<1>7. Opens(f) => sending'
  BY <1>2, <1>4 DEF Opens
<1>8. ASSUME NEW k \in 1..Len(wire'), Opens(wire'[k])
      PROVE  /\ wire'[k].offset \in Nat
             /\ k < Len(wire') => Follows(wire'[k], wire'[k + 1])
             /\ k = Len(wire') => /\ phase' = "send" /\ client' = wire'[k].key
                                  /\ offset' > wire'[k].offset
  <2>1. CASE k = Len(wire')
    BY <1>2, <1>3, <1>4, <1>5, <1>7, <1>8, <2>1
  <2>2. CASE k # Len(wire')
    <3>1. k \in 1..Len(wire) /\ wire'[k] = wire[k]
      BY <1>3, <2>2
    <3> QED
      BY <1>6, <1>8, <2>2, <3>1
  <2> QED
    BY <2>1, <2>2
<1> QED
  BY <1>3, <1>4, <1>5, <1>8 DEF SendInv

(* Every step of the service keeps the wire in order. *)
LEMMA SendInductive == SendInv /\ [Next]_vars => SendInv'
<1> SUFFICES ASSUME SendInv, [Next]_vars PROVE SendInv'
  OBVIOUS
<1>1. CASE Bind \/ Listen
  <2>1. UNCHANGED <<wire, outVars, client>> /\ phase # "send"
    BY <1>1 DEF Bind, Listen
  <2>2. phase' \in {"bind", "listen", "overflow"}
    BY <1>1 DEF Bind, Listen
  <2> QED
    BY <2>1, <2>2, Silence
<1>2. CASE SendPacket
  BY <1>2, PacketKeeps
<1>3. ASSUME NEW f \in Others, HandleArp(f)
      PROVE  SendInv'
  <2> DEFINE a == [et |-> "ARP", dst |-> f.dstMac, oper |-> "Reply",
                   sha |-> Mac, tha |-> f.sha, tpa |-> f.spa \o <<0, 0>>]
  <2>1. ~Opens(a)
    BY DEF Opens
  <2>2. /\ wire' = Append(wire, a) /\ phase = "listen" /\ Again
        /\ UNCHANGED <<outVars, client>>
    BY <1>3 DEF HandleArp, Receive
  <2> HIDE DEF a
  <2> QED
    BY <2>1, <2>2, Closed, AgainOrCaught
<1>4. ASSUME NEW f \in Others, Ignore(f) \/ Reject(f)
      PROVE  SendInv'
  <2>1. phase = "listen" /\ (Again \/ Caught) /\ UNCHANGED <<wire, outVars, client>>
    BY <1>4 DEF Ignore, Reject, Receive
  <2> QED
    BY <2>1, Silence, AgainOrCaught
<1>5. ASSUME NEW d \in Dgram, NEW i \in 1..In!Fragments(d), HandleIPv4(d, i)
      PROVE  SendInv'
  <2>1. phase = "listen" /\ wire' = wire
    BY <1>5 DEF HandleIPv4
  <2>2. CASE (Again \/ Caught) /\ UNCHANGED <<outVars, client>>
    BY <2>1, <2>2, Silence, AgainOrCaught
  <2>3. CASE HandleUDP(out'[Len(out')])
    BY <2>1, <2>3, AnswerBegins
  <2> QED
    BY <1>5, <2>2, <2>3 DEF HandleIPv4
<1>6. CASE UNCHANGED vars
  BY <1>6 DEF vars, outVars, SendInv, IsList, Opens, Follows
<1> QED
  BY <1>1, <1>2, <1>3, <1>4, <1>5, <1>6 DEF Next

(* Nothing is sent before the first frame. *)
LEMMA InitSends == Init => SendInv
<1> SUFFICES ASSUME Init PROVE SendInv
  OBVIOUS
<1>1. IsList(<<>>)
  BY DEF IsList
<1>2. Len(wire) = 0 /\ wire = <<>> /\ sent = <<>> /\ offset = 0
      /\ sending = FALSE /\ phase = "bind"
  BY DEF Init, Out!Init
<1>3. \A k \in 1..Len(wire) : FALSE
  BY <1>2
<1> QED
  BY <1>1, <1>2, <1>3 DEF SendInv

(* ipv4Send sends an answer whole or not at all: once its first packet is  *)
(* on the wire nothing is raised, no other frame is handled, and the next  *)
(* frame is the next packet of the same answer.                            *)
THEOREM AnswersWhole == Spec => []AllOrNothing
<1>1. SendInv => AllOrNothing
  <2> SUFFICES ASSUME SendInv PROVE AllOrNothing
    OBVIOUS
  <2>1. DOMAIN wire = 1..Len(wire) /\ Len(wire) \in Nat
    BY DEF SendInv, IsList
  <2>2. SUFFICES ASSUME NEW k \in 1..Len(wire), wire[k].et = "IPv4", wire[k].flags = 1
                 PROVE IF k < Len(wire)
                       THEN wire[k + 1].key = wire[k].key /\ wire[k + 1].offset > wire[k].offset
                       ELSE phase = "send" /\ client = wire[k].key
    BY <2>1 DEF AllOrNothing
  <2>3. Opens(wire[k])
    BY <2>2 DEF Opens
  <2>4. CASE k < Len(wire)
    <3>1. Follows(wire[k], wire[k + 1])
      BY <2>3, <2>4 DEF SendInv
    <3> QED
      BY <3>1, <2>4 DEF Follows
  <2>5. CASE ~(k < Len(wire))
    <3>1. k = Len(wire)
      <4>1. \A n \in Nat : \A j \in 1..n : ~(j < n) => j = n
        OBVIOUS
      <4>2. k \in 1..Len(wire)
        BY <2>2
      <4> QED
        BY <4>1, <4>2, <2>1, <2>5
    <3>2. phase = "send" /\ client = wire[k].key
      BY <2>3, <3>1 DEF SendInv
    <3> QED
      BY <3>2, <2>5
  <2> QED
    BY <2>4, <2>5
<1> QED
  BY <1>1, InitSends, SendInductive, PTL DEF Spec

------------------------------------------------------------------------------
(* Whose bytes an answer is made of. *)

Mine(key) == {d \in Dgram : KeyOf[d] = key}
Headers(key) == {[from |-> 0, to |-> 0]}
                  \union {[from |-> ToPort[d], to |-> FromPort[d]] : d \in Mine(key)}
Theirs(key) == Own \union {<<d, j>> : d \in Mine(key), j \in Nat}

(* What is sent from an offset of an answer on: the header, if it is the   *)
(* beginning, and for the rest bytes of the client.                        *)
GoodData(key, at, data) ==
  /\ data \in Seq(Headers(key) \union Theirs(key))
  /\ \A i \in 1..Len(data) :
       IF at = 0 /\ i = 1 THEN data[i] \in Headers(key) ELSE data[i] \in Theirs(key)

BindingSet == {Bindings[i] : i \in DOMAIN Bindings}

AnswerInv ==
  /\ SendInv /\ IsList(out)
  /\ listenOn \in Seq(BindingSet)
  /\ phase = "send" => GoodData(client, offset, rest)
  /\ \A k \in 1..Len(wire) :
       wire[k].et = "IPv4" => GoodData(wire[k].key, wire[k].offset, wire[k].data)

(* What a callback returns is made of its argument and of the service's    *)
(* own text.                                                               *)
CallbacksRelay ==
  \A k \in DOMAIN Bindings : \A data \in Seq(In!Bytes) :
    LET result == Apply(Bindings[k][2], data)
    IN result = Raised \/ result \in Seq(Own \union {data[i] : i \in DOMAIN data})

------------------------------------------------------------------------------
(* The elements a + 1 to b of a sequence. *)
LEMMA Slice ==
  ASSUME NEW S, NEW s \in Seq(S), NEW a \in Nat, NEW b \in Nat, a <= b, b <= Len(s)
  PROVE  LET slice == SubSeq(s, a + 1, b)
         IN /\ slice \in Seq(S) /\ Len(slice) = b - a
            /\ \A j \in 1..(b - a) : a + j \in 1..Len(s) /\ slice[j] = s[a + j]
<1> DEFINE m == a + 1
           slice == SubSeq(s, m, b)
<1>1. /\ m \in Int /\ b \in Int /\ m = a + 1 /\ Len(s) \in Nat
      /\ \A j \in m..b : s[j] \in S
  OBVIOUS
<1> HIDE DEF m
<1>2. /\ slice \in Seq(S) /\ Len(slice) = IF m <= b THEN b - m + 1 ELSE 0
      /\ \A j \in 1..(b - m + 1) : slice[j] = s[m + j - 1]
  BY <1>1, SubSeqProperties
<1> HIDE DEF slice
<1>3. Len(slice) = b - a
  BY <1>1, <1>2
<1>4. ASSUME NEW j \in 1..(b - a) PROVE a + j \in 1..Len(s) /\ slice[j] = s[a + j]
  <2>1. j \in 1..(b - m + 1) /\ m + j - 1 = a + j
    BY <1>1
  <2> QED
    BY <1>1, <1>2, <2>1
<1> QED
  BY <1>1, <1>2, <1>3, <1>4 DEF slice

(* The first packet takes the header with it. *)
LEMMA CutGood ==
  ASSUME NEW key, NEW at \in Nat, NEW data, GoodData(key, at, data),
         NEW n \in Nat, n >= 1, n <= Len(data), NEW next \in Nat, next > at
  PROVE  /\ GoodData(key, at, SubSeq(data, 1, n))
         /\ GoodData(key, next, SubSeq(data, n + 1, Len(data)))
<1> DEFINE S == Headers(key) \union Theirs(key)
           first == SubSeq(data, 1, n)
           rest1 == SubSeq(data, n + 1, Len(data))
<1>1. data \in Seq(S) /\ Len(data) \in Nat
  BY DEF GoodData
<1>2. /\ first \in Seq(S) /\ Len(first) = n
      /\ \A j \in 1..n : j \in 1..Len(data) /\ first[j] = data[j]
  <2>1. 0 \in Nat /\ 0 + 1 = 1 /\ n - 0 = n /\ \A j \in 1..n : 0 + j = j
    OBVIOUS
  <2> HIDE DEF S
  <2>2. LET slice == SubSeq(data, 0 + 1, n)
        IN /\ slice \in Seq(S) /\ Len(slice) = n - 0
           /\ \A j \in 1..(n - 0) : 0 + j \in 1..Len(data) /\ slice[j] = data[0 + j]
    BY <1>1, Slice
  <2> QED
    BY <2>1, <2>2
<1>3. /\ rest1 \in Seq(S) /\ Len(rest1) = Len(data) - n
      /\ \A j \in 1..(Len(data) - n) : n + j \in 1..Len(data) /\ rest1[j] = data[n + j]
  <2> HIDE DEF S
  <2> QED
    BY <1>1, Slice
<1> HIDE DEF first, rest1
<1>4. GoodData(key, at, first)
  BY <1>2 DEF GoodData
<1>5. ASSUME NEW j \in 1..Len(rest1) PROVE rest1[j] \in Theirs(key)
  <2>1. n + j \in 1..Len(data) /\ n + j # 1 /\ rest1[j] = data[n + j]
    BY <1>1, <1>3
  <2> QED
    BY <2>1 DEF GoodData
<1> QED
  BY <1>3, <1>4, <1>5 DEF GoodData, first, rest1

------------------------------------------------------------------------------
(* The callback of a port is one the program bound. *)
LEMMA FoundBound ==
  ASSUME listenOn \in Seq(BindingSet), NEW port, Found(port) # 0
  PROVE  listenOn[Found(port)] \in BindingSet
<1> DEFINE at == {k \in DOMAIN listenOn : listenOn[k][1] = port}
<1>1. at # {} /\ at \subseteq Nat /\ at \subseteq DOMAIN listenOn
  BY DEF Found
<1>2. Found(port) = CHOOSE k \in at : \A j \in at : k <= j
  BY <1>1 DEF Found
<1> HIDE DEF at
<1>3. \E x \in at : \A y \in at : x <= y
  <2>1. PICK x \in at : \A y \in at : <<y, x>> \notin OpToRel(<, Nat)
    BY <1>1, NatLessThanWellFounded, WFMin
  <2>2. ASSUME NEW y \in at PROVE x <= y
    <3>1. x \in Nat /\ y \in Nat /\ <<y, x>> \in Nat \X Nat
      BY <1>1
    <3>2. ~(y < x)
      BY <2>1, <3>1 DEF OpToRel
    <3> QED
      BY <3>1, <3>2
  <2> QED
    BY <2>2
<1>4. Found(port) \in DOMAIN listenOn
  BY <1>1, <1>2, <1>3
<1>5. DOMAIN listenOn = 1..Len(listenOn)
  OBVIOUS
<1> DEFINE S == BindingSet
<1>6. listenOn \in Seq(S)
  OBVIOUS
<1> HIDE DEF S
<1>7. listenOn[Found(port)] \in S
  BY <1>4, <1>5, <1>6, ElementOfSeq
<1> QED
  BY <1>7 DEF S

(* The answer to a payload is made of bytes of its client. *)
LEMMA AnswerGood ==
  ASSUME CallbacksRelay, listenOn \in Seq(BindingSet), NEW up,
         up.data \in Seq(In!Bytes), Len(up.data) >= 1,
         \A j \in DOMAIN up.data :
           \/ up.data[j] = Zero
           \/ \E d \in Dgram : KeyOf[d] = up.key /\ up.data[j] = <<d, j>>,
         Answer(up.data) # Raised
  PROVE  GoodData(up.key, 0, Answer(up.data))
<1> DEFINE h == up.data[1]
           body == Tail(up.data)
           k == Found(Ports(h).to)
           result == IF k = 0 THEN Unmapped ELSE Apply(listenOn[k][2], body)
           T == Theirs(up.key)
<1>1. Len(up.data) \in Nat /\ DOMAIN up.data = 1..Len(up.data) /\ 1 \in DOMAIN up.data
  OBVIOUS
<1>2. Swapped(h) \in Headers(up.key)
  <2>1. CASE h = Zero
    BY <2>1 DEF Swapped, Ports, Headers
  <2>2. ASSUME h # Zero, NEW d \in Dgram, KeyOf[d] = up.key, h = <<d, 1>>
        PROVE  Swapped(h) \in Headers(up.key)
    <3>1. Swapped(h) = [from |-> ToPort[d], to |-> FromPort[d]]
      BY <2>2 DEF Swapped, Ports
    <3> QED
      BY <2>2, <3>1 DEF Headers, Mine
  <2> QED
    BY <1>1, <2>1, <2>2
<1>3. \A j \in DOMAIN up.data : up.data[j] \in T
  <2>1. Zero \in T
    BY DEF Theirs, Own
  <2>2. \A d \in Dgram : \A j \in DOMAIN up.data : KeyOf[d] = up.key => <<d, j>> \in T
    BY <1>1 DEF Theirs, Mine
  <2> QED
    BY <2>1, <2>2
<1>4. /\ body \in Seq(In!Bytes) /\ Len(body) = Len(up.data) - 1
      /\ \A j \in 1..Len(body) : j + 1 \in DOMAIN up.data /\ body[j] = up.data[j + 1]
  <2>1. up.data # <<>>
    BY <1>1
  <2>2. /\ body \in Seq(In!Bytes) /\ Len(body) = Len(up.data) - 1
        /\ \A j \in 1..Len(body) : body[j] = up.data[j + 1]
    BY <2>1, HeadTailProperties
  <2> HIDE DEF body
  <2> QED
    BY <1>1, <2>2
<1>5. \A j \in DOMAIN body : body[j] \in T
  <2>1. DOMAIN body = 1..Len(body)
    BY <1>4
  <2> QED
    BY <1>3, <1>4, <2>1
<1>6. Own \subseteq T
  BY DEF Theirs
<1> HIDE DEF body, T
<1>7. result = Raised \/ result \in Seq(T)
  <2>1. CASE k = 0
    <3>1. Unmapped \in Seq({Unmapped[i] : i \in DOMAIN Unmapped})
      BY ServiceAssumption
    <3>2. {Unmapped[i] : i \in DOMAIN Unmapped} \subseteq T
      BY <1>6 DEF Own
    <3>3. Unmapped \in Seq(T)
      BY <3>1, <3>2, SeqMonotonic
    <3> QED
      BY <2>1, <3>3
  <2>2. CASE k # 0
    <3>1. listenOn[k] \in BindingSet
      BY <2>2, FoundBound
    <3>2. PICK i \in DOMAIN Bindings : listenOn[k] = Bindings[i]
      BY <3>1 DEF BindingSet
    <3>3. result = Apply(Bindings[i][2], body)
      BY <2>2, <3>2
    <3>4. result = Raised \/ result \in Seq(Own \union {body[j] : j \in DOMAIN body})
      BY <1>4, <3>3 DEF CallbacksRelay
    <3>5. Own \union {body[j] : j \in DOMAIN body} \subseteq T
      BY <1>5, <1>6
    <3> HIDE DEF result
    <3> QED
      BY <3>4, <3>5, SeqMonotonic
  <2> QED
    BY <2>1, <2>2
<1>8. result # Raised /\ Answer(up.data) = <<Swapped(h)>> \o result
  BY DEF Answer, body
<1> HIDE DEF result, k, h
<1>9. /\ Answer(up.data) \in Seq(Headers(up.key) \union T)
      /\ Len(Answer(up.data)) = Len(result) + 1 /\ Len(result) \in Nat
      /\ Answer(up.data)[1] = Swapped(h)
      /\ \A i \in 2..(Len(result) + 1) : Answer(up.data)[i] = result[i - 1] /\ i - 1 \in 1..Len(result)
  <2>1. result \in Seq(T)
    BY <1>7, <1>8
  <2> DEFINE H == Headers(up.key)
  <2>2. Swapped(h) \in H
    BY <1>2
  <2> HIDE DEF H
  <2>3. /\ result \in Seq(H \union T) /\ Len(result) \in Nat
    BY <2>1
  <2> QED
    BY <1>8, <2>2, <2>3 DEF H
<1>10. \A i \in 1..Len(result) : result[i] \in T
  BY <1>7, <1>8
<1>11. ASSUME NEW i \in 1..Len(Answer(up.data))
       PROVE  IF i = 1 THEN Answer(up.data)[i] \in Headers(up.key) ELSE Answer(up.data)[i] \in T
  <2>1. CASE i = 1
    BY <1>2, <1>9, <2>1
  <2>2. CASE i # 1
    <3>1. i \in 2..(Len(result) + 1)
      BY <1>9, <2>2
    <3> QED
      BY <1>9, <1>10, <2>2, <3>1
  <2> QED
    BY <2>1, <2>2
<1> QED
  BY <1>9, <1>11 DEF GoodData, T

------------------------------------------------------------------------------
(* handleIPv4 hands up at most one payload. *)
LEMMA OutGrows ==
  ASSUME NEW d \in Dgram, NEW i \in 1..In!Fragments(d), In!Arrive(d, i)
  PROVE  out' = out \/ \E o : out' = Append(out, o)
<1>1. In!Handle(In!Packet(d, i))
  BY DEF In!Arrive
<1> DEFINE pkt == In!Packet(d, i)
<1>2. In!HandleWhole(pkt) \/ In!HandleFragment(pkt) \/ In!HandleLast(pkt)
  BY <1>1 DEF In!Handle
<1> HIDE DEF pkt
<1>3. CASE In!HandleWhole(pkt)
  BY <1>3 DEF In!HandleWhole, In!HandUp
<1>4. CASE In!HandleFragment(pkt)
  BY <1>4 DEF In!HandleFragment
<1>5. CASE In!HandleLast(pkt)
  <2>1. (\E key, data : In!HandUp(key, data)) \/ UNCHANGED out
    BY <1>5 DEF In!HandleLast
  <2> QED
    BY <2>1 DEF In!HandUp
<1> QED
  BY <1>2, <1>3, <1>4, <1>5

(* Steps that change neither the bindings, nor what is sent. *)
LEMMA Unsent ==
  ASSUME AnswerInv, SendInv', IsList(out'), listenOn' \in Seq(BindingSet),
         UNCHANGED <<wire, outVars, client>>, phase' = "send" => phase = "send"
  PROVE  AnswerInv'
BY DEF AnswerInv, GoodData, outVars

(* A payload that is handed up is answered with its client's bytes.        *)
LEMMA AnswerStarts ==
  ASSUME CallbacksRelay, AnswerInv, SendInv', Reassembled',
         NEW d \in Dgram, NEW i \in 1..In!Fragments(d), HandleIPv4(d, i)
  PROVE  AnswerInv'
<1>1. /\ In!Arrive(d, i) /\ phase = "listen" /\ listenOn' = listenOn /\ wire' = wire
      /\ IsList(out) /\ listenOn \in Seq(BindingSet)
  BY DEF HandleIPv4, AnswerInv
<1>2. IsList(out') /\ (out' # out => Len(out') \in DOMAIN out')
  <2>1. CASE out' = out
    BY <1>1, <2>1
  <2>2. ASSUME NEW o, out' = Append(out, o)
        PROVE  IsList(out') /\ Len(out') \in DOMAIN out'
    BY <1>1, <2>2, ListAppend
  <2> QED
    BY <1>1, <2>1, <2>2, OutGrows
<1>3. CASE (Again \/ Caught) /\ UNCHANGED <<outVars, client>>
  <2>1. phase' # "send"
    BY <1>1, <1>3, AgainOrCaught
  <2> QED
    BY <1>1, <1>2, <1>3, <2>1, Unsent
<1>4. CASE out' # out /\ HandleUDP(out'[Len(out')])
  <2> DEFINE up == out'[Len(out')]
             answer == Answer(up.data)
  <2>1. Len(out') \in DOMAIN out'
    BY <1>2, <1>4
  <2>2. up.data \in Seq(In!Bytes)
    BY <2>1 DEF Reassembled, In!TypeOK
  <2>3. /\ \E e \in Dgram : KeyOf[e] = up.key /\ Len(up.data) = SizeOf[e]
        /\ \A j \in DOMAIN up.data :
             \/ up.data[j] = Zero
             \/ \E e \in Dgram : KeyOf[e] = up.key /\ up.data[j] = <<e, j>>
    BY <2>1 DEF Reassembled, In!PayloadsIsolated
  <2>4. Len(up.data) >= 1
    BY <2>3, ServiceAssumption
  <2>5. HandleUDP(up)
    BY <1>4
  <2> HIDE DEF up
  <2>6. CASE answer = Raised
    <3>1. Caught /\ UNCHANGED <<outVars, client>>
      BY <2>5, <2>6 DEF HandleUDP
    <3> QED
      BY <1>3, <3>1
  <2>7. CASE answer # Raised
    <3>1. Out!Start(answer) /\ client' = up.key
      BY <2>5, <2>7 DEF HandleUDP
    <3>2. rest' = answer /\ offset' = 0
      BY <3>1 DEF Out!Start
    <3>3. GoodData(up.key, 0, answer)
      BY <1>1, <2>2, <2>3, <2>4, <2>7, AnswerGood
    <3> HIDE DEF answer
    <3>4. GoodData(client', offset', rest')
      BY <3>1, <3>2, <3>3
    <3>5. \A k \in 1..Len(wire') :
            wire'[k].et = "IPv4" => GoodData(wire'[k].key, wire'[k].offset, wire'[k].data)
      BY <1>1 DEF AnswerInv
    <3> QED
      BY <1>1, <1>2, <3>4, <3>5 DEF AnswerInv, GoodData
  <2> QED
    BY <2>6, <2>7
<1> QED
  BY <1>3, <1>4 DEF HandleIPv4

(* One packet of an answer is sent. *)
LEMMA AnswerGoesOn ==
  ASSUME AnswerInv, SendInv', SendPacket
  PROVE  AnswerInv'
<1>1. /\ SendInv /\ phase = "send" /\ offset \in Nat /\ GoodData(client, offset, rest)
      /\ client' = client /\ out' = out /\ listenOn' = listenOn
      /\ wire' = Append(wire, Packet(sent'[Len(sent')]))
  BY DEF AnswerInv, SendInv, SendPacket, inVars
<1>2. rest \in Seq(Headers(client) \union Theirs(client)) /\ Len(rest) \in Nat
  BY <1>1 DEF GoodData
<1>3. PICK data : /\ sent' = Append(sent, Cut(data)) /\ GoodData(client, offset, data)
                  /\ phase' = "send" => GoodData(client, offset', rest')
  <2>1. CASE Out!SendMore
    <3> DEFINE n == Out!nfb * Scale
    <3>1. /\ sending' = TRUE /\ offset' = offset + Out!nfb /\ ~Out!Fits
          /\ sent' = Append(sent, [offset |-> offset, flags |-> 1, data |-> SubSeq(rest, 1, n)])
          /\ rest' = SubSeq(rest, n + 1, Len(rest))
      BY <2>1 DEF Out!SendMore, SendInv
    <3>2. n \in Nat /\ n >= 1 /\ n <= Len(rest)
      <4>1. Out!nfb * Scale <= Mtu - IpHeader
        BY ServiceAssumption DEF Out!nfb
      <4>2. n \in Nat /\ n >= 1
        BY FragmentUnits, ServiceAssumption, SMTT(30)
      <4>3. Len(rest) > Mtu - IpHeader
        BY <1>2, <3>1, ServiceAssumption DEF Out!Fits
      <4> QED
        BY <1>2, <4>1, <4>2, <4>3, ServiceAssumption
    <3> HIDE DEF n
    <3>3. offset' \in Nat /\ offset' > offset
      BY <1>1, <3>1, FragmentUnits
    <3>4. /\ GoodData(client, offset, SubSeq(rest, 1, n))
          /\ GoodData(client, offset', rest')
      BY <1>1, <3>1, <3>2, <3>3, CutGood
    <3>5. sent' = Append(sent, Cut(SubSeq(rest, 1, n)))
      BY <3>1 DEF Cut
    <3> QED
      BY <3>4, <3>5
  <2>2. CASE Out!SendLast
    <3>1. /\ sending' = FALSE
          /\ sent' = Append(sent, [offset |-> offset, flags |-> 0, data |-> rest])
      BY <2>2 DEF Out!SendLast
    <3>2. sent' = Append(sent, Cut(rest))
      BY <3>1 DEF Cut
    <3>3. phase' # "send"
      BY <3>1 DEF SendInv
    <3> QED
      BY <1>1, <3>2, <3>3
  <2> QED
    BY <2>1, <2>2 DEF SendPacket
<1> DEFINE f == Packet(Cut(data))
<1>4. sent'[Len(sent')] = Cut(data)
  BY <1>1, <1>3, ListAppend DEF SendInv
<1>5. f.et = "IPv4" /\ f.key = client /\ f.offset = offset /\ f.data = data
  BY DEF Packet, Cut
<1>6. wire' = Append(wire, f)
  BY <1>1, <1>4
<1> HIDE DEF f
<1>7. /\ Len(wire') \in Nat /\ Len(wire) \in Nat /\ Len(wire') = Len(wire) + 1
      /\ wire'[Len(wire')] = f /\ \A k \in 1..Len(wire) : wire'[k] = wire[k]
  BY <1>1, <1>6, ListAppend DEF SendInv
<1>8. ASSUME NEW k \in 1..Len(wire'), wire'[k].et = "IPv4"
      PROVE  GoodData(wire'[k].key, wire'[k].offset, wire'[k].data)
  <2>1. CASE k = Len(wire')
    BY <1>3, <1>5, <1>7, <2>1
  <2>2. CASE k # Len(wire')
    <3>1. k \in 1..Len(wire) /\ wire'[k] = wire[k]
      BY <1>7, <2>2
    <3> QED
      BY <1>8, <3>1 DEF AnswerInv
  <2> QED
    BY <2>1, <2>2
<1>9. phase' = "send" => GoodData(client', offset', rest')
  BY <1>1, <1>3
<1>10. IsList(out') /\ listenOn' \in Seq(BindingSet)
  BY <1>1 DEF AnswerInv
<1> QED
  BY <1>8, <1>9, <1>10 DEF AnswerInv, GoodData

(* Every step of the service keeps the answers to their clients.           *)
LEMMA AnswerInductive ==
  ASSUME CallbacksRelay
  PROVE  AnswerInv /\ Reassembled' /\ [Next]_vars => AnswerInv'
<1> SUFFICES ASSUME AnswerInv, Reassembled', [Next]_vars PROVE AnswerInv'
  OBVIOUS
<1>1. SendInv'
  BY SendInductive DEF AnswerInv
<1>2. CASE Bind
  <2>1. Bindings \in Seq(BindingSet) /\ Len(listenOn) + 1 \in 1..Len(Bindings)
    BY <1>2, ServiceAssumption DEF Bind, BindingSet, AnswerInv
  <2> DEFINE b == Bindings[Len(listenOn) + 1]
             S == BindingSet
  <2>2. b \in S
    BY <2>1, ElementOfSeq
  <2>3. listenOn' = <<b>> \o listenOn /\ listenOn \in Seq(S)
    BY <1>2 DEF Bind, AnswerInv
  <2> HIDE DEF b, S
  <2>4. listenOn' \in Seq(S)
    BY <2>2, <2>3
  <2>5. UNCHANGED <<wire, outVars, client, phase, out>>
    BY <1>2 DEF Bind, inVars
  <2> QED
    BY <1>1, <2>4, <2>5, Unsent DEF AnswerInv, S
<1>3. CASE Listen
  <2>1. UNCHANGED <<wire, outVars, client, listenOn, out>> /\ phase' = "listen"
    BY <1>3 DEF Listen, inVars
  <2> QED
    BY <1>1, <2>1, Unsent DEF AnswerInv
<1>4. CASE SendPacket
  BY <1>1, <1>4, AnswerGoesOn
<1>5. ASSUME NEW f \in Others, HandleArp(f)
      PROVE  AnswerInv'
  <2> DEFINE a == [et |-> "ARP", dst |-> f.dstMac, oper |-> "Reply",
                   sha |-> Mac, tha |-> f.sha, tpa |-> f.spa \o <<0, 0>>]
  <2>1. a.et # "IPv4"
    OBVIOUS
  <2>2. /\ wire' = Append(wire, a) /\ phase = "listen" /\ Again
        /\ UNCHANGED <<outVars, client, listenOn, out>>
    BY <1>5 DEF HandleArp, Receive, inVars
  <2> HIDE DEF a
  <2>3. /\ Len(wire') \in Nat /\ Len(wire) \in Nat /\ Len(wire') = Len(wire) + 1
        /\ wire'[Len(wire')] = a /\ \A k \in 1..Len(wire) : wire'[k] = wire[k]
    BY <2>2, ListAppend DEF AnswerInv, SendInv
  <2>4. phase' # "send"
    BY <2>2, AgainOrCaught
  <2>5. ASSUME NEW k \in 1..Len(wire'), wire'[k].et = "IPv4"
        PROVE  k \in 1..Len(wire) /\ wire'[k] = wire[k]
    BY <2>1, <2>3, <2>5
  <2>6. \A k \in 1..Len(wire') :
          wire'[k].et = "IPv4" => GoodData(wire'[k].key, wire'[k].offset, wire'[k].data)
    BY <2>5 DEF AnswerInv
  <2> QED
    BY <1>1, <2>2, <2>4, <2>6 DEF AnswerInv, GoodData, IsList
<1>6. ASSUME NEW f \in Others, Ignore(f) \/ Reject(f)
      PROVE  AnswerInv'
  <2>1. /\ phase = "listen" /\ (Again \/ Caught)
        /\ UNCHANGED <<wire, outVars, client, listenOn, out>>
    BY <1>6 DEF Ignore, Reject, Receive, inVars
  <2>2. phase' # "send"
    BY <2>1, AgainOrCaught
  <2> QED
    BY <1>1, <2>1, <2>2, Unsent DEF AnswerInv
<1>7. ASSUME NEW d \in Dgram, NEW i \in 1..In!Fragments(d), HandleIPv4(d, i)
      PROVE  AnswerInv'
  BY <1>1, <1>7, AnswerStarts
<1>8. CASE UNCHANGED vars
  <2>1. UNCHANGED <<wire, outVars, client, listenOn, out, phase>>
    BY <1>8 DEF vars, inVars
  <2> QED
    BY <1>1, <2>1, Unsent DEF AnswerInv
<1> QED
  BY <1>2, <1>3, <1>4, <1>5, <1>6, <1>7, <1>8 DEF Next

(* Every answer on the wire has only bytes of datagrams its addressee sent *)
(* and of the service's own text, at a port one of them came from: for     *)
(* every network, and any callbacks that relay what they are given.        *)
THEOREM AnswersIsolated ==
  ASSUME CallbacksRelay
  PROVE  Spec => []RepliesIsolated
<1>1. Init => AnswerInv
  <2> SUFFICES ASSUME Init PROVE AnswerInv
    OBVIOUS
  <2>1. /\ wire = <<>> /\ out = <<>> /\ listenOn = <<>> /\ phase = "bind" /\ SendInv
    BY InitSends DEF Init, In!Init
  <2>2. IsList(out)
    BY <2>1 DEF IsList
  <2>3. listenOn \in Seq(BindingSet) /\ \A k \in 1..Len(wire) : FALSE
    BY <2>1
  <2> QED
    BY <2>1, <2>2, <2>3 DEF AnswerInv
<1>2. AnswerInv => RepliesIsolated
  <2> SUFFICES ASSUME AnswerInv, NEW k \in DOMAIN wire, wire[k].et = "IPv4",
                      NEW i \in DOMAIN wire[k].data
               PROVE  LET b == wire[k].data[i]
                          mine == {d \in Dgram : KeyOf[d] = wire[k].key}
                      IN IF wire[k].offset = 0 /\ i = 1
                         THEN b = [from |-> 0, to |-> 0] \/ \E d \in mine : b = [from |-> ToPort[d], to |-> FromPort[d]]
                         ELSE b \in Own \/ b[1] \in mine
    BY DEF RepliesIsolated
  <2> DEFINE key == wire[k].key
             data == wire[k].data
  <2>1. GoodData(key, wire[k].offset, data)
    <3>1. DOMAIN wire = 1..Len(wire)
      BY DEF AnswerInv, SendInv, IsList
    <3> QED
      BY <3>1 DEF AnswerInv
  <2>2. i \in 1..Len(data)
    BY <2>1 DEF GoodData
  <2>3. IF wire[k].offset = 0 /\ i = 1 THEN data[i] \in Headers(key) ELSE data[i] \in Theirs(key)
    BY <2>1, <2>2 DEF GoodData
  <2> QED
    BY <2>3 DEF Headers, Theirs, Mine
<1> QED
  BY <1>1, <1>2, AnswerInductive, ServiceReassembled, PTL DEF Spec

------------------------------------------------------------------------------
(* The promise.  Requests that come one after the other, from clients with *)
(* different keys, are answered as UdpService says.  The invariant has a   *)
(* part for each stage of a request.                                       *)

(* Bind: the program's bindings, the newest first. *)
BindInv ==
  /\ Len(listenOn) \in 0..Len(Bindings)
  /\ listenOn = [k \in 1..Len(listenOn) |-> Bindings[Len(listenOn) + 1 - k]]
  /\ phase # "bind" => Len(listenOn) = Len(Bindings)

(* Reassembly: only one datagram is under way.  Its fragments are the      *)
(* first entry of fragmentBuffer, the newest first, and no key is in a     *)
(* list before its first fragment comes.                                   *)
Names(list, key) == \E i \in 1..Len(list) : list[i].key = key
UnderWay(d) == 0 < arrived[d] /\ arrived[d] < In!Fragments(d)
Piece(d, m) == [data |-> In!Packet(d, m).data, offset |-> (m - 1) * FragUnits]
Pieces(d, n) == [j \in 1..n |-> Piece(d, n + 1 - j)]

SerialInv ==
  /\ IsList(fragmentBuffer) /\ IsList(assemblingList) /\ IsList(out)
  /\ arrived \in [Dgram -> Nat]
  /\ \A d \in Dgram :
       /\ arrived[d] <= In!Fragments(d)
       /\ arrived[d] = 0 => ~Names(fragmentBuffer, KeyOf[d]) /\ ~Names(assemblingList, KeyOf[d])
       /\ UnderWay(d) => /\ Len(fragmentBuffer) >= 1
                         /\ fragmentBuffer[1] = [key |-> KeyOf[d], frags |-> Pieces(d, arrived[d])]
  /\ \A d, e \in Dgram : UnderWay(d) /\ UnderWay(e) => d = e

(* ipv4Send: the packets sent are the last frames on the wire; each has    *)
(* the next nfb units of the answer.                                       *)
Chunk == Out!nfb * Scale
CutAt(k) == [offset |-> (k - 1) * Out!nfb, flags |-> 1,
             data |-> SubSeq(payload, (k - 1) * Chunk + 1, k * Chunk)]
Answered(d) == /\ arrived[d] = In!Fragments(d) /\ client = KeyOf[d]
               /\ ~Promise!Silent(d) /\ payload = Promise!Reply(d).data

SendingInv ==
  phase = "send" =>
    /\ \E d \in Dgram : Answered(d)
    /\ IsList(payload) /\ Len(sent) * Chunk <= Len(payload)
    /\ offset = Len(sent) * Out!nfb
    /\ rest = SubSeq(payload, Len(sent) * Chunk + 1, Len(payload))
    /\ sent = [k \in 1..Len(sent) |-> CutAt(k)]
    /\ Len(sent) <= Len(wire)
    /\ \A k \in 1..Len(sent) : wire[Len(wire) - Len(sent) + k] = Packet(CutAt(k))

(* The answers on the wire can be counted. *)
RankInv == \A i \in 1..Cardinality(Lasts) : \E k \in Lasts : Rank(k) = i

(* With SendInv, the invariant. *)
PromiseInv == BindInv /\ SerialInv /\ SendingInv /\ RankInv

------------------------------------------------------------------------------
(* Tiles of equal size. *)
LEMMA TileOf ==
  ASSUME NEW size \in Nat, size >= 1, NEW n \in Nat, NEW b \in Nat, b >= 1, b <= n * size
  PROVE  \E k \in 1..n : (k - 1) * size < b /\ b <= k * size
<1> DEFINE q == (b - 1) \div size
<1>1. q \in Nat /\ q * size <= b - 1 /\ b - 1 < q * size + size
  <2>1. b - 1 \in Nat
    OBVIOUS
  <2> QED
    BY <2>1
<1> HIDE DEF q
<1>2. q < n
  <2> SUFFICES ASSUME q >= n PROVE FALSE
    BY <1>1
  <2>1. q * size >= n * size
    BY <1>1
  <2> QED
    BY <1>1, <2>1
<1>3. (q + 1) * size = q * size + size
  BY <1>1
<1> DEFINE k == q + 1
<1>4. k \in 1..n /\ k - 1 = q
  BY <1>1, <1>2
<1>5. (k - 1) * size < b /\ b <= k * size
  <2>1. q * size \in Nat
    BY <1>1
  <2> QED
    BY <1>1, <1>3, <1>4, <2>1
<1> QED
  BY <1>4, <1>5

(* The clients' fragments are such tiles. *)
LEMMA FragmentTiles ==
  ASSUME NEW d \in Dgram
  PROVE  /\ In!Fragments(d) \in Nat /\ In!Fragments(d) >= 1
         /\ In!FragBytes \in Nat /\ In!FragBytes >= 1
         /\ SizeOf[d] \in Nat /\ SizeOf[d] >= 1
         /\ d \notin DontFragment =>
              /\ (In!Fragments(d) - 1) * In!FragBytes < SizeOf[d]
              /\ SizeOf[d] <= In!Fragments(d) * In!FragBytes
<1> DEFINE size == In!FragBytes
<1>1. size \in Nat /\ size >= 1
  BY ServiceAssumption DEF In!FragBytes
<1>2. SizeOf[d] \in Nat /\ SizeOf[d] >= 1
  BY ServiceAssumption
<1>3. CASE d \in DontFragment
  BY <1>1, <1>2, <1>3 DEF In!Fragments
<1>4. CASE d \notin DontFragment
  <2> DEFINE all == SizeOf[d] + size - 1
             n == all \div size
  <2>1. In!Fragments(d) = n
    BY <1>4 DEF In!Fragments
  <2> HIDE DEF size
  <2>2. all \in Nat /\ all >= size
    BY <1>1, <1>2
  <2>3. n \in Nat /\ n >= 1 /\ n * size <= all /\ all < n * size + size
    <3> HIDE DEF all
    <3> QED
      BY <1>1, <2>2
  <2> HIDE DEF n
  <2>4. (n - 1) * size = n * size - size /\ n * size \in Nat
    BY <1>1, <2>3
  <2>5. (n - 1) * size < SizeOf[d] /\ SizeOf[d] <= n * size
    BY <1>1, <1>2, <2>3, <2>4
  <2> QED
    BY <1>1, <1>2, <2>1, <2>3, <2>5 DEF size
<1> QED
  BY <1>3, <1>4

(* A datagram's payload. *)
LEMMA PayloadOf ==
  ASSUME NEW d \in Dgram
  PROVE  /\ In!Payload(d) \in Seq({d} \X Nat)
         /\ Len(In!Payload(d)) = SizeOf[d] /\ In!Payload(d) = [i \in 1..SizeOf[d] |-> <<d, i>>]
         /\ \A i \in 1..SizeOf[d] : In!Payload(d)[i] = <<d, i>>
<1>1. SizeOf[d] \in Nat
  BY FragmentTiles
<1> QED
  BY <1>1, SMTT(30) DEF In!Payload

(* The bytes of a fragment are those of its place. *)
LEMMA PieceBytes ==
  ASSUME NEW d \in Dgram \ DontFragment, NEW m \in 1..In!Fragments(d),
         NEW at, at = (m - 1) * In!FragBytes
  PROVE  LET data == Piece(d, m).data
         IN /\ at \in Nat /\ Piece(d, m).offset \in Nat /\ Piece(d, m).offset * Scale = at
            /\ Len(data) \in Nat /\ at + Len(data) <= SizeOf[d]
            /\ m = In!Fragments(d) => at + Len(data) = SizeOf[d]
            /\ m < In!Fragments(d) => Len(data) = In!FragBytes
            /\ \A j \in 1..Len(data) : data[j] = <<d, at + j>>
<1> DEFINE size == In!FragBytes
           n == In!Fragments(d)
           end == IF m = n THEN SizeOf[d] ELSE m * size
           data == Piece(d, m).data
<1>1. /\ n \in Nat /\ n >= 1 /\ size \in Nat /\ size >= 1 /\ SizeOf[d] \in Nat
      /\ (n - 1) * size < SizeOf[d] /\ SizeOf[d] <= n * size
  BY FragmentTiles
<1>2. Piece(d, m).offset \in Nat /\ Piece(d, m).offset * Scale = at
  <2>1. Piece(d, m).offset = (m - 1) * FragUnits /\ m - 1 \in Nat
    BY <1>1 DEF Piece
  <2>2. (m - 1) * FragUnits \in Nat
    BY <2>1, ServiceAssumption
  <2>3. \A x, y, z \in Nat : (x * y) * z = x * (y * z)
    OBVIOUS
  <2>4. ((m - 1) * FragUnits) * Scale = (m - 1) * (FragUnits * Scale)
    BY <2>1, <2>3, ServiceAssumption
  <2> QED
    BY <2>1, <2>2, <2>4 DEF In!FragBytes
<1>3. data = SubSeq(In!Payload(d), at + 1, end)
  BY DEF Piece, In!Packet
<1> HIDE DEF size, n, data
<1>4. at \in Nat /\ at < SizeOf[d] /\ (m < n => m * size <= SizeOf[d] /\ m * size = at + size)
  <2>1. m \in Nat /\ m >= 1 /\ m <= n
    BY <1>1 DEF n
  <2>2. (m - 1) * size <= (n - 1) * size
    BY <1>1, <2>1
  <2>3. (m - 1) * size \in Nat /\ m * size = (m - 1) * size + size
    BY <1>1, <2>1
  <2>4. m < n => m * size <= (n - 1) * size
    BY <1>1, <2>1
  <2>5. (n - 1) * size \in Nat /\ at = (m - 1) * size
    BY <1>1 DEF size
  <2> QED
    BY <1>1, <2>2, <2>3, <2>4, <2>5
<1>5. end \in Nat /\ at <= end /\ end <= SizeOf[d] /\ m \in 1..n
  BY <1>1, <1>4 DEF n
<1>6. /\ Len(data) = end - at
      /\ \A j \in 1..(end - at) : at + j \in 1..SizeOf[d] /\ data[j] = In!Payload(d)[at + j]
  <2> DEFINE p == In!Payload(d)
             S == {d} \X Nat
  <2>1. p \in Seq(S) /\ Len(p) = SizeOf[d]
    BY PayloadOf
  <2> HIDE DEF end, p, S
  <2>2. LET slice == SubSeq(p, at + 1, end)
        IN /\ slice \in Seq(S) /\ Len(slice) = end - at
           /\ \A j \in 1..(end - at) : at + j \in 1..Len(p) /\ slice[j] = p[at + j]
    BY <1>4, <1>5, <2>1, Slice
  <2> QED
    BY <1>3, <2>1, <2>2 DEF p
<1>7. \A j \in 1..Len(data) : data[j] = <<d, at + j>>
  BY <1>6, PayloadOf
<1> QED
  BY <1>1, <1>2, <1>4, <1>5, <1>6, <1>7, SMTT(30) DEF n, size, data

(* The least and the greatest of some numbers. *)
LEMMA Smallest ==
  ASSUME NEW S, S # {}, S \subseteq Nat
  PROVE  \E x \in S : \A y \in S : x <= y
<1>1. PICK x \in S : \A y \in S : <<y, x>> \notin OpToRel(<, Nat)
  BY NatLessThanWellFounded, WFMin
<1>2. ASSUME NEW y \in S PROVE x <= y
  <2>1. x \in Nat /\ y \in Nat /\ <<y, x>> \in Nat \X Nat
    OBVIOUS
  <2>2. ~(y < x)
    BY <1>1, <2>1 DEF OpToRel
  <2> QED
    BY <2>1, <2>2
<1> QED
  BY <1>2

LEMMA Largest ==
  ASSUME NEW n \in Nat, NEW S, S # {}, S \subseteq 1..n
  PROVE  \E x \in S : \A y \in S : y <= x
<1> DEFINE T == {n - x : x \in S}
<1>1. T # {} /\ T \subseteq Nat
  <2>1. \A x \in S : n - x \in Nat
    OBVIOUS
  <2> QED
    BY <2>1
<1> HIDE DEF T
<1>2. PICK z \in T : \A y \in T : z <= y
  BY <1>1, Smallest
<1>3. PICK x \in S : z = n - x
  BY <1>2 DEF T
<1>4. ASSUME NEW y \in S PROVE y <= x
  <2>1. n - y \in T
    BY DEF T
  <2>2. n - x <= n - y /\ x \in Nat /\ y \in Nat
    BY <1>2, <1>3, <2>1
  <2> QED
    BY <2>2
<1> QED
  BY <1>4

(* findi finds the first entry, and none where no entry has the key. *)
LEMMA FindFirst ==
  ASSUME NEW list, IsList(list), NEW key
  PROVE  /\ Len(list) >= 1 /\ list[1].key = key => In!Find(list, key) = 1
         /\ ~Names(list, key) => In!Find(list, key) = 0
<1> DEFINE at == {i \in DOMAIN list : list[i].key = key}
<1>1. DOMAIN list = 1..Len(list) /\ Len(list) \in Nat
  BY DEF IsList
<1>2. ASSUME Len(list) >= 1, list[1].key = key PROVE In!Find(list, key) = 1
  <2>1. 1 \in at /\ \A i \in at : i \in Nat /\ 1 <= i
    BY <1>1, <1>2
  <2>2. In!Find(list, key) = CHOOSE i \in at : \A j \in at : i <= j
    BY <2>1 DEF In!Find
  <2> HIDE DEF at
  <2>3. \A i \in at : (\A j \in at : i <= j) => i = 1
    BY <2>1
  <2>4. (CHOOSE i \in at : \A j \in at : i <= j) = 1
    BY <2>1, <2>3
  <2> QED
    BY <2>2, <2>4
<1>3. ASSUME ~Names(list, key) PROVE In!Find(list, key) = 0
  BY <1>1, <1>3 DEF Names, In!Find
<1> QED
  BY <1>2, <1>3

------------------------------------------------------------------------------
(* All the fragments of a datagram together are its payload. *)
LEMMA PiecesWhole ==
  ASSUME NEW d \in Dgram \ DontFragment, NEW n, n = In!Fragments(d)
  PROVE  /\ \A i \in 1..SizeOf[d] : In!Byte(Pieces(d, n), i) = <<d, i>>
         /\ \A j \in 1..n : LET f == Pieces(d, n)[j]
                            IN In!Fits(SizeOf[d], f.offset * Scale, f.data)
         /\ DOMAIN Pieces(d, n) = 1..n
<1> DEFINE size == In!FragBytes
           frags == Pieces(d, n)
<1>1. /\ n \in Nat /\ n >= 1 /\ size \in Nat /\ size >= 1 /\ SizeOf[d] \in Nat
      /\ SizeOf[d] <= n * size
  BY FragmentTiles
<1>2. ASSUME NEW j \in 1..n
      PROVE  /\ n + 1 - j \in 1..n /\ frags[j] = Piece(d, n + 1 - j)
             /\ \E at \in Nat :
                  /\ at = (n - j) * size /\ frags[j].offset * Scale = at
                  /\ Len(frags[j].data) \in Nat /\ at + Len(frags[j].data) <= SizeOf[d]
                  /\ j = 1 => at + Len(frags[j].data) = SizeOf[d]
                  /\ j # 1 => Len(frags[j].data) = size
                  /\ \A k \in 1..Len(frags[j].data) : frags[j].data[k] = <<d, at + k>>
  <2> DEFINE m == n + 1 - j
  <2>1. m \in 1..n /\ m - 1 = n - j /\ (j = 1 <=> m = n) /\ (j # 1 <=> m < n)
    BY <1>1
  <2>2. frags[j] = Piece(d, m)
    BY DEF Pieces
  <2> HIDE DEF m, frags
  <2>3. PICK at : at = (m - 1) * size
    OBVIOUS
  <2>4. /\ at \in Nat /\ Piece(d, m).offset * Scale = at
        /\ Len(Piece(d, m).data) \in Nat /\ at + Len(Piece(d, m).data) <= SizeOf[d]
        /\ m = n => at + Len(Piece(d, m).data) = SizeOf[d]
        /\ m < n => Len(Piece(d, m).data) = size
        /\ \A k \in 1..Len(Piece(d, m).data) : Piece(d, m).data[k] = <<d, at + k>>
    BY <2>1, <2>3, PieceBytes
  <2>5. at = (n - j) * size
    BY <2>1, <2>3
  <2> QED
    BY <2>1, <2>2, <2>4, <2>5 DEF m
<1>3. DOMAIN frags = 1..n
  BY DEF Pieces
<1> HIDE DEF frags
<1>4. ASSUME NEW j \in 1..n
      PROVE  In!Fits(SizeOf[d], frags[j].offset * Scale, frags[j].data)
  BY <1>2 DEF In!Fits
<1>5. ASSUME NEW i \in 1..SizeOf[d] PROVE In!Byte(frags, i) = <<d, i>>
  <2> DEFINE js == In!Covering(frags, i)
  <2>1. \A j \in js : j \in 1..n /\ frags[j].data[i - frags[j].offset * Scale] = <<d, i>>
    <3> SUFFICES ASSUME NEW j \in js
                 PROVE  j \in 1..n /\ frags[j].data[i - frags[j].offset * Scale] = <<d, i>>
      OBVIOUS
    <3>1. j \in 1..n /\ i > frags[j].offset * Scale
          /\ i - frags[j].offset * Scale <= Len(frags[j].data)
      BY <1>3 DEF In!Covering
    <3>2. PICK at \in Nat :
             /\ frags[j].offset * Scale = at /\ Len(frags[j].data) \in Nat
             /\ \A k \in 1..Len(frags[j].data) : frags[j].data[k] = <<d, at + k>>
      BY <1>2, <3>1
    <3>3. i - at \in 1..Len(frags[j].data) /\ at + (i - at) = i
      BY <3>1, <3>2
    <3> QED
      BY <3>1, <3>2, <3>3
  <2>2. js # {}
    <3>1. i \in Nat /\ i >= 1 /\ i <= SizeOf[d]
      BY <1>1
    <3>2. i <= n * size
      <4>1. n * size \in Nat
        BY <1>1
      <4> QED
        BY <1>1, <3>1, <4>1
    <3>3. PICK k \in 1..n : (k - 1) * size < i /\ i <= k * size
      <4> HIDE DEF size
      <4> QED
        BY <1>1, <3>1, <3>2, TileOf
    <3> DEFINE j == n + 1 - k
    <3>4. j \in 1..n /\ n - j = k - 1 /\ (j = 1 <=> k = n)
      BY <1>1
    <3> HIDE DEF j
    <3>5. PICK at \in Nat :
             /\ at = (n - j) * size /\ frags[j].offset * Scale = at
             /\ Len(frags[j].data) \in Nat
             /\ j = 1 => at + Len(frags[j].data) = SizeOf[d]
             /\ j # 1 => Len(frags[j].data) = size
      BY <1>2, <3>4
    <3>6. at = (k - 1) * size /\ k * size = at + size
      <4>1. at = (k - 1) * size
        BY <3>4, <3>5
      <4>2. k * size = (k - 1) * size + size
        BY <1>1
      <4> QED
        BY <4>1, <4>2
    <3> HIDE DEF size
    <3>7. i > at /\ i - at <= Len(frags[j].data)
      <4>1. at < i /\ i <= at + size
        BY <3>3, <3>6
      <4>2. CASE j = 1
        <5>1. at + Len(frags[j].data) = SizeOf[d] /\ Len(frags[j].data) \in Nat
          BY <3>5, <4>2
        <5> QED
          BY <1>1, <3>1, <4>1, <5>1
      <4>3. CASE j # 1
        <5>1. Len(frags[j].data) = size
          BY <3>5, <4>3
        <5> QED
          BY <1>1, <3>1, <4>1, <5>1
      <4> QED
        BY <4>2, <4>3
    <3>8. j \in js
      BY <1>3, <3>4, <3>5, <3>7 DEF In!Covering
    <3> QED
      BY <3>8
  <2> HIDE DEF js
  <2>3. js \subseteq 1..n
    BY <2>1
  <2>4. \E x \in js : \A y \in js : y <= x
    BY <1>1, <2>2, <2>3, Largest
  <2> DEFINE j == CHOOSE k \in js : \A l \in js : l <= k
  <2>5. j \in js
    BY <2>4
  <2>6. In!Byte(frags, i) = frags[j].data[i - frags[j].offset * Scale]
    BY <2>2 DEF In!Byte, js
  <2> HIDE DEF j
  <2> QED
    BY <2>1, <2>5, <2>6
<1> QED
  BY <1>3, <1>4, <1>5 DEF frags

(* Sequences of no known type, as functions. *)
LEMMA ListFunction ==
  ASSUME NEW n \in Nat, NEW t, t = [k \in 1..n |-> t[k]]
  PROVE  IsList(t) /\ Len(t) = n
<1> DEFINE S == {t[k] : k \in DOMAIN t}
<1>1. DOMAIN t = 1..n /\ \A k \in 1..n : t[k] \in S
  OBVIOUS
<1> HIDE DEF S
<1>2. t \in Seq(S) /\ Len(t) = n
  BY <1>1
<1> QED
  BY <1>2 DEF IsList, S

LEMMA ListOf ==
  ASSUME NEW s, IsList(s)
  PROVE  Len(s) \in Nat /\ DOMAIN s = 1..Len(s) /\ s = [k \in 1..Len(s) |-> s[k]]
<1> DEFINE S == {s[k] : k \in DOMAIN s}
<1>1. s \in Seq(S)
  BY DEF IsList
<1> HIDE DEF S
<1> QED
  BY <1>1

LEMMA ListCons ==
  ASSUME NEW s, IsList(s), NEW e, NEW t, t = <<e>> \o s
  PROVE  /\ IsList(t) /\ Len(t) = Len(s) + 1 /\ Len(t) \in Nat
         /\ t[1] = e /\ \A k \in 1..Len(s) : t[k + 1] = s[k]
<1> DEFINE S == {s[k] : k \in DOMAIN s} \union {e}
<1>1. s \in Seq(S) /\ <<e>> \in Seq(S) /\ Len(<<e>>) = 1 /\ <<e>>[1] = e
  <2>1. s \in Seq({s[k] : k \in DOMAIN s})
    BY DEF IsList
  <2>2. s \in Seq(S)
    BY <2>1
  <2> QED
    BY <2>2
<1> HIDE DEF S
<1>2. /\ t \in Seq(S) /\ Len(t) = 1 + Len(s) /\ Len(s) \in Nat
      /\ \A k \in 1..(1 + Len(s)) : t[k] = IF k <= 1 THEN <<e>>[k] ELSE s[k - 1]
  BY <1>1, ConcatProperties
<1>3. t[1] = e /\ \A k \in 1..Len(s) : t[k + 1] = s[k]
  BY <1>1, <1>2
<1>4. t = [k \in 1..Len(t) |-> t[k]] /\ Len(t) \in Nat
  BY <1>2
<1>5. IsList(t)
  BY <1>4, ListFunction
<1> QED
  BY <1>2, <1>3, <1>5

------------------------------------------------------------------------------
(* addFragment puts the next fragment of a datagram in front of those      *)
(* before it, in the first entry of fragmentBuffer.                        *)
LEMMA NextPiece ==
  ASSUME SerialInv, NEW d \in Dgram \ DontFragment, NEW i \in 1..In!Fragments(d),
         i = arrived[d] + 1, NEW added, added = In!AddFragment(In!Packet(d, i))
  PROVE  /\ added.ok /\ added.asm = assemblingList
         /\ IsList(added.buf) /\ Len(added.buf) >= 1
         /\ added.buf[1] = [key |-> KeyOf[d], frags |-> Pieces(d, i)]
         /\ \A key : key # KeyOf[d] /\ Names(added.buf, key) => Names(fragmentBuffer, key)
<1> DEFINE pkt == In!Packet(d, i)
           frag == [data |-> pkt.data, offset |-> pkt.offset]
           b == In!Find(fragmentBuffer, KeyOf[d])
           s == In!Find(assemblingList, KeyOf[d])
<1>1. /\ IsList(fragmentBuffer) /\ IsList(assemblingList)
      /\ In!Fragments(d) \in Nat /\ arrived[d] \in Nat
      /\ pkt.key = KeyOf[d]
  BY FragmentTiles DEF SerialInv, In!Packet
<1>2. frag = Piece(d, i)
  BY DEF Piece, In!Packet
<1> HIDE DEF pkt
<1>3. CASE arrived[d] = 0
  <2>1. b = 0 /\ s = 0
    BY <1>1, <1>3, FindFirst DEF SerialInv
  <2>2. added = [buf |-> <<[key |-> KeyOf[d], frags |-> <<frag>>]>> \o fragmentBuffer,
                 asm |-> assemblingList, ok |-> TRUE]
    BY <1>1, <2>1 DEF In!AddFragment, pkt
  <2>3. <<frag>> = Pieces(d, i)
    <3>1. i = 1 /\ \A j \in 1..1 : 1 + 1 - j = 1
      BY <1>3
    <3> HIDE DEF frag
    <3>2. <<frag>> = [j \in 1..1 |-> frag]
      OBVIOUS
    <3>3. Pieces(d, i) = [j \in 1..1 |-> Piece(d, 1)]
      BY <3>1 DEF Pieces
    <3> QED
      BY <1>2, <3>1, <3>2, <3>3
  <2> DEFINE e == [key |-> KeyOf[d], frags |-> <<frag>>]
  <2>4. added.buf = <<e>> \o fragmentBuffer /\ added.ok /\ added.asm = assemblingList
    BY <2>2
  <2>5. e = [key |-> KeyOf[d], frags |-> Pieces(d, i)] /\ e.key = KeyOf[d]
    BY <2>3
  <2> HIDE DEF e
  <2>6. /\ IsList(added.buf) /\ Len(added.buf) = Len(fragmentBuffer) + 1
        /\ added.buf[1] = e /\ \A k \in 1..Len(fragmentBuffer) : added.buf[k + 1] = fragmentBuffer[k]
        /\ Len(fragmentBuffer) \in Nat
    <3> DEFINE t == added.buf
    <3>1. t = <<e>> \o fragmentBuffer /\ Len(fragmentBuffer) \in Nat
      BY <1>1, <2>4, ListOf
    <3> HIDE DEF t
    <3>2. IsList(t) /\ Len(t) = Len(fragmentBuffer) + 1
      BY <1>1, <3>1, ListCons
    <3>4. t[1] = e
      BY <1>1, <3>1, ListCons
    <3>3. \A k \in 1..Len(fragmentBuffer) : t[k + 1] = fragmentBuffer[k]
      BY <1>1, <3>1, ListCons
    <3> QED
      BY <3>1, <3>2, <3>3, <3>4 DEF t
  <2>7. ASSUME NEW key, key # KeyOf[d], Names(added.buf, key)
        PROVE  Names(fragmentBuffer, key)
    <3>1. PICK k \in 1..Len(added.buf) : added.buf[k].key = key
      BY <2>7 DEF Names
    <3>2. k # 1
      BY <2>5, <2>6, <2>7, <3>1
    <3>3. k - 1 \in 1..Len(fragmentBuffer) /\ (k - 1) + 1 = k
      BY <2>6, <3>2
    <3>4. fragmentBuffer[k - 1].key = key
      BY <2>6, <3>1, <3>3
    <3> QED
      BY <3>3, <3>4 DEF Names
  <2> QED
    BY <2>4, <2>5, <2>6, <2>7
<1>4. CASE arrived[d] # 0
  <2>1. UnderWay(d)
    BY <1>1, <1>4 DEF UnderWay
  <2> DEFINE old == Pieces(d, arrived[d])
  <2>2. Len(fragmentBuffer) >= 1 /\ fragmentBuffer[1] = [key |-> KeyOf[d], frags |-> old]
    BY <2>1 DEF SerialInv
  <2>3. b = 1
    BY <1>1, <2>2, FindFirst
  <2> DEFINE buf == In!StoreIn(1, frag)
  <2>4. added = [buf |-> buf, asm |-> assemblingList, ok |-> TRUE]
    <3>1. In!Find(fragmentBuffer, pkt.key) = 1 /\ 1 # 0
      BY <1>1, <2>3
    <3>2. added = In!AddFragment(pkt)
      BY DEF pkt
    <3> QED
      BY <3>1, <3>2, Zenon DEF In!AddFragment
  <2>5. <<frag>> \o old = Pieces(d, i)
    <3>1. old = [j \in 1..arrived[d] |-> Piece(d, i - j)]
      <4>1. \A j \in 1..arrived[d] : arrived[d] + 1 - j = i - j
        BY <1>1
      <4> QED
        BY <4>1 DEF Pieces
    <3>2. \A j \in 1..arrived[d] : old[j] = Piece(d, i - j)
      BY <3>1
    <3>3. old = [j \in 1..arrived[d] |-> old[j]]
      BY <3>1
    <3> HIDE DEF old, frag
    <3>4. IsList(old) /\ Len(old) = arrived[d]
      BY <1>1, <3>3, ListFunction
    <3> DEFINE t == <<frag>> \o old
    <3>9. t = <<frag>> \o old
      OBVIOUS
    <3> HIDE DEF t
    <3>5. /\ IsList(t) /\ Len(t) = i /\ t[1] = frag
          /\ \A k \in 1..arrived[d] : t[k + 1] = old[k]
      <4>1. Len(t) = Len(old) + 1
        BY <3>4, <3>9, ListCons
      <4>2. IsList(t)
        BY <3>4, <3>9, ListCons
      <4>3. t[1] = frag
        BY <3>4, <3>9, ListCons
      <4>4. \A k \in 1..Len(old) : t[k + 1] = old[k]
        BY <3>4, <3>9, ListCons
      <4> QED
        BY <3>4, <4>1, <4>2, <4>3, <4>4
    <3>6. ASSUME NEW k \in 1..i PROVE t[k] = Piece(d, i + 1 - k)
      <4>1. CASE k = 1
        <5>1. i + 1 - k = i
          BY <1>1, <4>1
        <5> QED
          BY <1>2, <3>5, <4>1, <5>1
      <4>2. CASE k # 1
        <5>1. k - 1 \in 1..arrived[d] /\ i - (k - 1) = i + 1 - k /\ (k - 1) + 1 = k
          BY <1>1, <4>2
        <5>2. t[k] = old[k - 1]
          BY <3>5, <5>1
        <5> QED
          BY <3>2, <5>1, <5>2
      <4> QED
        BY <4>1, <4>2
    <3>7. t = [k \in 1..i |-> t[k]]
      BY <3>5, ListOf
    <3>8. t = Pieces(d, i)
      BY <3>6, <3>7 DEF Pieces
    <3> QED
      BY <3>8 DEF t
  <2>6. /\ IsList(added.buf) /\ Len(added.buf) = Len(fragmentBuffer)
        /\ added.buf[1] = [key |-> KeyOf[d], frags |-> Pieces(d, i)]
        /\ \A k \in 1..Len(fragmentBuffer) : k # 1 => added.buf[k] = fragmentBuffer[k]
    <3> DEFINE n == Len(fragmentBuffer)
               new == <<frag>> \o old
    <3>1. n \in Nat /\ DOMAIN fragmentBuffer = 1..n /\ 1 \in 1..n
      BY <1>1, <2>2, ListOf
    <3>2. buf = [fragmentBuffer EXCEPT ![1] = [key |-> KeyOf[d], frags |-> new]]
      <4>1. buf = [fragmentBuffer EXCEPT ![1] =
                     [fragmentBuffer[1] EXCEPT !.frags = <<frag>> \o fragmentBuffer[1].frags]]
        BY DEF In!StoreIn
      <4>2. fragmentBuffer[1].frags = old
        BY <2>2
      <4>3. [fragmentBuffer[1] EXCEPT !.frags = new] = [key |-> KeyOf[d], frags |-> new]
        <5> HIDE DEF new, old
        <5> QED
          BY <2>2
      <4> QED
        BY <4>1, <4>2, <4>3
    <3>3. buf = [k \in 1..n |-> buf[k]]
      BY <3>1, <3>2
    <3>4. buf[1] = [key |-> KeyOf[d], frags |-> new]
      BY <3>1, <3>2
    <3>5. \A k \in 1..n : k # 1 => buf[k] = fragmentBuffer[k]
      BY <3>1, <3>2
    <3>6. IsList(buf) /\ Len(buf) = n
      BY <3>1, <3>3, ListFunction
    <3>7. added.buf = buf
      BY <2>4
    <3> QED
      BY <2>5, <3>4, <3>5, <3>6, <3>7
  <2>7. ASSUME NEW key, key # KeyOf[d], Names(added.buf, key)
        PROVE  Names(fragmentBuffer, key)
    <3>1. PICK k \in 1..Len(added.buf) : added.buf[k].key = key
      BY <2>7 DEF Names
    <3>2. k # 1
      BY <2>6, <2>7, <3>1
    <3> QED
      BY <2>6, <3>1, <3>2 DEF Names
  <2> QED
    BY <2>2, <2>4, <2>6, <2>7
<1> QED
  BY <1>3, <1>4

(* All of a sequence. *)
LEMMA SliceAll ==
  ASSUME NEW s, IsList(s), NEW n, n = Len(s)
  PROVE  SubSeq(s, 1, n) = s
<1> DEFINE S == {s[k] : k \in DOMAIN s}
           t == SubSeq(s, 1, n)
<1>1. s \in Seq(S) /\ n \in Nat
  BY DEF IsList
<1> HIDE DEF S
<1>2. /\ t \in Seq(S) /\ Len(t) = n
      /\ \A j \in 1..n : t[j] = s[j]
  <2>1. 0 \in Nat /\ 0 + 1 = 1 /\ n - 0 = n /\ \A j \in 1..n : 0 + j = j
    BY <1>1
  <2> HIDE DEF t
  <2>2. LET slice == SubSeq(s, 0 + 1, n)
        IN /\ slice \in Seq(S) /\ Len(slice) = n - 0
           /\ \A j \in 1..(n - 0) : 0 + j \in 1..Len(s) /\ slice[j] = s[0 + j]
    BY <1>1, Slice
  <2> QED
    BY <2>1, <2>2 DEF t
<1> HIDE DEF t
<1>3. t = [j \in 1..n |-> t[j]] /\ s = [j \in 1..n |-> s[j]]
  BY <1>1, <1>2
<1> QED
  BY <1>2, <1>3 DEF t

(* initAssembling puts the whole payload in a new array, in front. *)
LEMMA WholeBuilt ==
  ASSUME NEW d \in Dgram \ DontFragment, NEW n, n = In!Fragments(d),
         NEW buf, NEW asm, IsList(buf), IsList(asm), Len(buf) >= 1,
         buf[1] = [key |-> KeyOf[d], frags |-> Pieces(d, n)]
  PROVE  In!InitAssembling(In!Packet(d, n), buf, asm)
           = [buf |-> buf, ok |-> TRUE,
              asm |-> <<[key |-> KeyOf[d], arr |-> In!Payload(d)]>> \o asm]
<1> DEFINE pkt == In!Packet(d, n)
           len == pkt.offset * Scale + Len(pkt.data)
           frags == Pieces(d, n)
<1>1. pkt.key = KeyOf[d] /\ pkt.data = Piece(d, n).data /\ pkt.offset = Piece(d, n).offset
  BY DEF In!Packet, Piece
<1>2. len = SizeOf[d] /\ SizeOf[d] \in Nat
  <2>1. n \in Nat /\ n \in 1..In!Fragments(d) /\ SizeOf[d] \in Nat
    BY FragmentTiles
  <2>2. PICK at : at = (n - 1) * In!FragBytes
    OBVIOUS
  <2>3. Piece(d, n).offset * Scale = at /\ at + Len(Piece(d, n).data) = SizeOf[d]
    BY <2>1, <2>2, PieceBytes
  <2> HIDE DEF pkt
  <2> QED
    BY <1>1, <2>1, <2>3
<1>3. In!Find(buf, pkt.key) = 1
  BY <1>1, FindFirst
<1>4. buf[1].frags = frags
  BY DEF frags
<1>5. In!Drop(buf, 1) = buf
  BY SliceAll DEF In!Drop
<1> HIDE DEF pkt, frags
<1> DEFINE fit == \A j \in DOMAIN frags : In!Fits(len, frags[j].offset * Scale, frags[j].data)
           arr == [i \in 1..len |-> In!Byte(frags, i)]
<1>6. In!InitAssembling(pkt, buf, asm)
        = [buf |-> In!Drop(buf, 1), asm |-> <<[key |-> pkt.key, arr |-> arr]>> \o asm, ok |-> fit]
  <2>1. 1 # 0
    OBVIOUS
  <2> QED
    BY <1>3, <1>4, <2>1, Zenon DEF In!InitAssembling
<1> HIDE DEF len
<1>7. arr = In!Payload(d)
  <2>1. \A i \in 1..SizeOf[d] : In!Byte(frags, i) = <<d, i>>
    BY PiecesWhole DEF frags
  <2> QED
    BY <1>2, <2>1, PayloadOf
<1>8. fit
  BY <1>2, PiecesWhole DEF frags
<1>9. fit = TRUE
  BY <1>8, Zenon
<1> HIDE DEF fit, arr
<1> QED
  BY <1>1, <1>5, <1>6, <1>7, <1>9 DEF pkt

(* What handleIPv4 does with the next packet of a datagram: it raises      *)
(* nothing, touches no other key, and hands the payload up with the last.  *)
Handled(d, i) ==
  /\ IsList(fragmentBuffer') /\ IsList(assemblingList')
  /\ \A key : key # KeyOf[d] /\ Names(fragmentBuffer', key) => Names(fragmentBuffer, key)
  /\ \A key : key # KeyOf[d] /\ Names(assemblingList', key) => Names(assemblingList, key)
  /\ i < In!Fragments(d) =>
       /\ Len(fragmentBuffer') >= 1 /\ out' = out
       /\ fragmentBuffer'[1] = [key |-> KeyOf[d], frags |-> Pieces(d, i)]
  /\ i = In!Fragments(d) => out' = Append(out, [key |-> KeyOf[d], data |-> In!Payload(d)])
  /\ ~Raises(In!Packet(d, i))

(* A whole datagram with DF. *)
LEMMA WholeHandled ==
  ASSUME SerialInv, NEW d \in DontFragment, d \in Dgram, NEW i \in 1..In!Fragments(d),
         In!Handle(In!Packet(d, i))
  PROVE  Handled(d, i)
<1> DEFINE pkt == In!Packet(d, i)
<1>1. i = 1 /\ In!Fragments(d) = 1 /\ SizeOf[d] \in Nat
  BY FragmentTiles DEF In!Fragments
<1>2. pkt.flags = 2 /\ pkt.key = KeyOf[d]
  BY DEF In!Packet
<1>3. pkt.offset = 0
  <2>1. pkt.offset = (i - 1) * FragUnits
    BY DEF In!Packet
  <2> QED
    BY <1>1, <2>1, ServiceAssumption
<1>4. pkt.data = In!Payload(d)
  <2>1. (i - 1) * In!FragBytes = 0 /\ 0 + 1 = 1
    BY <1>1, FragmentTiles
  <2>2. pkt.data = SubSeq(In!Payload(d), (i - 1) * In!FragBytes + 1, SizeOf[d])
    BY <1>1 DEF In!Packet
  <2>3. IsList(In!Payload(d)) /\ Len(In!Payload(d)) = SizeOf[d]
    BY <1>1, PayloadOf, ListFunction
  <2> QED
    BY <2>1, <2>2, <2>3, SliceAll
<1>5. In!HandleWhole(pkt) \/ In!HandleFragment(pkt) \/ In!HandleLast(pkt)
  BY DEF In!Handle
<1>6. ~Raises(pkt)
  BY <1>2, <1>3 DEF Raises
<1> HIDE DEF pkt
<1>7. In!HandleWhole(pkt)
  BY <1>2, <1>3, <1>5 DEF In!HandleFragment, In!HandleLast
<1>8. /\ out' = Append(out, [key |-> KeyOf[d], data |-> In!Payload(d)])
      /\ fragmentBuffer' = fragmentBuffer /\ assemblingList' = assemblingList
  BY <1>2, <1>4, <1>7 DEF In!HandleWhole, In!HandUp
<1> QED
  BY <1>1, <1>6, <1>8 DEF Handled, SerialInv, pkt

(* A fragment with more to come. *)
LEMMA FragmentHandled ==
  ASSUME SerialInv, NEW d \in Dgram \ DontFragment, NEW i \in 1..In!Fragments(d),
         i = arrived[d] + 1, i < In!Fragments(d), In!Handle(In!Packet(d, i))
  PROVE  Handled(d, i)
<1> DEFINE pkt == In!Packet(d, i)
           added == In!AddFragment(pkt)
<1>1. pkt.flags = 1
  BY DEF In!Packet
<1>2. In!HandleWhole(pkt) \/ In!HandleFragment(pkt) \/ In!HandleLast(pkt)
  BY DEF In!Handle
<1>3. In!Fragments(d) \in Nat
  BY FragmentTiles
<1>4. PICK a : a = added
  OBVIOUS
<1>5. a = In!AddFragment(In!Packet(d, i))
  BY <1>4
<1>6. /\ a.ok /\ a.asm = assemblingList
      /\ IsList(a.buf) /\ Len(a.buf) >= 1
      /\ a.buf[1] = [key |-> KeyOf[d], frags |-> Pieces(d, i)]
      /\ \A key : key # KeyOf[d] /\ Names(a.buf, key) => Names(fragmentBuffer, key)
  BY <1>5, NextPiece
<1> HIDE DEF pkt
<1>7. In!HandleFragment(pkt)
  BY <1>1, <1>2 DEF In!HandleWhole, In!HandleLast
<1>8. fragmentBuffer' = a.buf /\ assemblingList' = a.asm /\ out' = out
  BY <1>4, <1>7 DEF In!HandleFragment
<1>9. ~Raises(pkt)
  BY <1>1, <1>4, <1>6 DEF Raises
<1> QED
  BY <1>3, <1>6, <1>8, <1>9 DEF Handled, SerialInv, pkt

(* The last fragment. *)
LEMMA LastHandled ==
  ASSUME SerialInv, NEW d \in Dgram \ DontFragment, NEW i, i = In!Fragments(d),
         i = arrived[d] + 1, In!Handle(In!Packet(d, i))
  PROVE  Handled(d, i)
<1> DEFINE pkt == In!Packet(d, i)
           entry == [key |-> KeyOf[d], arr |-> In!Payload(d)]
<1>1. pkt.flags = 0 /\ pkt.key = KeyOf[d]
  <2>1. i \in Nat
    BY FragmentTiles
  <2> QED
    BY <2>1 DEF In!Packet
<1>2. In!HandleWhole(pkt) \/ In!HandleFragment(pkt) \/ In!HandleLast(pkt)
  BY DEF In!Handle
<1>3. In!Fragments(d) \in Nat /\ i \in 1..In!Fragments(d) /\ ~(i < In!Fragments(d))
  <2>1. In!Fragments(d) \in Nat /\ In!Fragments(d) >= 1
    BY FragmentTiles
  <2> QED
    BY <2>1
<1>4. PICK a : a = In!AddFragment(In!Packet(d, i))
  OBVIOUS
<1>5. /\ a.ok /\ a.asm = assemblingList
      /\ IsList(a.buf) /\ Len(a.buf) >= 1
      /\ a.buf[1] = [key |-> KeyOf[d], frags |-> Pieces(d, i)]
      /\ \A key : key # KeyOf[d] /\ Names(a.buf, key) => Names(fragmentBuffer, key)
  BY <1>3, <1>4, NextPiece
<1>6. PICK built : built = In!InitAssembling(In!Packet(d, i), a.buf, a.asm)
  OBVIOUS
<1>7. IsList(a.asm)
  BY <1>5 DEF SerialInv
<1>8. built.ok /\ built.buf = a.buf /\ built.asm = <<entry>> \o a.asm
  <2>1. built = [buf |-> a.buf, ok |-> TRUE,
                 asm |-> <<[key |-> KeyOf[d], arr |-> In!Payload(d)]>> \o a.asm]
    <3> DEFINE buf == a.buf
               asm == a.asm
    <3>1. IsList(buf)
      BY <1>5
    <3>2. Len(buf) >= 1
      BY <1>5
    <3>3. IsList(asm)
      BY <1>7
    <3>4. buf[1] = [key |-> KeyOf[d], frags |-> Pieces(d, i)]
      BY <1>5
    <3> HIDE DEF buf, asm
    <3>5. In!InitAssembling(In!Packet(d, i), buf, asm)
            = [buf |-> buf, ok |-> TRUE,
               asm |-> <<[key |-> KeyOf[d], arr |-> In!Payload(d)]>> \o asm]
      BY <3>1, <3>2, <3>3, <3>4, WholeBuilt, ZenonT(30)
    <3> QED
      BY <1>6, <3>5 DEF buf, asm
  <2> QED
    BY <2>1
<1> HIDE DEF pkt
<1>9. entry.key = KeyOf[d] /\ entry.arr = In!Payload(d)
  OBVIOUS
<1> HIDE DEF entry
<1> DEFINE t == built.asm
<1>10. t = <<entry>> \o a.asm
  BY <1>8
<1> HIDE DEF t
<1>11. IsList(t) /\ Len(t) = Len(a.asm) + 1 /\ Len(a.asm) \in Nat
  <2>1. IsList(t)
    BY <1>7, <1>10, ListCons
  <2>2. Len(t) = Len(a.asm) + 1
    BY <1>7, <1>10, ListCons
  <2> QED
    BY <1>7, <2>1, <2>2, ListOf
<1>12. t[1] = entry
  BY <1>7, <1>10, ListCons
<1>13. \A k \in 1..Len(a.asm) : t[k + 1] = a.asm[k]
  BY <1>7, <1>10, ListCons
<1>14. In!Find(t, pkt.key) = 1
  BY <1>1, <1>9, <1>11, <1>12, FindFirst
<1>15. In!Drop(t, 1) = t
  BY <1>11, SliceAll DEF In!Drop
<1>16. In!HandleLast(pkt)
  BY <1>1, <1>2 DEF In!HandleWhole, In!HandleFragment
<1>17. a = In!AddFragment(pkt) /\ built = In!InitAssembling(pkt, a.buf, a.asm)
  BY <1>4, <1>6 DEF pkt
<1>18. /\ fragmentBuffer' = built.buf
       /\ assemblingList' = In!Drop(t, 1)
       /\ In!HandUp(pkt.key, t[1].arr)
  BY <1>5, <1>8, <1>14, <1>16, <1>17 DEF In!HandleLast, t
<1>19. out' = Append(out, [key |-> KeyOf[d], data |-> In!Payload(d)])
  BY <1>1, <1>9, <1>12, <1>18 DEF In!HandUp
<1>20. fragmentBuffer' = a.buf /\ assemblingList' = t
  BY <1>8, <1>15, <1>18
<1>21. ASSUME NEW key, key # KeyOf[d], Names(t, key)
       PROVE  Names(assemblingList, key)
  <2>1. PICK k \in 1..Len(t) : t[k].key = key
    BY <1>21 DEF Names
  <2>2. k # 1
    BY <1>9, <1>12, <1>21, <2>1
  <2>3. k - 1 \in 1..Len(a.asm) /\ (k - 1) + 1 = k
    BY <1>11, <2>2
  <2>4. a.asm[k - 1].key = key
    BY <1>13, <2>1, <2>3
  <2> QED
    BY <1>5, <2>3, <2>4 DEF Names
<1>22. ~Raises(pkt)
  BY <1>5, <1>8, <1>17 DEF Raises
<1>23. \A key : key # KeyOf[d] /\ Names(assemblingList', key) => Names(assemblingList, key)
  BY <1>20, <1>21
<1>24. \A key : key # KeyOf[d] /\ Names(fragmentBuffer', key) => Names(fragmentBuffer, key)
  BY <1>5, <1>20
<1> QED
  BY <1>3, <1>5, <1>11, <1>19, <1>20, <1>22, <1>23, <1>24 DEF Handled, pkt

(* Clients with different keys. *)
KeysDiffer == \A d, e \in Dgram : KeyOf[d] = KeyOf[e] => d = e

(* One datagram after the other: the next packet keeps the lists as they   *)
(* should be.                                                              *)
LEMMA Arrival ==
  ASSUME Network = "serial", KeysDiffer, SerialInv,
         NEW d \in Dgram, NEW i \in 1..In!Fragments(d), In!Arrive(d, i)
  PROVE  /\ Handled(d, i) /\ i = arrived[d] + 1
         /\ arrived' = [arrived EXCEPT ![d] = i] /\ SerialInv'
<1>1. /\ i = arrived[d] + 1
      /\ \A e \in Dgram : e # d => arrived[e] = 0 \/ arrived[e] = In!Fragments(e)
  BY DEF In!Arrive, In!MayArrive
<1>2. arrived' = [arrived EXCEPT ![d] = i] /\ In!Handle(In!Packet(d, i))
  BY <1>1 DEF In!Arrive
<1>3. i \in Nat /\ In!Fragments(d) \in Nat /\ (i < In!Fragments(d) \/ i = In!Fragments(d))
  BY FragmentTiles
<1>4. Handled(d, i)
  <2>1. CASE d \in DontFragment
    BY <1>2, <2>1, WholeHandled
  <2>2. CASE d \notin DontFragment /\ i < In!Fragments(d)
    BY <1>1, <1>2, <2>2, FragmentHandled
  <2>3. CASE d \notin DontFragment /\ i = In!Fragments(d)
    BY <1>1, <1>2, <2>3, LastHandled
  <2> QED
    BY <1>3, <2>1, <2>2, <2>3
<1>5. /\ arrived' \in [Dgram -> Nat] /\ arrived'[d] = i
      /\ \A e \in Dgram : e # d => arrived'[e] = arrived[e]
  BY <1>2, <1>3 DEF SerialInv
<1>6. IsList(out')
  <2>1. CASE out' = out
    BY <2>1 DEF SerialInv
  <2>2. ASSUME NEW o, out' = Append(out, o) PROVE IsList(out')
    BY <2>2, ListAppend DEF SerialInv
  <2> QED
    BY <1>3, <1>4, <2>1, <2>2 DEF Handled
<1>7. \A e \in Dgram : UnderWay(e)' => e = d
  BY <1>1, <1>5 DEF UnderWay
<1>8. ASSUME NEW e \in Dgram
      PROVE  /\ arrived'[e] <= In!Fragments(e)
             /\ arrived'[e] = 0 => ~Names(fragmentBuffer', KeyOf[e]) /\ ~Names(assemblingList', KeyOf[e])
             /\ UnderWay(e)' =>
                  /\ Len(fragmentBuffer') >= 1
                  /\ fragmentBuffer'[1] = [key |-> KeyOf[e], frags |-> Pieces(e, arrived'[e])]
  <2>1. CASE e = d
    <3>1. arrived'[e] = i /\ i # 0 /\ (UnderWay(e)' => i < In!Fragments(d))
      BY <1>5, <2>1 DEF UnderWay
    <3>2. arrived'[e] <= In!Fragments(e)
      BY <1>3, <2>1, <3>1
    <3>3. i < In!Fragments(d) =>
            /\ Len(fragmentBuffer') >= 1
            /\ fragmentBuffer'[1] = [key |-> KeyOf[d], frags |-> Pieces(d, i)]
      BY <1>4 DEF Handled
    <3> QED
      BY <2>1, <3>1, <3>2, <3>3
  <2>2. CASE e # d
    <3>1. KeyOf[e] # KeyOf[d]
      BY <2>2 DEF KeysDiffer
    <3>2. ~UnderWay(e)' /\ arrived'[e] = arrived[e]
      BY <1>5, <1>7, <2>2
    <3>3. arrived[e] <= In!Fragments(e)
      BY DEF SerialInv
    <3>4. arrived[e] = 0 => ~Names(fragmentBuffer, KeyOf[e]) /\ ~Names(assemblingList, KeyOf[e])
      BY DEF SerialInv
    <3> QED
      BY <1>4, <3>1, <3>2, <3>3, <3>4 DEF Handled
  <2> QED
    BY <2>1, <2>2
<1>9. SerialInv'
  <2>1. IsList(fragmentBuffer') /\ IsList(assemblingList')
    BY <1>4 DEF Handled
  <2>2. \A e, f \in Dgram : UnderWay(e)' /\ UnderWay(f)' => e = f
    BY <1>7
  <2> QED
    BY <1>5, <1>6, <1>8, <2>1, <2>2 DEF SerialInv, IsList
<1> QED
  BY <1>1, <1>2, <1>4, <1>9

------------------------------------------------------------------------------
(* The callback List.find finds is the one bound last. *)
LEMMA FoundLast ==
  ASSUME BindInv, phase # "bind", NEW port
  PROVE  IF Promise!Bound(port) = {} THEN Found(port) = 0
         ELSE Found(port) # 0 /\ listenOn[Found(port)] = Bindings[Promise!LastBound(port)]
<1> DEFINE n == Len(Bindings)
           at == {k \in DOMAIN listenOn : listenOn[k][1] = port}
           bound == Promise!Bound(port)
<1>1. /\ n \in Nat /\ DOMAIN Bindings = 1..n
      /\ DOMAIN listenOn = 1..n /\ \A k \in 1..n : listenOn[k] = Bindings[n + 1 - k]
  <2>1. n \in Nat /\ DOMAIN Bindings = 1..n
    BY ServiceAssumption
  <2>2. Len(listenOn) = n
    BY DEF BindInv
  <2>3. listenOn = [k \in 1..n |-> Bindings[n + 1 - k]]
    BY <2>2 DEF BindInv
  <2> QED
    BY <2>1, <2>3
<1>2. bound = {k \in 1..n : Bindings[k][1] = port}
  BY <1>1 DEF Promise!Bound
<1>3. Found(port) = IF at = {} THEN 0 ELSE CHOOSE k \in at : \A j \in at : k <= j
  BY DEF Found
<1>4. at = {k \in 1..n : Bindings[n + 1 - k][1] = port}
  BY <1>1
<1> HIDE DEF n, at, bound
<1>5. \A k \in at : k \in 1..n /\ n + 1 - k \in bound
  BY <1>1, <1>2, <1>4
<1>6. \A j \in bound : j \in 1..n /\ n + 1 - j \in at
  <2> SUFFICES ASSUME NEW j \in bound PROVE j \in 1..n /\ n + 1 - j \in at
    OBVIOUS
  <2>1. j \in 1..n /\ n + 1 - j \in 1..n /\ n + 1 - (n + 1 - j) = j
    BY <1>1, <1>2
  <2> QED
    BY <1>2, <1>4, <2>1
<1>7. CASE bound = {}
  BY <1>3, <1>5, <1>7 DEF bound
<1>8. CASE bound # {}
  <2>1. at # {} /\ at \subseteq Nat
    BY <1>1, <1>5, <1>6, <1>8
  <2>2. PICK k \in at : \A j \in at : k <= j
    BY <2>1, Smallest
  <2>3. Found(port) = k
    <3>1. \A x \in at : (\A j \in at : x <= j) => x = k
      BY <1>1, <1>5, <2>2
    <3>2. (CHOOSE x \in at : \A j \in at : x <= j) = k
      BY <2>2, <3>1
    <3> QED
      BY <1>3, <2>1, <3>2
  <2> DEFINE b == n + 1 - k
  <2>4. b \in bound /\ \A j \in bound : j <= b
    <3>1. b \in bound
      BY <1>5, <2>2
    <3>2. ASSUME NEW j \in bound PROVE j <= b
      <4>1. j \in 1..n /\ k <= n + 1 - j /\ k \in 1..n
        BY <1>5, <1>6, <2>2
      <4> QED
        BY <1>1, <4>1
    <3> QED
      BY <3>1, <3>2
  <2>5. Promise!LastBound(port) = b
    <3>1. b \in Nat /\ \A x \in bound : x \in Nat
      BY <1>1, <1>6, <2>4
    <3> HIDE DEF b
    <3>2. \A x \in bound : (\A j \in bound : j <= x) => x = b
      BY <2>4, <3>1
    <3>3. (CHOOSE x \in bound : \A j \in bound : j <= x) = b
      BY <2>4, <3>2
    <3> QED
      BY <3>3 DEF Promise!LastBound, bound
  <2>6. k \in 1..n /\ listenOn[k] = Bindings[b]
    BY <1>1, <1>5, <2>2
  <2>7. k # 0
    BY <1>1, <2>6
  <2> QED
    BY <1>8, <2>3, <2>5, <2>6, <2>7 DEF bound
<1> QED
  BY <1>7, <1>8

(* What a callback returns, if it returns, is a list of bytes; an          *)
(* exception is not.                                                       *)
ResultsAreLists ==
  /\ ~IsList(Raised)
  /\ \A d \in Dgram : Promise!Result(d) = Raised \/ IsList(Promise!Result(d))

(* handleUDP computes the promised reply, or raises.                       *)
LEMMA AnswerOf ==
  ASSUME ResultsAreLists, BindInv, phase # "bind", NEW d \in Udp, d \in Dgram
  PROVE  /\ Promise!Silent(d) => Answer(In!Payload(d)) = Raised
         /\ ~Promise!Silent(d) => /\ Answer(In!Payload(d)) = Promise!Reply(d).data
                                  /\ Answer(In!Payload(d)) # Raised
                                  /\ IsList(Promise!Reply(d).data)
<1> DEFINE data == In!Payload(d)
           h == data[1]
           port == ToPort[d]
           body == Tail(data)
           r == Promise!Result(d)
           k == Found(Ports(h).to)
           result == IF k = 0 THEN Unmapped ELSE Apply(listenOn[k][2], body)
           head == [from |-> ToPort[d], to |-> FromPort[d]]
<1>1. /\ SizeOf[d] \in Nat /\ SizeOf[d] >= 1 /\ data \in Seq({d} \X Nat)
      /\ Len(data) = SizeOf[d] /\ \A i \in 1..SizeOf[d] : data[i] = <<d, i>>
  BY FragmentTiles, PayloadOf
<1>2. h = <<d, 1>> /\ h # Zero
  <2>1. 1 \in 1..SizeOf[d]
    BY <1>1
  <2> QED
    BY <1>1, <2>1, ServiceAssumption
<1>3. Ports(h).to = port /\ Swapped(h) = head
  BY <1>2 DEF Ports, Swapped
<1>4. body = Promise!Body(d)
  <2> DEFINE S == {d} \X Nat
  <2>1. data \in Seq(S) /\ data # <<>>
    BY <1>1
  <2> HIDE DEF data, S
  <2>2. /\ body \in Seq(S) /\ Len(body) = Len(data) - 1
        /\ \A j \in 1..Len(body) : body[j] = data[j + 1]
    BY <2>1, HeadTailProperties
  <2> HIDE DEF body
  <2>3. \A j \in 1..(SizeOf[d] - 1) : body[j] = <<d, j + 1>>
    <3> TAKE j \in 1..(SizeOf[d] - 1)
    <3>1. j + 1 \in 1..SizeOf[d] /\ j \in 1..Len(body)
      BY <1>1, <2>2
    <3> QED
      BY <1>1, <2>2, <3>1
  <2>4. body = [j \in 1..(SizeOf[d] - 1) |-> body[j]]
    BY <1>1, <2>2
  <2> QED
    BY <2>3, <2>4 DEF Promise!Body
<1>5. result = r
  <2>1. CASE Promise!Bound(port) = {}
    <3>1. k = 0
      BY <1>3, <2>1, FoundLast
    <3> QED
      BY <2>1, <3>1 DEF Promise!Result
  <2>2. CASE Promise!Bound(port) # {}
    <3>1. k # 0 /\ listenOn[k] = Bindings[Promise!LastBound(port)]
      BY <1>3, <2>2, FoundLast
    <3> HIDE DEF k, body
    <3> QED
      BY <1>4, <2>2, <3>1 DEF Promise!Result
  <2> QED
    BY <2>1, <2>2
<1>6. Answer(data) = IF result = Raised \/ (result # Raised /\ Len(result) + 1 > MaxUdp) THEN Raised
                     ELSE <<Swapped(h)>> \o result
  BY DEF Answer
<1>7. Promise!Silent(d) <=> r = Raised \/ Len(r) + 1 > MaxUdp
  BY DEF Promise!Silent
<1>8. Promise!Reply(d).data = <<head>> \o r
  BY DEF Promise!Reply
<1>9. r = Raised \/ IsList(r)
  BY DEF ResultsAreLists
<1> HIDE DEF result, r, data, h, head
<1>10. ASSUME Promise!Silent(d) PROVE Answer(data) = Raised
  BY <1>5, <1>6, <1>7, <1>10
<1>11. ASSUME ~Promise!Silent(d)
       PROVE  Answer(data) = Promise!Reply(d).data /\ IsList(Promise!Reply(d).data)
  <2>1. Answer(data) = <<head>> \o r
    BY <1>3, <1>5, <1>6, <1>7, <1>11
  <2>2. IsList(r)
    BY <1>7, <1>9, <1>11
  <2>3. PICK t : t = <<head>> \o r
    OBVIOUS
  <2>4. IsList(t)
    BY <2>2, <2>3, ListCons
  <2> QED
    BY <1>8, <2>1, <2>3, <2>4
<1>12. \A t : IsList(t) => t # Raised
  BY DEF ResultsAreLists
<1> QED
  BY <1>10, <1>11, <1>12 DEF data

------------------------------------------------------------------------------
(* Counting in a set of numbers. *)
RankIn(S, k) == Cardinality({l \in S : l <= k})
EndIn(S, i) == CHOOSE k \in S : RankIn(S, k) = i
Ranked(S) == \A i \in 1..Cardinality(S) : \E k \in S : RankIn(S, k) = i

(* A greatest element ranks last, and moves no other. *)
LEMMA RankGrows ==
  ASSUME NEW n \in Nat, NEW S \in SUBSET (1..n), NEW T, T = S \union {n + 1},
         Ranked(S)
  PROVE  /\ Cardinality(S) \in Nat /\ Cardinality(T) = Cardinality(S) + 1
         /\ Ranked(T)
         /\ EndIn(T, Cardinality(T)) = n + 1
         /\ \A i \in 1..Cardinality(S) : EndIn(T, i) = EndIn(S, i)
<1>1. IsFiniteSet(S)
  <2>1. IsFiniteSet(1..n)
    BY FS_Interval
  <2> QED
    BY <2>1, FS_Subset
<1>2. n + 1 \notin S
  OBVIOUS
<1> DEFINE c == Cardinality(S)
<1>3. c \in Nat /\ Cardinality(T) = c + 1
  BY <1>1, <1>2, FS_AddElement, FS_CardinalityType
<1>4. ASSUME NEW k \in S
      PROVE  RankIn(T, k) = RankIn(S, k) /\ RankIn(S, k) <= Cardinality(S) /\ RankIn(S, k) \in Nat
  <2>1. {l \in T : l <= k} = {l \in S : l <= k}
    <3>1. k \in Nat /\ ~(n + 1 <= k)
      OBVIOUS
    <3> QED
      BY <3>1
  <2>2. {l \in S : l <= k} \subseteq S
    OBVIOUS
  <2>3. RankIn(S, k) <= Cardinality(S) /\ RankIn(S, k) \in Nat
    BY <1>1, <2>2, FS_Subset, FS_CardinalityType DEF RankIn
  <2> QED
    BY <2>1, <2>3 DEF RankIn
<1>5. RankIn(T, n + 1) = Cardinality(T)
  <2>1. \A l \in T : l <= n + 1
    OBVIOUS
  <2>2. {l \in T : l <= n + 1} = T
    BY <2>1
  <2> QED
    BY <2>2 DEF RankIn
<1>6. ASSUME NEW i \in 1..(c + 1) PROVE \E k \in T : RankIn(T, k) = i
  <2>1. CASE i \in 1..c
    BY <1>4, <2>1 DEF Ranked
  <2>2. CASE i = c + 1
    BY <1>3, <1>5, <2>2
  <2>3. i \in 1..c \/ i = c + 1
    <3> HIDE DEF c
    <3> QED
      BY <1>3
  <2> QED
    BY <2>1, <2>2, <2>3
<1>7. EndIn(T, c + 1) = n + 1
  <2>1. \A k \in T : RankIn(T, k) = c + 1 => k = n + 1
    <3> SUFFICES ASSUME NEW k \in S PROVE RankIn(T, k) # c + 1
      OBVIOUS
    <3>1. RankIn(T, k) <= c /\ RankIn(T, k) \in Nat
      BY <1>4
    <3> HIDE DEF c
    <3> QED
      BY <1>3, <3>1
  <2>2. n + 1 \in T /\ RankIn(T, n + 1) = c + 1
    BY <1>3, <1>5
  <2>3. (CHOOSE k \in T : RankIn(T, k) = c + 1) = n + 1
    BY <2>1, <2>2
  <2> QED
    BY <2>3 DEF EndIn
<1>8. ASSUME NEW i \in 1..c PROVE EndIn(T, i) = EndIn(S, i)
  <2>1. RankIn(T, n + 1) # i
    BY <1>3, <1>5
  <2>2. \A k : (k \in T /\ RankIn(T, k) = i) <=> (k \in S /\ RankIn(S, k) = i)
    BY <1>4, <2>1
  <2> QED
    BY <2>2, Zenon DEF EndIn
<1>9. Ranked(T)
  BY <1>3, <1>6 DEF Ranked
<1> QED
  BY <1>3, <1>7, <1>8, <1>9

------------------------------------------------------------------------------
(* A frame more does not change what came before it. *)
LEMMA PrefixKept ==
  ASSUME NEW s, IsList(s), NEW e, NEW t, t = Append(s, e), NEW k \in 1..Len(s)
  PROVE  SubSeq(t, 1, k) = SubSeq(s, 1, k)
<1> DEFINE S == {s[j] : j \in DOMAIN s} \union {e}
           a == SubSeq(s, 1, k)
           b == SubSeq(t, 1, k)
<1>1. s \in Seq(S) /\ e \in S
  <2>1. s \in Seq({s[j] : j \in DOMAIN s})
    BY DEF IsList
  <2> QED
    BY <2>1
<1> HIDE DEF S
<1>2. /\ t \in Seq(S) /\ Len(t) = Len(s) + 1 /\ Len(s) \in Nat
      /\ \A j \in 1..Len(s) : t[j] = s[j]
  BY <1>1, AppendProperties
<1>3. k \in Nat /\ 0 <= k /\ k <= Len(s) /\ k <= Len(t) /\ k - 0 = k /\ 0 + 1 = 1
      /\ \A j \in 1..k : 0 + j = j
  BY <1>2
<1>4. a = [j \in 1..k |-> s[j]]
  <2>1. LET slice == SubSeq(s, 0 + 1, k)
        IN /\ slice \in Seq(S) /\ Len(slice) = k - 0
           /\ \A j \in 1..(k - 0) : 0 + j \in 1..Len(s) /\ slice[j] = s[0 + j]
    BY <1>1, <1>3, Slice
  <2>2. a \in Seq(S) /\ Len(a) = k /\ \A j \in 1..k : a[j] = s[j]
    BY <1>3, <2>1
  <2> HIDE DEF a
  <2>3. a = [j \in 1..k |-> a[j]]
    BY <2>2
  <2> QED
    BY <2>2, <2>3
<1>5. b = [j \in 1..k |-> t[j]]
  <2>1. LET slice == SubSeq(t, 0 + 1, k)
        IN /\ slice \in Seq(S) /\ Len(slice) = k - 0
           /\ \A j \in 1..(k - 0) : 0 + j \in 1..Len(t) /\ slice[j] = t[0 + j]
    BY <1>2, <1>3, Slice
  <2>2. b \in Seq(S) /\ Len(b) = k /\ \A j \in 1..k : b[j] = t[j]
    BY <1>3, <2>1
  <2> HIDE DEF b
  <2>3. b = [j \in 1..k |-> b[j]]
    BY <2>2
  <2> QED
    BY <2>2, <2>3
<1> QED
  BY <1>2, <1>3, <1>4, <1>5

(* A sequence is another one and an element. *)
LEMMA AppendIs ==
  ASSUME NEW r, IsList(r), NEW q, IsList(q), Len(q) = Len(r) + 1,
         \A i \in 1..Len(r) : q[i] = r[i]
  PROVE  q = Append(r, q[Len(q)])
<1> DEFINE c == Len(r)
<1>1. PICK t : t = Append(r, q[Len(q)])
  OBVIOUS
<1>2. c \in Nat
  BY ListOf
<1>3. IsList(t) /\ Len(t) = c + 1 /\ t[c + 1] = q[c + 1] /\ \A i \in 1..c : t[i] = r[i]
  BY <1>1, ListAppend
<1>4. t = [i \in 1..(c + 1) |-> t[i]] /\ q = [i \in 1..(c + 1) |-> q[i]]
  BY <1>3, ListOf
<1> HIDE DEF c
<1>5. \A i \in 1..(c + 1) : t[i] = q[i]
  <2> TAKE i \in 1..(c + 1)
  <2>1. i \in 1..c \/ i = c + 1
    BY <1>2
  <2> QED
    BY <1>3, <2>1 DEF c
<1> QED
  BY <1>1, <1>4, <1>5

(* What a peer has rebuilt grows by an answer with its last packet, and    *)
(* with nothing else.                                                      *)
LEMMA RepliesGrow ==
  ASSUME IsList(wire), RankInv, NEW f, wire' = Append(wire, f)
  PROVE  /\ RankInv'
         /\ ~(f.et = "IPv4" /\ f.flags = 0) => Replies' = Replies
         /\ f.et = "IPv4" /\ f.flags = 0 => Replies' = Append(Replies, Rebuilt(wire'))
<1> DEFINE n == Len(wire)
           S == Lasts
           T == Lasts'
           c == Cardinality(S)
<1>1. /\ n \in Nat /\ DOMAIN wire = 1..n /\ DOMAIN wire' = 1..(n + 1) /\ Len(wire') = n + 1
      /\ IsList(wire') /\ wire'[n + 1] = f /\ \A k \in 1..n : wire'[k] = wire[k]
  <2>1. LET t == wire'
        IN /\ IsList(t) /\ Len(t) \in Nat /\ Len(wire) \in Nat
           /\ Len(t) = Len(wire) + 1 /\ DOMAIN t = 1..Len(t) /\ DOMAIN wire = 1..Len(wire)
           /\ t[Len(t)] = f /\ \A k \in 1..Len(wire) : t[k] = wire[k]
    BY ListAppend
  <2> QED
    BY <2>1
<1>2. /\ S = {k \in 1..n : wire[k].et = "IPv4" /\ wire[k].flags = 0}
      /\ T = {k \in 1..(n + 1) : wire'[k].et = "IPv4" /\ wire'[k].flags = 0}
  BY <1>1 DEF Lasts, Datagrams
<1>3. /\ Replies = [i \in 1..Cardinality(S) |-> Rebuilt(SubSeq(wire, 1, EndIn(S, i)))]
      /\ Replies' = [i \in 1..Cardinality(T) |-> Rebuilt(SubSeq(wire', 1, EndIn(T, i)))]
  BY DEF Replies, EndOf, Rank, EndIn, RankIn
<1>4. Ranked(S)
  BY DEF RankInv, Rank, RankIn, Ranked
<1>5. RankInv' <=> Ranked(T)
  BY DEF RankInv, Rank, RankIn, Ranked
<1> HIDE DEF n, S, T
<1>6. ASSUME NEW i \in 1..c
      PROVE  SubSeq(wire', 1, EndIn(S, i)) = SubSeq(wire, 1, EndIn(S, i))
  <2>1. EndIn(S, i) \in S
    BY <1>4 DEF EndIn, Ranked
  <2>2. EndIn(S, i) \in 1..Len(wire)
    BY <1>2, <2>1 DEF n
  <2>3. PICK k \in 1..Len(wire) : k = EndIn(S, i)
    BY <2>2
  <2> QED
    BY <2>3, PrefixKept
<1>7. CASE ~(f.et = "IPv4" /\ f.flags = 0)
  <2>1. T = S
    <3>1. \A k : k \in T => k \in S
      <4> SUFFICES ASSUME NEW k \in T PROVE k \in S
        OBVIOUS
      <4>1. k \in 1..(n + 1) /\ k # n + 1
        BY <1>1, <1>2, <1>7
      <4>2. k \in 1..n
        BY <1>1, <4>1
      <4> QED
        BY <1>1, <1>2, <4>2
    <3>2. \A k : k \in S => k \in T
      BY <1>1, <1>2
    <3> QED
      BY <3>1, <3>2
  <2>2. Replies' = Replies
    BY <1>3, <1>6, <2>1
  <2> QED
    BY <1>4, <1>5, <1>7, <2>1, <2>2
<1>8. CASE f.et = "IPv4" /\ f.flags = 0
  <2>1. T = S \union {n + 1}
    <3>1. \A k : k \in T => k \in S \union {n + 1}
      <4> SUFFICES ASSUME NEW k \in T, k # n + 1 PROVE k \in S
        OBVIOUS
      <4>1. k \in 1..n
        BY <1>1, <1>2
      <4> QED
        BY <1>1, <1>2, <4>1
    <3>2. n + 1 \in T /\ \A k : k \in S => k \in T
      BY <1>1, <1>2, <1>8
    <3> QED
      BY <3>1, <3>2
  <2>2. S \in SUBSET (1..n)
    BY <1>2
  <2>3. /\ c \in Nat /\ Cardinality(T) = c + 1
        /\ Ranked(T)
        /\ EndIn(T, Cardinality(T)) = n + 1
        /\ \A i \in 1..c : EndIn(T, i) = EndIn(S, i)
    <3>1. c \in Nat /\ Cardinality(T) = c + 1
      BY <1>1, <1>4, <2>1, <2>2, RankGrows
    <3>2. Ranked(T)
      BY <1>1, <1>4, <2>1, <2>2, RankGrows
    <3>3. EndIn(T, Cardinality(T)) = n + 1
      BY <1>1, <1>4, <2>1, <2>2, RankGrows
    <3>4. \A i \in 1..c : EndIn(T, i) = EndIn(S, i)
      BY <1>1, <1>4, <2>1, <2>2, RankGrows
    <3> QED
      BY <3>1, <3>2, <3>3, <3>4
  <2> DEFINE r == Replies
             q == Replies'
  <2>4. r = [i \in 1..c |-> r[i]] /\ \A i \in 1..c : r[i] = Rebuilt(SubSeq(wire, 1, EndIn(S, i)))
    BY <1>3
  <2>5. /\ q = [i \in 1..(c + 1) |-> q[i]]
        /\ \A i \in 1..(c + 1) : q[i] = Rebuilt(SubSeq(wire', 1, EndIn(T, i)))
    BY <1>3, <2>3
  <2> HIDE DEF r, q, c
  <2>6. q[c + 1] = Rebuilt(wire')
    <3>1. SubSeq(wire', 1, n + 1) = wire'
      <4>1. n + 1 = Len(wire')
        BY <1>1
      <4> QED
        BY <1>1, <4>1, SliceAll
    <3>2. c + 1 \in 1..(c + 1)
      BY <2>3
    <3> QED
      BY <2>3, <2>5, <3>1, <3>2
  <2>7. ASSUME NEW i \in 1..c PROVE q[i] = r[i]
    <3>1. i \in 1..(c + 1)
      BY <2>3
    <3>2. SubSeq(wire', 1, EndIn(S, i)) = SubSeq(wire, 1, EndIn(S, i))
      BY <1>6 DEF c
    <3> QED
      BY <2>3, <2>4, <2>5, <3>1, <3>2
  <2>8. c \in Nat
    BY <2>3
  <2>9. q = Append(r, Rebuilt(wire'))
    <3>1. IsList(r) /\ Len(r) = c
      BY <2>4, <2>8, ListFunction
    <3>2. IsList(q) /\ Len(q) = c + 1
      BY <2>5, <2>8, ListFunction
    <3>3. \A i \in 1..Len(r) : q[i] = r[i]
      BY <2>7, <3>1
    <3>4. q = Append(r, q[Len(q)])
      BY <3>1, <3>2, <3>3, AppendIs
    <3> QED
      BY <2>6, <3>2, <3>4
  <2> QED
    BY <1>5, <1>8, <2>3, <2>9 DEF r, q
<1> QED
  BY <1>7, <1>8

------------------------------------------------------------------------------
(* A fragment of an answer has Chunk bytes, at a multiple of Chunk. *)
LEMMA ChunkFits ==
  /\ Chunk \in Nat /\ Chunk >= 1 /\ Chunk + IpHeader <= Mtu
  /\ \A x \in Nat : x * Out!nfb \in Nat /\ (x * Out!nfb) * Scale = x * Chunk
<1> DEFINE u == Out!nfb
           room == Mtu - IpHeader
<1>1. u \in Nat /\ u >= 1 /\ Scale \in Nat /\ Scale >= 1
  BY FragmentUnits, ServiceAssumption
<1>2. u * Scale <= room
  <2>1. room \in Nat /\ u = room \div Scale
    BY ServiceAssumption DEF Out!nfb
  <2> HIDE DEF u, room
  <2> QED
    BY <1>1, <2>1
<1>3. u * Scale \in Nat /\ u * Scale >= 1
  <2> HIDE DEF u
  <2>1. u * Scale \in Nat
    BY <1>1
  <2>2. u * Scale >= u
    BY <1>1
  <2> QED
    BY <1>1, <2>1, <2>2
<1>4. \A x \in Nat : x * u \in Nat /\ (x * u) * Scale = x * (u * Scale)
  <2> HIDE DEF u
  <2>1. \A x, y, z \in Nat : x * y \in Nat /\ (x * y) * z = x * (y * z)
    OBVIOUS
  <2> QED
    BY <1>1, <2>1
<1>5. u * Scale + IpHeader <= Mtu
  <2> DEFINE c == u * Scale
  <2> HIDE DEF c
  <2>1. c \in Nat /\ c <= Mtu - IpHeader /\ Mtu \in Nat /\ IpHeader \in Nat
    BY <1>2, <1>3, ServiceAssumption DEF c
  <2> QED
    BY <2>1 DEF c
<1> QED
  BY <1>3, <1>4, <1>5 DEF Chunk

(* What is in a part of a sequence. *)
LEMMA SliceIs ==
  ASSUME NEW s, IsList(s), NEW a \in Nat, NEW c \in Nat, a <= c, c <= Len(s),
         NEW t, t = SubSeq(s, a + 1, c)
  PROVE  /\ IsList(t) /\ Len(t) = c - a /\ Len(t) \in Nat
         /\ \A j \in 1..(c - a) : t[j] = s[a + j]
<1> DEFINE S == {s[k] : k \in DOMAIN s}
<1>1. s \in Seq(S)
  BY DEF IsList
<1> HIDE DEF S
<1>2. LET slice == SubSeq(s, a + 1, c)
      IN /\ slice \in Seq(S) /\ Len(slice) = c - a
         /\ \A j \in 1..(c - a) : a + j \in 1..Len(s) /\ slice[j] = s[a + j]
  BY <1>1, Slice
<1>3. t \in Seq(S) /\ Len(t) = c - a /\ \A j \in 1..(c - a) : t[j] = s[a + j]
  BY <1>2
<1>4. c - a \in Nat
  OBVIOUS
<1>5. t = [j \in 1..(c - a) |-> t[j]]
  BY <1>3, <1>4, SMTT(30)
<1>6. IsList(t)
  BY <1>4, <1>5, ListFunction
<1> QED
  BY <1>3, <1>4, <1>5, <1>6

(* A part of what is left. *)
LEMMA SliceSlice ==
  ASSUME NEW s, IsList(s), NEW n, n = Len(s), NEW a \in Nat, NEW b \in Nat, NEW c \in Nat,
         b <= c, a + c <= n, NEW t, t = SubSeq(s, a + 1, n)
  PROVE  SubSeq(t, b + 1, c) = SubSeq(s, (a + b) + 1, a + c)
<1>1. n \in Nat /\ a <= n
  BY ListOf
<1>2. /\ IsList(t) /\ Len(t) = n - a /\ \A j \in 1..(n - a) : t[j] = s[a + j]
  <2>1. t = SubSeq(s, a + 1, n) /\ n <= Len(s)
    BY <1>1
  <2>2. IsList(t)
    BY <1>1, <2>1, SliceIs
  <2>3. Len(t) = n - a
    BY <1>1, <2>1, SliceIs
  <2>4. \A j \in 1..(n - a) : t[j] = s[a + j]
    BY <1>1, <2>1, SliceIs
  <2> QED
    BY <2>2, <2>3, <2>4
<1>3. PICK u : u = SubSeq(t, b + 1, c)
  OBVIOUS
<1>4. u = [j \in 1..(c - b) |-> t[b + j]]
  <2>1. c <= Len(t)
    BY <1>1, <1>2
  <2> QED
    BY <1>2, <1>3, <2>1, SliceIs
<1>5. PICK v : v = SubSeq(s, (a + b) + 1, a + c)
  OBVIOUS
<1>6. v = [j \in 1..((a + c) - (a + b)) |-> s[(a + b) + j]]
  <2>1. a + b \in Nat /\ a + c \in Nat /\ a + b <= a + c
    OBVIOUS
  <2> QED
    BY <1>5, <2>1, SliceIs
<1>7. (a + c) - (a + b) = c - b
  OBVIOUS
<1>8. \A j \in 1..(c - b) : t[b + j] = s[(a + b) + j]
  <2> TAKE j \in 1..(c - b)
  <2>1. b + j \in 1..(n - a) /\ a + (b + j) = (a + b) + j
    BY <1>1
  <2> QED
    BY <1>2, <2>1
<1> QED
  BY <1>3, <1>4, <1>5, <1>6, <1>7, <1>8

------------------------------------------------------------------------------
(* The k-th of the n packets of an answer. *)
IsCut(f, key, p, k, n) ==
  /\ f.et = "IPv4" /\ f.key = key /\ f.offset = (k - 1) * Out!nfb
  /\ f.data = SubSeq(p, (k - 1) * Chunk + 1, IF k < n THEN k * Chunk ELSE Len(p))

Cuts(frames, base, key, p, n) == \A k \in 1..n : IsCut(frames[base + k], key, p, k, n)

LEMMA CutBytes ==
  ASSUME NEW p, IsList(p), NEW n \in Nat, (n - 1) * Chunk <= Len(p), NEW k \in 1..n,
         NEW key, NEW f, IsCut(f, key, p, k, n), NEW at, at = (k - 1) * Chunk
  PROVE  /\ at \in Nat /\ f.offset * Scale = at /\ Len(f.data) \in Nat
         /\ at + Len(f.data) = IF k < n THEN at + Chunk ELSE Len(p)
         /\ \A j \in 1..Len(f.data) : f.data[j] = p[at + j]
<1> DEFINE end == IF k < n THEN k * Chunk ELSE Len(p)
<1>1. Chunk \in Nat /\ Chunk >= 1 /\ Len(p) \in Nat
  BY ChunkFits, ListOf
<1>2. k - 1 \in Nat /\ k \in Nat
  OBVIOUS
<1>3. f.offset * Scale = at
  BY <1>2, ChunkFits DEF IsCut
<1>4. at \in Nat /\ k * Chunk = at + Chunk
  <2> DEFINE c == Chunk
  <2>1. c \in Nat
    BY <1>1
  <2> HIDE DEF c
  <2>2. (k - 1) * c \in Nat /\ k * c = (k - 1) * c + c
    BY <1>2, <2>1
  <2> QED
    BY <2>2 DEF c
<1>5. at <= (n - 1) * Chunk /\ (k < n => at + Chunk <= (n - 1) * Chunk) /\ (n - 1) * Chunk \in Nat
  <2> DEFINE c == Chunk
  <2>1. c \in Nat
    BY <1>1
  <2> HIDE DEF c
  <2>2. (k - 1) * c <= (n - 1) * c /\ (n - 1) * c \in Nat
    BY <1>2, <2>1
  <2>3. k < n => k * c <= (n - 1) * c
    BY <1>2, <2>1
  <2> QED
    BY <1>4, <2>2, <2>3 DEF c
<1>6. end \in Nat /\ at <= end /\ end <= Len(p) /\ end = IF k < n THEN at + Chunk ELSE Len(p)
  BY <1>1, <1>4, <1>5
<1>7. f.data = SubSeq(p, at + 1, end)
  BY DEF IsCut
<1> HIDE DEF end
<1>8. Len(f.data) = end - at /\ \A j \in 1..(end - at) : f.data[j] = p[at + j]
  <2>1. PICK t : t = f.data
    OBVIOUS
  <2>4. at \in Nat /\ end \in Nat /\ at <= end /\ end <= Len(p) /\ t = SubSeq(p, at + 1, end)
    BY <1>4, <1>6, <1>7, <2>1
  <2>2. Len(t) = end - at
    BY <2>4, SliceIs
  <2>3. \A j \in 1..(end - at) : t[j] = p[at + j]
    BY <2>4, SliceIs
  <2> QED
    BY <2>1, <2>2, <2>3
<1> QED
  BY <1>3, <1>4, <1>6, <1>8

(* A peer rebuilds an answer from the packets that end the wire. *)
LEMMA RebuiltWhole ==
  ASSUME NEW p, IsList(p), NEW m \in Nat, m * Chunk <= Len(p), NEW key,
         NEW base \in Nat, NEW frames, IsList(frames), Len(frames) = base + m + 1,
         Cuts(frames, base, key, p, m + 1)
  PROVE  Rebuilt(frames) = [key |-> key, data |-> p]
<1> DEFINE n == m + 1
           ip == Datagrams(frames)
           last == frames[Len(frames)]
           Opening(j) == frames[j].offset = 0 /\ \A l \in ip : l > j => frames[l].offset # 0
           first == CHOOSE j \in ip : Opening(j)
<1>1. n \in Nat /\ n >= 1 /\ n - 1 = m /\ base + n = Len(frames) /\ Len(p) \in Nat
  BY ListOf
<1>2. DOMAIN frames = 1..(base + n)
  BY <1>1, ListOf
<1>3. Out!nfb \in Nat /\ Out!nfb >= 1 /\ Scale \in Nat
  BY FragmentUnits, ServiceAssumption
<1>4. ASSUME NEW k \in 1..n
      PROVE  base + k \in ip /\ (frames[base + k].offset = 0 <=> k = 1)
  <2>1. IsCut(frames[base + k], key, p, k, n)
    BY DEF Cuts
  <2>2. base + k \in 1..(base + n)
    BY <1>1
  <2>3. base + k \in ip
    BY <1>2, <2>1, <2>2 DEF IsCut, Datagrams
  <2>4. frames[base + k].offset = (k - 1) * Out!nfb
    BY <2>1 DEF IsCut
  <2>5. (k - 1) * Out!nfb = 0 <=> k = 1
    <3> DEFINE u == Out!nfb
    <3>1. u \in Nat /\ u >= 1
      BY <1>3
    <3> HIDE DEF u
    <3>2. k - 1 \in Nat /\ k \in Nat
      BY <1>1
    <3>3. k # 1 => (k - 1) * u >= 1 * u
      BY <3>1, <3>2
    <3>4. 0 * u = 0
      BY <3>1
    <3> QED
      BY <3>1, <3>2, <3>3, <3>4 DEF u
  <2> QED
    BY <2>3, <2>4, <2>5
<1>5. \A j \in ip : j \in 1..(base + n)
  BY <1>2 DEF Datagrams
<1> HIDE DEF ip
<1>6. ASSUME NEW j \in ip, j > base PROVE j - base \in 1..n /\ base + (j - base) = j
  BY <1>1, <1>5, <1>6
<1>7. first = base + 1
  <2>1. base + 1 \in ip /\ Opening(base + 1)
    <3>1. 1 \in 1..n
      BY <1>1
    <3>2. base + 1 \in ip /\ frames[base + 1].offset = 0
      BY <1>4, <3>1
    <3>3. ASSUME NEW l \in ip, l > base + 1 PROVE frames[l].offset # 0
      <4>1. l - base \in 1..n /\ base + (l - base) = l /\ l - base # 1
        BY <1>5, <1>6, <3>3
      <4> QED
        BY <1>4, <4>1
    <3> QED
      BY <3>2, <3>3
  <2>2. ASSUME NEW j \in ip, Opening(j) PROVE j = base + 1
    <3>1. j \in Nat
      BY <1>5
    <3>2. ~(base + 1 > j)
      BY <2>1, <2>2
    <3>3. j > base
      BY <3>1, <3>2
    <3>4. j - base \in 1..n /\ base + (j - base) = j
      BY <1>6, <3>3
    <3>5. j - base = 1
      BY <1>4, <2>2, <3>4
    <3> QED
      BY <3>4, <3>5
  <2> HIDE DEF Opening
  <2> QED
    BY <2>1, <2>2
<1>8. Parts(frames) = {j \in ip : j >= base + 1}
  <2>1. Parts(frames) = {j \in ip : j >= first}
    BY DEF Parts, ip
  <2> QED
    BY <1>7, <2>1
<1>9. ASSUME NEW j \in Parts(frames)
      PROVE  j - base \in 1..n /\ IsCut(frames[j], key, p, j - base, n)
  <2>1. j \in ip /\ j > base
    BY <1>5, <1>8
  <2>2. j - base \in 1..n /\ base + (j - base) = j
    BY <1>6, <2>1
  <2>3. IsCut(frames[base + (j - base)], key, p, j - base, n)
    BY <2>2 DEF Cuts
  <2> QED
    BY <2>2, <2>3
<1>10. last.key = key /\ last.offset * Scale + Len(last.data) = Len(p)
  <2>1. n \in 1..n
    BY <1>1
  <2>2. IsCut(frames[base + n], key, p, n, n)
    BY <2>1 DEF Cuts
  <2>3. PICK f : f = frames[base + n]
    OBVIOUS
  <2>4. PICK at : at = (n - 1) * Chunk
    OBVIOUS
  <2>5. (n - 1) * Chunk <= Len(p)
    BY <1>1
  <2> HIDE DEF n
  <2>6. /\ f.offset * Scale = at
        /\ at + Len(f.data) = IF n < n THEN at + Chunk ELSE Len(p)
    BY <1>1, <2>1, <2>2, <2>3, <2>4, <2>5, CutBytes
  <2>7. last = f /\ ~(n < n)
    BY <1>1, <2>3
  <2> QED
    BY <2>2, <2>3, <2>6, <2>7 DEF IsCut
<1>11. ASSUME NEW b \in 1..Len(p), NEW j \in Parts(frames), Covers(frames[j], b)
       PROVE  frames[j].data[b - frames[j].offset * Scale] = p[b]
  <2>1. PICK k \in 1..n : k = j - base
    BY <1>9
  <2>2. PICK f : f = frames[j]
    OBVIOUS
  <2>3. PICK at : at = (k - 1) * Chunk
    OBVIOUS
  <2>4. IsCut(f, key, p, k, n) /\ (n - 1) * Chunk <= Len(p)
    BY <1>1, <1>9, <2>1, <2>2
  <2> HIDE DEF n
  <2>5. /\ at \in Nat /\ f.offset * Scale = at /\ Len(f.data) \in Nat
        /\ \A i \in 1..Len(f.data) : f.data[i] = p[at + i]
    <3>1. at \in Nat /\ f.offset * Scale = at /\ Len(f.data) \in Nat
      BY <1>1, <2>3, <2>4, CutBytes
    <3>2. \A i \in 1..Len(f.data) : f.data[i] = p[at + i]
      BY <1>1, <2>3, <2>4, CutBytes
    <3> QED
      BY <3>1, <3>2
  <2>6. at < b /\ b <= at + Len(f.data)
    BY <1>11, <2>2, <2>5 DEF Covers
  <2>7. b - at \in 1..Len(f.data) /\ at + (b - at) = b
    BY <1>1, <2>5, <2>6
  <2> QED
    BY <2>2, <2>5, <2>7
<1>12. ASSUME NEW b \in 1..Len(p)
       PROVE  \E j \in Parts(frames) : Covers(frames[j], b)
  <2>1. PICK k \in 1..n : /\ (k - 1) * Chunk < b
                          /\ k < n => b <= k * Chunk
    <3>1. Chunk \in Nat /\ Chunk >= 1 /\ b \in Nat /\ b >= 1 /\ m * Chunk \in Nat
      <4>1. Chunk \in Nat /\ Chunk >= 1
        BY ChunkFits
      <4> QED
        BY <1>1, <4>1
    <3>2. CASE b <= m * Chunk
      <4>1. PICK k \in 1..m : (k - 1) * Chunk < b /\ b <= k * Chunk
        BY <3>1, <3>2, TileOf
      <4>2. k \in 1..n
        BY <1>1
      <4> QED
        BY <4>1, <4>2
    <3>3. CASE ~(b <= m * Chunk)
      <4>1. n \in 1..n /\ (n - 1) * Chunk < b /\ ~(n < n)
        BY <1>1, <3>1, <3>3
      <4> QED
        BY <4>1
    <3> QED
      BY <3>2, <3>3
  <2>2. PICK at : at = (k - 1) * Chunk
    OBVIOUS
  <2>3. PICK f : f = frames[base + k]
    OBVIOUS
  <2>4. IsCut(f, key, p, k, n) /\ (n - 1) * Chunk <= Len(p)
    BY <1>1, <2>3 DEF Cuts
  <2>5. base + k \in Parts(frames)
    <3>1. base + k \in ip
      BY <1>4
    <3>2. base + k >= base + 1
      BY <1>1
    <3> QED
      BY <1>8, <3>1, <3>2
  <2> HIDE DEF n
  <2>6. /\ at \in Nat /\ f.offset * Scale = at
        /\ at + Len(f.data) = IF k < n THEN at + Chunk ELSE Len(p)
    BY <1>1, <2>2, <2>4, CutBytes
  <2>7. k < n => k * Chunk = at + Chunk
    <3> DEFINE c == Chunk
    <3>1. c \in Nat /\ k \in Nat /\ k - 1 \in Nat
      BY <1>1, ChunkFits
    <3> HIDE DEF c
    <3>2. k * c = (k - 1) * c + c
      BY <3>1
    <3> QED
      BY <2>2, <3>2 DEF c
  <2>8. Covers(f, b)
    BY <1>1, <2>1, <2>2, <2>6, <2>7 DEF Covers
  <2> QED
    BY <2>3, <2>5, <2>8
<1>13. ASSUME NEW b \in 1..Len(p)
       PROVE  LET q == frames[CHOOSE j \in Parts(frames) : Covers(frames[j], b)]
              IN q.data[b - q.offset * Scale] = p[b]
  <2> DEFINE j == CHOOSE j \in Parts(frames) : Covers(frames[j], b)
  <2>1. j \in Parts(frames) /\ Covers(frames[j], b)
    BY <1>12
  <2> HIDE DEF j
  <2>2. frames[j].data[b - frames[j].offset * Scale] = p[b]
    BY <1>11, <2>1
  <2> QED
    BY <2>2 DEF j
<1> DEFINE data == [b \in 1..(last.offset * Scale + Len(last.data)) |->
                      LET q == frames[CHOOSE j \in Parts(frames) : Covers(frames[j], b)]
                      IN q.data[b - q.offset * Scale]]
<1>14. Rebuilt(frames) = [key |-> last.key, data |-> data]
  BY DEF Rebuilt
<1>15. p = [b \in 1..Len(p) |-> p[b]]
  BY ListOf
<1>16. data = p
  <2>1. data = [b \in 1..Len(p) |-> p[b]]
    BY <1>10, <1>13
  <2> QED
    BY <1>15, <2>1
<1> HIDE DEF data
<1> QED
  BY <1>10, <1>14, <1>16

------------------------------------------------------------------------------
(* handleUDP stays silent, or begins to send the promised reply. *)
LEMMA UdpHandled ==
  ASSUME ResultsAreLists, BindInv, phase # "bind", NEW d \in Udp, NEW up,
         up = [key |-> KeyOf[d], data |-> In!Payload(d)], HandleUDP(up)
  PROVE  IF Promise!Silent(d) THEN Caught /\ UNCHANGED <<outVars, client>>
         ELSE /\ Out!Start(Promise!Reply(d).data) /\ IsList(Promise!Reply(d).data)
              /\ phase' = "send" /\ client' = KeyOf[d]
<1>1. d \in Dgram
  BY ServiceAssumption
<1>2. up.key = KeyOf[d] /\ up.data = In!Payload(d)
  OBVIOUS
<1>3. CASE Promise!Silent(d)
  <2>1. Answer(In!Payload(d)) = Raised
    BY <1>1, <1>3, AnswerOf
  <2> QED
    BY <1>2, <1>3, <2>1 DEF HandleUDP
<1>4. CASE ~Promise!Silent(d)
  <2>1. Answer(In!Payload(d)) = Promise!Reply(d).data
    BY <1>1, <1>4, AnswerOf
  <2>2. Answer(In!Payload(d)) # Raised
    BY <1>1, <1>4, AnswerOf
  <2>3. IsList(Promise!Reply(d).data)
    BY <1>1, <1>4, AnswerOf
  <2>4. PICK answer : answer = Answer(up.data)
    OBVIOUS
  <2>5. answer # Raised /\ answer = Promise!Reply(d).data
    BY <1>2, <2>1, <2>2, <2>4
  <2>6. Out!Start(answer) /\ phase' = "send" /\ client' = up.key
    BY <2>4, <2>5 DEF HandleUDP
  <2> QED
    BY <1>2, <1>4, <2>3, <2>5, <2>6
<1> QED
  BY <1>3, <1>4

(* Nothing of it has been sent then. *)
LEMMA SendingStarts ==
  ASSUME NEW p, IsList(p), Out!Start(p), IsList(wire), wire' = wire, \E d \in Dgram : Answered(d)'
  PROVE  SendingInv'
<1>1. payload' = p /\ rest' = p /\ offset' = 0 /\ sent' = <<>>
  BY DEF Out!Start
<1>2. Len(p) \in Nat /\ Len(wire) \in Nat
  BY ListOf
<1>3. Chunk \in Nat /\ Out!nfb \in Nat
  BY ChunkFits, FragmentUnits
<1>4. Len(<<>>) = 0 /\ 0 * Chunk = 0 /\ 0 * Out!nfb = 0 /\ 0 + 1 = 1
  BY <1>3
<1>5. SubSeq(p, 0 * Chunk + 1, Len(p)) = p
  BY <1>4, SliceAll
<1>6. sent' = [k \in 1..Len(sent') |-> CutAt(k)']
  <2>1. 1..Len(sent') = {}
    BY <1>1, <1>4
  <2> QED
    BY <1>1, <2>1
<1>7. \A k \in 1..Len(sent') : FALSE
  BY <1>1, <1>4
<1>8. /\ IsList(payload') /\ Len(sent') * Chunk <= Len(payload')
      /\ offset' = Len(sent') * Out!nfb
      /\ rest' = SubSeq(payload', Len(sent') * Chunk + 1, Len(payload'))
      /\ Len(sent') <= Len(wire')
  BY <1>1, <1>2, <1>4, <1>5
<1> QED
  BY <1>6, <1>7, <1>8 DEF SendingInv, IsList

(* sendFragments sends one packet more. *)
LEMMA SendingGoesOn ==
  ASSUME SendInv, SendingInv, SendPacket, Out!SendMore
  PROVE  SendingInv' /\ phase' = "send" /\ wire' = Append(wire, Packet(CutAt(Len(sent) + 1)))
<1> DEFINE m == Len(sent)
           c == Chunk
           u == Out!nfb
<1>1. /\ phase = "send" /\ sending' = sending /\ payload' = payload /\ client' = client
      /\ arrived' = arrived /\ sending /\ IsList(wire) /\ IsList(sent)
  BY DEF SendPacket, Out!SendMore, SendInv, inVars
<1>2. phase' = "send"
  BY <1>1 DEF SendPacket
<1>3. /\ IsList(payload) /\ m * c <= Len(payload) /\ offset = m * u
      /\ rest = SubSeq(payload, m * c + 1, Len(payload))
      /\ sent = [k \in 1..m |-> CutAt(k)] /\ m <= Len(wire)
      /\ \A k \in 1..m : wire[Len(wire) - m + k] = Packet(CutAt(k))
      /\ \E d \in Dgram : Answered(d)
  BY <1>1 DEF SendingInv
<1>4. /\ m \in Nat /\ c \in Nat /\ c >= 1 /\ u \in Nat /\ Len(payload) \in Nat /\ m * c \in Nat
      /\ (m + 1) * c = m * c + c /\ (m + 1) * u = m * u + u /\ m * u \in Nat
      /\ (m + 1) - 1 = m /\ Len(wire) \in Nat
  <2>1. m \in Nat /\ c \in Nat /\ c >= 1 /\ u \in Nat /\ Len(payload) \in Nat /\ Len(wire) \in Nat
    BY <1>1, <1>3, ListOf, ChunkFits, FragmentUnits
  <2> HIDE DEF m, c, u
  <2> QED
    BY <2>1
<1>5. /\ ~Out!Fits /\ rest' = SubSeq(rest, c + 1, Len(rest)) /\ offset' = offset + u
      /\ sent' = Append(sent, [offset |-> offset, flags |-> 1, data |-> SubSeq(rest, 1, c)])
  BY DEF Out!SendMore, Chunk
<1>6. wire' = Append(wire, Packet(sent'[Len(sent')]))
  BY DEF SendPacket
<1> HIDE DEF m, c, u
<1>7. Len(rest) = Len(payload) - m * c /\ Len(rest) \in Nat
  <2>1. PICK a : a = m * c
    OBVIOUS
  <2>2. a \in Nat /\ a <= Len(payload) /\ rest = SubSeq(payload, a + 1, Len(payload))
    BY <1>3, <1>4, <2>1
  <2>3. PICK n \in Nat : n = Len(payload)
    BY <1>4
  <2>4. IsList(payload)
    BY <1>3
  <2>5. a \in Nat /\ a <= n /\ n <= Len(payload)
    BY <2>2, <2>3
  <2>6. rest = SubSeq(payload, a + 1, n)
    BY <2>2, <2>3
  <2>7. a \in Nat /\ a <= n /\ n <= Len(payload) /\ rest = SubSeq(payload, a + 1, n) /\ IsList(payload)
    BY <2>4, <2>5, <2>6
  <2>8. Len(rest) = n - a
    BY <2>7, SliceIs
  <2>9. n - a \in Nat
    BY <2>7
  <2> QED
    BY <2>1, <2>3, <2>8, <2>9
<1>8. c <= Len(rest)
  <2>1. Len(rest) + IpHeader > Mtu
    BY <1>4, <1>5, <1>7, ServiceAssumption DEF Out!Fits
  <2>2. c + IpHeader <= Mtu
    BY ChunkFits DEF c
  <2> QED
    BY <1>4, <1>7, <2>1, <2>2, ServiceAssumption
<1>9. SubSeq(rest, 1, c) = SubSeq(payload, m * c + 1, (m + 1) * c)
      /\ rest' = SubSeq(payload, (m + 1) * c + 1, Len(payload))
  <2>1. PICK a : a = m * c
    OBVIOUS
  <2>2. PICK n \in Nat : n = Len(payload)
    BY <1>4
  <2>3. PICK l \in Nat : l = Len(rest)
    BY <1>7
  <2>4. a \in Nat /\ rest = SubSeq(payload, a + 1, n) /\ IsList(payload)
    BY <1>3, <1>4, <2>1, <2>2
  <2>5. l = n - a /\ c <= l /\ (m + 1) * c = a + c
    BY <1>4, <1>7, <1>8, <2>1, <2>2, <2>3
  <2>6. c \in Nat /\ 0 \in Nat /\ 0 <= c /\ a + c <= n /\ a + l <= n /\ a + l = n
    BY <1>4, <2>4, <2>5
  <2>7. SubSeq(rest, 0 + 1, c) = SubSeq(payload, (a + 0) + 1, a + c)
    BY <2>2, <2>4, <2>6, SliceSlice
  <2>8. SubSeq(rest, c + 1, l) = SubSeq(payload, (a + c) + 1, a + l)
    BY <2>2, <2>4, <2>5, <2>6, SliceSlice
  <2>9. 0 + 1 = 1 /\ a + 0 = a
    BY <2>4
  <2>10. SubSeq(rest, 1, c) = SubSeq(payload, a + 1, a + c)
    BY <2>7, <2>9
  <2>11. SubSeq(rest, c + 1, l) = SubSeq(payload, (a + c) + 1, n)
    BY <2>6, <2>8
  <2> QED
    BY <1>5, <2>1, <2>2, <2>3, <2>5, <2>10, <2>11
<1>10. [offset |-> offset, flags |-> 1, data |-> SubSeq(rest, 1, c)] = CutAt(m + 1)
  BY <1>3, <1>4, <1>9 DEF CutAt, c, u
<1>11. /\ IsList(sent') /\ Len(sent') = m + 1 /\ sent'[m + 1] = CutAt(m + 1)
       /\ \A k \in 1..m : sent'[k] = CutAt(k)
  <2>1. PICK t : t = sent'
    OBVIOUS
  <2>2. t = Append(sent, CutAt(m + 1))
    BY <1>5, <1>10, <2>1
  <2>3. IsList(t) /\ Len(t) = m + 1 /\ t[m + 1] = CutAt(m + 1) /\ \A k \in 1..m : t[k] = sent[k]
    <3>1. /\ IsList(t) /\ Len(t) = Len(sent) + 1 /\ t[Len(t)] = CutAt(m + 1)
          /\ \A k \in 1..Len(sent) : t[k] = sent[k]
      BY <1>1, <2>2, ListAppend
    <3> QED
      BY <3>1 DEF m
  <2>4. \A k \in 1..m : sent[k] = CutAt(k)
    BY <1>3
  <2> QED
    BY <2>1, <2>3, <2>4
<1>12. \A k : CutAt(k)' = CutAt(k) /\ Packet(CutAt(k))' = Packet(CutAt(k))
  BY <1>1 DEF CutAt, Packet
<1>13. sent' = [k \in 1..Len(sent') |-> CutAt(k)']
  <2>1. sent' = [k \in 1..(m + 1) |-> sent'[k]]
    BY <1>11, ListOf
  <2>2. ASSUME NEW k \in 1..(m + 1) PROVE sent'[k] = CutAt(k)
    <3>1. k \in 1..m \/ k = m + 1
      BY <1>4
    <3> QED
      BY <1>11, <3>1
  <2> QED
    BY <1>11, <1>12, <2>1, <2>2
<1>14. wire' = Append(wire, Packet(CutAt(m + 1)))
  BY <1>6, <1>11
<1>15. /\ Len(wire') = Len(wire) + 1 /\ wire'[Len(wire) + 1] = Packet(CutAt(m + 1))
       /\ \A k \in 1..Len(wire) : wire'[k] = wire[k]
  <2>1. PICK t : t = wire'
    OBVIOUS
  <2>2. PICK f : f = Packet(CutAt(m + 1))
    OBVIOUS
  <2>3. t = Append(wire, f)
    BY <1>14, <2>1, <2>2
  <2>4. Len(t) = Len(wire) + 1 /\ t[Len(t)] = f /\ \A k \in 1..Len(wire) : t[k] = wire[k]
    BY <1>1, <2>3, ListAppend
  <2> QED
    BY <2>1, <2>2, <2>4
<1>16. ASSUME NEW k \in 1..(m + 1)
       PROVE  wire'[Len(wire') - Len(sent') + k] = Packet(CutAt(k))
  <2>1. Len(wire') - Len(sent') + k = Len(wire) - m + k
    BY <1>4, <1>11, <1>15
  <2>2. CASE k \in 1..m
    <3>1. Len(wire) - m + k \in 1..Len(wire)
      BY <1>3, <1>4, <2>2
    <3> QED
      BY <1>3, <1>15, <2>1, <2>2, <3>1
  <2>3. CASE k = m + 1
    <3>1. Len(wire) - m + k = Len(wire) + 1
      BY <1>4, <2>3
    <3> QED
      BY <1>15, <2>1, <2>3, <3>1
  <2>4. k \in 1..m \/ k = m + 1
    BY <1>4
  <2> QED
    BY <2>2, <2>3, <2>4
<1>17. \E d \in Dgram : Answered(d)'
  BY <1>1, <1>3 DEF Answered
<1>18. Len(sent') <= Len(wire')
  BY <1>3, <1>4, <1>11, <1>15
<1>19. \A k \in 1..Len(sent') : wire'[Len(wire') - Len(sent') + k] = Packet(CutAt(k))'
  BY <1>11, <1>12, <1>16
<1>20. /\ IsList(payload') /\ Len(sent') * Chunk <= Len(payload')
       /\ offset' = Len(sent') * Out!nfb
       /\ rest' = SubSeq(payload', Len(sent') * Chunk + 1, Len(payload'))
  <2>1. (m + 1) * c <= Len(payload)
    BY <1>4, <1>7, <1>8
  <2> QED
    BY <1>1, <1>3, <1>4, <1>5, <1>9, <1>11, <2>1 DEF c, u
<1>21. SendingInv'
  BY <1>13, <1>17, <1>18, <1>19, <1>20 DEF SendingInv, IsList
<1> QED
  BY <1>2, <1>14, <1>21 DEF m

------------------------------------------------------------------------------
(* What UdpService calls pending, as Service has it. *)
Pending == {d \in Dgram : arrived[d] < In!Fragments(d)}
             \union {d \in Dgram : phase = "send" /\ client = KeyOf[d]}

PromiseStep == Promise!Next \/ (Replies' = Replies /\ Pending' = Pending)

(* With its last packet an answer is there, as promised. *)
LEMMA SendingEnds ==
  ASSUME SendInv, SendingInv, SendPacket, Out!SendLast
  PROVE  /\ phase' # "send" /\ phase' # "bind"
         /\ \E d \in Dgram : Answered(d) /\ Rebuilt(wire') = Promise!Reply(d)
         /\ \E f : wire' = Append(wire, f) /\ f.et = "IPv4" /\ f.flags = 0
<1> DEFINE m == Len(sent)
           p == payload
<1>1. phase = "send" /\ sending' = FALSE /\ IsList(wire) /\ IsList(sent)
  BY DEF SendPacket, Out!SendLast, SendInv
<1>2. phase' # "send" /\ phase' # "bind"
  BY <1>1 DEF SendPacket, Again
<1>3. /\ IsList(p) /\ m * Chunk <= Len(p) /\ offset = m * Out!nfb
      /\ rest = SubSeq(p, m * Chunk + 1, Len(p)) /\ m <= Len(wire)
      /\ \A k \in 1..m : wire[Len(wire) - m + k] = Packet(CutAt(k))
  BY <1>1 DEF SendingInv
<1>4. PICK d \in Dgram : Answered(d)
  BY <1>1 DEF SendingInv
<1>5. m \in Nat /\ Len(wire) \in Nat
  BY <1>1, ListOf
<1> DEFINE cut == [offset |-> offset, flags |-> 0, data |-> rest]
           f == Packet(cut)
           base == Len(wire) - m
<1>6. wire' = Append(wire, f)
  <2>1. PICK t : t = sent'
    OBVIOUS
  <2>2. t = Append(sent, cut)
    BY <2>1 DEF Out!SendLast
  <2> HIDE DEF cut
  <2>3. t[Len(t)] = cut
    BY <1>1, <2>2, ListAppend
  <2>4. wire' = Append(wire, Packet(sent'[Len(sent')]))
    BY DEF SendPacket
  <2> QED
    BY <2>1, <2>3, <2>4
<1>7. f.et = "IPv4" /\ f.flags = 0 /\ f.key = client /\ f.offset = m * Out!nfb /\ f.data = rest
  BY <1>3 DEF Packet
<1> HIDE DEF m, f, p
<1>8. /\ IsList(wire') /\ Len(wire') = Len(wire) + 1 /\ wire'[Len(wire) + 1] = f
      /\ \A k \in 1..Len(wire) : wire'[k] = wire[k]
  <2>1. PICK t : t = wire'
    OBVIOUS
  <2>2. t = Append(wire, f)
    BY <1>6, <2>1
  <2>3. IsList(t) /\ Len(t) = Len(wire) + 1 /\ t[Len(t)] = f /\ \A k \in 1..Len(wire) : t[k] = wire[k]
    BY <1>1, <2>2, ListAppend
  <2> QED
    BY <2>1, <2>3
<1>9. base \in Nat /\ Len(wire') = base + m + 1
  BY <1>3, <1>5, <1>8
<1>10. ASSUME NEW k \in 1..(m + 1)
       PROVE  IsCut(wire'[base + k], client, p, k, m + 1)
  <2>1. CASE k \in 1..m
    <3>1. base + k \in 1..Len(wire) /\ k < m + 1
      BY <1>3, <1>5, <2>1
    <3>2. wire'[base + k] = Packet(CutAt(k))
      BY <1>3, <1>8, <2>1, <3>1
    <3>3. IsCut(Packet(CutAt(k)), client, p, k, m + 1)
      BY <3>1 DEF IsCut, Packet, CutAt, p
    <3> QED
      BY <3>2, <3>3
  <2>2. CASE k = m + 1
    <3>1. base + k = Len(wire) + 1 /\ k - 1 = m /\ ~(k < m + 1)
      BY <1>5, <2>2
    <3>2. IsCut(f, client, p, k, m + 1)
      BY <1>3, <1>7, <3>1 DEF IsCut
    <3> QED
      BY <1>8, <3>1, <3>2
  <2>3. k \in 1..m \/ k = m + 1
    BY <1>5
  <2> QED
    BY <2>1, <2>2, <2>3
<1>11. Rebuilt(wire') = [key |-> client, data |-> p]
  <2>1. PICK t : t = wire'
    OBVIOUS
  <2> HIDE DEF base
  <2>2. PICK b : b = base
    OBVIOUS
  <2>3. Cuts(t, b, client, p, m + 1)
    BY <1>10, <2>1, <2>2 DEF Cuts
  <2>4. IsList(t) /\ Len(t) = b + m + 1 /\ b \in Nat
    BY <1>8, <1>9, <2>1, <2>2
  <2>5. IsList(p) /\ m \in Nat /\ m * Chunk <= Len(p)
    BY <1>3, <1>5
  <2>6. Rebuilt(t) = [key |-> client, data |-> p]
    BY <2>3, <2>4, <2>5, RebuiltWhole
  <2> QED
    BY <2>1, <2>6
<1>12. Promise!Reply(d) = [key |-> client, data |-> p]
  <2>1. client = KeyOf[d] /\ p = Promise!Reply(d).data
    BY <1>4 DEF Answered, p
  <2>2. Promise!Reply(d) = [key |-> KeyOf[d], data |-> Promise!Reply(d).data]
    BY DEF Promise!Reply
  <2> QED
    BY <2>1, <2>2, Zenon
<1> QED
  BY <1>2, <1>4, <1>6, <1>7, <1>11, <1>12

(* A frame that is not part of an answer, or none, changes no reply. *)
LEMMA RepliesStay ==
  ASSUME wire' = wire, RankInv
  PROVE  Replies' = Replies /\ RankInv'
<1>1. Lasts' = Lasts
  BY DEF Lasts, Datagrams
<1>2. \A k : Rank(k)' = Rank(k)
  BY <1>1 DEF Rank
<1>3. \A i : EndOf(i)' = EndOf(i)
  BY <1>1, <1>2 DEF EndOf
<1>4. Replies' = Replies
  BY <1>1, <1>3 DEF Replies
<1>5. RankInv'
  BY <1>1, <1>2 DEF RankInv
<1> QED
  BY <1>4, <1>5

(* Steps that touch neither the datagrams nor the answers. *)
LEMMA PromiseIdle ==
  ASSUME PromiseInv, UNCHANGED <<inVars, client>>, phase # "send", phase' # "send",
         wire' = wire \/ (IsList(wire) /\ \E f : wire' = Append(wire, f) /\ f.et # "IPv4"),
         BindInv'
  PROVE  PromiseInv' /\ PromiseStep
<1>1. Replies' = Replies /\ RankInv'
  <2>1. CASE wire' = wire
    BY <2>1, RepliesStay DEF PromiseInv
  <2>2. ASSUME IsList(wire), NEW f, wire' = Append(wire, f), f.et # "IPv4"
        PROVE  Replies' = Replies /\ RankInv'
    <3>1. RankInv
      BY DEF PromiseInv
    <3>2. RankInv'
      BY <2>2, <3>1, RepliesGrow
    <3>3. Replies' = Replies
      BY <2>2, <3>1, RepliesGrow
    <3> QED
      BY <3>2, <3>3
  <2> QED
    BY <2>1, <2>2
<1>2. Pending' = Pending
  BY DEF Pending, inVars
<1>3. SerialInv'
  <2>1. SerialInv /\ UNCHANGED <<fragmentBuffer, assemblingList, out, arrived>>
    BY DEF PromiseInv, inVars
  <2> QED
    BY <2>1 DEF SerialInv, IsList, Names, UnderWay
<1>4. SendingInv'
  BY DEF SendingInv
<1> QED
  BY <1>1, <1>2, <1>3, <1>4 DEF PromiseInv, PromiseStep

------------------------------------------------------------------------------
(* One step, of each kind. *)
LEMMA BindPromises ==
  ASSUME SendInv, PromiseInv, Bind \/ Listen
  PROVE  PromiseInv' /\ PromiseStep
<1>1. /\ UNCHANGED <<inVars, client>> /\ phase = "bind" /\ phase' # "send" /\ wire' = wire
  BY DEF Bind, Listen
<1>2. BindInv'
  <2>1. CASE Listen
    <3>1. listenOn' = listenOn /\ Len(listenOn) = Len(Bindings)
      BY <2>1 DEF Listen
    <3> QED
      BY <3>1 DEF PromiseInv, BindInv
  <2>2. CASE Bind
    <3> DEFINE n == Len(listenOn)
               e == Bindings[n + 1]
    <3>1. /\ n \in Nat /\ n < Len(Bindings) /\ phase' = "bind" /\ Len(Bindings) \in Nat
          /\ listenOn = [k \in 1..n |-> Bindings[n + 1 - k]]
      BY <2>2, ServiceAssumption DEF Bind, PromiseInv, BindInv
    <3>2. PICK t : t = listenOn'
      OBVIOUS
    <3>3. t = <<e>> \o listenOn
      BY <2>2, <3>2 DEF Bind
    <3>4. listenOn = [k \in 1..n |-> listenOn[k]] /\ \A k \in 1..n : listenOn[k] = Bindings[n + 1 - k]
      BY <3>1
    <3> HIDE DEF e
    <3>5. IsList(listenOn)
      <4> HIDE DEF n
      <4> QED
        BY <3>1, <3>4, ListFunction
    <3>6. IsList(t)
      BY <3>3, <3>5, ListCons
    <3>7. Len(t) = n + 1
      BY <3>3, <3>5, ListCons
    <3>8. t[1] = e
      BY <3>3, <3>5, ListCons
    <3>9. \A k \in 1..n : t[k + 1] = listenOn[k]
      BY <3>3, <3>5, ListCons
    <3> HIDE DEF n
    <3>10. t = [k \in 1..(n + 1) |-> t[k]]
      BY <3>6, <3>7, ListOf
    <3>11. ASSUME NEW k \in 1..(n + 1) PROVE t[k] = Bindings[(n + 1) + 1 - k]
      <4>1. CASE k = 1
        <5>1. (n + 1) + 1 - k = n + 1
          BY <3>1, <4>1
        <5> QED
          BY <3>8, <4>1, <5>1 DEF e
      <4>2. CASE k # 1
        <5>1. k - 1 \in 1..n /\ (k - 1) + 1 = k /\ n + 1 - (k - 1) = (n + 1) + 1 - k
          BY <3>1, <4>2
        <5>2. t[k] = listenOn[k - 1]
          BY <3>9, <5>1
        <5> QED
          BY <3>4, <5>1, <5>2
      <4> QED
        BY <4>1, <4>2
    <3>12. t = [k \in 1..(n + 1) |-> Bindings[(n + 1) + 1 - k]]
      BY <3>10, <3>11
    <3>13. n + 1 \in 0..Len(Bindings)
      BY <3>1
    <3> QED
      BY <3>1, <3>2, <3>7, <3>12, <3>13 DEF BindInv
  <2> QED
    BY <2>1, <2>2
<1> QED
  BY <1>1, <1>2, PromiseIdle

(* Frames that are not IPv4. *)
LEMMA OtherPromises ==
  ASSUME SendInv, PromiseInv, NEW f, HandleArp(f) \/ Ignore(f) \/ Reject(f)
  PROVE  PromiseInv' /\ PromiseStep
<1>1. /\ UNCHANGED <<inVars, client, listenOn>> /\ phase = "listen"
      /\ Again \/ Caught
  BY DEF HandleArp, Ignore, Reject, Receive
<1>2. phase' # "send" /\ phase' # "bind"
  BY <1>1 DEF Again, Caught
<1>3. wire' = wire \/ (IsList(wire) /\ \E g : wire' = Append(wire, g) /\ g.et # "IPv4")
  <2>1. CASE HandleArp(f)
    <3> DEFINE g == [et |-> "ARP", dst |-> f.dstMac, oper |-> "Reply",
                     sha |-> Mac, tha |-> f.sha, tpa |-> f.spa \o <<0, 0>>]
    <3>1. wire' = Append(wire, g)
      BY <2>1 DEF HandleArp
    <3>2. g.et # "IPv4"
      OBVIOUS
    <3>3. IsList(wire)
      BY DEF SendInv
    <3> QED
      BY <3>1, <3>2, <3>3
  <2>2. CASE Ignore(f) \/ Reject(f)
    BY <2>2 DEF Ignore, Reject
  <2> QED
    BY <2>1, <2>2
<1>4. BindInv'
  <2>1. BindInv /\ phase # "bind"
    BY <1>1 DEF PromiseInv
  <2> QED
    BY <1>1, <1>2, <2>1 DEF BindInv
<1> QED
  BY <1>1, <1>2, <1>3, <1>4, PromiseIdle

(* A packet of an answer. *)
LEMMA PacketPromises ==
  ASSUME KeysDiffer, SendInv, PromiseInv, SendPacket
  PROVE  PromiseInv' /\ PromiseStep
<1>1. /\ UNCHANGED <<inVars, client, listenOn>> /\ phase = "send" /\ IsList(wire)
      /\ BindInv /\ SerialInv /\ SendingInv /\ RankInv
  BY DEF SendPacket, PromiseInv, SendInv
<1>2. SerialInv'
  <2>1. UNCHANGED <<fragmentBuffer, assemblingList, out, arrived>>
    BY <1>1 DEF inVars
  <2> QED
    BY <1>1, <2>1, SMTT(30) DEF SerialInv, IsList, Names, UnderWay
<1>3. phase' # "bind"
  BY <1>1 DEF SendPacket, Again
<1>4. BindInv'
  BY <1>1, <1>3 DEF BindInv
<1>5. arrived' = arrived
  BY <1>1 DEF inVars
<1>6. CASE Out!SendMore
  <2>1. SendingInv' /\ phase' = "send" /\ wire' = Append(wire, Packet(CutAt(Len(sent) + 1)))
    BY <1>1, <1>6, SendingGoesOn
  <2>2. PICK f : f = Packet(CutAt(Len(sent) + 1))
    OBVIOUS
  <2>3. f.flags = 1
    BY <2>2 DEF Packet, CutAt
  <2>4. wire' = Append(wire, f) /\ ~(f.et = "IPv4" /\ f.flags = 0)
    BY <2>1, <2>2, <2>3
  <2>5. RankInv'
    BY <1>1, <2>4, RepliesGrow
  <2>6. Replies' = Replies
    BY <1>1, <2>4, RepliesGrow
  <2>7. Pending' = Pending
    BY <1>1, <1>5, <2>1 DEF Pending
  <2> QED
    BY <1>2, <1>4, <2>1, <2>5, <2>6, <2>7 DEF PromiseInv, PromiseStep
<1>7. CASE Out!SendLast
  <2>1. phase' # "send"
    BY <1>1, <1>7, SendingEnds
  <2>2. PICK d \in Dgram : Answered(d) /\ Rebuilt(wire') = Promise!Reply(d)
    BY <1>1, <1>7, SendingEnds
  <2>3. PICK f : wire' = Append(wire, f) /\ f.et = "IPv4" /\ f.flags = 0
    BY <1>1, <1>7, SendingEnds
  <2>4. RankInv'
    BY <1>1, <2>3, RepliesGrow
  <2>5. Replies' = Append(Replies, Rebuilt(wire'))
    BY <1>1, <2>3, RepliesGrow
  <2>6. SendingInv'
    BY <2>1 DEF SendingInv
  <2>7. arrived[d] = In!Fragments(d) /\ client = KeyOf[d] /\ ~Promise!Silent(d)
    BY <2>2 DEF Answered
  <2>8. ~(arrived[d] < In!Fragments(d))
    BY <2>7, FragmentTiles
  <2>9. d \in Pending
    BY <1>1, <2>7 DEF Pending
  <2>10. Pending' = Pending \ {d}
    <3>1. \A e \in Dgram : client = KeyOf[e] <=> e = d
      BY <2>7 DEF KeysDiffer
    <3>2. Pending' = {e \in Dgram : arrived[e] < In!Fragments(e)}
      BY <1>5, <2>1 DEF Pending
    <3>3. Pending = {e \in Dgram : arrived[e] < In!Fragments(e)} \union {d}
      BY <1>1, <3>1 DEF Pending
    <3> QED
      BY <2>8, <3>2, <3>3
  <2>11. Promise!Answer(d)
    BY <2>2, <2>5, <2>7, <2>9, <2>10 DEF Promise!Answer, Pending
  <2> QED
    BY <1>2, <1>4, <2>4, <2>6, <2>11 DEF PromiseInv, PromiseStep, Promise!Next
<1> QED
  BY <1>6, <1>7 DEF SendPacket

(* A packet of a datagram. *)
LEMMA ArrivalPromises ==
  ASSUME Network = "serial", KeysDiffer, ResultsAreLists, SendInv, PromiseInv,
         NEW d \in Dgram, NEW i \in 1..In!Fragments(d), HandleIPv4(d, i)
  PROVE  PromiseInv' /\ PromiseStep
<1>1. /\ phase = "listen" /\ In!Arrive(d, i) /\ UNCHANGED <<listenOn, wire, heard>>
      /\ IsList(wire) /\ BindInv /\ SerialInv /\ RankInv
  BY DEF HandleIPv4, PromiseInv, SendInv
<1>2. Handled(d, i) /\ i = arrived[d] + 1 /\ arrived' = [arrived EXCEPT ![d] = i] /\ SerialInv'
  BY <1>1, Arrival
<1>3. Replies' = Replies /\ RankInv'
  BY <1>1, RepliesStay
<1>4. /\ In!Fragments(d) \in Nat /\ i \in Nat /\ (i < In!Fragments(d) \/ i = In!Fragments(d))
      /\ arrived[d] \in Nat
  BY FragmentTiles, <1>1 DEF SerialInv
<1>5. arrived'[d] = i /\ \A e \in Dgram : e # d => arrived'[e] = arrived[e]
  BY <1>1, <1>2 DEF SerialInv
<1>6. Pending = {e \in Dgram : arrived[e] < In!Fragments(e)}
  BY <1>1 DEF Pending
<1>7. d \in Pending
  <2>1. arrived[d] < In!Fragments(d)
    BY <1>2, <1>4
  <2> QED
    BY <1>6, <2>1
<1>8. ASSUME Again \/ (Caught /\ UNCHANGED <<outVars, client>>)
      PROVE  SendingInv' /\ BindInv' /\ phase' # "send"
  <2>1. phase' # "send" /\ phase' # "bind"
    BY <1>1, <1>8 DEF Again, Caught
  <2> QED
    BY <1>1, <2>1 DEF SendingInv, BindInv
<1>9. CASE i < In!Fragments(d)
  <2>1. out' = out /\ ~Raises(In!Packet(d, i))
    BY <1>2, <1>9 DEF Handled
  <2>2. Again
    BY <2>1 DEF HandleIPv4
  <2>3. SendingInv' /\ BindInv' /\ phase' # "send"
    BY <1>8, <2>2
  <2>4. Pending' = Pending
    <3>1. Pending' = {e \in Dgram : arrived'[e] < In!Fragments(e)}
      BY <2>3 DEF Pending
    <3>2. \A e \in Dgram : arrived'[e] < In!Fragments(e) <=> arrived[e] < In!Fragments(e)
      BY <1>2, <1>4, <1>5, <1>9
    <3> QED
      BY <1>6, <3>1, <3>2
  <2> QED
    BY <1>2, <1>3, <2>3, <2>4 DEF PromiseInv, PromiseStep
<1>10. CASE i = In!Fragments(d)
  <2> DEFINE up == [key |-> KeyOf[d], data |-> In!Payload(d)]
  <2>1. out' = Append(out, up) /\ ~Raises(In!Packet(d, i))
    BY <1>2, <1>10 DEF Handled
  <2> HIDE DEF up
  <2>2. out' # out /\ out'[Len(out')] = up
    <3>1. PICK t : t = out'
      OBVIOUS
    <3>2. IsList(out) /\ t = Append(out, up)
      BY <1>1, <2>1, <3>1 DEF SerialInv
    <3>3. t[Len(t)] = up /\ Len(t) = Len(out) + 1 /\ Len(out) \in Nat
      BY <3>2, ListAppend
    <3> QED
      BY <3>1, <3>3
  <2>3. IsUdp(KeyOf[d]) <=> d \in Udp
    BY ServiceAssumption DEF IsUdp, KeysDiffer
  <2>4. {e \in Dgram : arrived'[e] < In!Fragments(e)} = Pending \ {d}
    <3>1. \A e \in Dgram : arrived'[e] < In!Fragments(e) <=> (e # d /\ arrived[e] < In!Fragments(e))
      BY <1>4, <1>5, <1>10
    <3> QED
      BY <1>6, <3>1
  <2>5. ASSUME Again \/ (Caught /\ UNCHANGED <<outVars, client>>), Promise!Silent(d)
        PROVE  PromiseInv' /\ PromiseStep
    <3>1. SendingInv' /\ BindInv' /\ phase' # "send"
      BY <1>8, <2>5
    <3>2. Pending' = Pending \ {d}
      BY <2>4, <3>1 DEF Pending
    <3>3. Promise!Answer(d)
      BY <1>3, <1>7, <2>5, <3>2 DEF Promise!Answer, Pending
    <3> QED
      BY <1>2, <1>3, <3>1, <3>3 DEF PromiseInv, PromiseStep, Promise!Next
  <2>6. CASE d \notin Udp
    <3>1. Again
      BY <2>1, <2>2, <2>3, <2>6 DEF HandleIPv4
    <3>2. Promise!Silent(d)
      BY <2>6 DEF Promise!Silent
    <3> QED
      BY <2>5, <3>1, <3>2
  <2>7. CASE d \in Udp
    <3>1. HandleUDP(up)
      BY <2>1, <2>2, <2>3, <2>7 DEF HandleIPv4
    <3>2. BindInv /\ phase # "bind" /\ up = [key |-> KeyOf[d], data |-> In!Payload(d)]
      BY <1>1 DEF up
    <3>3. IF Promise!Silent(d) THEN Caught /\ UNCHANGED <<outVars, client>>
          ELSE /\ Out!Start(Promise!Reply(d).data) /\ IsList(Promise!Reply(d).data)
               /\ phase' = "send" /\ client' = KeyOf[d]
      BY <2>7, <3>1, <3>2, UdpHandled
    <3>4. CASE Promise!Silent(d)
      BY <2>5, <3>3, <3>4
    <3>5. CASE ~Promise!Silent(d)
      <4>1. PICK p : p = Promise!Reply(d).data
        OBVIOUS
      <4>2. Out!Start(p) /\ IsList(p) /\ phase' = "send" /\ client' = KeyOf[d]
        BY <3>3, <3>5, <4>1
      <4>3. payload' = p
        BY <4>2 DEF Out!Start
      <4>4. Answered(d)'
        BY <1>5, <1>10, <3>5, <4>1, <4>2, <4>3 DEF Answered
      <4>5. SendingInv'
        BY <1>1, <4>2, <4>4, SendingStarts
      <4>6. BindInv'
        BY <1>1, <4>2 DEF BindInv
      <4>7. Pending' = Pending
        <5>1. \A e \in Dgram : client' = KeyOf[e] <=> e = d
          BY <4>2 DEF KeysDiffer
        <5>2. Pending' = (Pending \ {d}) \union {d}
          BY <2>4, <4>2, <5>1 DEF Pending
        <5> QED
          BY <1>7, <5>2
      <4> QED
        BY <1>2, <1>3, <4>5, <4>6, <4>7 DEF PromiseInv, PromiseStep
    <3> QED
      BY <3>4, <3>5
  <2> QED
    BY <2>6, <2>7
<1> QED
  BY <1>4, <1>9, <1>10

------------------------------------------------------------------------------
(* Every step keeps the invariant, and answers a datagram as promised or   *)
(* changes neither what is answered nor what is pending.                   *)
LEMMA PromiseInductive ==
  ASSUME Network = "serial", KeysDiffer, ResultsAreLists
  PROVE  SendInv /\ PromiseInv /\ [Next]_vars => PromiseInv' /\ PromiseStep
<1> SUFFICES ASSUME SendInv, PromiseInv, [Next]_vars
             PROVE  PromiseInv' /\ PromiseStep
  OBVIOUS
<1>1. CASE Bind \/ Listen
  BY <1>1, BindPromises
<1>2. CASE SendPacket
  BY <1>2, PacketPromises
<1>3. ASSUME NEW f \in Others, HandleArp(f) \/ Ignore(f) \/ Reject(f)
      PROVE  PromiseInv' /\ PromiseStep
  BY <1>3, OtherPromises
<1>4. ASSUME NEW d \in Dgram, NEW i \in 1..In!Fragments(d), HandleIPv4(d, i)
      PROVE  PromiseInv' /\ PromiseStep
  BY <1>4, ArrivalPromises
<1>5. CASE UNCHANGED vars
  <2>1. /\ UNCHANGED <<fragmentBuffer, assemblingList, out, arrived, payload, rest, offset,
                       sending, sent, listenOn, phase, client, wire>>
    BY <1>5 DEF vars, inVars, outVars
  <2>2. BindInv'
    BY <2>1 DEF PromiseInv, BindInv
  <2>3. SerialInv'
    BY <2>1, SMTT(30) DEF PromiseInv, SerialInv, IsList, Names, UnderWay
  <2>4. SendingInv'
    <3>1. \A k : CutAt(k)' = CutAt(k) /\ Packet(CutAt(k))' = Packet(CutAt(k))
      BY <2>1 DEF CutAt, Packet
    <3>2. \A d : Answered(d)' <=> Answered(d)
      BY <2>1 DEF Answered
    <3>3. sent = [k \in 1..Len(sent) |-> CutAt(k)] => sent' = [k \in 1..Len(sent') |-> CutAt(k)']
      BY <2>1, <3>1
    <3> QED
      BY <2>1, <3>1, <3>2, <3>3 DEF PromiseInv, SendingInv, IsList
  <2>5. RankInv' /\ Replies' = Replies
    BY <2>1, RepliesStay DEF PromiseInv
  <2>6. Pending' = Pending
    BY <2>1 DEF Pending
  <2> QED
    BY <2>2, <2>3, <2>4, <2>5, <2>6 DEF PromiseInv, PromiseStep
<1> QED
  BY <1>1, <1>2, <1>3, <1>4, <1>5 DEF Next

(* Before the program has bound its ports. *)
LEMMA PromiseStarts ==
  Init => PromiseInv /\ Promise!Init
<1> SUFFICES ASSUME Init PROVE PromiseInv /\ Promise!Init
  OBVIOUS
<1>1. /\ fragmentBuffer = <<>> /\ assemblingList = <<>> /\ out = <<>>
      /\ arrived = [d \in Dgram |-> 0] /\ listenOn = <<>> /\ phase = "bind" /\ wire = <<>>
  BY DEF Init, In!Init
<1>2. IsList(<<>>) /\ Len(<<>>) = 0
  BY DEF IsList
<1>3. BindInv
  <2>1. Len(Bindings) \in Nat
    BY ServiceAssumption
  <2>2. listenOn = [k \in 1..Len(listenOn) |-> Bindings[Len(listenOn) + 1 - k]]
    BY <1>1, <1>2
  <2> QED
    BY <1>1, <1>2, <2>1, <2>2 DEF BindInv
<1>4. \A d \in Dgram : arrived[d] = 0 /\ In!Fragments(d) \in Nat /\ In!Fragments(d) >= 1
  BY <1>1, FragmentTiles
<1>5. SerialInv
  <2>1. \A key : ~Names(fragmentBuffer, key) /\ ~Names(assemblingList, key)
    BY <1>1, <1>2 DEF Names
  <2>2. \A d \in Dgram : ~UnderWay(d) /\ arrived[d] <= In!Fragments(d)
    BY <1>4 DEF UnderWay
  <2>3. arrived \in [Dgram -> Nat]
    BY <1>1
  <2> QED
    BY <1>1, <1>2, <2>1, <2>2, <2>3 DEF SerialInv
<1>6. SendingInv
  BY <1>1 DEF SendingInv
<1>7. Lasts = {}
  <2>1. DOMAIN wire = {}
    BY <1>1
  <2> QED
    BY <2>1 DEF Lasts, Datagrams
<1>8. Cardinality(Lasts) = 0
  BY <1>7, FS_EmptySet
<1>9. RankInv
  BY <1>8 DEF RankInv
<1>10. Replies = <<>>
  <2>1. 1..Cardinality(Lasts) = {}
    BY <1>8
  <2> QED
    BY <2>1 DEF Replies
<1>11. Pending = Dgram
  BY <1>1, <1>4 DEF Pending
<1> QED
  BY <1>3, <1>5, <1>6, <1>9, <1>10, <1>11 DEF PromiseInv, Promise!Init, Pending

(* handleUDP and ipv4Send keep the promise of UdpService, for every        *)
(* program, MTU, datagrams and other frames: when requests come one after  *)
(* the other, each is answered once, whole and as the callback bound last  *)
(* to its port says, or not at all where the callback raises.              *)
THEOREM PromiseKept ==
  ASSUME Network = "serial", KeysDiffer, ResultsAreLists
  PROVE  Spec => PromiseSpec
<1>1. Init => SendInv /\ PromiseInv /\ Promise!Init
  BY PromiseStarts, InitSends
<1>2. SendInv /\ PromiseInv /\ [Next]_vars => SendInv' /\ PromiseInv'
  BY PromiseInductive, SendInductive
<1>3. SendInv /\ PromiseInv /\ [Next]_vars => [Promise!Next]_<<Replies, Pending>>
  BY PromiseInductive DEF PromiseStep
<1>4. SendInv /\ PromiseInv /\ [Next]_vars
        => [Promise!Next]_<<Replies, {d \in Dgram : arrived[d] < In!Fragments(d)}
                                       \union {d \in Dgram : phase = "send" /\ client = KeyOf[d]}>>
  BY <1>3 DEF Pending
<1> QED
  BY <1>1, <1>2, <1>4, PTL DEF Spec, PromiseSpec, Promise!Spec
=============================================================================
