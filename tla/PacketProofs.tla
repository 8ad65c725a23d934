----------------------------- MODULE PacketProofs -----------------------------
(***************************************************************************)
(* Proofs about a packet's way out of the program: ipv4Send, for every     *)
(* MTU, header size, unit and width of the fragment offset, and every      *)
(* payload that the offset field can reach; and the buffers of the tap     *)
(* device, for every size of them.                                         *)
(***************************************************************************)
EXTENDS Fragmentation, TapDevice, SequenceTheorems, TLAPS

------------------------------------------------------------------------------
(* The inductive invariant. *)

PacketType == [offset : Nat, flags : {0, 1}, data : Seq(Nat)]

TypeInv ==
  /\ payload \in Seq(Nat) /\ rest \in Seq(Nat)
  /\ Len(payload) <= OffsetLimit * Unit
  /\ offset \in Nat /\ sending \in BOOLEAN
  /\ sent \in Seq(PacketType)

(* rest is what begins at the offset, and is empty only for an empty       *)
(* payload: otherwise a packet would begin where the offset field may end. *)
RestInv ==
  sending =>
    /\ offset * Unit + Len(rest) = Len(payload)
    /\ \A i \in 1..Len(rest) : rest[i] = payload[offset * Unit + i]
    /\ Len(rest) = 0 => offset = 0

(* Where the packet k ends. *)
EndOf(k) == sent[k].offset * Unit + Len(sent[k].data)

(* The packets lie end to end, up to the offset or the end of the payload. *)
SentInv ==
  /\ \A k \in 1..Len(sent) :
       /\ Len(sent[k].data) + IpHeader <= Mtu
       /\ sent[k].offset < OffsetLimit
       /\ \A i \in 1..Len(sent[k].data) :
            sent[k].data[i] = payload[sent[k].offset * Unit + i]
       /\ k < Len(sent) => /\ sent[k].flags = 1
                           /\ sent[k + 1].offset * Unit = EndOf(k)
  /\ Len(sent) > 0 =>
       /\ sent[1].offset = 0
       /\ IF sending
          THEN sent[Len(sent)].flags = 1 /\ EndOf(Len(sent)) = offset * Unit
          ELSE sent[Len(sent)].flags = 0 /\ EndOf(Len(sent)) = Len(payload)
  /\ sending /\ Len(sent) = 0 => offset = 0

FragmentInv == TypeInv /\ RestInv /\ SentInv

------------------------------------------------------------------------------
(* The size of a fragment, of nfb units: at least one unit, and it fits.   *)
LEMMA FragmentSize ==
  /\ nfb \in Nat /\ nfb >= 1
  /\ nfb * Unit \in Nat /\ nfb * Unit >= 1 /\ nfb * Unit + IpHeader <= Mtu
<1> DEFINE room == Mtu - IpHeader
<1>1. room \in Nat /\ room >= Unit /\ Unit \in Nat /\ Unit >= 1
  BY FragmentationAssumption
<1> HIDE DEF room
<1>2. room \div Unit \in Nat /\ room \div Unit >= 1 /\ (room \div Unit) * Unit <= room
  BY <1>1
<1>3. nfb = room \div Unit
  BY DEF nfb, room
<1>4. nfb * Unit >= 1 /\ nfb * Unit \in Nat
  BY <1>1, <1>2, <1>3
<1> QED
  BY <1>2, <1>3, <1>4, FragmentationAssumption DEF room

(* A packet whose data begin inside a payload that respects the offset     *)
(* field has an offset that the field holds.                               *)
LEMMA OffsetInField ==
  ASSUME NEW o \in Nat, NEW l \in Nat, o * Unit < l, l <= OffsetLimit * Unit
  PROVE  o < OffsetLimit
<1>1. SUFFICES ASSUME o >= OffsetLimit PROVE FALSE
  BY FragmentationAssumption
<1>2. o * Unit >= OffsetLimit * Unit
  BY <1>1, FragmentationAssumption
<1> QED
  BY <1>2, FragmentationAssumption

(* Appending a packet that begins where the last one ended, and carries    *)
(* the bytes of its place, keeps what is said of the packets before it.    *)
LEMMA SentGrows ==
  ASSUME TypeInv, RestInv, SentInv, sending,
         NEW pkt \in PacketType, sent' = Append(sent, pkt), payload' = payload,
         pkt.offset = offset, pkt.offset < OffsetLimit,
         Len(pkt.data) + IpHeader <= Mtu,
         \A i \in 1..Len(pkt.data) : pkt.data[i] = payload[offset * Unit + i]
  PROVE  /\ sent' \in Seq(PacketType) /\ Len(sent') = Len(sent) + 1
         /\ sent'[Len(sent')] = pkt
         /\ \A k \in 1..Len(sent') :
              /\ Len(sent'[k].data) + IpHeader <= Mtu
              /\ sent'[k].offset < OffsetLimit
              /\ \A i \in 1..Len(sent'[k].data) :
                   sent'[k].data[i] = payload'[sent'[k].offset * Unit + i]
              /\ k < Len(sent') => /\ sent'[k].flags = 1
                                   /\ sent'[k + 1].offset * Unit = EndOf(k)'
         /\ sent'[1].offset = 0
<1>1. /\ sent' \in Seq(PacketType) /\ Len(sent') = Len(sent) + 1 /\ Len(sent) \in Nat
      /\ \A k \in 1..Len(sent) : sent'[k] = sent[k]
      /\ sent'[Len(sent')] = pkt
  BY DEF TypeInv
<1>2. ASSUME NEW k \in 1..Len(sent')
      PROVE  /\ Len(sent'[k].data) + IpHeader <= Mtu
             /\ sent'[k].offset < OffsetLimit
             /\ \A i \in 1..Len(sent'[k].data) :
                  sent'[k].data[i] = payload'[sent'[k].offset * Unit + i]
  <2>1. CASE k = Len(sent')
    BY <2>1, <1>1
  <2>2. CASE k # Len(sent')
    <3>1. k \in 1..Len(sent) /\ sent'[k] = sent[k]
      BY <2>2, <1>1
    <3> QED
      BY <3>1 DEF SentInv
  <2> QED
    BY <2>1, <2>2
<1>3. ASSUME NEW k \in 1..Len(sent'), k < Len(sent')
      PROVE  sent'[k].flags = 1 /\ sent'[k + 1].offset * Unit = EndOf(k)'
  <2>1. k \in 1..Len(sent) /\ sent'[k] = sent[k] /\ EndOf(k)' = EndOf(k)
    BY <1>1, <1>3 DEF EndOf
  <2>2. CASE k = Len(sent)
    <3>1. sent'[k + 1] = pkt
      BY <1>1, <2>2
    <3> QED
      BY <2>1, <2>2, <3>1 DEF SentInv
  <2>3. CASE k # Len(sent)
    <3>1. k + 1 \in 1..Len(sent) /\ k < Len(sent)
      BY <1>1, <2>1, <2>3
    <3> QED
      BY <1>1, <2>1, <3>1 DEF SentInv
  <2> QED
    BY <2>2, <2>3
<1>4. sent'[1].offset = 0
  BY <1>1 DEF SentInv
<1> QED
  BY <1>1, <1>2, <1>3, <1>4

(* Before anything is sent. *)
LEMMA FragmentInit == Init => FragmentInv
<1> SUFFICES ASSUME Init PROVE FragmentInv
  OBVIOUS
<1>1. 0 <= OffsetLimit * Unit
  BY FragmentationAssumption
<1>2. Len(payload) = 0 /\ Len(rest) = 0 /\ Len(sent) = 0 /\ ~sending
  BY DEF Init
<1>3. TypeInv
  BY <1>1, <1>2, EmptySeq DEF Init, TypeInv
<1>4. RestInv
  BY <1>2 DEF RestInv
<1>5. SentInv
  BY <1>2 DEF SentInv
<1> QED
  BY <1>3, <1>4, <1>5 DEF FragmentInv

(* A new payload. *)
LEMMA FragmentStart ==
  ASSUME FragmentInv, NEW p \in Payloads, Start(p)
  PROVE  FragmentInv'
<1>1. p \in Seq(Nat) /\ Len(p) <= OffsetLimit * Unit
  BY FragmentationAssumption
<1>2. sent' = <<>> /\ Len(sent') = 0 /\ offset' = 0 /\ sending' = TRUE
      /\ payload' = p /\ rest' = p /\ offset' * Unit = 0
  BY FragmentationAssumption DEF Start
<1>3. TypeInv'
  BY <1>1, <1>2 DEF TypeInv
<1>4. RestInv'
  BY <1>1, <1>2 DEF RestInv
<1>5. SentInv'
  BY <1>2 DEF SentInv
<1> QED
  BY <1>3, <1>4, <1>5 DEF FragmentInv

(* The last packet. *)
LEMMA FragmentSendLast ==
  ASSUME FragmentInv, SendLast
  PROVE  FragmentInv'
<1> DEFINE pkt == [offset |-> offset, flags |-> 0, data |-> rest]
<1>1. /\ TypeInv /\ RestInv /\ SentInv /\ sending /\ sending' = FALSE
      /\ sent' = Append(sent, pkt) /\ payload' = payload /\ rest' = rest
      /\ offset' = offset /\ Len(rest) + IpHeader <= Mtu
  BY DEF FragmentInv, SendLast, Fits
<1>2. pkt \in PacketType /\ pkt.offset = offset /\ pkt.data = rest /\ pkt.flags = 0
  BY <1>1 DEF TypeInv, PacketType
<1>3. offset < OffsetLimit
  <2>1. CASE Len(rest) = 0
    BY <1>1, <2>1, FragmentationAssumption DEF RestInv
  <2>2. CASE Len(rest) # 0
    <3>1. /\ offset * Unit \in Nat /\ Len(rest) \in Nat /\ Len(payload) \in Nat
          /\ offset \in Nat
      BY <1>1, FragmentationAssumption DEF TypeInv
    <3>2. offset * Unit < Len(payload)
      BY <1>1, <2>2, <3>1 DEF RestInv
    <3> QED
      BY <1>1, <3>1, <3>2, OffsetInField DEF TypeInv
  <2> QED
    BY <2>1, <2>2
<1> HIDE DEF pkt
<1>4. /\ sent' \in Seq(PacketType) /\ Len(sent') = Len(sent) + 1
      /\ sent'[Len(sent')] = pkt
      /\ \A k \in 1..Len(sent') :
           /\ Len(sent'[k].data) + IpHeader <= Mtu
           /\ sent'[k].offset < OffsetLimit
           /\ \A i \in 1..Len(sent'[k].data) :
                sent'[k].data[i] = payload'[sent'[k].offset * Unit + i]
           /\ k < Len(sent') => /\ sent'[k].flags = 1
                                /\ sent'[k + 1].offset * Unit = EndOf(k)'
      /\ sent'[1].offset = 0
  BY <1>1, <1>2, <1>3, SentGrows DEF RestInv
<1>5. EndOf(Len(sent))' = Len(payload)'
  BY <1>1, <1>2, <1>4 DEF EndOf, RestInv
<1>6. SentInv'
  BY <1>1, <1>2, <1>4, <1>5 DEF SentInv
<1>7. TypeInv' /\ RestInv'
  BY <1>1, <1>4 DEF TypeInv, RestInv
<1> QED
  BY <1>6, <1>7 DEF FragmentInv

(* A packet with more to come. *)
LEMMA FragmentSendMore ==
  ASSUME FragmentInv, SendMore
  PROVE  FragmentInv'
<1> DEFINE size == nfb * Unit
           data == SubSeq(rest, 1, size)
           pkt == [offset |-> offset, flags |-> 1, data |-> data]
<1>1. /\ TypeInv /\ RestInv /\ SentInv /\ sending /\ sending' = sending
      /\ sent' = Append(sent, pkt) /\ payload' = payload
      /\ rest' = SubSeq(rest, size + 1, Len(rest))
      /\ offset' = offset + nfb /\ ~(Len(rest) + IpHeader <= Mtu)
  BY DEF FragmentInv, SendMore, Fits
<1>2. /\ size \in Nat /\ size >= 1 /\ size + IpHeader <= Mtu /\ nfb \in Nat
      /\ offset \in Nat /\ offset * Unit \in Nat
      /\ Len(rest) \in Nat /\ Len(payload) \in Nat /\ size < Len(rest)
      /\ offset' * Unit = offset * Unit + size
  <2>1. size \in Nat /\ size >= 1 /\ size + IpHeader <= Mtu /\ nfb \in Nat
    BY FragmentSize
  <2>2. /\ offset \in Nat /\ offset * Unit \in Nat
        /\ Len(rest) \in Nat /\ Len(payload) \in Nat
    BY <1>1, FragmentationAssumption DEF TypeInv
  <2>3. offset' * Unit = offset * Unit + size
    BY <1>1, <2>1, <2>2, FragmentationAssumption
  <2> HIDE DEF size
  <2>4. size < Len(rest)
    BY <1>1, <2>1, <2>2, FragmentationAssumption
  <2> QED
    BY <2>1, <2>2, <2>3, <2>4
<1> HIDE DEF size
<1>3. /\ data \in Seq(Nat) /\ Len(data) = size
      /\ \A i \in 1..size : data[i] = rest[i]
  BY <1>1, <1>2 DEF TypeInv
<1>4. /\ rest' \in Seq(Nat) /\ Len(rest') = Len(rest) - size
      /\ \A i \in 1..Len(rest') : rest'[i] = rest[size + i]
  BY <1>1, <1>2, SMTT(30) DEF TypeInv
<1> HIDE DEF data
<1>5. pkt \in PacketType /\ pkt.offset = offset /\ pkt.data = data /\ pkt.flags = 1
  BY <1>2, <1>3 DEF PacketType
<1>6. offset < OffsetLimit
  <2>1. offset * Unit < Len(payload)
    BY <1>1, <1>2 DEF RestInv
  <2> QED
    BY <1>1, <1>2, <2>1, OffsetInField DEF TypeInv
<1>7. ASSUME NEW i \in 1..Len(data)
      PROVE  data[i] = payload[offset * Unit + i]
  <2>1. i \in 1..Len(rest) /\ data[i] = rest[i]
    BY <1>2, <1>3
  <2> QED
    BY <1>1, <2>1 DEF RestInv
<1> HIDE DEF pkt
<1>8. /\ sent' \in Seq(PacketType) /\ Len(sent') = Len(sent) + 1
      /\ sent'[Len(sent')] = pkt
      /\ \A k \in 1..Len(sent') :
           /\ Len(sent'[k].data) + IpHeader <= Mtu
           /\ sent'[k].offset < OffsetLimit
           /\ \A i \in 1..Len(sent'[k].data) :
                sent'[k].data[i] = payload'[sent'[k].offset * Unit + i]
           /\ k < Len(sent') => /\ sent'[k].flags = 1
                                /\ sent'[k + 1].offset * Unit = EndOf(k)'
      /\ sent'[1].offset = 0
  BY <1>1, <1>2, <1>3, <1>5, <1>6, <1>7, SentGrows
<1>9. EndOf(Len(sent))' = offset' * Unit
  BY <1>2, <1>3, <1>5, <1>8 DEF EndOf
<1>10. SentInv'
  <2>1. Len(sent') # 0
    BY <1>1, <1>8 DEF TypeInv
  <2> QED
    BY <1>1, <1>5, <1>8, <1>9, <2>1 DEF SentInv
<1>11. TypeInv'
  <2>1. payload' \in Seq(Nat) /\ Len(payload') <= OffsetLimit * Unit /\ sending' \in BOOLEAN
    BY <1>1 DEF TypeInv
  <2>2. offset' \in Nat
    BY <1>1, <1>2
  <2> QED
    BY <1>4, <1>8, <2>1, <2>2 DEF TypeInv
<1>12. RestInv'
  <2>1. /\ Len(rest') \in Nat /\ Len(rest') >= 1
        /\ offset' * Unit + Len(rest') = Len(payload')
    BY <1>1, <1>2, <1>4 DEF RestInv
  <2>2. ASSUME NEW i \in 1..Len(rest') PROVE rest'[i] = payload'[offset' * Unit + i]
    <3>1. size + i \in 1..Len(rest) /\ rest'[i] = rest[size + i]
      BY <1>2, <1>4, <2>1
    <3>2. rest[size + i] = payload[offset * Unit + (size + i)]
      BY <1>1, <3>1 DEF RestInv
    <3>3. offset * Unit + (size + i) = offset' * Unit + i
      BY <1>2
    <3> QED
      BY <1>1, <3>1, <3>2, <3>3
  <2> QED
    BY <2>1, <2>2 DEF RestInv
<1> QED
  BY <1>10, <1>11, <1>12 DEF FragmentInv

------------------------------------------------------------------------------
(* Of every payload ipv4Send is given, the packets sent so far lie end to  *)
(* end from its first byte on, each with the bytes of its place, and every *)
(* packet fits.                                                            *)
THEOREM FragmentInvariance == Spec => []FragmentInv
<1>1. FragmentInv /\ [Next]_sendVars => FragmentInv'
  <2> SUFFICES ASSUME FragmentInv, [Next]_sendVars PROVE FragmentInv'
    OBVIOUS
  <2>1. CASE SendLast
    BY <2>1, FragmentSendLast
  <2>2. CASE SendMore
    BY <2>2, FragmentSendMore
  <2>3. CASE \E p \in Payloads : Start(p)
    BY <2>3, FragmentStart
  <2>4. CASE UNCHANGED sendVars
    BY <2>4 DEF sendVars, FragmentInv, TypeInv, RestInv, SentInv, EndOf
  <2> QED
    BY <2>1, <2>2, <2>3, <2>4 DEF Next
<1> QED
  BY <1>1, FragmentInit, PTL DEF Spec

(* ipv4Send makes no packet longer than the MTU and none whose offset runs *)
(* over the field IPv4.encode writes it to.                                *)
THEOREM AllPacketsFit == Spec => []PacketsFit
<1>1. FragmentInv => PacketsFit
  <2> SUFFICES ASSUME FragmentInv PROVE PacketsFit
    OBVIOUS
  <2>1. DOMAIN sent = 1..Len(sent)
    BY DEF FragmentInv, TypeInv
  <2> QED
    BY <2>1 DEF FragmentInv, SentInv, PacketsFit
<1> QED
  BY <1>1, FragmentInvariance, PTL

(* The packets of every payload tile it, with the flags that tell the last *)
(* from the others.                                                        *)
THEOREM PacketsTile == Spec => []Tiles
<1>1. FragmentInv => Tiles
  <2> SUFFICES ASSUME FragmentInv PROVE Tiles
    OBVIOUS
  <2>1. DOMAIN sent = 1..Len(sent) /\ Len(sent) \in Nat
    BY DEF FragmentInv, TypeInv
  <2>2. sent # <<>> => Len(sent) > 0
    BY <2>1, EmptySeq DEF FragmentInv, TypeInv
  <2>3. ASSUME NEW k \in 1..Len(sent)
        PROVE  LET at == sent[k].offset * Unit
               IN /\ \A i \in 1..Len(sent[k].data) : sent[k].data[i] = payload[at + i]
                  /\ IF k < Len(sent)
                     THEN /\ sent[k].flags = 1
                          /\ sent[k + 1].offset * Unit = at + Len(sent[k].data)
                     ELSE Done => sent[k].flags = 0 /\ at + Len(sent[k].data) = Len(payload)
    <3>1. CASE k < Len(sent)
      BY <3>1 DEF FragmentInv, SentInv, EndOf
    <3>2. CASE ~(k < Len(sent))
      <4>1. Len(sent) \in Nat
        BY <2>1
      <4>2. k = Len(sent) /\ Len(sent) > 0
        BY <3>2, <4>1
      <4> QED
        BY <4>2 DEF FragmentInv, SentInv, EndOf, Done
    <3> QED
      BY <3>1, <3>2
  <2> QED
    BY <2>1, <2>2, <2>3 DEF Tiles, FragmentInv, SentInv
<1> QED
  BY <1>1, FragmentInvariance, PTL

------------------------------------------------------------------------------
(* The packet information before a frame or a list.                        *)
LEMMA BehindHeader ==
  ASSUME NEW S, NEW four \in Seq(S), Len(four) = 4, NEW n \in Nat,
         \A k \in 1..n : k \in S
  PROVE  LET all == four \o Whole(n)
         IN /\ all \in Seq(S) /\ Len(all) = n + 4
            /\ \A k \in 1..4 : all[k] = four[k]
            /\ \A k \in 5..(n + 4) : all[k] = k - 4
            /\ SubSeq(all, 5, Len(all)) = Whole(n)
<1> DEFINE w == Whole(n)
           all == four \o w
<1>1. /\ w \in Seq(S) /\ Len(w) = n /\ \A k \in 1..n : w[k] = k
      /\ w = [k \in 1..n |-> k]
  BY DEF Whole
<1> HIDE DEF w
<1> DEFINE Split(m, l) == \A k \in 1..(m + l) : all[k] = IF k <= m THEN four[k] ELSE w[k - m]
<1>2. w \in Seq(S)
  BY <1>1
<1>7. all \in Seq(S) /\ Len(all) = Len(four) + Len(w) /\ Split(Len(four), Len(w))
  BY <1>2, ConcatProperties, Zenon
<1> HIDE DEF all, Split
<1>3. Len(all) = n + 4 /\ Split(4, n)
  BY <1>1, <1>7
<1>4. \A k \in 5..(n + 4) : all[k] = k - 4
  <2> TAKE k \in 5..(n + 4)
  <2>1. k \in 1..(4 + n) /\ ~(k <= 4) /\ k - 4 \in 1..n
    OBVIOUS
  <2> QED
    BY <1>1, <1>3, <2>1 DEF Split
<1>5. \A k \in 1..4 : all[k] = four[k]
  <2> TAKE k \in 1..4
  <2>1. k \in 1..(4 + n) /\ k <= 4
    OBVIOUS
  <2> QED
    BY <1>3, <2>1 DEF Split
<1>6. SubSeq(all, 5, Len(all)) = w
  <2> DEFINE tail == SubSeq(all, 5, Len(all))
  <2>1. \A j \in 5..(n + 4) : all[j] \in S
    BY <1>3, <1>7
  <2>2. /\ tail \in Seq(S) /\ Len(tail) = n
        /\ \A j \in 1..n : tail[j] = all[5 + j - 1]
    <3>1. 5 \in Int /\ n + 4 \in Int /\ (IF 5 <= n + 4 THEN (n + 4) - 5 + 1 ELSE 0) = n
          /\ (n + 4) - 5 + 1 = n
      OBVIOUS
    <3>2. LET slice == SubSeq(all, 5, n + 4)
          IN /\ slice \in Seq(S) /\ Len(slice) = IF 5 <= n + 4 THEN (n + 4) - 5 + 1 ELSE 0
             /\ \A j \in 1..((n + 4) - 5 + 1) : slice[j] = all[5 + j - 1]
      BY <2>1, <3>1, SubSeqProperties
    <3> QED
      BY <1>3, <3>1, <3>2
  <2>3. \A j \in 1..n : tail[j] = j
    <3> TAKE j \in 1..n
    <3>1. 5 + j - 1 \in 5..(n + 4) /\ (5 + j - 1) - 4 = j
      OBVIOUS
    <3> QED
      BY <1>4, <2>2, <3>1
  <2> HIDE DEF tail
  <2>4. tail = [j \in 1..n |-> j]
    BY <2>2, <2>3
  <2> QED
    BY <1>1, <2>4 DEF tail
<1> QED
  BY <1>3, <1>4, <1>5, <1>6, <1>7 DEF all, w

(* A frame that fits is read whole, behind four bytes; of any other the    *)
(* first bytes fill the buffer.                                            *)
LEMMA ReadWhole ==
  ASSUME NEW n \in Nat
  PROVE  /\ n + 4 <= MTU => toMLString(Read(n)) = Whole(n)
         /\ Len(Read(n)) >= MTU <=> n > MTU - 5
<1> DEFINE S == Nat \union {Info}
           m == IF n + 4 <= MTU THEN n ELSE MTU - 4
<1>1. m \in Nat /\ (n + 4 <= MTU => m = n) /\ (m + 4 >= MTU <=> n > MTU - 5)
  BY TapAssumption
<1>2. Read(n) = Header \o Whole(m)
  BY DEF Read
<1> HIDE DEF m
<1>3. Header \in Seq(S) /\ Len(Header) = 4 /\ \A k \in 1..m : k \in S
  BY <1>1 DEF Header
<1> HIDE DEF S
<1>4. Len(Read(n)) = m + 4 /\ SubSeq(Read(n), 5, Len(Read(n))) = Whole(m)
  BY <1>1, <1>2, <1>3, BehindHeader
<1> QED
  BY <1>1, <1>4 DEF toMLString

(* The lengths of what a call was given. *)
LEMMA WholeLength == ASSUME NEW n \in Nat PROVE Len(Whole(n)) = n
BY DEF Whole

(* When the last store of Send is outside the buffer. *)
LEMMA StoredOutside ==
  ASSUME NEW n \in Nat
  PROVE  Stored(n) + 3 >= MTU <=> n > MTU - 4
BY TapAssumption DEF Stored

(* A list that fits is stored whole. *)
LEMMA StoredWhole ==
  ASSUME NEW n \in Nat, n + 4 <= MTU
  PROVE  Stored(n) = n /\ Stored(n) + 3 < MTU
BY TapAssumption DEF Stored

(* What is written for a list that fits is its packet information and it.  *)
LEMMA WrittenWhole ==
  ASSUME NEW n \in Nat, n + 4 <= MTU
  PROVE  SubSeq(Copied(n) \o Whole(n), 5, Len(Copied(n) \o Whole(n))) = Whole(n)
<1>1. Stored(n) = n
  BY StoredWhole
<1>2. Copied(n) \in Seq(Nat) /\ Len(Copied(n)) = 4
  <2>1. ElementAt(n, 13) \in Nat /\ ElementAt(n, 14) \in Nat
    BY <1>1 DEF ElementAt
  <2> QED
    BY <2>1 DEF Copied
<1>3. \A k \in 1..n : k \in Nat
  OBVIOUS
<1> QED
  BY <1>2, <1>3, BehindHeader

------------------------------------------------------------------------------
TapInv ==
  /\ running \in BOOLEAN
  /\ CarriesBytes
  /\ StaysInBuffers

(* Receive and Send, for a frame and a list of any length.                 *)
LEMMA ReceiveKeeps ==
  ASSUME TapInv, NEW n \in Frames, Receive(n)
  PROVE  TapInv'
<1>1. n \in Nat
  BY TapAssumption
<1>2. /\ running /\ frame' = Whole(n) /\ received' = toMLString(Read(n))
      /\ Stores("Receive", Len(Read(n)) >= MTU) /\ UNCHANGED <<list, written>>
  BY DEF Receive
<1>3. Len(frame') = n
  BY <1>1, <1>2, WholeLength
<1>4. ReceivesFrame'
  <2>1. Len(frame') <= MTU - 4 => n + 4 <= MTU
    BY <1>1, <1>3, TapAssumption
  <2> QED
    BY <1>1, <1>2, <2>1, ReadWhole DEF ReceivesFrame
<1>5. SendsList'
  BY <1>2 DEF TapInv, CarriesBytes, SendsList
<1>6. running' \in BOOLEAN
  BY <1>2 DEF Stores
<1>7. "Receive" \in stray' <=> n > MTU - 5
  BY <1>1, <1>2, ReadWhole DEF Stores
<1>8. "Send" \in stray' <=> Len(list') > MTU - 4
  <2>1. stray' = stray \union {"Receive"} \/ stray' = stray \ {"Receive"}
    BY <1>2 DEF Stores
  <2>2. "Send" \in stray' <=> "Send" \in stray
    BY <2>1
  <2> QED
    BY <1>2, <2>2 DEF TapInv, StaysInBuffers
<1> QED
  BY <1>3, <1>4, <1>5, <1>6, <1>7, <1>8 DEF TapInv, CarriesBytes, StaysInBuffers

LEMMA SendKeeps ==
  ASSUME TapInv, NEW n \in Lists, Send(n)
  PROVE  TapInv'
<1>1. n \in Nat
  BY TapAssumption
<1>2. /\ running /\ list' = Whole(n) /\ UNCHANGED <<tapfd, frame, received>>
      /\ written' = IF tapfd = -1 THEN <<>> ELSE Copied(n) \o Whole(Stored(n))
      /\ Stores("Send", Stored(n) + 3 >= MTU)
  BY DEF Send
<1>3. Len(list') = n
  BY <1>1, <1>2, WholeLength
<1>4. SendsList'
  <2> SUFFICES ASSUME written' # <<>>, Len(list') <= MTU - 4
               PROVE  SubSeq(written', 5, Len(written')) = list'
    BY DEF SendsList
  <2>1. n + 4 <= MTU
    BY <1>1, <1>3, TapAssumption
  <2>2. written' = Copied(n) \o Whole(n)
    BY <1>1, <1>2, <2>1, StoredWhole
  <2> QED
    BY <1>1, <1>2, <2>1, <2>2, WrittenWhole
<1>5. ReceivesFrame'
  BY <1>2 DEF TapInv, CarriesBytes, ReceivesFrame
<1>6. running' \in BOOLEAN
  BY <1>2 DEF Stores
<1>7. "Send" \in stray' <=> n > MTU - 4
  BY <1>1, <1>2, StoredOutside DEF Stores
<1>8. "Receive" \in stray' <=> Len(frame') > MTU - 5
  <2>1. stray' = stray \union {"Send"} \/ stray' = stray \ {"Send"}
    BY <1>2 DEF Stores
  <2>2. "Receive" \in stray' <=> "Receive" \in stray
    BY <2>1
  <2> QED
    BY <1>2, <2>2 DEF TapInv, StaysInBuffers
<1> QED
  BY <1>3, <1>4, <1>5, <1>6, <1>7, <1>8 DEF TapInv, CarriesBytes, StaysInBuffers

(* Every step. *)
LEMMA BuffersNext == TapInv /\ [TapNext]_tapVars => TapInv'
<1> SUFFICES ASSUME TapInv, [TapNext]_tapVars PROVE TapInv'
  OBVIOUS
<1>1. CASE OpenFails \/ IoctlFails \/ ReadFails
  <2>1. running' = FALSE /\ UNCHANGED <<frame, list, written>>
    BY <1>1 DEF OpenFails, IoctlFails, ReadFails
  <2>2. received' = Null \/ received' = received
    BY <1>1 DEF OpenFails, IoctlFails, ReadFails
  <2> QED
    BY <2>1, <2>2 DEF TapInv, CarriesBytes, ReceivesFrame, SendsList, StaysInBuffers
<1>2. ASSUME NEW n \in Frames, Receive(n)
      PROVE  TapInv'
  BY <1>2, ReceiveKeeps
<1>3. ASSUME NEW n \in Lists, Send(n)
      PROVE  TapInv'
  BY <1>3, SendKeeps
<1>4. CASE UNCHANGED tapVars
  BY <1>4 DEF tapVars, TapInv, CarriesBytes, ReceivesFrame, SendsList, StaysInBuffers
<1> QED
  BY <1>1, <1>2, <1>3, <1>4 DEF TapNext

(* Nothing was read or written before. *)
LEMMA BuffersInit == TapInit => TapInv
<1> SUFFICES ASSUME TapInit PROVE TapInv
  OBVIOUS
<1>1. /\ running = TRUE /\ stray = {} /\ received = frame /\ written = <<>>
      /\ frame = <<>> /\ list = <<>>
  BY DEF TapInit
<1>2. ~(Len(frame) > MTU - 5) /\ ~(Len(list) > MTU - 4)
  BY <1>1, TapAssumption
<1> QED
  BY <1>1, <1>2 DEF TapInv, CarriesBytes, ReceivesFrame, SendsList, StaysInBuffers

(* For every length of frame and list: which ones store outside a buffer,  *)
(* while reads succeed.                                                    *)
THEOREM BuffersExact == TapSpec => []StaysInBuffers
<1>1. TapInv => StaysInBuffers
  BY DEF TapInv
<1> QED
  BY <1>1, BuffersInit, BuffersNext, PTL DEF TapSpec

(* The program receives the bytes of the frames the kernel has, all of     *)
(* them and no others, and the kernel is given those of the lists the      *)
(* program sends, as far as the buffer has room for them.                  *)
THEOREM BytesCarried == TapSpec => []CarriesBytes
<1>1. TapInv => CarriesBytes
  BY DEF TapInv
<1> QED
  BY <1>1, BuffersInit, BuffersNext, PTL DEF TapSpec

(* The lists are Ethernet frames: a header of 14 bytes and a packet of at  *)
(* most Mtu (AllPacketsFit).  The buffer also has room for the packet      *)
(* information: 1518 = 1500 + 14 + 4.                                      *)
ListsAreFrames == Mtu + 14 + 4 <= MTU /\ \A n \in Lists : n <= Mtu + 14

(* So Send stores nothing outside its buffer, whatever frames are read and *)
(* whichever calls fail.                                                   *)
THEOREM SendsInside ==
  ASSUME ListsAreFrames
  PROVE  TapSpec => []("Send" \notin stray)
<1> DEFINE Inside == "Send" \notin stray
<1>1. TapInit => Inside
  BY DEF TapInit
<1>2. Inside /\ [TapNext]_tapVars => Inside'
  <2> SUFFICES ASSUME Inside, [TapNext]_tapVars PROVE Inside'
    OBVIOUS
  <2>1. CASE OpenFails \/ IoctlFails \/ ReadFails
    BY <2>1 DEF OpenFails, IoctlFails, ReadFails
  <2>2. ASSUME NEW n \in Frames, Receive(n) PROVE Inside'
    BY <2>2 DEF Receive, Stores
  <2>3. ASSUME NEW n \in Lists, Send(n) PROVE Inside'
    <3>1. n \in Nat /\ ~(n > MTU - 4)
      BY TapAssumption, FragmentationAssumption DEF ListsAreFrames
    <3>2. stray' = stray \ {"Send"}
      BY <2>3, <3>1, StoredOutside DEF Send, Stores
    <3> QED
      BY <3>2
  <2>4. CASE UNCHANGED tapVars
    BY <2>4 DEF tapVars
  <2> QED
    BY <2>1, <2>2, <2>3, <2>4 DEF TapNext
<1> QED
  BY <1>1, <1>2, PTL DEF TapSpec
=============================================================================
