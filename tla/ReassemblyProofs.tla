--------------------------- MODULE ReassemblyProofs ----------------------------
(***************************************************************************)
(* Proofs about the reassembly of handleIPv4, for any datagrams, any       *)
(* identifications (used once, again, or by several clients at a time) and *)
(* any network: nothing here needs the assumption on what arrives.         *)
(***************************************************************************)
EXTENDS Reassembly, Integers, SequenceTheorems, WellFoundedInduction, TLAPS

------------------------------------------------------------------------------
(* List.find and List.app: the first and the last of some indices.         *)

(* A set of natural numbers that is not empty has a smallest one. *)
LEMMA SmallestExists ==
  ASSUME NEW T, T \subseteq Nat, T # {}
  PROVE  \E x \in T : \A y \in T : x <= y
<1>1. PICK x \in T : \A y \in T : <<y, x>> \notin OpToRel(<, Nat)
  BY NatLessThanWellFounded, WFMin
<1>2. ASSUME NEW y \in T PROVE x <= y
  <2>1. <<y, x>> \in Nat \X Nat /\ x \in Nat /\ y \in Nat
    OBVIOUS
  <2>2. ~(y < x)
    BY <1>1, <2>1 DEF OpToRel
  <2> QED
    BY <2>1, <2>2
<1> QED
  BY <1>2

(* A set of indices that is not empty has a largest one. *)
LEMMA LargestExists ==
  ASSUME NEW n \in Nat, NEW T, T \subseteq 1..n, T # {}
  PROVE  \E x \in T : \A y \in T : y <= x
<1> DEFINE U == {n - x : x \in T}
<1>1. U \subseteq Nat /\ U # {}
  OBVIOUS
<1>2. PICK u \in U : \A v \in U : u <= v
  BY <1>1, SmallestExists
<1>3. PICK x \in T : u = n - x
  BY <1>2
<1>4. ASSUME NEW y \in T PROVE y <= x
  <2>1. n - y \in U
    OBVIOUS
  <2> QED
    BY <1>2, <1>3, <2>1
<1> QED
  BY <1>4

(* List.find gives the first entry for the key, or none if there is none.  *)
LEMMA FindFirst ==
  ASSUME NEW S, NEW list \in Seq(S), NEW key
  PROVE  \/ /\ Find(list, key) = 0
            /\ \A j \in 1..Len(list) : list[j].key # key
         \/ /\ Find(list, key) \in 1..Len(list)
            /\ list[Find(list, key)].key = key
            /\ \A j \in 1..Len(list) : list[j].key = key => Find(list, key) <= j
<1> DEFINE at == {i \in DOMAIN list : list[i].key = key}
<1>1. DOMAIN list = 1..Len(list) /\ Len(list) \in Nat
  OBVIOUS
<1>2. CASE at = {}
  BY <1>1, <1>2 DEF Find
<1>3. CASE at # {}
  <2>1. \E i \in at : \A j \in at : i <= j
    <3>1. at \subseteq Nat
      BY <1>1
    <3> HIDE DEF at
    <3> QED
      BY <1>3, <3>1, SmallestExists
  <2>2. Find(list, key) = CHOOSE i \in at : \A j \in at : i <= j
    BY <1>3 DEF Find
  <2>3. Find(list, key) \in at /\ \A j \in at : Find(list, key) <= j
    <3> HIDE DEF at
    <3> QED
      BY <2>1, <2>2
  <2> QED
    BY <1>1, <2>3
<1> QED
  BY <1>2, <1>3

(* The elements a + 1 to b of a sequence. *)
LEMMA SliceContent ==
  ASSUME NEW S, NEW s, NEW a \in Nat, NEW b \in Nat, a <= b,
         \A j \in (a + 1)..b : s[j] \in S
  PROVE  LET slice == SubSeq(s, a + 1, b)
         IN /\ slice \in Seq(S) /\ Len(slice) = b - a
            /\ \A j \in 1..(b - a) : slice[j] = s[a + j]
<1> DEFINE m == a + 1
           slice == SubSeq(s, m, b)
<1>1. m \in Int /\ b \in Int /\ \A j \in m..b : s[j] \in S
  OBVIOUS
<1>2. m = a + 1
  OBVIOUS
<1> HIDE DEF m
<1>3. /\ slice \in Seq(S) /\ Len(slice) = IF m <= b THEN b - m + 1 ELSE 0
      /\ \A j \in 1..(b - m + 1) : slice[j] = s[m + j - 1]
  BY <1>1, SubSeqProperties
<1> HIDE DEF slice
<1>4. Len(slice) = b - a
  BY <1>2, <1>3
<1>5. ASSUME NEW j \in 1..(b - a) PROVE slice[j] = s[a + j]
  <2>1. j \in 1..(b - m + 1) /\ m + j - 1 = a + j
    BY <1>2
  <2> QED
    BY <1>3, <2>1
<1> QED
  BY <1>2, <1>3, <1>4, <1>5 DEF slice

------------------------------------------------------------------------------
(* What the lists hold. *)

Place == UNION {{<<d, i>> : i \in 1..SizeOf[d]} : d \in Dgram}
Cell == Place \union {Zero}
FragType == {f \in [data : Seq(Place), offset : Nat] : Len(f.data) \in 1..FragBytes}
Entry == [key : Keys, frags : Seq(FragType)]
Assembled == [key : Keys, arr : Seq(Cell)]
Handed == [key : Keys, data : Seq(Cell)]

(* The byte c is that of the place i of a datagram with the key. *)
FromKey(key, c, i) == \E d \in Dgram : KeyOf[d] = key /\ c = <<d, i>>

(* A fragment stored under a key has, at the places its offset gives, the  *)
(* bytes of datagrams with that key.                                       *)
GoodFrag(key, f) ==
  \A j \in 1..Len(f.data) : FromKey(key, f.data[j], f.offset * Scale + j)

GoodBuffer(buf) ==
  /\ buf \in Seq(Entry)
  /\ \A i \in 1..Len(buf) : \A j \in 1..Len(buf[i].frags) :
       GoodFrag(buf[i].key, buf[i].frags[j])
  /\ \A i, j \in 1..Len(buf) : buf[i].key = buf[j].key => i = j

GoodPayload(o) ==
  /\ \E d \in Dgram : KeyOf[d] = o.key /\ Len(o.data) = SizeOf[d]
  /\ \A j \in 1..Len(o.data) : o.data[j] = Zero \/ FromKey(o.key, o.data[j], j)

(* The byte c is one of some datagram with the key. *)
OfKey(key, c) ==
  \E d \in Dgram : KeyOf[d] = key /\ \E k \in 1..SizeOf[d] : c = <<d, k>>

(* An array kept under a key is as long as a datagram with that key and    *)
(* has only bytes of such datagrams, at any place.                         *)
GoodArray(a) ==
  /\ \E d \in Dgram : KeyOf[d] = a.key /\ Len(a.arr) = SizeOf[d]
  /\ \A j \in 1..Len(a.arr) : a.arr[j] = Zero \/ OfKey(a.key, a.arr[j])

GoodList(asm) ==
  asm \in Seq(Assembled) /\ \A i \in 1..Len(asm) : GoodArray(asm[i])

ReassemblyInv ==
  /\ GoodBuffer(fragmentBuffer)
  /\ GoodList(assemblingList)
  /\ out \in Seq(Handed)
  /\ \A i \in 1..Len(out) : GoodPayload(out[i])

------------------------------------------------------------------------------
(* What division leaves is less than the divisor. *)
LEMMA QuotientLeaves ==
  ASSUME NEW a \in Nat, NEW b \in Nat, b >= 1
  PROVE  a \div b \in Nat /\ a < (a \div b) * b + b
OBVIOUS

(* The clients' packets carry the bytes of their places, and one without   *)
(* the more-fragments flag ends where its datagram ends.                   *)
LEMMA PacketContent ==
  ASSUME NEW d \in Dgram, NEW i \in 1..Fragments(d)
  PROVE  LET pkt == Packet(d, i)
         IN /\ pkt.key = KeyOf[d] /\ pkt.key \in Keys /\ pkt.flags \in {0, 1, 2}
            /\ pkt.offset \in Nat /\ pkt.data \in Seq(Place)
            /\ \A j \in 1..Len(pkt.data) :
                 pkt.data[j] = <<d, pkt.offset * Scale + j>>
            /\ pkt.flags # 1 => pkt.offset * Scale + Len(pkt.data) = SizeOf[d]
            /\ pkt.flags = 2 => pkt.offset = 0
            /\ pkt.flags # 2 => Len(pkt.data) \in 1..FragBytes
<1> DEFINE pkt == Packet(d, i)
           before == (i - 1) * FragBytes
           after == IF i = Fragments(d) THEN SizeOf[d] ELSE i * FragBytes
<1>1. /\ SizeOf[d] \in Nat /\ SizeOf[d] >= 1 /\ FragBytes \in Nat /\ FragBytes >= 1
      /\ Scale \in Nat /\ FragUnits \in Nat
  BY ReassemblyAssumption DEF FragBytes
<1>2. Fragments(d) \in Nat /\ i \in Nat /\ i >= 1 /\ i <= Fragments(d)
  <2>1. Fragments(d) \in Nat
    BY <1>1 DEF Fragments
  <2> QED
    BY <2>1
<1>3. before \in Nat /\ i * FragBytes = before + FragBytes
  BY <1>1, <1>2
<1>4. (Fragments(d) - 1) * FragBytes < SizeOf[d]
  <2>1. CASE d \in DontFragment
    BY <1>1, <2>1 DEF Fragments
  <2>2. CASE d \notin DontFragment
    <3> DEFINE s == SizeOf[d] + FragBytes - 1
               q == s \div FragBytes
    <3>1. s \in Nat
      BY <1>1
    <3> HIDE DEF s
    <3>2. q \in Nat /\ q * FragBytes <= s
      BY <1>1, <3>1
    <3>3. Fragments(d) = q
      BY <2>2 DEF Fragments, s
    <3> HIDE DEF q
    <3>4. (q - 1) * FragBytes = q * FragBytes - FragBytes /\ q * FragBytes \in Int
      BY <1>1, <3>2
    <3> QED
      BY <1>1, <3>2, <3>3, <3>4 DEF s
  <2> QED
    BY <2>1, <2>2
<1>11. d \notin DontFragment => SizeOf[d] <= Fragments(d) * FragBytes
  <2> SUFFICES ASSUME d \notin DontFragment PROVE SizeOf[d] <= Fragments(d) * FragBytes
    OBVIOUS
  <2> DEFINE s == SizeOf[d] + FragBytes - 1
             q == s \div FragBytes
  <2>1. s \in Nat
    BY <1>1
  <2> HIDE DEF s
  <2>2. q \in Nat /\ s < q * FragBytes + FragBytes
    BY <1>1, <2>1, QuotientLeaves
  <2>3. Fragments(d) = q
    BY DEF Fragments, s
  <2> HIDE DEF q
  <2>4. q * FragBytes \in Nat
    BY <1>1, <2>2
  <2> QED
    BY <1>1, <2>2, <2>3, <2>4 DEF s
<1>5. before <= after /\ after <= SizeOf[d] /\ after \in Nat
  <2>1. CASE i = Fragments(d)
    BY <1>1, <1>3, <1>4, <2>1
  <2>2. CASE i # Fragments(d)
    <3>1. PICK c \in Nat : Fragments(d) - 1 = i + c
      BY <1>2, <2>2
    <3>2. (Fragments(d) - 1) * FragBytes = i * FragBytes + c * FragBytes
          /\ c * FragBytes \in Nat /\ i * FragBytes \in Nat
      BY <1>1, <1>2, <3>1
    <3> QED
      BY <1>1, <1>3, <1>4, <2>2, <3>2
  <2> QED
    BY <2>1, <2>2
<1>6. pkt.data = SubSeq(Payload(d), before + 1, after)
  BY DEF Packet
<1>7. pkt.offset = (i - 1) * FragUnits /\ pkt.offset \in Nat /\ pkt.offset * Scale = before
  <2>1. pkt.offset = (i - 1) * FragUnits
    BY DEF Packet
  <2>2. ((i - 1) * FragUnits) * Scale = (i - 1) * (FragUnits * Scale)
    BY <1>1, <1>2
  <2> QED
    BY <1>1, <1>2, <2>1, <2>2 DEF FragBytes
<1>8. pkt.key = KeyOf[d] /\ pkt.key \in Keys /\ pkt.flags \in {0, 1, 2}
      /\ (pkt.flags # 1 => i = Fragments(d))
  <2>1. d \in DontFragment => i = Fragments(d)
    BY <1>2 DEF Fragments
  <2> QED
    BY <1>2, <2>1 DEF Packet, Keys
<1>12. d \in DontFragment => pkt.flags = 2
  BY DEF Packet
<1>13. d \notin DontFragment => pkt.flags # 2
  BY DEF Packet
<1>14. d \in DontFragment => pkt.offset = 0
  <2>1. d \in DontFragment => i - 1 = 0
    BY <1>2 DEF Fragments
  <2> QED
    BY <1>1, <1>7, <2>1
<1>15. d \notin DontFragment => after - before \in 1..FragBytes
  <2> SUFFICES ASSUME d \notin DontFragment PROVE after - before \in 1..FragBytes
    OBVIOUS
  <2>1. CASE i = Fragments(d)
    BY <1>1, <1>3, <1>4, <1>11, <2>1
  <2>2. CASE i # Fragments(d)
    BY <1>1, <1>3, <2>2
  <2> QED
    BY <2>1, <2>2
<1> HIDE DEF pkt, before, after
<1>9. /\ pkt.data \in Seq(Place) /\ Len(pkt.data) = after - before
      /\ \A j \in 1..Len(pkt.data) : pkt.data[j] = <<d, before + j>>
  <2>1. \A j \in (before + 1)..after : Payload(d)[j] = <<d, j>> /\ <<d, j>> \in Place
    BY <1>1, <1>3, <1>5 DEF Payload, Place
  <2> DEFINE bytes == Payload(d)
  <2>2. \A j \in (before + 1)..after : bytes[j] = <<d, j>> /\ bytes[j] \in Place
    BY <2>1
  <2>3. pkt.data = SubSeq(bytes, before + 1, after)
    BY <1>6
  <2> HIDE DEF bytes
  <2>4. /\ pkt.data \in Seq(Place) /\ Len(pkt.data) = after - before
        /\ \A j \in 1..(after - before) : pkt.data[j] = bytes[before + j]
    BY <1>3, <1>5, <2>2, <2>3, SliceContent
  <2>5. ASSUME NEW j \in 1..(after - before) PROVE pkt.data[j] = <<d, before + j>>
    <3>1. before + j \in (before + 1)..after
      BY <1>3, <1>5
    <3> QED
      BY <2>2, <2>4, <3>1
  <2> QED
    BY <2>4, <2>5
<1>10. pkt.flags # 1 => pkt.offset * Scale + Len(pkt.data) = SizeOf[d]
  BY <1>3, <1>5, <1>7, <1>8, <1>9 DEF after
<1> QED
  BY <1>7, <1>8, <1>9, <1>10, <1>12, <1>13, <1>14, <1>15 DEF pkt

(* What the lemmas below use of a packet. *)
GoodPacket(pkt) ==
  /\ pkt.key \in Keys /\ pkt.offset \in Nat /\ pkt.data \in Seq(Place)
  /\ \A j \in 1..Len(pkt.data) : FromKey(pkt.key, pkt.data[j], pkt.offset * Scale + j)
  /\ pkt.flags # 1 => \E d \in Dgram :
       KeyOf[d] = pkt.key /\ pkt.offset * Scale + Len(pkt.data) = SizeOf[d]
  /\ pkt.flags = 2 => pkt.offset = 0
  /\ pkt.flags # 2 => Len(pkt.data) \in 1..FragBytes

(* The clients' packets have what the lemmas below use. *)
LEMMA PacketsGood ==
  ASSUME NEW d \in Dgram, NEW i \in 1..Fragments(d)
  PROVE  GoodPacket(Packet(d, i))
BY PacketContent DEF GoodPacket, FromKey

------------------------------------------------------------------------------
(* The lists stay good. *)

(* A fragment is put first in the entry of its key. *)
LEMMA StoreGood ==
  ASSUME GoodBuffer(fragmentBuffer), NEW b \in 1..Len(fragmentBuffer),
         NEW frag \in FragType, GoodFrag(fragmentBuffer[b].key, frag)
  PROVE  GoodBuffer(StoreIn(b, frag))
<1> DEFINE buf == fragmentBuffer
           old == buf[b].frags
           new == <<frag>> \o old
           stored == StoreIn(b, frag)
<1>1. buf \in Seq(Entry) /\ Len(buf) \in Nat
  BY DEF GoodBuffer
<1>2. buf[b] \in Entry /\ old \in Seq(FragType) /\ Len(old) \in Nat
  <2>1. buf[b] \in Entry
    BY <1>1, ElementOfSeq
  <2>2. old \in Seq(FragType)
    BY <2>1 DEF Entry
  <2> QED
    BY <2>1, <2>2
<1>3. /\ new \in Seq(FragType) /\ Len(new) = Len(old) + 1 /\ new[1] = frag
      /\ \A j \in 2..Len(new) : new[j] = old[j - 1]
  BY <1>2
<1>4. stored = [buf EXCEPT ![b] = [buf[b] EXCEPT !.frags = new]]
  BY DEF StoreIn
<1>5. [buf[b] EXCEPT !.frags = new] \in Entry
  <2>1. new \in Seq(FragType)
    BY <1>3
  <2> HIDE DEF new
  <2> QED
    BY <1>2, <2>1 DEF Entry
<1>6. /\ stored \in Seq(Entry) /\ Len(stored) = Len(buf)
      /\ stored[b].frags = new /\ stored[b].key = buf[b].key
      /\ \A i \in 1..Len(buf) : i # b => stored[i] = buf[i]
  <2> HIDE DEF new
  <2>1. stored \in Seq(Entry) /\ Len(stored) = Len(buf)
    BY <1>1, <1>4, <1>5, ExceptSeq
  <2>2. stored[b] = [buf[b] EXCEPT !.frags = new]
        /\ \A i \in 1..Len(buf) : i # b => stored[i] = buf[i]
    BY <1>1, <1>4, <1>5, ExceptSeq
  <2> QED
    BY <1>2, <2>1, <2>2 DEF Entry
<1> HIDE DEF new, stored
<1>7. ASSUME NEW i \in 1..Len(stored), NEW j \in 1..Len(stored[i].frags)
      PROVE  GoodFrag(stored[i].key, stored[i].frags[j])
  <2>1. CASE i # b
    BY <1>6, <1>7, <2>1 DEF GoodBuffer
  <2>2. CASE i = b /\ j = 1
    BY <1>3, <1>6, <2>2
  <2>3. CASE i = b /\ j # 1
    <3>1. j \in 1..Len(new) /\ Len(new) = Len(old) + 1 /\ Len(old) \in Nat
      BY <1>2, <1>3, <1>6, <2>3
    <3>2. j \in 2..Len(new) /\ j - 1 \in 1..Len(old)
      BY <2>3, <3>1
    <3>3. new[j] = old[j - 1]
      BY <1>3, <3>2
    <3> QED
      BY <1>6, <2>3, <3>2, <3>3 DEF GoodBuffer
  <2> QED
    BY <2>1, <2>2, <2>3
<1>8. \A i, j \in 1..Len(stored) : stored[i].key = stored[j].key => i = j
  <2>1. \A i \in 1..Len(buf) : stored[i].key = buf[i].key
    BY <1>6
  <2> QED
    BY <1>6, <2>1 DEF GoodBuffer
<1> QED
  BY <1>6, <1>7, <1>8 DEF GoodBuffer, stored

(* A new entry is put first, for a key that has none. *)
LEMMA PrependGood ==
  ASSUME NEW buf, GoodBuffer(buf), NEW key \in Keys,
         \A i \in 1..Len(buf) : buf[i].key # key,
         NEW frag \in FragType, GoodFrag(key, frag)
  PROVE  GoodBuffer(<<[key |-> key, frags |-> <<frag>>]>> \o buf)
<1> DEFINE entry == [key |-> key, frags |-> <<frag>>]
           new == <<entry>> \o buf
<1>1. buf \in Seq(Entry) /\ Len(buf) \in Nat
  BY DEF GoodBuffer
<1>2. /\ entry \in Entry /\ entry.key = key
      /\ \A j \in 1..Len(entry.frags) : GoodFrag(key, entry.frags[j])
  BY DEF Entry
<1> HIDE DEF entry
<1>3. /\ new \in Seq(Entry) /\ Len(new) = Len(buf) + 1 /\ new[1] = entry
      /\ \A i \in 2..Len(new) : new[i] = buf[i - 1]
  BY <1>1, <1>2
<1> HIDE DEF new
<1>4. \A i \in 2..Len(new) : i - 1 \in 1..Len(buf) /\ new[i] = buf[i - 1]
  BY <1>1, <1>3
<1>5. ASSUME NEW i \in 1..Len(new), NEW j \in 1..Len(new[i].frags)
      PROVE  GoodFrag(new[i].key, new[i].frags[j])
  <2>1. CASE i = 1
    BY <1>2, <1>3, <2>1
  <2>2. CASE i # 1
    <3>1. i \in 2..Len(new)
      BY <1>1, <1>3, <2>2
    <3> QED
      BY <1>4, <3>1 DEF GoodBuffer
  <2> QED
    BY <2>1, <2>2
<1>6. ASSUME NEW i \in 1..Len(new), NEW j \in 1..Len(new), new[i].key = new[j].key
      PROVE  i = j
  <2>1. \A k \in 1..Len(new) : k = 1 \/ k \in 2..Len(new)
    BY <1>1, <1>3
  <2>2. new[1].key = key /\ \A k \in 2..Len(new) : new[k].key # key
    BY <1>2, <1>3, <1>4
  <2>3. CASE i = 1 \/ j = 1
    BY <1>6, <2>1, <2>2, <2>3
  <2>4. CASE i \in 2..Len(new) /\ j \in 2..Len(new)
    <3>1. i - 1 = j - 1
      BY <1>4, <1>6, <2>4 DEF GoodBuffer
    <3> QED
      BY <2>4, <3>1
  <2> QED
    BY <2>1, <2>3, <2>4
<1> QED
  BY <1>3, <1>5, <1>6 DEF GoodBuffer, new, entry

(* List.drop from an entry on. *)
LEMMA DropGood ==
  ASSUME NEW buf, GoodBuffer(buf), NEW b \in 1..Len(buf)
  PROVE  GoodBuffer(Drop(buf, b))
<1> DEFINE kept == Drop(buf, b)
<1>1. buf \in Seq(Entry) /\ Len(buf) \in Nat /\ b \in Nat /\ b >= 1 /\ b <= Len(buf)
  BY DEF GoodBuffer
<1>2. /\ kept \in Seq(Entry) /\ Len(kept) = Len(buf) - (b - 1)
      /\ \A i \in 1..Len(kept) : kept[i] = buf[(b - 1) + i]
  <2> DEFINE a == b - 1
  <2>1. /\ a \in Nat /\ a <= Len(buf) /\ \A j \in (a + 1)..Len(buf) : buf[j] \in Entry
        /\ kept = SubSeq(buf, a + 1, Len(buf))
    BY <1>1 DEF Drop
  <2> HIDE DEF kept, a
  <2>2. /\ kept \in Seq(Entry) /\ Len(kept) = Len(buf) - a
        /\ \A i \in 1..(Len(buf) - a) : kept[i] = buf[a + i]
    BY <1>1, <2>1, SliceContent
  <2> QED
    BY <2>2 DEF a
<1> HIDE DEF kept
<1>3. \A i \in 1..Len(kept) : (b - 1) + i \in 1..Len(buf)
  BY <1>1, <1>2
<1>4. ASSUME NEW i \in 1..Len(kept), NEW j \in 1..Len(kept), kept[i].key = kept[j].key
      PROVE  i = j
  <2>1. (b - 1) + i = (b - 1) + j
    BY <1>2, <1>3, <1>4, SMTT(30) DEF GoodBuffer
  <2> QED
    BY <1>1, <2>1
<1>5. ASSUME NEW i \in 1..Len(kept), NEW j \in 1..Len(kept[i].frags)
      PROVE  GoodFrag(kept[i].key, kept[i].frags[j])
  BY <1>2, <1>3 DEF GoodBuffer
<1> QED
  BY <1>2, <1>4, <1>5 DEF GoodBuffer, kept

(* List.drop leaves arrays that were there.                                *)
LEMMA DropKeeps ==
  ASSUME NEW asm, GoodList(asm), NEW s \in 1..Len(asm)
  PROVE  GoodList(Drop(asm, s))
<1>1. asm \in Seq(Assembled) /\ Len(asm) \in Nat
  BY DEF GoodList
<1>2. /\ Drop(asm, s) \in Seq(Assembled) /\ Len(Drop(asm, s)) = Len(asm) - s + 1
      /\ \A i \in 1..(Len(asm) - s + 1) : Drop(asm, s)[i] = asm[s + i - 1]
  BY <1>1 DEF Drop
<1>3. \A i \in 1..(Len(asm) - s + 1) : s + i - 1 \in 1..Len(asm)
  BY <1>1
<1> QED
  BY <1>2, <1>3 DEF GoodList

(* A stored byte of a key is one of that key's datagrams. *)
LEMMA OwnPlace ==
  ASSUME NEW key, NEW data \in Seq(Place), NEW at,
         \A j \in 1..Len(data) : FromKey(key, data[j], at + j)
  PROVE  \A j \in 1..Len(data) : OfKey(key, data[j])
<1> SUFFICES ASSUME NEW j \in 1..Len(data) PROVE OfKey(key, data[j])
  OBVIOUS
<1>1. PICK d \in Dgram : KeyOf[d] = key /\ data[j] = <<d, at + j>>
  BY DEF FromKey
<1>2. data[j] \in Place
  OBVIOUS
<1>3. PICK e \in Dgram : \E k \in 1..SizeOf[e] : data[j] = <<e, k>>
  BY <1>2 DEF Place
<1>4. e = d
  BY <1>1, <1>3
<1> QED
  BY <1>1, <1>3, <1>4 DEF OfKey

(* addFragment leaves one entry per key and puts a fragment only under its *)
(* own key; into an array it writes bytes of the array's key only.         *)
LEMMA AddFragmentGood ==
  ASSUME ReassemblyInv, NEW pkt, GoodPacket(pkt), pkt.flags # 2
  PROVE  GoodBuffer(AddFragment(pkt).buf) /\ GoodList(AddFragment(pkt).asm)
<1> DEFINE b == Find(fragmentBuffer, pkt.key)
           s == Find(assemblingList, pkt.key)
           frag == [data |-> pkt.data, offset |-> pkt.offset]
<1>1. /\ GoodBuffer(fragmentBuffer) /\ fragmentBuffer \in Seq(Entry)
      /\ assemblingList \in Seq(Assembled) /\ GoodList(assemblingList)
  BY DEF ReassemblyInv, GoodBuffer, GoodList
<1>2. frag \in FragType /\ GoodFrag(pkt.key, frag) /\ pkt.key \in Keys
  BY DEF GoodPacket, FragType, GoodFrag
<1>3. \/ b = 0 /\ \A j \in 1..Len(fragmentBuffer) : fragmentBuffer[j].key # pkt.key
      \/ b # 0 /\ b \in 1..Len(fragmentBuffer) /\ fragmentBuffer[b].key = pkt.key
  <2>1. fragmentBuffer \in Seq(Entry) /\ Len(fragmentBuffer) \in Nat
    BY <1>1
  <2> QED
    BY <2>1, FindFirst
<1>4. \/ s = 0
      \/ s # 0 /\ s \in 1..Len(assemblingList) /\ assemblingList[s].key = pkt.key
  <2>1. assemblingList \in Seq(Assembled) /\ Len(assemblingList) \in Nat
    BY <1>1
  <2> QED
    BY <2>1, FindFirst
<1>5. CASE b # 0
  <2>1. AddFragment(pkt).buf = StoreIn(b, frag) /\ AddFragment(pkt).asm = assemblingList
    BY <1>5 DEF AddFragment
  <2> HIDE DEF b, frag
  <2> QED
    BY <1>1, <1>2, <1>3, <1>5, <2>1, StoreGood
<1>6. CASE b = 0 /\ s # 0
  <2> DEFINE arr == assemblingList[s].arr
             written == Write(arr, pkt.offset, pkt.data)
  <2>1. /\ AddFragment(pkt).buf = fragmentBuffer
        /\ AddFragment(pkt).asm = [assemblingList EXCEPT ![s].arr = written]
    BY <1>6 DEF AddFragment
  <2> HIDE DEF b, s
  <2>2. assemblingList[s] \in Assembled /\ arr \in Seq(Cell)
    <3>1. assemblingList[s] \in Assembled
      BY <1>1, <1>4, <1>6, ElementOfSeq
    <3> QED
      BY <3>1 DEF Assembled
  <2>3. /\ written \in Seq(Cell) /\ Len(written) = Len(arr)
        /\ \A i \in 1..Len(arr) :
             \/ written[i] = arr[i]
             \/ \E j \in 1..Len(pkt.data) : written[i] = pkt.data[j]
    <3>1. /\ DOMAIN arr = 1..Len(arr) /\ Len(arr) \in Nat
          /\ \A i \in 1..Len(arr) : arr[i] \in Cell
      BY <2>2
    <3>2. /\ pkt.offset \in Nat /\ Len(pkt.data) \in Nat
          /\ \A i \in 1..Len(pkt.data) : pkt.data[i] \in Cell
      BY DEF GoodPacket, Cell
    <3>3. \A i \in 1..Len(arr) : written[i] \in Cell
      BY <3>1, <3>2 DEF Write
    <3>4. written = [i \in 1..Len(arr) |-> written[i]]
      BY <3>1 DEF Write
    <3>5. ASSUME NEW i \in 1..Len(arr)
          PROVE  \/ written[i] = arr[i]
                 \/ \E j \in 1..Len(pkt.data) : written[i] = pkt.data[j]
      <4>1. CASE i > pkt.offset /\ i - pkt.offset <= Len(pkt.data)
        <5>1. i - pkt.offset \in 1..Len(pkt.data)
          BY <3>2, <4>1
        <5>2. written[i] = pkt.data[i - pkt.offset]
          BY <3>1, <4>1 DEF Write
        <5> QED
          BY <5>1, <5>2
      <4>2. CASE ~(i > pkt.offset /\ i - pkt.offset <= Len(pkt.data))
        BY <3>1, <4>2 DEF Write
      <4> QED
        BY <4>1, <4>2
    <3> HIDE DEF arr, written
    <3> QED
      BY <3>1, <3>3, <3>4, <3>5
  <2> DEFINE new == [assemblingList[s] EXCEPT !.arr = written]
  <2>a. GoodArray(assemblingList[s]) /\ assemblingList[s].key = pkt.key
    BY <1>1, <1>4, <1>6 DEF GoodList
  <2>b. \A j \in 1..Len(pkt.data) : OfKey(pkt.key, pkt.data[j])
    BY OwnPlace DEF GoodPacket
  <2> HIDE DEF written
  <2>c. new.key = pkt.key /\ new.arr = written
    BY <2>2, <2>a DEF Assembled
  <2>d. GoodArray(new)
    <3>1. /\ \E d \in Dgram : KeyOf[d] = pkt.key /\ Len(arr) = SizeOf[d]
          /\ \A j \in 1..Len(arr) : arr[j] = Zero \/ OfKey(pkt.key, arr[j])
      BY <2>a DEF GoodArray
    <3> HIDE DEF arr, new
    <3>2. ASSUME NEW i \in 1..Len(written) PROVE written[i] = Zero \/ OfKey(pkt.key, written[i])
      <4>1. CASE written[i] = arr[i]
        BY <2>3, <3>1, <4>1
      <4>2. CASE \E j \in 1..Len(pkt.data) : written[i] = pkt.data[j]
        BY <2>b, <4>2
      <4> QED
        BY <2>3, <4>1, <4>2
    <3> QED
      BY <2>3, <2>c, <3>1, <3>2 DEF GoodArray
  <2> HIDE DEF arr
  <2>4. new \in Assembled
    BY <2>2, <2>3 DEF Assembled
  <2>5. AddFragment(pkt).asm
          = [assemblingList EXCEPT ![s] = new]
    BY <2>1
  <2> HIDE DEF new
  <2>6. GoodList(AddFragment(pkt).asm)
    <3>1. /\ AddFragment(pkt).asm \in Seq(Assembled)
          /\ Len(AddFragment(pkt).asm) = Len(assemblingList)
      BY <1>1, <1>4, <1>6, <2>4, <2>5, ExceptSeq
    <3>2. ASSUME NEW i \in 1..Len(assemblingList)
          PROVE  GoodArray(AddFragment(pkt).asm[i])
      <4>1. AddFragment(pkt).asm[i] = IF i = s THEN new ELSE assemblingList[i]
        BY <1>1, <2>5
      <4> QED
        BY <1>1, <2>d, <4>1 DEF GoodList
    <3> QED
      BY <3>1, <3>2 DEF GoodList
  <2> QED
    BY <1>1, <2>1, <2>6
<1>7. CASE b = 0 /\ s = 0
  <2>1. /\ AddFragment(pkt).buf = <<[key |-> pkt.key, frags |-> <<frag>>]>> \o fragmentBuffer
        /\ AddFragment(pkt).asm = assemblingList
    BY <1>7 DEF AddFragment
  <2> HIDE DEF b, s, frag
  <2> QED
    BY <1>1, <1>2, <1>3, <1>7, <2>1, PrependGood
<1> QED
  BY <1>5, <1>6, <1>7

(* A byte of the array is \000 or one that a fragment has for that place.  *)
LEMMA ByteGood ==
  ASSUME NEW key, NEW frags \in Seq(FragType),
         \A j \in 1..Len(frags) : GoodFrag(key, frags[j]),
         NEW i \in Nat
  PROVE  /\ Byte(frags, i) \in Cell
         /\ Byte(frags, i) = Zero \/ FromKey(key, Byte(frags, i), i)
<1> DEFINE js == Covering(frags, i)
           j == CHOOSE k \in js : \A l \in js : l <= k
<1>1. DOMAIN frags = 1..Len(frags) /\ Len(frags) \in Nat
  OBVIOUS
<1>2. js \subseteq 1..Len(frags)
  BY <1>1 DEF Covering
<1>3. CASE js = {}
  BY <1>3 DEF Byte, Cell
<1>4. CASE js # {}
  <2> DEFINE at == frags[j].offset * Scale
  <2>1. j \in js
    <3> HIDE DEF js
    <3> QED
      BY <1>1, <1>2, <1>4, LargestExists
  <2>2. Byte(frags, i) = frags[j].data[i - at]
    BY <1>4 DEF Byte
  <2>3. j \in 1..Len(frags) /\ i > at /\ i - at <= Len(frags[j].data)
    BY <1>1, <2>1 DEF Covering
  <2> HIDE DEF js, j
  <2>4. frags[j] \in FragType /\ GoodFrag(key, frags[j])
    BY <2>3, ElementOfSeq
  <2>5. frags[j].offset \in Nat /\ frags[j].data \in Seq(Place) /\ at \in Nat
    BY <2>4, ReassemblyAssumption DEF FragType
  <2>6. i - at \in 1..Len(frags[j].data) /\ at + (i - at) = i
    BY <2>3, <2>5
  <2>7. frags[j].data[i - at] \in Place /\ FromKey(key, frags[j].data[i - at], i)
    BY <2>4, <2>5, <2>6 DEF GoodFrag
  <2> QED
    BY <2>2, <2>7 DEF Cell
<1> QED
  BY <1>3, <1>4

(* initAssembling puts the datagram together from the fragments under its  *)
(* key, in an array that assemblePacket then finds first.                  *)
LEMMA InitAssemblingGood ==
  ASSUME NEW buf, GoodBuffer(buf), NEW asm, GoodList(asm),
         NEW pkt, GoodPacket(pkt), pkt.flags # 1
  PROVE  LET built == InitAssembling(pkt, buf, asm)
             s == Find(built.asm, pkt.key)
             o == [key |-> pkt.key, data |-> built.asm[s].arr]
         IN /\ GoodBuffer(built.buf)
            /\ GoodList(built.asm) /\ s \in 1..Len(built.asm)
            /\ o \in Handed /\ GoodPayload(o)
<1> DEFINE built == InitAssembling(pkt, buf, asm)
           s == Find(built.asm, pkt.key)
           b == Find(buf, pkt.key)
           frags == IF b = 0 THEN <<>> ELSE buf[b].frags
           len == pkt.offset * Scale + Len(pkt.data)
           arr == [i \in 1..len |-> Byte(frags, i)]
           entry == [key |-> pkt.key, arr |-> arr]
           o == [key |-> pkt.key, data |-> arr]
<1>1. /\ built.buf = IF b = 0 THEN buf ELSE Drop(buf, b)
      /\ built.asm = <<entry>> \o asm
  BY DEF InitAssembling
<1>2. buf \in Seq(Entry) /\ (b = 0 \/ (b # 0 /\ b \in 1..Len(buf) /\ buf[b].key = pkt.key))
  <2>1. buf \in Seq(Entry) /\ Len(buf) \in Nat
    BY DEF GoodBuffer
  <2> QED
    BY <2>1, FindFirst
<1> HIDE DEF built, b
<1>3. GoodBuffer(built.buf)
  BY <1>1, <1>2, DropGood
<1>4. frags \in Seq(FragType) /\ \A j \in 1..Len(frags) : GoodFrag(pkt.key, frags[j])
  <2>1. CASE b = 0
    BY <2>1
  <2>2. CASE b # 0
    <3>1. buf[b] \in Entry
      BY <1>2, <2>2, ElementOfSeq
    <3> QED
      BY <1>2, <2>2, <3>1 DEF Entry, GoodBuffer
  <2> QED
    BY <2>1, <2>2
<1> HIDE DEF frags
<1>5. len \in Nat /\ \E d \in Dgram : KeyOf[d] = pkt.key /\ len = SizeOf[d]
  BY ReassemblyAssumption DEF GoodPacket
<1> HIDE DEF len
<1>6. \A i \in 1..len : /\ Byte(frags, i) \in Cell
                        /\ Byte(frags, i) = Zero \/ FromKey(pkt.key, Byte(frags, i), i)
  BY <1>4, <1>5, ByteGood
<1>7. /\ arr \in Seq(Cell) /\ Len(arr) = len
      /\ \A i \in 1..len : arr[i] = Zero \/ FromKey(pkt.key, arr[i], i)
  BY <1>5, <1>6
<1>a. \A i \in 1..len : arr[i] = Zero \/ OfKey(pkt.key, arr[i])
  <2> SUFFICES ASSUME NEW i \in 1..len, arr[i] # Zero PROVE OfKey(pkt.key, arr[i])
    OBVIOUS
  <2>1. arr[i] \in Place
    BY <1>5, <1>7 DEF Cell
  <2>2. FromKey(pkt.key, arr[i], i)
    BY <1>7
  <2> HIDE DEF arr
  <2>3. PICK d \in Dgram : KeyOf[d] = pkt.key /\ arr[i] = <<d, i>>
    BY <2>2 DEF FromKey
  <2>4. PICK e \in Dgram : \E k \in 1..SizeOf[e] : arr[i] = <<e, k>>
    BY <2>1 DEF Place
  <2>5. e = d
    BY <2>3, <2>4
  <2> QED
    BY <2>3, <2>4, <2>5 DEF OfKey
<1> HIDE DEF arr
<1>8. pkt.key \in Keys
  BY DEF GoodPacket
<1>9. o \in Handed /\ GoodPayload(o)
  BY <1>5, <1>7, <1>8 DEF Handed, GoodPayload
<1>10. entry \in Assembled /\ entry.key = pkt.key /\ entry.arr = arr
  BY <1>7, <1>8 DEF Assembled
<1>b. GoodArray(entry)
  BY <1>5, <1>7, <1>a DEF GoodArray
<1> HIDE DEF entry
<1>11. /\ built.asm \in Seq(Assembled) /\ Len(built.asm) = Len(asm) + 1
       /\ built.asm[1] = entry /\ Len(asm) \in Nat
       /\ \A i \in 1..Len(asm) : built.asm[i + 1] = asm[i]
  BY <1>1, <1>10 DEF GoodList
<1>c. GoodList(built.asm)
  <2>1. ASSUME NEW i \in 1..Len(built.asm) PROVE GoodArray(built.asm[i])
    <3>1. CASE i = 1
      BY <1>11, <1>b, <3>1
    <3>2. CASE i # 1
      <4>1. i - 1 \in 1..Len(asm) /\ built.asm[(i - 1) + 1] = asm[i - 1] /\ (i - 1) + 1 = i
        BY <1>11, <3>2
      <4> QED
        BY <4>1 DEF GoodList
    <3> QED
      BY <3>1, <3>2
  <2> QED
    BY <1>11, <2>1 DEF GoodList
<1>12. s = 1
  <2>1. 1 \in 1..Len(built.asm) /\ built.asm[1].key = pkt.key
    BY <1>10, <1>11
  <2>2. s \in 1..Len(built.asm) /\ s <= 1
    BY <1>11, <2>1, FindFirst
  <2> QED
    BY <1>11, <2>2
<1>13. s \in 1..Len(built.asm) /\ built.asm[s].arr = arr
  BY <1>10, <1>11, <1>12
<1> HIDE DEF s
<1> QED
  BY <1>3, <1>9, <1>c, <1>13 DEF built, s

------------------------------------------------------------------------------
(* handleIPv4. *)

(* What is handed up next. *)
LEMMA HandUpGood ==
  ASSUME ReassemblyInv, NEW key, NEW data, HandUp(key, data),
         [key |-> key, data |-> data] \in Handed, GoodPayload([key |-> key, data |-> data])
  PROVE  out' \in Seq(Handed) /\ \A i \in 1..Len(out') : GoodPayload(out'[i])
<1> DEFINE o == [key |-> key, data |-> data]
<1>1. out \in Seq(Handed) /\ Len(out) \in Nat /\ out' = Append(out, o)
  BY DEF ReassemblyInv, HandUp
<1> HIDE DEF o
<1>2. /\ out' \in Seq(Handed) /\ Len(out') = Len(out) + 1 /\ out'[Len(out')] = o
      /\ \A i \in 1..Len(out) : out'[i] = out[i]
  BY <1>1 DEF o
<1>3. ASSUME NEW i \in 1..Len(out') PROVE GoodPayload(out'[i])
  <2>1. CASE i = Len(out')
    BY <1>2, <2>1 DEF o
  <2>2. CASE i # Len(out')
    BY <1>1, <1>2, <2>2 DEF ReassemblyInv
  <2> QED
    BY <2>1, <2>2
<1> QED
  BY <1>2, <1>3

(* Whatever packet comes, into whatever lists. *)
LEMMA HandleGood ==
  ASSUME ReassemblyInv, NEW pkt, GoodPacket(pkt), Handle(pkt)
  PROVE  ReassemblyInv'
<1>1. CASE HandleWhole(pkt)
  <2> DEFINE o == [key |-> pkt.key, data |-> pkt.data]
  <2>1. pkt.offset * Scale = 0
    BY <1>1, ReassemblyAssumption DEF HandleWhole
  <2>2. o \in Handed
    <3>1. pkt.data \in Seq(Cell)
      <4>1. pkt.data \in Seq(Place) /\ Place \subseteq Cell
        BY DEF GoodPacket, Cell
      <4> QED
        BY <4>1, SeqMonotonic
    <3> QED
      BY <3>1 DEF Handed, GoodPacket
  <2>3. /\ \E d \in Dgram : KeyOf[d] = pkt.key /\ Len(pkt.data) = SizeOf[d]
        /\ \A j \in 1..Len(pkt.data) : FromKey(pkt.key, pkt.data[j], j)
    <3>1. Len(pkt.data) \in Nat /\ pkt.flags # 1
      BY <1>1 DEF GoodPacket, HandleWhole
    <3> QED
      BY <2>1, <3>1 DEF GoodPacket
  <2>4. GoodPayload(o)
    BY <2>3 DEF GoodPayload
  <2>5. out' \in Seq(Handed) /\ \A i \in 1..Len(out') : GoodPayload(out'[i])
    BY <1>1, <2>2, <2>4, HandUpGood DEF HandleWhole
  <2> QED
    BY <1>1, <2>5 DEF HandleWhole, ReassemblyInv
<1>2. CASE HandleFragment(pkt)
  <2>1. pkt.flags # 2
    BY <1>2 DEF HandleFragment, GoodPacket
  <2> QED
    BY <1>2, <2>1, AddFragmentGood DEF HandleFragment, ReassemblyInv
<1>3. CASE HandleLast(pkt)
  <2> DEFINE added == AddFragment(pkt)
             built == InitAssembling(pkt, added.buf, added.asm)
             s == Find(built.asm, pkt.key)
             o == [key |-> pkt.key, data |-> built.asm[s].arr]
  <2>2. pkt.flags # 1 /\ pkt.flags # 2
    BY <1>3 DEF HandleLast
  <2>1. GoodBuffer(added.buf) /\ GoodList(added.asm)
    BY <2>2, AddFragmentGood
  <2>3. \/ /\ fragmentBuffer' = built.buf
           /\ assemblingList' = Drop(built.asm, s)
           /\ HandUp(pkt.key, built.asm[s].arr)
        \/ /\ fragmentBuffer' = added.buf
           /\ assemblingList' = added.asm
           /\ UNCHANGED out
    BY <1>3 DEF HandleLast
  <2> HIDE DEF added
  <2>4. /\ GoodBuffer(built.buf)
        /\ GoodList(built.asm) /\ s \in 1..Len(built.asm)
        /\ o \in Handed /\ GoodPayload(o)
    BY <2>1, <2>2, InitAssemblingGood
  <2> HIDE DEF built, s
  <2>5. CASE /\ fragmentBuffer' = built.buf
             /\ assemblingList' = Drop(built.asm, s)
             /\ HandUp(pkt.key, built.asm[s].arr)
    <3>1. GoodList(Drop(built.asm, s))
      BY <2>4, DropKeeps
    <3>2. out' \in Seq(Handed) /\ \A i \in 1..Len(out') : GoodPayload(out'[i])
      BY <2>4, <2>5, HandUpGood
    <3> QED
      BY <2>4, <2>5, <3>1, <3>2 DEF ReassemblyInv
  <2>6. CASE /\ fragmentBuffer' = added.buf
             /\ assemblingList' = added.asm
             /\ UNCHANGED out
    BY <2>1, <2>6 DEF ReassemblyInv
  <2> QED
    BY <2>3, <2>5, <2>6
<1> QED
  BY <1>1, <1>2, <1>3 DEF Handle

------------------------------------------------------------------------------
(* Whatever the network does with the clients' packets: fragmentBuffer has *)
(* one entry per key; its fragments and the payloads handed up hold only   *)
(* bytes of their key's datagrams, at their places; and every array of     *)
(* assemblingList, which may have several for a key, only bytes of its     *)
(* key's datagrams, at any place.                                          *)
THEOREM ReassemblyInvariance == Spec => []ReassemblyInv
<1>1. Init => ReassemblyInv
  <2> SUFFICES ASSUME Init PROVE ReassemblyInv
    OBVIOUS
  <2>1. /\ Len(fragmentBuffer) = 0 /\ Len(out) = 0 /\ fragmentBuffer \in Seq(Entry)
        /\ assemblingList \in Seq(Assembled) /\ Len(assemblingList) = 0
        /\ out \in Seq(Handed)
    BY EmptySeq DEF Init
  <2> QED
    BY <2>1 DEF ReassemblyInv, GoodBuffer, GoodList
<1>2. ReassemblyInv /\ [Next]_vars => ReassemblyInv'
  <2> SUFFICES ASSUME ReassemblyInv, [Next]_vars PROVE ReassemblyInv'
    OBVIOUS
  <2>1. ASSUME NEW d \in Dgram, NEW i \in 1..Fragments(d), Arrive(d, i)
        PROVE  ReassemblyInv'
    BY <2>1, PacketsGood, HandleGood DEF Arrive
  <2>2. CASE UNCHANGED vars
    BY <2>2 DEF vars, ReassemblyInv
  <2> QED
    BY <2>1, <2>2 DEF Next
<1> QED
  BY <1>1, <1>2, PTL DEF Spec

(* What the two lists and the payloads consist of: addFragment stores no   *)
(* fragment longer than a client's, and no empty one.                      *)
THEOREM ReassemblyTypes == Spec => []TypeOK
<1> DEFINE Arrivals == arrived \in [Dgram -> Nat]
<1>1. Init => Arrivals
  BY DEF Init
<1>2. Arrivals /\ [Next]_vars => Arrivals'
  BY DEF Next, Arrive, vars
<1>3. ReassemblyInv /\ Arrivals => TypeOK
  <2> SUFFICES ASSUME ReassemblyInv, Arrivals PROVE TypeOK
    OBVIOUS
  <2>1. Place = Bytes \ {Zero} /\ Cell = Bytes
    <3>1. \A d \in Dgram : \A i \in 1..SizeOf[d] : Zero # <<d, i>>
      BY ReassemblyAssumption
    <3>2. Zero \notin Place
      BY <3>1 DEF Place
    <3>3. Cell = Bytes
      BY DEF Place, Cell, Bytes
    <3> QED
      BY <3>2, <3>3 DEF Cell
  <2>2. ASSUME NEW i \in DOMAIN fragmentBuffer
        PROVE  /\ fragmentBuffer[i].key \in Keys
               /\ \A j \in DOMAIN fragmentBuffer[i].frags :
                    fragmentBuffer[i].frags[j] \in FragType
    <3>1. fragmentBuffer[i] \in Entry
      BY ElementOfSeq DEF ReassemblyInv, GoodBuffer
    <3>2. fragmentBuffer[i].key \in Keys /\ fragmentBuffer[i].frags \in Seq(FragType)
      BY <3>1 DEF Entry
    <3> QED
      BY <3>2
  <2>3. ASSUME NEW i \in DOMAIN assemblingList
        PROVE  assemblingList[i].key \in Keys /\ assemblingList[i].arr \in Seq(Cell)
    <3>1. assemblingList[i] \in Assembled
      BY ElementOfSeq DEF ReassemblyInv, GoodList
    <3> QED
      BY <3>1 DEF Assembled
  <2>4. ASSUME NEW i \in DOMAIN out
        PROVE  out[i].key \in Keys /\ out[i].data \in Seq(Cell)
    <3>1. out[i] \in Handed
      BY ElementOfSeq DEF ReassemblyInv
    <3> QED
      BY <3>1 DEF Handed
  <2>5. \A f \in FragType :
          f.offset \in Nat /\ f.data \in Seq(Place) /\ Len(f.data) \in 1..FragBytes
    BY DEF FragType
  <2> QED
    BY <2>1, <2>2, <2>3, <2>4, <2>5 DEF TypeOK
<1> QED
  BY <1>1, <1>2, <1>3, ReassemblyInvariance, PTL DEF Spec

(* One client's bytes never reach another, and no byte is moved, for every *)
(* network and also when identifications are used again: a payload handed  *)
(* up has only bytes of datagrams with its key, each at its place, or \000,*)
(* and an array kept in assemblingList only such bytes, or \000.           *)
THEOREM ClientsIsolated == Spec => []Isolation
<1>1. ReassemblyInv => Isolation
  <2> SUFFICES ASSUME ReassemblyInv PROVE Isolation
    OBVIOUS
  <2>1. DOMAIN out = 1..Len(out)
    BY DEF ReassemblyInv
  <2>2. ASSUME NEW i \in 1..Len(out) PROVE DOMAIN out[i].data = 1..Len(out[i].data)
    <3>1. out[i] \in Handed
      BY ElementOfSeq DEF ReassemblyInv
    <3>2. out[i].data \in Seq(Cell)
      BY <3>1 DEF Handed
    <3> QED
      BY <3>2
  <2>3. PayloadsIsolated
    BY <2>1, <2>2 DEF ReassemblyInv, GoodPayload, FromKey, PayloadsIsolated
  <2>4. ASSUME NEW i \in DOMAIN assemblingList
        PROVE  GoodArray(assemblingList[i])
               /\ DOMAIN assemblingList[i].arr = 1..Len(assemblingList[i].arr)
    <3>1. assemblingList[i] \in Assembled /\ GoodArray(assemblingList[i])
      BY ElementOfSeq DEF ReassemblyInv, GoodList
    <3>2. assemblingList[i].arr \in Seq(Cell)
      BY <3>1 DEF Assembled
    <3> QED
      BY <3>1, <3>2
  <2>5. ArraysIsolated
    BY <2>4 DEF GoodArray, OfKey, ArraysIsolated
  <2> QED
    BY <2>3, <2>5 DEF Isolation
<1> QED
  BY <1>1, ReassemblyInvariance, PTL

(* In fragmentBuffer, List.find and findi never have two entries for a key *)
(* to choose from.  (In assemblingList they do: its newest is found.)      *)
THEOREM KeysUnique == Spec => []OneEntryPerKey
<1>1. ReassemblyInv => OneEntryPerKey
  <2> SUFFICES ASSUME ReassemblyInv PROVE OneEntryPerKey
    OBVIOUS
  <2>1. DOMAIN fragmentBuffer = 1..Len(fragmentBuffer)
    BY DEF ReassemblyInv, GoodBuffer
  <2> QED
    BY <2>1 DEF ReassemblyInv, GoodBuffer, OneEntryPerKey
<1> QED
  BY <1>1, ReassemblyInvariance, PTL
=============================================================================
