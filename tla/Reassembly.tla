----------------------------- MODULE Reassembly ------------------------------
(***************************************************************************)
(* What handleIPv4 does with fragments (Libs/networklib/networklib.sml):   *)
(* the lists fragmentBuffer and assemblingList, and the payloads it hands  *)
(* up.  An IPv4 packet is a record; a byte of payload is the datagram it   *)
(* comes from and its place there.  The sender and the network are         *)
(* external: clients cut a datagram into fragments, the network brings     *)
(* them.                                                                   *)
(***************************************************************************)
EXTENDS Naturals, Sequences, FiniteSets

CONSTANTS
  Dgram,        \* the datagrams clients send
  KeyOf,        \* the packetID (source address, identification, protocol) of each
  SizeOf,       \* the payload bytes of each
  DontFragment, \* those sent in one packet with the DF flag
  Scale,        \* bytes per unit of the fragment offset (8)
  FragUnits,    \* units a client puts in each fragment but the last
  Network,      \* how fragments arrive: see Arrive
  MaxArrivals,  \* packets of one datagram that arrive when Network = "any" (bound)
  Zero          \* the byte \000

ASSUME ReassemblyAssumption ==
  /\ SizeOf \in [Dgram -> Nat \ {0}] /\ DontFragment \subseteq Dgram
  /\ Scale \in Nat \ {0} /\ FragUnits \in Nat \ {0} /\ MaxArrivals \in Nat
  /\ Network \in {"serial", "inorder", "any"}
  /\ \A d \in Dgram : \A i \in 1..SizeOf[d] : Zero # <<d, i>>

VARIABLES
  fragmentBuffer,  \* list of [key, frags], the newest first, frags newest first
  assemblingList,  \* list of [key, arr], the newest first
  out,             \* the payloads handed up, in order: [key, data]
  arrived          \* how many packets of each datagram came

vars == <<fragmentBuffer, assemblingList, out, arrived>>

------------------------------------------------------------------------------
(* The clients' fragments. *)

Payload(d) == [i \in 1..SizeOf[d] |-> <<d, i>>]
FragBytes == FragUnits * Scale
Fragments(d) == IF d \in DontFragment THEN 1
                ELSE (SizeOf[d] + FragBytes - 1) \div FragBytes

(* The i-th packet of datagram d: flags are 2 for DF, 1 for more fragments. *)
Packet(d, i) ==
  [key |-> KeyOf[d],
   flags |-> IF d \in DontFragment THEN 2 ELSE IF i < Fragments(d) THEN 1 ELSE 0,
   offset |-> (i - 1) * FragUnits,
   data |-> IF i = Fragments(d)
            THEN SubSeq(Payload(d), (i - 1) * FragBytes + 1, SizeOf[d])
            ELSE SubSeq(Payload(d), (i - 1) * FragBytes + 1, i * FragBytes)]

------------------------------------------------------------------------------
(* The two lists. *)

(* List.find and findi: the first entry for the key, 0 if there is none.   *)
FindAny(list, key) == IF list = <<>> THEN 0 ELSE 1                  \* mutant
Find(list, key) ==
  LET at == {i \in DOMAIN list : list[i].key = key}
  IN IF at = {} THEN 0 ELSE CHOOSE i \in at : \A j \in at : i <= j

Drop(list, i) == SubSeq(list, i, Len(list))

(* updatePacketArray: bytes are stored until the payload or the array ends; *)
(* Subscript is raised if the array ends first.                             *)
Write(arr, at, data) ==
  [i \in DOMAIN arr |-> IF i > at /\ i - at <= Len(data) THEN data[i - at] ELSE arr[i]]
Fits(len, at, data) == at + Len(data) <= len

(* Where a fragment goes for a key that has an entry. *)
StoreNewEntry(b, frag) ==                                         \* mutant
  <<[key |-> fragmentBuffer[b].key, frags |-> <<frag>>]>> \o fragmentBuffer
StoreIn(b, frag) == [fragmentBuffer EXCEPT ![b].frags = <<frag>> \o @]

(* addFragment: the new lists, and whether no exception was raised.  For a *)
(* key that is only in assemblingList the offset is not scaled.            *)
AddFragment(pkt) ==
  LET b == Find(fragmentBuffer, pkt.key)
      s == Find(assemblingList, pkt.key)
      frag == [data |-> pkt.data, offset |-> pkt.offset]
  IN CASE b # 0 ->
            [buf |-> StoreIn(b, frag),
             asm |-> assemblingList, ok |-> TRUE]
       [] b = 0 /\ s # 0 ->
            [buf |-> fragmentBuffer,
             asm |-> [assemblingList EXCEPT ![s].arr = Write(@, pkt.offset, pkt.data)],
             ok |-> Fits(Len(assemblingList[s].arr), pkt.offset, pkt.data)]
       [] b = 0 /\ s = 0 ->
            [buf |-> <<[key |-> pkt.key, frags |-> <<frag>>]>> \o fragmentBuffer,
             asm |-> assemblingList, ok |-> TRUE]

(* List.app over the fragments, newest first: where two cover a byte the   *)
(* oldest stores it last.                                                  *)
Covering(frags, i) ==
  {j \in DOMAIN frags : LET at == frags[j].offset * Scale
                        IN i > at /\ i - at <= Len(frags[j].data)}
Byte(frags, i) ==
  LET js == Covering(frags, i)
      j == CHOOSE k \in js : \A l \in js : l <= k
  IN IF js = {} THEN Zero ELSE frags[j].data[i - frags[j].offset * Scale]

(* initAssembling, on the lists addFragment left. *)
InitAssembling(pkt, buf, asm) ==
  LET len == pkt.offset * Scale + Len(pkt.data)
      b == Find(buf, pkt.key)
      frags == IF b = 0 THEN <<>> ELSE buf[b].frags
  IN [buf |-> IF b = 0 THEN buf ELSE Drop(buf, b),
      asm |-> <<[key |-> pkt.key, arr |-> [i \in 1..len |-> Byte(frags, i)]]>> \o asm,
      ok |-> \A j \in DOMAIN frags : Fits(len, frags[j].offset * Scale, frags[j].data)]

------------------------------------------------------------------------------
(* handleIPv4 *)

HandUp(key, data) == out' = Append(out, [key |-> key, data |-> data])

(* A packet that is a whole datagram with DF set goes straight up. *)
HandleWhole(pkt) ==
  /\ pkt.offset = 0 /\ pkt.flags = 2
  /\ HandUp(pkt.key, pkt.data)
  /\ UNCHANGED <<fragmentBuffer, assemblingList>>

(* A fragment with more to come is stored; an exception in addFragment is  *)
(* caught by listen, and what was stored stays.                            *)
HandleFragment(pkt) ==
  /\ ~(pkt.offset = 0 /\ pkt.flags = 2) /\ pkt.flags # 0
  /\ fragmentBuffer' = AddFragment(pkt).buf
  /\ assemblingList' = AddFragment(pkt).asm
  /\ UNCHANGED out

(* The last fragment is stored, the datagram is put together in a new      *)
(* array, and assemblePacket finds that array and hands it up.             *)
HandleLast(pkt) ==
  /\ pkt.flags = 0
  /\ LET added == AddFragment(pkt)
         built == InitAssembling(pkt, added.buf, added.asm)
         s == Find(built.asm, pkt.key)
     IN IF added.ok /\ built.ok
        THEN /\ fragmentBuffer' = built.buf
             /\ assemblingList' = Drop(built.asm, s)
             /\ HandUp(pkt.key, built.asm[s].arr)
        ELSE /\ fragmentBuffer' = added.buf
             /\ assemblingList' = added.asm
             /\ UNCHANGED out

Handle(pkt) == HandleWhole(pkt) \/ HandleFragment(pkt) \/ HandleLast(pkt)

------------------------------------------------------------------------------
(* The network. *)

(* "serial": one datagram after the other, its fragments in order.         *)
(* "inorder": the fragments of each datagram in order, several datagrams   *)
(* interleaved.  "any": lost, repeated and in any order.                   *)
MayArrive(d, i) ==
  CASE Network = "serial" ->
         /\ i = arrived[d] + 1
         /\ \A e \in Dgram \ {d} : arrived[e] \in {0, Fragments(e)}
    [] Network = "inorder" -> i = arrived[d] + 1
    [] Network = "any" -> arrived[d] < MaxArrivals

Arrive(d, i) ==
  /\ MayArrive(d, i)
  /\ arrived' = [arrived EXCEPT ![d] = @ + 1]
  /\ Handle(Packet(d, i))

Init == /\ fragmentBuffer = <<>> /\ assemblingList = <<>> /\ out = <<>>
        /\ arrived = [d \in Dgram |-> 0]

Next == \E d \in Dgram : \E i \in 1..Fragments(d) : Arrive(d, i)

Spec == Init /\ [][Next]_vars

------------------------------------------------------------------------------
Bytes == (UNION {{<<d, i>> : i \in 1..SizeOf[d]} : d \in Dgram}) \union {Zero}
Keys == {KeyOf[d] : d \in Dgram}

TypeOK ==
  /\ \A i \in DOMAIN fragmentBuffer :
       /\ fragmentBuffer[i].key \in Keys
       /\ \A j \in DOMAIN fragmentBuffer[i].frags :
            LET f == fragmentBuffer[i].frags[j]
            IN /\ f.offset \in Nat /\ f.data \in Seq(Bytes \ {Zero})
               /\ Len(f.data) \in 1..FragBytes
  /\ \A i \in DOMAIN assemblingList : /\ assemblingList[i].key \in Keys
                                      /\ assemblingList[i].arr \in Seq(Bytes)
  /\ \A i \in DOMAIN out : out[i].key \in Keys /\ out[i].data \in Seq(Bytes)
  /\ arrived \in [Dgram -> Nat]

(* Every payload handed up is one a client sent under that key, byte for   *)
(* byte: what the echo service sends back is exactly what it received.     *)
EchoExact ==
  \A i \in DOMAIN out :
    \E d \in Dgram : out[i] = [key |-> KeyOf[d], data |-> Payload(d)]

(* Whatever the network does, and even if keys are used again: a payload   *)
(* handed up under a key is as long as some datagram with that key, and    *)
(* each of its bytes is either \000 or the byte at that place of a         *)
(* datagram with that key.  One client's bytes never reach another, and    *)
(* no byte is moved.                                                       *)
PayloadsIsolated ==
  \A i \in DOMAIN out :
    /\ \E d \in Dgram : KeyOf[d] = out[i].key /\ Len(out[i].data) = SizeOf[d]
    /\ \A j \in DOMAIN out[i].data :
         \/ out[i].data[j] = Zero
         \/ \E d \in Dgram : KeyOf[d] = out[i].key /\ out[i].data[j] = <<d, j>>

(* So is what assemblingList keeps under a key, except that a byte may lie *)
(* at another place: addFragment does not scale the offset there.          *)
ArraysIsolated ==
  \A i \in DOMAIN assemblingList :
    LET a == assemblingList[i]
        mine == {d \in Dgram : KeyOf[d] = a.key}
    IN /\ \E d \in mine : Len(a.arr) = SizeOf[d]
       /\ \A j \in DOMAIN a.arr :
            \/ a.arr[j] = Zero
            \/ \E d \in mine : \E k \in 1..SizeOf[d] : a.arr[j] = <<d, k>>

Isolation == PayloadsIsolated /\ ArraysIsolated

(* fragmentBuffer has one entry per key, so the fragments of a datagram    *)
(* are all found by the first match of List.find and findi.                *)
OneEntryPerKey ==
  \A i, j \in DOMAIN fragmentBuffer :
    fragmentBuffer[i].key = fragmentBuffer[j].key => i = j
=============================================================================
