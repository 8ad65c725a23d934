---------------------------- MODULE Fragmentation -----------------------------
(***************************************************************************)
(* How ipv4Send (Libs/networklib/networklib.sml) cuts a payload into IPv4  *)
(* packets: one call of sendFragments is one step.  A payload is a         *)
(* sequence of bytes; of the header only the fields that differ between    *)
(* the packets are kept.                                                   *)
(***************************************************************************)
EXTENDS Integers, Sequences

CONSTANTS
  Mtu,          \* the most bytes of an IPv4 packet (1500)
  IpHeader,     \* the bytes of its header (20)
  Unit,         \* bytes per unit of the fragment offset (8)
  OffsetLimit,  \* the offset field holds less than this (2^13)
  Payloads      \* the payloads sent: UDP.encode makes none of more than 65535 bytes

ASSUME FragmentationAssumption ==
  /\ Mtu \in Nat /\ IpHeader \in Nat /\ Unit \in Nat \ {0}
  /\ OffsetLimit \in Nat \ {0}
  /\ IpHeader + Unit <= Mtu
  /\ Payloads \subseteq Seq(Nat)
  /\ \A p \in Payloads : Len(p) <= OffsetLimit * Unit

VARIABLES
  payload,   \* what is being sent
  rest,      \* the argument of sendFragments: what is left of it
  offset,    \* its other argument
  sending,   \* whether sendFragments has not returned
  sent       \* the packets given to ethSend: [offset, flags, data]

sendVars == <<payload, rest, offset, sending, sent>>

nfb == (Mtu - IpHeader) \div Unit

Start(p) ==
  /\ ~sending /\ sending' = TRUE
  /\ payload' = p /\ rest' = p /\ offset' = 0 /\ sent' = <<>>

FitsUnit == Len(rest) <= Mtu                                       \* mutant
Fits == Len(rest) + IpHeader <= Mtu

SendLast ==
  /\ sending /\ Fits
  /\ sent' = Append(sent, [offset |-> offset, flags |-> 0, data |-> rest])
  /\ sending' = FALSE
  /\ UNCHANGED <<payload, rest, offset>>

SendMoreUnscaled ==                                                \* mutant
  /\ sending /\ ~Fits
  /\ sent' = Append(sent, [offset |-> offset, flags |-> 1,
                           data |-> SubSeq(rest, 1, nfb * Unit)])
  /\ rest' = SubSeq(rest, nfb * Unit + 1, Len(rest))
  /\ offset' = offset + nfb * Unit
  /\ UNCHANGED <<payload, sending>>
SendMore ==
  /\ sending /\ ~Fits
  /\ sent' = Append(sent, [offset |-> offset, flags |-> 1,
                           data |-> SubSeq(rest, 1, nfb * Unit)])
  /\ rest' = SubSeq(rest, nfb * Unit + 1, Len(rest))
  /\ offset' = offset + nfb
  /\ UNCHANGED <<payload, sending>>

Init == /\ payload = <<>> /\ rest = <<>> /\ offset = 0 /\ sending = FALSE
        /\ sent = <<>>

Next == SendLast \/ SendMore \/ \E p \in Payloads : Start(p)

Spec == Init /\ [][Next]_sendVars

------------------------------------------------------------------------------
Done == ~sending /\ sent # <<>>

(* Every packet respects the MTU and its offset the width of its field, so *)
(* that IPv4.encode neither raises nor lets the offset run into the flags. *)
PacketsFit ==
  \A k \in DOMAIN sent :
    /\ Len(sent[k].data) + IpHeader <= Mtu
    /\ sent[k].offset < OffsetLimit

(* The packets lie end to end: each one carries the bytes its offset says, *)
(* begins where the one before it ended, and has the more-fragments flag   *)
(* unless it is the last.  A peer that puts the data of each packet at its *)
(* offset, in whatever order they come, has the payload and nothing else.  *)
Tiles ==
  /\ \A k \in DOMAIN sent :
       LET at == sent[k].offset * Unit
       IN /\ \A i \in 1..Len(sent[k].data) : sent[k].data[i] = payload[at + i]
          /\ IF k < Len(sent)
             THEN /\ sent[k].flags = 1
                  /\ sent[k + 1].offset * Unit = at + Len(sent[k].data)
             ELSE Done => sent[k].flags = 0 /\ at + Len(sent[k].data) = Len(payload)
  /\ sent # <<>> => sent[1].offset = 0
=============================================================================
