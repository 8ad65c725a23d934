----------------------------- MODULE UdpService -------------------------------
(***************************************************************************)
(* What a program built on the network library promises its clients: each  *)
(* datagram is answered once, whole, by the callback bound last to its     *)
(* port, with the ports exchanged; a callback that fails answers nothing.  *)
(***************************************************************************)
EXTENDS Naturals, Sequences

CONSTANTS
  Dgram, KeyOf, SizeOf, FromPort, ToPort, Udp,   \* the datagrams
  Bindings,        \* the <<port, callback>> pairs of the program, in order
  Apply(_, _),     \* what a callback makes of a payload
  Raised,          \* that it raised an exception
  Unmapped,        \* the answer of a port without a callback
  MaxUdp           \* the most bytes of a UDP datagram

VARIABLES
  replies,   \* the answers, in order: [key, data]
  pending    \* the datagrams that have not been answered

Bound(port) == {k \in DOMAIN Bindings : Bindings[k][1] = port}
LastBound(port) == CHOOSE k \in Bound(port) : \A j \in Bound(port) : j <= k

(* The bytes of a datagram after its header, which is one element. *)
Body(d) == [i \in 1..(SizeOf[d] - 1) |-> <<d, i + 1>>]
Result(d) == IF Bound(ToPort[d]) = {} THEN Unmapped
             ELSE Apply(Bindings[LastBound(ToPort[d])][2], Body(d))

Silent(d) == d \notin Udp \/ Result(d) = Raised \/ Len(Result(d)) + 1 > MaxUdp

Reply(d) == [key |-> KeyOf[d],
             data |-> <<[from |-> ToPort[d], to |-> FromPort[d]]>> \o Result(d)]

Init == replies = <<>> /\ pending = Dgram

Answer(d) == /\ d \in pending /\ pending' = pending \ {d}
             /\ replies' = IF Silent(d) THEN replies ELSE Append(replies, Reply(d))

Next == \E d \in Dgram : Answer(d)

Spec == Init /\ [][Next]_<<replies, pending>>
=============================================================================
