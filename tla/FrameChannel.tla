---------------------------- MODULE FrameChannel -----------------------------
(***************************************************************************)
(* What the network driver promises the ML program: the frames that came,  *)
(* whole and in the order they came.                                       *)
(***************************************************************************)
EXTENDS Naturals, Sequences

VARIABLES
  count,    \* how many frames came; they are numbered from 1
  queue,    \* those not received yet
  received  \* what Netif.receive returned

channelVars == <<count, queue, received>>

Intact(k) == [first |-> k, second |-> k, len |-> k]

Init == count = 0 /\ queue = <<>> /\ received = <<>>

Arrive == /\ count' = count + 1
          /\ queue' = Append(queue, count + 1)
          /\ UNCHANGED received

Receive == /\ queue # <<>>
           /\ received' = Append(received, Intact(Head(queue)))
           /\ queue' = Tail(queue)
           /\ UNCHANGED count

Next == Arrive \/ Receive

Spec == Init /\ [][Next]_channelVars
=============================================================================
