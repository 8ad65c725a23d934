---------------------------- MODULE MCReassembly -----------------------------
(* Four datagrams of up to five bytes, in fragments of one unit of two     *)
(* bytes: three fragments, two fragments, a packet without DF, one with.   *)
EXTENDS Reassembly

CONSTANTS long, short, plain, whole, k1, k2, k3, k4

Sizes == [d \in Dgram |-> CASE d = long -> 5 [] d = short -> 3
                           [] d = plain -> 2 [] d = whole -> 3]
OwnKey == [d \in Dgram |-> CASE d = long -> k1 [] d = short -> k2
                            [] d = plain -> k3 [] d = whole -> k4]

(* The long and the short datagram carry the same identification. *)
SharedKey == [d \in Dgram |-> CASE d = long -> k1 [] d = short -> k1
                               [] d = plain -> k3 [] d = whole -> k4]
=============================================================================
