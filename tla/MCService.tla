------------------------------ MODULE MCService -------------------------------
(* Datagrams of up to five elements, the first one the header.  long goes  *)
(* to a port bound twice, short to one whose answer is twice as long, bare *)
(* to no callback, faulty to one that raises, ping is not UDP.             *)
EXTENDS Service

CONSTANTS long, short, bare, faulty, ping, k1, k2, k3, k4, k5, note, host

Sizes == [d \in Dgram |-> CASE d = long -> 5 [] d = short -> 4 [] OTHER -> 2]
OwnKey == [d \in Dgram |-> CASE d = long -> k1 [] d = short -> k2 [] d = bare -> k3
                            [] d = faulty -> k4 [] d = ping -> k5]
SharedKey == [d \in Dgram |-> CASE d = faulty -> k4 [] OTHER -> k1]
From == [d \in Dgram |-> CASE d = long -> 901 [] d = short -> 902 [] OTHER -> 903]
To == [d \in Dgram |-> CASE d = long -> 1 [] d = short -> 2 [] d = faulty -> 3 [] OTHER -> 9]

Program == <<<<1, "fails">>, <<2, "twice">>, <<1, "echo">>, <<3, "fails">>>>
TooLong == <<<<1, "twice">>, <<2, "twice">>, <<3, "fails">>, <<3, "echo">>>>
Callback(cb, data) == CASE cb = "echo" -> data [] cb = "twice" -> data \o data
                        [] cb = "fails" -> Raised
Text == <<note, note, note>>

Noise == {[et |-> "ARP", dstMac |-> "broadcast", sha |-> host, spa |-> <<host>>],
          [et |-> "unknown"], [et |-> "IPv6"], [et |-> "badARP"]}
=============================================================================
