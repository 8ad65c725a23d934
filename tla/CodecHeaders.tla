----------------------------- MODULE CodecHeaders ------------------------------
(* Headers whose fields are at their boundaries; the addresses are those   *)
(* of the service and of a client.                                         *)
EXTENDS Integers, Sequences

CONSTANTS Ids, Flags, Offsets, Ports

mac == <<123, 124, 125, 126, 127, 128>>
other == <<74, 212, 82, 133, 150, 162>>
ipAddress == <<10, 0, 0, 2>>
peer == <<10, 0, 0, 1>>

Eths == [et : {"ARP", "IPv4", "IPv6"}, dstMac : {mac, other}, srcMac : {mac}]
Arps == [htype : {1}, ptype : {2048}, hlen : {6}, plen : {4}, oper : {"Request", "Reply"},
         sha : {mac, other}, spa : {ipAddress}, tha : {other}, tpa : {peer}]
Udps == [source_port : Ports, dest_port : Ports, length : {0}, checksum : {0}]
Ips == [version : {4}, ihl : {5}, dscp : {0, 63}, ecn : {0, 3}, total_length : {0},
        identification : Ids, flags : Flags, fragment_offset : Offsets,
        time_to_live : {128}, protocol : {"UDP", "UNKNOWN"}, header_checksum : {0},
        source_addr : {ipAddress}, dest_addr : {peer}]
(* The headers of the service's own packets. *)
Sent == {h \in Ips : h.dscp = 0 /\ h.ecn = 0 /\ h.protocol = "UDP"}
=============================================================================
