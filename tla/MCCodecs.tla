-------------------------------- MODULE MCCodecs -------------------------------
(* Late fragments of a long answer, under many identifications. *)
EXTENDS Codecs, CodecHeaders

Full == {[i \in 1..1480 |-> 0]}
LateIds == 57000..58000
=============================================================================
