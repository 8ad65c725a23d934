------------------------------ MODULE TapDevice -------------------------------
(***************************************************************************)
(* The network interface of the Unix build (Libs/netiflib/netif-tuntap.c). *)
(* The kernel puts four bytes of packet information before each frame; a   *)
(* buffer of MTU bytes holds both.  A byte of a frame is its place.        *)
(***************************************************************************)
EXTENDS Integers, Sequences

CONSTANTS
  MTU,        \* the size of the buffers (1518)
  Frames,     \* the lengths of the frames the kernel has
  Lists,      \* the lengths of the byte lists the program sends
  Info,       \* a byte of packet information
  Null        \* the string that is no string

ASSUME TapAssumption == /\ MTU \in Nat /\ MTU >= 18
                        /\ Frames \subseteq Nat /\ Lists \subseteq Nat

VARIABLES
  tapfd,      \* -1 until the device is open
  running,    \* FALSE once the process has exited or is broken
  frame,      \* the frame of the last read
  received,   \* the string the last Receive returned
  list,       \* the argument of the last Send
  written,    \* the bytes its write passed to the kernel
  stray       \* the calls whose last store went outside their buffer

tapVars == <<tapfd, running, frame, received, list, written, stray>>

Whole(n) == [k \in 1..n |-> k]
Header == <<Info, Info, Info, Info>>

------------------------------------------------------------------------------
(* Opening: open of the clone device may fail, and so may the ioctl, after *)
(* which tun_alloc exits.                                                  *)
OpenFails == /\ running /\ tapfd = -1
             /\ received' = Null
             /\ running' = FALSE     \* the program reads the size of the string
             /\ UNCHANGED <<tapfd, frame, list, written, stray>>

IoctlFails == /\ running /\ tapfd = -1 /\ running' = FALSE
              /\ UNCHANGED <<tapfd, frame, received, list, written, stray>>

(* read fills the buffer from its start, at most MTU bytes of it; buf[k] is *)
(* element k + 1.                                                          *)
ReadSmall(n) ==                                                    \* mutant
  Header \o Whole(IF n + 8 <= MTU THEN n ELSE MTU - 8)
Read(n) == Header \o Whole(IF n + 4 <= MTU THEN n ELSE MTU - 4)

(* toMLString: the bytes after the packet information. *)
toMLString(bytes) == SubSeq(bytes, 5, Len(bytes))

(* The last store of a call: outside its buffer it may break the process.  *)
Stores(call, outside) ==
  /\ stray' = IF outside THEN stray \union {call} ELSE stray \ {call}
  /\ IF outside THEN running' \in BOOLEAN ELSE UNCHANGED running

Receive(n) ==
  /\ running
  /\ tapfd' = IF tapfd = -1 THEN 3 ELSE tapfd
  /\ frame' = Whole(n)
  /\ received' = toMLString(Read(n))
  /\ Stores("Receive", Len(Read(n)) >= MTU)      \* buf[bytesRead] = '\0'
  /\ UNCHANGED <<list, written>>

(* A read that fails returns -1: the terminator goes before the buffer, and *)
(* a string of -5 bytes is allocated.                                      *)
ReadFails == /\ running /\ running' = FALSE
             /\ tapfd' = IF tapfd = -1 THEN 3 ELSE tapfd
             /\ stray' = stray \union {"Receive"}
             /\ UNCHANGED <<frame, received, list, written>>

------------------------------------------------------------------------------
(* Send: the loop stores list elements from index 4 on while i <= MTU, so  *)
(* the last index it may store to is MTU itself.                           *)
StoredUnbounded(n) == n + 1                                        \* mutant
Stored(n) == IF n <= MTU - 3 THEN n ELSE MTU - 3

(* toWrite_buf[2] and [3] are copied from [13] and [14], which hold list   *)
(* elements 10 and 11; the buffer was zero before.                         *)
ElementAt(n, index) == IF index - 3 <= Stored(n) THEN index - 3 ELSE 0
Copied(n) == <<0, 0, ElementAt(n, 13), ElementAt(n, 14)>>

Send(n) ==
  /\ running
  /\ list' = Whole(n)
  /\ written' = IF tapfd = -1 THEN <<>> ELSE Copied(n) \o Whole(Stored(n))
  /\ Stores("Send", Stored(n) + 3 >= MTU)
  /\ UNCHANGED <<tapfd, frame, received>>

------------------------------------------------------------------------------
TapInit == /\ tapfd = -1 /\ running = TRUE /\ stray = {}
           /\ frame = <<>> /\ received = <<>> /\ list = <<>> /\ written = <<>>

TapNext == \/ OpenFails \/ IoctlFails \/ ReadFails
           \/ \E n \in Frames : Receive(n)
           \/ \E n \in Lists : Send(n)

TapSpec == TapInit /\ [][TapNext]_tapVars

------------------------------------------------------------------------------
(* The bytes get through, as far as the buffers have room: the program     *)
(* receives those of the frame the kernel had, all of them and no others,  *)
(* and the kernel is given those of the list behind the packet             *)
(* information.                                                            *)
ReceivesFrame == received # Null /\ Len(frame) <= MTU - 4 => received = frame
SendsList == written # <<>> /\ Len(list) <= MTU - 4 =>
               SubSeq(written, 5, Len(written)) = list
CarriesBytes == ReceivesFrame /\ SendsList

(* While reads succeed it is exactly a frame of MTU - 4 bytes or more, and *)
(* a list of more than MTU - 4, that are stored outside a buffer.          *)
StaysInBuffers ==
  running => /\ "Receive" \in stray <=> Len(frame) > MTU - 5
             /\ "Send" \in stray <=> Len(list) > MTU - 4
=============================================================================
