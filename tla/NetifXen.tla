------------------------------ MODULE NetifXen -------------------------------
(***************************************************************************)
(* The network interface on Xen (Libs/netiflib/netif-miniOS.c): the ring   *)
(* filled by netif_rx in event context, which can interrupt the SML thread *)
(* between any two steps, and emptied by Receive; the semaphore that keeps *)
(* the SML thread from the device until it is set up, and Send.            *)
(*                                                                         *)
(* Frames are numbered in the order they come.  netif_rx stores a pointer: *)
(* the page it points into belongs to the front end driver, which gives it *)
(* back to the device when netif_rx returns, so frame k overwrites the     *)
(* page of frame k - RxPages.                                              *)
(***************************************************************************)
EXTENDS Naturals, Sequences

CONSTANTS
  QueueSize,   \* QUEUE_SIZE
  RxPages,     \* receive pages of the front end driver (external)
  Backlog,     \* frames that wait at most while the ML program keeps up
  MaxFrames    \* frames that come in all (bound)

ASSUME NetifAssumption ==
  /\ QueueSize \in Nat /\ QueueSize >= 2
  /\ RxPages \in Nat \ {0} /\ Backlog \in Nat /\ MaxFrames \in Nat

Slot == 0..(QueueSize - 1)
RxPage == 0..(RxPages - 1)
Frame == 1..MaxFrames
None == 0       \* no frame: a page or a slot that was never written
NoPage == RxPages  \* the null pointer of a slot that was never written

VARIABLES
  page,         \* the frame in each page of the driver
  dataPtrs,     \* per slot, the page its pointer points into
  dataLengths,  \* per slot, the frame whose length it holds
  writePos, readPos,
  count,        \* frames that came
  late,         \* auxiliary: more than Backlog frames waited at some time
  net_sem,      \* the semaphore's count
  net_dev,      \* the device is set up
  netfront,     \* where netfront_thread is
  sml,          \* where sml_thread is
  pktptr, pktlen, first,  \* Receive: its locals, and the first half copied
  received      \* what Receive returned

ring == <<dataPtrs, dataLengths, writePos>>
driver == <<page, count, late>>
locals == <<pktptr, pktlen, first>>
device == <<net_sem, net_dev, netfront>>
vars == <<ring, driver, readPos, locals, device, sml, received>>

------------------------------------------------------------------------------
Init ==
  /\ page = [q \in RxPage |-> None]
  /\ dataPtrs = [s \in Slot |-> NoPage] /\ dataLengths = [s \in Slot |-> None]
  /\ writePos = 1 /\ readPos = 0 /\ count = 0 /\ late = FALSE
  /\ net_sem = 0 /\ net_dev = FALSE /\ netfront = "init" /\ sml = "down"
  /\ pktptr = NoPage /\ pktlen = None /\ first = None
  /\ received = <<>>

Succ(pos) == (pos + 1) % QueueSize

(* netfront_thread: init_netfront, which connects the device (frames may   *)
(* come from then on) and returns it, then up(&net_sem).                   *)
Connect ==
  /\ netfront = "init" /\ netfront' = "connected"
  /\ UNCHANGED <<ring, driver, readPos, locals, net_sem, net_dev, sml,
                 received>>

InitNetfront ==
  /\ netfront = "connected"
  /\ net_dev' = TRUE /\ netfront' = "up"
  /\ UNCHANGED <<ring, driver, readPos, locals, net_sem, sml, received>>

NetfrontUp ==
  /\ netfront = "up"
  /\ net_sem' = net_sem + 1 /\ netfront' = "done"
  /\ UNCHANGED <<ring, driver, readPos, locals, net_dev, sml, received>>

(* netif_rx: one frame, without interruption. *)
Waiting == count - Len(received)
Room == count < MaxFrames

NetifRx ==
  /\ netfront # "init" /\ Room
  /\ LET k == count + 1
         q == k % RxPages
     IN /\ count' = k
        /\ page' = [page EXCEPT ![q] = k]
        /\ late' = (late \/ Waiting >= Backlog)
        /\ dataPtrs' = [dataPtrs EXCEPT ![writePos] = q]
        /\ dataLengths' = [dataLengths EXCEPT ![writePos] = k]
  /\ writePos' = Succ(writePos)
  /\ UNCHANGED <<readPos, locals, device, sml, received>>

(* A step of the SML thread from one place to the next. *)
Goto(from, to) == sml = from /\ sml' = to

(* sml_thread: down, then up, then main. *)
Down(from, to) ==
  /\ Goto(from, to) /\ net_sem > 0 /\ net_sem' = net_sem - 1
  /\ UNCHANGED <<ring, driver, readPos, locals, net_dev, netfront, received>>
UpForgotten(from, to) ==                                          \* mutant
  /\ Goto(from, to) /\ net_sem' = net_sem
  /\ UNCHANGED <<ring, driver, readPos, locals, net_dev, netfront, received>>
Up(from, to) ==
  /\ Goto(from, to) /\ net_sem' = net_sem + 1
  /\ UNCHANGED <<ring, driver, readPos, locals, net_dev, netfront, received>>

(* Receive: spin until the next slot is not the one to be written next. *)
EmptyIfSame == readPos = writePos                                 \* mutant
Empty == Succ(readPos) = writePos

Await ==
  /\ Goto("receive", "ptr") /\ ~Empty
  /\ readPos' = Succ(readPos)
  /\ UNCHANGED <<ring, driver, locals, device, received>>

ReadPtrOld ==                                                     \* mutant
  /\ Goto("ptr", "len")
  /\ pktptr' = dataPtrs[(readPos + QueueSize - 1) % QueueSize]
  /\ UNCHANGED <<ring, driver, readPos, pktlen, first, device, received>>
ReadPtr ==
  /\ Goto("ptr", "len") /\ pktptr' = dataPtrs[readPos]
  /\ UNCHANGED <<ring, driver, readPos, pktlen, first, device, received>>

ReadLen ==
  /\ Goto("len", "copy") /\ pktlen' = dataLengths[readPos]
  /\ UNCHANGED <<ring, driver, readPos, pktptr, first, device, received>>

(* my_convertStringToML copies byte by byte: two halves stand for a copy   *)
(* that frames can interrupt.                                              *)
Content(q) == IF q \in RxPage THEN page[q] ELSE None

CopyFirst ==
  /\ Goto("copy", "copying") /\ first' = Content(pktptr)
  /\ UNCHANGED <<ring, driver, readPos, pktptr, pktlen, device, received>>

CopySecond ==
  /\ Goto("copying", "handle")
  /\ received' = Append(received, [first |-> first, second |-> Content(pktptr),
                                   len |-> pktlen])
  /\ UNCHANGED <<ring, driver, readPos, locals, device>>

(* The ML program handles the frame and replies through Send, or does not. *)
Handle ==
  /\ sml = "handle" /\ sml' \in {"receive", "send"}
  /\ UNCHANGED <<ring, driver, readPos, locals, device, received>>

(* Send copies the list into 1518 bytes of stack and transmits them: lists *)
(* are Ethernet frames of at most 1514 bytes (Fragmentation!PacketsFit).   *)
Xmit ==
  /\ Goto("xmit", "sent")
  /\ UNCHANGED <<ring, driver, readPos, locals, device, received>>

Netfront == Connect \/ InitNetfront \/ NetfrontUp
Sml ==
  \/ Down("down", "up") \/ Up("up", "receive")
  \/ Await \/ ReadPtr \/ ReadLen \/ CopyFirst \/ CopySecond
  \/ Handle
  \/ Down("send", "xmit") \/ Xmit \/ Up("sent", "receive")

Next == Netfront \/ Sml \/ NetifRx

(* Threads run until they block, so each thread that can go on does; a     *)
(* frame need not come.                                                    *)
Spec == Init /\ [][Next]_vars /\ WF_vars(Netfront) /\ WF_vars(Sml)

------------------------------------------------------------------------------
TypeOK ==
  /\ page \in [RxPage -> Frame \union {None}]
  /\ dataPtrs \in [Slot -> RxPage \union {NoPage}]
  /\ dataLengths \in [Slot -> Frame \union {None}]
  /\ writePos \in Slot /\ readPos \in Slot /\ count \in 0..MaxFrames
  /\ late \in BOOLEAN
  /\ net_sem \in 0..1 /\ net_dev \in BOOLEAN
  /\ netfront \in {"init", "connected", "up", "done"}
  /\ sml \in {"down", "up", "receive", "ptr", "len", "copy", "copying",
              "handle", "send", "xmit", "sent"}
  /\ pktptr \in RxPage \union {NoPage} /\ pktlen \in Frame \union {None}
  /\ first \in Frame \union {None}
  /\ received \in Seq([{"first", "second", "len"} -> Frame \union {None}])

(* net_sem is a lock once the device is up: its count and the thread that  *)
(* holds it make one, and nothing is transmitted before the device is up.  *)
Holds == sml \in {"up", "xmit", "sent"}
SemaphoreExact ==
  /\ net_sem + (IF Holds THEN 1 ELSE 0) = (IF netfront = "done" THEN 1 ELSE 0)
  /\ sml # "down" => net_dev

(* However many frames come, Receive takes only slots that were written    *)
(* and never reads through a pointer that was not stored.                  *)
NeverUnwritten ==
  /\ sml \in {"len", "copy", "copying"} => pktptr # NoPage
  /\ sml \in {"copy", "copying"} => pktlen # None
  /\ \A i \in DOMAIN received :
       \A f \in DOMAIN received[i] : received[i][f] # None

(* Every frame that came is received, unless the ML program falls behind.  *)
EveryFrameReceived == \A k \in Frame : count >= k ~> late \/ Len(received) >= k

(* As long as the ML program keeps up, the ring is a channel: every frame  *)
(* that came is received once, whole, in order.                            *)
Channel == INSTANCE FrameChannel WITH
             queue <- [i \in 1..Waiting |-> Len(received) + i]
ChannelSpec == /\ Channel!Init
               /\ [][late' \/ Channel!Next]_(Channel!channelVars)

(* However far the ring is overrun, what Receive returns has neither a     *)
(* length nor bytes as old as the frame whose slot it took before, and it  *)
(* is one whole frame, that of its slot, exactly when the slot was not     *)
(* taken by a newer frame with another page between pointer and length,    *)
(* nor the page by one before the copy ended.  (Bytes of a newer frame can *)
(* come in place of an older one's, and again when its own turn comes.)    *)
NeverOlder ==
  [][received' # received =>
       LET got == received'[Len(received')]
       IN /\ \A i \in DOMAIN received : \A f \in {"first", "second", "len"} :
               received[i].len < got[f]
          /\ got.first <= got.second
          /\ got = Channel!Intact(pktlen) <=>
               pktptr = pktlen % RxPages /\ count < pktlen + RxPages]_received
=============================================================================
