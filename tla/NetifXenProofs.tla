---------------------------- MODULE NetifXenProofs -----------------------------
(***************************************************************************)
(* Proofs about the receive ring and the semaphore of netif-miniOS.c, for  *)
(* every size of the ring, every number of pages and however far frames    *)
(* run ahead of the program.                                               *)
(***************************************************************************)
EXTENDS NetifXen, SequenceTheorems, TLAPS

------------------------------------------------------------------------------
(* Positions of the ring. *)

(* The remainder is the one number below the divisor that fits. *)
LEMMA ModUnique ==
  ASSUME NEW m \in Nat \ {0}, NEW d \in Int, NEW r \in 0..(m - 1)
  PROVE  (m * d + r) % m = r
<1> DEFINE a == m * d + r
           e == a \div m
           s == a % m
<1>1. a \in Int /\ e \in Int /\ s \in 0..(m - 1) /\ a = m * e + s /\ r \in Int
  OBVIOUS
<1>2. m * d + r = m * e + s
  BY <1>1
<1> HIDE DEF e, s
<1>3. d = e
  <2>1. ASSUME d > e PROVE FALSE
    <3>1. m * d >= m * e + m
      <4>1. PICK c \in Nat : d = e + 1 + c
        BY <1>1, <2>1
      <4>2. m * d = m * e + m + m * c /\ m * c \in Nat
        BY <1>1, <4>1
      <4> QED
        BY <1>1, <4>2
    <3> QED
      BY <1>1, <1>2, <3>1
  <2>2. ASSUME e > d PROVE FALSE
    <3>1. m * e >= m * d + m
      <4>1. PICK c \in Nat : e = d + 1 + c
        BY <1>1, <2>2
      <4>2. m * e = m * d + m + m * c /\ m * c \in Nat
        BY <1>1, <4>1
      <4> QED
        BY <1>1, <4>2
    <3> QED
      BY <1>1, <1>2, <3>1
  <2> QED
    BY <1>1, <2>1, <2>2
<1> QED
  BY <1>1, <1>3 DEF s

(* Two of m consecutive numbers do not have the same remainder. *)
LEMMA ModDistinct ==
  ASSUME NEW m \in Nat \ {0}, NEW j \in Nat, NEW k \in Nat, j < k, k < j + m
  PROVE  j % m # k % m
<1> SUFFICES ASSUME j % m = k % m PROVE FALSE
  OBVIOUS
<1> DEFINE d == j \div m
           e == k \div m
           r == j % m
<1>1. d \in Nat /\ e \in Nat /\ r \in Nat /\ j = m * d + r /\ k = m * e + r
  OBVIOUS
<1> HIDE DEF d, e, r
<1>2. m * d < m * e /\ m * e < m * d + m /\ m * d \in Nat /\ m * e \in Nat
  BY <1>1
<1>3. ASSUME e <= d PROVE FALSE
  <2>1. PICK c \in Nat : d = e + c
    BY <1>1, <1>3
  <2>2. m * d = m * e + m * c /\ m * c \in Nat
    BY <1>1, <2>1
  <2> QED
    BY <1>2, <2>2
<1>4. ASSUME d < e PROVE FALSE
  <2>1. PICK c \in Nat : e = d + 1 + c
    BY <1>1, <1>4
  <2>2. m * e = m * d + m + m * c /\ m * c \in Nat
    BY <1>1, <2>1
  <2> QED
    BY <1>2, <2>2
<1> QED
  BY <1>1, <1>3, <1>4

(* Adding the divisor leaves the remainder. *)
LEMMA ModPlus ==
  ASSUME NEW m \in Nat \ {0}, NEW k \in Nat
  PROVE  (k + m) % m = k % m
<1> DEFINE d == k \div m
           r == k % m
<1>1. d \in Nat /\ r \in 0..(m - 1) /\ k = m * d + r
  OBVIOUS
<1> HIDE DEF d, r
<1>2. k + m = m * (d + 1) + r /\ d + 1 \in Int
  BY <1>1
<1>3. (m * (d + 1) + r) % m = r
  BY <1>1, <1>2, ModUnique
<1> QED
  BY <1>2, <1>3 DEF r

(* The position after that of frame k is that of frame k + 1. *)
LEMMA SuccOfFrame ==
  ASSUME NEW k \in Nat
  PROVE  k % QueueSize \in Slot /\ Succ(k % QueueSize) = (k + 1) % QueueSize
<1> DEFINE d == k \div QueueSize
           r == k % QueueSize
<1>1. QueueSize \in Nat \ {0} /\ QueueSize >= 2
  BY NetifAssumption
<1>2. d \in Nat /\ r \in 0..(QueueSize - 1) /\ k = QueueSize * d + r
  BY <1>1
<1>3. r \in Slot
  BY <1>2 DEF Slot
<1> HIDE DEF d, r
<1>4. CASE r + 1 < QueueSize
  <2>1. k + 1 = QueueSize * d + (r + 1) /\ r + 1 \in 0..(QueueSize - 1)
    BY <1>1, <1>2, <1>4
  <2>2. (k + 1) % QueueSize = r + 1
    BY <1>1, <1>2, <2>1, ModUnique
  <2>3. r + 1 = QueueSize * 0 + (r + 1)
    BY <1>1, <1>2
  <2>4. (r + 1) % QueueSize = r + 1
    BY <1>1, <2>1, <2>3, ModUnique
  <2> QED
    BY <1>3, <2>2, <2>4 DEF Succ, r
<1>5. CASE ~(r + 1 < QueueSize)
  <2>1. k + 1 = QueueSize * (d + 1) + 0 /\ r + 1 = QueueSize * 1 + 0
    BY <1>1, <1>2, <1>5
  <2>2. 0 \in 0..(QueueSize - 1) /\ d + 1 \in Int
    BY <1>1, <1>2
  <2>3. (k + 1) % QueueSize = 0 /\ (r + 1) % QueueSize = 0
    BY <1>1, <2>1, <2>2, ModUnique
  <2> QED
    BY <1>3, <2>3 DEF Succ, r
<1> QED
  BY <1>4, <1>5

------------------------------------------------------------------------------
(* The inductive invariant. *)

Types ==
  /\ page \in [RxPage -> Nat] /\ dataPtrs \in [Slot -> RxPage \union {NoPage}]
  /\ dataLengths \in [Slot -> Nat]
  /\ count \in 0..MaxFrames /\ late \in BOOLEAN
  /\ sml \in {"down", "up", "receive", "ptr", "len", "copy", "copying",
              "handle", "send", "xmit", "sent"}
  /\ pktptr \in RxPage \union {NoPage} /\ pktlen \in 0..MaxFrames
  /\ first \in 0..MaxFrames
  /\ received \in Seq([first : Frame, second : Frame, len : Frame])

(* A page holds the newest frame of those that go there.                   *)
PageInv ==
  \A q \in RxPage :
    /\ page[q] <= count
    /\ page[q] # None => page[q] % RxPages = q
    /\ \A k \in 1..count : k % RxPages = q => k <= page[q]

(* The next slot to write is that of the next frame, and a slot holds the  *)
(* newest frame of those that go there, with a page that holds this frame  *)
(* or a newer one.                                                         *)
RingInv ==
  /\ writePos = (count + 1) % QueueSize
  /\ \A s \in Slot :
       /\ dataLengths[s] <= count
       /\ dataLengths[s] # None => dataLengths[s] % QueueSize = s
       /\ \A k \in 1..count : k % QueueSize = s => k <= dataLengths[s]
       /\ dataLengths[s] # None =>
            dataPtrs[s] \in RxPage /\ dataLengths[s] <= page[dataPtrs[s]]

(* The frame received last. *)
LastReceived == IF Len(received) = 0 THEN 0 ELSE received[Len(received)].len

(* Where Receive stands: on the slot of the last frame it took, on the     *)
(* next one when that was written, or on that of a newer frame it holds;   *)
(* and its page holds frames newer than the last one it took.              *)
ReaderInv ==
  /\ LastReceived <= count
  /\ sml \notin {"ptr", "len", "copy", "copying"} =>
       readPos = LastReceived % QueueSize
  /\ sml \in {"ptr", "len"} =>
       readPos = (LastReceived + 1) % QueueSize /\ LastReceived < count
  /\ sml \in {"copy", "copying"} =>
       /\ LastReceived < pktlen /\ pktlen <= count
       /\ readPos = pktlen % QueueSize
  /\ sml \in {"len", "copy", "copying"} =>
       pktptr \in RxPage /\ LastReceived < page[pktptr]
  /\ sml = "copying" =>
       /\ LastReceived < first /\ first <= page[pktptr]
       /\ pktptr = pktlen % RxPages => pktlen <= first

(* The slots were taken in order. *)
ReceivedInv ==
  \A i, j \in 1..Len(received) : i < j => received[i].len < received[j].len

NetifInv == Types /\ PageInv /\ RingInv /\ ReaderInv /\ ReceivedInv

(* A frame is a number. *)
LEMMA LastInNat == Types => LastReceived \in Nat
<1> SUFFICES ASSUME Types PROVE LastReceived \in Nat
  OBVIOUS
<1>1. Len(received) \in Nat
  BY DEF Types
<1>2. CASE Len(received) = 0
  BY <1>2 DEF LastReceived
<1>3. CASE Len(received) # 0
  <2>1. Len(received) \in 1..Len(received)
    BY <1>1, <1>3
  <2>2. received[Len(received)] \in [first : Frame, second : Frame, len : Frame]
    BY <2>1, ElementOfSeq DEF Types
  <2> QED
    BY <1>3, <2>2 DEF LastReceived, Frame
<1> QED
  BY <1>2, <1>3

(* Before the device is connected. *)
LEMMA NetifInit == Init => NetifInv
<1> SUFFICES ASSUME Init PROVE NetifInv
  OBVIOUS
<1>1. Len(received) = 0 /\ count = 0 /\ LastReceived = 0
  BY DEF Init, LastReceived
<1>2. 1 % QueueSize = 1 /\ 0 % QueueSize = 0
  <2>1. QueueSize \in Nat \ {0} /\ 0 \in 0..(QueueSize - 1) /\ 1 \in 0..(QueueSize - 1)
    BY NetifAssumption
  <2>2. QueueSize * 0 + 1 = 1 /\ QueueSize * 0 + 0 = 0
    BY <2>1
  <2> QED
    BY <2>1, <2>2, ModUnique
<1>3. Types
  <2>1. late \in BOOLEAN
    BY DEF Init
  <2> QED
    BY <1>1, <2>1, EmptySeq, NetifAssumption DEF Init, Types, None, NoPage
<1>4. PageInv /\ RingInv
  <2>1. NoPage \notin RxPage
    BY NetifAssumption DEF NoPage, RxPage
  <2> QED
    BY <1>1, <1>2, <2>1, NetifAssumption DEF Init, PageInv, RingInv, None
<1>5. ReaderInv
  BY <1>1, <1>2 DEF Init, ReaderInv
<1>6. ReceivedInv
  BY <1>1 DEF ReceivedInv
<1> QED
  BY <1>3, <1>4, <1>5, <1>6 DEF NetifInv

(* A frame comes, at any moment, into any state of the ring. *)
LEMMA NetifNetifRx ==
  ASSUME NetifInv, NetifRx
  PROVE  NetifInv'
<1> DEFINE k == count + 1
           q == k % RxPages
<1>1. /\ Types /\ PageInv /\ RingInv /\ ReaderInv /\ ReceivedInv
      /\ count' = k /\ k \in 1..MaxFrames /\ count \in Nat
      /\ page' = [page EXCEPT ![q] = k]
      /\ dataPtrs' = [dataPtrs EXCEPT ![writePos] = q]
      /\ dataLengths' = [dataLengths EXCEPT ![writePos] = k]
      /\ writePos' = Succ(writePos)
      /\ UNCHANGED <<readPos, pktptr, pktlen, first, sml, received>>
  BY NetifAssumption DEF NetifInv, NetifRx, Room, Types, locals
<1>2. /\ q \in RxPage /\ k % RxPages = q
      /\ k % QueueSize \in Slot /\ writePos = k % QueueSize
      /\ writePos' = (k + 1) % QueueSize
  <2>1. q \in RxPage
    BY <1>1, NetifAssumption DEF RxPage
  <2>2. k \in Nat
    BY <1>1
  <2>3. k % QueueSize \in Slot /\ Succ(k % QueueSize) = (k + 1) % QueueSize
    BY <2>2, SuccOfFrame
  <2> QED
    BY <1>1, <2>1, <2>3 DEF RingInv
<1> HIDE DEF q
<1>3. Types'
  <2>1. late' \in BOOLEAN
    <3>1. late \in BOOLEAN
      BY <1>1 DEF Types
    <3>2. late' = (late \/ Waiting >= Backlog)
      BY DEF NetifRx
    <3> QED
      BY <3>1, <3>2, Zenon
  <2> QED
    BY <1>1, <1>2, <2>1, NetifAssumption DEF Types
<1>4. \A p \in RxPage : page'[p] = IF p = q THEN k ELSE page[p]
  BY <1>1, <1>2 DEF Types
<1>a. \A p \in RxPage : page[p] \in Nat /\ page[p] <= count
  BY <1>1 DEF Types, PageInv
<1>b. \A p \in RxPage : page[p] <= page'[p]
  BY <1>1, <1>4, <1>a
<1>c. PageInv'
  <2>1. ASSUME NEW p \in RxPage
        PROVE  /\ page'[p] <= count'
               /\ page'[p] # None => page'[p] % RxPages = p
               /\ \A j \in 1..count' : j % RxPages = p => j <= page'[p]
    <3>1. CASE p = q
      <4>1. page'[p] = k
        BY <1>4, <3>1
      <4> QED
        BY <1>1, <1>2, <3>1, <4>1
    <3>2. CASE p # q
      <4>1. page'[p] = page[p]
        BY <1>4, <3>2
      <4>2. ASSUME NEW j \in 1..count', j % RxPages = p PROVE j <= page'[p]
        <5>1. j # k
          BY <1>2, <3>2, <4>2
        <5>2. j \in 1..count
          BY <1>1, <5>1
        <5> QED
          BY <1>1, <4>1, <4>2, <5>2 DEF PageInv
      <4> QED
        BY <1>1, <1>a, <4>1, <4>2 DEF PageInv
    <3> QED
      BY <3>1, <3>2
  <2> QED
    BY <2>1 DEF PageInv
<1>5. RingInv'
  <2>1. ASSUME NEW s \in Slot
        PROVE  /\ dataLengths'[s] <= count'
               /\ dataLengths'[s] # None => dataLengths'[s] % QueueSize = s
               /\ \A j \in 1..count' : j % QueueSize = s => j <= dataLengths'[s]
               /\ dataLengths'[s] # None =>
                    dataPtrs'[s] \in RxPage /\ dataLengths'[s] <= page'[dataPtrs'[s]]
    <3>1. CASE s = writePos
      <4>1. dataLengths'[s] = k /\ dataPtrs'[s] = q /\ page'[q] = k
        BY <1>1, <1>2, <1>4, <3>1 DEF Types
      <4> QED
        BY <1>1, <1>2, <3>1, <4>1 DEF None
    <3>2. CASE s # writePos
      <4>1. dataLengths'[s] = dataLengths[s] /\ dataPtrs'[s] = dataPtrs[s]
            /\ dataLengths[s] \in Nat
        BY <1>1, <3>2 DEF Types
      <4>2. ASSUME NEW j \in 1..count', j % QueueSize = s PROVE j <= dataLengths'[s]
        <5>1. j # k
          BY <1>2, <3>2, <4>2
        <5>2. j \in 1..count
          BY <1>1, <5>1
        <5> QED
          BY <1>1, <4>1, <4>2, <5>2 DEF RingInv
      <4>3. ASSUME dataLengths[s] # None
            PROVE  dataPtrs[s] \in RxPage /\ dataLengths[s] <= page'[dataPtrs[s]]
        <5>1. dataPtrs[s] \in RxPage /\ dataLengths[s] <= page[dataPtrs[s]]
          BY <1>1, <4>3 DEF RingInv
        <5>2. page[dataPtrs[s]] <= page'[dataPtrs[s]] /\ page[dataPtrs[s]] \in Nat
              /\ page'[dataPtrs[s]] \in Nat
          BY <1>1, <1>4, <1>a, <1>b, <5>1
        <5> QED
          BY <4>1, <5>1, <5>2
      <4> QED
        BY <1>1, <4>1, <4>2, <4>3 DEF RingInv
    <3> QED
      BY <3>1, <3>2
  <2> QED
    BY <1>1, <1>2, <2>1 DEF RingInv
<1>6. ReaderInv'
  <2>1. LastReceived' = LastReceived /\ LastReceived \in Nat
    BY <1>1, LastInNat DEF LastReceived
  <2>2. ASSUME pktptr \in RxPage
        PROVE  /\ page[pktptr] \in Nat /\ page'[pktptr] \in Nat
               /\ page[pktptr] <= page'[pktptr]
    BY <1>1, <1>4, <1>a, <1>b, <2>2
  <2>3. first \in Nat /\ pktlen \in Nat
    BY <1>1 DEF Types
  <2> QED
    BY <1>1, <2>1, <2>2, <2>3 DEF ReaderInv
<1>7. ReceivedInv'
  BY <1>1 DEF ReceivedInv
<1> QED
  BY <1>3, <1>c, <1>5, <1>6, <1>7 DEF NetifInv

(* A step that leaves the ring, the frame just read and the slot it was    *)
(* read from alone.                                                        *)
LEMMA NetifElsewhere ==
  ASSUME NetifInv, UNCHANGED <<ring, driver, readPos, locals, received>>,
         sml \notin {"ptr", "len", "copy", "copying"},
         sml' \in {"down", "up", "receive", "handle", "send", "xmit", "sent"}
  PROVE  NetifInv'
<1>1. Types' /\ PageInv' /\ RingInv' /\ ReceivedInv'
  BY DEF NetifInv, Types, PageInv, RingInv, ReceivedInv, ring, driver, locals
<1>2. LastReceived' = LastReceived
  BY DEF LastReceived
<1>3. ReaderInv'
  BY <1>2 DEF NetifInv, ReaderInv, ring, driver, locals
<1> QED
  BY <1>1, <1>3 DEF NetifInv

(* Receive goes on when the next slot is not the one to write next: then   *)
(* that slot was written since the last frame was taken.                   *)
LEMMA NetifAwait ==
  ASSUME NetifInv, Await
  PROVE  NetifInv'
<1>1. /\ Types /\ PageInv /\ RingInv /\ ReaderInv /\ ReceivedInv
      /\ sml = "receive" /\ sml' = "ptr" /\ Succ(readPos) # writePos
      /\ readPos' = Succ(readPos)
      /\ UNCHANGED <<ring, driver, locals, received>>
  BY DEF NetifInv, Await, Goto, Empty
<1>2. LastReceived \in Nat /\ LastReceived' = LastReceived /\ count \in Nat
  BY <1>1, LastInNat DEF LastReceived, Types
<1>3. readPos' = (LastReceived + 1) % QueueSize
  <2>1. readPos = LastReceived % QueueSize
    BY <1>1 DEF ReaderInv
  <2> QED
    BY <1>1, <1>2, <2>1, SuccOfFrame
<1>4. LastReceived < count
  <2>1. LastReceived # count
    BY <1>1, <1>2, <1>3 DEF RingInv
  <2> QED
    BY <1>1, <1>2, <2>1 DEF ReaderInv
<1>5. Types' /\ PageInv' /\ RingInv' /\ ReceivedInv'
  BY <1>1 DEF Types, PageInv, RingInv, ReceivedInv, ring, driver, locals
<1>6. ReaderInv'
  BY <1>1, <1>2, <1>3, <1>4 DEF ReaderInv, ring, driver, locals
<1> QED
  BY <1>5, <1>6 DEF NetifInv

(* The slot Receive stands on holds a frame newer than the last one.       *)
LEMMA SlotIsNewer ==
  ASSUME NetifInv, sml \in {"ptr", "len"}
  PROVE  /\ readPos \in Slot
         /\ LastReceived < dataLengths[readPos] /\ dataLengths[readPos] <= count
         /\ dataLengths[readPos] % QueueSize = readPos
         /\ dataPtrs[readPos] \in RxPage /\ LastReceived < page[dataPtrs[readPos]]
<1>1. /\ Types /\ RingInv /\ LastReceived \in Nat
      /\ readPos = (LastReceived + 1) % QueueSize /\ LastReceived < count
      /\ count \in Nat /\ LastReceived + 1 \in Nat
  BY LastInNat DEF NetifInv, ReaderInv, Types
<1>2. readPos \in Slot
  BY <1>1, SuccOfFrame
<1>3. LastReceived + 1 \in 1..count /\ dataLengths[readPos] \in Nat
  BY <1>1, <1>2 DEF Types
<1>4. LastReceived + 1 <= dataLengths[readPos]
  BY <1>1, <1>2, <1>3 DEF RingInv
<1>5. dataLengths[readPos] # None
  BY <1>1, <1>3, <1>4 DEF None
<1>6. /\ dataPtrs[readPos] \in RxPage /\ page[dataPtrs[readPos]] \in Nat
      /\ dataLengths[readPos] <= page[dataPtrs[readPos]]
  BY <1>1, <1>2, <1>5 DEF RingInv, Types
<1> QED
  BY <1>1, <1>2, <1>3, <1>4, <1>5, <1>6 DEF RingInv

(* Receive reads the slot's pointer. *)
LEMMA NetifReadPtr ==
  ASSUME NetifInv, ReadPtr
  PROVE  NetifInv'
<1>1. /\ Types /\ PageInv /\ RingInv /\ ReaderInv /\ ReceivedInv
      /\ sml = "ptr" /\ sml' = "len" /\ pktptr' = dataPtrs[readPos]
      /\ UNCHANGED <<ring, driver, readPos, pktlen, first, received>>
  BY DEF NetifInv, ReadPtr, Goto
<1>2. LastReceived' = LastReceived
  BY <1>1 DEF LastReceived
<1>3. pktptr' \in RxPage /\ LastReceived < page[pktptr']
  BY <1>1, SlotIsNewer
<1>4. Types' /\ PageInv' /\ RingInv' /\ ReceivedInv'
  BY <1>1, <1>3 DEF Types, PageInv, RingInv, ReceivedInv, ring, driver
<1>5. ReaderInv'
  BY <1>1, <1>2, <1>3 DEF ReaderInv, ring, driver
<1> QED
  BY <1>4, <1>5 DEF NetifInv

(* Receive reads the slot's length: that of the frame now in the slot,     *)
(* which may be newer than the one whose pointer was read.                 *)
LEMMA NetifReadLen ==
  ASSUME NetifInv, ReadLen
  PROVE  NetifInv'
<1>1. /\ Types /\ PageInv /\ RingInv /\ ReaderInv /\ ReceivedInv
      /\ sml = "len" /\ sml' = "copy" /\ pktlen' = dataLengths[readPos]
      /\ UNCHANGED <<ring, driver, readPos, pktptr, first, received>>
  BY DEF NetifInv, ReadLen, Goto
<1>2. LastReceived' = LastReceived
  BY <1>1 DEF LastReceived
<1>3. /\ readPos \in Slot /\ LastReceived < pktlen' /\ pktlen' <= count
      /\ readPos = pktlen' % QueueSize
  BY <1>1, SlotIsNewer
<1>4. Types'
  <2>1. pktlen' \in 0..MaxFrames
    BY <1>1, <1>3, NetifAssumption DEF Types
  <2> QED
    BY <1>1, <2>1 DEF Types, ring, driver
<1>5. PageInv' /\ RingInv' /\ ReceivedInv'
  BY <1>1 DEF PageInv, RingInv, ReceivedInv, ring, driver
<1>6. ReaderInv'
  BY <1>1, <1>2, <1>3 DEF ReaderInv, ring, driver
<1> QED
  BY <1>4, <1>5, <1>6 DEF NetifInv

(* What the page Receive copies holds: the newest frame that went there,   *)
(* newer than the last one received.                                       *)
LEMMA ContentIsFrame ==
  ASSUME NetifInv, sml \in {"copy", "copying"}
  PROVE  /\ Content(pktptr) \in Frame /\ Content(pktptr) = page[pktptr]
         /\ LastReceived < page[pktptr] /\ pktlen \in Frame /\ pktlen <= count
         /\ pktptr = pktlen % RxPages => pktlen <= page[pktptr]
         /\ page[pktptr] = pktlen =>
              pktptr = pktlen % RxPages /\ count < pktlen + RxPages
         /\ pktptr = pktlen % RxPages /\ count < pktlen + RxPages =>
              page[pktptr] = pktlen
<1>1. /\ pktptr \in RxPage /\ LastReceived < page[pktptr] /\ LastReceived \in Nat
      /\ LastReceived < pktlen /\ pktlen <= count
  BY LastInNat DEF NetifInv, ReaderInv
<1>2. /\ page[pktptr] \in Nat /\ page[pktptr] <= count /\ count \in Nat
      /\ count <= MaxFrames /\ pktlen \in Nat
  BY <1>1 DEF NetifInv, Types, PageInv
<1>3. page[pktptr] \in 1..count /\ pktlen \in 1..count
  BY <1>1, <1>2
<1>4. /\ page[pktptr] % RxPages = pktptr
      /\ \A k \in 1..count : k % RxPages = pktptr => k <= page[pktptr]
  BY <1>1, <1>3 DEF NetifInv, PageInv, None
<1>5. ASSUME page[pktptr] = pktlen PROVE count < pktlen + RxPages
  <2>1. CASE pktlen + RxPages <= count
    <3>1. (pktlen + RxPages) % RxPages = pktptr
      BY <1>2, <1>4, <1>5, ModPlus, NetifAssumption
    <3>2. RxPages \in Nat \ {0} /\ pktlen + RxPages \in 1..count
      BY <1>2, <2>1, NetifAssumption
    <3>3. pktlen + RxPages <= pktlen
      BY <1>4, <1>5, <3>1, <3>2
    <3> QED
      BY <1>2, <3>2, <3>3
  <2> QED
    BY <1>2, <2>1, NetifAssumption
<1>6. ASSUME pktptr = pktlen % RxPages, count < pktlen + RxPages
      PROVE  page[pktptr] = pktlen
  <2>1. pktlen <= page[pktptr] /\ page[pktptr] < pktlen + RxPages
    BY <1>2, <1>3, <1>4, <1>6, NetifAssumption
  <2>2. ~(pktlen < page[pktptr])
    BY <1>2, <1>4, <1>6, <2>1, ModDistinct, NetifAssumption
  <2> QED
    BY <1>2, <2>1, <2>2
<1> QED
  BY <1>1, <1>2, <1>3, <1>4, <1>5, <1>6, NetifAssumption DEF Content, Frame

(* Receive copies the first half. *)
LEMMA NetifCopyFirst ==
  ASSUME NetifInv, CopyFirst
  PROVE  NetifInv'
<1>1. /\ Types /\ PageInv /\ RingInv /\ ReaderInv /\ ReceivedInv
      /\ sml = "copy" /\ sml' = "copying" /\ first' = Content(pktptr)
      /\ UNCHANGED <<ring, driver, readPos, pktptr, pktlen, received>>
  BY DEF NetifInv, CopyFirst, Goto
<1>2. LastReceived' = LastReceived
  BY <1>1 DEF LastReceived
<1>3. /\ first' \in Frame /\ LastReceived < first' /\ first' = page[pktptr]
      /\ pktptr = pktlen % RxPages => pktlen <= first'
  BY <1>1, ContentIsFrame
<1>4. Types' /\ first' <= page[pktptr]
  BY <1>1, <1>3, NetifAssumption DEF Types, Frame, ring, driver
<1>5. PageInv' /\ RingInv' /\ ReceivedInv'
  BY <1>1 DEF PageInv, RingInv, ReceivedInv, ring, driver
<1>6. ReaderInv'
  BY <1>1, <1>2, <1>3, <1>4 DEF ReaderInv, ring, driver
<1> QED
  BY <1>4, <1>5, <1>6 DEF NetifInv

(* Receive copies the second half and returns: the frame is newer than all *)
(* it returned before.                                                     *)
LEMMA NetifCopySecond ==
  ASSUME NetifInv, CopySecond
  PROVE  NetifInv'
<1> DEFINE got == [first |-> first, second |-> Content(pktptr), len |-> pktlen]
<1>1. /\ Types /\ PageInv /\ RingInv /\ ReaderInv /\ ReceivedInv
      /\ sml = "copying" /\ sml' = "handle" /\ received' = Append(received, got)
      /\ UNCHANGED <<ring, driver, readPos, locals>>
  BY DEF NetifInv, CopySecond, Goto
<1>2. got \in [first : Frame, second : Frame, len : Frame] /\ got.len = pktlen
  <2>1. Content(pktptr) \in Frame
    BY <1>1, ContentIsFrame
  <2>2. LastReceived < pktlen /\ LastReceived \in Nat /\ LastReceived < first
    BY <1>1, LastInNat DEF ReaderInv
  <2>3. pktlen \in Frame /\ first \in Frame
    BY <1>1, <2>2, NetifAssumption DEF Types, Frame, None
  <2> QED
    BY <2>1, <2>3
<1> HIDE DEF got
<1>3. /\ received' \in Seq([first : Frame, second : Frame, len : Frame])
      /\ Len(received) \in Nat /\ Len(received') = Len(received) + 1
      /\ received'[Len(received')] = got
      /\ \A i \in 1..Len(received) : received'[i] = received[i]
  BY <1>1, <1>2 DEF Types
<1>4. LastReceived' = pktlen
  BY <1>2, <1>3 DEF LastReceived
<1>5. Types'
  BY <1>1, <1>3 DEF Types, ring, driver, locals
<1>6. PageInv' /\ RingInv'
  BY <1>1 DEF PageInv, RingInv, ring, driver
<1>7. ReaderInv'
  BY <1>1, <1>4 DEF ReaderInv, ring, driver, locals
<1>8. ReceivedInv'
  <2> SUFFICES ASSUME NEW i \in 1..Len(received'), NEW j \in 1..Len(received'), i < j
               PROVE  received'[i].len < received'[j].len
    BY DEF ReceivedInv
  <2>1. i \in 1..Len(received) /\ received'[i] = received[i]
    BY <1>3
  <2>2. CASE j \in 1..Len(received)
    BY <1>1, <1>3, <2>1, <2>2 DEF ReceivedInv
  <2>3. CASE j \notin 1..Len(received)
    <3>1. j = Len(received') /\ received'[j].len = pktlen
      BY <1>2, <1>3, <2>3
    <3>2. Len(received) \in 1..Len(received) /\ Len(received) # 0
      BY <1>3, <2>1
    <3>3. /\ received[i] \in [first : Frame, second : Frame, len : Frame]
          /\ received[Len(received)] \in [first : Frame, second : Frame, len : Frame]
      BY <1>1, <2>1, <3>2, ElementOfSeq DEF Types
    <3>4. received[i].len \in Nat /\ received[Len(received)].len \in Nat /\ pktlen \in Nat
      <4>1. received[i].len \in Frame /\ received[Len(received)].len \in Frame
        BY <3>3
      <4>2. pktlen \in Nat
        BY <1>1 DEF Types
      <4> QED
        BY <4>1, <4>2 DEF Frame
    <3>5. received[i].len <= received[Len(received)].len
      <4>1. CASE i = Len(received)
        BY <3>4, <4>1
      <4>2. CASE i # Len(received)
        BY <1>1, <1>3, <2>1, <3>2, <3>4, <4>2 DEF ReceivedInv
      <4> QED
        BY <4>1, <4>2
    <3>6. received[Len(received)].len < pktlen
      BY <1>1, <3>2 DEF ReaderInv, LastReceived
    <3> QED
      BY <2>1, <3>1, <3>4, <3>5, <3>6
  <2> QED
    BY <2>2, <2>3
<1> QED
  BY <1>5, <1>6, <1>7, <1>8 DEF NetifInv

------------------------------------------------------------------------------
(* However many frames come, the ring and the reader stand in the relation *)
(* the properties below follow from.                                       *)
THEOREM NetifInvariance == Spec => []NetifInv
<1>1. NetifInv /\ [Next]_vars => NetifInv'
  <2> SUFFICES ASSUME NetifInv, [Next]_vars PROVE NetifInv'
    OBVIOUS
  <2>1. CASE NetifRx
    BY <2>1, NetifNetifRx
  <2>2. CASE Await
    BY <2>2, NetifAwait
  <2>3. CASE ReadPtr
    BY <2>3, NetifReadPtr
  <2>4. CASE ReadLen
    BY <2>4, NetifReadLen
  <2>5. CASE CopyFirst
    BY <2>5, NetifCopyFirst
  <2>6. CASE CopySecond
    BY <2>6, NetifCopySecond
  <2>7. CASE \/ Down("down", "up") \/ Up("up", "receive") \/ Handle
             \/ Down("send", "xmit") \/ Xmit \/ Up("sent", "receive")
    BY <2>7, NetifElsewhere DEF Down, Up, Handle, Xmit, Goto
  <2>8. CASE Netfront \/ UNCHANGED vars
    <3>1. UNCHANGED <<ring, driver, readPos, locals, received, sml>>
      BY <2>8 DEF Netfront, Connect, InitNetfront, NetfrontUp, vars, device
    <3>2. LastReceived' = LastReceived
      BY <3>1 DEF LastReceived
    <3> QED
      BY <3>1, <3>2 DEF NetifInv, Types, PageInv, RingInv, ReaderInv, ReceivedInv, ring,
                        driver, locals
  <2> QED
    BY <2>1, <2>2, <2>3, <2>4, <2>5, <2>6, <2>7, <2>8 DEF Next, Sml
<1> QED
  BY <1>1, NetifInit, PTL DEF Spec

(* The frame received last is not older than any received before.          *)
LEMMA LastIsNewest ==
  ASSUME NetifInv, NEW i \in 1..Len(received)
  PROVE  received[i].len \in Nat /\ received[i].len <= LastReceived
<1>1. /\ received \in Seq([first : Frame, second : Frame, len : Frame])
      /\ Len(received) \in Nat /\ ReceivedInv
  BY DEF NetifInv, Types
<1>2. Len(received) \in 1..Len(received) /\ Len(received) # 0 /\ i <= Len(received)
  BY <1>1
<1>3. /\ received[i] \in [first : Frame, second : Frame, len : Frame]
      /\ received[Len(received)] \in [first : Frame, second : Frame, len : Frame]
  BY <1>1, <1>2, ElementOfSeq
<1>4. received[i].len \in Nat /\ received[Len(received)].len \in Nat
  <2>1. received[i].len \in Frame /\ received[Len(received)].len \in Frame
    BY <1>3
  <2> QED
    BY <2>1 DEF Frame
<1>5. i # Len(received) => received[i].len < received[Len(received)].len
  BY <1>1, <1>2 DEF ReceivedInv
<1> QED
  BY <1>2, <1>4, <1>5 DEF LastReceived

(* However far the ring is overrun, what Receive returns is newer, in its  *)
(* bytes and its length, than every frame whose slot it took before, and   *)
(* is its slot's frame, whole, exactly when neither slot nor page was      *)
(* taken by a newer frame meanwhile.                                       *)
THEOREM ReceivedNeverOlder == Spec => NeverOlder
<1> DEFINE Exact ==
             LET got == received'[Len(received')]
             IN /\ \A i \in DOMAIN received : \A f \in {"first", "second", "len"} :
                     received[i].len < got[f]
                /\ got.first <= got.second
                /\ got = Channel!Intact(pktlen) <=>
                     pktptr = pktlen % RxPages /\ count < pktlen + RxPages
<1>1. ASSUME NetifInv, CopySecond PROVE Exact
  <2> DEFINE got == received'[Len(received')]
             p == page[pktptr]
  <2>1. /\ received \in Seq([first : Frame, second : Frame, len : Frame])
        /\ Len(received) \in Nat /\ DOMAIN received = 1..Len(received)
        /\ LastReceived \in Nat /\ sml = "copying"
    BY <1>1, LastInNat DEF NetifInv, Types, CopySecond, Goto
  <2>2. /\ p \in Nat /\ Content(pktptr) = p /\ LastReceived < p
        /\ pktlen \in Nat
        /\ p = pktlen <=> pktptr = pktlen % RxPages /\ count < pktlen + RxPages
    BY <1>1, <2>1, ContentIsFrame DEF Frame
  <2>3. /\ LastReceived < pktlen /\ LastReceived < first /\ first <= p /\ first \in Nat
        /\ pktptr = pktlen % RxPages => pktlen <= first
    BY <1>1, <2>1 DEF NetifInv, ReaderInv, Types
  <2>4. got = [first |-> first, second |-> p, len |-> pktlen]
    BY <1>1, <2>1, <2>2 DEF CopySecond
  <2> HIDE DEF got, p
  <2>5. ASSUME NEW i \in DOMAIN received, NEW f \in {"first", "second", "len"}
        PROVE  received[i].len < got[f]
    <3>1. received[i].len \in Nat /\ received[i].len <= LastReceived
      BY <1>1, <2>1, <2>5, LastIsNewest
    <3>2. got[f] \in {first, p, pktlen}
      BY <2>4
    <3> QED
      BY <2>1, <2>2, <2>3, <3>1, <3>2
  <2>6. got = Channel!Intact(pktlen) <=> first = pktlen /\ p = pktlen
    BY <2>4 DEF Channel!Intact
  <2>7. p = pktlen => first = pktlen
    BY <2>2, <2>3
  <2>8. got.first <= got.second
    BY <2>3, <2>4
  <2>9. got = Channel!Intact(pktlen) <=>
          pktptr = pktlen % RxPages /\ count < pktlen + RxPages
    BY <2>2, <2>6, <2>7
  <2> QED
    BY <2>5, <2>8, <2>9 DEF got
<1>2. NetifInv /\ [Next]_vars => [received' # received => Exact]_received
  <2> SUFFICES ASSUME NetifInv, [Next]_vars, received' # received PROVE Exact
    OBVIOUS
  <2>1. CopySecond
    BY DEF Next, Netfront, Connect, InitNetfront, NetfrontUp, NetifRx, Sml, Down, Up, Await,
           ReadPtr, ReadLen, CopyFirst, Handle, Xmit, vars
  <2> QED
    BY <1>1, <2>1
<1> QED
  BY <1>2, NetifInvariance, PTL DEF Spec, NeverOlder

(* Receive takes only slots that were written, and never reads through a   *)
(* pointer that was not stored.                                            *)
THEOREM ReceivedWritten == Spec => []NeverUnwritten
<1>1. NetifInv => NeverUnwritten
  <2> SUFFICES ASSUME NetifInv PROVE NeverUnwritten
    OBVIOUS
  <2>1. sml \in {"len", "copy", "copying"} => pktptr # NoPage
    BY NetifAssumption DEF NetifInv, ReaderInv, RxPage, NoPage
  <2>2. sml \in {"copy", "copying"} => pktlen # None
    BY LastInNat DEF NetifInv, ReaderInv, Types, None
  <2>3. ASSUME NEW i \in DOMAIN received, NEW f \in DOMAIN received[i]
        PROVE  received[i][f] # None
    <3>1. received[i] \in [first : Frame, second : Frame, len : Frame]
      BY LenProperties, ElementOfSeq DEF NetifInv, Types
    <3>2. f \in {"first", "second", "len"}
      BY <3>1
    <3>3. received[i][f] \in Frame
      BY <3>1, <3>2
    <3> QED
      BY <3>3, NetifAssumption DEF Frame, None
  <2> QED
    BY <2>1, <2>2, <2>3 DEF NeverUnwritten
<1> QED
  BY <1>1, NetifInvariance, PTL

------------------------------------------------------------------------------
(* The semaphore. *)

SemaphoreInv ==
  /\ net_sem \in Nat
  /\ netfront \in {"init", "connected", "up", "done"}
  /\ net_dev \in BOOLEAN /\ (net_dev <=> netfront \in {"up", "done"})
  /\ SemaphoreExact
  /\ sml # "down" => netfront = "done"

(* Where the threads are decides the semaphore's count. *)
LEMMA SemaphoreInvariance == Spec => []SemaphoreInv
<1>1. Init => SemaphoreInv
  <2> SUFFICES ASSUME Init PROVE SemaphoreInv
    OBVIOUS
  <2>1. net_dev \in BOOLEAN /\ ~net_dev /\ netfront = "init"
    BY DEF Init
  <2> QED
    BY <2>1 DEF Init, SemaphoreInv, SemaphoreExact, Holds
<1>2. SemaphoreInv /\ [Next]_vars => SemaphoreInv'
  <2> SUFFICES ASSUME SemaphoreInv, [Next]_vars PROVE SemaphoreInv'
    OBVIOUS
  <2> USE DEF SemaphoreInv, SemaphoreExact, Holds
  <2>1. CASE Netfront
    <3>1. net_dev' \in BOOLEAN
      BY <2>1 DEF Netfront, Connect, InitNetfront, NetfrontUp
    <3>2. CASE InitNetfront
      BY <3>1, <3>2 DEF InitNetfront
    <3>3. CASE Connect \/ NetfrontUp
      BY <3>1, <3>3 DEF Connect, NetfrontUp
    <3> QED
      BY <2>1, <3>2, <3>3 DEF Netfront
  <2>2. CASE NetifRx \/ UNCHANGED vars
    BY <2>2 DEF NetifRx, device, vars
  <2>3. CASE Down("down", "up") \/ Down("send", "xmit")
    BY <2>3 DEF Down, Goto
  <2>4. CASE Up("up", "receive") \/ Up("sent", "receive")
    BY <2>4 DEF Up, Goto
  <2>5. CASE Await \/ ReadPtr \/ ReadLen \/ CopyFirst \/ CopySecond
    BY <2>5 DEF Await, ReadPtr, ReadLen, CopyFirst, CopySecond, Goto, device
  <2>6. CASE Handle \/ Xmit
    BY <2>6 DEF Handle, Xmit, Goto, device
  <2> QED
    BY <2>1, <2>2, <2>3, <2>4, <2>5, <2>6 DEF Next, Sml
<1> QED
  BY <1>1, <1>2, PTL DEF Spec

(* The SML thread gets net_sem only when netfront_thread has set up the    *)
(* device, and holds it alone while it transmits.                          *)
THEOREM SemaphoreIsLock == Spec => []SemaphoreExact
<1>1. SemaphoreInv => SemaphoreExact
  BY DEF SemaphoreInv
<1> QED
  BY <1>1, SemaphoreInvariance, PTL

(* The state of the interface keeps its types: both positions stay inside  *)
(* the ring, and the semaphore counts no more than one.                    *)
THEOREM NetifTypes == Spec => []TypeOK
<1>1. NetifInv /\ SemaphoreInv => TypeOK
  <2> SUFFICES ASSUME NetifInv, SemaphoreInv PROVE TypeOK
    OBVIOUS
  <2>1. /\ Types /\ RingInv /\ ReaderInv /\ LastReceived \in Nat /\ count \in Nat
    BY LastInNat DEF NetifInv, Types
  <2>2. writePos \in Slot
    <3>1. count + 1 \in Nat
      BY <2>1
    <3> QED
      BY <2>1, <3>1, SuccOfFrame DEF RingInv
  <2>3. readPos \in Slot
    <3>1. LastReceived + 1 \in Nat /\ pktlen \in Nat
      BY <2>1 DEF Types
    <3>2. \/ readPos = LastReceived % QueueSize
          \/ readPos = (LastReceived + 1) % QueueSize
          \/ readPos = pktlen % QueueSize
      BY <2>1 DEF ReaderInv
    <3> QED
      BY <2>1, <3>1, <3>2, SuccOfFrame
  <2>4. page \in [RxPage -> Frame \union {None}]
    <3>1. ASSUME NEW q \in RxPage PROVE page[q] \in Frame \union {None}
      BY <2>1, NetifAssumption DEF NetifInv, Types, PageInv, Frame, None
    <3> QED
      BY <2>1, <3>1 DEF Types
  <2>5. dataLengths \in [Slot -> Frame \union {None}]
    <3>1. ASSUME NEW s \in Slot PROVE dataLengths[s] \in Frame \union {None}
      BY <2>1, NetifAssumption DEF Types, RingInv, Frame, None
    <3> QED
      BY <2>1, <3>1 DEF Types
  <2>6. received \in Seq([{"first", "second", "len"} -> Frame \union {None}])
    <3> DEFINE R == [first : Frame, second : Frame, len : Frame]
               T == [{"first", "second", "len"} -> Frame \union {None}]
    <3>1. received \in Seq(R)
      BY <2>1 DEF Types
    <3>2. R \subseteq T
      OBVIOUS
    <3> HIDE DEF R, T
    <3>3. received \in Seq(T)
      BY <3>1, <3>2, SeqMonotonic
    <3> QED
      BY <3>3 DEF T
  <2>7. net_sem \in 0..1 /\ net_dev \in BOOLEAN
    <3>1. net_dev \in BOOLEAN
      BY DEF SemaphoreInv
    <3>2. net_sem \in 0..1
      BY DEF SemaphoreInv, SemaphoreExact
    <3> QED
      BY <3>1, <3>2
  <2>8. first \in Frame \union {None} /\ pktlen \in Frame \union {None}
    BY <2>1, NetifAssumption DEF Types, Frame, None
  <2> QED
    BY <2>1, <2>2, <2>3, <2>4, <2>5, <2>6, <2>7, <2>8 DEF TypeOK, Types, SemaphoreInv
<1> QED
  BY <1>1, NetifInvariance, SemaphoreInvariance, PTL

------------------------------------------------------------------------------
(* While the program keeps up. *)

(* The backlog up to which the program is not late is one that the ring    *)
(* and the driver's pages hold.                                            *)
(* (With a full ring Receive waits for ever, so that liveness needs one    *)
(* slot more; nothing is lost or mixed up even then.)                      *)
KeepsUp == Backlog <= QueueSize /\ Backlog <= RxPages

Intact(k) == [first |-> k, second |-> k, len |-> k]

(* The newest frames are still in their pages and slots, what was received *)
(* is whole, and Receive holds parts of the next frame only.               *)
KeepUpInv ==
  /\ Len(received) <= count /\ count - Len(received) <= Backlog
  /\ \A i \in 1..Len(received) : received[i] = Intact(i)
  /\ \A k \in 1..count :
       /\ count < k + RxPages => page[k % RxPages] = k
       /\ count < k + QueueSize => /\ dataPtrs[k % QueueSize] = k % RxPages
                                   /\ dataLengths[k % QueueSize] = k
  /\ sml \in {"len", "copy", "copying"} => pktptr = (Len(received) + 1) % RxPages
  /\ sml \in {"copy", "copying"} => pktlen = Len(received) + 1
  /\ sml = "copying" => first = Len(received) + 1

(* Before the device is connected. *)
LEMMA KeepUpInit == Init => KeepUpInv
  BY NetifAssumption DEF Init, KeepUpInv

(* The frame received last is the last one of those received. *)
LEMMA LastIsLen ==
  ASSUME NetifInv, KeepUpInv
  PROVE  /\ Len(received) \in Nat /\ LastReceived = Len(received) /\ count \in Nat
         /\ received \in Seq([first : Frame, second : Frame, len : Frame])
<1>1. /\ Len(received) \in Nat /\ count \in Nat
      /\ received \in Seq([first : Frame, second : Frame, len : Frame])
  BY DEF NetifInv, Types
<1>2. Len(received) # 0 => received[Len(received)].len = Len(received)
  <2> SUFFICES ASSUME Len(received) # 0 PROVE received[Len(received)].len = Len(received)
    OBVIOUS
  <2>1. Len(received) \in 1..Len(received)
    BY <1>1
  <2>2. received[Len(received)] = Intact(Len(received))
    BY <2>1 DEF KeepUpInv
  <2> QED
    BY <2>2 DEF Intact
<1> QED
  BY <1>1, <1>2 DEF LastReceived

(* What is in the slot and the page of the next frame, when it came. *)
LEMMA NextFrame ==
  ASSUME NetifInv, KeepUpInv, KeepsUp, Len(received) < count
  PROVE  LET k == Len(received) + 1
         IN /\ dataPtrs[k % QueueSize] = k % RxPages /\ dataLengths[k % QueueSize] = k
            /\ page[k % RxPages] = k /\ k % RxPages \in RxPage
<1> DEFINE k == Len(received) + 1
<1>1. Len(received) \in Nat /\ count \in Nat
  BY LastIsLen
<1>2. k \in 1..count /\ count < k + RxPages /\ count < k + QueueSize
  BY <1>1, NetifAssumption DEF KeepUpInv, KeepsUp
<1>3. k % RxPages \in RxPage
  BY <1>1, NetifAssumption DEF RxPage
<1> HIDE DEF k
<1>4. /\ dataPtrs[k % QueueSize] = k % RxPages /\ dataLengths[k % QueueSize] = k
      /\ page[k % RxPages] = k
  BY <1>2 DEF KeepUpInv
<1> QED
  BY <1>3, <1>4 DEF k

(* A frame comes: it takes the place of one that was received. *)
LEMMA KeepUpNetifRx ==
  ASSUME NetifInv, KeepUpInv, KeepsUp, NetifRx, ~late'
  PROVE  KeepUpInv'
<1> DEFINE new == count + 1
<1>0. ~(Waiting >= Backlog)
  <2>1. late' = (late \/ Waiting >= Backlog)
    BY DEF NetifRx
  <2> QED
    BY <2>1, Zenon
<1>1. /\ Len(received) \in Nat /\ count \in Nat
      /\ count' = new /\ new - Len(received) <= Backlog
      /\ page' = [page EXCEPT ![new % RxPages] = new]
      /\ dataPtrs' = [dataPtrs EXCEPT ![writePos] = new % RxPages]
      /\ dataLengths' = [dataLengths EXCEPT ![writePos] = new]
      /\ UNCHANGED <<readPos, pktptr, pktlen, first, sml, received>>
  BY <1>0, LastIsLen, NetifAssumption DEF NetifRx, Waiting, locals
<1>2. /\ writePos = new % QueueSize /\ new % QueueSize \in Slot
      /\ new % RxPages \in RxPage /\ new \in Nat
      /\ page \in [RxPage -> Nat] /\ dataLengths \in [Slot -> Nat]
      /\ dataPtrs \in [Slot -> RxPage \union {NoPage}]
  <2>1. new \in Nat
    BY <1>1
  <2>2. new % QueueSize \in Slot
    BY <2>1, SuccOfFrame
  <2>3. new % RxPages \in RxPage
    BY <2>1, NetifAssumption DEF RxPage
  <2> QED
    BY <2>1, <2>2, <2>3 DEF NetifInv, Types, RingInv
<1>3. ASSUME NEW k \in 1..count'
      PROVE  /\ count' < k + RxPages => page'[k % RxPages] = k
             /\ count' < k + QueueSize => /\ dataPtrs'[k % QueueSize] = k % RxPages
                                          /\ dataLengths'[k % QueueSize] = k
  <2>1. CASE k = new
    BY <1>1, <1>2, <2>1
  <2>2. CASE k # new
    <3>1. k \in 1..count /\ k \in Nat /\ k < new
      BY <1>1, <1>2, <2>2
    <3>2. ASSUME count' < k + RxPages PROVE page'[k % RxPages] = k
      <4>1. k % RxPages # new % RxPages
        BY <1>1, <1>2, <3>1, <3>2, ModDistinct, NetifAssumption
      <4>2. page[k % RxPages] = k /\ k % RxPages \in RxPage
        BY <1>1, <3>1, <3>2, NetifAssumption DEF KeepUpInv, RxPage
      <4> QED
        BY <1>1, <1>2, <4>1, <4>2
    <3>3. ASSUME count' < k + QueueSize
          PROVE  dataPtrs'[k % QueueSize] = k % RxPages /\ dataLengths'[k % QueueSize] = k
      <4>1. k % QueueSize # new % QueueSize
        <5>1. QueueSize \in Nat \ {0} /\ new < k + QueueSize
          BY <1>1, <3>3, NetifAssumption
        <5> QED
          BY <1>2, <3>1, <5>1, ModDistinct
      <4>2. k % QueueSize \in Slot
        BY <3>1, SuccOfFrame
      <4>3. dataPtrs[k % QueueSize] = k % RxPages /\ dataLengths[k % QueueSize] = k
        <5>1. count < k + QueueSize
          BY <1>1, <3>1, <3>3, NetifAssumption
        <5> QED
          BY <3>1, <5>1 DEF KeepUpInv
      <4> QED
        BY <1>1, <1>2, <4>1, <4>2, <4>3
    <3> QED
      BY <3>2, <3>3
  <2> QED
    BY <2>1, <2>2
<1>4. Len(received') <= count' /\ count' - Len(received') <= Backlog
  BY <1>1 DEF KeepUpInv
<1> QED
  BY <1>1, <1>3, <1>4 DEF KeepUpInv

(* Receive reads the pointer and the length of the next frame, copies it,  *)
(* and returns it whole.                                                   *)
LEMMA KeepUpReceive ==
  ASSUME NetifInv, KeepUpInv, KeepsUp, ReadPtr \/ ReadLen \/ CopyFirst \/ CopySecond
  PROVE  /\ KeepUpInv'
         /\ CopySecond => /\ Len(received) < count
                          /\ received' = Append(received, Intact(Len(received) + 1))
<1> DEFINE k == Len(received) + 1
<1>1. /\ Len(received) \in Nat /\ count \in Nat /\ LastReceived = Len(received)
      /\ received \in Seq([first : Frame, second : Frame, len : Frame])
      /\ UNCHANGED <<ring, driver, readPos>>
  BY LastIsLen DEF ReadPtr, ReadLen, CopyFirst, CopySecond
<1>2. Len(received) < count
  BY <1>1 DEF NetifInv, ReaderInv, KeepUpInv, ReadPtr, ReadLen, CopyFirst, CopySecond, Goto
<1>3. /\ dataPtrs[k % QueueSize] = k % RxPages /\ dataLengths[k % QueueSize] = k
      /\ page[k % RxPages] = k /\ k % RxPages \in RxPage
  BY <1>2, NextFrame
<1>4. sml \in {"ptr", "len"} => readPos = k % QueueSize
  BY <1>1 DEF NetifInv, ReaderInv
<1> HIDE DEF k
<1>5. CASE ReadPtr
  <2>1. pktptr' = k % RxPages
    BY <1>3, <1>4, <1>5 DEF ReadPtr, Goto
  <2> QED
    BY <1>1, <1>5, <2>1 DEF ReadPtr, CopySecond, Goto, KeepUpInv, ring, driver, k
<1>6. CASE ReadLen
  <2>1. pktlen' = k
    BY <1>3, <1>4, <1>6 DEF ReadLen, Goto
  <2> QED
    BY <1>1, <1>6, <2>1 DEF ReadLen, CopySecond, Goto, KeepUpInv, ring, driver, k
<1>7. sml \in {"copy", "copying"} => Content(pktptr) = k
  BY <1>3 DEF KeepUpInv, Content, k
<1>8. CASE CopyFirst
  <2>1. first' = k
    BY <1>7, <1>8 DEF CopyFirst, Goto
  <2> QED
    BY <1>1, <1>8, <2>1 DEF CopyFirst, CopySecond, Goto, KeepUpInv, ring, driver, k
<1>9. CASE CopySecond
  <2>1. received' = Append(received, Intact(k)) /\ sml' = "handle" /\ UNCHANGED locals
    BY <1>7, <1>9 DEF CopySecond, Goto, KeepUpInv, Intact, k
  <2>2. /\ Len(received') = k
        /\ \A i \in 1..Len(received) : received'[i] = received[i]
        /\ received'[k] = Intact(k)
    BY <1>1, <2>1 DEF k
  <2>3. \A i \in 1..Len(received') : received'[i] = Intact(i)
    BY <1>1, <2>2 DEF KeepUpInv, k
  <2>4. Len(received') <= count' /\ count' - Len(received') <= Backlog
    BY <1>1, <1>2, <2>2, NetifAssumption DEF KeepUpInv, driver, k
  <2>5. KeepUpInv'
    BY <1>1, <2>1, <2>3, <2>4 DEF KeepUpInv, ring, driver
  <2> QED
    BY <1>2, <2>1, <2>5 DEF k
<1> QED
  BY <1>5, <1>6, <1>8, <1>9

(* The frames from number b + 1 on, as a queue. *)
From(b, n) == [i \in 1..n |-> b + i]

(* No frame waits. *)
LEMMA FromNone == From(0, 0) = <<>>
BY DEF From

(* One more frame waits. *)
LEMMA FromGrows ==
  ASSUME NEW b \in Nat, NEW n \in Nat
  PROVE  From(b, n + 1) = Append(From(b, n), b + (n + 1))
BY DEF From

(* The oldest frame is taken. *)
LEMMA FromShrinks ==
  ASSUME NEW b \in Nat, NEW n \in Nat, n >= 1
  PROVE  /\ From(b, n) # <<>> /\ Head(From(b, n)) = b + 1
         /\ From(b + 1, n - 1) = Tail(From(b, n))
<1>1. /\ From(b, n) \in Seq(Nat) /\ Len(From(b, n)) = n
      /\ \A i \in 1..n : From(b, n)[i] = b + i
  BY DEF From
<1>2. /\ From(b + 1, n - 1) \in Seq(Nat) /\ Len(From(b + 1, n - 1)) = n - 1
      /\ \A i \in 1..(n - 1) : From(b + 1, n - 1)[i] = b + 1 + i
  BY DEF From
<1>3. From(b, n) # <<>> /\ Head(From(b, n)) = b + 1
  BY <1>1
<1>4. /\ Tail(From(b, n)) \in Seq(Nat) /\ Len(Tail(From(b, n))) = n - 1
      /\ \A i \in 1..(n - 1) : Tail(From(b, n))[i] = From(b, n)[i + 1]
  BY <1>1, <1>3, HeadTailProperties
<1>5. \A i \in 1..(n - 1) : Tail(From(b, n))[i] = b + 1 + i
  BY <1>1, <1>4
<1>6. From(b + 1, n - 1) = Tail(From(b, n))
  <2> DEFINE s == From(b + 1, n - 1)
             t == Tail(From(b, n))
  <2>1. s \in Seq(Nat) /\ t \in Seq(Nat) /\ Len(s) = Len(t)
        /\ \A i \in 1..Len(s) : s[i] = t[i]
    BY <1>2, <1>4, <1>5
  <2> HIDE DEF s, t
  <2>2. s = t
    BY <2>1, SeqEqual
  <2> QED
    BY <2>2 DEF s, t
<1> QED
  BY <1>3, <1>6

(* No other step touches what KeepUpInv is about. *)
LEMMA KeepUpElsewhere ==
  ASSUME KeepUpInv, UNCHANGED <<ring, driver, locals, received>>,
         sml' = sml \/ sml' \notin {"len", "copy", "copying"}
  PROVE  KeepUpInv'
BY DEF KeepUpInv, ring, driver, locals

(* As long as at most as many frames wait as the ring and the driver's     *)
(* pages hold, the interrupt handler and Receive implement the channel: every    *)
(* frame that came is received once, whole and in order, for every size of *)
(* the ring, whatever is interrupted where.                                *)
THEOREM RingIsChannel == ASSUME KeepsUp PROVE Spec => ChannelSpec
<1> DEFINE queue == [i \in 1..Waiting |-> Len(received) + i]
           Inv == NetifInv /\ (late \/ KeepUpInv)
<1>1. Init => Inv
  BY NetifInit, KeepUpInit
<1>2. Init => Channel!Init
  <2> SUFFICES ASSUME Init PROVE Channel!Init
    OBVIOUS
  <2>1. count = 0 /\ Len(received) = 0
    BY DEF Init
  <2>2. queue = From(0, 0)
    BY <2>1 DEF Waiting, From
  <2>3. queue = <<>>
    BY <2>2, FromNone
  <2> QED
    BY <2>3 DEF Init, Channel!Init
<1>3. ASSUME NetifInv, KeepUpInv, NetifInv', [Next]_vars, ~late'
      PROVE  KeepUpInv' /\ [Channel!Next]_(Channel!channelVars)
  <2>1. /\ Len(received) \in Nat /\ count \in Nat /\ Len(received) <= count
        /\ received \in Seq([first : Frame, second : Frame, len : Frame])
    BY <1>3, LastIsLen DEF KeepUpInv
  <2>2. Waiting \in Nat
    BY <2>1 DEF Waiting
  <2>3. CASE NetifRx
    <3>1. KeepUpInv'
      BY <1>3, <2>3, KeepUpNetifRx
    <3>2. count' = count + 1 /\ received' = received /\ Waiting' = Waiting + 1
      BY <2>1, <2>3 DEF NetifRx, Waiting
    <3>3. queue' = Append(queue, count + 1)
      <4>1. Len(received) + (Waiting + 1) = count + 1
        BY <2>1 DEF Waiting
      <4>2. queue' = From(Len(received), Waiting + 1)
        BY <3>2 DEF From
      <4> QED
        BY <2>1, <2>2, <4>1, <4>2, FromGrows DEF From
    <3> QED
      BY <3>1, <3>2, <3>3 DEF Channel!Next, Channel!Arrive
  <2>5. CASE CopySecond
    <3>1. /\ KeepUpInv' /\ Len(received) < count
          /\ received' = Append(received, Intact(Len(received) + 1))
      BY <1>3, <2>5, KeepUpReceive
    <3>2. /\ count' = count /\ Len(received') = Len(received) + 1
          /\ Waiting' = Waiting - 1 /\ Waiting >= 1
      BY <2>1, <2>5, <3>1 DEF CopySecond, Waiting, driver
    <3>3. queue # <<>> /\ Head(queue) = Len(received) + 1 /\ queue' = Tail(queue)
      <4>1. queue = From(Len(received), Waiting)
        BY DEF From
      <4>2. queue' = From(Len(received) + 1, Waiting - 1)
        BY <3>2 DEF From
      <4> HIDE DEF queue, Waiting
      <4> QED
        BY <2>1, <2>2, <3>2, <4>1, <4>2, FromShrinks
    <3>4. Channel!Intact(Head(queue)) = Intact(Len(received) + 1)
      BY <3>3 DEF Channel!Intact, Intact
    <3> QED
      BY <3>1, <3>2, <3>3, <3>4 DEF Channel!Next, Channel!Receive
  <2>6. CASE ReadPtr \/ ReadLen \/ CopyFirst
    <3>1. KeepUpInv'
      BY <1>3, <2>6, KeepUpReceive
    <3>2. UNCHANGED <<count, received>>
      BY <2>6 DEF ReadPtr, ReadLen, CopyFirst, driver
    <3> QED
      BY <3>1, <3>2 DEF Channel!channelVars, Waiting
  <2>7. CASE \/ Netfront \/ Down("down", "up") \/ Up("up", "receive") \/ Await
             \/ Handle \/ Down("send", "xmit") \/ Xmit \/ Up("sent", "receive")
             \/ UNCHANGED vars
    <3>1. /\ UNCHANGED <<ring, driver, locals, received>>
          /\ sml' = sml \/ sml' \notin {"len", "copy", "copying"}
      BY <2>7 DEF Netfront, Connect, InitNetfront, NetfrontUp, Down, Up, Await, Handle,
                  Xmit, Goto, vars
    <3>2. KeepUpInv'
      BY <1>3, <3>1, KeepUpElsewhere
    <3>3. UNCHANGED <<count, received>>
      BY <3>1 DEF driver
    <3> QED
      BY <3>2, <3>3 DEF Channel!channelVars, Waiting
  <2> QED
    BY <1>3, <2>3, <2>5, <2>6, <2>7 DEF Next, Sml
<1>4. late /\ late \in BOOLEAN /\ [Next]_vars => late'
  <2> SUFFICES ASSUME late, late \in BOOLEAN, [Next]_vars PROVE late'
    OBVIOUS
  <2>1. CASE NetifRx
    <3>1. late' = (late \/ Waiting >= Backlog)
      BY <2>1 DEF NetifRx
    <3> QED
      BY <3>1, Zenon
  <2>2. CASE ~NetifRx
    <3>1. UNCHANGED driver
      BY <2>2 DEF Next, Netfront, Connect, InitNetfront, NetfrontUp, Sml, Down, Up, Await,
                  ReadPtr, ReadLen, CopyFirst, CopySecond, Handle, Xmit, vars
    <3> QED
      BY <3>1 DEF driver
  <2> QED
    BY <2>1, <2>2
<1>5. NetifInv => late \in BOOLEAN
  BY DEF NetifInv, Types
<1>6. Inv /\ NetifInv' /\ [Next]_vars
      => Inv' /\ [late' \/ Channel!Next]_(Channel!channelVars)
  BY <1>3, <1>4, <1>5, Zenon
<1> HIDE DEF Inv
<1> QED
  BY <1>1, <1>2, <1>6, NetifInvariance, PTL DEF Spec, ChannelSpec
=============================================================================
