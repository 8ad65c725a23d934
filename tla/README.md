# A verification project for the region-inference unikernel

TLA+ models, model-checking runs and proofs about the programs of this
repository: an ML network stack and the services built on it, the region-based
runtime they run on, and the two network interfaces (Xen and Unix) below.
Everything is translated from the sources under `src/`; paths below are relative
to it. `PROJECT.json` maps each definition to the lines it stands for.

## 1. The system

A service is an ML program, compiled by MLKit with region inference, with no
garbage collector. It binds callbacks to UDP ports and calls `listen`.

    client --- frames ---> netif_rx --ring--> Receive          (C, Libs/netiflib)
                                                 |  string in a region
                                              listen            (ML, Libs/networklib)
                                  Eth.decode -> handleArp | handleIPv4
                                                        reassembly -> handleUDP
                                                                  callback (application)
    client <-- netfront_xmit <-- Send <-- ethSend <-- ipv4Send <-- reply
             every string and list: allocateRegion / alloc / resetRegion / ...   (C, RuntimeMini)
             every region page and large object: malloc / free                   (C, lib/xmalloc.c)

### Components

| component | source | state | operations | modules |
|---|---|---|---|---|
| Region runtime | `XenRuntimeMini/src/RuntimeMini/Region.{c,h}` | `global_freelist`, page headers, `topRegion`, per region `fp`, `a`, `p`, large objects | allocate, deallocate, reset, alloc, unwind to a handler | `Regions`, `RegionPool`, `RegionsProofs` |
| IPv4 reassembly | `Libs/networklib/networklib.sml` 17-84, 186-207 | `fragmentBuffer`, `assemblingList` | addFragment, initAssembling, assemblePacket | `Reassembly`, `ReassemblyProofs` |
| Network: dispatch and replies | `Libs/networklib/networklib.sml` 38, 86-225 | `listenOn`, the handlers on the stack | bindUDP, listen, handleArp, handleIPv4, handleUDP, ipv4Send | `Service`, `UdpService`, `Fragmentation`, `ServiceProofs`, `PacketProofs` |
| Network interface, Xen | `Libs/netiflib/netif-miniOS.c` | ring (`dataPtrs`, `dataLengths`, `writePos`, `readPos`), `net_sem`, `net_dev` | netif_rx, Receive, Send, two threads | `NetifXen`, `FrameChannel`, `NetifXenProofs` |
| Network interface, Unix | `Libs/netiflib/netif-tuntap.c` | `tapfd`, two buffers | Receive, Send | `TapDevice`, `PacketProofs` |
| Codecs | `Libs/{eth,arp,ipv4,udp,utils}lib` | none | encode, decode, checksum | `Codecs`, `CodecHeaders`, `LibraryProofs` |
| String runtime | `RuntimeMini/String.c` | strings in a region | alloc, concat, implode, explode, extract, compare | `Strings`, `LibraryProofs` |
| Arithmetic runtime | `RuntimeMini/Math.c` | none | division and remainder; floor, trunc, ceil, toString | `Arithmetic`, `RealConversions`, `LibraryProofs`, `RecursionProofs` |
| Xen allocator | `RuntimeMini/lib/xmalloc.c` | blocks, free list | malloc, free, realloc | `XMalloc`, `LibraryProofs` |
| Entry, errors, tables | `RuntimeMini/{Runtime,Table}.c` | exit code, top handler | main, die, word tables | `die` and `main`'s first steps in `Regions` |
| Facfib | `facfib/main.sml` | `facTbl`, `fibTbl`, kept between requests | fac, fib, fastFib | `Facfib`, `RecursionProofs` |
| Sort | `sort/main.sml` | none | parse, mergesort | `Sort`, `RecursionProofs` |
| Profiling library | `Libs/networkProflib` | `times`, `curIdx`, the same lists | a listen that counts, over canned packets | `ProfHarness`, `ProfHarnessProofs` |
| Echo | `echo/main.sml` | none | the identity as a callback | a binding of `MCService` |
| Unix runtime, MonteCarlo, third-party code | see section 8 | | | |

### How they interact

* **Calls down.** Compiled ML code calls the region runtime for every value; the
  runtime calls `malloc` and `free`. `Netif.receive` calls `Receive` with the
  region of the result; `Netif.send` passes a list of bytes to `Send`.
* **Shared state.** `netif_rx` runs in event context and interrupts the SML
  thread between any two instructions. It shares the ring with `Receive`, without
  a lock. A page it was given belongs to the netfront driver again as soon as it
  returns, yet its pointer stays in the ring. `net_sem` orders the two threads
  and guards the device in `Send`.
* **Callbacks.** `handleUDP` calls the function bound to the port; its exception,
  like any other, is caught by the innermost `listen`.
* **Exceptions.** Raising one pops the regions below the handler
  (`deallocateRegionsUntil`).

### What is hard

* The allocator relies on a chain of coincidences for its constant-time splices:
  the allocation pointer identifies the last page, also when the page is full and
  the pointer is already the address of the next page; the last page's next pointer
  is null; descriptors are in address order on the machine stack.
* Between `netif_rx` and `Receive` there is only the order of their stores. The ring
  has no test for being full.
* Reassembly assumes packets in order, finds an entry by its first match and
  "removes" an entry by `List.drop` with the entry's own index.
* Every failure in handling a frame ends in the same handler, which keeps all state
  that was changed on the way.
* State that outlives a request: the fragment lists, the memo tables of facfib, the
  handlers of `listen`.
* Boundaries: replies at a multiple of the fragment size, frames at the size of a
  buffer, sums that carry twice, minInt, the bounds of an integer as doubles.

`PROJECT.json` lists each hazard at its line with the properties that would show
it going wrong, or why there is none.

## 2. The modules

Each component module is checked by a run, directly or through an `MC` module that
gives its constants values. `MCLibraries` puts the sequential parts, which have no
state in common, side by side: a behaviour chooses one `part` at its start and takes
only that part's steps, so the run explores the union of their state spaces. The heap
with `realloc` is an instance there, because its constants differ.

    UdpService <~~ Service --INSTANCE--> Reassembly, Fragmentation
    FrameChannel <~~ NetifXen           RegionPool <~~ Regions        (~~> implements)
    MCLibraries --> Fragmentation, TapDevice, CodecHeaders -> Codecs, Arithmetic,
                    RealConversions, Strings, Sort, XMalloc

### Regions, RegionPool

One instance of the runtime. Pages are numbers `1..NPages`; page `q` occupies words
`q*PageWords ...`, so pointers are page numbers or word addresses, and `LastRp`,
`RpBoundary` do the macros' arithmetic (`Region.h` 88-96: the `- 1` is the case of the
full page). Descriptors are stack addresses, growing downwards.

| code | model |
|---|---|
| `allocateRegion` 153-178 | `AllocateRegion` (with `Push`, `TakePage`) |
| `alloc_new_page` 113-144, `callSbrk` 225-267 | `TakePage`: `MustSbrk`, `Head`, `Chained`, `Link` |
| `alloc` 280-325 | `AllocInPage`, `AllocNewPage`, `AllocLarge` |
| `resetRegion` 337-362, `free_lobjs` 180-189 | `ResetRegion`, `FreeLobjs` |
| `deallocateRegion` 197-209 | `DeallocateRegion`, `PopRegion` |
| `deallocateRegionsUntil` 374-386 | `DeallocateRegionsUntil` (call), `UnwindOne` (a turn), `UnwindDone` (return) |
| malloc fails; `die` | `OutOfMemory`, then `Die` for ever |

`live`, `owner` and `used` are auxiliary: they record what the program asked for, no
guard of the runtime reads them except that the compiled program only uses regions
it has entered and puts a new region below all others. The runtime is
single-threaded, so each call is one step, save the unwinding loop, which is checked
turn by turn. The origin pointer of a page and the region profiling fields are left
out: without a collector nothing reads them.
When `malloc` fails in `callSbrk` the code goes on to read address 0; the model
halts there and says nothing about what follows.

`RegionPool` is the promise: a stack of regions, sets of pages, a pool. `PoolSpec`
states that the chains followed pointer by pointer are such sets.

### Reassembly

A packet is a record of key (the `packetID`), flags, offset and payload; a byte is
`<<d, i>>`, the i-th byte of datagram d, so a property can tell where each byte of a
payload comes from. Both lists are sequences in the ML order, newest first.

| code | model |
|---|---|
| `findi`, `List.find` | `Find` |
| `updatePacketArray` 47-51 | `Write`, `Fits` (false: Subscript is raised) |
| `addFragment` 65-74 | `AddFragment`: the stores and whether it raised |
| `initAssembling` 53-63 | `InitAssembling`, `Byte` (the oldest fragment stores last) |
| `assemblePacket` 76-84, `handleIPv4` 186-207 | `HandleWhole`, `HandleFragment`, `HandleLast` |
| the handler in `listen` | the ELSE branches: stores made before the exception stay |

Clients and network are external. `Network` chooses how packets come: "serial"
(one datagram after the other), "inorder" (several interleaved, each in order),
"any" (lost, repeated, in any order). `Scale` is the 8 of the fragment offset,
made 2 in the runs so that three fragments fit in five bytes; an unscaled offset still
differs from a scaled one. Every datagram is handled to the end before the next frame
is received, so one arrival is one step.

### Fragmentation

`sendFragments` (networklib 99-137), one call per step: `SendLast` when the rest fits a
packet, `SendMore` otherwise. `nfb` is the code's: units per packet, rounded down.

### Service, UdpService

The program: it binds its ports (`Bind`, a cons to `listenOn`), calls `listen`
(`Listen`), and handles a frame at a time. `HandleIPv4` is `Reassembly`'s arrival
followed, when a UDP payload comes out, by `HandleUDP`: the newest binding of the port
is found, the callback applied (it may raise), the answer encoded (which raises when its
length has no 16 bits) and given to `Fragmentation`, whose packets are then put on the
`wire` one per step. `HandleArp`, `Ignore`, `Reject` are the frames that are not IPv4.
`Again` is a frame that was handled: its handler stays on the stack, since the next
`listen` is called inside it (line 224); `Caught` is one that raised, whose handler is
gone (line 225). `StackLimit` handlers fit.

| code | model |
|---|---|
| `bindUDP` 38, `List.find` in `handleUDP` 163 | `Bind`, `Found` |
| `listen` 209-225 | `Listen`, `Again`, `Caught`, `Reject`, `Ignore` |
| `handleArp` 139-158 | `HandleArp` |
| `handleIPv4` 186-207 | `HandleIPv4` (with `In!Arrive`, `Raises`) |
| `handleUDP` 160-184, `UDP.encode` | `HandleUDP`, `Answer`, `Swapped` |
| `ipv4Send` 99-137, `ethSend` 86-96 | `Out!Start`, `SendPacket`, `Packet` |

`UdpService` is the promise: each datagram answered once, whole, by the callback bound
last to its port, with the ports exchanged. The mapping reads `replies` off the wire as
a peer would, packet by packet (`Rebuilt`).

### NetifXen, FrameChannel

Frames are numbered as they come. The SML thread's `Receive` is five steps - the
wait, the read of the pointer, the read of the length, and two halves of the copy -
and `NetifRx` may come between any two. `RxPages` models the driver: frame k
overwrites the page of frame k - RxPages. The C files are built without optimisation
(`Makefile`, targets `unix` and `xen`), so globals are read from memory each
time, as the model does.

| code | model |
|---|---|
| `netfront_thread` 53-56 | `Connect`, `InitNetfront`, `NetfrontUp` |
| `sml_thread` 60-66, `Send` 94-105, `semaphore.h` 64-85 | `Down`, `Up`, `Xmit` |
| `netif_rx` 69-74 | `NetifRx` |
| `Receive` 82-92 | `Await`, `ReadPtr`, `ReadLen`, `CopyFirst`, `CopySecond` |
| the ML program | `Handle`: replies or does not |

Frames come at any rate. `late` is auxiliary: it becomes and stays true once more than
`Backlog` frames have waited at the same time. `FrameChannel` is the promise - frames
whole, once, in order - and `ChannelSpec` says it is kept until then.

### TapDevice

`Receive` and `Send` of the Unix build with the positions of their buffers: the four
bytes of packet information, the terminator at `buf[bytesRead]`, the loop bound
`i <= MTU`. `stray` has the calls whose last store went outside its buffer; such a store may break
the process or not (`running`). A read that fails stores at `buf[-1]`, and the string it
makes is not one: the process is then broken.

### Codecs, CodecHeaders

`encode` and `decode` of the four headers over bytes, at their real widths, and the
checksum: `FoldedOnce` is the single fold of the carry. `toString` is layout and left
out. `EthFields`, `ArpFields`, `UdpFields` and `IpFields` are the headers whose fields fit
their places in a packet, which the constants keep to; `Padded` is what a link does to a
short frame. `CodecHeaders` has the headers that are tried.

### Arithmetic, RealConversions, Strings, Sort, XMalloc

* `Arithmetic`: div, mod, quot and rem of `Math.c`, signed and unsigned, plain and
  tagged, over all pairs of words. The width is given by `Quarter`, a quarter of the
  number of words, so that no power of two has to be taken. A quotient that C leaves
  undefined and the processor traps is `Trap`.
* `RealConversions`: a double is a mantissa of `MantissaBits` times a power of two, in
  units of its smallest fraction; `Nearest` rounds to the nearest double, of two to the
  even one, wherever the code computes: the bounds, the cast of an integer, the rest
  `d - floor(d)` and its product with 10^`Decimals`. With `IntBits` above `MantissaBits` +
  2, maxInt is not a double, as in the code (64 bits, mantissas of 53). A cast of a number that does not fit
  gives the least integer (`ToInt`, and `ToCInt` for the 32 bits of the text), as the
  instruction it is compiled to does.
* `Strings`: a region at its bottom as memory of words; each operation stores the tag,
  the bytes and the terminator where the code does, after the reset when the code
  resets. `live` keeps what each string should be. `MaxString` and `MaxPieces` bound what
  a program builds.
* `Sort`: tokens to numbers, `split`, `merge`, `mergesort`, as recursive functions on lists.
* `XMalloc`: headers, first fit, `maybe_split`, merging in the order of the free list
  (`Merging`, the single pass), whole pages (`Chunks`, the sizes `get_order` can ask for).
  `cut` is auxiliary: `realloc` has split an object.

### Facfib

A call of `fac` or `fib` is a frame on a stack, since both append to their table after
the recursive calls return, by which time these have appended. `FacFound` and
`FibFound` are the lookups, `FacAppend` and `FibAppend` the stores; `Raise` is
an exception (Subscript for a number below the table, Fail in `fastFib`), caught in
`listen` with the tables as they are.

### ProfHarness

The bounded `listen` of the profiling library over the canned packets: where it is in
the circle, what it has counted, how the buffers grow. Each packet of the same
identification adds a fragment, each last one an array; `copied` counts the fragments
copied into arrays.

## 3. The runs

| run | bounds | what it shows |
|---|---|---|
| `regions` | 4 pages of 3 data words in bags of 2, 2 nested regions, requests of 2, 3 and 4 words, 1 large object | `PointersExact`: each page in exactly one chain, every chain ends where the allocation pointer is, the stack in order, also within an unwinding. `PoolSpec`: the pool is implemented. `ValuesInPages`, `AllocFresh`: values never overlap or leave their pages. `LargeObjectsExact`, `UnwindExact`, `UnwindTerminates`. `IndInv`: the invariant of the proofs. |
| `reassembly_any` | 3 datagrams, 3 arrivals each, two share a key | `Isolation`: whatever the network does, a payload is as long as a datagram of its key and holds only that key's bytes in their places, or `\000`; so does an array kept in `assemblingList`, at any place. `OneEntryPerKey`: of `fragmentBuffer`; `assemblingList` does get a second entry for a key, since the finished array is kept. |
| `reassembly_interleaved` | 4 datagrams, each in order | **violated**: `EchoExact`. |
| `netif_xen` | ring of 4, 3 pages, backlog 3, 9 frames | `ChannelSpec`, `EveryFrameReceived` while the program keeps up; `NeverUnwritten`, `NeverOlder` always; `SemaphoreExact`. |
| `service` | 5 datagrams, 4 other frames, 4 bindings | `PromiseSpec`, `ComesBack`, `AllOrNothing` for requests one after the other. |
| `service_any` | 3 datagrams, 3 arrivals each, two share a key | `RepliesIsolated`: no answer carries a byte of another client. |
| `service_stack` | as `service`, a stack of 3 handlers | **violated**: `KeepsListening`. |
| `facfib` | numbers -1 to 6, in any order | `FacExact`, `FibExactIfSeeded`, `FastFibExact`, `Finishes`. |
| `facfib_fibonacci` | as `facfib` | **violated**: `FibExact`. |
| `prof_harness` | up to 4 packets, up to 9 runs | `NeverReturns`, `Returns`: when a bounded listen comes back; `AnswersExact`; `WorkExact`: the work is quadratic. |
| `libraries` | see below | thirteen properties of the sequential parts. |
| `codecs_fold` | one header | **violated**: `ChecksumVerifies`. |

*`libraries`.* `PacketsFit`, `Tiles`: payloads of 0 to 32 bytes in packets of 9 with 3
of header, so that 6 is the boundary met five times. `CarriesBytes`, `StaysInBuffers`:
all frames and lists of 14 to 24 bytes against buffers of 26, where 22 is the longest that
fits behind the packet information. `RoundTrip`,
`ChecksumExact`: every header field at its boundaries. `DivisionsExact`: all pairs of
words of five bits. `RealsExact`: all doubles with mantissas of 7 bits against integers
of 10, and texts of 2 decimals with whole parts of 8 bits. `StringsKept`, `OrderIsTotal`: strings of up to 3 characters in 6 words.
`RepliesSorted`: all requests of up to 6 tokens. `HeapSound`, `EmptyPagesReturned`: 3
pages of 24 bytes, up to 4 objects, and 2 pages with realloc of small objects.

*Why these bounds.* Regions: two refills of the free list, a region of up to four
pages, unwindings that pop none, one or both regions, and two regions are enough for one
value to overlap another's; the theorems cover all sizes. Reassembly and Service: three
fragments give a first, a middle and a last; two keys and two datagrams on one key give
every pair of list positions; the bindings have a port bound twice, one unbound and one
whose callback raises, and `MaxUdp` makes one answer too long. NetifXen: nine frames go
round the ring of four and the three pages twice, with and without overload. Facfib: numbers up
to six let the two recursive calls of fib find an entry, compute, or do one of each.
The stack of `service` holds 30 handlers, more than all its frames leave.

*Deadlock.* Regions and Facfib are checked for it. The others stop when the bounded
traffic, calls or runs are used up, so their configurations say `CHECK_DEADLOCK FALSE`.

*Mutants.* Every property of a passing run has a plausible bug of the code that breaks
it (the operators marked `mutant`).

## 4. Where code and text disagree

Each is the single property of a run that TLC must find violated.

* **Echo does not mirror** (`reassembly_interleaved`). `README.md` 54: the echo service
  "mirrors exactly what it receives". Two clients' fragmented datagrams overlap in time,
  each in order. The list is `[B, A]`; when A completes, networklib 60 drops the entries
  in front of A, that is B, and keeps A. B's first fragments are gone and B is echoed with
  `\000` bytes.
* **listen is not infinite** (`service_stack`). `NETWORKLIB.sig` 20: "keeps the
  application listening". The recursive call is inside the handler's scope, so it is no
  tail call; each frame handled costs stack until there is none.
* **fib is off by one** (`facfib_fibonacci`). `README.md` 55. On an empty table, a request
  that reaches `fib 1` first puts 1 at index 0; from then on every entry is one place off.
  `FibExactIfSeeded` says that this is the only way: if index 0 holds fib 0, all is right.
* **Checksums that do not verify** (`codecs_fold`). networklib 131: "Will be calculated in
  encode". The carry is folded once; a sum that carries again gives 65535 for 65534.
  `ChecksumExact` says when: exactly then.

Other things the models show, stated in the properties as the exact condition under which
the code is right:

* A client that uses an identification again is answered with bytes of its earlier
  datagram: `initAssembling` keeps the finished entry (networklib 60), and
  `assemblePacket` (80) the dead array. `Isolation` still holds: they are its own bytes.
* A read of a frame of 1514 bytes fills the buffer of the tap device with its packet
  information, and the terminator goes one past it; a
  list of more than 1514 bytes is stored one past the buffer in `Send` (netif-tuntap 132, 142).
  `StaysInBuffers` says that it is these and no others. A full Ethernet frame has 1514
  bytes, so every fragment but the last of a datagram sent to the service is such a read;
  what lies behind the buffer is the compiler's choice, and it may be padding.
* `Send` there copies two bytes of the frame at 13 and 14 of the buffer into the packet
  information (147): with the four bytes in front these are not the ethtype, which is at
  16 and 17. The kernel's tap device does not use them.
* `ARP.encode` always writes operation 2 (arplib 49), so an ARP request does not round
  trip; `handleArp` only sends replies.
* Padding of a short frame is part of the payload (ipv4lib 107: total_length is not used
  to cut it), so a short datagram is echoed with its padding.
* minInt with ~1: mod and rem of plain words trap, quot does not raise Overflow (Math.c
  226, 307, 323). `ceil` accepts 2^63, `trunc` and `ceil` refuse minInt (Math.c 482).
* `toString` of a real on Xen prints the floor and the decimals of the rest as two numbers
  (Math.c 779). Read back, the text is the number, to one unit of its last decimal, exactly
  if the decimals are 0, or the number is positive and its first decimal is not 0; and
  a whole part beyond an int is printed as the least int.
* `explodeString` repeats the first character and loses the last (String.c 347).
* `realloc` of an object of whole pages splits it with `maybe_split`, and the pages' tail
  lands in the list of small blocks (xmalloc.c 292). Nothing in the repository calls it.
* The ring under overload: with `QUEUE_SIZE` frames waiting the full ring looks empty to
  `Receive`; with more, or more than the driver has pages, the oldest frame is
  overwritten. Then frames are lost or torn: a page reused before the copy ends delivers a
  newer frame's bytes under the older one's length, and again when its own slot is read
  (frames 4, 2, 3, 4). What stays true is `NeverOlder`: nothing returned is as old as a
  frame received before, and a string is whole exactly when nothing of it was reused.
* `Send` on Xen stores the list into 1518 bytes without looking at its length
  (netif-miniOS.c 96). The buffer is left out of `NetifXen`: the lists are Ethernet
  frames of at most 1514 bytes, which is `PacketsFit`.

## 5. Fairness

* `Regions`: weak fairness of the unwinding loop only: it is straight C code, with
  no call that blocks. Nothing makes the program allocate or raise.
* `NetifXen`: weak fairness of each of the two threads. Mini-os switches threads where
  one blocks; `sml_thread` blocks in `down` until `netfront_thread`, which depends on
  nobody, has done `up`, and from then on only the SML thread runs, without
  blocking again. That a frame comes is never assumed.
* `Service`: weak fairness of binding, the first `listen` and the sending of packets,
  which no other actor can hold up. That requests come is not assumed; callbacks return or
  raise.
* `Facfib`: weak fairness of the calls under way, not of requests.
* `ProfHarness`: weak fairness of the program, which reads packets it made itself.
* `Reassembly` and the libraries: none; they have safety properties only. That every answer
  is sent to its end is part of `ComesBack`.

## 6. Proofs

Eight modules; each theorem holds for every value of the constants that the module's
`ASSUME` allows. An invariant the runs check is seldom inductive, and each module has the
strengthening that is.

| module | theorems | the inductive invariant, and what it adds |
|---|---|---|
| `RegionsProofs` | `Invariance`, `TypeCorrect`, `Pointers`, `LargeObjects`, `Values`, `Fresh`, `Unwinding`, `Refinement` | `IndInv`: the local form of the chains, see below |
| `ReassemblyProofs` | `ReassemblyInvariance`, `ReassemblyTypes`, `ClientsIsolated`, `KeysUnique` | `ReassemblyInv`: `fragmentBuffer` has one entry per key and each fragment in it is a slice, at its place, of a datagram of its key; an array of `assemblingList`, which may have several for a key, holds bytes of its key's datagrams at any place |
| `PacketProofs` | `FragmentInvariance`, `AllPacketsFit`, `PacketsTile`; `BuffersExact`, `SendsInside`, `BytesCarried` | `FragmentInv`: what is left starts where the packets sent end, at a multiple of the unit. `TapInv`: both properties of the tap device at once |
| `ServiceProofs` | `ServiceReassembles`, `AnswersWhole`, `AnswersIsolated`, `PromiseKept` | `SendInv`: the wire ends with the packets of the answer under way; `AnswerInv`: and these hold the client's bytes; `PromiseInv`, see below |
| `NetifXenProofs` | `NetifInvariance`, `NetifTypes`, `ReceivedNeverOlder`, `ReceivedWritten`, `SemaphoreIsLock`, `RingIsChannel` | `NetifInv`: which frame each slot and page can hold, from its position and the count, and that the reader's page is newer than what was received; `SemaphoreInv`; `KeepUpInv`: while the program keeps up the slots between the indices hold the next frames, and their pages are intact |
| `RecursionProofs` | `FacfibInvariance`, `FacCorrect`, `FibCorrectIfSeeded`, `FastFibIsFibonacci` | `Inv`: the calls on the stack ask for consecutive numbers, and the table has grown to just below the lowest when it returns |
| | `SortedReplies` | none: a request is one step |
| | `RealsConverted` | `RealsInv`: what was returned is what the conversion computes |
| `ProfHarnessProofs` | `HarnessInvariance`, `EndlessHarness`, `HarnessWork`, `HarnessAnswers` | `HarnessInv`: how the five counters stand to each other |
| `LibraryProofs` | `DivisionsRight` | none: each call is a step of its own |
| | `HeapIsSound`, `EmptyPagesGoBack` | `HeapInv`: the blocks are disjoint and cover the pages (`Tiling`), the list names each free block once (`ListOk`), an object lies in a block of its own (`Objects`), and no two free blocks touch on a page (`NoNeighbours`) |
| | `StringsSurvive`, `StringsTotallyOrdered` | `StringInv`: each string in use lies below the next free word, with its size, bytes and terminator |
| | `HeadersReadBack`, `ChecksumRight` | `CodecInv`: the bytes are what `encode` makes of a header whose fields fit, and what is parsed is what `decode` makes of these |

*What they assume beyond the modules' ASSUMEs.*

* `RingIsChannel`: `KeepsUp`, the backlog is at most the size of the ring and the number of
  the driver's pages.
* `SendsInside`: `ListsAreFrames`, what the program sends is a header of 14 bytes and a packet
  of at most `Mtu`, which `AllPacketsFit` proves of the packets. Of reading nothing like it is
  claimed: a full fragment does fill the buffer (section 4), and `BuffersExact` says so.
* `AnswersIsolated`: `CallbacksRelay`, a callback's result is made of its argument's bytes
  and the service's own text. That the payloads handed up are isolated is not assumed: it
  is `ClientsIsolated`, a theorem of another module. `ServiceProofs` has that module as the
  instance `InP`, shows its operators equal to those of `Service`'s own instance `In`
  (`FindSame` to `NextSame`), and so takes the theorem over (`ServiceReassembled`).
* `PromiseKept`: requests come one after the other (`Network = "serial"`) and no two have
  the same key (`KeysDiffer`), as in the run `service`; section 4 says what happens without.
  `ResultsAreLists`: a callback returns a string, and an exception is none.
* `HeapIsSound`: no object of whole pages is given to `realloc` (section 4 has what happens
  then). `EmptyPagesGoBack` needs no such assumption: it is about heaps that are not cut.
* `HeadersReadBack`: `RaisedApart`, an exception is no pair.

*Regions.* `ChainsExact` and `StackExact` follow pointers, which is a recursion
and not inductive by itself. `IndInv` says the same locally: no two pages have the
same next page, a next page has the same owner, no first page is anyone's next
(`NextExact`); in each region exactly the page the allocation pointer is in has
no next page, and the pointer lies between that page's first data word and its end
(`EndsExact`); each descriptor points at the next older region (`StackLinks`).
The lemmas go from address arithmetic (`PageOfAddress`, `PagesDisjoint`: a page is
recognised from any address in it or at its end) through one page taken (`TakeLinks`)
and one chain spliced (`SpliceLinks`, used for both reset and deallocation) to one lemma
per operation, and `Invariance` puts these together.
`PointersExact` needs the way back, from the local form to what is reached pointer by
pointer. The nodes reached from x are the least set with x that is closed under the
pointer (`WalkSteps`), and a chain is exactly what is reached from its first node
(`ChainWalk`): a node left over has a successor, which cannot be reached either, since no
two nodes have the same one, so it would be on a cycle. `IndInv` excludes those.
`Refinement` then maps each call to a step of `RegionPool` on the owners of the pages
(`Owners`), which are those sets.

*Recursion without induction.* The library's induction theorems cannot be used, but a
set of numbers that is not empty has a least one (`LeastNumber`), and that does. `Recursion`
shows with it that a function defined by recursion on arguments of smaller size exists: two
functions that follow the equation up to k agree up to k, and there is one for every k. A
result is then proved by an argument of smallest size for which it fails
(`SmallestArgument`).

* `FastFibIsFibonacci`: the least number for which the doubling of `fastFib` were not a pair
  of consecutive Fibonacci numbers would have a half for which it is not
  (`FibonacciDoubles` is the identity it needs).
* `SortedReplies`: `split` deals the numbers into two shorter lists (`SplitHalves`), `merge` of
  two lists in order is in order and has the numbers of both (`MergeRight`), so a shortest
  list that `mergesort` got wrong would have a shorter one (`MergesortRight`). "The same
  numbers" is a count for each number, and `CountInFront` and its like say how it adds up.

*Reals.* The powers of two and ten are recursive functions too (`PowerRules`: sums of
exponents are products). A number that is not beyond all doubles has an exponent
(`ExponentRight`), and its nearest double is one of the two multiples of that power around
it (`NearestSteps`). No double lies between a number and its nearest (`NearestBetween`):
one smaller than the power's range lies beyond a bound of that range, which is itself a
multiple, and any other is a multiple. From there
* the bounds: a number within one of 2^(`IntBits`-1) is rounded to it, since doubles are at least
  four apart there (`NearBound`), which is what `Max_Int_d + 1.0` and `Min_Int_d - 1.0`
  are (`CodeBounds`), and why no other double is near them (`AloneAtBound`);
* the casts: the whole part of a double is a double (`PartsOfDouble`), so the cast back is
  exact (`CastBack`) and the comparisons in `floor` and `ceil` see the fraction;
* the text: the rest of a positive number is a double, that of a negative one only if it
  is not larger than the number; the printed decimals are less than a unit away from
  the scaled rest (`PrintedDecimals`), and read back they are those or at least two
  away from them (`DecimalsRead`).

*The promise.* `PromiseInv` says four things. The bindings are those of the program, newest
first (`BindInv`), so the first found is the one bound last. At most one datagram is under
way, and what has come of it is the first entry of the lists, fragment by fragment
(`SerialInv`). While an answer is sent, the last frames on the wire are its packets so far
and they cut the reply that was promised (`SendingInv`). The i-th last packet on the wire
ends the i-th reply (`RankInv`), so a frame that ends one appends exactly one to `Replies`
and leaves the others, and any other frame changes none.

*Headers.* A packet is a concatenation of pieces of fixed length; the lemmas say that the
piece at a given place is read back (`Laid`), and that each number of one, two or four
bytes is. For the checksum, `IpWritten` has the sum over the header with its checksum in
place: with `hi` the carry of the sum, it is 65535(hi + 1) if one fold absorbs the carry,
and 65535(hi + 2) + 1 if it carries again. Only the first is all ones after folding.

*The heap.* Each operation is made of four changes of a tiling: pages added, a block
split, a block dropped with its pages, some blocks replaced by the one that covers them
(`TilingAdd`, `TilingSplit`, `TilingRemove`, `TilingMerge`). The invariant of the single
pass of `xfree` (`LoopInv`): the block that grows holds what it has swallowed and nothing
else, the blocks passed and not swallowed are still in the list, and none of them touches
it. That one pass is enough is `NoNeighbours`: a block passed early could be touched later
only through a free block between the two, which would have been its neighbour.

*Only model-checked.* The liveness properties: `Returns`, `Finishes`, `ComesBack`,
`EveryFrameReceived`, `UnwindTerminates`. They need ENABLED, which the prover has no rules
for. Every invariant and every action property of a passing run is a theorem.

## 7. What makes each component correct

* *Regions*: no page lost or in two chains; values never overlap or leave their
  pages; large objects freed exactly once; an exception pops exactly the dead regions.
* *Reassembly*: bytes of one client never reach another; a byte never moves on
  its way to a payload; a key has one entry in `fragmentBuffer`.
* *Service*: one reply per request, whole, from the newest binding of its port; the loop
  survives every exception.
* *Netif*: every frame received once, whole and in order, while the program keeps
  up; nothing that was never written is read even when it does not; no use of the
  device before it is set up. On the tap device: the bytes of a frame, within the buffers.
* *Codecs*: decode inverts encode; checksums verify.
* *Facfib*: an answer depends on the question only.
* *Runtime libraries*: the results that the basis signatures promise; strings survive the
  region's resets; blocks tile their pages.

## 8. Not modelled

* The Unix runtime (`UnixRuntimeMini`): the same algorithms as the Xen one. It differs in
  printing, the stack limit, the text of reals, and in exiting where Xen loops.
* Of the runtime: infinities and nan, the wrappers of the C math library, comparisons and operations that are
  one instruction, printing, conversion to C strings, the two word tables (a loop of
  stores into an `alloc`), and the end of a program by an uncaught exception.
* MonteCarlo: floating point over a Sobol library that is not in the repository; sortProf is
  the sort with canned data.
* The MLKit basis and compiler, `XenRuntimeMini/include` and most of `RuntimeMini/lib`
  (`sys.c`, `printf.c`, `string.c`, `xs.c`, `math.c`): third-party code, most of it never
  called by these programs. It is the larger part of the repository's lines. Its effect is
  stated where a module depends on it: the pages of the driver, the semaphore, where the
  program puts a region.
* Tests and build files, read for what they expect.
* Time: nothing in this code has a timeout. Nothing is persisted: there is no recovery.
