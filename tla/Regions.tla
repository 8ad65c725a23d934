------------------------------- MODULE Regions -------------------------------
(***************************************************************************)
(* The region allocator of the ML runtime (RuntimeMini/Region.c): a stack  *)
(* of region descriptors, each holding a chain of fixed-size region pages  *)
(* and a list of large objects, and one global free list of pages that is  *)
(* refilled with malloc a bag of pages at a time.                          *)
(*                                                                         *)
(* Page p occupies the words p*PageWords .. p*PageWords + PageWords - 1;   *)
(* its first HeaderWords words are the header (next pointer, origin        *)
(* pointer).  Descriptors live on the machine stack, which grows           *)
(* downwards: a younger region has a smaller address.  The origin pointer  *)
(* is left out: without the garbage collector nothing reads it.            *)
(***************************************************************************)
EXTENDS Integers, FiniteSets

CONSTANTS
  NPages,       \* pages malloc can ever hand out (bound)
  BagSize,      \* REGION_PAGE_BAG_SIZE: pages per callSbrk
  PageWords,    \* words in a region page, header included
  HeaderWords,  \* HEADER_WORDS_IN_REGION_PAGE
  StackTop,     \* highest stack address a region descriptor can have (bound)
  Sizes,        \* request sizes, in words, the program uses
  Lobj          \* large objects malloc can hand out

ASSUME RegionsAssumption ==
  /\ NPages \in Nat \ {0} /\ BagSize \in 1..NPages
  /\ HeaderWords \in Nat \ {0} /\ PageWords \in Nat /\ HeaderWords < PageWords
  /\ StackTop \in Nat \ {0}
  /\ Sizes \subseteq Nat \ {0}

NULL == 0                 \* the null pointer, to a page or to a descriptor
Page == 1..NPages
Desc == 1..StackTop
Word == 0..(NPages + 1) * PageWords
AllocatableWithHeader == PageWords                                 \* mutant
Allocatable == PageWords - HeaderWords

FREE == 0                 \* owner of a mapped page no region holds
UNMAPPED == -1            \* owner of a page malloc has not handed out yet

VARIABLES
  freelist,    \* global_freelist
  n,           \* the next pointer in the header of each page
  rp_total,    \* pages mapped so far; they are 1..rp_total
  topregion,   \* TOP_REGION
  fp, a,       \* per descriptor: g0.fp, the oldest page, and g0.a, the
               \*   allocation pointer
  p,           \* per descriptor: the previous region on the stack
  lobjs,       \* per descriptor: the set of its large objects
  heap,        \* the large objects that are malloced and not freed
  until,       \* the argument of deallocateRegionsUntil while its loop runs
  halted,      \* the runtime died for want of memory
  live,        \* auxiliary: the regions the ML program has entered
  owner,       \* auxiliary: who holds each page
  used         \* auxiliary: per region, the words of the values stored in it

regionVars == <<fp, a, p, lobjs, topregion>>
pageVars == <<freelist, n, rp_total, owner>>
vars == <<regionVars, pageVars, heap, until, halted, live, used>>

------------------------------------------------------------------------------
(* Address arithmetic (Region.h). *)

DataStart(q) == q * PageWords + HeaderWords
LastRpNoMinusOne(addr) == addr \div PageWords                     \* mutant
LastRp(addr) == (addr - 1) \div PageWords
RpBoundary(addr) == (LastRp(addr) + 1) * PageWords
Owned(o) == {q \in Page : owner[q] = o}
Words(q) == DataStart(q)..((q + 1) * PageWords - 1)

------------------------------------------------------------------------------
Init ==
  /\ freelist = NULL /\ n = [q \in Page |-> NULL] /\ rp_total = 0
  /\ topregion = NULL
  /\ fp = [r \in Desc |-> NULL] /\ a = [r \in Desc |-> 0]
  /\ p = [r \in Desc |-> NULL] /\ lobjs = [r \in Desc |-> {}]
  /\ heap = {} /\ until = NULL /\ halted = FALSE
  /\ live = {} /\ owner = [q \in Page |-> UNMAPPED]
  /\ used = [r \in Desc |-> {}]

(* callSbrk: what the free list and the next pointers are once a page can  *)
(* be taken.  A new bag is chained in address order in front of the old    *)
(* free list.                                                              *)
MustSbrk == freelist = NULL
Bag == (rp_total + 1)..(rp_total + BagSize)
Head == IF MustSbrk THEN rp_total + 1 ELSE freelist
ChainedShort(q) == IF MustSbrk /\ q \in Bag                        \* mutant
                   THEN IF q = rp_total + BagSize - 1 THEN freelist ELSE q + 1
                   ELSE n[q]
Chained(q) == IF MustSbrk /\ q \in Bag
              THEN IF q = rp_total + BagSize THEN freelist ELSE q + 1
              ELSE n[q]
CanTakePage == MustSbrk => rp_total + BagSize <= NPages

(* alloc_new_page: take the head of the free list, end the chain there and *)
(* link it behind `last', the region's last page, NULL if it has none yet. *)
LinkForgotten(q, last) == IF q = Head THEN NULL ELSE Chained(q)    \* mutant
Link(q, last) == IF q = last THEN Head ELSE IF q = Head THEN NULL ELSE Chained(q)

TakePage(r, last) ==
  /\ CanTakePage
  /\ freelist' = Chained(Head)
  /\ n' = [q \in Page |-> Link(q, last)]
  /\ rp_total' = IF MustSbrk THEN rp_total + BagSize ELSE rp_total
  /\ owner' = [q \in Page |-> IF q = Head THEN r
                              ELSE IF MustSbrk /\ q \in Bag THEN FREE
                              ELSE owner[q]]

Running == ~halted /\ until = NULL

(* The stores that push a region.  The mutant swaps them.                  *)
PushTopFirst(r) == p' = [p EXCEPT ![r] = r] /\ topregion' = r      \* mutant
Push(r) == p' = [p EXCEPT ![r] = topregion] /\ topregion' = r

(* allocateRegion: the compiled program reserves the descriptor below      *)
(* everything on its stack and pushes the region.                          *)
AllocateRegion(r) ==
  /\ Running
  /\ \A s \in live : r < s
  /\ TakePage(r, NULL)
  /\ fp' = [fp EXCEPT ![r] = Head]
  /\ a' = [a EXCEPT ![r] = DataStart(Head)]
  /\ lobjs' = [lobjs EXCEPT ![r] = {}]
  /\ Push(r)
  /\ live' = live \union {r}
  /\ used' = [used EXCEPT ![r] = {}]
  /\ UNCHANGED <<heap, until, halted>>

StoreOneShort(r, first, k) ==                                      \* mutant
  /\ a' = [a EXCEPT ![r] = first + k - 1]
  /\ used' = [used EXCEPT ![r] = @ \union (first..(first + k - 1))]
Store(r, first, k) ==
  /\ a' = [a EXCEPT ![r] = first + k]
  /\ used' = [used EXCEPT ![r] = @ \union (first..(first + k - 1))]

(* alloc: a request that fits in what is left of the last page.            *)
AllocInPage(r, k) ==
  /\ Running /\ r \in live /\ k <= Allocatable
  /\ a[r] + k <= RpBoundary(a[r])
  /\ Store(r, a[r], k)
  /\ UNCHANGED <<fp, p, lobjs, topregion, pageVars, heap, until, halted, live>>

(* alloc: a request that does not fit gets a new page; the tail of the     *)
(* last page is lost.                                                      *)
AllocNewPage(r, k) ==
  /\ Running /\ r \in live /\ k <= Allocatable
  /\ a[r] + k > RpBoundary(a[r])
  /\ TakePage(r, LastRp(a[r]))
  /\ Store(r, DataStart(Head), k)
  /\ UNCHANGED <<fp, p, lobjs, topregion, heap, until, halted, live>>

(* alloc: a request larger than a page is malloced.                        *)
AllocLarge(r, k, o) ==
  /\ Running /\ r \in live /\ k > Allocatable
  /\ o \notin heap
  /\ heap' = heap \union {o}
  /\ lobjs' = [lobjs EXCEPT ![r] = @ \union {o}]
  /\ UNCHANGED <<fp, a, p, topregion, pageVars, until, halted, live, used>>

(* free_lobjs on a region that stays, whose list is emptied.               *)
FreeLobjsListKept(r) == heap' = heap \ lobjs[r] /\ lobjs' = lobjs  \* mutant
FreeLobjs(r) == heap' = heap \ lobjs[r] /\ lobjs' = [lobjs EXCEPT ![r] = {}]

(* resetRegion: every page but the first goes back to the free list in one *)
(* splice, and the large objects are freed.                                *)
ResetRegion(r) ==
  /\ Running /\ r \in live
  /\ LET rest == n[fp[r]] IN
       IF rest # NULL
       THEN /\ n' = [n EXCEPT ![LastRp(a[r])] = freelist, ![fp[r]] = NULL]
            /\ freelist' = rest
            /\ owner' = [q \in Page |-> IF owner[q] = r /\ q # fp[r]
                                        THEN FREE ELSE owner[q]]
       ELSE UNCHANGED <<n, freelist, owner>>
  /\ a' = [a EXCEPT ![r] = DataStart(fp[r])]
  /\ FreeLobjs(r)
  /\ used' = [used EXCEPT ![r] = {}]
  /\ UNCHANGED <<fp, p, topregion, rp_total, until, halted, live>>

(* deallocateRegion on the top region: all its pages go back to the free   *)
(* list in one splice.  The dead descriptor keeps its contents.            *)
PopRegion ==
  /\ heap' = heap \ lobjs[topregion]
  /\ n' = [n EXCEPT ![LastRp(a[topregion])] = freelist]
  /\ freelist' = fp[topregion]
  /\ topregion' = p[topregion]
  /\ owner' = [q \in Page |-> IF owner[q] = topregion THEN FREE ELSE owner[q]]
  /\ live' = live \ {topregion}
  /\ used' = [used EXCEPT ![topregion] = {}]
  /\ UNCHANGED <<fp, a, p, lobjs, rp_total, halted>>

DeallocateRegion ==
  /\ Running /\ live # {}
  /\ PopRegion
  /\ UNCHANGED until

(* deallocateRegionsUntil(sp): an exception handler pops every region      *)
(* below its stack pointer.  The call, one turn of its loop, the return.   *)
DeallocateRegionsUntil(sp) ==
  /\ Running
  /\ until' = sp
  /\ UNCHANGED <<regionVars, pageVars, heap, halted, live, used>>

MustPopBelow == topregion # NULL /\ until > topregion              \* mutant
MustPop == topregion # NULL /\ until >= topregion

UnwindOne ==
  /\ ~halted /\ until # NULL /\ MustPop
  /\ PopRegion
  /\ UNCHANGED until

UnwindDone ==
  /\ ~halted /\ until # NULL /\ ~MustPop
  /\ until' = NULL
  /\ UNCHANGED <<regionVars, pageVars, heap, halted, live, used>>

(* malloc returned NULL: callSbrk prints and returns, and the caller       *)
(* dereferences the empty free list; alloc_lobjs calls die.                *)
OutOfMemory ==
  /\ Running
  /\ \/ MustSbrk
     \/ live # {} /\ \E k \in Sizes : k > Allocatable
  /\ halted' = TRUE
  /\ UNCHANGED <<regionVars, pageVars, heap, until, live, used>>

(* die: while(1). *)
Die == halted /\ UNCHANGED vars

Next ==
  \/ \E r \in Desc : AllocateRegion(r) \/ ResetRegion(r)
  \/ \E r \in Desc, k \in Sizes :
       \/ AllocInPage(r, k) \/ AllocNewPage(r, k)
       \/ \E o \in Lobj : AllocLarge(r, k, o)
  \/ DeallocateRegion
  \/ \E sp \in Desc : DeallocateRegionsUntil(sp)
  \/ UnwindOne \/ UnwindDone
  \/ OutOfMemory \/ Die

(* The loop of deallocateRegionsUntil is straight C code: once entered it  *)
(* runs.  Nothing forces the program to allocate or to raise.              *)
Fairness == WF_vars(UnwindOne \/ UnwindDone)

Spec == Init /\ [][Next]_vars /\ Fairness

------------------------------------------------------------------------------
TypeOK ==
  /\ freelist \in Page \union {NULL}
  /\ n \in [Page -> Page \union {NULL}]
  /\ rp_total \in 0..NPages
  /\ topregion \in Desc \union {NULL}
  /\ fp \in [Desc -> Page \union {NULL}]
  /\ a \in [Desc -> Word]
  /\ p \in [Desc -> Desc \union {NULL}]
  /\ lobjs \in [Desc -> SUBSET Lobj] /\ heap \subseteq Lobj
  /\ until \in Desc \union {NULL} /\ halted \in BOOLEAN
  /\ live \subseteq Desc
  /\ owner \in [Page -> Desc \union {FREE, UNMAPPED}]
  /\ used \in [Desc -> SUBSET Word]
------------------------------------------------------------------------------
(* What the pointers say, whatever the auxiliary variables claim.          *)

(* Where following the pointers `next' from x leads, NULL included if the  *)
(* chain ends: the least set that holds x and, with each node but NULL,    *)
(* the node it points at.                                                  *)
Walk(next, x) ==
  LET node == DOMAIN next \union {NULL}
      Closed(T) == \A y \in T \ {NULL} : next[y] \in T
  IN {y \in node : \A T \in SUBSET node : x \in T /\ Closed(T) => y \in T}

(* The pages of the chain that starts at page q, the regions on the stack. *)
Reach(q) == Walk(n, q) \ {NULL}
OnStack == Walk(p, topregion) \ {NULL}

(* No page is ever lost, shared or left in two chains: the chain of each   *)
(* region on the stack ends, ends at the page the allocation pointer is    *)
(* in (which is what makes the constant-time splice of deallocateRegion    *)
(* and resetRegion right), and holds exactly the pages given to the region *)
(* and not taken back; the free list holds exactly the others.             *)
ChainsExact ==
  /\ \A r \in live : /\ NULL \in Walk(n, fp[r])
                     /\ Reach(fp[r]) = Owned(r)
                     /\ LastRp(a[r]) \in Reach(fp[r]) /\ n[LastRp(a[r])] = NULL
  /\ NULL \in Walk(n, freelist) /\ Reach(freelist) = Owned(FREE)
  /\ Owned(UNMAPPED) = (rp_total + 1)..NPages
  /\ \A q \in Page : owner[q] \in live \union {FREE, UNMAPPED}

(* The stack threaded through the descriptors is the one the program       *)
(* built, youngest first: deallocateRegionsUntil compares addresses and    *)
(* stops at the first that is larger, so a descriptor out of order would   *)
(* make it pop too few or too many.                                        *)
StackExact ==
  /\ OnStack = live
  /\ \A r \in live : p[r] # NULL => r < p[r]
  /\ topregion # NULL => \A s \in live : topregion <= s

(* All the pointers of the allocator, between two calls and in the middle  *)
(* of an exception's unwinding.                                            *)
PointersExact == ChainsExact /\ StackExact

(* A large object is freed exactly once: those malloced and not freed are  *)
(* those in the lists of regions on the stack, each in one list.           *)
LargeObjectsExact ==
  /\ heap = UNION {lobjs[r] : r \in live}
  /\ \A r, s \in live : r # s => lobjs[r] \intersect lobjs[s] = {}

(* Values stay inside the data words of their region's pages, and in the   *)
(* last page below the allocation pointer.                                 *)
ValuesInPages ==
  \A r \in live : \A w \in used[r] :
    /\ \E q \in Owned(r) : w \in Words(q)
    /\ w \in Words(LastRp(a[r])) => w < a[r]

(* alloc returns k words that hold no live value of any region: the block  *)
(* that ends at the new allocation pointer is disjoint from everything     *)
(* stored, and lies in one page of the region.                             *)
AllocFresh ==
  [][\A r \in Desc, k \in Sizes :
       AllocInPage(r, k) \/ AllocNewPage(r, k) =>
         LET block == (a'[r] - k)..(a'[r] - 1) IN
           /\ \A s \in live : block \intersect used[s] = {}
           /\ \E q \in Page : owner'[q] = r /\ block \subseteq Words(q)]_vars

(* Raising an exception pops the regions below the handler and no others:  *)
(* each region popped in the loop is at or below the handler's stack       *)
(* pointer, and none of those is left when the call returns.  Otherwise    *)
(* only the youngest region is ever popped.                                *)
UnwindExact ==
  [][/\ \A r \in live \ live' : /\ until # NULL => r <= until
                                /\ \A s \in live' : r < s
     /\ until # NULL /\ until' = NULL => \A r \in live' : r > until]_vars

(* The local form of ChainsExact: what each next pointer, first page and   *)
(* allocation pointer says of its neighbours.  With the other invariants   *)
(* it is inductive.                                                        *)
OwnersExact ==
  \A q \in Page : /\ owner[q] = UNMAPPED <=> q > rp_total
                  /\ owner[q] \in live \union {FREE, UNMAPPED}

NextExact ==
  \A q \in Page : n[q] # NULL =>
    /\ owner[q] # UNMAPPED /\ owner[n[q]] = owner[q]
    /\ n[q] # freelist
    /\ \A r \in live : n[q] # fp[r]
    /\ \A s \in Page : n[q] = n[s] => q = s

EndsExact ==
  /\ freelist # NULL => owner[freelist] = FREE
  /\ \A r \in live : /\ fp[r] \in Owned(r)
                     /\ LastRp(a[r]) \in Owned(r)
                     /\ \A q \in Owned(r) : n[q] = NULL <=> q = LastRp(a[r])
                     /\ DataStart(LastRp(a[r])) <= a[r] /\ a[r] <= RpBoundary(a[r])

LinksExact == OwnersExact /\ NextExact /\ EndsExact

(* What the local form cannot say: no chain runs in a circle, and the free *)
(* pages are one chain, so that none is out of the free list's reach.      *)
Acyclic == \A T \in SUBSET Page : T # {} => \E q \in T : n[q] \notin T

OneFreeChain ==
  /\ freelist = NULL => Owned(FREE) = {}
  /\ \A q, s \in Owned(FREE) : n[q] = NULL /\ n[s] = NULL => q = s

(* The local form of StackExact: each descriptor points at the next older  *)
(* region.                                                                 *)
StackLinks ==
  /\ IF topregion = NULL THEN live = {}
     ELSE topregion \in live /\ \A s \in live : topregion <= s
  /\ \A r \in live : IF p[r] = NULL THEN \A s \in live : s <= r
                     ELSE /\ p[r] \in live /\ r < p[r]
                          /\ \A s \in live : s <= r \/ p[r] <= s

IndInv == /\ TypeOK /\ LinksExact /\ Acyclic /\ OneFreeChain /\ StackLinks
          /\ LargeObjectsExact /\ ValuesInPages

(* deallocateRegionsUntil returns. *)
UnwindTerminates == until # NULL ~> until = NULL

(* The pointers implement the pool: each chain is a set of pages.          *)
Pool == INSTANCE RegionPool WITH
          stack <- OnStack,
          holds <- [r \in Desc |-> IF r \in OnStack THEN Reach(fp[r]) ELSE {}],
          pool <- Reach(freelist)
PoolSpec == Pool!PoolSpec
=============================================================================
