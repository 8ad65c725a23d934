------------------------------- MODULE XMalloc -------------------------------
(***************************************************************************)
(* malloc, free and realloc of the Xen build, RuntimeMini/lib/xmalloc.c:   *)
(* blocks with a header, cut from pages, first fit, merged when freed; a   *)
(* request of about a page gets whole pages.  The region runtime takes its *)
(* pages and large objects here.  Addresses and sizes are in bytes.        *)
(***************************************************************************)
EXTENDS Integers, Sequences, SequencesExt, FiniteSetsExt

CONSTANTS
  PAGE_SIZE, Pages,      \* bytes of a page, and how many there are (bound)
  Chunks,                \* 2^order, the numbers of pages get_order asks for
  Align, Hdr, Pad,       \* alignment and size of xmalloc_hdr, size of xmalloc_pad
  Sizes,                 \* the sizes asked for
  MaxUsed,               \* objects allocated at a time (bound)
  Reallocs               \* objects given to realloc: "small" ones, "big" ones of whole pages

ASSUME XMallocAssumption ==
  /\ {PAGE_SIZE, Pages, Align, Hdr, Pad, MaxUsed} \subseteq Nat \ {0}
  /\ PAGE_SIZE % Align = 0 /\ Hdr % Align = 0 /\ Pad <= Align
  /\ Sizes \subseteq Nat \ {0} /\ Reallocs \subseteq {"small", "big"}
  /\ Chunks \subseteq Nat \ {0} /\ 1 \in Chunks
  /\ \A n \in Sizes : \E c \in Chunks : n + Hdr + Pad + Align <= c * PAGE_SIZE

VARIABLES
  size,        \* header address -> size of the block, headers and padding included
  freelist,    \* header addresses of the free blocks
  used,        \* address returned by malloc -> the header before it and the bytes asked for
  owned,       \* pages taken from the page allocator
  cut          \* auxiliary: realloc has cut an object

heapVars == <<size, freelist, used, owned, cut>>

------------------------------------------------------------------------------
AlignUp(n) == ((n + Align - 1) \div Align) * Align
HdrSize == Hdr + Pad
DataBegin(hdr) == AlignUp(hdr + HdrSize)
PageOf(a) == a \div PAGE_SIZE
PagesOf(hdr, n) == PageOf(hdr)..PageOf(hdr + n - 1)

(* get_order: the fewest pages that hold n bytes. *)
Chunk(n) == Min({c \in Chunks : c * PAGE_SIZE >= n})

Put(f, x, y) == [z \in DOMAIN f \union {x} |-> IF z = x THEN y ELSE f[z]]
Drop(f, S) == [z \in DOMAIN f \ S |-> f[z]]

(* maybe_split: what is left of a block goes to the free list if it can    *)
(* hold a header and as much again.                                        *)
Splits(want, block) == block - AlignUp(want) >= 2 * HdrSize
MaybeSplitUnaligned(hdr, want, block, sizes, free) ==                      \* mutant
  /\ size' = Put(Put(sizes, hdr, AlignUp(want)), hdr + AlignUp(want), block - want)
  /\ freelist' = <<hdr + AlignUp(want)>> \o free
MaybeSplit(hdr, want, block, sizes, free) ==
  LET extra == hdr + AlignUp(want)
  IN IF Splits(want, block)
     THEN /\ size' = Put(Put(sizes, hdr, AlignUp(want)), extra, block - AlignUp(want))
          /\ freelist' = <<extra>> \o free
     ELSE /\ size' = Put(sizes, hdr, block)
          /\ freelist' = free

Return(p, hdr, n) == used' = Put(used, p, [hdr |-> hdr, asked |-> n])

------------------------------------------------------------------------------
IsBig(n) == n + AlignUp(HdrSize) >= PAGE_SIZE

XmallocWholePages(n) ==
  \E base \in 0..(Pages - 1) :
    LET c == Chunk(AlignUp(HdrSize) + n)
        hdr == base * PAGE_SIZE
        taken == base..(base + c - 1)
    IN /\ base % c = 0 /\ base + c <= Pages
       /\ owned \intersect taken = {}
       /\ owned' = owned \union taken
       /\ size' = Put(size, hdr, c * PAGE_SIZE)
       /\ Return(DataBegin(hdr), hdr, n)
       /\ UNCHANGED freelist

(* The first free block that is large enough.  At malloc's alignment the   *)
(* space in front of the header is never worth a block of its own.         *)
BlockFits(i, n) == DataBegin(i) + n <= i + size[i]
TakeFree(n) ==
  LET fitting == {k \in 1..Len(freelist) : BlockFits(freelist[k], n)}
      k == Min(fitting)
      i == freelist[k]
  IN /\ fitting # {}
     /\ MaybeSplit(i, DataBegin(i) + n - i, size[i], size, RemoveAt(freelist, k))
     /\ Return(DataBegin(i), i, n)
     /\ UNCHANGED owned

XmallocNewPage(n) ==
  /\ \A i \in Range(freelist) : ~BlockFits(i, n)
  /\ \E page \in (0..(Pages - 1)) \ owned :
       LET hdr == page * PAGE_SIZE
       IN /\ owned' = owned \union {page}
          /\ MaybeSplit(hdr, AlignUp(HdrSize) + n, PAGE_SIZE, size, freelist)
          /\ Return(DataBegin(hdr), hdr, n)

Malloc(n) ==
  /\ Cardinality(DOMAIN used) < MaxUsed
  /\ IF IsBig(n) THEN XmallocWholePages(n) ELSE TakeFree(n) \/ XmallocNewPage(n)
  /\ UNCHANGED cut

------------------------------------------------------------------------------
(* xfree merges the block with the free blocks of its page that touch it:  *)
(* the loop sees them in list order, and the block grows as it goes.       *)
TouchesBelow(i, b) == PageOf(i) = PageOf(b.hdr) /\ i + size[i] = b.hdr       \* mutant
Touches(i, b) == /\ PageOf(i) = PageOf(b.hdr)
                 /\ i + size[i] = b.hdr \/ b.hdr + b.size = i
Swallow(b, i) ==
  IF ~Touches(i, b) THEN [b EXCEPT !.rest = Append(@, i)]
  ELSE [hdr |-> IF i < b.hdr THEN i ELSE b.hdr, size |-> b.size + size[i],
        gone |-> b.gone \union {i}, rest |-> b.rest]
(* After the first k blocks of the list. *)
Merging(hdr) ==
  LET b[k \in 0..Len(freelist)] ==
        IF k = 0 THEN [hdr |-> hdr, size |-> size[hdr], gone |-> {}, rest |-> <<>>]
        ELSE Swallow(b[k - 1], freelist[k])
  IN b
Merged(hdr) == Merging(hdr)[Len(freelist)]

(* A header before its object on another page is the BUG of xfree. *)
OnSamePage(p) == size[used[p].hdr] >= PAGE_SIZE \/ PageOf(p) = PageOf(used[p].hdr)

Free(p) ==
  LET hdr == used[p].hdr
      m == Merged(hdr)
      others == Drop(size, m.gone \union {hdr})
  IN /\ OnSamePage(p)
     /\ used' = Drop(used, {p})
     /\ IF size[hdr] >= PAGE_SIZE
        THEN /\ owned' = owned \ PagesOf(hdr, Chunk(size[hdr]) * PAGE_SIZE)
             /\ size' = Drop(size, {hdr})
             /\ UNCHANGED freelist
        ELSE IF m.size = PAGE_SIZE
        THEN owned' = owned \ {PageOf(m.hdr)} /\ size' = others /\ freelist' = m.rest
        ELSE /\ size' = Put(others, m.hdr, m.size)
             /\ freelist' = <<m.hdr>> \o m.rest
             /\ UNCHANGED owned
     /\ UNCHANGED cut

(* realloc in place; the other case is a malloc, a copy and a free. *)
Realloc(p, n) ==
  LET hdr == used[p].hdr
  IN /\ (IF size[hdr] < PAGE_SIZE THEN "small" ELSE "big") \in Reallocs
     /\ size[hdr] - (p - hdr) >= n
     /\ MaybeSplit(hdr, (p - hdr) + n, size[hdr], size, freelist)
     /\ used' = [used EXCEPT ![p].asked = n]
     /\ cut' = (cut \/ Splits((p - hdr) + n, size[hdr]))
     /\ UNCHANGED owned

HeapInit == size = << >> /\ freelist = << >> /\ used = << >> /\ owned = {} /\ cut = FALSE

HeapNext == \/ \E n \in Sizes : Malloc(n)
            \/ \E p \in DOMAIN used : Free(p)
            \/ \E p \in DOMAIN used, n \in Sizes : Realloc(p, n)

HeapSpec == HeapInit /\ [][HeapNext]_heapVars

------------------------------------------------------------------------------
Used(hdr) == \E p \in DOMAIN used : used[p].hdr = hdr

(* The blocks tile the pages: each page in use is covered exactly once, by *)
(* blocks that are either in the free list, once, or somebody's.           *)
BlocksTile ==
  /\ \A page \in owned : \A a \in (page * PAGE_SIZE)..((page + 1) * PAGE_SIZE - 1) :
       \E h \in DOMAIN size : a \in h..(h + size[h] - 1)
  /\ \A h \in DOMAIN size : PagesOf(h, size[h]) \subseteq owned
  /\ \A h, k \in DOMAIN size : h < k => h + size[h] <= k
  /\ DOMAIN size = Range(freelist) \union {used[p].hdr : p \in DOMAIN used}
  /\ \A h \in Range(freelist) : ~Used(h)
  /\ IsInjective(freelist)

(* An object lies behind its header, with the pad in between, and in its   *)
(* block: two objects share no byte, and none covers a header.             *)
ObjectsInBlocks ==
  \A p \in DOMAIN used :
    LET u == used[p] IN u.hdr + HdrSize <= p /\ p + u.asked <= u.hdr + size[u.hdr]

(* No page is kept for free blocks alone: what was all given back is with  *)
(* the page allocator again.  The one pass over the free list finds every  *)
(* merge only because no two free blocks ever touch; realloc, when it cuts *)
(* an object next to a free block, ends that.                              *)
EmptyPagesReturned ==
  ~cut => \A page \in owned : \E p \in DOMAIN used : page \in PagesOf(used[p].hdr, size[used[p].hdr])

(* We know hdr will be on same page: the BUG of xfree does not happen.  It *)
(* would if a block that realloc left of whole pages were cut.             *)
HeaderOnSamePage == \A p \in DOMAIN used : OnSamePage(p)

(* Whatever was malloced, freed and, if small, realloced: no byte belongs  *)
(* to two objects, a header or nobody.                                     *)
HeapSound == BlocksTile /\ ObjectsInBlocks /\ HeaderOnSamePage
=============================================================================
