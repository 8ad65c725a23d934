--------------------------- MODULE RegionsProofs ---------------------------
(***************************************************************************)
(* Proofs about the region allocator, for every number and size of pages,  *)
(* every bag size and every depth of the region stack.                     *)
(***************************************************************************)
EXTENDS Regions, FiniteSetTheorems, WellFoundedInduction, TLAPS

------------------------------------------------------------------------------
(* Addresses. *)

(* An address above a page's first word and not above its end belongs to   *)
(* that page: what lets Region.h find a region's last page from its        *)
(* allocation pointer.                                                     *)
LEMMA PageOfAddress ==
  ASSUME NEW q \in Nat, NEW x \in Int,
         q * PageWords < x, x <= (q + 1) * PageWords
  PROVE  LastRp(x) = q /\ RpBoundary(x) = (q + 1) * PageWords
BY RegionsAssumption DEF LastRp, RpBoundary

(* The pages of memory lie one after the other. *)
LEMMA PagesOrdered ==
  ASSUME NEW q \in Nat, NEW s \in Nat, q < s
  PROVE  (q + 1) * PageWords <= s * PageWords
<1>1. PICK d \in Nat : s = q + 1 + d
  BY SMT
<1>2. d * PageWords \in Nat
  BY RegionsAssumption
<1>3. s * PageWords = (q + 1) * PageWords + d * PageWords
  BY <1>1, RegionsAssumption
<1>4. (q + 1) * PageWords \in Nat /\ s * PageWords \in Nat
  BY RegionsAssumption
<1> QED
  BY <1>2, <1>3, <1>4

(* Where the data of a page starts and ends. *)
LEMMA PageGeometry ==
  ASSUME NEW q \in Page
  PROVE  /\ DataStart(q) \in Word
         /\ q * PageWords < DataStart(q)
         /\ DataStart(q) + Allocatable = (q + 1) * PageWords
         /\ (q + 1) * PageWords \in Word
         /\ LastRp(DataStart(q)) = q
         /\ RpBoundary(DataStart(q)) = (q + 1) * PageWords
<1> DEFINE first == q * PageWords
           end == (q + 1) * PageWords
           top == (NPages + 1) * PageWords
<1>1. first \in Nat /\ end \in Nat /\ top \in Nat /\ end = first + PageWords
  BY RegionsAssumption DEF Page
<1>2. end <= top
  <2>1. CASE q = NPages
    BY <2>1, <1>1
  <2>2. CASE q # NPages
    <3>1. q + 1 \in Nat /\ NPages + 1 \in Nat /\ q + 1 < NPages + 1
      BY <2>2, RegionsAssumption DEF Page
    <3> DEFINE next == (q + 1 + 1) * PageWords
    <3>2. next \in Nat /\ next = end + PageWords
      BY RegionsAssumption DEF Page
    <3>3. next <= top
      BY <3>1, PagesOrdered
    <3> HIDE DEF next, end, top
    <3> QED
      BY <3>2, <3>3, <1>1, RegionsAssumption
  <2> QED
    BY <2>1, <2>2
<1>3. DataStart(q) = first + HeaderWords
  BY DEF DataStart
<1> HIDE DEF first, end, top
<1>4. /\ first < DataStart(q) /\ DataStart(q) \in Nat /\ DataStart(q) <= end
      /\ DataStart(q) + Allocatable = end
  BY <1>1, <1>3, RegionsAssumption DEF Allocatable
<1>5. DataStart(q) \in Word /\ end \in Word
  <2>1. Word = 0..top
    BY DEF Word, top
  <2> QED
    BY <1>1, <1>2, <1>4, <2>1
<1>6. LastRp(DataStart(q)) = q /\ RpBoundary(DataStart(q)) = end
  BY <1>4, PageOfAddress DEF Page, first, end
<1> QED
  BY <1>4, <1>5, <1>6 DEF first, end, Words

(* No word belongs to two pages. *)
LEMMA PagesDisjoint ==
  ASSUME NEW q \in Page, NEW s \in Page, NEW w, w \in Words(q), w \in Words(s)
  PROVE  q = s
<1>1. /\ DataStart(q) <= w /\ w < (q + 1) * PageWords
      /\ DataStart(s) <= w /\ w < (s + 1) * PageWords /\ w \in Int
  BY PageGeometry DEF Words, Word
<1>2. /\ q * PageWords < DataStart(q) /\ s * PageWords < DataStart(s)
      /\ q * PageWords \in Nat /\ s * PageWords \in Nat
      /\ (q + 1) * PageWords \in Nat /\ (s + 1) * PageWords \in Nat
      /\ DataStart(q) \in Int /\ DataStart(s) \in Int
  BY PageGeometry, RegionsAssumption DEF Page, Word
<1>3. ASSUME q < s PROVE FALSE
  BY <1>1, <1>2, <1>3, PagesOrdered DEF Page
<1>4. ASSUME s < q PROVE FALSE
  BY <1>1, <1>2, <1>4, PagesOrdered DEF Page
<1> QED
  BY <1>3, <1>4, RegionsAssumption DEF Page

------------------------------------------------------------------------------
(* Following pointers. *)

(* A set of natural numbers that is not empty has a smallest one. *)
LEMMA LeastOf ==
  ASSUME NEW T, T \subseteq Nat, T # {}
  PROVE  \E x \in T : \A y \in T : x <= y
<1>1. PICK x \in T : \A y \in T : <<y, x>> \notin OpToRel(<, Nat)
  BY NatLessThanWellFounded, WFMin
<1>2. ASSUME NEW y \in T PROVE x <= y
  <2>1. <<y, x>> \in Nat \X Nat /\ x \in Nat /\ y \in Nat
    OBVIOUS
  <2>2. ~(y < x)
    BY <1>1, <2>1 DEF OpToRel
  <2> QED
    BY <2>1, <2>2
<1> QED
  BY <1>2

(* A bounded one has a largest. *)
LEMMA GreatestOf ==
  ASSUME NEW k \in Nat, NEW T, T \subseteq 1..k, T # {}
  PROVE  \E x \in T : \A y \in T : y <= x
<1> DEFINE U == {k - x : x \in T}
<1>1. U \subseteq Nat /\ U # {}
  OBVIOUS
<1>2. PICK u \in U : \A v \in U : u <= v
  BY <1>1, LeastOf
<1>3. PICK x \in T : u = k - x
  BY <1>2
<1>4. ASSUME NEW y \in T PROVE y <= x
  <2>1. k - y \in U
    OBVIOUS
  <2> QED
    BY <1>2, <1>3, <2>1
<1> QED
  BY <1>4

(* What is reached from x: x, what a node reached points at, and nothing   *)
(* else, so that everything reached but x has a predecessor.               *)
LEMMA WalkSteps ==
  ASSUME NEW D, NULL \notin D, NEW f \in [D -> D \union {NULL}],
         NEW x \in D \union {NULL}
  PROVE  /\ Walk(f, x) \subseteq D \union {NULL}
         /\ x \in Walk(f, x)
         /\ \A y \in Walk(f, x) \ {NULL} : f[y] \in Walk(f, x)
         /\ \A T \in SUBSET (D \union {NULL}) :
              x \in T /\ (\A y \in T \ {NULL} : f[y] \in T) => Walk(f, x) \subseteq T
         /\ \A y \in Walk(f, x) \ {x} : \E s \in Walk(f, x) \ {NULL} : f[s] = y
<1> DEFINE node == D \union {NULL}
           W == Walk(f, x)
           Closed(T) == \A y \in T \ {NULL} : f[y] \in T
<1>1. W = {y \in node : \A T \in SUBSET node : x \in T /\ Closed(T) => y \in T}
  <2>1. DOMAIN f = D
    OBVIOUS
  <2> QED
    BY <2>1, Zenon DEF Walk
<1> HIDE DEF W
<1>2. W \subseteq node /\ x \in W
  BY <1>1
<1>3. ASSUME NEW y \in W, y # NULL PROVE f[y] \in W
  <2>1. y \in D /\ f[y] \in node
    BY <1>2, <1>3
  <2>2. ASSUME NEW T \in SUBSET node, x \in T, Closed(T) PROVE f[y] \in T
    BY <1>1, <1>3, <2>2
  <2>3. \A T \in SUBSET node : x \in T /\ Closed(T) => f[y] \in T
    BY <2>2
  <2> HIDE DEF node, Closed
  <2> QED
    BY <1>1, <2>1, <2>3
<1>4. ASSUME NEW T \in SUBSET node, x \in T, Closed(T) PROVE W \subseteq T
  BY <1>1, <1>4
<1>5. ASSUME NEW y \in W, y # x, \A s \in W \ {NULL} : f[s] # y PROVE FALSE
  <2>1. x \in W \ {y} /\ W \ {y} \in SUBSET node
    BY <1>2, <1>5
  <2>2. Closed(W \ {y})
    BY <1>3, <1>5
  <2>3. W \subseteq W \ {y}
    BY <1>4, <2>1, <2>2
  <2> QED
    BY <1>5, <2>3
<1>6. \A y \in W \ {x} : \E s \in W \ {NULL} : f[s] = y
  BY <1>5
<1> QED
  BY <1>2, <1>3, <1>4, <1>6 DEF W

(* The nodes S are a chain that starts at first: no part of it is a        *)
(* circle, pointers stay in it, never lead back to its first node and lead *)
(* to no node twice, so that at most one of them is NULL.                  *)
IsChain(f, S, first) ==
  /\ first \in S
  /\ \A T \in SUBSET S : T # {} => \E q \in T : f[q] \notin T
  /\ \A q \in S : f[q] # NULL => f[q] \in S /\ f[q] # first
  /\ \A q, s \in S : f[q] = f[s] => q = s

(* A chain is exactly what is reached from its first node, and it ends.    *)
LEMMA ChainWalk ==
  ASSUME NEW D, NULL \notin D, NEW f \in [D -> D \union {NULL}],
         NEW S \in SUBSET D, NEW first, IsChain(f, S, first)
  PROVE  Walk(f, first) = S \union {NULL}
<1> USE DEF IsChain
<1> DEFINE W == Walk(f, first)
<1>1. /\ W \subseteq D \union {NULL} /\ first \in W
      /\ \A y \in W \ {NULL} : f[y] \in W
      /\ \A T \in SUBSET (D \union {NULL}) :
           first \in T /\ (\A y \in T \ {NULL} : f[y] \in T) => W \subseteq T
      /\ \A y \in W \ {first} : \E s \in W \ {NULL} : f[s] = y
  <2>1. first \in D \union {NULL}
    OBVIOUS
  <2> QED
    BY <2>1, WalkSteps
<1> HIDE DEF W
<1>2. first # NULL /\ NULL \notin S
  OBVIOUS
<1>3. W \subseteq S \union {NULL}
  <2> DEFINE T == S \union {NULL}
  <2>1. T \in SUBSET (D \union {NULL}) /\ first \in T
    OBVIOUS
  <2>2. \A y \in T \ {NULL} : f[y] \in T
    OBVIOUS
  <2> HIDE DEF T
  <2>3. W \subseteq T
    BY <1>1, <2>1, <2>2
  <2> QED
    BY <2>3 DEF T
<1>4. NULL \in W
  <2>1. W \ {NULL} \in SUBSET S /\ first \in W \ {NULL}
    BY <1>1, <1>2, <1>3
  <2>2. PICK q \in W \ {NULL} : f[q] \notin W \ {NULL}
    BY <2>1
  <2> QED
    BY <1>1, <2>2
<1>5. ASSUME S \ W # {} PROVE FALSE
  <2>1. PICK q \in S \ W : f[q] \notin S \ W
    BY <1>5
  <2>2. f[q] \in W /\ f[q] # first
    BY <1>2, <1>4, <2>1
  <2>3. PICK s \in W \ {NULL} : f[s] = f[q]
    BY <1>1, <2>2
  <2> QED
    BY <1>3, <2>1, <2>3
<1> QED
  BY <1>3, <1>4, <1>5 DEF W

------------------------------------------------------------------------------
(* Taking a page. *)

(* alloc_new_page never takes a page somebody holds: the page it takes was *)
(* free or, when the free list was empty, is the first of a new bag.       *)
LEMMA HeadIsFree ==
  ASSUME TypeOK, LinksExact, CanTakePage
  PROVE  /\ Head \in Page
         /\ owner[Head] = IF MustSbrk THEN UNMAPPED ELSE FREE
         /\ MustSbrk => /\ Head \in Bag /\ Bag \subseteq Page
                        /\ \A q \in Bag : owner[q] = UNMAPPED
<1>1. CASE MustSbrk
  <2>1. Head = rp_total + 1 /\ rp_total + BagSize <= NPages /\ rp_total \in Nat
    BY <1>1 DEF Head, CanTakePage, TypeOK
  <2>2. Head \in Bag /\ Bag \subseteq Page
    BY <2>1, RegionsAssumption DEF Bag, Page
  <2>3. \A q \in Bag : owner[q] = UNMAPPED
    BY <2>1, <2>2, RegionsAssumption DEF Bag, LinksExact, OwnersExact, Page
  <2> QED
    BY <1>1, <2>2, <2>3
<1>2. CASE ~MustSbrk
  BY <1>2 DEF MustSbrk, Head, TypeOK, LinksExact, EndsExact
<1> QED
  BY <1>1, <1>2

(* Taking a page keeps the types. *)
LEMMA TakeTypes ==
  ASSUME TypeOK, LinksExact, NEW r \in Desc, NEW last, TakePage(r, last)
  PROVE  /\ freelist' \in Page \union {NULL}
         /\ n' \in [Page -> Page \union {NULL}]
         /\ rp_total' \in 0..NPages
         /\ owner' \in [Page -> Desc \union {FREE, UNMAPPED}]
<1>1. Head \in Page /\ (MustSbrk => Bag \subseteq Page /\ Head \in Bag)
  BY HeadIsFree DEF TakePage
<1>2. ASSUME NEW q \in Page PROVE Chained(q) \in Page \union {NULL}
  <2>1. CASE MustSbrk /\ q \in Bag /\ q # rp_total + BagSize
    <3>1. q + 1 \in Bag
      BY <2>1, RegionsAssumption DEF Bag, TypeOK
    <3> QED
      BY <1>1, <2>1, <3>1 DEF Chained
  <2> QED
    BY <2>1 DEF Chained, TypeOK
<1>3. rp_total' \in 0..NPages
  BY RegionsAssumption DEF TakePage, CanTakePage, TypeOK
<1> QED
  BY <1>1, <1>2, <1>3 DEF TakePage, Link, TypeOK

------------------------------------------------------------------------------
(* Type correctness. *)

(* The youngest region is on the stack whenever there is one. *)
LEMMA TopIsLive ==
  ASSUME TypeOK, StackLinks, live # {} \/ topregion # NULL
  PROVE  topregion \in live /\ topregion \in Desc
BY DEF TypeOK, StackLinks

(* Splicing a region's pages back keeps the types. *)
LEMMA PopTypes ==
  ASSUME TypeOK, LinksExact, topregion \in live, PopRegion
  PROVE  /\ freelist' \in Page \union {NULL}
         /\ n' \in [Page -> Page \union {NULL}]
         /\ topregion' \in Desc \union {NULL}
         /\ owner' \in [Page -> Desc \union {FREE, UNMAPPED}]
         /\ heap' \subseteq Lobj /\ live' \subseteq Desc
         /\ used' \in [Desc -> SUBSET Word]
BY DEF PopRegion, TypeOK

(* Every step keeps the types. *)
LEMMA TypeStep ==
  ASSUME TypeOK, LinksExact, StackLinks, [Next]_vars
  PROVE  TypeOK'
<1>1. ASSUME NEW r \in Desc, AllocateRegion(r) PROVE TypeOK'
  <2>1. Head \in Page
    BY <1>1, HeadIsFree DEF AllocateRegion, TakePage
  <2>2. DataStart(Head) \in Word
    BY <2>1, PageGeometry
  <2>3. TakePage(r, NULL)
    BY <1>1 DEF AllocateRegion
  <2> QED
    BY <1>1, <2>1, <2>2, <2>3, TakeTypes DEF AllocateRegion, Push, TypeOK
<1>2. ASSUME NEW r \in Desc, ResetRegion(r) PROVE TypeOK'
  <2>1. fp[r] \in Page /\ DataStart(fp[r]) \in Word /\ n[fp[r]] \in Page \union {NULL}
    BY <1>2, PageGeometry DEF ResetRegion, LinksExact, EndsExact, Owned, TypeOK
  <2>2. /\ n' \in [Page -> Page \union {NULL}] /\ freelist' \in Page \union {NULL}
        /\ owner' \in [Page -> Desc \union {FREE, UNMAPPED}]
    BY <1>2, <2>1 DEF ResetRegion, FreeLobjs, TypeOK
  <2> QED
    BY <1>2, <2>1, <2>2 DEF ResetRegion, FreeLobjs, TypeOK
<1>3. ASSUME NEW r \in Desc, NEW k \in Sizes, AllocInPage(r, k) PROVE TypeOK'
  <2> DEFINE L == LastRp(a[r])
  <2>1. L \in Page /\ a[r] \in Int /\ k \in Nat \ {0}
    BY <1>3, RegionsAssumption DEF AllocInPage, LinksExact, EndsExact, Owned, TypeOK, Word
  <2>2. RpBoundary(a[r]) = (L + 1) * PageWords /\ RpBoundary(a[r]) \in Word
    BY <2>1, PageGeometry DEF RpBoundary
  <2>3. a[r] + k \in Word /\ (a[r]..(a[r] + k - 1)) \subseteq Word
    <3>1. a[r] \in Nat /\ a[r] + k <= RpBoundary(a[r]) /\ RpBoundary(a[r]) \in Nat
      BY <1>3, <2>2 DEF AllocInPage, TypeOK, Word
    <3> DEFINE top == (NPages + 1) * PageWords
    <3>2. Word = 0..top /\ top \in Nat
      BY RegionsAssumption DEF Word
    <3> HIDE DEF top
    <3> QED
      BY <2>1, <2>2, <3>1, <3>2
  <2> QED
    BY <1>3, <2>3 DEF AllocInPage, Store, pageVars, TypeOK
<1>4. ASSUME NEW r \in Desc, NEW k \in Sizes, AllocNewPage(r, k) PROVE TypeOK'
  <2>1. Head \in Page /\ k \in Nat \ {0} /\ k <= Allocatable
    BY <1>4, HeadIsFree, RegionsAssumption DEF AllocNewPage, TakePage
  <2>2. /\ DataStart(Head) + k \in Word
        /\ (DataStart(Head)..(DataStart(Head) + k - 1)) \subseteq Word
    <3> DEFINE top == (NPages + 1) * PageWords
               end == (Head + 1) * PageWords
    <3>1. Word = 0..top /\ top \in Nat
      BY RegionsAssumption DEF Word
    <3>2. DataStart(Head) \in Word /\ DataStart(Head) + Allocatable = end /\ end \in Word
      BY <2>1, PageGeometry
    <3>3. Allocatable \in Int
      BY RegionsAssumption DEF Allocatable
    <3> HIDE DEF top, end
    <3> QED
      BY <2>1, <3>1, <3>2, <3>3
  <2>3. TakePage(r, LastRp(a[r]))
    BY <1>4 DEF AllocNewPage
  <2> QED
    BY <1>4, <2>2, <2>3, TakeTypes DEF AllocNewPage, Store, TypeOK
<1>5. ASSUME NEW r \in Desc, NEW k \in Sizes, NEW o \in Lobj, AllocLarge(r, k, o)
      PROVE  TypeOK'
  BY <1>5 DEF AllocLarge, pageVars, TypeOK
<1>6. CASE DeallocateRegion
  BY <1>6, TopIsLive, PopTypes DEF DeallocateRegion, PopRegion, TypeOK
<1>7. ASSUME NEW sp \in Desc, DeallocateRegionsUntil(sp) PROVE TypeOK'
  BY <1>7 DEF DeallocateRegionsUntil, regionVars, pageVars, TypeOK
<1>8. CASE UnwindOne
  BY <1>8, TopIsLive, PopTypes DEF UnwindOne, MustPop, PopRegion, TypeOK
<1>9. CASE UnwindDone
  BY <1>9 DEF UnwindDone, regionVars, pageVars, TypeOK
<1>10. CASE OutOfMemory
  BY <1>10 DEF OutOfMemory, regionVars, pageVars, TypeOK
<1>11. CASE Die \/ UNCHANGED vars
  BY <1>11 DEF Die, vars, regionVars, pageVars, TypeOK
<1> QED
  BY <1>1, <1>2, <1>3, <1>4, <1>5, <1>6, <1>7, <1>8, <1>9, <1>10, <1>11 DEF Next

------------------------------------------------------------------------------
(* The chains. *)

(* Who holds page q once a new bag, if one was needed, is on the free list. *)
OwnerWithBag(q) == IF MustSbrk /\ q \in Bag THEN FREE ELSE owner[q]

(* callSbrk chains the new bag so that the free list, headed by the page   *)
(* about to be taken, stays a chain apart from every region's.             *)
LEMMA BagLinks ==
  ASSUME TypeOK, LinksExact, CanTakePage
  PROVE  /\ OwnerWithBag(Head) = FREE
         /\ \A q \in Page : Chained(q) # NULL =>
              /\ Chained(q) \in Page
              /\ OwnerWithBag(q) # UNMAPPED
              /\ OwnerWithBag(Chained(q)) = OwnerWithBag(q)
              /\ Chained(q) # Head
              /\ \A r \in live : Chained(q) # fp[r]
              /\ \A s \in Page : Chained(q) = Chained(s) => q = s
<1>0. /\ Head \in Page
      /\ owner[Head] = IF MustSbrk THEN UNMAPPED ELSE FREE
      /\ MustSbrk => /\ Head \in Bag /\ Bag \subseteq Page
                     /\ \A q \in Bag : owner[q] = UNMAPPED
  BY HeadIsFree
<1>1. OwnerWithBag(Head) = FREE
  BY <1>0 DEF OwnerWithBag
<1>2. CASE ~MustSbrk
  BY <1>1, <1>2 DEF Chained, OwnerWithBag, Head, TypeOK, LinksExact, NextExact
<1>3. CASE MustSbrk
  <2>1. freelist = NULL /\ Head = rp_total + 1 /\ rp_total \in Nat
    BY <1>3 DEF MustSbrk, Head, TypeOK
  <2>2. ASSUME NEW q \in Bag, Chained(q) # NULL
        PROVE  /\ Chained(q) = q + 1 /\ Chained(q) \in Bag
               /\ Chained(q) # Head /\ q \in Nat
    BY <1>3, <2>1, <2>2, RegionsAssumption DEF Chained, Bag
  <2>3. ASSUME NEW q \in Page, q \notin Bag, Chained(q) # NULL
        PROVE  /\ Chained(q) = n[q] /\ n[q] \in Page /\ n[q] \notin Bag
               /\ owner[q] # UNMAPPED /\ owner[n[q]] = owner[q]
               /\ \A r \in live : n[q] # fp[r]
               /\ \A s \in Page : n[q] = n[s] => q = s
    BY <1>0, <1>3, <2>3 DEF Chained, TypeOK, LinksExact, NextExact
  <2>4. \A r \in live : fp[r] \notin Bag
    BY <1>0, <1>3 DEF LinksExact, EndsExact, Owned, TypeOK, Desc, UNMAPPED
  <2>5. ASSUME NEW q \in Page, Chained(q) # NULL
        PROVE  /\ Chained(q) \in Page
               /\ OwnerWithBag(q) # UNMAPPED
               /\ OwnerWithBag(Chained(q)) = OwnerWithBag(q)
               /\ Chained(q) # Head
               /\ \A r \in live : Chained(q) # fp[r]
    BY <1>0, <1>3, <2>2, <2>3, <2>4, <2>5 DEF OwnerWithBag, FREE, UNMAPPED
  <2>6. ASSUME NEW q \in Page, NEW s \in Page,
               Chained(q) # NULL, Chained(q) = Chained(s)
        PROVE  q = s
    <3>1. CASE q \in Bag /\ s \in Bag
      BY <2>2, <2>6, <3>1
    <3>2. CASE q \notin Bag \/ s \notin Bag
      BY <2>2, <2>3, <2>6, <3>2
    <3> QED
      BY <3>1, <3>2
  <2> QED
    BY <1>1, <2>5, <2>6
<1> QED
  BY <1>2, <1>3

(* Taking a page for a region that is new or that gets it behind its last  *)
(* page keeps owners and next pointers right, and the free list free.      *)
LEMMA TakeLinks ==
  ASSUME TypeOK, LinksExact, NEW r \in Desc, NEW last, TakePage(r, last),
         live' = live \union {r},
         \/ r \notin live /\ last = NULL /\ fp' = [fp EXCEPT ![r] = Head]
         \/ r \in live /\ last = LastRp(a[r]) /\ fp' = fp
  PROVE  /\ OwnersExact' /\ NextExact'
         /\ freelist' # NULL => owner'[freelist'] = FREE
<1>1. /\ Head \in Page
      /\ owner[Head] = IF MustSbrk THEN UNMAPPED ELSE FREE
      /\ MustSbrk => /\ Head \in Bag /\ Bag \subseteq Page
                     /\ \A q \in Bag : owner[q] = UNMAPPED
  BY HeadIsFree DEF TakePage
<1>2. /\ freelist' = Chained(Head)
      /\ \A q \in Page : /\ n'[q] = IF q = last THEN Head
                                    ELSE IF q = Head THEN NULL ELSE Chained(q)
                         /\ owner'[q] = IF q = Head THEN r ELSE OwnerWithBag(q)
  BY DEF TakePage, Link, OwnerWithBag
<1>3. \A q \in Page : Chained(q) # NULL =>
              /\ Chained(q) \in Page
              /\ OwnerWithBag(q) # UNMAPPED
              /\ OwnerWithBag(Chained(q)) = OwnerWithBag(q)
              /\ Chained(q) # Head
              /\ \A s \in live : Chained(q) # fp[s]
              /\ \A s \in Page : Chained(q) = Chained(s) => q = s
  BY BagLinks DEF TakePage
<1>4. OwnerWithBag(Head) = FREE
  BY BagLinks DEF TakePage
<1>5. OwnersExact'
  BY <1>1, RegionsAssumption
     DEF LinksExact, OwnersExact, TakePage, TypeOK, Bag, Page, FREE, UNMAPPED, Desc
<1>6. freelist' # NULL => owner'[freelist'] = FREE
  BY <1>1, <1>2, <1>3, <1>4
<1>7. ASSUME NEW s \in live
      PROVE  fp[s] \in Page /\ fp[s] # Head /\ fp'[s] = fp[s]
  <2>1. s \in Desc /\ fp[s] \in Page /\ owner[fp[s]] = s
    BY DEF LinksExact, EndsExact, Owned, TypeOK
  <2>2. fp[s] # Head
    BY <1>1, <2>1 DEF Desc, FREE, UNMAPPED
  <2>3. fp'[s] = fp[s]
    BY <2>1 DEF TypeOK
  <2> QED
    BY <2>1, <2>2, <2>3
<1>8. r \notin live => fp'[r] = Head
  BY DEF TypeOK
<1>9. r \in live => last \in Page /\ OwnerWithBag(last) = r /\ last # Head
  BY <1>1 DEF LinksExact, EndsExact, Owned, OwnerWithBag, Desc, FREE, UNMAPPED
<1>10. last \in Page => r \in live
  BY DEF Page, NULL
<1>11. ASSUME NEW q \in Page, n'[q] # NULL
       PROVE  /\ owner'[q] # UNMAPPED /\ owner'[n'[q]] = owner'[q]
              /\ n'[q] # freelist'
              /\ \A s \in live' : n'[q] # fp'[s]
  <2>1. CASE q = last
    <3>1. n'[q] = Head /\ owner'[q] = r /\ owner'[Head] = r
      BY <1>1, <1>2, <1>9, <1>10, <2>1
    <3>2. Head # freelist'
      BY <1>1, <1>2, <1>3 DEF Page, NULL
    <3> QED
      BY <1>7, <1>10, <2>1, <3>1, <3>2 DEF Desc, UNMAPPED
  <2>2. CASE q # last
    <3>1. q # Head /\ n'[q] = Chained(q) /\ owner'[q] = OwnerWithBag(q)
      BY <1>2, <1>11, <2>2
    <3>2. Chained(q) \in Page /\ owner'[Chained(q)] = OwnerWithBag(q)
      BY <1>2, <1>3, <1>11, <3>1
    <3>3. Chained(q) # freelist'
      BY <1>1, <1>2, <1>3, <1>11, <3>1
    <3>4. \A s \in live' : Chained(q) # fp'[s]
      BY <1>3, <1>7, <1>8, <1>11, <3>1
    <3> QED
      BY <1>3, <1>11, <3>1, <3>2, <3>3, <3>4
  <2> QED
    BY <2>1, <2>2
<1>12. ASSUME NEW q \in Page, NEW s \in Page, n'[q] # NULL, n'[q] = n'[s]
       PROVE  q = s
  <2>1. q # Head \/ q = last
    BY <1>2, <1>12
  <2>2. s # Head \/ s = last
    BY <1>2, <1>12
  <2>3. CASE q = last \/ s = last
    BY <1>2, <1>3, <1>12, <2>1, <2>2, <2>3
  <2>4. CASE q # last /\ s # last
    BY <1>2, <1>3, <1>12, <2>1, <2>2, <2>4
  <2> QED
    BY <2>3, <2>4
<1>13. NextExact'
  BY <1>11, <1>12 DEF NextExact
<1> QED
  BY <1>5, <1>6, <1>13


(* Taking a page gives region r that page and disturbs no page in a region *)
(* but the one it is linked behind.                                        *)
LEMMA TakeOwned ==
  ASSUME TypeOK, LinksExact, NEW r \in Desc, NEW last, TakePage(r, last)
  PROVE  /\ Head \in Page /\ owner'[Head] = r
         /\ n'[Head] = IF Head = last THEN Head ELSE NULL
         /\ \A q \in Page, s \in Desc :
              /\ owner[q] = s => owner'[q] = s
              /\ owner'[q] = s /\ q # Head =>
                   owner[q] = s /\ n'[q] = IF q = last THEN Head ELSE n[q]
              /\ owner[q] = s => q # Head
<1>1. /\ Head \in Page
      /\ owner[Head] = IF MustSbrk THEN UNMAPPED ELSE FREE
      /\ MustSbrk => /\ Head \in Bag /\ Bag \subseteq Page
                     /\ \A q \in Bag : owner[q] = UNMAPPED
  BY HeadIsFree DEF TakePage
<1>2. owner'[Head] = r /\ n'[Head] = IF Head = last THEN Head ELSE NULL
  BY <1>1 DEF TakePage, Link
<1>3. ASSUME NEW q \in Page, NEW s \in Desc, owner[q] = s
      PROVE  owner'[q] = s /\ q # Head
  BY <1>1, <1>3 DEF TakePage, Desc, FREE, UNMAPPED
<1>4. ASSUME NEW q \in Page, NEW s \in Desc, owner'[q] = s, q # Head
      PROVE  owner[q] = s /\ n'[q] = IF q = last THEN Head ELSE n[q]
  <2>1. owner[q] = s /\ ~(MustSbrk /\ q \in Bag)
    BY <1>4 DEF TakePage, Desc, FREE
  <2> QED
    BY <1>4, <2>1 DEF TakePage, Link, Chained
<1> QED
  BY <1>1, <1>2, <1>3, <1>4

(* What EndsExact says of one region. *)
EndExact(r) ==
  /\ fp[r] \in Owned(r)
  /\ LastRp(a[r]) \in Owned(r)
  /\ \A q \in Owned(r) : n[q] = NULL <=> q = LastRp(a[r])
  /\ DataStart(LastRp(a[r])) <= a[r] /\ a[r] <= RpBoundary(a[r])

(* A region nobody is working on keeps its ends. *)
LEMMA EndKept ==
  ASSUME NEW s \in Desc, EndExact(s), fp'[s] = fp[s], a'[s] = a[s],
         \A q \in Page : owner[q] = s <=> owner'[q] = s,
         \A q \in Page : owner[q] = s => n'[q] = n[q]
  PROVE  EndExact(s)'
BY DEF EndExact, Owned, LastRp, RpBoundary, DataStart

(* Pushing a region keeps the chains right. *)
LEMMA AllocateRegionLinks ==
  ASSUME TypeOK, LinksExact, NEW r \in Desc, AllocateRegion(r)
  PROVE  LinksExact'
<1>1. r \notin live /\ TakePage(r, NULL)
  BY DEF AllocateRegion, Push, TypeOK, Desc
<1>2. OwnersExact' /\ NextExact' /\ (freelist' # NULL => owner'[freelist'] = FREE)
  BY <1>1, TakeLinks DEF AllocateRegion
<1>3. /\ Head \in Page /\ owner'[Head] = r /\ n'[Head] = NULL
      /\ \A q \in Page, s \in Desc :
           /\ owner[q] = s => owner'[q] = s /\ q # Head
           /\ owner'[q] = s /\ q # Head => owner[q] = s /\ n'[q] = n[q]
  BY <1>1, TakeOwned DEF Page, NULL
<1>4. EndExact(r)'
  <2>1. \A q \in Page : owner'[q] = r => q = Head
    BY <1>1, <1>3 DEF LinksExact, OwnersExact, Desc, FREE, UNMAPPED
  <2>2. fp'[r] = Head /\ a'[r] = DataStart(Head)
    BY DEF AllocateRegion, Push, TypeOK
  <2>3. /\ LastRp(a'[r]) = Head /\ DataStart(Head) <= RpBoundary(a'[r])
        /\ DataStart(Head) \in Int
    BY <1>3, <2>2, PageGeometry, RegionsAssumption DEF Word, Allocatable, Page
  <2> QED
    BY <1>3, <2>1, <2>2, <2>3 DEF EndExact, Owned, LastRp, RpBoundary, DataStart
<1>5. ASSUME NEW s \in live PROVE EndExact(s)'
  <2>1. s \in Desc /\ s # r /\ EndExact(s)
    BY <1>1 DEF LinksExact, EndsExact, EndExact, TypeOK
  <2>2. fp'[s] = fp[s] /\ a'[s] = a[s]
    BY <2>1 DEF AllocateRegion, Push, TypeOK
  <2> QED
    BY <1>3, <2>1, <2>2, EndKept
<1>6. EndsExact'
  BY <1>2, <1>4, <1>5 DEF EndsExact, EndExact, AllocateRegion
<1> QED
  BY <1>2, <1>6 DEF LinksExact


(* Where a value of k words that starts a page leaves the allocation       *)
(* pointer.                                                                *)
LEMMA AfterFirstValue ==
  ASSUME NEW q \in Page, NEW k \in Nat \ {0}, k <= Allocatable
  PROVE  /\ LastRp(DataStart(q) + k) = q
         /\ DataStart(q) <= DataStart(q) + k
         /\ DataStart(q) + k <= RpBoundary(DataStart(q) + k)
         /\ DataStart(q)..(DataStart(q) + k - 1) \subseteq Words(q)
<1> DEFINE end == (q + 1) * PageWords
           first == q * PageWords
<1>1. /\ first < DataStart(q) /\ DataStart(q) \in Nat /\ end \in Nat
      /\ DataStart(q) + Allocatable = end /\ first \in Int /\ Allocatable \in Int
  BY PageGeometry, RegionsAssumption DEF Word, Allocatable, Page
<1> HIDE DEF end, first
<1>2. first < DataStart(q) + k /\ DataStart(q) + k <= end
  BY <1>1
<1>3. LastRp(DataStart(q) + k) = q /\ RpBoundary(DataStart(q) + k) = end
  BY <1>1, <1>2, PageOfAddress DEF end, first, Page
<1>4. DataStart(q)..(DataStart(q) + k - 1) \subseteq DataStart(q)..(end - 1)
  BY <1>1, <1>2
<1> QED
  BY <1>1, <1>2, <1>3, <1>4 DEF Words, end

(* Growing a region by a page keeps the chains right. *)
LEMMA AllocNewPageLinks ==
  ASSUME TypeOK, LinksExact, NEW r \in Desc, NEW k \in Sizes, AllocNewPage(r, k)
  PROVE  LinksExact'
<1> DEFINE L == LastRp(a[r])
<1>1. r \in live /\ live' = live /\ fp' = fp /\ TakePage(r, L)
  BY DEF AllocNewPage
<1>2. OwnersExact' /\ NextExact' /\ (freelist' # NULL => owner'[freelist'] = FREE)
  BY <1>1, TakeLinks
<1>3. EndExact(r)
  BY <1>1 DEF LinksExact, EndsExact, EndExact
<1>4. /\ Head \in Page /\ owner'[Head] = r
      /\ n'[Head] = IF Head = L THEN Head ELSE NULL
      /\ \A q \in Page, s \in Desc :
           /\ owner[q] = s => owner'[q] = s /\ q # Head
           /\ owner'[q] = s /\ q # Head =>
                owner[q] = s /\ n'[q] = IF q = L THEN Head ELSE n[q]
  BY <1>1, TakeOwned
<1>5. L \in Page /\ owner[L] = r /\ L # Head
  BY <1>3, <1>4 DEF EndExact, Owned
<1>6. EndExact(r)'
  <2>1. a'[r] = DataStart(Head) + k /\ k \in Nat \ {0} /\ k <= Allocatable
    BY RegionsAssumption DEF AllocNewPage, Store, TypeOK
  <2>2. /\ LastRp(a[r])' = Head
        /\ DataStart(Head) <= a'[r] /\ a'[r] <= RpBoundary(a[r])'
    BY <1>4, <2>1, AfterFirstValue DEF LastRp, RpBoundary
  <2>3. fp'[r] \in Page /\ owner'[fp'[r]] = r
    BY <1>1, <1>3, <1>4 DEF EndExact, Owned
  <2>4. ASSUME NEW q \in Page, owner'[q] = r PROVE n'[q] = NULL <=> q = Head
    BY <1>3, <1>4, <1>5, <2>4 DEF EndExact, Owned, Page, NULL
  <2> QED
    BY <1>4, <2>2, <2>3, <2>4 DEF EndExact, Owned, DataStart
<1>7. ASSUME NEW s \in live, s # r PROVE EndExact(s)'
  <2>1. s \in Desc /\ EndExact(s)
    BY DEF LinksExact, EndsExact, EndExact, TypeOK
  <2>2. fp'[s] = fp[s] /\ a'[s] = a[s]
    BY <2>1, <1>7 DEF AllocNewPage, Store, TypeOK
  <2>3. \A q \in Page : owner[q] = s => n'[q] = n[q]
    BY <1>4, <1>5, <1>7, <2>1
  <2>4. \A q \in Page : owner[q] = s <=> owner'[q] = s
    BY <1>4, <1>7, <2>1
  <2> QED
    BY <2>1, <2>2, <2>3, <2>4, EndKept
<1>8. EndsExact'
  BY <1>1, <1>2, <1>6, <1>7 DEF EndsExact, EndExact
<1> QED
  BY <1>2, <1>8 DEF LinksExact

(* Storing a value in the last page keeps the chains right: the allocation *)
(* pointer stays in that page, or at its end.                              *)
LEMMA AllocInPageLinks ==
  ASSUME TypeOK, LinksExact, NEW r \in Desc, NEW k \in Sizes, AllocInPage(r, k)
  PROVE  LinksExact'
<1> DEFINE L == LastRp(a[r])
<1>1. /\ r \in live /\ live' = live /\ fp' = fp /\ n' = n /\ owner' = owner
      /\ rp_total' = rp_total /\ freelist' = freelist
      /\ a' = [a EXCEPT ![r] = a[r] + k]
  BY DEF AllocInPage, Store, pageVars
<1>2. EndExact(r)
  BY <1>1 DEF LinksExact, EndsExact, EndExact
<1>3. /\ LastRp(a[r] + k) = L /\ RpBoundary(a[r] + k) = RpBoundary(a[r])
      /\ DataStart(L) <= a[r] + k /\ a[r] + k <= RpBoundary(a[r])
  <2> DEFINE end == (L + 1) * PageWords
             first == L * PageWords
  <2>1. L \in Page /\ DataStart(L) <= a[r] /\ RpBoundary(a[r]) = end
    BY <1>2 DEF EndExact, Owned, RpBoundary
  <2>2. first < DataStart(L) /\ DataStart(L) \in Nat /\ first \in Int /\ end \in Int
    BY <2>1, PageGeometry, RegionsAssumption DEF Word, Page
  <2>3. a[r] \in Nat /\ k \in Nat \ {0} /\ a[r] + k <= end
    BY <2>1, RegionsAssumption DEF AllocInPage, TypeOK, Word
  <2>4. DataStart(L) <= a[r] + k /\ first < a[r] + k /\ a[r] + k \in Int
    <3> HIDE DEF first, end, L
    <3> QED
      BY <2>1, <2>2, <2>3
  <2>5. LastRp(a[r] + k) = L /\ RpBoundary(a[r] + k) = end
    <3> HIDE DEF L
    <3> QED
      BY <2>1, <2>3, <2>4, PageOfAddress DEF Page
  <2> QED
    BY <2>1, <2>3, <2>4, <2>5
<1>4. EndExact(r)'
  <2>1. a'[r] = a[r] + k
    BY <1>1 DEF TypeOK
  <2>2. LastRp(a[r])' = L /\ RpBoundary(a[r])' = RpBoundary(a[r])
    BY <1>3, <2>1 DEF LastRp, RpBoundary
  <2> QED
    BY <1>1, <1>2, <1>3, <2>1, <2>2 DEF EndExact, Owned, DataStart
<1>5. ASSUME NEW s \in live, s # r PROVE EndExact(s)'
  <2>1. s \in Desc /\ EndExact(s) /\ a'[s] = a[s]
    BY <1>1, <1>5 DEF LinksExact, EndsExact, EndExact, TypeOK
  <2> QED
    BY <1>1, <2>1, EndKept
<1>6. EndsExact'
  BY <1>1, <1>4, <1>5 DEF LinksExact, EndsExact, EndExact
<1> QED
  BY <1>1, <1>6 DEF LinksExact, OwnersExact, NextExact


(* Splicing the tail S of a region's chain, from page h to the last page,  *)
(* in front of the free list, and ending the chain before it at page cut   *)
(* (NULL if the whole chain goes), keeps owners and next pointers right.   *)
LEMMA SpliceLinks ==
  ASSUME TypeOK, LinksExact, NEW r \in live,
         NEW S \in SUBSET Owned(r), NEW h \in S, NEW cut,
         LastRp(a[r]) \in S, cut \notin S,
         n' = [q \in Page |-> IF q = cut THEN NULL
                              ELSE IF q = LastRp(a[r]) THEN freelist ELSE n[q]],
         owner' = [q \in Page |-> IF q \in S THEN FREE ELSE owner[q]],
         freelist' = h, rp_total' = rp_total, fp' = fp,
         live' \subseteq live, live \ {r} \subseteq live',
         S # Owned(r) => r \in live',
         \A q \in Page : n[q] # NULL /\ q # cut => /\ n[q] \in S <=> q \in S
                                                   /\ n[q] # h,
         \A s \in live' : fp[s] \notin S
  PROVE  OwnersExact' /\ NextExact' /\ owner'[freelist'] = FREE
<1> DEFINE L == LastRp(a[r])
<1>1. r \in Desc /\ r # FREE /\ r # UNMAPPED /\ S \subseteq Page /\ L \in Page
  BY DEF TypeOK, Owned, Desc, FREE, UNMAPPED
<1>2. \A q \in S : owner[q] = r
  BY DEF Owned
<1>3. OwnersExact'
  BY <1>1, <1>2 DEF LinksExact, OwnersExact, FREE, UNMAPPED, Owned
<1>4. freelist # NULL => /\ freelist \in Page /\ owner[freelist] = FREE
                         /\ freelist \notin S
                         /\ \A s \in live : freelist # fp[s]
                         /\ \A q \in Page : n[q] # freelist
  BY <1>1, <1>2 DEF LinksExact, EndsExact, NextExact, TypeOK, Owned, Desc, FREE
<1>5. ASSUME NEW q \in Page, n'[q] # NULL
      PROVE  /\ owner'[q] # UNMAPPED /\ owner'[n'[q]] = owner'[q]
             /\ n'[q] # freelist'
             /\ \A s \in live' : n'[q] # fp'[s]
             /\ \A s \in Page : n'[q] = n'[s] => q = s
  <2>1. q # cut
    BY <1>5
  <2>2. CASE q = L
    <3>1. n'[q] = freelist /\ freelist # NULL /\ owner'[q] = FREE
      BY <1>5, <2>1, <2>2
    <3>2. owner'[freelist] = FREE
      BY <1>4, <3>1
    <3> QED
      BY <1>4, <2>2, <3>1, <3>2 DEF FREE, UNMAPPED
  <2>3. CASE q # L
    <3>1. n'[q] = n[q] /\ n[q] # NULL /\ n[q] \in Page
      BY <1>5, <2>1, <2>3 DEF TypeOK
    <3>2. /\ owner[q] # UNMAPPED /\ owner[n[q]] = owner[q]
          /\ \A s \in live : n[q] # fp[s]
          /\ \A s \in Page : n[q] = n[s] => q = s
          /\ n[q] # freelist
      BY <3>1 DEF LinksExact, NextExact
    <3>3. n[q] # h /\ (n[q] \in S <=> q \in S)
      BY <2>1, <3>1
    <3>4. owner'[q] # UNMAPPED /\ owner'[n[q]] = owner'[q]
      BY <3>1, <3>2, <3>3 DEF FREE, UNMAPPED
    <3>5. ASSUME NEW s \in Page, n'[q] = n'[s] PROVE q = s
      BY <1>5, <3>1, <3>2, <3>5
    <3> QED
      BY <3>1, <3>2, <3>3, <3>4, <3>5
  <2> QED
    BY <2>2, <2>3
<1>6. NextExact'
  BY <1>5 DEF NextExact
<1> QED
  BY <1>1, <1>3, <1>6

(* Popping the youngest region keeps the chains right. *)
LEMMA PopLinks ==
  ASSUME TypeOK, LinksExact, topregion \in live, PopRegion
  PROVE  LinksExact'
<1> DEFINE r == topregion
           L == LastRp(a[r])
           S == Owned(r)
<1>1. r \in live /\ r \in Desc /\ r # FREE /\ EndExact(r)
  BY DEF TypeOK, LinksExact, EndsExact, EndExact, Desc, FREE
<1>2. L \in S /\ fp[r] \in S /\ NULL \notin S
  BY <1>1 DEF EndExact, Owned, Page, NULL
<1>3. /\ n' = [q \in Page |-> IF q = NULL THEN NULL
                              ELSE IF q = L THEN freelist ELSE n[q]]
      /\ owner' = [q \in Page |-> IF q \in S THEN FREE ELSE owner[q]]
      /\ freelist' = fp[r] /\ rp_total' = rp_total /\ fp' = fp /\ a' = a
      /\ live' = live \ {r}
  <2>1. n' = [q \in Page |-> IF q = L THEN freelist ELSE n[q]]
    BY DEF PopRegion, TypeOK
  <2>2. \A q \in Page : q # NULL
    BY DEF Page, NULL
  <2>3. owner' = [q \in Page |-> IF q \in S THEN FREE ELSE owner[q]]
    BY DEF PopRegion, Owned
  <2> QED
    BY <2>1, <2>2, <2>3 DEF PopRegion
<1>4. \A q \in Page : n[q] # NULL => (n[q] \in S <=> q \in S) /\ n[q] # fp[r]
  BY <1>1 DEF LinksExact, NextExact, Owned, TypeOK
<1>5. \A s \in live' : fp[s] \notin S
  BY <1>3 DEF LinksExact, EndsExact, Owned
<1>6. OwnersExact' /\ NextExact' /\ owner'[freelist'] = FREE
  <2> HIDE DEF L, S
  <2> QED
    BY <1>1, <1>2, <1>3, <1>4, <1>5, SpliceLinks DEF L, S
<1>7. ASSUME NEW s \in live' PROVE EndExact(s)'
  <2>1. s \in Desc /\ s # r /\ EndExact(s) /\ s # FREE
    BY <1>3 DEF LinksExact, EndsExact, EndExact, TypeOK, Desc, FREE
  <2>2. fp'[s] = fp[s] /\ a'[s] = a[s]
    BY <1>3
  <2>3. \A q \in Page : owner[q] = s <=> owner'[q] = s
    BY <1>3, <2>1 DEF Owned
  <2>4. \A q \in Page : owner[q] = s => n'[q] = n[q]
    BY <1>2, <1>3, <2>1 DEF Owned, Page, NULL
  <2> QED
    BY <2>1, <2>2, <2>3, <2>4, EndKept
<1>8. EndsExact'
  BY <1>6, <1>7 DEF EndsExact, EndExact
<1> QED
  BY <1>6, <1>8 DEF LinksExact

(* Resetting a region keeps the chains right. *)
LEMMA ResetLinks ==
  ASSUME TypeOK, LinksExact, NEW r \in Desc, ResetRegion(r)
  PROVE  LinksExact'
<1> DEFINE L == LastRp(a[r])
           first == fp[r]
           rest == n[first]
           S == Owned(r) \ {first}
<1>1. r \in live /\ live' = live /\ fp' = fp /\ rp_total' = rp_total
  BY DEF ResetRegion
<1>2. EndExact(r)
  BY <1>1 DEF LinksExact, EndsExact, EndExact
<1>3. first \in Page /\ owner[first] = r /\ L \in Page /\ owner[L] = r
  BY <1>2 DEF EndExact, Owned
<1>4. a'[r] = DataStart(first) /\ \A s \in live : s # r => a'[s] = a[s]
  BY <1>1 DEF ResetRegion, FreeLobjs, TypeOK
<1>5. /\ LastRp(a[r])' = first /\ DataStart(first) <= a'[r]
      /\ a'[r] <= RpBoundary(a[r])'
  BY <1>3, <1>4, PageGeometry, RegionsAssumption
     DEF LastRp, RpBoundary, Word, Allocatable, Page
<1>6. CASE rest = NULL
  <2>1. n' = n /\ owner' = owner /\ freelist' = freelist
    BY <1>6 DEF ResetRegion
  <2>2. L = first
    BY <1>2, <1>3, <1>6 DEF EndExact, Owned
  <2>3. EndExact(r)'
    <3>1. \A q \in Page : owner'[q] = r => (n'[q] = NULL <=> q = first)
      BY <1>2, <2>1, <2>2 DEF EndExact, Owned
    <3> QED
      BY <1>1, <1>3, <1>4, <1>5, <2>1, <3>1 DEF EndExact, Owned, DataStart
  <2>4. ASSUME NEW s \in live, s # r PROVE EndExact(s)'
    <3>1. s \in Desc /\ EndExact(s)
      BY DEF LinksExact, EndsExact, EndExact, TypeOK
    <3> QED
      BY <1>1, <1>4, <2>1, <2>4, <3>1, EndKept
  <2> QED
    BY <1>1, <2>1, <2>3, <2>4
       DEF LinksExact, OwnersExact, NextExact, EndsExact, EndExact
<1>7. CASE rest # NULL
  <2>1. /\ n' = [q \in Page |-> IF q = first THEN NULL
                                ELSE IF q = L THEN freelist ELSE n[q]]
        /\ owner' = [q \in Page |-> IF q \in S THEN FREE ELSE owner[q]]
        /\ freelist' = rest
    BY <1>3, <1>7 DEF ResetRegion, FreeLobjs, TypeOK, Owned
  <2>2. L # first /\ L \in S
    BY <1>2, <1>3, <1>7 DEF EndExact, Owned
  <2>3. /\ rest \in Page /\ owner[rest] = r /\ rest # first
        /\ \A q \in Page : n[q] = rest => q = first
    BY <1>1, <1>3, <1>7 DEF LinksExact, NextExact, TypeOK
  <2>4. \A q \in Page : n[q] # NULL /\ q # first =>
          (n[q] \in S <=> q \in S) /\ n[q] # rest
    BY <1>1, <2>3 DEF LinksExact, NextExact, Owned, TypeOK
  <2>5. \A s \in live : fp[s] \notin S
    BY DEF LinksExact, EndsExact, Owned
  <2>6. OwnersExact' /\ NextExact' /\ owner'[freelist'] = FREE
    <3>1. rest \in S /\ S \in SUBSET Owned(r) /\ first \notin S
      BY <2>3 DEF Owned
    <3> HIDE DEF L, S, first, rest
    <3> QED
      BY <1>1, <2>1, <2>2, <2>4, <2>5, <3>1, SpliceLinks DEF L
  <2>7. EndExact(r)'
    <3>1. ASSUME NEW q \in Page PROVE owner'[q] = r <=> q = first
      BY <1>1, <1>3, <2>1, <3>1 DEF Owned, TypeOK, Desc, FREE
    <3>2. n'[first] = NULL
      BY <1>3, <2>1
    <3> QED
      BY <1>1, <1>3, <1>4, <1>5, <3>1, <3>2 DEF EndExact, Owned, DataStart
  <2>8. ASSUME NEW s \in live, s # r PROVE EndExact(s)'
    <3>1. s \in Desc /\ EndExact(s) /\ s # FREE
      BY DEF LinksExact, EndsExact, EndExact, TypeOK, Desc, FREE
    <3>2. \A q \in Page : owner[q] = s <=> owner'[q] = s
      BY <2>1, <2>8, <3>1 DEF Owned
    <3>3. \A q \in Page : owner[q] = s => n'[q] = n[q]
      BY <1>3, <2>1, <2>8, <3>1 DEF Owned
    <3> QED
      BY <1>1, <1>4, <2>8, <3>1, <3>2, <3>3, EndKept
  <2> QED
    BY <1>1, <2>6, <2>7, <2>8 DEF LinksExact, EndsExact, EndExact
<1> QED
  BY <1>6, <1>7


(* Every step keeps the chains right. *)
LEMMA LinksStep ==
  ASSUME TypeOK, LinksExact, StackLinks, [Next]_vars
  PROVE  LinksExact'
<1>1. ASSUME UNCHANGED <<fp, a, pageVars, live>> PROVE LinksExact'
  BY <1>1 DEF pageVars, LinksExact, OwnersExact, NextExact, EndsExact, Owned,
     LastRp, RpBoundary, DataStart
<1>2. ASSUME NEW r \in Desc, AllocateRegion(r) PROVE LinksExact'
  BY <1>2, AllocateRegionLinks
<1>3. ASSUME NEW r \in Desc, ResetRegion(r) PROVE LinksExact'
  BY <1>3, ResetLinks
<1>4. ASSUME NEW r \in Desc, NEW k \in Sizes, AllocInPage(r, k) PROVE LinksExact'
  BY <1>4, AllocInPageLinks
<1>5. ASSUME NEW r \in Desc, NEW k \in Sizes, AllocNewPage(r, k) PROVE LinksExact'
  BY <1>5, AllocNewPageLinks
<1>6. ASSUME NEW r \in Desc, NEW k \in Sizes, NEW o \in Lobj, AllocLarge(r, k, o)
      PROVE  LinksExact'
  BY <1>1, <1>6 DEF AllocLarge
<1>7. CASE DeallocateRegion \/ UnwindOne
  BY <1>7, TopIsLive, PopLinks DEF DeallocateRegion, UnwindOne, MustPop
<1>8. ASSUME NEW sp \in Desc, DeallocateRegionsUntil(sp) PROVE LinksExact'
  BY <1>1, <1>8 DEF DeallocateRegionsUntil, regionVars
<1>9. CASE UnwindDone \/ OutOfMemory
  BY <1>1, <1>9 DEF UnwindDone, OutOfMemory, regionVars
<1>10. CASE Die \/ UNCHANGED vars
  BY <1>1, <1>10 DEF Die, vars, regionVars
<1> QED
  BY <1>2, <1>3, <1>4, <1>5, <1>6, <1>7, <1>8, <1>9, <1>10 DEF Next

------------------------------------------------------------------------------
(* No circles, and one free chain. *)

(* Splicing the tail of a region's chain in front of the free list, and    *)
(* ending what is left of it at page cut (NULL if nothing is), makes no    *)
(* circle: a circle through the splice would have to go on in the old free *)
(* list, which never comes back.                                           *)
LEMMA SpliceAcyclic ==
  ASSUME TypeOK, LinksExact, Acyclic, NEW r \in live, NEW cut,
         cut # NULL => cut \in Owned(r),
         n' = [q \in Page |-> IF q = cut THEN NULL
                              ELSE IF q = LastRp(a[r]) THEN freelist ELSE n[q]]
  PROVE  Acyclic'
<1> DEFINE L == LastRp(a[r])
           F == Owned(FREE)
<1>1. /\ L \in Page /\ owner[L] = r /\ r # FREE /\ NULL \notin Page
      /\ cut \notin F /\ L \notin F /\ F \subseteq Page
  BY DEF TypeOK, LinksExact, EndsExact, Owned, Desc, FREE, Page, NULL
<1>2. freelist # NULL => freelist \in F
  BY DEF LinksExact, EndsExact, Owned, TypeOK
<1>3. \A q \in F : n[q] # NULL => n[q] \in F
  BY DEF LinksExact, NextExact, Owned, TypeOK
<1>4. /\ \A q \in Page : q # cut /\ q # L => n'[q] = n[q]
      /\ \A q \in Page : q = cut => n'[q] = NULL
      /\ L # cut => n'[L] = freelist
  BY <1>1
<1> HIDE DEF L, F
<1>5. ASSUME NEW T \in SUBSET Page, T # {}, \A q \in T : n'[q] \in T PROVE FALSE
  <2>1. cut \notin T
    BY <1>1, <1>4, <1>5
  <2>2. CASE L \notin T
    BY <1>4, <1>5, <2>1, <2>2 DEF Acyclic
  <2>3. CASE L \in T
    <3>1. T \intersect F # {} /\ T \intersect F \in SUBSET Page
      BY <1>1, <1>2, <1>4, <1>5, <2>1, <2>3
    <3>2. \A q \in T \intersect F : n[q] \in T \intersect F
      BY <1>1, <1>3, <1>4, <1>5, <2>1
    <3> QED
      BY <3>1, <3>2 DEF Acyclic
  <2> QED
    BY <2>2, <2>3
<1> QED
  BY <1>5 DEF Acyclic

(* The free list is still one chain after the splice of S, the tail of the *)
(* chain of region r.                                                      *)
LEMMA SpliceFree ==
  ASSUME TypeOK, LinksExact, OneFreeChain, NEW r \in live, NEW cut,
         NEW S \in SUBSET Owned(r), NEW h \in S, cut \notin S,
         cut # NULL => cut \in Owned(r),
         n' = [q \in Page |-> IF q = cut THEN NULL
                              ELSE IF q = LastRp(a[r]) THEN freelist ELSE n[q]],
         owner' = [q \in Page |-> IF q \in S THEN FREE ELSE owner[q]],
         freelist' = h
  PROVE  OneFreeChain'
<1> DEFINE L == LastRp(a[r])
           F == Owned(FREE)
<1>1. /\ L \in Page /\ owner[L] = r /\ r # FREE /\ NULL \notin Page
      /\ cut \notin F /\ L \notin F /\ F \subseteq Page
      /\ S \subseteq Page
      /\ \A q \in S : n[q] = NULL => q = L
  BY DEF TypeOK, LinksExact, EndsExact, Owned, Desc, FREE, Page, NULL
<1>2. Owned(FREE)' = F \union S
  BY DEF Owned
<1>3. ASSUME NEW q \in F \union S, n'[q] = NULL
      PROVE  \/ freelist = NULL /\ q = L
             \/ q \in F /\ n[q] = NULL
  <2>1. q \in Page /\ q # cut
    BY <1>1, <1>3
  <2>2. CASE q = L
    BY <1>3, <2>1, <2>2
  <2>3. CASE q # L
    BY <1>1, <1>3, <2>1, <2>3
  <2> QED
    BY <2>2, <2>3
<1>4. freelist = NULL => F = {}
  BY DEF OneFreeChain
<1>5. \A q, s \in F : n[q] = NULL /\ n[s] = NULL => q = s
  BY DEF OneFreeChain
<1>6. freelist' # NULL
  BY <1>1
<1> HIDE DEF L, F
<1>7. \A q, s \in F \union S : n'[q] = NULL /\ n'[s] = NULL => q = s
  BY <1>3, <1>4, <1>5
<1> QED
  BY <1>2, <1>6, <1>7 DEF OneFreeChain

(* Taking a page makes no circle, with a new bag or without.               *)
LEMMA TakeAcyclic ==
  ASSUME TypeOK, LinksExact, Acyclic, NEW r \in Desc, NEW last, TakePage(r, last),
         last = NULL \/ last \in Owned(r)
  PROVE  Acyclic'
<1>1. /\ Head \in Page /\ NULL \notin Page
      /\ MustSbrk => Bag \subseteq Page
  BY HeadIsFree DEF TakePage, Page, NULL
<1>2. Head # last
  BY <1>1, TakeOwned DEF Owned
<1>3. /\ n'[Head] = NULL
      /\ \A q \in Page : q = last => n'[q] = Head
      /\ \A q \in Page : q # last /\ q # Head => n'[q] = Chained(q)
  BY <1>1, <1>2 DEF TakePage, Link
<1>4. ASSUME NEW T \in SUBSET Page, T # {}, \A q \in T : n'[q] \in T PROVE FALSE
  <2>1. Head \notin T /\ last \notin T
    BY <1>1, <1>3, <1>4
  <2>2. \A q \in T : Chained(q) \in T
    BY <1>3, <1>4, <2>1
  <2>3. CASE MustSbrk /\ T \intersect Bag # {}
    <3>1. T \intersect Bag \subseteq 1..NPages /\ NPages \in Nat
      BY RegionsAssumption DEF Page
    <3>2. PICK x \in T \intersect Bag : \A y \in T \intersect Bag : y <= x
      BY <2>3, <3>1, GreatestOf
    <3>3. /\ rp_total \in Nat /\ BagSize \in Nat
          /\ x \in (rp_total + 1)..(rp_total + BagSize)
          /\ Chained(x) = IF x = rp_total + BagSize THEN NULL ELSE x + 1
      BY <2>3, RegionsAssumption DEF Bag, Chained, MustSbrk, TypeOK
    <3>4. x # rp_total + BagSize /\ x + 1 \in T
      BY <1>1, <2>2, <3>3
    <3>5. x + 1 \in T \intersect Bag
      BY <3>3, <3>4 DEF Bag
    <3> QED
      BY <3>2, <3>3, <3>5
  <2>4. CASE ~MustSbrk \/ T \intersect Bag = {}
    <3>1. \A q \in T : n[q] \in T
      BY <2>2, <2>4 DEF Chained
    <3> QED
      BY <1>4, <3>1 DEF Acyclic
  <2> QED
    BY <2>3, <2>4
<1> QED
  BY <1>4 DEF Acyclic

(* What is left of the free list, or of the new bag, is one chain. *)
LEMMA TakeFree ==
  ASSUME TypeOK, LinksExact, Acyclic, OneFreeChain, NEW r \in Desc, NEW last,
         TakePage(r, last), last = NULL \/ last \in Owned(r)
  PROVE  OneFreeChain'
<1>1. /\ Head \in Page /\ NULL \notin Page
      /\ owner[Head] = IF MustSbrk THEN UNMAPPED ELSE FREE
      /\ MustSbrk => /\ Head \in Bag /\ Bag \subseteq Page
                     /\ \A q \in Bag : owner[q] = UNMAPPED
  BY HeadIsFree DEF TakePage, Page, NULL
<1>2. r # FREE /\ r # UNMAPPED
  BY DEF Desc, FREE, UNMAPPED
<1>3. CASE MustSbrk
  <2>1. Owned(FREE) = {} /\ freelist = NULL
    BY <1>3 DEF OneFreeChain, MustSbrk
  <2>2. Owned(FREE)' = Bag \ {Head}
    BY <1>1, <1>2, <1>3, <2>1 DEF TakePage, Owned
  <2>3. /\ rp_total \in Nat /\ BagSize \in Nat \ {0} /\ Head = rp_total + 1
        /\ Bag = (rp_total + 1)..(rp_total + BagSize)
        /\ \A q \in Bag : Chained(q) = IF q = rp_total + BagSize THEN NULL ELSE q + 1
    BY <1>3, <2>1, RegionsAssumption DEF Bag, Chained, Head, TypeOK
  <2>4. ASSUME NEW q \in Bag \ {Head} PROVE n'[q] = Chained(q)
    <3>1. q # last /\ q \in Page
      BY <1>1, <1>2, <1>3 DEF Owned
    <3> QED
      BY <3>1 DEF TakePage, Link
  <2>5. \A q \in Bag \ {Head} : n'[q] = NULL => q = rp_total + BagSize
    BY <2>3, <2>4 DEF NULL
  <2>6. freelist' = NULL => Bag \ {Head} = {}
    <3>1. freelist' = Chained(Head)
      BY DEF TakePage
    <3> QED
      BY <1>1, <1>3, <2>3, <3>1 DEF NULL
  <2> QED
    BY <2>2, <2>5, <2>6 DEF OneFreeChain
<1>4. CASE ~MustSbrk
  <2> DEFINE F == Owned(FREE)
  <2>1. Head = freelist /\ freelist # NULL /\ Head \in F /\ F \subseteq Page
    BY <1>1, <1>4 DEF Head, MustSbrk, Owned
  <2>2. Owned(FREE)' = F \ {Head}
    BY <1>1, <1>2, <1>4 DEF TakePage, Owned
  <2>3. ASSUME NEW q \in F \ {Head} PROVE n'[q] = n[q]
    <3>1. q # last /\ q \in Page
      BY <1>1, <1>2 DEF Owned
    <3> QED
      BY <1>4, <3>1 DEF TakePage, Link, Chained
  <2>4. \A q, s \in F : n[q] = NULL /\ n[s] = NULL => q = s
    BY DEF OneFreeChain
  <2>5. \A q \in F : n[q] # NULL => n[q] \in F /\ n[q] # Head
    BY <2>1 DEF LinksExact, NextExact, Owned, TypeOK
  <2>6. freelist' = n[Head]
    BY <1>4 DEF TakePage, Chained
  <2>7. ASSUME n[Head] = NULL, F \ {Head} # {} PROVE FALSE
    <3>1. F \ {Head} \in SUBSET Page
      BY <2>1
    <3>2. PICK q \in F \ {Head} : n[q] \notin F \ {Head}
      BY <2>7, <3>1 DEF Acyclic
    <3>3. n[q] = NULL
      BY <2>5, <3>2
    <3> QED
      BY <2>1, <2>4, <2>7, <3>2, <3>3
  <2> HIDE DEF F
  <2> QED
    BY <2>2, <2>3, <2>4, <2>6, <2>7 DEF OneFreeChain
<1> QED
  BY <1>3, <1>4

(* Every step leaves the chains without circles and the free pages in one  *)
(* chain.                                                                  *)
LEMMA ChainsStep ==
  ASSUME TypeOK, LinksExact, StackLinks, Acyclic, OneFreeChain, [Next]_vars
  PROVE  Acyclic' /\ OneFreeChain'
<1>1. ASSUME UNCHANGED <<n, freelist, owner>> PROVE Acyclic' /\ OneFreeChain'
  BY <1>1 DEF Acyclic, OneFreeChain, Owned
<1>2. ASSUME NEW r \in Desc, AllocateRegion(r) PROVE Acyclic' /\ OneFreeChain'
  BY <1>2, TakeAcyclic, TakeFree DEF AllocateRegion
<1>3. ASSUME NEW r \in Desc, NEW k \in Sizes, AllocNewPage(r, k)
      PROVE  Acyclic' /\ OneFreeChain'
  <2>1. TakePage(r, LastRp(a[r])) /\ LastRp(a[r]) \in Owned(r)
    BY <1>3 DEF AllocNewPage, LinksExact, EndsExact
  <2> QED
    BY <2>1, TakeAcyclic, TakeFree
<1>4. ASSUME topregion \in live, PopRegion PROVE Acyclic' /\ OneFreeChain'
  <2> DEFINE r == topregion
             S == Owned(r)
  <2>1. fp[r] \in S /\ NULL \notin S
    BY <1>4 DEF LinksExact, EndsExact, Owned, Page, NULL
  <2>2. /\ n' = [q \in Page |-> IF q = NULL THEN NULL
                                ELSE IF q = LastRp(a[r]) THEN freelist ELSE n[q]]
        /\ owner' = [q \in Page |-> IF q \in S THEN FREE ELSE owner[q]]
        /\ freelist' = fp[r]
    <3>1. n' = [q \in Page |-> IF q = LastRp(a[r]) THEN freelist ELSE n[q]]
      BY <1>4 DEF PopRegion, TypeOK
    <3>2. \A q \in Page : q # NULL
      BY DEF Page, NULL
    <3>3. owner' = [q \in Page |-> IF q \in S THEN FREE ELSE owner[q]]
      BY <1>4 DEF PopRegion, Owned
    <3> QED
      BY <1>4, <3>1, <3>2, <3>3 DEF PopRegion
  <2>3. S \in SUBSET Owned(r) /\ r \in live
    BY <1>4
  <2> HIDE DEF S, r
  <2> QED
    BY <2>1, <2>2, <2>3, SpliceAcyclic, SpliceFree
<1>5. CASE DeallocateRegion \/ UnwindOne
  BY <1>4, <1>5, TopIsLive DEF DeallocateRegion, UnwindOne, MustPop
<1>6. ASSUME NEW r \in Desc, ResetRegion(r) PROVE Acyclic' /\ OneFreeChain'
  <2> DEFINE first == fp[r]
             rest == n[first]
             S == Owned(r) \ {first}
  <2>1. r \in live /\ first \in Owned(r) /\ first \in Page
    BY <1>6 DEF ResetRegion, LinksExact, EndsExact, Owned
  <2>2. CASE rest = NULL
    BY <1>1, <1>6, <2>2 DEF ResetRegion
  <2>3. CASE rest # NULL
    <3>1. /\ n' = [q \in Page |-> IF q = first THEN NULL
                                  ELSE IF q = LastRp(a[r]) THEN freelist ELSE n[q]]
          /\ owner' = [q \in Page |-> IF q \in S THEN FREE ELSE owner[q]]
          /\ freelist' = rest
      BY <1>6, <2>1, <2>3 DEF ResetRegion, FreeLobjs, TypeOK, Owned
    <3>2. rest \in S
      BY <2>1, <2>3 DEF LinksExact, NextExact, Owned, TypeOK
    <3>3. S \in SUBSET Owned(r) /\ first \notin S
      OBVIOUS
    <3> HIDE DEF S, rest, first
    <3> QED
      BY <2>1, <3>1, <3>2, <3>3, SpliceAcyclic, SpliceFree
  <2> QED
    BY <2>2, <2>3
<1>7. ASSUME NEW r \in Desc, NEW k \in Sizes,
             AllocInPage(r, k) \/ \E o \in Lobj : AllocLarge(r, k, o)
      PROVE  Acyclic' /\ OneFreeChain'
  BY <1>1, <1>7 DEF AllocInPage, AllocLarge, pageVars
<1>8. CASE \/ \E sp \in Desc : DeallocateRegionsUntil(sp)
           \/ UnwindDone \/ OutOfMemory \/ Die \/ UNCHANGED vars
  BY <1>1, <1>8 DEF DeallocateRegionsUntil, UnwindDone, OutOfMemory, Die, vars,
     pageVars
<1> QED
  BY <1>2, <1>3, <1>5, <1>6, <1>7, <1>8 DEF Next

------------------------------------------------------------------------------
(* The stack, the large objects and the values.                            *)

(* Popping the youngest region leaves the next one on top, and every       *)
(* region that is left is older than it.                                   *)
LEMMA PopStack ==
  ASSUME TypeOK, StackLinks, topregion \in live, PopRegion
  PROVE  /\ StackLinks'
         /\ live' = live \ {topregion} /\ \A s \in live' : topregion < s
<1>1. \A s \in live : topregion <= s /\ s \in Nat \ {0}
  BY DEF StackLinks, TypeOK, Desc, NULL
<1>2. /\ live' = live \ {topregion} /\ topregion' = p[topregion] /\ p' = p
      /\ \A s \in live' : topregion < s
  BY <1>1 DEF PopRegion
<1>3. IF topregion' = NULL THEN live' = {}
      ELSE topregion' \in live' /\ \A s \in live' : topregion' <= s
  BY <1>1, <1>2 DEF StackLinks
<1>4. ASSUME NEW r \in live'
      PROVE  IF p[r] = NULL THEN \A s \in live' : s <= r
             ELSE /\ p[r] \in live' /\ r < p[r]
                  /\ \A s \in live' : s <= r \/ p[r] <= s
  BY <1>1, <1>2 DEF StackLinks
<1> QED
  BY <1>2, <1>3, <1>4 DEF StackLinks

(* Every step keeps the stack right. *)
LEMMA StackStep ==
  ASSUME TypeOK, StackLinks, [Next]_vars
  PROVE  StackLinks'
<1>1. ASSUME UNCHANGED <<topregion, p, live>> PROVE StackLinks'
  BY <1>1 DEF StackLinks
<1>2. ASSUME NEW r \in Desc, AllocateRegion(r) PROVE StackLinks'
  <2>1. /\ \A s \in live : r < s /\ s \in Desc
        /\ live' = live \union {r} /\ topregion' = r
        /\ p'[r] = topregion /\ \A s \in live : p'[s] = p[s]
    BY <1>2 DEF AllocateRegion, Push, TypeOK, Desc
  <2>2. r \in Nat \ {0} /\ \A s \in live : s \in Nat \ {0}
    BY <2>1 DEF Desc
  <2>3. ASSUME NEW q \in live'
        PROVE  IF p'[q] = NULL THEN \A s \in live' : s <= q
               ELSE /\ p'[q] \in live' /\ q < p'[q]
                    /\ \A s \in live' : s <= q \/ p'[q] <= s
    <3>1. CASE q = r
      <4>1. CASE topregion = NULL
        BY <2>1, <2>2, <3>1, <4>1 DEF StackLinks
      <4>2. CASE topregion # NULL
        <5>1. topregion \in live /\ \A s \in live : topregion <= s
          BY <4>2 DEF StackLinks
        <5> QED
          BY <2>1, <2>2, <3>1, <4>2, <5>1
      <4> QED
        BY <4>1, <4>2
    <3>2. CASE q \in live
      BY <2>1, <2>2, <3>2 DEF StackLinks
    <3> QED
      BY <2>1, <3>1, <3>2
  <2> QED
    BY <2>1, <2>2, <2>3 DEF StackLinks, NULL
<1>3. CASE DeallocateRegion \/ UnwindOne
  BY <1>3, TopIsLive, PopStack DEF DeallocateRegion, UnwindOne, MustPop
<1>4. ASSUME NEW r \in Desc, ResetRegion(r) PROVE StackLinks'
  BY <1>1, <1>4 DEF ResetRegion
<1>5. ASSUME NEW r \in Desc, NEW k \in Sizes,
             \/ AllocInPage(r, k) \/ AllocNewPage(r, k)
             \/ \E o \in Lobj : AllocLarge(r, k, o)
      PROVE  StackLinks'
  BY <1>1, <1>5 DEF AllocInPage, AllocNewPage, AllocLarge
<1>6. CASE \/ \E sp \in Desc : DeallocateRegionsUntil(sp)
           \/ UnwindDone \/ OutOfMemory \/ Die \/ UNCHANGED vars
  BY <1>1, <1>6 DEF DeallocateRegionsUntil, UnwindDone, OutOfMemory, Die, vars,
     regionVars
<1> QED
  BY <1>2, <1>3, <1>4, <1>5, <1>6 DEF Next

(* Every step keeps the large objects right. *)
LEMMA LargeStep ==
  ASSUME TypeOK, StackLinks, LargeObjectsExact, [Next]_vars
  PROVE  LargeObjectsExact'
<1>1. ASSUME UNCHANGED <<heap, lobjs, live>> PROVE LargeObjectsExact'
  BY <1>1 DEF LargeObjectsExact
<1>2. ASSUME NEW r \in Desc, AllocateRegion(r) PROVE LargeObjectsExact'
  <2>1. /\ r \notin live /\ live' = live \union {r} /\ heap' = heap
        /\ lobjs'[r] = {} /\ \A s \in live : lobjs'[s] = lobjs[s]
    BY <1>2 DEF AllocateRegion, Push, TypeOK, Desc
  <2> QED
    BY <2>1 DEF LargeObjectsExact
<1>3. ASSUME topregion \in live, PopRegion PROVE LargeObjectsExact'
  <2>1. /\ live' = live \ {topregion} /\ lobjs' = lobjs
        /\ heap' = heap \ lobjs[topregion]
    BY <1>3 DEF PopRegion
  <2> QED
    BY <1>3, <2>1 DEF LargeObjectsExact
<1>4. CASE DeallocateRegion \/ UnwindOne
  BY <1>3, <1>4, TopIsLive DEF DeallocateRegion, UnwindOne, MustPop
<1>5. ASSUME NEW r \in Desc, ResetRegion(r) PROVE LargeObjectsExact'
  <2>1. /\ r \in live /\ live' = live /\ heap' = heap \ lobjs[r]
        /\ lobjs'[r] = {} /\ \A s \in live : s # r => lobjs'[s] = lobjs[s]
    BY <1>5 DEF ResetRegion, FreeLobjs, TypeOK
  <2> QED
    BY <2>1 DEF LargeObjectsExact
<1>6. ASSUME NEW r \in Desc, NEW k \in Sizes, NEW o \in Lobj, AllocLarge(r, k, o)
      PROVE  LargeObjectsExact'
  <2>1. /\ r \in live /\ live' = live /\ o \notin heap /\ heap' = heap \union {o}
        /\ lobjs'[r] = lobjs[r] \union {o}
        /\ \A s \in live : s # r => lobjs'[s] = lobjs[s]
    BY <1>6 DEF AllocLarge, TypeOK
  <2> QED
    BY <2>1 DEF LargeObjectsExact
<1>7. ASSUME NEW r \in Desc, NEW k \in Sizes, AllocInPage(r, k) \/ AllocNewPage(r, k)
      PROVE  LargeObjectsExact'
  BY <1>1, <1>7 DEF AllocInPage, AllocNewPage
<1>8. CASE \/ \E sp \in Desc : DeallocateRegionsUntil(sp)
           \/ UnwindDone \/ OutOfMemory \/ Die \/ UNCHANGED vars
  BY <1>1, <1>8 DEF DeallocateRegionsUntil, UnwindDone, OutOfMemory, Die, vars,
     regionVars
<1> QED
  BY <1>2, <1>4, <1>5, <1>6, <1>7, <1>8 DEF Next


(* Every step keeps values in their pages, below the allocation pointer.   *)
LEMMA ValuesStep ==
  ASSUME TypeOK, LinksExact, StackLinks, ValuesInPages, [Next]_vars
  PROVE  ValuesInPages'
<1> DEFINE Values(s) == \A w \in used[s] :
             /\ \E q \in Owned(s) : w \in Words(q)
             /\ w \in Words(LastRp(a[s])) => w < a[s]
<1>1. \A s \in live : Values(s)
  BY DEF ValuesInPages
<1>2. ASSUME NEW s \in live, used'[s] = used[s], a'[s] = a[s],
             \A q \in Page : owner[q] = s => owner'[q] = s
      PROVE  Values(s)'
  BY <1>1, <1>2 DEF Owned, LastRp, Words, DataStart
<1>3. ASSUME NEW s \in Desc, used'[s] = {} PROVE Values(s)'
  BY <1>3
<1>4. ASSUME NEW r \in Desc, AllocateRegion(r) PROVE ValuesInPages'
  <2>1. /\ r \notin live /\ live' = live \union {r} /\ used'[r] = {}
        /\ \A s \in live : used'[s] = used[s] /\ a'[s] = a[s] /\ s \in Desc
        /\ TakePage(r, NULL)
    BY <1>4 DEF AllocateRegion, Push, TypeOK, Desc
  <2>2. \A q \in Page, s \in Desc : owner[q] = s => owner'[q] = s
    BY <2>1, TakeOwned
  <2> QED
    BY <1>2, <1>3, <2>1, <2>2 DEF ValuesInPages
<1>5. ASSUME topregion \in live, PopRegion PROVE ValuesInPages'
  <2>1. /\ live' = live \ {topregion} /\ a' = a
        /\ \A s \in live' : used'[s] = used[s]
        /\ \A q \in Page, s \in live' : owner[q] = s => owner'[q] = s
    BY <1>5 DEF PopRegion, TypeOK
  <2> QED
    BY <1>2, <2>1 DEF ValuesInPages
<1>6. CASE DeallocateRegion \/ UnwindOne
  BY <1>5, <1>6, TopIsLive DEF DeallocateRegion, UnwindOne, MustPop
<1>7. ASSUME NEW r \in Desc, ResetRegion(r) PROVE ValuesInPages'
  <2>1. /\ r \in live /\ live' = live /\ used'[r] = {}
        /\ \A s \in live : s # r => used'[s] = used[s] /\ a'[s] = a[s]
        /\ \A q \in Page, s \in live : s # r /\ owner[q] = s => owner'[q] = s
    BY <1>7 DEF ResetRegion, FreeLobjs, TypeOK
  <2> QED
    BY <1>2, <1>3, <1>7, <2>1 DEF ValuesInPages
<1>8. ASSUME NEW r \in Desc, NEW k \in Sizes, AllocNewPage(r, k)
      PROVE  ValuesInPages'
  <2> DEFINE block == DataStart(Head)..(DataStart(Head) + k - 1)
             L == LastRp(a[r])
  <2>1. /\ r \in live /\ live' = live /\ TakePage(r, L)
        /\ a'[r] = DataStart(Head) + k /\ used'[r] = used[r] \union block
        /\ \A s \in live : s # r => used'[s] = used[s] /\ a'[s] = a[s]
    BY <1>8 DEF AllocNewPage, Store, TypeOK
  <2>2. /\ Head \in Page /\ owner'[Head] = r
        /\ \A q \in Page, s \in Desc : owner[q] = s => owner'[q] = s /\ q # Head
    BY <2>1, TakeOwned
  <2>3. k \in Nat \ {0} /\ k <= Allocatable
    BY <1>8, RegionsAssumption DEF AllocNewPage
  <2>4. LastRp(DataStart(Head) + k) = Head /\ block \subseteq Words(Head)
    BY <2>2, <2>3, AfterFirstValue
  <2>5. ASSUME NEW w \in used[r]
        PROVE  /\ \E q \in Owned(r)' : w \in Words(q)
               /\ w \notin Words(Head)
    <3>1. PICK q \in Owned(r) : w \in Words(q)
      BY <1>1, <2>1
    <3>2. q \in Page /\ q # Head /\ owner'[q] = r
      BY <2>2, <3>1 DEF Owned
    <3> QED
      BY <2>2, <3>1, <3>2, PagesDisjoint DEF Owned
  <2>6. ASSUME NEW w \in block
        PROVE  /\ \E q \in Owned(r)' : w \in Words(q)
               /\ w < DataStart(Head) + k
    <3>1. Head \in Owned(r)' /\ w \in Words(Head)
      BY <2>2, <2>4 DEF Owned
    <3>2. DataStart(Head) \in Int
      BY <2>2, PageGeometry DEF Word
    <3> QED
      BY <2>3, <3>1, <3>2
  <2>7. ASSUME NEW w \in used'[r]
        PROVE  /\ \E q \in Owned(r)' : w \in Words(q)
               /\ w \in Words(Head) => w < DataStart(Head) + k
    BY <2>1, <2>5, <2>6
  <2>8. Values(r)'
    BY <2>1, <2>4, <2>7 DEF LastRp, Words, DataStart
  <2>9. ASSUME NEW s \in live, s # r PROVE Values(s)'
    BY <1>2, <2>1, <2>2, <2>9 DEF TypeOK
  <2> QED
    BY <2>1, <2>8, <2>9 DEF ValuesInPages
<1>9. ASSUME NEW r \in Desc, NEW k \in Sizes, AllocInPage(r, k)
      PROVE  ValuesInPages'
  <2> DEFINE block == a[r]..(a[r] + k - 1)
             L == LastRp(a[r])
  <2>1. /\ r \in live /\ live' = live /\ owner' = owner
        /\ a'[r] = a[r] + k /\ used'[r] = used[r] \union block
        /\ \A s \in live : s # r => used'[s] = used[s] /\ a'[s] = a[s]
        /\ a[r] + k <= RpBoundary(a[r]) /\ k \in Nat \ {0}
    BY <1>9, RegionsAssumption DEF AllocInPage, Store, TypeOK, pageVars
  <2>2. L \in Owned(r) /\ DataStart(L) <= a[r] /\ L \in Page
    BY <2>1 DEF LinksExact, EndsExact, Owned
  <2> DEFINE end == (L + 1) * PageWords
  <2>3. /\ RpBoundary(a[r]) = end /\ end \in Int /\ DataStart(L) \in Int
        /\ a[r] \in Int /\ L * PageWords < DataStart(L) /\ L * PageWords \in Int
    BY <2>2, PageGeometry, RegionsAssumption, SMTT(30) DEF RpBoundary, Word, Page, TypeOK
  <2>4. LastRp(a[r] + k) = L
    <3>1. L * PageWords < a[r] + k /\ a[r] + k <= end /\ a[r] + k \in Int
      <4> HIDE DEF L, end
      <4>1. L * PageWords < a[r]
        <5> DEFINE first == L * PageWords
        <5>1. first < DataStart(L) /\ first \in Int
          BY <2>3
        <5> HIDE DEF first
        <5>2. first < a[r]
          BY <2>2, <2>3, <5>1
        <5> QED
          BY <5>2 DEF first
      <4> DEFINE first == L * PageWords
      <4>2. first < a[r] /\ first \in Int
        BY <2>3, <4>1
      <4> HIDE DEF first
      <4>3. first < a[r] + k /\ a[r] + k <= end /\ a[r] + k \in Int
        BY <2>1, <2>3, <4>2
      <4> QED
        BY <4>3 DEF first
    <3> HIDE DEF L
    <3> QED
      BY <2>2, <3>1, PageOfAddress DEF end, Page
  <2>5. ASSUME NEW w \in block PROVE w \in Words(L) /\ w < a[r] + k
    <3>1. Words(L) = DataStart(L)..(end - 1)
      BY DEF Words
    <3> HIDE DEF L, end
    <3> QED
      BY <2>1, <2>2, <2>3, <3>1
  <2>6. ASSUME NEW w \in used[r], w \in Words(L) PROVE w < a[r] + k
    <3>1. w < a[r] /\ w \in Int
      BY <1>1, <2>1, <2>6 DEF TypeOK, Word
    <3> QED
      BY <2>1, <2>3, <3>1
  <2>7. ASSUME NEW w \in used'[r]
        PROVE  /\ \E q \in Owned(r) : w \in Words(q)
               /\ w \in Words(L) => w < a[r] + k
    BY <1>1, <2>1, <2>2, <2>5, <2>6
  <2>8. Values(r)'
    BY <2>1, <2>4, <2>7 DEF LastRp, Words, DataStart, Owned
  <2>9. ASSUME NEW s \in live, s # r PROVE Values(s)'
    BY <1>2, <2>1, <2>9
  <2> QED
    BY <2>1, <2>8, <2>9 DEF ValuesInPages
<1>10. ASSUME UNCHANGED <<a, used, live, owner>> PROVE ValuesInPages'
  BY <1>10 DEF ValuesInPages, Owned, LastRp, Words, DataStart
<1>11. ASSUME NEW r \in Desc, NEW k \in Sizes, NEW o \in Lobj, AllocLarge(r, k, o)
       PROVE  ValuesInPages'
  BY <1>10, <1>11 DEF AllocLarge, pageVars
<1>12. CASE \/ \E sp \in Desc : DeallocateRegionsUntil(sp)
            \/ UnwindDone \/ OutOfMemory \/ Die \/ UNCHANGED vars
  BY <1>10, <1>12 DEF DeallocateRegionsUntil, UnwindDone, OutOfMemory, Die, vars,
     regionVars, pageVars
<1> QED
  BY <1>4, <1>6, <1>7, <1>8, <1>9, <1>11, <1>12 DEF Next


------------------------------------------------------------------------------
(* From the invariant to what the pointers say. *)

(* The chain of a region on the stack is what the region holds, and ends.  *)
LEMMA RegionChain ==
  ASSUME TypeOK, LinksExact, Acyclic, NEW r \in live
  PROVE  Walk(n, fp[r]) = Owned(r) \union {NULL}
<1>1. /\ NULL \notin Page /\ n \in [Page -> Page \union {NULL}]
      /\ Owned(r) \in SUBSET Page /\ fp[r] \in Owned(r)
  BY DEF TypeOK, LinksExact, EndsExact, Owned, Page, NULL
<1>2. \A T \in SUBSET Owned(r) : T # {} => \E q \in T : n[q] \notin T
  BY <1>1 DEF Acyclic
<1>3. \A q \in Owned(r) : n[q] # NULL => n[q] \in Owned(r) /\ n[q] # fp[r]
  BY DEF LinksExact, NextExact, Owned, TypeOK
<1>4. \A q, s \in Owned(r) : n[q] = n[s] => q = s
  BY DEF LinksExact, NextExact, EndsExact, Owned
<1>5. IsChain(n, Owned(r), fp[r])
  BY <1>1, <1>2, <1>3, <1>4 DEF IsChain
<1> QED
  BY <1>1, <1>5, ChainWalk

(* From NULL nothing is reached. *)
LEMMA WalkNull ==
  ASSUME NEW D, NULL \notin D, NEW f \in [D -> D \union {NULL}]
  PROVE  Walk(f, NULL) = {NULL}
<1>1. NULL \in D \union {NULL} /\ {NULL} \in SUBSET (D \union {NULL})
  OBVIOUS
<1>2. Walk(f, NULL) \subseteq {NULL} /\ NULL \in Walk(f, NULL)
  BY <1>1, WalkSteps
<1> QED
  BY <1>2

(* The free list is all the free pages, and ends. *)
LEMMA FreeChain ==
  ASSUME TypeOK, LinksExact, Acyclic, OneFreeChain
  PROVE  Walk(n, freelist) = Owned(FREE) \union {NULL}
<1>1. /\ NULL \notin Page /\ n \in [Page -> Page \union {NULL}]
      /\ Owned(FREE) \in SUBSET Page
  BY DEF TypeOK, Owned, Page, NULL
<1>2. CASE freelist = NULL
  BY <1>1, <1>2, WalkNull DEF OneFreeChain
<1>3. CASE freelist # NULL
  <2>1. freelist \in Owned(FREE)
    BY <1>3 DEF TypeOK, LinksExact, EndsExact, Owned
  <2>2. \A T \in SUBSET Owned(FREE) : T # {} => \E q \in T : n[q] \notin T
    BY <1>1 DEF Acyclic
  <2>3. \A q \in Owned(FREE) : n[q] # NULL => n[q] \in Owned(FREE) /\ n[q] # freelist
    BY DEF LinksExact, NextExact, Owned, TypeOK
  <2>4. \A q, s \in Owned(FREE) : n[q] = n[s] => q = s
    BY DEF LinksExact, NextExact, OneFreeChain, Owned
  <2>5. IsChain(n, Owned(FREE), freelist)
    BY <2>1, <2>2, <2>3, <2>4 DEF IsChain
  <2> QED
    BY <1>1, <2>5, ChainWalk
<1> QED
  BY <1>2, <1>3

(* The stack is the regions the program has entered, and ends. *)
LEMMA StackChain ==
  ASSUME TypeOK, StackLinks
  PROVE  Walk(p, topregion) = live \union {NULL}
<1>1. /\ NULL \notin Desc /\ p \in [Desc -> Desc \union {NULL}]
      /\ live \in SUBSET Desc /\ Desc = 1..StackTop /\ StackTop \in Nat
      /\ live \subseteq Nat \ {0}
  BY RegionsAssumption DEF TypeOK, Desc, NULL
<1>2. CASE topregion = NULL
  BY <1>1, <1>2, WalkNull DEF StackLinks
<1>3. CASE topregion # NULL
  <2>1. topregion \in live /\ \A s \in live : topregion <= s
    BY <1>3 DEF StackLinks
  <2>2. \A r \in live : p[r] # NULL => p[r] \in live /\ r < p[r] /\ p[r] # topregion
    BY <1>1, <2>1 DEF StackLinks
  <2>3. ASSUME NEW T \in SUBSET live, T # {} PROVE \E r \in T : p[r] \notin T
    <3>1. PICK r \in T : \A s \in T : s <= r
      BY <1>1, <2>3, GreatestOf
    <3>2. p[r] \notin T
      BY <1>1, <2>2, <3>1 DEF NULL
    <3> QED
      BY <3>2
  <2>4. ASSUME NEW r \in live, NEW s \in live, p[r] = p[s] PROVE r = s
    <3>1. r \in Nat /\ s \in Nat
      BY <1>1
    <3>2. CASE p[r] = NULL
      <4>1. s <= r /\ r <= s
        BY <2>4, <3>2 DEF StackLinks
      <4> QED
        BY <3>1, <4>1
    <3>3. CASE p[r] # NULL
      <4>1. p[r] \in Nat /\ r < p[r] /\ s < p[r]
        BY <1>1, <2>2, <2>4, <3>3
      <4>2. (s <= r \/ p[r] <= s) /\ (r <= s \/ p[r] <= r)
        BY <2>4, <3>3 DEF StackLinks
      <4> QED
        BY <3>1, <4>1, <4>2
    <3> QED
      BY <3>2, <3>3
  <2>5. IsChain(p, live, topregion)
    BY <2>1, <2>2, <2>3, <2>4 DEF IsChain
  <2>6. /\ NULL \notin Desc /\ p \in [Desc -> Desc \union {NULL}]
        /\ live \in SUBSET Desc
    BY <1>1
  <2> QED
    BY <2>5, <2>6, ChainWalk
<1> QED
  BY <1>2, <1>3

(* The pointers are exact in every state the invariant allows. *)
LEMMA PointersFromInv ==
  ASSUME IndInv
  PROVE  PointersExact
<1> USE DEF IndInv
<1>1. NULL \notin Page /\ NULL \notin live
  BY DEF TypeOK, Page, Desc, NULL
<1>2. ASSUME NEW r \in live
      PROVE  /\ NULL \in Walk(n, fp[r]) /\ Reach(fp[r]) = Owned(r)
             /\ LastRp(a[r]) \in Reach(fp[r]) /\ n[LastRp(a[r])] = NULL
  BY <1>1, RegionChain DEF Reach, LinksExact, EndsExact, Owned
<1>3. NULL \in Walk(n, freelist) /\ Reach(freelist) = Owned(FREE)
  BY <1>1, FreeChain DEF Reach, Owned
<1>4. Owned(UNMAPPED) = (rp_total + 1)..NPages
  <2>1. rp_total \in 0..NPages /\ \A q \in Page : owner[q] = UNMAPPED <=> q > rp_total
    BY DEF TypeOK, LinksExact, OwnersExact
  <2> QED
    BY <2>1, RegionsAssumption DEF Owned, Page
<1>5. \A q \in Page : owner[q] \in live \union {FREE, UNMAPPED}
  BY DEF LinksExact, OwnersExact
<1>6. OnStack = live
  BY <1>1, StackChain DEF OnStack
<1>7. /\ \A r \in live : p[r] # NULL => r < p[r]
      /\ topregion # NULL => \A s \in live : topregion <= s
  BY DEF StackLinks
<1> QED
  BY <1>2, <1>3, <1>4, <1>5, <1>6, <1>7 DEF PointersExact, ChainsExact, StackExact

------------------------------------------------------------------------------
(* The pool. *)

(* The pool, read off the owners of the pages instead of the pointers. *)
Holding == [r \in Desc |-> IF r \in live THEN Owned(r) ELSE {}]
Owners == INSTANCE RegionPool WITH
            stack <- live, holds <- Holding, pool <- Owned(FREE)

(* What the pages of one region become decides what all regions hold. *)
LEMMA HoldingOf ==
  ASSUME NEW r \in Desc, NEW v,
         \A s \in Desc : (IF s \in live THEN Owned(s) ELSE {})'
                           = IF s = r THEN v ELSE Holding[s]
  PROVE  Holding' = [Holding EXCEPT ![r] = v]
BY DEF Holding

(* Taking a page takes one from the pool, or a bag when the pool is empty. *)
LEMMA TakeInPool ==
  ASSUME IndInv, NEW r \in Desc, NEW last, TakePage(r, last),
         live' = live \union {r}, last = NULL \/ last \in Owned(r)
  PROVE  Owners!Take(r)
<1> DEFINE F == Owned(FREE)
<1>1. /\ Head \in Page
      /\ owner[Head] = IF MustSbrk THEN UNMAPPED ELSE FREE
      /\ MustSbrk => /\ Head \in Bag /\ Bag \subseteq Page
                     /\ \A q \in Bag : owner[q] = UNMAPPED
  BY HeadIsFree DEF TakePage, IndInv
<1>2. r # FREE /\ r # UNMAPPED /\ \A s \in Desc : s # FREE /\ s # UNMAPPED
  BY DEF Desc, FREE, UNMAPPED
<1>3. Owned(r)' = Owned(r) \union {Head}
  BY <1>1, <1>2 DEF TakePage, Owned
<1>4. \A s \in Desc : s # r => Owned(s)' = Owned(s)
  BY <1>1, <1>2 DEF TakePage, Owned
<1>5. r \notin live => Owned(r) = {}
  BY <1>2 DEF IndInv, LinksExact, OwnersExact, Owned
<1>6. Holding[r] = Owned(r)
  BY <1>5 DEF Holding
<1>7. Holding' = [Holding EXCEPT ![r] = Holding[r] \union {Head}]
  <2>1. ASSUME NEW s \in Desc
        PROVE  (IF s \in live THEN Owned(s) ELSE {})'
                 = IF s = r THEN Holding[r] \union {Head} ELSE Holding[s]
    <3>1. CASE s = r
      BY <1>3, <1>6, <3>1
    <3>2. CASE s # r
      BY <1>4, <3>2 DEF Holding
    <3> QED
      BY <3>1, <3>2
  <2> QED
    BY <2>1, HoldingOf
<1>8. ASSUME NEW q \in Owners!Held PROVE owner[q] \in Desc
  BY DEF Owners!Held, Holding, Owned
<1>9. CASE ~MustSbrk
  <2>1. Head \in F /\ Owned(FREE)' = F \ {Head}
    BY <1>1, <1>2, <1>9 DEF TakePage, Owned
  <2> QED
    BY <1>1, <1>7, <2>1 DEF Owners!Take
<1>10. CASE MustSbrk
  <2>1. F = {}
    BY <1>10 DEF IndInv, OneFreeChain, MustSbrk
  <2>2. Owned(FREE)' = Bag \ {Head}
    BY <1>1, <1>2, <1>10, <2>1 DEF TakePage, Owned
  <2>3. Head \notin Owners!Held /\ Bag \ {Head} \subseteq Page \ (Owners!Held \union {Head})
    BY <1>1, <1>2, <1>8, <1>10
  <2>4. Cardinality(Bag \ {Head}) = BagSize - 1
    <3>1. rp_total \in Nat /\ BagSize \in Nat \ {0} /\ Head = rp_total + 1
      BY <1>10, RegionsAssumption DEF Head, IndInv, TypeOK
    <3>2. Bag \ {Head} = (rp_total + 2)..(rp_total + BagSize)
      BY <3>1 DEF Bag
    <3> DEFINE lo == rp_total + 2
               hi == rp_total + BagSize
    <3>3. lo \in Int /\ hi \in Int /\ hi - lo + 1 = BagSize - 1 /\ (lo > hi <=> BagSize = 1)
      BY <3>1
    <3> HIDE DEF lo, hi
    <3>4. Cardinality(lo..hi) = IF lo > hi THEN 0 ELSE hi - lo + 1
      BY <3>3, FS_Interval
    <3>5. Cardinality(lo..hi) = BagSize - 1
      BY <3>1, <3>3, <3>4
    <3> QED
      BY <3>2, <3>5 DEF lo, hi
  <2>5. /\ Owned(FREE)' \subseteq Page \ (Owners!Held \union {Head})
        /\ Owners!Cardinality(Owned(FREE)') = BagSize - 1
    <3>1. Owners!Cardinality(Bag \ {Head}) = Cardinality(Bag \ {Head})
      BY DEF Owners!Cardinality, Cardinality
    <3> QED
      BY <2>2, <2>3, <2>4, <3>1
  <2> HIDE DEF F
  <2>6. Owned(FREE) = {}
    BY <2>1 DEF F
  <2> QED
    BY <1>1, <1>7, <2>3, <2>5, <2>6 DEF Owners!Take
<1> QED
  BY <1>9, <1>10

(* Popping the youngest region returns its pages to the pool. *)
LEMMA PopInPool ==
  ASSUME IndInv, topregion \in live, PopRegion
  PROVE  Owners!Leave
<1> DEFINE r == topregion
<1>1. r \in Desc /\ r # FREE /\ \A s \in Desc : s # FREE
  BY DEF IndInv, TypeOK, Desc, FREE
<1>2. \A s \in live : r <= s
  BY DEF IndInv, StackLinks
<1>3. live' = live \ {r} /\ Holding[r] = Owned(r)
  BY <1>1 DEF PopRegion, Holding
<1>4. Owned(FREE)' = Owned(FREE) \union Owned(r)
  BY <1>1 DEF PopRegion, Owned
<1>5. \A s \in Desc : s # r => Owned(s)' = Owned(s)
  BY <1>1 DEF PopRegion, Owned
<1>6. Holding' = [Holding EXCEPT ![r] = {}]
  <2>1. ASSUME NEW s \in Desc
        PROVE  (IF s \in live THEN Owned(s) ELSE {})' = IF s = r THEN {} ELSE Holding[s]
    <3>1. CASE s = r
      BY <1>3, <3>1
    <3>2. CASE s # r
      BY <1>3, <1>5, <3>2 DEF Holding
    <3> QED
      BY <3>1, <3>2
  <2> HIDE DEF r
  <2> QED
    BY <1>1, <2>1, HoldingOf
<1> HIDE DEF r
<1>7. r \in live
  BY DEF r
<1> QED
  BY <1>1, <1>2, <1>3, <1>4, <1>6, <1>7 DEF Owners!Leave, Owners!Youngest

(* Resetting a region returns all its pages but one to the pool. *)
LEMMA ResetInPool ==
  ASSUME IndInv, NEW r \in Desc, ResetRegion(r)
  PROVE  Owners!Empty(r)
<1> DEFINE first == fp[r]
<1>1. r \in live /\ live' = live /\ r # FREE /\ \A s \in Desc : s # FREE
  BY DEF ResetRegion, Desc, FREE
<1>2. first \in Owned(r) /\ Holding[r] = Owned(r)
  BY <1>1 DEF IndInv, LinksExact, EndsExact, Holding
<1>3. /\ Owned(r)' = {first}
      /\ Owned(FREE)' = Owned(FREE) \union (Owned(r) \ {first})
      /\ \A s \in Desc : s # r => Owned(s)' = Owned(s)
  <2>1. CASE n[first] = NULL
    <3>1. owner' = owner
      BY <2>1 DEF ResetRegion
    <3>2. Walk(n, first) = Owned(r) \union {NULL}
      BY <1>1, RegionChain DEF IndInv
    <3>3. Owned(r) \subseteq {first}
      <4>1. /\ NULL \notin Page /\ n \in [Page -> Page \union {NULL}]
            /\ first \in Page \union {NULL} /\ Owned(r) \subseteq Page
        BY <1>2 DEF IndInv, TypeOK, Owned, Page, NULL
      <4>2. \A T \in SUBSET (Page \union {NULL}) :
              first \in T /\ (\A y \in T \ {NULL} : n[y] \in T) => Walk(n, first) \subseteq T
        BY <4>1, WalkSteps
      <4> HIDE DEF first
      <4>3. /\ {first, NULL} \in SUBSET (Page \union {NULL})
            /\ \A y \in {first, NULL} \ {NULL} : n[y] \in {first, NULL}
        BY <2>1, <4>1
      <4>4. Walk(n, first) \subseteq {first, NULL}
        BY <4>2, <4>3
      <4> QED
        BY <3>2, <4>1, <4>4
    <3> QED
      BY <1>2, <3>1, <3>3 DEF Owned
  <2>2. CASE n[first] # NULL
    <3>1. owner' = [q \in Page |-> IF owner[q] = r /\ q # first THEN FREE ELSE owner[q]]
      BY <2>2 DEF ResetRegion
    <3> QED
      BY <1>1, <1>2, <3>1 DEF Owned
  <2> QED
    BY <2>1, <2>2
<1>4. Holding' = [Holding EXCEPT ![r] = {first}]
  <2>1. ASSUME NEW s \in Desc
        PROVE  (IF s \in live THEN Owned(s) ELSE {})'
                 = IF s = r THEN {first} ELSE Holding[s]
    <3>1. CASE s = r
      BY <1>1, <1>3, <3>1
    <3>2. CASE s # r
      BY <1>1, <1>3, <3>2 DEF Holding
    <3> QED
      BY <3>1, <3>2
  <2> HIDE DEF first
  <2> QED
    BY <2>1, HoldingOf
<1> HIDE DEF first
<1> QED
  BY <1>1, <1>2, <1>3, <1>4 DEF Owners!Empty

(* Every step of the allocator is a step of the pool, or none. *)
LEMMA PoolStep ==
  ASSUME IndInv, [Next]_vars
  PROVE  [Owners!Next]_(Owners!poolVars)
<1>1. ASSUME UNCHANGED <<live, owner>> PROVE UNCHANGED Owners!poolVars
  BY <1>1 DEF Owners!poolVars, Holding, Owned
<1>2. ASSUME NEW r \in Desc, AllocateRegion(r) PROVE Owners!Enter(r)
  <2>1. Owners!Take(r)
    BY <1>2, TakeInPool DEF AllocateRegion
  <2> QED
    BY <1>2, <2>1 DEF AllocateRegion, Owners!Enter
<1>3. ASSUME NEW r \in Desc, NEW k \in Sizes, AllocNewPage(r, k) PROVE Owners!Grow(r)
  <2>1. /\ r \in live /\ live' = live /\ TakePage(r, LastRp(a[r]))
        /\ LastRp(a[r]) \in Owned(r)
    BY <1>3 DEF AllocNewPage, IndInv, LinksExact, EndsExact
  <2>2. live' = live \union {r}
    BY <2>1
  <2>3. Owners!Take(r)
    BY <2>1, <2>2, TakeInPool
  <2> QED
    BY <2>1, <2>3 DEF Owners!Grow
<1>4. ASSUME DeallocateRegion \/ UnwindOne PROVE Owners!Leave
  BY <1>4, TopIsLive, PopInPool DEF DeallocateRegion, UnwindOne, MustPop, IndInv
<1>5. ASSUME NEW r \in Desc, ResetRegion(r) PROVE Owners!Empty(r)
  BY <1>5, ResetInPool
<1>6. ASSUME NEW r \in Desc, NEW k \in Sizes,
             AllocInPage(r, k) \/ \E o \in Lobj : AllocLarge(r, k, o)
      PROVE  UNCHANGED Owners!poolVars
  BY <1>1, <1>6 DEF AllocInPage, AllocLarge, pageVars
<1>7. CASE \/ \E sp \in Desc : DeallocateRegionsUntil(sp)
           \/ UnwindDone \/ OutOfMemory \/ Die \/ UNCHANGED vars
  BY <1>1, <1>7 DEF DeallocateRegionsUntil, UnwindDone, OutOfMemory, Die, vars,
     pageVars
<1>8. CASE \E r \in Desc : AllocateRegion(r) \/ ResetRegion(r)
  BY <1>2, <1>5, <1>8 DEF Owners!Next
<1>9. CASE \E r \in Desc, k \in Sizes : AllocNewPage(r, k)
  BY <1>3, <1>9 DEF Owners!Next
<1>10. CASE Owners!Leave
  BY <1>10 DEF Owners!Next
<1> QED
  BY <1>4, <1>6, <1>7, <1>8, <1>9, <1>10 DEF Next, Owners!Next

------------------------------------------------------------------------------
(* The theorems. *)

(* The inductive invariant holds in every state of every run: types, the   *)
(* local shape of the page chains and of the region stack, large objects,  *)
(* values.                                                                 *)
THEOREM Invariance == Spec => []IndInv
<1>1. Init => IndInv
  <2> SUFFICES ASSUME Init PROVE IndInv
    OBVIOUS
  <2>1. TypeOK
    <3>1. 0 \in Word
      <4> DEFINE top == (NPages + 1) * PageWords
      <4>1. top \in Nat /\ Word = 0..top
        BY RegionsAssumption DEF Word
      <4> HIDE DEF top
      <4> QED
        BY <4>1
    <3>2. rp_total \in 0..NPages
      BY RegionsAssumption DEF Init
    <3>3. lobjs \in [Desc -> SUBSET Lobj] /\ used \in [Desc -> SUBSET Word]
      BY DEF Init
    <3> QED
      BY <3>1, <3>2, <3>3 DEF Init, TypeOK
  <2>2. LinksExact
    BY RegionsAssumption DEF Init, LinksExact, OwnersExact, NextExact, EndsExact,
       Page, UNMAPPED
  <2>3. StackLinks /\ LargeObjectsExact /\ ValuesInPages
    BY DEF Init, StackLinks, LargeObjectsExact, ValuesInPages
  <2>4. Acyclic /\ OneFreeChain
    <3>1. NULL \notin Page /\ \A q \in Page : n[q] = NULL /\ owner[q] = UNMAPPED
      BY DEF Init, Page, NULL
    <3>2. Owned(FREE) = {}
      BY <3>1 DEF Owned, FREE, UNMAPPED
    <3> QED
      BY <3>1, <3>2 DEF Acyclic, OneFreeChain
  <2> QED
    BY <2>1, <2>2, <2>3, <2>4 DEF IndInv
<1>2. IndInv /\ [Next]_vars => IndInv'
  BY TypeStep, LinksStep, ChainsStep, StackStep, LargeStep, ValuesStep DEF IndInv
<1> QED
  BY <1>1, <1>2, PTL DEF Spec

(* The runtime's state has its types. *)
THEOREM TypeCorrect == Spec => []TypeOK
<1>1. IndInv => TypeOK
  BY DEF IndInv
<1> QED
  BY <1>1, Invariance, PTL

(* Whatever the program does, following the pointers gives back exactly    *)
(* what it was given: the chain of a region on the stack ends and holds    *)
(* the region's pages, the last of them where the allocation pointer says, *)
(* the free list holds every mapped page nobody holds, and the stack is    *)
(* the regions entered and not left, in order.                             *)
THEOREM Pointers == Spec => []PointersExact
<1>1. IndInv => PointersExact
  BY PointersFromInv
<1> QED
  BY <1>1, Invariance, PTL

(* Every large object that is malloced is in the list of exactly one       *)
(* region on the stack, and every object in such a list is malloced: no    *)
(* free is missed and none is repeated, whatever the program does.         *)
THEOREM LargeObjects == Spec => []LargeObjectsExact
<1>1. IndInv => LargeObjectsExact
  BY DEF IndInv
<1> QED
  BY <1>1, Invariance, PTL

(* Every stored value lies in the data words of a page its region holds.   *)
THEOREM Values == Spec => []ValuesInPages
<1>1. IndInv => ValuesInPages
  BY DEF IndInv
<1> QED
  BY <1>1, Invariance, PTL

(* alloc hands out words that no value of any region on the stack uses,    *)
(* all in one page of the region: no value overwrites another.             *)
THEOREM Fresh == Spec => AllocFresh
<1> DEFINE F == \A r \in Desc, k \in Sizes :
       AllocInPage(r, k) \/ AllocNewPage(r, k) =>
         LET block == (a'[r] - k)..(a'[r] - 1) IN
           /\ \A s \in live : block \intersect used[s] = {}
           /\ \E q \in Page : owner'[q] = r /\ block \subseteq Words(q)
<1>1. ASSUME IndInv, NEW r \in Desc, NEW k \in Sizes, NEW q \in Page, NEW first,
             first \in Int, k \in Nat \ {0}, a'[r] = first + k,
             first..(first + k - 1) \subseteq Words(q),
             \A s \in live : \A w \in used[s] : w \in Words(q) => owner[q] = s,
             \A w \in used[r] : w \in Words(q) => w < first,
             owner[q] \notin live \/ owner[q] = r, owner'[q] = r
      PROVE  LET block == (a'[r] - k)..(a'[r] - 1) IN
               /\ \A s \in live : block \intersect used[s] = {}
               /\ \E x \in Page : owner'[x] = r /\ block \subseteq Words(x)
  <2>1. a'[r] - k = first /\ a'[r] - 1 = first + k - 1
    BY <1>1
  <2>2. ASSUME NEW s \in live, NEW w \in used[s], w \in first..(first + k - 1)
        PROVE  FALSE
    <3>1. w \in Words(q) /\ first <= w /\ w \in Int
      BY <1>1, <2>2
    <3>2. s = r
      BY <1>1, <2>2, <3>1
    <3> QED
      BY <1>1, <2>2, <3>1, <3>2
  <2> QED
    BY <1>1, <2>1, <2>2
<1>2. ASSUME IndInv, NEW q \in Page, NEW s \in live, NEW w \in used[s], w \in Words(q)
      PROVE  owner[q] = s
  BY <1>2, PagesDisjoint DEF IndInv, ValuesInPages, Owned
<1>3. ASSUME IndInv, NEW r \in Desc, NEW k \in Sizes, AllocInPage(r, k)
      PROVE  LET block == (a'[r] - k)..(a'[r] - 1) IN
               /\ \A s \in live : block \intersect used[s] = {}
               /\ \E x \in Page : owner'[x] = r /\ block \subseteq Words(x)
  <2> DEFINE L == LastRp(a[r])
             end == (L + 1) * PageWords
  <2>1. /\ r \in live /\ owner' = owner /\ a'[r] = a[r] + k
        /\ a[r] + k <= end /\ k \in Nat \ {0} /\ a[r] \in Nat
    BY <1>3, RegionsAssumption
       DEF AllocInPage, Store, pageVars, RpBoundary, IndInv, TypeOK, Word
  <2>2. L \in Page /\ owner[L] = r /\ DataStart(L) <= a[r]
    BY <1>3, <2>1 DEF IndInv, LinksExact, EndsExact, Owned
  <2>3. end \in Int /\ DataStart(L) \in Int /\ Words(L) = DataStart(L)..(end - 1)
    BY <2>2, PageGeometry DEF Word, Words
  <2>4. a[r]..(a[r] + k - 1) \subseteq Words(L)
    <3> HIDE DEF L, end
    <3> QED
      BY <2>1, <2>2, <2>3
  <2>5. \A w \in used[r] : w \in Words(L) => w < a[r]
    BY <1>3, <2>1 DEF IndInv, ValuesInPages
  <2>6. \A s \in live : \A w \in used[s] : w \in Words(L) => owner[L] = s
    BY <1>2, <1>3, <2>2
  <2> HIDE DEF L
  <2> QED
    BY <1>1, <1>3, <2>1, <2>2, <2>4, <2>5, <2>6
<1>4. ASSUME IndInv, NEW r \in Desc, NEW k \in Sizes, AllocNewPage(r, k)
      PROVE  LET block == (a'[r] - k)..(a'[r] - 1) IN
               /\ \A s \in live : block \intersect used[s] = {}
               /\ \E x \in Page : owner'[x] = r /\ block \subseteq Words(x)
  <2>1. /\ r \in live /\ TakePage(r, LastRp(a[r])) /\ a'[r] = DataStart(Head) + k
        /\ k \in Nat \ {0} /\ k <= Allocatable
    BY <1>4, RegionsAssumption DEF AllocNewPage, Store, IndInv, TypeOK
  <2>2. /\ Head \in Page /\ owner'[Head] = r
        /\ \A s \in Desc : owner[Head] # s
    BY <1>4, <2>1, TakeOwned DEF IndInv
  <2>3. \A s \in live : \A w \in used[s] : w \in Words(Head) => owner[Head] = s
    BY <1>2, <1>4, <2>2
  <2>4. \A s \in live : s \in Desc
    BY <1>4 DEF IndInv, TypeOK
  <2>5. /\ DataStart(Head)..(DataStart(Head) + k - 1) \subseteq Words(Head)
        /\ DataStart(Head) \in Int
    BY <2>1, <2>2, AfterFirstValue, PageGeometry DEF Word
  <2> QED
    BY <1>1, <1>4, <2>1, <2>2, <2>3, <2>4, <2>5
<1>5. IndInv /\ [Next]_vars => [F]_vars
  BY <1>3, <1>4
<1> QED
  BY <1>5, Invariance, PTL DEF Spec, AllocFresh


(* Regions leave the stack youngest first; raising an exception pops those *)
(* below the handler's stack pointer, all of them and no others.           *)
THEOREM Unwinding == Spec => UnwindExact
<1> DEFINE U ==
      /\ \A r \in live \ live' : /\ until # NULL => r <= until
                                 /\ \A s \in live' : r < s
      /\ until # NULL /\ until' = NULL => \A r \in live' : r > until
<1>1. ASSUME live' = live, until' = until \/ until = NULL PROVE U
  BY <1>1
<1>2. ASSUME IndInv, NEW r \in Desc, AllocateRegion(r) PROVE U
  <2>1. live \subseteq live' /\ until' = until
    BY <1>2 DEF AllocateRegion
  <2> QED
    BY <2>1
<1>3. ASSUME IndInv, DeallocateRegion \/ UnwindOne PROVE U
  <2>1. topregion \in live /\ PopRegion /\ until' = until
    BY <1>3, TopIsLive DEF DeallocateRegion, UnwindOne, MustPop, IndInv
  <2>2. live' = live \ {topregion} /\ \A s \in live' : topregion < s
    BY <1>3, <2>1, PopStack DEF IndInv
  <2>3. until # NULL => topregion <= until
    <3>1. topregion \in Nat /\ until \in Nat
      BY <1>3 DEF IndInv, TypeOK, Desc, NULL
    <3> QED
      BY <1>3, <3>1 DEF DeallocateRegion, Running, UnwindOne, MustPop
  <2> QED
    BY <2>1, <2>2, <2>3
<1>4. ASSUME IndInv, UnwindDone PROVE U
  <2>1. live' = live /\ ~(topregion # NULL /\ until >= topregion)
    BY <1>4 DEF UnwindDone, MustPop
  <2>2. \A r \in live : r \in Nat /\ topregion # NULL /\ topregion <= r
    BY <1>4 DEF IndInv, StackLinks, TypeOK, Desc
  <2>3. topregion \in Nat /\ until \in Nat
    BY <1>4 DEF IndInv, TypeOK, Desc, NULL
  <2> QED
    BY <2>1, <2>2, <2>3
<1>5. ASSUME NEW r \in Desc, NEW k \in Sizes,
             \/ AllocInPage(r, k) \/ AllocNewPage(r, k)
             \/ \E o \in Lobj : AllocLarge(r, k, o)
      PROVE  U
  <2>1. live' = live /\ until' = until
    BY <1>5 DEF AllocInPage, AllocNewPage, AllocLarge
  <2>2. until = NULL
    BY <1>5 DEF AllocInPage, AllocNewPage, AllocLarge, Running
  <2> QED
    BY <1>1, <2>1, <2>2
<1>6. ASSUME NEW r \in Desc, ResetRegion(r) PROVE U
  BY <1>1, <1>6 DEF ResetRegion
<1>7. ASSUME (\E sp \in Desc : DeallocateRegionsUntil(sp)) \/ OutOfMemory \/ Die
      PROVE  U \/ UNCHANGED vars
  BY <1>1, <1>7 DEF DeallocateRegionsUntil, OutOfMemory, Die, vars, Running
<1>8. IndInv /\ [Next]_vars => [U]_vars
  BY <1>2, <1>3, <1>4, <1>5, <1>6, <1>7 DEF Next
<1> QED
  BY <1>8, Invariance, PTL DEF Spec, UnwindExact

(* Read off the owners or read off the pointers, the pool is the same. *)
LEMMA PoolOfPointers ==
  ASSUME IndInv
  PROVE  /\ OnStack = live /\ Reach(freelist) = Owned(FREE)
         /\ [r \in Desc |-> IF r \in OnStack THEN Reach(fp[r]) ELSE {}] = Holding
BY PointersFromInv DEF PointersExact, ChainsExact, StackExact, Holding

(* The pointers implement the pool: what is reached from each region's     *)
(* first page and from the free list changes only as the abstract          *)
(* allocator's sets do.  A page moves from the pool to one region, whole   *)
(* regions go back, youngest first, a bag comes only when the pool is      *)
(* empty, and nothing else moves.                                          *)
THEOREM Refinement == Spec => PoolSpec
<1> DEFINE Hold == [r \in Desc |-> IF r \in OnStack THEN Reach(fp[r]) ELSE {}]
           Same == /\ OnStack = live /\ Reach(freelist) = Owned(FREE)
                   /\ Hold = Holding
<1>1. IndInv => Same
  BY PoolOfPointers
<1>2. Init => Pool!Init
  <2> SUFFICES ASSUME Init PROVE Pool!Init
    OBVIOUS
  <2>1. NULL \notin Page /\ NULL \notin Desc
    BY DEF Page, Desc, NULL
  <2>2. n \in [Page -> Page \union {NULL}] /\ p \in [Desc -> Desc \union {NULL}]
    BY DEF Init
  <2>3. OnStack = {} /\ Reach(freelist) = {}
    <3>1. Walk(n, NULL) = {NULL} /\ Walk(p, NULL) = {NULL}
      BY <2>1, <2>2, WalkNull
    <3> QED
      BY <3>1 DEF Init, OnStack, Reach
  <2>4. Hold = [r \in Desc |-> {}]
    BY <2>3
  <2> QED
    BY <2>3, <2>4 DEF Pool!Init
<1>3. IndInv /\ [Next]_vars => [Owners!Next]_(Owners!poolVars)
  BY PoolStep
<1>4. Same /\ Same' /\ [Owners!Next]_(Owners!poolVars) => [Pool!Next]_(Pool!poolVars)
  <2> SUFFICES ASSUME Same, Same', [Owners!Next]_(Owners!poolVars)
               PROVE  [Pool!Next]_(Pool!poolVars)
    OBVIOUS
  <2>1. Owners!Held = Pool!Held
    BY DEF Owners!Held, Pool!Held
  <2>2. Owners!Cardinality(Owned(FREE)') = Pool!Cardinality(Reach(freelist)')
    <3>1. Owned(FREE)' = Reach(freelist)'
      OBVIOUS
    <3> QED
      BY <3>1 DEF Owners!Cardinality, Pool!Cardinality
  <2>3. ASSUME NEW r \in Desc, Owners!Take(r) PROVE Pool!Take(r)
    BY <2>1, <2>2, <2>3 DEF Owners!Take, Pool!Take
  <2>4. ASSUME NEW r \in Desc, Owners!Enter(r) PROVE Pool!Enter(r)
    BY <2>3, <2>4 DEF Owners!Enter, Pool!Enter
  <2>5. ASSUME NEW r \in Desc, Owners!Grow(r) PROVE Pool!Grow(r)
    BY <2>3, <2>5 DEF Owners!Grow, Pool!Grow
  <2>6. ASSUME NEW r \in Desc, Owners!Empty(r) PROVE Pool!Empty(r)
    BY <2>6 DEF Owners!Empty, Pool!Empty
  <2>7. ASSUME Owners!Leave PROVE Pool!Leave
    BY <2>7 DEF Owners!Leave, Pool!Leave, Owners!Youngest, Pool!Youngest
  <2>8. ASSUME UNCHANGED Owners!poolVars PROVE UNCHANGED Pool!poolVars
    BY <2>8 DEF Owners!poolVars, Pool!poolVars
  <2> QED
    BY <2>4, <2>5, <2>6, <2>7, <2>8 DEF Owners!Next, Pool!Next
<1> HIDE DEF Same
<1> QED
  BY <1>1, <1>2, <1>3, <1>4, Invariance, PTL DEF Spec, PoolSpec, Pool!PoolSpec
=============================================================================
