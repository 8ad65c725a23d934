----------------------------- MODULE RegionPool ------------------------------
(***************************************************************************)
(* What the region allocator promises: a stack of regions, each holding    *)
(* pages nobody else holds, and a pool of free pages.  No pointers, no     *)
(* addresses: Regions implements this.                                     *)
(***************************************************************************)
EXTENDS Naturals, FiniteSets

CONSTANTS Page, Desc, BagSize

VARIABLES
  stack,  \* the regions on the stack; the youngest has the least address
  holds,  \* the pages of each region
  pool    \* the mapped pages that are free

poolVars == <<stack, holds, pool>>

Init == stack = {} /\ holds = [r \in Desc |-> {}] /\ pool = {}

Held == UNION {holds[r] : r \in Desc}
Youngest(r) == r \in stack /\ \A s \in stack : r <= s

(* Region r gets one more page; the pool is refilled only when it is empty, *)
(* with a bag of pages never mapped before.                                 *)
Take(r) ==
  \E q \in Page :
    /\ holds' = [holds EXCEPT ![r] = @ \union {q}]
    /\ \/ q \in pool /\ pool' = pool \ {q}
       \/ /\ pool = {} /\ q \notin Held
          /\ pool' \subseteq Page \ (Held \union {q})
          /\ Cardinality(pool') = BagSize - 1

Enter(r) == /\ \A s \in stack : r < s
            /\ stack' = stack \union {r}
            /\ Take(r)

Grow(r) == r \in stack /\ Take(r) /\ UNCHANGED stack

(* Resetting keeps exactly one page. *)
Empty(r) ==
  /\ r \in stack
  /\ \E q \in holds[r] :
       /\ holds' = [holds EXCEPT ![r] = {q}]
       /\ pool' = pool \union (holds[r] \ {q})
  /\ UNCHANGED stack

Leave == \E r \in Desc :
  /\ Youngest(r)
  /\ stack' = stack \ {r}
  /\ holds' = [holds EXCEPT ![r] = {}]
  /\ pool' = pool \union holds[r]

Next == Leave \/ \E r \in Desc : Enter(r) \/ Grow(r) \/ Empty(r)

PoolSpec == Init /\ [][Next]_poolVars
=============================================================================
