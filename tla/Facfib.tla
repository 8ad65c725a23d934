------------------------------- MODULE Facfib --------------------------------
(***************************************************************************)
(* The memo tables of the Facfib application (facfib/main.sml).  A request *)
(* on port 8080 calls fac, one on 8081 fib, one on 8082 fastFib.  fac and  *)
(* fib call themselves before they append, so a call is a frame of a       *)
(* stack: its number, and for fib the value of the first recursive call.   *)
(***************************************************************************)
EXTENDS Integers, Sequences

CONSTANTS
  Numbers,   \* the numbers clients ask for
  None       \* no value

ASSUME FacfibAssumption == Numbers \subseteq Int /\ None \notin Int

VARIABLES
  facTbl,   \* the vector of fac: element i (from 1) is meant to be i!
  fibTbl,   \* the vector of fib: element i is meant to be fibonacci of i - 1
  stack,    \* the calls under way, the newest first: [fn, n, left]
  ret,      \* what the call that just returned gave, None if the top frame starts
  answer    \* the last reply: [fn, n, value], None if the request raised

vars == <<facTbl, fibTbl, stack, ret, answer>>

Frame(f, n) == [fn |-> f, n |-> n, left |-> None]
Top == stack[1]
In(f) == stack # <<>> /\ Top.fn = f

------------------------------------------------------------------------------
(* A client asks f for n. *)
Request(f, n) ==
  /\ stack = <<>>
  /\ stack' = <<Frame(f, n)>> /\ ret' = None /\ answer' = None
  /\ UNCHANGED <<facTbl, fibTbl>>

Call(f, n) == /\ stack' = <<Frame(f, n)>> \o stack /\ ret' = None
              /\ UNCHANGED answer

(* The top call returns v, to the call below it or to the callback. *)
Return(v) ==
  /\ stack' = Tail(stack) /\ ret' = v
  /\ answer' = IF Len(stack) = 1 THEN [fn |-> Top.fn, n |-> Top.n, value |-> v]
               ELSE answer

(* Vector.sub raises Subscript: listen catches it and nothing is sent. *)
RaiseRetry == /\ stack' = <<Top>> /\ ret' = None /\ answer' = None       \* mutant
              /\ UNCHANGED <<facTbl, fibTbl>>
Raise == /\ stack' = <<>> /\ ret' = None /\ answer' = None
         /\ UNCHANGED <<facTbl, fibTbl>>

------------------------------------------------------------------------------
(* fac *)
FacKnown(n) == Len(facTbl) >= n

FacFound == /\ In("fac") /\ ret = None /\ FacKnown(Top.n) /\ Top.n >= 1
            /\ Return(facTbl[Top.n])
            /\ UNCHANGED <<facTbl, fibTbl>>

FacSubscript == In("fac") /\ ret = None /\ FacKnown(Top.n) /\ Top.n < 1 /\ Raise

FacCall == /\ In("fac") /\ ret = None /\ ~FacKnown(Top.n) /\ Top.n > 1
           /\ Call("fac", Top.n - 1)
           /\ UNCHANGED <<facTbl, fibTbl>>

FacValue == IF Top.n <= 1 THEN 1 ELSE ret * Top.n
FacAppendAlways ==                                                 \* mutant
  /\ In("fac") /\ (ret # None \/ Top.n = 1)
  /\ facTbl' = Append(facTbl, FacValue)
  /\ Return(FacValue)
  /\ UNCHANGED fibTbl
FacAppend ==
  /\ In("fac") /\ (ret # None \/ (~FacKnown(Top.n) /\ Top.n <= 1))
  /\ facTbl' = Append(facTbl, FacValue)
  /\ Return(FacValue)
  /\ UNCHANGED fibTbl

------------------------------------------------------------------------------
(* fib: fib (n-2) is called first, then fib (n-1). *)
FibKnownStrict(n) == Len(fibTbl) > n + 1                           \* mutant
FibKnown(n) == Len(fibTbl) > n

FibFound == /\ In("fib") /\ ret = None /\ Top.left = None
            /\ FibKnown(Top.n) /\ Top.n >= 0
            /\ Return(fibTbl[Top.n + 1])
            /\ UNCHANGED <<facTbl, fibTbl>>

FibSubscript == In("fib") /\ ret = None /\ FibKnown(Top.n) /\ Top.n < 0 /\ Raise

FibCallLeft == /\ In("fib") /\ ret = None /\ Top.left = None
               /\ ~FibKnown(Top.n) /\ Top.n >= 2
               /\ Call("fib", Top.n - 2)
               /\ UNCHANGED <<facTbl, fibTbl>>

FibCallRight ==
  /\ In("fib") /\ ret # None /\ Top.left = None
  /\ stack' = <<Frame("fib", Top.n - 1), [Top EXCEPT !.left = ret]>> \o Tail(stack)
  /\ ret' = None
  /\ UNCHANGED <<facTbl, fibTbl, answer>>

FibSum == Top.left + ret
FibValue == IF Top.n < 2 THEN Top.n ELSE FibSum
FibAppend ==
  /\ In("fib")
  /\ \/ ret # None /\ Top.left # None
     \/ ret = None /\ ~FibKnown(Top.n) /\ Top.n < 2
  /\ fibTbl' = Append(fibTbl, FibValue)
  /\ Return(FibValue)
  /\ UNCHANGED facTbl

------------------------------------------------------------------------------
(* fastFib keeps no table: fastFibH[n] is (fibonacci n, fibonacci n+1). *)
DoubledSwapped(p, odd) ==                                          \* mutant
  LET c == p[1] * (p[2] * 2 - p[1])
      d == p[1] * p[1] + p[2] * p[2]
  IN IF odd THEN <<c, c + d>> ELSE <<c, d>>
Doubled(p, odd) ==
  LET c == p[1] * (p[2] * 2 - p[1])
      d == p[1] * p[1] + p[2] * p[2]
  IN IF odd THEN <<d, c + d>> ELSE <<c, d>>
fastFibH[n \in Nat] ==
  IF n = 0 THEN <<0, 1>> ELSE Doubled(fastFibH[n \div 2], n % 2 # 0)

FastFib == /\ In("fastFib") /\ Top.n >= 0
           /\ Return(fastFibH[Top.n][1])
           /\ UNCHANGED <<facTbl, fibTbl>>

FastFibFail == In("fastFib") /\ Top.n < 0 /\ Raise

------------------------------------------------------------------------------
Init == /\ facTbl = <<>> /\ fibTbl = <<>> /\ stack = <<>> /\ ret = None
        /\ answer = None

Step == \/ FacFound \/ FacSubscript \/ FacCall \/ FacAppend
        \/ FibFound \/ FibSubscript \/ FibCallLeft \/ FibCallRight \/ FibAppend
        \/ FastFib \/ FastFibFail

Next == Step \/ \E f \in {"fac", "fib", "fastFib"}, n \in Numbers : Request(f, n)

(* A request is worked on until it is answered. *)
Spec == Init /\ [][Next]_vars /\ WF_vars(Step)

------------------------------------------------------------------------------
(* The two sequences, each element from the ones before it. *)
FacRow(s, i) == s[i] = IF i = 1 THEN 1 ELSE s[i - 1] * i
FibRow(s, i) == s[i] = IF i <= 2 THEN i - 1 ELSE s[i - 2] + s[i - 1]

Answered(f, n, value) == answer = [fn |-> f, n |-> n, value |-> value]

(* Whatever was asked before, and with a request that raised in between:   *)
(* the entries of fac's table are the factorials, and an answered request  *)
(* got the entry of its number.  fac appends after its recursive call, so  *)
(* this needs the table to have grown by exactly the numbers below n then. *)
FacExact ==
  /\ \A i \in DOMAIN facTbl : FacRow(facTbl, i)
  /\ answer # None /\ answer.fn = "fac" =>
       answer.n \in DOMAIN facTbl /\ answer.value = facTbl[answer.n]

(* If the first entry fib ever stored is the one for 0, its table holds    *)
(* the Fibonacci numbers and the answers are right, whatever is asked      *)
(* later: only the first entry can go to the wrong index.                  *)
FibExactIfSeeded ==
  fibTbl # <<>> /\ fibTbl[1] = 0 =>
    /\ \A i \in DOMAIN fibTbl : FibRow(fibTbl, i)
    /\ answer # None /\ answer.fn = "fib" =>
         answer.n + 1 \in DOMAIN fibTbl /\ answer.value = fibTbl[answer.n + 1]

(* The service answers with the Fibonacci numbers. *)
fibonacci[n \in Nat] == IF n < 2 THEN n ELSE fibonacci[n - 2] + fibonacci[n - 1]
FibExact == answer # None /\ answer.fn = "fib" => answer.value = fibonacci[answer.n]

(* fastFib, by doubling, agrees with the definition it is faster than. *)
FastFibExact ==
  answer # None /\ answer.fn = "fastFib" => answer.value = fibonacci[answer.n]

(* Every request comes to an end: the recursion reaches a base case or an  *)
(* entry, whatever a corrupted table holds.                                *)
Finishes == (stack # <<>>) ~> (stack = <<>>)
=============================================================================
