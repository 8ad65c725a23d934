--------------------------- MODULE RecursionProofs ----------------------------
(***************************************************************************)
(* Proofs about code that computes by recursion, or by powers: the memo    *)
(* tables of the Facfib application, for all numbers clients may ask for,  *)
(* in any order; the merge sort of the Sort application, for requests of   *)
(* any length; the conversions of reals, for mantissas and integers of any *)
(* width.                                                                  *)
(***************************************************************************)
EXTENDS Facfib, Sort, RealConversions, SequenceTheorems, FiniteSetTheorems,
        WellFoundedInduction, TLAPS

------------------------------------------------------------------------------
(* The inductive invariant. *)

Names == {"fac", "fib", "fastFib"}
Calls == [fn : Names, n : Int, left : Int \union {None}]

(* The calls of one request are of one function, and only the memoizing    *)
(* ones call themselves on the stack.                                      *)
StackInv ==
  /\ facTbl \in Seq(Int) /\ fibTbl \in Seq(Int) /\ stack \in Seq(Calls)
  /\ Len(stack) > 0 => ret \in Int \union {None} /\ answer = None
  /\ \A k \in 1..Len(stack) : stack[k].fn = stack[1].fn
  /\ Len(stack) > 1 => stack[1].fn # "fastFib"

(* Each waiting call of fac is for the next number and for one its table   *)
(* does not reach; a call that goes on finds the table reaching just below *)
(* its number, with the value it was given.                                *)
FacStack ==
  /\ \A k \in 1..Len(stack) : stack[k].n = stack[1].n + (k - 1)
  /\ \A k \in 2..Len(stack) : stack[k].n > Len(facTbl) /\ stack[k].n > 1
  /\ ret # None => /\ Len(facTbl) = stack[1].n - 1 /\ stack[1].n > 1
                   /\ ret = facTbl[stack[1].n - 1]

FacAnswer ==
  answer # None /\ answer.fn = "fac" =>
    answer.n \in 1..Len(facTbl) /\ answer.value = facTbl[answer.n]

FacInv ==
  /\ \A i \in 1..Len(facTbl) : FacRow(facTbl, i)
  /\ Len(stack) > 0 => (stack[1].fn = "fac" => FacStack)
  /\ FacAnswer

(* fib's table is empty or begins with the number for 0. *)
Seedable == Len(fibTbl) = 0 \/ fibTbl[1] = 0

(* A waiting call of fib is for a number its table does not go beyond; it  *)
(* waits for the number two below, or one below when it has the value of   *)
(* the other, which then is in the table.                                  *)
FibStack ==
  /\ \A k \in 2..Len(stack) :
       /\ Len(fibTbl) <= stack[k].n /\ stack[k].n >= 2
       /\ stack[k - 1].n = stack[k].n - (IF stack[k].left = None THEN 2 ELSE 1)
  /\ \A j, k \in 1..Len(stack) : j < k => stack[j].n < stack[k].n
  /\ \A k \in 1..Len(stack) : stack[k].left # None =>
       /\ 2 <= stack[k].n /\ stack[k].n - 1 <= Len(fibTbl)
       /\ stack[k].left = fibTbl[stack[k].n - 1]
  /\ stack[1].left # None \/ ret # None =>
       2 <= stack[1].n /\ Len(fibTbl) <= stack[1].n
  /\ ret # None /\ stack[1].left = None =>
       stack[1].n - 1 <= Len(fibTbl) /\ ret = fibTbl[stack[1].n - 1]
  /\ ret # None /\ stack[1].left # None =>
       stack[1].n <= Len(fibTbl) /\ ret = fibTbl[stack[1].n]

FibAnswer ==
  answer # None /\ answer.fn = "fib" =>
    answer.n + 1 \in 1..Len(fibTbl) /\ answer.value = fibTbl[answer.n + 1]

FibInv ==
  Seedable =>
    /\ \A i \in 1..Len(fibTbl) : FibRow(fibTbl, i)
    /\ Len(stack) > 0 => (stack[1].fn = "fib" => FibStack)
    /\ FibAnswer

Inv == StackInv /\ FacInv /\ FibInv

------------------------------------------------------------------------------
(* The stack. *)

(* A call is put on top. *)
LEMMA Pushed ==
  ASSUME NEW S, NEW s \in Seq(S), NEW x \in S
  PROVE  /\ <<x>> \o s \in Seq(S) /\ Len(<<x>> \o s) = Len(s) + 1
         /\ (<<x>> \o s)[1] = x
         /\ \A k \in 2..(Len(s) + 1) : k - 1 \in 1..Len(s) /\ (<<x>> \o s)[k] = s[k - 1]
OBVIOUS

(* The top call returns. *)
LEMMA Popped ==
  ASSUME NEW S, NEW s \in Seq(S), Len(s) > 0
  PROVE  /\ Tail(s) \in Seq(S) /\ Len(Tail(s)) = Len(s) - 1
         /\ \A k \in 1..Len(Tail(s)) : k + 1 \in 2..Len(s) /\ Tail(s)[k] = s[k + 1]
OBVIOUS

(* What a table holds stays when a value is appended. *)
LEMMA Appended ==
  ASSUME NEW S, NEW s \in Seq(S), NEW x \in S
  PROVE  /\ Append(s, x) \in Seq(S) /\ Len(Append(s, x)) = Len(s) + 1
         /\ Append(s, x)[Len(s) + 1] = x
         /\ \A i \in 1..Len(s) : Append(s, x)[i] = s[i]
OBVIOUS

(* What In says of the top call. *)
LEMMA OnTop ==
  ASSUME Inv, NEW f \in Names, In(f)
  PROVE  /\ stack \in Seq(Calls) /\ Len(stack) \in Nat /\ Len(stack) > 0
         /\ Top = stack[1] /\ Top \in Calls /\ Top.n \in Int /\ Top.fn = f
         /\ Top.left \in Int \union {None}
         /\ ret \in Int \union {None} /\ answer = None
         /\ \A k \in 1..Len(stack) : stack[k] \in Calls /\ stack[k].n \in Int /\ stack[k].fn = f
<1>1. stack \in Seq(Calls) /\ Len(stack) \in Nat /\ stack # <<>> /\ Top = stack[1]
      /\ Top.fn = f
  BY DEF Inv, StackInv, In, Top
<1>2. Len(stack) > 0
  BY <1>1, EmptySeq
<1>3. \A k \in 1..Len(stack) : stack[k] \in Calls
  BY <1>1, ElementOfSeq
<1>4. \A k \in 1..Len(stack) : stack[k].n \in Int /\ stack[k].left \in Int \union {None}
  BY <1>3 DEF Calls, Names
<1>5. 1 \in 1..Len(stack)
  BY <1>1, <1>2
<1> QED
  BY <1>1, <1>2, <1>3, <1>4, <1>5 DEF Inv, StackInv

(* Before the first request. *)
LEMMA FacfibInit == Init => Inv
<1> SUFFICES ASSUME Init PROVE Inv
  OBVIOUS
<1>1. /\ facTbl \in Seq(Int) /\ fibTbl \in Seq(Int) /\ stack \in Seq(Calls)
      /\ Len(facTbl) = 0 /\ Len(fibTbl) = 0 /\ Len(stack) = 0 /\ answer = None
  BY EmptySeq DEF Init
<1> QED
  BY <1>1 DEF Inv, StackInv, FacInv, FibInv, FacAnswer, FibAnswer

(* A client asks. *)
LEMMA FacfibRequest ==
  ASSUME Inv, NEW f \in Names, NEW n \in Numbers, Request(f, n)
  PROVE  Inv'
<1> DEFINE frame == Frame(f, n)
<1>1. frame \in Calls /\ frame.fn = f /\ frame.n = n /\ frame.left = None /\ n \in Int
  BY FacfibAssumption DEF Frame, Calls, Names
<1> HIDE DEF frame
<1>2. /\ stack' = <<frame>> /\ ret' = None /\ answer' = None
      /\ facTbl' = facTbl /\ fibTbl' = fibTbl
  BY DEF Request, frame
<1>3. /\ stack' \in Seq(Calls) /\ Len(stack') = 1 /\ stack'[1] = frame
  BY <1>1, <1>2
<1>4. StackInv'
  BY <1>2, <1>3 DEF Inv, StackInv
<1>5. FacInv'
  <2>1. FacStack'
    BY <1>1, <1>2, <1>3 DEF FacStack
  <2> QED
    BY <1>2, <2>1 DEF Inv, FacInv, FacAnswer
<1>6. FibInv'
  <2>1. FibStack'
    BY <1>1, <1>2, <1>3 DEF FibStack
  <2> QED
    BY <1>2, <2>1 DEF Inv, FibInv, FibAnswer, Seedable
<1> QED
  BY <1>4, <1>5, <1>6 DEF Inv

(* A request that raises leaves the tables. *)
LEMMA FacfibRaise ==
  ASSUME Inv, Raise
  PROVE  Inv'
<1>1. /\ stack' = <<>> /\ stack' \in Seq(Calls) /\ Len(stack') = 0 /\ answer' = None
      /\ facTbl' = facTbl /\ fibTbl' = fibTbl
  BY EmptySeq DEF Raise
<1> QED
  BY <1>1 DEF Inv, StackInv, FacInv, FibInv, FacAnswer, FibAnswer, Seedable

(* fastFib has one call and no table. *)
LEMMA FacfibFastFib ==
  ASSUME Inv, FastFib
  PROVE  Inv'
<1>1. /\ stack \in Seq(Calls) /\ Len(stack) \in Nat /\ Len(stack) > 0 /\ Top.fn = "fastFib"
      /\ Top = stack[1]
  BY OnTop DEF FastFib, Names
<1>2. Len(stack) = 1
  <2>1. ~(Len(stack) > 1)
    BY <1>1 DEF Inv, StackInv
  <2>2. \A m \in Nat : m > 0 /\ ~(m > 1) => m = 1
    OBVIOUS
  <2> QED
    BY <1>1, <2>1, <2>2
<1>3. /\ stack' \in Seq(Calls) /\ Len(stack') = 0
      /\ facTbl' = facTbl /\ fibTbl' = fibTbl /\ answer'.fn = "fastFib"
  <2>1. stack' = Tail(stack) /\ answer'.fn = "fastFib"
    BY <1>1, <1>2 DEF FastFib, Return
  <2>2. stack' \in Seq(Calls) /\ Len(stack') = 0
    BY <1>1, <1>2, <2>1, Popped
  <2> QED
    BY <2>1, <2>2 DEF FastFib
<1> QED
  BY <1>3 DEF Inv, StackInv, FacInv, FibInv, FacAnswer, FibAnswer, Seedable

------------------------------------------------------------------------------
(* fac. *)

(* A step of fac concerns fib's table only in that its stack is another.   *)
LEMMA FibAside ==
  ASSUME Inv, fibTbl' = fibTbl, Len(stack') > 0 => stack'[1].fn # "fib",
         answer' = None \/ answer'.fn # "fib"
  PROVE  FibInv'
BY DEF Inv, FibInv, FibAnswer, Seedable

(* When a call of fac returns, the one for the next number goes on. *)
LEMMA FacReturned ==
  ASSUME stack \in Seq(Calls), Len(stack) \in Nat, Len(stack) > 0, FacStack,
         NEW n \in Int, stack[1].n = n,
         \A k \in 1..Len(stack) : stack[k].fn = "fac", stack' = Tail(stack)
  PROVE  /\ stack' \in Seq(Calls) /\ Len(stack') = Len(stack) - 1
         /\ \A k \in 1..Len(stack') :
              /\ k + 1 \in 2..Len(stack) /\ stack'[k] = stack[k + 1]
              /\ stack'[k].fn = "fac" /\ stack'[k].n = n + k
         /\ Len(stack') > 0 => 1 \in 1..Len(stack') /\ stack'[1].n = n + 1
<1>1. /\ stack' \in Seq(Calls) /\ Len(stack') = Len(stack) - 1
      /\ \A k \in 1..Len(stack') : k + 1 \in 2..Len(stack) /\ stack'[k] = stack[k + 1]
  BY Popped
<1>2. Len(stack') \in Nat /\ Len(stack) \in Nat
  BY <1>1
<1>3. ASSUME NEW k \in 1..Len(stack')
      PROVE  stack'[k].fn = "fac" /\ stack'[k].n = n + k
  <2>1. k + 1 \in 2..Len(stack) /\ stack'[k] = stack[k + 1]
    BY <1>1
  <2>2. k + 1 \in 1..Len(stack) /\ (k + 1) - 1 = k
    BY <1>2, <2>1
  <2>3. stack[k + 1].n = n + ((k + 1) - 1)
    BY <2>2 DEF FacStack
  <2> QED
    BY <2>1, <2>2, <2>3
<1>4. Len(stack') > 0 => 1 \in 1..Len(stack')
  BY <1>2
<1> QED
  BY <1>1, <1>3, <1>4

(* The number is in the table. *)
LEMMA FacfibFacFound ==
  ASSUME Inv, FacFound
  PROVE  Inv'
<1> DEFINE n == stack[1].n
           L == Len(facTbl)
<1>1. /\ stack \in Seq(Calls) /\ Len(stack) \in Nat /\ Len(stack) > 0
      /\ stack[1].fn = "fac" /\ n \in Int /\ answer = None
      /\ \A k \in 1..Len(stack) : stack[k].fn = "fac"
  BY OnTop DEF FacFound, Names
<1>2. /\ ret = None /\ L >= n /\ n >= 1 /\ stack' = Tail(stack)
      /\ ret' = facTbl[n] /\ facTbl' = facTbl /\ fibTbl' = fibTbl
      /\ answer' = IF Len(stack) = 1 THEN [fn |-> stack[1].fn, n |-> n, value |-> facTbl[n]]
                   ELSE answer
  BY DEF FacFound, FacKnown, Return, Top
<1>3. /\ facTbl \in Seq(Int) /\ L \in Nat /\ FacStack
      /\ \A i \in 1..L : FacRow(facTbl, i)
  BY <1>1 DEF Inv, StackInv, FacInv
<1>4. n \in 1..L /\ facTbl[n] \in Int
  BY <1>1, <1>2, <1>3
<1>5. /\ stack' \in Seq(Calls) /\ Len(stack') = Len(stack) - 1
      /\ \A k \in 1..Len(stack') :
           /\ k + 1 \in 2..Len(stack) /\ stack'[k] = stack[k + 1]
           /\ stack'[k].fn = "fac" /\ stack'[k].n = n + k
      /\ Len(stack') > 0 => 1 \in 1..Len(stack') /\ stack'[1].n = n + 1
  BY <1>1, <1>2, <1>3, FacReturned
<1>6. Len(stack) \in Nat /\ Len(stack) > 0 /\ n \in Int /\ L \in Nat /\ n >= 1 /\ L >= n
  BY <1>1, <1>2, <1>3
<1>7. Len(stack') > 0 => stack'[1].fn = "fac" /\ answer' = None
  <2>1. Len(stack') > 0 => Len(stack) # 1
    BY <1>5, <1>6
  <2> QED
    BY <1>1, <1>2, <1>5, <2>1
<1>8. StackInv'
  BY <1>2, <1>3, <1>4, <1>5, <1>7 DEF Inv, StackInv
<1>9. FacInv'
  <2>1. ASSUME Len(stack') > 0 PROVE FacStack'
    <3>1. 2 \in 2..Len(stack) /\ stack'[1] = stack[2] /\ stack'[1].n = n + 1
      BY <1>5, <2>1
    <3>2. stack[2].n > L
      BY <1>3, <3>1 DEF FacStack
    <3>3. n + 1 > L
      BY <3>1, <3>2
    <3>4. L = n
      BY <1>6, <3>3
    <3>5. ASSUME NEW k \in 1..Len(stack')
          PROVE  stack'[k].n = stack'[1].n + (k - 1)
      <4>1. n + k = (n + 1) + (k - 1)
        <5>1. \A i, j \in Int : i + j = (i + 1) + (j - 1)
          OBVIOUS
        <5>2. n \in Int /\ k \in Int
          BY <1>6
        <5> QED
          BY <5>1, <5>2
      <4> QED
        BY <1>5, <3>1, <4>1
    <3>6. ASSUME NEW k \in 2..Len(stack')
          PROVE  stack'[k].n > Len(facTbl') /\ stack'[k].n > 1
      <4>1. k \in 1..Len(stack') /\ n + k > L /\ n + k > 1
        BY <1>6, <3>4
      <4> QED
        BY <1>2, <1>5, <4>1
    <3>7. Len(facTbl') = stack'[1].n - 1 /\ stack'[1].n > 1 /\ ret' = facTbl'[stack'[1].n - 1]
      <4>1. (n + 1) - 1 = n /\ n + 1 > 1
        BY <1>6
      <4> QED
        BY <1>2, <3>1, <3>4, <4>1
    <3> QED
      BY <3>5, <3>6, <3>7 DEF FacStack
  <2>2. FacAnswer'
    BY <1>1, <1>2, <1>4 DEF FacAnswer
  <2> QED
    BY <1>2, <1>3, <2>1, <2>2 DEF FacInv
<1>10. FibInv'
  BY <1>1, <1>2, <1>7, FibAside
<1> QED
  BY <1>8, <1>9, <1>10 DEF Inv

(* The number is not in the table: fac calls itself for the one below.     *)
LEMMA FacfibFacCall ==
  ASSUME Inv, FacCall
  PROVE  Inv'
<1> DEFINE n == stack[1].n
           frame == Frame("fac", n - 1)
<1>1. /\ stack \in Seq(Calls) /\ Len(stack) \in Nat /\ Len(stack) > 0
      /\ stack[1].fn = "fac" /\ n \in Int /\ answer = None
      /\ \A k \in 1..Len(stack) : stack[k].n \in Int /\ stack[k].fn = "fac"
  BY OnTop DEF FacCall, Names
<1>2. /\ ret = None /\ ~(Len(facTbl) >= n) /\ n > 1 /\ stack' = <<frame>> \o stack
      /\ ret' = None /\ facTbl' = facTbl /\ fibTbl' = fibTbl /\ answer' = answer
  BY DEF FacCall, FacKnown, Call, Top
<1>3. Len(facTbl) \in Nat /\ FacStack
  BY <1>1 DEF Inv, StackInv, FacInv
<1>4. frame \in Calls /\ frame.fn = "fac" /\ frame.n = n - 1
  BY <1>1 DEF Frame, Calls, Names
<1> HIDE DEF frame
<1>5. /\ stack' \in Seq(Calls) /\ Len(stack') = Len(stack) + 1 /\ stack'[1] = frame
      /\ \A k \in 2..Len(stack') : k - 1 \in 1..Len(stack) /\ stack'[k] = stack[k - 1]
  BY <1>1, <1>2, <1>4, Pushed
<1>6. \A k \in 1..Len(stack') : k = 1 \/ k \in 2..Len(stack')
  <2>1. Len(stack') \in Nat
    BY <1>5
  <2> QED
    BY <2>1
<1>7. \A k \in 1..Len(stack') : stack'[k].fn = "fac"
  BY <1>1, <1>4, <1>5, <1>6
<1>8. StackInv'
  BY <1>1, <1>2, <1>4, <1>5, <1>7 DEF Inv, StackInv
<1>9. FacStack'
  <2>1. \A k \in 2..Len(stack') : stack'[k].n = n + ((k - 1) - 1)
    BY <1>3, <1>5 DEF FacStack
  <2>2. ASSUME NEW k \in 1..Len(stack')
        PROVE  stack'[k].n = stack'[1].n + (k - 1)
    <3>1. n + ((k - 1) - 1) = (n - 1) + (k - 1) /\ (n - 1) + (1 - 1) = n - 1
      <4>1. k \in Int /\ n \in Int
        BY <1>1, <1>6
      <4> HIDE DEF n
      <4> QED
        BY <4>1
    <3>2. stack'[1].n = n - 1
      BY <1>4, <1>5
    <3> QED
      BY <1>6, <2>1, <3>1, <3>2
  <2>3. \A k \in 2..Len(stack') : stack'[k].n > Len(facTbl) /\ stack'[k].n > 1
    BY <1>1, <1>2, <1>3, <2>1
  <2> QED
    BY <1>2, <2>2, <2>3 DEF FacStack
<1>10. FacInv'
  BY <1>1, <1>2, <1>9 DEF Inv, FacInv, FacAnswer
<1>11. FibInv'
  BY <1>1, <1>2, <1>4, <1>5, FibAside
<1> QED
  BY <1>8, <1>10, <1>11 DEF Inv

(* The value is appended, and belongs at the table's end. *)
LEMMA FacfibFacAppend ==
  ASSUME Inv, FacAppend
  PROVE  Inv'
<1> DEFINE n == stack[1].n
           v == FacValue
           L == Len(facTbl)
<1>1. /\ stack \in Seq(Calls) /\ Len(stack) \in Nat /\ Len(stack) > 0
      /\ stack[1].fn = "fac" /\ n \in Int /\ answer = None
      /\ ret \in Int \union {None}
      /\ \A k \in 1..Len(stack) : stack[k].fn = "fac"
  BY OnTop DEF FacAppend, Names
<1>2. /\ ret # None \/ (~(L >= n) /\ n <= 1)
      /\ stack' = Tail(stack)
      /\ ret' = v /\ facTbl' = Append(facTbl, v) /\ fibTbl' = fibTbl
      /\ v = IF n <= 1 THEN 1 ELSE ret * n
      /\ answer' = IF Len(stack) = 1 THEN [fn |-> stack[1].fn, n |-> n, value |-> v]
                   ELSE answer
  BY DEF FacAppend, FacKnown, FacValue, Return, Top
<1>3. facTbl \in Seq(Int) /\ L \in Nat /\ FacStack
  BY <1>1 DEF Inv, StackInv, FacInv
<1>4. \A i \in 1..L : FacRow(facTbl, i) /\ facTbl[i] \in Int
  BY <1>3 DEF Inv, FacInv
<1>5. Len(stack) \in Nat /\ Len(stack) > 0 /\ n \in Int /\ L \in Nat
  BY <1>1, <1>3
<1> HIDE DEF v
<1>6. L = n - 1 /\ v \in Int /\ v = IF n = 1 THEN 1 ELSE facTbl[n - 1] * n
  <2>1. CASE ret # None
    <3>1. L = n - 1 /\ n > 1 /\ ret = facTbl[n - 1]
      BY <1>3, <2>1 DEF FacStack
    <3>2. n - 1 \in 1..L
      BY <1>5, <3>1
    <3>3. facTbl[n - 1] \in Int /\ v = facTbl[n - 1] * n
      BY <1>2, <1>4, <1>5, <3>1, <3>2
    <3> QED
      BY <1>5, <3>1, <3>3
  <2>2. CASE ~(L >= n) /\ n <= 1
    BY <1>2, <1>5, <2>2
  <2> QED
    BY <1>2, <2>1, <2>2
<1>7. facTbl' \in Seq(Int) /\ Len(facTbl') = n /\ facTbl'[n] = v /\ n \in 1..Len(facTbl')
  <2>1. /\ facTbl' \in Seq(Int) /\ Len(facTbl') = L + 1 /\ facTbl'[L + 1] = v
    BY <1>2, <1>3, <1>6, Appended
  <2>2. L + 1 = n /\ n \in 1..n
    BY <1>5, <1>6
  <2> QED
    BY <2>1, <2>2
<1>8. \A i \in 1..L : facTbl'[i] = facTbl[i]
  BY <1>2, <1>3, <1>6, Appended
<1>9. \A i \in 1..Len(facTbl') : FacRow(facTbl', i)
  <2> SUFFICES ASSUME NEW i \in 1..Len(facTbl') PROVE FacRow(facTbl', i)
    OBVIOUS
  <2>1. i \in 1..n
    BY <1>7
  <2>2. CASE i = n
    <3>1. n # 1 => n - 1 \in 1..L
      BY <1>5, <1>6
    <3> QED
      BY <1>6, <1>7, <1>8, <2>2, <3>1 DEF FacRow
  <2>3. CASE i # n
    <3>1. i \in 1..L /\ (i # 1 => i - 1 \in 1..L)
      BY <1>5, <1>6, <2>1, <2>3
    <3> QED
      BY <1>4, <1>8, <3>1 DEF FacRow
  <2> QED
    BY <2>2, <2>3
<1>10. /\ stack' \in Seq(Calls) /\ Len(stack') = Len(stack) - 1
       /\ \A k \in 1..Len(stack') :
            /\ k + 1 \in 2..Len(stack) /\ stack'[k] = stack[k + 1]
            /\ stack'[k].fn = "fac" /\ stack'[k].n = n + k
       /\ Len(stack') > 0 => 1 \in 1..Len(stack') /\ stack'[1].n = n + 1
  BY <1>1, <1>2, <1>3, FacReturned
<1>11. Len(stack') > 0 => stack'[1].fn = "fac" /\ answer' = None
  <2>1. Len(stack') > 0 => Len(stack) # 1
    BY <1>5, <1>10
  <2> QED
    BY <1>1, <1>2, <1>10, <2>1
<1>12. StackInv'
  <2>1. ret' \in Int \union {None} /\ fibTbl' \in Seq(Int)
    BY <1>2, <1>6 DEF Inv, StackInv
  <2> QED
    BY <1>7, <1>10, <1>11, <2>1 DEF StackInv
<1>13. FacInv'
  <2>1. ASSUME Len(stack') > 0 PROVE FacStack'
    <3>1. stack'[1].n = n + 1
      BY <1>10, <2>1
    <3>2. ASSUME NEW k \in 1..Len(stack')
          PROVE  stack'[k].n = stack'[1].n + (k - 1)
      <4>1. n + k = (n + 1) + (k - 1)
        BY <1>5
      <4> QED
        BY <1>10, <3>1, <4>1
    <3>3. ASSUME NEW k \in 2..Len(stack')
          PROVE  stack'[k].n > Len(facTbl') /\ stack'[k].n > 1
      <4>1. k \in 1..Len(stack') /\ n + k > n /\ n + k > 1
        BY <1>5, <1>6
      <4> QED
        BY <1>7, <1>10, <4>1
    <3>4. Len(facTbl') = stack'[1].n - 1 /\ stack'[1].n > 1 /\ ret' = facTbl'[stack'[1].n - 1]
      <4>1. (n + 1) - 1 = n /\ n + 1 > 1
        BY <1>5, <1>6
      <4> QED
        BY <1>2, <1>7, <3>1, <4>1
    <3> QED
      BY <3>2, <3>3, <3>4 DEF FacStack
  <2>2. FacAnswer'
    BY <1>1, <1>2, <1>7 DEF FacAnswer
  <2> QED
    BY <1>9, <2>1, <2>2 DEF FacInv
<1>14. FibInv'
  BY <1>1, <1>2, <1>11, FibAside
<1> QED
  BY <1>12, <1>13, <1>14 DEF Inv

------------------------------------------------------------------------------
(* fib. *)

(* A step of fib concerns fac's table only in that its stack is another.   *)
LEMMA FacAside ==
  ASSUME Inv, facTbl' = facTbl, Len(stack') > 0 => stack'[1].fn # "fac",
         answer' = None \/ answer'.fn # "fac"
  PROVE  FacInv'
BY DEF Inv, FacInv, FacAnswer

(* When a call of fib returns what the table now holds for its number, the *)
(* call that waits for it goes on.                                         *)
LEMMA FibReturned ==
  ASSUME stack \in Seq(Calls), Len(stack) \in Nat, Len(stack) > 0, FibStack,
         \A k \in 1..Len(stack) : stack[k].n \in Int,
         Len(fibTbl) \in Nat, Len(fibTbl') \in Nat, Len(fibTbl) <= Len(fibTbl'),
         \A i \in 1..Len(fibTbl) : fibTbl'[i] = fibTbl[i],
         \A k \in 2..Len(stack) : Len(fibTbl') <= stack[k].n,
         NEW n \in Int, n = stack[1].n, n + 1 <= Len(fibTbl'), ret' = fibTbl'[n + 1],
         stack' = Tail(stack), Len(stack') > 0
  PROVE  FibStack'
<1> DEFINE L == Len(fibTbl)
           M == Len(fibTbl')
           W == Len(stack')
<1>1. /\ stack' \in Seq(Calls) /\ W = Len(stack) - 1
      /\ \A k \in 1..W : k + 1 \in 2..Len(stack) /\ stack'[k] = stack[k + 1]
  BY Popped
<1>2. L \in Nat /\ M \in Nat /\ L <= M /\ W \in Nat /\ W > 0 /\ Len(stack) \in Nat
  BY <1>1
<1>3. \A k \in 1..W : /\ stack'[k].n \in Int
                      /\ M <= stack'[k].n /\ stack'[k].n >= 2
                      /\ stack[k].n = stack'[k].n - (IF stack'[k].left = None THEN 2 ELSE 1)
  <2> SUFFICES ASSUME NEW k \in 1..W
               PROVE  /\ stack'[k].n \in Int
                      /\ M <= stack'[k].n /\ stack'[k].n >= 2
                      /\ stack[k].n = stack'[k].n - (IF stack'[k].left = None THEN 2 ELSE 1)
    OBVIOUS
  <2>1. k + 1 \in 2..Len(stack) /\ stack'[k] = stack[k + 1] /\ (k + 1) - 1 = k
    BY <1>1, <1>2
  <2>2. stack[(k + 1) - 1].n = stack[k + 1].n - (IF stack[k + 1].left = None THEN 2 ELSE 1)
        /\ stack[k + 1].n >= 2
    BY <2>1 DEF FibStack
  <2>3. k + 1 \in 1..Len(stack)
    BY <1>2, <2>1
  <2> QED
    BY <2>1, <2>2, <2>3
<1>4. ASSUME NEW k \in 2..W
      PROVE  /\ M <= stack'[k].n /\ stack'[k].n >= 2
             /\ stack'[k - 1].n = stack'[k].n - (IF stack'[k].left = None THEN 2 ELSE 1)
  <2>1. k \in 1..W /\ k - 1 \in 1..W /\ (k - 1) + 1 = k
    BY <1>2
  <2>2. stack'[k - 1] = stack[k]
    BY <1>1, <2>1
  <2> QED
    BY <1>3, <2>1, <2>2
<1>5. ASSUME NEW j \in 1..W, NEW k \in 1..W, j < k
      PROVE  stack'[j].n < stack'[k].n
  <2>1. j + 1 \in 1..Len(stack) /\ k + 1 \in 1..Len(stack) /\ j + 1 < k + 1
    BY <1>1, <1>2, <1>5
  <2> QED
    BY <1>1, <2>1 DEF FibStack
<1>6. ASSUME NEW k \in 1..W, stack'[k].left # None
      PROVE  /\ 2 <= stack'[k].n /\ stack'[k].n - 1 <= M
             /\ stack'[k].left = fibTbl'[stack'[k].n - 1]
  <2> DEFINE m == stack'[k].n
  <2>1. k + 1 \in 1..Len(stack) /\ stack'[k] = stack[k + 1] /\ m \in Int
    BY <1>1, <1>2, <1>3
  <2>2. 2 <= m /\ m - 1 <= L /\ stack'[k].left = fibTbl[m - 1]
    BY <1>6, <2>1 DEF FibStack
  <2> HIDE DEF m
  <2>3. m - 1 \in 1..L /\ m - 1 <= M
    BY <1>2, <2>1, <2>2
  <2>4. stack'[k].left = fibTbl'[m - 1]
    BY <2>2, <2>3
  <2> QED
    BY <2>2, <2>3, <2>4 DEF m
<1>7. 1 \in 1..W
  BY <1>2
<1>8. /\ 2 <= stack'[1].n /\ M <= stack'[1].n
      /\ ret' # None /\ stack'[1].left = None =>
           stack'[1].n - 1 <= M /\ ret' = fibTbl'[stack'[1].n - 1]
      /\ ret' # None /\ stack'[1].left # None =>
           stack'[1].n <= M /\ ret' = fibTbl'[stack'[1].n]
  <2> DEFINE m == stack'[1].n
  <2>1. /\ m \in Int /\ M <= m /\ m >= 2
        /\ n = m - (IF stack'[1].left = None THEN 2 ELSE 1)
    BY <1>3, <1>7
  <2> HIDE DEF m
  <2>2. stack'[1].left = None => m - 1 = n + 1
    BY <2>1
  <2>3. stack'[1].left # None => m = n + 1
    BY <2>1
  <2> QED
    BY <2>1, <2>2, <2>3 DEF m
<1> QED
  BY <1>4, <1>5, <1>6, <1>8 DEF FibStack

(* When fib calls itself, the calls that wait keep their places. *)
LEMMA FibPushed ==
  ASSUME stack \in Seq(Calls), Len(stack) \in Nat, Len(stack) > 0, FibStack,
         \A k \in 1..Len(stack) : stack[k].n \in Int,
         Len(fibTbl) \in Nat, fibTbl' = fibTbl,
         NEW n \in Int, n = stack[1].n, 2 <= n, Len(fibTbl) <= n,
         NEW waits, waits.n = n,
         waits.left # None => n - 1 <= Len(fibTbl) /\ waits.left = fibTbl[n - 1],
         Len(stack') = Len(stack) + 1, stack'[2] = waits,
         stack'[1].left = None,
         stack'[1].n = n - (IF waits.left = None THEN 2 ELSE 1),
         \A k \in 3..Len(stack') : stack'[k] = stack[k - 1],
         ret' = None
  PROVE  FibStack'
<1> DEFINE L == Len(fibTbl)
           W == Len(stack')
<1>1. L \in Nat /\ W \in Nat /\ Len(stack) \in Nat /\ W = Len(stack) + 1 /\ n \in Int
  OBVIOUS
<1>2. stack'[1].n \in Int /\ stack'[1].n < n
  OBVIOUS
<1>3. \A k \in 2..W : k - 1 \in 1..Len(stack) /\ stack'[k].n = stack[k - 1].n
                      /\ stack'[k].n \in Int
  <2> SUFFICES ASSUME NEW k \in 2..W
               PROVE  k - 1 \in 1..Len(stack) /\ stack'[k].n = stack[k - 1].n
                      /\ stack'[k].n \in Int
    OBVIOUS
  <2>1. k - 1 \in 1..Len(stack) /\ (k = 2 \/ k \in 3..W)
    BY <1>1
  <2>2. CASE k = 2
    BY <2>1, <2>2
  <2>3. CASE k \in 3..W
    BY <2>1, <2>3
  <2> QED
    BY <2>1, <2>2, <2>3
<1>4. ASSUME NEW k \in 2..W
      PROVE  /\ L <= stack'[k].n /\ stack'[k].n >= 2
             /\ stack'[k - 1].n = stack'[k].n - (IF stack'[k].left = None THEN 2 ELSE 1)
  <2>1. CASE k = 2
    BY <2>1
  <2>2. CASE k # 2
    <3>1. /\ k \in 3..W /\ k - 1 \in 2..W /\ k - 1 \in 2..Len(stack)
          /\ stack'[k] = stack[k - 1]
      BY <1>1, <2>2
    <3>2. stack'[k - 1].n = stack[(k - 1) - 1].n
      BY <1>3, <3>1
    <3> QED
      BY <3>1, <3>2 DEF FibStack
  <2> QED
    BY <2>1, <2>2
<1>5. ASSUME NEW j \in 1..W, NEW k \in 1..W, j < k
      PROVE  stack'[j].n < stack'[k].n
  <2>1. k \in 2..W /\ (j = 1 \/ j \in 2..W)
    BY <1>1, <1>5
  <2>2. n <= stack'[k].n
    <3>1. k - 1 = 1 \/ (1 \in 1..Len(stack) /\ 1 < k - 1)
      BY <1>1, <2>1
    <3>2. k - 1 \in 1..Len(stack) /\ stack'[k].n = stack[k - 1].n /\ stack'[k].n \in Int
      BY <1>3, <2>1
    <3>3. CASE k - 1 = 1
      BY <1>1, <3>2, <3>3
    <3>4. CASE 1 \in 1..Len(stack) /\ 1 < k - 1
      BY <1>1, <3>2, <3>4 DEF FibStack
    <3> QED
      BY <3>1, <3>3, <3>4
  <2>3. CASE j = 1
    BY <1>1, <1>2, <1>3, <2>1, <2>2, <2>3
  <2>4. CASE j \in 2..W
    <3>1. j - 1 < k - 1
      BY <1>1, <1>5
    <3> QED
      BY <1>3, <2>1, <2>4, <3>1 DEF FibStack
  <2> QED
    BY <2>1, <2>3, <2>4
<1>6. ASSUME NEW k \in 1..W, stack'[k].left # None
      PROVE  /\ 2 <= stack'[k].n /\ stack'[k].n - 1 <= L
             /\ stack'[k].left = fibTbl[stack'[k].n - 1]
  <2>1. k = 2 \/ k \in 3..W
    BY <1>1, <1>6
  <2>2. CASE k = 2
    BY <1>6, <2>2
  <2>3. CASE k \in 3..W
    <3>1. k - 1 \in 1..Len(stack) /\ stack'[k] = stack[k - 1]
      BY <1>1, <2>3
    <3> QED
      BY <1>6, <3>1 DEF FibStack
  <2> QED
    BY <2>1, <2>2, <2>3
<1> QED
  BY <1>4, <1>5, <1>6 DEF FibStack

(* The number is in the table. *)
LEMMA FacfibFibFound ==
  ASSUME Inv, FibFound
  PROVE  Inv'
<1> DEFINE n == stack[1].n
           L == Len(fibTbl)
<1>1. /\ stack \in Seq(Calls) /\ Len(stack) \in Nat /\ Len(stack) > 0
      /\ stack[1].fn = "fib" /\ n \in Int /\ answer = None
      /\ \A k \in 1..Len(stack) : stack[k].fn = "fib" /\ stack[k].n \in Int
  BY OnTop DEF FibFound, Names
<1>2. /\ ret = None /\ L > n /\ n >= 0 /\ stack' = Tail(stack)
      /\ ret' = fibTbl[n + 1] /\ facTbl' = facTbl /\ fibTbl' = fibTbl
      /\ answer' = IF Len(stack) = 1
                   THEN [fn |-> stack[1].fn, n |-> n, value |-> fibTbl[n + 1]] ELSE answer
  BY DEF FibFound, FibKnown, Return, Top
<1>3. fibTbl \in Seq(Int) /\ L \in Nat
  BY DEF Inv, StackInv
<1>4. n + 1 \in 1..L /\ fibTbl[n + 1] \in Int /\ n + 1 <= L
  <2>1. n + 1 \in 1..L /\ n + 1 <= L
    BY <1>1, <1>2, <1>3
  <2> QED
    BY <1>3, <2>1, ElementOfSeq
<1>5. /\ stack' \in Seq(Calls) /\ Len(stack') = Len(stack) - 1
      /\ \A k \in 1..Len(stack') : k + 1 \in 2..Len(stack) /\ stack'[k] = stack[k + 1]
  BY <1>1, <1>2, Popped
<1>6. /\ \A k \in 1..Len(stack') : stack'[k].fn = "fib"
      /\ Len(stack') > 0 => 1 \in 1..Len(stack') /\ stack'[1].fn = "fib" /\ answer' = None
  <2>1. \A k \in 1..Len(stack') : k + 1 \in 1..Len(stack)
    BY <1>5
  <2>2. Len(stack') > 0 => 1 \in 1..Len(stack') /\ Len(stack) # 1
    BY <1>1, <1>5
  <2> QED
    BY <1>1, <1>2, <1>5, <2>1, <2>2
<1>7. StackInv'
  <2>1. ret' \in Int \union {None} /\ facTbl' \in Seq(Int) /\ fibTbl' \in Seq(Int)
    BY <1>2, <1>4 DEF Inv, StackInv
  <2> QED
    BY <1>5, <1>6, <2>1 DEF StackInv
<1>8. FacInv'
  BY <1>1, <1>2, <1>6, FacAside
<1>9. FibInv'
  <2> SUFFICES ASSUME Seedable PROVE
        /\ \A i \in 1..Len(fibTbl) : FibRow(fibTbl, i)
        /\ Len(stack') > 0 => FibStack'
        /\ FibAnswer'
    BY <1>2 DEF FibInv, Seedable
  <2>1. FibStack /\ \A i \in 1..L : FibRow(fibTbl, i)
    BY <1>1 DEF Inv, FibInv
  <2>2. Len(stack') > 0 => FibStack'
    <3>1. \A k \in 2..Len(stack) : L <= stack[k].n
      BY <2>1 DEF FibStack
    <3>2. L \in Nat /\ L <= L
      BY <1>3
    <3> QED
      BY <1>1, <1>2, <1>4, <2>1, <3>1, <3>2, FibReturned
  <2>3. FibAnswer'
    BY <1>1, <1>2, <1>4 DEF FibAnswer
  <2> QED
    BY <2>1, <2>2, <2>3
<1> QED
  BY <1>7, <1>8, <1>9 DEF Inv

(* The number is not in the table: fib calls itself for the one two below. *)
LEMMA FacfibFibCallLeft ==
  ASSUME Inv, FibCallLeft
  PROVE  Inv'
<1> DEFINE n == stack[1].n
           frame == Frame("fib", n - 2)
<1>1. /\ stack \in Seq(Calls) /\ Len(stack) \in Nat /\ Len(stack) > 0
      /\ stack[1].fn = "fib" /\ n \in Int /\ answer = None
      /\ \A k \in 1..Len(stack) : stack[k].fn = "fib" /\ stack[k].n \in Int
  BY OnTop DEF FibCallLeft, Names
<1>2. /\ ret = None /\ stack[1].left = None /\ ~(Len(fibTbl) > n) /\ n >= 2
      /\ stack' = <<frame>> \o stack /\ ret' = None
      /\ facTbl' = facTbl /\ fibTbl' = fibTbl /\ answer' = answer
  BY DEF FibCallLeft, FibKnown, Call, Top
<1>3. frame \in Calls /\ frame.fn = "fib" /\ frame.n = n - 2 /\ frame.left = None
  BY <1>1 DEF Frame, Calls, Names
<1> HIDE DEF frame
<1>4. /\ stack' \in Seq(Calls) /\ Len(stack') = Len(stack) + 1 /\ stack'[1] = frame
      /\ \A k \in 2..Len(stack') : k - 1 \in 1..Len(stack) /\ stack'[k] = stack[k - 1]
  BY <1>1, <1>2, <1>3, Pushed
<1>5. \A k \in 1..Len(stack') : stack'[k].fn = "fib"
  <2>1. \A k \in 1..Len(stack') : k = 1 \/ k \in 2..Len(stack')
    BY <1>1, <1>4
  <2> QED
    BY <1>1, <1>3, <1>4, <2>1
<1>6. StackInv'
  BY <1>1, <1>2, <1>3, <1>4, <1>5 DEF Inv, StackInv
<1>7. FacInv'
  BY <1>1, <1>2, <1>3, <1>4, FacAside
<1>8. FibInv'
  <2> SUFFICES ASSUME Seedable PROVE
        /\ \A i \in 1..Len(fibTbl) : FibRow(fibTbl, i)
        /\ FibStack'
        /\ FibAnswer'
    BY <1>2 DEF FibInv, Seedable
  <2>1. FibStack /\ \A i \in 1..Len(fibTbl) : FibRow(fibTbl, i)
    BY <1>1 DEF Inv, FibInv
  <2>2. FibStack'
    <3>1. Len(fibTbl) \in Nat /\ Len(fibTbl) <= n /\ 2 <= n
      <4>1. Len(fibTbl) \in Nat
        BY DEF Inv, StackInv
      <4> QED
        BY <1>1, <1>2, <4>1
    <3>2. stack'[2] = stack[1] /\ \A k \in 3..Len(stack') : stack'[k] = stack[k - 1]
      <4>1. 2 \in 2..Len(stack') /\ 2 - 1 = 1 /\ \A k \in 3..Len(stack') : k \in 2..Len(stack')
        BY <1>1, <1>4
      <4> QED
        BY <1>4, <4>1
    <3> QED
      BY <1>1, <1>2, <1>3, <1>4, <2>1, <3>1, <3>2, FibPushed
  <2>3. FibAnswer'
    BY <1>1, <1>2 DEF FibAnswer
  <2> QED
    BY <2>1, <2>2, <2>3
<1> QED
  BY <1>6, <1>7, <1>8 DEF Inv

(* Two calls put in front of a stack keep the others in order.             *)
LEMMA TwoInFront ==
  ASSUME NEW two \in Seq(Calls), Len(two) = 2, NEW rest \in Seq(Calls)
  PROVE  /\ two \o rest \in Seq(Calls)
         /\ Len(two \o rest) = 2 + Len(rest)
         /\ \A k \in 1..(2 + Len(rest)) :
              (two \o rest)[k] = IF k <= 2 THEN two[k] ELSE rest[k - 2]
<1> DEFINE all == two \o rest
           Split(m) == \A k \in 1..(m + Len(rest)) :
                         all[k] = IF k <= m THEN two[k] ELSE rest[k - m]
<1>1. all \in Seq(Calls) /\ Len(all) = Len(two) + Len(rest)
  BY ConcatProperties
<1>2. Split(Len(two))
  BY ConcatProperties
<1> HIDE DEF all, Split
<1>3. Split(2) /\ Len(all) = 2 + Len(rest)
  BY <1>1, <1>2
<1> QED
  BY <1>1, <1>3 DEF all, Split

(* fib has the first value and calls itself for the number one below.      *)
LEMMA FacfibFibCallRight ==
  ASSUME Inv, FibCallRight
  PROVE  Inv'
<1> DEFINE n == stack[1].n
           frame == Frame("fib", n - 1)
           waits == [stack[1] EXCEPT !.left = ret]
           rest == Tail(stack)
<1>1. /\ stack \in Seq(Calls) /\ Len(stack) \in Nat /\ Len(stack) > 0
      /\ stack[1].fn = "fib" /\ n \in Int /\ answer = None
      /\ stack[1] \in Calls /\ ret \in Int \union {None}
      /\ \A k \in 1..Len(stack) : stack[k].fn = "fib" /\ stack[k].n \in Int
  BY OnTop DEF FibCallRight, Names
<1>2. /\ ret # None /\ stack[1].left = None
      /\ stack' = <<frame, waits>> \o rest /\ ret' = None
      /\ facTbl' = facTbl /\ fibTbl' = fibTbl /\ answer' = answer
  BY DEF FibCallRight, Top
<1>3. /\ frame \in Calls /\ frame.fn = "fib" /\ frame.n = n - 1 /\ frame.left = None
      /\ waits \in Calls /\ waits.fn = "fib" /\ waits.n = n /\ waits.left = ret
  BY <1>1 DEF Frame, Calls, Names
<1>4. /\ rest \in Seq(Calls) /\ Len(rest) = Len(stack) - 1
      /\ \A k \in 1..Len(rest) : k + 1 \in 2..Len(stack) /\ rest[k] = stack[k + 1]
  BY <1>1, Popped
<1> HIDE DEF frame, waits, rest
<1>5. /\ stack' \in Seq(Calls) /\ Len(stack') = Len(stack) + 1 /\ stack'[1] = frame
      /\ stack'[2] = waits
      /\ \A k \in 3..Len(stack') : k - 1 \in 1..Len(stack) /\ stack'[k] = stack[k - 1]
  <2> DEFINE two == <<frame, waits>>
  <2>1. two \in Seq(Calls) /\ Len(two) = 2 /\ two[1] = frame /\ two[2] = waits
    BY <1>3
  <2>2. stack' = two \o rest
    BY <1>2
  <2> HIDE DEF two
  <2>3. /\ stack' \in Seq(Calls) /\ Len(stack') = 2 + Len(rest)
        /\ \A k \in 1..(2 + Len(rest)) : stack'[k] = IF k <= 2 THEN two[k] ELSE rest[k - 2]
    BY <1>4, <2>1, <2>2, TwoInFront
  <2>4. Len(stack') = Len(stack) + 1 /\ 2 + Len(rest) = Len(stack) + 1
    BY <1>1, <1>4, <2>3
  <2>5. ASSUME NEW k \in 3..Len(stack')
        PROVE  k - 1 \in 1..Len(stack) /\ stack'[k] = stack[k - 1]
    <3>1. /\ k \in 1..(2 + Len(rest)) /\ ~(k <= 2) /\ k - 2 \in 1..Len(rest)
          /\ (k - 2) + 1 = k - 1 /\ k - 1 \in 1..Len(stack)
      BY <1>1, <1>4, <2>4
    <3> QED
      BY <1>4, <2>3, <3>1
  <2>6. 1 \in 1..(2 + Len(rest)) /\ 2 \in 1..(2 + Len(rest))
    BY <1>1, <1>4
  <2> QED
    BY <2>1, <2>3, <2>4, <2>5, <2>6
<1>6. \A k \in 1..Len(stack') : stack'[k].fn = "fib"
  <2>1. \A k \in 1..Len(stack') : k = 1 \/ k = 2 \/ k \in 3..Len(stack')
    BY <1>1, <1>5
  <2> QED
    BY <1>1, <1>3, <1>5, <2>1
<1>7. StackInv'
  BY <1>1, <1>2, <1>3, <1>5, <1>6 DEF Inv, StackInv
<1>8. FacInv'
  BY <1>1, <1>2, <1>3, <1>5, FacAside
<1>9. FibInv'
  <2> SUFFICES ASSUME Seedable PROVE
        /\ \A i \in 1..Len(fibTbl) : FibRow(fibTbl, i)
        /\ FibStack'
        /\ FibAnswer'
    BY <1>2 DEF FibInv, Seedable
  <2>1. FibStack /\ \A i \in 1..Len(fibTbl) : FibRow(fibTbl, i)
    BY <1>1 DEF Inv, FibInv
  <2>2. FibStack'
    <3>1. Len(fibTbl) \in Nat
      BY DEF Inv, StackInv
    <3>2. /\ 2 <= n /\ Len(fibTbl) <= n
          /\ n - 1 <= Len(fibTbl) /\ ret = fibTbl[n - 1]
      BY <1>2, <2>1 DEF FibStack
    <3> QED
      BY <1>1, <1>2, <1>3, <1>5, <2>1, <3>1, <3>2, FibPushed
  <2>3. FibAnswer'
    BY <1>1, <1>2 DEF FibAnswer
  <2> QED
    BY <2>1, <2>2, <2>3
<1> QED
  BY <1>7, <1>8, <1>9 DEF Inv

(* The value is appended.  When the table began with the number for 0 this *)
(* is its place; an empty table may get the number for 1 first, and is     *)
(* then not Seedable any more.                                             *)
LEMMA FacfibFibAppend ==
  ASSUME Inv, FibAppend
  PROVE  Inv'
<1> DEFINE n == stack[1].n
           v == FibValue
           L == Len(fibTbl)
<1>1. /\ stack \in Seq(Calls) /\ Len(stack) \in Nat /\ Len(stack) > 0
      /\ stack[1].fn = "fib" /\ n \in Int /\ answer = None
      /\ ret \in Int \union {None} /\ stack[1].left \in Int \union {None}
      /\ \A k \in 1..Len(stack) : stack[k].fn = "fib" /\ stack[k].n \in Int
  BY OnTop DEF FibAppend, Names
<1>2. /\ \/ ret # None /\ stack[1].left # None
         \/ ret = None /\ ~(L > n) /\ n < 2
      /\ stack' = Tail(stack)
      /\ ret' = v /\ fibTbl' = Append(fibTbl, v) /\ facTbl' = facTbl
      /\ v = IF n < 2 THEN n ELSE stack[1].left + ret
      /\ answer' = IF Len(stack) = 1
                   THEN [fn |-> stack[1].fn, n |-> n, value |-> v] ELSE answer
  BY DEF FibAppend, FibKnown, FibValue, FibSum, Return, Top
<1> HIDE DEF v
<1>3. fibTbl \in Seq(Int) /\ L \in Nat
  BY DEF Inv, StackInv
<1>4. v \in Int
  BY <1>1, <1>2
<1>5. /\ fibTbl' \in Seq(Int) /\ Len(fibTbl') = L + 1 /\ fibTbl'[L + 1] = v
      /\ \A i \in 1..L : fibTbl'[i] = fibTbl[i]
  BY <1>2, <1>3, <1>4, Appended
<1>6. /\ stack' \in Seq(Calls) /\ Len(stack') = Len(stack) - 1
      /\ \A k \in 1..Len(stack') : k + 1 \in 2..Len(stack) /\ stack'[k] = stack[k + 1]
  BY <1>1, <1>2, Popped
<1>7. /\ \A k \in 1..Len(stack') : stack'[k].fn = "fib"
      /\ Len(stack') > 0 => 1 \in 1..Len(stack') /\ stack'[1].fn = "fib" /\ answer' = None
  <2>1. \A k \in 1..Len(stack') : k + 1 \in 1..Len(stack)
    BY <1>6
  <2>2. Len(stack') > 0 => 1 \in 1..Len(stack') /\ Len(stack) # 1
    BY <1>1, <1>6
  <2> QED
    BY <1>1, <1>2, <1>6, <2>1, <2>2
<1>8. StackInv'
  <2>1. ret' \in Int \union {None} /\ facTbl' \in Seq(Int)
    BY <1>2, <1>4 DEF Inv, StackInv
  <2> QED
    BY <1>5, <1>6, <1>7, <2>1 DEF StackInv
<1>9. FacInv'
  BY <1>1, <1>2, <1>7, FacAside
<1>10. FibInv'
  <2> SUFFICES ASSUME Seedable' PROVE
        /\ \A i \in 1..Len(fibTbl') : FibRow(fibTbl', i)
        /\ Len(stack') > 0 => FibStack'
        /\ FibAnswer'
    BY DEF FibInv
  <2>1. fibTbl'[1] = 0
    <3>1. L + 1 # 0
      BY <1>3
    <3> QED
      BY <1>5, <3>1 DEF Seedable
  <2>2. Seedable
    <3>1. L # 0 => 1 \in 1..L
      BY <1>3
    <3> QED
      BY <1>5, <2>1, <3>1 DEF Seedable
  <2>3. FibStack /\ \A i \in 1..L : FibRow(fibTbl, i)
    BY <1>1, <2>2 DEF Inv, FibInv
  <2>4. /\ L = n /\ n >= 0
        /\ n >= 2 => v = fibTbl[n - 1] + fibTbl[n]
        /\ n < 2 => v = n
    <3>1. CASE ret # None /\ stack[1].left # None
      <4>1. 1 \in 1..Len(stack)
        BY <1>1
      <4>2. /\ 2 <= n /\ L <= n /\ n <= L /\ ret = fibTbl[n]
            /\ stack[1].left = fibTbl[n - 1]
        BY <2>3, <3>1, <4>1 DEF FibStack
      <4>3. L = n /\ n >= 0 /\ ~(n < 2)
        BY <1>1, <1>3, <4>2
      <4> QED
        BY <1>2, <4>2, <4>3
    <3>2. CASE ret = None /\ ~(L > n) /\ n < 2
      <4>1. v = n /\ ~(n >= 2)
        BY <1>1, <1>2, <3>2
      <4>2. n = 0 \/ n = 1
        BY <1>1, <1>3, <3>2
      <4>3. n = 1 => L # 0
        BY <1>5, <2>1, <4>1
      <4>4. L = n /\ n >= 0
        BY <1>3, <3>2, <4>2, <4>3
      <4> QED
        BY <4>1, <4>4
    <3> QED
      BY <1>2, <3>1, <3>2
  <2>5. \A i \in 1..Len(fibTbl') : FibRow(fibTbl', i)
    <3> SUFFICES ASSUME NEW i \in 1..Len(fibTbl') PROVE FibRow(fibTbl', i)
      OBVIOUS
    <3>1. i \in 1..L \/ i = L + 1
      BY <1>3, <1>5
    <3>2. CASE i \in 1..L
      <4>1. FibRow(fibTbl, i) /\ fibTbl'[i] = fibTbl[i]
        BY <1>5, <2>3, <3>2
      <4>2. ~(i <= 2) => i - 1 \in 1..L /\ i - 2 \in 1..L
        BY <1>3, <3>2
      <4> QED
        BY <1>5, <4>1, <4>2 DEF FibRow
    <3>3. CASE i = L + 1
      <4>1. fibTbl'[i] = v
        BY <1>5, <3>3
      <4>2. CASE n < 2
        <5>1. i <= 2 /\ i - 1 = n
          BY <1>1, <2>4, <3>3, <4>2
        <5> QED
          BY <2>4, <4>1, <4>2, <5>1 DEF FibRow
      <4>3. CASE ~(n < 2)
        <5>1. ~(i <= 2) /\ i - 1 = n /\ i - 2 = n - 1 /\ n >= 2 /\ n \in 1..L /\ n - 1 \in 1..L
          BY <1>1, <1>3, <2>4, <3>3, <4>3, SMTT(30)
        <5>2. fibTbl'[n] = fibTbl[n] /\ fibTbl'[n - 1] = fibTbl[n - 1]
          BY <1>5, <5>1
        <5>3. fibTbl'[i] = fibTbl'[i - 2] + fibTbl'[i - 1]
          BY <2>4, <4>1, <5>1, <5>2
        <5> QED
          BY <5>1, <5>3 DEF FibRow
      <4> QED
        BY <4>2, <4>3
    <3> QED
      BY <3>1, <3>2, <3>3
  <2>6. n + 1 <= Len(fibTbl') /\ n + 1 \in 1..Len(fibTbl') /\ fibTbl'[n + 1] = v
    <3>1. n + 1 = L + 1 /\ L + 1 \in 1..(L + 1) /\ L + 1 <= L + 1
      BY <1>3, <2>4
    <3> QED
      BY <1>5, <3>1
  <2>7. Len(stack') > 0 => FibStack'
    <3>1. ASSUME NEW k \in 2..Len(stack) PROVE Len(fibTbl') <= stack[k].n
      <4>1. 1 \in 1..Len(stack) /\ k \in 1..Len(stack) /\ 1 < k
        BY <1>1
      <4>2. n < stack[k].n /\ stack[k].n \in Int
        BY <1>1, <2>3, <4>1 DEF FibStack
      <4>3. L + 1 <= stack[k].n
        BY <1>1, <1>3, <2>4, <4>2
      <4> QED
        BY <1>5, <4>3
    <3>2. L \in Nat /\ Len(fibTbl') \in Nat /\ L <= Len(fibTbl')
      BY <1>3, <1>5
    <3> QED
      BY <1>1, <1>2, <1>5, <2>3, <2>6, <3>1, <3>2, FibReturned
  <2>8. FibAnswer'
    BY <1>1, <1>2, <2>6 DEF FibAnswer
  <2> QED
    BY <2>5, <2>7, <2>8
<1> QED
  BY <1>8, <1>9, <1>10 DEF Inv

------------------------------------------------------------------------------
(* Recursion on arguments of smaller and smaller size. *)

(* A set of natural numbers that is not empty has a smallest one. *)
LEMMA LeastNumber ==
  ASSUME NEW T, T \subseteq Nat, T # {}
  PROVE  \E x \in T : \A y \in T : x <= y
<1>1. PICK x \in T : \A y \in T : <<y, x>> \notin OpToRel(<, Nat)
  BY NatLessThanWellFounded, WFMin
<1>2. ASSUME NEW y \in T PROVE x <= y
  <2>1. <<y, x>> \in Nat \X Nat /\ x \in Nat /\ y \in Nat
    OBVIOUS
  <2>2. ~(y < x)
    BY <1>1, <2>1 DEF OpToRel
  <2> QED
    BY <2>1, <2>2
<1> QED
  BY <1>2

(* Of some arguments one is the smallest. *)
LEMMA SmallestArgument ==
  ASSUME NEW A, NEW size \in [A -> Nat], NEW T, T \subseteq A, T # {}
  PROVE  \E a \in T : \A b \in A : size[b] < size[a] => b \notin T
<1> DEFINE N == {size[a] : a \in T}
<1>1. N \subseteq Nat /\ N # {}
  OBVIOUS
<1>2. PICK n \in N : \A m \in N : n <= m
  <2> HIDE DEF N
  <2> QED
    BY <1>1, LeastNumber
<1>3. PICK a \in T : size[a] = n
  BY <1>2
<1>4. ASSUME NEW b \in A, size[b] < size[a] PROVE b \notin T
  <2>1. b \in T => n <= size[b]
    BY <1>2
  <2>2. n \in Nat /\ size[b] \in Nat
    BY <1>1
  <2> QED
    BY <1>3, <1>4, <2>1, <2>2
<1> QED
  BY <1>4

(* g gives each argument a value from the values of the smaller ones. *)
FromSmaller(g, A, size, S) ==
  /\ size \in [A -> Nat]
  /\ g \in [A -> [[A -> S] -> S]]
  /\ \A a \in A, f, h \in [A -> S] :
       (\A b \in A : size[b] < size[a] => f[b] = h[b]) => g[a][f] = g[a][h]

(* f follows g for the arguments smaller than k. *)
Follows(f, g, A, size, k) == \A a \in A : size[a] < k => f[a] = g[a][f]

(* Two functions that follow g agree. *)
LEMMA FollowersAgree ==
  ASSUME NEW A, NEW size, NEW S, NEW g, FromSmaller(g, A, size, S),
         NEW j \in Nat, NEW k \in Nat, j <= k,
         NEW f \in [A -> S], NEW h \in [A -> S],
         Follows(f, g, A, size, j), Follows(h, g, A, size, k)
  PROVE  \A a \in A : size[a] < j => f[a] = h[a]
<1> DEFINE T == {n \in 0..(j - 1) : \E a \in A : size[a] = n /\ f[a] # h[a]}
<1>1. size \in [A -> Nat]
  BY DEF FromSmaller
<1> SUFFICES ASSUME T # {} PROVE FALSE
  BY <1>1
<1>2. PICK n \in T : \A m \in T : n <= m
  <2>1. T \subseteq Nat
    OBVIOUS
  <2> HIDE DEF T
  <2> QED
    BY <2>1, LeastNumber
<1>3. PICK a \in A : size[a] = n /\ f[a] # h[a]
  BY <1>2
<1>4. n \in Nat /\ n < j /\ n < k
  BY <1>2
<1>5. \A b \in A : size[b] < size[a] => f[b] = h[b]
  BY <1>1, <1>2, <1>3, <1>4
<1>6. g[a][f] = g[a][h]
  BY <1>3, <1>5 DEF FromSmaller
<1> QED
  BY <1>3, <1>4, <1>6 DEF Follows

(* Some function follows g as far as one likes. *)
LEMMA FollowerExists ==
  ASSUME NEW A, NEW size, NEW S, S # {}, NEW g, FromSmaller(g, A, size, S)
  PROVE  \A k \in Nat : \E f \in [A -> S] : Follows(f, g, A, size, k)
<1> DEFINE T == {k \in Nat : ~ \E f \in [A -> S] : Follows(f, g, A, size, k)}
<1>1. size \in [A -> Nat]
  BY DEF FromSmaller
<1> SUFFICES ASSUME T # {} PROVE FALSE
  OBVIOUS
<1>2. PICK k \in T : \A m \in T : k <= m
  BY LeastNumber
<1>3. k # 0
  <2>1. PICK s \in S : TRUE
    OBVIOUS
  <2>2. [a \in A |-> s] \in [A -> S] /\ Follows([a \in A |-> s], g, A, size, 0)
    BY <1>1, <2>1 DEF Follows
  <2> QED
    BY <1>2, <2>2
<1>4. k \in Nat /\ k - 1 \in Nat /\ k - 1 \notin T
  BY <1>2, <1>3
<1>5. PICK f \in [A -> S] : Follows(f, g, A, size, k - 1)
  BY <1>4
<1> DEFINE h == [a \in A |-> IF size[a] = k - 1 THEN g[a][f] ELSE f[a]]
<1>6. h \in [A -> S]
  BY DEF FromSmaller
<1>7. ASSUME NEW a \in A PROVE h[a] = IF size[a] = k - 1 THEN g[a][f] ELSE f[a]
  OBVIOUS
<1> HIDE DEF h
<1>8. ASSUME NEW a \in A, size[a] < k PROVE h[a] = g[a][h]
  <2>1. \A b \in A : size[b] < size[a] => f[b] = h[b]
    <3> SUFFICES ASSUME NEW b \in A, size[b] < size[a] PROVE f[b] = h[b]
      OBVIOUS
    <3>1. size[a] \in Nat /\ size[b] \in Nat
      BY <1>1
    <3>2. size[b] # k - 1
      BY <1>4, <1>8, <3>1
    <3> QED
      BY <1>7, <3>2
  <2>2. g[a][f] = g[a][h]
    BY <1>6, <2>1 DEF FromSmaller
  <2>3. CASE size[a] = k - 1
    BY <1>7, <2>2, <2>3
  <2>4. CASE size[a] # k - 1
    <3>1. size[a] < k - 1
      BY <1>1, <1>4, <1>8, <2>4
    <3> QED
      BY <1>5, <1>7, <2>2, <2>4, <3>1 DEF Follows
  <2> QED
    BY <2>3, <2>4
<1> QED
  BY <1>2, <1>6, <1>8 DEF Follows

(* A definition by recursion on smaller arguments defines a function. *)
LEMMA Recursion ==
  ASSUME NEW A, NEW size, NEW S, S # {}, NEW g, FromSmaller(g, A, size, S)
  PROVE  \E f \in [A -> S] : \A a \in A : f[a] = g[a][f]
<1> DEFINE upto(k) == CHOOSE f \in [A -> S] : Follows(f, g, A, size, k)
           F == [a \in A |-> upto(size[a] + 1)[a]]
<1>1. \A k \in Nat : upto(k) \in [A -> S] /\ Follows(upto(k), g, A, size, k)
  BY FollowerExists
<1>2. size \in [A -> Nat]
  BY DEF FromSmaller
<1> HIDE DEF upto
<1>3. F \in [A -> S]
  BY <1>1, <1>2
<1>4. ASSUME NEW a \in A PROVE F[a] = g[a][F]
  <2> DEFINE n == size[a]
             u == upto(n + 1)
  <2>1. n \in Nat /\ n + 1 \in Nat
    BY <1>2
  <2>2. u \in [A -> S] /\ Follows(u, g, A, size, n + 1)
    BY <1>1, <2>1
  <2>3. ASSUME NEW b \in A, size[b] < n PROVE F[b] = u[b]
    <3> DEFINE w == upto(size[b] + 1)
    <3>1. /\ size[b] \in Nat /\ size[b] + 1 \in Nat /\ size[b] + 1 <= n + 1
          /\ size[b] < size[b] + 1
      BY <1>2, <2>1, <2>3
    <3>2. w \in [A -> S] /\ Follows(w, g, A, size, size[b] + 1)
      BY <1>1, <3>1
    <3>3. F[b] = w[b]
      OBVIOUS
    <3> HIDE DEF u, w, F
    <3>4. \A c \in A : size[c] < size[b] + 1 => w[c] = u[c]
      BY <2>1, <2>2, <3>1, <3>2, FollowersAgree
    <3> QED
      BY <3>1, <3>3, <3>4
  <2>4. g[a][F] = g[a][u]
    <3> HIDE DEF u, F
    <3> QED
      BY <1>3, <2>2, <2>3 DEF FromSmaller
  <2>5. u[a] = g[a][u]
    <3>1. size[a] < n + 1
      BY <2>1
    <3> HIDE DEF u
    <3> QED
      BY <2>2, <3>1 DEF Follows
  <2>6. F[a] = u[a]
    OBVIOUS
  <2> QED
    BY <2>4, <2>5, <2>6
<1> HIDE DEF F
<1> QED
  BY <1>3, <1>4

(* The Fibonacci numbers are defined for every number. *)
LEMMA FibonacciDef ==
  /\ fibonacci \in [Nat -> Nat] /\ fibonacci[0] = 0 /\ fibonacci[1] = 1
  /\ \A n \in Nat : fibonacci[n + 2] = fibonacci[n] + fibonacci[n + 1]
<1> DEFINE S == Nat
           size == [n \in Nat |-> n]
           g == [n \in Nat |-> [f \in [Nat -> S] |->
                   IF n < 2 THEN n ELSE f[n - 2] + f[n - 1]]]
<1>1. \A n \in Nat, f \in [Nat -> S] :
        /\ g[n][f] = IF n < 2 THEN n ELSE f[n - 2] + f[n - 1]
        /\ g[n][f] \in S
  OBVIOUS
<1>2. g \in [Nat -> [[Nat -> S] -> S]]
  BY <1>1
<1> HIDE DEF g
<1>3. FromSmaller(g, Nat, size, S)
  <2> SUFFICES ASSUME NEW n \in Nat, NEW f \in [Nat -> S], NEW h \in [Nat -> S],
                      \A m \in Nat : size[m] < size[n] => f[m] = h[m]
               PROVE  g[n][f] = g[n][h]
    BY <1>2 DEF FromSmaller
  <2>1. n < 2 \/ (/\ n - 1 \in Nat /\ size[n - 1] < size[n]
                  /\ n - 2 \in Nat /\ size[n - 2] < size[n])
    OBVIOUS
  <2> QED
    BY <1>1, <2>1, SMTT(30)
<1>4. PICK f \in [Nat -> S] : \A n \in Nat : f[n] = g[n][f]
  <2>1. S # {}
    OBVIOUS
  <2> HIDE DEF S, size
  <2> QED
    BY <1>3, <2>1, Recursion
<1>5. f = [n \in Nat |-> IF n < 2 THEN n ELSE f[n - 2] + f[n - 1]]
  BY <1>1, <1>4
<1>6. fibonacci = [n \in Nat |-> IF n < 2 THEN n ELSE fibonacci[n - 2] + fibonacci[n - 1]]
  BY <1>5 DEF fibonacci
<1>7. /\ fibonacci[0] = 0 /\ fibonacci[1] = 1
      /\ \A n \in Nat : fibonacci[n + 2] = fibonacci[n] + fibonacci[n + 1]
  <2>1. \A n \in Nat : fibonacci[n] = IF n < 2 THEN n ELSE fibonacci[n - 2] + fibonacci[n - 1]
    BY <1>6
  <2>2. ASSUME NEW n \in Nat PROVE fibonacci[n + 2] = fibonacci[n] + fibonacci[n + 1]
    <3>1. n + 2 \in Nat /\ ~(n + 2 < 2) /\ (n + 2) - 2 = n /\ (n + 2) - 1 = n + 1
      OBVIOUS
    <3> QED
      BY <2>1, <3>1
  <2> QED
    BY <2>1, <2>2
<1>8. ASSUME NEW n \in Nat, fibonacci[n] \notin Nat PROVE FALSE
  <2> DEFINE T == {k \in Nat : fibonacci[k] \notin Nat}
  <2>1. PICK k \in T : \A m \in T : k <= m
    <3>1. T \subseteq Nat /\ T # {}
      BY <1>8
    <3> QED
      BY <3>1, LeastNumber
  <2>2. k \in Nat /\ k # 0 /\ k # 1
    BY <1>7, <2>1
  <2>3. /\ k - 2 \in Nat /\ k - 1 \in Nat /\ k - 2 \notin T /\ k - 1 \notin T
        /\ (k - 2) + 2 = k /\ (k - 2) + 1 = k - 1
    BY <2>1, <2>2
  <2>4. fibonacci[k] = fibonacci[k - 2] + fibonacci[k - 1]
    BY <1>7, <2>3
  <2>5. fibonacci[k - 2] \in Nat /\ fibonacci[k - 1] \in Nat
    BY <2>3
  <2> QED
    BY <2>1, <2>4, <2>5
<1> QED
  BY <1>6, <1>7, <1>8

(* The Fibonacci numbers at twice a number, from those at the number: what *)
(* makes doubling right.                                                   *)
LEMMA FibonacciDoubles ==
  \A k \in Nat :
    LET p == fibonacci[k]
        q == fibonacci[k + 1]
    IN /\ fibonacci[2 * k] = p * (q * 2 - p)
       /\ fibonacci[2 * k + 1] = p * p + q * q
<1> DEFINE F(n) == fibonacci[n]
           P(k) == /\ F(2 * k) = F(k) * (F(k + 1) * 2 - F(k))
                   /\ F(2 * k + 1) = F(k) * F(k) + F(k + 1) * F(k + 1)
           T == {k \in Nat : ~P(k)}
<1>1. /\ \A n \in Nat : F(n) \in Nat /\ F(n + 2) = F(n) + F(n + 1)
      /\ F(0) = 0 /\ F(1) = 1
  BY FibonacciDef
<1> SUFFICES ASSUME T # {} PROVE FALSE
  OBVIOUS
<1>2. PICK k \in T : \A m \in T : k <= m
  BY LeastNumber
<1>3. k # 0
  <2>1. P(0)
    BY <1>1
  <2> QED
    BY <1>2, <2>1
<1>4. PICK j \in Nat : k = j + 1
  <2>1. k \in Nat /\ k - 1 \in Nat /\ k = (k - 1) + 1
    BY <1>2, <1>3
  <2> QED
    BY <2>1
<1>5. P(j)
  BY <1>2, <1>4
<1>6. PICK u \in Nat, v \in Nat : u = F(j) /\ v = F(j + 1) /\ F(j + 2) = u + v
  <2>1. F(j) \in Nat /\ F(j + 1) \in Nat /\ F(j + 2) = F(j) + F(j + 1)
    BY <1>1
  <2> QED
    BY <2>1
<1>7. F(2 * j) = u * (v * 2 - u) /\ F(2 * j + 1) = u * u + v * v
  BY <1>5, <1>6
<1>8. F(2 * j + 2) = F(2 * j) + F(2 * j + 1) /\ F(2 * j + 3) = F(2 * j + 1) + F(2 * j + 2)
  <2>1. 2 * j \in Nat /\ 2 * j + 1 \in Nat /\ (2 * j + 1) + 1 = 2 * j + 2
        /\ (2 * j + 1) + 2 = 2 * j + 3
    OBVIOUS
  <2> QED
    BY <1>1, <2>1
<1>9. /\ k + 1 = j + 2 /\ 2 * k = 2 * j + 2 /\ 2 * k + 1 = 2 * j + 3
  BY <1>4
<1>10. /\ u * (v * 2 - u) + (u * u + v * v) = v * ((u + v) * 2 - v)
       /\ (u * u + v * v) + v * ((u + v) * 2 - v) = v * v + (u + v) * (u + v)
  OBVIOUS
<1>11. P(k)
  <2> HIDE DEF F
  <2> QED
    BY <1>4, <1>6, <1>7, <1>8, <1>9, <1>10
<1> QED
  BY <1>2, <1>11

(* A number, its half and what is left over. *)
LEMMA Halves ==
  \A n \in Nat : n # 0 =>
    \E k \in Nat, d \in {0, 1} : k = n \div 2 /\ d = n % 2 /\ k < n /\ n = 2 * k + d
<1>1. \A i \in Nat : i % 2 = i - 2 * (i \div 2)
  BY Z3
<1>2. \A i \in Nat : i \div 2 \in Nat /\ i % 2 \in 0..1
  OBVIOUS
<1>3. \A i, j \in Nat, d \in 0..1 :
        i # 0 /\ d = i - 2 * j => j < i /\ i = 2 * j + d /\ d \in {0, 1}
  OBVIOUS
<1>4. ASSUME NEW n \in Nat, NEW k \in Nat, NEW d \in 0..1,
             k = n \div 2, d = n % 2, n # 0
      PROVE  k < n /\ n = 2 * k + d /\ d \in {0, 1}
  <2>1. d = n - 2 * k
    BY <1>1, <1>4
  <2> QED
    BY <1>3, <1>4, <2>1
<1> SUFFICES ASSUME NEW n \in Nat, n # 0
             PROVE  \E k \in Nat, d \in {0, 1} :
                      k = n \div 2 /\ d = n % 2 /\ k < n /\ n = 2 * k + d
  OBVIOUS
<1>5. PICK k \in Nat, d \in 0..1 : k = n \div 2 /\ d = n % 2
  BY <1>2
<1>6. k < n /\ n = 2 * k + d /\ d \in {0, 1}
  BY <1>4, <1>5
<1> QED
  BY <1>5, <1>6, Zenon

(* fastFibH is defined, and gives two neighbouring Fibonacci numbers.      *)
LEMMA FastFibCorrect ==
  \A n \in Nat : fastFibH[n] = <<fibonacci[n], fibonacci[n + 1]>>
<1> DEFINE S == Int \X Int
           size == [n \in Nat |-> n]
           g == [n \in Nat |-> [f \in [Nat -> S] |->
                   IF n = 0 THEN <<0, 1>> ELSE Doubled(f[n \div 2], n % 2 # 0)]]
<1>1. ASSUME NEW q \in S, NEW odd \in BOOLEAN PROVE Doubled(q, odd) \in S
  BY DEF Doubled
<1>2. \A n \in Nat, f \in [Nat -> S] :
        /\ g[n][f] = IF n = 0 THEN <<0, 1>> ELSE Doubled(f[n \div 2], n % 2 # 0)
        /\ g[n][f] \in S
  <2> SUFFICES ASSUME NEW n \in Nat, NEW f \in [Nat -> S]
               PROVE  /\ g[n][f] = IF n = 0 THEN <<0, 1>> ELSE Doubled(f[n \div 2], n % 2 # 0)
                      /\ g[n][f] \in S
    OBVIOUS
  <2>1. n \div 2 \in Nat /\ f[n \div 2] \in S /\ <<0, 1>> \in S
    OBVIOUS
  <2>2. Doubled(f[n \div 2], n % 2 # 0) \in S
    BY <1>1, <2>1
  <2>3. g[n][f] = IF n = 0 THEN <<0, 1>> ELSE Doubled(f[n \div 2], n % 2 # 0)
    OBVIOUS
  <2> QED
    BY <2>1, <2>2, <2>3
<1>3. g \in [Nat -> [[Nat -> S] -> S]]
  BY <1>2
<1> HIDE DEF g
<1>4. FromSmaller(g, Nat, size, S)
  <2> SUFFICES ASSUME NEW n \in Nat, NEW f \in [Nat -> S], NEW h \in [Nat -> S],
                      \A m \in Nat : size[m] < size[n] => f[m] = h[m]
               PROVE  g[n][f] = g[n][h]
    BY <1>3 DEF FromSmaller
  <2>1. n = 0 \/ f[n \div 2] = h[n \div 2]
    <3>1. n = 0 \/ (n \div 2 \in Nat /\ size[n \div 2] < size[n])
      OBVIOUS
    <3> QED
      BY <3>1
  <2>2. /\ g[n][f] = IF n = 0 THEN <<0, 1>> ELSE Doubled(f[n \div 2], n % 2 # 0)
        /\ g[n][h] = IF n = 0 THEN <<0, 1>> ELSE Doubled(h[n \div 2], n % 2 # 0)
    BY <1>2
  <2> QED
    BY <2>1, <2>2
<1>5. PICK f \in [Nat -> S] : \A n \in Nat : f[n] = g[n][f]
  <2>1. <<0, 1>> \in S
    OBVIOUS
  <2>2. S # {}
    BY <2>1
  <2> HIDE DEF S, size
  <2> QED
    BY <1>4, <2>2, Recursion
<1>6. f = [n \in Nat |-> IF n = 0 THEN <<0, 1>> ELSE Doubled(f[n \div 2], n % 2 # 0)]
  BY <1>2, <1>5
<1>7. fastFibH = [n \in Nat |-> IF n = 0 THEN <<0, 1>>
                                ELSE Doubled(fastFibH[n \div 2], n % 2 # 0)]
  BY <1>6 DEF fastFibH
<1> DEFINE Pair(n) == <<fibonacci[n], fibonacci[n + 1]>>
           T == {n \in Nat : fastFibH[n] # Pair(n)}
<1> SUFFICES ASSUME T # {} PROVE FALSE
  OBVIOUS
<1>8. PICK n \in T : \A m \in T : n <= m
  BY LeastNumber
<1>9. CASE n = 0
  BY <1>7, <1>8, <1>9, FibonacciDef
<1>10. CASE n # 0
  <2>1. PICK k \in Nat, r \in {0, 1} :
          k = n \div 2 /\ r = n % 2 /\ k < n /\ n = 2 * k + r
    <3>1. n \in Nat /\ n # 0
      BY <1>8, <1>10
    <3> QED
      BY <3>1, Halves
  <2>2. fastFibH[k] = Pair(k)
    BY <1>8, <2>1
  <2>3. fastFibH[n] = Doubled(Pair(k), r # 0)
    BY <1>7, <1>8, <1>10, <2>1, <2>2
  <2> DEFINE u == fibonacci[k]
             v == fibonacci[k + 1]
             c == u * (v * 2 - u)
             d == u * u + v * v
  <2>4. Doubled(Pair(k), r # 0) = IF r # 0 THEN <<d, c + d>> ELSE <<c, d>>
    BY DEF Doubled
  <2>5. fibonacci[2 * k] = c /\ fibonacci[2 * k + 1] = d
    BY FibonacciDoubles
  <2>6. fibonacci[2 * k + 2] = c + d
    <3>1. 2 * k \in Nat
      OBVIOUS
    <3> QED
      BY <2>5, <3>1, FibonacciDef
  <2> HIDE DEF c, d
  <2>7. CASE r = 0
    <3>1. n = 2 * k /\ n + 1 = 2 * k + 1
      BY <2>1, <2>7
    <3> QED
      BY <1>8, <2>3, <2>4, <2>5, <2>7, <3>1
  <2>8. CASE r = 1
    <3>1. n = 2 * k + 1 /\ n + 1 = 2 * k + 2
      BY <2>1, <2>8
    <3> QED
      BY <1>8, <2>3, <2>4, <2>5, <2>6, <2>8, <3>1
  <2> QED
    BY <2>1, <2>7, <2>8
<1> QED
  BY <1>9, <1>10

------------------------------------------------------------------------------
(* Whatever numbers clients ask for, in whatever order: how the stack and  *)
(* the two tables stand to each other.                                     *)
THEOREM FacfibInvariance == Spec => []Inv
<1>1. Inv /\ [Next]_vars => Inv'
  <2> SUFFICES ASSUME Inv, [Next]_vars PROVE Inv'
    OBVIOUS
  <2>1. ASSUME NEW f \in Names, NEW n \in Numbers, Request(f, n) PROVE Inv'
    BY <2>1, FacfibRequest
  <2>2. CASE FacSubscript \/ FibSubscript \/ FastFibFail
    BY <2>2, FacfibRaise DEF FacSubscript, FibSubscript, FastFibFail
  <2>3. CASE FacFound
    BY <2>3, FacfibFacFound
  <2>4. CASE FacCall
    BY <2>4, FacfibFacCall
  <2>5. CASE FacAppend
    BY <2>5, FacfibFacAppend
  <2>6. CASE FibFound
    BY <2>6, FacfibFibFound
  <2>7. CASE FibCallLeft
    BY <2>7, FacfibFibCallLeft
  <2>8. CASE FibCallRight
    BY <2>8, FacfibFibCallRight
  <2>9. CASE FibAppend
    BY <2>9, FacfibFibAppend
  <2>10. CASE FastFib
    BY <2>10, FacfibFastFib
  <2>11. CASE UNCHANGED vars
    BY <2>11 DEF vars, Inv, StackInv, FacInv, FacStack, FacAnswer, FibInv, FibStack,
                 FibAnswer, Seedable
  <2> QED
    BY <2>1, <2>2, <2>3, <2>4, <2>5, <2>6, <2>7, <2>8, <2>9, <2>10, <2>11
    DEF Next, Step, Names
<1> QED
  BY <1>1, FacfibInit, PTL DEF Spec

(* fac's table holds the factorials and nothing else, and an answered      *)
(* request got the entry of its number, whatever was asked before and      *)
(* whatever raised in between.                                             *)
THEOREM FacCorrect == Spec => []FacExact
<1>1. Inv => FacExact
  <2> SUFFICES ASSUME Inv PROVE FacExact
    OBVIOUS
  <2>1. DOMAIN facTbl = 1..Len(facTbl)
    BY DEF Inv, StackInv
  <2> QED
    BY <2>1 DEF Inv, FacInv, FacAnswer, FacExact
<1> QED
  BY <1>1, FacfibInvariance, PTL

(* When the first number fib stored was the one for 0, its table and its   *)
(* answers are the Fibonacci numbers for ever after.                       *)
THEOREM FibCorrectIfSeeded == Spec => []FibExactIfSeeded
<1>1. Inv => FibExactIfSeeded
  <2> SUFFICES ASSUME Inv, fibTbl[1] = 0
               PROVE  /\ \A i \in DOMAIN fibTbl : FibRow(fibTbl, i)
                      /\ answer # None /\ answer.fn = "fib" =>
                           answer.n + 1 \in DOMAIN fibTbl /\ answer.value = fibTbl[answer.n + 1]
    BY DEF FibExactIfSeeded
  <2>1. DOMAIN fibTbl = 1..Len(fibTbl)
    BY DEF Inv, StackInv
  <2>2. Seedable
    BY DEF Seedable
  <2> QED
    BY <2>1, <2>2 DEF Inv, FibInv, FibAnswer
<1> QED
  BY <1>1, FacfibInvariance, PTL

(* fastFib answers with the Fibonacci numbers: doubling computes what the  *)
(* definition says, for every number a client may send.                    *)
THEOREM FastFibIsFibonacci == Spec => []FastFibExact
<1> DEFINE Fast == answer # None /\ answer.fn = "fastFib" =>
                     answer.n \in Nat /\ answer.value = fibonacci[answer.n]
<1>1. Init => Fast
  BY DEF Init
<1>2. Inv /\ Fast /\ [Next]_vars => Fast'
  <2> SUFFICES ASSUME Inv, Fast, [Next]_vars PROVE Fast'
    OBVIOUS
  <2>1. ASSUME NEW f \in Names, NEW n \in Numbers, Request(f, n) PROVE Fast'
    BY <2>1 DEF Request
  <2>2. CASE FacSubscript \/ FibSubscript \/ FastFibFail
    BY <2>2 DEF FacSubscript, FibSubscript, FastFibFail, Raise
  <2>3. ASSUME NEW f \in Names, f # "fastFib", NEW v, In(f), Return(v) PROVE Fast'
    BY <2>3, OnTop DEF Return
  <2>4. CASE FacFound \/ FacAppend
    BY <2>3, <2>4 DEF FacFound, FacAppend, Names
  <2>5. CASE FibFound \/ FibAppend
    BY <2>3, <2>5 DEF FibFound, FibAppend, Names
  <2>6. CASE FacCall \/ FibCallLeft \/ FibCallRight \/ UNCHANGED vars
    BY <2>6 DEF FacCall, FibCallLeft, FibCallRight, Call, vars
  <2>7. CASE FastFib
    <3>1. Top.n \in Int /\ Top.n >= 0 /\ answer = None
      BY <2>7, OnTop DEF FastFib, Names
    <3>2. fastFibH[Top.n][1] = fibonacci[Top.n] /\ Top.n \in Nat
      BY <3>1, FastFibCorrect
    <3> QED
      BY <2>7, <3>1, <3>2 DEF FastFib, Return
  <2> QED
    BY <2>1, <2>2, <2>4, <2>5, <2>6, <2>7 DEF Next, Step, Names
<1>3. Fast => FastFibExact
  BY DEF FastFibExact
<1> QED
  BY <1>1, <1>2, <1>3, FacfibInvariance, PTL DEF Spec

------------------------------------------------------------------------------
(* The merge sort: lists, their first element and the rest. *)

LEMMA EmptyList == <<>> \in IntLists /\ \A l \in IntLists : (l = <<>> <=> Len(l) = 0) /\ Len(l) \in Nat
BY DEF IntLists

(* A list that is not empty is its first element and a shorter list. *)
LEMMA FirstAndRest ==
  ASSUME NEW l \in IntLists, l # <<>>
  PROVE  /\ l[1] \in Int /\ Tail(l) \in IntLists /\ Len(Tail(l)) = Len(l) - 1
         /\ Len(l) \in Nat /\ Len(l) >= 1
         /\ l = <<l[1]>> \o Tail(l)
<1>1. /\ l[1] \in Int /\ Tail(l) \in Seq(Int) /\ Len(Tail(l)) = Len(l) - 1
      /\ Len(l) \in Nat /\ Len(l) >= 1
  BY DEF IntLists
<1>2. <<l[1]>> \o Tail(l) = l
  BY <1>1 DEF IntLists
<1> QED
  BY <1>1, <1>2 DEF IntLists

LEMMA FirstTwo ==
  ASSUME NEW l \in IntLists, l # <<>>, Len(l) # 1
  PROVE  /\ l[1] \in Int /\ l[2] \in Int /\ l[2] = Tail(l)[1]
         /\ Tail(l) \in IntLists /\ Tail(l) # <<>> /\ Tail(Tail(l)) \in IntLists
         /\ Len(l) \in Nat /\ Len(l) >= 2 /\ Len(Tail(Tail(l))) = Len(l) - 2
         /\ Len(Tail(Tail(l))) < Len(l)
<1>0. /\ l[1] \in Int /\ Tail(l) \in IntLists /\ Len(Tail(l)) = Len(l) - 1
      /\ Len(l) \in Nat /\ Len(l) >= 1
  BY FirstAndRest, Zenon
<1>1. /\ l[1] \in Int /\ Tail(l) \in IntLists /\ Len(Tail(l)) = Len(l) - 1
      /\ Len(l) \in Nat /\ Len(l) >= 2
  BY <1>0
<1>2. Tail(l) # <<>> /\ l[2] = Tail(l)[1]
  <2>1. l \in Seq(Int) /\ Len(Tail(l)) >= 1
    BY <1>1 DEF IntLists
  <2>2. Tail(l) # <<>>
    <3>1. Tail(l) = <<>> => Len(Tail(l)) = 0
      BY <1>1, EmptyList, Zenon
    <3> QED
      BY <2>1, <3>1
  <2>3. Tail(l)[1] = l[1 + 1]
    BY <1>1, <2>1
  <2> QED
    BY <2>2, <2>3
<1>3. Tail(l)[1] \in Int /\ Tail(Tail(l)) \in IntLists /\ Len(Tail(Tail(l))) = Len(Tail(l)) - 1
  BY <1>1, <1>2, FirstAndRest, Zenon
<1> QED
  BY <1>1, <1>2, <1>3

LEMMA InFront ==
  ASSUME NEW h \in Int, NEW t \in IntLists
  PROVE  /\ <<h>> \o t \in IntLists /\ Len(<<h>> \o t) = Len(t) + 1 /\ Len(t) \in Nat
         /\ <<h>> \o t # <<>> /\ (<<h>> \o t)[1] = h
         /\ \A i \in 2..(Len(t) + 1) : (<<h>> \o t)[i] = t[i - 1]
BY DEF IntLists

(* How often a number is in a list. *)
LEMMA CountNat ==
  ASSUME NEW l \in IntLists, NEW x
  PROVE  Occurrences(l, x) \in Nat /\ IsFiniteSet({i \in 1..Len(l) : l[i] = x})
<1>1. Len(l) \in Nat /\ 1 \in Int
  BY DEF IntLists
<1>2. IsFiniteSet(1..Len(l))
  BY <1>1, FS_Interval
<1>3. {i \in 1..Len(l) : l[i] = x} \in SUBSET (1..Len(l))
  OBVIOUS
<1> QED
  BY <1>2, <1>3, FS_Subset, FS_CardinalityType DEF Occurrences

LEMMA CountEmpty == \A x : Occurrences(<<>>, x) = 0
<1> SUFFICES ASSUME NEW x PROVE Occurrences(<<>>, x) = 0
  OBVIOUS
<1>1. {i \in 1..Len(<<>>) : <<>>[i] = x} = {}
  OBVIOUS
<1> QED
  BY <1>1, FS_EmptySet DEF Occurrences

Is(h, x) == IF h = x THEN 1 ELSE 0

LEMMA CountInFront ==
  ASSUME NEW h \in Int, NEW t \in IntLists, NEW x
  PROVE  Occurrences(<<h>> \o t, x) = Occurrences(t, x) + Is(h, x)
<1> DEFINE c == <<h>> \o t
           A == {i \in 1..Len(t) : t[i] = x}
           B == {i \in 2..Len(c) : c[i] = x}
           C == {i \in 1..Len(c) : c[i] = x}
           move == [i \in A |-> i + 1]
<1>1. /\ c \in IntLists /\ Len(c) = Len(t) + 1 /\ Len(t) \in Nat /\ c[1] = h
      /\ \A i \in 2..(Len(t) + 1) : c[i] = t[i - 1]
  BY InFront
<1>2. IsFiniteSet(A) /\ Cardinality(A) \in Nat /\ Cardinality(A) = Occurrences(t, x)
  BY CountNat DEF Occurrences
<1> HIDE DEF c
<1>3. move \in Bijection(A, B)
  <2>1. \A i \in A : i + 1 \in B
    BY <1>1
  <2>2. \A j \in B : j - 1 \in A /\ move[j - 1] = j
    BY <1>1
  <2>3. \A i, j \in A : move[i] = move[j] => i = j
    BY <1>1
  <2> QED
    BY <2>1, <2>2, <2>3 DEF Bijection, Injection, Surjection, IsInjective
<1>4. IsFiniteSet(B) /\ Cardinality(B) = Occurrences(t, x)
  <2>1. ExistsBijection(A, B)
    BY <1>3 DEF ExistsBijection
  <2> HIDE DEF A, B
  <2> QED
    BY <1>2, <2>1, FS_Bijection
<1>5. CASE h = x
  <2>1. C = B \union {1} /\ 1 \notin B
    BY <1>1, <1>5
  <2> HIDE DEF B, C
  <2>2. Cardinality(C) = Occurrences(t, x) + 1
    BY <1>4, <2>1, FS_AddElement
  <2> QED
    BY <1>5, <2>2 DEF Occurrences, C, c, Is
<1>6. CASE h # x
  <2>1. C = B
    BY <1>1, <1>6
  <2>2. Occurrences(c, x) = Cardinality(C)
    BY DEF Occurrences
  <2> HIDE DEF B, C
  <2>3. Occurrences(c, x) = Occurrences(t, x) + 0
    BY <1>2, <1>4, <2>1, <2>2
  <2> QED
    BY <1>6, <2>3 DEF c, Is
<1> QED
  BY <1>5, <1>6

(* Each number not above the next one. *)
InOrder(l) == \A i \in 1..(Len(l) - 1) : l[i] <= l[i + 1]

LEMMA OrderInFront ==
  ASSUME NEW h \in Int, NEW t \in IntLists
  PROVE  InOrder(<<h>> \o t) <=> InOrder(t) /\ (t # <<>> => h <= t[1])
<1> DEFINE c == <<h>> \o t
<1>1. /\ c \in IntLists /\ Len(c) = Len(t) + 1 /\ Len(t) \in Nat /\ c[1] = h
      /\ \A i \in 2..(Len(t) + 1) : c[i] = t[i - 1]
  BY InFront
<1>2. t = <<>> <=> Len(t) = 0
  BY EmptyList
<1> HIDE DEF c
<1>3. ASSUME InOrder(c) PROVE InOrder(t)
  <2> SUFFICES ASSUME NEW i \in 1..(Len(t) - 1) PROVE t[i] <= t[i + 1]
    BY DEF InOrder
  <2>1. i + 1 \in 1..(Len(c) - 1) /\ i + 1 \in 2..(Len(t) + 1) /\ i + 2 \in 2..(Len(t) + 1)
        /\ (i + 1) + 1 = i + 2 /\ (i + 1) - 1 = i /\ (i + 2) - 1 = i + 1
    BY <1>1
  <2> QED
    BY <1>1, <1>3, <2>1 DEF InOrder
<1>4. ASSUME InOrder(c), t # <<>> PROVE h <= t[1]
  <2>1. 1 \in 1..(Len(c) - 1) /\ 2 \in 2..(Len(t) + 1)
    BY <1>1, <1>2, <1>4
  <2>2. c[1] <= c[1 + 1]
    BY <1>4, <2>1 DEF InOrder
  <2> QED
    BY <1>1, <2>1, <2>2
<1>5. ASSUME InOrder(t), t # <<>> => h <= t[1] PROVE InOrder(c)
  <2> SUFFICES ASSUME NEW i \in 1..(Len(c) - 1) PROVE c[i] <= c[i + 1]
    BY DEF InOrder
  <2>1. i \in 1..Len(t) /\ i + 1 \in 2..(Len(t) + 1) /\ (i + 1) - 1 = i
    BY <1>1
  <2>2. c[i + 1] = t[i]
    BY <1>1, <2>1
  <2>3. CASE i = 1
    BY <1>1, <1>2, <1>5, <2>1, <2>2, <2>3
  <2>4. CASE i # 1
    <3>1. i - 1 \in 1..(Len(t) - 1) /\ (i - 1) + 1 = i /\ i \in 2..(Len(t) + 1)
      BY <1>1, <2>1, <2>4
    <3> QED
      BY <1>1, <1>5, <2>2, <3>1 DEF InOrder
  <2> QED
    BY <2>3, <2>4
<1> QED
  BY <1>3, <1>4, <1>5 DEF c

(* A list of at most one number is in order. *)
LEMMA OrderShort ==
  ASSUME NEW l \in IntLists, Len(l) <= 1
  PROVE  InOrder(l)
BY DEF IntLists, InOrder

------------------------------------------------------------------------------
(* The merge sort: its three functions. *)

(* split, by its equation. *)
LEMMA SplitDef ==
  /\ splitOnto \in [IntLists \X IntLists \X IntLists -> IntLists \X IntLists]
  /\ \A l, xs, ys \in IntLists :
       splitOnto[<<l, xs, ys>>] =
         IF l = <<>> THEN <<xs, ys>>
         ELSE IF Len(l) = 1 THEN <<l \o xs, ys>>
         ELSE splitOnto[<<Tail(Tail(l)), <<l[1]>> \o xs, <<l[2]>> \o ys>>]
<1> DEFINE A == IntLists \X IntLists \X IntLists
           S == IntLists \X IntLists
           size == [s \in A |-> Len(s[1])]
           Rest(s) == <<Tail(Tail(s[1])), <<s[1][1]>> \o s[2], <<s[1][2]>> \o s[3]>>
           Value(s, f) == IF s[1] = <<>> THEN <<s[2], s[3]>>
                          ELSE IF Len(s[1]) = 1 THEN <<s[1] \o s[2], s[3]>>
                          ELSE f[Rest(s)]
           g == [s \in A |-> [f \in [A -> S] |-> Value(s, f)]]
<1>1. ASSUME NEW s \in A, s[1] # <<>>, Len(s[1]) # 1
      PROVE  Rest(s) \in A /\ size[Rest(s)] < size[s]
  <2> DEFINE l == s[1]
             r == Rest(s)
  <2>1. l \in IntLists /\ s[2] \in IntLists /\ s[3] \in IntLists /\ l # <<>> /\ Len(l) # 1
    BY <1>1
  <2> HIDE DEF l
  <2>2. l[1] \in Int /\ l[2] \in Int /\ Tail(Tail(l)) \in IntLists /\ Len(Tail(Tail(l))) < Len(l)
    BY <2>1, FirstTwo
  <2>3. <<l[1]>> \o s[2] \in IntLists /\ <<l[2]>> \o s[3] \in IntLists
    BY <2>1, <2>2, InFront
  <2>4. r = <<Tail(Tail(l)), <<l[1]>> \o s[2], <<l[2]>> \o s[3]>>
    BY DEF l
  <2> HIDE DEF r
  <2>5. r \in A /\ r[1] = Tail(Tail(l))
    BY <2>2, <2>3, <2>4
  <2>6. size[r] = Len(Tail(Tail(l))) /\ size[s] = Len(l)
    BY <2>5 DEF l
  <2> QED
    BY <2>2, <2>5, <2>6 DEF r
<1>2. ASSUME NEW s \in A, NEW f \in [A -> S] PROVE Value(s, f) \in S
  <2>1. s[1] \in IntLists /\ s[2] \in IntLists /\ s[3] \in IntLists /\ s[1] \o s[2] \in IntLists
    BY DEF IntLists
  <2> HIDE DEF Rest
  <2> QED
    BY <1>1, <2>1
<1>3. size \in [A -> Nat] /\ g \in [A -> [[A -> S] -> S]]
  <2>1. \A s \in A : Len(s[1]) \in Nat
    BY DEF IntLists
  <2> HIDE DEF Value
  <2> QED
    BY <1>2, <2>1
<1>4. FromSmaller(g, A, size, S)
  <2> HIDE DEF Rest, size, A, S
  <2> SUFFICES ASSUME NEW s \in A, NEW f \in [A -> S], NEW h \in [A -> S],
                      \A t \in A : size[t] < size[s] => f[t] = h[t]
               PROVE  g[s][f] = g[s][h]
    BY <1>3 DEF FromSmaller
  <2>1. Value(s, f) = Value(s, h)
    BY <1>1
  <2> HIDE DEF Value
  <2> QED
    BY <2>1
<1>5. <<<<>>, <<>>>> \in S
  BY EmptyList
<1>6. PICK f \in [A -> S] : \A s \in A : f[s] = g[s][f]
  <2> HIDE DEF A, S, g, size
  <2> QED
    BY <1>4, <1>5, Recursion
<1>7. \A s \in A : f[s] = Value(s, f)
  <2> HIDE DEF Value, A
  <2> QED
    BY <1>6
<1>8. f = [s \in A |-> Value(s, f)]
  <2> HIDE DEF Value, A
  <2> QED
    BY <1>6, <1>7
<1>9. splitOnto = [s \in A |-> Value(s, splitOnto)]
  BY <1>8 DEF splitOnto
<1>10. \A s \in A : splitOnto[s] \in S
  <2> DEFINE T == {s \in A : splitOnto[s] \notin S}
  <2> SUFFICES ASSUME T # {} PROVE FALSE
    OBVIOUS
  <2>1. PICK s \in T : \A t \in A : size[t] < size[s] => t \notin T
    <3>1. T \subseteq A
      OBVIOUS
    <3> HIDE DEF T, A, size
    <3> QED
      BY <1>3, <3>1, SmallestArgument
  <2>2. s \in A /\ splitOnto[s] \notin S
    BY <2>1
  <2> HIDE DEF Rest, size
  <2>3. s[1] \in IntLists /\ s[2] \in IntLists /\ s[3] \in IntLists /\ s[1] \o s[2] \in IntLists
    BY <2>2 DEF IntLists
  <2>4. Value(s, splitOnto) \in S
    BY <1>1, <2>1, <2>2, <2>3
  <2>5. splitOnto[s] = Value(s, splitOnto)
    <3> HIDE DEF Value, A
    <3> QED
      BY <1>9, <2>2
  <2> QED
    BY <2>2, <2>4, <2>5
<1>11. splitOnto \in [A -> S]
  <2> HIDE DEF Value, A, S
  <2> QED
    BY <1>9, <1>10
<1>12. \A s \in A : splitOnto[s] = Value(s, splitOnto)
  <2> HIDE DEF Value, A
  <2> QED
    BY <1>9
<1>13. ASSUME NEW l \in IntLists, NEW xs \in IntLists, NEW ys \in IntLists
       PROVE  splitOnto[<<l, xs, ys>>] = Value(<<l, xs, ys>>, splitOnto)
  BY <1>12
<1> HIDE DEF S, A
<1> QED
  BY <1>11, <1>13 DEF S, A

(* split shares the numbers out: none is lost or added, and neither half   *)
(* gets all of two or more.                                                *)
SharedOut(l, xs, ys, halves) ==
  /\ Len(halves[1]) + Len(halves[2]) = Len(l) + Len(xs) + Len(ys)
  /\ Len(halves[1]) >= Len(xs) /\ Len(halves[2]) >= Len(ys)
  /\ \A x : Occurrences(halves[1], x) + Occurrences(halves[2], x) =
              Occurrences(l, x) + Occurrences(xs, x) + Occurrences(ys, x)

LEMMA SplitShares ==
  \A l, xs, ys \in IntLists : SharedOut(l, xs, ys, splitOnto[<<l, xs, ys>>])
<1> DEFINE A == IntLists \X IntLists \X IntLists
           size == [s \in A |-> Len(s[1])]
           P(l, xs, ys) == SharedOut(l, xs, ys, splitOnto[<<l, xs, ys>>])
           T == {s \in A : ~P(s[1], s[2], s[3])}
<1>1. size \in [A -> Nat]
  <2>1. \A s \in A : Len(s[1]) \in Nat
    BY EmptyList
  <2> QED
    BY <2>1
<1>2. ASSUME NEW l \in IntLists, NEW xs \in IntLists, NEW ys \in IntLists,
             \A k, us, vs \in IntLists : Len(k) < Len(l) => P(k, us, vs)
      PROVE  P(l, xs, ys)
  <2>1. /\ Len(l) \in Nat /\ Len(xs) \in Nat /\ Len(ys) \in Nat
        /\ \A x : Occurrences(l, x) \in Nat /\ Occurrences(xs, x) \in Nat /\ Occurrences(ys, x) \in Nat
    BY EmptyList, CountNat
  <2>2. CASE l = <<>>
    <3>1. splitOnto[<<l, xs, ys>>] = <<xs, ys>>
      BY <2>2, SplitDef, Zenon
    <3>2. Len(l) = 0 /\ \A x : Occurrences(l, x) = 0
      BY <2>2, CountEmpty, EmptyList
    <3> QED
      BY <2>1, <3>1, <3>2 DEF SharedOut
  <2>3. CASE l # <<>> /\ Len(l) = 1
    <3>0. /\ l[1] \in Int /\ Tail(l) \in IntLists /\ Len(Tail(l)) = Len(l) - 1
          /\ l = <<l[1]>> \o Tail(l)
      BY <2>3, FirstAndRest, Zenon
    <3>1. /\ l[1] \in Int /\ Tail(l) \in IntLists /\ Len(Tail(l)) = 0
          /\ l = <<l[1]>> \o Tail(l)
      BY <2>3, <3>0
    <3>2. Tail(l) = <<>>
      BY <3>1, EmptyList
    <3>3. l = <<l[1]>>
      BY <2>3, <3>1 DEF IntLists
    <3> DEFINE h == l[1]
    <3>4. l \o xs = <<h>> \o xs
      BY <3>3
    <3>5. splitOnto[<<l, xs, ys>>] = <<<<h>> \o xs, ys>>
      <4>1. splitOnto[<<l, xs, ys>>] = <<l \o xs, ys>>
        BY <2>3, SplitDef, Zenon
      <4> QED
        BY <3>4, <4>1, Zenon
    <3>6. ASSUME NEW x PROVE Occurrences(<<h>> \o xs, x) = Occurrences(xs, x) + Occurrences(l, x)
      <4>1. Occurrences(<<h>> \o xs, x) = Occurrences(xs, x) + Is(h, x)
        BY <3>1, CountInFront
      <4>2. Occurrences(l, x) = 0 + Is(h, x)
        <5>1. Occurrences(<<h>> \o Tail(l), x) = Occurrences(Tail(l), x) + Is(h, x)
          BY <3>1, CountInFront, Zenon
        <5>2. Occurrences(Tail(l), x) = 0
          BY <3>2, CountEmpty, Zenon
        <5> QED
          BY <3>1, <5>1, <5>2, Zenon
      <4> QED
        BY <2>1, <4>1, <4>2 DEF Is
    <3>7. Len(<<h>> \o xs) = Len(xs) + 1
      BY <3>1, InFront
    <3> HIDE DEF h
    <3> QED
      BY <2>1, <2>3, <3>5, <3>6, <3>7 DEF SharedOut
  <2>4. CASE l # <<>> /\ Len(l) # 1
    <3> DEFINE h == l[1]
               j == l[2]
               t == Tail(Tail(l))
               us == <<h>> \o xs
               vs == <<j>> \o ys
               halves == splitOnto[<<l, xs, ys>>]
    <3>1. /\ h \in Int /\ j \in Int /\ j = Tail(l)[1] /\ Tail(l) \in IntLists /\ Tail(l) # <<>>
          /\ t \in IntLists /\ Len(t) = Len(l) - 2 /\ Len(t) < Len(l)
      BY <2>4, FirstTwo
    <3>2. l = <<h>> \o Tail(l) /\ Tail(l) = <<j>> \o t
      BY <2>4, <3>1, FirstAndRest
    <3>3. us \in IntLists /\ vs \in IntLists /\ Len(us) = Len(xs) + 1 /\ Len(vs) = Len(ys) + 1
      BY <3>1, InFront
    <3>4. halves = splitOnto[<<t, us, vs>>]
      BY <2>4, SplitDef
    <3>5. P(t, us, vs)
      BY <1>2, <3>1, <3>3
    <3>6. halves[1] \in IntLists /\ halves[2] \in IntLists
      BY SplitDef
    <3>7. ASSUME NEW x
          PROVE  /\ Occurrences(l, x) = Occurrences(t, x) + Is(j, x) + Is(h, x)
                 /\ Occurrences(us, x) = Occurrences(xs, x) + Is(h, x)
                 /\ Occurrences(vs, x) = Occurrences(ys, x) + Is(j, x)
                 /\ Occurrences(t, x) \in Nat /\ Occurrences(halves[1], x) \in Nat /\ Occurrences(halves[2], x) \in Nat
      <4>1. Occurrences(Tail(l), x) = Occurrences(t, x) + Is(j, x)
        BY <3>1, <3>2, CountInFront, Zenon
      <4>2. Occurrences(l, x) = Occurrences(Tail(l), x) + Is(h, x)
        <5>1. Occurrences(<<h>> \o Tail(l), x) = Occurrences(Tail(l), x) + Is(h, x)
          BY <3>1, CountInFront, Zenon
        <5> HIDE DEF h
        <5> QED
          BY <3>2, <5>1, Zenon
      <4>3. /\ Occurrences(us, x) = Occurrences(xs, x) + Is(h, x)
            /\ Occurrences(vs, x) = Occurrences(ys, x) + Is(j, x)
        BY <3>1, CountInFront, Zenon
      <4>4. /\ Occurrences(t, x) \in Nat /\ Occurrences(halves[1], x) \in Nat /\ Occurrences(halves[2], x) \in Nat
        BY <3>1, <3>6, CountNat, Zenon
      <4> HIDE DEF h, j, t, us, vs, halves
      <4> QED
        BY <4>1, <4>2, <4>3, <4>4
    <3> HIDE DEF h, j, t, us, vs, halves
    <3>8. SharedOut(t, us, vs, halves)
      BY <3>4, <3>5
    <3>9. ASSUME NEW x
          PROVE  Occurrences(halves[1], x) + Occurrences(halves[2], x) = Occurrences(l, x) + Occurrences(xs, x) + Occurrences(ys, x)
      <4>1. Occurrences(halves[1], x) + Occurrences(halves[2], x) = Occurrences(t, x) + Occurrences(us, x) + Occurrences(vs, x)
        BY <3>8 DEF SharedOut
      <4>2. Occurrences(l, x) \in Nat /\ Occurrences(xs, x) \in Nat /\ Occurrences(ys, x) \in Nat
        BY <2>1
      <4> DEFINE d == Is(h, x)
                 e == Is(j, x)
      <4>3. d \in Nat /\ e \in Nat
        BY DEF Is
      <4>4. /\ Occurrences(l, x) = Occurrences(t, x) + e + d
            /\ Occurrences(us, x) = Occurrences(xs, x) + d /\ Occurrences(vs, x) = Occurrences(ys, x) + e
            /\ Occurrences(t, x) \in Nat
        BY <3>7
      <4> HIDE DEF d, e
      <4> QED
        BY <4>1, <4>2, <4>3, <4>4
    <3>10. Len(halves[1]) \in Nat /\ Len(halves[2]) \in Nat
      BY <3>6, EmptyList
    <3>11. /\ Len(halves[1]) + Len(halves[2]) = Len(t) + Len(us) + Len(vs)
           /\ Len(halves[1]) >= Len(us) /\ Len(halves[2]) >= Len(vs)
      BY <3>8 DEF SharedOut
    <3>12. /\ Len(halves[1]) + Len(halves[2]) = Len(l) + Len(xs) + Len(ys)
           /\ Len(halves[1]) >= Len(xs) /\ Len(halves[2]) >= Len(ys)
      <4> DEFINE a == Len(halves[1])
                 b == Len(halves[2])
                 n == Len(l)
                 p == Len(xs)
                 q == Len(ys)
      <4>1. /\ a \in Nat /\ b \in Nat /\ n \in Nat /\ p \in Nat /\ q \in Nat
            /\ a + b = (n - 2) + (p + 1) + (q + 1) /\ a >= p + 1 /\ b >= q + 1
        BY <2>1, <3>1, <3>3, <3>10, <3>11, Zenon
      <4> HIDE DEF a, b, n, p, q
      <4>2. a + b = n + p + q /\ a >= p /\ b >= q
        BY <4>1
      <4> QED
        BY <4>2, Zenon DEF a, b, n, p, q
    <3>13. SharedOut(l, xs, ys, halves)
      BY <3>9, <3>12 DEF SharedOut
    <3> QED
      BY <3>13 DEF halves
  <2> QED
    BY <2>2, <2>3, <2>4
<1> SUFFICES ASSUME T # {} PROVE FALSE
  <2> HIDE DEF P
  <2>1. ASSUME NEW l \in IntLists, NEW xs \in IntLists, NEW ys \in IntLists, T = {} PROVE P(l, xs, ys)
    <3>1. <<l, xs, ys>> \in A
      OBVIOUS
    <3> QED
      BY <2>1, <3>1
  <2> QED
    BY <2>1 DEF P
<1>3. PICK s \in T : \A r \in A : size[r] < size[s] => r \notin T
  <2>1. T \subseteq A
    OBVIOUS
  <2> HIDE DEF T, A, size
  <2> QED
    BY <1>1, <2>1, SmallestArgument
<1>4. s[1] \in IntLists /\ s[2] \in IntLists /\ s[3] \in IntLists /\ s \in A /\ ~P(s[1], s[2], s[3])
  BY <1>3
<1>5. ASSUME NEW k \in IntLists, NEW us \in IntLists, NEW vs \in IntLists, Len(k) < Len(s[1])
      PROVE  P(k, us, vs)
  <2> DEFINE r == <<k, us, vs>>
  <2>1. r \in A /\ r[1] = k /\ r[2] = us /\ r[3] = vs
    OBVIOUS
  <2> HIDE DEF r, P
  <2>2. size[r] < size[s]
    BY <1>4, <1>5, <2>1
  <2> QED
    BY <1>3, <2>1, <2>2
<1> HIDE DEF P
<1> QED
  BY <1>2, <1>4, <1>5

(* The halves of two or more numbers are shorter lists. *)
LEMMA SplitHalves ==
  ASSUME NEW l \in IntLists, Len(l) > 1
  PROVE  /\ split(l)[1] \in IntLists /\ split(l)[2] \in IntLists
         /\ Len(split(l)[1]) < Len(l) /\ Len(split(l)[2]) < Len(l)
         /\ \A x : Occurrences(split(l)[1], x) + Occurrences(split(l)[2], x) = Occurrences(l, x)
<1> DEFINE halves == split(l)
           us == <<l[1]>> \o <<>>
           vs == <<l[2]>> \o <<>>
           t == Tail(Tail(l))
<1>1. <<>> \in IntLists /\ l # <<>> /\ Len(l) # 1 /\ Len(<<>>) = 0 /\ Len(l) \in Nat
  <2>1. <<>> \in IntLists /\ (l = <<>> => Len(l) = 0) /\ Len(<<>>) = 0 /\ Len(l) \in Nat
    BY EmptyList, Zenon
  <2>2. l # <<>>
    BY <2>1
  <2>3. Len(l) # 1
    <3>1. PICK n \in Nat : n = Len(l)
      BY <2>1, Zenon
    <3>2. n # 1
      BY <3>1
    <3> QED
      BY <3>1, <3>2, Zenon
  <2> QED
    BY <2>1, <2>2, <2>3
<1>2. /\ l[1] \in Int /\ l[2] \in Int /\ t \in IntLists /\ Len(t) = Len(l) - 2
  BY <1>1, FirstTwo
<1>3. us \in IntLists /\ vs \in IntLists /\ Len(us) = 1 /\ Len(vs) = 1
  <2>1. /\ us \in IntLists /\ Len(us) = Len(<<>>) + 1
        /\ vs \in IntLists /\ Len(vs) = Len(<<>>) + 1
    BY <1>1, <1>2, InFront, Zenon
  <2> QED
    BY <2>1
<1>4. halves = splitOnto[<<l, <<>>, <<>>>>]
  BY DEF split
<1>5. halves = splitOnto[<<t, us, vs>>]
  BY <1>1, <1>4, SplitDef
<1>6. halves[1] \in IntLists /\ halves[2] \in IntLists
  BY <1>1, <1>4, SplitDef
<1> HIDE DEF halves, us, vs, t
<1>7. SharedOut(l, <<>>, <<>>, halves) /\ SharedOut(t, us, vs, halves)
  BY <1>1, <1>2, <1>3, <1>4, <1>5, SplitShares
<1>8. Len(halves[1]) \in Nat /\ Len(halves[2]) \in Nat
  BY <1>6, EmptyList
<1>9. Len(halves[1]) < Len(l) /\ Len(halves[2]) < Len(l)
  <2>1. /\ Len(halves[1]) + Len(halves[2]) = Len(l) + Len(<<>>) + Len(<<>>)
        /\ Len(halves[1]) >= Len(us) /\ Len(halves[2]) >= Len(vs)
    BY <1>7 DEF SharedOut
  <2> DEFINE a == Len(halves[1])
             b == Len(halves[2])
             n == Len(l)
  <2>2. /\ a \in Nat /\ b \in Nat /\ n \in Nat
        /\ a + b = n + 0 + 0 /\ a >= 1 /\ b >= 1
    BY <1>1, <1>3, <1>8, <2>1, Zenon
  <2> HIDE DEF a, b, n
  <2>3. a < n /\ b < n
    BY <2>2
  <2> QED
    BY <2>3, Zenon DEF a, b, n
<1>10. ASSUME NEW x PROVE Occurrences(halves[1], x) + Occurrences(halves[2], x) = Occurrences(l, x)
  <2>1. Occurrences(halves[1], x) + Occurrences(halves[2], x) = Occurrences(l, x) + Occurrences(<<>>, x) + Occurrences(<<>>, x)
    BY <1>7 DEF SharedOut
  <2>2. Occurrences(l, x) \in Nat /\ Occurrences(<<>>, x) = 0
    BY CountNat, CountEmpty
  <2> QED
    BY <2>1, <2>2
<1> QED
  BY <1>6, <1>9, <1>10 DEF halves

(* merge, by its equation. *)
LEMMA MergeDef ==
  /\ merge \in [IntLists \X IntLists -> IntLists]
  /\ \A l, k \in IntLists :
       merge[<<l, k>>] =
         IF l = <<>> THEN k
         ELSE IF k = <<>> THEN l
         ELSE IF l[1] < k[1] THEN <<l[1]>> \o merge[<<Tail(l), k>>]
         ELSE <<k[1]>> \o merge[<<l, Tail(k)>>]
<1> DEFINE A == IntLists \X IntLists
           size == [p \in A |-> Len(p[1]) + Len(p[2])]
           Value(p, f) == IF p[1] = <<>> THEN p[2]
                          ELSE IF p[2] = <<>> THEN p[1]
                          ELSE IF p[1][1] < p[2][1] THEN <<p[1][1]>> \o f[<<Tail(p[1]), p[2]>>]
                          ELSE <<p[2][1]>> \o f[<<p[1], Tail(p[2])>>]
           g == [p \in A |-> [f \in [A -> IntLists] |-> Value(p, f)]]
<1>1. size \in [A -> Nat] /\ \A l, k \in IntLists : size[<<l, k>>] = Len(l) + Len(k)
  <2>1. \A l \in IntLists : Len(l) \in Nat
    BY EmptyList, Zenon
  <2>2. \A p \in A : size[p] = Len(p[1]) + Len(p[2]) /\ size[p] \in Nat
    BY <2>1
  <2>3. \A l, k \in IntLists : <<l, k>> \in A /\ <<l, k>>[1] = l /\ <<l, k>>[2] = k
    OBVIOUS
  <2>4. size \in [A -> Nat]
    BY <2>2
  <2> HIDE DEF size, A
  <2> QED
    BY <2>2, <2>3, <2>4
<1>2. ASSUME NEW l \in IntLists, NEW k \in IntLists, l # <<>>
      PROVE  /\ l[1] \in Int /\ Tail(l) \in IntLists
             /\ size[<<Tail(l), k>>] < size[<<l, k>>] /\ size[<<k, Tail(l)>>] < size[<<k, l>>]
  <2>1. l[1] \in Int /\ Tail(l) \in IntLists /\ Len(Tail(l)) = Len(l) - 1 /\ Len(l) \in Nat /\ Len(k) \in Nat
    BY <1>2, FirstAndRest, EmptyList, Zenon
  <2> DEFINE m == Len(l)
             n == Len(k)
  <2>2. /\ size[<<Tail(l), k>>] = (m - 1) + n /\ size[<<l, k>>] = m + n
        /\ size[<<k, Tail(l)>>] = n + (m - 1) /\ size[<<k, l>>] = n + m
        /\ m \in Nat /\ n \in Nat
    <3> HIDE DEF size
    <3> QED
      BY <1>1, <2>1, Zenon
  <2> HIDE DEF m, n, size
  <2> QED
    BY <2>1, <2>2
<1>3. ASSUME NEW l \in IntLists, NEW k \in IntLists, NEW f \in [A -> IntLists]
      PROVE  Value(<<l, k>>, f) \in IntLists
  <2>1. CASE l = <<>> \/ k = <<>>
    BY <2>1
  <2>2. CASE l # <<>> /\ k # <<>>
    <3>1. l[1] \in Int /\ Tail(l) \in IntLists /\ k[1] \in Int /\ Tail(k) \in IntLists
      BY <1>2, <2>2
    <3>2. f[<<Tail(l), k>>] \in IntLists /\ f[<<l, Tail(k)>>] \in IntLists
      BY <3>1
    <3>3. <<l[1]>> \o f[<<Tail(l), k>>] \in IntLists /\ <<k[1]>> \o f[<<l, Tail(k)>>] \in IntLists
      BY <3>1, <3>2, InFront, Zenon
    <3> QED
      BY <2>2, <3>3
  <2> QED
    BY <2>1, <2>2
<1>4. ASSUME NEW p \in A, NEW f \in [A -> IntLists] PROVE Value(p, f) \in IntLists
  <2>1. PICK l \in IntLists, k \in IntLists : p = <<l, k>>
    OBVIOUS
  <2> HIDE DEF Value, A
  <2> QED
    BY <1>3, <2>1
<1>5. g \in [A -> [[A -> IntLists] -> IntLists]]
  <2> HIDE DEF Value, A
  <2> QED
    BY <1>4
<1>6. FromSmaller(g, A, size, IntLists)
  <2> SUFFICES ASSUME NEW p \in A, NEW f \in [A -> IntLists], NEW h \in [A -> IntLists],
                      \A t \in A : size[t] < size[p] => f[t] = h[t]
               PROVE  g[p][f] = g[p][h]
    <3> HIDE DEF g, size, A
    <3> QED
      BY <1>1, <1>5 DEF FromSmaller
  <2>1. PICK l \in IntLists, k \in IntLists : p = <<l, k>>
    OBVIOUS
  <2>2. l # <<>> => f[<<Tail(l), k>>] = h[<<Tail(l), k>>]
    <3> HIDE DEF size
    <3> QED
      BY <1>2, <2>1
  <2>3. k # <<>> => f[<<l, Tail(k)>>] = h[<<l, Tail(k)>>]
    <3> HIDE DEF size
    <3> QED
      BY <1>2, <2>1
  <2>4. Value(p, f) = Value(p, h)
    <3>1. p[1] = l /\ p[2] = k
      BY <2>1
    <3> QED
      BY <2>2, <2>3, <3>1
  <2> HIDE DEF Value, A
  <2> QED
    BY <2>4
<1>7. PICK f \in [A -> IntLists] : \A p \in A : f[p] = g[p][f]
  <2>1. IntLists # {}
    BY EmptyList
  <2> HIDE DEF A, g, size
  <2> QED
    BY <1>6, <2>1, Recursion
<1>8. f = [p \in A |-> Value(p, f)]
  <2> HIDE DEF Value, A
  <2> QED
    BY <1>7
<1>9. merge = [p \in A |-> Value(p, merge)]
  BY <1>8 DEF merge
<1>10. \A l, k \in IntLists : merge[<<l, k>>] = Value(<<l, k>>, merge)
  <2>1. \A l, k \in IntLists : <<l, k>> \in A
    OBVIOUS
  <2> HIDE DEF Value, A
  <2> QED
    BY <1>9, <2>1
<1>11. \A p \in A : merge[p] \in IntLists
  <2> DEFINE T == {p \in A : merge[p] \notin IntLists}
  <2> SUFFICES ASSUME T # {} PROVE FALSE
    OBVIOUS
  <2>1. PICK p \in T : \A t \in A : size[t] < size[p] => t \notin T
    <3>1. T \subseteq A
      OBVIOUS
    <3> HIDE DEF T, A, size
    <3> QED
      BY <1>1, <3>1, SmallestArgument
  <2>2. PICK l \in IntLists, k \in IntLists : p = <<l, k>> /\ merge[<<l, k>>] \notin IntLists
    <3>1. p \in A /\ merge[p] \notin IntLists
      BY <2>1
    <3>2. PICK l \in IntLists, k \in IntLists : p = <<l, k>>
      BY <3>1
    <3> QED
      BY <3>1, <3>2, Zenon
  <2>3. Value(<<l, k>>, merge) \notin IntLists
    <3> HIDE DEF Value
    <3> QED
      BY <1>10, <2>2
  <2>4. l # <<>> /\ k # <<>>
    BY <2>3
  <2>5. /\ l[1] \in Int /\ Tail(l) \in IntLists /\ size[<<Tail(l), k>>] < size[p]
        /\ k[1] \in Int /\ Tail(k) \in IntLists /\ size[<<l, Tail(k)>>] < size[p]
    <3> HIDE DEF size
    <3> QED
      BY <1>2, <2>2, <2>4
  <2>6. merge[<<Tail(l), k>>] \in IntLists /\ merge[<<l, Tail(k)>>] \in IntLists
    <3>1. <<Tail(l), k>> \in A /\ <<l, Tail(k)>> \in A
      BY <2>5
    <3> HIDE DEF size
    <3> QED
      BY <2>1, <2>5, <3>1
  <2>7. /\ <<l[1]>> \o merge[<<Tail(l), k>>] \in IntLists
        /\ <<k[1]>> \o merge[<<l, Tail(k)>>] \in IntLists
    BY <2>5, <2>6, InFront, Zenon
  <2> QED
    BY <2>3, <2>7
<1>12. merge \in [A -> IntLists]
  <2> HIDE DEF Value, A
  <2> QED
    BY <1>9, <1>11
<1>13. ASSUME NEW l \in IntLists, NEW k \in IntLists
       PROVE  merge[<<l, k>>] =
                IF l = <<>> THEN k
                ELSE IF k = <<>> THEN l
                ELSE IF l[1] < k[1] THEN <<l[1]>> \o merge[<<Tail(l), k>>]
                ELSE <<k[1]>> \o merge[<<l, Tail(k)>>]
  <2>1. <<l, k>>[1] = l /\ <<l, k>>[2] = k
    OBVIOUS
  <2> QED
    BY <1>10, <2>1, Zenon
<1> QED
  BY <1>12, <1>13, Zenon

(* Two lists in order are merged to one in order, of their numbers, that   *)
(* begins with the first of one of them.                                   *)
Merged(l, k, m) ==
  /\ \A x : Occurrences(m, x) = Occurrences(l, x) + Occurrences(k, x)
  /\ InOrder(l) /\ InOrder(k) => InOrder(m)
  /\ m # <<>> => \/ l # <<>> /\ m[1] = l[1]
                 \/ k # <<>> /\ m[1] = k[1]

LEMMA MergeRight == \A l, k \in IntLists : Merged(l, k, merge[<<l, k>>])
<1> DEFINE A == IntLists \X IntLists
           size == [p \in A |-> Len(p[1]) + Len(p[2])]
           P(l, k) == Merged(l, k, merge[<<l, k>>])
           T == {p \in A : ~P(p[1], p[2])}
<1>1. size \in [A -> Nat] /\ \A l, k \in IntLists : size[<<l, k>>] = Len(l) + Len(k)
  <2>1. \A l \in IntLists : Len(l) \in Nat
    BY EmptyList, Zenon
  <2>2. \A p \in A : size[p] = Len(p[1]) + Len(p[2]) /\ size[p] \in Nat
    BY <2>1
  <2>3. \A l, k \in IntLists : <<l, k>> \in A /\ <<l, k>>[1] = l /\ <<l, k>>[2] = k
    OBVIOUS
  <2>4. size \in [A -> Nat]
    BY <2>2
  <2> HIDE DEF size, A
  <2> QED
    BY <2>2, <2>3, <2>4
<1>2. \A l \in IntLists : \A x : Occurrences(l, x) \in Nat
  BY CountNat, Zenon
<1>3. ASSUME NEW l \in IntLists, NEW k \in IntLists,
             l # <<>> /\ k # <<>> => P(Tail(l), k) /\ P(l, Tail(k))
      PROVE  P(l, k)
  <2> DEFINE m == merge[<<l, k>>]
  <2>1. CASE l = <<>>
    <3>1. m = k
      BY <2>1, MergeDef, Zenon
    <3>2. \A x : Occurrences(l, x) = 0 /\ Occurrences(k, x) \in Nat
      BY <1>2, <2>1, CountEmpty, Zenon
    <3> HIDE DEF m
    <3>3. Merged(l, k, m)
      BY <3>1, <3>2 DEF Merged
    <3> QED
      BY <3>3 DEF m
  <2>2. CASE l # <<>> /\ k = <<>>
    <3>1. m = l
      BY <2>2, MergeDef, Zenon
    <3>2. \A x : Occurrences(k, x) = 0 /\ Occurrences(l, x) \in Nat
      BY <1>2, <2>2, CountEmpty, Zenon
    <3> HIDE DEF m
    <3>3. Merged(l, k, m)
      BY <3>1, <3>2 DEF Merged
    <3> QED
      BY <3>3 DEF m
  <2>3. CASE l # <<>> /\ k # <<>>
    <3> DEFINE h == l[1]
               j == k[1]
               t == Tail(l)
               u == Tail(k)
    <3>1. /\ h \in Int /\ t \in IntLists /\ l = <<h>> \o t
          /\ j \in Int /\ u \in IntLists /\ k = <<j>> \o u
      BY <2>3, FirstAndRest, Zenon
    <3>2. Merged(t, k, merge[<<t, k>>]) /\ Merged(l, u, merge[<<l, u>>])
      BY <1>3, <2>3
    <3>3. m = IF h < j THEN <<h>> \o merge[<<t, k>>] ELSE <<j>> \o merge[<<l, u>>]
      BY <2>3, MergeDef, Zenon
    <3>4. merge[<<t, k>>] \in IntLists /\ merge[<<l, u>>] \in IntLists
      BY <3>1, MergeDef
    <3> HIDE DEF h, j, t, u
    <3>5. /\ \A x : Occurrences(l, x) = Occurrences(t, x) + Is(h, x) /\ Occurrences(k, x) = Occurrences(u, x) + Is(j, x)
          /\ InOrder(l) <=> InOrder(t) /\ (t # <<>> => h <= t[1])
          /\ InOrder(k) <=> InOrder(u) /\ (u # <<>> => j <= u[1])
      <4>1. /\ \A x : Occurrences(<<h>> \o t, x) = Occurrences(t, x) + Is(h, x)
            /\ InOrder(<<h>> \o t) <=> InOrder(t) /\ (t # <<>> => h <= t[1])
        BY <3>1, CountInFront, OrderInFront, Zenon
      <4>2. /\ \A x : Occurrences(<<j>> \o u, x) = Occurrences(u, x) + Is(j, x)
            /\ InOrder(<<j>> \o u) <=> InOrder(u) /\ (u # <<>> => j <= u[1])
        BY <3>1, CountInFront, OrderInFront, Zenon
      <4> QED
        BY <3>1, <4>1, <4>2, Zenon
    <3>6. (t # <<>> => t[1] \in Int) /\ (u # <<>> => u[1] \in Int)
      BY <3>1, FirstAndRest, Zenon
    <3>7. \A y, x : Is(y, x) \in Nat
      BY DEF Is
    <3>8. CASE h < j
      <4> DEFINE n == merge[<<t, k>>]
      <4>1. n \in IntLists /\ m = <<h>> \o n /\ Merged(t, k, n)
        BY <3>2, <3>3, <3>4, <3>8
      <4> HIDE DEF n, m
      <4>2. /\ \A x : Occurrences(m, x) = Occurrences(n, x) + Is(h, x)
            /\ InOrder(m) <=> InOrder(n) /\ (n # <<>> => h <= n[1])
            /\ m[1] = h
        <5>1. /\ \A x : Occurrences(<<h>> \o n, x) = Occurrences(n, x) + Is(h, x)
              /\ InOrder(<<h>> \o n) <=> InOrder(n) /\ (n # <<>> => h <= n[1])
          BY <3>1, <4>1, CountInFront, OrderInFront, Zenon
        <5>2. (<<h>> \o n)[1] = h
          BY <3>1, <4>1, InFront, Zenon
        <5> QED
          BY <4>1, <5>1, <5>2, Zenon
      <4>3. ASSUME NEW x PROVE Occurrences(m, x) = Occurrences(l, x) + Occurrences(k, x)
        <5>1. Occurrences(n, x) = Occurrences(t, x) + Occurrences(k, x)
          BY <4>1 DEF Merged
        <5>2. Occurrences(m, x) = Occurrences(n, x) + Is(h, x) /\ Occurrences(l, x) = Occurrences(t, x) + Is(h, x)
          BY <3>5, <4>2
        <5>3. Occurrences(t, x) \in Nat /\ Occurrences(k, x) \in Nat /\ Is(h, x) \in Nat
          BY <1>2, <3>1, <3>7
        <5> QED
          BY <5>1, <5>2, <5>3
      <4>4. ASSUME InOrder(l), InOrder(k) PROVE InOrder(m)
        <5>1. InOrder(n) /\ (t # <<>> => h <= t[1])
          BY <3>5, <4>1, <4>4 DEF Merged
        <5>2. n # <<>> => (t # <<>> /\ n[1] = t[1]) \/ n[1] = j
          BY <4>1 DEF Merged, j
        <5>3. h <= j
          BY <3>1, <3>8
        <5> QED
          BY <4>2, <5>1, <5>2, <5>3
      <4>5. m[1] = l[1]
        BY <4>2 DEF h
      <4>6. Merged(l, k, m)
        BY <2>3, <4>3, <4>4, <4>5 DEF Merged
      <4> QED
        BY <4>6 DEF m
    <3>9. CASE ~(h < j)
      <4> DEFINE n == merge[<<l, u>>]
      <4>1. n \in IntLists /\ m = <<j>> \o n /\ Merged(l, u, n)
        BY <3>2, <3>3, <3>4, <3>9
      <4> HIDE DEF n, m
      <4>2. /\ \A x : Occurrences(m, x) = Occurrences(n, x) + Is(j, x)
            /\ InOrder(m) <=> InOrder(n) /\ (n # <<>> => j <= n[1])
            /\ m[1] = j
        <5>1. /\ \A x : Occurrences(<<j>> \o n, x) = Occurrences(n, x) + Is(j, x)
              /\ InOrder(<<j>> \o n) <=> InOrder(n) /\ (n # <<>> => j <= n[1])
          BY <3>1, <4>1, CountInFront, OrderInFront, Zenon
        <5>2. (<<j>> \o n)[1] = j
          BY <3>1, <4>1, InFront, Zenon
        <5> QED
          BY <4>1, <5>1, <5>2, Zenon
      <4>3. ASSUME NEW x PROVE Occurrences(m, x) = Occurrences(l, x) + Occurrences(k, x)
        <5>1. Occurrences(n, x) = Occurrences(l, x) + Occurrences(u, x)
          BY <4>1 DEF Merged
        <5>2. Occurrences(m, x) = Occurrences(n, x) + Is(j, x) /\ Occurrences(k, x) = Occurrences(u, x) + Is(j, x)
          BY <3>5, <4>2
        <5>3. Occurrences(l, x) \in Nat /\ Occurrences(u, x) \in Nat /\ Is(j, x) \in Nat
          BY <1>2, <3>1, <3>7
        <5> QED
          BY <5>1, <5>2, <5>3
      <4>4. ASSUME InOrder(l), InOrder(k) PROVE InOrder(m)
        <5>1. InOrder(n) /\ (u # <<>> => j <= u[1])
          BY <3>5, <4>1, <4>4 DEF Merged
        <5>2. n # <<>> => (u # <<>> /\ n[1] = u[1]) \/ n[1] = h
          BY <4>1 DEF Merged, h
        <5>3. j <= h
          BY <3>1, <3>9
        <5> QED
          BY <4>2, <5>1, <5>2, <5>3
      <4>5. m[1] = k[1]
        BY <4>2 DEF j
      <4>6. Merged(l, k, m)
        BY <2>3, <4>3, <4>4, <4>5 DEF Merged
      <4> QED
        BY <4>6 DEF m
    <3> QED
      BY <3>8, <3>9
  <2> QED
    BY <2>1, <2>2, <2>3
<1> SUFFICES ASSUME T # {} PROVE FALSE
  <2> HIDE DEF P
  <2>1. ASSUME NEW l \in IntLists, NEW k \in IntLists, T = {} PROVE P(l, k)
    <3>1. <<l, k>> \in A /\ <<l, k>>[1] = l /\ <<l, k>>[2] = k
      OBVIOUS
    <3> QED
      BY <2>1, <3>1
  <2> QED
    BY <2>1 DEF P
<1>4. PICK p \in T : \A q \in A : size[q] < size[p] => q \notin T
  <2>1. T \subseteq A
    OBVIOUS
  <2> HIDE DEF T, A, size
  <2> QED
    BY <1>1, <2>1, SmallestArgument
<1>5. PICK l \in IntLists, k \in IntLists : p = <<l, k>>
  BY <1>4
<1>6. ~P(l, k)
  <2>1. ~P(p[1], p[2]) /\ p[1] = l /\ p[2] = k
    BY <1>4, <1>5
  <2> HIDE DEF P
  <2> QED
    BY <2>1
<1>7. ASSUME NEW i \in IntLists, NEW j \in IntLists, Len(i) + Len(j) < Len(l) + Len(k)
      PROVE  P(i, j)
  <2> DEFINE q == <<i, j>>
  <2>1. q \in A /\ q[1] = i /\ q[2] = j
    OBVIOUS
  <2>2. size[q] < size[p]
    <3> HIDE DEF size
    <3> QED
      BY <1>1, <1>5, <1>7
  <2> HIDE DEF q, P, size
  <2> QED
    BY <1>4, <2>1, <2>2
<1>8. ASSUME NEW i \in IntLists, i # <<>>
      PROVE  /\ Tail(i) \in IntLists
             /\ \A j \in IntLists : /\ Len(Tail(i)) + Len(j) < Len(i) + Len(j)
                                 /\ Len(j) + Len(Tail(i)) < Len(j) + Len(i)
  <2>1. Tail(i) \in IntLists /\ Len(Tail(i)) = Len(i) - 1 /\ Len(i) \in Nat
    BY <1>8, FirstAndRest, Zenon
  <2>2. \A j \in IntLists : Len(j) \in Nat
    BY EmptyList, Zenon
  <2> QED
    BY <2>1, <2>2
<1>9. l # <<>> /\ k # <<>> => P(Tail(l), k) /\ P(l, Tail(k))
  <2> HIDE DEF P
  <2> QED
    BY <1>7, <1>8
<1> HIDE DEF P
<1> QED
  BY <1>3, <1>6, <1>9

(* mergesort, by its equation. *)
LEMMA MergesortDef ==
  /\ mergesort \in [IntLists -> IntLists]
  /\ \A l \in IntLists :
       mergesort[l] = IF Len(l) <= 1 THEN l
                      ELSE merge[<<mergesort[split(l)[1]], mergesort[split(l)[2]]>>]
<1> DEFINE size == [l \in IntLists |-> Len(l)]
           Value(l, f) == IF Len(l) <= 1 THEN l
                          ELSE merge[<<f[split(l)[1]], f[split(l)[2]]>>]
           g == [l \in IntLists |-> [f \in [IntLists -> IntLists] |-> Value(l, f)]]
<1>1. size \in [IntLists -> Nat] /\ \A l \in IntLists : size[l] = Len(l) /\ Len(l) \in Nat
  <2>1. \A l \in IntLists : Len(l) \in Nat
    BY EmptyList, Zenon
  <2> QED
    BY <2>1
<1>2. ASSUME NEW l \in IntLists, ~(Len(l) <= 1)
      PROVE  /\ split(l)[1] \in IntLists /\ size[split(l)[1]] < size[l]
             /\ split(l)[2] \in IntLists /\ size[split(l)[2]] < size[l]
  <2>1. Len(l) > 1
    BY <1>1, <1>2
  <2>2. /\ split(l)[1] \in IntLists /\ Len(split(l)[1]) < Len(l)
        /\ split(l)[2] \in IntLists /\ Len(split(l)[2]) < Len(l)
    BY <2>1, SplitHalves, Zenon
  <2> HIDE DEF size
  <2> QED
    BY <1>1, <2>2
<1>3. ASSUME NEW l \in IntLists, NEW f \in [IntLists -> IntLists] PROVE Value(l, f) \in IntLists
  <2>1. CASE Len(l) <= 1
    BY <2>1
  <2>2. CASE ~(Len(l) <= 1)
    <3>1. f[split(l)[1]] \in IntLists /\ f[split(l)[2]] \in IntLists
      BY <1>2, <2>2
    <3> HIDE DEF size
    <3>2. merge[<<f[split(l)[1]], f[split(l)[2]]>>] \in IntLists
      BY <3>1, MergeDef
    <3> QED
      BY <2>2, <3>2
  <2> QED
    BY <2>1, <2>2
<1>4. g \in [IntLists -> [[IntLists -> IntLists] -> IntLists]]
  <2> HIDE DEF Value
  <2> QED
    BY <1>3
<1>5. FromSmaller(g, IntLists, size, IntLists)
  <2> SUFFICES ASSUME NEW l \in IntLists, NEW f \in [IntLists -> IntLists], NEW h \in [IntLists -> IntLists],
                      \A k \in IntLists : size[k] < size[l] => f[k] = h[k]
               PROVE  g[l][f] = g[l][h]
    <3> HIDE DEF g, size
    <3> QED
      BY <1>1, <1>4 DEF FromSmaller
  <2>1. Value(l, f) = Value(l, h)
    <3> HIDE DEF size
    <3> QED
      BY <1>2
  <2> HIDE DEF Value
  <2> QED
    BY <2>1
<1>6. PICK f \in [IntLists -> IntLists] : \A l \in IntLists : f[l] = g[l][f]
  <2>1. IntLists # {}
    BY EmptyList
  <2> HIDE DEF g, size
  <2> QED
    BY <1>5, <2>1, Recursion
<1>7. f = [l \in IntLists |-> Value(l, f)]
  <2> HIDE DEF Value
  <2> QED
    BY <1>6
<1>8. mergesort = [l \in IntLists |-> Value(l, mergesort)]
  BY <1>7 DEF mergesort
<1>9. \A l \in IntLists : mergesort[l] = Value(l, mergesort)
  <2> HIDE DEF Value
  <2> QED
    BY <1>8
<1>10. \A l \in IntLists : mergesort[l] \in IntLists
  <2> DEFINE T == {l \in IntLists : mergesort[l] \notin IntLists}
  <2> SUFFICES ASSUME T # {} PROVE FALSE
    OBVIOUS
  <2>1. PICK l \in T : \A k \in IntLists : size[k] < size[l] => k \notin T
    <3>1. T \subseteq IntLists
      OBVIOUS
    <3> HIDE DEF T, size
    <3> QED
      BY <1>1, <3>1, SmallestArgument
  <2>2. l \in IntLists /\ mergesort[l] \notin IntLists
    BY <2>1
  <2>3. Value(l, mergesort) \notin IntLists
    <3> HIDE DEF Value
    <3> QED
      BY <1>9, <2>2
  <2>4. ~(Len(l) <= 1)
    BY <2>2, <2>3
  <2>5. mergesort[split(l)[1]] \in IntLists /\ mergesort[split(l)[2]] \in IntLists
    <3> HIDE DEF size
    <3> QED
      BY <1>2, <2>1, <2>2, <2>4
  <2>6. merge[<<mergesort[split(l)[1]], mergesort[split(l)[2]]>>] \in IntLists
    BY <2>5, MergeDef
  <2> QED
    BY <2>3, <2>4, <2>6
<1>11. mergesort \in [IntLists -> IntLists]
  <2> HIDE DEF Value
  <2> QED
    BY <1>8, <1>10
<1> QED
  BY <1>9, <1>11

(* The sorted list is in order and holds the same numbers as often. *)
LEMMA MergesortRight ==
  \A l \in IntLists : /\ InOrder(mergesort[l])
                   /\ \A x : Occurrences(mergesort[l], x) = Occurrences(l, x)
<1> DEFINE size == [l \in IntLists |-> Len(l)]
           P(l) == /\ InOrder(mergesort[l])
                   /\ \A x : Occurrences(mergesort[l], x) = Occurrences(l, x)
           T == {l \in IntLists : ~P(l)}
<1>1. size \in [IntLists -> Nat] /\ \A l \in IntLists : size[l] = Len(l) /\ Len(l) \in Nat
  <2>1. \A l \in IntLists : Len(l) \in Nat
    BY EmptyList, Zenon
  <2> QED
    BY <2>1
<1> SUFFICES ASSUME T # {} PROVE FALSE
  OBVIOUS
<1>2. PICK l \in T : \A k \in IntLists : size[k] < size[l] => k \notin T
  <2>1. T \subseteq IntLists
    OBVIOUS
  <2> HIDE DEF T, size
  <2> QED
    BY <1>1, <2>1, SmallestArgument
<1>3. l \in IntLists /\ ~P(l)
  BY <1>2
<1>4. CASE Len(l) <= 1
  <2>1. mergesort[l] = l
    BY <1>3, <1>4, MergesortDef, Zenon
  <2>2. InOrder(l)
    BY <1>3, <1>4, OrderShort, Zenon
  <2> QED
    BY <1>3, <2>1, <2>2
<1>5. CASE ~(Len(l) <= 1)
  <2> DEFINE a == split(l)[1]
             b == split(l)[2]
             m == merge[<<mergesort[a], mergesort[b]>>]
  <2>1. Len(l) > 1
    BY <1>1, <1>3, <1>5
  <2>2. /\ a \in IntLists /\ Len(a) < Len(l) /\ b \in IntLists /\ Len(b) < Len(l)
        /\ \A x : Occurrences(a, x) + Occurrences(b, x) = Occurrences(l, x)
    BY <1>3, <2>1, SplitHalves, Zenon
  <2>3. mergesort[l] = m
    BY <1>3, <1>5, MergesortDef, Zenon
  <2> HIDE DEF a, b
  <2>4. P(a) /\ P(b)
    <3> HIDE DEF P, size
    <3> QED
      BY <1>1, <1>2, <1>3, <2>2
  <2>5. mergesort[a] \in IntLists /\ mergesort[b] \in IntLists
    BY <2>2, MergesortDef
  <2>6. Merged(mergesort[a], mergesort[b], m)
    BY <2>5, MergeRight
  <2> HIDE DEF m
  <2>7. P(l)
    BY <2>2, <2>3, <2>4, <2>6 DEF Merged
  <2> QED
    BY <1>3, <2>7
<1> QED
  BY <1>4, <1>5

(* Whatever is sent, numbers or not, in any order and of any length: the   *)
(* reply has the numbers of the request, each as often, in order, or is    *)
(* what its first token that is no number asks for.                        *)
THEOREM SortedReplies == SortSpec => []RepliesSorted
<1>1. SortInit => RepliesSorted
  <2> SUFFICES ASSUME SortInit PROVE RepliesSorted
    OBVIOUS
  <2>1. request = <<>> /\ reply = <<>> /\ Len(<<>>) = 0
    BY DEF SortInit
  <2> QED
    BY <2>1 DEF RepliesSorted
<1>2. ASSUME NEW n \in 0..MaxTokens, NEW s \in [1..n -> Tokens], Handle(s)
      PROVE  RepliesSorted'
  <2>1. request' = s /\ reply' = Sorted(s) /\ n \in Nat /\ Len(s) = n
    BY <1>2, SortAssumption DEF Handle
  <2>2. Invalid \notin IntLists /\ NoReply \notin IntLists
    BY SortAssumption DEF IntLists
  <2>3. CASE \A i \in 1..Len(s) : IsNumber(s[i])
    <3>1. \A i \in 1..n : s[i] \in Int
      <4> SUFFICES ASSUME NEW i \in 1..n PROVE s[i] \in Int
        OBVIOUS
      <4>1. s[i] \in Tokens /\ IsNumber(s[i])
        BY <2>1, <2>3
      <4> QED
        BY <4>1, SortAssumption DEF Tokens, IsNumber
    <3>2. s \in IntLists
      BY <2>1, <3>1 DEF IntLists
    <3>3. stringToIntList(s) = s
      BY <2>1, <2>3 DEF stringToIntList
    <3>4. Sorted(s) = mergesort[s]
      BY <2>2, <3>2, <3>3 DEF Sorted
    <3>5. InOrder(mergesort[s]) /\ \A x : Occurrences(mergesort[s], x) = Occurrences(s, x)
      BY <3>2, MergesortRight
    <3>6. reply' = mergesort[s] /\ request' = s
      BY <2>1, <3>4
    <3>7. (\A x \in SortValues : Occurrences(reply, x) = Occurrences(request, x))'
      <4>1. \A x : Occurrences(reply, x)' = Occurrences(mergesort[s], x) /\ Occurrences(request, x)' = Occurrences(s, x)
        BY <3>6, Zenon DEF Occurrences
      <4> QED
        BY <3>5, <4>1
    <3>8. (\A i \in 1..(Len(reply) - 1) : reply[i] <= reply[i + 1])'
      BY <3>5, <3>6 DEF InOrder
    <3>9. (\A i \in 1..Len(request) : IsNumber(request[i]))'
      BY <2>3, <3>6 DEF IsNumber
    <3> QED
      BY <3>7, <3>8, <3>9 DEF RepliesSorted
  <2>4. CASE ~(\A i \in 1..Len(s) : IsNumber(s[i]))
    <3> DEFINE bad == {j \in 1..Len(s) : ~IsNumber(s[j])}
               i == Min(bad)
    <3>1. i \in bad /\ \A j \in bad : i <= j
      <4>1. bad \subseteq Nat /\ bad # {}
        BY <2>1, <2>4
      <4> HIDE DEF bad
      <4>2. PICK k \in bad : \A j \in bad : k <= j
        BY <4>1, LeastNumber
      <4> QED
        BY <4>1, <4>2 DEF Min
    <3>2. stringToIntList(s) = IF s[i] = TooBig THEN NoReply ELSE Invalid
      BY <2>4 DEF stringToIntList
    <3>3. i \in 1..Len(s) /\ ~IsNumber(s[i])
      BY <3>1
    <3>4. ASSUME NEW j \in 1..(i - 1) PROVE IsNumber(s[j])
      <4>1. j \in 1..Len(s) /\ ~(i <= j)
        BY <2>1, <3>3
      <4> QED
        BY <3>1, <4>1
    <3> HIDE DEF i
    <3>5. Sorted(s) = IF s[i] = TooBig THEN NoReply ELSE Invalid
      BY <3>2 DEF Sorted
    <3>6. /\ s[i] = Word => Sorted(s) = Invalid
          /\ s[i] = TooBig => Sorted(s) = NoReply
      BY <3>5, SortAssumption
    <3> QED
      BY <2>1, <2>4, <3>3, <3>4, <3>6 DEF RepliesSorted
  <2> QED
    BY <2>3, <2>4
<1>3. RepliesSorted /\ [SortNext]_sortVars => RepliesSorted'
  <2>1. CASE UNCHANGED sortVars
    BY <2>1 DEF sortVars, RepliesSorted, Occurrences
  <2> QED
    BY <1>2, <2>1 DEF SortNext
<1> QED
  BY <1>1, <1>3, PTL DEF SortSpec

------------------------------------------------------------------------------
(* Powers of a number. *)

PowersOf(b, f) == f = [n \in Nat |-> IF n = 0 THEN 1 ELSE b * f[n - 1]]

LEMMA PowersExist ==
  ASSUME NEW b \in Nat
  PROVE  \E f : PowersOf(b, f)
<1> DEFINE S == Nat
           size == [n \in Nat |-> n]
           g == [n \in Nat |-> [f \in [Nat -> S] |-> IF n = 0 THEN 1 ELSE b * f[n - 1]]]
<1>1. \A n \in Nat, f \in [Nat -> S] :
        g[n][f] = (IF n = 0 THEN 1 ELSE b * f[n - 1]) /\ g[n][f] \in S
  <2> SUFFICES ASSUME NEW n \in Nat, NEW f \in [Nat -> S]
               PROVE  g[n][f] = (IF n = 0 THEN 1 ELSE b * f[n - 1]) /\ g[n][f] \in S
    OBVIOUS
  <2>1. n # 0 => f[n - 1] \in Nat /\ b * f[n - 1] \in Nat
    <3>1. n # 0 => f[n - 1] \in Nat
      OBVIOUS
    <3> QED
      BY <3>1
  <2> QED
    BY <2>1
<1>2. g \in [Nat -> [[Nat -> S] -> S]]
  BY <1>1
<1> HIDE DEF g
<1>3. FromSmaller(g, Nat, size, S)
  <2> SUFFICES ASSUME NEW n \in Nat, NEW f \in [Nat -> S], NEW h \in [Nat -> S],
                      \A m \in Nat : size[m] < size[n] => f[m] = h[m]
               PROVE  g[n][f] = g[n][h]
    BY <1>2 DEF FromSmaller
  <2>1. n = 0 \/ (n - 1 \in Nat /\ size[n - 1] < size[n])
    OBVIOUS
  <2>2. n = 0 \/ f[n - 1] = h[n - 1]
    BY <2>1
  <2> HIDE DEF size
  <2>3. /\ g[n][f] = IF n = 0 THEN 1 ELSE b * f[n - 1]
        /\ g[n][h] = IF n = 0 THEN 1 ELSE b * h[n - 1]
    BY <1>1
  <2> QED
    BY <2>2, <2>3
<1>4. PICK f \in [Nat -> S] : \A n \in Nat : f[n] = g[n][f]
  <2>1. S # {}
    OBVIOUS
  <2> HIDE DEF S, size
  <2> QED
    BY <1>3, <2>1, Recursion, Z3
<1>5. f = [n \in Nat |-> IF n = 0 THEN 1 ELSE b * f[n - 1]]
  BY <1>1, <1>4
<1> QED
  BY <1>5 DEF PowersOf

(* They are positive and grow, and a power is a multiple of each smaller. *)
LEMMA PowerRules ==
  ASSUME NEW b \in Nat, b >= 2, NEW f, PowersOf(b, f)
  PROVE  /\ f \in [Nat -> Nat] /\ f[0] = 1
         /\ \A n \in Nat : f[n] \in Nat /\ f[n] >= 1 /\ f[n + 1] = b * f[n]
         /\ \A m, n \in Nat : f[m + n] = f[m] * f[n] /\ f[m] <= f[m + n]
<1>1. f[0] = 1 /\ \A n \in Nat : f[n + 1] = b * f[n]
  <2>1. \A n \in Nat : f[n] = IF n = 0 THEN 1 ELSE b * f[n - 1]
    BY DEF PowersOf
  <2>2. ASSUME NEW n \in Nat PROVE f[n + 1] = b * f[n]
    <3>1. n + 1 \in Nat /\ n + 1 # 0 /\ (n + 1) - 1 = n
      OBVIOUS
    <3> QED
      BY <2>1, <3>1
  <2> QED
    BY <2>1, <2>2
<1>2. \A n \in Nat : f[n] \in Nat /\ f[n] >= 1
  <2> DEFINE T == {n \in Nat : ~(f[n] \in Nat /\ f[n] >= 1)}
  <2> SUFFICES ASSUME T # {} PROVE FALSE
    OBVIOUS
  <2>1. PICK n \in T : \A m \in T : n <= m
    BY LeastNumber
  <2>2. n # 0
    BY <1>1, <2>1
  <2>3. n - 1 \in Nat /\ n - 1 \notin T /\ (n - 1) + 1 = n
    BY <2>1, <2>2
  <2>4. f[n - 1] \in Nat /\ f[n - 1] >= 1 /\ f[n] = b * f[n - 1]
    BY <1>1, <2>3
  <2>5. \A x \in Nat : x >= 1 => b * x \in Nat /\ b * x >= 1
    <3> SUFFICES ASSUME NEW x \in Nat, x >= 1 PROVE b * x \in Nat /\ b * x >= 1
      OBVIOUS
    <3>1. b * x \in Nat
      OBVIOUS
    <3>2. b * x = x + (b - 1) * x /\ (b - 1) * x >= 0
      OBVIOUS
    <3> QED
      BY <3>1, <3>2
  <2> QED
    BY <2>1, <2>4, <2>5
<1>3. f \in [Nat -> Nat]
  BY <1>2 DEF PowersOf
<1>4. \A m, n \in Nat : f[m + n] = f[m] * f[n]
  <2> SUFFICES ASSUME NEW m \in Nat PROVE \A n \in Nat : f[m + n] = f[m] * f[n]
    OBVIOUS
  <2> DEFINE T == {n \in Nat : f[m + n] # f[m] * f[n]}
  <2> SUFFICES ASSUME T # {} PROVE FALSE
    OBVIOUS
  <2>1. PICK n \in T : \A k \in T : n <= k
    BY LeastNumber
  <2>2. n # 0
    BY <1>1, <1>2, <2>1
  <2>3. n - 1 \in Nat /\ n - 1 \notin T /\ (n - 1) + 1 = n /\ m + n = (m + (n - 1)) + 1
        /\ m + (n - 1) \in Nat
    BY <2>1, <2>2
  <2>4. f[m + (n - 1)] = f[m] * f[n - 1]
    BY <2>3
  <2>5. f[n] = b * f[n - 1] /\ f[m + n] = b * f[m + (n - 1)]
    BY <1>1, <2>3
  <2>6. \A x, y \in Nat : b * (x * y) = x * (b * y)
    OBVIOUS
  <2>7. f[m] \in Nat /\ f[n - 1] \in Nat
    BY <1>2, <2>3
  <2>8. f[m + n] = f[m] * f[n]
    BY <2>4, <2>5, <2>6, <2>7
  <2> QED
    BY <2>1, <2>8
<1>5. ASSUME NEW m \in Nat, NEW n \in Nat PROVE f[m] <= f[m + n]
  <2>1. PICK x \in Nat, y \in Nat : x = f[m] /\ y = f[n] /\ y >= 1 /\ f[m + n] = x * y
    BY <1>2, <1>4
  <2>2. x * y = x + x * (y - 1) /\ x * (y - 1) >= 0
    BY <2>1
  <2> QED
    BY <2>1, <2>2
<1> QED
  BY <1>1, <1>2, <1>3, <1>4, <1>5

LEMMA Pow2 ==
  /\ pow2 \in [Nat -> Nat] /\ pow2[0] = 1
  /\ \A n \in Nat : pow2[n] \in Nat /\ pow2[n] >= 1 /\ pow2[n + 1] = 2 * pow2[n]
  /\ \A m, n \in Nat : pow2[m + n] = pow2[m] * pow2[n] /\ pow2[m] <= pow2[m + n]
<1>1. PowersOf(2, pow2)
  <2>1. \E f : f = [n \in Nat |-> IF n = 0 THEN 1 ELSE 2 * f[n - 1]]
    BY PowersExist DEF PowersOf
  <2> QED
    BY <2>1 DEF pow2, PowersOf
<1>2. 2 \in Nat /\ 2 >= 2
  OBVIOUS
<1> QED
  BY <1>1, <1>2, PowerRules, Zenon

LEMMA Pow10 ==
  /\ pow10 \in [Nat -> Nat] /\ pow10[0] = 1
  /\ \A n \in Nat : pow10[n] \in Nat /\ pow10[n] >= 1 /\ pow10[n + 1] = 10 * pow10[n]
  /\ \A m, n \in Nat : pow10[m + n] = pow10[m] * pow10[n] /\ pow10[m] <= pow10[m + n]
<1>1. PowersOf(10, pow10)
  <2>1. \E f : f = [n \in Nat |-> IF n = 0 THEN 1 ELSE 10 * f[n - 1]]
    BY PowersExist DEF PowersOf
  <2> QED
    BY <2>1 DEF pow10, PowersOf
<1>2. 10 \in Nat /\ 10 >= 2
  OBVIOUS
<1> QED
  BY <1>1, <1>2, PowerRules, Zenon

------------------------------------------------------------------------------
(* Doubles and the nearest of them.  Short names: the bits of a mantissa,  *)
(* of a fraction, the exponents and the integers, the printed decimals, a  *)
(* one and the integer just beyond the largest.                            *)

P == MantissaBits
F == FractionBits
E == MaxExponent
W == IntBits
D == Decimals
U == pow2[F]
M == pow2[W - 1]

LEMMA Widths ==
  /\ P \in Nat /\ F \in Nat /\ E \in Nat /\ W \in Nat /\ D \in Nat
  /\ P >= 1 /\ W >= P + 3 /\ E + P > F + W /\ E > F + 3 /\ W - 1 \in Nat /\ P - 1 \in Nat
  /\ U \in Nat /\ U >= 1 /\ M \in Nat /\ M >= 1 /\ One = U /\ Min_Int = -M /\ Max_Int = M - 1
<1>1. /\ P \in Nat /\ F \in Nat /\ E \in Nat /\ W \in Nat /\ D \in Nat
      /\ P >= 1 /\ W >= P + 3 /\ E + P > F + W
  BY RealAssumption DEF P, F, E, W, D
<1>2. E > F + 3 /\ W - 1 \in Nat /\ P - 1 \in Nat
  BY <1>1
<1> QED
  BY <1>1, <1>2, Pow2 DEF U, M, One, Min_Int, Max_Int, F, W

LEMMA Magnitudes ==
  ASSUME NEW v \in Int
  PROVE  /\ Magnitude(v) \in Nat /\ -Magnitude(v) <= v /\ v <= Magnitude(v)
         /\ v >= 0 => Magnitude(v) = v
         /\ v <= 0 => Magnitude(v) = -v
BY DEF Magnitude

(* Multiples of a unit. *)
LEMMA Multiples ==
  ASSUME NEW u \in Nat, u >= 1, NEW j \in Int, NEW k \in Int
  PROVE  /\ j * u \in Int /\ k * u \in Int
         /\ j < k => j * u + u <= k * u
         /\ j <= k => j * u <= k * u
         /\ j * u < k * u => j < k
         /\ j * u < k * u + u => j <= k
<1>1. ASSUME NEW x \in Int, NEW y \in Int, x < y PROVE x * u + u <= y * u
  <2>1. y * u = x * u + u + (y - x - 1) * u /\ (y - x - 1) * u >= 0
    <3>1. y - x - 1 \in Nat
      BY <1>1
    <3>2. (y - x - 1) * u >= 0
      BY <3>1
    <3> QED
      BY <3>2
  <2>2. x * u \in Int /\ y * u \in Int
    OBVIOUS
  <2> QED
    BY <2>1, <2>2
<1>2. j * u \in Int /\ k * u \in Int
  OBVIOUS
<1>3. j < k => j * u + u <= k * u
  BY <1>1
<1>4. k < j => k * u + u <= j * u
  BY <1>1
<1>5. j <= k => j * u <= k * u
  BY <1>2, <1>3
<1>6. j * u < k * u => j < k
  <2>1. j = k => j * u = k * u
    OBVIOUS
  <2> QED
    BY <1>2, <1>4, <2>1
<1>7. j * u < k * u + u => j <= k
  BY <1>2, <1>4
<1> QED
  BY <1>2, <1>3, <1>5, <1>6, <1>7

(* A quotient, by what it does. *)
LEMMA Quotient ==
  ASSUME NEW v \in Int, NEW u \in Nat, u >= 1
  PROVE  /\ v \div u \in Int /\ (v \div u) * u \in Int
         /\ (v \div u) * u <= v /\ v < (v \div u) * u + u
         /\ \A q \in Int : q * u <= v /\ v < q * u + u => v \div u = q
<1> DEFINE r == v \div u
<1>1. r \in Int /\ u * r <= v /\ v < u * r + u
  OBVIOUS
<1> HIDE DEF r
<1>2. r * u = u * r
  BY <1>1
<1>3. ASSUME NEW q \in Int, q * u <= v, v < q * u + u PROVE r = q
  <2>1. r * u < q * u + u /\ q * u < r * u + u
    BY <1>1, <1>2, <1>3
  <2> QED
    BY <1>1, <2>1, Multiples
<1> QED
  BY <1>1, <1>2, <1>3 DEF r

MantissaPower == pow2[P]

(* A double is a mantissa times a power, with a sign. *)
LEMMA DoubleForm ==
  ASSUME NEW d \in Doubles
  PROVE  /\ d \in Int
         /\ \E m \in Nat, e \in 0..E :
              m < pow2[P] /\ Magnitude(d) = m * pow2[e]
              /\ (d = m * pow2[e] \/ d = -(m * pow2[e]))
<1>1. PICK s \in {1, -1}, m \in 0..(pow2[P] - 1), e \in 0..E : d = s * m * pow2[e]
  BY DEF Doubles, P, E
<1>2. m \in Nat /\ m < pow2[P] /\ e \in Nat
  BY <1>1, Widths, Pow2
<1>3. PICK x \in Nat : x = m * pow2[e]
  BY <1>2, Pow2
<1>4. d = x \/ d = -x
  <2>1. PICK y \in Nat : y = pow2[e]
    BY <1>2, Pow2
  <2>2. 1 * m * y = m * y /\ (-1) * m * y = -(m * y)
    BY <1>2
  <2> QED
    BY <1>1, <1>3, <2>1, <2>2
<1>5. d \in Int /\ Magnitude(d) = x
  BY <1>3, <1>4 DEF Magnitude
<1> QED
  BY <1>1, <1>2, <1>3, <1>4, <1>5

LEMMA FormIsDouble ==
  ASSUME NEW m \in Nat, m < pow2[P], NEW e \in Nat, e <= E
  PROVE  m * pow2[e] \in Doubles /\ -(m * pow2[e]) \in Doubles
<1>1. m \in 0..(MantissaPower - 1) /\ e \in 0..E
  BY Widths, Pow2 DEF MantissaPower
<1>2. PICK y \in Nat : y = pow2[e]
  BY Pow2
<1>3. 1 * m * y = m * y /\ (-1) * m * y = -(m * y)
  OBVIOUS
<1>4. 1 * m * pow2[e] \in Doubles /\ (-1) * m * pow2[e] \in Doubles
  BY <1>1 DEF Doubles, P, E, MantissaPower
<1> QED
  BY <1>2, <1>3, <1>4

(* The exponent of a number that is not beyond all doubles. *)
LEMMA ExponentRight ==
  ASSUME NEW v \in Int, Magnitude(v) < pow2[P + E]
  PROVE  /\ Exponent(v) \in Nat /\ Exponent(v) <= E
         /\ Magnitude(v) < pow2[P + Exponent(v)]
         /\ Exponent(v) = 0 \/ Magnitude(v) >= pow2[P + Exponent(v) - 1]
<1> DEFINE T == {e \in 0..E : Magnitude(v) < pow2[P + e]}
           Good(e) == /\ Magnitude(v) < pow2[P + e]
                      /\ e = 0 \/ Magnitude(v) >= pow2[P + e - 1]
<1>1. T \subseteq Nat /\ E \in T
  BY Widths
<1>2. PICK e \in T : \A f \in T : e <= f
  <2> HIDE DEF T
  <2> QED
    BY <1>1, LeastNumber
<1>3. e \in 0..E /\ Magnitude(v) < pow2[P + e]
  BY <1>2
<1>4. e = 0 \/ Magnitude(v) >= pow2[P + e - 1]
  <2> SUFFICES ASSUME e # 0 PROVE Magnitude(v) >= pow2[P + e - 1]
    OBVIOUS
  <2>1. e - 1 \in 0..E /\ e - 1 \notin T /\ P + (e - 1) = P + e - 1
    BY <1>2, <1>3, Widths
  <2>2. P + e - 1 \in Nat
    BY <1>3, Widths
  <2>3. pow2[P + e - 1] \in Nat /\ Magnitude(v) \in Nat
    BY <2>2, Pow2, Magnitudes
  <2> QED
    BY <2>1, <2>3
<1>5. Exponent(v) = CHOOSE f \in 0..E : Good(f)
  BY DEF Exponent, P, E
<1>6. Exponent(v) \in 0..E /\ Good(Exponent(v))
  <2>1. Good(e)
    BY <1>3, <1>4
  <2> HIDE DEF Good
  <2> QED
    BY <1>3, <1>5, <2>1
<1> QED
  BY <1>6, Widths

(* The nearest is one of the two multiples of the unit around a number. *)
LEMMA NearestSteps ==
  ASSUME NEW v \in Int, Magnitude(v) < pow2[P + E]
  PROVE  LET u == pow2[Exponent(v)]
         IN  \E q \in Int :
               /\ q * u <= v /\ v < q * u + u
               /\ Nearest(v) = q * u \/ Nearest(v) = q * u + u
               /\ 2 * (v - q * u) < u => Nearest(v) = q * u
               /\ 2 * (v - q * u) > u => Nearest(v) = q * u + u
<1> DEFINE u == pow2[Exponent(v)]
           q == v \div u
           r == v - q * u
<1>1. u \in Nat /\ u >= 1
  BY ExponentRight, Pow2
<1>2. Nearest(v) = IF 2 * r < u \/ (2 * r = u /\ q % 2 = 0) THEN q * u ELSE (q + 1) * u
  BY DEF Nearest
<1> HIDE DEF u
<1>3. q \in Int /\ q * u \in Int /\ q * u <= v /\ v < q * u + u
  BY <1>1, Quotient
<1>4. (q + 1) * u = q * u + u
  BY <1>1, <1>3
<1> HIDE DEF q
<1>5. Nearest(v) = q * u \/ Nearest(v) = q * u + u
  BY <1>2, <1>4
<1>6. 2 * r < u => Nearest(v) = q * u
  BY <1>2
<1>7. 2 * r > u => Nearest(v) = q * u + u
  <2>1. r \in Int
    BY <1>3
  <2> HIDE DEF r
  <2> QED
    BY <1>1, <1>2, <1>4, <2>1
<1> QED
  BY <1>3, <1>5, <1>6, <1>7 DEF u

(* A power as the multiple of a smaller one. *)
LEMMA PowerOver ==
  ASSUME NEW a \in Nat, NEW b \in Nat, a <= b
  PROVE  /\ b - a \in Nat /\ pow2[b - a] \in Nat /\ pow2[b - a] >= 1
         /\ pow2[b] = pow2[b - a] * pow2[a] /\ pow2[a] <= pow2[b]
<1>1. b - a \in Nat /\ (b - a) + a = b /\ a + (b - a) = b
  OBVIOUS
<1> QED
  BY <1>1, Pow2

LEMMA PowerProduct ==
  ASSUME NEW a \in Nat, NEW b \in Nat
  PROVE  /\ pow2[a] \in Nat /\ pow2[b] \in Nat /\ pow2[a] >= 1 /\ pow2[b] >= 1
         /\ pow2[a + b] = pow2[a] * pow2[b]
BY Pow2

LEMMA DoubleMultiple ==
  ASSUME NEW d \in Doubles, NEW e \in Nat,
         e = 0 \/ Magnitude(d) >= pow2[P + e - 1]
  PROVE  \E k \in Int : d = k * pow2[e]
<1>1. PICK m \in Nat, x \in 0..E :
         m < pow2[P] /\ Magnitude(d) = m * pow2[x] /\ (d = m * pow2[x] \/ d = -(m * pow2[x]))
  BY DoubleForm
<1>2. x \in Nat /\ d \in Int
  BY Widths, DoubleForm
<1>3. CASE e <= x
  <2>1. PICK g \in Nat, u \in Nat : pow2[x] = g * u /\ u = pow2[e]
    BY <1>2, <1>3, PowerOver, Pow2
  <2>2. m * (g * u) = (m * g) * u /\ -(m * (g * u)) = (-(m * g)) * u /\ m * g \in Int /\ -(m * g) \in Int
    OBVIOUS
  <2> QED
    BY <1>1, <2>1, <2>2
<1>4. CASE x < e
  <2>1. P + x \in Nat /\ P + e - 1 \in Nat /\ P + x <= P + e - 1
    BY <1>2, <1>4, Widths
  <2>2. pow2[P + x] <= pow2[P + e - 1]
    BY <2>1, PowerOver
  <2>3. PICK p \in Nat, y \in Nat : p = pow2[P] /\ y = pow2[x] /\ y >= 1 /\ pow2[P + x] = p * y
    <3>1. /\ pow2[P] \in Nat /\ pow2[x] \in Nat /\ pow2[x] >= 1
          /\ pow2[P + x] = pow2[P] * pow2[x]
      BY <1>2, Widths, PowerProduct
    <3> QED
      BY <3>1
  <2>4. m * y < p * y
    <3>1. m * y + y <= p * y
      BY <1>1, <2>3, Multiples
    <3> QED
      BY <2>3, <3>1
  <2>5. pow2[P + e - 1] \in Nat
    BY <2>1, Pow2
  <2> QED
    BY <1>1, <1>4, <2>2, <2>3, <2>4, <2>5
<1> QED
  BY <1>2, <1>3, <1>4

(* No double lies between a number and the nearest. *)
LEMMA NearestBetween ==
  ASSUME NEW v \in Int, Magnitude(v) < pow2[P + E], NEW d \in Doubles
  PROVE  /\ Nearest(v) \in Int
         /\ d <= v => d <= Nearest(v)
         /\ v <= d => Nearest(v) <= d
<1> DEFINE e == Exponent(v)
<1>1. e \in Nat /\ (e = 0 \/ Magnitude(v) >= pow2[P + e - 1])
  BY ExponentRight
<1>2. PICK u \in Nat : u = pow2[e] /\ u >= 1
  BY <1>1, Pow2
<1>3. PICK q \in Int :
        /\ q * u <= v /\ v < q * u + u
        /\ Nearest(v) = q * u \/ Nearest(v) = q * u + u
        /\ 2 * (v - q * u) < u => Nearest(v) = q * u
        /\ 2 * (v - q * u) > u => Nearest(v) = q * u + u
  BY <1>2, NearestSteps
<1> HIDE DEF e
<1>4. q * u \in Int /\ d \in Int
  BY <1>2, DoubleForm
<1>5. ASSUME NEW k \in Int
      PROVE  /\ k * u <= v => k * u <= q * u
             /\ v <= k * u => (k * u = q * u /\ v = q * u) \/ q * u + u <= k * u
  <2>1. k * u \in Int
    BY <1>2
  <2>2. k * u <= v => k <= q
    BY <1>2, <1>3, <1>4, <2>1, Multiples
  <2>3. k <= q => k * u <= q * u
    BY <1>2, Multiples
  <2>4. k > q => q * u + u <= k * u
    BY <1>2, Multiples
  <2>5. k < q => k * u + u <= q * u
    BY <1>2, Multiples
  <2>6. k = q => k * u = q * u
    OBVIOUS
  <2> QED
    BY <1>2, <1>3, <1>4, <2>1, <2>2, <2>3, <2>4, <2>5, <2>6
<1>6. v = q * u => Nearest(v) = q * u
  BY <1>2, <1>3, <1>4
<1>7. ASSUME NEW k \in Int
      PROVE  /\ k * u <= v => k * u <= Nearest(v)
             /\ v <= k * u => Nearest(v) <= k * u
  <2>1. k * u \in Int
    BY <1>2
  <2> QED
    BY <1>2, <1>3, <1>4, <1>5, <1>6, <2>1
<1>8. CASE e = 0 \/ Magnitude(d) >= pow2[P + e - 1]
  <2>1. PICK k \in Int : d = k * u
    BY <1>1, <1>2, <1>8, DoubleMultiple
  <2> QED
    BY <1>2, <1>3, <1>4, <1>7, <2>1
<1>9. CASE e # 0 /\ Magnitude(d) < pow2[P + e - 1]
  <2>1. P - 1 \in Nat /\ P + e - 1 = (P - 1) + e /\ P + e - 1 \in Nat
    BY <1>1, Widths
  <2>2. PICK h \in Nat : h = pow2[P - 1] /\ pow2[P + e - 1] = h * u
    <3>1. pow2[P - 1] \in Nat /\ pow2[(P - 1) + e] = pow2[P - 1] * pow2[e]
      BY <1>1, <2>1, PowerProduct
    <3> QED
      BY <1>2, <2>1, <3>1
  <2>3. -h \in Int /\ (-h) * u = -(h * u) /\ h * u \in Nat
    BY <1>2
  <2>4. Magnitude(v) >= h * u /\ Magnitude(d) < h * u
    BY <1>1, <1>9, <2>2
  <2>5. (v >= h * u \/ v <= (-h) * u) /\ d < h * u /\ (-h) * u < d
    BY <1>4, <2>3, <2>4 DEF Magnitude
  <2>6. v >= h * u => Nearest(v) >= h * u
    <3>1. h \in Int /\ (h * u <= v => h * u <= Nearest(v))
      BY <1>7
    <3> QED
      BY <1>2, <1>3, <1>4, <2>3, <3>1
  <2>7. v <= (-h) * u => Nearest(v) <= (-h) * u
    BY <1>7, <2>3
  <2> QED
    BY <1>2, <1>3, <1>4, <2>3, <2>5, <2>6, <2>7
<1>10. e = 0 \/ (Magnitude(d) \in Nat /\ pow2[P + e - 1] \in Nat)
  <2>1. e = 0 \/ P + e - 1 \in Nat
    BY <1>1, Widths
  <2> QED
    BY <1>4, <2>1, Magnitudes, Pow2
<1> QED
  BY <1>2, <1>3, <1>4, <1>8, <1>9, <1>10

(* No double is beyond them all, and a double is its own nearest. *)
LEMMA NearestSame ==
  ASSUME NEW d \in Doubles
  PROVE  d \in Int /\ Magnitude(d) < pow2[P + E] /\ Nearest(d) = d
<1>1. d \in Int
  BY DoubleForm
<1>2. Magnitude(d) < pow2[P + E]
  <2>1. PICK m \in Nat, x \in 0..E : m < pow2[P] /\ Magnitude(d) = m * pow2[x]
    BY DoubleForm
  <2>2. x \in Nat /\ P + x <= P + E /\ P + x \in Nat /\ P + E \in Nat
    BY <2>1, Widths
  <2>3. pow2[P + x] <= pow2[P + E] /\ pow2[P + E] \in Nat
    BY <2>2, PowerOver, Pow2
  <2>4. PICK p \in Nat, y \in Nat : p = pow2[P] /\ y = pow2[x] /\ y >= 1 /\ pow2[P + x] = p * y
    <3>1. /\ pow2[P] \in Nat /\ pow2[x] \in Nat /\ pow2[x] >= 1
          /\ pow2[P + x] = pow2[P] * pow2[x]
      BY <2>2, Widths, PowerProduct
    <3> QED
      BY <3>1
  <2>5. m * y + y <= p * y /\ m * y \in Nat /\ p * y \in Nat
    BY <2>1, <2>4, Multiples
  <2> QED
    BY <2>1, <2>3, <2>4, <2>5
<1>3. Nearest(d) \in Int /\ d <= Nearest(d) /\ Nearest(d) <= d
  BY <1>1, <1>2, NearestBetween
<1> QED
  BY <1>1, <1>2, <1>3

------------------------------------------------------------------------------
(* The bounds: the doubles 2^(IntBits-1) and its opposite. *)
B == M * U

LEMMA PowerOrder ==
  ASSUME NEW a \in Nat, NEW b \in Nat, pow2[a] < pow2[b]
  PROVE  a < b
<1> SUFFICES ASSUME b <= a PROVE FALSE
  OBVIOUS
<1>1. pow2[b] <= pow2[a]
  BY PowerOver
<1> QED
  BY <1>1, Pow2

LEMMA BoundPowers ==
  /\ W + F - 1 \in Nat /\ W + F - 2 \in Nat /\ B = pow2[W + F - 1] /\ B = 2 * pow2[W + F - 2]
  /\ B \in Nat /\ pow2[W + F] = 2 * B /\ B >= 8 * U
<1>1. W + F - 1 \in Nat /\ W + F - 2 \in Nat /\ (W - 1) + F = W + F - 1 /\ W - 1 \in Nat
      /\ (W + F - 2) + 1 = W + F - 1 /\ (W + F - 1) + 1 = W + F /\ F + 3 \in Nat /\ F + 3 <= W + F - 1
  BY Widths
<1>2. pow2[(W - 1) + F] = M * U
  BY <1>1, Widths, PowerProduct DEF M, U
<1>3. B = pow2[W + F - 1]
  BY <1>1, <1>2 DEF B
<1>4. pow2[W + F - 1] = 2 * pow2[W + F - 2] /\ pow2[W + F] = 2 * pow2[W + F - 1]
  BY <1>1, Pow2
<1>5. pow2[F + 3] = 8 * U
  <2>1. F \in Nat /\ F + 1 \in Nat /\ F + 2 \in Nat /\ (F + 1) + 1 = F + 2 /\ (F + 2) + 1 = F + 3
    BY Widths
  <2>2. pow2[F + 1] = 2 * pow2[F] /\ pow2[F + 2] = 2 * pow2[F + 1] /\ pow2[F + 3] = 2 * pow2[F + 2]
    BY <2>1, Pow2
  <2> QED
    BY <2>2, Widths DEF U
<1>6. pow2[F + 3] <= pow2[W + F - 1] /\ pow2[W + F - 1] \in Nat
  BY <1>1, PowerOver, Pow2
<1> QED
  BY <1>1, <1>3, <1>4, <1>5, <1>6

LEMMA BoundsAreDoubles == B \in Doubles /\ -B \in Doubles
<1> DEFINE g == W + F - P
           h == pow2[P - 1]
<1>1. g \in Nat /\ g <= E /\ P - 1 \in Nat /\ (P - 1) + g = W + F - 1 /\ (P - 1) + 1 = P
  BY Widths
<1>2. h \in Nat /\ h < pow2[P]
  <2>1. pow2[P] = 2 * h /\ h \in Nat /\ h >= 1
    BY <1>1, Pow2
  <2> HIDE DEF h
  <2> QED
    BY <2>1
<1>3. B = h * pow2[g]
  BY <1>1, BoundPowers, PowerProduct
<1> HIDE DEF g, h
<1> QED
  BY <1>1, <1>2, <1>3, FormIsDouble

(* Within a unit of a bound, the nearest double is that bound. *)
LEMMA NearBound ==
  ASSUME NEW x \in {B, -B}, NEW v \in Int, v - x <= U, x - v <= U
  PROVE  Magnitude(v) < pow2[P + E] /\ Nearest(v) = x
<1> DEFINE e == Exponent(v)
<1>1. x \in Int /\ Magnitude(v) \in Nat /\ Magnitude(v) >= B - U /\ Magnitude(v) <= B + U
  BY BoundPowers, Widths DEF Magnitude
<1>2. Magnitude(v) >= pow2[W + F - 2] /\ Magnitude(v) < pow2[W + F]
      /\ pow2[W + F - 2] \in Nat /\ pow2[W + F] \in Nat
  <2>1. pow2[W + F - 2] \in Nat
    BY BoundPowers, Pow2
  <2> QED
    BY <1>1, <2>1, BoundPowers, Widths
<1>3. Magnitude(v) < pow2[P + E]
  <2>1. W + F \in Nat /\ P + E \in Nat /\ W + F <= P + E
    BY Widths
  <2>2. pow2[W + F] <= pow2[P + E] /\ pow2[P + E] \in Nat
    BY <2>1, PowerOver, Pow2
  <2> QED
    BY <1>1, <1>2, <2>2
<1>4. /\ e \in Nat /\ e <= E /\ Magnitude(v) < pow2[P + e]
      /\ e = 0 \/ Magnitude(v) >= pow2[P + e - 1]
  BY <1>3, ExponentRight
<1> HIDE DEF e
<1>5. W + F - 2 < P + e
  <2>1. P + e \in Nat /\ W + F - 2 \in Nat
    BY <1>4, Widths
  <2>2. pow2[W + F - 2] < pow2[P + e]
    <3>1. pow2[P + e] \in Nat
      BY <2>1, Pow2
    <3> QED
      BY <1>1, <1>2, <1>4, <3>1
  <2> QED
    BY <2>1, <2>2, PowerOrder
<1>6. e >= F + 2
  BY <1>4, <1>5, Widths
<1>7. P + e - 1 < W + F
  <2>1. P + e - 1 \in Nat /\ W + F \in Nat /\ e # 0
    BY <1>4, <1>6, Widths
  <2>2. pow2[P + e - 1] < pow2[W + F]
    <3>1. pow2[P + e - 1] \in Nat
      BY <2>1, Pow2
    <3> QED
      BY <1>1, <1>2, <1>4, <2>1, <3>1
  <2> QED
    BY <2>1, <2>2, PowerOrder
<1>8. e <= W + F - 1 /\ F + 2 \in Nat /\ W + F - 1 \in Nat
  BY <1>4, <1>7, Widths
<1>9. PICK u \in Nat : u = pow2[e] /\ u >= 4 * U
  <2>1. F \in Nat /\ F + 1 \in Nat /\ (F + 1) + 1 = F + 2
    BY Widths
  <2>2. pow2[F + 1] = 2 * pow2[F] /\ pow2[F + 2] = 2 * pow2[F + 1]
    BY <2>1, Pow2
  <2>3. pow2[F + 2] <= pow2[e] /\ pow2[e] \in Nat
    BY <1>4, <1>6, <1>8, PowerOver, Pow2
  <2> QED
    BY <2>2, <2>3, Widths DEF U
<1>10. PICK k \in Int : x = k * u
  <2>1. PICK g \in Nat : pow2[W + F - 1] = g * u
    BY <1>4, <1>8, <1>9, PowerOver
  <2>2. g \in Int /\ -g \in Int /\ (-g) * u = -(g * u)
    OBVIOUS
  <2> QED
    BY <2>1, <2>2, BoundPowers
<1>11. PICK q \in Int :
        /\ q * u <= v /\ v < q * u + u
        /\ Nearest(v) = q * u \/ Nearest(v) = q * u + u
        /\ 2 * (v - q * u) < u => Nearest(v) = q * u
        /\ 2 * (v - q * u) > u => Nearest(v) = q * u + u
  BY <1>3, <1>9, NearestSteps DEF e
<1>12. u >= 1 /\ q * u \in Int /\ U \in Nat /\ U >= 1
  BY <1>9, Widths
<1>13. CASE v >= x
  <2>1. k = q
    <3>1. k * u <= v /\ v < k * u + u /\ k * u \in Int
      BY <1>1, <1>9, <1>10, <1>12, <1>13
    <3> QED
      BY <1>11, <1>12, <3>1, Multiples
  <2> QED
    BY <1>1, <1>3, <1>9, <1>10, <1>11, <1>12, <1>13, <2>1
<1>14. CASE v < x
  <2>1. k - 1 \in Int /\ (k - 1) * u = k * u - u /\ k * u \in Int
    OBVIOUS
  <2>2. k - 1 = q
    <3>1. (k - 1) * u <= v /\ v < (k - 1) * u + u
      BY <1>1, <1>9, <1>10, <1>12, <1>14, <2>1
    <3> QED
      BY <1>11, <1>12, <2>1, <3>1, Multiples
  <2> QED
    BY <1>1, <1>3, <1>9, <1>10, <1>11, <1>12, <1>14, <2>1, <2>2
<1> QED
  BY <1>1, <1>13, <1>14

(* So no other double is there. *)
LEMMA AloneAtBound ==
  ASSUME NEW x \in {B, -B}, NEW d \in Doubles, d - x <= U, x - d <= U
  PROVE  d = x
BY NearBound, NearestSame

(* What the code compares with. *)
LEMMA CodeBounds ==
  /\ Max_Int_d = B /\ Min_Int_d = -B
  /\ Nearest(Max_Int_d + One) = B /\ Nearest(Min_Int_d - One) = -B
<1>1. B \in Int /\ -B \in Int /\ U \in Nat /\ One = U
  BY BoundPowers, Widths
<1>2. Max_Int * One = B - U /\ Min_Int * One = -B
  <2>1. M \in Nat /\ U \in Nat /\ (M - 1) * U = M * U - U /\ (-M) * U = -(M * U)
    BY Widths
  <2> QED
    BY <2>1, Widths DEF B
<1>3. \A x \in {B, -B}, v \in Int : v - x <= U /\ x - v <= U => Nearest(v) = x
  BY NearBound
<1>4. Max_Int_d = B /\ Min_Int_d = -B
  BY <1>1, <1>2, <1>3 DEF Max_Int_d, Min_Int_d
<1> QED
  BY <1>1, <1>3, <1>4

------------------------------------------------------------------------------
(* The whole part and the fraction of a double. *)

LEMMA OppositeIsDouble ==
  ASSUME NEW d \in Doubles
  PROVE  -d \in Doubles /\ 0 \in Doubles
<1>1. PICK m \in Nat, x \in 0..E :
         m < pow2[P] /\ Magnitude(d) = m * pow2[x] /\ (d = m * pow2[x] \/ d = -(m * pow2[x]))
  BY DoubleForm
<1>2. x \in Nat /\ x <= E
  BY Widths
<1>3. PICK y \in Nat : y = pow2[x]
  BY <1>2, Pow2
<1>4. m * y \in Doubles /\ -(m * y) \in Doubles
  BY <1>1, <1>2, <1>3, FormIsDouble
<1>5. -d \in Doubles
  <2>1. m * y \in Nat /\ -(-(m * y)) = m * y
    OBVIOUS
  <2> QED
    BY <1>1, <1>3, <1>4, <2>1
<1>6. 0 \in Doubles
  <2>1. 0 \in Nat /\ 0 < pow2[P]
    BY Widths, Pow2
  <2>2. 0 * y = 0
    OBVIOUS
  <2> QED
    BY <1>2, <1>3, <2>1, <2>2, FormIsDouble
<1> QED
  BY <1>5, <1>6

(* A double is whole, or a multiple of a part of the unit of which every   *)
(* smaller multiple is a double too.                                       *)
LEMMA FineOrWhole ==
  ASSUME NEW d \in Doubles
  PROVE  \/ \E k \in Int : d = k * U
         \/ \E p \in Nat, g \in Nat, m \in Int :
              /\ p >= 1 /\ U = g * p /\ d = m * p
              /\ \A k \in Int : Magnitude(k * p) <= Magnitude(d) => k * p \in Doubles
<1>1. PICK m \in Nat, x \in 0..E :
         m < pow2[P] /\ Magnitude(d) = m * pow2[x] /\ (d = m * pow2[x] \/ d = -(m * pow2[x]))
  BY DoubleForm
<1>2. x \in Nat /\ x <= E /\ F \in Nat /\ d \in Int
  BY Widths, DoubleForm
<1>3. PICK p \in Nat : p = pow2[x] /\ p >= 1
  BY <1>2, Pow2
<1>4. CASE F <= x
  <2>1. PICK g \in Nat : p = g * U
    BY <1>2, <1>3, <1>4, PowerOver DEF U
  <2>2. U \in Nat /\ m * (g * U) = (m * g) * U /\ -(m * (g * U)) = (-(m * g)) * U
        /\ m * g \in Int /\ -(m * g) \in Int
    BY Widths
  <2> QED
    BY <1>1, <1>3, <2>1, <2>2
<1>5. CASE x <= F
  <2>1. PICK g \in Nat : U = g * p
    BY <1>2, <1>3, <1>5, PowerOver DEF U
  <2>2. PICK i \in Int : d = i * p
    <3>1. -m \in Int /\ (-m) * p = -(m * p)
      OBVIOUS
    <3> QED
      BY <1>1, <1>3, <3>1
  <2>3. ASSUME NEW k \in Int, Magnitude(k * p) <= Magnitude(d) PROVE k * p \in Doubles
    <3>1. PICK n \in Nat : (k = n \/ k = -n) /\ Magnitude(k) = n
      BY Magnitudes
    <3>2. (-n) * p = -(n * p) /\ n * p \in Nat
      OBVIOUS
    <3>3. Magnitude(k * p) = n * p
      BY <3>1, <3>2 DEF Magnitude
    <3>4. n * p <= m * p
      BY <1>1, <1>3, <2>3, <3>3
    <3>5. n <= m
      <4>1. m < n => m * p + p <= n * p
        BY <1>3, Multiples
      <4> QED
        BY <1>3, <3>2, <3>4, <4>1
    <3>6. n < pow2[P] /\ pow2[P] \in Nat
      BY <1>1, <3>5, Widths, Pow2
    <3>7. n * p \in Doubles /\ -(n * p) \in Doubles
      BY <1>2, <1>3, <3>6, FormIsDouble
    <3> QED
      BY <3>1, <3>2, <3>7
  <2> QED
    BY <1>3, <2>1, <2>2, <2>3
<1> QED
  BY <1>2, <1>4, <1>5

LEMMA PartsOfDouble ==
  ASSUME NEW d \in Doubles, NEW q \in Int, d - q * U < U, q * U - d < U
  PROVE  /\ q * U \in Int
         /\ Magnitude(q * U) <= Magnitude(d) => q * U \in Doubles
         /\ Magnitude(d - q * U) <= Magnitude(d) => d - q * U \in Doubles
<1>1. U \in Nat /\ U >= 1 /\ d \in Int /\ q * U \in Int
  BY Widths, DoubleForm
<1>2. CASE \E k \in Int : d = k * U
  <2>1. PICK k \in Int : d = k * U
    BY <1>2
  <2>2. k < q => k * U + U <= q * U
    BY <1>1, Multiples
  <2>3. q < k => q * U + U <= k * U
    BY <1>1, Multiples
  <2>4. k = q
    BY <1>1, <2>1, <2>2, <2>3
  <2> QED
    BY <1>1, <2>1, <2>4, OppositeIsDouble
<1>3. CASE \E p \in Nat, g \in Nat, m \in Int :
              /\ p >= 1 /\ U = g * p /\ d = m * p
              /\ \A k \in Int : Magnitude(k * p) <= Magnitude(d) => k * p \in Doubles
  <2>1. PICK p \in Nat, g \in Nat, m \in Int :
              /\ p >= 1 /\ U = g * p /\ d = m * p
              /\ \A k \in Int : Magnitude(k * p) <= Magnitude(d) => k * p \in Doubles
    BY <1>3
  <2>2. q * (g * p) = (q * g) * p /\ q * g \in Int
    OBVIOUS
  <2>3. m * p - (q * g) * p = (m - q * g) * p /\ m - q * g \in Int
    BY <2>2
  <2> QED
    BY <1>1, <2>1, <2>2, <2>3
<1> QED
  BY <1>1, <1>2, <1>3, FineOrWhole

------------------------------------------------------------------------------
(* floor, trunc and ceil. *)

Floor(v) == v \div U
Ceiling(v) == -((-v) \div U)

LEMMA Roundings ==
  ASSUME NEW v \in Int
  PROVE  /\ Floor(v) \in Int /\ Floor(v) * U \in Int
         /\ Floor(v) * U <= v /\ v < Floor(v) * U + U
         /\ Ceiling(v) \in Int /\ Ceiling(v) * U \in Int
         /\ v <= Ceiling(v) * U /\ Ceiling(v) * U < v + U
         /\ v >= 0 => Truncated(v) = Floor(v) /\ Floor(v) * U >= 0 /\ Floor(v) >= 0
         /\ v < 0 => Truncated(v) = Ceiling(v) /\ Ceiling(v) * U <= 0
<1>1. U \in Nat /\ U >= 1 /\ -v \in Int /\ One = U
  BY Widths
<1>2. Floor(v) \in Int /\ Floor(v) * U \in Int /\ Floor(v) * U <= v /\ v < Floor(v) * U + U
  BY <1>1, Quotient DEF Floor
<1>3. PICK q \in Int : Ceiling(v) = -q /\ q * U \in Int /\ q * U <= -v /\ -v < q * U + U
  BY <1>1, Quotient DEF Ceiling
<1>4. -q \in Int /\ (-q) * U = -(q * U)
  BY <1>1, <1>3
<1>5. ASSUME NEW x \in Int, 0 < x * U + U PROVE x >= 0 /\ x * U >= 0
  <2>1. 0 * U = 0 /\ 0 \in Int
    BY <1>1
  <2>2. 0 <= x
    BY <1>1, <1>5, <2>1, Multiples
  <2> QED
    BY <1>1, <2>1, <2>2, Multiples
<1>6. v >= 0 => Floor(v) >= 0 /\ Floor(v) * U >= 0
  <2>1. PICK x \in Int : x = Floor(v) /\ x * U \in Int /\ v < x * U + U
    BY <1>2
  <2>2. v >= 0 => 0 < x * U + U
    BY <1>1, <2>1
  <2> QED
    BY <1>5, <2>1, <2>2
<1>7. v < 0 => q * U >= 0
  <2>1. v < 0 => 0 < q * U + U
    BY <1>1, <1>3
  <2> QED
    BY <1>3, <1>5, <2>1
<1>8. (v >= 0 => Truncated(v) = Floor(v)) /\ (v < 0 => Truncated(v) = Ceiling(v))
  BY <1>1 DEF Truncated, Floor, Ceiling
<1>9. PICK c \in Int : c = Ceiling(v) /\ c * U = -(q * U)
  BY <1>3, <1>4
<1>10. Ceiling(v) \in Int /\ c * U \in Int /\ v <= c * U /\ c * U < v + U
       /\ (v < 0 => c * U <= 0)
  BY <1>1, <1>3, <1>7, <1>9
<1> QED
  BY <1>2, <1>6, <1>8, <1>9, <1>10

LEMMA TruncatedSide ==
  ASSUME NEW v \in Int
  PROVE  \E q \in Int :
           /\ q = Truncated(v) /\ q * U \in Int
           /\ v >= 0 => 0 <= q * U /\ q * U <= v /\ v < q * U + U
           /\ v < 0 => q * U <= 0 /\ v <= q * U /\ q * U < v + U
<1>1. CASE v >= 0
  <2>1. PICK q \in Int : q = Floor(v)
    BY Roundings
  <2> QED
    BY <1>1, <2>1, Roundings
<1>2. CASE v < 0
  <2>1. PICK q \in Int : q = Ceiling(v)
    BY Roundings
  <2> QED
    BY <1>2, <2>1, Roundings
<1> QED
  BY <1>1, <1>2

(* Neighbouring whole numbers. *)
LEMMA WholeNumbers ==
  ASSUME NEW i \in Int, NEW j \in Int
  PROVE  /\ i * U \in Int /\ (i + 1) * U = i * U + U /\ (i - 1) * U = i * U - U
         /\ i * U - U < j * U /\ j * U < i * U + U => i = j
         /\ i \in Min_Int..Max_Int <=> -B <= i * U /\ i * U < B
<1>1. U \in Nat /\ U >= 1 /\ M \in Int /\ -M \in Int /\ (-M) * U = -B /\ B = M * U /\ B \in Int
  <2>1. M \in Nat /\ U \in Nat /\ U >= 1
    BY Widths
  <2>2. (-M) * U = -(M * U) /\ M * U \in Int
    BY <2>1
  <2> QED
    BY <2>1, <2>2 DEF B
<1>2. i * U \in Int /\ j * U \in Int /\ (i + 1) * U = i * U + U /\ (i - 1) * U = i * U - U
  BY <1>1
<1>3. i < j => i * U + U <= j * U
  BY <1>1, Multiples
<1>4. j < i => j * U + U <= i * U
  BY <1>1, Multiples
<1>5. -M <= i <=> -B <= i * U
  <2>1. -M <= i => (-M) * U <= i * U
    BY <1>1, Multiples
  <2>2. i < -M => i * U + U <= (-M) * U
    BY <1>1, Multiples
  <2> QED
    BY <1>1, <1>2, <2>1, <2>2
<1>6. i < M <=> i * U < B
  <2>1. M <= i => M * U <= i * U
    BY <1>1, Multiples
  <2>2. i < M => i * U + U <= M * U
    BY <1>1, Multiples
  <2> QED
    BY <1>1, <1>2, <2>1, <2>2
<1>7. i \in Min_Int..Max_Int <=> -M <= i /\ i < M
  BY <1>1, Widths
<1> QED
  BY <1>1, <1>2, <1>3, <1>4, <1>5, <1>6, <1>7

(* A truncated double is a double: the cast back is exact. *)
LEMMA CastBack ==
  ASSUME NEW v \in Doubles
  PROVE  ToDouble(Truncated(v)) = Truncated(v) * U
<1>1. v \in Int /\ U \in Nat /\ U >= 1 /\ One = U
  BY DoubleForm, Widths
<1>2. PICK q \in Int :
        q = Truncated(v) /\ q * U \in Int /\ v - q * U < U /\ q * U - v < U
        /\ Magnitude(q * U) <= Magnitude(v)
  <2>1. PICK q \in Int :
          /\ q = Truncated(v) /\ q * U \in Int
          /\ v >= 0 => 0 <= q * U /\ q * U <= v /\ v < q * U + U
          /\ v < 0 => q * U <= 0 /\ v <= q * U /\ q * U < v + U
    BY <1>1, TruncatedSide
  <2> QED
    BY <1>1, <2>1 DEF Magnitude
<1>3. q * U \in Doubles
  BY <1>2, PartsOfDouble
<1> QED
  BY <1>1, <1>2, <1>3, NearestSame DEF ToDouble

(* The cast of a double within the bounds is exact. *)
LEMMA CastInRange ==
  ASSUME NEW v \in Doubles, -B <= v, v < B
  PROVE  /\ Truncated(v) \in Int /\ Truncated(v) \in Min_Int..Max_Int
         /\ ToInt(v) = Truncated(v) /\ ToDouble(ToInt(v)) = Truncated(v) * U
<1>1. v \in Int /\ B \in Nat
  BY DoubleForm, BoundPowers
<1>2. PICK q \in Int : q = Truncated(v) /\ q * U \in Int /\ -B <= q * U /\ q * U < B
  <2>1. PICK q \in Int :
          /\ q = Truncated(v) /\ q * U \in Int
          /\ v >= 0 => 0 <= q * U /\ q * U <= v /\ v < q * U + U
          /\ v < 0 => q * U <= 0 /\ v <= q * U /\ q * U < v + U
    BY <1>1, TruncatedSide
  <2>2. B >= 1
    BY BoundPowers, Widths
  <2> QED
    BY <1>1, <2>1, <2>2
<1>3. q \in Min_Int..Max_Int
  BY <1>2, WholeNumbers
<1> QED
  BY <1>2, <1>3, CastBack DEF ToInt

LEMMA CorrectMeans ==
  ASSUME NEW v \in Int
  PROVE  /\ Correct("floor", v) =
              IF Floor(v) \in Min_Int..Max_Int THEN Floor(v) ELSE OverflowExn
         /\ Correct("ceil", v) =
              IF Ceiling(v) \in Min_Int..Max_Int THEN Ceiling(v) ELSE OverflowExn
         /\ Correct("trunc", v) =
              IF Truncated(v) \in Min_Int..Max_Int THEN Truncated(v) ELSE OverflowExn
<1>1. One = U
  BY Widths
<1> QED
  BY <1>1 DEF Correct, Rounded, Floor, Ceiling

LEMMA FloorRight ==
  ASSUME NEW v \in Doubles
  PROVE  floorFloat(v) = Correct("floor", v)
<1>1. v \in Int /\ U \in Nat /\ U >= 1 /\ B \in Nat /\ B >= 8
  BY DoubleForm, Widths, BoundPowers
<1>2. PICK f \in Int : f = Floor(v) /\ f * U \in Int /\ f * U <= v /\ v < f * U + U
                       /\ (v >= 0 => Truncated(v) = f /\ f * U >= 0)
  BY <1>1, Roundings
<1>3. f \in Min_Int..Max_Int <=> -B <= f * U /\ f * U < B
  BY WholeNumbers
<1>4. Correct("floor", v) = IF f \in Min_Int..Max_Int THEN f ELSE OverflowExn
  BY <1>1, <1>2, CorrectMeans
<1>5. floorFloat(v) =
        IF v >= 0
        THEN IF v >= B THEN OverflowExn ELSE ToInt(v)
        ELSE IF v < -B THEN OverflowExn
             ELSE IF v < ToDouble(ToInt(v)) THEN ToInt(v) - 1 ELSE ToInt(v)
  BY CodeBounds DEF floorFloat
<1>6. CASE v >= 0 /\ v >= B
  <2>1. PICK m \in Int : m = M /\ B = m * U
    BY Widths DEF B
  <2>2. ~(f * U < B)
    <3>1. f < m => f * U + U <= m * U
      BY <1>1, Multiples
    <3>2. m <= f => m * U <= f * U
      BY <1>1, Multiples
    <3> QED
      BY <1>1, <1>2, <1>6, <2>1, <3>1, <3>2
  <2> QED
    BY <1>3, <1>4, <1>5, <1>6, <2>2
<1>7. CASE v >= 0 /\ v < B
  <2>1. ToInt(v) = f
    BY <1>1, <1>2, <1>7, CastInRange
  <2>2. f \in Min_Int..Max_Int
    BY <1>1, <1>2, <1>3, <1>7
  <2> QED
    BY <1>1, <1>4, <1>5, <1>7, <2>1, <2>2
<1>8. CASE v < 0 /\ v < -B
  BY <1>1, <1>2, <1>3, <1>4, <1>5, <1>8
<1>9. CASE v < 0 /\ -B <= v
  <2>1. PICK t \in Int : t = ToInt(v) /\ t \in Min_Int..Max_Int /\ ToDouble(ToInt(v)) = t * U
                         /\ t = Ceiling(v)
    BY <1>1, <1>9, CastInRange, Roundings
  <2>2. t * U \in Int /\ v <= t * U /\ t * U < v + U
    BY <1>1, <2>1, Roundings
  <2>3. (t - 1) * U = t * U - U /\ t - 1 \in Int
    BY WholeNumbers
  <2>4. CASE v < t * U
    <3>1. t - 1 = f
      <4>1. (t - 1) * U - U < f * U /\ f * U < (t - 1) * U + U
        BY <1>1, <1>2, <2>2, <2>3, <2>4
      <4> QED
        BY <2>3, <4>1, WholeNumbers
    <3>2. f \in Min_Int..Max_Int
      <4>1. PICK m \in Int : m = M /\ B = m * U /\ -m \in Int /\ (-m) * U = -B
        BY <1>1, Widths DEF B
      <4>2. -m < t
        BY <1>1, <1>9, <2>2, <2>4, <4>1, Multiples
      <4>3. (-m) * U + U <= t * U
        BY <1>1, <4>2, Multiples
      <4> QED
        BY <1>1, <1>2, <1>3, <1>9, <2>2, <2>3, <3>1, <4>1, <4>3
    <3> QED
      BY <1>1, <1>4, <1>5, <1>9, <2>1, <2>4, <3>1, <3>2
  <2>5. CASE v = t * U
    <3>1. t = f
      <4>1. t * U - U < f * U /\ f * U < t * U + U
        BY <1>1, <1>2, <2>2, <2>5
      <4> QED
        BY <4>1, WholeNumbers
    <3> QED
      BY <1>1, <1>4, <1>5, <1>9, <2>1, <2>5, <3>1
  <2> QED
    BY <1>1, <2>2, <2>4, <2>5
<1> QED
  BY <1>1, <1>6, <1>7, <1>8, <1>9

LEMMA TruncRight ==
  ASSUME NEW v \in Doubles
  PROVE  truncFloat(v) = Correct("trunc", v) <=> v # -B
<1>1. v \in Int /\ U \in Nat /\ U >= 1 /\ B \in Nat /\ B >= 8
  BY DoubleForm, Widths, BoundPowers
<1>2. PICK t \in Int :
        /\ t = Truncated(v) /\ t * U \in Int
        /\ v >= 0 => 0 <= t * U /\ t * U <= v /\ v < t * U + U
        /\ v < 0 => t * U <= 0 /\ v <= t * U /\ t * U < v + U
  BY <1>1, TruncatedSide
<1>3. t \in Min_Int..Max_Int <=> -B <= t * U /\ t * U < B
  BY WholeNumbers
<1>4. Correct("trunc", v) = IF t \in Min_Int..Max_Int THEN t ELSE OverflowExn
  BY <1>1, <1>2, CorrectMeans
<1>5. truncFloat(v) = IF v >= B \/ v <= -B THEN OverflowExn ELSE ToInt(v)
  BY CodeBounds DEF truncFloat
<1>6. CASE v >= B
  <2>1. PICK m \in Int : m = M /\ B = m * U
    BY Widths DEF B
  <2>2. ~(t * U < B)
    <3>1. t < m => t * U + U <= m * U
      BY <1>1, Multiples
    <3>2. m <= t => m * U <= t * U
      BY <1>1, Multiples
    <3> QED
      BY <1>1, <1>2, <1>6, <2>1, <3>1, <3>2
  <2> QED
    BY <1>1, <1>3, <1>4, <1>5, <1>6, <2>2
<1>7. CASE v < -B
  <2>1. v < -B - U
    <3>1. -B - v <= U => v = -B
      BY <1>1, <1>7, AloneAtBound
    <3> QED
      BY <1>1, <1>7, <3>1
  <2>2. t * U < -B
    BY <1>1, <1>2, <2>1
  <2> QED
    BY <1>1, <1>2, <1>3, <1>4, <1>5, <1>7, <2>2
<1>8. CASE v = -B
  <2>1. t \in Min_Int..Max_Int
    BY <1>1, <1>2, <1>3, <1>8
  <2>2. OverflowExn \notin Int
    BY RealAssumption
  <2> QED
    BY <1>1, <1>4, <1>5, <1>8, <2>1, <2>2
<1>9. CASE -B < v /\ v < B
  <2>1. ToInt(v) = t /\ t \in Min_Int..Max_Int
    BY <1>1, <1>2, <1>9, CastInRange
  <2> QED
    BY <1>1, <1>4, <1>5, <1>9, <2>1
<1> QED
  BY <1>1, <1>6, <1>7, <1>8, <1>9

LEMMA CeilRight ==
  ASSUME NEW v \in Doubles
  PROVE  ceilFloat(v) = Correct("ceil", v) <=> v # B /\ v # -B
<1>1. v \in Int /\ U \in Nat /\ U >= 1 /\ B \in Nat /\ B >= 8
  BY DoubleForm, Widths, BoundPowers
<1>2. PICK c \in Int : c = Ceiling(v) /\ c * U \in Int /\ v <= c * U /\ c * U < v + U
  BY <1>1, Roundings
<1>3. c \in Min_Int..Max_Int <=> -B <= c * U /\ c * U < B
  BY WholeNumbers
<1>4. Correct("ceil", v) = IF c \in Min_Int..Max_Int THEN c ELSE OverflowExn
  BY <1>1, <1>2, CorrectMeans
<1>5. ceilFloat(v) =
        IF v >= 0
        THEN IF v > B THEN OverflowExn
             ELSE IF v > ToDouble(ToInt(v)) THEN ToInt(v) + 1 ELSE ToInt(v)
        ELSE IF v <= -B THEN OverflowExn ELSE ToInt(v)
  BY CodeBounds DEF ceilFloat
<1>6. OverflowExn \notin Int
  BY RealAssumption
<1>7. CASE v > B
  BY <1>1, <1>2, <1>3, <1>4, <1>5, <1>7
<1>8. CASE v = B
  <2>1. c \notin Min_Int..Max_Int
    BY <1>1, <1>2, <1>3, <1>8
  <2>2. ToInt(v) \in Int /\ ToInt(v) + 1 \in Int
    <3>1. Min_Int \in Int
      BY Widths
    <3> QED
      BY <3>1 DEF ToInt
  <2> QED
    BY <1>1, <1>4, <1>5, <1>6, <1>8, <2>1, <2>2
<1>9. CASE 0 <= v /\ v < B
  <2>1. PICK t \in Int : t = ToInt(v) /\ t \in Min_Int..Max_Int /\ ToDouble(ToInt(v)) = t * U
                         /\ t = Floor(v)
    BY <1>1, <1>9, CastInRange, Roundings
  <2>2. t * U \in Int /\ t * U <= v /\ v < t * U + U
    BY <1>1, <2>1, Roundings
  <2>3. (t + 1) * U = t * U + U /\ t + 1 \in Int
    BY WholeNumbers
  <2>4. CASE v > t * U
    <3>1. t + 1 = c
      <4>1. (t + 1) * U - U < c * U /\ c * U < (t + 1) * U + U
        BY <1>1, <1>2, <2>2, <2>3, <2>4
      <4> QED
        BY <2>3, <4>1, WholeNumbers
    <3>2. v < B - U
      <4>1. B - v <= U => v = B
        BY <1>1, <1>9, AloneAtBound
      <4> QED
        BY <1>1, <1>9, <4>1
    <3>3. c \in Min_Int..Max_Int
      BY <1>1, <1>2, <1>3, <1>9, <3>2
    <3> QED
      BY <1>1, <1>4, <1>5, <1>9, <2>1, <2>4, <3>1, <3>3
  <2>5. CASE v = t * U
    <3>1. t = c
      <4>1. t * U - U < c * U /\ c * U < t * U + U
        BY <1>1, <1>2, <2>2, <2>5
      <4> QED
        BY <4>1, WholeNumbers
    <3> QED
      BY <1>1, <1>4, <1>5, <1>9, <2>1, <2>5, <3>1
  <2> QED
    BY <1>1, <2>2, <2>4, <2>5
<1>10. CASE -B < v /\ v < 0
  <2>1. ToInt(v) = c /\ c \in Min_Int..Max_Int
    BY <1>1, <1>2, <1>10, CastInRange, Roundings
  <2> QED
    BY <1>1, <1>4, <1>5, <1>10, <2>1
<1>11. CASE v = -B
  <2>1. c \in Min_Int..Max_Int
    BY <1>1, <1>2, <1>3, <1>11
  <2> QED
    BY <1>1, <1>4, <1>5, <1>6, <1>11, <2>1
<1>12. CASE v < -B
  <2>1. v < -B - U
    <3>1. -B - v <= U => v = -B
      BY <1>1, <1>12, AloneAtBound
    <3> QED
      BY <1>1, <1>12, <3>1
  <2>2. c * U < -B
    BY <1>1, <1>2, <2>1
  <2> QED
    BY <1>1, <1>2, <1>3, <1>4, <1>5, <1>12, <2>2
<1> QED
  BY <1>1, <1>7, <1>8, <1>9, <1>10, <1>11, <1>12

------------------------------------------------------------------------------
(* The text of a real. *)

K == pow10[D]

LEMMA Scale ==
  /\ K \in Nat /\ K >= 100 /\ K < pow2[P] /\ D \in Nat /\ D >= 2
  /\ pow10[D - 1] \in Nat /\ pow10[D - 1] >= 10 /\ K = 10 * pow10[D - 1]
  /\ 0..K \subseteq CInts
<1>1. D \in Nat /\ D >= 2 /\ D - 1 \in Nat /\ D - 2 \in Nat /\ (D - 2) + 1 = D - 1 /\ (D - 1) + 1 = D
  BY RealAssumption DEF D
<1>2. K \in Nat /\ pow10[D - 1] \in Nat /\ pow10[D - 2] \in Nat /\ pow10[D - 2] >= 1
      /\ pow10[D - 1] = 10 * pow10[D - 2] /\ K = 10 * pow10[D - 1]
  BY <1>1, Pow10 DEF K
<1>3. K < pow2[P] /\ K < pow2[CIntBits - 1] /\ CIntBits - 1 \in Nat
  BY RealAssumption DEF K, D, P
<1>4. pow2[CIntBits - 1] \in Nat
  BY <1>3, Pow2
<1>5. 0..K \subseteq CInts
  BY <1>2, <1>3, <1>4 DEF CInts
<1> QED
  BY <1>1, <1>2, <1>3, <1>5

(* Small whole numbers are doubles, and no number up to them is too large. *)
LEMMA SmallWhole ==
  /\ \A i \in 0..K : i * U \in Doubles
  /\ 0 \in Doubles /\ U \in Doubles
  /\ \A x \in Int : 0 <= x /\ x <= K * U => Magnitude(x) < pow2[P + E]
<1>1. ASSUME NEW i \in 0..K PROVE i * U \in Doubles
  <2>1. i \in Nat /\ i < pow2[P]
    <3>1. K \in Nat /\ K < pow2[P] /\ pow2[P] \in Nat
      BY Scale, Widths, Pow2
    <3> QED
      BY <3>1
  <2>2. F \in Nat /\ F <= E
    BY Widths
  <2> QED
    BY <2>1, <2>2, FormIsDouble DEF U
<1>2. 0 \in 0..K /\ 1 \in 0..K /\ K \in 0..K /\ 0 * U = 0 /\ 1 * U = U /\ U \in Nat
  BY Scale, Widths
<1>3. ASSUME NEW x \in Int, 0 <= x, x <= K * U PROVE Magnitude(x) < pow2[P + E]
  <2>1. Magnitude(K * U) < pow2[P + E] /\ K * U \in Int
    BY <1>1, <1>2, NearestSame
  <2>2. Magnitude(x) = x /\ Magnitude(K * U) = K * U
    BY <1>3, <2>1 DEF Magnitude
  <2>3. pow2[P + E] \in Nat
    <3>1. P + E \in Nat
      BY Widths
    <3> QED
      BY <3>1, Pow2
  <2> QED
    BY <1>3, <2>1, <2>2, <2>3
<1> QED
  BY <1>1, <1>2, <1>3

(* The printed decimals are less than a unit away from the scaled rest. *)
LEMMA PrintedDecimals ==
  ASSUME NEW r \in Int, 0 <= r, r <= U
  PROVE  \E j \in 0..K : /\ j = ToCInt(Nearest(r * K))
                         /\ j * U \in Int /\ j * U < r * K + U /\ r * K < j * U + U
<1> DEFINE x == r * K
           n == Nearest(x)
<1>1. U \in Nat /\ U >= 1 /\ K \in Nat /\ K >= 1 /\ K * U \in Nat
  <2>1. U \in Nat /\ U >= 1 /\ K \in Nat /\ K >= 1
    BY Widths, Scale
  <2> QED
    BY <2>1
<1>2. x \in Int /\ 0 <= x /\ x <= K * U
  <2>1. 0 * K = 0 /\ 0 * K <= r * K /\ r * K <= U * K /\ U * K = K * U /\ r * K \in Int
    BY <1>1, Multiples
  <2> QED
    BY <2>1
<1> HIDE DEF x
<1>3. PICK g \in Int : g * U \in Int /\ g * U <= x /\ x < g * U + U /\ g >= 0
  BY <1>2, Roundings
<1>4. (g + 1) * U = g * U + U
  BY <1>1, <1>3
<1>5. g <= K
  <2>1. K < g => K * U + U <= g * U
    BY <1>1, <1>3, Multiples
  <2> QED
    BY <1>1, <1>2, <1>3, <2>1
<1>6. g = K => x = g * U
  BY <1>1, <1>2, <1>3
<1>7. g \in 0..K /\ g * U \in Doubles /\ (g # K => g + 1 \in 0..K /\ (g + 1) * U \in Doubles)
  <2>1. g \in 0..K /\ (g # K => g + 1 \in 0..K)
    BY <1>1, <1>3, <1>5
  <2> QED
    BY <2>1, SmallWhole
<1>8. Magnitude(x) < pow2[P + E]
  BY <1>2, SmallWhole
<1>9. n \in Int /\ g * U <= n
  BY <1>2, <1>3, <1>7, <1>8, NearestBetween
<1>10. g # K => n <= g * U + U
  <2> SUFFICES ASSUME g # K PROVE n <= g * U + U
    OBVIOUS
  <2>1. PICK d \in Doubles : d = g * U + U
    BY <1>4, <1>7
  <2>2. x <= d
    BY <1>2, <1>3, <2>1, DoubleForm
  <2> QED
    BY <1>2, <1>8, <2>1, <2>2, NearestBetween
<1>11. x = g * U => n = g * U
  BY <1>7, NearestSame
<1> HIDE DEF n
<1>12. n >= 0
  <2>1. 0 * U = 0 /\ 0 * U <= g * U
    BY <1>1, <1>3, Multiples
  <2> QED
    BY <1>3, <1>9, <2>1
<1>13. PICK t \in Int : t = Truncated(n) /\ t * U \in Int /\ t * U <= n /\ n < t * U + U
  BY <1>9, <1>12, TruncatedSide
<1>14. g <= t
  <2>1. t < g => t * U + U <= g * U
    BY <1>1, <1>3, <1>13, Multiples
  <2> QED
    BY <1>1, <1>3, <1>9, <1>13, <2>1
<1>15. t = g \/ (t = g + 1 /\ g # K /\ x # g * U)
  <2>1. g + 1 < t => (g + 1) * U + U <= t * U
    BY <1>1, <1>3, <1>13, Multiples
  <2>2. ~(g + 1 < t)
    BY <1>1, <1>3, <1>4, <1>6, <1>9, <1>10, <1>11, <1>13, <2>1
  <2>3. t = g + 1 => n >= g * U + U
    BY <1>4, <1>13
  <2> QED
    BY <1>1, <1>3, <1>6, <1>9, <1>11, <1>13, <1>14, <2>2, <2>3
<1>16. t \in 0..K
  BY <1>1, <1>3, <1>5, <1>7, <1>13, <1>15
<1>17. t = ToCInt(n)
  BY <1>13, <1>16, Scale DEF ToCInt
<1>18. t * U < x + U /\ x < t * U + U
  BY <1>1, <1>2, <1>3, <1>4, <1>13, <1>15
<1> QED
  BY <1>13, <1>16, <1>17, <1>18 DEF x, n

LEMMA DigitsRight ==
  ASSUME NEW n \in 0..K
  PROVE  \E k \in 1..(D + 1) : k = Digits(n) /\ n < pow10[k] /\ (k = 1 \/ n >= pow10[k - 1])
<1> DEFINE T == {k \in 1..(D + 1) : n < pow10[k]}
           Good(k) == n < pow10[k] /\ (k = 1 \/ n >= pow10[k - 1])
<1>1. n \in Nat /\ n <= K /\ K \in Nat /\ K >= 100 /\ D \in Nat
  BY Scale
<1>2. T \subseteq Nat /\ D + 1 \in T
  <2>1. pow10[D + 1] = 10 * K
    BY <1>1, Pow10 DEF K
  <2> QED
    BY <1>1, <2>1
<1>3. PICK k \in T : \A j \in T : k <= j
  <2> HIDE DEF T
  <2> QED
    BY <1>2, LeastNumber
<1>4. k \in 1..(D + 1) /\ n < pow10[k]
  BY <1>3
<1>5. k = 1 \/ n >= pow10[k - 1]
  <2> SUFFICES ASSUME k # 1 PROVE n >= pow10[k - 1]
    OBVIOUS
  <2>1. k - 1 \in 1..(D + 1) /\ k - 1 \notin T /\ k - 1 \in Nat
    BY <1>1, <1>3, <1>4
  <2>2. pow10[k - 1] \in Nat
    BY <2>1, Pow10
  <2> QED
    BY <1>1, <2>1, <2>2
<1>6. Digits(n) = CHOOSE j \in 1..(D + 1) : Good(j)
  BY DEF Digits, D
<1>7. Digits(n) \in 1..(D + 1) /\ Good(Digits(n))
  <2>1. Good(k)
    BY <1>4, <1>5
  <2> HIDE DEF Good
  <2> QED
    BY <1>4, <1>6, <2>1
<1> QED
  BY <1>7

(* The decimals read back: those printed if all are, and far from them if  *)
(* zeros in front are missing or one digit is too many.                    *)
LEMMA DecimalsRead ==
  ASSUME NEW n \in 0..K
  PROVE  \E r \in Nat : /\ r = (n * K) \div pow10[Digits(n)]
                        /\ n = 0 => r = 0
                        /\ n # 0 => r >= 2
                        /\ n # 0 /\ Digits(n) = D => r = n
                        /\ n # 0 /\ Digits(n) # D => r - n >= 2 \/ n - r >= 2
<1>1. PICK k \in 1..(D + 1) : k = Digits(n) /\ n < pow10[k] /\ (k = 1 \/ n >= pow10[k - 1])
  BY DigitsRight
<1>2. n \in Nat /\ n <= K /\ K \in Nat /\ K >= 100 /\ D \in Nat /\ D >= 2 /\ k \in Nat
  BY Scale
<1>3. PICK t \in Nat : t = pow10[k] /\ t >= 1
  BY <1>2, Pow10
<1>4. \A q \in Int : n * K = q * t => (n * K) \div pow10[Digits(n)] = q
  <2> SUFFICES ASSUME NEW q \in Int, n * K = q * t PROVE (n * K) \div t = q
    BY <1>1, <1>3
  <2>1. PICK x \in Int : x = n * K
    BY <1>2
  <2>2. q * t <= x /\ x < q * t + t
    BY <1>3, <2>1
  <2> QED
    BY <1>3, <2>1, <2>2, Quotient
<1>5. CASE n = 0
  <2>1. n * K = 0 * t
    BY <1>2, <1>3, <1>5
  <2> QED
    BY <1>4, <1>5, <2>1
<1>6. CASE n # 0 /\ k = D
  <2>1. n * K = n * t
    BY <1>3, <1>6 DEF K
  <2>2. n >= 2
    <3>1. n >= pow10[D - 1] /\ pow10[D - 1] \in Nat /\ pow10[D - 1] >= 10
      BY <1>1, <1>2, <1>6, Scale
    <3> QED
      BY <1>2, <3>1
  <2> QED
    BY <1>1, <1>2, <1>4, <1>6, <2>1, <2>2
<1>7. CASE n # 0 /\ k < D
  <2>1. D - k - 1 \in Nat /\ D - k \in Nat /\ (D - k - 1) + 1 = D - k /\ (D - k) + k = D
    BY <1>2, <1>7
  <2>2. PICK a \in Nat : a >= 1 /\ pow10[D - k] = 10 * a
    <3>1. pow10[(D - k - 1) + 1] = 10 * pow10[D - k - 1]
          /\ pow10[D - k - 1] \in Nat /\ pow10[D - k - 1] >= 1
      BY <2>1, Pow10, Zenon
    <3> QED
      BY <2>1, <3>1
  <2>3. K = (10 * a) * t
    BY <1>2, <1>3, <2>1, <2>2, Pow10 DEF K
  <2>4. n * ((10 * a) * t) = (n * (10 * a)) * t /\ n * (10 * a) \in Nat
    OBVIOUS
  <2>5. n * (10 * a) >= 10 * n
    <3>1. n * (10 * a) = 10 * n + 10 * (n * (a - 1))
      BY <1>2, <2>2
    <3>2. a - 1 \in Nat
      BY <2>2
    <3>3. n * (a - 1) >= 0 /\ n * (a - 1) \in Int
      BY <1>2, <3>2
    <3> QED
      BY <1>2, <3>1, <3>3
  <2>6. (n * K) \div pow10[Digits(n)] = n * (10 * a)
    BY <1>4, <2>3, <2>4
  <2>7. PICK r \in Nat : r = n * (10 * a)
    BY <2>4
  <2> QED
    BY <1>1, <1>2, <1>7, <2>5, <2>6, <2>7
<1>8. CASE n # 0 /\ k = D + 1
  <2>1. PICK c \in Nat : c = pow10[D - 1] /\ c >= 10 /\ K = 10 * c
    BY Scale
  <2>2. n = K
    <3>1. (D + 1) - 1 = D /\ k # 1
      BY <1>2, <1>8
    <3> QED
      BY <1>1, <1>2, <1>8, <3>1 DEF K
  <2>3. t = 10 * K
    BY <1>2, <1>3, <1>8, Pow10 DEF K
  <2>4. (10 * c) * (10 * c) = c * (10 * (10 * c))
    BY <2>1
  <2>5. n * K = c * t
    BY <2>1, <2>2, <2>3, <2>4
  <2>6. c \in Int
    BY <2>1
  <2> QED
    BY <1>1, <1>2, <1>4, <1>8, <2>1, <2>2, <2>5, <2>6
<1> QED
  BY <1>2, <1>5, <1>6, <1>7, <1>8

LEMMA ProductsGrow ==
  ASSUME NEW a \in Nat, NEW b \in Nat, NEW r \in Nat, a <= b
  PROVE  a * r <= b * r
<1>1. PICK c \in Nat : b = a + c
  <2>1. b - a \in Nat /\ b = a + (b - a)
    OBVIOUS
  <2> QED
    BY <2>1
<1>2. (a + c) * r = a * r + c * r /\ c * r \in Nat /\ a * r \in Nat
  OBVIOUS
<1> QED
  BY <1>1, <1>2

LEMMA TextRight ==
  ASSUME NEW v \in Doubles, v \div One \in CInts
  PROVE  LET t == stringOfFloat(v)
         IN  ReadsBack(v, t) <=> t.decimals = 0 \/ (v > 0 /\ Digits(t.decimals) = Decimals)
<1> DEFINE t == stringOfFloat(v)
           q == v \div U
           f == v - q * U
<1>1. U \in Nat /\ U >= 1 /\ One = U /\ K \in Nat /\ K >= 100 /\ v \in Int /\ D = Decimals
  BY Widths, Scale, DoubleForm DEF D
<1>2. q \in Int /\ q * U \in Int /\ q * U <= v /\ v < q * U + U
  BY <1>1, Quotient
<1>3. f \in Int /\ 0 <= f /\ f < U
  BY <1>1, <1>2
<1>4. t.whole = q /\ t.decimals = ToCInt(Nearest(Nearest(f) * K))
  <2>1. t.whole = ToCInt(q * U) /\ t.decimals = ToCInt(Nearest(Nearest(f) * K))
    BY <1>1 DEF stringOfFloat, K
  <2>2. q \in CInts
    BY <1>1
  <2> HIDE DEF t, f, q
  <2>3. PICK i \in Int :
          /\ i = Truncated(q * U) /\ i * U \in Int
          /\ q * U >= 0 => 0 <= i * U /\ i * U <= q * U /\ q * U < i * U + U
          /\ q * U < 0 => i * U <= 0 /\ q * U <= i * U /\ i * U < q * U + U
    BY <1>2, TruncatedSide
  <2>4. i * U - U < q * U /\ q * U < i * U + U
    BY <1>1, <1>2, <2>3
  <2>5. i = q
    BY <1>2, <2>4, WholeNumbers
  <2> QED
    BY <2>1, <2>2, <2>3, <2>5 DEF ToCInt
<1> HIDE DEF t
<1>5. PICK r \in Int : r = Nearest(f) /\ 0 <= r /\ r <= U
  <2>1. Magnitude(f) < pow2[P + E]
    <3>1. U <= K * U
      <4>1. 1 * U = U /\ 1 * U <= K * U
        BY <1>1, Multiples
      <4> QED
        BY <4>1
    <3>2. K * U \in Int
      BY <1>1
    <3> HIDE DEF f
    <3>3. f <= K * U
      BY <1>1, <1>3, <3>1, <3>2
    <3> QED
      BY <1>3, <3>3, SmallWhole
  <2>2. 0 \in Doubles /\ U \in Doubles /\ 0 <= f /\ f <= U
    BY <1>1, <1>3, SmallWhole
  <2> HIDE DEF f
  <2> QED
    BY <1>3, <2>1, <2>2, NearestBetween
<1>6. PICK j \in 0..K : /\ j = t.decimals /\ j * U \in Int
                        /\ j * U < r * K + U /\ r * K < j * U + U
  BY <1>4, <1>5, PrintedDecimals
<1>7. PICK d \in Nat : /\ d = (j * K) \div pow10[Digits(j)]
                       /\ j = 0 => d = 0
                       /\ j # 0 => d >= 2
                       /\ j # 0 /\ Digits(j) = D => d = j
                       /\ j # 0 /\ Digits(j) # D => d - j >= 2 \/ j - d >= 2
  BY DecimalsRead
<1>8. ReadBack(t) = IF q < 0 THEN -(Magnitude(q) * K + d) ELSE Magnitude(q) * K + d
  BY <1>4, <1>6, <1>7 DEF ReadBack, K, D
<1>9. v = q * U + f
  BY <1>1, <1>2
<1>10. ReadsBack(v, t) <=> Magnitude(ReadBack(t) * U - v * K) <= U
  BY <1>1 DEF ReadsBack, K, D
<1> HIDE DEF q, f
<1>11. v * K = (q * K) * U + f * K /\ (q * U) * K = (q * K) * U /\ q * K \in Int /\ f * K \in Int
       /\ (q * K) * U \in Int /\ d * U \in Int /\ f * K >= 0
  <2>1. (q * U + f) * K = (q * U) * K + f * K /\ (q * U) * K = (q * K) * U
    BY <1>1, <1>2, <1>3
  <2>2. q * K \in Int /\ f * K \in Int
    BY <1>1, <1>2, <1>3
  <2>3. (q * K) * U \in Int /\ d * U \in Int
    BY <1>1, <2>2
  <2>4. f * K >= 0
    <3>1. f \in Nat
      BY <1>3
    <3> QED
      BY <1>1, <3>1
  <2> QED
    BY <1>9, <2>1, <2>2, <2>3, <2>4
<1>12. CASE v >= 0
  <2>1. q >= 0
    <3>1. q < 0 => q * U + U <= 0 * U
      BY <1>1, <1>2, Multiples
    <3>2. 0 * U = 0
      BY <1>1
    <3> QED
      BY <1>1, <1>2, <1>12, <3>1, <3>2
  <2>2. q * U >= 0
    BY <1>1, <1>2, <2>1
  <2>3. r = f
    <3>1. Magnitude(v) = v /\ Magnitude(f) = f /\ f <= v
      BY <1>1, <1>2, <1>3, <1>9, <1>12, <2>2 DEF Magnitude
    <3>2. v - q * U < U /\ q * U - v < U /\ v - q * U = f
      BY <1>1, <1>2, <1>3, <1>9
    <3>3. f \in Doubles
      BY <1>2, <3>1, <3>2, PartsOfDouble
    <3> QED
      BY <1>5, <3>3, NearestSame
  <2>4. ReadBack(t) * U - v * K = d * U - f * K
    <3>1. Magnitude(q) = q
      BY <1>2, <2>1 DEF Magnitude
    <3>2. ReadBack(t) = q * K + d
      BY <1>2, <1>8, <2>1, <3>1
    <3>3. (q * K + d) * U = (q * K) * U + d * U
      BY <1>1, <1>11
    <3> QED
      BY <1>11, <3>2, <3>3
  <2>5. d = j => ReadsBack(v, t)
    BY <1>1, <1>6, <1>10, <1>11, <2>3, <2>4 DEF Magnitude
  <2>6. d - j >= 2 \/ j - d >= 2 => ~ReadsBack(v, t)
    <3>1. d - j >= 2 => d * U >= j * U + 2 * U
      <4>1. j + 1 < d => (j + 1) * U + U <= d * U
        BY <1>1, Multiples
      <4>2. (j + 1) * U = j * U + U
        BY <1>1
      <4> QED
        BY <1>1, <1>6, <1>11, <4>1, <4>2
    <3>2. j - d >= 2 => j * U >= d * U + 2 * U
      <4>1. d + 1 < j => (d + 1) * U + U <= j * U
        BY <1>1, Multiples
      <4>2. (d + 1) * U = d * U + U
        BY <1>1
      <4> QED
        BY <1>1, <1>6, <1>11, <4>1, <4>2
    <3> QED
      BY <1>1, <1>6, <1>10, <1>11, <2>3, <2>4, <3>1, <3>2 DEF Magnitude
  <2>7. v = 0 => j = 0
    <3> SUFFICES ASSUME v = 0 PROVE j = 0
      OBVIOUS
    <3>1. f = 0
      BY <1>1, <1>2, <1>3, <1>9, <2>2
    <3>2. r * K = 0
      BY <1>1, <2>3, <3>1
    <3>3. 0 * U = 0 /\ (0 < j => 0 * U + U <= j * U)
      BY <1>1, Multiples
    <3> QED
      BY <1>1, <1>6, <3>2, <3>3
  <2> QED
    BY <1>1, <1>6, <1>7, <1>12, <2>5, <2>6, <2>7 DEF t
<1>13. CASE v < 0
  <2>1. q < 0
    <3>1. q >= 0 => q * U >= 0
      BY <1>1, <1>2
    <3> QED
      BY <1>1, <1>2, <1>13, <3>1
  <2>2. ReadBack(t) * U - v * K = -(d * U) - f * K
    <3>1. Magnitude(q) = -q
      BY <1>2, <2>1 DEF Magnitude
    <3>2. (-q) * K = -(q * K)
      BY <1>1, <1>2
    <3>3. ReadBack(t) = q * K - d
      BY <1>8, <1>11, <2>1, <3>1, <3>2
    <3>4. (q * K - d) * U = (q * K) * U - d * U
      BY <1>1, <1>11
    <3> QED
      BY <1>11, <3>3, <3>4
  <2>3. j # 0 => ~ReadsBack(v, t)
    <3>1. j # 0 => d * U >= 2 * U
      BY <1>1, <1>7, Multiples
    <3> QED
      BY <1>1, <1>10, <1>11, <2>2, <3>1 DEF Magnitude
  <2>4. j = 0 => ReadsBack(v, t)
    <3> SUFFICES ASSUME j = 0 PROVE ReadsBack(v, t)
      OBVIOUS
    <3>1. r * K < U
      BY <1>1, <1>6
    <3>2. 2 * f < U
      <4> SUFFICES ASSUME 2 * f >= U PROVE FALSE
        BY <1>1, <1>3
      <4>1. F \in Nat /\ F # 0 /\ F - 1 \in Nat /\ (F - 1) + 1 = F
        <5>1. F \in Nat /\ (F = 0 => U = 1)
          BY Widths, Pow2 DEF U
        <5> QED
          BY <1>1, <1>3, <5>1
      <4>2. PICK h \in Nat : h = pow2[F - 1] /\ U = 2 * h
        <5>1. pow2[(F - 1) + 1] = 2 * pow2[F - 1] /\ pow2[F - 1] \in Nat
          BY <4>1, Pow2, Zenon
        <5> QED
          BY <4>1, <5>1 DEF U
      <4>3. h \in Doubles
        <5>1. 1 * pow2[F - 1] \in Doubles
          <6>1. 1 \in Nat /\ 1 < pow2[P] /\ F - 1 <= E
            <7>1. pow2[P] \in Nat /\ K < pow2[P]
              BY Widths, Pow2, Scale
            <7> QED
              BY <1>1, <4>1, <7>1, Widths
          <6> QED
            BY <4>1, <6>1, FormIsDouble
        <5>2. 1 * h = h
          OBVIOUS
        <5> QED
          BY <4>2, <5>1, <5>2
      <4>4. h <= f
        BY <1>3, <4>2
      <4>5. Magnitude(f) < pow2[P + E]
        <5>1. 1 * U = U /\ 1 * U <= K * U /\ K * U \in Int
          BY <1>1, Multiples
        <5>2. f <= K * U
          BY <1>1, <1>3, <5>1
        <5> QED
          BY <1>3, <5>2, SmallWhole
      <4>6. h <= r
        BY <1>3, <1>5, <4>3, <4>4, <4>5, NearestBetween
      <4>7. r * K >= h * 2
        <5>1. h * 2 <= r * 2
          BY <4>2, <4>6
        <5>2. r \in Nat /\ 2 * r <= K * r
          BY <1>1, <1>5, ProductsGrow
        <5>3. K * r = r * K /\ r * K \in Int
          BY <1>1
        <5> QED
          BY <4>2, <5>1, <5>2, <5>3
      <4> QED
        BY <1>1, <3>1, <4>2, <4>7
    <3>3. r = f
      <4>1. q * U <= -U
        <5>1. q < 0 => q * U + U <= 0 * U
          BY <1>1, <1>2, Multiples
        <5>2. 0 * U = 0
          BY <1>1
        <5> QED
          BY <1>1, <1>2, <2>1, <5>1, <5>2
      <4>2. Magnitude(v) = -v /\ Magnitude(f) = f /\ f <= -v
        BY <1>1, <1>2, <1>3, <1>9, <1>13, <3>2, <4>1 DEF Magnitude
      <4>3. v - q * U < U /\ q * U - v < U /\ v - q * U = f
        BY <1>1, <1>2, <1>3, <1>9
      <4>4. f \in Doubles
        BY <1>2, <4>2, <4>3, PartsOfDouble
      <4> QED
        BY <1>5, <4>4, NearestSame
    <3>4. d * U = 0
      BY <1>1, <1>7
    <3> QED
      BY <1>1, <1>10, <1>11, <2>2, <3>1, <3>3, <3>4 DEF Magnitude
  <2> QED
    BY <1>1, <1>6, <1>13, <2>3, <2>4 DEF t
<1> QED
  BY <1>1, <1>12, <1>13

------------------------------------------------------------------------------
(* What was converted, and how. *)
RealsInv ==
  \/ conversion = NoConversion
  \/ \E op \in {"floor", "trunc", "ceil", "toString"}, v \in Doubles :
       /\ conversion = [op |-> op, v |-> v]
       /\ op = "floor" => converted = floorFloat(v)
       /\ op = "trunc" => converted = truncFloat(v)
       /\ op = "ceil" => converted = ceilFloat(v)
       /\ op = "toString" => text = stringOfFloat(v)

LEMMA RealsInvInit == RealInit => RealsInv
BY DEF RealInit, RealsInv

LEMMA RealsInvNext == RealsInv /\ [RealNext]_realVars => RealsInv'
<1> SUFFICES ASSUME RealsInv, [RealNext]_realVars PROVE RealsInv'
  OBVIOUS
<1>1. CASE UNCHANGED realVars
  BY <1>1 DEF RealsInv, realVars
<1>2. CASE RealNext
  <2>1. PICK op \in {"floor", "trunc", "ceil", "toString"}, v \in Doubles : Convert(op, v)
    BY <1>2 DEF RealNext
  <2>2. conversion' = [op |-> op, v |-> v]
    BY <2>1 DEF Convert
  <2>3. /\ op = "toString" => text' = stringOfFloat(v)
        /\ op = "floor" => converted' = floorFloat(v)
        /\ op = "trunc" => converted' = truncFloat(v)
        /\ op = "ceil" => converted' = ceilFloat(v)
    BY <2>1 DEF Convert
  <2> QED
    BY <2>2, <2>3 DEF RealsInv
<1> QED
  BY <1>1, <1>2

LEMMA RealsInvExact == RealsInv => RealsExact
<1> SUFFICES ASSUME RealsInv PROVE RealsExact
  OBVIOUS
<1>1. CASE conversion = NoConversion
  BY <1>1 DEF RealsExact, ConversionsExact, StringExactIf, NoConversion
<1>2. CASE conversion # NoConversion
  <2>1. PICK op \in {"floor", "trunc", "ceil", "toString"}, v \in Doubles :
          /\ conversion = [op |-> op, v |-> v]
          /\ op = "floor" => converted = floorFloat(v)
          /\ op = "trunc" => converted = truncFloat(v)
          /\ op = "ceil" => converted = ceilFloat(v)
          /\ op = "toString" => text = stringOfFloat(v)
    BY <1>2 DEF RealsInv
  <2>2. conversion.op = op /\ conversion.v = v
    BY <2>1
  <2>3. /\ AtBound("floor", v) <=> FALSE
        /\ AtBound("trunc", v) <=> v = -B
        /\ AtBound("ceil", v) <=> v = B \/ v = -B
    <3>1. -Min_Int * One = B /\ Min_Int * One = -B
      <4>1. M \in Nat /\ U \in Nat /\ Min_Int = -M /\ One = U
        BY Widths
      <4>2. -(-M) * U = M * U /\ (-M) * U = -(M * U)
        BY <4>1
      <4> QED
        BY <4>1, <4>2 DEF B
    <3> QED
      BY <3>1 DEF AtBound
  <2>4. op \in {"floor", "trunc", "ceil"} => (converted = Correct(op, v) <=> ~AtBound(op, v))
    BY <2>1, <2>3, FloorRight, TruncRight, CeilRight
  <2>5. ConversionsExact
    BY <2>2, <2>4 DEF ConversionsExact
  <2>6. StringExactIf
    BY <2>1, <2>2, TextRight DEF StringExactIf
  <2> QED
    BY <2>5, <2>6 DEF RealsExact
<1> QED
  BY <1>1, <1>2

(* RealsExact: floor, trunc and ceil are exact but at the two bounds, and  *)
(* a text reads back exactly when it has no zeros to lose in front of its  *)
(* decimals, for every width of mantissa, fraction, exponent and integer.  *)
THEOREM RealsConverted == RealSpec => []RealsExact
<1>1. RealInit => RealsInv
  BY RealsInvInit
<1>2. RealsInv /\ [RealNext]_realVars => RealsInv'
  BY RealsInvNext
<1>3. RealsInv => RealsExact
  BY RealsInvExact
<1> QED
  BY <1>1, <1>2, <1>3, PTL DEF RealSpec
=============================================================================
