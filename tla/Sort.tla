--------------------------------- MODULE Sort ---------------------------------
(***************************************************************************)
(* The sort application, src/sort/main.sml: a request is the numbers of a  *)
(* datagram, the reply the same numbers sorted by a merge sort.            *)
(***************************************************************************)
EXTENDS Integers, Sequences, SequencesExt, FiniteSetsExt

CONSTANTS
  SortValues,     \* the numbers of requests
  Word,           \* a token that does not begin with a number
  TooBig,         \* one that is a number above maxInt
  MaxTokens,      \* tokens of a request (bound)
  Invalid,        \* the text "Invalid input"
  NoReply         \* the callback has raised

(* A text and an exception are no lists. *)
ASSUME SortAssumption ==
  /\ SortValues \subseteq Int /\ MaxTokens \in Nat
  /\ Word # TooBig
  /\ {Word, TooBig} \cap Int = {} /\ {Invalid, NoReply} \cap Seq(Int) = {}

VARIABLES request, reply
sortVars == <<request, reply>>

Tokens == SortValues \cup {Word, TooBig}
IntLists == Seq(Int)

------------------------------------------------------------------------------
(* intList: the list is read from the left, until a token that is not a    *)
(* number; Int.fromString raises Overflow for one that is too big.         *)
IsNumber(t) == t \notin {Word, TooBig}
stringToIntList(s) ==
  LET bad == {i \in 1..Len(s) : ~IsNumber(s[i])}
  IN IF bad = {} THEN s ELSE IF s[Min(bad)] = TooBig THEN NoReply ELSE Invalid

(* split: the two lists are built from the front, reversed. *)
splitOnto[s \in IntLists \X IntLists \X IntLists] ==
  LET l == s[1]
      xs == s[2]
      ys == s[3]
  IN IF l = <<>> THEN <<xs, ys>>
     ELSE IF Len(l) = 1 THEN <<l \o xs, ys>>
     ELSE splitOnto[<<Tail(Tail(l)), <<l[1]>> \o xs, <<l[2]>> \o ys>>]
splitLosesOdd(l) ==                                                  \* mutant
  splitOnto[<<SubSeq(l, 1, 2 * (Len(l) \div 2)), <<>>, <<>>>>]
split(l) == splitOnto[<<l, <<>>, <<>>>>]

merge[p \in IntLists \X IntLists] ==
  LET l == p[1]
      k == p[2]
  IN IF l = <<>> THEN k
     ELSE IF k = <<>> THEN l
     ELSE IF l[1] < k[1] THEN <<l[1]>> \o merge[<<Tail(l), k>>]
     ELSE <<k[1]>> \o merge[<<l, Tail(k)>>]

mergesort[l \in IntLists] ==
  IF Len(l) <= 1 THEN l
  ELSE merge[<<mergesort[split(l)[1]], mergesort[split(l)[2]]>>]

(* The callback bound to port 8080. *)
Sorted(s) ==
  LET l == stringToIntList(s) IN IF l \in {Invalid, NoReply} THEN l ELSE mergesort[l]

------------------------------------------------------------------------------
Handle(s) == request' = s /\ reply' = Sorted(s)

SortInit == request = <<>> /\ reply = <<>>
SortNext == \E n \in 0..MaxTokens : \E s \in [1..n -> Tokens] : request = <<>> /\ Handle(s)
SortSpec == SortInit /\ [][SortNext]_sortVars

------------------------------------------------------------------------------
(* A request of numbers is answered with the same numbers, each as often   *)
(* as it was sent, in order.  Any other is answered "Invalid input" if its *)
(* first token that is not a number is a word, whatever comes after it,    *)
(* and not at all if that token is too big.                                *)
Occurrences(l, x) == Cardinality({i \in 1..Len(l) : l[i] = x})
RepliesSorted ==
  IF \A i \in 1..Len(request) : IsNumber(request[i])
  THEN /\ \A x \in SortValues : Occurrences(reply, x) = Occurrences(request, x)
       /\ \A i \in 1..(Len(reply) - 1) : reply[i] <= reply[i + 1]
  ELSE \E i \in 1..Len(request) :
         /\ ~IsNumber(request[i]) /\ \A j \in 1..(i - 1) : IsNumber(request[j])
         /\ request[i] = Word => reply = Invalid
         /\ request[i] = TooBig => reply = NoReply
=============================================================================
