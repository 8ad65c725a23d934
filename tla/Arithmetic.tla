------------------------------ MODULE Arithmetic ------------------------------
(***************************************************************************)
(* Integer division of RuntimeMini/Math.c, at a word of W bits: div and    *)
(* mod (rounded down), quot and rem (rounded to zero), for signed and      *)
(* unsigned words, each plain ("ub") or tagged (the ML number i is the     *)
(* machine word 2i+1, and has W-1 bits).  Powers of two are written as     *)
(* multiples of Quarter, 2^(W-2).                                          *)
(***************************************************************************)
EXTENDS Integers

CONSTANTS
  Quarter,         \* a quarter of the machine words
  Div, Overflow,   \* the exceptions of ML
  Trap             \* the processor's fault on a signed quotient out of range

ASSUME WidthAssumption == Quarter \in Nat /\ Quarter > 1

ASSUME ExceptionsAssumption ==
  /\ Div \notin Int /\ Overflow \notin Int /\ Trap \notin Int
  /\ Div # Overflow /\ Div # Trap /\ Overflow # Trap

VARIABLES
  call,    \* [op, rep, x, y]: the operation, the representation and the ML operands
  result   \* the machine word returned, an exception, or Trap

arithVars == <<call, result>>

Reps == {"int_ub", "int_tagged", "word_ub", "word_tagged"}
Tagged(rep) == rep \in {"int_tagged", "word_tagged"}
Signed(rep) == rep \in {"int_ub", "int_tagged"}

Half == 2 * Quarter
Modulus == 4 * Quarter
Count(rep) == IF Tagged(rep) THEN Half ELSE Modulus
MinOf(rep) == IF Signed(rep) THEN -(Count(rep) \div 2) ELSE 0
MaxOf(rep) == MinOf(rep) + Count(rep) - 1
NumbersOf(rep) == MinOf(rep)..MaxOf(rep)

------------------------------------------------------------------------------
(* C division: rounded to zero, the remainder has the sign of x.           *)
Abs(x) == IF x < 0 THEN -x ELSE x
CDiv(x, y) == IF (x < 0) = (y < 0) THEN Abs(x) \div Abs(y) ELSE -(Abs(x) \div Abs(y))
CRem(x, y) == x - y * CDiv(x, y)

(* minInt / -1 does not fit: idiv faults, on the quotient as on the remainder. *)
Faults(x, y) == x = -Half /\ y = -1

(* The macros of Tagging.h; a shift to the left drops the top bit. *)
Wrap(x) == ((x + Half) % Modulus) - Half
Tag(rep, i) == IF ~Tagged(rep) THEN i
               ELSE IF Signed(rep) THEN Wrap(2 * i + 1) ELSE (2 * i + 1) % Modulus
Untag(rep, w) == IF Tagged(rep) THEN w \div 2 ELSE w

------------------------------------------------------------------------------
(* x and y are machine words. *)
div_int_ub(x, y) ==
  IF y = 0 THEN Div
  ELSE IF Faults(x, y) THEN Overflow
  ELSE IF x < 0 /\ y > 0 THEN CDiv(x + 1, y) - 1
  ELSE IF x > 0 /\ y < 0 THEN CDiv(x - 1, y) - 1
  ELSE CDiv(x, y)

div_int_tagged_off_by_two(x, y) ==                                   \* mutant
  IF y = 1 THEN Div
  ELSE IF y = -1 /\ x = 2 * MinOf("int_tagged") + 1 THEN Overflow
  ELSE IF x = 1 THEN 1
  ELSE IF x < 1 /\ y > 1 THEN 2 * CDiv(x + 1, y - 1) - 1
  ELSE IF x > 1 /\ y < 1 THEN 2 * CDiv(x - 1, y - 1) - 1
  ELSE 2 * CDiv(x - 1, y - 1) + 1
div_int_tagged(x, y) ==
  IF y = 1 THEN Div
  ELSE IF y = -1 /\ x = 2 * MinOf("int_tagged") + 1 THEN Overflow
  ELSE IF x = 1 THEN 1
  ELSE IF x < 1 /\ y > 1 THEN 2 * CDiv(x + 1, y - 1) - 1
  ELSE IF x > 1 /\ y < 1 THEN 2 * CDiv(x - 3, y - 1) - 1
  ELSE 2 * CDiv(x - 1, y - 1) + 1

(* The conditions are tried in order, x % y the last of them; when one     *)
(* before it holds, x % y is computed as the result all the same.          *)
mod_int_ub(x, y) ==
  IF y = 0 THEN Div
  ELSE IF Faults(x, y) THEN Trap
  ELSE IF (x > 0 /\ y > 0) \/ (x < 0 /\ y < 0) \/ CRem(x, y) = 0 THEN CRem(x, y)
  ELSE CRem(x, y) + y

mod_int_tagged(x, y) ==
  IF y = 1 THEN Div
  ELSE IF CRem(x - 1, y - 1) = 0 \/ (x > 1 /\ y > 1) \/ (x < 1 /\ y < 1)
       THEN CRem(x - 1, y - 1) + 1
       ELSE CRem(x - 1, y - 1) + y

(* Unsigned words: the same operation rounds down and to zero. *)
div_word(rep, x, y) ==
  IF Untag(rep, y) = 0 THEN Div ELSE Tag(rep, Untag(rep, x) \div Untag(rep, y))
mod_word(rep, x, y) ==
  IF Untag(rep, y) = 0 THEN Div ELSE Tag(rep, Untag(rep, x) % Untag(rep, y))

(* quot and rem of Int.sml raise Div for 0 before the primitive is called. *)
quot_int(rep, x, y) ==
  IF Untag(rep, y) = 0 THEN Div
  ELSE IF Faults(Untag(rep, x), Untag(rep, y)) THEN Trap
  ELSE Tag(rep, CDiv(Untag(rep, x), Untag(rep, y)))
rem_int(rep, x, y) ==
  IF Untag(rep, y) = 0 THEN Div
  ELSE IF Faults(Untag(rep, x), Untag(rep, y)) THEN Trap
  ELSE Tag(rep, CRem(Untag(rep, x), Untag(rep, y)))

Primitive(op, rep, x, y) ==
  CASE op = "div" /\ rep = "int_ub"     -> div_int_ub(x, y)
    [] op = "div" /\ rep = "int_tagged" -> div_int_tagged(x, y)
    [] op = "mod" /\ rep = "int_ub"     -> mod_int_ub(x, y)
    [] op = "mod" /\ rep = "int_tagged" -> mod_int_tagged(x, y)
    [] op = "div" /\ ~Signed(rep)       -> div_word(rep, x, y)
    [] op = "mod" /\ ~Signed(rep)       -> mod_word(rep, x, y)
    [] op = "quot"                      -> quot_int(rep, x, y)
    [] op = "rem"                       -> rem_int(rep, x, y)

------------------------------------------------------------------------------
ArithOps(rep) == IF Signed(rep) THEN {"div", "mod", "quot", "rem"} ELSE {"div", "mod"}
NoCall == [op |-> "none"]

Apply(op, rep, x, y) ==
  /\ call = NoCall
  /\ op \in ArithOps(rep)
  /\ call' = [op |-> op, rep |-> rep, x |-> x, y |-> y]
  /\ result' = Primitive(op, rep, Tag(rep, x), Tag(rep, y))

ArithInit == call = NoCall /\ result = 0
ArithNext == \E rep \in Reps : \E op \in ArithOps(rep), x, y \in NumbersOf(rep) : Apply(op, rep, x, y)
ArithSpec == ArithInit /\ [][ArithNext]_arithVars

------------------------------------------------------------------------------
(* What INTEGER.sig says of the four: rounded down or to zero, the         *)
(* remainder of the same rounding, Div for a zero divisor, Overflow for a  *)
(* result that is not representable.                                       *)
Floor(x, y) == IF y > 0 THEN x \div y ELSE (-x) \div (-y)
Trunc(x, y) == IF Floor(x, y) < 0 THEN -Floor(-x, y) ELSE Floor(x, y)
Value(c) == CASE c.op = "div" -> Floor(c.x, c.y)
              [] c.op = "mod" -> c.x - Floor(c.x, c.y) * c.y
              [] c.op = "quot" -> Trunc(c.x, c.y)
              [] c.op = "rem" -> c.x - Trunc(c.x, c.y) * c.y
Expected(c) ==
  IF c.y = 0 THEN Div
  ELSE IF Value(c) \notin NumbersOf(c.rep) THEN Overflow ELSE Tag(c.rep, Value(c))

(* minInt by ~1, where mod and rem of plain words fault and quot does not raise. *)
AtCorner(c) == /\ Signed(c.rep) /\ c.x = MinOf(c.rep) /\ c.y = -1
               /\ c.op = "quot" \/ (c.op # "div" /\ c.rep = "int_ub")

(* Every operation returns what INTEGER.sig says, in every representation, *)
(* but in that corner.                                                     *)
DivisionsExact == call # NoCall => (result = Expected(call) <=> ~AtCorner(call))
=============================================================================
