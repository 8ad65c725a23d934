--------------------------- MODULE RealConversions ---------------------------
(***************************************************************************)
(* floor, trunc, ceil and toString of a real (RuntimeMini/Math.c).  A      *)
(* double is written as its number of units of 2^-FractionBits; infinities *)
(* and nan are left out.  What makes the conversions hard: maxInt is not a *)
(* double, and neither is minInt - 1.                                      *)
(***************************************************************************)
EXTENDS Integers

CONSTANTS
  MantissaBits, FractionBits, MaxExponent,  \* of a double: mantissa, smallest fraction, exponents
  IntBits, CIntBits,                        \* of long int and of int
  Decimals,                                 \* printed by toString (7 in the code)
  OverflowExn

pow2[n \in Nat] == IF n = 0 THEN 1 ELSE 2 * pow2[n - 1]
pow10[n \in Nat] == IF n = 0 THEN 1 ELSE 10 * pow10[n - 1]

(* maxInt and minInt - 1 are no doubles, some doubles are beyond every     *)
(* integer, and the decimals fit in an int and in a mantissa.              *)
ASSUME RealAssumption ==
  /\ {MantissaBits, FractionBits, MaxExponent, IntBits, CIntBits, Decimals} \subseteq Nat
  /\ MantissaBits > 0 /\ IntBits > MantissaBits + 2
  /\ MaxExponent + MantissaBits > FractionBits + IntBits
  /\ CIntBits > 0 /\ pow10[Decimals] < pow2[CIntBits - 1]
  /\ Decimals > 1 /\ pow10[Decimals] < pow2[MantissaBits]
  /\ OverflowExn \notin Int

VARIABLES
  conversion,  \* [op, v], the conversion and the double
  converted,   \* the integer or the exception it returned
  text         \* and the two numbers toString printed
realVars == <<conversion, converted, text>>

One == pow2[FractionBits]
Min_Int == -pow2[IntBits - 1]
Max_Int == pow2[IntBits - 1] - 1
CInts == -pow2[CIntBits - 1]..(pow2[CIntBits - 1] - 1)

Magnitude(x) == IF x < 0 THEN -x ELSE x
Doubles == {s * m * pow2[e] :
              s \in {1, -1}, m \in 0..(pow2[MantissaBits] - 1), e \in 0..MaxExponent}

(* The double nearest to v, of two the even one. *)
Exponent(v) ==
  CHOOSE e \in 0..MaxExponent :
    /\ Magnitude(v) < pow2[MantissaBits + e]
    /\ e = 0 \/ Magnitude(v) >= pow2[MantissaBits + e - 1]
Nearest(v) ==
  LET unit == pow2[Exponent(v)]
      below == v \div unit
      rest == v - below * unit
  IN IF 2 * rest < unit \/ (2 * rest = unit /\ below % 2 = 0)
     THEN below * unit ELSE (below + 1) * unit

Max_Int_d == Nearest(Max_Int * One)
Min_Int_d == Nearest(Min_Int * One)

(* (double) i, and (long int) v and (int) v; a v that does not fit gives   *)
(* the least integer, which is what cvttsd2si returns.                     *)
ToDouble(i) == Nearest(i * One)
Truncated(v) == IF v >= 0 THEN v \div One ELSE -((-v) \div One)
ToInt(v) == IF Truncated(v) \in Min_Int..Max_Int THEN Truncated(v) ELSE Min_Int
ToCInt(v) == IF Truncated(v) \in CInts THEN Truncated(v) ELSE -pow2[CIntBits - 1]

------------------------------------------------------------------------------
floorTowardsZero(v) ==                                               \* mutant
  IF v >= Nearest(Max_Int_d + One) \/ v < Min_Int_d THEN OverflowExn ELSE ToInt(v)
floorFloat(v) ==
  IF v >= 0
  THEN IF v >= Nearest(Max_Int_d + One) THEN OverflowExn ELSE ToInt(v)
  ELSE IF v < Min_Int_d THEN OverflowExn
       ELSE IF v < ToDouble(ToInt(v)) THEN ToInt(v) - 1 ELSE ToInt(v)

truncFloat(v) ==
  IF v >= Nearest(Max_Int_d + One) \/ v <= Nearest(Min_Int_d - One)
  THEN OverflowExn ELSE ToInt(v)

ceilFloat(v) ==
  IF v >= 0
  THEN IF v > Max_Int_d THEN OverflowExn
       ELSE IF v > ToDouble(ToInt(v)) THEN ToInt(v) + 1 ELSE ToInt(v)
  ELSE IF v <= Nearest(Min_Int_d - One) THEN OverflowExn ELSE ToInt(v)

(* "%d.%d" of the floor and of the rest: the decimals are printed as a     *)
(* number, without the zeros in front of it.                               *)
stringOfFloat(v) ==
  LET whole == (v \div One) * One
      rest == Nearest(v - whole)
  IN [whole |-> ToCInt(whole), decimals |-> ToCInt(Nearest(rest * pow10[Decimals]))]

------------------------------------------------------------------------------
NoConversion == [op |-> "none"]
Convert(op, v) ==
  /\ conversion = NoConversion
  /\ conversion' = [op |-> op, v |-> v]
  /\ IF op = "toString"
     THEN text' = stringOfFloat(v) /\ UNCHANGED converted
     ELSE /\ UNCHANGED text
          /\ converted' = CASE op = "floor" -> floorFloat(v) [] op = "trunc" -> truncFloat(v)
                            [] op = "ceil" -> ceilFloat(v)

RealInit == /\ conversion = NoConversion /\ converted = 0
            /\ text = [whole |-> 0, decimals |-> 0]
RealNext == \E op \in {"floor", "trunc", "ceil", "toString"}, v \in Doubles : Convert(op, v)
RealSpec == RealInit /\ [][RealNext]_realVars

------------------------------------------------------------------------------
(* What REAL.sig says of the three: the integer below, towards zero and    *)
(* above; Overflow when it is not representable.                           *)
Rounded(op, v) == CASE op = "floor" -> v \div One
                    [] op = "ceil" -> -((-v) \div One)
                    [] op = "trunc" -> Truncated(v)
Correct(op, v) == IF Rounded(op, v) \in Min_Int..Max_Int THEN Rounded(op, v) ELSE OverflowExn

(* The doubles next to which the bounds of the code are rounded: ceil lets *)
(* 2^(IntBits-1) through, and trunc and ceil refuse its opposite.          *)
AtBound(op, v) == \/ op = "ceil" /\ v = -Min_Int * One
                  \/ op \in {"trunc", "ceil"} /\ v = Min_Int * One

(* floor, trunc and ceil return the integer of REAL.sig, or Overflow,      *)
(* whatever the double, but at those bounds.                               *)
ConversionsExact ==
  conversion.op \in {"floor", "trunc", "ceil"}
    => (converted = Correct(conversion.op, conversion.v) <=> ~AtBound(conversion.op, conversion.v))

(* The number a text stands for, in units of 10^-Decimals. *)
Digits(n) == CHOOSE k \in 1..(Decimals + 1) : n < pow10[k] /\ (k = 1 \/ n >= pow10[k - 1])
ReadBack(t) ==
  LET magnitude == Magnitude(t.whole) * pow10[Decimals]
                     + (t.decimals * pow10[Decimals]) \div pow10[Digits(t.decimals)]
  IN IF t.whole < 0 THEN -magnitude ELSE magnitude
ReadsBack(v, t) == Magnitude(ReadBack(t) * One - v * pow10[Decimals]) <= One

(* Unless the whole part is beyond an int, the text of a number is that    *)
(* number, to one unit of its last decimal, exactly if no decimals are     *)
(* printed but a 0, or the number is positive and they are all printed,    *)
(* that is, the first is not 0.                                            *)
StringExactIf ==
  conversion.op = "toString" /\ conversion.v \div One \in CInts =>
    (ReadsBack(conversion.v, text) <=>
       \/ text.decimals = 0
       \/ conversion.v > 0 /\ Digits(text.decimals) = Decimals)

(* What can be trusted of the four conversions. *)
RealsExact == ConversionsExact /\ StringExactIf
=============================================================================
