---------------------------- MODULE LibraryProofs ----------------------------
(***************************************************************************)
(* Four libraries below the programs.  Integer division is that of         *)
(* INTEGER.sig at every width of a word: the C operators, the macros that  *)
(* tag and untag, and each of the primitives.  The heap of the Xen build   *)
(* is in order after any calls of malloc, free and realloc, for every size *)
(* of page and header, alignment and number of pages.  Strings are kept in *)
(* a region of any size, and compared by a total order.  The headers of    *)
(* the packets are read back as they were written, whatever they hold.     *)
(***************************************************************************)
EXTENDS Arithmetic, XMalloc, Strings, Codecs, SequenceTheorems, WellFoundedInduction, TLAPS

------------------------------------------------------------------------------
(* The quotient of two magnitudes, by what it does. *)
Quo(a, b) == a \div b

LEMMA QuoBounds ==
  ASSUME NEW a \in Nat, NEW b \in Nat, b # 0
  PROVE  /\ Quo(a, b) \in Nat
         /\ b * Quo(a, b) <= a /\ a < b * Quo(a, b) + b
BY DEF Quo

(* Only one number lies there, also for a negative dividend. *)
LEMMA QuoUnique ==
  ASSUME NEW a \in Int, NEW b \in Nat, b # 0, NEW q \in Int,
         b * q <= a, a < b * q + b
  PROVE  a \div b = q
<1> DEFINE r == a \div b
<1>1. r \in Int /\ b * r <= a /\ a < b * r + b
  OBVIOUS
<1> HIDE DEF r
<1>2. \A u, v \in Int : u < v => b * u + b <= b * v
  <2> SUFFICES ASSUME NEW u \in Int, NEW v \in Int, u < v PROVE b * u + b <= b * v
    OBVIOUS
  <2>1. PICK k \in Nat : v = u + 1 + k
    <3>1. v - u - 1 \in Nat /\ v = u + 1 + (v - u - 1)
      OBVIOUS
    <3> QED
      BY <3>1
  <2>2. b * v = b * u + b + b * k /\ b * k >= 0
    BY <2>1
  <2>3. b * u \in Int /\ b * k \in Int
    OBVIOUS
  <2> QED
    BY <2>2, <2>3
<1>3. b * r \in Int /\ b * q \in Int
  BY <1>1
<1>4. ~(r < q)
  BY <1>1, <1>2, <1>3
<1>5. ~(q < r)
  BY <1>1, <1>2, <1>3
<1>6. r = q
  BY <1>1, <1>4, <1>5
<1> QED
  BY <1>6 DEF r

(* The number before a multiple of b has the quotient before. *)
LEMMA QuoBefore ==
  ASSUME NEW a \in Nat, a # 0, NEW b \in Nat, b # 0
  PROVE  Quo(a - 1, b) = IF b * Quo(a, b) = a THEN Quo(a, b) - 1 ELSE Quo(a, b)
<1> DEFINE q == Quo(a, b)
           p == IF b * q = a THEN q - 1 ELSE q
<1>1. q \in Nat /\ b * q <= a /\ a < b * q + b
  BY QuoBounds
<1> HIDE DEF q
<1>2. p \in Int /\ b * p <= a - 1 /\ a - 1 < b * p + b
  <2>1. CASE b * q = a
    <3>1. b * (q - 1) = b * q - b
      BY <1>1
    <3> QED
      BY <1>1, <2>1, <3>1
  <2>2. CASE b * q # a
    <3>1. b * q \in Int
      BY <1>1
    <3> QED
      BY <1>1, <2>2, <3>1
  <2> QED
    BY <2>1, <2>2
<1>3. (a - 1) \div b = p
  <2> HIDE DEF p
  <2> QED
    BY <1>2, QuoUnique
<1> QED
  BY <1>3 DEF Quo, q

(* Tagging doubles the magnitudes and keeps the quotient. *)
LEMMA QuoDouble ==
  ASSUME NEW a \in Nat, NEW b \in Nat, b # 0
  PROVE  Quo(2 * a, 2 * b) = Quo(a, b)
<1> DEFINE q == Quo(a, b)
<1>1. q \in Nat /\ b * q <= a /\ a < b * q + b
  BY QuoBounds
<1> HIDE DEF q
<1>2. /\ 2 * a \in Int /\ 2 * b \in Nat /\ 2 * b # 0 /\ b * q \in Int
      /\ (2 * b) * q = 2 * (b * q)
  BY <1>1
<1>3. (2 * b) * q <= 2 * a /\ 2 * a < (2 * b) * q + 2 * b
  BY <1>1, <1>2
<1>4. (2 * a) \div (2 * b) = q
  BY <1>1, <1>2, <1>3, QuoUnique
<1> QED
  BY <1>4 DEF Quo, q

(* How large a quotient is. *)
LEMMA QuoSmall ==
  ASSUME NEW a \in Nat, NEW b \in Nat, b # 0
  PROVE  Quo(a, b) <= a /\ (b # 1 => 2 * Quo(a, b) <= a) /\ (b = 1 => Quo(a, b) = a)
<1> DEFINE q == Quo(a, b)
<1>1. q \in Nat /\ b * q <= a /\ a < b * q + b
  BY QuoBounds
<1> HIDE DEF q
<1>2. CASE b = 1
  BY <1>1, <1>2 DEF q
<1>3. CASE b # 1
  <2>1. PICK c \in Nat : b = 2 + c
    <3>1. b - 2 \in Nat /\ b = 2 + (b - 2)
      BY <1>3
    <3> QED
      BY <3>1
  <2>2. b * q = 2 * q + c * q /\ c * q \in Nat
    BY <1>1, <2>1
  <2>3. 2 * q <= a
    BY <1>1, <2>2
  <2> QED
    BY <1>1, <1>3, <2>3 DEF q
<1> QED
  BY <1>2, <1>3

------------------------------------------------------------------------------
(* Both roundings, by the quotient of the magnitudes. *)
Alike(x, y) == (x < 0) = (y < 0)

LEMMA AbsNat == \A x \in Int : Abs(x) \in Nat /\ (x # 0 => Abs(x) # 0)
BY DEF Abs

LEMMA CDivIs ==
  ASSUME NEW x \in Int, NEW y \in Int, y # 0
  PROVE  /\ CDiv(x, y) = IF Alike(x, y) THEN Quo(Abs(x), Abs(y)) ELSE -Quo(Abs(x), Abs(y))
         /\ CDiv(x, y) \in Int
<1>1. CDiv(x, y) = IF Alike(x, y) THEN Quo(Abs(x), Abs(y)) ELSE -Quo(Abs(x), Abs(y))
  BY DEF CDiv, Alike, Quo
<1>2. Quo(Abs(x), Abs(y)) \in Nat
  BY AbsNat, QuoBounds
<1> QED
  BY <1>1, <1>2

LEMMA FloorIs ==
  ASSUME NEW x \in Int, NEW y \in Int, y # 0
  PROVE  LET a == Abs(x)
             b == Abs(y)
         IN Floor(x, y) = IF x = 0 \/ Alike(x, y) THEN Quo(a, b)
                          ELSE IF b * Quo(a, b) = a THEN -Quo(a, b) ELSE -Quo(a, b) - 1
<1> DEFINE a == Abs(x)
           b == Abs(y)
           q == Quo(a, b)
           f == IF x = 0 \/ Alike(x, y) THEN q ELSE IF b * q = a THEN -q ELSE -q - 1
<1>1. a \in Nat /\ b \in Nat /\ b # 0 /\ (x # 0 => a # 0)
  BY AbsNat
<1>2. q \in Nat /\ b * q <= a /\ a < b * q + b
  BY <1>1, QuoBounds
<1>3. CASE x = 0 \/ Alike(x, y)
  <2>1. Floor(x, y) = a \div b
    BY <1>3 DEF Floor, Alike, Abs
  <2> QED
    BY <1>3, <2>1 DEF Quo
<1>4. CASE ~(x = 0 \/ Alike(x, y))
  <2> DEFINE p == IF b * q = a THEN -q ELSE -q - 1
  <2>1. Floor(x, y) = (-a) \div b
    BY <1>4 DEF Floor, Alike, Abs
  <2>2. p \in Int /\ b * p <= -a /\ -a < b * p + b
    <3> HIDE DEF a, b, q
    <3>1. b * (-q) = -(b * q) /\ b * (-q - 1) = -(b * q) - b /\ b * q \in Int
      BY <1>1, <1>2
    <3> QED
      BY <1>1, <1>2, <3>1
  <2>3. (-a) \div b = p
    <3> HIDE DEF a, b, q, p
    <3>1. -a \in Int
      BY <1>1
    <3> QED
      BY <1>1, <2>2, <3>1, QuoUnique
  <2> QED
    BY <1>4, <2>1, <2>3
<1> QED
  BY <1>3, <1>4

(* INTEGER.sig's rounding to zero is that of C. *)
LEMMA TruncIs ==
  ASSUME NEW x \in Int, NEW y \in Int, y # 0
  PROVE  Trunc(x, y) = CDiv(x, y)
<1> DEFINE q == Quo(Abs(x), Abs(y))
<1>1. Abs(x) \in Nat /\ Abs(y) \in Nat /\ Abs(y) # 0 /\ Abs(-x) = Abs(x) /\ -x \in Int
  BY AbsNat DEF Abs
<1>2. q \in Nat /\ (x = 0 => q = 0)
  <2>1. q \in Nat /\ q <= Abs(x)
    BY <1>1, QuoBounds, QuoSmall
  <2>2. x = 0 => Abs(x) = 0
    BY DEF Abs
  <2> HIDE DEF q
  <2> QED
    BY <2>1, <2>2
<1>3. x = 0 \/ Alike(x, y) => Floor(x, y) = q
  BY FloorIs
<1>4. x # 0 /\ ~Alike(x, y) => Floor(x, y) \in {-q, -q - 1} /\ Floor(-x, y) = q
  <2>1. x # 0 /\ ~Alike(x, y) => Alike(-x, y)
    BY DEF Alike
  <2> QED
    BY <1>1, <2>1, FloorIs
<1>5. CDiv(x, y) = IF Alike(x, y) THEN q ELSE -q
  BY CDivIs
<1>6. x # 0 /\ ~Alike(x, y) /\ Floor(x, y) = -q /\ ~(Floor(x, y) < 0) => q = 0
  BY <1>2
<1> HIDE DEF q
<1> QED
  BY <1>2, <1>3, <1>4, <1>5, <1>6 DEF Trunc

(* Rounding down is rounding to zero, and one less when the signs differ   *)
(* and something is left over.                                             *)
LEMMA FloorFromC ==
  ASSUME NEW x \in Int, NEW y \in Int, y # 0
  PROVE  Floor(x, y) = IF Alike(x, y) \/ CRem(x, y) = 0 THEN CDiv(x, y) ELSE CDiv(x, y) - 1
<1> DEFINE a == Abs(x)
           b == Abs(y)
           q == Quo(a, b)
<1>1. a \in Nat /\ b \in Nat /\ b # 0
  BY AbsNat
<1>2. q \in Nat /\ b * q <= a /\ a < b * q + b /\ (a = 0 => q = 0)
  <2>1. q \in Nat /\ b * q <= a /\ a < b * q + b /\ q <= a
    BY <1>1, QuoBounds, QuoSmall
  <2> HIDE DEF q
  <2> QED
    BY <1>1, <2>1
<1>3. CDiv(x, y) = IF Alike(x, y) THEN q ELSE -q
  BY CDivIs
<1>4. Floor(x, y) = IF x = 0 \/ Alike(x, y) THEN q ELSE IF b * q = a THEN -q ELSE -q - 1
  BY FloorIs
<1>5. ~Alike(x, y) => /\ x = 0 => a = 0
                      /\ IF y < 0 THEN y = -b /\ x = a ELSE y = b /\ x = -a
  BY <1>1 DEF Alike, Abs
<1>6. ~Alike(x, y) => (CRem(x, y) = 0 <=> b * q = a)
  <2> SUFFICES ASSUME ~Alike(x, y) PROVE CRem(x, y) = 0 <=> b * q = a
    OBVIOUS
  <2>1. CRem(x, y) = x - y * (-q)
    BY <1>3 DEF CRem
  <2>2. y * (-q) = IF y < 0 THEN b * q ELSE -(b * q)
    <3> HIDE DEF a, b, q
    <3> QED
      BY <1>1, <1>2, <1>5
  <2>3. b * q \in Int
    BY <1>1, <1>2
  <2> HIDE DEF a, b, q
  <2> QED
    BY <1>1, <1>5, <2>1, <2>2, <2>3
<1>7. x = 0 => q = 0
  BY <1>2 DEF Abs
<1> HIDE DEF a, b, q
<1>8. CASE Alike(x, y)
  BY <1>3, <1>4, <1>8
<1>9. CASE ~Alike(x, y)
  <2>1. CASE x = 0
    <3>1. b * q = a
      BY <1>1, <1>5, <1>7, <1>9, <2>1
    <3>2. CRem(x, y) = 0
      BY <1>6, <1>9, <3>1
    <3>3. q \in Int /\ q = 0 /\ \A i \in Int : i = 0 => -i = i
      BY <1>2, <1>7, <2>1
    <3>4. CDiv(x, y) = -q
      BY <1>3, <1>9
    <3>5. Floor(x, y) = q
      BY <1>4, <2>1
    <3> QED
      BY <3>2, <3>3, <3>4, <3>5
  <2>2. CASE x # 0
    BY <1>3, <1>4, <1>6, <1>9, <2>2
  <2> QED
    BY <2>1, <2>2
<1> QED
  BY <1>8, <1>9

------------------------------------------------------------------------------
(* The results of words that hold the numbers from -h to h - 1: only the   *)
(* least number over -1 is outside, and remainders never are.              *)
LEMMA ResultsFit ==
  ASSUME NEW h \in Nat, h > 1, NEW x \in (-h)..(h - 1), NEW y \in (-h)..(h - 1), y # 0
  PROVE  /\ CDiv(x, y) \in Int /\ Floor(x, y) \in Int
         /\ CRem(x, y) \in (-h)..(h - 1)
         /\ x - Floor(x, y) * y \in (-h)..(h - 1)
         /\ IF x = -h /\ y = -1
            THEN CDiv(x, y) = h /\ Floor(x, y) = h /\ CRem(x, y) = 0
            ELSE CDiv(x, y) \in (-h)..(h - 1) /\ Floor(x, y) \in (-h)..(h - 1)
<1> DEFINE a == Abs(x)
           b == Abs(y)
           q == Quo(a, b)
           c == CDiv(x, y)
           r == CRem(x, y)
<1>1. /\ x \in Int /\ y \in Int /\ a \in Nat /\ b \in Nat /\ b # 0 /\ a <= h /\ b <= h
      /\ x = (IF x < 0 THEN -a ELSE a) /\ y = (IF y < 0 THEN -b ELSE b)
  BY DEF Abs
<1>2. /\ q \in Nat /\ b * q \in Nat /\ b * q <= a /\ a < b * q + b
      /\ q <= a /\ (b # 1 => 2 * q <= a) /\ (b = 1 => q = a)
  <2>1. /\ q \in Nat /\ b * q <= a /\ a < b * q + b
        /\ q <= a /\ (b # 1 => 2 * q <= a) /\ (b = 1 => q = a)
    BY <1>1, QuoBounds, QuoSmall
  <2> HIDE DEF q, a, b
  <2> QED
    BY <1>1, <2>1
<1>3. c = IF Alike(x, y) THEN q ELSE -q
  BY <1>1, CDivIs
<1>4. r = x - y * c /\ Floor(x, y) = IF Alike(x, y) \/ r = 0 THEN c ELSE c - 1
  BY <1>1, FloorFromC DEF CRem
<1> HIDE DEF a, b, q, c, r
<1>5. y * c = IF x < 0 THEN -(b * q) ELSE b * q
  BY <1>1, <1>2, <1>3 DEF Alike
<1>6. r = IF x < 0 THEN -(a - b * q) ELSE a - b * q
  BY <1>1, <1>2, <1>4, <1>5
<1>7. c \in Int /\ r \in Int /\ Floor(x, y) \in Int
  BY <1>2, <1>3, <1>4, <1>6, <1>1
<1>8. r \in (-h)..(h - 1)
  BY <1>1, <1>2, <1>6
<1>9. x - Floor(x, y) * y = IF Alike(x, y) \/ r = 0 THEN r ELSE r + y
  <2>1. c * y = y * c /\ (c - 1) * y = y * c - y /\ y * c \in Int
    BY <1>1, <1>7
  <2> QED
    BY <1>1, <1>4, <1>7, <2>1
<1>10. ~(Alike(x, y) \/ r = 0) => r + y \in (-h)..(h - 1)
  BY <1>1, <1>2, <1>6 DEF Alike
<1>11. CASE x = -h /\ y = -1
  <2>1. a = h /\ b = 1 /\ q = h /\ Alike(x, y)
    BY <1>1, <1>2, <1>11 DEF Alike
  <2>2. b * q = h
    BY <2>1
  <2> QED
    BY <1>1, <1>3, <1>4, <1>6, <1>7, <1>8, <1>9, <1>10, <1>11, <2>1, <2>2 DEF c, r
<1>12. CASE ~(x = -h /\ y = -1)
  <2>1. Alike(x, y) => q <= h - 1
    BY <1>1, <1>2, <1>12 DEF Alike
  <2>2. ~Alike(x, y) /\ r # 0 => q + 1 <= h
    <3> SUFFICES ASSUME ~Alike(x, y), r # 0 PROVE q + 1 <= h
      OBVIOUS
    <3>1. CASE b = 1
      <4>1. b * q = q
        BY <1>2, <3>1
      <4> QED
        BY <1>1, <1>2, <1>6, <3>1, <4>1
    <3>2. CASE b # 1
      BY <1>1, <1>2, <3>2
    <3> QED
      BY <3>1, <3>2
  <2>3. c \in (-h)..(h - 1) /\ Floor(x, y) \in (-h)..(h - 1)
    BY <1>1, <1>2, <1>3, <1>4, <2>1, <2>2
  <2> QED
    BY <1>7, <1>8, <1>9, <1>10, <1>12, <2>3 DEF c, r
<1> QED
  BY <1>11, <1>12

------------------------------------------------------------------------------
(* The numbers of each representation, and their words. *)
LEMMA Ranges ==
  /\ Half \in Nat /\ Half > 1 /\ Modulus = 2 * Half /\ Half = 2 * Quarter
  /\ NumbersOf("int_ub") = (-Half)..(Half - 1) /\ MinOf("int_ub") = -Half
  /\ NumbersOf("int_tagged") = (-Quarter)..(Quarter - 1) /\ MinOf("int_tagged") = -Quarter
  /\ NumbersOf("word_ub") = 0..(Modulus - 1)
  /\ NumbersOf("word_tagged") = 0..(Half - 1)
<1>1. /\ Half \in Nat /\ Half > 1 /\ Modulus = 2 * Half /\ Half = 2 * Quarter /\ Quarter \in Nat
      /\ Modulus \div 2 = Half /\ Half \div 2 = Quarter
  BY WidthAssumption DEF Half, Modulus
<1>2. /\ MinOf("int_ub") = -Half /\ MinOf("int_tagged") = -Quarter
      /\ MinOf("word_ub") = 0 /\ MinOf("word_tagged") = 0
  BY <1>1 DEF MinOf, Count, Signed, Tagged
<1>3. /\ MaxOf("int_ub") = Half - 1 /\ MaxOf("int_tagged") = Quarter - 1
      /\ MaxOf("word_ub") = Modulus - 1 /\ MaxOf("word_tagged") = Half - 1
  BY <1>1, <1>2 DEF MaxOf, Count, Signed, Tagged
<1> QED
  BY <1>1, <1>2, <1>3 DEF NumbersOf

LEMMA SmallRemainder ==
  ASSUME NEW n \in Nat, NEW m \in Nat, n < m
  PROVE  n % m = n
OBVIOUS

(* Nothing is lost by tagging a number that has a tagged word.             *)
LEMMA TagIs ==
  ASSUME NEW rep \in Reps, NEW i \in NumbersOf(rep)
  PROVE  /\ i \in Int
         /\ Tag(rep, i) = IF Tagged(rep) THEN 2 * i + 1 ELSE i
         /\ Untag(rep, Tag(rep, i)) = i
<1>1. CASE rep = "int_ub" \/ rep = "word_ub"
  BY <1>1, Ranges DEF Tag, Untag, Tagged
<1>2. CASE rep = "int_tagged"
  <2>1. i \in Int /\ -Quarter <= i /\ i <= Quarter - 1
    BY <1>2, Ranges, WidthAssumption
  <2>2. 2 * i + 1 + Half \in Nat /\ 2 * i + 1 + Half < Modulus /\ Modulus \in Nat
    BY <2>1, Ranges, WidthAssumption
  <2>3. (2 * i + 1 + Half) % Modulus = 2 * i + 1 + Half
    BY <2>2, SmallRemainder
  <2>4. Wrap(2 * i + 1) = 2 * i + 1
    BY <2>1, <2>3, Ranges DEF Wrap
  <2>5. Tag(rep, i) = 2 * i + 1
    BY <1>2, <2>4 DEF Tag, Tagged, Signed
  <2>6. (2 * i + 1) \div 2 = i
    BY <2>1
  <2> QED
    BY <1>2, <2>1, <2>5, <2>6 DEF Untag, Tagged
<1>3. CASE rep = "word_tagged"
  <2>1. i \in Int /\ 2 * i + 1 \in Nat /\ Modulus \in Nat /\ 2 * i + 1 < Modulus
    BY <1>3, Ranges
  <2>2. Tag(rep, i) = 2 * i + 1
    BY <1>3, <2>1, SmallRemainder DEF Tag, Tagged, Signed
  <2>3. (2 * i + 1) \div 2 = i
    BY <2>1
  <2> QED
    BY <1>3, <2>1, <2>2, <2>3 DEF Untag, Tagged
<1> QED
  BY <1>1, <1>2, <1>3 DEF Reps

(* The C operators on tagged words less their tags. *)
LEMMA CDouble ==
  ASSUME NEW x \in Int, NEW y \in Int, y # 0
  PROVE  CDiv(2 * x, 2 * y) = CDiv(x, y) /\ CRem(2 * x, 2 * y) = 2 * CRem(x, y)
<1>1. /\ Abs(2 * x) = 2 * Abs(x) /\ Abs(2 * y) = 2 * Abs(y) /\ 2 * x \in Int /\ 2 * y \in Int
      /\ 2 * y # 0 /\ (Alike(2 * x, 2 * y) <=> Alike(x, y))
  BY DEF Abs, Alike
<1>2. Quo(Abs(2 * x), Abs(2 * y)) = Quo(Abs(x), Abs(y))
  BY <1>1, AbsNat, QuoDouble
<1>3. CDiv(2 * x, 2 * y) = CDiv(x, y)
  <2> DEFINE u == 2 * x
             v == 2 * y
  <2>1. u \in Int /\ v \in Int /\ v # 0 /\ (Alike(u, v) <=> Alike(x, y))
        /\ Quo(Abs(u), Abs(v)) = Quo(Abs(x), Abs(y))
    BY <1>1, <1>2
  <2> HIDE DEF u, v
  <2>2. CDiv(u, v) = IF Alike(u, v) THEN Quo(Abs(u), Abs(v)) ELSE -Quo(Abs(u), Abs(v))
    BY <2>1, CDivIs
  <2>3. CDiv(x, y) = IF Alike(x, y) THEN Quo(Abs(x), Abs(y)) ELSE -Quo(Abs(x), Abs(y))
    BY CDivIs
  <2>4. CDiv(u, v) = CDiv(x, y)
    BY <2>1, <2>2, <2>3
  <2> QED
    BY <2>4 DEF u, v
<1>4. CDiv(x, y) \in Int
  BY CDivIs
<1>5. \A c \in Int : 2 * x - (2 * y) * c = 2 * (x - y * c)
  BY Z3
<1> QED
  BY <1>3, <1>4, <1>5 DEF CRem

(* The number next to x, towards zero, has the quotient that div adjusts.  *)
LEMMA CDivNext ==
  ASSUME NEW x \in Int, NEW y \in Int, y # 0
  PROVE  /\ x < 0 /\ y > 0 => CDiv(x + 1, y) - 1 = Floor(x, y)
         /\ x > 0 /\ y < 0 => CDiv(x - 1, y) - 1 = Floor(x, y)
<1> DEFINE a == Abs(x)
           b == Abs(y)
<1>1. a \in Nat /\ b \in Nat /\ b # 0
  BY AbsNat
<1>2. Quo(a, b) \in Nat
  BY <1>1, QuoBounds
<1>3. x # 0 /\ ~Alike(x, y) => a # 0 /\ Floor(x, y) = -Quo(a - 1, b) - 1
  <2> SUFFICES ASSUME x # 0, ~Alike(x, y) PROVE a # 0 /\ Floor(x, y) = -Quo(a - 1, b) - 1
    OBVIOUS
  <2>1. a # 0
    BY AbsNat
  <2>2. Floor(x, y) = IF b * Quo(a, b) = a THEN -Quo(a, b) ELSE -Quo(a, b) - 1
    BY FloorIs
  <2>3. Quo(a - 1, b) = IF b * Quo(a, b) = a THEN Quo(a, b) - 1 ELSE Quo(a, b)
    BY <1>1, <2>1, QuoBefore
  <2> QED
    BY <1>2, <2>1, <2>2, <2>3
<1>4. ASSUME x < 0, y > 0
      PROVE  CDiv(x + 1, y) - 1 = Floor(x, y)
  <2>1. ~Alike(x, y) /\ x # 0 /\ Abs(x + 1) = a - 1 /\ x + 1 \in Int /\ a - 1 \in Nat
        /\ (Alike(x + 1, y) => a - 1 = 0)
    BY <1>4 DEF Alike, Abs
  <2>2. Quo(a - 1, b) \in Nat /\ (a - 1 = 0 => Quo(a - 1, b) = 0)
    <3>1. Quo(a - 1, b) \in Nat /\ Quo(a - 1, b) <= a - 1
      BY <1>1, <2>1, QuoBounds, QuoSmall
    <3> QED
      BY <2>1, <3>1
  <2>3. CDiv(x + 1, y) = IF Alike(x + 1, y) THEN Quo(a - 1, b) ELSE -Quo(a - 1, b)
    BY <2>1, CDivIs
  <2> HIDE DEF a, b
  <2> QED
    BY <1>3, <2>1, <2>2, <2>3
<1>5. ASSUME x > 0, y < 0
      PROVE  CDiv(x - 1, y) - 1 = Floor(x, y)
  <2>1. ~Alike(x, y) /\ x # 0 /\ Abs(x - 1) = a - 1 /\ x - 1 \in Int /\ a - 1 \in Nat
        /\ ~Alike(x - 1, y)
    BY <1>5 DEF Alike, Abs
  <2>2. Quo(a - 1, b) \in Nat
    BY <1>1, <2>1, QuoBounds
  <2>3. CDiv(x - 1, y) = -Quo(a - 1, b)
    BY <2>1, CDivIs
  <2> HIDE DEF a, b
  <2> QED
    BY <1>3, <2>1, <2>2, <2>3
<1> QED
  BY <1>4, <1>5

(* Zero divided leaves zero. *)
LEMMA FromZero ==
  ASSUME NEW y \in Int, y # 0
  PROVE  CDiv(0, y) = 0 /\ CRem(0, y) = 0
<1>1. Abs(0) = 0 /\ Abs(y) \in Nat /\ Abs(y) # 0
  BY AbsNat DEF Abs
<1>2. Quo(0, Abs(y)) = 0
  BY <1>1 DEF Quo
<1>3. CDiv(0, y) = 0
  BY <1>1, <1>2, CDivIs
<1> QED
  BY <1>3 DEF CRem

------------------------------------------------------------------------------
(* What each primitive does to the words of x and y. *)
Corner(rep, x, y) == x = MinOf(rep) /\ y = -1

LEMMA DivPlain ==
  ASSUME NEW x \in NumbersOf("int_ub"), NEW y \in NumbersOf("int_ub"), y # 0
  PROVE  div_int_ub(x, y) = IF Corner("int_ub", x, y) THEN Overflow ELSE Floor(x, y)
<1>1. x \in Int /\ y \in Int /\ (Faults(x, y) <=> Corner("int_ub", x, y))
  BY Ranges DEF Faults, Corner
<1>2. CASE x < 0 /\ y > 0
  BY <1>1, <1>2, CDivNext DEF div_int_ub
<1>3. CASE x > 0 /\ y < 0
  BY <1>1, <1>3, CDivNext DEF div_int_ub
<1>4. CASE ~(x < 0 /\ y > 0) /\ ~(x > 0 /\ y < 0)
  <2>1. Alike(x, y) \/ x = 0
    BY <1>1, <1>4 DEF Alike
  <2>2. CDiv(x, y) \in Int
    BY <1>1, CDivIs
  <2>4. x = 0 => CRem(x, y) = 0
    BY <1>1, FromZero
  <2>5. Floor(x, y) = CDiv(x, y)
    BY <1>1, <2>1, <2>4, FloorFromC
  <2> QED
    BY <1>1, <1>4, <2>5 DEF div_int_ub
<1> QED
  BY <1>2, <1>3, <1>4

LEMMA ModPlain ==
  ASSUME NEW x \in NumbersOf("int_ub"), NEW y \in NumbersOf("int_ub"), y # 0
  PROVE  mod_int_ub(x, y) = IF Corner("int_ub", x, y) THEN Trap ELSE x - Floor(x, y) * y
<1>1. x \in Int /\ y \in Int /\ (Faults(x, y) <=> Corner("int_ub", x, y))
  BY Ranges DEF Faults, Corner
<1>2. CDiv(x, y) \in Int
  BY <1>1, CDivIs
<1>3. /\ CRem(x, y) = x - CDiv(x, y) * y
      /\ CRem(x, y) + y = x - (CDiv(x, y) - 1) * y
  <2>1. \A c \in Int : /\ x - y * c = x - c * y
                       /\ (x - y * c) + y = x - (c - 1) * y
    BY <1>1
  <2> QED
    BY <1>2, <2>1 DEF CRem
<1>4. Alike(x, y) \/ CRem(x, y) = 0 <=>
        (x > 0 /\ y > 0) \/ (x < 0 /\ y < 0) \/ CRem(x, y) = 0
  <2>1. x = 0 => CRem(x, y) = 0
    BY <1>1, FromZero
  <2> QED
    BY <1>1, <2>1 DEF Alike
<1>5. Floor(x, y) = IF Alike(x, y) \/ CRem(x, y) = 0 THEN CDiv(x, y) ELSE CDiv(x, y) - 1
  BY <1>1, FloorFromC
<1> QED
  BY <1>1, <1>3, <1>4, <1>5 DEF mod_int_ub

LEMMA DivTagged ==
  ASSUME NEW x \in NumbersOf("int_tagged"), NEW y \in NumbersOf("int_tagged"), y # 0
  PROVE  div_int_tagged(2 * x + 1, 2 * y + 1) =
           IF Corner("int_tagged", x, y) THEN Overflow ELSE 2 * Floor(x, y) + 1
<1> DEFINE u == 2 * x + 1
           v == 2 * y + 1
           m == MinOf("int_tagged")
<1>1. /\ x \in Int /\ y \in Int /\ m \in Int /\ v # 1
      /\ v = -1 /\ u = 2 * m + 1 <=> Corner("int_tagged", x, y)
      /\ u = 1 <=> x = 0
      /\ u < 1 <=> x < 0
      /\ v > 1 <=> y > 0
      /\ v < 1 <=> y < 0
      /\ u > 1 <=> x > 0
      /\ u + 1 = 2 * (x + 1) /\ v - 1 = 2 * y /\ u - 3 = 2 * (x - 1) /\ u - 1 = 2 * x
      /\ x + 1 \in Int /\ x - 1 \in Int
  <2>1. x \in Int /\ y \in Int /\ m \in Int
    BY Ranges, WidthAssumption
  <2>2. Corner("int_tagged", x, y) <=> x = m /\ y = -1
    BY DEF Corner
  <2> HIDE DEF m
  <2> QED
    BY <2>1, <2>2
<1>2. /\ CDiv(2 * (x + 1), 2 * y) = CDiv(x + 1, y) /\ CDiv(x + 1, y) \in Int
      /\ CDiv(2 * (x - 1), 2 * y) = CDiv(x - 1, y) /\ CDiv(x - 1, y) \in Int
      /\ CDiv(2 * x, 2 * y) = CDiv(x, y) /\ CDiv(x, y) \in Int
  BY <1>1, CDouble, CDivIs
<1>3. x = 0 => Floor(x, y) = 0
  BY <1>1 DEF Floor
<1>4. /\ x < 0 /\ y > 0 => 2 * CDiv(x + 1, y) - 1 = 2 * Floor(x, y) + 1
      /\ x > 0 /\ y < 0 => 2 * CDiv(x - 1, y) - 1 = 2 * Floor(x, y) + 1
  <2>1. \A c \in Int : 2 * c - 1 = 2 * (c - 1) + 1
    OBVIOUS
  <2> QED
    BY <1>1, <1>2, <2>1, CDivNext
<1>5. Alike(x, y) => Floor(x, y) = CDiv(x, y)
  BY <1>1, FloorFromC
<1>6. div_int_tagged(u, v) =
        IF Corner("int_tagged", x, y) THEN Overflow
        ELSE IF x = 0 THEN 1
        ELSE IF x < 0 /\ y > 0 THEN 2 * CDiv(x + 1, y) - 1
        ELSE IF x > 0 /\ y < 0 THEN 2 * CDiv(x - 1, y) - 1
        ELSE 2 * CDiv(x, y) + 1
  <2> HIDE DEF u, v, m
  <2> QED
    BY <1>1, <1>2 DEF div_int_tagged, m
<1> HIDE DEF u, v
<1>7. CASE x = 0
  <2>1. 2 * Floor(x, y) + 1 = 1
    BY <1>3, <1>7
  <2> QED
    BY <1>6, <1>7, <2>1 DEF u, v
<1>8. CASE x # 0 /\ ~Alike(x, y)
  <2>1. (x < 0 /\ y > 0) \/ (x > 0 /\ y < 0)
    BY <1>1, <1>8 DEF Alike
  <2>2. div_int_tagged(u, v) = IF Corner("int_tagged", x, y) THEN Overflow
                               ELSE 2 * Floor(x, y) + 1
    BY <1>1, <1>4, <1>6, <1>8, <2>1
  <2> QED
    BY <2>2 DEF u, v
<1>9. CASE x # 0 /\ Alike(x, y)
  <2>1. ~(x < 0 /\ y > 0) /\ ~(x > 0 /\ y < 0)
    BY <1>1, <1>9 DEF Alike
  <2>2. div_int_tagged(u, v) = IF Corner("int_tagged", x, y) THEN Overflow
                               ELSE 2 * Floor(x, y) + 1
    BY <1>5, <1>6, <1>9, <2>1
  <2> QED
    BY <2>2 DEF u, v
<1> QED
  BY <1>7, <1>8, <1>9

LEMMA ModTagged ==
  ASSUME NEW x \in NumbersOf("int_tagged"), NEW y \in NumbersOf("int_tagged"), y # 0
  PROVE  mod_int_tagged(2 * x + 1, 2 * y + 1) = 2 * (x - Floor(x, y) * y) + 1
<1> DEFINE u == 2 * x + 1
           v == 2 * y + 1
<1>1. /\ x \in Int /\ y \in Int /\ v # 1
      /\ u > 1 /\ v > 1 <=> x > 0 /\ y > 0
      /\ u < 1 /\ v < 1 <=> x < 0 /\ y < 0
      /\ v - 1 = 2 * y /\ u - 1 = 2 * x
  BY Ranges, WidthAssumption
<1>2. CRem(2 * x, 2 * y) = 2 * CRem(x, y) /\ CDiv(x, y) \in Int
  BY <1>1, CDouble, CDivIs
<1>3. CRem(x, y) \in Int /\ (2 * CRem(x, y) = 0 <=> CRem(x, y) = 0)
  BY <1>1, <1>2 DEF CRem
<1>4. mod_int_tagged(u, v) =
        IF CRem(x, y) = 0 \/ (x > 0 /\ y > 0) \/ (x < 0 /\ y < 0)
        THEN 2 * CRem(x, y) + 1 ELSE 2 * CRem(x, y) + v
  <2> HIDE DEF u, v
  <2> QED
    BY <1>1, <1>2, <1>3 DEF mod_int_tagged
<1>5. x = 0 => CRem(x, y) = 0
  BY <1>1, FromZero
<1>6. Floor(x, y) = IF Alike(x, y) \/ CRem(x, y) = 0 THEN CDiv(x, y) ELSE CDiv(x, y) - 1
  BY <1>1, FloorFromC
<1>7. \A c \in Int : /\ 2 * (x - y * c) + 1 = 2 * (x - c * y) + 1
                     /\ 2 * (x - y * c) + v = 2 * (x - (c - 1) * y) + 1
  BY <1>1
<1>8. Alike(x, y) \/ CRem(x, y) = 0 <=>
        CRem(x, y) = 0 \/ (x > 0 /\ y > 0) \/ (x < 0 /\ y < 0)
  BY <1>1, <1>5 DEF Alike
<1> HIDE DEF u, v
<1>9. mod_int_tagged(u, v) = 2 * (x - Floor(x, y) * y) + 1
  BY <1>2, <1>4, <1>6, <1>7, <1>8 DEF CRem
<1> QED
  BY <1>9 DEF u, v

------------------------------------------------------------------------------
(* What a primitive returns for a call, against what INTEGER.sig says. *)
CallOf(op, rep, x, y) == [op |-> op, rep |-> rep, x |-> x, y |-> y]
Right(op, rep, x, y) ==
  LET c == CallOf(op, rep, x, y)
  IN Primitive(op, rep, Tag(rep, x), Tag(rep, y)) = Expected(c) <=> ~AtCorner(c)

(* The words of a number other than zero. *)
LEMMA Divisor ==
  ASSUME NEW rep \in Reps, NEW x \in NumbersOf(rep), NEW y \in NumbersOf(rep)
  PROVE  /\ x \in Int /\ y \in Int
         /\ Untag(rep, Tag(rep, x)) = x /\ Untag(rep, Tag(rep, y)) = y
         /\ Tag(rep, x) \in Int
  BY TagIs

(* A zero divisor raises Div. *)
LEMMA ByZero ==
  ASSUME NEW rep \in Reps, NEW op \in ArithOps(rep), NEW x \in NumbersOf(rep), 0 \in NumbersOf(rep)
  PROVE  Right(op, rep, x, 0)
<1> DEFINE c == CallOf(op, rep, x, 0)
<1>1. Expected(c) = Div /\ ~AtCorner(c)
  BY DEF Expected, AtCorner, CallOf
<1>2. Untag(rep, Tag(rep, 0)) = 0
  BY TagIs
<1>3. rep = "int_ub" => Tag(rep, 0) = 0
  BY TagIs DEF Tagged
<1>4. rep = "int_tagged" => Tag(rep, 0) = 1
  <2>1. 2 * 0 + 1 = 1
    OBVIOUS
  <2> QED
    BY <2>1, TagIs DEF Tagged
<1>5. Primitive(op, rep, Tag(rep, x), Tag(rep, 0)) = Div
  <2>1. CASE rep = "int_ub"
    BY <1>2, <1>3, <2>1
    DEF Primitive, ArithOps, Signed, div_int_ub, mod_int_ub, quot_int, rem_int
  <2>2. CASE rep = "int_tagged"
    BY <1>2, <1>4, <2>2
    DEF Primitive, ArithOps, Signed, div_int_tagged, mod_int_tagged, quot_int, rem_int
  <2>3. CASE rep = "word_ub" \/ rep = "word_tagged"
    BY <1>2, <2>3 DEF Primitive, ArithOps, Signed, div_word, mod_word
  <2> QED
    BY <2>1, <2>2, <2>3 DEF Reps
<1> QED
  BY <1>1, <1>5 DEF Right

(* Words without a sign: no corner, and every result has a word.           *)
LEMMA Unsigned ==
  ASSUME NEW rep \in {"word_ub", "word_tagged"}, NEW op \in {"div", "mod"},
         NEW x \in NumbersOf(rep), NEW y \in NumbersOf(rep), y # 0
  PROVE  Right(op, rep, x, y)
<1> DEFINE c == CallOf(op, rep, x, y)
<1>1. PICK n \in Nat : NumbersOf(rep) = 0..(n - 1)
  BY Ranges
<1>2. /\ rep \in Reps /\ x \in Nat /\ y \in Nat /\ x < n
      /\ Untag(rep, Tag(rep, x)) = x /\ Untag(rep, Tag(rep, y)) = y
  <2>1. rep \in Reps /\ x \in Nat /\ y \in Nat /\ x < n
    BY <1>1 DEF Reps
  <2> QED
    BY <2>1, TagIs
<1>3. Value(c) = IF op = "div" THEN x \div y ELSE x % y
  <2>1. Floor(x, y) = x \div y
    BY <1>2 DEF Floor
  <2>2. x - (x \div y) * y = x % y
    BY <1>2
  <2>3. Value(c) = IF op = "div" THEN Floor(x, y) ELSE x - Floor(x, y) * y
    BY DEF Value, CallOf
  <2> QED
    BY <2>1, <2>2, <2>3
<1>4. Value(c) \in NumbersOf(rep)
  <2>1. x \div y \in Nat /\ x \div y <= x
    <3>1. Quo(x, y) \in Nat /\ Quo(x, y) <= x
      BY <1>2, QuoBounds, QuoSmall
    <3> QED
      BY <3>1 DEF Quo
  <2>2. x % y \in Nat /\ x % y <= x
    BY <1>2
  <2> HIDE DEF c
  <2> QED
    BY <1>1, <1>2, <1>3, <2>1, <2>2
<1>5. Expected(c) = Tag(rep, Value(c)) /\ ~AtCorner(c)
  <2>1. c.y = y /\ c.rep = rep /\ c.op = op
    BY DEF CallOf
  <2> HIDE DEF c
  <2> QED
    BY <1>4, <2>1 DEF Expected, AtCorner, Signed
<1>6. Primitive(op, rep, Tag(rep, x), Tag(rep, y)) = Tag(rep, Value(c))
  <2> HIDE DEF c
  <2> QED
    BY <1>2, <1>3 DEF Primitive, Signed, div_word, mod_word
<1> QED
  BY <1>5, <1>6 DEF Right

(* What INTEGER.sig expects of signed words. *)
LEMMA SignedExpected ==
  ASSUME NEW rep \in {"int_ub", "int_tagged"}, NEW op \in {"div", "mod", "quot", "rem"},
         NEW x \in NumbersOf(rep), NEW y \in NumbersOf(rep), y # 0
  PROVE  LET c == CallOf(op, rep, x, y)
         IN /\ Value(c) = CASE op = "div" -> Floor(x, y)
                            [] op = "mod" -> x - Floor(x, y) * y
                            [] op = "quot" -> CDiv(x, y)
                            [] op = "rem" -> CRem(x, y)
            /\ IF op \in {"div", "quot"} /\ Corner(rep, x, y)
               THEN Expected(c) = Overflow
               ELSE Value(c) \in NumbersOf(rep) /\ Expected(c) = Tag(rep, Value(c))
            /\ AtCorner(c) <=> Corner(rep, x, y) /\ (op = "quot" \/ (op # "div" /\ rep = "int_ub"))
<1> DEFINE c == CallOf(op, rep, x, y)
<1>1. c.op = op /\ c.rep = rep /\ c.x = x /\ c.y = y
  BY DEF CallOf
<1>2. PICK h \in Nat : h > 1 /\ NumbersOf(rep) = (-h)..(h - 1) /\ MinOf(rep) = -h
  BY Ranges, WidthAssumption
<1>3. x \in (-h)..(h - 1) /\ y \in (-h)..(h - 1) /\ x \in Int /\ y \in Int
  BY <1>2
<1>4. Trunc(x, y) = CDiv(x, y)
  BY <1>3, TruncIs
<1>5. CDiv(x, y) \in Int
  BY <1>3, CDivIs
<1>6. x - CDiv(x, y) * y = CRem(x, y)
  BY <1>3, <1>5 DEF CRem
<1> HIDE DEF c
<1>7. Value(c) = CASE op = "div" -> Floor(x, y)
                   [] op = "mod" -> x - Floor(x, y) * y
                   [] op = "quot" -> CDiv(x, y)
                   [] op = "rem" -> CRem(x, y)
  BY <1>1, <1>4, <1>6 DEF Value
<1>8. AtCorner(c) <=> Corner(rep, x, y) /\ (op = "quot" \/ (op # "div" /\ rep = "int_ub"))
  BY <1>1 DEF AtCorner, Corner, Signed
<1>9. IF op \in {"div", "quot"} /\ Corner(rep, x, y)
      THEN Value(c) \notin NumbersOf(rep) ELSE Value(c) \in NumbersOf(rep)
  <2>1. /\ CRem(x, y) \in (-h)..(h - 1)
        /\ x - Floor(x, y) * y \in (-h)..(h - 1)
        /\ IF x = -h /\ y = -1
           THEN CDiv(x, y) = h /\ Floor(x, y) = h /\ CRem(x, y) = 0
           ELSE CDiv(x, y) \in (-h)..(h - 1) /\ Floor(x, y) \in (-h)..(h - 1)
    BY <1>2, <1>3, ResultsFit
  <2>2. h \notin (-h)..(h - 1)
    BY <1>2
  <2>3. Corner(rep, x, y) <=> x = -h /\ y = -1
    BY <1>2 DEF Corner
  <2> DEFINE R == (-h)..(h - 1)
  <2>4. NumbersOf(rep) = R
    BY <1>2
  <2> HIDE DEF R
  <2> QED
    BY <1>7, <2>1, <2>2, <2>3, <2>4 DEF R
<1>10. Expected(c) = IF Value(c) \notin NumbersOf(rep) THEN Overflow ELSE Tag(rep, Value(c))
  BY <1>1 DEF Expected
<1>11. IF op \in {"div", "quot"} /\ Corner(rep, x, y)
       THEN Expected(c) = Overflow
       ELSE Value(c) \in NumbersOf(rep) /\ Expected(c) = Tag(rep, Value(c))
  BY <1>9, <1>10
<1> QED
  BY <1>7, <1>8, <1>11 DEF c

(* Signed words, plain. *)
LEMMA PlainRight ==
  ASSUME NEW op \in {"div", "mod", "quot", "rem"},
         NEW x \in NumbersOf("int_ub"), NEW y \in NumbersOf("int_ub"), y # 0
  PROVE  Right(op, "int_ub", x, y)
<1> DEFINE c == CallOf(op, "int_ub", x, y)
           corner == Corner("int_ub", x, y)
<1>1. /\ "int_ub" \in Reps /\ ~Tagged("int_ub") /\ Signed("int_ub")
      /\ \A i \in NumbersOf("int_ub") : Tag("int_ub", i) = i /\ i \in Int
      /\ \A i : Tag("int_ub", i) = i /\ Untag("int_ub", i) = i
  BY TagIs DEF Reps, Tagged, Signed, Tag, Untag
<1>2. /\ Value(c) = CASE op = "div" -> Floor(x, y)
                      [] op = "mod" -> x - Floor(x, y) * y
                      [] op = "quot" -> CDiv(x, y)
                      [] op = "rem" -> CRem(x, y)
      /\ IF op \in {"div", "quot"} /\ corner
         THEN Expected(c) = Overflow
         ELSE Value(c) \in NumbersOf("int_ub") /\ Expected(c) = Tag("int_ub", Value(c))
      /\ AtCorner(c) <=> corner /\ (op = "quot" \/ op # "div")
  BY SignedExpected
<1>3. Faults(x, y) <=> corner
  BY Ranges DEF Faults, Corner
<1>4. Primitive(op, "int_ub", x, y) =
        CASE op = "div" -> IF corner THEN Overflow ELSE Floor(x, y)
          [] op = "mod" -> IF corner THEN Trap ELSE x - Floor(x, y) * y
          [] op = "quot" -> IF corner THEN Trap ELSE CDiv(x, y)
          [] op = "rem" -> IF corner THEN Trap ELSE CRem(x, y)
  <2>1. CASE op = "div"
    BY <1>1, <2>1, DivPlain DEF Primitive
  <2>2. CASE op = "mod"
    BY <1>1, <2>2, ModPlain DEF Primitive
  <2>3. CASE op = "quot"
    BY <1>1, <1>3, <2>3 DEF Primitive, quot_int
  <2>4. CASE op = "rem"
    BY <1>1, <1>3, <2>4 DEF Primitive, rem_int
  <2> QED
    BY <2>1, <2>2, <2>3, <2>4
<1>5. \A v \in Int : v # Trap /\ v # Overflow
  BY ExceptionsAssumption
<1>6. Expected(c) # Trap
  BY <1>1, <1>2, <1>5, ExceptionsAssumption
<1>7. Primitive(op, "int_ub", Tag("int_ub", x), Tag("int_ub", y)) = Expected(c) <=> ~AtCorner(c)
  <2> HIDE DEF c, corner
  <2> QED
    BY <1>1, <1>2, <1>4, <1>6
<1> QED
  BY <1>7 DEF Right

(* Signed words, tagged. *)
LEMMA TaggedRight ==
  ASSUME NEW op \in {"div", "mod", "quot", "rem"},
         NEW x \in NumbersOf("int_tagged"), NEW y \in NumbersOf("int_tagged"), y # 0
  PROVE  Right(op, "int_tagged", x, y)
<1> DEFINE c == CallOf(op, "int_tagged", x, y)
           corner == Corner("int_tagged", x, y)
           u == Tag("int_tagged", x)
           v == Tag("int_tagged", y)
<1>1. "int_tagged" \in Reps /\ Tagged("int_tagged") /\ Signed("int_tagged")
  BY DEF Reps, Tagged, Signed
<1>2. /\ u = 2 * x + 1 /\ v = 2 * y + 1
      /\ Untag("int_tagged", u) = x /\ Untag("int_tagged", v) = y
  BY <1>1, TagIs
<1>3. /\ Value(c) = CASE op = "div" -> Floor(x, y)
                      [] op = "mod" -> x - Floor(x, y) * y
                      [] op = "quot" -> CDiv(x, y)
                      [] op = "rem" -> CRem(x, y)
      /\ IF op \in {"div", "quot"} /\ corner
         THEN Expected(c) = Overflow
         ELSE Value(c) \in NumbersOf("int_tagged") /\ Expected(c) = Tag("int_tagged", Value(c))
      /\ AtCorner(c) <=> corner /\ op = "quot"
  BY SignedExpected
<1>4. ~Faults(x, y)
  BY Ranges, WidthAssumption DEF Faults
<1>5. Primitive(op, "int_tagged", u, v) =
        CASE op = "div" -> IF corner THEN Overflow ELSE 2 * Floor(x, y) + 1
          [] op = "mod" -> 2 * (x - Floor(x, y) * y) + 1
          [] op = "quot" -> Tag("int_tagged", CDiv(x, y))
          [] op = "rem" -> Tag("int_tagged", CRem(x, y))
  <2> HIDE DEF u, v
  <2>1. CASE op = "div"
    BY <1>1, <1>2, <2>1, DivTagged DEF Primitive
  <2>2. CASE op = "mod"
    BY <1>1, <1>2, <2>2, ModTagged DEF Primitive
  <2>3. CASE op = "quot"
    BY <1>2, <1>4, <2>3 DEF Primitive, quot_int
  <2>4. CASE op = "rem"
    BY <1>2, <1>4, <2>4 DEF Primitive, rem_int
  <2> QED
    BY <2>1, <2>2, <2>3, <2>4
<1>6. Value(c) \in NumbersOf("int_tagged") => Tag("int_tagged", Value(c)) = 2 * Value(c) + 1
  BY <1>1, TagIs
<1>7. Tag("int_tagged", CDiv(x, y)) # Overflow
  <2>1. x \in Int /\ y \in Int
    BY Ranges, WidthAssumption
  <2>2. CDiv(x, y) \in Int
    BY <2>1, CDivIs
  <2>3. \A n \in Int : Wrap(n) \in Int
    <3> SUFFICES ASSUME NEW n \in Int PROVE Wrap(n) \in Int
      OBVIOUS
    <3>1. n + Half \in Int /\ Half \in Int /\ Modulus \in Int /\ Modulus > 0
      BY Ranges
    <3>2. (n + Half) % Modulus \in Int
      BY <3>1
    <3> QED
      BY <3>1, <3>2 DEF Wrap
  <2>4. 2 * CDiv(x, y) + 1 \in Int
    BY <2>2
  <2> QED
    BY <1>1, <2>3, <2>4, ExceptionsAssumption DEF Tag
<1>8. Primitive(op, "int_tagged", u, v) = Expected(c) <=> ~AtCorner(c)
  <2> HIDE DEF c, corner, u, v
  <2> QED
    BY <1>3, <1>5, <1>6, <1>7
<1> QED
  BY <1>8 DEF Right

------------------------------------------------------------------------------
(* At every width: each primitive, in each representation, returns what    *)
(* INTEGER.sig says, and in the corner of minInt by ~1 quot, and mod and   *)
(* rem of plain words, return something else.                              *)
THEOREM DivisionsRight == ArithSpec => []DivisionsExact
<1> DEFINE CallInv == call # NoCall => (result = Expected(call) <=> ~AtCorner(call))
<1>1. ArithInit => CallInv
  BY DEF ArithInit
<1>2. CallInv /\ [ArithNext]_arithVars => CallInv'
  <2> SUFFICES ASSUME CallInv, [ArithNext]_arithVars PROVE CallInv'
    OBVIOUS
  <2>1. CASE UNCHANGED arithVars
    BY <2>1 DEF arithVars, Expected, AtCorner, Value
  <2>2. ASSUME NEW rep \in Reps, NEW op \in ArithOps(rep),
               NEW x \in NumbersOf(rep), NEW y \in NumbersOf(rep), Apply(op, rep, x, y)
        PROVE  CallInv'
    <3>1. call' = CallOf(op, rep, x, y) /\ result' = Primitive(op, rep, Tag(rep, x), Tag(rep, y))
      BY <2>2 DEF Apply, CallOf
    <3>2. Right(op, rep, x, y)
      <4>1. CASE y = 0
        BY <4>1, ByZero
      <4>2. CASE y # 0 /\ Signed(rep)
        BY <4>2, PlainRight, TaggedRight DEF ArithOps, Signed
      <4>3. CASE y # 0 /\ ~Signed(rep)
        BY <4>3, Unsigned DEF ArithOps, Signed, Reps
      <4> QED
        BY <4>1, <4>2, <4>3
    <3> QED
      BY <3>1, <3>2 DEF Right
  <2> QED
    BY <2>1, <2>2 DEF ArithNext
<1>3. CallInv => DivisionsExact
  BY DEF DivisionsExact
<1> QED
  BY <1>1, <1>2, <1>3, PTL DEF ArithSpec

------------------------------------------------------------------------------
(* The first address of a page; what is aligned.  Both hide a product.     *)
Start(page) == page * PAGE_SIZE
Aligned(n) == \E q \in Nat : n = q * Align

LEMMA HeapConstants ==
  /\ PAGE_SIZE \in Nat /\ PAGE_SIZE # 0 /\ Align \in Nat /\ Align # 0
  /\ Hdr \in Nat /\ Hdr # 0 /\ Pad \in Nat /\ Pad # 0 /\ Pad <= Align
  /\ Sizes \subseteq Nat \ {0} /\ Chunks \subseteq Nat \ {0} /\ 1 \in Chunks
  /\ HdrSize \in Nat /\ HdrSize # 0
BY XMallocAssumption DEF HdrSize

(* The pages one after the other. *)
LEMMA StartOf ==
  /\ \A q \in Nat : Start(q) \in Nat
  /\ \A q, r \in Nat : Start(q + r) = Start(q) + Start(r)
  /\ \A q, r \in Nat : q < r => Start(q) + PAGE_SIZE <= Start(r)
  /\ Start(0) = 0 /\ Start(1) = PAGE_SIZE
<1> DEFINE P == PAGE_SIZE
<1>1. P \in Nat /\ P # 0
  BY HeapConstants
<1> HIDE DEF P
<1>2. \A q \in Nat : q * P \in Nat
  BY <1>1
<1>3. \A q, r \in Nat : (q + r) * P = q * P + r * P
  BY <1>1
<1>4. ASSUME NEW q \in Nat, NEW r \in Nat, q < r PROVE q * P + P <= r * P
  <2>1. PICK k \in Nat : r = q + 1 + k
    <3>1. r - q - 1 \in Nat /\ r = q + 1 + (r - q - 1)
      BY <1>4
    <3> QED
      BY <3>1
  <2>2. r * P = q * P + P + k * P /\ k * P \in Nat /\ q * P \in Nat
    BY <1>1, <2>1
  <2> QED
    BY <1>1, <2>2
<1>5. 0 * P = 0 /\ 1 * P = P
  BY <1>1
<1> QED
  BY <1>2, <1>3, <1>4, <1>5 DEF Start, P

(* The page of an address is the one between whose ends it lies. *)
LEMMA PageIs ==
  /\ \A a \in Nat : /\ PageOf(a) \in Nat
                    /\ Start(PageOf(a)) <= a /\ a < Start(PageOf(a)) + PAGE_SIZE
  /\ \A a, q \in Nat : Start(q) <= a /\ a < Start(q) + PAGE_SIZE => PageOf(a) = q
<1>1. ASSUME NEW a \in Nat
      PROVE  /\ PageOf(a) \in Nat
             /\ Start(PageOf(a)) <= a /\ a < Start(PageOf(a)) + PAGE_SIZE
  <2>1. /\ Quo(a, PAGE_SIZE) \in Nat /\ PAGE_SIZE * Quo(a, PAGE_SIZE) <= a
        /\ a < PAGE_SIZE * Quo(a, PAGE_SIZE) + PAGE_SIZE
    BY HeapConstants, QuoBounds
  <2>2. PageOf(a) = Quo(a, PAGE_SIZE)
    BY DEF PageOf, Quo
  <2>3. Start(PageOf(a)) = PAGE_SIZE * PageOf(a)
    BY <2>1, <2>2, HeapConstants DEF Start
  <2> QED
    BY <2>1, <2>2, <2>3
<1>2. ASSUME NEW a \in Nat, NEW q \in Nat
      PROVE  Start(q) <= a /\ a < Start(q) + PAGE_SIZE => PageOf(a) = q
  <2>1. Start(q) = PAGE_SIZE * q
    BY HeapConstants DEF Start
  <2>2. Start(q) <= a /\ a < Start(q) + PAGE_SIZE => a \div PAGE_SIZE = q
    BY <2>1, HeapConstants, QuoUnique
  <2> QED
    BY <2>2 DEF PageOf
<1> QED
  BY <1>1, <1>2

(* The addresses of a page, and of pages in a row. *)
LEMMA PageStarts ==
  \A q \in Nat : PageOf(Start(q)) = q
<1> SUFFICES ASSUME NEW q \in Nat PROVE PageOf(Start(q)) = q
  OBVIOUS
<1>1. PICK s \in Nat : s = Start(q)
  BY StartOf
<1>2. s < s + PAGE_SIZE
  BY HeapConstants
<1> QED
  BY <1>1, <1>2, PageIs

LEMMA PageOrder ==
  ASSUME NEW a \in Nat, NEW b \in Nat, a <= b
  PROVE  PageOf(a) <= PageOf(b)
<1>1. SUFFICES ASSUME PageOf(b) < PageOf(a) PROVE FALSE
  BY PageIs
<1> DEFINE q == PageOf(a)
           r == PageOf(b)
<1>2. q \in Nat /\ r \in Nat /\ Start(q) <= a /\ b < Start(r) + PAGE_SIZE
  BY PageIs
<1>3. Start(r) + PAGE_SIZE <= Start(q)
  BY <1>1, <1>2, StartOf
<1>4. Start(q) \in Nat /\ Start(r) \in Nat /\ PAGE_SIZE \in Nat
  BY <1>2, StartOf, HeapConstants
<1> QED
  BY <1>2, <1>3, <1>4

LEMMA PagesInARow ==
  ASSUME NEW q \in Nat, NEW c \in Nat, c # 0
  PROVE  /\ \A a \in Nat : PageOf(a) \in q..(q + c - 1) <=> Start(q) <= a /\ a < Start(q) + Start(c)
         /\ PagesOf(Start(q), Start(c)) = q..(q + c - 1)
<1>1. PICK last \in Nat : last = q + c - 1 /\ last + 1 = q + c /\ q <= last
  <2>1. q + c - 1 \in Nat
    OBVIOUS
  <2> QED
    BY <2>1
<1>2. /\ Start(q) \in Nat /\ Start(c) \in Nat /\ Start(last) \in Nat
      /\ PAGE_SIZE \in Nat /\ PAGE_SIZE # 0 /\ PAGE_SIZE <= Start(c)
      /\ Start(last) + PAGE_SIZE = Start(q) + Start(c)
  <2>1. Start(last + 1) = Start(last) + Start(1) /\ Start(q + c) = Start(q) + Start(c)
    BY StartOf
  <2>2. c = 1 + (c - 1) /\ c - 1 \in Nat
    OBVIOUS
  <2>3. Start(c) = PAGE_SIZE + Start(c - 1) /\ Start(c - 1) \in Nat
    BY <2>2, StartOf
  <2> QED
    BY <1>1, <2>1, <2>3, StartOf, HeapConstants
<1>3. ASSUME NEW a \in Nat
      PROVE  PageOf(a) \in q..last <=> Start(q) <= a /\ a < Start(q) + Start(c)
  <2>1. PICK r \in Nat : r = PageOf(a) /\ Start(r) <= a /\ a < Start(r) + PAGE_SIZE
    BY PageIs
  <2>2. /\ Start(r) \in Nat
        /\ r < q => Start(r) + PAGE_SIZE <= Start(q)
        /\ q < r => Start(q) + PAGE_SIZE <= Start(r)
        /\ r < last => Start(r) + PAGE_SIZE <= Start(last)
        /\ last < r => Start(last) + PAGE_SIZE <= Start(r)
    BY StartOf
  <2>3. PICK s \in Nat, u \in Nat, v \in Nat, w \in Nat :
          s = Start(q) /\ u = Start(r) /\ v = Start(last) /\ w = Start(c)
    BY <1>2, <2>2
  <2>4. q <= r /\ r <= last <=> s <= a /\ a < s + w
    BY <1>2, <2>1, <2>2, <2>3
  <2> QED
    BY <2>1, <2>3, <2>4
<1>4. PageOf(Start(q) + Start(c) - 1) = last
  <2>1. /\ Start(q) + Start(c) - 1 \in Nat /\ Start(last) <= Start(q) + Start(c) - 1
        /\ Start(q) + Start(c) - 1 < Start(last) + PAGE_SIZE
    BY <1>2
  <2> QED
    BY <2>1, PageIs
<1>5. PageOf(Start(q)) = q
  BY PageStarts
<1> QED
  BY <1>1, <1>3, <1>4, <1>5 DEF PagesOf

(* align_up is the next multiple of the alignment. *)
LEMMA AlignUpIs ==
  ASSUME NEW n \in Nat
  PROVE  /\ AlignUp(n) \in Nat /\ Aligned(AlignUp(n))
         /\ n <= AlignUp(n) /\ AlignUp(n) < n + Align
<1> DEFINE q == Quo(n + Align - 1, Align)
<1>1. n + Align - 1 \in Nat
  BY HeapConstants
<1>2. q \in Nat /\ Align * q <= n + Align - 1 /\ n + Align - 1 < Align * q + Align
  BY <1>1, HeapConstants, QuoBounds
<1>3. AlignUp(n) = q * Align
  BY DEF AlignUp, Quo
<1> HIDE DEF q
<1>4. q * Align = Align * q /\ q * Align \in Nat
  BY <1>2, HeapConstants
<1> QED
  BY <1>2, <1>3, <1>4, HeapConstants DEF Aligned

LEMMA AlignUpUnique ==
  ASSUME NEW n \in Nat, NEW m \in Nat, Aligned(m), n <= m, m < n + Align
  PROVE  AlignUp(n) = m
<1>1. PICK q \in Nat : m = q * Align
  BY DEF Aligned
<1>2. n + Align - 1 \in Int /\ Align * q = m
  BY <1>1, HeapConstants
<1>3. Align * q <= n + Align - 1 /\ n + Align - 1 < Align * q + Align
  BY <1>2, HeapConstants
<1>4. (n + Align - 1) \div Align = q
  BY <1>2, <1>3, HeapConstants, QuoUnique
<1> QED
  BY <1>1, <1>4 DEF AlignUp

LEMMA AlignedSum ==
  ASSUME NEW m \in Nat, NEW n \in Nat, Aligned(m), Aligned(n)
  PROVE  Aligned(m + n)
<1>1. PICK q \in Nat, r \in Nat : m = q * Align /\ n = r * Align
  BY DEF Aligned
<1>2. m + n = (q + r) * Align /\ q + r \in Nat
  BY <1>1, HeapConstants
<1> QED
  BY <1>2 DEF Aligned

LEMMA Divides ==
  ASSUME NEW n \in Nat, n % Align = 0
  PROVE  Aligned(n)
<1>1. n = Align * Quo(n, Align) /\ Quo(n, Align) \in Nat
  BY HeapConstants DEF Quo
<1>2. Align * Quo(n, Align) = Quo(n, Align) * Align
  BY <1>1, HeapConstants
<1> QED
  BY <1>1, <1>2 DEF Aligned

LEMMA AlignedConstants ==
  Aligned(Hdr) /\ Aligned(Align) /\ \A q \in Nat : Aligned(Start(q))
<1>1. Aligned(Hdr) /\ Aligned(PAGE_SIZE)
  BY XMallocAssumption, HeapConstants, Divides
<1>2. Aligned(Align)
  <2>1. Align = 1 * Align
    BY HeapConstants
  <2> QED
    BY <2>1 DEF Aligned
<1>3. ASSUME NEW q \in Nat PROVE Aligned(Start(q))
  <2>1. PICK r \in Nat : PAGE_SIZE = r * Align
    BY <1>1 DEF Aligned
  <2>2. Start(q) = (q * r) * Align /\ q * r \in Nat
    BY <2>1, HeapConstants DEF Start
  <2> QED
    BY <2>2 DEF Aligned
<1> QED
  BY <1>1, <1>2, <1>3

(* What lies between a block and the object in it: the header and a pad    *)
(* that fills the alignment up.                                            *)
Room == Hdr + Align

LEMMA HeaderRoom ==
  /\ Room \in Nat /\ HdrSize <= Room /\ AlignUp(HdrSize) = Room
  /\ \A hdr \in Nat : Aligned(hdr) => DataBegin(hdr) = hdr + Room
<1>1. Room \in Nat /\ HdrSize <= Room /\ Room < HdrSize + Align /\ Aligned(Room)
  <2>1. Hdr + Pad <= Hdr + Align /\ Hdr + Align < Hdr + Pad + Align /\ Hdr + Align \in Nat
    BY HeapConstants
  <2>2. Aligned(Hdr + Align)
    BY AlignedConstants, AlignedSum, HeapConstants
  <2> QED
    BY <2>1, <2>2 DEF Room, HdrSize
<1>2. AlignUp(HdrSize) = Room
  BY <1>1, HeapConstants, AlignUpUnique
<1>3. ASSUME NEW hdr \in Nat, Aligned(hdr) PROVE DataBegin(hdr) = hdr + Room
  <2>1. Aligned(hdr + Room)
    BY <1>1, <1>3, AlignedSum
  <2>2. /\ hdr + HdrSize \in Nat /\ hdr + Room \in Nat
        /\ hdr + HdrSize <= hdr + Room /\ hdr + Room < hdr + HdrSize + Align
    BY <1>1, HeapConstants
  <2>3. AlignUp(hdr + HdrSize) = hdr + Room
    BY <2>1, <2>2, AlignUpUnique
  <2> QED
    BY <2>3 DEF DataBegin
<1> QED
  BY <1>1, <1>2, <1>3

(* Of some numbers one is the least. *)
LEMMA LeastNumber ==
  ASSUME NEW T, T \subseteq Nat, T # {}
  PROVE  \E x \in T : \A y \in T : x <= y
<1>1. PICK x \in T : \A y \in T : <<y, x>> \notin OpToRel(<, Nat)
  BY NatLessThanWellFounded, WFMin
<1>2. ASSUME NEW y \in T PROVE x <= y
  <2>1. <<y, x>> \in Nat \X Nat /\ x \in Nat /\ y \in Nat
    OBVIOUS
  <2>2. ~(y < x)
    BY <1>1, <2>1 DEF OpToRel
  <2> QED
    BY <2>1, <2>2
<1> QED
  BY <1>2

LEMMA MinIs ==
  ASSUME NEW T, T \subseteq Nat, T # {}
  PROVE  Min(T) \in T /\ \A y \in T : Min(T) <= y
<1>1. PICK x \in T : \A y \in T : x <= y
  BY LeastNumber
<1> QED
  BY <1>1 DEF Min

(* get_order: enough pages, and no more than that. *)
LEMMA ChunkIs ==
  ASSUME NEW n \in Nat, NEW c \in Chunks, n <= Start(c)
  PROVE  Chunk(n) \in Chunks /\ n <= Start(Chunk(n)) /\ Chunk(n) <= c
<1> DEFINE T == {d \in Chunks : d * PAGE_SIZE >= n}
<1>1. T \subseteq Nat /\ c \in T
  <2>1. c \in Nat /\ c * PAGE_SIZE = Start(c) /\ Start(c) \in Nat
    BY HeapConstants, StartOf DEF Start
  <2> QED
    BY <2>1, HeapConstants
<1>2. Chunk(n) = Min(T)
  BY DEF Chunk
<1>3. \A d \in T : d \in Chunks /\ Start(d) >= n
  BY DEF Start
<1> HIDE DEF T
<1>4. Min(T) \in T /\ Min(T) <= c
  BY <1>1, MinIs
<1>5. Start(Min(T)) \in Nat
  BY <1>1, <1>4, StartOf
<1> QED
  BY <1>2, <1>3, <1>4, <1>5

LEMMA ChunkOfChunk ==
  ASSUME NEW c \in Chunks
  PROVE  Chunk(Start(c)) = c
<1>1. c \in Nat /\ Start(c) \in Nat
  BY HeapConstants, StartOf
<1>2. PICK d \in Chunks : d = Chunk(Start(c)) /\ Start(c) <= Start(d) /\ d <= c
  <2>1. Start(c) <= Start(c)
    BY <1>1
  <2>2. /\ Chunk(Start(c)) \in Chunks /\ Start(c) <= Start(Chunk(Start(c)))
        /\ Chunk(Start(c)) <= c
    BY <1>1, <2>1, ChunkIs
  <2> QED
    BY <2>2
<1>3. d \in Nat /\ Start(d) \in Nat
  BY HeapConstants, StartOf
<1>4. ~(d < c)
  BY <1>1, <1>2, <1>3, StartOf, HeapConstants
<1> QED
  BY <1>1, <1>2, <1>3, <1>4

------------------------------------------------------------------------------
(* The inductive invariant.  A block is small, within one page, or whole   *)
(* pages; the blocks hold each address of the pages owned, once; those of  *)
(* the list are free and small, the others hold one object each.           *)
Small(f, h) == f[h] < PAGE_SIZE /\ h + f[h] <= Start(PageOf(h)) + PAGE_SIZE
Whole(f, h) == \E base \in Nat, c \in Chunks : h = Start(base) /\ f[h] = Start(c)
Holds(f, h, a) == h <= a /\ a < h + f[h]

BlocksOk(f) ==
  /\ f \in [DOMAIN f -> Nat]
  /\ \A h \in DOMAIN f : /\ h \in Nat /\ Aligned(h) /\ f[h] \in Nat /\ f[h] # 0
                         /\ Small(f, h) \/ Whole(f, h)
Apart(f) == \A h, k \in DOMAIN f : h < k => h + f[h] <= k
Covers(f, pages) ==
  /\ pages \subseteq Nat
  /\ \A a \in Nat : PageOf(a) \in pages <=> \E h \in DOMAIN f : Holds(f, h, a)
Tiling(f, pages) == BlocksOk(f) /\ Apart(f) /\ Covers(f, pages)

(* A list of some addresses, each once. *)
Lists(s, T) == s \in Seq(Nat) /\ Range(s) = T /\ IsInjective(s)

Headers == {used[p].hdr : p \in DOMAIN used}
FreeBlocks == Range(freelist)
ListOk ==
  /\ Lists(freelist, FreeBlocks)
  /\ DOMAIN size = FreeBlocks \union Headers /\ FreeBlocks \intersect Headers = {}
  /\ \A h \in FreeBlocks : Small(size, h)
Objects ==
  \A p \in DOMAIN used :
    LET u == used[p]
    IN /\ u \in [hdr : Nat, asked : Nat \ {0}]
       /\ p = u.hdr + Room /\ p + u.asked <= u.hdr + size[u.hdr]

(* Free blocks of a page are not neighbours: the one pass of xfree has     *)
(* merged them, unless realloc put one next to another.                    *)
NoNeighbours ==
  ~cut => \A h, k \in FreeBlocks : h + size[h] = k => PageOf(h) # PageOf(k)

HeapInv == cut \in BOOLEAN /\ Tiling(size, owned) /\ ListOk /\ Objects /\ NoNeighbours

(* The pages of a block are those of its addresses. *)
LEMMA PagesOfBlock ==
  ASSUME NEW f, BlocksOk(f), NEW h \in DOMAIN f
  PROVE  /\ PagesOf(h, f[h]) \subseteq Nat
         /\ \A a \in Nat : Holds(f, h, a) => PageOf(a) \in PagesOf(h, f[h])
         /\ \A q \in PagesOf(h, f[h]) : \E a \in Nat : Holds(f, h, a) /\ PageOf(a) = q
<1>1. /\ h \in Nat /\ f[h] \in Nat /\ f[h] # 0 /\ h + f[h] - 1 \in Nat
      /\ h <= h + f[h] - 1 /\ Holds(f, h, h)
  BY DEF BlocksOk, Holds
<1>2. PageOf(h) \in Nat /\ PageOf(h + f[h] - 1) \in Nat
  BY <1>1, PageIs
<1>3. ASSUME NEW a \in Nat, Holds(f, h, a)
      PROVE  PageOf(a) \in PagesOf(h, f[h])
  <2>1. h <= a /\ a <= h + f[h] - 1
    BY <1>1, <1>3 DEF Holds
  <2>2. PageOf(h) <= PageOf(a) /\ PageOf(a) <= PageOf(h + f[h] - 1) /\ PageOf(a) \in Nat
    BY <1>1, <2>1, PageOrder, PageIs
  <2> QED
    BY <1>2, <2>2 DEF PagesOf
<1>4. ASSUME NEW q \in PagesOf(h, f[h])
      PROVE  \E a \in Nat : Holds(f, h, a) /\ PageOf(a) = q
  <2>1. q \in Nat /\ PageOf(h) <= q /\ q <= PageOf(h + f[h] - 1)
    BY <1>2 DEF PagesOf
  <2>2. CASE Small(f, h)
    <3>1. PICK s \in Nat : s = Start(PageOf(h)) /\ s <= h
      BY <1>1, <1>2, PageIs, StartOf
    <3>2. s <= h + f[h] - 1 /\ h + f[h] - 1 < s + PAGE_SIZE
      BY <1>1, <2>2, <3>1, HeapConstants DEF Small
    <3>3. PageOf(h + f[h] - 1) = PageOf(h)
      BY <1>1, <1>2, <3>1, <3>2, PageIs
    <3> QED
      BY <1>1, <1>2, <2>1, <3>3
  <2>3. CASE Whole(f, h)
    <3>1. PICK base \in Nat, c \in Chunks : h = Start(base) /\ f[h] = Start(c)
      BY <2>3 DEF Whole
    <3>2. \A a \in Nat : PageOf(a) \in PagesOf(h, f[h]) <=> h <= a /\ a < h + f[h]
      <4>1. c \in Nat /\ c # 0
        BY HeapConstants
      <4> QED
        BY <3>1, <4>1, PagesInARow
    <3>3. Start(q) \in Nat /\ PageOf(Start(q)) = q
      BY <2>1, StartOf, PageStarts
    <3> QED
      BY <1>4, <3>2, <3>3 DEF Holds
  <2> QED
    BY <2>2, <2>3 DEF BlocksOk
<1> QED
  BY <1>2, <1>3, <1>4 DEF PagesOf

LEMMA HeapInvSound == HeapInv => HeapSound
<1> SUFFICES ASSUME HeapInv PROVE HeapSound
  OBVIOUS
<1> USE DEF HeapInv, Tiling
<1>1. ASSUME NEW page \in owned, NEW a \in (page * PAGE_SIZE)..((page + 1) * PAGE_SIZE - 1)
      PROVE  \E h \in DOMAIN size : a \in h..(h + size[h] - 1)
  <2>1. page \in Nat
    BY DEF Covers
  <2>2. page * PAGE_SIZE = Start(page) /\ (page + 1) * PAGE_SIZE = Start(page) + PAGE_SIZE
    <3>1. Start(page + 1) = Start(page) + PAGE_SIZE
      BY <2>1, StartOf
    <3> QED
      BY <3>1 DEF Start
  <2>3. a \in Nat /\ Start(page) <= a /\ a < Start(page) + PAGE_SIZE
    <3>1. PICK s \in Nat : s = Start(page)
      BY <2>1, StartOf
    <3>2. page * PAGE_SIZE = s /\ (page + 1) * PAGE_SIZE = s + PAGE_SIZE
      BY <2>2, <3>1
    <3>3. a \in Int /\ page * PAGE_SIZE <= a /\ a <= (page + 1) * PAGE_SIZE - 1
      BY <2>1, HeapConstants
    <3> QED
      BY <3>1, <3>2, <3>3, HeapConstants
  <2>4. PICK h \in DOMAIN size : Holds(size, h, a)
    BY <2>1, <2>3, PageIs DEF Covers
  <2>5. h \in Nat /\ size[h] \in Nat
    BY DEF BlocksOk
  <2> QED
    BY <2>3, <2>4, <2>5 DEF Holds
<1>2. ASSUME NEW h \in DOMAIN size PROVE PagesOf(h, size[h]) \subseteq owned
  BY PagesOfBlock DEF Covers
<1>3. BlocksTile
  <2>1. \A h, k \in DOMAIN size : h < k => h + size[h] <= k
    BY DEF Apart
  <2>2. DOMAIN size = Range(freelist) \union {used[p].hdr : p \in DOMAIN used}
    BY DEF ListOk, FreeBlocks, Headers
  <2>3. \A h \in Range(freelist) : ~Used(h)
    BY DEF ListOk, FreeBlocks, Headers, Used
  <2>4. IsInjective(freelist)
    BY DEF ListOk, Lists
  <2> QED
    BY <1>1, <1>2, <2>1, <2>2, <2>3, <2>4 DEF BlocksTile
<1>4. ASSUME NEW p \in DOMAIN used
      PROVE  /\ used[p].hdr + HdrSize <= p /\ p + used[p].asked <= used[p].hdr + size[used[p].hdr]
             /\ OnSamePage(p)
  <2> DEFINE h == used[p].hdr
  <2>1. h \in DOMAIN size
    BY DEF ListOk, Headers
  <2>2. h \in Nat /\ size[h] \in Nat /\ (Small(size, h) \/ Whole(size, h))
    BY <2>1 DEF BlocksOk
  <2>3. /\ p = h + Room /\ used[p].asked \in Nat /\ used[p].asked # 0
        /\ p + used[p].asked <= h + size[h]
    BY DEF Objects
  <2>4. used[p].hdr + HdrSize <= p /\ p \in Nat /\ h <= p /\ p < h + size[h]
    BY <2>2, <2>3, HeaderRoom, HeapConstants
  <2>5. OnSamePage(p)
    <3>1. CASE Small(size, h)
      <4>1. PICK s \in Nat : s = Start(PageOf(h)) /\ s <= h
        BY <2>2, PageIs, StartOf
      <4>2. s <= p /\ p < s + PAGE_SIZE
        BY <2>2, <2>4, <3>1, <4>1, HeapConstants DEF Small
      <4>3. PageOf(p) = PageOf(h)
        BY <2>2, <2>4, <4>1, <4>2, PageIs
      <4> QED
        BY <4>3 DEF OnSamePage
    <3>2. CASE Whole(size, h)
      <4>1. PICK c \in Chunks : size[h] = Start(c)
        BY <3>2 DEF Whole
      <4>2. c = 1 + (c - 1) /\ c - 1 \in Nat
        BY HeapConstants
      <4>3. Start(c) = PAGE_SIZE + Start(c - 1) /\ Start(c - 1) \in Nat
        BY <4>2, StartOf
      <4> QED
        BY <4>1, <4>3, HeapConstants DEF OnSamePage
    <3> QED
      BY <2>2, <3>1, <3>2
  <2> QED
    BY <2>3, <2>4, <2>5
<1> QED
  BY <1>3, <1>4 DEF HeapSound, ObjectsInBlocks, HeaderOnSamePage

LEMMA HeapInvEmpty == HeapInv => EmptyPagesReturned
<1> SUFFICES ASSUME HeapInv, ~cut, NEW page \in owned,
                    \A p \in DOMAIN used : page \notin PagesOf(used[p].hdr, size[used[p].hdr])
             PROVE  FALSE
  BY DEF EmptyPagesReturned
<1> USE DEF HeapInv, Tiling
<1>1. /\ page \in Nat /\ Start(page) \in Nat /\ PAGE_SIZE \in Nat
      /\ \A a \in Nat : PageOf(a) = page => \E h \in DOMAIN size : Holds(size, h, a)
  BY StartOf, HeapConstants DEF Covers
<1>2. \A h \in DOMAIN size : h \in Nat /\ size[h] \in Nat /\ size[h] # 0
  BY DEF BlocksOk
<1>3. ASSUME NEW a \in Nat, PageOf(a) = page, NEW h \in DOMAIN size, Holds(size, h, a)
      PROVE  h \in FreeBlocks /\ Small(size, h) /\ PageOf(h) = page
  <2>1. page \in PagesOf(h, size[h])
    BY <1>3, PagesOfBlock
  <2>2. h \in FreeBlocks /\ Small(size, h)
    BY <2>1 DEF ListOk, Headers
  <2>3. PICK s \in Nat : s = Start(PageOf(h)) /\ s <= h
    BY <1>2, PageIs, StartOf
  <2>4. s <= a /\ a < s + PAGE_SIZE
    BY <1>1, <1>2, <1>3, <2>2, <2>3 DEF Holds, Small
  <2>5. PageOf(a) = PageOf(h)
    BY <1>2, <2>3, <2>4, PageIs
  <2> QED
    BY <1>3, <2>2, <2>5
<1>4. PICK h \in DOMAIN size : Holds(size, h, Start(page))
  BY <1>1, PageStarts
<1>5. h \in FreeBlocks /\ Small(size, h) /\ PageOf(h) = page
  BY <1>1, <1>3, <1>4, PageStarts
<1>6. h = Start(page)
  BY <1>1, <1>2, <1>4, <1>5, PageIs DEF Holds
<1> DEFINE next == h + size[h]
<1>7. next \in Nat /\ next - 1 \in Nat /\ Holds(size, h, next - 1) /\ ~Holds(size, h, next) /\ PageOf(next) = page
  <2>1. next \in Nat /\ Start(page) <= next /\ next < Start(page) + PAGE_SIZE
    BY <1>1, <1>2, <1>5, <1>6 DEF Small
  <2>2. PageOf(next) = page
    BY <1>1, <2>1, PageIs
  <2> QED
    BY <1>2, <2>1, <2>2 DEF Holds
<1>8. PICK k \in DOMAIN size : Holds(size, k, next)
  BY <1>1, <1>7
<1>9. k \in FreeBlocks /\ Small(size, k) /\ PageOf(k) = page
  BY <1>3, <1>7, <1>8
<1>10. k = next
  <2>1. (h < k => h + size[h] <= k) /\ (k < h => k + size[k] <= h) /\ k # h
    BY <1>7, <1>8 DEF Apart
  <2>2. h \in Nat /\ k \in Nat /\ size[h] \in Nat /\ size[k] \in Nat
    BY <1>2
  <2> QED
    BY <1>8, <2>1, <2>2 DEF Holds
<1> QED
  BY <1>5, <1>9, <1>10 DEF NoNeighbours

------------------------------------------------------------------------------
(* The free list, as it grows and shrinks.                                 *)
LEMMA ListEmpty == Lists(<< >>, {})
BY EmptySeq DEF Lists, Range, IsInjective

LEMMA ListCons ==
  ASSUME NEW s, NEW T, Lists(s, T), NEW x \in Nat, x \notin T
  PROVE  Lists(<<x>> \o s, T \union {x})
<1> DEFINE t == <<x>> \o s
<1>1. s \in Seq(Nat) /\ Range(s) = T /\ IsInjective(s) /\ <<x>> \in Seq(Nat)
      /\ Len(<<x>>) = 1 /\ <<x>>[1] = x /\ Len(s) \in Nat /\ DOMAIN s = 1..Len(s)
  BY DEF Lists
<1>2. /\ t \in Seq(Nat) /\ Len(t) = 1 + Len(s) /\ DOMAIN t = 1..(1 + Len(s))
      /\ t[1] = x /\ \A i \in 2..(1 + Len(s)) : i - 1 \in DOMAIN s /\ t[i] = s[i - 1]
  BY <1>1, ConcatProperties
<1> HIDE DEF t
<1>3. Range(t) = T \union {x}
  <2>1. \A i \in DOMAIN s : i + 1 \in 2..(1 + Len(s)) /\ t[i + 1] = s[i] /\ i + 1 \in DOMAIN t
    BY <1>1, <1>2
  <2>2. \A i \in DOMAIN t : i = 1 \/ i \in 2..(1 + Len(s))
    BY <1>1, <1>2
  <2>3. 1 \in DOMAIN t
    BY <1>1, <1>2
  <2>4. ASSUME NEW i \in DOMAIN t PROVE t[i] \in T \union {x}
    <3>1. i = 1 \/ (i - 1 \in DOMAIN s /\ t[i] = s[i - 1])
      BY <1>2, <2>2
    <3> QED
      BY <1>1, <1>2, <3>1 DEF Range
  <2>5. ASSUME NEW y \in T PROVE \E i \in DOMAIN t : t[i] = y
    <3>1. PICK i \in DOMAIN s : s[i] = y
      BY <1>1 DEF Range
    <3> QED
      BY <2>1, <3>1
  <2>6. Range(t) \subseteq T \union {x}
    BY <2>4 DEF Range
  <2>7. T \subseteq Range(t)
    BY <2>5 DEF Range
  <2>8. x \in Range(t)
    BY <1>2, <2>3 DEF Range
  <2> QED
    BY <2>6, <2>7, <2>8
<1>4. IsInjective(t)
  <2> SUFFICES ASSUME NEW i \in DOMAIN t, NEW j \in DOMAIN t, t[i] = t[j]
               PROVE  i = j
    BY DEF IsInjective
  <2>1. \A k \in 2..(1 + Len(s)) : t[k] \in T
    BY <1>1, <1>2 DEF Range
  <2>2. CASE i = 1 \/ j = 1
    BY <1>1, <1>2, <2>1, <2>2
  <2>3. CASE i # 1 /\ j # 1
    <3>1. i \in 2..(1 + Len(s)) /\ j \in 2..(1 + Len(s))
      BY <1>1, <1>2, <2>3
    <3>2. i - 1 \in DOMAIN s /\ j - 1 \in DOMAIN s /\ s[i - 1] = s[j - 1]
      BY <1>2, <3>1
    <3>3. i - 1 = j - 1
      BY <1>1, <3>2 DEF IsInjective
    <3> QED
      BY <3>1, <3>3
  <2> QED
    BY <2>2, <2>3
<1> QED
  BY <1>2, <1>3, <1>4 DEF Lists, t

LEMMA ListAppend ==
  ASSUME NEW s, NEW T, Lists(s, T), NEW x \in Nat, x \notin T
  PROVE  Lists(Append(s, x), T \union {x})
<1> DEFINE t == Append(s, x)
<1>1. s \in Seq(Nat) /\ Range(s) = T /\ IsInjective(s)
      /\ Len(s) \in Nat /\ DOMAIN s = 1..Len(s)
  BY DEF Lists
<1>2. /\ t \in Seq(Nat) /\ Len(t) = Len(s) + 1 /\ DOMAIN t = 1..(Len(s) + 1)
      /\ t[Len(s) + 1] = x /\ \A i \in 1..Len(s) : t[i] = s[i]
  BY <1>1
<1> HIDE DEF t
<1>3. \A i \in DOMAIN t : i = Len(s) + 1 \/ i \in DOMAIN s
  BY <1>1, <1>2
<1>4. DOMAIN s \subseteq DOMAIN t /\ Len(s) + 1 \in DOMAIN t
  BY <1>1, <1>2
<1>5. Range(t) = T \union {x}
  BY <1>1, <1>2, <1>3, <1>4 DEF Range
<1>6. IsInjective(t)
  <2>1. \A i \in DOMAIN s : t[i] = s[i] /\ t[i] \in T
    BY <1>1, <1>2 DEF Range
  <2> QED
    BY <1>1, <1>2, <1>3, <2>1 DEF IsInjective
<1> QED
  BY <1>2, <1>5, <1>6 DEF Lists, t

LEMMA ListRemove ==
  ASSUME NEW s, NEW T, Lists(s, T), NEW k \in 1..Len(s)
  PROVE  Lists(RemoveAt(s, k), T \ {s[k]})
<1> DEFINE u == SubSeq(s, 1, k - 1)
           v == SubSeq(s, k + 1, Len(s))
           t == u \o v
           from(i) == IF i < k THEN i ELSE i + 1
<1>1. s \in Seq(Nat) /\ Range(s) = T /\ IsInjective(s)
      /\ Len(s) \in Nat /\ DOMAIN s = 1..Len(s) /\ \A i \in 1..Len(s) : s[i] \in Nat
  BY DEF Lists
<1>2. /\ u \in Seq(Nat) /\ Len(u) = k - 1 /\ \A i \in 1..(k - 1) : u[i] = s[i]
  BY <1>1, SubSeqProperties
<1>3. /\ v \in Seq(Nat) /\ Len(v) = Len(s) - k
      /\ \A i \in 1..(Len(s) - k) : v[i] = s[k + i]
  <2>1. \A i \in (k + 1)..Len(s) : s[i] \in Nat
    BY <1>1
  <2>2. k + 1 \in Int /\ Len(s) \in Int
    BY <1>1
  <2>3. /\ v \in Seq(Nat)
        /\ Len(v) = IF k + 1 <= Len(s) THEN Len(s) - (k + 1) + 1 ELSE 0
        /\ \A i \in 1..(Len(s) - (k + 1) + 1) : v[i] = s[(k + 1) + i - 1]
    BY <2>1, <2>2, SubSeqProperties
  <2> HIDE DEF v
  <2>4. Len(v) = Len(s) - k
    <3>1. PICK n \in Nat : n = Len(s)
      BY <1>1
    <3>2. Len(v) = IF k + 1 <= n THEN n - (k + 1) + 1 ELSE 0
      BY <2>3, <3>1
    <3>3. k \in 1..n
      BY <3>1
    <3> QED
      BY <3>1, <3>2, <3>3
  <2>5. ASSUME NEW i \in 1..(Len(s) - k) PROVE v[i] = s[k + i]
    <3>1. i \in 1..(Len(s) - (k + 1) + 1) /\ (k + 1) + i - 1 = k + i
      BY <1>1
    <3>2. v[i] = s[(k + 1) + i - 1]
      BY <2>3, <3>1
    <3> QED
      BY <3>1, <3>2
  <2> QED
    BY <2>3, <2>4, <2>5
<1> HIDE DEF u, v
<1>4. /\ t \in Seq(Nat) /\ Len(t) = Len(s) - 1 /\ DOMAIN t = 1..(Len(s) - 1)
      /\ \A i \in 1..(Len(s) - 1) : t[i] = s[from(i)]
  <2>1. /\ t \in Seq(Nat) /\ Len(t) = Len(u) + Len(v)
        /\ \A i \in 1..(Len(u) + Len(v)) : t[i] = IF i <= Len(u) THEN u[i] ELSE v[i - Len(u)]
    BY <1>2, <1>3, ConcatProperties
  <2> HIDE DEF t
  <2>2. \A i \in 1..(Len(s) - 1) : t[i] = s[from(i)]
    <3> SUFFICES ASSUME NEW i \in 1..(Len(s) - 1) PROVE t[i] = s[from(i)]
      OBVIOUS
    <3>0. i \in Nat /\ i \in 1..(Len(u) + Len(v)) /\ Len(u) = k - 1
      BY <1>1, <1>2, <1>3
    <3>1. CASE i < k
      <4>1. i <= Len(u) /\ i \in 1..(k - 1) /\ from(i) = i
        BY <3>0, <3>1
      <4> HIDE DEF from
      <4>2. t[i] = u[i] /\ u[i] = s[i]
        BY <1>2, <2>1, <3>0, <4>1
      <4> QED
        BY <4>1, <4>2
    <3>2. CASE ~(i < k)
      <4>1. /\ ~(i <= Len(u)) /\ i - Len(u) \in 1..(Len(s) - k)
            /\ k + (i - Len(u)) = i + 1 /\ from(i) = i + 1
        BY <1>1, <3>0, <3>2
      <4> HIDE DEF from
      <4>2. t[i] = v[i - Len(u)] /\ v[i - Len(u)] = s[k + (i - Len(u))]
        BY <1>3, <2>1, <3>0, <4>1
      <4> QED
        BY <4>1, <4>2
    <3> QED
      BY <3>1, <3>2
  <2> QED
    BY <1>1, <1>2, <1>3, <2>1, <2>2
<1> HIDE DEF t
<1>5. \A i \in DOMAIN t : from(i) \in DOMAIN s /\ from(i) # k
  <2> SUFFICES ASSUME NEW i \in 1..(Len(s) - 1) PROVE from(i) \in 1..Len(s) /\ from(i) # k
    BY <1>1, <1>4
  <2> QED
    BY <1>1
<1>6. \A j \in DOMAIN s : j # k => \E i \in DOMAIN t : from(i) = j
  <2> SUFFICES ASSUME NEW j \in DOMAIN s, j # k PROVE \E i \in DOMAIN t : from(i) = j
    OBVIOUS
  <2> DEFINE i == IF j < k THEN j ELSE j - 1
  <2>1. i \in DOMAIN t /\ from(i) = j
    BY <1>1, <1>4
  <2> QED
    BY <2>1
<1>7. \A i, j \in DOMAIN t : from(i) = from(j) => i = j
  BY <1>4
<1>8. \A i \in DOMAIN t : t[i] = s[from(i)]
  BY <1>4
<1> HIDE DEF from
<1>9. Range(t) = T \ {s[k]}
  <2>1. k \in DOMAIN s
    BY <1>1
  <2>2. \A i \in DOMAIN s : s[i] = s[k] => i = k
    BY <1>1, <2>1 DEF IsInjective
  <2> QED
    BY <1>1, <1>5, <1>6, <1>8, <2>1, <2>2 DEF Range
<1>10. IsInjective(t)
  BY <1>1, <1>5, <1>7, <1>8 DEF IsInjective
<1> QED
  BY <1>4, <1>9, <1>10 DEF Lists, RemoveAt, t, u, v

------------------------------------------------------------------------------
(* The tiling, as blocks are added, cut, merged and given back.            *)
LEMMA PutIs ==
  ASSUME NEW f, NEW x, NEW y
  PROVE  /\ DOMAIN Put(f, x, y) = DOMAIN f \union {x} /\ Put(f, x, y)[x] = y
         /\ \A z \in DOMAIN f : z # x => Put(f, x, y)[z] = f[z]
BY DEF Put

LEMMA DropIs ==
  ASSUME NEW f, NEW S
  PROVE  /\ DOMAIN Drop(f, S) = DOMAIN f \ S
         /\ \A z \in DOMAIN f : z \notin S => Drop(f, S)[z] = f[z]
BY DEF Drop

LEMMA PutPut ==
  ASSUME NEW f, NEW x, NEW y, NEW z
  PROVE  Put(Put(f, x, y), x, z) = Put(f, x, z)
BY DEF Put

LEMMA PutSame ==
  ASSUME NEW f, f \in [DOMAIN f -> Nat], NEW x \in DOMAIN f
  PROVE  Put(f, x, f[x]) = f
<1>1. DOMAIN f \union {x} = DOMAIN f
  OBVIOUS
<1> QED
  BY <1>1 DEF Put

LEMMA BlockTyped ==
  ASSUME NEW f, BlocksOk(f), NEW h \in DOMAIN f
  PROVE  h \in Nat /\ f[h] \in Nat /\ f[h] # 0
BY DEF BlocksOk

(* No address is in two blocks. *)
LEMMA HeldOnce ==
  ASSUME NEW f, BlocksOk(f), Apart(f), NEW h \in DOMAIN f, NEW k \in DOMAIN f,
         NEW a \in Nat, Holds(f, h, a), Holds(f, k, a)
  PROVE  h = k
<1>1. h \in Nat /\ k \in Nat /\ f[h] \in Nat /\ f[k] \in Nat
  BY BlockTyped
<1>2. (h < k => h + f[h] <= k) /\ (k < h => k + f[k] <= h)
  BY DEF Apart
<1> QED
  BY <1>1, <1>2 DEF Holds

(* Blocks of which none holds an address of another are apart. *)
LEMMA ApartIf ==
  ASSUME NEW f, BlocksOk(f),
         \A h, k \in DOMAIN f, a \in Nat : Holds(f, h, a) /\ Holds(f, k, a) => h = k
  PROVE  Apart(f)
<1> SUFFICES ASSUME NEW h \in DOMAIN f, NEW k \in DOMAIN f, h < k PROVE h + f[h] <= k
  BY DEF Apart
<1>1. h \in Nat /\ k \in Nat /\ f[h] \in Nat /\ f[k] \in Nat /\ f[k] # 0
  BY BlockTyped
<1>2. Holds(f, k, k)
  BY <1>1 DEF Holds
<1>3. ~Holds(f, h, k)
  BY <1>1, <1>2
<1> QED
  BY <1>1, <1>3 DEF Holds

(* Blocks G give way to one, that holds just what they held. *)
LEMMA TilingMerge ==
  ASSUME NEW f, NEW pages, Tiling(f, pages), NEW G, G \subseteq DOMAIN f,
         NEW x \in G, NEW n \in Nat, n # 0,
         \A a \in Nat : (x <= a /\ a < x + n) <=> \E h \in G : Holds(f, h, a),
         \/ n < PAGE_SIZE /\ x + n <= Start(PageOf(x)) + PAGE_SIZE
         \/ \E base \in Nat, c \in Chunks : x = Start(base) /\ n = Start(c)
  PROVE  Tiling(Put(Drop(f, G), x, n), pages)
<1> DEFINE g == Put(Drop(f, G), x, n)
<1>1. /\ DOMAIN g = (DOMAIN f \ G) \union {x} /\ g[x] = n
      /\ \A h \in DOMAIN f \ G : g[h] = f[h]
  BY DEF Put, Drop
<1>2. g = [h \in DOMAIN g |-> g[h]]
  BY DEF Put
<1> HIDE DEF g
<1> USE DEF Tiling
<1>3. \A h \in DOMAIN f : h \in Nat /\ f[h] \in Nat /\ f[h] # 0
  BY BlockTyped
<1>4. BlocksOk(g)
  <2>1. ASSUME NEW h \in DOMAIN g
        PROVE  /\ h \in Nat /\ Aligned(h) /\ g[h] \in Nat /\ g[h] # 0
               /\ Small(g, h) \/ Whole(g, h)
    <3>1. CASE h \in DOMAIN f \ G
      BY <1>1, <3>1 DEF BlocksOk, Small, Whole
    <3>2. CASE h = x
      <4>1. x \in Nat /\ Aligned(x)
        BY DEF BlocksOk
      <4> QED
        BY <1>1, <3>2, <4>1 DEF Small, Whole
    <3> QED
      BY <1>1, <3>1, <3>2
  <2>2. g \in [DOMAIN g -> Nat]
    BY <1>2, <2>1
  <2> QED
    BY <2>1, <2>2 DEF BlocksOk
<1>5. ASSUME NEW h \in DOMAIN g, NEW a \in Nat
      PROVE  Holds(g, h, a) <=> \/ h \in DOMAIN f \ G /\ Holds(f, h, a)
                                \/ h = x /\ \E k \in G : Holds(f, k, a)
  BY <1>1 DEF Holds
<1>6. Apart(g)
  <2> SUFFICES ASSUME NEW h \in DOMAIN g, NEW k \in DOMAIN g, NEW a \in Nat,
                      Holds(g, h, a), Holds(g, k, a)
               PROVE  h = k
    BY <1>4, ApartIf
  <2>0. ASSUME NEW b \in DOMAIN g, Holds(g, b, a)
        PROVE  \E i \in DOMAIN f : Holds(f, i, a) /\ ((i = b /\ i \notin G) \/ (b = x /\ i \in G))
    <3>1. CASE b \in DOMAIN f \ G /\ Holds(f, b, a)
      BY <3>1
    <3>2. CASE b = x /\ \E i \in G : Holds(f, i, a)
      BY <3>2
    <3> QED
      BY <1>5, <2>0, <3>1, <3>2
  <2>1. PICK i \in DOMAIN f : Holds(f, i, a) /\ ((i = h /\ i \notin G) \/ (h = x /\ i \in G))
    BY <2>0
  <2>2. PICK j \in DOMAIN f : Holds(f, j, a) /\ ((j = k /\ j \notin G) \/ (k = x /\ j \in G))
    BY <2>0
  <2>3. i = j
    BY <2>1, <2>2, HeldOnce
  <2> QED
    BY <2>1, <2>2, <2>3
<1>7. \A a \in Nat : (\E h \in DOMAIN g : Holds(g, h, a)) <=> \E h \in DOMAIN f : Holds(f, h, a)
  <2> SUFFICES ASSUME NEW a \in Nat
               PROVE  (\E h \in DOMAIN g : Holds(g, h, a)) <=> \E h \in DOMAIN f : Holds(f, h, a)
    OBVIOUS
  <2>1. ASSUME NEW h \in DOMAIN g, Holds(g, h, a) PROVE \E k \in DOMAIN f : Holds(f, k, a)
    BY <1>5, <2>1
  <2>2. ASSUME NEW h \in DOMAIN f, Holds(f, h, a) PROVE \E k \in DOMAIN g : Holds(g, k, a)
    <3>1. CASE h \in G
      BY <1>1, <1>5, <2>2, <3>1
    <3>2. CASE h \notin G
      BY <1>1, <1>5, <2>2, <3>2
    <3> QED
      BY <3>1, <3>2
  <2> QED
    BY <2>1, <2>2
<1> QED
  BY <1>4, <1>6, <1>7 DEF Covers, g

(* A block is cut in two small ones. *)
LEMMA TilingSplit ==
  ASSUME NEW f, NEW pages, Tiling(f, pages), NEW h \in DOMAIN f,
         NEW n \in Nat, n # 0, n < f[h], Aligned(n),
         Small(f, h) \/ \E base \in Nat : h = Start(base) /\ f[h] = PAGE_SIZE,
         NEW m, m = h + n, NEW r, r = f[h] - n, NEW g, g = Put(Put(f, h, n), m, r)
  PROVE  /\ Tiling(g, pages) /\ DOMAIN g = DOMAIN f \union {m} /\ m \notin DOMAIN f
         /\ Small(g, m) /\ g[h] = n /\ g[m] = r
         /\ \A k \in DOMAIN f : k # h => g[k] = f[k]
         /\ PageOf(m) = PageOf(h)
<1> USE DEF Tiling
<1>1. h \in Nat /\ f[h] \in Nat /\ f[h] # 0 /\ m \in Nat /\ h < m /\ m < h + f[h]
      /\ f[h] - n \in Nat /\ f[h] - n # 0
  BY BlockTyped
<1>2. m \notin DOMAIN f
  <2> SUFFICES ASSUME m \in DOMAIN f PROVE FALSE
    OBVIOUS
  <2>1. h + f[h] <= m
    BY <1>1 DEF Apart
  <2> QED
    BY <1>1, <2>1
<1>3. /\ DOMAIN g = DOMAIN f \union {m} /\ g[h] = n /\ g[m] = f[h] - n
      /\ \A k \in DOMAIN f : k # h => g[k] = f[k]
  BY <1>2 DEF Put
<1>4. g = [k \in DOMAIN g |-> g[k]]
  BY DEF Put
<1>5. PICK s \in Nat : /\ s = Start(PageOf(h)) /\ s <= h /\ h + f[h] <= s + PAGE_SIZE
                       /\ PageOf(m) = PageOf(h)
  <2>1. PICK s \in Nat : s = Start(PageOf(h)) /\ s <= h
    BY <1>1, PageIs, StartOf
  <2>2. h + f[h] <= s + PAGE_SIZE
    <3>1. CASE Small(f, h)
      BY <2>1, <3>1 DEF Small
    <3>2. CASE \E base \in Nat : h = Start(base) /\ f[h] = PAGE_SIZE
      <4>1. h = s /\ f[h] = PAGE_SIZE
        BY <2>1, <3>2, PageStarts
      <4> QED
        BY <1>1, <4>1, HeapConstants
    <3> QED
      BY <3>1, <3>2
  <2>3. s <= m /\ m < s + PAGE_SIZE /\ PageOf(h) \in Nat
    BY <1>1, <2>1, <2>2, HeapConstants, PageIs
  <2>4. PageOf(m) = PageOf(h)
    BY <1>1, <2>1, <2>3, PageIs
  <2> QED
    BY <2>1, <2>2, <2>4
<1>6. f[h] <= PAGE_SIZE
  BY <1>1, <1>5, HeapConstants
<1>7. Small(g, h) /\ Small(g, m)
  <2>1. n < PAGE_SIZE /\ h + n <= s + PAGE_SIZE
    BY <1>1, <1>5, <1>6, HeapConstants
  <2>2. f[h] - n < PAGE_SIZE /\ m + (f[h] - n) <= s + PAGE_SIZE
    BY <1>1, <1>5, <1>6, HeapConstants
  <2> QED
    BY <1>3, <1>5, <2>1, <2>2 DEF Small
<1>8. BlocksOk(g)
  <2>1. ASSUME NEW k \in DOMAIN g
        PROVE  /\ k \in Nat /\ Aligned(k) /\ g[k] \in Nat /\ g[k] # 0
               /\ Small(g, k) \/ Whole(g, k)
    <3>1. CASE k \in DOMAIN f /\ k # h
      <4>1. g[k] = f[k]
        BY <1>3, <3>1
      <4> QED
        BY <3>1, <4>1 DEF BlocksOk, Small, Whole
    <3>2. CASE k = h
      <4>1. Aligned(h)
        BY DEF BlocksOk
      <4> QED
        BY <1>1, <1>3, <1>7, <3>2, <4>1
    <3>3. CASE k = m
      <4>1. Aligned(h)
        BY DEF BlocksOk
      <4>2. Aligned(m)
        BY <1>1, <4>1, AlignedSum
      <4> QED
        BY <1>1, <1>3, <1>7, <3>3, <4>2
    <3> QED
      BY <1>3, <3>1, <3>2, <3>3
  <2>2. g \in [DOMAIN g -> Nat]
    BY <1>4, <2>1
  <2> QED
    BY <2>1, <2>2 DEF BlocksOk
<1>9. ASSUME NEW a \in Nat
      PROVE  /\ Holds(f, h, a) <=> Holds(g, h, a) \/ Holds(g, m, a)
             /\ ~(Holds(g, h, a) /\ Holds(g, m, a))
             /\ \A k \in DOMAIN f : k # h => (Holds(g, k, a) <=> Holds(f, k, a))
  BY <1>1, <1>3 DEF Holds
<1>10. Apart(g)
  <2> SUFFICES ASSUME NEW i \in DOMAIN g, NEW k \in DOMAIN g, NEW a \in Nat,
                      Holds(g, i, a), Holds(g, k, a)
               PROVE  i = k
    BY <1>8, ApartIf
  <2>0. ASSUME NEW b \in DOMAIN g, Holds(g, b, a)
        PROVE  \E j \in DOMAIN f : Holds(f, j, a) /\ ((j = b /\ j # h) \/ (b \in {h, m} /\ j = h))
    <3>1. CASE b \in DOMAIN f /\ b # h
      BY <1>9, <2>0, <3>1
    <3>2. CASE b \in {h, m}
      <4>1. Holds(f, h, a)
        BY <1>9, <2>0, <3>2
      <4> QED
        BY <3>2, <4>1
    <3> QED
      BY <1>3, <3>1, <3>2
  <2>1. PICK j \in DOMAIN f : Holds(f, j, a) /\ ((j = i /\ j # h) \/ (i \in {h, m} /\ j = h))
    BY <2>0
  <2>2. PICK l \in DOMAIN f : Holds(f, l, a) /\ ((l = k /\ l # h) \/ (k \in {h, m} /\ l = h))
    BY <2>0
  <2>3. j = l
    BY <2>1, <2>2, HeldOnce
  <2> QED
    BY <1>9, <2>1, <2>2, <2>3
<1>11. \A a \in Nat : (\E k \in DOMAIN g : Holds(g, k, a)) <=> \E k \in DOMAIN f : Holds(f, k, a)
  <2> QED
    BY <1>3, <1>9
<1>12. Covers(g, pages)
  BY <1>11 DEF Covers
<1> QED
  BY <1>2, <1>3, <1>5, <1>7, <1>8, <1>10, <1>12

(* Pages that nobody has become a block. *)
LEMMA TilingAdd ==
  ASSUME NEW f, NEW pages, Tiling(f, pages), NEW base \in Nat, NEW c \in Chunks,
         base..(base + c - 1) \intersect pages = {}
  PROVE  /\ Tiling(Put(f, Start(base), Start(c)), pages \union base..(base + c - 1))
         /\ Start(base) \notin DOMAIN f
<1> DEFINE h == Start(base)
           n == Start(c)
           row == base..(base + c - 1)
           g == Put(f, h, n)
<1> USE DEF Tiling
<1>1. /\ c \in Nat /\ c # 0 /\ h \in Nat /\ n \in Nat /\ n # 0
      /\ \A a \in Nat : PageOf(a) \in row <=> h <= a /\ a < h + n
  <2>1. c \in Nat /\ c # 0 /\ h \in Nat /\ n \in Nat
    BY HeapConstants, StartOf
  <2>2. Start(0) + PAGE_SIZE <= Start(c) /\ Start(0) = 0
    BY <2>1, StartOf
  <2>3. n # 0
    BY <2>1, <2>2, HeapConstants
  <2> QED
    BY <2>1, <2>3, PagesInARow
<1>2. row \subseteq Nat
  BY <1>1
<1>3. Aligned(h)
  BY AlignedConstants
<1>4. \A k \in DOMAIN f, a \in Nat : Holds(f, k, a) => ~(h <= a /\ a < h + n)
  BY <1>1 DEF Covers
<1>5. h \notin DOMAIN f
  <2> SUFFICES ASSUME h \in DOMAIN f PROVE FALSE
    OBVIOUS
  <2>1. h \in Nat /\ f[h] \in Nat /\ f[h] # 0
    BY BlockTyped
  <2>2. Holds(f, h, h) /\ h <= h /\ h < h + n
    BY <1>1, <2>1 DEF Holds
  <2> QED
    BY <1>1, <1>4, <2>2
<1>6. \E b \in Nat, d \in Chunks : h = Start(b) /\ n = Start(d)
  OBVIOUS
<1> HIDE DEF h, n, row
<1>7. /\ DOMAIN g = DOMAIN f \union {h} /\ g[h] = n /\ \A k \in DOMAIN f : g[k] = f[k]
      /\ g = [k \in DOMAIN g |-> g[k]]
  BY <1>5 DEF Put
<1>8. Whole(g, h)
  BY <1>6, <1>7 DEF Whole
<1> HIDE DEF g
<1>9. BlocksOk(g)
  <2>1. ASSUME NEW k \in DOMAIN g
        PROVE  /\ k \in Nat /\ Aligned(k) /\ g[k] \in Nat /\ g[k] # 0
               /\ Small(g, k) \/ Whole(g, k)
    <3>1. CASE k \in DOMAIN f
      <4>1. g[k] = f[k]
        BY <1>7, <3>1
      <4> QED
        BY <3>1, <4>1 DEF BlocksOk, Small, Whole
    <3>2. CASE k = h
      BY <1>1, <1>3, <1>7, <1>8, <3>2
    <3> QED
      BY <1>7, <3>1, <3>2
  <2>2. g \in [DOMAIN g -> Nat]
    BY <1>7, <2>1
  <2> QED
    BY <2>1, <2>2 DEF BlocksOk
<1>10. ASSUME NEW k \in DOMAIN g, NEW a \in Nat
       PROVE  Holds(g, k, a) <=> \/ k \in DOMAIN f /\ Holds(f, k, a)
                                 \/ k = h /\ PageOf(a) \in row
  BY <1>1, <1>5, <1>7 DEF Holds
<1>11. Apart(g)
  <2> SUFFICES ASSUME NEW i \in DOMAIN g, NEW k \in DOMAIN g, NEW a \in Nat,
                      Holds(g, i, a), Holds(g, k, a)
               PROVE  i = k
    BY <1>9, ApartIf
  <2>1. \A j \in DOMAIN f : Holds(f, j, a) => PageOf(a) \notin row
    BY <1>1, <1>4
  <2>2. CASE PageOf(a) \in row
    BY <1>10, <2>1, <2>2
  <2>3. CASE PageOf(a) \notin row
    <3>1. i \in DOMAIN f /\ k \in DOMAIN f /\ Holds(f, i, a) /\ Holds(f, k, a)
      BY <1>10, <2>3
    <3> QED
      BY <3>1, HeldOnce
  <2> QED
    BY <2>2, <2>3
<1>12. Covers(g, pages \union row)
  <2>1. \A a \in Nat : PageOf(a) \in pages \union row <=> \E k \in DOMAIN g : Holds(g, k, a)
    <3> SUFFICES ASSUME NEW a \in Nat
                 PROVE  PageOf(a) \in pages \union row <=> \E k \in DOMAIN g : Holds(g, k, a)
      OBVIOUS
    <3>1. PageOf(a) \in pages <=> \E k \in DOMAIN f : Holds(f, k, a)
      BY DEF Covers
    <3>2. h \in DOMAIN g /\ DOMAIN f \subseteq DOMAIN g
      BY <1>7
    <3> QED
      BY <1>10, <3>1, <3>2
  <2> QED
    BY <1>2, <2>1 DEF Covers
<1> QED
  BY <1>5, <1>9, <1>11, <1>12 DEF g, h, n, row

(* A block of whole pages goes, with its pages. *)
LEMMA TilingRemove ==
  ASSUME NEW f, NEW pages, Tiling(f, pages), NEW h \in DOMAIN f, Whole(f, h)
  PROVE  Tiling(Drop(f, {h}), pages \ PagesOf(h, f[h]))
<1> DEFINE row == PagesOf(h, f[h])
           g == Drop(f, {h})
<1> USE DEF Tiling
<1>1. PICK base \in Nat, c \in Chunks : h = Start(base) /\ f[h] = Start(c)
  BY DEF Whole
<1>2. \A a \in Nat : PageOf(a) \in row <=> Holds(f, h, a)
  <2>1. c \in Nat /\ c # 0
    BY HeapConstants
  <2>2. PagesOf(Start(base), Start(c)) = base..(base + c - 1)
    BY <2>1, PagesInARow
  <2>3. \A a \in Nat : PageOf(a) \in base..(base + c - 1) <=> Start(base) <= a /\ a < Start(base) + Start(c)
    BY <2>1, PagesInARow
  <2> QED
    BY <1>1, <2>2, <2>3 DEF Holds
<1> HIDE DEF row
<1>3. /\ DOMAIN g = DOMAIN f \ {h} /\ \A k \in DOMAIN g : g[k] = f[k]
      /\ g = [k \in DOMAIN g |-> g[k]]
  BY DEF Drop
<1> HIDE DEF g
<1>4. BlocksOk(g)
  <2>1. ASSUME NEW k \in DOMAIN g
        PROVE  /\ k \in Nat /\ Aligned(k) /\ g[k] \in Nat /\ g[k] # 0
               /\ Small(g, k) \/ Whole(g, k)
    <3>1. k \in DOMAIN f /\ g[k] = f[k]
      BY <1>3
    <3> QED
      BY <3>1 DEF BlocksOk, Small, Whole
  <2>2. g \in [DOMAIN g -> Nat]
    BY <1>3, <2>1
  <2> QED
    BY <2>1, <2>2 DEF BlocksOk
<1>5. \A k \in DOMAIN g, a \in Nat : Holds(g, k, a) <=> Holds(f, k, a)
  BY <1>3 DEF Holds
<1>6. Apart(g)
  BY <1>3 DEF Apart
<1>7. Covers(g, pages \ row)
  <2>1. ASSUME NEW a \in Nat
        PROVE  PageOf(a) \in pages \ row <=> \E k \in DOMAIN g : Holds(g, k, a)
    <3>1. PageOf(a) \in pages <=> \E k \in DOMAIN f : Holds(f, k, a)
      BY DEF Covers
    <3>2. ASSUME PageOf(a) \in pages \ row PROVE \E k \in DOMAIN g : Holds(g, k, a)
      <4>1. PICK k \in DOMAIN f : Holds(f, k, a)
        BY <3>1, <3>2
      <4>2. k \in DOMAIN g
        BY <1>2, <1>3, <3>2, <4>1
      <4> QED
        BY <1>5, <4>1, <4>2
    <3>3. ASSUME NEW k \in DOMAIN g, Holds(g, k, a) PROVE PageOf(a) \in pages \ row
      <4>1. k \in DOMAIN f /\ k # h /\ Holds(f, k, a)
        BY <1>3, <1>5, <3>3
      <4>2. ~Holds(f, h, a)
        BY <4>1, HeldOnce
      <4> QED
        BY <1>2, <3>1, <4>1, <4>2
    <3> QED
      BY <3>2, <3>3
  <2> QED
    BY <2>1 DEF Covers
<1> QED
  BY <1>4, <1>6, <1>7 DEF g, row

------------------------------------------------------------------------------
(* What maybe_split leaves of the block h of f: the blocks E, one or none, *)
(* are new and in front of the list of the blocks T.                       *)
Rests(f, h, want) == IF Splits(want, f[h]) THEN {h + AlignUp(want)} ELSE {}
Cut(f, pages, h, want, T, E) ==
  /\ Tiling(size', pages)
  /\ DOMAIN size' = DOMAIN f \union E /\ E \intersect DOMAIN f = {}
  /\ Lists(freelist', T \union E)
  /\ want <= size'[h]
  /\ \A k \in DOMAIN f : k # h => size'[k] = f[k]
  /\ \A e \in E : /\ e \in Nat /\ Small(size', e) /\ h < e /\ e + size'[e] = h + f[h]
                  /\ PageOf(e) = PageOf(h)
  /\ E = {} => size' = f
  /\ \A d, e \in E : d = e

LEMMA MaybeSplitCuts ==
  ASSUME NEW f, NEW pages, Tiling(f, pages), NEW h \in DOMAIN f,
         Small(f, h) \/ \E base \in Nat : h = Start(base) /\ f[h] = PAGE_SIZE,
         NEW want \in Nat, want # 0, want <= f[h],
         NEW free, NEW T, Lists(free, T), T \subseteq DOMAIN f,
         MaybeSplit(h, want, f[h], f, free)
  PROVE  /\ Cut(f, pages, h, want, T, Rests(f, h, want)) /\ Rests(f, h, want) \subseteq Nat
         /\ ~Splits(want, f[h]) => size' = f /\ freelist' = free
<1> DEFINE up == AlignUp(want)
           extra == h + up
<1>1. h \in Nat /\ f[h] \in Nat /\ f[h] # 0 /\ BlocksOk(f)
  BY BlockTyped DEF Tiling
<1>2. up \in Nat /\ Aligned(up) /\ want <= up /\ up # 0 /\ extra \in Nat
  BY <1>1, AlignUpIs
<1>3. CASE Splits(want, f[h])
  <2>1. up < f[h]
    BY <1>1, <1>2, <1>3, HeapConstants DEF Splits
  <2>2. /\ size' = Put(Put(f, h, up), extra, f[h] - up)
        /\ freelist' = <<extra>> \o free
    BY <1>3 DEF MaybeSplit
  <2> DEFINE r == f[h] - up
  <2> HIDE DEF up, extra, r
  <2>3. /\ Tiling(size', pages) /\ DOMAIN size' = DOMAIN f \union {extra} /\ extra \notin DOMAIN f
        /\ Small(size', extra) /\ size'[h] = up /\ size'[extra] = r
        /\ \A k \in DOMAIN f : k # h => size'[k] = f[k]
        /\ PageOf(extra) = PageOf(h)
    <3>1. extra = h + up /\ r = f[h] - up /\ size' = Put(Put(f, h, up), extra, r)
      BY <2>2 DEF extra, r
    <3> QED
      BY <1>2, <2>1, <3>1, TilingSplit
  <2>4. Lists(freelist', T \union {extra})
    BY <1>2, <2>2, <2>3, ListCons
  <2>5. h < extra /\ extra + size'[extra] = h + f[h]
    BY <1>1, <1>2, <2>3 DEF extra, r
  <2>6. Cut(f, pages, h, want, T, {extra})
    BY <1>2, <1>3, <2>3, <2>4, <2>5 DEF Cut
  <2>7. Rests(f, h, want) = {extra}
    BY <1>3 DEF Rests, extra, up
  <2> QED
    BY <1>2, <1>3, <2>6, <2>7
<1>4. CASE ~Splits(want, f[h])
  <2>1. size' = Put(f, h, f[h]) /\ freelist' = free
    BY <1>4 DEF MaybeSplit
  <2>2. size' = f
    BY <1>1, <2>1, PutSame DEF BlocksOk
  <2>3. Cut(f, pages, h, want, T, {})
    BY <1>4, <2>1, <2>2 DEF Cut
  <2>4. Rests(f, h, want) = {}
    BY <1>4 DEF Rests
  <2> QED
    BY <1>4, <2>1, <2>2, <2>3, <2>4
<1> QED
  BY <1>3, <1>4

(* malloc adds an object.                                                  *)
LEMMA ObjectAdded ==
  ASSUME Objects, Headers \subseteq Nat, NEW h \in Nat, h \notin Headers, NEW n \in Nat, n # 0,
         Return(h + Room, h, n), Room + n <= size'[h], size'[h] \in Nat,
         \A k \in Headers : size'[k] = size[k]
  PROVE  Objects' /\ Headers' = Headers \union {h}
<1> DEFINE q == h + Room
           r == [hdr |-> h, asked |-> n]
<1>1. used' = Put(used, q, r)
  BY DEF Return
<1>2. q \notin DOMAIN used
  <2> SUFFICES ASSUME NEW p \in DOMAIN used, p = h + Room PROVE FALSE
    OBVIOUS
  <2>1. p = used[p].hdr + Room /\ used[p].hdr \in Headers
    BY DEF Objects, Headers
  <2>2. used[p].hdr \in Nat
    BY <2>1
  <2> QED
    BY <2>1, <2>2, HeaderRoom
<1>3. q = h + Room /\ q + n <= h + size'[h]
  BY HeaderRoom
<1>4. r.hdr = h /\ r.asked = n /\ r \in [hdr : Nat, asked : Nat \ {0}]
  OBVIOUS
<1> HIDE DEF q, r
<1>5. /\ DOMAIN used' = DOMAIN used \union {q} /\ used'[q] = r
      /\ \A p \in DOMAIN used : used'[p] = used[p]
  BY <1>1, <1>2 DEF Put
<1>6. Objects'
  <2> SUFFICES ASSUME NEW p \in DOMAIN used'
               PROVE  /\ used'[p] \in [hdr : Nat, asked : Nat \ {0}] /\ p = used'[p].hdr + Room
                      /\ p + used'[p].asked <= used'[p].hdr + size'[used'[p].hdr]
    BY DEF Objects
  <2>1. CASE p \in DOMAIN used
    <3>1. used'[p] = used[p] /\ used[p].hdr \in Headers
      BY <1>5, <2>1 DEF Headers
    <3> QED
      BY <2>1, <3>1 DEF Objects
  <2>2. CASE p = q
    BY <1>3, <1>4, <1>5, <2>2
  <2> QED
    BY <1>5, <2>1, <2>2
<1>7. Headers' = Headers \union {h}
  BY <1>4, <1>5 DEF Headers
<1> QED
  BY <1>6, <1>7

LEMMA HeapFacts ==
  HeapInv => /\ \A h \in DOMAIN size : h \in Nat /\ size[h] \in Nat /\ size[h] # 0
             /\ FreeBlocks \subseteq DOMAIN size /\ Headers \subseteq DOMAIN size
             /\ FreeBlocks \subseteq Nat /\ Headers \subseteq Nat
BY BlockTyped DEF HeapInv, Tiling, ListOk

(* After whole pages another page begins.                                  *)
LEMMA AfterWhole ==
  ASSUME NEW base \in Nat, NEW c \in Chunks
  PROVE  PageOf(Start(base) + Start(c)) # PageOf(Start(base))
<1>1. c \in Nat /\ c # 0 /\ base + c \in Nat
  BY HeapConstants
<1>2. Start(base + c) = Start(base) + Start(c)
  BY <1>1, StartOf
<1>3. PageOf(Start(base + c)) = base + c /\ PageOf(Start(base)) = base
  BY <1>1, PageStarts
<1> QED
  BY <1>1, <1>2, <1>3

(* A block h, of the list or new, becomes that of an object, and what is   *)
(* cut from it goes to the list: the heap is in order.                     *)
LEMMA Allocated ==
  ASSUME HeapInv, NEW f, NEW h \in Nat, h \notin Headers, NEW E \in SUBSET Nat, NEW n \in Nat, n # 0,
         BlocksOk(f), Apart(f), DOMAIN f = DOMAIN size \union {h},
         \A k \in DOMAIN size : k # h => f[k] = size[k],
         Cut(f, owned', h, Room + n, FreeBlocks \ {h}, E),
         Return(h + Room, h, n), cut' = cut,
         ~cut => \A k \in FreeBlocks \ {h} : h + f[h] = k => PageOf(h) # PageOf(k)
  PROVE  HeapInv'
<1>1. /\ \A k \in DOMAIN size : k \in Nat /\ size[k] \in Nat /\ size[k] # 0
      /\ FreeBlocks \subseteq DOMAIN size /\ Headers \subseteq DOMAIN size
      /\ FreeBlocks \subseteq Nat /\ Headers \subseteq Nat
  BY HeapFacts
<1>2. /\ Tiling(size', owned') /\ DOMAIN size' = DOMAIN f \union E /\ E \intersect DOMAIN f = {}
      /\ Lists(freelist', (FreeBlocks \ {h}) \union E) /\ Room + n <= size'[h]
      /\ \A k \in DOMAIN f : k # h => size'[k] = f[k]
      /\ \A e \in E : /\ e \in Nat /\ Small(size', e) /\ h < e /\ e + size'[e] = h + f[h]
                      /\ PageOf(e) = PageOf(h)
      /\ \A d, e \in E : d = e
  BY DEF Cut
<1>3. \A k \in DOMAIN size' : k \in Nat /\ size'[k] \in Nat /\ size'[k] # 0
  BY <1>2, BlockTyped DEF Tiling
<1>4. \A k \in DOMAIN size : k # h => size'[k] = size[k]
  BY <1>2
<1>5. Objects' /\ Headers' = Headers \union {h}
  <2>1. Objects
    BY DEF HeapInv
  <2>2. \A k \in Headers : size'[k] = size[k]
    BY <1>1, <1>4
  <2>3. size'[h] \in Nat
    BY <1>2, <1>3
  <2> QED
    BY <1>1, <1>2, <2>1, <2>2, <2>3, ObjectAdded
<1>6. FreeBlocks' = (FreeBlocks \ {h}) \union E
  BY <1>2 DEF Lists, FreeBlocks
<1>7. ListOk'
  <2>1. Lists(freelist', FreeBlocks')
    BY <1>2, <1>6
  <2>2. DOMAIN size' = FreeBlocks' \union Headers'
    BY <1>2, <1>5, <1>6 DEF HeapInv, ListOk
  <2>3. FreeBlocks' \intersect Headers' = {}
    BY <1>1, <1>2, <1>5, <1>6 DEF HeapInv, ListOk
  <2>4. ASSUME NEW k \in FreeBlocks' PROVE Small(size', k)
    <3>1. CASE k \in E
      BY <1>2, <3>1
    <3>2. CASE k \in FreeBlocks \ {h}
      <4>1. Small(size, k) /\ size'[k] = size[k]
        BY <1>1, <1>4, <3>2 DEF HeapInv, ListOk
      <4> QED
        BY <4>1 DEF Small
    <3> QED
      BY <1>6, <3>1, <3>2
  <2> QED
    BY <2>1, <2>2, <2>3, <2>4 DEF ListOk
<1>8. NoNeighbours'
  <2> SUFFICES ASSUME ~cut, NEW i \in FreeBlocks', NEW k \in FreeBlocks',
                      i + size'[i] = k, PageOf(i) = PageOf(k)
               PROVE  FALSE
    BY DEF NoNeighbours
  <2>1. i \in DOMAIN size' /\ k \in DOMAIN size' /\ i \in Nat /\ k \in Nat
        /\ size'[i] \in Nat /\ size'[i] # 0 /\ h \in DOMAIN f /\ f[h] \in Nat /\ i # k
    BY <1>1, <1>2, <1>3, <1>6, BlockTyped
  <2>2. CASE i \in FreeBlocks \ {h} /\ k \in FreeBlocks \ {h}
    <3>1. i + size[i] = k
      BY <1>1, <1>4, <2>2
    <3> QED
      BY <2>2, <3>1 DEF HeapInv, NoNeighbours
  <2>3. CASE i \in E /\ k \in FreeBlocks \ {h}
    <3>1. h + f[h] = k /\ PageOf(h) = PageOf(k)
      BY <1>2, <2>3
    <3> QED
      BY <2>3, <3>1
  <2>4. CASE i \in FreeBlocks \ {h} /\ k \in E
    <3>1. i \in DOMAIN f /\ size'[i] = f[i] /\ i # h
      BY <1>1, <1>2, <2>4
    <3>2. (i < h => i + f[i] <= h) /\ (h < i => h + f[h] <= i)
      BY <3>1 DEF Apart
    <3>3. h < k /\ k + size'[k] = h + f[h] /\ size'[k] \in Nat
      BY <1>2, <1>3, <2>1, <2>4
    <3> QED
      BY <2>1, <3>1, <3>2, <3>3
  <2>5. CASE i \in E /\ k \in E
    BY <1>2, <2>1, <2>5
  <2> QED
    BY <1>6, <2>2, <2>3, <2>4, <2>5
<1> QED
  BY <1>2, <1>5, <1>7, <1>8 DEF HeapInv

(* The space malloc asks for, and when it is that of a page or more.       *)
LEMMA Wanted ==
  ASSUME NEW n \in Sizes
  PROVE  /\ n \in Nat /\ n # 0 /\ Room + n \in Nat /\ Room + n # 0
         /\ AlignUp(HdrSize) + n = Room + n
         /\ ~IsBig(n) => Room + n < PAGE_SIZE
<1>1. n \in Nat /\ n # 0 /\ Room \in Nat /\ AlignUp(HdrSize) = Room
  BY HeapConstants, HeaderRoom
<1> QED
  BY <1>1, HeapConstants DEF IsBig

LEMMA HeapTakeFree ==
  ASSUME HeapInv, NEW n \in Sizes, TakeFree(n), cut' = cut
  PROVE  HeapInv'
<1> DEFINE fitting == {k \in 1..Len(freelist) : BlockFits(freelist[k], n)}
           k == Min(fitting)
           i == freelist[k]
<1>1. /\ fitting # {}
      /\ MaybeSplit(i, DataBegin(i) + n - i, size[i], size, RemoveAt(freelist, k))
      /\ Return(DataBegin(i), i, n) /\ owned' = owned
  BY DEF TakeFree
<1>2. Lists(freelist, FreeBlocks)
  BY DEF HeapInv, ListOk
<1>3. Len(freelist) \in Nat /\ DOMAIN freelist = 1..Len(freelist)
  BY <1>2 DEF Lists
<1>4. k \in fitting
  <2>1. fitting \subseteq Nat
    BY <1>3
  <2> HIDE DEF fitting
  <2> QED
    BY <1>1, <2>1, MinIs
<1>5. k \in 1..Len(freelist) /\ BlockFits(i, n)
  BY <1>4
<1> HIDE DEF k
<1>6. i \in FreeBlocks
  BY <1>3, <1>5 DEF FreeBlocks, Range
<1>7. Lists(RemoveAt(freelist, k), FreeBlocks \ {i})
  BY <1>2, <1>5, ListRemove
<1> HIDE DEF i
<1>8. /\ i \in DOMAIN size /\ i \in Nat /\ size[i] \in Nat /\ Aligned(i) /\ Small(size, i)
      /\ i \notin Headers /\ BlocksOk(size) /\ Apart(size) /\ Tiling(size, owned)
      /\ FreeBlocks \subseteq DOMAIN size
  BY <1>6 DEF HeapInv, ListOk, Tiling, BlocksOk
<1>9. DataBegin(i) = i + Room
  BY <1>8, HeaderRoom
<1>10. n \in Nat /\ n # 0 /\ Room \in Nat /\ Room + n \in Nat /\ Room + n # 0
  BY Wanted, HeaderRoom
<1>11. DataBegin(i) + n - i = Room + n /\ Room + n <= size[i]
  BY <1>5, <1>8, <1>9, <1>10 DEF BlockFits
<1>12. PICK want \in Nat : want = Room + n
  BY <1>10
<1> DEFINE E == Rests(size, i, want)
           T == FreeBlocks \ {i}
           free == RemoveAt(freelist, k)
<1>13. Cut(size, owned, i, want, T, E) /\ E \subseteq Nat
  <2>1. /\ want # 0 /\ want <= size[i] /\ Lists(free, T) /\ T \subseteq DOMAIN size
        /\ MaybeSplit(i, want, size[i], size, free)
    BY <1>1, <1>7, <1>8, <1>10, <1>11, <1>12
  <2> HIDE DEF T, free
  <2> QED
    BY <1>8, <2>1, MaybeSplitCuts
<1> HIDE DEF E
<1>14. Return(i + Room, i, n)
  BY <1>1, <1>9
<1>15. ~cut => \A j \in FreeBlocks \ {i} : i + size[i] = j => PageOf(i) # PageOf(j)
  BY <1>6 DEF HeapInv, NoNeighbours
<1>16. DOMAIN size = DOMAIN size \union {i}
  BY <1>8
<1>17. Cut(size, owned', i, Room + n, FreeBlocks \ {i}, E)
  BY <1>1, <1>12, <1>13 DEF Cut
<1> QED
  BY <1>8, <1>10, <1>14, <1>15, <1>16, <1>17, <1>13, Allocated

LEMMA HeapNewPage ==
  ASSUME HeapInv, NEW n \in Sizes, ~IsBig(n), XmallocNewPage(n), cut' = cut
  PROVE  HeapInv'
<1>1. PICK page \in (0..(Pages - 1)) \ owned :
        /\ owned' = owned \union {page}
        /\ MaybeSplit(page * PAGE_SIZE, AlignUp(HdrSize) + n, PAGE_SIZE, size, freelist)
        /\ Return(DataBegin(page * PAGE_SIZE), page * PAGE_SIZE, n)
  BY DEF XmallocNewPage
<1> DEFINE h == Start(page)
           f == Put(size, h, PAGE_SIZE)
<1>2. /\ page \in Nat /\ page \notin owned /\ h \in Nat /\ Aligned(h)
      /\ 1 \in Chunks /\ Start(1) = PAGE_SIZE /\ page..(page + 1 - 1) = {page}
  BY StartOf, HeapConstants, AlignedConstants
<1>3. Tiling(size, owned) /\ Lists(freelist, FreeBlocks)
  BY DEF HeapInv, ListOk
<1>4. Tiling(f, owned') /\ h \notin DOMAIN size
  <2>1. /\ Tiling(Put(size, h, Start(1)), owned \union page..(page + 1 - 1))
        /\ h \notin DOMAIN size
    BY <1>2, <1>3, TilingAdd
  <2> QED
    BY <1>1, <1>2, <2>1
<1>5. n \in Nat /\ n # 0 /\ Room + n \in Nat /\ Room + n # 0 /\ Room + n < PAGE_SIZE
      /\ AlignUp(HdrSize) + n = Room + n
  BY Wanted
<1>6. Return(h + Room, h, n) /\ MaybeSplit(h, Room + n, PAGE_SIZE, size, freelist)
  <2>1. DataBegin(h) = h + Room
    BY <1>2, HeaderRoom
  <2> QED
    BY <1>1, <1>5, <2>1 DEF Start
<1>7. page = PageOf(h) /\ PageOf(h + PAGE_SIZE) # PageOf(h)
  BY <1>2, PageStarts, AfterWhole
<1>8. \E base \in Nat : h = Start(base)
  BY <1>2
<1> HIDE DEF h
<1>9. /\ DOMAIN f = DOMAIN size \union {h} /\ f[h] = PAGE_SIZE
      /\ \A k \in DOMAIN size : k # h => f[k] = size[k]
  BY <1>4 DEF Put
<1>10. MaybeSplit(h, Room + n, f[h], f, freelist)
  <2>1. \A z : Put(f, h, z) = Put(size, h, z)
    BY PutPut
  <2> HIDE DEF f
  <2> QED
    BY <1>6, <1>9, <2>1 DEF MaybeSplit
<1> HIDE DEF f
<1>11. FreeBlocks \subseteq DOMAIN size /\ Headers \subseteq DOMAIN size
  BY HeapFacts
<1>12. PICK want \in Nat : want = Room + n
  BY <1>5
<1> DEFINE E == Rests(f, h, want)
<1>13. Cut(f, owned', h, Room + n, FreeBlocks \ {h}, E) /\ E \subseteq Nat
  <2>1. FreeBlocks \ {h} = FreeBlocks
    BY <1>4, <1>11
  <2>2. h \in DOMAIN f /\ FreeBlocks \subseteq DOMAIN f
    BY <1>9, <1>11
  <2>3. \E base \in Nat : h = Start(base) /\ f[h] = PAGE_SIZE
    BY <1>8, <1>9
  <2>4. want # 0 /\ want <= f[h] /\ MaybeSplit(h, want, f[h], f, freelist)
    BY <1>5, <1>9, <1>10, <1>12, HeapConstants
  <2>5. Cut(f, owned', h, want, FreeBlocks, E) /\ E \subseteq Nat
    BY <1>3, <1>4, <2>2, <2>3, <2>4, MaybeSplitCuts
  <2> HIDE DEF E
  <2> QED
    BY <1>12, <2>1, <2>5 DEF Cut
<1> HIDE DEF E
<1>14. \A k \in FreeBlocks \ {h} : h + f[h] = k => PageOf(h) # PageOf(k)
  BY <1>7, <1>9
<1>15. h \notin Headers /\ BlocksOk(f) /\ Apart(f)
  BY <1>4, <1>11 DEF Tiling
<1> QED
  BY <1>2, <1>5, <1>6, <1>9, <1>13, <1>14, <1>15, Allocated

LEMMA HeapWholePages ==
  ASSUME HeapInv, NEW n \in Sizes, XmallocWholePages(n), cut' = cut
  PROVE  HeapInv'
<1> DEFINE c == Chunk(AlignUp(HdrSize) + n)
<1>1. PICK base \in 0..(Pages - 1) :
        /\ owned \intersect base..(base + c - 1) = {}
        /\ owned' = owned \union base..(base + c - 1)
        /\ size' = Put(size, base * PAGE_SIZE, c * PAGE_SIZE)
        /\ Return(DataBegin(base * PAGE_SIZE), base * PAGE_SIZE, n)
        /\ freelist' = freelist
  BY DEF XmallocWholePages
<1>2. n \in Nat /\ n # 0 /\ Room + n \in Nat /\ AlignUp(HdrSize) + n = Room + n
  BY Wanted
<1>3. c \in Chunks /\ Room + n <= Start(c)
  <2>1. PICK d \in Chunks : n + Hdr + Pad + Align <= d * PAGE_SIZE
    BY XMallocAssumption
  <2>2. d \in Nat /\ Start(d) \in Nat /\ d * PAGE_SIZE = Start(d)
    BY HeapConstants, StartOf DEF Start
  <2>3. Room + n <= Start(d)
    <3>1. PICK s \in Nat : s = Start(d) /\ n + Hdr + Pad + Align <= s
      BY <2>1, <2>2
    <3> QED
      BY <1>2, <3>1, HeapConstants DEF Room
  <2> QED
    BY <1>2, <2>3, ChunkIs
<1> HIDE DEF c
<1> DEFINE h == Start(base)
<1>4. base \in Nat /\ h \in Nat /\ Aligned(h) /\ c \in Nat /\ Start(c) \in Nat
  <2>1. base \in Nat /\ c \in Nat
    BY <1>3, HeapConstants
  <2> QED
    BY <2>1, StartOf, AlignedConstants
<1>5. size' = Put(size, h, Start(c)) /\ Return(h + Room, h, n)
  <2>1. DataBegin(h) = h + Room
    BY <1>4, HeaderRoom
  <2> QED
    BY <1>1, <2>1 DEF Start
<1>6. Tiling(size, owned) /\ Lists(freelist, FreeBlocks)
  BY DEF HeapInv, ListOk
<1>7. Tiling(size', owned') /\ h \notin DOMAIN size
  BY <1>1, <1>3, <1>4, <1>5, <1>6, TilingAdd
<1>8. PageOf(h + Start(c)) # PageOf(h)
  BY <1>3, <1>4, AfterWhole
<1> HIDE DEF h
<1> DEFINE f == size'
<1>9. /\ DOMAIN f = DOMAIN size \union {h} /\ f[h] = Start(c)
      /\ \A k \in DOMAIN size : k # h => f[k] = size[k]
  BY <1>5, <1>7 DEF Put
<1>10. FreeBlocks \subseteq DOMAIN size /\ Headers \subseteq DOMAIN size
  BY HeapFacts
<1>11. Cut(f, owned', h, Room + n, FreeBlocks \ {h}, {})
  <2>1. (FreeBlocks \ {h}) \union {} = FreeBlocks /\ DOMAIN f \union {} = DOMAIN f
    BY <1>7, <1>10
  <2> QED
    BY <1>1, <1>3, <1>6, <1>7, <1>9, <2>1 DEF Cut
<1>12. h \notin Headers /\ BlocksOk(f) /\ Apart(f)
  BY <1>7, <1>10 DEF Tiling
<1>13. \A k \in FreeBlocks \ {h} : h + f[h] = k => PageOf(h) # PageOf(k)
  BY <1>8, <1>9
<1>14. {} \in SUBSET Nat
  OBVIOUS
<1> HIDE DEF f
<1> QED
  BY <1>2, <1>4, <1>5, <1>9, <1>11, <1>12, <1>13, <1>14, Allocated

LEMMA HeapRealloc ==
  ASSUME HeapInv, NEW p \in DOMAIN used, NEW n \in Sizes, Realloc(p, n),
         "big" \notin Reallocs \/ ~cut'
  PROVE  HeapInv'
<1> DEFINE h == used[p].hdr
           T == FreeBlocks
           E == Rests(size, h, Room + n)
<1>1. /\ (IF size[h] < PAGE_SIZE THEN "small" ELSE "big") \in Reallocs
      /\ size[h] - (p - h) >= n
      /\ MaybeSplit(h, (p - h) + n, size[h], size, freelist)
      /\ used' = [used EXCEPT ![p].asked = n]
      /\ cut' = (cut \/ Splits((p - h) + n, size[h])) /\ owned' = owned
  BY DEF Realloc
<1>2. Tiling(size, owned) /\ Lists(freelist, FreeBlocks) /\ Objects
  BY DEF HeapInv, ListOk
<1>3. /\ \A k \in DOMAIN size : k \in Nat /\ size[k] \in Nat /\ size[k] # 0
      /\ FreeBlocks \subseteq DOMAIN size /\ Headers \subseteq DOMAIN size
      /\ FreeBlocks \subseteq Nat /\ Headers \subseteq Nat
  BY HeapFacts
<1>4. /\ used[p] \in [hdr : Nat, asked : Nat \ {0}] /\ p = h + Room
      /\ h \in Headers /\ h \in DOMAIN size
  BY <1>2, <1>3 DEF Objects, Headers
<1>5. n \in Nat /\ n # 0 /\ Room \in Nat /\ Room + n \in Nat /\ Room + n # 0
  BY Wanted, HeaderRoom
<1> HIDE DEF h
<1>6. h \in Nat /\ size[h] \in Nat /\ (p - h) + n = Room + n /\ Room + n <= size[h]
  BY <1>1, <1>3, <1>4, <1>5
<1>7. /\ DOMAIN used' = DOMAIN used /\ used'[p].hdr = h /\ used'[p].asked = n
      /\ used'[p] \in [hdr : Nat, asked : Nat \ {0}]
      /\ \A q \in DOMAIN used : q # p => used'[q] = used[q]
  <2>1. used'[p] = [used[p] EXCEPT !.asked = n]
    BY <1>1
  <2>2. used'[p].hdr = h /\ used'[p].asked = n /\ used'[p] \in [hdr : Nat, asked : Nat \ {0}]
    BY <1>4, <1>5, <2>1 DEF h
  <2> QED
    BY <1>1, <2>2
<1>8. Headers' = Headers
  <2>1. \A q \in DOMAIN used : used'[q].hdr = used[q].hdr
    BY <1>7 DEF h
  <2> QED
    BY <1>7, <2>1 DEF Headers
<1>9. ASSUME Room + n <= size'[h], size'[h] \in Nat,
             \A k \in DOMAIN size : k # h => size'[k] = size[k]
      PROVE  Objects'
  <2> SUFFICES ASSUME NEW q \in DOMAIN used
               PROVE  /\ used'[q] \in [hdr : Nat, asked : Nat \ {0}] /\ q = used'[q].hdr + Room
                      /\ q + used'[q].asked <= used'[q].hdr + size'[used'[q].hdr]
    BY <1>7 DEF Objects
  <2>1. CASE q = p
    BY <1>4, <1>5, <1>6, <1>7, <1>9, <2>1
  <2>2. CASE q # p
    <3>1. /\ used'[q] = used[q] /\ used[q] \in [hdr : Nat, asked : Nat \ {0}]
          /\ q = used[q].hdr + Room /\ q + used[q].asked <= used[q].hdr + size[used[q].hdr]
          /\ used[q].hdr \in DOMAIN size
      BY <1>2, <1>3, <1>7, <2>2 DEF Objects, Headers
    <3>2. used[q].hdr # h
      BY <1>4, <2>2, <3>1
    <3> QED
      BY <1>9, <3>1, <3>2
  <2> QED
    BY <2>1, <2>2
<1>10. CASE Splits(Room + n, size[h])
  <2>1. cut' /\ size[h] < PAGE_SIZE
    BY <1>1, <1>6, <1>10
  <2>2. Small(size, h)
    <3> SUFFICES ASSUME Whole(size, h) PROVE FALSE
      BY <1>2, <1>4 DEF Tiling, BlocksOk
    <3>1. PICK c \in Chunks : size[h] = Start(c)
      BY DEF Whole
    <3>2. c \in Nat /\ c # 0
      BY HeapConstants
    <3>3. Start(0) + PAGE_SIZE <= Start(c) /\ Start(0) = 0
      BY <3>2, StartOf
    <3> QED
      BY <1>6, <2>1, <3>1, <3>3, HeapConstants
  <2>3. PICK want \in Nat : want = Room + n
    BY <1>5
  <2>4. Cut(size, owned, h, want, T, Rests(size, h, want)) /\ Rests(size, h, want) \subseteq Nat
    <3>1. want # 0 /\ want <= size[h] /\ MaybeSplit(h, want, size[h], size, freelist)
      BY <1>1, <1>5, <1>6, <2>3
    <3> QED
      BY <1>2, <1>3, <1>4, <2>2, <3>1, MaybeSplitCuts
  <2>5. Cut(size, owned, h, Room + n, T, E) /\ E \subseteq Nat
    BY <2>3, <2>4
  <2> HIDE DEF E
  <2>6. /\ Tiling(size', owned') /\ DOMAIN size' = DOMAIN size \union E
        /\ E \intersect DOMAIN size = {}
        /\ Lists(freelist', T \union E) /\ Room + n <= size'[h]
        /\ \A k \in DOMAIN size : k # h => size'[k] = size[k]
        /\ \A e \in E : Small(size', e)
    BY <1>1, <2>5 DEF Cut
  <2>7. Objects'
    <3>1. size'[h] \in Nat
      BY <1>4, <2>6, BlockTyped DEF Tiling
    <3> QED
      BY <1>9, <2>6, <3>1
  <2>8. FreeBlocks' = FreeBlocks \union E
    BY <2>6 DEF Lists, FreeBlocks
  <2>9. ListOk'
    <3>1. /\ DOMAIN size = FreeBlocks \union Headers /\ FreeBlocks \intersect Headers = {}
          /\ \A k \in FreeBlocks : Small(size, k)
      BY DEF HeapInv, ListOk
    <3>2. Lists(freelist', FreeBlocks')
      BY <2>6, <2>8
    <3>3. DOMAIN size' = FreeBlocks' \union Headers' /\ FreeBlocks' \intersect Headers' = {}
      BY <1>3, <1>8, <2>6, <2>8, <3>1
    <3>4. ASSUME NEW k \in FreeBlocks' PROVE Small(size', k)
      <4>1. CASE k \in E
        BY <2>6, <4>1
      <4>2. CASE k \in FreeBlocks
        <5>1. Small(size, k) /\ size'[k] = size[k]
          BY <1>3, <1>4, <2>6, <3>1, <4>2
        <5> QED
          BY <5>1 DEF Small
      <4> QED
        BY <2>8, <4>1, <4>2
    <3> QED
      BY <3>2, <3>3, <3>4 DEF ListOk
  <2> QED
    BY <2>1, <2>6, <2>7, <2>9 DEF HeapInv, NoNeighbours
<1>11. CASE ~Splits(Room + n, size[h])
  <2>1. MaybeSplit(h, Room + n, size[h], size, freelist) /\ cut' = cut
    <3>1. cut \in BOOLEAN
      BY DEF HeapInv
    <3> QED
      BY <1>1, <1>6, <1>11, <3>1
  <2>2. size' = Put(size, h, size[h]) /\ freelist' = freelist
    BY <1>11, <2>1 DEF MaybeSplit
  <2>3. size' = size
    BY <1>2, <1>4, <2>2, PutSame DEF Tiling, BlocksOk
  <2>4. Objects'
    BY <1>6, <1>9, <2>3
  <2>5. ListOk'
    BY <1>8, <2>2, <2>3 DEF HeapInv, ListOk, FreeBlocks, Lists, Small
  <2>6. NoNeighbours'
    BY <2>1, <2>2, <2>3 DEF HeapInv, NoNeighbours, FreeBlocks
  <2> QED
    BY <1>1, <1>2, <2>3, <2>4, <2>5, <2>6 DEF HeapInv
<1> QED
  BY <1>10, <1>11

------------------------------------------------------------------------------
(* What a loop over n values goes through.                                 *)
LEMMA Iterated ==
  ASSUME NEW S, NEW start \in S, NEW n \in Nat, NEW step \in [1..n -> [S -> S]]
  PROVE  \E b \in [0..n -> S] : /\ b[0] = start
                                /\ \A k \in 1..n : b[k] = step[k][b[k - 1]]
<1> DEFINE Runs(b, m) == b[0] = start /\ \A k \in 1..m : b[k] = step[k][b[k - 1]]
           T == {m \in 0..n : ~ \E b \in [0..n -> S] : Runs(b, m)}
<1> SUFFICES ASSUME T # {} PROVE FALSE
  <2> HIDE DEF Runs
  <2>1. n \in 0..n
    OBVIOUS
  <2>2. ASSUME n \notin T PROVE \E b \in [0..n -> S] : Runs(b, n)
    BY <2>1, <2>2
  <2>3. ASSUME T = {} PROVE n \notin T
    <3> HIDE DEF T
    <3> QED
      BY <2>3
  <2> HIDE DEF T
  <2> QED
    BY <2>2, <2>3 DEF Runs
<1>1. PICK m \in T : \A k \in T : m <= k
  <2>1. T \subseteq Nat
    OBVIOUS
  <2> HIDE DEF T
  <2> QED
    BY <2>1, LeastNumber
<1>2. m \in 0..n /\ ~ \E b \in [0..n -> S] : Runs(b, m)
  BY <1>1
<1>3. m # 0
  <2>1. [k \in 0..n |-> start] \in [0..n -> S] /\ Runs([k \in 0..n |-> start], 0)
    OBVIOUS
  <2> QED
    BY <1>2, <2>1
<1>4. m - 1 \in 0..n /\ m - 1 \notin T
  <2>1. m - 1 \in 0..n /\ ~(m <= m - 1)
    BY <1>2, <1>3
  <2> HIDE DEF T
  <2> QED
    BY <1>1, <2>1
<1>5. PICK b \in [0..n -> S] : Runs(b, m - 1)
  BY <1>4
<1> DEFINE c == [b EXCEPT ![m] = step[m][b[m - 1]]]
<1>6. m \in 1..n /\ step[m][b[m - 1]] \in S
  BY <1>2, <1>3, <1>4
<1>7. /\ c \in [0..n -> S] /\ c[m] = step[m][b[m - 1]]
      /\ \A k \in 0..n : k # m => c[k] = b[k]
  BY <1>2, <1>6
<1> HIDE DEF c
<1>8. c[0] = start
  BY <1>3, <1>5, <1>7
<1>9. ASSUME NEW k \in 1..m PROVE c[k] = step[k][c[k - 1]]
  <2>1. k - 1 \in 0..n /\ k - 1 # m /\ k \in 0..n
    BY <1>2
  <2>2. c[k - 1] = b[k - 1]
    BY <1>7, <2>1
  <2>3. CASE k = m
    BY <1>7, <2>2, <2>3
  <2>4. CASE k # m
    <3>1. k \in 1..(m - 1)
      BY <1>2, <2>4
    <3> QED
      BY <1>5, <1>7, <2>1, <2>2, <2>4, <3>1
  <2> QED
    BY <2>3, <2>4
<1> QED
  BY <1>2, <1>7, <1>8, <1>9

(* The loop of xfree: the block that grows, and the list it leaves.        *)
Growing == [hdr : Nat, size : Nat, gone : SUBSET Nat, rest : Seq(Nat)]

LEMMA SwallowIs ==
  ASSUME NEW b \in Growing, NEW i \in Nat, size[i] \in Nat
  PROVE  Swallow(b, i) \in Growing
<1>1. b.hdr \in Nat /\ b.size \in Nat /\ b.gone \in SUBSET Nat /\ b.rest \in Seq(Nat)
  BY DEF Growing
<1>2. CASE ~Touches(i, b)
  <2>1. Append(b.rest, i) \in Seq(Nat)
    BY <1>1
  <2>2. Swallow(b, i) = [b EXCEPT !.rest = Append(b.rest, i)]
    BY <1>2 DEF Swallow
  <2> QED
    BY <2>1, <2>2 DEF Growing
<1>3. CASE Touches(i, b)
  <2>1. Swallow(b, i) = [hdr |-> IF i < b.hdr THEN i ELSE b.hdr, size |-> b.size + size[i],
                         gone |-> b.gone \union {i}, rest |-> b.rest]
    BY <1>3 DEF Swallow
  <2>2. (IF i < b.hdr THEN i ELSE b.hdr) \in Nat /\ b.size + size[i] \in Nat
        /\ b.gone \union {i} \in SUBSET Nat
    BY <1>1
  <2> QED
    BY <1>1, <2>1, <2>2 DEF Growing
<1> QED
  BY <1>2, <1>3

LEMMA MergingIs ==
  ASSUME HeapInv, NEW hdr \in DOMAIN size, NEW b, b = Merging(hdr)
  PROVE  /\ b[0] = [hdr |-> hdr, size |-> size[hdr], gone |-> {}, rest |-> << >>]
         /\ \A k \in 1..Len(freelist) : b[k] = Swallow(b[k - 1], freelist[k])
         /\ \A k \in 0..Len(freelist) : b[k] \in Growing
<1> DEFINE n == Len(freelist)
           start == [hdr |-> hdr, size |-> size[hdr], gone |-> {}, rest |-> << >>]
           step == [k \in 1..n |-> [x \in Growing |-> Swallow(x, freelist[k])]]
<1>1. n \in Nat /\ \A k \in 1..n : freelist[k] \in Nat /\ size[freelist[k]] \in Nat
  <2>1. Lists(freelist, FreeBlocks)
    BY DEF HeapInv, ListOk
  <2>2. n \in Nat /\ DOMAIN freelist = 1..n /\ freelist \in Seq(Nat)
    BY <2>1 DEF Lists
  <2>3. \A k \in 1..n : freelist[k] \in FreeBlocks
    BY <2>2 DEF FreeBlocks, Range
  <2> QED
    BY <2>2, <2>3, HeapFacts
<1>2. start \in Growing
  <2>1. hdr \in Nat /\ size[hdr] \in Nat /\ {} \in SUBSET Nat /\ << >> \in Seq(Nat)
    BY HeapFacts, EmptySeq
  <2> QED
    BY <2>1 DEF Growing
<1>3. step \in [1..n -> [Growing -> Growing]]
  BY <1>1, SwallowIs
<1>4. \A k \in 1..n, x \in Growing : step[k][x] = Swallow(x, freelist[k])
  OBVIOUS
<1> HIDE DEF n, start, step
<1>5. PICK c \in [0..n -> Growing] : c[0] = start /\ \A k \in 1..n : c[k] = step[k][c[k - 1]]
  BY <1>1, <1>2, <1>3, Iterated
<1>6. \A k \in 1..n : k \in 0..n /\ k - 1 \in 0..n /\ k # 0
  BY <1>1
<1>7. \A k \in 1..n : c[k] = Swallow(c[k - 1], freelist[k])
  BY <1>4, <1>5, <1>6
<1>8. c = [k \in 0..n |-> IF k = 0 THEN start ELSE Swallow(c[k - 1], freelist[k])]
  <2>1. \A k \in 0..n : k = 0 \/ k \in 1..n
    BY <1>1
  <2> QED
    BY <1>5, <1>7, <2>1
<1>9. b = [k \in 0..n |-> IF k = 0 THEN start ELSE Swallow(b[k - 1], freelist[k])]
  BY <1>8 DEF Merging, n, start
<1>10. b[0] = start /\ \A k \in 1..n : b[k] = Swallow(b[k - 1], freelist[k])
  <2>1. 0 \in 0..n
    BY <1>1
  <2> QED
    BY <1>6, <1>9, <2>1
<1>11. \A k \in 0..n : b[k] \in Growing
  <2> DEFINE T == {k \in 0..n : b[k] \notin Growing}
  <2> SUFFICES ASSUME T # {} PROVE FALSE
    OBVIOUS
  <2>1. PICK m \in T : \A k \in T : m <= k
    <3>1. T \subseteq Nat
      BY <1>1
    <3> HIDE DEF T
    <3> QED
      BY <3>1, LeastNumber
  <2>2. m \in 1..n /\ m - 1 \in 0..n /\ m - 1 \notin T
    BY <1>1, <1>2, <1>10, <2>1
  <2>3. b[m] \in Growing
    BY <1>1, <1>10, <2>2, SwallowIs
  <2> QED
    BY <2>1, <2>3
<1> QED
  BY <1>10, <1>11 DEF n, start

(* After k blocks of the list: b holds just what hdr and the blocks that    *)
(* are gone held, in their page; the others seen are kept; if no free       *)
(* blocks were neighbours, none of the others touches b.                    *)
Seen(k) == {freelist[j] : j \in 1..k}
LoopInv(b, k, hdr) ==
  /\ b \in Growing /\ b.size # 0
  /\ b.gone \subseteq Seen(k) /\ b.hdr \in b.gone \union {hdr}
  /\ Lists(b.rest, Seen(k) \ b.gone)
  /\ \A a \in Nat : (b.hdr <= a /\ a < b.hdr + b.size)
                      <=> \E h \in b.gone \union {hdr} : Holds(size, h, a)
  /\ PageOf(b.hdr) = PageOf(hdr) /\ b.hdr + b.size <= Start(PageOf(hdr)) + PAGE_SIZE
  /\ ~cut => \A q \in Seen(k) \ b.gone : ~Touches(q, b)

LEMMA SeenIs ==
  ASSUME HeapInv
  PROVE  /\ Len(freelist) \in Nat /\ Seen(0) = {} /\ Seen(Len(freelist)) = FreeBlocks
         /\ \A k \in 1..Len(freelist) : /\ Seen(k) = Seen(k - 1) \union {freelist[k]}
                                        /\ freelist[k] \in FreeBlocks
                                        /\ freelist[k] \notin Seen(k - 1)
                                        /\ Seen(k - 1) \subseteq FreeBlocks
<1>1. /\ Len(freelist) \in Nat /\ DOMAIN freelist = 1..Len(freelist)
      /\ \A i, j \in DOMAIN freelist : freelist[i] = freelist[j] => i = j
  BY DEF HeapInv, ListOk, Lists, IsInjective
<1>2. Seen(0) = {} /\ Seen(Len(freelist)) = FreeBlocks
  BY <1>1 DEF Seen, FreeBlocks, Range
<1>3. ASSUME NEW k \in 1..Len(freelist)
      PROVE  /\ Seen(k) = Seen(k - 1) \union {freelist[k]}
             /\ freelist[k] \in FreeBlocks
             /\ freelist[k] \notin Seen(k - 1)
             /\ Seen(k - 1) \subseteq FreeBlocks
  <2>1. 1..k = 1..(k - 1) \union {k} /\ k \notin 1..(k - 1)
        /\ 1..(k - 1) \subseteq DOMAIN freelist /\ k \in DOMAIN freelist
    BY <1>1
  <2>2. Seen(k) = Seen(k - 1) \union {freelist[k]}
    BY <2>1 DEF Seen
  <2>3. freelist[k] \notin Seen(k - 1)
    BY <1>1, <2>1 DEF Seen
  <2>4. freelist[k] \in FreeBlocks /\ Seen(k - 1) \subseteq FreeBlocks
    BY <2>1 DEF Seen, FreeBlocks, Range
  <2> QED
    BY <2>2, <2>3, <2>4
<1> QED
  BY <1>1, <1>2, <1>3

LEMMA LoopStep ==
  ASSUME HeapInv, NEW hdr \in Headers, NEW k \in 1..Len(freelist),
         NEW b, LoopInv(b, k - 1, hdr)
  PROVE  LoopInv(Swallow(b, freelist[k]), k, hdr)
<1> DEFINE i == freelist[k]
           c == Swallow(b, i)
           S == Seen(k - 1)
           page == PageOf(hdr)
<1>1. /\ Seen(k) = S \union {i} /\ i \in FreeBlocks /\ i \notin S /\ S \subseteq FreeBlocks
  BY SeenIs
<1>2. /\ \A h \in DOMAIN size : h \in Nat /\ size[h] \in Nat /\ size[h] # 0
      /\ FreeBlocks \subseteq DOMAIN size /\ FreeBlocks \subseteq Nat /\ hdr \in Nat
      /\ hdr \in DOMAIN size
  BY HeapFacts
<1>3. /\ Small(size, i) /\ i \in Nat /\ size[i] \in Nat /\ size[i] # 0
  BY <1>1, <1>2 DEF HeapInv, ListOk
<1>4. /\ b \in Growing /\ b.size # 0
      /\ b.gone \subseteq S /\ b.hdr \in b.gone \union {hdr}
      /\ Lists(b.rest, S \ b.gone)
      /\ \A a \in Nat : (b.hdr <= a /\ a < b.hdr + b.size)
                          <=> \E h \in b.gone \union {hdr} : Holds(size, h, a)
      /\ PageOf(b.hdr) = page /\ b.hdr + b.size <= Start(page) + PAGE_SIZE
      /\ ~cut => \A q \in S \ b.gone : ~Touches(q, b)
  BY DEF LoopInv
<1>5. b.hdr \in Nat /\ b.size \in Nat /\ b.gone \in SUBSET Nat /\ b.rest \in Seq(Nat)
  BY <1>4 DEF Growing
<1>6. c \in Growing
  BY <1>3, <1>4, SwallowIs
<1> HIDE DEF i, S, page
<1>7. CASE ~Touches(i, b)
  <2>1. c.hdr = b.hdr /\ c.size = b.size /\ c.gone = b.gone /\ c.rest = Append(b.rest, i)
    <3>1. c = [b EXCEPT !.rest = Append(b.rest, i)]
      BY <1>7 DEF Swallow
    <3> HIDE DEF c
    <3> QED
      BY <1>4, <3>1 DEF Growing
  <2> HIDE DEF c
  <2>2. (S \union {i}) \ c.gone = (S \ b.gone) \union {i} /\ i \notin S \ b.gone
    BY <1>1, <1>4, <2>1
  <2>3. Lists(c.rest, (S \union {i}) \ c.gone)
    BY <1>3, <1>4, <2>1, <2>2, ListAppend
  <2>4. ~cut => \A q \in (S \union {i}) \ c.gone : ~Touches(q, c)
    <3>1. \A q : Touches(q, c) <=> Touches(q, b)
      BY <2>1 DEF Touches
    <3> QED
      BY <1>4, <1>7, <2>2, <3>1
  <2>5. c.gone \subseteq S \union {i}
    BY <1>4, <2>1
  <2>6. LoopInv(c, k, hdr)
    BY <1>1, <1>4, <1>6, <2>1, <2>3, <2>4, <2>5 DEF LoopInv, page
  <2> QED
    BY <2>6 DEF c, i
<1>8. CASE Touches(i, b)
  <2>1. /\ c.hdr = (IF i < b.hdr THEN i ELSE b.hdr) /\ c.size = b.size + size[i]
        /\ c.gone = b.gone \union {i} /\ c.rest = b.rest
    BY <1>8 DEF Swallow
  <2> HIDE DEF c
  <2>2. PageOf(i) = page /\ (i + size[i] = b.hdr \/ b.hdr + b.size = i)
    BY <1>4, <1>8 DEF Touches
  <2>3. \/ i + size[i] = b.hdr /\ c.hdr = i /\ c.hdr + c.size = b.hdr + b.size
        \/ b.hdr + b.size = i /\ c.hdr = b.hdr /\ c.hdr + c.size = i + size[i]
    BY <1>3, <1>4, <1>5, <2>1, <2>2
  <2>4. \A a \in Nat : (c.hdr <= a /\ a < c.hdr + c.size)
                         <=> (b.hdr <= a /\ a < b.hdr + b.size) \/ Holds(size, i, a)
    BY <1>3, <1>4, <1>5, <2>3 DEF Holds
  <2>5. \A a \in Nat : (c.hdr <= a /\ a < c.hdr + c.size)
                         <=> \E h \in c.gone \union {hdr} : Holds(size, h, a)
    BY <1>4, <2>1, <2>4
  <2>6. PageOf(c.hdr) = page /\ c.hdr + c.size <= Start(page) + PAGE_SIZE
    BY <1>3, <1>4, <2>2, <2>3 DEF Small
  <2>7. (S \union {i}) \ c.gone = S \ b.gone /\ c.gone \subseteq S \union {i}
    BY <1>1, <1>4, <2>1
  <2>8. ASSUME ~cut, NEW q \in S \ b.gone, Touches(q, c) PROVE FALSE
    <3>1. ~Touches(q, b) /\ q \in FreeBlocks /\ q \in Nat /\ size[q] \in Nat
      BY <1>1, <1>2, <1>4, <2>8
    <3>2. PageOf(q) = page /\ (q + size[q] = c.hdr \/ c.hdr + c.size = q)
      BY <2>6, <2>8 DEF Touches
    <3>3. ~(q + size[q] = i) /\ ~(i + size[i] = q)
      BY <1>1, <2>2, <2>8, <3>1, <3>2 DEF HeapInv, NoNeighbours
    <3>4. ~(q + size[q] = b.hdr) /\ ~(b.hdr + b.size = q)
      BY <1>4, <3>1, <3>2 DEF Touches
    <3> QED
      BY <2>3, <3>2, <3>3, <3>4
  <2>9. c.size # 0 /\ c.hdr \in c.gone \union {hdr}
    BY <1>3, <1>4, <1>5, <2>1
  <2>10. LoopInv(c, k, hdr)
    BY <1>1, <1>4, <1>6, <2>1, <2>5, <2>6, <2>7, <2>8, <2>9 DEF LoopInv, page
  <2> QED
    BY <2>10 DEF c, i
<1> QED
  BY <1>7, <1>8

LEMMA LoopEnds ==
  ASSUME HeapInv, NEW hdr \in Headers, Small(size, hdr)
  PROVE  LoopInv(Merged(hdr), Len(freelist), hdr)
<1> DEFINE b == Merging(hdr)
           T == {k \in 0..Len(freelist) : ~LoopInv(b[k], k, hdr)}
<1>1. hdr \in DOMAIN size /\ hdr \in Nat /\ size[hdr] \in Nat /\ size[hdr] # 0
  BY HeapFacts
<1>2. /\ b[0] = [hdr |-> hdr, size |-> size[hdr], gone |-> {}, rest |-> << >>]
      /\ \A k \in 1..Len(freelist) : b[k] = Swallow(b[k - 1], freelist[k])
      /\ \A k \in 0..Len(freelist) : b[k] \in Growing
  BY <1>1, MergingIs
<1>3. Len(freelist) \in Nat /\ Seen(0) = {}
  BY SeenIs
<1>4. Merged(hdr) = b[Len(freelist)]
  BY DEF Merged
<1> HIDE DEF b
<1>5. SUFFICES ASSUME T # {} PROVE FALSE
  <2>1. Len(freelist) \in 0..Len(freelist)
    BY <1>3
  <2>2. T = {} => LoopInv(b[Len(freelist)], Len(freelist), hdr)
    BY <2>1
  <2> QED
    BY <1>4, <2>2
<1>6. PICK k \in T : \A j \in T : k <= j
  <2>1. T \subseteq Nat
    BY <1>3
  <2> HIDE DEF T
  <2> QED
    BY <1>5, <2>1, LeastNumber
<1>7. LoopInv(b[0], 0, hdr)
  <2>1. /\ b[0].hdr = hdr /\ b[0].size = size[hdr] /\ b[0].gone = {} /\ b[0].rest = << >>
        /\ b[0] \in Growing
    BY <1>2, <1>3
  <2>2. {} \union {hdr} = {hdr} /\ {} \ {} = {}
    OBVIOUS
  <2>3. Lists(b[0].rest, Seen(0) \ b[0].gone)
    BY <1>3, <2>1, <2>2, ListEmpty
  <2>4. \A a \in Nat : (b[0].hdr <= a /\ a < b[0].hdr + b[0].size)
                         <=> \E h \in b[0].gone \union {hdr} : Holds(size, h, a)
    BY <2>1 DEF Holds
  <2> QED
    BY <1>1, <1>3, <2>1, <2>3, <2>4 DEF LoopInv, Small
<1>8. k \in 1..Len(freelist) /\ k - 1 \in 0..Len(freelist) /\ k - 1 \notin T
  BY <1>3, <1>6, <1>7
<1>9. LoopInv(b[k - 1], k - 1, hdr)
  BY <1>8
<1>10. LoopInv(Swallow(b[k - 1], freelist[k]), k, hdr)
  BY <1>8, <1>9, LoopStep
<1> QED
  BY <1>2, <1>6, <1>8, <1>10

(* free takes the object away.                                             *)
LEMMA ObjectRemoved ==
  ASSUME Objects, NEW p \in DOMAIN used, used' = Drop(used, {p}),
         \A k \in Headers \ {used[p].hdr} : size'[k] = size[k]
  PROVE  Objects' /\ Headers' = Headers \ {used[p].hdr}
<1>1. /\ DOMAIN used' = DOMAIN used \ {p}
      /\ \A q \in DOMAIN used' : used'[q] = used[q]
  BY DEF Drop
<1>2. ASSUME NEW q \in DOMAIN used, q # p PROVE used[q].hdr # used[p].hdr
  <2>1. q = used[q].hdr + Room /\ p = used[p].hdr + Room
    BY DEF Objects
  <2> QED
    BY <1>2, <2>1
<1>3. Headers' = Headers \ {used[p].hdr}
  BY <1>1, <1>2 DEF Headers
<1>4. Objects'
  <2> SUFFICES ASSUME NEW q \in DOMAIN used'
               PROVE  /\ used'[q] \in [hdr : Nat, asked : Nat \ {0}] /\ q = used'[q].hdr + Room
                      /\ q + used'[q].asked <= used'[q].hdr + size'[used'[q].hdr]
    BY DEF Objects
  <2>1. used'[q] = used[q] /\ q \in DOMAIN used /\ q # p
    BY <1>1
  <2>2. used[q].hdr \in Headers \ {used[p].hdr}
    BY <1>2, <2>1 DEF Headers
  <2> QED
    BY <2>1, <2>2 DEF Objects
<1> QED
  BY <1>3, <1>4

LEMMA FreeWhole ==
  ASSUME HeapInv, NEW p \in DOMAIN used, Free(p), size[used[p].hdr] >= PAGE_SIZE
  PROVE  HeapInv'
<1> DEFINE h == used[p].hdr
<1>1. /\ used' = Drop(used, {p}) /\ owned' = owned \ PagesOf(h, Chunk(size[h]) * PAGE_SIZE)
      /\ size' = Drop(size, {h}) /\ freelist' = freelist /\ cut' = cut
  BY DEF Free
<1>2. /\ \A k \in DOMAIN size : k \in Nat /\ size[k] \in Nat /\ size[k] # 0
      /\ FreeBlocks \subseteq DOMAIN size /\ Headers \subseteq DOMAIN size
  BY HeapFacts
<1>3. h \in Headers /\ h \in DOMAIN size /\ size[h] >= PAGE_SIZE
  BY <1>2 DEF Headers
<1>4. Tiling(size, owned) /\ Objects /\ ListOk
  BY DEF HeapInv
<1> HIDE DEF h
<1>5. Whole(size, h)
  <2>1. ~Small(size, h)
    BY <1>2, <1>3, HeapConstants DEF Small
  <2> QED
    BY <1>3, <1>4, <2>1 DEF Tiling, BlocksOk
<1>6. Chunk(size[h]) * PAGE_SIZE = size[h]
  <2>1. PICK c \in Chunks : size[h] = Start(c)
    BY <1>5 DEF Whole
  <2>2. Chunk(size[h]) = c
    BY <2>1, ChunkOfChunk
  <2> QED
    BY <2>1, <2>2 DEF Start
<1>7. Tiling(size', owned')
  BY <1>1, <1>3, <1>4, <1>5, <1>6, TilingRemove
<1>8. DOMAIN size' = DOMAIN size \ {h} /\ \A k \in DOMAIN size : k # h => size'[k] = size[k]
  BY <1>1 DEF Drop
<1>9. Objects' /\ Headers' = Headers \ {h}
  <2>1. \A k \in Headers \ {used[p].hdr} : size'[k] = size[k]
    BY <1>2, <1>8 DEF h
  <2> QED
    BY <1>1, <1>4, <2>1, ObjectRemoved DEF h
<1>10. FreeBlocks' = FreeBlocks /\ h \notin FreeBlocks
  BY <1>1, <1>3, <1>4 DEF FreeBlocks, ListOk
<1>11. \A k \in FreeBlocks : size'[k] = size[k]
  BY <1>2, <1>8, <1>10
<1>12. ListOk'
  BY <1>1, <1>3, <1>4, <1>8, <1>9, <1>10, <1>11 DEF ListOk, Small
<1>13. NoNeighbours'
  BY <1>1, <1>10, <1>11 DEF HeapInv, NoNeighbours
<1> QED
  BY <1>1, <1>7, <1>9, <1>12, <1>13 DEF HeapInv

LEMMA FreeSmall ==
  ASSUME HeapInv, NEW p \in DOMAIN used, Free(p), ~(size[used[p].hdr] >= PAGE_SIZE)
  PROVE  HeapInv'
<1> DEFINE h == used[p].hdr
           m == Merged(h)
           G == m.gone \union {h}
           others == Drop(size, G)
           page == PageOf(h)
           x == m.hdr
           n == m.size
<1>1. /\ used' = Drop(used, {p}) /\ cut' = cut
      /\ IF n = PAGE_SIZE
         THEN owned' = owned \ {PageOf(x)} /\ size' = others /\ freelist' = m.rest
         ELSE size' = Put(others, x, n) /\ freelist' = <<x>> \o m.rest /\ owned' = owned
  BY DEF Free
<1>2. /\ \A k \in DOMAIN size : k \in Nat /\ size[k] \in Nat /\ size[k] # 0
      /\ FreeBlocks \subseteq DOMAIN size /\ Headers \subseteq DOMAIN size /\ FreeBlocks \subseteq Nat
  BY HeapFacts
<1>3. h \in Headers /\ h \in DOMAIN size /\ ~(size[h] >= PAGE_SIZE)
  BY <1>2 DEF Headers
<1>4. Tiling(size, owned) /\ Objects /\ ListOk
  BY DEF HeapInv
<1>5. Small(size, h)
  <2> SUFFICES ASSUME Whole(size, h) PROVE FALSE
    BY <1>3, <1>4 DEF Tiling, BlocksOk
  <2>1. PICK c \in Chunks : size[h] = Start(c)
    BY DEF Whole
  <2>2. c \in Nat /\ c # 0
    BY HeapConstants
  <2>3. Start(0) + PAGE_SIZE <= Start(c) /\ Start(0) = 0
    BY <2>2, StartOf
  <2> QED
    BY <1>2, <1>3, <2>1, <2>3, HeapConstants
<1>6. LoopInv(m, Len(freelist), h)
  BY <1>3, <1>5, LoopEnds
<1>7. Seen(Len(freelist)) = FreeBlocks
  BY SeenIs
<1> HIDE DEF m, h
<1>8. /\ x \in Nat /\ n \in Nat /\ n # 0 /\ m.gone \subseteq FreeBlocks /\ x \in G
      /\ Lists(m.rest, FreeBlocks \ m.gone)
      /\ \A a \in Nat : (x <= a /\ a < x + n) <=> \E k \in G : Holds(size, k, a)
      /\ PageOf(x) = page /\ x + n <= Start(page) + PAGE_SIZE
      /\ ~cut => \A q \in FreeBlocks \ m.gone : ~Touches(q, m)
  BY <1>6, <1>7 DEF LoopInv, Growing
<1>9. G \subseteq DOMAIN size /\ h \notin FreeBlocks
  BY <1>2, <1>3, <1>4, <1>8 DEF ListOk
<1>10. page \in Nat /\ Start(page) \in Nat /\ Start(page) <= x /\ n <= PAGE_SIZE
  <2>1. page \in Nat /\ Start(page) \in Nat /\ Start(page) <= x
    BY <1>8, PageIs, StartOf
  <2> QED
    BY <1>8, <2>1, HeapConstants
<1>11. DOMAIN others = DOMAIN size \ G /\ \A k \in DOMAIN size \ G : others[k] = size[k]
  BY DEF Drop
<1> HIDE DEF page, x, n, G
<1>12. ASSUME \A k \in DOMAIN size \ G : size'[k] = size[k]
       PROVE  /\ Objects' /\ Headers' = Headers \ {h}
              /\ \A k \in FreeBlocks \ m.gone : size'[k] = size[k] /\ Small(size', k)
  <2>1. \A k \in Headers \ {used[p].hdr} : size'[k] = size[k]
    BY <1>2, <1>4, <1>8, <1>12 DEF h, G, ListOk
  <2>2. Objects' /\ Headers' = Headers \ {h}
    BY <1>1, <1>4, <2>1, ObjectRemoved DEF h
  <2>3. ASSUME NEW k \in FreeBlocks \ m.gone
        PROVE  size'[k] = size[k] /\ Small(size', k)
    <3>1. size'[k] = size[k]
      BY <1>2, <1>9, <1>12, <2>3 DEF G
    <3>2. Small(size, k)
      BY <1>4 DEF ListOk
    <3> QED
      BY <3>1, <3>2 DEF Small
  <2> QED
    BY <2>2, <2>3
<1>13. CASE n = PAGE_SIZE
  <2>1. owned' = owned \ {page} /\ size' = others /\ freelist' = m.rest
    BY <1>1, <1>8, <1>13
  <2>2. x = Start(page)
    BY <1>8, <1>10, <1>13, HeapConstants
  <2> DEFINE f == Put(others, x, n)
  <2>3. 1 \in Chunks /\ Start(1) = PAGE_SIZE
    BY HeapConstants, StartOf
  <2>4. Tiling(f, owned)
    <3>1. \E base \in Nat, c \in Chunks : x = Start(base) /\ n = Start(c)
      BY <1>10, <1>13, <2>2, <2>3
    <3> QED
      BY <1>4, <1>8, <1>9, <3>1, TilingMerge
  <2>5. f[x] = n /\ x \in DOMAIN f /\ x \notin DOMAIN others /\ Drop(f, {x}) = others
    <3>1. x \notin DOMAIN others
      BY <1>8, <1>11
    <3>2. others = [k \in DOMAIN others |-> others[k]]
      BY DEF Drop
    <3> HIDE DEF others
    <3>3. f[x] = n /\ DOMAIN f = DOMAIN others \union {x} /\ \A k \in DOMAIN others : f[k] = others[k]
      BY <3>1 DEF Put
    <3>4. Drop(f, {x}) = [k \in DOMAIN others |-> f[k]]
      <4>1. DOMAIN f \ {x} = DOMAIN others
        BY <3>1, <3>3
      <4> QED
        BY <4>1 DEF Drop
    <3> QED
      BY <3>1, <3>2, <3>3, <3>4
  <2> HIDE DEF f
  <2>6. PagesOf(x, f[x]) = {page}
    <3>1. PagesOf(Start(page), Start(1)) = page..(page + 1 - 1)
      BY <1>10, PagesInARow
    <3>2. page..(page + 1 - 1) = {page}
      BY <1>10
    <3> QED
      BY <1>13, <2>2, <2>3, <2>5, <3>1, <3>2
  <2>7. Tiling(size', owned')
    <3>1. Whole(f, x)
      BY <1>10, <1>13, <2>2, <2>3, <2>5 DEF Whole
    <3>2. Tiling(Drop(f, {x}), owned \ PagesOf(x, f[x]))
      BY <2>4, <2>5, <3>1, TilingRemove
    <3> QED
      BY <2>1, <2>5, <2>6, <3>2
  <2>8. \A k \in DOMAIN size \ G : size'[k] = size[k]
    BY <1>11, <2>1
  <2>9. FreeBlocks' = FreeBlocks \ m.gone
    BY <1>8, <2>1 DEF Lists, FreeBlocks
  <2>10. DOMAIN size' = FreeBlocks' \union Headers' /\ FreeBlocks' \intersect Headers' = {}
    <3>1. DOMAIN size' = DOMAIN size \ G /\ Headers' = Headers \ {h}
      BY <1>11, <1>12, <2>1, <2>8
    <3>2. DOMAIN size = FreeBlocks \union Headers /\ FreeBlocks \intersect Headers = {}
      BY <1>4 DEF ListOk
    <3> HIDE DEF others
    <3> QED
      BY <1>8, <1>9, <2>9, <3>1, <3>2 DEF G
  <2>11. ListOk'
    BY <1>8, <1>12, <2>1, <2>8, <2>9, <2>10 DEF ListOk
  <2>12. NoNeighbours'
    BY <1>1, <1>12, <2>8, <2>9 DEF HeapInv, NoNeighbours
  <2> QED
    BY <1>1, <1>12, <2>7, <2>8, <2>11, <2>12 DEF HeapInv
<1>14. CASE n # PAGE_SIZE
  <2>1. owned' = owned /\ size' = Put(others, x, n) /\ freelist' = <<x>> \o m.rest
    BY <1>1, <1>14
  <2>2. n < PAGE_SIZE /\ x + n <= Start(PageOf(x)) + PAGE_SIZE
    BY <1>8, <1>10, <1>14, HeapConstants DEF page
  <2>3. Tiling(size', owned')
    BY <1>4, <1>8, <1>9, <2>1, <2>2, TilingMerge
  <2>4. x \notin DOMAIN others
    BY <1>8, <1>11
  <2> HIDE DEF others
  <2>5. /\ DOMAIN size' = DOMAIN others \union {x} /\ size'[x] = n
        /\ \A k \in DOMAIN size \ G : size'[k] = size[k]
    BY <1>11, <2>1, <2>4 DEF Put
  <2>6. x \notin FreeBlocks \ m.gone
    BY <1>8, <1>9 DEF G
  <2>7. Lists(freelist', (FreeBlocks \ m.gone) \union {x})
    BY <1>8, <2>1, <2>6, ListCons
  <2>8. FreeBlocks' = (FreeBlocks \ m.gone) \union {x}
    BY <2>7 DEF Lists, FreeBlocks
  <2>9. Objects' /\ Headers' = Headers \ {h}
        /\ \A k \in FreeBlocks \ m.gone : size'[k] = size[k] /\ Small(size', k)
    BY <1>12, <2>5
  <2>10. DOMAIN size' = FreeBlocks' \union Headers' /\ FreeBlocks' \intersect Headers' = {}
    BY <1>4, <1>8, <1>9, <1>11, <2>5, <2>8, <2>9 DEF ListOk, G
  <2>11. Small(size', x)
    BY <2>2, <2>5 DEF Small
  <2>12. ListOk'
    BY <2>7, <2>8, <2>9, <2>10, <2>11 DEF ListOk
  <2>13. NoNeighbours'
    <3> SUFFICES ASSUME ~cut, NEW i \in FreeBlocks', NEW k \in FreeBlocks',
                        i + size'[i] = k, PageOf(i) = PageOf(k)
                 PROVE  FALSE
      BY <1>1 DEF NoNeighbours
    <3>1. CASE i = x /\ k = x
      BY <1>8, <2>5, <3>1
    <3>2. CASE i = x /\ k \in FreeBlocks \ m.gone
      <4>1. Touches(k, m)
        BY <2>5, <3>2 DEF Touches, x, n
      <4> QED
        BY <1>8, <3>2, <4>1
    <3>3. CASE k = x /\ i \in FreeBlocks \ m.gone
      <4>1. Touches(i, m)
        BY <2>9, <3>3 DEF Touches, x
      <4> QED
        BY <1>8, <3>3, <4>1
    <3>4. CASE i \in FreeBlocks \ m.gone /\ k \in FreeBlocks \ m.gone
      BY <2>9, <3>4 DEF HeapInv, NoNeighbours
    <3> QED
      BY <2>8, <3>1, <3>2, <3>3, <3>4
  <2> QED
    BY <1>1, <2>3, <2>9, <2>12, <2>13 DEF HeapInv
<1> QED
  BY <1>13, <1>14

LEMMA HeapStart == HeapInit => HeapInv
<1> SUFFICES ASSUME HeapInit PROVE HeapInv
  OBVIOUS
<1>1. size = << >> /\ freelist = << >> /\ used = << >> /\ owned = {} /\ cut = FALSE
  BY DEF HeapInit
<1>2. size \in [DOMAIN size -> Nat] /\ DOMAIN size = {} /\ DOMAIN used = {}
  <2>1. << >> \in Seq(Nat) /\ Len(<< >>) = 0
    BY EmptySeq
  <2>2. << >> \in [1..0 -> Nat] /\ DOMAIN << >> = 1..0
    BY <2>1, LenProperties
  <2> QED
    BY <1>1, <2>2
<1>3. FreeBlocks = {} /\ Headers = {} /\ Lists(freelist, {})
  BY <1>1, <1>2, ListEmpty DEF FreeBlocks, Headers, Lists
<1>4. Tiling(size, owned)
  BY <1>1, <1>2 DEF Tiling, BlocksOk, Apart, Covers
<1>5. ListOk /\ Objects /\ NoNeighbours
  BY <1>2, <1>3 DEF ListOk, Objects, NoNeighbours
<1> QED
  BY <1>1, <1>4, <1>5 DEF HeapInv

LEMMA HeapStep ==
  ASSUME HeapInv, [HeapNext]_heapVars, "big" \notin Reallocs \/ ~cut'
  PROVE  HeapInv'
<1>1. ASSUME NEW n \in Sizes, Malloc(n) PROVE HeapInv'
  <2>1. cut' = cut
    BY <1>1 DEF Malloc
  <2>2. CASE IsBig(n)
    <3>1. XmallocWholePages(n)
      BY <1>1, <2>2 DEF Malloc
    <3> QED
      BY <2>1, <3>1, HeapWholePages
  <2>3. CASE ~IsBig(n)
    <3>1. TakeFree(n) \/ XmallocNewPage(n)
      BY <1>1, <2>3 DEF Malloc
    <3> QED
      BY <2>1, <2>3, <3>1, HeapTakeFree, HeapNewPage
  <2> QED
    BY <2>2, <2>3
<1>2. ASSUME NEW p \in DOMAIN used, Free(p) PROVE HeapInv'
  BY <1>2, FreeWhole, FreeSmall
<1>3. ASSUME NEW p \in DOMAIN used, NEW n \in Sizes, Realloc(p, n) PROVE HeapInv'
  BY <1>3, HeapRealloc
<1>4. CASE UNCHANGED heapVars
  BY <1>4 DEF heapVars, HeapInv, Tiling, BlocksOk, Apart, Covers, ListOk, Objects, NoNeighbours,
              FreeBlocks, Headers, Lists
<1> QED
  BY <1>1, <1>2, <1>3, <1>4 DEF HeapNext

(* The heap is in order as long as realloc does not cut an object of whole *)
(* pages.                                                                  *)
Uncut == "big" \notin Reallocs \/ ~cut

LEMMA UncutBefore ==
  ASSUME [HeapNext]_heapVars, cut \in BOOLEAN, Uncut'
  PROVE  Uncut
<1>1. cut' = cut \/ (cut => cut')
  BY DEF HeapNext, heapVars, Malloc, Free, Realloc
<1> QED
  BY <1>1 DEF Uncut

HeapKept == cut \in BOOLEAN /\ (Uncut => HeapInv)

LEMMA HeapKeptAlways == HeapSpec => []HeapKept
<1>1. HeapInit => HeapKept
  BY HeapStart DEF HeapKept, HeapInv
<1>2. HeapKept /\ [HeapNext]_heapVars => HeapKept'
  <2> SUFFICES ASSUME HeapKept, [HeapNext]_heapVars PROVE HeapKept'
    OBVIOUS
  <2>1. cut' \in BOOLEAN
    BY DEF HeapKept, HeapNext, heapVars, Malloc, Free, Realloc
  <2>2. ASSUME Uncut' PROVE HeapInv'
    <3>1. HeapInv
      BY <2>2, UncutBefore DEF HeapKept
    <3>2. "big" \notin Reallocs \/ ~cut'
      BY <2>2 DEF Uncut
    <3> QED
      BY <3>1, <3>2, HeapStep
  <2> QED
    BY <2>1, <2>2 DEF HeapKept
<1> QED
  BY <1>1, <1>2, PTL DEF HeapSpec

(* However much is malloced, freed and, if it is small, realloced, on any  *)
(* machine: the blocks tile the pages, each object lies in a block of its  *)
(* own, and no page has two owners (xmalloc.c as a whole).                 *)
THEOREM HeapIsSound ==
  ASSUME "big" \notin Reallocs
  PROVE  HeapSpec => []HeapSound
<1>1. HeapKept => HeapSound
  BY HeapInvSound DEF HeapKept, Uncut
<1> QED
  BY <1>1, HeapKeptAlways, PTL

(* As long as realloc has cut no object, whatever else it was given: no    *)
(* page is kept for free blocks alone (the single pass of xfree).          *)
THEOREM EmptyPagesGoBack == HeapSpec => []EmptyPagesReturned
<1>1. HeapKept => EmptyPagesReturned
  <2>1. ASSUME HeapKept, cut PROVE EmptyPagesReturned
    BY <2>1 DEF EmptyPagesReturned
  <2>2. ASSUME HeapKept, ~cut PROVE EmptyPagesReturned
    BY <2>2, HeapInvEmpty DEF HeapKept, Uncut
  <2> QED
    BY <2>1, <2>2
<1> QED
  BY <1>1, HeapKeptAlways, PTL

------------------------------------------------------------------------------
(* A loop that is run n times leads somewhere. *)
Reaches(f, a, step, n, S) ==
  f \in [0..n -> S] /\ f[0] = a /\ \A k \in 1..n : f[k] = step[k][f[k - 1]]

LEMMA LoopReaches ==
  ASSUME NEW N \in Nat, NEW S, NEW a \in S, NEW step \in [1..N -> [S -> S]]
  PROVE  \E f : Reaches(f, a, step, N, S)
<1> DEFINE T == {n \in 0..N : ~ \E f : Reaches(f, a, step, n, S)}
<1> SUFFICES ASSUME T # {} PROVE FALSE
  <2>1. N \in 0..N
    OBVIOUS
  <2> QED
    BY <2>1, Zenon
<1>1. PICK n \in T : \A i \in T : n <= i
  <2>1. T \subseteq Nat
    OBVIOUS
  <2> HIDE DEF T
  <2> QED
    BY <2>1, LeastNumber
<1>2. n # 0
  <2>1. Reaches([i \in 0..0 |-> a], a, step, 0, S)
    BY DEF Reaches
  <2> QED
    BY <1>1, <2>1
<1>3. n \in 1..N /\ n - 1 \in 0..N /\ n - 1 \notin T
  BY <1>1, <1>2
<1>4. PICK f : Reaches(f, a, step, n - 1, S)
  BY <1>3
<1> DEFINE g == [i \in 0..n |-> IF i = n THEN step[n][f[n - 1]] ELSE f[i]]
<1>5. f[n - 1] \in S /\ step[n] \in [S -> S] /\ step[n][f[n - 1]] \in S
  BY <1>3, <1>4 DEF Reaches
<1>6. Reaches(g, a, step, n, S)
  <2>1. ASSUME NEW i \in 0..n PROVE g[i] \in S
    BY <1>3, <1>4, <1>5 DEF Reaches
  <2>2. g[0] = a
    BY <1>3, <1>4 DEF Reaches
  <2>3. ASSUME NEW k \in 1..n PROVE g[k] = step[k][g[k - 1]]
    <3>1. k - 1 \in 0..n /\ k - 1 # n /\ g[k - 1] = f[k - 1] /\ k \in 0..n
      BY <1>3
    <3>2. CASE k = n
      BY <3>1, <3>2
    <3>3. CASE k # n
      <4>1. k \in 1..(n - 1) /\ g[k] = f[k]
        BY <1>3, <3>1, <3>3
      <4> QED
        BY <1>4, <3>1, <4>1 DEF Reaches
    <3> QED
      BY <3>2, <3>3
  <2> HIDE DEF g
  <2>4. g \in [0..n -> S]
    BY <2>1 DEF g
  <2> QED
    BY <2>2, <2>3, <2>4 DEF Reaches
<1> QED
  BY <1>1, <1>6

(* The loop that copies goes through the bytes the loop before it counted. *)
LEMMA CopiesWhatItCounts ==
  ASSUME NEW m, NEW ss, NEW n \in Nat, Len(ss) = n,
         NEW pieces, pieces \in Seq(Seq(Nat)), Len(pieces) = n,
         \A k \in 1..n : SizeIn(m, ss[k]) = Len(pieces[k])
  PROVE  Joined(pieces) \in Seq(Nat) /\ Len(Joined(pieces)) = SumSizes(m, ss)
<1>0. \A k \in 1..n : pieces[k] \in Seq(Nat) /\ Len(pieces[k]) \in Nat
  OBVIOUS
<1> DEFINE S == Seq(Nat)
           add == [k \in 1..n |-> [x \in S |-> x \o pieces[k]]]
           count == [k \in 1..n |-> [x \in Nat |-> x + Len(pieces[k])]]
<1>1. PICK f : Reaches(f, << >>, add, n, S)
  <2>1. add \in [1..n -> [S -> S]] /\ << >> \in S
    BY <1>0
  <2> HIDE DEF add, S
  <2> QED
    BY <2>1, LoopReaches
<1>2. PICK h : Reaches(h, 0, count, n, Nat)
  <2>1. count \in [1..n -> [Nat -> Nat]] /\ 0 \in Nat
    BY <1>0
  <2> HIDE DEF count
  <2> QED
    BY <2>1, LoopReaches
<1>3. f \in [0..n -> S] /\ f[0] = << >> /\ \A k \in 1..n : f[k] = f[k - 1] \o pieces[k]
  <2>1. \A k \in 1..n, x \in S : add[k][x] = x \o pieces[k]
    BY Zenon
  <2> HIDE DEF add, S
  <2>2. f \in [0..n -> S] /\ f[0] = << >> /\ \A k \in 1..n : f[k] = add[k][f[k - 1]]
    BY <1>1 DEF Reaches
  <2>3. ASSUME NEW k \in 1..n PROVE f[k] = f[k - 1] \o pieces[k]
    <3>1. k - 1 \in 0..n
      OBVIOUS
    <3>2. f[k - 1] \in S
      BY <2>2, <3>1
    <3> QED
      BY <2>1, <2>2, <3>2
  <2> QED
    BY <2>2, <2>3
<1>4. h \in [0..n -> Nat] /\ h[0] = 0 /\ \A k \in 1..n : h[k] = h[k - 1] + Len(pieces[k])
  <2>1. \A k \in 1..n, x \in Nat : count[k][x] = x + Len(pieces[k])
    BY Zenon
  <2> HIDE DEF count
  <2>2. h \in [0..n -> Nat] /\ h[0] = 0 /\ \A k \in 1..n : h[k] = count[k][h[k - 1]]
    BY <1>2 DEF Reaches
  <2>3. ASSUME NEW k \in 1..n PROVE h[k] = h[k - 1] + Len(pieces[k])
    <3>1. k - 1 \in 0..n
      OBVIOUS
    <3>2. h[k - 1] \in Nat
      BY <2>2, <3>1
    <3> QED
      BY <2>1, <2>2, <3>2
  <2> QED
    BY <2>2, <2>3
<1> DEFINE F == CHOOSE c : c = [k \in 0..Len(pieces) |-> IF k = 0 THEN << >> ELSE c[k - 1] \o pieces[k]]
           H == CHOOSE c : c = [k \in 0..Len(ss) |-> IF k = 0 THEN 0 ELSE c[k - 1] + SizeIn(m, ss[k])]
<1>5. /\ F = [k \in 0..n |-> IF k = 0 THEN << >> ELSE F[k - 1] \o pieces[k]]
      /\ Joined(pieces) = F[n]
  <2>1. f = [k \in 0..Len(pieces) |-> IF k = 0 THEN << >> ELSE f[k - 1] \o pieces[k]]
    <3>1. \A k \in 0..n : f[k] = IF k = 0 THEN << >> ELSE f[k - 1] \o pieces[k]
      <4>1. \A k \in 0..n : k = 0 \/ k \in 1..n
        OBVIOUS
      <4>2. \A k \in 1..n : k # 0
        OBVIOUS
      <4> QED
        BY <1>3, <4>1, <4>2, Zenon
    <3>2. f = [k \in 0..n |-> f[k]]
      BY <1>3, Zenon
    <3> QED
      BY <3>1, <3>2, Zenon
  <2>2. F = [k \in 0..Len(pieces) |-> IF k = 0 THEN << >> ELSE F[k - 1] \o pieces[k]]
    BY <2>1, Zenon
  <2>3. Joined(pieces) = F[Len(pieces)]
    BY DEF Joined
  <2> HIDE DEF F
  <2> QED
    BY <2>2, <2>3
<1>6. /\ H = [k \in 0..n |-> IF k = 0 THEN 0 ELSE H[k - 1] + SizeIn(m, ss[k])]
      /\ SumSizes(m, ss) = H[n]
  <2>1. h = [k \in 0..Len(ss) |-> IF k = 0 THEN 0 ELSE h[k - 1] + SizeIn(m, ss[k])]
    BY <1>4
  <2>2. H = [k \in 0..Len(ss) |-> IF k = 0 THEN 0 ELSE H[k - 1] + SizeIn(m, ss[k])]
    BY <2>1, Zenon
  <2>3. SumSizes(m, ss) = H[Len(ss)]
    BY DEF SumSizes
  <2> HIDE DEF H
  <2> QED
    BY <2>2, <2>3
<1> HIDE DEF F, H
<1>7. /\ \A k \in 0..n : F[k] = IF k = 0 THEN << >> ELSE F[k - 1] \o pieces[k]
      /\ \A k \in 0..n : H[k] = IF k = 0 THEN 0 ELSE H[k - 1] + SizeIn(m, ss[k])
  BY <1>5, <1>6, Zenon
<1> DEFINE T == {i \in 0..n : ~(F[i] \in Seq(Nat) /\ Len(F[i]) = H[i])}
<1>8. ASSUME T # {} PROVE FALSE
  <2>1. T \subseteq Nat
    OBVIOUS
  <2>2. PICK i \in T : \A j \in T : i <= j
    <3> HIDE DEF T
    <3> QED
      BY <1>8, <2>1, LeastNumber
  <2>3. 0 \in 0..n /\ F[0] = << >> /\ H[0] = 0
    <3>1. 0 \in 0..n
      OBVIOUS
    <3>2. F[0] = IF 0 = 0 THEN << >> ELSE F[0 - 1] \o pieces[0]
      BY <1>7, <3>1, Zenon
    <3>3. H[0] = IF 0 = 0 THEN 0 ELSE H[0 - 1] + SizeIn(m, ss[0])
      BY <1>7, <3>1, Zenon
    <3>4. F[0] = << >> /\ H[0] = 0
      BY <3>2, <3>3, Zenon
    <3> QED
      BY <3>1, <3>4
  <2>4. i # 0
    <3>1. F[0] \in Seq(Nat) /\ Len(F[0]) = H[0]
      BY <2>3
    <3> QED
      BY <2>2, <3>1, Zenon
  <2>5. i \in 1..n /\ i - 1 \in 0..n /\ i - 1 \notin T
    BY <2>2, <2>4
  <2>6. F[i - 1] \in Seq(Nat) /\ Len(F[i - 1]) = H[i - 1]
    BY <2>5
  <2>7. F[i] = F[i - 1] \o pieces[i]
    BY <1>7, <2>4, <2>5, Zenon
  <2>8. H[i] = H[i - 1] + SizeIn(m, ss[i])
    BY <1>7, <2>4, <2>5, Zenon
  <2>9. pieces[i] \in Seq(Nat) /\ SizeIn(m, ss[i]) = Len(pieces[i])
    BY <1>0, <2>5
  <2>10. F[i] \in Seq(Nat) /\ Len(F[i]) = Len(F[i - 1]) + Len(pieces[i])
    <3>1. \A u, v \in Seq(Nat) : u \o v \in Seq(Nat) /\ Len(u \o v) = Len(u) + Len(v)
      OBVIOUS
    <3> QED
      BY <2>6, <2>7, <2>9, <3>1, Zenon
  <2> QED
    BY <2>2, <2>6, <2>8, <2>9, <2>10
<1>9. n \in 0..n /\ n \notin T
  BY <1>8
<1> QED
  BY <1>5, <1>6, <1>9

------------------------------------------------------------------------------
(* A string lies at s below t: its size, its bytes and a terminator. *)
LiesAt(m, t, s, string) ==
  /\ s \in Nat /\ string \in Seq(Nat)
  /\ s + SzAlloc(Len(string)) <= t
  /\ m[s * WordBytes] = Len(string)
  /\ \A k \in 1..Len(string) : m[(s + 1) * WordBytes + k - 1] = string[k]
  /\ m[(s + 1) * WordBytes + Len(string)] = 0

(* The inductive invariant: every string still used lies below top. *)
StringInv ==
  /\ mem \in [Memory -> Nat] /\ top \in 0..Words
  /\ \A s \in DOMAIN live : LiesAt(mem, top, s, live[s])

(* The words of a string have room for its bytes and the terminator. *)
LEMMA WordsOfString ==
  ASSUME NEW n \in Nat
  PROVE  SzAlloc(n) \in Nat /\ SzAlloc(n) >= 1 /\ SzAlloc(n) * WordBytes > WordBytes + n
<1> DEFINE b == n + 1 + WordBytes - 1
           q == b \div WordBytes
<1>0. WordBytes \in Nat /\ WordBytes >= 1
  BY StringsAssumption
<1>1. b \in Nat
  BY <1>0
<1>2. q \in Nat /\ WordBytes * q > b - WordBytes
  <2> HIDE DEF b
  <2> QED
    BY <1>0, <1>1
<1>3. SzAlloc(n) = 1 + q
  BY DEF SzAlloc
<1> HIDE DEF q
<1>4. (1 + q) * WordBytes = WordBytes + WordBytes * q
  BY <1>0, <1>2
<1>5. WordBytes * q \in Nat
  BY <1>0, <1>2
<1> QED
  BY <1>0, <1>2, <1>3, <1>4, <1>5

(* Where the bytes of a string are. *)
LEMMA BytesOfString ==
  ASSUME NEW s \in Nat, NEW n \in Nat, NEW t \in 0..Words, s + SzAlloc(n) <= t
  PROVE  /\ s * WordBytes \in Memory /\ (s + 1) * WordBytes \in Memory
         /\ s * WordBytes < (s + 1) * WordBytes
         /\ (s + 1) * WordBytes + n < t * WordBytes
         /\ \A k \in 0..n : (s + 1) * WordBytes + k \in Memory
<1> DEFINE z == SzAlloc(n)
<1>0. WordBytes \in Nat /\ WordBytes >= 1 /\ Words \in Nat /\ t \in Nat
  BY StringsAssumption
<1>1. z \in Nat /\ z * WordBytes > WordBytes + n
  BY WordsOfString
<1> HIDE DEF z
<1>2. (s + 1) * WordBytes = s * WordBytes + WordBytes
  BY <1>0
<1>3. s * WordBytes + z * WordBytes <= t * WordBytes
  <2>1. PICK d \in Nat : t = s + z + d
    <3>1. s + z <= t
      BY DEF z
    <3>2. t - (s + z) \in Nat /\ t = s + z + (t - (s + z))
      BY <1>0, <1>1, <3>1
    <3> QED
      BY <3>2
  <2>2. t * WordBytes = s * WordBytes + z * WordBytes + d * WordBytes
    BY <1>0, <1>1, <2>1
  <2>3. d * WordBytes \in Nat /\ s * WordBytes \in Nat /\ z * WordBytes \in Nat
    BY <1>0, <1>1
  <2> QED
    BY <2>2, <2>3
<1>4. t * WordBytes <= Words * WordBytes
  <2>1. PICK d \in Nat : Words = t + d
    <3>1. Words - t \in Nat /\ Words = t + (Words - t)
      BY <1>0
    <3> QED
      BY <3>1
  <2>2. Words * WordBytes = t * WordBytes + d * WordBytes
    BY <1>0, <2>1
  <2>3. d * WordBytes \in Nat /\ t * WordBytes \in Nat
    BY <1>0
  <2> QED
    BY <2>2, <2>3
<1>5. s * WordBytes \in Nat /\ t * WordBytes \in Nat /\ Words * WordBytes \in Nat /\ z * WordBytes \in Nat
  BY <1>0, <1>1
<1> QED
  BY <1>0, <1>1, <1>2, <1>3, <1>4, <1>5 DEF Memory

(* What a program reads of a string that lies somewhere. *)
LEMMA ReadsString ==
  ASSUME NEW m, NEW t \in 0..Words, NEW s, NEW string, LiesAt(m, t, s, string)
  PROVE  /\ SizeIn(m, s) = Len(string) /\ DataIn(m, s) = string
         /\ ByteIn(m, s, Len(string)) = 0
<1> DEFINE n == Len(string)
<1>1. /\ s \in Nat /\ string \in Seq(Nat) /\ n \in Nat /\ s + SzAlloc(n) <= t
      /\ m[s * WordBytes] = n
      /\ \A k \in 1..n : m[(s + 1) * WordBytes + k - 1] = string[k]
      /\ m[(s + 1) * WordBytes + n] = 0
  BY DEF LiesAt
<1>2. \A k \in 0..n : (s + 1) * WordBytes + k \in Memory
  BY <1>1, BytesOfString
<1>3. SizeIn(m, s) = n
  BY <1>1 DEF SizeIn
<1>4. ByteIn(m, s, n) = 0
  BY <1>1, <1>2 DEF ByteIn
<1>5. ASSUME NEW k \in 1..n PROVE ByteIn(m, s, k - 1) = string[k]
  <2>1. k - 1 \in 0..n /\ (s + 1) * WordBytes + (k - 1) = (s + 1) * WordBytes + k - 1
    BY <1>1, StringsAssumption
  <2> QED
    BY <1>1, <1>2, <2>1 DEF ByteIn
<1>6. string = [k \in 1..n |-> string[k]]
  BY <1>1
<1>7. DataIn(m, s) = [k \in 1..n |-> ByteIn(m, s, k - 1)]
  BY <1>3 DEF DataIn
<1> HIDE DEF n
<1>8. DataIn(m, s) = string
  BY <1>5, <1>6, <1>7, Zenon
<1> QED
  BY <1>3, <1>4, <1>8 DEF n

(* A string that is stored lies where it was stored, and damages none of   *)
(* those below it.                                                         *)
LEMMA StoresString ==
  ASSUME NEW m, m \in [Memory -> Nat], NEW a \in Nat, NEW data \in Seq(Nat),
         a + SzAlloc(Len(data)) <= Words
  PROVE  LET w == Store(TagIn(m, a, Len(data)), a, data)
             end == a + SzAlloc(Len(data))
         IN /\ w \in [Memory -> Nat] /\ end \in 0..Words
            /\ LiesAt(w, end, a, data)
            /\ \A s, string : LiesAt(m, a, s, string) => LiesAt(w, end, s, string)
<1> DEFINE n == Len(data)
           first == (a + 1) * WordBytes
           w == Store(TagIn(m, a, n), a, data)
           end == a + SzAlloc(n)
<1>1. n \in Nat /\ SzAlloc(n) \in Nat /\ end \in 0..Words /\ Words \in 0..Words
  <2>1. n \in Nat /\ end <= Words
    OBVIOUS
  <2> HIDE DEF n
  <2>2. SzAlloc(n) \in Nat
    BY <2>1, WordsOfString
  <2> QED
    BY <2>1, <2>2, StringsAssumption
<1>2. /\ a * WordBytes \in Memory /\ first \in Memory /\ a * WordBytes < first
      /\ \A k \in 0..n : first + k \in Memory
  <2>1. a + SzAlloc(n) <= Words
    OBVIOUS
  <2> HIDE DEF n
  <2> QED
    BY <1>1, <2>1, BytesOfString
<1>3. Memory \subseteq Nat /\ a * WordBytes \in Nat /\ first \in Nat
  BY <1>2, StringsAssumption DEF Memory
<1>4. /\ w \in [Memory -> Nat]
      /\ \A i \in Memory : w[i] = IF i \in first..(first + n - 1) THEN data[i - first + 1]
                                 ELSE IF i = first + n THEN 0
                                 ELSE IF i = a * WordBytes THEN n ELSE m[i]
  <2> DEFINE tagged == TagIn(m, a, n)
  <2>1. /\ tagged \in [Memory -> Nat]
        /\ \A i \in Memory : tagged[i] = IF i = a * WordBytes THEN n ELSE m[i]
    BY <1>1, <1>2 DEF TagIn
  <2> HIDE DEF tagged
  <2>2. w = [i \in Memory |-> IF i \in first..(first + n - 1) THEN data[i - first + 1]
                              ELSE IF i = first + n THEN 0 ELSE tagged[i]]
    BY DEF Store, tagged
  <2>3. ASSUME NEW i \in Memory, i \in first..(first + n - 1) PROVE data[i - first + 1] \in Nat
    <3>1. i - first + 1 \in 1..n
      BY <1>1, <1>3, <2>3
    <3> QED
      BY <3>1
  <2> HIDE DEF w, n, first
  <2>4. \A i \in Memory : w[i] = IF i \in first..(first + n - 1) THEN data[i - first + 1]
                                 ELSE IF i = first + n THEN 0 ELSE tagged[i]
    BY <2>2
  <2>5. ASSUME NEW i \in Memory PROVE w[i] \in Nat
    BY <2>1, <2>3, <2>4
  <2> QED
    BY <2>1, <2>2, <2>4, <2>5
<1> HIDE DEF w
<1>5. LiesAt(w, end, a, data)
  <2>1. w[a * WordBytes] = n
    <3>1. a * WordBytes \notin first..(first + n - 1) /\ a * WordBytes # first + n
      BY <1>1, <1>2, <1>3
    <3> HIDE DEF first, n
    <3> QED
      BY <1>2, <1>4, <3>1
  <2>2. ASSUME NEW k \in 1..n PROVE w[first + k - 1] = data[k]
    <3>1. k - 1 \in 0..n /\ first + (k - 1) = first + k - 1 /\ first + k - 1 \in first..(first + n - 1)
          /\ (first + k - 1) - first + 1 = k
      BY <1>1, <1>3
    <3> HIDE DEF first, n
    <3> QED
      BY <1>2, <1>4, <3>1
  <2>3. w[first + n] = 0
    <3>1. n \in 0..n /\ first + n \notin first..(first + n - 1)
      BY <1>1, <1>3
    <3> HIDE DEF first, n
    <3> QED
      BY <1>2, <1>4, <3>1
  <2>4. a + SzAlloc(n) <= end
    BY <1>1
  <2> QED
    BY <2>1, <2>2, <2>3, <2>4 DEF LiesAt
<1>6. ASSUME NEW s, NEW string, LiesAt(m, a, s, string)
      PROVE  LiesAt(w, end, s, string)
  <2> DEFINE l == Len(string)
             low == (s + 1) * WordBytes
  <2>1. /\ s \in Nat /\ string \in Seq(Nat) /\ l \in Nat /\ s + SzAlloc(l) <= a
        /\ m[s * WordBytes] = l
        /\ \A k \in 1..l : m[low + k - 1] = string[k]
        /\ m[low + l] = 0
    BY <1>6 DEF LiesAt
  <2>2. a \in 0..Words /\ SzAlloc(l) \in Nat
    BY <1>1, <2>1, WordsOfString
  <2>3. /\ s * WordBytes \in Memory /\ low \in Memory /\ s * WordBytes < low
        /\ low + l < a * WordBytes
        /\ \A k \in 0..l : low + k \in Memory
    <3> HIDE DEF l
    <3> QED
      BY <2>1, <2>2, BytesOfString
  <2>4. low \in Nat /\ s * WordBytes \in Nat
    BY <1>3, <2>3
  <2>5. ASSUME NEW i \in Memory, i < a * WordBytes PROVE w[i] = m[i]
    <3>1. i \notin first..(first + n - 1) /\ i # first + n /\ i # a * WordBytes
      BY <1>1, <1>2, <1>3, <2>5
    <3> HIDE DEF first, n
    <3> QED
      BY <1>4, <3>1
  <2> HIDE DEF low, l
  <2>6. w[s * WordBytes] = l /\ w[low + l] = 0
    <3>1. l \in 0..l /\ s * WordBytes < a * WordBytes
      BY <1>3, <2>1, <2>3, <2>4
    <3> QED
      BY <2>1, <2>3, <2>5, <3>1
  <2>7. ASSUME NEW k \in 1..l PROVE w[low + k - 1] = string[k]
    <3>1. k - 1 \in 0..l /\ low + (k - 1) = low + k - 1 /\ low + k - 1 < a * WordBytes
      BY <1>3, <2>1, <2>3, <2>4
    <3> QED
      BY <2>1, <2>3, <2>5, <3>1
  <2>8. s + SzAlloc(l) <= end
    BY <1>1, <2>1, <2>2
  <2> QED
    BY <2>1, <2>6, <2>7, <2>8 DEF LiesAt, low, l
<1> QED
  BY <1>1, <1>4, <1>5, <1>6 DEF w

(* A call that stores a new string, in an empty region or on top. *)
LEMMA KeepsStrings ==
  ASSUME StringInv, NEW a, NEW data \in Seq(Nat), NEW atbot \in BOOLEAN,
         a = top \/ (a = 0 /\ atbot), RoomFor(a, Len(data)),
         mem' = Store(TagIn(mem, a, Len(data)), a, data), Keep(a, Len(data), data, atbot)
  PROVE  StringInv'
<1>1. /\ mem \in [Memory -> Nat] /\ a \in Nat /\ a + SzAlloc(Len(data)) <= Words
      /\ top' = a + SzAlloc(Len(data))
  BY StringsAssumption DEF StringInv, RoomFor, Keep
<1>2. /\ mem' \in [Memory -> Nat] /\ top' \in 0..Words
      /\ LiesAt(mem', top', a, data)
      /\ \A s, string : LiesAt(mem, a, s, string) => LiesAt(mem', top', s, string)
  BY <1>1, StoresString
<1>3. live' = [s \in (IF atbot THEN {} ELSE DOMAIN live) \cup {a} |-> IF s = a THEN data ELSE live[s]]
  BY DEF Keep
<1>4. ASSUME NEW s \in DOMAIN live' PROVE LiesAt(mem', top', s, live'[s])
  <2>1. s \in (IF atbot THEN {} ELSE DOMAIN live) \cup {a}
        /\ live'[s] = IF s = a THEN data ELSE live[s]
    BY <1>3
  <2>2. CASE s = a
    BY <1>2, <2>1, <2>2
  <2>3. CASE s # a
    <3>1. ~atbot /\ s \in DOMAIN live /\ live'[s] = live[s] /\ a = top
      BY <2>1, <2>3
    <3> QED
      BY <1>2, <3>1 DEF StringInv
  <2> QED
    BY <2>2, <2>3
<1> QED
  BY <1>2, <1>4 DEF StringInv

(* The tag of a new string does not touch those below it. *)
LEMMA TagKeepsStrings ==
  ASSUME StringInv, NEW s \in DOMAIN live, NEW n
  PROVE  DataIn(TagIn(mem, top, n), s) = live[s]
<1> DEFINE l == Len(live[s])
           low == (s + 1) * WordBytes
           tagged == TagIn(mem, top, n)
<1>1. LiesAt(mem, top, s, live[s]) /\ top \in 0..Words /\ mem \in [Memory -> Nat]
  BY DEF StringInv
<1>2. s \in Nat /\ l \in Nat /\ s + SzAlloc(l) <= top
  BY <1>1 DEF LiesAt
<1>3. /\ s * WordBytes < low /\ low + l < top * WordBytes
      /\ s * WordBytes \in Memory /\ low \in Memory
      /\ \A k \in 0..l : low + k \in Memory
  <2> HIDE DEF l
  <2> QED
    BY <1>1, <1>2, BytesOfString
<1>4. low \in Nat /\ s * WordBytes \in Nat /\ top * WordBytes \in Int
  BY <1>1, <1>2, StringsAssumption
<1>5. \A i \in Memory : i < top * WordBytes => tagged[i] = mem[i]
  <2>1. \A i \in Memory : i < top * WordBytes => i # top * WordBytes
    BY <1>4 DEF Memory
  <2> QED
    BY <1>1, <2>1 DEF TagIn
<1> HIDE DEF tagged, low, l
<1>6. tagged[s * WordBytes] = mem[s * WordBytes] /\ tagged[low + l] = mem[low + l]
  <2>1. l \in 0..l /\ s * WordBytes < top * WordBytes
    BY <1>2, <1>3, <1>4
  <2> QED
    BY <1>3, <1>5, <2>1
<1>7. ASSUME NEW k \in 1..l PROVE tagged[low + k - 1] = mem[low + k - 1]
  <2>1. k - 1 \in 0..l /\ low + (k - 1) = low + k - 1 /\ low + k - 1 < top * WordBytes
    BY <1>2, <1>3, <1>4
  <2> QED
    BY <1>3, <1>5, <2>1
<1>8. LiesAt(tagged, top, s, live[s])
  BY <1>1, <1>6, <1>7 DEF LiesAt, low, l
<1> QED
  BY <1>1, <1>8, ReadsString DEF tagged

LEMMA StringsStart == StringsInit => StringInv
<1> SUFFICES ASSUME StringsInit PROVE StringInv
  OBVIOUS
<1>1. mem \in [Memory -> Nat] /\ top \in 0..Words
  BY StringsAssumption DEF StringsInit
<1>2. DOMAIN live = {}
  BY DEF StringsInit
<1> QED
  BY <1>1, <1>2 DEF StringInv

LEMMA StringsStep ==
  ASSUME StringInv, [StringsNext]_stringVars
  PROVE  StringInv'
<1>0. \A s \in DOMAIN live :
        /\ live[s] \in Seq(Nat) /\ SizeIn(mem, s) = Len(live[s]) /\ DataIn(mem, s) = live[s]
  <2> SUFFICES ASSUME NEW s \in DOMAIN live
               PROVE  /\ live[s] \in Seq(Nat) /\ SizeIn(mem, s) = Len(live[s])
                      /\ DataIn(mem, s) = live[s]
    OBVIOUS
  <2>1. top \in 0..Words /\ LiesAt(mem, top, s, live[s])
    BY DEF StringInv
  <2> QED
    BY <2>1, ReadsString DEF LiesAt
<1>1. ASSUME NEW n \in 0..MaxPieces, NEW atbot \in BOOLEAN, NEW ss \in [1..n -> DOMAIN live],
             ImplodeStrings(ss, atbot)
      PROVE  StringInv'
  <2> DEFINE pieces == [i \in 1..Len(ss) |-> live[ss[i]]]
             data == Joined(pieces)
             sz == SumSizes(mem, ss)
             tagged == TagIn(mem, top, sz)
  <2>1. n \in Nat /\ Len(ss) = n /\ \A i \in 1..n : ss[i] \in DOMAIN live
    BY StringsAssumption
  <2>2. /\ pieces \in Seq(Seq(Nat)) /\ Len(pieces) = n
        /\ \A i \in 1..n : pieces[i] = live[ss[i]]
    BY <1>0, <2>1
  <2>3. data \in Seq(Nat) /\ Len(data) = sz
    <3>1. \A i \in 1..n : SizeIn(mem, ss[i]) = Len(pieces[i])
      BY <1>0, <2>1, <2>2
    <3> HIDE DEF pieces
    <3> QED
      BY <2>1, <2>2, <3>1, CopiesWhatItCounts
  <2>4. /\ RoomFor(top, sz) /\ mem' = Store(tagged, top, Pieces(tagged, ss))
        /\ Keep(top, sz, data, atbot)
    BY <1>1 DEF ImplodeStrings, ImplodeAt
  <2>5. Pieces(tagged, ss) = data
    <3>1. \A s \in DOMAIN live : DataIn(tagged, s) = live[s]
      BY TagKeepsStrings
    <3>2. [i \in 1..Len(ss) |-> DataIn(tagged, ss[i])] = pieces
      <4> HIDE DEF tagged
      <4> QED
        BY <2>1, <3>1
    <3> HIDE DEF pieces, tagged
    <3> QED
      BY <3>2 DEF Pieces
  <2> HIDE DEF data, sz
  <2> QED
    BY <2>3, <2>4, <2>5, KeepsStrings DEF tagged
<1>2. ASSUME NEW n \in 0..MaxString, NEW atbot \in BOOLEAN, NEW l \in [1..n -> Chars],
             ImplodeChars(l, atbot)
      PROVE  StringInv'
  <2> DEFINE a == IF atbot THEN 0 ELSE top
             data == [i \in 1..Len(l) |-> l[i] % 256]
  <2>1. n \in Nat /\ Len(l) = n
    BY StringsAssumption
  <2>2. ASSUME NEW i \in 1..n PROVE l[i] % 256 \in Nat
    <3>1. l[i] \in 1..255
      BY StringsAssumption
    <3>2. \A x \in 1..255 : x % 256 \in Nat
      OBVIOUS
    <3> QED
      BY <3>1, <3>2
  <2>3. data \in Seq(Nat) /\ Len(data) = Len(l)
    <3>1. data = [i \in 1..n |-> l[i] % 256]
      BY <2>1
    <3> HIDE DEF data
    <3>2. data \in [1..n -> Nat]
      BY <2>2, <3>1
    <3> QED
      BY <2>1, <3>2
  <2>4. /\ RoomFor(a, Len(l)) /\ mem' = Store(TagIn(mem, a, Len(l)), a, data)
        /\ Keep(a, Len(l), data, atbot)
    BY <1>2 DEF ImplodeChars
  <2>5. a = top \/ (a = 0 /\ atbot)
    OBVIOUS
  <2> HIDE DEF a, data
  <2> QED
    BY <2>3, <2>4, <2>5, KeepsStrings
<1>3. ASSUME NEW s \in DOMAIN live, NEW i \in 0..MaxString, NEW n \in 0..MaxString,
             ExtractString(s, i, n)
      PROVE  StringInv'
  <2> DEFINE data == SubSeq(live[s], i + 1, i + n)
             tagged == TagIn(mem, top, n)
  <2>1. n \in Nat /\ i \in Nat /\ i + n <= Len(live[s]) /\ live[s] \in Seq(Nat)
    BY <1>0, <1>3, StringsAssumption DEF ExtractString
  <2>2. data \in Seq(Nat) /\ Len(data) = n
    BY <2>1
  <2>3. /\ RoomFor(top, n) /\ Keep(top, n, data, FALSE)
        /\ mem' = Store(tagged, top, SubSeq(DataIn(tagged, s), i + 1, i + n))
    BY <1>3 DEF ExtractString
  <2>4. DataIn(tagged, s) = live[s]
    BY TagKeepsStrings
  <2>5. mem' = Store(tagged, top, data)
    BY <2>3, <2>4
  <2> HIDE DEF data
  <2> QED
    BY <2>2, <2>3, <2>5, KeepsStrings DEF tagged
<1>4. ASSUME NEW s \in DOMAIN live, Explode(s) PROVE StringInv'
  BY <1>4 DEF Explode, StringInv
<1>5. ASSUME UNCHANGED stringVars PROVE StringInv'
  BY <1>5 DEF stringVars, StringInv
<1> QED
  BY <1>1, <1>2, <1>3, <1>4, <1>5 DEF StringsNext

------------------------------------------------------------------------------
(* a is before b: up to some place they agree, and there a ends or has the *)
(* smaller character.                                                      *)
Before(a, b) ==
  \E i \in 1..Len(b) :
    /\ \A j \in 1..(i - 1) : j <= Len(a) /\ a[j] = b[j]
    /\ i = Len(a) + 1 \/ (i <= Len(a) /\ a[i] < b[i])

LEMMA BeforeApart ==
  ASSUME NEW a \in Seq(Nat), NEW b \in Seq(Nat), Before(a, b)
  PROVE  a # b /\ ~Before(b, a)
<1>1. PICK i \in 1..Len(b) : /\ \A j \in 1..(i - 1) : j <= Len(a) /\ a[j] = b[j]
                             /\ i = Len(a) + 1 \/ (i <= Len(a) /\ a[i] < b[i])
  BY DEF Before
<1>2. /\ Len(a) \in Nat /\ Len(b) \in Nat /\ i \in Nat
      /\ \A j \in 1..Len(a) : a[j] \in Nat
      /\ \A j \in 1..Len(b) : b[j] \in Nat
  OBVIOUS
<1>3. a # b
  BY <1>1, <1>2
<1>4. ASSUME Before(b, a) PROVE FALSE
  <2>1. PICK k \in 1..Len(a) : /\ \A j \in 1..(k - 1) : j <= Len(b) /\ b[j] = a[j]
                               /\ k = Len(b) + 1 \/ (k <= Len(b) /\ b[k] < a[k])
    BY <1>4 DEF Before
  <2>2. CASE i < k
    <3>1. i \in 1..(k - 1) /\ i \in 1..Len(a) /\ i \in 1..Len(b)
      BY <1>2, <2>2
    <3> QED
      BY <1>1, <1>2, <2>1, <3>1
  <2>3. CASE k < i
    <3>1. k \in 1..(i - 1) /\ k \in 1..Len(a) /\ k \in 1..Len(b)
      BY <1>2, <2>3
    <3> QED
      BY <1>1, <1>2, <2>1, <3>1
  <2>4. CASE i = k
    BY <1>1, <1>2, <2>1, <2>4
  <2> QED
    BY <1>2, <2>2, <2>3, <2>4
<1> QED
  BY <1>3, <1>4

LEMMA BeforeTransitive ==
  ASSUME NEW a \in Seq(Nat), NEW b \in Seq(Nat), NEW c \in Seq(Nat), Before(a, b), Before(b, c)
  PROVE  Before(a, c)
<1>1. PICK i \in 1..Len(b) : /\ \A j \in 1..(i - 1) : j <= Len(a) /\ a[j] = b[j]
                             /\ i = Len(a) + 1 \/ (i <= Len(a) /\ a[i] < b[i])
  BY DEF Before
<1>2. PICK k \in 1..Len(c) : /\ \A j \in 1..(k - 1) : j <= Len(b) /\ b[j] = c[j]
                             /\ k = Len(b) + 1 \/ (k <= Len(b) /\ b[k] < c[k])
  BY DEF Before
<1>3. /\ Len(a) \in Nat /\ Len(b) \in Nat /\ Len(c) \in Nat /\ i \in Nat /\ k \in Nat
      /\ \A j \in 1..Len(a) : a[j] \in Nat
      /\ \A j \in 1..Len(b) : b[j] \in Nat
      /\ \A j \in 1..Len(c) : c[j] \in Nat
  OBVIOUS
<1>4. CASE i <= k
  <2>1. i \in 1..Len(c)
    BY <1>3, <1>4
  <2>2. ASSUME NEW j \in 1..(i - 1) PROVE j <= Len(a) /\ a[j] = c[j]
    <3>1. j \in 1..(k - 1)
      BY <1>3, <1>4
    <3> QED
      BY <1>1, <1>2, <3>1
  <2>3. i = Len(a) + 1 \/ (i <= Len(a) /\ a[i] < c[i])
    <3>1. CASE i = k
      BY <1>1, <1>2, <1>3, <3>1, SMTT(30)
    <3>2. CASE i # k
      <4>1. i \in 1..(k - 1)
        BY <1>3, <1>4, <3>2
      <4> QED
        BY <1>1, <1>2, <4>1
    <3> QED
      BY <3>1, <3>2
  <2> QED
    BY <2>1, <2>2, <2>3 DEF Before
<1>5. CASE k < i
  <2>1. k \in 1..(i - 1) /\ k \in 1..Len(b)
    BY <1>3, <1>5
  <2>2. ASSUME NEW j \in 1..(k - 1) PROVE j <= Len(a) /\ a[j] = c[j]
    <3>1. j \in 1..(i - 1)
      BY <1>3, <1>5
    <3> QED
      BY <1>1, <1>2, <3>1
  <2>3. k <= Len(a) /\ a[k] < c[k]
    BY <1>1, <1>2, <1>3, <2>1
  <2> QED
    BY <2>2, <2>3 DEF Before
<1> QED
  BY <1>3, <1>4, <1>5

(* mystrcmp compares by this order. *)
LEMMA StrcmpOrders ==
  ASSUME NEW a \in Seq(Nat), NEW b \in Seq(Nat)
  PROVE  /\ Strcmp(a, b) \in Int
         /\ Strcmp(a, b) < 0 <=> Before(a, b)
         /\ Strcmp(a, b) = 0 <=> a = b
         /\ Strcmp(a, b) > 0 <=> Before(b, a)
<1>1. /\ Len(a) \in Nat /\ Len(b) \in Nat
      /\ \A j \in 1..Len(a) : a[j] \in Nat
      /\ \A j \in 1..Len(b) : b[j] \in Nat
  OBVIOUS
<1>2. \/ Strcmp(a, b) = -1 /\ Before(a, b)
      \/ Strcmp(a, b) = 1 /\ Before(b, a)
      \/ Strcmp(a, b) = 0 /\ a = b
  <2> DEFINE places == Differing(a, b)
             i == FirstOf(places)
  <2>1. CASE places # {}
    <3>1. i \in places /\ \A j \in places : i <= j
      <4>1. places \subseteq Nat
        BY DEF Differing
      <4> HIDE DEF places
      <4>2. \E x \in places : \A y \in places : x <= y
        BY <2>1, <4>1, LeastNumber
      <4> QED
        BY <4>2, Zenon DEF FirstOf
    <3>2. Strcmp(a, b) = IF a[i] < b[i] THEN -1 ELSE 1
      BY <2>1, Zenon DEF Strcmp
    <3> HIDE DEF i
    <3>3. i \in 1..Len(a) /\ i \in 1..Len(b) /\ a[i] # b[i]
      BY <1>1, <3>1 DEF Differing
    <3>4. ASSUME NEW j \in 1..(i - 1) PROVE j <= Len(a) /\ j <= Len(b) /\ a[j] = b[j]
      <4>1. j \in 1..Len(a) /\ j <= Len(b) /\ ~(i <= j)
        BY <1>1, <3>3
      <4> QED
        BY <3>1, <4>1 DEF Differing
    <3>5. CASE a[i] < b[i]
      <4>1. \A j \in 1..(i - 1) : j <= Len(a) /\ a[j] = b[j]
        BY <3>4
      <4>2. i <= Len(a)
        BY <1>1, <3>3
      <4>3. Before(a, b)
        BY <3>3, <3>5, <4>1, <4>2, Zenon DEF Before
      <4> QED
        BY <3>2, <3>5, <4>3
    <3>6. CASE ~(a[i] < b[i])
      <4>1. b[i] < a[i]
        BY <1>1, <3>3, <3>6
      <4>2. \A j \in 1..(i - 1) : j <= Len(b) /\ b[j] = a[j]
        BY <3>4
      <4>3. i <= Len(b)
        BY <1>1, <3>3
      <4>4. Before(b, a)
        BY <3>3, <4>1, <4>2, <4>3, Zenon DEF Before
      <4> QED
        BY <3>2, <3>6, <4>4
    <3> QED
      BY <3>5, <3>6
  <2>2. CASE places = {}
    <3>1. \A j \in 1..Len(a) : j <= Len(b) => a[j] = b[j]
      BY <2>2 DEF Differing
    <3>2. Strcmp(a, b) = IF Len(a) < Len(b) THEN -1 ELSE IF Len(b) < Len(a) THEN 1 ELSE 0
      BY <2>2, Zenon DEF Strcmp
    <3>3. CASE Len(a) < Len(b)
      <4>1. PICK k \in 1..Len(b) : k = Len(a) + 1
        BY <1>1, <3>3
      <4>2. \A j \in 1..(k - 1) : j \in 1..Len(a) /\ j <= Len(b)
        BY <1>1, <3>3, <4>1
      <4>3. \A j \in 1..(k - 1) : j <= Len(a) /\ a[j] = b[j]
        BY <3>1, <4>2
      <4>4. Before(a, b)
        BY <4>1, <4>3, Zenon DEF Before
      <4> QED
        BY <3>2, <3>3, <4>4
    <3>4. CASE Len(b) < Len(a)
      <4>1. PICK k \in 1..Len(a) : k = Len(b) + 1
        BY <1>1, <3>4
      <4>2. \A j \in 1..(k - 1) : j \in 1..Len(a) /\ j <= Len(b)
        BY <1>1, <3>4, <4>1
      <4>3. \A j \in 1..(k - 1) : j <= Len(b) /\ b[j] = a[j]
        BY <3>1, <4>2
      <4>4. Before(b, a)
        BY <4>1, <4>3, Zenon DEF Before
      <4> QED
        BY <1>1, <3>2, <3>4, <4>4
    <3>5. CASE Len(a) = Len(b)
      <4>1. a = b
        BY <1>1, <3>1, <3>5, SMTT(30)
      <4> QED
        BY <1>1, <3>2, <3>5, <4>1
    <3> QED
      BY <1>1, <3>3, <3>4, <3>5
  <2> HIDE DEF places
  <2> QED
    BY <2>1, <2>2
<1>3. Before(a, b) => a # b /\ ~Before(b, a)
  BY BeforeApart
<1>4. Before(b, a) => a # b /\ ~Before(a, b)
  BY BeforeApart
<1> QED
  BY <1>2, <1>3, <1>4

LEMMA StringsInOrder == StringInv => StringsKept /\ OrderIsTotal
<1> SUFFICES ASSUME StringInv PROVE StringsKept /\ OrderIsTotal
  OBVIOUS
<1>1. ASSUME NEW s \in DOMAIN live
      PROVE  live[s] \in Seq(Nat) /\ DataIn(mem, s) = live[s] /\ ByteIn(mem, s, Len(live[s])) = 0
  <2>1. top \in 0..Words /\ LiesAt(mem, top, s, live[s])
    BY DEF StringInv
  <2> QED
    BY <2>1, ReadsString DEF LiesAt
<1>2. ASSUME NEW s \in DOMAIN live, NEW t \in DOMAIN live
      PROVE  /\ LessString(mem, s, t) <=> Before(live[s], live[t])
             /\ LesseqString(mem, s, t) <=> Before(live[s], live[t]) \/ live[s] = live[t]
             /\ EqualString(mem, s, t) <=> live[s] = live[t]
             /\ ~Before(live[s], live[t]) => live[s] = live[t] \/ Before(live[t], live[s])
  <2>1. /\ live[s] \in Seq(Nat) /\ live[t] \in Seq(Nat)
        /\ DataIn(mem, s) = live[s] /\ DataIn(mem, t) = live[t]
    BY <1>1
  <2>2. Compare(mem, s, t) = IF s = t THEN 0 ELSE Strcmp(live[s], live[t])
    BY <2>1 DEF Compare
  <2>3. /\ Strcmp(live[s], live[t]) \in Int
        /\ Strcmp(live[s], live[t]) < 0 <=> Before(live[s], live[t])
        /\ Strcmp(live[s], live[t]) = 0 <=> live[s] = live[t]
        /\ Strcmp(live[s], live[t]) > 0 <=> Before(live[t], live[s])
    BY <2>1, StrcmpOrders
  <2>4. s = t => Strcmp(live[s], live[t]) = 0
    BY <2>3
  <2>5. Compare(mem, s, t) = Strcmp(live[s], live[t])
    BY <2>2, <2>4
  <2> QED
    BY <2>1, <2>3, <2>5 DEF LessString, LesseqString, EqualString
<1>3. StringsKept
  BY <1>1 DEF StringsKept
<1>4. \A a, b \in Seq(Nat) : Before(a, b) => a # b /\ ~Before(b, a)
  BY BeforeApart
<1>5. \A a, b, c \in Seq(Nat) : Before(a, b) /\ Before(b, c) => Before(a, c)
  BY BeforeTransitive
<1>6. OrderIsTotal
  <2> SUFFICES ASSUME NEW s \in DOMAIN live, NEW t \in DOMAIN live
               PROVE  /\ LesseqString(mem, s, t) <=> LessString(mem, s, t) \/ EqualString(mem, s, t)
                      /\ LessString(mem, s, t) <=> ~LesseqString(mem, t, s)
                      /\ \A u \in DOMAIN live :
                           LesseqString(mem, s, t) /\ LesseqString(mem, t, u) => LesseqString(mem, s, u)
    BY DEF OrderIsTotal
  <2>1. live[s] \in Seq(Nat) /\ live[t] \in Seq(Nat)
    BY <1>1
  <2>2. LesseqString(mem, s, t) <=> LessString(mem, s, t) \/ EqualString(mem, s, t)
    BY <1>2, Zenon
  <2>3. LessString(mem, s, t) <=> ~LesseqString(mem, t, s)
    BY <1>2, <1>4, <2>1, Zenon
  <2>4. ASSUME NEW u \in DOMAIN live, LesseqString(mem, s, t), LesseqString(mem, t, u)
        PROVE  LesseqString(mem, s, u)
    <3>1. live[u] \in Seq(Nat)
      BY <1>1
    <3>2. Before(live[s], live[t]) \/ live[s] = live[t]
      BY <1>2, <2>4
    <3>3. Before(live[t], live[u]) \/ live[t] = live[u]
      BY <1>2, <2>4
    <3>4. Before(live[s], live[u]) \/ live[s] = live[u]
      BY <1>5, <2>1, <3>1, <3>2, <3>3
    <3> QED
      BY <1>2, <3>4, Zenon
  <2> QED
    BY <2>2, <2>3, <2>4
<1> QED
  BY <1>3, <1>6

LEMMA StringInvariance == StringsSpec => []StringInv
<1>1. StringsInit => StringInv
  BY StringsStart
<1>2. StringInv /\ [StringsNext]_stringVars => StringInv'
  BY StringsStep
<1> QED
  BY <1>1, <1>2, PTL DEF StringsSpec

(* Whatever strings are built, extracted and joined, and wherever a region *)
(* is reset or only believed empty, each string still used keeps its size, *)
(* its characters and its terminator (StringsKept of Strings).             *)
THEOREM StringsSurvive == StringsSpec => []StringsKept
BY StringInvariance, StringsInOrder, PTL

(* The comparisons of strings, with mystrcmp's shortcut for equal          *)
(* addresses and the separate equality, are one total order (OrderIsTotal).*)
THEOREM StringsTotallyOrdered == StringsSpec => []OrderIsTotal
BY StringInvariance, StringsInOrder, PTL

------------------------------------------------------------------------------
(* The two sums over bytes and hextets, one turn after the other. *)
LEMMA BytesFolded ==
  ASSUME NEW s, NEW n \in Nat, Len(s) = n, \A k \in 1..n : s[k] \in Nat
  PROVE  \E acc : /\ acc[0] = 0 /\ \A k \in 1..n : acc[k] = acc[k - 1] * 256 + s[k]
                  /\ convertRawBytes(s) = acc[n]
<1> DEFINE turn == [k \in 1..n |-> [x \in Nat |-> x * 256 + s[k]]]
           A == CHOOSE acc : acc = [k \in 0..Len(s) |-> IF k = 0 THEN 0 ELSE acc[k - 1] * 256 + s[k]]
<1>1. PICK f : Reaches(f, 0, turn, n, Nat)
  <2>1. turn \in [1..n -> [Nat -> Nat]] /\ 0 \in Nat
    OBVIOUS
  <2> HIDE DEF turn
  <2> QED
    BY <2>1, LoopReaches
<1>2. f \in [0..n -> Nat] /\ f[0] = 0 /\ \A k \in 1..n : f[k] = f[k - 1] * 256 + s[k]
  <2>1. \A k \in 1..n, x \in Nat : turn[k][x] = x * 256 + s[k]
    BY Zenon
  <2> HIDE DEF turn
  <2>2. f \in [0..n -> Nat] /\ f[0] = 0 /\ \A k \in 1..n : f[k] = turn[k][f[k - 1]]
    BY <1>1 DEF Reaches
  <2>3. ASSUME NEW k \in 1..n PROVE f[k] = f[k - 1] * 256 + s[k]
    <3>1. k - 1 \in 0..n
      OBVIOUS
    <3>2. f[k - 1] \in Nat
      BY <2>2, <3>1
    <3> QED
      BY <2>1, <2>2, <3>2
  <2> QED
    BY <2>2, <2>3
<1>3. f = [k \in 0..Len(s) |-> IF k = 0 THEN 0 ELSE f[k - 1] * 256 + s[k]]
  BY <1>2
<1>4. A = [k \in 0..Len(s) |-> IF k = 0 THEN 0 ELSE A[k - 1] * 256 + s[k]]
  BY <1>3, Zenon
<1>5. convertRawBytes(s) = A[Len(s)]
  BY DEF convertRawBytes
<1> HIDE DEF A
<1>6. \A k \in 0..n : A[k] = IF k = 0 THEN 0 ELSE A[k - 1] * 256 + s[k]
  BY <1>4, Zenon
<1>7. A[0] = 0
  <2>1. 0 \in 0..n
    OBVIOUS
  <2>2. A[0] = IF 0 = 0 THEN 0 ELSE A[0 - 1] * 256 + s[0]
    BY <1>6, <2>1, Zenon
  <2> QED
    BY <2>2, Zenon
<1>8. ASSUME NEW k \in 1..n PROVE A[k] = A[k - 1] * 256 + s[k]
  <2>1. k \in 0..n /\ k # 0
    OBVIOUS
  <2> QED
    BY <1>6, <2>1, Zenon
<1> QED
  BY <1>5, <1>7, <1>8

LEMMA HextetsSummed ==
  ASSUME NEW l, NEW n \in Nat, Len(l) = n, \A k \in 1..n : l[k] \in Nat
  PROVE  \E acc : /\ acc[0] = 0 /\ \A k \in 1..n : acc[k] = acc[k - 1] + l[k]
                  /\ Sum(l) = acc[n]
<1> DEFINE turn == [k \in 1..n |-> [x \in Nat |-> x + l[k]]]
           A == CHOOSE acc : acc = [k \in 0..Len(l) |-> IF k = 0 THEN 0 ELSE acc[k - 1] + l[k]]
<1>1. PICK f : Reaches(f, 0, turn, n, Nat)
  <2>1. turn \in [1..n -> [Nat -> Nat]] /\ 0 \in Nat
    OBVIOUS
  <2> HIDE DEF turn
  <2> QED
    BY <2>1, LoopReaches
<1>2. f \in [0..n -> Nat] /\ f[0] = 0 /\ \A k \in 1..n : f[k] = f[k - 1] + l[k]
  <2>1. \A k \in 1..n, x \in Nat : turn[k][x] = x + l[k]
    BY Zenon
  <2> HIDE DEF turn
  <2>2. f \in [0..n -> Nat] /\ f[0] = 0 /\ \A k \in 1..n : f[k] = turn[k][f[k - 1]]
    BY <1>1 DEF Reaches
  <2>3. ASSUME NEW k \in 1..n PROVE f[k] = f[k - 1] + l[k]
    <3>1. k - 1 \in 0..n
      OBVIOUS
    <3>2. f[k - 1] \in Nat
      BY <2>2, <3>1
    <3> QED
      BY <2>1, <2>2, <3>2
  <2> QED
    BY <2>2, <2>3
<1>3. f = [k \in 0..Len(l) |-> IF k = 0 THEN 0 ELSE f[k - 1] + l[k]]
  BY <1>2
<1>4. A = [k \in 0..Len(l) |-> IF k = 0 THEN 0 ELSE A[k - 1] + l[k]]
  BY <1>3, Zenon
<1>5. Sum(l) = A[Len(l)]
  BY DEF Sum
<1> HIDE DEF A
<1>6. \A k \in 0..n : A[k] = IF k = 0 THEN 0 ELSE A[k - 1] + l[k]
  BY <1>4, Zenon
<1>7. A[0] = 0
  <2>1. 0 \in 0..n
    OBVIOUS
  <2>2. A[0] = IF 0 = 0 THEN 0 ELSE A[0 - 1] + l[0]
    BY <1>6, <2>1, Zenon
  <2> QED
    BY <2>2, Zenon
<1>8. ASSUME NEW k \in 1..n PROVE A[k] = A[k - 1] + l[k]
  <2>1. k \in 0..n /\ k # 0
    OBVIOUS
  <2> QED
    BY <1>6, <2>1, Zenon
<1> QED
  BY <1>5, <1>7, <1>8

(* A part of a packet. *)
LEMMA Slice ==
  ASSUME NEW s \in Seq(Byte), NEW at \in Nat, NEW n \in Nat, at + n <= Len(s),
         NEW hi, hi = at + n
  PROVE  /\ SubSeq(s, at + 1, hi) \in Seq(Byte) /\ Len(SubSeq(s, at + 1, hi)) = n
         /\ \A i \in 1..n : SubSeq(s, at + 1, hi)[i] = s[at + i]
<1>1. at + 1 \in Int /\ hi \in Int
  OBVIOUS
<1>2. \A i \in (at + 1)..hi : s[i] \in Byte
  <2>1. \A i \in (at + 1)..hi : i \in 1..Len(s)
    OBVIOUS
  <2> QED
    BY <2>1
<1>3. /\ SubSeq(s, at + 1, hi) \in Seq(Byte)
      /\ Len(SubSeq(s, at + 1, hi)) = IF at + 1 <= hi THEN hi - (at + 1) + 1 ELSE 0
      /\ \A i \in 1..(hi - (at + 1) + 1) : SubSeq(s, at + 1, hi)[i] = s[(at + 1) + i - 1]
  BY <1>1, <1>2, SubSeqProperties
<1>4. (at + 1 <= hi => hi - (at + 1) + 1 = n) /\ (~(at + 1 <= hi) => n = 0)
      /\ hi - (at + 1) + 1 = n
  OBVIOUS
<1>5. \A i \in 1..n : (at + 1) + i - 1 = at + i
  OBVIOUS
<1> QED
  BY <1>3, <1>4, <1>5

(* One packet behind another. *)
LEMMA Chain ==
  ASSUME NEW u \in Seq(Byte), NEW v \in Seq(Byte)
  PROVE  /\ u \o v \in Seq(Byte) /\ Len(u \o v) = Len(u) + Len(v)
         /\ \A i \in 1..Len(u) : (u \o v)[i] = u[i]
         /\ \A i \in 1..Len(v) : (u \o v)[Len(u) + i] = v[i]
<1>1. Len(u) \in Nat /\ Len(v) \in Nat
  OBVIOUS
<1>2. u \o v \in Seq(Byte) /\ Len(u \o v) = Len(u) + Len(v)
  OBVIOUS
<1>3. ASSUME NEW i \in 1..Len(u) PROVE (u \o v)[i] = u[i]
  BY <1>1
<1>4. ASSUME NEW i \in 1..Len(v) PROVE (u \o v)[Len(u) + i] = v[i]
  BY <1>1
<1> QED
  BY <1>2, <1>3, <1>4

LEMMA ElementsAreBytes ==
  ASSUME NEW s \in Seq(Byte)
  PROVE  \A k \in 1..Len(s) : s[k] \in Byte /\ s[k] \in Nat
<1>1. \A k \in 1..Len(s) : s[k] \in Byte
  OBVIOUS
<1>2. \A x \in Byte : x \in Nat
  BY DEF Byte
<1> QED
  BY <1>1, <1>2, Zenon

LEMMA FunctionIsPacket ==
  ASSUME NEW n \in Nat, NEW f \in [1..n -> Byte]
  PROVE  f \in Seq(Byte) /\ Len(f) = n
OBVIOUS

(* Numbers of one and two bytes, written and read. *)
LEMMA OneByte ==
  ASSUME NEW i \in Byte
  PROVE  /\ intToRawbyteString(i, 1) \in Seq(Byte) /\ Len(intToRawbyteString(i, 1)) = 1
         /\ intToRawbyteString(i, 1)[1] = i
<1>1. intToRawbyteString(i, 1) = [k \in 1..1 |-> (i \div 256^(1 - k)) % 256]
  BY DEF intToRawbyteString
<1>2. 256^(1 - 1) = 1
  OBVIOUS
<1>3. (i \div 1) % 256 = i
  BY DEF Byte
<1>4. (i \div 256^(1 - 1)) % 256 = i
  BY <1>2, <1>3
<1>5. \A k \in 1..1 : k = 1
  OBVIOUS
<1>6. intToRawbyteString(i, 1) = [k \in 1..1 |-> i]
  BY <1>1, <1>4, <1>5, Zenon
<1> DEFINE w == intToRawbyteString(i, 1)
<1>7. w \in [1..1 -> Byte] /\ w[1] = i
  BY <1>6
<1> HIDE DEF w
<1>8. w \in Seq(Byte) /\ Len(w) = 1
  <2>1. PICK n \in Nat : n = 1
    OBVIOUS
  <2>2. w \in [1..n -> Byte]
    BY <1>7, <2>1
  <2> QED
    BY <2>1, <2>2, FunctionIsPacket
<1> QED
  BY <1>7, <1>8 DEF w

LEMMA TwoBytes ==
  ASSUME NEW i \in Hextet
  PROVE  /\ intToRawbyteString(i, 2) \in Seq(Byte) /\ Len(intToRawbyteString(i, 2)) = 2
         /\ intToRawbyteString(i, 2)[1] = i \div 256 /\ intToRawbyteString(i, 2)[2] = i % 256
         /\ (i \div 256) * 256 + (i % 256) = i
         /\ i \div 256 \in Byte /\ i % 256 \in Byte
<1>1. intToRawbyteString(i, 2) = [k \in 1..2 |-> (i \div 256^(2 - k)) % 256]
  BY DEF intToRawbyteString
<1>2. 256^(2 - 1) = 256 /\ 256^(2 - 2) = 1
  OBVIOUS
<1>3. (i \div 256) * 256 + (i % 256) = i /\ i \div 256 \in Byte /\ i % 256 \in Byte
  BY DEF Hextet, Byte
<1>4. (i \div 256) % 256 = i \div 256 /\ (i \div 1) % 256 = i % 256
  <2>1. \A q \in Byte : q % 256 = q
    BY DEF Byte
  <2>2. i \div 1 = i
    BY DEF Hextet
  <2> QED
    BY <1>3, <2>1, <2>2, Zenon
<1>5. (i \div 256^(2 - 1)) % 256 = i \div 256 /\ (i \div 256^(2 - 2)) % 256 = i % 256
  BY <1>2, <1>4, Zenon
<1>6. \A k \in 1..2 : k = 1 \/ k = 2
  OBVIOUS
<1>7. intToRawbyteString(i, 2) = [k \in 1..2 |-> IF k = 1 THEN i \div 256 ELSE i % 256]
  <2>1. ASSUME NEW k \in 1..2
        PROVE  (i \div 256^(2 - k)) % 256 = IF k = 1 THEN i \div 256 ELSE i % 256
    <3>1. CASE k = 1
      BY <1>5, <3>1, Zenon
    <3>2. CASE k = 2
      <4>1. 2 # 1
        OBVIOUS
      <4> QED
        BY <1>5, <3>2, <4>1, Zenon
    <3> QED
      BY <1>6, <3>1, <3>2
  <2> DEFINE g(k) == (i \div 256^(2 - k)) % 256
             e(k) == IF k = 1 THEN i \div 256 ELSE i % 256
  <2>2. \A k \in 1..2 : g(k) = e(k)
    BY <2>1
  <2>3. intToRawbyteString(i, 2) = [k \in 1..2 |-> g(k)]
    BY <1>1
  <2> HIDE DEF g, e
  <2>4. intToRawbyteString(i, 2) = [k \in 1..2 |-> e(k)]
    BY <2>2, <2>3
  <2> QED
    BY <2>4 DEF e
<1> DEFINE w == intToRawbyteString(i, 2)
<1>8. w \in [1..2 -> Byte] /\ w[1] = i \div 256 /\ w[2] = i % 256
  BY <1>3, <1>7
<1> HIDE DEF w
<1>9. w \in Seq(Byte) /\ Len(w) = 2
  <2>1. PICK n \in Nat : n = 2
    OBVIOUS
  <2>2. w \in [1..n -> Byte]
    BY <1>8, <2>1
  <2> QED
    BY <2>1, <2>2, FunctionIsPacket
<1> QED
  BY <1>3, <1>8, <1>9 DEF w

LEMMA FieldIs ==
  ASSUME NEW s \in Seq(Byte), NEW at \in Nat
  PROVE  /\ at + 1 <= Len(s) => Field(s, at, 1) = s[at + 1]
         /\ at + 2 <= Len(s) => Field(s, at, 2) = s[at + 1] * 256 + s[at + 2]
<1>1. ASSUME at + 1 <= Len(s) PROVE Field(s, at, 1) = s[at + 1]
  <2> DEFINE t == SubSeq(s, at + 1, at + 1)
  <2>1. t \in Seq(Byte) /\ Len(t) = 1 /\ \A i \in 1..1 : t[i] = s[at + i]
    BY <1>1, Slice
  <2> HIDE DEF t
  <2>2. PICK n \in Nat : n = 1
    OBVIOUS
  <2>3. Len(t) = n /\ \A k \in 1..n : t[k] \in Nat
    <3>1. \A k \in 1..Len(t) : t[k] \in Nat
      BY <2>1, ElementsAreBytes
    <3> QED
      BY <2>1, <2>2, <3>1
  <2>4. PICK acc : /\ acc[0] = 0 /\ \A k \in 1..n : acc[k] = acc[k - 1] * 256 + t[k]
                   /\ convertRawBytes(t) = acc[n]
    BY <2>3, BytesFolded
  <2>5. acc[1] = acc[0] * 256 + t[1] /\ t[1] = s[at + 1] /\ t[1] \in Nat
    BY <2>1, <2>2, <2>3, <2>4
  <2>6. acc[1] = s[at + 1]
    BY <2>4, <2>5
  <2> QED
    BY <2>2, <2>4, <2>6 DEF Field, t
<1>2. ASSUME at + 2 <= Len(s) PROVE Field(s, at, 2) = s[at + 1] * 256 + s[at + 2]
  <2> DEFINE t == SubSeq(s, at + 1, at + 2)
  <2>1. t \in Seq(Byte) /\ Len(t) = 2 /\ \A i \in 1..2 : t[i] = s[at + i]
    <3>1. PICK n \in Nat : n = 2
      OBVIOUS
    <3>2. PICK hi : hi = at + n
      OBVIOUS
    <3>3. /\ SubSeq(s, at + 1, hi) \in Seq(Byte) /\ Len(SubSeq(s, at + 1, hi)) = n
          /\ \A i \in 1..n : SubSeq(s, at + 1, hi)[i] = s[at + i]
      BY <1>2, <3>1, <3>2, Slice
    <3> QED
      BY <3>1, <3>2, <3>3
  <2> HIDE DEF t
  <2>2. PICK n \in Nat : n = 2
    OBVIOUS
  <2>3. Len(t) = n /\ \A k \in 1..n : t[k] \in Nat
    <3>1. \A k \in 1..Len(t) : t[k] \in Nat
      BY <2>1, ElementsAreBytes
    <3> QED
      BY <2>1, <2>2, <3>1
  <2>4. PICK acc : /\ acc[0] = 0 /\ \A k \in 1..n : acc[k] = acc[k - 1] * 256 + t[k]
                   /\ convertRawBytes(t) = acc[n]
    BY <2>3, BytesFolded
  <2>5. acc[1] = acc[0] * 256 + t[1] /\ acc[2] = acc[1] * 256 + t[2]
    BY <2>2, <2>4
  <2>6. t[1] = s[at + 1] /\ t[2] = s[at + 2] /\ t[1] \in Nat
    BY <2>1, <2>2, <2>3
  <2>7. acc[2] = s[at + 1] * 256 + s[at + 2]
    BY <2>4, <2>5, <2>6
  <2> QED
    BY <2>2, <2>4, <2>7 DEF Field, t
<1> QED
  BY <1>1, <1>2

------------------------------------------------------------------------------
(* The piece x of a packet lies behind its first bytes. *)
Lies(w, at, x) == at + Len(x) <= Len(w) /\ \A i \in 1..Len(x) : w[at + i] = x[i]

LEMMA LiesAtStart ==
  ASSUME NEW u \in Seq(Byte)
  PROVE  Lies(u, 0, u)
<1>1. Len(u) \in Nat /\ \A i \in 1..Len(u) : 0 + i = i
  OBVIOUS
<1> QED
  BY <1>1 DEF Lies

LEMMA LiesBehind ==
  ASSUME NEW u \in Seq(Byte), NEW v \in Seq(Byte)
  PROVE  /\ u \o v \in Seq(Byte) /\ Len(u \o v) = Len(u) + Len(v) /\ Lies(u \o v, Len(u), v)
         /\ \A at \in Nat, x \in Seq(Byte) : Lies(u, at, x) => Lies(u \o v, at, x)
<1> DEFINE w == u \o v
<1>1. /\ w \in Seq(Byte) /\ Len(w) = Len(u) + Len(v)
      /\ \A i \in 1..Len(u) : w[i] = u[i]
      /\ \A i \in 1..Len(v) : w[Len(u) + i] = v[i]
  BY Chain
<1>2. Len(u) \in Nat /\ Len(v) \in Nat
  OBVIOUS
<1> HIDE DEF w
<1>3. Lies(w, Len(u), v)
  BY <1>1, <1>2 DEF Lies
<1>4. ASSUME NEW at \in Nat, NEW x \in Seq(Byte), Lies(u, at, x) PROVE Lies(w, at, x)
  <2>1. Len(x) \in Nat /\ at + Len(x) <= Len(u) /\ \A i \in 1..Len(x) : u[at + i] = x[i]
    BY <1>4 DEF Lies
  <2>2. \A i \in 1..Len(x) : at + i \in 1..Len(u)
    BY <1>2, <2>1
  <2>3. at + Len(x) <= Len(w)
    BY <1>1, <1>2, <2>1
  <2> QED
    BY <1>1, <2>1, <2>2, <2>3 DEF Lies
<1> QED
  BY <1>1, <1>3, <1>4 DEF w

(* The packet w of n bytes, and the pieces that lie in it. *)
Laid(w, n, S) ==
  /\ w \in Seq(Byte) /\ Len(w) = n
  /\ \A at, x : <<at, x>> \in S => at \in Nat /\ x \in Seq(Byte) /\ Lies(w, at, x)

LEMMA FirstPiece ==
  ASSUME NEW u \in Seq(Byte), NEW n, Len(u) = n
  PROVE  Laid(u, n, {<<0, u>>})
BY LiesAtStart DEF Laid

LEMMA NextPiece ==
  ASSUME NEW u, NEW n, NEW S, Laid(u, n, S), NEW v \in Seq(Byte), NEW k, Len(v) = k,
         NEW m, m = n + k
  PROVE  Laid(u \o v, m, S \cup {<<n, v>>})
<1>1. u \in Seq(Byte) /\ Len(u) = n
  BY DEF Laid
<1> DEFINE w == u \o v
<1>2. /\ w \in Seq(Byte) /\ Len(w) = Len(u) + Len(v) /\ Lies(w, Len(u), v)
      /\ \A at \in Nat, x \in Seq(Byte) : Lies(u, at, x) => Lies(w, at, x)
  BY <1>1, LiesBehind
<1> HIDE DEF w
<1>3. Len(w) = m /\ n \in Nat /\ Lies(w, n, v)
  BY <1>1, <1>2
<1>4. ASSUME NEW at, NEW x, <<at, x>> \in S \cup {<<n, v>>}
      PROVE  at \in Nat /\ x \in Seq(Byte) /\ Lies(w, at, x)
  <2>1. CASE <<at, x>> \in S
    BY <1>2, <2>1 DEF Laid
  <2>2. CASE <<at, x>> = <<n, v>>
    <3>1. at = n /\ x = v
      BY <2>2
    <3> QED
      BY <1>3, <3>1
  <2> QED
    BY <1>4, <2>1, <2>2
<1>5. Laid(w, m, S \cup {<<n, v>>})
  BY <1>2, <1>3, <1>4 DEF Laid
<1> QED
  BY <1>5 DEF w

LEMMA LiesRead ==
  ASSUME NEW w \in Seq(Byte), NEW x \in Seq(Byte), NEW at \in Nat, Lies(w, at, x)
  PROVE  SubSeq(w, at + 1, at + Len(x)) = x
<1> DEFINE t == SubSeq(w, at + 1, at + Len(x))
           n == Len(x)
<1>1. n \in Nat /\ at + n <= Len(w) /\ \A i \in 1..n : w[at + i] = x[i]
  BY DEF Lies
<1>2. t \in Seq(Byte) /\ Len(t) = n /\ \A i \in 1..n : t[i] = w[at + i]
  <2> HIDE DEF n
  <2>1. PICK hi : hi = at + n
    OBVIOUS
  <2>2. /\ SubSeq(w, at + 1, hi) \in Seq(Byte) /\ Len(SubSeq(w, at + 1, hi)) = n
        /\ \A i \in 1..n : SubSeq(w, at + 1, hi)[i] = w[at + i]
    BY <1>1, <2>1, Slice
  <2> QED
    BY <2>1, <2>2 DEF n
<1> HIDE DEF t
<1>3. \A i \in 1..n : t[i] = x[i]
  BY <1>1, <1>2
<1>4. t = x
  BY <1>1, <1>2, <1>3
<1> QED
  BY <1>4 DEF t

LEMMA FieldRead ==
  ASSUME NEW w \in Seq(Byte), NEW at \in Nat
  PROVE  /\ \A i \in Hextet : Lies(w, at, intToRawbyteString(i, 2)) => Field(w, at, 2) = i
         /\ \A i \in Byte : Lies(w, at, intToRawbyteString(i, 1)) => Field(w, at, 1) = i
<1>1. ASSUME NEW i \in Hextet, Lies(w, at, intToRawbyteString(i, 2)) PROVE Field(w, at, 2) = i
  <2> DEFINE x == intToRawbyteString(i, 2)
  <2>1. Len(x) = 2 /\ x[1] = i \div 256 /\ x[2] = i % 256 /\ (i \div 256) * 256 + (i % 256) = i
    BY TwoBytes
  <2> HIDE DEF x
  <2>2. at + 2 <= Len(w) /\ \A k \in 1..2 : w[at + k] = x[k]
    BY <1>1, <2>1 DEF Lies, x
  <2>3. w[at + 1] = x[1] /\ w[at + 2] = x[2]
    BY <2>2
  <2>4. Field(w, at, 2) = w[at + 1] * 256 + w[at + 2]
    BY <2>2, FieldIs
  <2>5. Field(w, at, 2) = (i \div 256) * 256 + (i % 256)
    BY <2>1, <2>3, <2>4, Zenon
  <2> QED
    BY <2>1, <2>5, Zenon
<1>2. ASSUME NEW i \in Byte, Lies(w, at, intToRawbyteString(i, 1)) PROVE Field(w, at, 1) = i
  <2> DEFINE x == intToRawbyteString(i, 1)
  <2>1. Len(x) = 1 /\ x[1] = i
    BY OneByte
  <2> HIDE DEF x
  <2>2. at + 1 <= Len(w) /\ \A k \in 1..1 : w[at + k] = x[k]
    BY <1>2, <2>1 DEF Lies, x
  <2>3. w[at + 1] = x[1]
    BY <2>2
  <2>4. Field(w, at, 1) = w[at + 1]
    BY <2>2, FieldIs
  <2> QED
    BY <2>1, <2>3, <2>4, Zenon
<1> QED
  BY <1>1, <1>2

LEMMA AddressIsPacket ==
  /\ \A x \in [1..6 -> Byte] : x \in Seq(Byte) /\ Len(x) = 6
  /\ \A x \in [1..4 -> Byte] : x \in Seq(Byte) /\ Len(x) = 4
<1>1. PICK n \in Nat : n = 6
  OBVIOUS
<1>2. PICK k \in Nat : k = 4
  OBVIOUS
<1>3. \A x \in [1..n -> Byte] : x \in Seq(Byte) /\ Len(x) = n
  BY FunctionIsPacket
<1>4. \A x \in [1..k -> Byte] : x \in Seq(Byte) /\ Len(x) = k
  BY FunctionIsPacket
<1> QED
  BY <1>1, <1>2, <1>3, <1>4

LEMMA HextetIs ==
  ASSUME NEW n \in Nat, n <= 65535
  PROVE  n \in Hextet
<1>1. PICK most \in Nat : most = 65535
  OBVIOUS
<1>2. Hextet = 0..most
  BY <1>1 DEF Hextet
<1>3. n <= most
  BY <1>1
<1>4. n \in 0..most
  BY <1>3
<1> QED
  BY <1>2, <1>4

LEMMA PairIsPacket ==
  ASSUME NEW a \in Byte, NEW b \in Byte
  PROVE  /\ <<a, b>> \in Seq(Byte) /\ Len(<<a, b>>) = 2
         /\ <<a, b>>[1] = a /\ <<a, b>>[2] = b
OBVIOUS

------------------------------------------------------------------------------
(* ethlib: a frame is read back as it was written. *)
LEMMA EthBack ==
  ASSUME NEW h \in EthFields, NEW p \in Seq(Byte)
  PROVE  EthDecode(EthEncode(h, p)) = <<h, p>>
<1> DEFINE ty == intToRawbyteString(EthTypes[h.et], 2)
           w == h.dstMac \o h.srcMac \o ty \o p
<1>1. /\ DOMAIN EthTypes = {"ARP", "IPv4", "IPv6"}
      /\ EthTypes["ARP"] = 2054 /\ EthTypes["IPv4"] = 2048 /\ EthTypes["IPv6"] = 34525
  BY DEF EthTypes
<1>2. /\ h.et \in DOMAIN EthTypes /\ h.dstMac \in [1..6 -> Byte] /\ h.srcMac \in [1..6 -> Byte]
      /\ h = [et |-> h.et, dstMac |-> h.dstMac, srcMac |-> h.srcMac]
  BY DEF EthFields
<1>3. /\ h.dstMac \in Seq(Byte) /\ Len(h.dstMac) = 6
      /\ h.srcMac \in Seq(Byte) /\ Len(h.srcMac) = 6
  BY <1>2, AddressIsPacket
<1>4. EthTypes[h.et] \in Hextet
  <2>1. \A t \in DOMAIN EthTypes : EthTypes[t] \in Hextet
    <3>1. \A t \in DOMAIN EthTypes : EthTypes[t] \in Nat /\ EthTypes[t] <= 65535
      BY DEF EthTypes
    <3> QED
      BY <3>1, HextetIs
  <2> QED
    BY <1>2, <2>1, Zenon
<1>5. ty \in Seq(Byte) /\ Len(ty) = 2
  BY <1>4, TwoBytes
<1>6. /\ Laid(h.dstMac \o h.srcMac \o ty \o p, 14 + Len(p),
                {<<0, h.dstMac>>} \cup {<<6, h.srcMac>>} \cup {<<12, ty>>} \cup {<<14, p>>})
  <2> HIDE DEF ty
  <2>1. 12 = 6 + 6 /\ 14 = 12 + 2
    OBVIOUS
  <2>2. Laid(h.dstMac, 6, {<<0, h.dstMac>>})
    BY <1>3, FirstPiece, Zenon
  <2>3. Laid(h.dstMac \o h.srcMac, 12, {<<0, h.dstMac>>} \cup {<<6, h.srcMac>>})
    BY <1>3, <2>1, <2>2, NextPiece, Zenon
  <2>4. Laid(h.dstMac \o h.srcMac \o ty, 14,
               {<<0, h.dstMac>>} \cup {<<6, h.srcMac>>} \cup {<<12, ty>>})
    BY <1>5, <2>1, <2>3, NextPiece, Zenon
  <2> QED
    BY <2>4, NextPiece, Zenon
<1>7. EthEncode(h, p) = w
  BY DEF EthEncode
<1> HIDE DEF w, ty
<1>8. /\ w \in Seq(Byte) /\ Len(w) = 14 + Len(p) /\ Lies(w, 0, h.dstMac)
      /\ Lies(w, 6, h.srcMac) /\ Lies(w, 12, ty) /\ Lies(w, 14, p)
  BY <1>6 DEF Laid, w
<1>9. Field(w, 12, 2) = EthTypes[h.et]
  BY <1>4, <1>8, FieldRead DEF ty
<1>10. SubSeq(w, 1, 6) = h.dstMac /\ SubSeq(w, 7, 12) = h.srcMac /\ extract(w, 14) = p
  <2>1. SubSeq(w, 0 + 1, 0 + Len(h.dstMac)) = h.dstMac
    BY <1>3, <1>8, LiesRead
  <2>2. SubSeq(w, 6 + 1, 6 + Len(h.srcMac)) = h.srcMac
    BY <1>3, <1>8, LiesRead
  <2>3. SubSeq(w, 14 + 1, 14 + Len(p)) = p
    BY <1>8, LiesRead
  <2>4. 0 + 1 = 1 /\ 0 + 6 = 6 /\ 6 + 1 = 7 /\ 6 + 6 = 12 /\ 14 + 1 = 15
    OBVIOUS
  <2> QED
    BY <1>3, <1>8, <2>1, <2>2, <2>3, <2>4, Zenon DEF extract
<1> DEFINE known == {t \in DOMAIN EthTypes : Len(w) >= 14 /\ EthTypes[t] = Field(w, 12, 2)}
<1>11. known = {h.et}
  <2>1. Len(w) >= 14
    BY <1>8
  <2>2. \A t \in DOMAIN EthTypes : EthTypes[t] = EthTypes[h.et] => t = h.et
    BY <1>1, <1>2
  <2> QED
    BY <1>2, <1>9, <2>1, <2>2
<1>12. (CHOOSE t \in known : TRUE) = h.et /\ known # {}
  <2> HIDE DEF known
  <2> QED
    BY <1>11
<1>13. EthDecode(w) = <<[et |-> CHOOSE t \in known : TRUE, dstMac |-> SubSeq(w, 1, 6),
                        srcMac |-> SubSeq(w, 7, 12)], extract(w, 14)>>
  BY <1>12, Zenon DEF EthDecode
<1> HIDE DEF known
<1> QED
  BY <1>2, <1>7, <1>10, <1>12, <1>13, Zenon

(* arplib: every packet is read back as a reply. *)
LEMMA ArpBack ==
  ASSUME NEW h \in ArpFields
  PROVE  ArpDecode(ArpEncode(h)) = <<[h EXCEPT !.oper = "Reply"], <<>>>>
<1> DEFINE a == intToRawbyteString(h.htype, 2)
           b == intToRawbyteString(h.ptype, 2)
           c == intToRawbyteString(h.hlen, 1)
           d == intToRawbyteString(h.plen, 1)
           e == intToRawbyteString(2, 2)
           w == a \o b \o c \o d \o e \o h.sha \o h.spa \o h.tha \o h.tpa
<1>1. /\ h.htype \in Hextet /\ h.ptype \in Hextet /\ h.hlen \in Byte /\ h.plen \in Byte
      /\ h.sha \in [1..6 -> Byte] /\ h.spa \in [1..4 -> Byte]
      /\ h.tha \in [1..6 -> Byte] /\ h.tpa \in [1..4 -> Byte]
      /\ [h EXCEPT !.oper = "Reply"]
           = [htype |-> h.htype, ptype |-> h.ptype, hlen |-> h.hlen, plen |-> h.plen,
              oper |-> "Reply", sha |-> h.sha, spa |-> h.spa, tha |-> h.tha, tpa |-> h.tpa]
  BY DEF ArpFields
<1>2. /\ h.sha \in Seq(Byte) /\ Len(h.sha) = 6 /\ h.spa \in Seq(Byte) /\ Len(h.spa) = 4
      /\ h.tha \in Seq(Byte) /\ Len(h.tha) = 6 /\ h.tpa \in Seq(Byte) /\ Len(h.tpa) = 4
  BY <1>1, AddressIsPacket
<1>3. 2 \in Hextet
  BY DEF Hextet
<1>4. /\ a \in Seq(Byte) /\ Len(a) = 2 /\ b \in Seq(Byte) /\ Len(b) = 2
      /\ e \in Seq(Byte) /\ Len(e) = 2
  <2>1. \A i \in Hextet : intToRawbyteString(i, 2) \in Seq(Byte) /\ Len(intToRawbyteString(i, 2)) = 2
    BY TwoBytes
  <2> QED
    BY <1>1, <1>3, <2>1, Zenon
<1>5. c \in Seq(Byte) /\ Len(c) = 1 /\ d \in Seq(Byte) /\ Len(d) = 1
  BY <1>1, OneByte
<1> HIDE DEF a, b, c, d, e
<1>6. Laid(a \o b \o c \o d \o e \o h.sha \o h.spa \o h.tha \o h.tpa, 28,
             {<<0, a>>} \cup {<<2, b>>} \cup {<<4, c>>} \cup {<<5, d>>} \cup {<<6, e>>}
               \cup {<<8, h.sha>>} \cup {<<14, h.spa>>} \cup {<<18, h.tha>>} \cup {<<24, h.tpa>>})
  <2>1. /\ 4 = 2 + 2 /\ 5 = 4 + 1 /\ 6 = 5 + 1 /\ 8 = 6 + 2 /\ 14 = 8 + 6 /\ 18 = 14 + 4
        /\ 24 = 18 + 6 /\ 28 = 24 + 4
    OBVIOUS
  <2>2. Laid(a, 2, {<<0, a>>})
    BY <1>4, FirstPiece, Zenon
  <2>3. Laid(a \o b, 4, {<<0, a>>} \cup {<<2, b>>})
    BY <1>4, <2>1, <2>2, NextPiece, Zenon
  <2>4. Laid(a \o b \o c, 5, {<<0, a>>} \cup {<<2, b>>} \cup {<<4, c>>})
    BY <1>5, <2>1, <2>3, NextPiece, Zenon
  <2>5. Laid(a \o b \o c \o d, 6, {<<0, a>>} \cup {<<2, b>>} \cup {<<4, c>>} \cup {<<5, d>>})
    BY <1>5, <2>1, <2>4, NextPiece, Zenon
  <2>6. Laid(a \o b \o c \o d \o e, 8,
               {<<0, a>>} \cup {<<2, b>>} \cup {<<4, c>>} \cup {<<5, d>>} \cup {<<6, e>>})
    BY <1>4, <2>1, <2>5, NextPiece, Zenon
  <2> DEFINE u == a \o b \o c \o d \o e
             S == {<<0, a>>} \cup {<<2, b>>} \cup {<<4, c>>} \cup {<<5, d>>} \cup {<<6, e>>}
  <2>7. Laid(u, 8, S)
    BY <2>6
  <2> HIDE DEF u, S
  <2>8. Laid(u \o h.sha, 14, S \cup {<<8, h.sha>>})
    BY <1>2, <2>1, <2>7, NextPiece, Zenon
  <2>9. Laid(u \o h.sha \o h.spa, 18, S \cup {<<8, h.sha>>} \cup {<<14, h.spa>>})
    BY <1>2, <2>1, <2>8, NextPiece, Zenon
  <2>10. Laid(u \o h.sha \o h.spa \o h.tha, 24,
                S \cup {<<8, h.sha>>} \cup {<<14, h.spa>>} \cup {<<18, h.tha>>})
    BY <1>2, <2>1, <2>9, NextPiece, Zenon
  <2>11. Laid(u \o h.sha \o h.spa \o h.tha \o h.tpa, 28,
                S \cup {<<8, h.sha>>} \cup {<<14, h.spa>>} \cup {<<18, h.tha>>} \cup {<<24, h.tpa>>})
    BY <1>2, <2>1, <2>10, NextPiece, Zenon
  <2> QED
    BY <2>11 DEF u, S
<1>7. ArpEncode(h) = w
  BY DEF ArpEncode, a, b, c, d, e
<1> HIDE DEF w
<1>8. /\ w \in Seq(Byte) /\ Len(w) = 28 /\ Lies(w, 0, a) /\ Lies(w, 2, b) /\ Lies(w, 4, c)
      /\ Lies(w, 5, d) /\ Lies(w, 6, e) /\ Lies(w, 8, h.sha) /\ Lies(w, 14, h.spa)
      /\ Lies(w, 18, h.tha) /\ Lies(w, 24, h.tpa)
  BY <1>6 DEF Laid, w
<1>9. Field(w, 0, 2) = h.htype /\ Field(w, 2, 2) = h.ptype /\ Field(w, 6, 2) = 2
  <2>1. /\ 0 \in Nat /\ 2 \in Nat /\ 6 \in Nat
        /\ Lies(w, 0, intToRawbyteString(h.htype, 2)) /\ Lies(w, 2, intToRawbyteString(h.ptype, 2))
        /\ Lies(w, 6, intToRawbyteString(2, 2))
    BY <1>8 DEF a, b, e
  <2> QED
    BY <1>1, <1>3, <1>8, <2>1, FieldRead, Zenon
<1>10. Field(w, 4, 1) = h.hlen /\ Field(w, 5, 1) = h.plen
  <2>1. /\ 4 \in Nat /\ 5 \in Nat
        /\ Lies(w, 4, intToRawbyteString(h.hlen, 1)) /\ Lies(w, 5, intToRawbyteString(h.plen, 1))
    BY <1>8 DEF c, d
  <2> QED
    BY <1>1, <1>8, <2>1, FieldRead, Zenon
<1>11. /\ SubSeq(w, 9, 14) = h.sha /\ SubSeq(w, 15, 18) = h.spa
       /\ SubSeq(w, 19, 24) = h.tha /\ SubSeq(w, 25, 28) = h.tpa
  <2>1. SubSeq(w, 8 + 1, 8 + Len(h.sha)) = h.sha
    BY <1>2, <1>8, LiesRead
  <2>2. SubSeq(w, 14 + 1, 14 + Len(h.spa)) = h.spa
    BY <1>2, <1>8, LiesRead
  <2>3. SubSeq(w, 18 + 1, 18 + Len(h.tha)) = h.tha
    BY <1>2, <1>8, LiesRead
  <2>4. SubSeq(w, 24 + 1, 24 + Len(h.tpa)) = h.tpa
    BY <1>2, <1>8, LiesRead
  <2>5. /\ 8 + 1 = 9 /\ 8 + 6 = 14 /\ 14 + 1 = 15 /\ 14 + 4 = 18
        /\ 18 + 1 = 19 /\ 18 + 6 = 24 /\ 24 + 1 = 25 /\ 24 + 4 = 28
    OBVIOUS
  <2> QED
    BY <1>2, <2>1, <2>2, <2>3, <2>4, <2>5, Zenon
<1>12. ~(Len(w) < 28 \/ Field(w, 6, 2) \notin {1, 2}) /\ toArpOperation(Field(w, 6, 2)) = "Reply"
  BY <1>8, <1>9 DEF toArpOperation
<1>13. ArpDecode(w)
         = <<[htype |-> Field(w, 0, 2), ptype |-> Field(w, 2, 2), hlen |-> Field(w, 4, 1),
              plen |-> Field(w, 5, 1), oper |-> toArpOperation(Field(w, 6, 2)),
              sha |-> SubSeq(w, 9, 14), spa |-> SubSeq(w, 15, 18),
              tha |-> SubSeq(w, 19, 24), tpa |-> SubSeq(w, 25, 28)], <<>>>>
  BY <1>12, Zenon DEF ArpDecode
<1> QED
  BY <1>1, <1>7, <1>9, <1>10, <1>11, <1>12, <1>13, Zenon

LEMMA NotTooWide ==
  ASSUME NEW n \in Nat, ~TooWide(n, 2)
  PROVE  n \in Hextet
<1>1. ~(n \div 256 > 255)
  BY DEF TooWide
<1>2. n <= 65535
  BY <1>1
<1> QED
  BY <1>2, HextetIs

(* udplib: the length is written, the checksum is 0; a payload that makes  *)
(* the length too wide raises.                                             *)
LEMMA UdpBack ==
  ASSUME NEW h \in UdpFields, NEW p \in Seq(Byte)
  PROVE  \/ UdpEncode(h, p) = Raised
         \/ UdpDecode(UdpEncode(h, p)) = <<[h EXCEPT !.length = 8 + Len(p), !.checksum = 0], p>>
<1> DEFINE a == intToRawbyteString(h.source_port, 2)
           b == intToRawbyteString(h.dest_port, 2)
           c == intToRawbyteString(Len(p) + 8, 2)
           w == a \o b \o c \o <<0, 0>> \o p
<1>1. /\ h.source_port \in Hextet /\ h.dest_port \in Hextet
      /\ [h EXCEPT !.length = 8 + Len(p), !.checksum = 0]
           = [source_port |-> h.source_port, dest_port |-> h.dest_port,
              length |-> 8 + Len(p), checksum |-> 0]
  <2>1. PICK n : n = 8 + Len(p)
    OBVIOUS
  <2>2. /\ h.source_port \in Hextet /\ h.dest_port \in Hextet
        /\ h = [source_port |-> h.source_port, dest_port |-> h.dest_port,
                length |-> h.length, checksum |-> h.checksum]
    BY DEF UdpFields
  <2>3. [h EXCEPT !.length = n, !.checksum = 0]
          = [source_port |-> h.source_port, dest_port |-> h.dest_port,
             length |-> n, checksum |-> 0]
    <3> DEFINE g == [h EXCEPT !.length = n, !.checksum = 0]
               g1 == [h EXCEPT !.length = n]
               d == {"source_port", "dest_port", "length", "checksum"}
    <3>1. h = [f \in d |-> h[f]]
      BY <2>2
    <3>2. g = [f \in d |-> IF f = "checksum" THEN 0 ELSE IF f = "length" THEN n ELSE h[f]]
      BY <3>1
    <3> QED
      BY <3>2
  <2> QED
    BY <2>1, <2>2, <2>3
<1>2. CASE TooWide(Len(p) + 8, 2)
  BY <1>2 DEF UdpEncode
<1>3. CASE ~TooWide(Len(p) + 8, 2)
  <2>1. Len(p) + 8 \in Hextet
    <3>1. Len(p) + 8 \in Nat
      OBVIOUS
    <3> QED
      BY <1>3, <3>1, NotTooWide, Zenon
  <2>2. /\ a \in Seq(Byte) /\ Len(a) = 2 /\ b \in Seq(Byte) /\ Len(b) = 2
        /\ c \in Seq(Byte) /\ Len(c) = 2
    BY <1>1, <2>1, TwoBytes
  <2>3. <<0, 0>> \in Seq(Byte) /\ Len(<<0, 0>>) = 2 /\ <<0, 0>>[1] = 0 /\ <<0, 0>>[2] = 0
    <3>1. 0 \in Byte
      BY DEF Byte
    <3> QED
      BY <3>1, PairIsPacket, Zenon
  <2> HIDE DEF a, b, c
  <2>4. Laid(a \o b \o c \o <<0, 0>> \o p, 8 + Len(p),
               {<<0, a>>} \cup {<<2, b>>} \cup {<<4, c>>} \cup {<<6, <<0, 0>>>>} \cup {<<8, p>>})
    <3>1. 4 = 2 + 2 /\ 6 = 4 + 2 /\ 8 = 6 + 2
      OBVIOUS
    <3>2. Laid(a, 2, {<<0, a>>})
      BY <2>2, FirstPiece, Zenon
    <3>3. Laid(a \o b, 4, {<<0, a>>} \cup {<<2, b>>})
      BY <2>2, <3>1, <3>2, NextPiece, Zenon
    <3>4. Laid(a \o b \o c, 6, {<<0, a>>} \cup {<<2, b>>} \cup {<<4, c>>})
      BY <2>2, <3>1, <3>3, NextPiece, Zenon
    <3>5. Laid(a \o b \o c \o <<0, 0>>, 8,
                 {<<0, a>>} \cup {<<2, b>>} \cup {<<4, c>>} \cup {<<6, <<0, 0>>>>})
      BY <2>3, <3>1, <3>4, NextPiece, Zenon
    <3> QED
      BY <3>5, NextPiece, Zenon
  <2>5. UdpEncode(h, p) = w
    BY <1>3 DEF UdpEncode, a, b, c
  <2> HIDE DEF w
  <2>6. /\ w \in Seq(Byte) /\ Len(w) = 8 + Len(p) /\ Lies(w, 0, a) /\ Lies(w, 2, b)
        /\ Lies(w, 4, c) /\ Lies(w, 6, <<0, 0>>) /\ Lies(w, 8, p)
    BY <2>4 DEF Laid, w
  <2>7. /\ Field(w, 0, 2) = h.source_port /\ Field(w, 2, 2) = h.dest_port
        /\ Field(w, 4, 2) = Len(p) + 8
    BY <1>1, <2>1, <2>6, FieldRead DEF a, b, c
  <2>8. Field(w, 6, 2) = 0
    <3>1. 6 + 2 <= Len(w) /\ \A i \in 1..2 : w[6 + i] = 0
      BY <2>3, <2>6 DEF Lies
    <3>2. w[6 + 1] = 0 /\ w[6 + 2] = 0
      BY <3>1
    <3>3. Field(w, 6, 2) = w[6 + 1] * 256 + w[6 + 2]
      BY <2>6, <3>1, FieldIs
    <3>4. 0 * 256 + 0 = 0
      OBVIOUS
    <3> QED
      BY <3>2, <3>3, <3>4, Zenon
  <2>9. extract(w, 8) = p
    <3>1. SubSeq(w, 8 + 1, 8 + Len(p)) = p
      BY <2>6, LiesRead
    <3> QED
      BY <2>6, <3>1 DEF extract
  <2>10. ~(Len(w) < 8) /\ Len(p) + 8 = 8 + Len(p)
    BY <2>6
  <2>11. UdpDecode(w)
           = <<[source_port |-> Field(w, 0, 2), dest_port |-> Field(w, 2, 2),
                length |-> Field(w, 4, 2), checksum |-> Field(w, 6, 2)], extract(w, 8)>>
    BY <2>10, Zenon DEF UdpDecode
  <2> QED
    BY <1>1, <2>5, <2>7, <2>8, <2>9, <2>10, <2>11, Zenon
<1> QED
  BY <1>2, <1>3

------------------------------------------------------------------------------
(* ipv4lib: fields that share a byte are read back separately. *)
LEMMA SharedBytes ==
  /\ \A i \in 0..15 : /\ setLBits(4, 4) + i \in Byte
                      /\ getLBits(setLBits(4, 4) + i, 4) = 4 /\ getRBits(setLBits(4, 4) + i, 4) = i
  /\ \A d \in 0..63, e \in 0..3 : /\ setLBits(d, 6) + e \in Byte
                                  /\ getLBits(setLBits(d, 6) + e, 6) = d
                                  /\ getRBits(setLBits(d, 6) + e, 2) = e
<1>1. 2^(8 - 4) = 16 /\ 2^4 = 16 /\ 2^(8 - 6) = 4 /\ 2^2 = 4
  OBVIOUS
<1>2. ASSUME NEW i \in 0..15
      PROVE  /\ setLBits(4, 4) + i \in Byte
             /\ getLBits(setLBits(4, 4) + i, 4) = 4 /\ getRBits(setLBits(4, 4) + i, 4) = i
  <2>1. setLBits(4, 4) = 64
    BY <1>1 DEF setLBits
  <2>2. 64 + i \in Byte /\ (64 + i) \div 16 = 4 /\ (64 + i) % 16 = i
    BY DEF Byte
  <2> QED
    BY <1>1, <2>1, <2>2, Zenon DEF getLBits, getRBits
<1>3. ASSUME NEW d \in 0..63, NEW e \in 0..3
      PROVE  /\ setLBits(d, 6) + e \in Byte
             /\ getLBits(setLBits(d, 6) + e, 6) = d /\ getRBits(setLBits(d, 6) + e, 2) = e
  <2>1. setLBits(d, 6) = d * 4
    BY <1>1, Zenon DEF setLBits
  <2>2. d * 4 + e \in Byte /\ (d * 4 + e) \div 4 = d /\ (d * 4 + e) % 4 = e
    BY DEF Byte
  <2> QED
    BY <1>1, <2>1, <2>2, Zenon DEF getLBits, getRBits
<1> QED
  BY <1>2, <1>3

Fits(f, o) == f \in Nat /\ o \in Nat /\ f <= 7 /\ o <= 8191
Shares(f, o, x) == x \in Nat /\ x <= 65535 /\ (x \div 256) \div 32 = f /\ x % 8192 = o

LEMMA SharedArithmetic ==
  ASSUME NEW f, NEW o, Fits(f, o), NEW x, x = f * 32 * 256 + o
  PROVE  Shares(f, o, x)
<1> f \in Nat /\ o \in Nat /\ f <= 7 /\ o <= 8191
  BY DEF Fits
<1>1. x = f * 8192 + o /\ x \in Nat /\ x <= 65535
  OBVIOUS
<1>2. x % 8192 = o
  BY <1>1
<1>3. x \div 256 = f * 32 + o \div 256 /\ o \div 256 \in 0..31
  BY <1>1
<1>4. (f * 32 + o \div 256) \div 32 = f
  BY <1>3
<1> QED
  BY <1>1, <1>2, <1>3, <1>4 DEF Shares

LEMMA SharedHextet ==
  ASSUME NEW h \in IpFields
  PROVE  /\ FlagsAndOffset(h) \in Hextet
         /\ getLBits(FlagsAndOffset(h) \div 256, 3) = h.flags
         /\ getRBits(FlagsAndOffset(h), 13) = h.fragment_offset
<1>0. PICK most \in Nat : most = 8191
  OBVIOUS
<1>1. h.flags \in 0..7 /\ h.fragment_offset \in 0..most
  BY <1>0 DEF IpFields
<1>2. PICK f : f = h.flags
  OBVIOUS
<1>3. PICK o : o = h.fragment_offset
  OBVIOUS
<1>4. f \in Nat /\ o \in Nat /\ f <= 7 /\ o <= 8191
  <2>1. o \in Nat /\ o <= most
    BY <1>1, <1>3
  <2>2. f \in Nat /\ f <= 7
    BY <1>1, <1>2
  <2> QED
    BY <1>0, <2>1, <2>2
<1>5. PICK x : x = f * 32 * 256 + o
  OBVIOUS
<1>6. x \in Nat /\ x <= 65535 /\ (x \div 256) \div 32 = f /\ x % 8192 = o
  <2>1. Fits(f, o)
    BY <1>4 DEF Fits
  <2>2. Shares(f, o, x)
    BY <1>5, <2>1, SharedArithmetic, Zenon
  <2> QED
    BY <2>2 DEF Shares
<1>7. x \in Hextet
  BY <1>6, HextetIs
<1>8. 2^(8 - 3) = 32 /\ 2^13 = 8192
  OBVIOUS
<1>9. FlagsAndOffset(h) = x
  BY <1>2, <1>3, <1>5, <1>8 DEF FlagsAndOffset, setLBits
<1>10. getLBits(x \div 256, 3) = f /\ getRBits(x, 13) = o
  BY <1>6, <1>8 DEF getLBits, getRBits
<1> QED
  BY <1>2, <1>3, <1>7, <1>9, <1>10, Zenon

(* Where the fields of the header lie. *)
IpPieces(h, total, c) ==
  {<<0, <<setLBits(4, 4) + h.ihl, setLBits(h.dscp, 6) + h.ecn>>>>}
    \cup {<<2, intToRawbyteString(total, 2)>>}
    \cup {<<4, intToRawbyteString(h.identification, 2)>>}
    \cup {<<6, intToRawbyteString(FlagsAndOffset(h), 2)>>}
    \cup {<<8, <<h.time_to_live, Protocols[h.protocol]>>>>}
    \cup {<<10, intToRawbyteString(c, 2)>>}
    \cup {<<12, h.source_addr>>} \cup {<<16, h.dest_addr>>}

(* encode raises if the protocol is not one of these. *)
WellFormed == {h \in IpFields : h.protocol \in DOMAIN Protocols}

LEMMA IpFieldsFit ==
  ASSUME NEW h \in WellFormed
  PROVE  /\ h.ihl \in 0..15 /\ h.dscp \in 0..63 /\ h.ecn \in 0..3
         /\ h.identification \in Hextet /\ FlagsAndOffset(h) \in Hextet
         /\ h.time_to_live \in Byte /\ h.protocol \in DOMAIN Protocols
         /\ Protocols[h.protocol] \in Byte
         /\ h.source_addr \in Seq(Byte) /\ Len(h.source_addr) = 4
         /\ h.dest_addr \in Seq(Byte) /\ Len(h.dest_addr) = 4
<1>1. /\ h.ihl \in 0..15 /\ h.dscp \in 0..63 /\ h.ecn \in 0..3
      /\ h.identification \in Hextet
      /\ h.time_to_live \in Byte /\ h.protocol \in DOMAIN Protocols
      /\ h.source_addr \in [1..4 -> Byte] /\ h.dest_addr \in [1..4 -> Byte]
      /\ h \in IpFields
  BY DEF IpFields, WellFormed
<1>2. FlagsAndOffset(h) \in Hextet
  BY <1>1, SharedHextet
<1>3. \A q \in DOMAIN Protocols : Protocols[q] \in Byte
  BY DEF Protocols, Byte
<1>4. /\ h.source_addr \in Seq(Byte) /\ Len(h.source_addr) = 4
      /\ h.dest_addr \in Seq(Byte) /\ Len(h.dest_addr) = 4
  BY <1>1, AddressIsPacket
<1> QED
  BY <1>1, <1>2, <1>3, <1>4, Zenon

LEMMA IpHeader ==
  ASSUME NEW h \in WellFormed, NEW p \in Seq(Byte), 20 + Len(p) \in Hextet, NEW c \in Hextet
  PROVE  Laid(IpHeaderBytes(h, p, c), 20, IpPieces(h, 20 + Len(p), c))
<1> DEFINE a == <<setLBits(4, 4) + h.ihl, setLBits(h.dscp, 6) + h.ecn>>
           b == intToRawbyteString(20 + Len(p), 2)
           i == intToRawbyteString(h.identification, 2)
           f == intToRawbyteString(FlagsAndOffset(h), 2)
           t == <<h.time_to_live, Protocols[h.protocol]>>
           d == intToRawbyteString(c, 2)
<1>1. a \in Seq(Byte) /\ Len(a) = 2
  <2>1. setLBits(4, 4) + h.ihl \in Byte /\ setLBits(h.dscp, 6) + h.ecn \in Byte
    BY IpFieldsFit, SharedBytes
  <2> QED
    BY <2>1, PairIsPacket, Zenon
<1>2. t \in Seq(Byte) /\ Len(t) = 2
  BY IpFieldsFit, PairIsPacket, Zenon
<1>3. \A n \in Hextet : intToRawbyteString(n, 2) \in Seq(Byte) /\ Len(intToRawbyteString(n, 2)) = 2
  BY TwoBytes
<1>4. /\ b \in Seq(Byte) /\ Len(b) = 2 /\ i \in Seq(Byte) /\ Len(i) = 2
      /\ f \in Seq(Byte) /\ Len(f) = 2 /\ d \in Seq(Byte) /\ Len(d) = 2
  BY <1>3, IpFieldsFit, Zenon
<1>5. /\ h.source_addr \in Seq(Byte) /\ Len(h.source_addr) = 4
      /\ h.dest_addr \in Seq(Byte) /\ Len(h.dest_addr) = 4
  BY IpFieldsFit, Zenon
<1> HIDE DEF a, b, i, f, t, d
<1>6. /\ 4 = 2 + 2 /\ 6 = 4 + 2 /\ 8 = 6 + 2 /\ 10 = 8 + 2 /\ 12 = 10 + 2 /\ 16 = 12 + 4
      /\ 20 = 16 + 4
  OBVIOUS
<1>7. Laid(a, 2, {<<0, a>>})
  BY <1>1, FirstPiece, Zenon
<1>8. Laid(a \o b, 4, {<<0, a>>} \cup {<<2, b>>})
  BY <1>4, <1>6, <1>7, NextPiece, Zenon
<1>9. Laid(a \o b \o i, 6, {<<0, a>>} \cup {<<2, b>>} \cup {<<4, i>>})
  BY <1>4, <1>6, <1>8, NextPiece, Zenon
<1>10. Laid(a \o b \o i \o f, 8, {<<0, a>>} \cup {<<2, b>>} \cup {<<4, i>>} \cup {<<6, f>>})
  BY <1>4, <1>6, <1>9, NextPiece, Zenon
<1> DEFINE u == a \o b \o i \o f
           S == {<<0, a>>} \cup {<<2, b>>} \cup {<<4, i>>} \cup {<<6, f>>}
<1>11. Laid(u, 8, S)
  BY <1>10
<1> HIDE DEF u, S
<1>12. Laid(u \o t, 10, S \cup {<<8, t>>})
  BY <1>2, <1>6, <1>11, NextPiece, Zenon
<1>13. Laid(u \o t \o d, 12, S \cup {<<8, t>>} \cup {<<10, d>>})
  BY <1>4, <1>6, <1>12, NextPiece, Zenon
<1>14. Laid(u \o t \o d \o h.source_addr, 16,
              S \cup {<<8, t>>} \cup {<<10, d>>} \cup {<<12, h.source_addr>>})
  BY <1>5, <1>6, <1>13, NextPiece, Zenon
<1>15. Laid(u \o t \o d \o h.source_addr \o h.dest_addr, 20,
              S \cup {<<8, t>>} \cup {<<10, d>>} \cup {<<12, h.source_addr>>}
                \cup {<<16, h.dest_addr>>})
  BY <1>5, <1>6, <1>14, NextPiece, Zenon
<1>16. /\ IpHeaderBytes(h, p, c) = u \o t \o d \o h.source_addr \o h.dest_addr
       /\ IpPieces(h, 20 + Len(p), c)
            = S \cup {<<8, t>>} \cup {<<10, d>>} \cup {<<12, h.source_addr>>}
                \cup {<<16, h.dest_addr>>}
  BY DEF IpHeaderBytes, IpPieces, u, S, a, b, i, f, t, d
<1> QED
  BY <1>15, <1>16, Zenon

LEMMA ProtocolBack ==
  ASSUME NEW q \in DOMAIN Protocols
  PROVE  intToProt(Protocols[q]) = q
<1> DEFINE known == {r \in DOMAIN Protocols : Protocols[r] = Protocols[q]}
<1>1. /\ DOMAIN Protocols = {"ICMP", "TCP", "UDP"}
      /\ Protocols["ICMP"] = 1 /\ Protocols["TCP"] = 6 /\ Protocols["UDP"] = 17
  BY DEF Protocols
<1>2. \A r \in DOMAIN Protocols : Protocols[r] = Protocols[q] => r = q
  BY <1>1
<1>3. known = {q}
  BY <1>2
<1>4. known # {} /\ (CHOOSE r \in known : TRUE) = q
  <2> HIDE DEF known
  <2> QED
    BY <1>3
<1> QED
  BY <1>4, Zenon DEF intToProt

LEMMA PairLies ==
  ASSUME NEW s, NEW x, NEW y
  PROVE  /\ Lies(s, 0, <<x, y>>) => s[1] = x /\ s[2] = y
         /\ Lies(s, 8, <<x, y>>) => s[9] = x /\ s[10] = y
<1>1. PICK w : w = <<x, y>>
  OBVIOUS
<1>2. Len(w) = 2 /\ w[1] = x /\ w[2] = y
  BY <1>1
<1>3. 1 \in 1..2 /\ 2 \in 1..2 /\ 0 + 1 = 1 /\ 0 + 2 = 2 /\ 8 + 1 = 9 /\ 8 + 2 = 10
  OBVIOUS
<1>4. ASSUME Lies(s, 0, w) PROVE s[1] = x /\ s[2] = y
  BY <1>2, <1>4 DEF Lies
<1>5. ASSUME Lies(s, 8, w) PROVE s[9] = x /\ s[10] = y
  BY <1>2, <1>3, <1>5, Zenon DEF Lies
<1> QED
  BY <1>1, <1>4, <1>5, Zenon

(* The header that decode reads: total bytes, with checksum c. *)
IpRead(h, total, c) ==
  [h EXCEPT !.version = 4, !.total_length = total, !.header_checksum = c]

LEMMA IpReplaced ==
  ASSUME NEW h \in IpFields, NEW total, NEW c
  PROVE  IpRead(h, total, c)
           = [version |-> 4, ihl |-> h.ihl, dscp |-> h.dscp, ecn |-> h.ecn,
              total_length |-> total, identification |-> h.identification, flags |-> h.flags,
              fragment_offset |-> h.fragment_offset, time_to_live |-> h.time_to_live,
              protocol |-> h.protocol, header_checksum |-> c,
              source_addr |-> h.source_addr, dest_addr |-> h.dest_addr]
<1>1. h = [version |-> h.version, ihl |-> h.ihl, dscp |-> h.dscp, ecn |-> h.ecn,
           total_length |-> h.total_length, identification |-> h.identification,
           flags |-> h.flags, fragment_offset |-> h.fragment_offset,
           time_to_live |-> h.time_to_live, protocol |-> h.protocol,
           header_checksum |-> h.header_checksum,
           source_addr |-> h.source_addr, dest_addr |-> h.dest_addr]
  BY DEF IpFields
<1> DEFINE d == {"version", "ihl", "dscp", "ecn", "total_length", "identification", "flags",
                 "fragment_offset", "time_to_live", "protocol", "header_checksum",
                 "source_addr", "dest_addr"}
<1>2. h = [f \in d |-> h[f]]
  BY <1>1
<1>3. IpRead(h, total, c)
        = [f \in d |-> IF f = "header_checksum" THEN c
                       ELSE IF f = "total_length" THEN total
                       ELSE IF f = "version" THEN 4 ELSE h[f]]
  BY <1>2 DEF IpRead
<1> QED
  BY <1>3

LEMMA IpReadFields ==
  ASSUME NEW h \in IpFields, NEW n, NEW c
  PROVE  /\ \A f \in DOMAIN h \ {"version", "total_length", "header_checksum"} :
              IpRead(h, n, c)[f] = h[f]
         /\ IpRead(h, n, c).total_length = n /\ IpRead(h, n, c).version = 4
<1>1. DOMAIN h = {"version", "ihl", "dscp", "ecn", "total_length", "identification", "flags",
                  "fragment_offset", "time_to_live", "protocol", "header_checksum",
                  "source_addr", "dest_addr"}
  BY DEF IpFields
<1> QED
  BY <1>1, IpReplaced

HeaderLies(s, h, total, c) == \A at, x : <<at, x>> \in IpPieces(h, total, c) => Lies(s, at, x)

(* A packet in which the header lies, and what decode makes of it. *)
LEMMA IpHeaderRead ==
  ASSUME NEW h \in WellFormed, NEW total \in Hextet, NEW c \in Hextet, NEW s \in Seq(Byte),
         Len(s) >= 20, HeaderLies(s, h, total, c)
  PROVE  IpDecode(s) = <<IpRead(h, total, c), extract(s, 20)>>
<1> DEFINE a == <<setLBits(4, 4) + h.ihl, setLBits(h.dscp, 6) + h.ecn>>
           t == <<h.time_to_live, Protocols[h.protocol]>>
           f == FlagsAndOffset(h)
<1>1. /\ Lies(s, 0, a) /\ Lies(s, 2, intToRawbyteString(total, 2))
      /\ Lies(s, 4, intToRawbyteString(h.identification, 2))
      /\ Lies(s, 6, intToRawbyteString(f, 2)) /\ Lies(s, 8, t)
      /\ Lies(s, 10, intToRawbyteString(c, 2))
      /\ Lies(s, 12, h.source_addr) /\ Lies(s, 16, h.dest_addr)
  <2> DEFINE b == intToRawbyteString(total, 2)
             i == intToRawbyteString(h.identification, 2)
             g == intToRawbyteString(f, 2)
             d == intToRawbyteString(c, 2)
  <2>1. IpPieces(h, total, c)
          = {<<0, a>>} \cup {<<2, b>>} \cup {<<4, i>>} \cup {<<6, g>>} \cup {<<8, t>>}
              \cup {<<10, d>>} \cup {<<12, h.source_addr>>} \cup {<<16, h.dest_addr>>}
    BY DEF IpPieces
  <2> HIDE DEF a, t, f, b, i, g, d
  <2>2. /\ Lies(s, 0, a) /\ Lies(s, 2, b) /\ Lies(s, 4, i) /\ Lies(s, 6, g) /\ Lies(s, 8, t)
        /\ Lies(s, 10, d) /\ Lies(s, 12, h.source_addr) /\ Lies(s, 16, h.dest_addr)
    BY <2>1 DEF HeaderLies
  <2> QED
    BY <2>2 DEF b, i, g, d
<1>2. Lies(s, 0, a) => s[1] = setLBits(4, 4) + h.ihl /\ s[2] = setLBits(h.dscp, 6) + h.ecn
  <2>1. PICK x, y : x = setLBits(4, 4) + h.ihl /\ y = setLBits(h.dscp, 6) + h.ecn
    OBVIOUS
  <2>2. Lies(s, 0, <<x, y>>) => s[1] = x /\ s[2] = y
    BY PairLies
  <2> QED
    BY <2>1, <2>2
<1>3. Lies(s, 8, t) => s[9] = h.time_to_live /\ s[10] = Protocols[h.protocol]
  <2>1. PICK x, y : x = h.time_to_live /\ y = Protocols[h.protocol]
    OBVIOUS
  <2>2. Lies(s, 8, <<x, y>>) => s[9] = x /\ s[10] = y
    BY PairLies
  <2> QED
    BY <2>1, <2>2
<1>4. /\ getLBits(s[1], 4) = 4 /\ getRBits(s[1], 4) = h.ihl
      /\ getLBits(s[2], 6) = h.dscp /\ getRBits(s[2], 2) = h.ecn
  <2>1. /\ getLBits(setLBits(4, 4) + h.ihl, 4) = 4 /\ getRBits(setLBits(4, 4) + h.ihl, 4) = h.ihl
        /\ getLBits(setLBits(h.dscp, 6) + h.ecn, 6) = h.dscp
        /\ getRBits(setLBits(h.dscp, 6) + h.ecn, 2) = h.ecn
    BY IpFieldsFit, SharedBytes
  <2> QED
    BY <1>1, <1>2, <2>1, Zenon
<1>5. s[9] = h.time_to_live /\ intToProt(s[10]) = h.protocol
  BY <1>1, <1>3, IpFieldsFit, ProtocolBack, Zenon
<1>6. f \in Hextet /\ h.identification \in Hextet
  BY IpFieldsFit
<1>7. /\ Field(s, 2, 2) = total /\ Field(s, 4, 2) = h.identification
      /\ Field(s, 6, 2) = f /\ Field(s, 10, 2) = c
  <2> HIDE DEF a, t, f
  <2>1. 2 \in Nat /\ 4 \in Nat /\ 6 \in Nat /\ 10 \in Nat
    OBVIOUS
  <2> QED
    BY <1>1, <1>6, <2>1, FieldRead, Zenon
<1>8. s[7] = f \div 256
  <2> DEFINE g == intToRawbyteString(f, 2)
  <2>1. g[1] = f \div 256 /\ Len(g) = 2
    BY <1>6, TwoBytes, Zenon
  <2> HIDE DEF g, f
  <2>2. \A k \in 1..2 : s[6 + k] = g[k]
    BY <1>1, <2>1 DEF Lies, g
  <2>3. s[7] = g[1]
    BY <2>2
  <2> QED
    BY <2>1, <2>3, Zenon
<1>9. getLBits(s[7], 3) = h.flags /\ getRBits(Field(s, 6, 2), 13) = h.fragment_offset
  <2>1. getLBits(f \div 256, 3) = h.flags /\ getRBits(f, 13) = h.fragment_offset
    <3>1. h \in IpFields
      BY DEF WellFormed
    <3> QED
      BY <3>1, SharedHextet
  <2> HIDE DEF f
  <2> QED
    BY <1>7, <1>8, <2>1
<1> HIDE DEF a, t, f
<1>10. SubSeq(s, 13, 16) = h.source_addr /\ SubSeq(s, 17, 20) = h.dest_addr
  <2>1. /\ h.source_addr \in Seq(Byte) /\ Len(h.source_addr) = 4
        /\ h.dest_addr \in Seq(Byte) /\ Len(h.dest_addr) = 4
    BY IpFieldsFit, Zenon
  <2>2. SubSeq(s, 12 + 1, 12 + Len(h.source_addr)) = h.source_addr
    BY <1>1, <2>1, LiesRead
  <2>3. SubSeq(s, 16 + 1, 16 + Len(h.dest_addr)) = h.dest_addr
    BY <1>1, <2>1, LiesRead
  <2>4. 12 + 1 = 13 /\ 12 + 4 = 16 /\ 16 + 1 = 17 /\ 16 + 4 = 20
    OBVIOUS
  <2> QED
    BY <2>1, <2>2, <2>3, <2>4, Zenon
<1>11. IpDecode(s)
         = <<[version |-> getLBits(s[1], 4), ihl |-> getRBits(s[1], 4),
              dscp |-> getLBits(s[2], 6), ecn |-> getRBits(s[2], 2),
              total_length |-> Field(s, 2, 2), identification |-> Field(s, 4, 2),
              flags |-> getLBits(s[7], 3), fragment_offset |-> getRBits(Field(s, 6, 2), 13),
              time_to_live |-> s[9], protocol |-> intToProt(s[10]),
              header_checksum |-> Field(s, 10, 2),
              source_addr |-> SubSeq(s, 13, 16), dest_addr |-> SubSeq(s, 17, 20)],
             extract(s, 20)>>
  <2>1. ~(Len(s) < 20)
    OBVIOUS
  <2> QED
    BY <2>1, Zenon DEF IpDecode
<1>12. IpRead(h, total, c)
         = [version |-> 4, ihl |-> h.ihl, dscp |-> h.dscp, ecn |-> h.ecn,
            total_length |-> total, identification |-> h.identification, flags |-> h.flags,
            fragment_offset |-> h.fragment_offset, time_to_live |-> h.time_to_live,
            protocol |-> h.protocol, header_checksum |-> c,
            source_addr |-> h.source_addr, dest_addr |-> h.dest_addr]
  <2>1. h \in IpFields
    BY DEF WellFormed
  <2> QED
    BY <2>1, IpReplaced
<1> QED
  BY <1>4, <1>5, <1>7, <1>9, <1>10, <1>11, <1>12, Zenon

(* The sum of a header, written out: its k-th pair of bytes, and all. *)
H16(w, k) == w[2 * k - 1] * 256 + w[2 * k]
Added(w) == H16(w, 1) + H16(w, 2) + H16(w, 3) + H16(w, 4) + H16(w, 5)
              + H16(w, 6) + H16(w, 7) + H16(w, 8) + H16(w, 9) + H16(w, 10)

Fit16(x) == x \in Nat /\ x <= 65535
NoCarry(sum) == (sum % 65536) + (sum \div 65536) < 65536

LEMMA HeaderSum ==
  ASSUME NEW w \in Seq(Byte), Len(w) = 20
  PROVE  Sum(toHextets(w)) = Added(w) /\ \A k \in 1..10 : Fit16(H16(w, k))
<1>1. \A k \in 1..10 : Fit16(H16(w, k))
  <2>1. ASSUME NEW k \in 1..10 PROVE Fit16(H16(w, k))
    <3>1. 2 * k - 1 \in 1..20 /\ 2 * k \in 1..20
      OBVIOUS
    <3>2. w[2 * k - 1] \in Byte /\ w[2 * k] \in Byte
      BY <3>1, ElementsAreBytes
    <3>3. PICK x \in Byte, y \in Byte : x = w[2 * k - 1] /\ y = w[2 * k]
      BY <3>2, Zenon
    <3>4. x * 256 + y \in Nat /\ x * 256 + y <= 65535
      BY DEF Byte
    <3>5. H16(w, k) = x * 256 + y
      BY <3>3, Zenon DEF H16
    <3> QED
      BY <3>4, <3>5 DEF Fit16
  <2> QED
    BY <2>1
<1>2. PICK n \in Nat : n = 10
  OBVIOUS
<1> DEFINE l == toHextets(w)
<1>3. Len(l) = n /\ \A k \in 1..n : l[k] = H16(w, k)
  <2>1. 20 \div 2 = 10
    OBVIOUS
  <2>2. l = [k \in 1..n |-> H16(w, k)]
    BY <1>2, <2>1 DEF toHextets, H16
  <2> HIDE DEF l
  <2> QED
    BY <2>2
<1> HIDE DEF l
<1>4. \A k \in 1..n : l[k] \in Nat
  <2>1. \A x : Fit16(x) => x \in Nat
    BY DEF Fit16
  <2>2. 1..n = 1..10
    BY <1>2
  <2> QED
    BY <1>1, <1>3, <2>1, <2>2, Zenon
<1>5. PICK acc : /\ acc[0] = 0 /\ \A k \in 1..n : acc[k] = acc[k - 1] + l[k]
                 /\ Sum(l) = acc[n]
  BY <1>3, <1>4, HextetsSummed
<1>6. \A k \in 1..10 : acc[k] = acc[k - 1] + H16(w, k)
  BY <1>2, <1>3, <1>5
<1>7. /\ acc[1] = acc[0] + H16(w, 1) /\ acc[2] = acc[1] + H16(w, 2) /\ acc[3] = acc[2] + H16(w, 3)
      /\ acc[4] = acc[3] + H16(w, 4) /\ acc[5] = acc[4] + H16(w, 5) /\ acc[6] = acc[5] + H16(w, 6)
      /\ acc[7] = acc[6] + H16(w, 7) /\ acc[8] = acc[7] + H16(w, 8) /\ acc[9] = acc[8] + H16(w, 9)
      /\ acc[10] = acc[9] + H16(w, 10)
  BY <1>6
<1>8. /\ H16(w, 1) \in Nat /\ H16(w, 2) \in Nat /\ H16(w, 3) \in Nat /\ H16(w, 4) \in Nat
      /\ H16(w, 5) \in Nat /\ H16(w, 6) \in Nat /\ H16(w, 7) \in Nat /\ H16(w, 8) \in Nat
      /\ H16(w, 9) \in Nat /\ H16(w, 10) \in Nat
  BY <1>1 DEF Fit16
<1>9. acc[10] = Added(w)
  BY <1>5, <1>7, <1>8 DEF Added
<1> QED
  BY <1>1, <1>2, <1>5, <1>9 DEF l

(* Headers that differ only in the checksum. *)
LEMMA OnlyChecksum ==
  ASSUME NEW h \in WellFormed, NEW p \in Seq(Byte), 20 + Len(p) \in Hextet, NEW c \in Hextet
  PROVE  LET w == IpHeaderBytes(h, p, c)
             v == IpHeaderBytes(h, p, 0)
         IN /\ w \in Seq(Byte) /\ Len(w) = 20 /\ v \in Seq(Byte) /\ Len(v) = 20
            /\ \A k \in 1..10 : k # 6 => H16(w, k) = H16(v, k)
            /\ H16(w, 6) = c /\ H16(v, 6) = 0 /\ H16(v, 1) > 0
<1> DEFINE w == IpHeaderBytes(h, p, c)
           v == IpHeaderBytes(h, p, 0)
           a == <<setLBits(4, 4) + h.ihl, setLBits(h.dscp, 6) + h.ecn>>
           b == intToRawbyteString(20 + Len(p), 2)
           i == intToRawbyteString(h.identification, 2)
           f == intToRawbyteString(FlagsAndOffset(h), 2)
           t == <<h.time_to_live, Protocols[h.protocol]>>
           Shared == {<<0, a>>} \cup {<<2, b>>} \cup {<<4, i>>} \cup {<<6, f>>} \cup {<<8, t>>}
                       \cup {<<12, h.source_addr>>} \cup {<<16, h.dest_addr>>}
<1>1. 0 \in Hextet
  BY HextetIs
<1>2. Laid(w, 20, IpPieces(h, 20 + Len(p), c)) /\ Laid(v, 20, IpPieces(h, 20 + Len(p), 0))
  BY <1>1, IpHeader
<1>3. /\ IpPieces(h, 20 + Len(p), c) = Shared \cup {<<10, intToRawbyteString(c, 2)>>}
      /\ IpPieces(h, 20 + Len(p), 0) = Shared \cup {<<10, intToRawbyteString(0, 2)>>}
  <2> HIDE DEF a, b, i, f, t
  <2>1. \A d : IpPieces(h, 20 + Len(p), d) = Shared \cup {<<10, intToRawbyteString(d, 2)>>}
    BY DEF IpPieces, a, b, i, f, t
  <2> QED
    BY <2>1, Zenon
<1>4. /\ Len(a) = 2 /\ Len(b) = 2 /\ Len(i) = 2 /\ Len(f) = 2 /\ Len(t) = 2
      /\ Len(h.source_addr) = 4 /\ Len(h.dest_addr) = 4
  <2>1. \A n \in Hextet : Len(intToRawbyteString(n, 2)) = 2
    BY TwoBytes
  <2>2. Len(b) = 2 /\ Len(i) = 2 /\ Len(f) = 2
    BY <2>1, IpFieldsFit, Zenon
  <2>3. Len(a) = 2 /\ Len(t) = 2
    OBVIOUS
  <2> QED
    BY <2>2, <2>3, IpFieldsFit, Zenon
<1>5. a[1] = setLBits(4, 4) + h.ihl
  OBVIOUS
<1> HIDE DEF w, v, a, b, i, f, t
<1>6. /\ w \in Seq(Byte) /\ Len(w) = 20 /\ v \in Seq(Byte) /\ Len(v) = 20
      /\ \A at, x : <<at, x>> \in Shared => Lies(w, at, x) /\ Lies(v, at, x)
      /\ Lies(w, 10, intToRawbyteString(c, 2)) /\ Lies(v, 10, intToRawbyteString(0, 2))
  BY <1>2, <1>3, Zenon DEF Laid
<1>7. /\ Lies(w, 0, a) /\ Lies(v, 0, a) /\ Lies(w, 2, b) /\ Lies(v, 2, b)
      /\ Lies(w, 4, i) /\ Lies(v, 4, i) /\ Lies(w, 6, f) /\ Lies(v, 6, f)
      /\ Lies(w, 8, t) /\ Lies(v, 8, t) /\ Lies(w, 12, h.source_addr) /\ Lies(v, 12, h.source_addr)
      /\ Lies(w, 16, h.dest_addr) /\ Lies(v, 16, h.dest_addr)
  BY <1>6
<1> HIDE DEF Shared
<1>8. \A at, x, n : Lies(w, at, x) /\ Lies(v, at, x) /\ Len(x) = n
                      => \A k \in 1..n : w[at + k] = v[at + k]
  BY DEF Lies
<1>9. /\ \A k \in 1..2 : w[0 + k] = v[0 + k]
      /\ \A k \in 1..2 : w[2 + k] = v[2 + k]
      /\ \A k \in 1..2 : w[4 + k] = v[4 + k]
      /\ \A k \in 1..2 : w[6 + k] = v[6 + k]
      /\ \A k \in 1..2 : w[8 + k] = v[8 + k]
      /\ \A k \in 1..4 : w[12 + k] = v[12 + k]
      /\ \A k \in 1..4 : w[16 + k] = v[16 + k]
  <2>1. \A k \in 1..2 : w[0 + k] = v[0 + k]
    BY <1>4, <1>7, <1>8, Zenon
  <2>2. \A k \in 1..2 : w[2 + k] = v[2 + k]
    BY <1>4, <1>7, <1>8, Zenon
  <2>3. \A k \in 1..2 : w[4 + k] = v[4 + k]
    BY <1>4, <1>7, <1>8, Zenon
  <2>4. \A k \in 1..2 : w[6 + k] = v[6 + k]
    BY <1>4, <1>7, <1>8, Zenon
  <2>5. \A k \in 1..2 : w[8 + k] = v[8 + k]
    BY <1>4, <1>7, <1>8, Zenon
  <2>6. \A k \in 1..4 : w[12 + k] = v[12 + k]
    BY <1>4, <1>7, <1>8, Zenon
  <2>7. \A k \in 1..4 : w[16 + k] = v[16 + k]
    BY <1>4, <1>7, <1>8, Zenon
  <2> QED
    BY <2>1, <2>2, <2>3, <2>4, <2>5, <2>6, <2>7
<1>10. /\ w[1] = v[1] /\ w[2] = v[2] /\ w[3] = v[3] /\ w[4] = v[4] /\ w[5] = v[5]
       /\ w[6] = v[6] /\ w[7] = v[7] /\ w[8] = v[8] /\ w[9] = v[9] /\ w[10] = v[10]
       /\ w[13] = v[13] /\ w[14] = v[14] /\ w[15] = v[15] /\ w[16] = v[16]
       /\ w[17] = v[17] /\ w[18] = v[18] /\ w[19] = v[19] /\ w[20] = v[20]
  BY <1>9
<1>11. /\ H16(w, 1) = H16(v, 1) /\ H16(w, 2) = H16(v, 2) /\ H16(w, 3) = H16(v, 3) /\ H16(w, 4) = H16(v, 4)
       /\ H16(w, 5) = H16(v, 5) /\ H16(w, 7) = H16(v, 7) /\ H16(w, 8) = H16(v, 8) /\ H16(w, 9) = H16(v, 9)
       /\ H16(w, 10) = H16(v, 10)
  BY <1>10 DEF H16
<1>12. \A k \in 1..10 : k # 6 => H16(w, k) = H16(v, k)
  BY <1>11
<1>13. H16(w, 6) = c /\ H16(v, 6) = 0
  <2>1. Field(w, 10, 2) = c /\ Field(v, 10, 2) = 0
    <3>1. 10 \in Nat
      OBVIOUS
    <3> QED
      BY <1>1, <1>6, <3>1, FieldRead, Zenon
  <2>2. /\ Field(w, 10, 2) = w[10 + 1] * 256 + w[10 + 2]
        /\ Field(v, 10, 2) = v[10 + 1] * 256 + v[10 + 2]
    <3>1. 10 \in Nat /\ 10 + 2 <= Len(w) /\ 10 + 2 <= Len(v)
      BY <1>6
    <3> QED
      BY <1>6, <3>1, FieldIs, Zenon
  <2>3. 2 * 6 - 1 = 10 + 1 /\ 2 * 6 = 10 + 2
    OBVIOUS
  <2> QED
    BY <2>1, <2>2, <2>3, Zenon DEF H16
<1>14. H16(v, 1) > 0
  <2>1. v[1] = a[1]
    <3>1. \A k \in 1..2 : v[0 + k] = a[k]
      BY <1>4, <1>7, Zenon DEF Lies
    <3> QED
      BY <3>1
  <2>2. setLBits(4, 4) = 64 /\ h.ihl \in 0..15
    BY IpFieldsFit DEF setLBits
  <2>3. v[1] > 0 /\ v[1] \in Nat
    BY <1>5, <2>1, <2>2
  <2>4. v[2] \in Nat
    <3>1. 2 \in 1..Len(v)
      BY <1>6
    <3> QED
      BY <1>6, <3>1, ElementsAreBytes, Zenon
  <2> QED
    BY <2>3, <2>4 DEF H16
<1> QED
  BY <1>6, <1>12, <1>13, <1>14 DEF w, v

LEMMA NineSmall ==
  ASSUME NEW a, NEW b, NEW c, NEW d, NEW e, NEW f, NEW g, NEW i, NEW j, NEW zero, zero = 0,
         Fit16(a), Fit16(b), Fit16(c), Fit16(d), Fit16(e), Fit16(f), Fit16(g), Fit16(i), Fit16(j),
         a > 0
  PROVE  LET sum == a + b + c + d + e + zero + f + g + i + j
         IN sum \in Nat /\ sum <= 589815 /\ sum > 0
<1>1. a + b + c \in Nat /\ a + b + c <= 196605 /\ a + b + c > 0
  BY DEF Fit16
<1>2. d + e + zero + f \in Nat /\ d + e + zero + f <= 196605
  BY DEF Fit16
<1>3. g + i + j \in Nat /\ g + i + j <= 196605
  BY DEF Fit16
<1>4. a + b + c + d + e + zero + f + g + i + j = (a + b + c) + (d + e + zero + f) + (g + i + j)
  BY DEF Fit16
<1> QED
  BY <1>1, <1>2, <1>3, <1>4

LEMMA SixthAdded ==
  ASSUME NEW a, NEW b, NEW c, NEW d, NEW e, NEW f, NEW g, NEW i, NEW j, NEW zero, zero = 0,
         Fit16(a), Fit16(b), Fit16(c), Fit16(d), Fit16(e), Fit16(f), Fit16(g), Fit16(i), Fit16(j),
         NEW k \in Nat
  PROVE  a + b + c + d + e + k + f + g + i + j = (a + b + c + d + e + zero + f + g + i + j) + k
BY DEF Fit16

(* A header whose sum leaves no carry to fold verifies, and no other. *)
LEMMA FoldedOnceIs ==
  ASSUME NEW sum \in Nat, sum <= 589815
  PROVE  /\ FoldedOnce(sum) \in Nat /\ FoldedOnce(sum) <= 65535
         /\ sum > 0 => (AllOnes(sum + FoldedOnce(sum)) <=> NoCarry(sum))
<1>1. PICK hi, lo : hi = sum \div 65536 /\ lo = sum % 65536
  OBVIOUS
<1>2. /\ hi \in Nat /\ hi <= 8 /\ lo \in Nat /\ lo <= 65535 /\ sum = 65536 * hi + lo
  BY <1>1
<1>3. FoldedOnce(sum) = 65535 - ((lo + hi) % 65536)
  BY <1>1 DEF FoldedOnce
<1>4. CASE lo + hi < 65536
  <2>1. (lo + hi) % 65536 = lo + hi
    BY <1>2, <1>4
  <2>2. FoldedOnce(sum) = 65535 - (lo + hi) /\ sum + FoldedOnce(sum) = 65535 * (hi + 1)
    BY <1>2, <1>3, <2>1
  <2>3. 65535 * (hi + 1) > 0 /\ (65535 * (hi + 1)) % 65535 = 0
    BY <1>2
  <2> QED
    BY <1>1, <1>2, <1>4, <2>2, <2>3 DEF AllOnes, NoCarry
<1>5. CASE ~(lo + hi < 65536)
  <2>1. (lo + hi) % 65536 = lo + hi - 65536
    BY <1>2, <1>5
  <2>2. FoldedOnce(sum) = 131071 - (lo + hi) /\ sum + FoldedOnce(sum) = 65535 * (hi + 2) + 1
    BY <1>2, <1>3, <2>1
  <2>3. (65535 * (hi + 2) + 1) % 65535 = 1
    BY <1>2
  <2> QED
    BY <1>1, <1>2, <1>5, <2>2, <2>3 DEF AllOnes, NoCarry
<1> QED
  BY <1>4, <1>5

(* The checksum that encode writes, and whether it verifies. *)
LEMMA IpWritten ==
  ASSUME NEW h \in IpFields, NEW p \in Seq(Byte), IpEncode(h, p) # Raised
  PROVE  \E c \in Hextet :
           /\ 20 + Len(p) \in Hextet /\ IpEncode(h, p) = IpHeaderBytes(h, p, c) \o p
           /\ AllOnes(Sum(toHextets(IpHeaderBytes(h, p, c))))
                <=> NoCarry(Sum(toHextets(IpHeaderBytes(h, p, 0))))
           /\ h \in WellFormed
<1> DEFINE v == IpHeaderBytes(h, p, 0)
           sum == Sum(toHextets(v))
           c == FoldedOnce(sum)
           w == IpHeaderBytes(h, p, c)
<1>1. /\ ~TooWide(20 + Len(p), 2) /\ IpEncode(h, p) = IpHeaderBytes(h, p, c) \o p
      /\ h \in WellFormed
  BY Zenon DEF IpEncode, ipv4Checksum, WellFormed
<1>2. 20 + Len(p) \in Hextet
  <2>1. 20 + Len(p) \in Nat
    OBVIOUS
  <2> QED
    BY <1>1, <2>1, NotTooWide, Zenon
<1>3. 0 \in Hextet
  BY HextetIs
<1>4. /\ v \in Seq(Byte) /\ Len(v) = 20 /\ H16(v, 6) = 0 /\ H16(v, 1) > 0
  BY <1>1, <1>2, <1>3, OnlyChecksum, Zenon
<1> HIDE DEF v
<1>5. sum = Added(v) /\ \A k \in 1..10 : Fit16(H16(v, k))
  BY <1>4, HeaderSum
<1> HIDE DEF sum
<1>6. /\ Fit16(H16(v, 1)) /\ Fit16(H16(v, 2)) /\ Fit16(H16(v, 3)) /\ Fit16(H16(v, 4)) /\ Fit16(H16(v, 5))
      /\ Fit16(H16(v, 7)) /\ Fit16(H16(v, 8)) /\ Fit16(H16(v, 9)) /\ Fit16(H16(v, 10))
  BY <1>5
<1>7. sum \in Nat /\ sum <= 589815 /\ sum > 0
  <2>1. sum = Added(v)
    BY <1>5
  <2> QED
    BY <1>4, <1>6, <2>1, NineSmall DEF Added
<1>8. /\ c \in Nat /\ c <= 65535
      /\ AllOnes(sum + c) <=> NoCarry(sum)
  BY <1>7, FoldedOnceIs
<1> HIDE DEF c
<1>9. c \in Hextet
  BY <1>8, HextetIs
<1>10. /\ w \in Seq(Byte) /\ Len(w) = 20 /\ H16(w, 6) = c
       /\ \A k \in 1..10 : k # 6 => H16(w, k) = H16(v, k)
  BY <1>1, <1>2, <1>9, OnlyChecksum, Zenon DEF v
<1> HIDE DEF w
<1>11. Sum(toHextets(w)) = sum + c
  <2>1. Sum(toHextets(w)) = Added(w)
    BY <1>10, HeaderSum
  <2>2. /\ H16(w, 1) = H16(v, 1) /\ H16(w, 2) = H16(v, 2) /\ H16(w, 3) = H16(v, 3) /\ H16(w, 4) = H16(v, 4)
        /\ H16(w, 5) = H16(v, 5) /\ H16(w, 7) = H16(v, 7) /\ H16(w, 8) = H16(v, 8) /\ H16(w, 9) = H16(v, 9)
        /\ H16(w, 10) = H16(v, 10)
    BY <1>10
  <2>3. Added(w) = Added(v) + c
    BY <1>4, <1>6, <1>8, <1>10, <2>2, SixthAdded DEF Added
  <2> QED
    BY <1>5, <2>1, <2>3
<1>12. /\ IpEncode(h, p) = w \o p
       /\ AllOnes(Sum(toHextets(w))) <=> NoCarry(sum)
  BY <1>1, <1>8, <1>11 DEF w, c
<1> WITNESS c \in Hextet
<1> QED
  BY <1>1, <1>2, <1>12 DEF w, sum, v

LEMMA ExtractStarts ==
  ASSUME NEW s \in Seq(Byte), NEW x \in Seq(Byte), Len(s) >= 20, Lies(s, 20, x)
  PROVE  SubSeq(extract(s, 20), 1, Len(x)) = x
<1> DEFINE e == extract(s, 20)
<1>1. PICK n \in Nat : n = Len(s) - 20
  OBVIOUS
<1>2. PICK at \in Nat : at = 20
  OBVIOUS
<1>3. e \in Seq(Byte) /\ Len(e) = n /\ \A i \in 1..n : e[i] = s[20 + i]
  <2>1. PICK hi : hi = Len(s)
    OBVIOUS
  <2>2. at + n <= Len(s) /\ hi = at + n
    BY <1>1, <1>2, <2>1
  <2>3. /\ SubSeq(s, at + 1, hi) \in Seq(Byte) /\ Len(SubSeq(s, at + 1, hi)) = n
        /\ \A i \in 1..n : SubSeq(s, at + 1, hi)[i] = s[at + i]
    BY <2>2, Slice
  <2> QED
    BY <1>2, <2>1, <2>3 DEF extract
<1> HIDE DEF e
<1>4. Lies(e, 0, x)
  <2>1. 20 + Len(x) <= Len(s) /\ \A i \in 1..Len(x) : s[20 + i] = x[i]
    BY DEF Lies
  <2>2. Len(x) <= n /\ \A i \in 1..Len(x) : e[i] = x[i]
    BY <1>1, <1>3, <2>1
  <2>3. \A i \in 1..Len(x) : e[0 + i] = x[i]
    BY <2>2
  <2> QED
    BY <1>3, <2>2, <2>3 DEF Lies
<1>5. SubSeq(e, 0 + 1, 0 + Len(x)) = x
  BY <1>3, <1>4, LiesRead
<1> QED
  BY <1>5 DEF e

(* A decoded packet: the header, and first of all its payload. *)
LEMMA IpBack ==
  ASSUME NEW h \in IpFields, NEW p \in Seq(Byte), IpEncode(h, p) # Raised, MinPayload \in Nat
  PROVE  \E c, e : /\ IpDecode(Padded(IpEncode(h, p)))
                        = <<IpRead(h, 20 + Len(p), c), e>>
                   /\ SubSeq(e, 1, Len(p)) = p
<1>1. PICK c \in Hextet : /\ 20 + Len(p) \in Hextet /\ h \in WellFormed
                          /\ IpEncode(h, p) = IpHeaderBytes(h, p, c) \o p
  BY IpWritten, Zenon
<1> DEFINE w == IpHeaderBytes(h, p, c)
           S == IpPieces(h, 20 + Len(p), c)
           k == Len(w \o p)
           n == IF k < MinPayload THEN MinPayload - k ELSE 0
           z == [i \in 1..n |-> 0]
           s == w \o p \o z
           e == extract(s, 20)
<1>2. Laid(w, 20, S)
  BY <1>1, IpHeader
<1>3. Laid(w \o p, 20 + Len(p), S \cup {<<20, p>>})
  <2> HIDE DEF w, S
  <2> QED
    BY <1>2, NextPiece, Zenon
<1>4. n \in Nat
  <2>1. k \in Nat
    BY <1>3 DEF Laid
  <2> HIDE DEF k
  <2> QED
    BY <2>1
<1>5. z \in Seq(Byte) /\ Len(z) = n
  <2> HIDE DEF n
  <2>1. z \in [1..n -> Byte]
    BY DEF Byte
  <2> QED
    BY <1>4, <2>1, FunctionIsPacket, Zenon
<1>6. Padded(IpEncode(h, p)) = s
  BY <1>1, Zenon DEF Padded
<1> HIDE DEF z, n, k
<1>7. s \in Seq(Byte) /\ Len(s) = 20 + Len(p) + n
      /\ \A at, x : <<at, x>> \in S \cup {<<20, p>>} => Lies(s, at, x)
  <2>1. PICK m : m = 20 + Len(p) + n
    OBVIOUS
  <2>2. Laid(s, m, (S \cup {<<20, p>>}) \cup {<<20 + Len(p), z>>})
    <3> HIDE DEF w, S
    <3> QED
      BY <1>3, <1>5, <2>1, NextPiece, Zenon
  <2> HIDE DEF s, S
  <2> QED
    BY <2>1, <2>2, Zenon DEF Laid
<1> HIDE DEF s
<1>8. Len(s) >= 20
  BY <1>4, <1>7
<1>9. IpDecode(s) = <<IpRead(h, 20 + Len(p), c), e>>
  <2>1. HeaderLies(s, h, 20 + Len(p), c)
    BY <1>7 DEF HeaderLies
  <2> QED
    BY <1>1, <1>7, <1>8, <2>1, IpHeaderRead, Zenon
<1>10. SubSeq(e, 1, Len(p)) = p
  <2>1. Lies(s, 20, p)
    <3> HIDE DEF S
    <3> QED
      BY <1>7
  <2> QED
    BY <1>7, <1>8, <2>1, ExtractStarts
<1> QED
  BY <1>6, <1>9, <1>10, Zenon

------------------------------------------------------------------------------
(* What is under way: the packet asked for, its bytes, and, once they are  *)
(* decoded, what decode makes of them.                                     *)
Decoded(d) == parsed = <<>> \/ (bytes # Raised /\ parsed = d)

EthInv == \E h \in EthFields, p \in Seq(Byte) :
            /\ codec = "eth" /\ asked = <<h, p>> /\ bytes = EthEncode(h, p)
            /\ Decoded(EthDecode(bytes))
ArpInv == \E h \in ArpFields :
            /\ codec = "arp" /\ asked = <<h, <<>>>> /\ bytes = ArpEncode(h)
            /\ Decoded(ArpDecode(bytes))
UdpInv == \E h \in UdpFields, p \in Seq(Byte) :
            /\ codec = "udp" /\ asked = <<h, p>> /\ bytes = UdpEncode(h, p)
            /\ Decoded(UdpDecode(bytes))
IpInv == \E h \in IpFields, p \in Seq(Byte) :
           /\ codec = "ipv4" /\ asked = <<h, p>> /\ bytes = IpEncode(h, p)
           /\ Decoded(IpDecode(Padded(bytes)))
CodecInv == (codec = "" /\ parsed = <<>>) \/ EthInv \/ ArpInv \/ UdpInv \/ IpInv

LEMMA CodecStarts == CodecInit => CodecInv
BY DEF CodecInit, CodecInv

LEMMA CodecSteps == CodecInv /\ [CodecNext]_codecVars => CodecInv'
<1> SUFFICES ASSUME CodecInv, [CodecNext]_codecVars PROVE CodecInv'
  OBVIOUS
<1>1. ASSUME NEW h \in EthHeaders, NEW p \in Contents, Encode("eth", h, p) PROVE CodecInv'
  <2>1. h \in EthFields /\ p \in Seq(Byte)
    BY CodecsAssumption
  <2>2. codec' = "eth" /\ asked' = <<h, p>> /\ bytes' = EthEncode(h, p) /\ parsed' = <<>>
    BY <1>1 DEF Encode
  <2> QED
    BY <2>1, <2>2, Zenon DEF CodecInv, EthInv, Decoded
<1>2. ASSUME NEW h \in ArpHeaders, Encode("arp", h, <<>>) PROVE CodecInv'
  <2>1. h \in ArpFields
    BY CodecsAssumption
  <2>2. codec' = "arp" /\ asked' = <<h, <<>>>> /\ bytes' = ArpEncode(h) /\ parsed' = <<>>
    BY <1>2 DEF Encode
  <2> QED
    BY <2>1, <2>2, Zenon DEF CodecInv, ArpInv, Decoded
<1>3. ASSUME NEW h \in UdpHeaders, NEW p \in Contents, Encode("udp", h, p) PROVE CodecInv'
  <2>1. h \in UdpFields /\ p \in Seq(Byte)
    BY CodecsAssumption
  <2>2. codec' = "udp" /\ asked' = <<h, p>> /\ bytes' = UdpEncode(h, p) /\ parsed' = <<>>
    BY <1>3 DEF Encode
  <2> QED
    BY <2>1, <2>2, Zenon DEF CodecInv, UdpInv, Decoded
<1>4. ASSUME NEW h \in IpHeaders, NEW p \in Contents, Encode("ipv4", h, p) PROVE CodecInv'
  <2>1. h \in IpFields /\ p \in Seq(Byte)
    BY CodecsAssumption
  <2>2. codec' = "ipv4" /\ asked' = <<h, p>> /\ bytes' = IpEncode(h, p) /\ parsed' = <<>>
    BY <1>4 DEF Encode
  <2> QED
    BY <2>1, <2>2, Zenon DEF CodecInv, IpInv, Decoded
<1>5. CASE Decode
  <2>1. /\ codec # "" /\ bytes # Raised
        /\ codec' = codec /\ asked' = asked /\ bytes' = bytes
        /\ parsed' = CASE codec = "eth" -> EthDecode(bytes) [] codec = "arp" -> ArpDecode(bytes)
                       [] codec = "udp" -> UdpDecode(bytes)
                       [] codec = "ipv4" -> IpDecode(Padded(bytes))
    BY <1>5 DEF Decode
  <2>2. ASSUME EthInv PROVE CodecInv'
    <3>1. codec = "eth"
      BY <2>2 DEF EthInv
    <3>2. parsed' = EthDecode(bytes)
      BY <2>1, <3>1
    <3> QED
      BY <2>1, <2>2, <3>2, Zenon DEF CodecInv, EthInv, Decoded
  <2>3. ASSUME ArpInv PROVE CodecInv'
    <3>1. codec = "arp"
      BY <2>3 DEF ArpInv
    <3>2. parsed' = ArpDecode(bytes)
      BY <2>1, <3>1
    <3> QED
      BY <2>1, <2>3, <3>2, Zenon DEF CodecInv, ArpInv, Decoded
  <2>4. ASSUME UdpInv PROVE CodecInv'
    <3>1. codec = "udp"
      BY <2>4 DEF UdpInv
    <3>2. parsed' = UdpDecode(bytes)
      BY <2>1, <3>1
    <3> QED
      BY <2>1, <2>4, <3>2, Zenon DEF CodecInv, UdpInv, Decoded
  <2>5. ASSUME IpInv PROVE CodecInv'
    <3>1. codec = "ipv4"
      BY <2>5 DEF IpInv
    <3>2. parsed' = IpDecode(Padded(bytes))
      BY <2>1, <3>1
    <3> QED
      BY <2>1, <2>5, <3>2, Zenon DEF CodecInv, IpInv, Decoded
  <2> QED
    BY <2>1, <2>2, <2>3, <2>4, <2>5, Zenon DEF CodecInv
<1>6. CASE Forget
  BY <1>6 DEF Forget, CodecInv
<1>7. CASE UNCHANGED codecVars
  BY <1>7, Zenon DEF codecVars, CodecInv, EthInv, ArpInv, UdpInv, IpInv, Decoded
<1> QED
  BY <1>1, <1>2, <1>3, <1>4, <1>5, <1>6, <1>7, Zenon DEF CodecNext

LEMMA CodecInvariant == CodecSpec => []CodecInv
<1>1. CodecInit => CodecInv
  BY CodecStarts
<1>2. CodecInv /\ [CodecNext]_codecVars => CodecInv'
  BY CodecSteps
<1> QED
  BY <1>1, <1>2, PTL DEF CodecSpec

------------------------------------------------------------------------------
LEMMA WholePayload ==
  ASSUME NEW p \in Seq(Byte)
  PROVE  SubSeq(p, 1, Len(p)) = p
<1>1. SubSeq(p, 0 + 1, 0 + Len(p)) = p
  BY LiesAtStart, LiesRead
<1> QED
  BY <1>1

(* An exception is not a value that decode returns. *)
RaisedApart == \A x, y : Raised # <<x, y>>

LEMMA RoundTripHolds ==
  ASSUME RaisedApart, CodecInv
  PROVE  RoundTrip
<1> SUFFICES ASSUME parsed # <<>>
    PROVE  /\ parsed # Raised
           /\ SubSeq(parsed[2], 1, Len(asked[2])) = asked[2]
           /\ codec # "ipv4" => Len(parsed[2]) = Len(asked[2])
           /\ \A f \in DOMAIN asked[1] \ Computed : parsed[1][f] = asked[1][f]
           /\ codec = "arp" => parsed[1].oper = "Reply"
           /\ codec = "udp" => parsed[1].length = 8 + Len(asked[2])
           /\ codec = "ipv4" => parsed[1].total_length = 20 + Len(asked[2]) /\ parsed[1].version = 4
  BY DEF RoundTrip
<1>1. \A x, y : <<x, y>> # Raised
  BY Zenon DEF RaisedApart
<1>2. ASSUME EthInv
      PROVE  \E h, p : codec = "eth" /\ p \in Seq(Byte) /\ asked = <<h, p>> /\ parsed = <<h, p>>
  BY <1>2, EthBack, Zenon DEF EthInv, Decoded
<1>3. ASSUME ArpInv
      PROVE  \E h \in ArpFields : /\ codec = "arp" /\ asked = <<h, <<>>>>
                                  /\ parsed = <<[h EXCEPT !.oper = "Reply"], <<>>>>
  BY <1>3, ArpBack, Zenon DEF ArpInv, Decoded
<1>4. ASSUME UdpInv
      PROVE  \E h \in UdpFields, p \in Seq(Byte) :
               /\ codec = "udp" /\ asked = <<h, p>>
               /\ parsed = <<[h EXCEPT !.length = 8 + Len(p), !.checksum = 0], p>>
  BY <1>4, UdpBack, Zenon DEF UdpInv, Decoded
<1>5. ASSUME IpInv
      PROVE  \E h \in IpFields, p \in Seq(Byte) : \E c, e :
               /\ codec = "ipv4" /\ asked = <<h, p>> /\ SubSeq(e, 1, Len(p)) = p
               /\ parsed = <<IpRead(h, 20 + Len(p), c), e>>
  <2>1. MinPayload \in Nat
    BY CodecsAssumption
  <2>2. PICK h \in IpFields, p \in Seq(Byte) :
          /\ codec = "ipv4" /\ asked = <<h, p>>
          /\ IpEncode(h, p) # Raised /\ parsed = IpDecode(Padded(IpEncode(h, p)))
    BY <1>5, Zenon DEF IpInv, Decoded
  <2>3. PICK c, e : /\ IpDecode(Padded(IpEncode(h, p))) = <<IpRead(h, 20 + Len(p), c), e>>
                    /\ SubSeq(e, 1, Len(p)) = p
    BY <2>1, <2>2, IpBack, Zenon
  <2> QED
    BY <2>2, <2>3, Zenon
<1>6. CASE EthInv
  <2>1. PICK h, p : codec = "eth" /\ p \in Seq(Byte) /\ asked = <<h, p>> /\ parsed = <<h, p>>
    BY <1>2, <1>6
  <2>2. asked[1] = h /\ asked[2] = p /\ parsed[1] = h /\ parsed[2] = p
    BY <2>1
  <2> QED
    BY <1>1, <2>1, <2>2, WholePayload
<1>7. CASE ArpInv
  <2>1. PICK h \in ArpFields : /\ codec = "arp" /\ asked = <<h, <<>>>>
                               /\ parsed = <<[h EXCEPT !.oper = "Reply"], <<>>>>
    BY <1>3, <1>7
  <2>2. /\ asked[1] = h /\ asked[2] = <<>>
        /\ parsed[1] = [h EXCEPT !.oper = "Reply"] /\ parsed[2] = <<>>
    BY <2>1
  <2>3. SubSeq(<<>>, 1, Len(<<>>)) = <<>>
    OBVIOUS
  <2>4. Computed = {"oper"}
    BY <2>1 DEF Computed
  <2>5. \A f \in DOMAIN h \ {"oper"} : [h EXCEPT !.oper = "Reply"][f] = h[f]
    OBVIOUS
  <2>6. [h EXCEPT !.oper = "Reply"].oper = "Reply"
    BY DEF ArpFields
  <2>7. parsed # Raised /\ codec # "ipv4" /\ codec # "udp"
    BY <1>1, <2>1
  <2> QED
    BY <2>2, <2>3, <2>4, <2>5, <2>6, <2>7
<1>8. CASE UdpInv
  <2>1. PICK h \in UdpFields, p \in Seq(Byte) :
          /\ codec = "udp" /\ asked = <<h, p>>
          /\ parsed = <<[h EXCEPT !.length = 8 + Len(p), !.checksum = 0], p>>
    BY <1>4, <1>8
  <2>2. PICK n : n = 8 + Len(p)
    OBVIOUS
  <2>3. /\ asked[1] = h /\ asked[2] = p
        /\ parsed[1] = [h EXCEPT !.length = n, !.checksum = 0] /\ parsed[2] = p
    BY <2>1, <2>2
  <2>4. Computed = {"length", "checksum"}
    BY <2>1 DEF Computed
  <2>5. /\ \A f \in DOMAIN h \ {"length", "checksum"} :
             [h EXCEPT !.length = n, !.checksum = 0][f] = h[f]
        /\ [h EXCEPT !.length = n, !.checksum = 0].length = n
    <3>1. h = [source_port |-> h.source_port, dest_port |-> h.dest_port,
               length |-> h.length, checksum |-> h.checksum]
      BY DEF UdpFields
    <3> QED
      BY <3>1
  <2>6. parsed # Raised /\ codec # "ipv4" /\ codec # "arp" /\ SubSeq(p, 1, Len(p)) = p
    BY <1>1, <2>1, WholePayload
  <2> QED
    BY <2>2, <2>3, <2>4, <2>5, <2>6
<1>9. CASE IpInv
  <2>0. PICK h \in IpFields, p \in Seq(Byte) : \E c, e :
          /\ codec = "ipv4" /\ asked = <<h, p>> /\ SubSeq(e, 1, Len(p)) = p
          /\ parsed = <<IpRead(h, 20 + Len(p), c), e>>
    BY <1>5, <1>9, Zenon
  <2>1. PICK c, e :
          /\ codec = "ipv4" /\ asked = <<h, p>> /\ SubSeq(e, 1, Len(p)) = p
          /\ parsed = <<IpRead(h, 20 + Len(p), c), e>>
    BY <2>0, Zenon
  <2>2. PICK n : n = 20 + Len(p)
    OBVIOUS
  <2>3. asked[1] = h /\ asked[2] = p /\ parsed[1] = IpRead(h, n, c) /\ parsed[2] = e
    BY <2>1, <2>2
  <2>4. Computed = {"version", "total_length", "header_checksum"}
    BY <2>1 DEF Computed
  <2>5. /\ \A f \in DOMAIN h \ {"version", "total_length", "header_checksum"} :
             IpRead(h, n, c)[f] = h[f]
        /\ IpRead(h, n, c).total_length = n /\ IpRead(h, n, c).version = 4
    BY IpReadFields
  <2>6. parsed # Raised /\ codec # "udp" /\ codec # "arp"
    BY <1>1, <2>1
  <2> QED
    BY <2>1, <2>2, <2>3, <2>4, <2>5, <2>6
<1> QED
  BY <1>6, <1>7, <1>8, <1>9 DEF CodecInv

LEMMA ChecksumHolds ==
  ASSUME CodecInv
  PROVE  ChecksumExact
<1> SUFFICES ASSUME codec = "ipv4", bytes # Raised
    PROVE  Verifies <=> NoCarry(Sum(toHextets(IpHeaderBytes(asked[1], asked[2], 0))))
  BY DEF ChecksumExact, NoCarry
<1>1. IpInv
  BY DEF CodecInv, EthInv, ArpInv, UdpInv
<1>2. PICK h \in IpFields, p \in Seq(Byte) : asked = <<h, p>> /\ bytes = IpEncode(h, p)
  BY <1>1 DEF IpInv
<1>3. asked[1] = h /\ asked[2] = p
  BY <1>2
<1>4. PICK c \in Hextet :
        /\ 20 + Len(p) \in Hextet /\ bytes = IpHeaderBytes(h, p, c) \o p /\ h \in WellFormed
        /\ AllOnes(Sum(toHextets(IpHeaderBytes(h, p, c))))
             <=> NoCarry(Sum(toHextets(IpHeaderBytes(h, p, 0))))
  BY <1>2, IpWritten, Zenon
<1> DEFINE w == IpHeaderBytes(h, p, c)
<1>5. w \in Seq(Byte) /\ Len(w) = 20
  BY <1>4, IpHeader, Zenon DEF Laid
<1> HIDE DEF w
<1>6. SubSeq(w \o p, 1, 20) = w
  <2>1. w \o p \in Seq(Byte) /\ Lies(w \o p, 0, w)
    <3>1. 0 \in Nat
      OBVIOUS
    <3> QED
      BY <1>5, <3>1, LiesAtStart, LiesBehind, Zenon
  <2>2. SubSeq(w \o p, 0 + 1, 0 + Len(w)) = w
    BY <1>5, <2>1, LiesRead
  <2>3. 0 + 1 = 1 /\ 0 + Len(w) = 20
    BY <1>5
  <2> QED
    BY <2>2, <2>3, Zenon
<1>7. bytes = w \o p
  BY <1>4 DEF w
<1>8. Verifies <=> AllOnes(Sum(toHextets(w)))
  BY <1>6, <1>7, Zenon DEF Verifies
<1> QED
  BY <1>3, <1>4, <1>8, Zenon DEF w

(* A header is read back as it was written, whatever it holds, if an       *)
(* exception is not a value: every field that encode copies, and the       *)
(* payload in front of what the link has padded it with.                   *)
THEOREM HeadersReadBack ==
  ASSUME RaisedApart
  PROVE  CodecSpec => []RoundTrip
<1>1. CodecInv => RoundTrip
  BY RoundTripHolds
<1> QED
  BY <1>1, CodecInvariant, PTL

(* The checksum of a header verifies exactly if folding in the carry once  *)
(* leaves none.                                                            *)
THEOREM ChecksumRight == CodecSpec => []ChecksumExact
<1>1. CodecInv => ChecksumExact
  BY ChecksumHolds
<1> QED
  BY <1>1, CodecInvariant, PTL
=============================================================================
