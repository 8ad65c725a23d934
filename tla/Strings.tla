------------------------------- MODULE Strings -------------------------------
(***************************************************************************)
(* The string runtime, RuntimeMini/String.c: strings as a tag and bytes in *)
(* the words of one region, at its bottom page.  An operation whose result *)
(* is stored "at bottom" finds no value in the region that is used later:  *)
(* some of them reset the region first, those whose arguments may lie in   *)
(* it must not.  What the strings should be is kept beside the memory.     *)
(***************************************************************************)
EXTENDS Integers, Sequences

CONSTANTS
  WordBytes,     \* bytes of a word
  Words,         \* words of the region (bound)
  Chars,         \* the characters used, in 0..255
  MaxString,     \* the longest string built (bound)
  MaxPieces      \* the most strings put together (bound)

ASSUME StringsAssumption ==
  /\ WordBytes \in Nat \ {0} /\ Words \in Nat \ {0} /\ MaxString \in Nat /\ MaxPieces \in Nat
  /\ Chars \subseteq 1..255

VARIABLES
  mem,       \* byte address -> byte; a word with a tag holds the size in its first byte
  top,       \* the next free word
  live,      \* word address of each string still used -> its characters
  chars      \* the last list of characters made from a string

stringVars == <<mem, top, live, chars>>

Memory == 0..(Words * WordBytes - 1)

------------------------------------------------------------------------------
SizeIn(m, s) == m[s * WordBytes]
ByteIn(m, s, k) == LET i == (s + 1) * WordBytes + k IN IF i \in Memory THEN m[i] ELSE 0
DataIn(m, s) == [k \in 1..SizeIn(m, s) |-> ByteIn(m, s, k - 1)]

(* allocString: a word for the tag, the bytes and a terminator in whole words. *)
SzAlloc(n) == 1 + (n + 1 + WordBytes - 1) \div WordBytes
RoomFor(a, n) == n <= MaxString /\ a + SzAlloc(n) <= Words
TagIn(m, a, n) == [m EXCEPT ![a * WordBytes] = n]

(* The copy loops and the terminator after them. *)
Store(m, a, data) ==
  LET first == (a + 1) * WordBytes IN
  [i \in Memory |-> IF i \in first..(first + Len(data) - 1) THEN data[i - first + 1]
                    ELSE IF i = first + Len(data) THEN 0 ELSE m[i]]

(* The new string lies at a, and the region ends behind it; at bottom, the *)
(* others are not used any more.                                           *)
Keep(a, n, string, atbot) ==
  /\ top' = a + SzAlloc(n)
  /\ live' = [s \in (IF atbot THEN {} ELSE DOMAIN live) \cup {a} |->
                IF s = a THEN string ELSE live[s]]

------------------------------------------------------------------------------
(* concatStringML and implodeStringML: no reset, the pieces may be in the  *)
(* region.  A first loop adds their sizes, a second one copies them.       *)
SumSizes(m, ss) ==
  LET sz[k \in 0..Len(ss)] == IF k = 0 THEN 0 ELSE sz[k - 1] + SizeIn(m, ss[k])
  IN sz[Len(ss)]
Joined(pieces) ==
  LET copied[k \in 0..Len(pieces)] == IF k = 0 THEN << >> ELSE copied[k - 1] \o pieces[k]
  IN copied[Len(pieces)]
Pieces(m, ss) == Joined([i \in 1..Len(ss) |-> DataIn(m, ss[i])])

ImplodeAt(a, ss, atbot) ==
  LET n == SumSizes(mem, ss)
      m == TagIn(mem, a, n)
  IN /\ RoomFor(a, n)
     /\ mem' = Store(m, a, Pieces(m, ss))
     /\ Keep(a, n, Joined([i \in 1..Len(ss) |-> live[ss[i]]]), atbot)
     /\ UNCHANGED chars
ImplodeStringsReset(ss, atbot) == ImplodeAt(IF atbot THEN 0 ELSE top, ss, atbot)   \* mutant
ImplodeStrings(ss, atbot) == ImplodeAt(top, ss, atbot)

(* implodeCharsML: the list holds no strings, the region is reset. *)
ImplodeChars(l, atbot) ==
  LET a == IF atbot THEN 0 ELSE top
      data == [i \in 1..Len(l) |-> l[i] % 256]
  IN /\ RoomFor(a, Len(l))
     /\ mem' = Store(TagIn(mem, a, Len(l)), a, data)
     /\ Keep(a, Len(l), data, atbot)
     /\ UNCHANGED chars

(* String.extract: allocStringML, then a copy by ML code; the string it    *)
(* copies from is used after the allocation, so that it is not at bottom.  *)
ExtractString(s, i, n) ==
  /\ i + n <= SizeIn(mem, s)
  /\ RoomFor(top, n)
  /\ mem' = LET m == TagIn(mem, top, n) IN Store(m, top, SubSeq(DataIn(m, s), i + 1, i + n))
  /\ Keep(top, n, SubSeq(live[s], i + 1, i + n), FALSE)
  /\ UNCHANGED chars

(* explodeStringML: the loop starts with the pointer still on the first    *)
(* character, and a char is signed.                                        *)
SignedChar(b) == IF b > 127 THEN b - 256 ELSE b
ExplodeChars(data) == [i \in 1..Len(data) |-> SignedChar(data[IF i = 1 THEN 1 ELSE i - 1])]
Explode(s) ==
  /\ chars' = ExplodeChars(DataIn(mem, s))
  /\ UNCHANGED <<mem, top, live>>

------------------------------------------------------------------------------
(* mystrcmp and the five comparisons.  Less, equal and greater are -1, 0, 1. *)
Differing(a, b) == {i \in 1..Len(a) : i <= Len(b) /\ a[i] # b[i]}
FirstOf(places) == CHOOSE i \in places : \A j \in places : i <= j
StrcmpPrefix(a, b) ==                                                \* mutant
  LET i == FirstOf(Differing(a, b))
  IN IF Differing(a, b) # {} THEN (IF a[i] < b[i] THEN -1 ELSE 1) ELSE 0
Strcmp(a, b) ==
  LET i == FirstOf(Differing(a, b))
  IN IF Differing(a, b) # {} THEN (IF a[i] < b[i] THEN -1 ELSE 1)
     ELSE IF Len(a) < Len(b) THEN -1 ELSE IF Len(b) < Len(a) THEN 1 ELSE 0
Compare(m, s, t) == IF s = t THEN 0 ELSE Strcmp(DataIn(m, s), DataIn(m, t))
LessString(m, s, t) == Compare(m, s, t) < 0
LesseqString(m, s, t) == Compare(m, s, t) <= 0
EqualString(m, s, t) == s = t \/ DataIn(m, s) = DataIn(m, t)

------------------------------------------------------------------------------
StringsInit == /\ mem = [i \in Memory |-> 0] /\ top = 0 /\ live = << >> /\ chars = << >>

StringsNext ==
  \/ \E n \in 0..MaxPieces, atbot \in BOOLEAN : \E ss \in [1..n -> DOMAIN live] : ImplodeStrings(ss, atbot)
  \/ \E n \in 0..MaxString, atbot \in BOOLEAN : \E l \in [1..n -> Chars] : ImplodeChars(l, atbot)
  \/ \E s \in DOMAIN live, i, n \in 0..MaxString : ExtractString(s, i, n)
  \/ \E s \in DOMAIN live : Explode(s)

StringsSpec == StringsInit /\ [][StringsNext]_stringVars

------------------------------------------------------------------------------
(* Every string still used is in memory what it was built to be, with a    *)
(* terminator behind it, whatever was allocated, reset or copied since:    *)
(* also one whose pieces were the last values of the region it went to.    *)
StringsKept ==
  \A s \in DOMAIN live : DataIn(mem, s) = live[s] /\ ByteIn(mem, s, Len(live[s])) = 0

(* The comparisons are a total order, and agree with the equality, which   *)
(* is computed by other code.                                              *)
OrderIsTotal ==
  \A s, t \in DOMAIN live :
    /\ LesseqString(mem, s, t) <=> LessString(mem, s, t) \/ EqualString(mem, s, t)
    /\ LessString(mem, s, t) <=> ~LesseqString(mem, t, s)
    /\ \A u \in DOMAIN live :
         LesseqString(mem, s, t) /\ LesseqString(mem, t, u) => LesseqString(mem, s, u)
=============================================================================
