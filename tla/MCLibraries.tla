------------------------------ MODULE MCLibraries ------------------------------
(* The sequential code below and beside a service, each part on its own: a *)
(* behaviour chooses one of them at its start and uses no other.           *)
EXTENDS Fragmentation, TapDevice, Arithmetic, RealConversions, XMalloc, Strings,
        Sort, Codecs, CodecHeaders, FiniteSets

CONSTANTS
  MaxLen,                         \* the longest payload that is cut
  FirstFrame, LastFrame, FirstList, LastList  \* lengths on the tap device

VARIABLES
  part                            \* the library used

Counted == {[i \in 1..n |-> i] : n \in 0..MaxLen}
FrameLengths == FirstFrame..LastFrame
ListLengths == FirstList..LastList
Data == {<<>>, <<7>>, <<1, 2, 3>>}

Sortable == {-1, 2, 3}

(* With realloc there are fewer pages. *)
Reallocating == INSTANCE XMalloc WITH Pages <- 2, Reallocs <- {"small"}

ASSUME LibrariesAssumption == Reallocating!XMallocAssumption

allVars == <<part, sendVars, tapVars, codecVars, arithVars, realVars, stringVars, sortVars, heapVars>>

MCInit ==
  /\ part \in {"send", "tap", "codecs", "division", "reals", "strings", "sort", "malloc", "realloc"}
  /\ Init /\ TapInit /\ CodecInit /\ ArithInit /\ RealInit /\ StringsInit /\ SortInit /\ HeapInit

MCNext ==
  /\ UNCHANGED part
  /\ \/ part = "send" /\ Next
          /\ UNCHANGED <<tapVars, codecVars, arithVars, realVars, stringVars, sortVars, heapVars>>
     \/ part = "tap" /\ TapNext
          /\ UNCHANGED <<sendVars, codecVars, arithVars, realVars, stringVars, sortVars, heapVars>>
     \/ part = "codecs" /\ CodecNext
          /\ UNCHANGED <<sendVars, tapVars, arithVars, realVars, stringVars, sortVars, heapVars>>
     \/ part = "division" /\ ArithNext
          /\ UNCHANGED <<sendVars, tapVars, codecVars, realVars, stringVars, sortVars, heapVars>>
     \/ part = "reals" /\ RealNext
          /\ UNCHANGED <<sendVars, tapVars, codecVars, arithVars, stringVars, sortVars, heapVars>>
     \/ part = "strings" /\ StringsNext
          /\ UNCHANGED <<sendVars, tapVars, codecVars, arithVars, realVars, sortVars, heapVars>>
     \/ part = "sort" /\ SortNext
          /\ UNCHANGED <<sendVars, tapVars, codecVars, arithVars, realVars, stringVars, heapVars>>
     \/ part = "malloc" /\ HeapNext
          /\ UNCHANGED <<sendVars, tapVars, codecVars, arithVars, realVars, stringVars, sortVars>>
     \/ part = "realloc" /\ Reallocating!HeapNext
          /\ UNCHANGED <<sendVars, tapVars, codecVars, arithVars, realVars, stringVars, sortVars>>

MCSpec == MCInit /\ [][MCNext]_allVars
=============================================================================
