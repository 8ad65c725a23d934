----------------------------- MODULE ProfHarness -----------------------------
(***************************************************************************)
(* The network library for profiling, Libs/networkProflib: a request is    *)
(* cut into packets once, and listen is given them over and over, until it *)
(* has handled `runs` of them.  All of them have identification 1234.      *)
(***************************************************************************)
EXTENDS Integers

CONSTANTS
  MaxPackets, MaxRuns,   \* bounds of the configurations tried
  MaxFragments           \* bound of the buffer, for the request that is handled for ever

ASSUME HarnessAssumption == {MaxPackets, MaxRuns, MaxFragments} \subseteq Nat

VARIABLES
  len,       \* packets of the canned request; 0 when it was never generated
  runs,      \* packets to handle
  raises,    \* whether the callback raises on the request
  pc,        \* "listen", or "done" when listen has returned
  curIdx,    \* the next packet
  times,     \* packets handled
  fragments, \* fragments in the entry of the fragment buffer
  arrays,    \* arrays in the assembling list
  copied,    \* fragments copied into arrays so far
  replies    \* replies sent

vars == <<len, runs, raises, pc, curIdx, times, fragments, arrays, copied, replies>>

------------------------------------------------------------------------------
(* The program, before it calls listen: setRuns, setProfData and bindUDP;  *)
(* generateProfData, or not.                                               *)
Init == /\ len \in 0..MaxPackets /\ runs \in 0..MaxRuns /\ raises \in BOOLEAN
        /\ pc = "listen" /\ curIdx = 0 /\ times = 0
        /\ fragments = 0 /\ arrays = 0 /\ copied = 0 /\ replies = 0

Last == curIdx = len - 1

(* receive: the packets in a circle. *)
Receive == curIdx' = (curIdx + 1) % len

(* handleIPv4: every packet is a fragment, also the only one of a request. *)
(* List.drop leaves the entry it is meant to remove, in both lists.        *)
ReassembleLastLate ==                                                \* mutant
  /\ fragments' = fragments + 1
  /\ arrays' = IF Last THEN arrays + 1 ELSE arrays
  /\ copied' = IF Last THEN copied + fragments ELSE copied
Reassemble ==
  /\ fragments' = fragments + 1
  /\ arrays' = IF Last THEN arrays + 1 ELSE arrays
  /\ copied' = IF Last THEN copied + fragments' ELSE copied

CountRounds(raised) ==                                               \* mutant
  times' = IF Last /\ ~raised THEN times + len ELSE times
CountAlways(raised) == times' = times + 1                            \* mutant
(* The count is the last thing done for a packet: an exception skips it.   *)
Count(raised) == times' = IF raised THEN times ELSE times + 1

GoesOnOnceMore == times <= runs                                      \* mutant
GoesOn == times < runs

HandlePacket ==
  /\ pc = "listen" /\ GoesOn /\ len > 0 /\ fragments < MaxFragments
  /\ Receive /\ Reassemble /\ Count(Last /\ raises)
  /\ replies' = IF Last /\ ~raises THEN replies + 1 ELSE replies
  /\ UNCHANGED <<len, runs, raises, pc>>

(* Without a request receive raises Subscript, and the handler calls       *)
(* listen again: nothing changes but the exception handled.                *)
NoPacket == pc = "listen" /\ GoesOn /\ len = 0 /\ UNCHANGED vars

Return == /\ pc = "listen" /\ ~GoesOn /\ pc' = "done"
          /\ UNCHANGED <<len, runs, raises, curIdx, times, fragments, arrays, copied, replies>>

Next == HandlePacket \/ NoPacket \/ Return

(* One thread, which nothing blocks. *)
Spec == Init /\ [][Next]_vars /\ WF_vars(Next)

------------------------------------------------------------------------------
(* The packets that are not the last of their request count also when the  *)
(* request raises; a request of one packet has none.                       *)
Counts == len > 0 /\ (~raises \/ len > 1)

(* listen returns when some packet counts, and also when none has to.      *)
Returns == (Counts \/ runs = 0) ~> pc = "done"

(* And it does not when none counts: it handles the request for ever, or   *)
(* waits for one that was never generated.                                 *)
NeverReturns == ~Counts /\ runs > 0 => pc = "listen" /\ times = 0

(* When listen returns and the callback does not raise, runs packets have  *)
(* been handled, and the whole requests among them are answered; the       *)
(* packets of a request cut short at the end are not.                      *)
AnswersExact == pc = "done" /\ ~raises => times = runs /\ (len > 0 => replies = runs \div len)

(* The buffers only grow: round k copies the fragments of all k rounds,    *)
(* k * len of them, and leaves an array behind.                            *)
WorkExact == 2 * copied = len * arrays * (arrays + 1) /\ (len > 0 => fragments = len * arrays + curIdx)
=============================================================================
