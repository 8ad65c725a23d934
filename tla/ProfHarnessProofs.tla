-------------------------- MODULE ProfHarnessProofs ---------------------------
(***************************************************************************)
(* What the counters of the profiling library say of each other, for every *)
(* number of packets, of runs and of fragments.                            *)
(***************************************************************************)
EXTENDS ProfHarness, TLAPS

(* Whole rounds of the packets, and the packets of the round begun.        *)
Numbers == /\ len \in Nat /\ runs \in Nat /\ raises \in BOOLEAN
           /\ curIdx \in Nat /\ times \in Nat /\ fragments \in Nat
           /\ arrays \in Nat /\ copied \in Nat /\ replies \in Nat

Rounds == IF len = 0
          THEN curIdx = 0 /\ times = 0 /\ arrays = 0 /\ copied = 0
          ELSE /\ curIdx < len
               /\ fragments = len * arrays + curIdx
               /\ 2 * copied = len * arrays * (arrays + 1)

(* Each answer stands for len packets counted. *)
Answered == ~raises => times = len * replies + curIdx

(* No more packets are counted than asked for, and none of a request of    *)
(* one packet that raises.                                                 *)
Counted == /\ times <= runs
           /\ raises /\ len = 1 => times = 0

Finished == /\ pc \in {"listen", "done"}
            /\ pc = "done" => times = runs

HarnessInv == Numbers /\ Rounds /\ Answered /\ Counted /\ Finished

------------------------------------------------------------------------------
(* The arithmetic of a round: its last packet leaves len * (a + 1)         *)
(* fragments and copies them all.                                          *)
LEMMA RoundSum ==
  ASSUME NEW n \in Nat, NEW a \in Nat, NEW c \in Nat, 2 * c = n * a * (a + 1)
  PROVE  2 * (c + n * (a + 1)) = n * (a + 1) * ((a + 1) + 1)
<1>1. \A p \in Nat : n * p \in Nat
  OBVIOUS
<1>2. n * (a + 1) * ((a + 1) + 1) = n * (a + 1) * a + 2 * (n * (a + 1))
  BY <1>1
<1>3. n * (a + 1) * a = n * a * (a + 1)
  BY <1>1
<1> QED
  BY <1>1, <1>2, <1>3

(* One more round has len more packets. *)
LEMMA RoundGrows ==
  ASSUME NEW n \in Nat, NEW a \in Nat
  PROVE  n * a \in Nat /\ n * (a + 1) = n * a + n
OBVIOUS

(* Initially nothing was handled. *)
LEMMA HarnessInit == Init => HarnessInv
<1> SUFFICES ASSUME Init PROVE HarnessInv
  OBVIOUS
<1>1. Numbers
  BY HarnessAssumption DEF Init, Numbers
<1>2. Rounds /\ Answered /\ Counted /\ Finished
  BY <1>1 DEF Init, Numbers, Rounds, Answered, Counted, Finished
<1> QED
  BY <1>1, <1>2 DEF HarnessInv

(* A packet within a round is stored and counted.                          *)
LEMMA WithinRound ==
  ASSUME HarnessInv, HandlePacket, ~Last
  PROVE  HarnessInv'
<1>1. /\ Numbers /\ Rounds /\ Answered /\ Counted /\ Finished
      /\ pc = "listen" /\ times < runs /\ len \in Nat \ {0} /\ curIdx # len - 1
      /\ len' = len /\ runs' = runs /\ raises' = raises /\ pc' = pc
  BY DEF HarnessInv, HandlePacket, GoesOn, Last, Numbers
<1>2. /\ fragments' = fragments + 1 /\ arrays' = arrays /\ copied' = copied
      /\ times' = times + 1 /\ replies' = replies
  BY DEF HandlePacket, Reassemble, Count
<1>3. curIdx < len /\ curIdx \in Nat
  BY <1>1 DEF Rounds, Numbers
<1>4. curIdx' = curIdx + 1 /\ curIdx' < len
  <2>1. curIdx' = (curIdx + 1) % len
    BY DEF HandlePacket, Receive
  <2>2. curIdx + 1 \in 0..(len - 1)
    BY <1>1, <1>3
  <2> QED
    BY <1>1, <2>1, <2>2
<1>5. Numbers'
  BY <1>1, <1>2, <1>4 DEF Numbers
<1>6. Rounds'
  <2>1. len * arrays \in Nat
    BY <1>1, RoundGrows DEF Numbers
  <2>2. fragments' = len' * arrays' + curIdx'
    BY <1>1, <1>2, <1>4, <2>1 DEF Rounds, Numbers
  <2> QED
    BY <1>1, <1>2, <1>4, <2>2 DEF Rounds
<1>7. Answered'
  <2>1. len * replies \in Nat
    BY <1>1, RoundGrows DEF Numbers
  <2> QED
    BY <1>1, <1>2, <1>4, <2>1 DEF Answered, Numbers
<1>8. Counted' /\ Finished'
  BY <1>1, <1>2, <1>3, <1>4 DEF Counted, Finished, Numbers
<1> QED
  BY <1>5, <1>6, <1>7, <1>8 DEF HarnessInv

(* The last packet of a round copies every fragment kept so far.           *)
LEMMA LastOfRound ==
  ASSUME HarnessInv, HandlePacket, Last
  PROVE  HarnessInv'
<1>1. /\ Numbers /\ Rounds /\ Answered /\ Counted /\ Finished
      /\ pc = "listen" /\ times < runs /\ len \in Nat \ {0} /\ curIdx = len - 1
      /\ len' = len /\ runs' = runs /\ raises' = raises /\ pc' = pc
  BY DEF HarnessInv, HandlePacket, GoesOn, Last, Numbers
<1>2. /\ fragments' = fragments + 1 /\ arrays' = arrays + 1
      /\ copied' = copied + (fragments + 1)
  BY DEF HandlePacket, Reassemble
<1>3. /\ times' = IF raises THEN times ELSE times + 1
      /\ replies' = IF raises THEN replies ELSE replies + 1
  BY DEF HandlePacket, Count
<1>4. curIdx' = 0
  <2>1. curIdx' = (curIdx + 1) % len
    BY DEF HandlePacket, Receive
  <2>2. curIdx + 1 = len /\ len % len = 0
    BY <1>1
  <2> QED
    BY <2>1, <2>2
<1>5. Numbers'
  BY <1>1, <1>2, <1>3, <1>4 DEF Numbers
<1>6. Rounds'
  <2>1. len * arrays \in Nat /\ len * (arrays + 1) = len * arrays + len
    BY <1>1, RoundGrows DEF Numbers
  <2>2. fragments + 1 = len * (arrays + 1)
    BY <1>1, <2>1 DEF Rounds, Numbers
  <2>3. 2 * copied = len * arrays * (arrays + 1)
    BY <1>1 DEF Rounds
  <2>4. 2 * (copied + len * (arrays + 1)) = len * (arrays + 1) * ((arrays + 1) + 1)
    BY <1>1, <2>3, RoundSum DEF Numbers
  <2>5. 2 * copied' = len' * arrays' * (arrays' + 1)
    BY <1>1, <1>2, <2>2, <2>4
  <2>6. fragments' = len' * arrays' + curIdx'
    BY <1>1, <1>2, <1>4, <2>1, <2>2 DEF Numbers
  <2> QED
    BY <1>1, <1>4, <2>5, <2>6 DEF Rounds
<1>7. Answered'
  <2>1. len * replies \in Nat /\ len * (replies + 1) = len * replies + len
    BY <1>1, RoundGrows DEF Numbers
  <2> QED
    BY <1>1, <1>3, <1>4, <2>1 DEF Answered, Numbers
<1>8. Counted'
  <2>1. raises \in BOOLEAN /\ times \in Nat /\ runs \in Nat
    BY <1>1 DEF Numbers
  <2> QED
    BY <1>1, <1>3, <2>1 DEF Counted
<1>9. Finished'
  BY <1>1 DEF Finished
<1> QED
  BY <1>5, <1>6, <1>7, <1>8, <1>9 DEF HarnessInv

(* Each step keeps the invariant. *)
LEMMA HarnessNext == HarnessInv /\ [Next]_vars => HarnessInv'
<1> SUFFICES ASSUME HarnessInv, [Next]_vars PROVE HarnessInv'
  OBVIOUS
<1>1. CASE HandlePacket
  BY <1>1, WithinRound, LastOfRound
<1>2. CASE NoPacket
  BY <1>2 DEF NoPacket, vars, HarnessInv, Numbers, Rounds, Answered, Counted, Finished
<1>3. CASE Return
  <2>1. times = runs
    BY <1>3 DEF Return, GoesOn, HarnessInv, Numbers, Counted
  <2>2. Finished'
    BY <1>3, <2>1 DEF Return, Finished
  <2>3. Numbers' /\ Rounds' /\ Answered' /\ Counted'
    BY <1>3 DEF Return, HarnessInv, Numbers, Rounds, Answered, Counted
  <2> QED
    BY <2>2, <2>3 DEF HarnessInv
<1>4. CASE UNCHANGED vars
  BY <1>4 DEF vars, HarnessInv, Numbers, Rounds, Answered, Counted, Finished
<1> QED
  BY <1>1, <1>2, <1>3, <1>4 DEF Next

(* The counters agree in every reachable state. *)
THEOREM HarnessInvariance == Spec => []HarnessInv
<1> QED
  BY HarnessInit, HarnessNext, PTL DEF Spec

------------------------------------------------------------------------------
(* A bounded listen over requests of which no packet counts never returns: *)
(* networkProflib handles the request for ever, or waits for one that was  *)
(* never generated.                                                        *)
THEOREM EndlessHarness == Spec => []NeverReturns
<1>1. HarnessInv => NeverReturns
  <2> SUFFICES ASSUME HarnessInv, ~Counts, runs > 0 PROVE pc = "listen" /\ times = 0
    BY DEF NeverReturns
  <2>1. len = 0 \/ (raises /\ len = 1)
    BY DEF HarnessInv, Numbers, Counts
  <2>2. times = 0
    BY <2>1 DEF HarnessInv, Rounds, Counted
  <2> QED
    BY <2>2 DEF HarnessInv, Numbers, Finished
<1> QED
  BY <1>1, HarnessInvariance, PTL

(* The work of the buffers that only grow: k rounds copy len fragments k   *)
(* times, then k - 1 times, and so on; the profile measures this sum.      *)
THEOREM HarnessWork == Spec => []WorkExact
<1>1. HarnessInv => WorkExact
  <2> SUFFICES ASSUME HarnessInv PROVE WorkExact
    OBVIOUS
  <2>1. CASE len = 0
    BY <2>1 DEF HarnessInv, Rounds, Numbers, WorkExact
  <2>2. CASE len # 0
    BY <2>2 DEF HarnessInv, Rounds, Numbers, WorkExact
  <2> QED
    BY <2>1, <2>2
<1> QED
  BY <1>1, HarnessInvariance, PTL

(* A quotient is found from its remainder. *)
LEMMA QuotientOf ==
  ASSUME NEW n \in Nat \ {0}, NEW q \in Nat, NEW r \in 0..(n - 1)
  PROVE  (n * q + r) \div n = q
OBVIOUS

(* When listen returns, as many packets were counted as setRuns asked for, *)
(* and as many answers were sent as that makes whole requests.             *)
THEOREM HarnessAnswers == Spec => []AnswersExact
<1>1. HarnessInv => AnswersExact
  <2> SUFFICES ASSUME HarnessInv, pc = "done", ~raises
               PROVE  times = runs /\ (len > 0 => replies = runs \div len)
    BY DEF AnswersExact
  <2>1. times = runs /\ times = len * replies + curIdx
    BY DEF HarnessInv, Finished, Answered
  <2>2. ASSUME len > 0 PROVE replies = runs \div len
    <3>1. len \in Nat \ {0} /\ replies \in Nat /\ curIdx \in 0..(len - 1)
      BY <2>2 DEF HarnessInv, Numbers, Rounds
    <3> QED
      BY <2>1, <3>1, QuotientOf
  <2> QED
    BY <2>1, <2>2
<1> QED
  BY <1>1, HarnessInvariance, PTL
=============================================================================
