----------------------------- MODULE ExtractProofs -----------------------------
(***************************************************************************)
(* The scan of jsonrpc-extract is correct for every set of buffers and     *)
(* every parser that does not go beyond the buffer, and gets to its end.   *)
(***************************************************************************)
EXTENDS Extract, Integers, TLAPS

\* Where the scan may be.
Position ==
  /\ d \in Texts
  /\ beg \in 1..End
  /\ pc \in {"start", "passed", "dropped", "scan", "found", "done"}
  /\ pc = "found" => beg <= Len(d)
  /\ pc = "done" => beg = End

\* What has been sent lies behind it.
Behind ==
  /\ sent \in Seq(Nat \X Nat)
  /\ \A k \in DOMAIN sent : sent[k][2] <= beg

\* The values that begin behind it have been sent.
Complete ==
  \A i \in 1..Len(d) : i < beg /\ d[i] \in Openers /\ Parse(d, i) # Fail => Covered(i)

IInv == Position /\ Behind /\ ValuesInOrder /\ Complete

\* The length of every buffer is a natural number, in every state.
LEMMA LengthIsNat ==
  ASSUME Position
  PROVE  Len(d) \in Nat /\ End \in Nat \ {0} /\ beg \in Nat \ {0}
  BY TextsAssumption DEF Position, End

\* What the parser says of a place of the buffer.
LEMMA ParseRange ==
  ASSUME Position, NEW i \in 1..Len(d)
  PROVE  Parse(d, i) \in {Fail} \cup (i + 1)..End
  BY ParseAssumption DEF Position, End

\* Nothing is sent before the scan begins.
LEMMA InitHolds == Init => IInv
  <1> SUFFICES ASSUME Init PROVE IInv
    OBVIOUS
  <1>1. Len(d) \in Nat
    BY TextsAssumption DEF Init
  <1>2. Position
    BY <1>1 DEF Init, Position, End
  <1>3. sent = <<>> /\ beg = 1
    BY DEF Init
  <1>4. Behind /\ ValuesInOrder
    BY <1>3 DEF Behind, ValuesInOrder
  <1>5. Complete
    BY <1>3 DEF Complete
  <1> QED
    BY <1>2, <1>4, <1>5 DEF IInv

\* A step that sends nothing: the places it leaves behind must begin no value.
LEMMA NothingSent ==
  ASSUME IInv, UNCHANGED <<d, sent>>, Position', beg <= beg',
         \A i \in 1..Len(d) : beg <= i /\ i < beg' => d[i] \notin Openers \/ Parse(d, i) = Fail
  PROVE  IInv'
  <1> USE DEF IInv
  <1>0. beg \in Nat /\ beg' \in Nat /\ Len(d) \in Nat
    BY LengthIsNat, TextsAssumption DEF Position, End
  <1>1. Behind'
    <2>1. \A k \in DOMAIN sent : sent[k][2] \in Nat
      BY DEF Behind
    <2> QED
      BY <1>0, <2>1 DEF Behind
  <1>2. ValuesInOrder'
    BY DEF ValuesInOrder
  <1>3. Complete'
    <2> SUFFICES ASSUME NEW i \in 1..Len(d), i < beg', d[i] \in Openers, Parse(d, i) # Fail
                 PROVE  Covered(i)'
      BY DEF Complete
    <2>1. i < beg
      BY <1>0
    <2>2. Covered(i)
      BY <2>1 DEF Complete
    <2> QED
      BY <2>2 DEF Covered
  <1> QED
    BY <1>1, <1>2, <1>3

\* A step that sends the value at the place of the scan and goes on behind it.
LEMMA ValueSent ==
  ASSUME IInv, pc = "found", pc' = "scan", d' = d, Parse(d, beg) # Fail,
         beg' = Parse(d, beg), sent' = Append(sent, <<beg, Parse(d, beg)>>)
  PROVE  IInv'
  <1> USE DEF IInv
  <1> DEFINE n == Len(sent)
             v == <<beg, beg'>>
  <1>0. beg \in 1..Len(d) /\ Len(d) \in Nat /\ n \in Nat
    BY LengthIsNat, TextsAssumption DEF Position, End, Behind
  <1>1. beg' \in Nat /\ beg + 1 <= beg' /\ beg' <= End
    BY <1>0, ParseRange, LengthIsNat DEF End
  <1>2. Position'
    BY <1>0, <1>1 DEF Position, End
  <1>3. /\ DOMAIN sent' = 1..(n + 1)
        /\ DOMAIN sent = 1..n
        /\ sent'[n + 1] = v
        /\ \A k \in 1..n : sent'[k] = sent[k]
    BY <1>0, <1>1 DEF Behind
  <1>4. \A k \in 1..n : sent[k][2] \in Nat /\ sent[k][2] <= beg
    <2>1. \A k \in 1..n : sent[k] \in Nat \X Nat
      BY <1>0, <1>3 DEF Behind
    <2>2. \A k \in 1..n : sent[k][2] <= beg
      BY <1>3 DEF Behind
    <2> QED
      BY <2>1, <2>2
  <1>5. Behind'
    <2>1. v \in Nat \X Nat
      BY <1>0, <1>1
    <2>2. sent' \in Seq(Nat \X Nat)
      BY <2>1 DEF Behind
    <2>3. \A k \in 1..(n + 1) : sent'[k][2] <= beg'
      BY <1>0, <1>1, <1>3, <1>4
    <2> QED
      BY <1>3, <2>2, <2>3 DEF Behind
  <1>6. ValuesInOrder'
    <2>1. \A k \in 1..(n + 1) : Parse(d, sent'[k][1]) = sent'[k][2] /\ sent'[k][2] # Fail
      <3> SUFFICES ASSUME NEW k \in 1..(n + 1)
                   PROVE  Parse(d, sent'[k][1]) = sent'[k][2] /\ sent'[k][2] # Fail
        OBVIOUS
      <3>1. CASE k \in 1..n
        BY <1>3, <3>1 DEF ValuesInOrder
      <3>2. CASE k = n + 1
        BY <1>3, <3>2
      <3> QED
        BY <1>0, <3>1, <3>2
    <2>2. \A k, l \in 1..(n + 1) : k < l => sent'[k][2] <= sent'[l][1]
      <3> SUFFICES ASSUME NEW k \in 1..(n + 1), NEW l \in 1..(n + 1), k < l
                   PROVE  sent'[k][2] <= sent'[l][1]
        OBVIOUS
      <3>1. CASE l \in 1..n
        BY <1>0, <1>3, <3>1 DEF ValuesInOrder
      <3>2. CASE l = n + 1
        BY <1>0, <1>3, <1>4, <3>2
      <3> QED
        BY <1>0, <3>1, <3>2
    <2> QED
      BY <1>3, <2>1, <2>2 DEF ValuesInOrder
  <1>7. Complete'
    <2> SUFFICES ASSUME NEW i \in 1..Len(d), i < beg', d[i] \in Openers, Parse(d, i) # Fail
                 PROVE  Covered(i)'
      BY DEF Complete
    <2>1. CASE i < beg
      <3>1. PICK k \in DOMAIN sent : sent[k][1] <= i /\ i < sent[k][2]
        BY <2>1 DEF Complete, Covered
      <3>2. k \in DOMAIN sent' /\ sent'[k] = sent[k]
        BY <1>0, <1>3
      <3> QED
        BY <3>1, <3>2 DEF Covered
    <2>2. CASE ~(i < beg)
      <3>1. v[1] <= i /\ i < v[2]
        BY <1>0, <2>2
      <3>2. n + 1 \in DOMAIN sent'
        BY <1>0, <1>3
      <3> QED
        BY <1>3, <3>1, <3>2 DEF Covered
    <2> QED
      BY <2>1, <2>2
  <1> QED
    BY <1>2, <1>5, <1>6, <1>7

\* The scan keeps the invariant.
LEMMA NextHolds == IInv /\ [Next]_vars => IInv'
  <1> SUFFICES ASSUME IInv, [Next]_vars PROVE IInv'
    OBVIOUS
  <1>0. Position /\ Len(d) \in Nat /\ beg \in Nat \ {0}
    BY LengthIsNat DEF IInv
  <1>1. CASE Pass \/ PerformIoStream \/ PerformIoPack
    <2>1. Position' /\ UNCHANGED <<d, beg, sent>>
      BY <1>0, <1>1 DEF Pass, PerformIoStream, PerformIoPack, Position, End
    <2> QED
      BY <1>0, <2>1, NothingSent
  <1>2. CASE FindFirst
    <2> DEFINE open == {i \in beg..Len(d) : d[i] \in Openers}
    <2>1. CASE open = {} /\ beg' = End /\ pc' = "done"
      <3>1. Position'
        BY <1>0, <1>2, <2>1 DEF FindFirst, Position, End
      <3>2. beg <= beg' /\ \A i \in 1..Len(d) : beg <= i => d[i] \notin Openers
        BY <1>0, <2>1 DEF Position, End
      <3> QED
        BY <1>2, <3>1, <3>2, NothingSent DEF FindFirst
    <2>2. CASE beg' \in open /\ (\A i \in open : beg' <= i) /\ pc' = "found"
      <3>1. Position'
        BY <1>0, <1>2, <2>2 DEF FindFirst, Position, End
      <3>2. beg <= beg' /\ \A i \in 1..Len(d) : beg <= i /\ i < beg' => d[i] \notin Openers
        BY <1>0, <2>2
      <3> QED
        BY <1>2, <3>1, <3>2, NothingSent DEF FindFirst
    <2> QED
      BY <1>2, <2>1, <2>2 DEF FindFirst
  <1>3. CASE ParseOnce
    <2>1. CASE Parse(d, beg) = Fail
      <3>1. beg' = beg + 1 /\ pc' = "scan" /\ pc = "found" /\ UNCHANGED <<d, sent>>
        BY <1>3, <2>1 DEF ParseOnce
      <3>2. Position'
        BY <1>0, <3>1 DEF Position, End
      <3>3. \A i \in 1..Len(d) : beg <= i /\ i < beg' => Parse(d, i) = Fail
        BY <1>0, <2>1, <3>1
      <3> QED
        BY <1>0, <3>1, <3>2, <3>3, NothingSent
    <2>2. CASE Parse(d, beg) # Fail
      BY <1>3, <2>2, ValueSent DEF ParseOnce
    <2> QED
      BY <2>1, <2>2
  <1>4. CASE Over \/ UNCHANGED vars
    <2>1. UNCHANGED <<d, pc, beg, sent>>
      BY <1>4 DEF Over, vars
    <2>2. Position'
      BY <1>0, <2>1 DEF Position, End
    <2> QED
      BY <1>0, <2>1, <2>2, NothingSent
  <1> QED
    BY <1>1, <1>2, <1>3, <1>4 DEF Next

\* The invariant of the scan.
THEOREM Invariance == Spec => []IInv
  BY InitHolds, NextHolds, PTL DEF Spec

\* What jsonrpc-extract sends are whole values of the buffer, in order and apart from
\* each other, whatever the parser takes for a value.
THEOREM OrderCorrect == Spec => []ValuesInOrder
  BY Invariance, PTL DEF IInv

\* When the scan is over no object or array of the buffer is missing.
THEOREM NothingMissedCorrect == Spec => []NothingMissed
  <1>1. IInv => NothingMissed
    <2> SUFFICES ASSUME IInv, pc = "done",
                        NEW i \in 1..Len(d), d[i] \in Openers, Parse(d, i) # Fail
                 PROVE  Covered(i)
      BY DEF NothingMissed
    <2>1. i < beg
      BY LengthIsNat DEF IInv, Position, End
    <2> QED
      BY <2>1 DEF IInv, Complete
  <1> QED
    BY Invariance, <1>1, PTL

-----------------------------------------------------------------------------
(* The scan gets to its end *)

Scanning == pc \in {"scan", "found"}

\* How many steps a scan has before it at most: two for each character not yet passed,
\* and the one that finds nothing more.
StepsLeft == 2 * (End - beg) + IF pc = "scan" THEN 1 ELSE 0

\* Whatever a step of the scan finds, there is less before it afterwards.
GetsOn == Scanning => StepsLeft' \in Nat /\ StepsLeft' < StepsLeft

\* What a scan at b has before it in comparison to one at c, if e is the end.
LEMMA Nearer ==
  ASSUME NEW e \in Nat, NEW b \in Nat, NEW c \in Nat, c <= e
  PROVE  /\ b <= c => 2 * (e - c) \in Nat /\ 2 * (e - c) < 2 * (e - b) + 1
         /\ b + 1 <= c => 2 * (e - c) + 1 \in Nat /\ 2 * (e - c) + 1 < 2 * (e - b)
OBVIOUS

\* The safety half of ScanEnds, for every parser: find_first_ never goes back, and behind
\* it parse_once_ goes on by one character or by a value, so a scan takes no more than
\* two steps for each character of the buffer (extract.cpp:53-106).
THEOREM GetsOnCorrect == Spec => [][GetsOn]_vars
<1>1. ASSUME IInv, IInv', Next, Scanning
      PROVE  StepsLeft' \in Nat /\ StepsLeft' < StepsLeft
  <2>1. /\ beg \in Nat /\ beg' \in Nat /\ End \in Nat /\ End' = End
        /\ beg <= End /\ beg' <= End
    <3>1. d' = d
      BY <1>1 DEF Next, Pass, PerformIoStream, PerformIoPack, FindFirst, ParseOnce, Over, vars
    <3>2. beg \in 1..End /\ beg' \in 1..End /\ End \in Nat
      BY <1>1, <3>1, LengthIsNat DEF IInv, Position, End
    <3> QED BY <3>1, <3>2 DEF End
  <2>2. CASE FindFirst
    <3>1. pc = "scan" /\ pc' # "scan" /\ beg <= beg'
      BY <2>1, <2>2 DEF FindFirst
    <3>2. StepsLeft = 2 * (End - beg) + 1 /\ StepsLeft' = 2 * (End - beg')
      BY <2>1, <3>1 DEF StepsLeft
    <3>3. 2 * (End - beg') \in Nat /\ 2 * (End - beg') < 2 * (End - beg) + 1
      BY <2>1, <3>1, Nearer
    <3> QED BY <3>2, <3>3
  <2>3. CASE ParseOnce
    <3>1. pc = "found" /\ pc' = "scan" /\ beg \in 1..Len(d)
      BY <1>1, <2>1, <2>3, LengthIsNat DEF ParseOnce, IInv, Position
    <3>2. beg + 1 <= beg'
      BY <1>1, <2>1, <2>3, <3>1, ParseRange DEF ParseOnce, IInv
    <3>3. StepsLeft = 2 * (End - beg) /\ StepsLeft' = 2 * (End - beg') + 1
      BY <2>1, <3>1 DEF StepsLeft
    <3>4. 2 * (End - beg') + 1 \in Nat /\ 2 * (End - beg') + 1 < 2 * (End - beg)
      BY <2>1, <3>2, Nearer
    <3> QED BY <3>3, <3>4
  <2> QED BY <1>1, <2>2, <2>3 DEF Next, Pass, PerformIoStream, PerformIoPack, Over, Scanning
<1>2. IInv /\ IInv' /\ [Next]_vars => [GetsOn]_vars
  BY <1>1 DEF GetsOn
<1> QED BY Invariance, <1>2, PTL DEF Spec
=============================================================================
