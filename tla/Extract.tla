-------------------------------- MODULE Extract --------------------------------
(***************************************************************************)
(* jsonrpc-extract (package/extract/extract/extract.cpp): finds the JSON    *)
(* objects and arrays in a buffer with anything between them and passes    *)
(* each on by itself.                                                      *)
(*                                                                         *)
(* A call works on its own buffer only, so one call is modelled. The       *)
(* parser is not in the repository: Parse(text, i) is the position after   *)
(* the value that begins at i, or Fail. The options and the suspension may *)
(* change at any time and a call reads them once, so the answer is open.   *)
(***************************************************************************)
EXTENDS Naturals, Sequences

CONSTANTS
  Texts,        \* the buffers that may come
  Openers,      \* the characters that begin an object or an array
  Parse(_, _)   \* the parser

Fail == 0

ASSUME TextsAssumption == \A text \in Texts : Len(text) \in Nat
ASSUME ParseAssumption ==
  \A text \in Texts : \A i \in 1..Len(text) : Parse(text, i) \in {Fail} \cup (i + 1)..(Len(text) + 1)

VARIABLES
  d,      \* the buffer
  pc,     \* where the call is
  beg,    \* the position of the scan
  sent    \* what the target has been sent: pairs of beginning and end

vars == <<d, pc, beg, sent>>

End == Len(d) + 1

Init ==
  /\ d \in Texts
  /\ pc = "start"
  /\ beg = 1
  /\ sent = <<>>

\* perform_io: a suspended object passes the buffer on as it is.
Pass ==
  /\ pc = "start"
  /\ pc' = "passed"
  /\ UNCHANGED <<d, beg, sent>>

\* perform_io_stream_ is not implemented: the buffer goes nowhere.
PerformIoStream ==
  /\ pc = "start"
  /\ pc' = "dropped"
  /\ UNCHANGED <<d, beg, sent>>

\* perform_io_pack_ and the loop of perform_io_once_.
PerformIoPack ==
  /\ pc = "start"
  /\ pc' = "scan"
  /\ UNCHANGED <<d, beg, sent>>

\* find_first_, from where the scan is.
FindFirst ==
  /\ pc = "scan"
  /\ LET open == {i \in beg..Len(d) : d[i] \in Openers}
     IN  \/ /\ open = {}
            /\ beg' = End
            /\ pc' = "done"
         \/ /\ beg' \in open /\ \A i \in open : beg' <= i
            /\ pc' = "found"
  /\ UNCHANGED <<d, sent>>

\* A slip: the scan goes on inside the value.
ParseInside ==
  /\ pc = "found"
  /\ pc' = "scan"
  /\ beg' = beg + 1
  /\ LET fin == Parse(d, beg)
     IN  sent' = IF fin = Fail THEN sent ELSE Append(sent, <<beg, fin>>)
  /\ UNCHANGED d

\* A slip: the first error ends the scan.
ParseOrStop ==
  /\ pc = "found"
  /\ LET fin == Parse(d, beg)
     IN  IF fin = Fail
         THEN pc' = "done" /\ UNCHANGED <<beg, sent>>
         ELSE pc' = "scan" /\ beg' = fin /\ sent' = Append(sent, <<beg, fin>>)
  /\ UNCHANGED d

\* A slip: the scan stays at what does not parse.
ParseAgain ==
  /\ pc = "found"
  /\ pc' = "scan"
  /\ LET fin == Parse(d, beg)
     IN  IF fin = Fail
         THEN UNCHANGED <<beg, sent>>
         ELSE beg' = fin /\ sent' = Append(sent, <<beg, fin>>)
  /\ UNCHANGED d

\* parse_once_: a value is sent on and the scan goes on behind it, or else at the next
\* character.
ParseOnce ==
  /\ pc = "found"
  /\ pc' = "scan"
  /\ LET fin == Parse(d, beg)
     IN  IF fin = Fail
         THEN beg' = beg + 1 /\ UNCHANGED sent
         ELSE beg' = fin /\ sent' = Append(sent, <<beg, fin>>)
  /\ UNCHANGED d

Over == pc \in {"passed", "dropped", "done"} /\ UNCHANGED vars

Next == Pass \/ PerformIoStream \/ PerformIoPack \/ FindFirst \/ ParseOnce \/ Over

Spec == Init /\ [][Next]_vars

FairSpec == Spec /\ WF_vars(PerformIoPack \/ FindFirst \/ ParseOnce)

-----------------------------------------------------------------------------
(* Properties *)

\* What is sent is a value of the buffer, whole, and values are sent in their order and
\* do not overlap: nothing that is a part of a value sent is sent by itself.
ValuesInOrder ==
  /\ \A k \in DOMAIN sent : Parse(d, sent[k][1]) = sent[k][2] /\ sent[k][2] # Fail
  /\ \A k, l \in DOMAIN sent : k < l => sent[k][2] <= sent[l][1]

Covered(i) == \E k \in DOMAIN sent : sent[k][1] <= i /\ i < sent[k][2]

\* When the scan is over every object and array of the buffer has been sent, by itself or
\* as a part of a value: what does not begin one is passed over, however it is broken.
NothingMissed ==
  pc = "done" =>
    \A i \in 1..Len(d) : d[i] \in Openers /\ Parse(d, i) # Fail => Covered(i)

\* The scan of any buffer ends, whatever does not parse.
ScanEnds == pc = "scan" ~> pc = "done"
=============================================================================
