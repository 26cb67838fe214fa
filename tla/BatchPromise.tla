---------------------------- MODULE BatchPromise ----------------------------
(***************************************************************************)
(* What jsonrpc-batch promises its client, without threads, slots or       *)
(* counters: a packet that is owed a reply gets one, only when a response  *)
(* to every element that wants one has been collected, and never more than *)
(* there are threads that collect responses: exactly one if there is one.  *)
(*                                                                         *)
(* This is the sentence of Readme.md on JSONRPC-BATCH, "as soon as all the *)
(* responses to the requests of the array are collected, the array of      *)
(* responses is formed and sent", as a specification.                      *)
(***************************************************************************)
EXTENDS Naturals

VARIABLES
  due,       \* TRUE iff the packet is owed a reply
  want,      \* the elements of the packet that want a response
  have,      \* the elements whose response has been collected
  limit,     \* how many replies there may be
  answers    \* how many replies the client has been sent

vars == <<due, want, have, limit, answers>>

Init ==
  /\ due \in BOOLEAN
  /\ want \in SUBSET Nat
  /\ have = {}
  /\ limit = 1
  /\ answers = 0

\* A response to element i is collected, perhaps by one more thread.
Collect(i) ==
  /\ i \in want \ have
  /\ have' = have \cup {i}
  /\ limit' \in {limit, limit + 1}
  /\ UNCHANGED <<due, want, answers>>

\* The collected responses are sent.
Reply ==
  /\ due
  /\ have = want
  /\ answers < limit
  /\ answers' = answers + 1
  /\ UNCHANGED <<due, want, have, limit>>

Next == Reply \/ \E i \in want : Collect(i)

Fairness == WF_vars(\E i \in want : Collect(i)) /\ WF_vars(answers = 0 /\ Reply)

Spec == Init /\ [][Next]_vars /\ Fairness
=============================================================================
