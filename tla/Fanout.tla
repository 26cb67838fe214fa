-------------------------------- MODULE Fanout --------------------------------
(***************************************************************************)
(* A jsonrpc-repli one of whose reply_targets is a jsonrpc-hub: what comes *)
(* in by the repli is heard by the members of the hub. The copy enters the *)
(* hub under the identifier of the repli, on the thread of the original,   *)
(* and the call of the repli goes on when the hub returns.                 *)
(*                                                                         *)
(* Every message is a call on a thread of its own, so any number of calls  *)
(* of the repli and of the hub run at once.                                *)
(***************************************************************************)
EXTENDS Naturals, Sequences, FiniteSets

CONSTANTS
  Messages,   \* each comes in by the repli or by the hub
  Requests, Responses, Members, Lists, MaxRestarts, Env,
  Hub         \* the hub as one of the reply targets

RepliId == "repli"

VARIABLES
  counter, targets, writer, rpc, tl, original, copies, epoch, lists, bypassed,
  member, dead, hpc, from, cli, heard, passed, began, muted,
  \* What has happened, for the properties:
  earlier     \* the messages whose calls had returned when that of each began

R == INSTANCE Repli WITH pc <- rpc
H == INSTANCE Hub WITH Others <- {RepliId},
                       pc <- hpc

ASSUME ParametersAssumption == R!Parameters /\ H!Parameters

repliVars == <<counter, targets, writer, rpc, tl, original, copies, epoch, lists,
               bypassed>>
hubVars == <<member, dead, hpc, from, cli, heard, passed, began, muted>>
vars == <<repliVars, hubVars, earlier>>

Init == R!Init /\ H!Init /\ earlier = [m \in Messages |-> {}]

\* The repli waits for the hub.
InHub(m) == hpc[m] \notin {"new", "done"}

\* A call is over when the call by which the message came in has returned.
Over(m) == rpc[m] = "done" \/ (rpc[m] = "new" /\ hpc[m] = "done")

Begin(m) == earlier' = [earlier EXCEPT ![m] = {n \in Messages : Over(n)}]

\* A message comes in by the repli, whoever else is in it.
Receive(m) ==
  /\ hpc[m] = "new"
  /\ R!Arrive(m)
  /\ Begin(m)
  /\ UNCHANGED hubVars

\* A member of the hub sends one to it.
SendToHub(m, c) ==
  /\ rpc[m] = "new" /\ member[c] = "in"
  /\ H!Arrive(m, c)
  /\ Begin(m)
  /\ UNCHANGED repliVars

CopyToOther(m) ==
  /\ ~InHub(m)
  /\ tl[m] # <<>> /\ Head(tl[m]) # Hub
  /\ R!Copy(m)
  /\ UNCHANGED <<hubVars, earlier>>

CopyToHub(m) ==
  /\ ~InHub(m)
  /\ tl[m] # <<>> /\ Head(tl[m]) = Hub
  /\ R!Copy(m)
  /\ H!Arrive(m, RepliId)
  /\ UNCHANGED earlier

\* A slip: the repli does not wait for the hub.
RepliStepAhead ==
  /\ R!Restart \/ \E m \in Messages : R!Perform(m)
  /\ UNCHANGED <<hubVars, earlier>>

RepliStep ==
  /\ \/ R!Restart
     \/ \E m \in Messages : ~InHub(m) /\ R!Perform(m)
  /\ UNCHANGED <<hubVars, earlier>>

HubStep ==
  /\ H!Connection \/ H!Broadcast
  /\ UNCHANGED <<repliVars, earlier>>

Done ==
  /\ \A m \in Messages : Over(m)
  /\ UNCHANGED vars

Next ==
  \/ RepliStep \/ HubStep \/ Done
  \/ \E m \in Messages : Receive(m) \/ CopyToOther(m) \/ CopyToHub(m)
  \/ \E m \in Messages, c \in Members : SendToHub(m, c)

Spec == Init /\ [][Next]_vars

-----------------------------------------------------------------------------
(* Properties *)

\* Types of both.
TypeOK == R!TypeOK /\ H!TypeOK /\ earlier \in [Messages -> SUBSET Messages]

\* What each of them promises holds when they are put together.
HeardOnce == H!HeardOnce
WholeList == R!WholeList
UniqueIds == R!UniqueIds

Before(s, m, n) == \E i, j \in DOMAIN s : i < j /\ s[i] = m /\ s[j] = n

\* If the call of n had returned when the call of m began, by the repli or by the hub, then
\* nobody hears m before n: not a member, not the target of the hub, not the target of the
\* repli, however many other calls run at the same time. Calls that overlap keep no order:
\* the copies may overtake one another, and two members may hear them in different orders.
SameOrder ==
  \A m \in Messages : \A n \in earlier[m] :
    /\ ~Before(original, m, n)
    /\ ~Before(passed, m, n)
    /\ \A c \in Members : ~Before(heard[c], m, n)
=============================================================================
