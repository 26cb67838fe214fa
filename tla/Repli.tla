-------------------------------- MODULE Repli --------------------------------
(***************************************************************************)
(* jsonrpc-repli (package/repli/repli/repli.cpp): passes a message to its   *)
(* target and then a copy of it to each of the reply_targets. A copy of a  *)
(* request is a request, with an identifier from a counter that restart    *)
(* sets to zero, and its answer is ignored. perform_outgoing does the same *)
(* for what goes out.                                                      *)
(***************************************************************************)
EXTENDS Naturals, Sequences, FiniteSets

CONSTANTS
  Messages,    \* what goes through
  Requests,    \* those that are requests; the others are notifications
  Lists,       \* the reply_targets that may be configured
  MaxRestarts, \* bound on reconfigurations
  Env          \* the events of the environment that may occur

ReplyTargets == UNION {{l[i] : i \in DOMAIN l} : l \in Lists}

Parameters ==
  /\ Requests \subseteq Messages
  /\ \A l \in Lists : l \in Seq(ReplyTargets)
  /\ MaxRestarts \in Nat

VARIABLES
  counter,    \* _counter
  targets,    \* _targets
  writer,     \* where restart is
  pc,         \* where each message is
  tl,         \* the targets its copies are still to be sent to
  original,   \* what the target has been sent
  copies,     \* what the reply targets have been sent: [m, to, id, epoch]
  \* What has happened, for the properties:
  epoch,      \* how many times the counter was set to zero
  lists,      \* the lists that were configured while each message was on its way
  bypassed    \* messages that met a suspended repli

setup == <<counter, targets, writer, epoch>>
vars == <<setup, pc, tl, original, copies, lists, bypassed>>

NoId == 0

Init ==
  /\ counter = 0
  /\ targets \in Lists
  /\ writer = "idle"
  /\ pc = [m \in Messages |-> "new"]
  /\ tl = [m \in Messages |-> <<>>]
  /\ original = <<>>
  /\ copies = {}
  /\ epoch = 0
  /\ lists = [m \in Messages |-> {}]
  /\ bypassed = {}

-----------------------------------------------------------------------------
\* restart sets the counter to zero and then takes the lock to replace the targets.
ResetCounter ==
  /\ writer = "idle"
  /\ epoch < MaxRestarts
  /\ writer' = "reset"
  /\ counter' = 0
  /\ epoch' = epoch + 1
  /\ UNCHANGED <<targets, pc, tl, original, copies, lists, bypassed>>

Underway(m) == pc[m] \notin {"new", "done"}

ReplaceTargets ==
  /\ writer = "reset"
  /\ writer' = "idle"
  /\ targets' \in Lists
  /\ lists' = [m \in Messages |-> IF Underway(m) THEN lists[m] \cup {targets'} ELSE lists[m]]
  /\ UNCHANGED <<counter, pc, tl, original, copies, epoch, bypassed>>

\* A clone of a request takes the next number, in one atomic step, and a clone of a
\* notification none. A copy is placed where it takes its number.
Number(m) == IF m \in Requests THEN counter + 1 ELSE NoId
Count(m) == counter' = IF m \in Requests THEN counter + 1 ELSE counter

\* The message is cloned before it is passed on, unless the repli is suspended: anybody
\* may suspend it and resume it at any time, and a call asks once.
Arrive(m) ==
  /\ pc[m] = "new"
  /\ \/ /\ "suspend" \in Env
        /\ pc' = [pc EXCEPT ![m] = "pass"]
        /\ bypassed' = bypassed \cup {m}
        /\ UNCHANGED counter
     \/ /\ pc' = [pc EXCEPT ![m] = "cloned"]
        /\ Count(m)
        /\ UNCHANGED bypassed
  /\ lists' = [lists EXCEPT ![m] = {targets}]
  /\ UNCHANGED <<targets, writer, tl, original, copies, epoch>>

Forward(m) ==
  /\ pc[m] \in {"pass", "cloned"}
  /\ pc' = [pc EXCEPT ![m] = IF @ = "pass" THEN "done" ELSE "forwarded"]
  /\ original' = Append(original, m)
  /\ UNCHANGED <<setup, tl, copies, lists, bypassed>>

\* The copy of the targets, under the lock.
Snapshot(m) ==
  /\ pc[m] = "forwarded"
  /\ pc' = [pc EXCEPT ![m] = "copying"]
  /\ tl' = [tl EXCEPT ![m] = targets]
  /\ UNCHANGED <<setup, original, copies, lists, bypassed>>

\* A slip: the copies carry the number of the first clone, or what has become of it.
CopyAlike(m) ==
  /\ pc[m] = "copying" /\ tl[m] # <<>>
  /\ tl' = [tl EXCEPT ![m] = Tail(@)]
  /\ UNCHANGED counter
  /\ copies' = copies \cup {[m |-> m, to |-> Head(tl[m]), id |-> Number(m), epoch |-> epoch]}
  /\ UNCHANGED <<targets, writer, pc, original, epoch, lists, bypassed>>

\* A slip: the targets are looked at again for each copy.
CopyLive(m) ==
  /\ pc[m] = "copying" /\ tl[m] # <<>>
  /\ tl' = [tl EXCEPT ![m] = IF Len(@) > Len(targets) THEN <<>> ELSE Tail(@)]
  /\ Count(m)
  /\ copies' = copies \cup {[m |-> m, to |-> Head(tl[m]), id |-> Number(m), epoch |-> epoch]}
  /\ UNCHANGED <<targets, writer, pc, original, epoch, lists, bypassed>>

\* The next reply target gets its copy.
Copy(m) ==
  /\ pc[m] = "copying" /\ tl[m] # <<>>
  /\ tl' = [tl EXCEPT ![m] = Tail(@)]
  /\ Count(m)
  /\ copies' = copies \cup {[m |-> m, to |-> Head(tl[m]), id |-> Number(m), epoch |-> epoch]}
  /\ UNCHANGED <<targets, writer, pc, original, epoch, lists, bypassed>>

Return(m) ==
  /\ pc[m] = "copying" /\ tl[m] = <<>>
  /\ pc' = [pc EXCEPT ![m] = "done"]
  /\ UNCHANGED <<setup, tl, original, copies, lists, bypassed>>

Restart == ResetCounter \/ ReplaceTargets
Perform(m) == Forward(m) \/ Snapshot(m) \/ Return(m)

Next ==
  \/ Restart
  \/ \E m \in Messages : Arrive(m) \/ Perform(m) \/ Copy(m)

Spec == Init /\ [][Next]_vars

-----------------------------------------------------------------------------
(* Properties *)

\* Types. The numbers of copies never run ahead of the counter.
TypeOK ==
  /\ counter \in Nat /\ epoch \in 0..MaxRestarts
  /\ targets \in Lists /\ writer \in {"idle", "reset"}
  /\ pc \in [Messages -> {"new", "pass", "cloned", "forwarded", "copying", "done"}]
  /\ tl \in [Messages -> Seq(ReplyTargets)]
  /\ original \in Seq(Messages)
  /\ copies \subseteq [m : Messages, to : ReplyTargets, id : Nat, epoch : 0..MaxRestarts]
  /\ \A k \in copies : k.epoch = epoch => k.id <= counter
  /\ lists \in [Messages -> SUBSET Lists]
  /\ bypassed \subseteq Messages

\* A reply target can tell the requests it gets apart by their identifiers, and so can
\* two that answer by one way; until a restart begins to number them again.
UniqueIds ==
  \A k, l \in copies :
    k.id = l.id /\ k.epoch = l.epoch /\ k.id # NoId => k = l

Reached(m) == {k.to : k \in {k \in copies : k.m = m}}

\* A message that has passed has been copied to all the targets of one list, which was
\* configured while it passed, and to no others; no copy is ahead of the original.
WholeList ==
  \A m \in Messages :
    /\ Reached(m) # {} => \E i \in DOMAIN original : original[i] = m
    /\ pc[m] = "done" =>
         IF m \in bypassed THEN Reached(m) = {}
         ELSE \E l \in lists[m] : Reached(m) = {l[i] : i \in DOMAIN l}
=============================================================================
