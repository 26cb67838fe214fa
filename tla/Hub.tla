--------------------------------- MODULE Hub ---------------------------------
(***************************************************************************)
(* jsonrpc-hub (package/hub/hub/hub.cpp): sends what comes in to everybody *)
(* who has called reg_io, but the one it came from, and then to the target.*)
(* reg_io goes no further than the hub. perform_outgoing does the same for *)
(* what goes out.                                                          *)
(*                                                                         *)
(* The members are copied under the mutex and called without it, and each  *)
(* copy is a weak pointer.                                                 *)
(***************************************************************************)
EXTENDS Naturals, Sequences, FiniteSets

CONSTANTS
  Messages,   \* what goes through the hub
  Responses,  \* those that are neither requests nor notifications
  Members,    \* connections that may register
  Others,     \* identifiers of objects that call the hub and do not register
  Env         \* the events of the environment that may occur

Parameters == Responses \subseteq Messages /\ Others \cap Members = {}

VARIABLES
  member,     \* where each connection is; those that are "in" are in _map
  dead,       \* connections whose object was gone before they called unreg_io
  pc,         \* where each message is
  from,       \* who has sent it
  cli,        \* the members it is still to be sent to
  heard,      \* what each member has been sent
  passed,     \* what the target has been sent
  \* What has happened, for the properties:
  began,      \* the members when the call began
  muted       \* messages that met a suspended hub

registry == <<member, dead>>
calls == <<pc, from, cli, began, muted>>
vars == <<registry, calls, heard, passed>>

NoOne == "no one"

map == {c \in Members : member[c] = "in"}

Init ==
  /\ member = [c \in Members |-> "out"]
  /\ dead = {}
  /\ pc = [m \in Messages |-> "new"]
  /\ from = [m \in Messages |-> NoOne]
  /\ cli = [m \in Messages |-> {}]
  /\ heard = [c \in Members |-> <<>>]
  /\ passed = <<>>
  /\ began = [m \in Messages |-> {}]
  /\ muted = {}

-----------------------------------------------------------------------------
RegIo(c) ==
  /\ member[c] = "out"
  /\ member' = [member EXCEPT ![c] = "in"]
  /\ UNCHANGED <<dead, calls, heard, passed>>

UnregIo(c) ==
  /\ member[c] = "in"
  /\ member' = [member EXCEPT ![c] = "gone"]
  /\ UNCHANGED <<dead, calls, heard, passed>>

\* The object of a connection goes before unreg_io.
Die(c) ==
  /\ member[c] = "in" /\ c \notin dead
  /\ dead' = dead \cup {c}
  /\ UNCHANGED <<member, calls, heard, passed>>

\* perform_incoming, perform_outgoing: a response is for the target only, and so is a
\* message that meets a suspended hub. Anybody may suspend the domain and resume it at
\* any time and a call asks once, so the answer is open.
Arrive(m, s) ==
  /\ pc[m] = "new"
  /\ from' = [from EXCEPT ![m] = s]
  /\ began' = [began EXCEPT ![m] = map]
  /\ \/ /\ m \in Responses \/ "suspend" \in Env
        /\ pc' = [pc EXCEPT ![m] = "forward"]
        /\ muted' = muted \cup {m}
     \/ /\ m \notin Responses
        /\ pc' = [pc EXCEPT ![m] = "begun"]
        /\ UNCHANGED muted
  /\ UNCHANGED <<registry, cli, heard, passed>>

\* A slip: the one who has sent the message is not left out.
CopyAll(m) ==
  /\ pc[m] = "begun"
  /\ pc' = [pc EXCEPT ![m] = "broadcast"]
  /\ cli' = [cli EXCEPT ![m] = map]
  /\ UNCHANGED <<registry, from, began, muted, heard, passed>>

\* The copy of the members, under the mutex.
Copy(m) ==
  /\ pc[m] = "begun"
  /\ pc' = [pc EXCEPT ![m] = "broadcast"]
  /\ cli' = [cli EXCEPT ![m] = map \ {from[m]}]
  /\ UNCHANGED <<registry, from, began, muted, heard, passed>>

\* One of them is sent the message, as a notification, if it is still there.
Send(m) ==
  /\ pc[m] = "broadcast"
  /\ \E c \in cli[m] :
       /\ cli' = [cli EXCEPT ![m] = @ \ {c}]
       /\ heard' = IF c \in dead THEN heard ELSE [heard EXCEPT ![c] = Append(@, m)]
  /\ UNCHANGED <<registry, pc, from, began, muted, passed>>

Forward(m) ==
  /\ \/ pc[m] = "forward"
     \/ pc[m] = "broadcast" /\ cli[m] = {}
  /\ pc' = [pc EXCEPT ![m] = "done"]
  /\ passed' = Append(passed, m)
  /\ UNCHANGED <<registry, from, cli, began, muted, heard>>

Connection == \E c \in Members : RegIo(c) \/ UnregIo(c) \/ Die(c)
Broadcast == \E m \in Messages : Copy(m) \/ Send(m) \/ Forward(m)

Next ==
  \/ Connection \/ Broadcast
  \/ \E m \in Messages, s \in Members \cup Others : Arrive(m, s)

Spec == Init /\ [][Next]_vars

-----------------------------------------------------------------------------
(* Properties *)

\* Types.
TypeOK ==
  /\ member \in [Members -> {"out", "in", "gone"}]
  /\ dead \subseteq {c \in Members : member[c] # "out"}
  /\ pc \in [Messages -> {"new", "begun", "broadcast", "forward", "done"}]
  /\ from \in [Messages -> Members \cup Others \cup {NoOne}]
  /\ cli \in [Messages -> SUBSET Members]
  /\ heard \in [Members -> Seq(Messages)]
  /\ passed \in Seq(Messages)
  /\ began \in [Messages -> SUBSET Members]
  /\ muted \subseteq Messages

Occurrences(s, m) == {i \in DOMAIN s : s[i] = m}

\* Nobody hears a message twice, nor the one who has sent it; and when the target gets
\* it, everybody has heard it who was registered all the time and is still there.
HeardOnce ==
  \A m \in Messages, c \in Members :
    LET n == Cardinality(Occurrences(heard[c], m))
    IN  /\ n <= 1
        /\ n = 1 => m \notin muted /\ from[m] # c
        /\ pc[m] = "done" /\ m \notin muted /\ c \in (began[m] \cap map) \ (dead \cup {from[m]})
             => n = 1
=============================================================================
