---------------------------- MODULE QueuePromise ----------------------------
(***************************************************************************)
(* What jsonrpc-queue promises of each message, without workflows, threads *)
(* and callback workflows. A message that comes waits, and then the target *)
(* gets it, once; fewer than Threads of those that came before it may      *)
(* still wait then, so that one thread keeps the order. It may be given up *)
(* for its own client only. Somebody is refused only if there are Room     *)
(* messages that wait, and a request is answered, unless ReplyRoom answers *)
(* wait to go back.                                                        *)
(***************************************************************************)
EXTENDS Naturals, Sequences, FiniteSets

CONSTANTS Messages, Requests, Tracking, Room, Threads, ReplyRoom

VARIABLES
  from,       \* the client of each message
  connected,  \* the clients that are connected
  arrived,    \* the messages in the order they came
  executed,   \* the messages in the order the target got them
  at          \* which messages wait, were refused, and so on

vars == <<from, connected, arrived, executed, at>>

Came == {arrived[i] : i \in DOMAIN arrived}

\* Those that wait and came before m.
Ahead(m) ==
  {q \in at.waiting : \E i, j \in DOMAIN arrived : i < j /\ arrived[i] = q /\ arrived[j] = m}

Init ==
  /\ \A m \in Messages : from[m] \in connected
  /\ arrived = <<>> /\ executed = <<>>
  /\ at = [waiting |-> {}, refused |-> {}, givenUp |-> {},
           target |-> {}, back |-> {}, lost |-> {}, answered |-> {}]

Into(ms, place, where) == [where EXCEPT ![place] = @ \cup ms]
OutOf(ms, place, where) == [where EXCEPT ![place] = @ \ ms]

-----------------------------------------------------------------------------
Come(m) ==
  /\ m \notin Came /\ from[m] \in connected
  /\ arrived' = Append(arrived, m)
  /\ UNCHANGED <<from, connected>>

\* The target gets a message; it owes an answer to a request only.
Pass(m) ==
  /\ executed' = Append(executed, m)
  /\ at' = Into({m} \cap Requests, "target", OutOf({m}, "waiting", at))

Bypass(m) == Come(m) /\ Pass(m)

Accept(m) ==
  /\ Come(m)
  /\ Cardinality(at.waiting) < Room + Threads
  /\ at' = Into({m}, "waiting", at)
  /\ UNCHANGED executed

\* A message is refused, this one or one that waits; a request is answered by that.
Refuse(m) ==
  /\ Come(m)
  /\ Cardinality(at.waiting) >= Room
  /\ \E v \in at.waiting \cup {m} :
       at' = Into({v} \cap Requests, "answered",
                  Into({v}, "refused", OutOf({v}, "waiting", Into({m}, "waiting", at))))
  /\ UNCHANGED executed

NobodyWaits(m) == Tracking /\ m \in Requests /\ from[m] \notin connected

Execute(m) ==
  /\ m \in at.waiting /\ ~NobodyWaits(m)
  /\ Cardinality(Ahead(m)) < Threads
  /\ Pass(m)
  /\ UNCHANGED <<from, connected, arrived>>

GiveUp(m) ==
  /\ m \in at.waiting /\ NobodyWaits(m)
  /\ at' = Into({m}, "givenUp", OutOf({m}, "waiting", at))
  /\ UNCHANGED <<from, connected, arrived, executed>>

\* The answer of the target, at once or after it has waited to go back.
Answer(r) ==
  /\ \E place \in {"target", "back"} :
       r \in at[place] /\ at' = Into({r}, "answered", OutOf({r}, place, at))
  /\ UNCHANGED <<from, connected, arrived, executed>>

SendBack(r) ==
  /\ r \in at.target
  /\ Cardinality(at.back) < ReplyRoom
  /\ at' = Into({r}, "back", OutOf({r}, "target", at))
  /\ UNCHANGED <<from, connected, arrived, executed>>

LoseAnswer(r) ==
  /\ r \in at.target
  /\ Cardinality(at.back) >= ReplyRoom
  /\ \E v \in at.back \cup {r} :
       at' = Into({v}, "lost", OutOf({v}, "back", Into({r}, "back", OutOf({r}, "target", at))))
  /\ UNCHANGED <<from, connected, arrived, executed>>

Disconnect ==
  /\ \E c \in connected : connected' = connected \ {c}
  /\ UNCHANGED <<from, arrived, executed, at>>

Next ==
  \/ Disconnect
  \/ \E m \in Messages :
       \/ Bypass(m) \/ Accept(m) \/ Refuse(m) \/ Execute(m) \/ GiveUp(m)
       \/ Answer(m) \/ SendBack(m) \/ LoseAnswer(m)

Spec == Init /\ [][Next]_vars
=============================================================================
