-------------------------------- MODULE Batch --------------------------------
(***************************************************************************)
(* jsonrpc-batch (package/batch/batch/batch.cpp): splits an incoming array *)
(* into JSON-RPC messages, passes them to the target and collects the      *)
(* responses, each at the position of its request, into one reply.         *)
(*                                                                         *)
(* perform_io runs on the thread that read the packet (IoThread). The      *)
(* response handlers it hands to the target run on any thread of Runners:  *)
(* on IoThread, nested in perform_incoming, when the target answers        *)
(* synchronously, and on the threads of a workflow when it does not.  The  *)
(* handler stores the response, decrements the atomic counter and then     *)
(* reads the counter again: three steps, between which other threads run.  *)
(*                                                                         *)
(* All the state is owned by one packet (locals of perform_io and the      *)
(* shared_ptr's its handlers capture), so one packet is modelled.  An      *)
(* element is its index in the array; its response is named by that index. *)
(***************************************************************************)
EXTENDS Integers, Sequences, FiniteSets

CONSTANTS
  MaxItems,   \* bound on the number of elements of the array
  Runners,    \* the threads that run response handlers
  IoThread    \* the thread that runs perform_io

ASSUME MaxItemsAssumption == MaxItems \in Nat
ASSUME RunnersAssumption == IsFiniteSet(Runners)

Threads == Runners \cup {IoThread}

\* What the parser makes of an element: not a JSON-RPC message, a notification,
\* a request, or a message of another kind (a result or an error).
Kinds == {"malformed", "notify", "request", "response"}

\* What perform_io finds: a packet it does not split (suspended, no data or
\* not an array), white space, an array that does not parse, an array.
Classes == {"plain", "blank", "broken", "array"}

VARIABLES
  class,     \* what the data of the packet is
  items,     \* batch1: the kinds of the elements of the array
  stage,     \* how far perform_io is
  next,      \* index of its running loop
  slots,     \* *pbatch_res: 0 is nullptr, i the response (or error) to element i
  slotOf,    \* pos: the slot of each element, 0 before it has one
  calls,     \* holder_handler_list: the elements that are requests
  pcount,    \* *pcount
  phase,     \* how far the response handler of each element is
  busy,      \* per thread, the element whose handler it is running, 0 if none
  ran,       \* the threads that have run a handler
  sent,      \* the elements passed to the target, in order
  replies    \* the arrays the output handler was called with

vars == <<class, items, stage, next, slots, slotOf, calls, pcount, phase, busy,
          ran, sent, replies>>

Stages == {"receive", "parse", "dispatch", "done"}
Phases == {"idle", "waiting", "stored", "counted", "done"}

\* An error about the packet as a whole, with no id.
PacketError == <<0>>

Items == DOMAIN items

Requests == {i \in Items : items[i] = "request"}

\* The elements that want a response: every one but the notifications.
Answerable == {i \in Items : items[i] # "notify"}

-----------------------------------------------------------------------------
(* perform_io *)

Init ==
  /\ class \in Classes
  /\ \E n \in 0 .. MaxItems : items \in [1 .. n -> Kinds]
  /\ class # "array" => items = <<>>
  /\ stage = "receive"
  /\ next = 1
  /\ slots = <<>>
  /\ slotOf = [i \in Items |-> 0]
  /\ calls = <<>>
  /\ pcount = 0
  /\ phase = [i \in Items |-> "idle"]
  /\ busy = [t \in Threads |-> 0]
  /\ ran = {}
  /\ sent = <<>>
  /\ replies = <<>>

\* A packet that is not split goes to the target as it is; white space is dropped.
PassOrDrop ==
  /\ stage = "receive"
  /\ class \in {"plain", "blank"}
  /\ stage' = "done"
  /\ UNCHANGED <<class, items, next, slots, slotOf, calls, pcount, phase, busy,
                 sent, replies, ran>>

\* An array that does not parse, or is empty, is answered by one error.
Refuse ==
  /\ stage = "receive"
  /\ class = "broken" \/ (class = "array" /\ items = <<>>)
  /\ stage' = "done"
  /\ replies' = Append(replies, PacketError)
  /\ UNCHANGED <<class, items, next, slots, slotOf, calls, pcount, phase, busy,
                 sent, ran>>

Split ==
  /\ stage = "receive"
  /\ class = "array" /\ items # <<>>
  /\ stage' = "parse"
  /\ UNCHANGED <<class, items, next, slots, slotOf, calls, pcount, phase, busy,
                 sent, replies, ran>>

Parsing(kinds) ==
  /\ stage = "parse"
  /\ next \in Items
  /\ items[next] \in kinds
  /\ next' = next + 1
  /\ UNCHANGED <<class, items, stage, pcount, phase, busy, replies, ran>>

\* An element that is no request and no notification: the error takes a slot.
ParseInvalid ==
  /\ Parsing({"malformed", "response"})
  /\ slots' = Append(slots, next)
  /\ slotOf' = [slotOf EXCEPT ![next] = Len(slots) + 1]
  /\ UNCHANGED <<calls, sent>>

\* A notification is passed to the target at once.
ParseNotify ==
  /\ Parsing({"notify"})
  /\ sent' = Append(sent, next)
  /\ UNCHANGED <<slots, slotOf, calls>>

\* A request reserves a slot; it is passed to the target after the loop.
ParseRequest ==
  /\ Parsing({"request"})
  /\ slots' = Append(slots, 0)
  /\ slotOf' = [slotOf EXCEPT ![next] = Len(slots) + 1]
  /\ calls' = Append(calls, next)
  /\ UNCHANGED sent

\* A slip: perform_io returns when there is no request.
FinishSilently ==
  /\ stage = "parse" /\ next = Len(items) + 1
  /\ calls = <<>>
  /\ stage' = "done"
  /\ UNCHANGED <<class, items, next, slots, slotOf, calls, pcount, phase, busy,
                 sent, replies, ran>>

\* No request in the array: the errors, if any, are the reply.
FinishWithoutCalls ==
  /\ stage = "parse" /\ next = Len(items) + 1
  /\ calls = <<>>
  /\ stage' = "done"
  /\ replies' = IF slots # <<>> THEN Append(replies, slots) ELSE replies
  /\ UNCHANGED <<class, items, next, slots, slotOf, calls, pcount, phase, busy,
                 sent, ran>>

\* The parse loop has ended with requests to pass on, n of them by the counter.
ArmWith(n) ==
  /\ stage = "parse" /\ next = Len(items) + 1
  /\ calls # <<>>
  /\ stage' = "dispatch"
  /\ next' = 1
  /\ pcount' = n
  /\ UNCHANGED <<class, items, slots, slotOf, calls, phase, busy, sent, replies, ran>>

\* Slips: the counter is not set, or is short of one request.
ArmNever == ArmWith(pcount)

ArmOneShort == ArmWith(Len(calls) - 1)

\* The counter is set once, before the first request leaves.
Arm == ArmWith(Len(calls))

\* The next request goes to the target. IoThread comes here only when the
\* handler the previous call ran on it, if any, has returned.
Dispatch ==
  /\ stage = "dispatch" /\ next \in DOMAIN calls
  /\ busy[IoThread] = 0
  /\ phase' = [phase EXCEPT ![calls[next]] = "waiting"]
  /\ sent' = Append(sent, calls[next])
  /\ next' = next + 1
  /\ UNCHANGED <<class, items, stage, slots, slotOf, calls, pcount, busy, replies, ran>>

FinishDispatch ==
  /\ stage = "dispatch" /\ next = Len(calls) + 1
  /\ busy[IoThread] = 0
  /\ stage' = "done"
  /\ UNCHANGED <<class, items, next, slots, slotOf, calls, pcount, phase, busy,
                 sent, replies, ran>>

-----------------------------------------------------------------------------
(* The response handler of a request: the response is stored in its     *)
(* slot, the counter is decremented, and the counter is read again.      *)

\* Inside the dispatch loop IoThread only runs a handler nested in the call of
\* the request it has just passed on.
MayRun(t, r) ==
  (t = IoThread /\ stage = "dispatch") => (next > 1 /\ r = calls[next - 1])

Store(t, r) ==
  /\ phase[r] = "waiting"
  /\ busy[t] = 0
  /\ MayRun(t, r)
  /\ slots' = [slots EXCEPT ![slotOf[r]] = r]
  /\ phase' = [phase EXCEPT ![r] = "stored"]
  /\ busy' = [busy EXCEPT ![t] = r]
  /\ ran' = ran \cup {t}
  /\ UNCHANGED <<class, items, stage, next, slotOf, calls, pcount, sent, replies>>

Decrement(t, r) ==
  /\ busy[t] = r
  /\ phase[r] = "stored"
  /\ pcount' = pcount - 1
  /\ phase' = [phase EXCEPT ![r] = "counted"]
  /\ UNCHANGED <<class, items, stage, next, slots, slotOf, calls, busy, sent, replies, ran>>

\* The handler returns, having replied if the condition it tests holds.
Return(t, r, test) ==
  /\ busy[t] = r
  /\ phase[r] = "counted"
  /\ replies' = IF test THEN Append(replies, slots) ELSE replies
  /\ phase' = [phase EXCEPT ![r] = "done"]
  /\ busy' = [busy EXCEPT ![t] = 0]
  /\ UNCHANGED <<class, items, stage, next, slots, slotOf, calls, pcount, sent, ran>>

\* A slip: the test of the value before the decrement.
TestOldCount(t, r) == Return(t, r, pcount + 1 = 0)

\* The counter is read a second time; whoever finds it at zero replies.
TestAndReply(t, r) == Return(t, r, pcount = 0)

-----------------------------------------------------------------------------
\* perform_io and every handler have returned.
Quiet ==
  /\ stage = "done"
  /\ \A r \in Items : phase[r] \in {"idle", "done"}

\* The packet is finished: nothing is left to do.
Finished == Quiet /\ UNCHANGED vars

PerformIo ==
  \/ PassOrDrop \/ Refuse \/ Split
  \/ ParseInvalid \/ ParseNotify \/ ParseRequest
  \/ FinishWithoutCalls \/ Arm
  \/ Dispatch \/ FinishDispatch

Handler(t, r) == Store(t, r) \/ Decrement(t, r) \/ TestAndReply(t, r)

Next ==
  \/ PerformIo
  \/ \E t \in Runners, r \in Items : Handler(t, r)
  \/ Finished

Spec == Init /\ [][Next]_vars

(***************************************************************************)
(* Fairness: a thread inside perform_io or inside a handler keeps running, *)
(* and the target answers every request it was given (an assumption on the *)
(* target, which the stage before jsonrpc-batch cannot enforce).           *)
(***************************************************************************)
Fairness ==
  /\ WF_vars(PerformIo)
  /\ WF_vars(\E t \in Runners, r \in Items : Handler(t, r))

FairSpec == Spec /\ Fairness
-----------------------------------------------------------------------------
(* Properties *)

TypeOK ==
  /\ class \in Classes
  /\ items \in Seq(Kinds)
  /\ stage \in Stages
  /\ next \in Nat \ {0}
  /\ slots \in Seq({0} \cup Items)
  /\ slotOf \in [Items -> 0 .. Len(slots)]
  /\ calls \in Seq(Requests)
  /\ pcount \in Nat
  /\ phase \in [Items -> Phases]
  /\ busy \in [Threads -> {0} \cup Requests]
  /\ ran \subseteq Threads
  /\ sent \in Seq(Items)
  /\ replies \in Seq(Seq({0} \cup Items))

\* A reply is full: it holds a response for every element that wants one, no
\* null slot, nothing for a notification, and the responses stand in the order
\* of the elements. This is what the counter, the positions captured by the
\* handlers and the order of the two loops are for, on any number of threads.
FullReply(reply) ==
  /\ \A k \in DOMAIN reply : reply[k] \in Answerable
  /\ \A i \in Answerable : \E k \in DOMAIN reply : reply[k] = i
  /\ \A k, l \in DOMAIN reply : k < l => reply[k] < reply[l]

\* Every array that leaves perform_io or a handler is full, or is the error
\* about a packet that could not be split.
RepliesAreFull ==
  \A k \in DOMAIN replies :
    \/ FullReply(replies[k]) /\ replies[k] # <<>>
    \/ replies[k] = PacketError /\ items = <<>> /\ class \in {"broken", "array"}

\* A reply is owed to a packet that is refused or that wants a response.
ReplyDue == class = "broken" \/ (class = "array" /\ (items = <<>> \/ Answerable # {}))

\* No reply is lost: when perform_io and all the handlers have returned, a packet
\* that was owed a reply has had one, and a packet of notifications has had none.
NoLostReply == Quiet => (ReplyDue <=> replies # <<>>)

\* The client gets at most one reply to a packet (Readme.md, JSONRPC-BATCH: the
\* array of responses is formed and sent as soon as all are collected). It
\* holds when one thread runs the handlers and not when two do.
AtMostOneReply == Len(replies) <= 1

\* The elements whose response sits in the reply under construction.
Collected == {i \in Items : slotOf[i] # 0 /\ slots[slotOf[i]] # 0}

Promise == INSTANCE BatchPromise WITH
  due <- ReplyDue, want <- Answerable, have <- Collected, answers <- Len(replies),
  limit <- IF ran = {} THEN 1 ELSE Cardinality(ran)

\* jsonrpc-batch keeps its promise: every step collects one response, sends a full
\* reply or is invisible, there is at most one reply to each thread that has run
\* a handler, and a reply is sent if the target answers.
KeepsPromise == Promise!Spec
=============================================================================
