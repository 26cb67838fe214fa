-------------------------------- MODULE Queue --------------------------------
(***************************************************************************)
(* jsonrpc-queue (package/queue/queue/queue.cpp): passes messages to its   *)
(* target through a workflow, a bounded queue served by threads.           *)
(*                                                                         *)
(* A message that the workflow has no place for is dropped; a request is   *)
(* then answered with the error QueueOverflow. A request whose client has  *)
(* disconnected is not executed when tracking is on. Responses go back     *)
(* through a second workflow, the callback workflow, when there is one.    *)
(*                                                                         *)
(* A suspended queue passes messages to the target directly. restart and   *)
(* stop replace the callback workflow while messages are on their way.     *)
(***************************************************************************)
EXTENDS Naturals, Sequences, FiniteSets, Functions, SequencesExt

CONSTANTS
  Requests,        \* incoming requests
  Notifies,        \* incoming notifications
  Outgoing,        \* messages of perform_outgoing
  Clients,         \* connections (io_id)
  Workers,         \* threads of the workflow
  Capacity,        \* maximum size of the workflow
  CallbackCapacity,\* maximum size of the callback workflow
  Tracking,        \* option "tracking"
  Env              \* the events of the environment that may occur

ASSUME KindsAssumption ==
  /\ Requests \cap Notifies = {} /\ Requests \cap Outgoing = {}
  /\ Notifies \cap Outgoing = {}
ASSUME CapacityAssumption == Capacity \in Nat \ {0} /\ CallbackCapacity \in Nat \ {0}
ASSUME OptionsAssumption ==
  Tracking \in BOOLEAN /\ Env \subseteq {"suspend", "reconfigure", "disconnect"}
ASSUME WorkersAssumption == IsFiniteSet(Workers)

Incoming == Requests \cup Notifies

Messages == Incoming \cup Outgoing

VARIABLES
  from,       \* the connection of each message
  connected,  \* the connections that are open
  suspended,  \* the domain is suspended
  callback,   \* _callback_workflow is set
  tasks,      \* the workflow: messages waiting for a thread
  hands,      \* per thread, the messages it has taken and not yet executed
  open,       \* requests at the target, whose handler it has not called
  wrapped,    \* those whose handler looks for the callback workflow
  responses,  \* the callback workflow: requests whose response is waiting
  \* What has happened, for the properties:
  arrived,    \* the messages, in the order they came
  executed,   \* the messages, in the order the target got them
  direct,     \* those passed to it while the domain was suspended
  answers,    \* how many answers each request got
  refused,    \* dropped by the workflow
  untracked,  \* requests dropped because their client had disconnected
  lost        \* requests whose response the callback workflow dropped

work == <<tasks, hands>>
replying == <<open, wrapped, responses>>
settings == <<from, connected, suspended, callback>>
history == <<arrived, executed, direct, answers, refused, untracked, lost>>
vars == <<settings, work, replying, history>>

-----------------------------------------------------------------------------
Init ==
  /\ from \in [Messages -> Clients]
  /\ connected = Clients
  /\ suspended = FALSE
  /\ callback \in BOOLEAN
  /\ tasks = <<>>
  /\ hands = [w \in Workers |-> {}]
  /\ open = {} /\ wrapped = {}
  /\ responses = <<>>
  /\ arrived = <<>> /\ executed = <<>>
  /\ answers = [r \in Requests |-> 0]
  /\ direct = {} /\ refused = {} /\ untracked = {} /\ lost = {}

\* A message comes from an open connection.
Arrive(m) ==
  /\ m \notin Range(arrived)
  /\ from[m] \in connected
  /\ arrived' = Append(arrived, m)

\* The handler of a request is called: the client gets an answer.
Answered(r) == answers' = [answers EXCEPT ![r] = @ + 1]

\* A slip: a notification gets a handler too.
ExecuteAlike(m, wrap) ==
  /\ executed' = Append(executed, m)
  /\ open' = open \cup {m}
  /\ wrapped' = IF wrap THEN wrapped \cup {m} ELSE wrapped

\* The target gets the message. make_outgoing_handler_ looks at the callback
\* workflow for the messages that come through the queue.
Execute(m, wrap) ==
  /\ executed' = Append(executed, m)
  /\ open' = open \cup ({m} \cap Requests)
  /\ wrapped' = IF wrap THEN wrapped \cup ({m} \cap Requests) ELSE wrapped

-----------------------------------------------------------------------------
(* perform_incoming and perform_outgoing *)

\* Suspended: straight to the target, with the handler as it is.
PassThrough(m) ==
  /\ suspended
  /\ Arrive(m)
  /\ Execute(m, FALSE)
  /\ direct' = direct \cup {m}
  /\ UNCHANGED <<settings, work, responses, answers, refused, untracked, lost>>

\* A slip: an outgoing message goes straight to the target.
PostIncomingOnly(m) ==
  /\ ~suspended
  /\ Arrive(m)
  /\ m \in Outgoing \/ Len(tasks) < Capacity
  /\ IF m \in Outgoing
     THEN Execute(m, FALSE) /\ UNCHANGED work
     ELSE tasks' = Append(tasks, m) /\ UNCHANGED <<hands, open, wrapped, executed>>
  /\ UNCHANGED <<settings, responses, answers, direct, refused, untracked, lost>>

Post(m) ==
  /\ ~suspended
  /\ Arrive(m)
  /\ Len(tasks) < Capacity
  /\ tasks' = Append(tasks, m)
  /\ UNCHANGED <<settings, hands, replying, executed, answers, direct, refused, untracked, lost>>

\* The workflow is full: it drops one message, new or waiting, the v-th, and calls
\* its drop function: drop_handler_, which answers a request with QueueOverflow,
\* or none for an outgoing message.
Overflow(m, v, left) ==
  /\ ~suspended
  /\ Arrive(m)
  /\ Len(tasks) = Capacity
  /\ tasks' = left
  /\ refused' = refused \cup {Append(tasks, m)[v]}
  /\ UNCHANGED <<settings, hands, replying, executed, direct, untracked, lost>>

DropAnswer(q) == IF q \in Requests THEN Answered(q) ELSE UNCHANGED answers

\* A slip: a request is refused without an answer.
RefuseSilently(m) ==
  \E v \in 1 .. Capacity + 1 :
    Overflow(m, v, RemoveAt(Append(tasks, m), v)) /\ UNCHANGED answers

PostFull(m) ==
  \E v \in 1 .. Capacity + 1 :
    /\ Overflow(m, v, RemoveAt(Append(tasks, m), v))
    /\ DropAnswer(Append(tasks, m)[v])

-----------------------------------------------------------------------------
(* The threads of the workflow *)

Take(w) ==
  /\ tasks # <<>>
  /\ hands[w] = {}
  /\ hands' = [hands EXCEPT ![w] = {Head(tasks)}]
  /\ tasks' = Tail(tasks)
  /\ UNCHANGED <<settings, replying, history>>

\* tracking, for requests only: the client has gone, nobody waits for the answer.
Gone(m) == Tracking /\ m \in Requests /\ from[m] \notin connected

DropUntracked(w) ==
  /\ \E m \in hands[w] : Gone(m) /\ untracked' = untracked \cup {m}
  /\ hands' = [hands EXCEPT ![w] = {}]
  /\ UNCHANGED <<settings, tasks, replying, arrived, executed, answers, direct, refused, lost>>

\* A slip: the task is run whoever has gone.
RunUntracked(w) ==
  /\ \E m \in hands[w] : Execute(m, callback)
  /\ hands' = [hands EXCEPT ![w] = {}]
  /\ UNCHANGED <<settings, tasks, responses, arrived, answers, direct, refused, untracked, lost>>

Run(w) ==
  /\ \E m \in hands[w] : ~Gone(m) /\ Execute(m, callback)
  /\ hands' = [hands EXCEPT ![w] = {}]
  /\ UNCHANGED <<settings, tasks, responses, arrived, answers, direct, refused, untracked, lost>>

-----------------------------------------------------------------------------
(* The answers of the target; a target calls a handler once *)

\* The handler returns to the client, or forgets it.
Handle(r, bare, answer) ==
  /\ r \in open
  /\ bare
  /\ open' = open \ {r}
  /\ IF answer THEN Answered(r) ELSE UNCHANGED answers
  /\ UNCHANGED <<settings, work, wrapped, responses, arrived, executed, direct, refused,
                 untracked, lost>>

\* Slips: the handler does nothing, or waits, when the callback workflow is gone.
ForgetDirectly(r) == Handle(r, r \notin wrapped \/ ~callback, r \notin wrapped)

WaitForCallback(r) == Handle(r, r \notin wrapped, TRUE)

\* The handler as it came, or one that finds the callback workflow gone.
RespondDirectly(r) == Handle(r, r \notin wrapped \/ ~callback, TRUE)

RespondByCallback(r) ==
  /\ r \in open \cap wrapped
  /\ callback
  /\ Len(responses) < CallbackCapacity
  /\ open' = open \ {r}
  /\ responses' = Append(responses, r)
  /\ UNCHANGED <<settings, work, wrapped, history>>

\* The callback workflow is full: it drops a response, and has no function to call.
LoseResponse(r) ==
  /\ r \in open \cap wrapped
  /\ callback
  /\ Len(responses) = CallbackCapacity
  /\ open' = open \ {r}
  /\ \E v \in 1 .. CallbackCapacity + 1 :
       /\ responses' = RemoveAt(Append(responses, r), v)
       /\ lost' = lost \cup {Append(responses, r)[v]}
  /\ UNCHANGED <<settings, work, wrapped, arrived, executed, answers, direct, refused, untracked>>

\* A thread of the callback workflow calls the handler.
Deliver ==
  /\ responses # <<>>
  /\ responses' = Tail(responses)
  /\ Answered(Head(responses))
  /\ UNCHANGED <<settings, work, open, wrapped, arrived, executed, direct, refused,
                 untracked, lost>>

-----------------------------------------------------------------------------
(* The environment *)

Suspend ==
  /\ "suspend" \in Env
  /\ suspended' = ~suspended
  /\ UNCHANGED <<from, connected, callback, work, replying, history>>

\* restart with another value of callback_queue, or stop.
Reconfigure ==
  /\ "reconfigure" \in Env
  /\ callback' = ~callback
  /\ UNCHANGED <<from, connected, suspended, work, replying, history>>

Disconnect(c) ==
  /\ "disconnect" \in Env
  /\ connected' = connected \ {c}
  /\ c \in connected
  /\ UNCHANGED <<from, suspended, callback, work, replying, history>>

Perform(m) == PassThrough(m) \/ Post(m) \/ PostFull(m)

Worker(w) == Take(w) \/ Run(w) \/ DropUntracked(w)

Target(r) == RespondDirectly(r) \/ RespondByCallback(r) \/ LoseResponse(r)

Next ==
  \/ \E m \in Messages : Perform(m)
  \/ \E w \in Workers : Worker(w)
  \/ \E r \in Requests : Target(r)
  \/ Deliver
  \/ Suspend \/ Reconfigure
  \/ \E c \in Clients : Disconnect(c)

Spec == Init /\ [][Next]_vars

(***************************************************************************)
(* Fairness: the threads of both workflows keep running, and the target    *)
(* calls the handler of every request it gets (an assumption on the        *)
(* target). Nothing is assumed of the clients.                             *)
(***************************************************************************)
FairSpec ==
  /\ Spec
  /\ \A w \in Workers : WF_vars(Worker(w))
  /\ \A r \in Requests : WF_vars(Target(r))
  /\ WF_vars(Deliver)
-----------------------------------------------------------------------------
(* Properties *)

TypeOK ==
  /\ from \in [Messages -> Clients] /\ connected \subseteq Clients
  /\ suspended \in BOOLEAN /\ callback \in BOOLEAN
  /\ tasks \in Seq(Messages) /\ hands \in [Workers -> SUBSET Messages]
  /\ open \subseteq Requests /\ wrapped \subseteq Requests
  /\ responses \in Seq(Requests)
  /\ arrived \in Seq(Messages) /\ executed \in Seq(Messages)
  /\ answers \in [Requests -> Nat]
  /\ direct \subseteq Messages /\ refused \subseteq Messages /\ untracked \subseteq Requests /\ lost \subseteq Requests

\* The places a request may be in on its way.
Waiting(r) == r \in Range(tasks) \/ \E w \in Workers : r \in hands[w]

Replying(r) == r \in open \/ r \in Range(responses)

\* A request is in one place or has one fate: it waits, is with the target or on its
\* way back, or has been answered, dropped with its client, or lost its answer in
\* the callback workflow. So it is answered once at most, by its result or by
\* QueueOverflow, and no request disappears in any other way, however the
\* queue is suspended and reconfigured meanwhile.
OneFate ==
  \A r \in Requests \cap Range(arrived) :
    LET here(b) == IF b THEN 1 ELSE 0
    IN  answers[r] + here(Waiting(r)) + here(Replying(r)) + here(r \in untracked)
          + here(r \in lost) = 1

\* Incoming and outgoing messages keep one order: nothing that has passed the queue,
\* to a thread or to the target, came after a message that still waits in it. On
\* one thread that is the order of execution. (Messages that came while the
\* domain was suspended do not pass the queue.)
InOrder ==
  \A q \in Range(tasks), m \in (Range(executed) \ direct) \cup UNION Range(hands) :
    \E i, j \in DOMAIN arrived : i < j /\ arrived[i] = m /\ arrived[j] = q

\* A request of a client that is gone is not executed by the queue (Readme.md,
\* JSONRPC-QUEUE: a message is thrown out of the queue if its client has
\* disconnected; notifications are not tracked and are executed all the same).
RequestsOfTheLiving ==
  [][\A r \in Requests : r \in Range(executed') \ Range(executed) => from[r] \in connected]_vars

\* Every request gets an answer in the end, unless its client has gone or the
\* callback workflow was full.
EventuallyAnswered ==
  \A r \in Requests : r \in Range(arrived) ~> (answers[r] = 1 \/ r \in untracked \cup lost)

\* Where the messages are for one who knows nothing of the workflows.
Whereabouts ==
  [waiting |-> Range(tasks) \cup UNION {hands[w] : w \in Workers},
   refused |-> refused, givenUp |-> untracked,
   target |-> open, back |-> Range(responses), lost |-> lost,
   answered |-> {r \in Requests : answers[r] = 1}]

Promise == INSTANCE QueuePromise WITH
  Room <- Capacity, Threads <- Cardinality(Workers), ReplyRoom <- CallbackCapacity,
  at <- Whereabouts

\* jsonrpc-queue keeps its promise: nobody is refused or loses an answer while there is
\* room, a request that is refused is answered at once, no more messages are overtaken
\* than there are threads, and nothing else happens to a message, suspension and
\* reconfiguration included.
KeepsPromise == Promise!Spec
=============================================================================
