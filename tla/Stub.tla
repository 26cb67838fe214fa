--------------------------------- MODULE Stub ---------------------------------
(***************************************************************************)
(* jsonrpc-stub (package/stub/stub/stub.cpp): turns requests into          *)
(* notifications and notifications into requests, and answers in place of  *)
(* its target, after it or in advance of it.                               *)
(*                                                                         *)
(* All of that is done by a stab_handler, which reg_io makes for each      *)
(* connection with a copy of the options. Connections share nothing else,  *)
(* so one connection is modelled: its client sends requests and            *)
(* notifications up, and the target calls the client down. The target      *)
(* answers a request by the handler it came with or by a response on the   *)
(* interface that reg_io gave it; the second is what _wait_responce is for.*)
(***************************************************************************)
EXTENDS Naturals, Sequences, FiniteSets, Functions

CONSTANTS
  Requests,   \* requests of the client
  Notifies,   \* notifications of the client
  Calls,      \* requests of the target to the client
  Ids,        \* the identifiers the two sides use
  Confs,      \* the options that may be configured
  Env         \* the events of the environment that may occur

Modes == {"forward_response", "ignore_errors", "fake_response", "advance_response"}

Options == [mode : Modes, to_notify : BOOLEAN, to_request : BOOLEAN]

ASSUME ConfsAssumption == Confs \subseteq Options
ASSUME KindsAssumption ==
  Requests \cap Notifies = {} /\ Requests \cap Calls = {} /\ Notifies \cap Calls = {}
ASSUME EnvAssumption == Env \subseteq {"suspend", "reconfigure", "close"}

Messages == Requests \cup Notifies

VARIABLES
  conf,       \* _conf
  suspended,  \* the domain is suspended
  itf,        \* what the target calls the client by: nothing, the client, or the
              \* stab_handler, which is "registering" until _handler_map has it
  handler,    \* the options of the stab_handler, {} for none
  wait,       \* its _wait_responce
  pc,         \* where each message is
  pstub,      \* the stab_handler that perform_incoming has found for it
  held,       \* the response handler the target has: as it came, wrapped, mute
  idOf,       \* the identifier of each request and call
  answers,    \* what the handler of each message has been called with
  \* What has happened, for the properties:
  shared,     \* messages that the target had together under one identifier
  swallowed,  \* answers of the target that _wait_responce has stopped
  thrown      \* answers lost to the call of an empty handler

settings == <<conf, suspended>>
calls == <<pc, pstub, held, idOf>>
history == <<shared, swallowed, thrown>>
vars == <<settings, itf, handler, wait, calls, answers, history>>

Everything == Messages \cup Calls

NoId == "none"

ASSUME IdsAssumption == NoId \notin Ids

\* A message passed to the target as it came, or waiting for the answer to it.
Stages == {"new", "found", "made", "request", "notify", "done"}

Advance(opt) == opt.mode = "advance_response"

-----------------------------------------------------------------------------
Init ==
  /\ conf \in Confs
  /\ suspended \in (IF "suspend" \in Env THEN BOOLEAN ELSE {FALSE})
  /\ itf = "none"
  /\ handler = {}
  /\ wait = {}
  /\ pc = [m \in Everything |-> "new"]
  /\ pstub = [m \in Messages |-> {}]
  /\ held = [m \in Messages |-> "raw"]
  /\ idOf = [m \in Everything |-> NoId]
  /\ answers = [m \in Everything |-> <<>>]
  /\ shared = {} /\ swallowed = {} /\ thrown = {}

\* reg_io, once for a connection: the target gets the stab_handler in place of the
\* client, but nothing is made when the domain is suspended.
RegIo ==
  /\ itf = "none"
  /\ itf' = IF suspended THEN "client" ELSE "registering"
  /\ handler' = IF suspended THEN {} ELSE {conf}
  /\ UNCHANGED <<settings, wait, calls, answers, history>>

\* After the target _handler_map gets it, under the mutex.
InsertHandler ==
  /\ itf = "registering"
  /\ itf' = "stub"
  /\ UNCHANGED <<settings, handler, wait, calls, answers, history>>

\* _handler_map[io_id].
Mapped == IF itf = "stub" THEN handler ELSE {}

\* A slip: the stab_handler stays in the map of a connection that has gone.
UnregIoNotMap ==
  /\ "close" \in Env
  /\ itf \in {"client", "stub"}
  /\ itf' = "closed"
  /\ UNCHANGED <<settings, handler, wait, calls, answers, history>>

\* unreg_io. The stab_handler goes when the last call that has found it returns.
UnregIo ==
  /\ "close" \in Env
  /\ itf \in {"client", "stub"}
  /\ itf' = "closed"
  /\ handler' = {}
  /\ UNCHANGED <<settings, wait, calls, answers, history>>

Alive == handler # {} \/ \E m \in Messages : pc[m] \in {"found", "made"}

Suspend ==
  /\ "suspend" \in Env
  /\ suspended' = ~suspended
  /\ UNCHANGED <<conf, itf, handler, wait, calls, answers, history>>

\* restart. The connections keep the options they were registered with.
Restart ==
  /\ "reconfigure" \in Env
  /\ conf' \in Confs
  /\ UNCHANGED <<suspended, itf, handler, wait, calls, answers, history>>

Gets(m, answer) == answers' = [answers EXCEPT ![m] = Append(@, answer)]

Pending(m) == pc[m] \notin {"new", "done"}

\* m gets the identifier i: shared remembers who has it at the same time.
Identify(m, i) ==
  LET others == {q \in Everything \ {m} : idOf[q] = i /\ Pending(q)}
  IN  /\ idOf' = [idOf EXCEPT ![m] = i]
      /\ shared' = shared \cup (IF others = {} THEN {} ELSE others \cup {m})

-----------------------------------------------------------------------------
(* perform_incoming, for the messages of the client *)

Kind(m) == IF m \in Notifies THEN "notify" ELSE "request"

\* The handler of the connection is looked up; without one, or suspended, the message
\* goes to the target as it is. A client uses an identifier again when the request
\* that had it is answered, and notifications have none.
Find(m) ==
  /\ pc[m] = "new"
  /\ itf # "closed"
  /\ IF m \in Notifies THEN UNCHANGED <<idOf, shared>>
     ELSE \E i \in Ids : /\ \A q \in Requests : idOf[q] = i => answers[q] # <<>>
                         /\ Identify(m, i)
  /\ pstub' = [pstub EXCEPT ![m] = IF suspended THEN {} ELSE Mapped]
  /\ pc' = [pc EXCEPT ![m] = IF pstub'[m] = {} THEN Kind(m) ELSE "found"]
  /\ UNCHANGED <<settings, itf, handler, wait, held, answers, swallowed, thrown>>

\* A slip: the real handler goes on with a request that was answered in advance.
MakeAlways(m) ==
  /\ pc[m] = "found"
  /\ pc' = [pc EXCEPT ![m] = "made"]
  /\ held' = [held EXCEPT ![m] = "wrapped"]
  /\ \E opt \in pstub[m] :
       IF Advance(opt) /\ m \in Requests
       THEN wait' = wait \cup {idOf[m]} /\ Gets(m, "fake")
       ELSE UNCHANGED <<wait, answers>>
  /\ UNCHANGED <<settings, itf, handler, pstub, idOf, history>>

\* A slip: the identifier is remembered and the answer is left to the target.
MakeUnanswered(m) ==
  /\ pc[m] = "found"
  /\ pc' = [pc EXCEPT ![m] = "made"]
  /\ \E opt \in pstub[m] :
       /\ held' = [held EXCEPT ![m] = IF Advance(opt) THEN "mute" ELSE "wrapped"]
       /\ wait' = IF Advance(opt) /\ m \in Requests THEN wait \cup {idOf[m]} ELSE wait
  /\ UNCHANGED <<settings, itf, handler, pstub, idOf, answers, history>>

\* make(handler, raw_id): in advance mode the request is answered, its identifier is
\* remembered and the target gets a handler that does nothing.
Make(m) ==
  /\ pc[m] = "found"
  /\ pc' = [pc EXCEPT ![m] = "made"]
  /\ \E opt \in pstub[m] :
       /\ held' = [held EXCEPT ![m] = IF Advance(opt) THEN "mute" ELSE "wrapped"]
       /\ IF Advance(opt) /\ m \in Requests
          THEN wait' = wait \cup {idOf[m]} /\ Gets(m, "fake")
          ELSE UNCHANGED <<wait, answers>>
  /\ UNCHANGED <<settings, itf, handler, pstub, idOf, history>>

\* A slip: a request that becomes a notification is answered by nobody, and a notification
\* stays one.
PassSilently(m) ==
  /\ pc[m] = "made"
  /\ \E opt \in pstub[m] :
       /\ pc' = [pc EXCEPT ![m] = IF opt.to_notify THEN "notify" ELSE Kind(m)]
       /\ UNCHANGED <<idOf, shared, answers>>
  /\ UNCHANGED <<settings, itf, handler, wait, pstub, held, swallowed, thrown>>

\* make(holder, handler), then the target. A request that becomes a notification is
\* answered; a notification that becomes a request gets its identifier from a counter
\* that knows nothing of the identifiers of the client.
Pass(m) ==
  /\ pc[m] = "made"
  /\ \E opt \in pstub[m] :
       IF opt.to_notify /\ m \in Requests
       THEN /\ pc' = [pc EXCEPT ![m] = "notify"]
            /\ IF Advance(opt) THEN UNCHANGED answers ELSE Gets(m, "fake")
            /\ UNCHANGED <<idOf, shared>>
       ELSE IF opt.to_request /\ m \in Notifies
       THEN /\ pc' = [pc EXCEPT ![m] = "request"]
            /\ \E i \in Ids : Identify(m, i)
            /\ UNCHANGED answers
       ELSE /\ pc' = [pc EXCEPT ![m] = Kind(m)]
            /\ UNCHANGED <<idOf, shared, answers>>
  /\ UNCHANGED <<settings, itf, handler, wait, pstub, held, swallowed, thrown>>

-----------------------------------------------------------------------------
(* The target answers: a request once, with a result or an error, and a notification
   never. What the client gets is that real answer or the substitute. *)

Kinds == {"result", "error"}

Finish(m) == pc' = [pc EXCEPT ![m] = "done"]

\* A wrapped handler is tied to the life of the stab_handler.
Effective(m) == held[m] = "raw" \/ (held[m] = "wrapped" /\ Alive)

\* By the handler, whose make substitutes nothing: it looks for requests and notifications
\* only. What a notification came with, and is wrapped when it becomes a request, is empty.
ByHandler(m) ==
  /\ pc[m] = "request"
  /\ Finish(m)
  /\ \/ Effective(m) /\ m \in Requests /\ Gets(m, "real") /\ UNCHANGED thrown
     \/ Effective(m) /\ m \in Notifies /\ thrown' = thrown \cup {m} /\ UNCHANGED answers
     \/ ~Effective(m) /\ UNCHANGED <<answers, thrown>>
  /\ UNCHANGED <<settings, itf, handler, wait, pstub, held, idOf, shared, swallowed>>

\* make(holder, handler) of an answer.
Substitute(opt, kind) ==
  IF opt.mode = "fake_response" \/ (opt.mode = "ignore_errors" /\ kind = "error")
  THEN "fake" ELSE "real"

\* make(handler, raw_id) when the message is itself an answer: what it calls is the
\* handler that came with the answer, which may be empty.
AnswersAnswer(m, opt, kind) ==
  /\ wait' = IF Advance(opt) THEN wait \cup {idOf[m]} ELSE wait
  /\ \/ (Gets(m, Substitute(opt, kind)) /\ UNCHANGED thrown)
     \/ (Advance(opt) /\ thrown' = thrown \cup {m} /\ UNCHANGED answers)

\* By the interface: stab_handler::perform_incoming, or the client itself when the
\* stub was suspended at the time of reg_io.
ByInterface(m, kind) ==
  /\ pc[m] = "request"
  /\ Finish(m)
  /\ \/ /\ itf = "client"
        /\ Gets(m, "real")
        /\ UNCHANGED <<wait, swallowed, thrown>>
     \/ /\ itf \in {"registering", "stub"}
        /\ \E opt \in handler :
             \/ /\ Advance(opt) /\ idOf[m] \in wait
                /\ wait' = wait \ {idOf[m]}
                /\ swallowed' = swallowed \cup {m}
                /\ UNCHANGED <<answers, thrown>>
             \/ /\ ~(Advance(opt) /\ idOf[m] \in wait)
                /\ AnswersAnswer(m, opt, kind)
                /\ UNCHANGED swallowed
  /\ UNCHANGED <<settings, itf, handler, pstub, held, idOf, shared>>

-----------------------------------------------------------------------------
(* The target calls the client *)

\* stab_handler::perform_outgoing; stub::perform_outgoing does the same for calls in
\* the other direction.
CallOut(c) ==
  /\ pc[c] = "new"
  /\ itf \in {"client", "registering", "stub"}
  /\ \E i \in Ids : Identify(c, i)
  /\ \/ \E opt \in handler :
          /\ opt.to_notify
          /\ pc' = [pc EXCEPT ![c] = "notify"]
          /\ IF Advance(opt) THEN UNCHANGED answers ELSE Gets(c, "fake")
     \/ /\ \A opt \in handler : ~opt.to_notify
        /\ pc' = [pc EXCEPT ![c] = "request"]
        /\ UNCHANGED answers
  /\ UNCHANGED <<settings, itf, handler, wait, pstub, held, swallowed, thrown>>

\* The client answers, and the answer comes as an incoming message.
Reply(c, kind) ==
  /\ pc[c] = "request"
  /\ itf # "closed"
  /\ Finish(c)
  /\ \/ /\ suspended \/ Mapped = {}
        /\ Gets(c, "real")
        /\ UNCHANGED <<wait, thrown>>
     \/ /\ ~suspended
        /\ \E opt \in Mapped : AnswersAnswer(c, opt, kind)
  /\ UNCHANGED <<settings, itf, handler, pstub, held, idOf, shared, swallowed>>

-----------------------------------------------------------------------------
Incoming(m) == Find(m) \/ Make(m) \/ Pass(m)

Answer(m) == ByHandler(m) \/ \E kind \in Kinds : ByInterface(m, kind)

Environment == RegIo \/ InsertHandler \/ UnregIo \/ Suspend \/ Restart

Done ==
  /\ \A m \in Everything : pc[m] \in {"notify", "done"} \/ itf = "closed"
  /\ UNCHANGED vars

Next ==
  \/ Environment
  \/ \E m \in Messages : Incoming(m) \/ Answer(m)
  \/ \E c \in Calls : CallOut(c) \/ \E kind \in Kinds : Reply(c, kind)
  \/ Done

Spec == Init /\ [][Next]_vars

\* A call that perform_incoming has begun runs to its end, and both sides answer what
\* they have got, by one of the ways they have.
FairSpec ==
  /\ Spec
  /\ \A m \in Messages : WF_vars(Make(m)) /\ WF_vars(Pass(m)) /\ WF_vars(Answer(m))
  /\ \A c \in Calls : WF_vars(\E kind \in Kinds : Reply(c, kind))

-----------------------------------------------------------------------------
(* Properties *)

\* Types. The target has a stab_handler to call from reg_io to unreg_io, and a
\* message that the stub converts has the options of the connection.
TypeOK ==
  /\ conf \in Confs /\ suspended \in BOOLEAN
  /\ itf \in {"none", "client", "registering", "stub", "closed"}
  /\ handler \subseteq Confs
  /\ Cardinality(handler) = (IF itf \in {"registering", "stub"} THEN 1 ELSE 0)
  /\ wait \subseteq Ids
  /\ pc \in [Everything -> Stages]
  /\ \A m \in Messages : pstub[m] \subseteq Confs /\ held[m] \in {"raw", "wrapped", "mute"}
  /\ \A m \in Messages : pc[m] \in {"found", "made"} => Cardinality(pstub[m]) = 1
  /\ \A m \in Everything : idOf[m] \in Ids \cup {NoId} /\ Len(answers[m]) <= 2
  /\ shared \subseteq Everything /\ swallowed \subseteq Messages /\ thrown \subseteq Everything

\* No request gets a second answer, the substitute and the real one, or both by
\* different ways, whatever is suspended, reconfigured or closed meanwhile; unless its
\* identifier was in use twice at the target, for _wait_responce has one entry for both.
OneAnswer == \A m \in Everything \ shared : Len(answers[m]) <= 1

\* The answer that _wait_responce stops belongs to a request that was answered in
\* advance; otherwise a stale identifier has taken the only answer of a request that
\* went round the stub while it was suspended or not yet in _handler_map.
StoppedWereAnswered ==
  \A m \in swallowed \cap Requests : answers[m] = <<>> => pstub[m] = {}

\* In advance mode the client has its answer before the target has the request, and
\* never the answer of the target, unless the identifier was in use twice.
AnsweredInAdvance ==
  \A m \in Requests :
    /\ \E opt \in pstub[m] : Advance(opt)
    /\ pc[m] \in {"request", "notify", "done"}
    => answers[m] # <<>> /\ answers[m][1] = "fake" /\ (m \notin shared => Len(answers[m]) = 1)

\* A request of a client that stays is answered in the end, unless the answer was lost
\* to an empty handler or, when it went round the stub, to a stale identifier; and so is
\* a call of the target, but when it becomes a notification in advance mode.
Unanswerable(m) ==
  \/ itf = "closed" \/ m \in thrown
  \/ m \in swallowed /\ pstub[m] = {}
  \/ m \in Calls /\ \E opt \in handler : opt.to_notify /\ Advance(opt)

EventuallyAnswered ==
  \A m \in Requests \cup Calls : pc[m] # "new" ~> answers[m] # <<>> \/ Unanswerable(m)
=============================================================================
