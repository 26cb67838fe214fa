--------------------------- MODULE BrokerPromise ---------------------------
(***************************************************************************)
(* What jsonrpc-broker promises of the messages, without lists, locks or   *)
(* the steps of restart: there is one configuration, replaced as a whole.  *)
(* A message is refused or let in by the one it meets, and goes where the  *)
(* one that it meets then sends it. A message that is on its way when the  *)
(* configuration is replaced may be overtaken, and then go anywhere.       *)
(***************************************************************************)
CONSTANTS
  Messages, Calls, Targets,
  Configurations,  \* those that can be in force: [reject, rules]
  HasMethod(_),    \* whether a call names a method
  Rejects(_, _),   \* whether a reject list refuses a call
  Route(_, _),     \* where rules send a call
  Default, Refused, NoTarget

VARIABLES
  conf,       \* the configuration in force
  suspended,  \* messages pass by
  call,       \* what each message asks
  stage,      \* whether it is new, on its way or done
  dest,       \* where it has gone
  overtaken   \* those that were on their way when the configuration was replaced

vars == <<conf, suspended, call, stage, dest, overtaken>>

Init ==
  /\ conf \in Configurations
  /\ suspended \in BOOLEAN
  /\ call \in [Messages -> Calls]
  /\ stage = [m \in Messages |-> "new"]
  /\ dest = [m \in Messages |-> NoTarget]
  /\ overtaken = {}

-----------------------------------------------------------------------------
Replace ==
  /\ conf' \in Configurations
  /\ \E ms \in SUBSET {m \in Messages : stage[m] = "underway"} :
       overtaken' = overtaken \cup ms
  /\ UNCHANGED <<suspended, call, stage, dest>>

Suspend ==
  /\ suspended' = ~suspended
  /\ UNCHANGED <<conf, call, stage, dest, overtaken>>

Send(m, t) ==
  /\ stage' = [stage EXCEPT ![m] = "done"]
  /\ dest' = [dest EXCEPT ![m] = t]
  /\ UNCHANGED <<conf, suspended, call, overtaken>>

PassBy(m) ==
  /\ stage[m] = "new"
  /\ suspended \/ ~HasMethod(call[m])
  /\ Send(m, Default)

Meets(m) == stage[m] = "new" /\ ~suspended /\ HasMethod(call[m])

Refuse(m) == Meets(m) /\ Rejects(conf.reject, call[m]) /\ Send(m, Refused)

LetIn(m) ==
  /\ Meets(m) /\ ~Rejects(conf.reject, call[m])
  /\ stage' = [stage EXCEPT ![m] = "underway"]
  /\ UNCHANGED <<conf, suspended, call, dest, overtaken>>

Forward(m) ==
  /\ stage[m] = "underway"
  /\ \E t \in Targets \cup {Default} :
       Send(m, t) /\ (m \in overtaken \/ t = Route(conf.rules, call[m]))

Next ==
  \/ Replace \/ Suspend
  \/ \E m \in Messages : PassBy(m) \/ Refuse(m) \/ LetIn(m) \/ Forward(m)

Spec == Init /\ [][Next]_vars
=============================================================================
