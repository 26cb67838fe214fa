------------------------------ MODULE Statistics ------------------------------
(***************************************************************************)
(* jsonrpc-statistics (package/statistics/statistics/statistics.cpp):      *)
(* counts the messages that pass and measures the answers.                 *)
(*                                                                         *)
(* A meter is made from a prototype, and prototypes are kept by method in  *)
(* _req_meters and _ntf_meters, and in _other for the rest. The mutex      *)
(* protects them and the options; a call reads the options without it, and *)
(* asks for the statistics object, which may come and go, before it takes  *)
(* the mutex and again when the meter is made. Of the names of a prototype *)
(* the model keeps the one that depends on an option: whether it measures  *)
(* the sizes of answers.                                                   *)
(***************************************************************************)
EXTENDS Naturals, FiniteSets

CONSTANTS
  Calls,      \* messages
  Kinds,      \* what messages may be
  Methods,    \* the methods they may have
  MaxEvents   \* bound on reconfigurations, and on comings and goings of the statistics

ASSUME KindsAssumption == Kinds \subseteq {"request", "notify", "other"}
ASSUME BoundAssumption == MaxEvents \in Nat

VARIABLES
  writeSize,  \* _enable_write_size
  errorStat,  \* _enable_error_stat
  stat,       \* get_statistics() is not null
  cache,      \* the prototypes of _req_meters, _ntf_meters and _other
  msg,        \* what each message is: [kind, method]
  pc,         \* where it is
  hasStat,    \* what get_statistics() was at its first reading
  meter,      \* the meter of the call
  wants,      \* the options that the call has read: [writeSize, errorStat]
  measured,   \* messages whose answer has been measured
  answered,   \* messages whose answer has been passed on
  \* What has happened, for the properties:
  events,     \* reconfigurations, comings and goings
  changed,    \* calls in whose middle there was a reconfiguration
  enabled     \* calls in whose middle the statistics came

options == <<writeSize, errorStat>>
call == <<msg, pc, hasStat, meter, wants>>
results == <<measured, answered>>
history == <<events, changed, enabled>>
vars == <<options, stat, cache, call, results, history>>

NoMeter == "null"
Sized == "with write size"
Unsized == "without write size"
Meters == {NoMeter, Sized, Unsized}

\* _other has no method, and a notification has no answer to measure.
Key(c) == IF msg[c].kind = "other" THEN <<"other", "">> ELSE <<msg[c].kind, msg[c].method>>
Keys == ({"request", "notify"} \X Methods) \cup {<<"other", "">>}

Prototype(key) == IF writeSize /\ key[1] # "notify" THEN Sized ELSE Unsized

Init ==
  /\ writeSize \in BOOLEAN /\ errorStat \in BOOLEAN
  /\ stat \in BOOLEAN
  /\ cache = [k \in Keys |-> NoMeter]
  /\ msg \in [Calls -> [kind : Kinds, method : Methods]]
  /\ pc = [c \in Calls |-> "new"]
  /\ hasStat = [c \in Calls |-> FALSE]
  /\ meter = [c \in Calls |-> NoMeter]
  /\ wants = [c \in Calls |-> [writeSize |-> FALSE, errorStat |-> FALSE]]
  /\ measured = {} /\ answered = {}
  /\ events = 0 /\ changed = {} /\ enabled = {}

Underway == {c \in Calls : pc[c] \in {"stat", "metered"}}

-----------------------------------------------------------------------------
\* A slip: the prototypes stay.
ReconfigureOptions ==
  /\ events < MaxEvents
  /\ events' = events + 1
  /\ writeSize' \in BOOLEAN /\ errorStat' \in BOOLEAN
  /\ changed' = changed \cup Underway
  /\ UNCHANGED <<stat, cache, call, results, enabled>>

\* reconfigure: the options change and the prototypes of methods are forgotten, under
\* the mutex; _other stays.
Reconfigure ==
  /\ events < MaxEvents
  /\ events' = events + 1
  /\ writeSize' \in BOOLEAN /\ errorStat' \in BOOLEAN
  /\ cache' = [k \in Keys |-> IF k[1] = "other" THEN cache[k] ELSE NoMeter]
  /\ changed' = changed \cup Underway
  /\ UNCHANGED <<stat, call, results, enabled>>

\* The object of the statistics comes or goes.
Switch ==
  /\ events < MaxEvents
  /\ events' = events + 1
  /\ stat' = ~stat
  /\ enabled' = IF stat' THEN enabled \cup Underway ELSE enabled
  /\ UNCHANGED <<options, cache, call, results, changed>>

\* perform_incoming. Suspended, it passes the message on with its handler.
Pass(c) ==
  /\ pc[c] = "new"
  /\ pc' = [pc EXCEPT ![c] = "target"]
  /\ UNCHANGED <<options, stat, cache, msg, hasStat, meter, wants, results, history>>

\* request_meter_, notify_meter_, other_meter_: first the statistics,
GetStatistics(c) ==
  /\ pc[c] = "new"
  /\ pc' = [pc EXCEPT ![c] = "stat"]
  /\ hasStat' = [hasStat EXCEPT ![c] = stat]
  /\ UNCHANGED <<options, stat, cache, msg, meter, wants, results, history>>

\* then, under the mutex, the prototype and a meter like it.
CreateMeter(c) ==
  /\ pc[c] = "stat"
  /\ pc' = [pc EXCEPT ![c] = "metered"]
  /\ IF hasStat[c]
     THEN LET k == Key(c)
              p == IF cache[k] = NoMeter THEN Prototype(k) ELSE cache[k]
          IN  cache' = [cache EXCEPT ![k] = p] /\ meter' = [meter EXCEPT ![c] = p]
     ELSE UNCHANGED <<cache, meter>>
  /\ UNCHANGED <<options, stat, msg, hasStat, wants, results, history>>

\* A slip: the answer is measured whether the statistics are there or not.
ForwardAlways(c) ==
  /\ pc[c] = "metered"
  /\ wants' = [wants EXCEPT ![c] = [writeSize |-> writeSize, errorStat |-> errorStat]]
  /\ pc' = [pc EXCEPT ![c] = IF writeSize \/ errorStat THEN "measure" ELSE "target"]
  /\ UNCHANGED <<options, stat, cache, msg, hasStat, meter, results, history>>

\* The options are read without the mutex, and when one of them is set the answer is to
\* be measured as long as the statistics that there are now live.
Forward(c) ==
  /\ pc[c] = "metered"
  /\ wants' = [wants EXCEPT ![c] = [writeSize |-> writeSize, errorStat |-> errorStat]]
  /\ pc' = [pc EXCEPT ![c] = IF (writeSize \/ errorStat) /\ stat THEN "measure" ELSE "target"]
  /\ UNCHANGED <<options, stat, cache, msg, hasStat, meter, results, history>>

\* The target answers a request, with a result or an error. An answer is measured if the
\* statistics object of the call still lives, by the meter of the call, which is not
\* looked at: it may be null.
Answer(c) ==
  /\ msg[c].kind = "request"
  /\ \/ /\ pc[c] \in {"target", "measure"}
        /\ pc' = [pc EXCEPT ![c] = "done"]
        /\ answered' = answered \cup {c}
        /\ UNCHANGED measured
     \/ /\ pc[c] = "measure"
        /\ IF wants[c].writeSize /\ meter[c] = NoMeter
           THEN pc' = [pc EXCEPT ![c] = "crash"] /\ UNCHANGED results
           ELSE /\ pc' = [pc EXCEPT ![c] = "done"]
                /\ answered' = answered \cup {c}
                /\ measured' = IF wants[c].writeSize /\ meter[c] = Sized
                               THEN measured \cup {c} ELSE measured
  /\ UNCHANGED <<options, stat, cache, msg, hasStat, meter, wants, history>>

Over ==
  /\ \A c \in Calls : pc[c] \in {"done", "crash"} \/ msg[c].kind # "request"
  /\ UNCHANGED vars

Next ==
  \/ Reconfigure \/ Switch \/ Over
  \/ \E c \in Calls : Pass(c) \/ GetStatistics(c) \/ CreateMeter(c) \/ Forward(c) \/ Answer(c)

Spec == Init /\ [][Next]_vars

-----------------------------------------------------------------------------
(* Properties *)

\* Types, and the prototypes that are kept follow the options: a method measures the
\* sizes of its answers if and only if the option says so, whatever reconfigurations have
\* raced the calls that made its prototype. _other alone may keep an old one.
CacheCoherent ==
  /\ cache \in [Keys -> Meters] /\ meter \in [Calls -> Meters]
  /\ \A k \in Keys :
       k[1] # "other" => cache[k] \in {NoMeter, Prototype(k)}

\* A call that wants to measure has a meter that can, unless the options changed or the
\* statistics came in the middle of it; and nothing calls a null meter but then.
MetersFit ==
  \A c \in Calls :
    /\ pc[c] = "measure" /\ msg[c].kind = "request" /\ c \notin changed \cup enabled =>
         meter[c] = (IF wants[c].writeSize THEN Sized ELSE Unsized)
    /\ pc[c] = "crash" => c \in enabled
=============================================================================
